-------------------------- MODULE KernelProperties --------------------------
(***************************************************************************)
(* What the process core promises, stated over module Kernel.              *)
(***************************************************************************)
EXTENDS Kernel

----------------------------------------------------------------------------
\* The types of the variables, one definition per part of the kernel.

ProcOK ==
    /\ state \in [Pids -> States] /\ current \in Pids
    /\ parent \in [Pids -> Pids \cup {NoPid}]
    /\ wake \in [Pids -> Nat]

MemOK == pt \in [Pids -> Tables] /\ spaces \in SUBSET Spaces

SigOK ==
    /\ action \in [Pids -> [AllSignals -> SignalActions]]
    /\ pending \in [Pids -> SUBSET AllSignals]

WaitersOK ==
    waiters \in [Slots -> [addr : Addrs \cup {0}, space : Tables, pid : Pids \cup {NoPid}]]

InboxOK == inbox \in [Pids -> Seq(Pids)]

ClaimsOK == ring \in Seq(Reports) /\ svcPid \in [Services -> Pids \cup {NoPid}]

SupOK ==
    /\ restarts \in [Services -> Nat] /\ windowAge \in [Services -> Nat]
    /\ gaveUp \in [Services -> BOOLEAN]

LoopOK ==
    /\ kpc \in {"idle", "drain", "decide", "restart", "reap"}
    /\ kreport \in Reports /\ kreap \in Pids /\ sinceNow \in Nat

\* Every variable holds a value the code can store in it.
TypeOK == ProcOK /\ MemOK /\ SigOK /\ WaitersOK /\ InboxOK /\ ClaimsOK /\ SupOK /\ LoopOK /\ files \in FileStates

----------------------------------------------------------------------------
\* PID 0 is Ready whenever it is not CURRENT (the comment in exit_current that
\* makes its fallback unreachable), and nothing but CURRENT is ever Running:
\* every handler that gives up the processor finds a successor.
SchedulerSafe ==
    /\ state[0] = IF current = 0 THEN "Running" ELSE "Ready"
    /\ \A p \in Pids : state[p] = "Running" => p = current
    /\ state[current] \in {"Running", "Dead"}

\* A process is Blocked exactly while it owns a waiter slot, and never more than
\* one, keyed by its own page table: no death, wake or slot reuse leaves a
\* waiter without its process or a blocked process nobody can wake (futex.rs).
BlockedIffWaiting ==
    /\ \A p \in Pids : state[p] = "Blocked" <=> \E s \in Slots : waiters[s].pid = p
    /\ \A s, t \in Slots : waiters[s].pid = waiters[t].pid /\ waiters[s].pid # NoPid => s = t
    /\ \A s \in Slots : waiters[s].pid # NoPid => waiters[s].space = pt[waiters[s].pid]

\* A supervised claim names a live process, and no two services claim one: a
\* fault on a reused pid is never charged to a service that died before
\* (supervisor.rs, clear_pid on every death path).
ClaimsLive ==
    /\ \A s \in Services : svcPid[s] # NoPid => svcPid[s] # 0 /\ Live(svcPid[s])
    /\ \A s, t \in Services : svcPid[s] = svcPid[t] /\ svcPid[s] # NoPid => s = t

\* Every user process that can still run owns an allocated L1 table of its own:
\* no table is freed under a process that runs on it, or given to two.
SpacesExclusive ==
    /\ \A p \in Pids \ {0} : Live(p) \/ p = current => pt[p] \in spaces
    /\ \A p, q \in Pids : p # q /\ pt[p] # NoSpace => pt[p] # pt[q]

\* A sleeper runs again only once its wake tick has come: neither a stale futex
\* slot nor a signal cuts a sleep short and leaves the process alive.
SleepIsNotCutShort ==
    [][\A p \in Pids : state[p] = "Sleeping" /\ state'[p] \in {"Ready", "Running"} => wake'[p] = 0]_vars

\* "Two processes can map the same virtual address without gaining the ability
\* to wake each other" (futex.rs): a blocked process is made runnable only from
\* its own address space.
FutexIsolation ==
    [][\A p \in Pids : state[p] = "Blocked" /\ state'[p] \in {"Ready", "Running"}
                          => pt[p] = pt[current]]_vars

\* No inbox overflows, and no user process reaches the inbox of PID 0, whose
\* capability none of them holds.
InboxesBounded == inbox[0] = EmptyInbox /\ \A p \in Pids : Len(inbox[p]) <= InboxSize

\* A raised signal that has a handler is not lost: a bit leaves the pending mask
\* only when the lowest signal of the process about to run is dispatched to its
\* handler, when the process execs, or when its slot is reaped.
PendingNotLost ==
    [][\A p \in Pids : \A sig \in pending[p] \ pending'[p] :
          \/ p = current' /\ sig = NextPending(pending[p]) /\ action[p][sig] = "Handler"
          \/ p = current /\ action'[p] = DefaultActions
          \/ state'[p] = "Free"]_vars

\* SIGKILL keeps its default action through sigaction, fork and exec.
KillUncatchable == \A p \in Pids : action[p][SIGKILL] = "Default"

----------------------------------------------------------------------------
\* Supervision.

ReportsOf(s) == {i \in 1 .. Len(ring) : ring[i].service = s}
InHand(s) == kreport.service = s /\ kpc \in {"decide", "restart"}
Claimed(s) == svcPid[s] # NoPid

\* A supervised service runs at most once: of its live claim, a fault report
\* that names it in the ring and the report PID 0 is handling there is never
\* more than one, however faults, kills and restarts interleave.
OneIncarnation ==
    \A s \in Services :
        /\ Claimed(s) => ReportsOf(s) = {} /\ ~ InHand(s)
        /\ \A i, j \in ReportsOf(s) : i = j
        /\ InHand(s) => ReportsOf(s) = {}

Down(s) == ~ Claimed(s) /\ ReportsOf(s) = {} /\ ~ InHand(s)

\* "A service that exits CLEANLY ... is provably never relaunched" (kardia.rs):
\* once no claim and no report of it is left, whether after an exit, a kill or
\* a give-up, nothing brings a service back.
DownIsFinal == [][\A s \in Services : Down(s) => Down(s)']_vars

\* The crash-loop budget: within one window the restarts granted never exceed
\* MAX_RESTARTS, and giving up happens with the budget spent.
RestartBudget ==
    \A s \in Services : restarts[s] <= MaxRestarts /\ (gaveUp[s] => restarts[s] = MaxRestarts /\ Down(s))

----------------------------------------------------------------------------
\* Descriptors and pipes.

\* How many fds, in all processes, name description i.
References(i) == Cardinality({x \in Pids \X Fds : files.tab[x[1]][x[2]].ofd = i})

\* No fd names a freed description, and no count is below the number of fds.
NoDanglingFd == \A i \in Ofds : References(i) <= files.ofd[i].refs

\* Reference counts stay exact through open, dup, dup2, fork, exec, exit and
\* faults: a description outlives its last descriptor only when waitpid drops the
\* fd table of a process that went on opening files after its death by a signal.
CountsExactButReap ==
    [][\A i \in Ofds : files'.ofd[i].refs - References(i)' > files.ofd[i].refs - References(i)
          => \E p \in Pids : state[p] = "Dead" /\ state'[p] = "Free" /\ Naming(files, p, i) # {}]_files

LiveFlags == {files.ofd[i].flags : i \in {j \in Ofds : files.ofd[j].refs > 0}}

\* A pipe end counts as open exactly while a description of that end lives, and
\* the pipe slot is free exactly when both ends are gone: no early EOF or
\* SIGPIPE, no pipe freed under a reader or kept for nobody.
PipeEndsTracked ==
    \A k \in Pipes :
        /\ PipeFlags(k, 0) \in LiveFlags <=> files.pipe[k].owner # NoPid /\ ~ files.pipe[k].readClosed
        /\ PipeFlags(k, 1) \in LiveFlags <=> files.pipe[k].owner # NoPid /\ ~ files.pipe[k].writeClosed

\* Through any mix of partial reads and writes, by any process and through
\* either end, a pipe holds between nothing and its buffer: the byte count never
\* passes the ring it indexes (PipeBuffer::write and read).
PipeBounded == \A k \in Pipes : files.pipe[k].held \in 0 .. PipeBufSize

----------------------------------------------------------------------------
\* Progress, under FairSpec.

\* Round robin starves nobody: a Ready process runs, unless it is killed first.
NoStarvation == \A p \in Pids : state[p] = "Ready" ~> state[p] \in {"Running", "Dead"}

\* A sleeping process gets out of its sleep.
SleepersWake == \A p \in Pids : state[p] = "Sleeping" ~> state[p] # "Sleeping"

\* As long as PID 0 keeps completing passes, a dead child of PID 0 is reaped
\* (or, having killed itself, goes on running), so its slot does not leak.
ZombiesReaped ==
    []<>(kpc = "idle") => \A p \in Pids : CanReap(p, 0) ~> ~ CanReap(p, 0)
=============================================================================
