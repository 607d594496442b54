------------------------------- MODULE Kernel -------------------------------
(***************************************************************************)
(* The process core of the thumos kernel: the process table, preemption,    *)
(* the system calls that change it, death by exit, fault and signal, and    *)
(* the part of PID 0's service loop (kardia.rs) that supervises and reaps.  *)
(*                                                                          *)
(* The machine has one core and exceptions do not nest: a system call, the  *)
(* timer interrupt and an abort each run with interrupts masked, so each is *)
(* one action.  PID 0 runs with interrupts enabled, so its loop is several  *)
(* steps (kpc) and the timer may come between any two of them.  A system    *)
(* call that only returns an error changes nothing and is a stuttering step.*)
(***************************************************************************)
EXTENDS Futex, Supervisor, Signals, Ipc, Descriptors

CONSTANTS Boot,        \* number of user processes kinit spawns
          MaxSpaces,   \* L1 tables in the mmu.rs pool, 16 in the kernel
          SleepTicks   \* sleep lengths, in ticks

ASSUME KernelAssumption ==
    /\ Boot \in Nat /\ Boot < MaxProcs /\ Services \subseteq 1 .. Boot
    /\ MaxSpaces \in Nat /\ Boot <= MaxSpaces
    /\ SleepTicks \subseteq Nat

VARIABLES
    state, current, parent,  \* PCB state and parent; CURRENT
    wake,                    \* ticks left until wake_tick
    pt, spaces,              \* page_table_phys; the allocated L1 tables
    action, pending,         \* signal_state
    waiters,                 \* FUTEX_WAITERS
    inbox,                   \* INBOXES
    files,                   \* fd tables, OFD_TABLE, PIPE_POOL
    ring, svcPid,            \* RING; SERVICES: current_pid,
    restarts, windowAge, gaveUp,  \* restarts_in_window, now - window_start_tick, gave_up
    kpc, kreport, kreap,     \* PID 0: step of the pass, report in hand, reap cursor
    sinceNow                 \* ticks since PID 0 last read the tick counter

procVars == <<state, current, parent, wake>>
memVars == <<pt, spaces>>
sigVars == <<action, pending>>
supVars == <<restarts, windowAge, gaveUp>>
claimVars == <<ring, svcPid>>
loopVars == <<kpc, kreport, kreap, sinceNow>>
vars == <<procVars, memVars, sigVars, waiters, inbox, files, claimVars, supVars, loopVars>>

NoSpace == 0
KernelTable == MaxSpaces + 1      \* mmu::table_base(), PID 0's table
Spaces == 1 .. MaxSpaces
Tables == 0 .. MaxSpaces + 1      \* page_table_phys: none, a user table, the kernel's
NoReport == [pid |-> 0, service |-> NoService]
AgeCap == WindowTicks + 1         \* ages above WINDOW_TICKS are all alike

Live(p) == state[p] \notin {"Free", "Dead"}

Init ==
    /\ state = [p \in Pids |-> IF p = 0 THEN "Running" ELSE IF p <= Boot THEN "Ready" ELSE "Free"]
    /\ current = 0
    /\ parent = [p \in Pids |-> IF p \in 1 .. Boot THEN 0 ELSE NoPid]
    /\ wake = [p \in Pids |-> 0]
    /\ pt = [p \in Pids |-> IF p = 0 THEN KernelTable ELSE IF p <= Boot THEN p ELSE NoSpace]
    /\ spaces = 1 .. Boot
    /\ action = [p \in Pids |-> DefaultActions]
    /\ pending = [p \in Pids |-> {}]
    /\ waiters = [s \in Slots |-> NoWaiter]
    /\ inbox = [p \in Pids |-> EmptyInbox]
    /\ files = NoFiles
    /\ ring = << >>
    /\ svcPid = [s \in Services |-> s]
    /\ restarts = [s \in Services |-> 0]
    /\ windowAge = [s \in Services |-> 0]
    /\ gaveUp = [s \in Services |-> FALSE]
    /\ kpc = "idle" /\ kreport = NoReport /\ kreap = 0 /\ sinceNow = 0

----------------------------------------------------------------------------
\* Building blocks shared by the handlers.

\* `schedule` and `switch_to` from the state table st, with wake counters wk.
Reschedule(st, cur, wk) ==
    LET woken == WakeSleepers(st, wk)
        next == PickNext(woken, cur)
    IN  /\ state' = SwitchTo(woken, cur, next)
        /\ current' = next

Marked(st, p, s) == [st EXCEPT ![p] = s]

\* Seeded fault: the dead PCB keeps pointing at the freed table.
ReleaseKeepsTable(p) ==
    /\ spaces' = spaces \ {pt[p]}
    /\ UNCHANGED pt
    /\ waiters' = FreeWaitersForPid(waiters, p)
    /\ inbox' = ClearInbox(inbox, p)

\* The part of `exit_cleanup` that gives back what process p holds.
ReleaseProcess(p) ==
    /\ spaces' = spaces \ {pt[p]}
    /\ pt' = [pt EXCEPT ![p] = NoSpace]
    /\ waiters' = FreeWaitersForPid(waiters, p)
    /\ inbox' = ClearInbox(inbox, p)

\* `exit_current`: exit_cleanup, then the successor is scheduled.
ExitCurrent ==
    /\ Reschedule(Marked(state, current, "Dead"), current, wake)
    /\ ReleaseProcess(current)
    /\ files' = CloseAll(files, current)
    /\ svcPid' = ClearPid(svcPid, current)

\* `fault_exit_current`, with p current and st the table at that moment:
\* notify_fault files the report before exit_cleanup drops the claim.
FaultExit(st, p, wk) ==
    /\ Reschedule(Marked(st, p, "Dead"), p, wk)
    /\ ReleaseProcess(p)
    /\ files' = CloseAll(files, p)
    /\ ring' = PushReport(ring, svcPid, p)
    /\ svcPid' = ClearPid(ReleaseClaim(svcPid, p), p)

\* `deliver_signal_to` a process that is neither free nor Dead.  Termination
\* marks the target Dead and drains its fds, waiters and claim; it runs no
\* exit_cleanup, and the caller keeps the processor even when it is the target.
DeliverSignal(p, sig) ==
    \/ /\ Disposition(action[p], sig) = "Terminate"
       /\ state' = Marked(state, p, "Dead")
       /\ files' = CloseAll(files, p)
       /\ waiters' = FreeWaitersForPid(waiters, p)
       /\ svcPid' = ClearPid(svcPid, p)
       /\ UNCHANGED pending
    \/ /\ Disposition(action[p], sig) = "Pend"
       /\ pending' = [pending EXCEPT ![p] = @ \cup {sig}]
       /\ UNCHANGED <<state, files, waiters, svcPid>>
    \/ /\ Disposition(action[p], sig) = "Drop"
       /\ UNCHANGED <<state, pending, files, waiters, svcPid>>

FreePids == {p \in Pids : state[p] = "Free"}
FreeSpaces == Spaces \ spaces

\* A new PCB in the first free slot p, on the first free L1 table: what
\* spawn_user and fork_pl0 have in common.  INBOXES is not touched.
NewProcess(p, par, acts) ==
    LET space == Lowest(FreeSpaces)
    IN  /\ state' = Marked(state, p, "Ready")
        /\ parent' = [parent EXCEPT ![p] = par]
        /\ wake' = [wake EXCEPT ![p] = 0]
        /\ pt' = [pt EXCEPT ![p] = space]
        /\ spaces' = spaces \cup {space}
        /\ action' = [action EXCEPT ![p] = acts]
        /\ pending' = [pending EXCEPT ![p] = {}]

\* `waitpid` reaps slot p: the PCB is dropped, and with it its page table
\* pointer, its parent link, its signal state and its fd table.
Reap(p) ==
    /\ state' = Marked(state, p, "Free")
    /\ parent' = [parent EXCEPT ![p] = NoPid]
    /\ wake' = [wake EXCEPT ![p] = 0]
    /\ pt' = [pt EXCEPT ![p] = NoSpace]
    /\ action' = [action EXCEPT ![p] = DefaultActions]
    /\ pending' = [pending EXCEPT ![p] = {}]
    /\ files' = DropTable(files, p)
    /\ UNCHANGED <<current, spaces, waiters, inbox, claimVars, supVars>>

CanReap(p, by) == state[p] = "Dead" /\ parent[p] = by

----------------------------------------------------------------------------
\* System calls of the current user process.  Nothing in the dispatcher checks
\* that the caller is still alive.

UserRuns == current # 0

Exit ==
    /\ UserRuns
    /\ ExitCurrent
    /\ UNCHANGED <<parent, wake, sigVars, ring, supVars, loopVars>>

Yield ==
    /\ UserRuns
    /\ Reschedule(state, current, wake)
    /\ UNCHANGED <<parent, wake, memVars, sigVars, waiters, inbox, files, claimVars, supVars, loopVars>>

\* Sleep and nanosleep of n ticks, the duration already rounded up.
Sleep(n) ==
    LET wk == [wake EXCEPT ![current] = n]
        woken == WakeSleepers(Marked(state, current, "Sleeping"), wk)
        next == PickNext(woken, current)
    IN  /\ UserRuns
        /\ IF next = current
           THEN /\ state' = Marked(woken, current, "Running")
                /\ wake' = [wake EXCEPT ![current] = 0]
           ELSE /\ state' = SwitchTo(woken, current, next)
                /\ wake' = wk
        /\ current' = next
        /\ UNCHANGED <<parent, memVars, sigVars, waiters, inbox, files, claimVars, supVars, loopVars>>

\* fork_pl0, when a PCB slot, an L1 table and the frames are there.
Fork ==
    /\ UserRuns
    /\ FreePids # {} /\ FreeSpaces # {}
    /\ LET child == Lowest(FreePids)
       IN  /\ NewProcess(child, current, action[current])
           /\ files' = ForkTable(files, current, child)
    /\ UNCHANGED <<current, waiters, inbox, claimVars, supVars, loopVars>>

Waitpid(p) ==
    /\ UserRuns
    /\ CanReap(p, current)
    /\ Reap(p)
    /\ UNCHANGED loopVars

\* sys_execve past its last failure return: the new image is mapped ...
Execve ==
    /\ UserRuns
    /\ files' = CloseOnExec(files, current)
    /\ action' = [action EXCEPT ![current] = DefaultActions]
    /\ pending' = [pending EXCEPT ![current] = {}]
    /\ UNCHANGED <<procVars, memVars, waiters, inbox, claimVars, supVars, loopVars>>

\* ... or the remap fails with the old image gone, and the process is killed.
ExecveRemapFails ==
    /\ UserRuns
    /\ Reschedule(Marked(state, current, "Dead"), current, wake)
    /\ ReleaseProcess(current)
    /\ files' = CloseAll(CloseOnExec(files, current), current)
    /\ action' = [action EXCEPT ![current] = DefaultActions]
    /\ pending' = [pending EXCEPT ![current] = {}]
    /\ svcPid' = ClearPid(svcPid, current)
    /\ UNCHANGED <<parent, wake, ring, supVars, loopVars>>

\* An abort or undefined instruction in user mode.
Fault ==
    /\ UserRuns
    /\ FaultExit(state, current, wake)
    /\ UNCHANGED <<parent, wake, sigVars, supVars, loopVars>>

\* Seeded fault: PID 0 is a target like any other.
KillAnyone(p, sig) ==
    /\ UserRuns
    /\ Live(p)
    /\ DeliverSignal(p, sig)
    /\ UNCHANGED <<current, parent, wake, memVars, action, inbox, ring, supVars, loopVars>>

Kill(p, sig) ==
    /\ UserRuns
    /\ p # 0 /\ Live(p)
    /\ DeliverSignal(p, sig)
    /\ UNCHANGED <<current, parent, wake, memVars, action, inbox, ring, supVars, loopVars>>

Sigaction(sig, act) ==
    /\ UserRuns
    /\ CanCatch(sig) \/ act = "Default"
    /\ action' = [action EXCEPT ![current][sig] = act]
    /\ UNCHANGED <<procVars, memVars, pending, waiters, inbox, files, claimVars, supVars, loopVars>>

\* FUTEX_WAIT with the expected value in memory and a free waiter slot.
FutexWait(addr) ==
    /\ UserRuns
    /\ FreeWaiterSlots(waiters) # {}
    /\ waiters' = Register(waiters, addr, pt[current], current)
    /\ Reschedule(Marked(state, current, "Blocked"), current, wake)
    /\ UNCHANGED <<parent, wake, memVars, sigVars, inbox, files, claimVars, supVars, loopVars>>

FutexWake(addr, max) ==
    LET woken == WokenPids(waiters, addr, pt[current], max)
    IN  /\ UserRuns
        /\ waiters' = ClearSlots(waiters, WokenSlots(waiters, addr, pt[current], max))
        /\ state' = [p \in Pids |-> IF p \in woken THEN "Ready" ELSE state[p]]
        /\ UNCHANGED <<current, parent, wake, memVars, sigVars, inbox, files, claimVars, supVars, loopVars>>

\* Send: PID 0 needs CAP_IPC_INIT, which no user process holds; any other
\* index of the inbox array is accepted.
Send(to) ==
    /\ UserRuns
    /\ to # 0 /\ InboxHasRoom(inbox[to])
    /\ inbox' = Deliver(inbox, to, current)
    /\ UNCHANGED <<procVars, memVars, sigVars, waiters, files, claimVars, supVars, loopVars>>

Recv ==
    /\ UserRuns
    /\ inbox[current] # EmptyInbox
    /\ inbox' = Receive(inbox, current)
    /\ UNCHANGED <<procVars, memVars, sigVars, waiters, files, claimVars, supVars, loopVars>>

----------------------------------------------------------------------------
\* File system calls.

FileCall(f) ==
    /\ files' = f
    /\ UNCHANGED <<procVars, memVars, sigVars, waiters, inbox, claimVars, supVars, loopVars>>

IsOpen(fd) == files.tab[current][fd].ofd # NoOfd

OpenFile(flags, cloexec) ==
    /\ UserRuns
    /\ FreeOfds(files) # {}
    /\ FileCall(Open(files, current, flags, cloexec))

CloseFd(fd) ==
    /\ UserRuns
    /\ IsOpen(fd)
    /\ FileCall(CloseSet(files, current, {fd}))

DupFd(fd, min) ==
    /\ UserRuns
    /\ IsOpen(fd) /\ FreeFds(files, current, min) # {}
    /\ FileCall(Dup(files, current, fd, min))

Dup2Fd(old, new) ==
    /\ UserRuns
    /\ IsOpen(old) /\ old # new
    /\ FileCall(Dup2(files, current, old, new))

SetCloexec(fd, flag) ==
    /\ UserRuns
    /\ IsOpen(fd)
    /\ FileCall(SetFd(files, current, fd, flag))

SetStatusFlags(fd, arg) ==
    /\ UserRuns
    /\ IsOpen(fd)
    /\ FileCall(SetFl(files, current, fd, arg))

CreatePipe ==
    /\ UserRuns
    /\ CanPipe(files, current)
    /\ FileCall(MakePipe(files, current))

ReadPipe(fd, n) ==
    /\ UserRuns
    /\ NamesPipe(files, current, fd)
    /\ FileCall(PipeTake(files, PipeOf(files, current, fd), n))

WritePipe(fd, n) ==
    /\ UserRuns
    /\ NamesPipe(files, current, fd)
    /\ ~ files.pipe[PipeOf(files, current, fd)].readClosed
    /\ FileCall(PipePut(files, PipeOf(files, current, fd), n))

\* The read end is closed: SIGPIPE to the writer itself, unless it is already
\* Dead, and EPIPE.
BrokenPipe(fd) ==
    /\ UserRuns
    /\ NamesPipe(files, current, fd)
    /\ files.pipe[PipeOf(files, current, fd)].readClosed
    /\ Live(current)
    /\ DeliverSignal(current, SIGPIPE)
    /\ UNCHANGED <<current, parent, wake, memVars, action, inbox, ring, supVars, loopVars>>

----------------------------------------------------------------------------
\* The timer interrupt: count the tick, schedule, switch, then deliver the
\* lowest pending signal of whoever runs next if it has a handler.

\* Seeded fault: the tick does not advance the sleepers' clock.
CountDownStuck == wake

\* Seeded fault: the count passes zero.
CountDownBelowZero == [p \in Pids |-> wake[p] - 1]

CountDown == [p \in Pids |-> IF wake[p] > 0 THEN wake[p] - 1 ELSE 0]
TickStates == SwitchTo(WakeSleepers(state, CountDown), current,
                       PickNext(WakeSleepers(state, CountDown), current))
TickNext == PickNext(WakeSleepers(state, CountDown), current)

CountTick ==
    /\ wake' = CountDown
    /\ sinceNow' = AtMost(sinceNow + 1, AgeCap)
    /\ UNCHANGED <<parent, action, supVars, kpc, kreport, kreap>>

TickPlain ==
    /\ ~ HasDeliverable(action[TickNext], pending[TickNext])
    /\ CountTick
    /\ state' = TickStates /\ current' = TickNext
    /\ UNCHANGED <<memVars, pending, waiters, inbox, files, claimVars>>

\* Seeded fault: dispatching one signal clears the whole mask.
TickDeliverClearsAll ==
    /\ HasDeliverable(action[TickNext], pending[TickNext])
    /\ CountTick
    /\ state' = TickStates /\ current' = TickNext
    /\ pending' = [pending EXCEPT ![TickNext] = {}]
    /\ UNCHANGED <<memVars, waiters, inbox, files, claimVars>>

TickDeliver ==
    /\ HasDeliverable(action[TickNext], pending[TickNext])
    /\ CountTick
    /\ state' = TickStates /\ current' = TickNext
    /\ pending' = [pending EXCEPT ![TickNext] = @ \ {NextPending(@)}]
    /\ UNCHANGED <<memVars, waiters, inbox, files, claimVars>>

\* The signal frame does not fit on the user stack: fault_exit_current.
TickDeliverFails ==
    /\ HasDeliverable(action[TickNext], pending[TickNext])
    /\ CountTick
    /\ FaultExit(TickStates, TickNext, CountDown)
    /\ UNCHANGED pending

Tick == TickPlain \/ TickDeliver \/ TickDeliverFails

----------------------------------------------------------------------------
\* PID 0: one pass of the service loop per observed tick.

KardiaWake ==
    /\ current = 0 /\ kpc = "idle" /\ sinceNow > 0
    /\ kpc' = "drain"
    /\ windowAge' = [s \in Services |-> AtMost(windowAge[s] + sinceNow, AgeCap)]
    /\ sinceNow' = 0
    /\ UNCHANGED <<procVars, memVars, sigVars, waiters, inbox, files, claimVars, restarts, gaveUp,
                   kreport, kreap>>

\* Seeded fault: the head of the ring is read but not removed.
KardiaPeek ==
    /\ current = 0 /\ kpc = "drain"
    /\ kpc' = IF ring = << >> THEN "reap" ELSE "decide"
    /\ kreport' = IF ring = << >> THEN kreport ELSE Head(ring)
    /\ UNCHANGED <<procVars, memVars, sigVars, waiters, inbox, files, claimVars, supVars, kreap, sinceNow>>

KardiaPop ==
    /\ current = 0 /\ kpc = "drain"
    /\ IF ring = << >>
       THEN /\ kpc' = "reap"
            /\ UNCHANGED <<ring, kreport>>
       ELSE /\ kpc' = "decide"
            /\ kreport' = Head(ring)
            /\ ring' = Tail(ring)
    /\ UNCHANGED <<procVars, memVars, sigVars, waiters, inbox, files, svcPid, supVars, kreap, sinceNow>>

\* `decide`: the window test may open a new window; then a restart is counted,
\* or the service is given up for good.
KardiaDecide ==
    LET s == kreport.service
        verdict == IF s = NoService THEN "None" ELSE Decision(restarts[s], windowAge[s], gaveUp[s])
    IN  /\ current = 0 /\ kpc = "decide"
        /\ kpc' = IF verdict = "Restart" THEN "restart" ELSE "drain"
        /\ kreport' = IF verdict = "Restart" THEN kreport ELSE NoReport
        /\ IF verdict = "None"
           THEN UNCHANGED supVars
           ELSE /\ restarts' = [restarts EXCEPT ![s] = RestartsInWindow(@, windowAge[s])
                                                       + (IF verdict = "Restart" THEN 1 ELSE 0)]
                /\ windowAge' = [windowAge EXCEPT ![s] = IF WindowExpired(@) THEN 0 ELSE @]
                /\ gaveUp' = [gaveUp EXCEPT ![s] = (verdict = "GiveUp")]
        /\ UNCHANGED <<procVars, memVars, sigVars, waiters, inbox, files, claimVars, kreap, sinceNow>>

\* `restart_supervised`: spawn and set_current_pid under one IrqGuard ...
KardiaRestart ==
    LET p == Lowest(FreePids)
    IN  /\ current = 0 /\ kpc = "restart"
        /\ FreePids # {} /\ FreeSpaces # {}
        /\ NewProcess(p, 0, DefaultActions)
        /\ svcPid' = [svcPid EXCEPT ![kreport.service] = p]
        /\ kpc' = "drain" /\ kreport' = NoReport
        /\ UNCHANGED <<current, waiters, inbox, files, ring, supVars, kreap, sinceNow>>

\* ... or any step of it fails (no slot, no table, no frames, a bad image): the
\* loop reports it on the UART and goes on.
KardiaRestartFails ==
    /\ current = 0 /\ kpc = "restart"
    /\ kpc' = "drain" /\ kreport' = NoReport
    /\ UNCHANGED <<procVars, memVars, sigVars, waiters, inbox, files, claimVars, supVars, kreap, sinceNow>>

\* Seeded fault: the scan stops one slot short.
KardiaReapShort ==
    /\ current = 0 /\ kpc = "reap"
    /\ \/ CanReap(kreap, 0) /\ Reap(kreap)
       \/ ~ CanReap(kreap, 0)
          /\ UNCHANGED <<procVars, memVars, sigVars, waiters, inbox, files, claimVars, supVars>>
    /\ kreap' = IF kreap = MaxProcs - 2 THEN 0 ELSE kreap + 1
    /\ kpc' = IF kreap = MaxProcs - 2 THEN "idle" ELSE "reap"
    /\ UNCHANGED <<kreport, sinceNow>>

\* `reap_dead_children`, one index of its scan at a time.
KardiaReap ==
    /\ current = 0 /\ kpc = "reap"
    /\ \/ CanReap(kreap, 0) /\ Reap(kreap)
       \/ ~ CanReap(kreap, 0)
          /\ UNCHANGED <<procVars, memVars, sigVars, waiters, inbox, files, claimVars, supVars>>
    /\ kreap' = IF kreap = MaxProcs - 1 THEN 0 ELSE kreap + 1
    /\ kpc' = IF kreap = MaxProcs - 1 THEN "idle" ELSE "reap"
    /\ UNCHANGED <<kreport, sinceNow>>

KardiaStep == KardiaWake \/ KardiaPop \/ KardiaDecide \/ KardiaRestart \/ KardiaRestartFails \/ KardiaReap

----------------------------------------------------------------------------
ProcessCall ==
    \/ Exit \/ Yield \/ Fork \/ Execve \/ ExecveRemapFails \/ Fault
    \/ \E n \in SleepTicks : Sleep(n)
    \/ \E p \in Pids : Waitpid(p)

SignalCall ==
    \/ \E p \in Pids, sig \in Signals : Kill(p, sig)
    \/ \E sig \in Signals, act \in SignalActions : Sigaction(sig, act)

FutexCall == \E addr \in Addrs : FutexWait(addr) \/ \E max \in 1 .. MaxWaiters : FutexWake(addr, max)

IpcCall == Recv \/ \E to \in Pids : Send(to)

DescriptorCall ==
    \/ \E flags \in OpenFlags, c \in BOOLEAN : OpenFile(flags, c)
    \/ \E fd \in Fds : CloseFd(fd)
    \/ \E fd, min \in Fds : DupFd(fd, min)
    \/ \E old, new \in Fds : Dup2Fd(old, new)
    \/ \E fd \in Fds, c \in BOOLEAN : SetCloexec(fd, c)
    \/ \E fd \in Fds, arg \in StatusArgs : SetStatusFlags(fd, arg)

PipeCall ==
    \/ CreatePipe
    \/ \E fd \in Fds, n \in 1 .. PipeBufSize : ReadPipe(fd, n) \/ WritePipe(fd, n)
    \/ \E fd \in Fds : BrokenPipe(fd)

Next == ProcessCall \/ SignalCall \/ FutexCall \/ IpcCall \/ DescriptorCall \/ PipeCall \/ Tick \/ KardiaStep

Spec == Init /\ [][Next]_vars

\* The timer keeps ticking, and PID 0 completes a step of its loop in some of
\* the time slices it is given.
FairSpec == Spec /\ WF_vars(Tick) /\ SF_vars(KardiaStep)
=============================================================================
