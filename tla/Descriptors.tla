---------------------------- MODULE Descriptors ----------------------------
(***************************************************************************)
(* File descriptors (crates/thumos/src/fd.rs) and pipes (pipe.rs), as       *)
(* operators on one record f:                                               *)
(*   f.tab[p][fd]  the entry of fd in p's FdTable: the OFD it names and its *)
(*                 close-on-exec flag (ofd = NoOfd when the slot is None);  *)
(*   f.ofd[i]      the open-file description i: flags word and refcount     *)
(*                 (refs = 0 when the slot is None);                        *)
(*   f.pipe[k]     the pipe buffer k: owner, closed ends, bytes held        *)
(*                 (owner = NoPid when the slot is None).                   *)
(* The flags word is kept as the integer the code stores: a description's   *)
(* kind and the pipe it names are decoded from its bits.                    *)
(***************************************************************************)
EXTENDS Scheduler, FiniteSets

CONSTANTS MaxFds,      \* MAX_FDS, 256 in the kernel
          MaxOfds,     \* MAX_OFDS, 256 in the kernel
          MaxPipes,    \* MAX_PIPES, 8 in the kernel
          PipesPerProc,\* MAX_PIPES_PER_PROCESS, 4 in the kernel
          PipeBufSize, \* PIPE_BUF_SIZE, 4096 in the kernel
          CopyChunk,   \* PIPE_COPY_CHUNK, 1024 in the kernel
          OpenFlags,   \* the flags words programs pass to open
          StatusArgs   \* the arguments programs pass to fcntl(F_SETFL)

ASSUME DescriptorsAssumption ==
    /\ {MaxFds, MaxOfds, MaxPipes, PipesPerProc, PipeBufSize, CopyChunk} \subseteq Nat
    /\ MaxPipes <= 8
    /\ OpenFlags \subseteq Nat /\ StatusArgs \subseteq Nat

Fds == 0 .. MaxFds - 1
Ofds == 0 .. MaxOfds - 1
Pipes == 0 .. MaxPipes - 1
NoOfd == -1

NoEntry == [ofd |-> NoOfd, cloexec |-> FALSE]
NoFile == [flags |-> 0, refs |-> 0]
NoPipe == [owner |-> NoPid, readClosed |-> FALSE, writeClosed |-> FALSE, held |-> 0]

Entries == [ofd : Ofds \cup {NoOfd}, cloexec : BOOLEAN]
FlagWords == Nat
OpenFiles == [flags : FlagWords, refs : Nat]
PipeBuffers == [owner : Pids \cup {NoPid}, readClosed : BOOLEAN, writeClosed : BOOLEAN,
                held : 0 .. PipeBufSize]
FileStates == [tab : [Pids -> [Fds -> Entries]], ofd : [Ofds -> OpenFiles], pipe : [Pipes -> PipeBuffers]]

EmptyTable == [fd \in Fds |-> NoEntry]
NoFiles == [tab |-> [p \in Pids |-> EmptyTable],
            ofd |-> [i \in Ofds |-> NoFile],
            pipe |-> [k \in Pipes |-> NoPipe]]

----------------------------------------------------------------------------
\* The flags word: kind in bits 0-7, pipe end in bit 8, pipe index in bits
\* 9-11, and the open flag O_APPEND in bit 10.

PipeFlags(k, end) == 1 + 256 * end + 512 * k
IsPipeFd(flags) == flags % 256 = 1
IsWriteEnd(flags) == (flags \div 256) % 2 = 1
PipeIdx(flags) == (flags \div 512) % 8
AppendBit(flags) == (flags \div 1024) % 2

\* F_SETFL: (flags & !O_APPEND) | (arg & O_APPEND).
SetStatus(flags, arg) == flags - 1024 * AppendBit(flags) + 1024 * AppendBit(arg)

----------------------------------------------------------------------------
\* Allocation: always the lowest free slot.

FreeFds(f, p, min) == {fd \in Fds : fd >= min /\ f.tab[p][fd].ofd = NoOfd}
FreeOfds(f) == {i \in Ofds : f.ofd[i].refs = 0}
FreePipes(f) == {k \in Pipes : f.pipe[k].owner = NoPid}
Lowest(S) == CHOOSE x \in S : \A y \in S : x <= y

\* The fds of p that name OFD i.
Naming(f, p, i) == {fd \in Fds : f.tab[p][fd].ofd = i}

\* Seeded fault: the slot is freed as soon as one end is gone.
FreePipeOnFirstClose(pipe, ends) ==
    [k \in Pipes |-> IF \E g \in ends : IsPipeFd(g) /\ PipeIdx(g) = k THEN NoPipe ELSE pipe[k]]

\* `on_pipe_fd_closed` and `maybe_free_pipe`, for the ends in `ends`, a set of
\* flags words whose descriptions reached refcount zero.
ClosePipeEnds(pipe, ends) ==
    [k \in Pipes |->
        LET here == {g \in ends : IsPipeFd(g) /\ PipeIdx(g) = k}
            rc == pipe[k].readClosed \/ \E g \in here : ~ IsWriteEnd(g)
            wc == pipe[k].writeClosed \/ \E g \in here : IsWriteEnd(g)
        IN  IF here = {} \/ pipe[k].owner = NoPid THEN pipe[k]
            ELSE IF rc /\ wc THEN NoPipe
            ELSE [pipe[k] EXCEPT !.readClosed = rc, !.writeClosed = wc]]

\* Take the entries of `gone` out of p's table and `ofd_unref` each of them:
\* sys_close (one fd), close_all, close_cloexec.
CloseSet(f, p, gone) ==
    LET drops(i) == Cardinality(Naming(f, p, i) \cap gone)
        dead == {i \in Ofds : f.ofd[i].refs > 0 /\ drops(i) >= f.ofd[i].refs}
    IN  [tab |-> [f.tab EXCEPT ![p] =
                    [fd \in Fds |-> IF fd \in gone THEN NoEntry ELSE @[fd]]],
         ofd |-> [i \in Ofds |-> IF drops(i) >= f.ofd[i].refs THEN NoFile
                                 ELSE [f.ofd[i] EXCEPT !.refs = @ - drops(i)]],
         pipe |-> ClosePipeEnds(f.pipe, {f.ofd[i].flags : i \in dead})]

CloseAll(f, p) == CloseSet(f, p, Fds)
CloseOnExec(f, p) == CloseSet(f, p, {fd \in Fds : f.tab[p][fd].cloexec})

\* Seeded fault: the child's entries are not counted.
ForkTableNoRef(f, parent, child) == [f EXCEPT !.tab[child] = f.tab[parent]]

\* `fork_table`: the child gets a copy, every entry is one more reference.
ForkTable(f, parent, child) ==
    [f EXCEPT !.tab[child] = f.tab[parent],
              !.ofd = [i \in Ofds |-> [f.ofd[i] EXCEPT
                                        !.refs = @ + Cardinality(Naming(f, parent, i))]]]

\* A PCB slot is overwritten or dropped: its table goes with it, unreferenced
\* OFDs or not.
DropTable(f, p) == [f EXCEPT !.tab[p] = EmptyTable]

----------------------------------------------------------------------------
\* System calls of process p.

\* `sys_open` past the path lookup: description first, then the fd.  With the
\* fd table full the description is rolled back through ofd_unref, so its flags
\* word goes through the same pipe teardown as a close.
Open(f, p, flags, cloexec) ==
    LET i == Lowest(FreeOfds(f))
    IN  IF FreeFds(f, p, 0) = {}
        THEN [f EXCEPT !.pipe = ClosePipeEnds(f.pipe, {flags})]
        ELSE [f EXCEPT !.ofd[i] = [flags |-> flags, refs |-> 1],
                       !.tab[p][Lowest(FreeFds(f, p, 0))] = [ofd |-> i, cloexec |-> cloexec]]

\* `sys_dup` (min = 0) and fcntl(F_DUPFD, min).
Dup(f, p, fd, min) ==
    LET i == f.tab[p][fd].ofd
    IN  [f EXCEPT !.tab[p][Lowest(FreeFds(f, p, min))] = [ofd |-> i, cloexec |-> FALSE],
                  !.ofd[i].refs = @ + 1]

\* Seeded fault: the displaced description is never released.
Dup2NoUnref(f, p, old, new) ==
    [f EXCEPT !.tab[p][new] = [ofd |-> f.tab[p][old].ofd, cloexec |-> FALSE],
              !.ofd[f.tab[p][old].ofd].refs = @ + 1]

\* `sys_dup2` with old # new: install and reference first, then unref what the
\* new entry displaced.
Dup2(f, p, old, new) ==
    LET i == f.tab[p][old].ofd
        j == f.tab[p][new].ofd
        g == [f EXCEPT !.tab[p][new] = [ofd |-> i, cloexec |-> FALSE],
                       !.ofd[i].refs = @ + 1]
        last == g.ofd[j].refs = 1
    IN  IF j = NoOfd \/ g.ofd[j].refs = 0 THEN g
        ELSE [g EXCEPT !.ofd[j] = IF last THEN NoFile ELSE [g.ofd[j] EXCEPT !.refs = @ - 1],
                       !.pipe = IF last THEN ClosePipeEnds(g.pipe, {f.ofd[j].flags}) ELSE g.pipe]

\* `sys_fcntl`, F_SETFD and F_SETFL.
SetFd(f, p, fd, cloexec) == [f EXCEPT !.tab[p][fd].cloexec = cloexec]
SetFl(f, p, fd, arg) == [f EXCEPT !.ofd[f.tab[p][fd].ofd].flags = SetStatus(@, arg)]

\* `sys_pipe`: a pipe slot, two descriptions, two fds; any shortage rolls all of
\* it back, so only the case where everything is available changes state.
CanPipe(f, p) ==
    /\ Cardinality({k \in Pipes : f.pipe[k].owner = p}) < PipesPerProc
    /\ FreePipes(f) # {}
    /\ Cardinality(FreeOfds(f)) >= 2
    /\ Cardinality(FreeFds(f, p, 0)) >= 2

MakePipe(f, p) ==
    LET k == Lowest(FreePipes(f))
        i == Lowest(FreeOfds(f))
        j == Lowest(FreeOfds(f) \ {i})
        r == Lowest(FreeFds(f, p, 0))
        w == Lowest(FreeFds(f, p, 0) \ {r})
    IN  [tab |-> [f.tab EXCEPT ![p][r] = [ofd |-> i, cloexec |-> FALSE],
                               ![p][w] = [ofd |-> j, cloexec |-> FALSE]],
         ofd |-> [f.ofd EXCEPT ![i] = [flags |-> PipeFlags(k, 0), refs |-> 1],
                               ![j] = [flags |-> PipeFlags(k, 1), refs |-> 1]],
         pipe |-> [f.pipe EXCEPT ![k] = [NoPipe EXCEPT !.owner = p]]]

\* The pipe an open fd reads and writes: neither system call looks at the end.
PipeOf(f, p, fd) == PipeIdx(f.ofd[f.tab[p][fd].ofd].flags)
NamesPipe(f, p, fd) ==
    /\ f.tab[p][fd].ofd # NoOfd
    /\ IsPipeFd(f.ofd[f.tab[p][fd].ofd].flags)
    /\ PipeOf(f, p, fd) \in Pipes
    /\ f.pipe[PipeOf(f, p, fd)].owner # NoPid

AtMost(a, b) == IF a <= b THEN a ELSE b

\* Seeded fault: the room left in the buffer is not consulted.
PipePutUnbounded(f, k, n) == [f EXCEPT !.pipe[k].held = @ + AtMost(n, CopyChunk)]

\* `sys_pipe_read` and `sys_pipe_write` of n bytes, as many as fit.
PipeTake(f, k, n) == [f EXCEPT !.pipe[k].held = @ - AtMost(n, AtMost(@, CopyChunk))]
PipePut(f, k, n) ==
    [f EXCEPT !.pipe[k].held = @ + AtMost(n, AtMost(PipeBufSize - @, CopyChunk))]
=============================================================================
