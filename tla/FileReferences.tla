--------------------------- MODULE FileReferences ---------------------------
(***************************************************************************)
(* Reference counting of open-file descriptions (fd.rs, pipe.rs) for every  *)
(* size of the tables: no descriptor ever names a freed description, and a  *)
(* count exceeds the descriptors there are only through a PCB that is       *)
(* reaped with open descriptors.                                            *)
(***************************************************************************)
EXTENDS KernelProofs, DescriptorCounts

\* A free PCB slot holds no descriptor: what fork copies into it is all there is.
FreeTablesEmpty == \A p \in Pids : state[p] = "Free" => files.tab[p] = EmptyTable

\* The inductive invariant, on top of IInv.
FilesInv == Counted(files) /\ FreeTablesEmpty

----------------------------------------------------------------------------
\* A step either moves counts and descriptors together, writing the table of one
\* process that is not free afterwards, or reaps a PCB.

Moves(p) ==
    /\ Balanced(files, files') /\ OthersKept(files, files', p)
    /\ state'[p] # "Free"
    /\ \A q \in Pids : state'[q] = "Free" => state[q] = "Free"

Reaped(p) ==
    /\ state[p] = "Dead" /\ state'[p] = "Free" /\ files' = DropTable(files, p)
    /\ \A q \in Pids \ {p} : state'[q] = state[q]

StepShape == \E p \in Pids : Moves(p) \/ Reaped(p)

LEMMA SameFilesShape ==
    ASSUME IInv', UNCHANGED files, \A q \in Pids : state'[q] = "Free" => state[q] = "Free"
    PROVE  StepShape
<1>1. 0 \in Pids /\ state'[0] # "Free"
  BY NoPidNotPid DEF IInv, SchedulerSafe
<1>2. Moves(0)
  BY <1>1 DEF Moves, Balanced, OthersKept
<1>3. QED
  BY <1>1, <1>2 DEF StepShape

\* A process that ends, or is ended by a signal, closes all it has open.
LEMMA ClosesShape ==
    ASSUME IInv, FilesInv, NEW p \in Pids, files' = CloseAll(files, p),
           state'[p] = "Dead", \A q \in Pids : state'[q] = "Free" => state[q] = "Free"
    PROVE  StepShape
<1>1. files \in FileStates
  BY DEF IInv, TypeOK
<1>2. Moves(p)
  BY <1>1, CloseSetBalanced, CloseOthers DEF Moves, CloseAll, FilesInv
<1>3. QED
  BY <1>2 DEF StepShape

\* A file system call of the current process.
LEMMA CallShape ==
    ASSUME IInv, UNCHANGED <<state, current>>, Balanced(files, files'), OthersKept(files, files', current)
    PROVE  StepShape
<1>1. current \in Pids /\ state[current] # "Free"
  BY DEF IInv, TypeOK, ProcOK, SchedulerSafe
<1>2. Moves(current)
  BY <1>1 DEF Moves
<1>3. QED
  BY <1>1, <1>2 DEF StepShape

LEMMA SignalShape ==
    ASSUME IInv, IInv', FilesInv, NEW p \in Pids, NEW sig, DeliverSignal(p, sig)
    PROVE  StepShape
<1>1. state \in [Pids -> States]
  BY DEF IInv, TypeOK, ProcOK
<1>2. CASE UNCHANGED <<state, files>>
  BY <1>2, SameFilesShape
<1>3. CASE state' = Marked(state, p, "Dead") /\ files' = CloseAll(files, p)
  <2>1. \A q \in Pids : state'[q] = IF q = p THEN "Dead" ELSE state[q]
    BY <1>1, <1>3 DEF Marked
  <2>2. QED
    BY <1>3, <2>1, ClosesShape
<1>4. QED
  BY <1>2, <1>3 DEF DeliverSignal

\* Counts that stay balanced stay large enough.
LEMMA StaysCounted ==
    ASSUME NEW f \in FileStates, NEW g \in FileStates, Counted(f), Balanced(f, g)
    PROVE  Counted(g)
<1>1. SUFFICES ASSUME NEW i \in Ofds PROVE Count(g.tab, i) <= g.ofd[i].refs
  BY DEF Counted
<1>2. /\ f.ofd[i].refs \in Nat /\ g.ofd[i].refs \in Nat
      /\ Count(f.tab, i) \in Nat /\ Count(g.tab, i) \in Nat
  BY NamesFinite DEF FileStates, OpenFiles
<1>3. Count(f.tab, i) <= f.ofd[i].refs /\ g.ofd[i].refs - Count(g.tab, i) = f.ofd[i].refs - Count(f.tab, i)
  BY DEF Counted, Balanced
<1>4. QED
  BY <1>2, <1>3, SMTT(30)

\* Exit, a fault, and an execve that fails past the point of no return.
LEMMA ExitShape ==
    ASSUME IInv, FilesInv, NEW p \in Pids \ {0}, NEW st, NEW wk, PreTable(st, p), SameFate(state, st),
           Reschedule(Marked(st, p, "Dead"), p, wk), files' = CloseAll(files, p)
    PROVE  StepShape
<1>1. SameFateBut(st, state', p) /\ state'[p] = "Dead"
  BY LeaveFacts DEF States
<1>2. \A q \in Pids : state'[q] = "Free" => state[q] = "Free"
  BY <1>1 DEF SameFate, SameFateBut
<1>3. QED
  BY <1>1, <1>2, ClosesShape

LEMMA ExecShape ==
    ASSUME IInv, FilesInv, Execve \/ ExecveRemapFails
    PROVE  StepShape
<1> DEFINE g == CloseOnExec(files, current)
<1>1. files \in FileStates /\ current \in Pids /\ g \in FileStates /\ state[current] # "Free"
  BY CloseTypes DEF IInv, TypeOK, ProcOK, SchedulerSafe
<1>2. Balanced(files, g) /\ OthersKept(files, g, current)
  BY <1>1, CloseSetBalanced, CloseOthers DEF CloseOnExec, FilesInv
<1> HIDE DEF g
<1>3. CASE Execve
  BY <1>2, <1>3, CallShape DEF Execve, procVars, g
<1>4. CASE ExecveRemapFails
  <2> DEFINE h == CloseAll(g, current)
  <2>1. Counted(g)
    BY <1>1, <1>2, StaysCounted DEF FilesInv
  <2>2. Balanced(g, h) /\ OthersKept(g, h, current)
    BY <1>1, <2>1, CloseSetBalanced, CloseOthers, ZenonT(40) DEF CloseAll
  <2> HIDE DEF h
  <2>3. Balanced(files, h) /\ OthersKept(files, h, current)
    BY <1>2, <2>2 DEF Balanced, OthersKept
  <2>4. current \in Pids \ {0} /\ PreTable(state, current)
    BY <1>4, CurrentFacts DEF ExecveRemapFails, UserRuns
  <2>5. SameFateBut(state, state', current) /\ state'[current] = "Dead"
    BY <1>4, <2>4, LeaveFacts DEF ExecveRemapFails, States
  <2>6. files' = h
    BY <1>4 DEF ExecveRemapFails, g, h
  <2>7. Moves(current)
    BY <2>3, <2>5, <2>6 DEF Moves, SameFateBut
  <2>8. QED
    BY <1>1, <2>7 DEF StepShape
<1>5. QED
  BY <1>3, <1>4

LEMMA ReapShape ==
    ASSUME IInv, NEW p \in Pids, state[p] = "Dead", Reap(p)
    PROVE  StepShape
<1>1. state \in [Pids -> States]
  BY DEF IInv, TypeOK, ProcOK
<1>2. \A q \in Pids : state'[q] = IF q = p THEN "Free" ELSE state[q]
  BY <1>1 DEF Reap, Marked
<1>3. Reaped(p)
  BY <1>2 DEF Reap, Reaped
<1>4. QED
  BY <1>3 DEF StepShape

LEMMA ProcessCallShape ==
    ASSUME IInv, IInv', FilesInv, ProcessCall
    PROVE  StepShape
<1>1. /\ current \in Pids /\ PreTable(state, current) /\ SameFate(state, state)
      /\ current # 0 => current \in Pids \ {0}
  BY CurrentFacts DEF SameFate
<1>2. CASE Exit \/ Fault
  BY <1>1, <1>2, ExitShape DEF Exit, Fault, UserRuns, ExitCurrent, FaultExit
<1>3. CASE Execve \/ ExecveRemapFails
  BY <1>3, ExecShape
<1>4. CASE Yield
  <2>1. SameFate(state, state')
    BY <1>1, <1>4, RescheduleFacts DEF Yield
  <2>2. QED
    BY <1>4, <2>1, SameFilesShape DEF Yield, SameFate
<1>5. CASE Fork
  <2> DEFINE child == Lowest(FreePids)
  <2>1. child \in Pids /\ state[child] = "Free"
    BY <1>5, FreePidsFacts DEF Fork
  <2>2. state' = Marked(state, child, "Ready") /\ files' = ForkTable(files, current, child)
    BY <1>5 DEF Fork, NewProcess
  <2> HIDE DEF child
  <2>3. files \in FileStates /\ files.tab[child] = EmptyTable
    BY <2>1 DEF IInv, TypeOK, FilesInv, FreeTablesEmpty
  <2>4. Balanced(files, files') /\ OthersKept(files, files', child)
    BY <1>1, <2>1, <2>2, <2>3, ForkBalanced, ForkOthers, ZenonT(40)
  <2>5. \A q \in Pids : state'[q] = IF q = child THEN "Ready" ELSE state[q]
    BY <2>1, <2>2, ZenonT(40) DEF Marked, IInv, TypeOK, ProcOK
  <2>6. Moves(child)
    BY <2>1, <2>4, <2>5, ZenonT(40) DEF Moves
  <2>7. QED
    BY <2>1, <2>6 DEF StepShape
<1>6. ASSUME NEW n \in SleepTicks, Sleep(n) PROVE StepShape
  <2> DEFINE wk == [wake EXCEPT ![current] = n]
             asleep == Marked(state, current, "Sleeping")
             woken == WakeSleepers(asleep, wk)
             next == PickNext(woken, current)
             new == SwitchTo(woken, current, next)
  <2>1. current \in Pids \ {0}
    BY <1>1, <1>6 DEF Sleep, UserRuns
  <2>2. /\ PreTable(asleep, current)
        /\ \A p \in Pids : asleep[p] = IF p = current THEN "Sleeping" ELSE state[p]
    BY <1>1, <2>1, MarkedFacts, SMTT(30) DEF States
  <2> HIDE DEF asleep
  <2>3. SameFate(asleep, new) /\ next # current
    BY <2>1, <2>2, SwitchFacts, ZenonT(40)
  <2>4. state' = (IF next = current THEN Marked(woken, current, "Running") ELSE new) /\ UNCHANGED files
    BY <1>6 DEF Sleep, asleep
  <2> HIDE DEF new, next, woken, wk
  <2>5. \A q \in Pids : state'[q] = "Free" => state[q] = "Free"
    BY <2>2, <2>3, <2>4, ZenonT(40) DEF SameFate
  <2>6. QED
    BY <2>4, <2>5, SameFilesShape
<1>7. ASSUME NEW p \in Pids, Waitpid(p) PROVE StepShape
  BY <1>7, ReapShape DEF Waitpid, CanReap
<1>8. QED
  BY <1>2, <1>3, <1>4, <1>5, <1>6, <1>7, ZenonT(40) DEF ProcessCall

LEMMA FileCallShape ==
    ASSUME IInv, IInv', FilesInv, DescriptorCall \/ PipeCall
    PROVE  StepShape
<1>1. files \in FileStates /\ Counted(files) /\ current \in Pids
  BY DEF IInv, TypeOK, ProcOK, FilesInv
<1>2. ASSUME NEW f, FileCall(f), Balanced(files, f), OthersKept(files, f, current) PROVE StepShape
  BY <1>2, CallShape DEF FileCall, procVars
<1>3. ASSUME NEW flags \in OpenFlags, NEW c \in BOOLEAN, OpenFile(flags, c) PROVE StepShape
  <2>1. flags \in FlagWords
    BY DescriptorsAssumption DEF FlagWords
  <2>2. QED
    BY <1>1, <1>2, <1>3, <2>1, OpenBalanced, CallOthers, ZenonT(40) DEF OpenFile
<1>4. ASSUME NEW fd \in Fds, CloseFd(fd) PROVE StepShape
  BY <1>1, <1>2, <1>4, CloseSetBalanced, CloseOthers, ZenonT(40) DEF CloseFd
<1>5. ASSUME NEW fd \in Fds, NEW min \in Fds, DupFd(fd, min) PROVE StepShape
  BY <1>1, <1>2, <1>5, DupBalanced, CallOthers, ZenonT(40) DEF DupFd, IsOpen
<1>6. ASSUME NEW old \in Fds, NEW new \in Fds, Dup2Fd(old, new) PROVE StepShape
  BY <1>1, <1>2, <1>6, Dup2Balanced, CallOthers, ZenonT(40) DEF Dup2Fd, IsOpen
<1>7. ASSUME NEW fd \in Fds, NEW c \in BOOLEAN, SetCloexec(fd, c) PROVE StepShape
  BY <1>1, <1>2, <1>7, StatusBalanced, CallOthers, ZenonT(40) DEF SetCloexec, IsOpen
<1>8. ASSUME NEW fd \in Fds, NEW arg \in StatusArgs, SetStatusFlags(fd, arg) PROVE StepShape
  BY <1>1, <1>2, <1>8, StatusBalanced, CallOthers, ZenonT(40) DEF SetStatusFlags, IsOpen
<1>9. CASE CreatePipe
  BY <1>1, <1>2, <1>9, MakePipeBalanced, CallOthers, ZenonT(40) DEF CreatePipe
<1>10. ASSUME NEW fd \in Fds, NEW n \in 1 .. PipeBufSize, ReadPipe(fd, n) \/ WritePipe(fd, n)
       PROVE  StepShape
  <2>1. n \in Nat
    BY DescriptorsAssumption, SMTT(30)
  <2>2. NamesPipe(files, current, fd)
    BY <1>10, ZenonT(40) DEF ReadPipe, WritePipe
  <2>3. PipeOf(files, current, fd) \in Pipes
    BY <2>2 DEF NamesPipe
  <2>4. QED
    BY <1>1, <1>2, <1>10, <2>1, <2>3, TransferBalanced, CallOthers, ZenonT(40) DEF ReadPipe, WritePipe
<1>11. ASSUME NEW fd \in Fds, BrokenPipe(fd) PROVE StepShape
  BY <1>1, <1>11, SignalShape DEF BrokenPipe
<1>12. QED
  BY <1>3, <1>4, <1>5, <1>6, <1>7, <1>8, <1>9, <1>10, <1>11, ZenonT(40) DEF DescriptorCall, PipeCall

LEMMA TickShape ==
    ASSUME IInv, IInv', FilesInv, Tick
    PROVE  StepShape
<1>1. /\ TickNext \in Pids /\ SafeTable(TickStates, TickNext) /\ SameFate(state, TickStates)
  BY CurrentFacts, TickFacts, ZenonT(40) DEF IInv, TypeOK
<1>2. CASE TickPlain \/ TickDeliver
  BY <1>1, <1>2, SameFilesShape, ZenonT(40) DEF TickPlain, TickDeliver, SameFate
<1>3. CASE TickDeliverFails
  <2>1. TickNext # 0
    BY <1>3 DEF TickDeliverFails, HasDeliverable, IInv, RootUnsignalled
  <2>2. FaultExit(TickStates, TickNext, CountDown) /\ PreTable(TickStates, TickNext)
    BY <1>1, <1>3 DEF TickDeliverFails, SafeTable
  <2>3. QED
    BY <1>1, <2>1, <2>2, ExitShape, ZenonT(40) DEF FaultExit
<1>4. QED
  BY <1>2, <1>3 DEF Tick

LEMMA KardiaShape ==
    ASSUME IInv, IInv', FilesInv, KardiaStep
    PROVE  StepShape
<1>1. CASE KardiaWake \/ KardiaPop \/ KardiaDecide \/ KardiaRestartFails
  <2>1. UNCHANGED <<state, files>>
    BY <1>1, ZenonT(40) DEF KardiaWake, KardiaPop, KardiaDecide, KardiaRestartFails, procVars
  <2>2. QED
    BY <2>1, SameFilesShape
<1>2. CASE KardiaRestart
  <2>1. UNCHANGED files /\ state' = Marked(state, Lowest(FreePids), "Ready")
    BY <1>2 DEF KardiaRestart, NewProcess
  <2>2. state \in [Pids -> States] /\ Lowest(FreePids) \in Pids
    BY <1>2, FreePidsFacts DEF IInv, TypeOK, ProcOK, KardiaRestart
  <2>3. \A q \in Pids : state'[q] = "Free" => state[q] = "Free"
    BY <2>1, <2>2 DEF Marked
  <2>4. QED
    BY <2>1, <2>3, SameFilesShape
<1>3. CASE KardiaReap
  <2>1. kreap \in Pids
    BY DEF IInv, TypeOK, LoopOK
  <2>2. CASE CanReap(kreap, 0) /\ Reap(kreap)
    BY <2>1, <2>2, ReapShape DEF CanReap
  <2>3. CASE UNCHANGED <<procVars, files>>
    BY <2>3, SameFilesShape DEF procVars
  <2>4. QED
    BY <1>3, <2>2, <2>3, ZenonT(40) DEF KardiaReap
<1>4. QED
  BY <1>1, <1>2, <1>3 DEF KardiaStep

LEMMA FutexShape ==
    ASSUME IInv, IInv', FutexCall
    PROVE  StepShape
<1>1. state \in [Pids -> States]
  BY ZenonT(40) DEF IInv, TypeOK, ProcOK
<1>2. ASSUME NEW addr \in Addrs, FutexWait(addr) PROVE StepShape
  <2>1. current \in Pids \ {0} /\ PreTable(state, current)
    BY <1>2, CurrentFacts DEF FutexWait, UserRuns
  <2>2. SameFateBut(state, state', current) /\ state'[current] = "Blocked"
    BY <1>2, <2>1, LeaveFacts DEF FutexWait, States
  <2>3. QED
    BY <1>2, <2>2, SameFilesShape DEF FutexWait, SameFateBut
<1>3. ASSUME NEW addr \in Addrs, NEW max \in 1 .. MaxWaiters, FutexWake(addr, max) PROVE StepShape
  BY <1>1, <1>3, SameFilesShape DEF FutexWake
<1>4. QED
  BY <1>2, <1>3 DEF FutexCall

LEMMA EveryStepShape ==
    ASSUME IInv, IInv', FilesInv, [Next]_vars
    PROVE  StepShape
<1>1. CASE SignalCall
  <2>1. ASSUME NEW p \in Pids, NEW sig \in Signals, Kill(p, sig) PROVE StepShape
    BY <2>1, SignalShape DEF Kill
  <2>2. ASSUME NEW sig \in Signals, NEW act \in SignalActions, Sigaction(sig, act) PROVE StepShape
    BY <2>2, SameFilesShape DEF Sigaction, procVars
  <2>3. QED
    BY <1>1, <2>1, <2>2 DEF SignalCall
<1>2. CASE IpcCall
  BY <1>2, SameFilesShape DEF IpcCall, Recv, Send, procVars
<1>3. CASE UNCHANGED vars
  BY <1>3, SameFilesShape DEF vars, procVars
<1>4. QED
  BY <1>1, <1>2, <1>3, ProcessCallShape, FileCallShape, TickShape, KardiaShape, FutexShape, ZenonT(40) DEF Next

----------------------------------------------------------------------------
\* The invariant and the theorems.

LEMMA InitFiles == Init => FilesInv
<1> SUFFICES ASSUME Init PROVE FilesInv
  OBVIOUS
<1>1. files = NoFiles /\ NoFiles.tab = [p \in Pids |-> EmptyTable] /\ NoFiles.ofd = [i \in Ofds |-> NoFile]
  BY DEF Init, NoFiles
<1>2. ASSUME NEW i \in Ofds PROVE Count(files.tab, i) <= files.ofd[i].refs
  <2>1. \A x \in Pids \X Fds : files.tab[x[1]][x[2]].ofd # i
    BY <1>1, DescriptorsAssumption, SMTT(30) DEF EmptyTable, NoEntry, Ofds, NoOfd
  <2>2. Names(files.tab, i) = {}
    BY <2>1 DEF Names
  <2>3. Count(files.tab, i) = 0
    BY <2>2, FS_EmptySet, ZenonT(40) DEF Count
  <2>4. files.ofd[i].refs = 0
    BY <1>1, SMTT(30) DEF NoFile
  <2>5. QED
    BY <2>3, <2>4, SMTT(30)
<1>3. QED
  BY <1>1, <1>2 DEF FilesInv, Counted, FreeTablesEmpty

\* Dropping a table takes descriptors away and leaves the counts.
LEMMA DropCounts ==
    ASSUME NEW f \in FileStates, NEW p \in Pids, NEW i \in Ofds
    PROVE  /\ DropTable(f, p).ofd = f.ofd
           /\ \A q \in Pids : DropTable(f, p).tab[q] = IF q = p THEN EmptyTable ELSE f.tab[q]
           /\ Count(DropTable(f, p).tab, i) <= Count(f.tab, i)
           /\ Naming(f, p, i) = {} => Count(DropTable(f, p).tab, i) = Count(f.tab, i)
<1> DEFINE g == DropTable(f, p)
<1>1. g.ofd = f.ofd /\ \A q \in Pids : g.tab[q] = IF q = p THEN EmptyTable ELSE f.tab[q]
  BY DEF DropTable, FileStates
<1> HIDE DEF g
<1>2. \A fd \in Fds : EmptyTable[fd].ofd # i
  BY DescriptorsAssumption, SMTT(30) DEF EmptyTable, NoEntry, Ofds, NoOfd
<1>3. Names(g.tab, i) \subseteq Names(f.tab, i)
  BY <1>1, <1>2, ZenonT(40) DEF Names
<1>4. Count(g.tab, i) <= Count(f.tab, i)
  BY <1>3, NamesFinite, FS_Subset, ZenonT(40) DEF Count
<1>5. ASSUME Naming(f, p, i) = {} PROVE Count(g.tab, i) = Count(f.tab, i)
  <2>1. \A fd \in Fds : f.tab[p][fd].ofd # i
    BY <1>5, ZenonT(40) DEF Naming
  <2>2. Names(f.tab, i) \subseteq Names(g.tab, i)
    BY <1>1, <2>1, ZenonT(40) DEF Names
  <2>3. Names(f.tab, i) = Names(g.tab, i)
    BY <1>3, <2>2
  <2>4. QED
    BY <2>3 DEF Count
<1>6. QED
  BY <1>1, <1>4, <1>5 DEF g

LEMMA FilesInductive == IInv /\ IInv' /\ FilesInv /\ [Next]_vars => FilesInv'
<1> SUFFICES ASSUME IInv, IInv', FilesInv, [Next]_vars PROVE FilesInv'
  OBVIOUS
<1>1. files \in FileStates /\ files' \in FileStates
  BY DEF IInv, TypeOK
<1>2. PICK p \in Pids : Moves(p) \/ Reaped(p)
  BY EveryStepShape DEF StepShape
<1>3. CASE Moves(p)
  <2>1. Counted(files')
    BY <1>1, <1>3, StaysCounted, ZenonT(40) DEF Moves, FilesInv
  <2>2. FreeTablesEmpty'
    BY <1>3 DEF Moves, OthersKept, FilesInv, FreeTablesEmpty
  <2>3. QED
    BY <2>1, <2>2, ZenonT(40) DEF FilesInv, Counted
<1>4. CASE Reaped(p)
  <2>1. ASSUME NEW i \in Ofds PROVE Count(files'.tab, i) <= files'.ofd[i].refs
    <3>1. Count(files'.tab, i) <= Count(files.tab, i) /\ files'.ofd = files.ofd
      BY <1>1, <1>4, DropCounts DEF Reaped
    <3>2. Count(files.tab, i) <= files.ofd[i].refs
      BY Zenon DEF FilesInv, Counted
    <3>3. files.ofd[i].refs \in Nat
      BY <1>1 DEF FileStates, OpenFiles
    <3>4. Count(files.tab, i) \in Nat /\ Count(files'.tab, i) \in Nat
      BY NamesFinite, Zenon
    <3>5. \A a, b, c \in Nat : a <= b /\ b <= c => a <= c
      BY SMTT(30)
    <3>6. QED
      BY <3>1, <3>2, <3>3, <3>4, <3>5, Zenon
  <2>2. FreeTablesEmpty'
    <3>1. ASSUME NEW q \in Pids, state'[q] = "Free" PROVE files'.tab[q] = EmptyTable
      <4>1. files'.tab = DropTable(files, p).tab
        BY <1>4 DEF Reaped
      <4>2. files'.tab[q] = IF q = p THEN EmptyTable ELSE files.tab[q]
        BY <1>1, <4>1 DEF DropTable, FileStates
      <4>3. QED
        BY <1>4, <3>1, <4>2, ZenonT(40) DEF Reaped, FilesInv, FreeTablesEmpty
    <3>2. QED
      BY <3>1, ZenonT(40) DEF FreeTablesEmpty
  <2>3. QED
    BY <2>1, <2>2 DEF FilesInv, Counted
<1>5. QED
  BY <1>2, <1>3, <1>4

LEMMA FilesInvariant == Spec => []FilesInv
<1>1. QED
  BY InitFiles, FilesInductive, Invariant, PTL DEF Spec

LEMMA ReferencesIsCount == \A i : References(i) = Count(files.tab, i)
BY DEF References, Count, Names

\* No descriptor of any process ever names a freed description, through any
\* sequence of open, dup, dup2, close, fork, exec, exit, fault, signal and reap
\* (ofd_ref and ofd_unref in fd.rs).
THEOREM NeverDangling == Spec => []NoDanglingFd
<1>1. FilesInv => NoDanglingFd
  BY ReferencesIsCount DEF FilesInv, Counted, NoDanglingFd
<1>2. QED
  BY <1>1, FilesInvariant, PTL

\* A count grows away from the descriptors there are only when waitpid or PID 0
\* drops the table of a Dead process that holds open descriptors.
THEOREM CountsAlwaysExactButReap == Spec => CountsExactButReap
<1> DEFINE Leaks(i) == files'.ofd[i].refs - References(i)' > files.ofd[i].refs - References(i)
           Drops(i) == \E p \in Pids : state[p] = "Dead" /\ state'[p] = "Free" /\ Naming(files, p, i) # {}
<1>1. ASSUME IInv, IInv', FilesInv, [Next]_vars PROVE [\A i \in Ofds : Leaks(i) => Drops(i)]_files
  <2>1. SUFFICES ASSUME NEW i \in Ofds, Leaks(i) PROVE Drops(i)
    OBVIOUS
  <2>2. References(i) = Count(files.tab, i) /\ References(i)' = Count(files'.tab, i)
    BY DEF References, Count, Names
  <2>3. files'.ofd[i].refs - Count(files'.tab, i) > files.ofd[i].refs - Count(files.tab, i)
    BY <2>1, <2>2, ZenonT(40)
  <2> HIDE DEF Leaks
  <2>4. files \in FileStates /\ files.ofd[i].refs \in Nat /\ Count(files.tab, i) \in Nat
    BY <1>1, NamesFinite DEF IInv, TypeOK, FileStates, OpenFiles
  <2>5. PICK p \in Pids : Moves(p) \/ Reaped(p)
    BY <1>1, EveryStepShape, ZenonT(40) DEF StepShape
  <2>6. ~ Moves(p)
    BY <2>3, <2>4, SMTT(30) DEF Moves, Balanced
  <2>7. Reaped(p)
    BY <2>5, <2>6, ZenonT(40)
  <2>8. ASSUME Naming(files, p, i) = {} PROVE FALSE
    <3>1. files'.ofd = files.ofd /\ Count(files'.tab, i) = Count(files.tab, i)
      BY <2>4, <2>7, <2>8, DropCounts DEF Reaped
    <3>2. files.ofd[i].refs - Count(files.tab, i) \in Int
      BY <2>4
    <3>3. \A d \in Int : ~ (d > d)
      OBVIOUS
    <3>4. QED
      BY <2>3, <3>1, <3>2, <3>3, ZenonT(40)
  <2>9. QED
    BY <2>7, <2>8, ZenonT(40) DEF Reaped
<1>2. QED
  BY <1>1, Invariant, FilesInvariant, PTL DEF Spec, CountsExactButReap
=============================================================================
