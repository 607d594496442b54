----------------------------- MODULE KernelTypes -----------------------------
(***************************************************************************)
(* Every reachable state of the process core is well typed: TypeOK is       *)
(* inductive.  First what each building block of the handlers makes of the  *)
(* variables it assigns, then one step per action.                          *)
(***************************************************************************)
EXTENDS FileLemmas

\* A part of the kernel an action leaves alone stays well typed.
LEMMA UnchangedParts ==
    ASSUME TypeOK
    PROVE  /\ UNCHANGED procVars => ProcOK'
           /\ UNCHANGED memVars => MemOK'
           /\ UNCHANGED sigVars => SigOK'
           /\ UNCHANGED waiters => WaitersOK'
           /\ UNCHANGED inbox => InboxOK'
           /\ UNCHANGED claimVars => ClaimsOK'
           /\ UNCHANGED supVars => SupOK'
           /\ UNCHANGED loopVars => LoopOK'
           /\ UNCHANGED files => files' \in FileStates
<1>1. UNCHANGED procVars => ProcOK'
  BY DEF TypeOK, ProcOK, procVars
<1>2. UNCHANGED memVars => MemOK'
  BY DEF TypeOK, MemOK, memVars
<1>3. UNCHANGED sigVars => SigOK'
  BY DEF TypeOK, SigOK, sigVars
<1>4. UNCHANGED waiters => WaitersOK'
  BY DEF TypeOK, WaitersOK
<1>5. UNCHANGED inbox => InboxOK'
  BY DEF TypeOK, InboxOK
<1>6. UNCHANGED claimVars => ClaimsOK'
  BY DEF TypeOK, ClaimsOK, claimVars
<1>7. UNCHANGED supVars => SupOK'
  BY DEF TypeOK, SupOK, supVars
<1>8. UNCHANGED loopVars => LoopOK'
  BY DEF TypeOK, LoopOK, loopVars
<1>9. UNCHANGED files => files' \in FileStates
  BY DEF TypeOK
<1>10. QED
  BY <1>1, <1>2, <1>3, <1>4, <1>5, <1>6, <1>7, <1>8, <1>9

LEMMA SwitchTypes ==
    ASSUME NEW st \in [Pids -> States], NEW cur \in Pids, NEW wk
    PROVE  LET woken == WakeSleepers(st, wk)
               next == PickNext(woken, cur)
           IN  /\ woken \in [Pids -> States]
               /\ next \in Pids
               /\ SwitchTo(woken, cur, next) \in [Pids -> States]
<1> DEFINE woken == WakeSleepers(st, wk)
           next == PickNext(woken, cur)
<1>1. woken \in [Pids -> States]
  BY DEF WakeSleepers, States
<1> HIDE DEF woken
<1>2. next \in Pids
  BY PickNextReady
<1> HIDE DEF next
<1>3. SwitchTo(woken, cur, next) \in [Pids -> States]
  BY <1>1, <1>2 DEF SwitchTo, States
<1>4. QED
  BY <1>1, <1>2, <1>3 DEF woken, next

LEMMA RescheduleTypes ==
    ASSUME NEW st \in [Pids -> States], NEW cur \in Pids, NEW wk, Reschedule(st, cur, wk)
    PROVE  state' \in [Pids -> States] /\ current' \in Pids
BY SwitchTypes DEF Reschedule

LEMMA MarkedType ==
    ASSUME NEW st \in [Pids -> States], NEW p \in Pids, NEW s \in States
    PROVE  Marked(st, p, s) \in [Pids -> States]
BY DEF Marked

LEMMA TickTypes ==
    ASSUME TypeOK
    PROVE  /\ CountDown \in [Pids -> Nat]
           /\ TickNext \in Pids
           /\ TickStates \in [Pids -> States]
<1>1. CountDown \in [Pids -> Nat]
  BY DEF TypeOK, ProcOK, CountDown
<1>2. QED
  BY <1>1, SwitchTypes DEF TypeOK, ProcOK, TickNext, TickStates

LEMMA NoWaiterType == NoWaiter \in [addr : Addrs \cup {0}, space : Tables, pid : Pids \cup {NoPid}]
BY KernelAssumption DEF NoWaiter, Tables

LEMMA FreeWaitersType ==
    ASSUME WaitersOK, NEW p
    PROVE  FreeWaitersForPid(waiters, p)
              \in [Slots -> [addr : Addrs \cup {0}, space : Tables, pid : Pids \cup {NoPid}]]
BY NoWaiterType DEF WaitersOK, FreeWaitersForPid, ClearSlots

LEMMA ClearInboxType ==
    ASSUME InboxOK, NEW p \in Pids
    PROVE  ClearInbox(inbox, p) \in [Pids -> Seq(Pids)]
BY DEF InboxOK, ClearInbox, EmptyInbox

LEMMA ReleaseTypes ==
    ASSUME TypeOK, NEW p \in Pids, ReleaseProcess(p)
    PROVE  MemOK' /\ WaitersOK' /\ InboxOK'
<1>1. MemOK'
  BY KernelAssumption DEF TypeOK, MemOK, ReleaseProcess, Tables, NoSpace
<1>2. WaitersOK'
  BY FreeWaitersType DEF TypeOK, ReleaseProcess, WaitersOK
<1>3. InboxOK'
  BY ClearInboxType DEF TypeOK, ReleaseProcess, InboxOK
<1>4. QED
  BY <1>1, <1>2, <1>3

LEMMA ClaimTypes ==
    ASSUME NEW claim \in [Services -> Pids \cup {NoPid}], NEW p \in Pids
    PROVE  /\ ClearPid(claim, p) \in [Services -> Pids \cup {NoPid}]
           /\ ReleaseClaim(claim, p) \in [Services -> Pids \cup {NoPid}]
           /\ ServiceOf(claim, p) \in Services \cup {NoService}
BY DEF ClearPid, ReleaseClaim, ServiceOf

LEMMA PushReportType ==
    ASSUME ClaimsOK, NEW p \in Pids
    PROVE  PushReport(ring, svcPid, p) \in Seq(Reports)
<1> DEFINE r == [pid |-> p, service |-> ServiceOf(svcPid, p)]
<1>1. r \in Reports
  BY ClaimTypes DEF ClaimsOK, Reports
<1>2. PushReport(ring, svcPid, p) = IF Len(ring) >= RingSize THEN ring ELSE Append(ring, r)
  BY DEF PushReport
<1> HIDE DEF r
<1>3. QED
  BY <1>1, <1>2 DEF ClaimsOK

LEMMA DeliverTypes ==
    ASSUME TypeOK, NEW p \in Pids, NEW sig \in AllSignals, DeliverSignal(p, sig)
    PROVE  /\ state' \in [Pids -> States] /\ files' \in FileStates /\ WaitersOK'
           /\ svcPid' \in [Services -> Pids \cup {NoPid}]
           /\ pending' \in [Pids -> SUBSET AllSignals]
<1>1. state' \in [Pids -> States]
  BY MarkedType DEF TypeOK, ProcOK, DeliverSignal, States
<1>2. files' \in FileStates
  BY CloseTypes DEF TypeOK, DeliverSignal
<1>3. WaitersOK'
  BY FreeWaitersType DEF TypeOK, WaitersOK, DeliverSignal
<1>4. svcPid' \in [Services -> Pids \cup {NoPid}]
  BY ClaimTypes DEF TypeOK, ClaimsOK, DeliverSignal
<1>5. pending' \in [Pids -> SUBSET AllSignals]
  BY DEF TypeOK, SigOK, DeliverSignal
<1>6. QED
  BY <1>1, <1>2, <1>3, <1>4, <1>5

LEMMA FreePidsFacts ==
    ASSUME FreePids # {}
    PROVE  Lowest(FreePids) \in Pids /\ state[Lowest(FreePids)] = "Free"
<1>1. FreePids \in SUBSET Nat
  BY MaxProcsAssumption DEF FreePids, Pids
<1>2. Lowest(FreePids) \in FreePids
  BY <1>1, LowestIn
<1>3. QED
  BY <1>2 DEF FreePids

LEMMA FreeSpacesFacts ==
    ASSUME FreeSpaces # {}
    PROVE  Lowest(FreeSpaces) \in Spaces /\ Lowest(FreeSpaces) \notin spaces
<1>1. FreeSpaces \in SUBSET Nat
  BY KernelAssumption DEF FreeSpaces, Spaces
<1>2. Lowest(FreeSpaces) \in FreeSpaces
  BY <1>1, LowestIn
<1>3. QED
  BY <1>2 DEF FreeSpaces

LEMMA NewProcessTypes ==
    ASSUME TypeOK, NEW p \in Pids, NEW par \in Pids, NEW acts \in [AllSignals -> SignalActions],
           FreeSpaces # {}, NewProcess(p, par, acts), UNCHANGED current
    PROVE  ProcOK' /\ MemOK' /\ SigOK'
<1>1. ProcOK'
  BY MarkedType DEF TypeOK, ProcOK, NewProcess, States
<1>2. Spaces \subseteq Tables
  BY KernelAssumption DEF Spaces, Tables
<1>3. MemOK'
  BY <1>2, FreeSpacesFacts DEF TypeOK, MemOK, NewProcess
<1>4. SigOK'
  BY DEF TypeOK, SigOK, NewProcess
<1>5. QED
  BY <1>1, <1>3, <1>4

LEMMA DefaultActionsType == DefaultActions \in [AllSignals -> SignalActions]
BY DEF DefaultActions, SignalActions

LEMMA ReapTypes ==
    ASSUME TypeOK, NEW p \in Pids, Reap(p)
    PROVE  /\ ProcOK' /\ MemOK' /\ SigOK' /\ WaitersOK' /\ InboxOK' /\ ClaimsOK' /\ SupOK'
           /\ files' \in FileStates
<1>1. ProcOK'
  BY MarkedType DEF TypeOK, ProcOK, Reap, States
<1>2. MemOK'
  BY KernelAssumption DEF TypeOK, MemOK, Reap, Tables, NoSpace
<1>3. SigOK'
  BY DefaultActionsType DEF TypeOK, SigOK, Reap
<1>4. files' \in FileStates
  BY DropTableType DEF TypeOK, Reap
<1>5. UNCHANGED waiters /\ UNCHANGED inbox /\ UNCHANGED claimVars /\ UNCHANGED supVars
  BY DEF Reap
<1>6. QED
  BY <1>1, <1>2, <1>3, <1>4, <1>5, UnchangedParts

\* A file system call changes nothing but the descriptors.
LEMMA FileCallTypes ==
    ASSUME TypeOK, NEW f \in FileStates, FileCall(f)
    PROVE  TypeOK'
<1>1. files' \in FileStates
  BY DEF FileCall
<1>2. UNCHANGED <<procVars, memVars, sigVars, waiters, inbox, claimVars, supVars, loopVars>>
  BY DEF FileCall
<1>3. QED
  BY <1>1, <1>2, UnchangedParts DEF TypeOK

----------------------------------------------------------------------------
\* The actions.

LEMMA InitTypes == Init => TypeOK
<1> SUFFICES ASSUME Init PROVE TypeOK
  OBVIOUS
<1>1. 0 \in Pids /\ Pids \subseteq Int
  BY MaxProcsAssumption DEF Pids
<1>2. ProcOK
  BY <1>1 DEF Init, ProcOK, States
<1>3. MemOK
  BY KernelAssumption, MaxProcsAssumption DEF Init, MemOK, Tables, Spaces, KernelTable, NoSpace, Pids
<1>4. SigOK
  BY DefaultActionsType DEF Init, SigOK
<1>5. WaitersOK
  BY NoWaiterType DEF Init, WaitersOK
<1>6. InboxOK
  BY DEF Init, InboxOK, EmptyInbox
<1>7. ClaimsOK
  BY SupervisorAssumption DEF Init, ClaimsOK
<1>8. SupOK
  BY DEF Init, SupOK
<1>9. LoopOK
  BY <1>1 DEF Init, LoopOK, NoReport, Reports
<1>10. files \in FileStates
  BY NoFilesType DEF Init
<1>11. QED
  BY <1>2, <1>3, <1>4, <1>5, <1>6, <1>7, <1>8, <1>9, <1>10 DEF TypeOK

LEMMA ProcessCallTypes ==
    ASSUME TypeOK, ProcessCall
    PROVE  TypeOK'
<1>1. CASE Exit
  <2>1. ExitCurrent /\ UNCHANGED <<parent, wake, sigVars, ring, supVars, loopVars>>
    BY <1>1 DEF Exit
  <2>2. current \in Pids /\ Marked(state, current, "Dead") \in [Pids -> States]
    BY MarkedType DEF TypeOK, ProcOK, States
  <2>3. ProcOK'
    BY <2>1, <2>2, RescheduleTypes DEF ExitCurrent, TypeOK, ProcOK
  <2>4. MemOK' /\ WaitersOK' /\ InboxOK'
    BY <2>1, <2>2, ReleaseTypes DEF ExitCurrent
  <2>5. files' \in FileStates
    BY <2>1, <2>2, CloseTypes DEF ExitCurrent, TypeOK
  <2>6. ClaimsOK'
    BY <2>1, <2>2, ClaimTypes DEF ExitCurrent, TypeOK, ClaimsOK
  <2>7. QED
    BY <2>1, <2>3, <2>4, <2>5, <2>6, UnchangedParts DEF TypeOK
<1>2. CASE Yield
  <2>1. Reschedule(state, current, wake)
    BY <1>2 DEF Yield
  <2>2. UNCHANGED <<parent, wake, memVars, sigVars, waiters, inbox, files, claimVars, supVars, loopVars>>
    BY <1>2 DEF Yield
  <2>3. ProcOK'
    BY <2>1, <2>2, RescheduleTypes DEF TypeOK, ProcOK
  <2>4. QED
    BY <2>2, <2>3, UnchangedParts DEF TypeOK
<1>3. CASE Fork
  <2> DEFINE child == Lowest(FreePids)
  <2>1. NewProcess(child, current, action[current]) /\ files' = ForkTable(files, current, child)
    BY <1>3 DEF Fork
  <2>2. FreeSpaces # {} /\ UNCHANGED current /\ UNCHANGED <<waiters, inbox, claimVars, supVars, loopVars>>
    BY <1>3 DEF Fork
  <2>3. child \in Pids /\ current \in Pids /\ action[current] \in [AllSignals -> SignalActions]
    BY <1>3, FreePidsFacts, ZenonT(40) DEF Fork, TypeOK, ProcOK, SigOK
  <2> HIDE DEF child
  <2>4. ProcOK' /\ MemOK' /\ SigOK'
    BY <2>1, <2>2, <2>3, NewProcessTypes
  <2>5. files' \in FileStates
    BY <2>1, <2>3, ForkTableType DEF TypeOK
  <2>6. QED
    BY <2>2, <2>4, <2>5, UnchangedParts DEF TypeOK
<1>4. CASE Execve
  <2>1. UNCHANGED <<procVars, memVars, waiters, inbox, claimVars, supVars, loopVars>>
    BY <1>4 DEF Execve
  <2>2. files' \in FileStates
    BY <1>4, CloseTypes DEF Execve, TypeOK, ProcOK
  <2>3. SigOK'
    BY <1>4, DefaultActionsType, ZenonT(40) DEF Execve, TypeOK, SigOK
  <2>4. QED
    BY <2>1, <2>2, <2>3, UnchangedParts DEF TypeOK
<1>5. CASE ExecveRemapFails
  <2>1. UNCHANGED <<parent, wake, ring, supVars, loopVars>>
    BY <1>5 DEF ExecveRemapFails
  <2>2. current \in Pids /\ Marked(state, current, "Dead") \in [Pids -> States]
    BY MarkedType DEF TypeOK, ProcOK, States
  <2>3. ProcOK'
    BY <1>5, <2>1, <2>2, RescheduleTypes DEF ExecveRemapFails, TypeOK, ProcOK
  <2>4. MemOK' /\ WaitersOK' /\ InboxOK'
    BY <1>5, <2>2, ReleaseTypes DEF ExecveRemapFails
  <2>5. files' \in FileStates
    BY <1>5, <2>2, CloseTypes DEF ExecveRemapFails, TypeOK
  <2>6. ClaimsOK'
    BY <1>5, <2>1, <2>2, ClaimTypes DEF ExecveRemapFails, TypeOK, ClaimsOK
  <2>7. SigOK'
    BY <1>5, DefaultActionsType, ZenonT(40) DEF ExecveRemapFails, TypeOK, SigOK
  <2>8. QED
    BY <2>1, <2>3, <2>4, <2>5, <2>6, <2>7, UnchangedParts DEF TypeOK
<1>6. CASE Fault
  <2>1. FaultExit(state, current, wake) /\ UNCHANGED <<parent, wake, sigVars, supVars, loopVars>>
    BY <1>6 DEF Fault
  <2>2. current \in Pids /\ Marked(state, current, "Dead") \in [Pids -> States]
    BY MarkedType DEF TypeOK, ProcOK, States
  <2>3. ProcOK'
    BY <2>1, <2>2, RescheduleTypes DEF FaultExit, TypeOK, ProcOK
  <2>4. MemOK' /\ WaitersOK' /\ InboxOK'
    BY <2>1, <2>2, ReleaseTypes DEF FaultExit
  <2>5. files' \in FileStates
    BY <2>1, <2>2, CloseTypes DEF FaultExit, TypeOK
  <2>6. ClaimsOK'
    BY <2>1, <2>2, ClaimTypes, PushReportType, ZenonT(40) DEF FaultExit, TypeOK, ClaimsOK
  <2>7. QED
    BY <2>1, <2>3, <2>4, <2>5, <2>6, UnchangedParts DEF TypeOK
<1>7. ASSUME NEW n \in SleepTicks, Sleep(n) PROVE TypeOK'
  <2> DEFINE wk == [wake EXCEPT ![current] = n]
             asleep == Marked(state, current, "Sleeping")
             woken == WakeSleepers(asleep, wk)
             next == PickNext(woken, current)
  <2>1. current \in Pids /\ asleep \in [Pids -> States]
    BY MarkedType DEF TypeOK, ProcOK, States
  <2>2. wk \in [Pids -> Nat] /\ [wake EXCEPT ![current] = 0] \in [Pids -> Nat]
    BY <2>1, KernelAssumption DEF TypeOK, ProcOK
  <2>3. woken \in [Pids -> States] /\ next \in Pids /\ SwitchTo(woken, current, next) \in [Pids -> States]
    BY <2>1, SwitchTypes
  <2>4. Marked(woken, current, "Running") \in [Pids -> States]
    BY <2>1, <2>3, MarkedType, ZenonT(40) DEF States
  <2>5. /\ state' \in {Marked(woken, current, "Running"), SwitchTo(woken, current, next)}
        /\ wake' \in {wk, [wake EXCEPT ![current] = 0]}
        /\ current' = next
        /\ UNCHANGED <<parent, memVars, sigVars, waiters, inbox, files, claimVars, supVars, loopVars>>
    BY <1>7 DEF Sleep
  <2> HIDE DEF wk, asleep, woken, next
  <2>6. ProcOK'
    BY <2>2, <2>3, <2>4, <2>5 DEF TypeOK, ProcOK
  <2>7. QED
    BY <2>5, <2>6, UnchangedParts DEF TypeOK
<1>8. ASSUME NEW p \in Pids, Waitpid(p) PROVE TypeOK'
  BY <1>8, ReapTypes, UnchangedParts DEF Waitpid, TypeOK
<1>9. QED
  BY <1>1, <1>2, <1>3, <1>4, <1>5, <1>6, <1>7, <1>8 DEF ProcessCall

LEMMA SignalTypes ==
    ASSUME TypeOK, NEW p \in Pids, NEW sig \in AllSignals, DeliverSignal(p, sig),
           UNCHANGED <<current, parent, wake, memVars, action, inbox, ring, supVars, loopVars>>
    PROVE  TypeOK'
<1>1. /\ state' \in [Pids -> States] /\ files' \in FileStates /\ WaitersOK'
      /\ svcPid' \in [Services -> Pids \cup {NoPid}]
      /\ pending' \in [Pids -> SUBSET AllSignals]
  BY DeliverTypes
<1>2. ProcOK' /\ SigOK' /\ ClaimsOK'
  BY <1>1 DEF TypeOK, ProcOK, SigOK, ClaimsOK
<1>3. QED
  BY <1>1, <1>2, UnchangedParts DEF TypeOK

LEMMA SignalCallTypes ==
    ASSUME TypeOK, SignalCall
    PROVE  TypeOK'
<1>1. ASSUME NEW p \in Pids, NEW sig \in Signals, Kill(p, sig) PROVE TypeOK'
  <2>1. sig \in AllSignals
    BY SignalsAssumption
  <2>2. QED
    BY <1>1, <2>1, SignalTypes DEF Kill
<1>2. ASSUME NEW sig \in Signals, NEW act \in SignalActions, Sigaction(sig, act) PROVE TypeOK'
  <2>1. UNCHANGED <<procVars, memVars, waiters, inbox, files, claimVars, supVars, loopVars>>
    BY <1>2 DEF Sigaction
  <2>2. sig \in AllSignals /\ current \in Pids
    BY SignalsAssumption DEF TypeOK, ProcOK
  <2>3. SigOK'
    BY <1>2, <2>2 DEF Sigaction, TypeOK, SigOK
  <2>4. QED
    BY <2>1, <2>3, UnchangedParts DEF TypeOK
<1>3. QED
  BY <1>1, <1>2 DEF SignalCall

LEMMA FutexCallTypes ==
    ASSUME TypeOK, FutexCall
    PROVE  TypeOK'
<1>1. ASSUME NEW addr \in Addrs, FutexWait(addr) PROVE TypeOK'
  <2> DEFINE slot == FirstWaiterSlot(waiters)
             w == [addr |-> addr, space |-> pt[current], pid |-> current]
  <2>1. UNCHANGED <<parent, wake, memVars, sigVars, inbox, files, claimVars, supVars, loopVars>>
    BY <1>1 DEF FutexWait
  <2>2. current \in Pids /\ Marked(state, current, "Blocked") \in [Pids -> States]
    BY MarkedType DEF TypeOK, ProcOK, States
  <2>3. ProcOK'
    BY <1>1, <2>1, <2>2, RescheduleTypes DEF FutexWait, TypeOK, ProcOK
  <2>4. w \in [addr : Addrs \cup {0}, space : Tables, pid : Pids \cup {NoPid}]
    BY <2>2 DEF TypeOK, MemOK
  <2>5. slot \in Slots
    BY <1>1, FirstWaiterSlotFree DEF FutexWait, FreeWaiterSlots
  <2>6. waiters' = [waiters EXCEPT ![slot] = w]
    BY <1>1 DEF FutexWait, Register
  <2> HIDE DEF slot, w
  <2>7. WaitersOK'
    BY <2>4, <2>5, <2>6 DEF TypeOK, WaitersOK
  <2>8. QED
    BY <2>1, <2>3, <2>7, UnchangedParts DEF TypeOK
<1>2. ASSUME NEW addr \in Addrs, NEW max \in 1 .. MaxWaiters, FutexWake(addr, max) PROVE TypeOK'
  <2>1. UNCHANGED <<current, parent, wake, memVars, sigVars, inbox, files, claimVars, supVars, loopVars>>
    BY <1>2 DEF FutexWake
  <2>2. ProcOK'
    BY <1>2, <2>1, ZenonT(40) DEF FutexWake, TypeOK, ProcOK, States
  <2>3. WaitersOK'
    BY <1>2, NoWaiterType, ZenonT(40) DEF FutexWake, ClearSlots, TypeOK, WaitersOK
  <2>4. QED
    BY <2>1, <2>2, <2>3, UnchangedParts DEF TypeOK
<1>3. QED
  BY <1>1, <1>2 DEF FutexCall

LEMMA IpcCallTypes ==
    ASSUME TypeOK, IpcCall
    PROVE  TypeOK'
<1>1. CASE Recv
  <2>1. UNCHANGED <<procVars, memVars, sigVars, waiters, files, claimVars, supVars, loopVars>>
    BY <1>1 DEF Recv
  <2>2. current \in Pids /\ inbox[current] \in Seq(Pids) /\ inbox[current] # << >>
    BY <1>1 DEF Recv, TypeOK, ProcOK, InboxOK, EmptyInbox
  <2>3. Tail(inbox[current]) \in Seq(Pids)
    BY <2>2
  <2>4. InboxOK'
    BY <1>1, <2>2, <2>3 DEF Recv, Receive, TypeOK, InboxOK
  <2>5. QED
    BY <2>1, <2>4, UnchangedParts DEF TypeOK
<1>2. ASSUME NEW to \in Pids, Send(to) PROVE TypeOK'
  <2>1. UNCHANGED <<procVars, memVars, sigVars, waiters, files, claimVars, supVars, loopVars>>
    BY <1>2 DEF Send
  <2>2. Append(inbox[to], current) \in Seq(Pids)
    BY DEF TypeOK, ProcOK, InboxOK
  <2>3. InboxOK'
    BY <1>2, <2>2 DEF Send, Deliver, TypeOK, InboxOK
  <2>4. QED
    BY <2>1, <2>3, UnchangedParts DEF TypeOK
<1>3. QED
  BY <1>1, <1>2 DEF IpcCall

LEMMA DescriptorCallTypes ==
    ASSUME TypeOK, DescriptorCall
    PROVE  TypeOK'
<1>1. files \in FileStates /\ current \in Pids
  BY DEF TypeOK, ProcOK
<1>2. ASSUME NEW flags \in OpenFlags, NEW c \in BOOLEAN, OpenFile(flags, c) PROVE TypeOK'
  <2>1. flags \in FlagWords
    BY DescriptorsAssumption DEF FlagWords
  <2>2. QED
    BY <1>1, <1>2, <2>1, OpenType, FileCallTypes DEF OpenFile
<1>3. ASSUME NEW fd \in Fds, CloseFd(fd) PROVE TypeOK'
  BY <1>1, <1>3, CloseSetType, FileCallTypes DEF CloseFd
<1>4. ASSUME NEW fd \in Fds, NEW min \in Fds, DupFd(fd, min) PROVE TypeOK'
  BY <1>1, <1>4, DupType, FileCallTypes DEF DupFd, IsOpen
<1>5. ASSUME NEW old \in Fds, NEW new \in Fds, Dup2Fd(old, new) PROVE TypeOK'
  BY <1>1, <1>5, Dup2Type, FileCallTypes DEF Dup2Fd, IsOpen
<1>6. ASSUME NEW fd \in Fds, NEW c \in BOOLEAN, SetCloexec(fd, c) PROVE TypeOK'
  BY <1>1, <1>6, SetFdType, FileCallTypes DEF SetCloexec
<1>7. ASSUME NEW fd \in Fds, NEW arg \in StatusArgs, SetStatusFlags(fd, arg) PROVE TypeOK'
  <2>1. arg \in FlagWords
    BY DescriptorsAssumption DEF FlagWords
  <2>2. QED
    BY <1>1, <1>7, <2>1, SetFlType, FileCallTypes DEF SetStatusFlags, IsOpen
<1>8. QED
  BY <1>2, <1>3, <1>4, <1>5, <1>6, <1>7 DEF DescriptorCall

LEMMA PipeCallTypes ==
    ASSUME TypeOK, PipeCall
    PROVE  TypeOK'
<1>1. files \in FileStates /\ current \in Pids
  BY DEF TypeOK, ProcOK
<1>2. CASE CreatePipe
  BY <1>1, <1>2, MakePipeType, FileCallTypes DEF CreatePipe
<1>3. ASSUME NEW fd \in Fds, NEW n \in 1 .. PipeBufSize, ReadPipe(fd, n) PROVE TypeOK'
  <2>1. n \in Nat /\ PipeOf(files, current, fd) \in Pipes
    BY <1>3, DescriptorsAssumption, SMTT(30) DEF ReadPipe, NamesPipe
  <2>2. QED
    BY <1>1, <1>3, <2>1, TransferTypes, FileCallTypes, ZenonT(40) DEF ReadPipe
<1>4. ASSUME NEW fd \in Fds, NEW n \in 1 .. PipeBufSize, WritePipe(fd, n) PROVE TypeOK'
  <2>1. n \in Nat /\ PipeOf(files, current, fd) \in Pipes
    BY <1>4, DescriptorsAssumption, SMTT(30) DEF WritePipe, NamesPipe
  <2>2. QED
    BY <1>1, <1>4, <2>1, TransferTypes, FileCallTypes, ZenonT(40) DEF WritePipe
<1>5. ASSUME NEW fd \in Fds, BrokenPipe(fd) PROVE TypeOK'
  <2>1. SIGPIPE \in AllSignals
    BY DEF AllSignals
  <2>2. QED
    BY <1>1, <1>5, <2>1, SignalTypes DEF BrokenPipe
<1>6. QED
  BY <1>2, <1>3, <1>4, <1>5 DEF PipeCall

LEMMA TickStepTypes ==
    ASSUME TypeOK, Tick
    PROVE  TypeOK'
<1>1. CountDown \in [Pids -> Nat] /\ TickNext \in Pids /\ TickStates \in [Pids -> States]
  BY TickTypes
<1>2. CountTick
  BY DEF Tick, TickPlain, TickDeliver, TickDeliverFails
<1>3. wake' \in [Pids -> Nat] /\ parent' \in [Pids -> Pids \cup {NoPid}]
  BY <1>1, <1>2 DEF CountTick, TypeOK, ProcOK
<1>4. action' \in [Pids -> [AllSignals -> SignalActions]]
  BY <1>2 DEF CountTick, TypeOK, SigOK
<1>5. UNCHANGED supVars
  BY <1>2 DEF CountTick
<1>6. LoopOK'
  <2>1. AgeCap \in Nat
    BY SupervisorAssumption, SMTT(30) DEF AgeCap
  <2>2. sinceNow' \in Nat
    BY <1>2, <2>1, SMTT(30) DEF CountTick, TypeOK, LoopOK, AtMost
  <2>3. QED
    BY <1>2, <2>2 DEF CountTick, TypeOK, LoopOK
<1>7. CASE TickPlain \/ TickDeliver
  <2>1. UNCHANGED <<memVars, waiters, inbox, files, claimVars>>
    BY <1>7 DEF TickPlain, TickDeliver
  <2>2. ProcOK'
    BY <1>1, <1>3, <1>7 DEF TickPlain, TickDeliver, ProcOK
  <2>3. SigOK'
    BY <1>1, <1>4, <1>7 DEF TickPlain, TickDeliver, TypeOK, SigOK
  <2>4. QED
    BY <1>5, <1>6, <2>1, <2>2, <2>3, UnchangedParts, ZenonT(40) DEF TypeOK
<1>8. CASE TickDeliverFails
  <2>1. FaultExit(TickStates, TickNext, CountDown) /\ UNCHANGED pending
    BY <1>8 DEF TickDeliverFails
  <2>2. Marked(TickStates, TickNext, "Dead") \in [Pids -> States]
    BY <1>1, MarkedType DEF States
  <2>3. ProcOK'
    BY <1>1, <1>3, <2>1, <2>2, RescheduleTypes DEF FaultExit, ProcOK
  <2>4. SigOK'
    BY <1>4, <2>1 DEF TypeOK, SigOK
  <2>5. MemOK' /\ WaitersOK' /\ InboxOK'
    BY <1>1, <2>1, ReleaseTypes DEF FaultExit
  <2>6. files' \in FileStates
    BY <1>1, <2>1, CloseTypes DEF FaultExit, TypeOK
  <2>7. ClaimsOK'
    BY <1>1, <2>1, ClaimTypes, PushReportType, ZenonT(40) DEF FaultExit, TypeOK, ClaimsOK
  <2>8. QED
    BY <1>5, <1>6, <2>3, <2>4, <2>5, <2>6, <2>7, UnchangedParts, ZenonT(40) DEF TypeOK
<1>9. QED
  BY <1>7, <1>8 DEF Tick

LEMMA KardiaStepTypes ==
    ASSUME TypeOK, KardiaStep
    PROVE  TypeOK'
<1>1. NoReport \in Reports
  BY MaxProcsAssumption DEF NoReport, Reports, Pids
<1>2. AgeCap \in Nat
  BY SupervisorAssumption DEF AgeCap
<1>3. CASE KardiaWake
  <2>1. UNCHANGED <<procVars, memVars, sigVars, waiters, inbox, files, claimVars>>
    BY <1>3 DEF KardiaWake
  <2>2. SupOK'
    BY <1>2, <1>3, SMTT(30) DEF KardiaWake, TypeOK, SupOK, LoopOK, AtMost
  <2>3. LoopOK'
    BY <1>3 DEF KardiaWake, TypeOK, LoopOK
  <2>4. QED
    BY <2>1, <2>2, <2>3, UnchangedParts DEF TypeOK
<1>4. CASE KardiaPop
  <2>1. UNCHANGED <<procVars, memVars, sigVars, waiters, inbox, files, supVars>>
    BY <1>4 DEF KardiaPop
  <2>2. ring # << >> => Head(ring) \in Reports /\ Tail(ring) \in Seq(Reports)
    BY DEF TypeOK, ClaimsOK
  <2>3. ClaimsOK'
    BY <1>4, <2>2 DEF KardiaPop, TypeOK, ClaimsOK
  <2>4. LoopOK'
    BY <1>4, <2>2 DEF KardiaPop, TypeOK, LoopOK
  <2>5. QED
    BY <2>1, <2>3, <2>4, UnchangedParts DEF TypeOK
<1>5. CASE KardiaDecide
  <2>1. UNCHANGED <<procVars, memVars, sigVars, waiters, inbox, files, claimVars>>
    BY <1>5 DEF KardiaDecide
  <2>2. LoopOK'
    BY <1>1, <1>5 DEF KardiaDecide, TypeOK, LoopOK
  <2>3. SupOK'
    <3> DEFINE s == kreport.service
               age == [windowAge EXCEPT ![s] = IF WindowExpired(@) THEN 0 ELSE @]
    <3>1. CASE UNCHANGED supVars
      BY <3>1, UnchangedParts
    <3>2. CASE ~ UNCHANGED supVars
      <4>1. PICK n \in {0, 1}, g \in BOOLEAN :
               /\ restarts' = [restarts EXCEPT ![s] = RestartsInWindow(@, windowAge[s]) + n]
               /\ windowAge' = age
               /\ gaveUp' = [gaveUp EXCEPT ![s] = g]
        BY <1>5, <3>2, ZenonT(40) DEF KardiaDecide
      <4>2. age \in [Services -> Nat]
        BY ZenonT(40) DEF TypeOK, SupOK
      <4>3. \A r \in Nat : RestartsInWindow(r, windowAge[s]) + n \in Nat
        BY DEF RestartsInWindow
      <4> HIDE DEF s, age
      <4>4. QED
        BY <4>1, <4>2, <4>3, ZenonT(40) DEF TypeOK, SupOK
    <3>3. QED
      BY <3>1, <3>2
  <2>4. QED
    BY <2>1, <2>2, <2>3, UnchangedParts, ZenonT(40) DEF TypeOK
<1>6. CASE KardiaRestart
  <2> DEFINE p == Lowest(FreePids)
  <2>1. NewProcess(p, 0, DefaultActions) /\ svcPid' = [svcPid EXCEPT ![kreport.service] = p]
    BY <1>6 DEF KardiaRestart
  <2>2. FreeSpaces # {} /\ UNCHANGED current
    BY <1>6 DEF KardiaRestart
  <2>3. UNCHANGED ring /\ UNCHANGED <<waiters, inbox, files, supVars>>
    BY <1>6 DEF KardiaRestart
  <2>4. p \in Pids /\ 0 \in Pids
    BY <1>6, FreePidsFacts, MaxProcsAssumption, SMTT(30) DEF KardiaRestart, Pids
  <2>5. LoopOK'
    BY <1>1, <1>6 DEF KardiaRestart, TypeOK, LoopOK
  <2> HIDE DEF p
  <2>6. ProcOK' /\ MemOK' /\ SigOK'
    BY <2>1, <2>2, <2>4, DefaultActionsType, NewProcessTypes
  <2>7. ClaimsOK'
    BY <2>1, <2>3, <2>4, ZenonT(40) DEF TypeOK, ClaimsOK
  <2>8. QED
    BY <2>3, <2>5, <2>6, <2>7, UnchangedParts DEF TypeOK
<1>7. CASE KardiaRestartFails
  <2>1. UNCHANGED <<procVars, memVars, sigVars, waiters, inbox, files, claimVars, supVars>>
    BY <1>7 DEF KardiaRestartFails
  <2>2. LoopOK'
    BY <1>1, <1>7 DEF KardiaRestartFails, TypeOK, LoopOK
  <2>3. QED
    BY <2>1, <2>2, UnchangedParts DEF TypeOK
<1>8. CASE KardiaReap
  <2>1. LoopOK'
    BY <1>8, MaxProcsAssumption DEF KardiaReap, TypeOK, LoopOK, Pids
  <2>2. CASE Reap(kreap)
    BY <2>1, <2>2, ReapTypes DEF TypeOK, LoopOK
  <2>3. CASE UNCHANGED <<procVars, memVars, sigVars, waiters, inbox, files, claimVars, supVars>>
    BY <2>1, <2>3, UnchangedParts DEF TypeOK
  <2>4. QED
    BY <1>8, <2>2, <2>3 DEF KardiaReap
<1>9. QED
  BY <1>3, <1>4, <1>5, <1>6, <1>7, <1>8 DEF KardiaStep

LEMMA TypesInductive == TypeOK /\ [Next]_vars => TypeOK'
<1> SUFFICES ASSUME TypeOK, [Next]_vars PROVE TypeOK'
  OBVIOUS
<1>1. CASE Next
  BY <1>1, ProcessCallTypes, SignalCallTypes, FutexCallTypes, IpcCallTypes, DescriptorCallTypes,
     PipeCallTypes, TickStepTypes, KardiaStepTypes, ZenonT(40) DEF Next
<1>2. CASE UNCHANGED vars
  BY <1>2, UnchangedParts DEF vars, TypeOK
<1>3. QED
  BY <1>1, <1>2

\* Every variable of the process core keeps its type, whatever the sizes of the
\* tables: no handler stores an index outside the table it indexes.
THEOREM TypeCorrect == Spec => []TypeOK
<1>1. QED
  BY InitTypes, TypesInductive, PTL DEF Spec
=============================================================================
