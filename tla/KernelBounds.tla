---------------------------- MODULE KernelBounds ----------------------------
(***************************************************************************)
(* What no step may do, for every size of the tables, proved from the       *)
(* invariant of KernelProofs: run a sleeper before its wake tick or a futex *)
(* waiter without a wake from its own address space, change the action of   *)
(* SIGKILL, overfill an inbox or a pipe.                                    *)
(***************************************************************************)
EXTENDS KernelProofs


\* From table st to table new, the only waiting processes made runnable are
\* sleepers whose wake counter in wk has run out.
DueOnly(st, new, wk) ==
    \A p \in Pids : st[p] \in {"Sleeping", "Blocked"} /\ new[p] \in {"Ready", "Running"}
                       => st[p] = "Sleeping" /\ wk[p] = 0

\* What both action properties say of one step.
WakeRule ==
    \A p \in Pids : state'[p] \in {"Ready", "Running"}
                       => /\ state[p] = "Sleeping" => wake'[p] = 0
                          /\ state[p] = "Blocked" => pt[p] = pt[current]

LEMMA SwitchDue ==
    ASSUME NEW st \in [Pids -> States], NEW cur \in Pids, NEW wk
    PROVE  LET woken == WakeSleepers(st, wk)
               next == PickNext(woken, cur)
           IN  DueOnly(st, SwitchTo(woken, cur, next), wk)
<1> DEFINE woken == WakeSleepers(st, wk)
           next == PickNext(woken, cur)
           new == SwitchTo(woken, cur, next)
<1>1. \A p \in Pids : woken[p] = IF st[p] = "Sleeping" /\ wk[p] = 0 THEN "Ready" ELSE st[p]
  BY DEF WakeSleepers
<1>2. woken \in [Pids -> States]
  BY SwitchTypes
<1> HIDE DEF woken
<1>3. next = cur \/ (next \in Pids /\ woken[next] = "Ready")
  BY PickNextReady DEF ReadyOthers
<1> HIDE DEF next
<1>4. new = IF next = cur THEN woken
            ELSE [woken EXCEPT ![cur] = IF @ = "Running" THEN "Ready" ELSE @, ![next] = "Running"]
  BY DEF SwitchTo
<1> HIDE DEF new
<1>5. \A p \in Pids : \/ new[p] = woken[p]
                      \/ p = next /\ woken[p] = "Ready"
                      \/ p = cur /\ woken[p] = "Running"
  BY <1>2, <1>3, <1>4
<1>6. DueOnly(st, new, wk)
  BY <1>1, <1>5 DEF DueOnly
<1>7. QED
  BY <1>6 DEF woken, next, new

\* The rule, when CURRENT leaves the processor or gives up its slice.
LEMMA LeavesDue ==
    ASSUME IInv, NEW s \in States, NEW wk,
           Reschedule(Marked(state, current, s), current, wk), wake' = wk
    PROVE  WakeRule
<1> DEFINE m == Marked(state, current, s)
<1>1. current \in Pids /\ m \in [Pids -> States]
  BY MarkedType, ZenonT(40) DEF IInv, TypeOK, ProcOK
<1>2. DueOnly(m, state', wk)
  BY <1>1, SwitchDue DEF Reschedule
<1>3. \A p \in Pids \ {current} : m[p] = state[p]
  BY DEF Marked, IInv, TypeOK, ProcOK
<1>4. state[current] \in {"Running", "Dead"}
  BY DEF IInv, SchedulerSafe
<1> HIDE DEF m
<1>5. QED
  BY <1>2, <1>3, <1>4 DEF DueOnly, WakeRule

\* The rule, when one entry of the table changes and was not waiting, or does
\* not become runnable.
LEMMA MarksDue ==
    ASSUME IInv, NEW p \in Pids, NEW s, state' = Marked(state, p, s),
           state[p] = "Free" \/ s \notin {"Ready", "Running"}
    PROVE  WakeRule
<1>1. \A q \in Pids : state'[q] = IF q = p THEN s ELSE state[q]
  BY DEF Marked, IInv, TypeOK, ProcOK
<1>2. QED
  BY <1>1 DEF WakeRule

LEMMA StaysDue ==
    ASSUME UNCHANGED state
    PROVE  WakeRule
BY DEF WakeRule

LEMMA SignalDue ==
    ASSUME IInv, NEW p \in Pids, NEW sig, DeliverSignal(p, sig)
    PROVE  WakeRule
<1>1. UNCHANGED state \/ state' = Marked(state, p, "Dead")
  BY DEF DeliverSignal
<1>2. QED
  BY <1>1, StaysDue, MarksDue

LEMMA TickDue ==
    ASSUME IInv, Tick
    PROVE  WakeRule
<1>1. state \in [Pids -> States] /\ current \in Pids
  BY DEF IInv, TypeOK, ProcOK
<1>2. TickNext \in Pids /\ TickStates \in [Pids -> States] /\ DueOnly(state, TickStates, CountDown)
  BY <1>1, TickTypes, SwitchDue DEF IInv, TickStates, TickNext
<1>3. wake' = CountDown
  BY DEF Tick, TickPlain, TickDeliver, TickDeliverFails, CountTick
<1>4. CASE TickPlain \/ TickDeliver
  BY <1>2, <1>3, <1>4 DEF TickPlain, TickDeliver, DueOnly, WakeRule
<1>5. CASE TickDeliverFails
  <2> DEFINE m == Marked(TickStates, TickNext, "Dead")
  <2>1. Reschedule(m, TickNext, CountDown)
    BY <1>5 DEF TickDeliverFails, FaultExit
  <2>2. m \in [Pids -> States] /\ \A p \in Pids : m[p] = IF p = TickNext THEN "Dead" ELSE TickStates[p]
    BY <1>2 DEF Marked, States
  <2> HIDE DEF m
  <2>3. DueOnly(m, state', CountDown)
    BY <1>2, <2>1, <2>2, SwitchDue DEF Reschedule
  <2>4. TickStates[TickNext] = "Running" /\ SameFate(state, TickStates)
    BY CurrentFacts, TickFacts DEF IInv, TypeOK
  <2>5. QED
    BY <1>2, <1>3, <2>2, <2>3, <2>4 DEF DueOnly, WakeRule, SameFate, States
<1>6. QED
  BY <1>4, <1>5 DEF Tick

LEMMA SleepDue ==
    ASSUME IInv, NEW n \in SleepTicks, Sleep(n)
    PROVE  WakeRule
<1> DEFINE wk == [wake EXCEPT ![current] = n]
           m == Marked(state, current, "Sleeping")
           woken == WakeSleepers(m, wk)
           next == PickNext(woken, current)
<1>1. current \in Pids \ {0} /\ PreTable(state, current)
  BY CurrentFacts DEF Sleep, UserRuns
<1>2. PreTable(m, current)
  BY <1>1, MarkedFacts DEF States
<1>3. next # current
  BY <1>1, <1>2, SwitchFacts
<1>4. state' = SwitchTo(woken, current, next) /\ current' = next /\ wake' = wk
  BY <1>3 DEF Sleep
<1>5. Reschedule(m, current, wk)
  BY <1>4 DEF Reschedule
<1>6. QED
  BY <1>4, <1>5, LeavesDue, ZenonT(40) DEF States

LEMMA FutexWakeDue ==
    ASSUME IInv, NEW addr \in Addrs, NEW max, FutexWake(addr, max)
    PROVE  WakeRule
<1> DEFINE gone == WokenSlots(waiters, addr, pt[current], max)
           woken == WokenPids(waiters, addr, pt[current], max)
<1>1. \A s \in gone : s \in Slots /\ waiters[s].pid # NoPid /\ waiters[s].space = pt[current]
  BY DEF WokenSlots
<1>2. woken = {waiters[s].pid : s \in gone}
  BY DEF WokenPids
<1>3. \A p \in Pids : state'[p] = IF p \in woken THEN "Ready" ELSE state[p]
  BY DEF FutexWake
<1> HIDE DEF gone, woken
<1>4. \A p \in woken \cap Pids : state[p] = "Blocked" /\ pt[p] = pt[current]
  BY <1>1, <1>2 DEF IInv, BlockedIffWaiting
<1>5. QED
  BY <1>3, <1>4 DEF WakeRule

LEMMA StepsDue ==
    ASSUME IInv, Next
    PROVE  WakeRule
<1>1. state[current] \in {"Running", "Dead"} /\ current \in Pids
  BY DEF IInv, SchedulerSafe, TypeOK, ProcOK
<1>2. CASE ProcessCall
  <2>1. CASE Exit
    BY <2>1, LeavesDue DEF Exit, ExitCurrent, States
  <2>2. CASE ExecveRemapFails
    BY <2>2, LeavesDue DEF ExecveRemapFails, States
  <2>3. CASE Fault
    BY <2>3, LeavesDue DEF Fault, FaultExit, States
  <2>4. CASE Yield
    <3>1. DueOnly(state, state', wake) /\ wake' = wake
      BY <2>4, SwitchDue DEF Yield, Reschedule, IInv, TypeOK, ProcOK
    <3>2. QED
      BY <3>1 DEF DueOnly, WakeRule
  <2>5. CASE Fork
    BY <2>5, FreePidsFacts, MarksDue DEF Fork, NewProcess
  <2>6. CASE Execve
    BY <2>6, StaysDue DEF Execve, procVars
  <2>7. CASE \E n \in SleepTicks : Sleep(n)
    BY <2>7, SleepDue
  <2>8. CASE \E p \in Pids : Waitpid(p)
    BY <2>8, MarksDue DEF Waitpid, Reap
  <2>9. QED
    BY <1>2, <2>1, <2>2, <2>3, <2>4, <2>5, <2>6, <2>7, <2>8, ZenonT(40) DEF ProcessCall
<1>3. CASE SignalCall
  BY <1>3, SignalDue, StaysDue DEF SignalCall, Kill, Sigaction, procVars
<1>4. CASE FutexCall
  <2>1. ASSUME NEW addr \in Addrs, FutexWait(addr) PROVE WakeRule
    BY <2>1, LeavesDue DEF FutexWait, States
  <2>2. QED
    BY <1>4, <2>1, FutexWakeDue DEF FutexCall
<1>5. CASE IpcCall
  BY <1>5, StaysDue DEF IpcCall, Recv, Send, procVars
<1>6. CASE DescriptorCall
  BY <1>6, StaysDue, ZenonT(40) DEF DescriptorCall, OpenFile, CloseFd, DupFd, Dup2Fd, SetCloexec, SetStatusFlags,
                        FileCall, procVars
<1>7. CASE PipeCall
  BY <1>1, <1>7, StaysDue, SignalDue DEF PipeCall, CreatePipe, ReadPipe, WritePipe, BrokenPipe, FileCall,
                                  procVars
<1>8. CASE KardiaStep
  <2>1. CASE KardiaRestart
    BY <2>1, FreePidsFacts, MarksDue DEF KardiaRestart, NewProcess
  <2>2. CASE KardiaReap
    <3>1. kreap \in Pids
      BY DEF IInv, TypeOK, LoopOK
    <3>2. UNCHANGED state \/ state' = Marked(state, kreap, "Free")
      BY <2>2 DEF KardiaReap, Reap, procVars
    <3>3. QED
      BY <3>1, <3>2, StaysDue, MarksDue
  <2>3. QED
    BY <1>8, <2>1, <2>2, StaysDue DEF KardiaStep, KardiaWake, KardiaPop, KardiaDecide,
                                      KardiaRestartFails, procVars
<1>9. QED
  BY <1>2, <1>3, <1>4, <1>5, <1>6, <1>7, <1>8, TickDue, ZenonT(40) DEF Next

\* Nothing but the passing of its wake tick ends a sleep and leaves the process
\* alive: no signal, wake or slot reuse cuts a sleep short (process.rs).
THEOREM SleepNeverCutShort == Spec => SleepIsNotCutShort
<1>1. IInv /\ [Next]_vars => [\A p \in Pids : state[p] = "Sleeping" /\ state'[p] \in {"Ready", "Running"}
                                                => wake'[p] = 0]_vars
  BY StepsDue DEF WakeRule
<1>2. QED
  BY <1>1, Invariant, PTL DEF Spec, SleepIsNotCutShort

\* A futex waiter is made runnable only from its own address space, however
\* slots and tables are reused (wake_waiters_for_address_space).
THEOREM FutexAlwaysIsolated == Spec => FutexIsolation
<1>1. IInv /\ [Next]_vars => [\A p \in Pids : state[p] = "Blocked" /\ state'[p] \in {"Ready", "Running"}
                                                => pt[p] = pt[current]]_vars
  BY StepsDue DEF WakeRule
<1>2. QED
  BY <1>1, Invariant, PTL DEF Spec, FutexIsolation

----------------------------------------------------------------------------
\* Limits.


LEMMA InitKill == Init => KillUncatchable
BY DEF Init, KillUncatchable, DefaultActions, AllSignals, SIGKILL

LEMMA KillInductive == IInv /\ KillUncatchable /\ [Next]_vars => KillUncatchable'
<1> SUFFICES ASSUME IInv, KillUncatchable, [Next]_vars PROVE KillUncatchable'
  OBVIOUS
<1>1. action \in [Pids -> [AllSignals -> SignalActions]] /\ current \in Pids
  BY DEF IInv, TypeOK, SigOK, ProcOK
<1>2. DefaultActions[SIGKILL] = "Default" /\ SIGKILL \in AllSignals
  BY DEF DefaultActions, AllSignals, SIGKILL
<1>3. ASSUME UNCHANGED action PROVE KillUncatchable'
  BY <1>3 DEF KillUncatchable
<1>4. ASSUME NEW p \in Pids, NEW acts, acts[SIGKILL] = "Default", action' = [action EXCEPT ![p] = acts]
      PROVE  KillUncatchable'
  <2>1. \A q \in Pids : action'[q] = IF q = p THEN acts ELSE action[q]
    BY <1>1, <1>4
  <2>2. QED
    BY <1>4, <2>1 DEF KillUncatchable
<1>5. CASE ProcessCall
  <2>1. CASE Fork
    <3>1. Lowest(FreePids) \in Pids /\ action[current][SIGKILL] = "Default"
      BY <1>1, <2>1, FreePidsFacts DEF Fork, KillUncatchable
    <3>2. QED
      BY <1>4, <2>1, <3>1, ZenonT(40) DEF Fork, NewProcess
  <2>2. CASE Execve \/ ExecveRemapFails
    BY <1>1, <1>2, <1>4, <2>2 DEF Execve, ExecveRemapFails
  <2>3. CASE \E p \in Pids : Waitpid(p)
    BY <1>2, <1>4, <2>3, ZenonT(40) DEF Waitpid, Reap
  <2>4. CASE Exit \/ Yield \/ Fault \/ \E n \in SleepTicks : Sleep(n)
    BY <1>3, <2>4, ZenonT(40) DEF Exit, Yield, Fault, Sleep, sigVars
  <2>5. QED
    BY <1>5, <2>1, <2>2, <2>3, <2>4, ZenonT(40) DEF ProcessCall
<1>6. CASE SignalCall
  <2>1. CASE \E p \in Pids, sig \in Signals : Kill(p, sig)
    BY <1>3, <2>1 DEF Kill
  <2>2. ASSUME NEW sig \in Signals, NEW act \in SignalActions, Sigaction(sig, act) PROVE KillUncatchable'
    <3>1. sig \in AllSignals /\ (sig # SIGKILL \/ act = "Default")
      BY <2>2, SignalsAssumption DEF Sigaction, CanCatch
    <3>2. action' = [action EXCEPT ![current] = [action[current] EXCEPT ![sig] = act]]
      BY <1>1, <2>2 DEF Sigaction
    <3>3. [action[current] EXCEPT ![sig] = act][SIGKILL] = "Default"
      BY <1>1, <1>2, <3>1 DEF KillUncatchable
    <3>4. QED
      BY <1>1, <1>4, <3>2, <3>3, ZenonT(40)
  <2>3. QED
    BY <1>6, <2>1, <2>2 DEF SignalCall
<1>7. CASE KardiaStep
  <2>1. CASE KardiaRestart
    BY <1>2, <1>4, <2>1, FreePidsFacts, ZenonT(40) DEF KardiaRestart, NewProcess
  <2>2. CASE KardiaReap
    <3>1. kreap \in Pids
      BY DEF IInv, TypeOK, LoopOK
    <3>2. UNCHANGED action \/ action' = [action EXCEPT ![kreap] = DefaultActions]
      BY <2>2 DEF KardiaReap, Reap, sigVars
    <3>3. QED
      BY <1>2, <1>3, <1>4, <3>1, <3>2
  <2>3. QED
    BY <1>3, <1>7, <2>1, <2>2, ZenonT(40) DEF KardiaStep, KardiaWake, KardiaPop, KardiaDecide, KardiaRestartFails,
                                  sigVars
<1>8. CASE FutexCall \/ IpcCall
  BY <1>3, <1>8, ZenonT(40) DEF FutexCall, FutexWait, FutexWake, IpcCall, Recv, Send, sigVars
<1>9. CASE DescriptorCall \/ PipeCall
  BY <1>3, <1>9, ZenonT(40) DEF DescriptorCall, OpenFile, CloseFd, DupFd, Dup2Fd, SetCloexec, SetStatusFlags,
                    PipeCall, CreatePipe, ReadPipe, WritePipe, BrokenPipe, FileCall, sigVars
<1>10. CASE Tick \/ UNCHANGED vars
  BY <1>3, <1>10 DEF Tick, TickPlain, TickDeliver, TickDeliverFails, CountTick, vars, sigVars
<1>11. QED
  BY <1>5, <1>6, <1>7, <1>8, <1>9, <1>10, ZenonT(40) DEF Next

\* No process ever changes what SIGKILL does to it, through sigaction, fork,
\* exec, restart or slot reuse (can_catch in signal.rs).
THEOREM KillNeverCaught == Spec => []KillUncatchable
<1>1. QED
  BY InitKill, KillInductive, Invariant, PTL DEF Spec

----------------------------------------------------------------------------
LEMMA InitInbox == Init => InboxesBounded
<1>1. Len(<< >>) = 0 /\ InboxSize \in Nat /\ 0 \in Pids
  BY InboxAssumption, NoPidNotPid
<1>2. QED
  BY <1>1 DEF Init, InboxesBounded, EmptyInbox

LEMMA InboxInductive == IInv /\ InboxesBounded /\ [Next]_vars => InboxesBounded'
<1> SUFFICES ASSUME IInv, InboxesBounded, [Next]_vars PROVE InboxesBounded'
  OBVIOUS
<1>1. inbox \in [Pids -> Seq(Pids)] /\ current \in Pids /\ 0 \in Pids /\ InboxSize \in Nat
  BY InboxAssumption, NoPidNotPid DEF IInv, TypeOK, InboxOK, ProcOK
<1>2. ASSUME UNCHANGED inbox PROVE InboxesBounded'
  BY <1>2 DEF InboxesBounded
<1>3. ASSUME NEW p \in Pids, NEW box \in Seq(Pids), Len(box) <= InboxSize, p = 0 => box = EmptyInbox,
             inbox' = [inbox EXCEPT ![p] = box]
      PROVE  InboxesBounded'
  <2>1. \A q \in Pids : inbox'[q] = IF q = p THEN box ELSE inbox[q]
    BY <1>1, <1>3
  <2>2. QED
    BY <1>1, <1>3, <2>1 DEF InboxesBounded
<1>4. ASSUME NEW p \in Pids, ReleaseProcess(p) PROVE InboxesBounded'
  <2>1. EmptyInbox \in Seq(Pids) /\ Len(EmptyInbox) <= InboxSize
    BY <1>1 DEF EmptyInbox
  <2>2. inbox' = [inbox EXCEPT ![p] = EmptyInbox]
    BY <1>4 DEF ReleaseProcess, ClearInbox
  <2>3. QED
    BY <1>3, <2>1, <2>2, ZenonT(40)
<1>5. CASE IpcCall
  <2>1. CASE Recv
    <3> DEFINE box == Tail(inbox[current])
    <3>1. inbox[current] \in Seq(Pids) /\ inbox[current] # << >> /\ Len(inbox[current]) <= InboxSize
      BY <1>1, <2>1 DEF Recv, EmptyInbox, InboxesBounded
    <3>2. box \in Seq(Pids) /\ Len(box) <= InboxSize
      BY <1>1, <3>1
    <3>3. current # 0 /\ inbox' = [inbox EXCEPT ![current] = box]
      BY <2>1 DEF Recv, UserRuns, Receive
    <3> HIDE DEF box
    <3>4. QED
      BY <1>1, <1>3, <3>2, <3>3, ZenonT(40)
  <2>2. ASSUME NEW to \in Pids, Send(to) PROVE InboxesBounded'
    <3> DEFINE box == Append(inbox[to], current)
    <3>1. inbox[to] \in Seq(Pids) /\ Len(inbox[to]) < InboxSize /\ to # 0
      BY <1>1, <2>2 DEF Send, InboxHasRoom
    <3>2. box \in Seq(Pids) /\ Len(box) <= InboxSize
      BY <1>1, <3>1
    <3>3. inbox' = [inbox EXCEPT ![to] = box]
      BY <2>2 DEF Send, Deliver
    <3> HIDE DEF box
    <3>4. QED
      BY <1>3, <3>1, <3>2, <3>3, ZenonT(40)
  <2>3. QED
    BY <1>5, <2>1, <2>2 DEF IpcCall
<1>6. CASE ProcessCall
  <2>1. CASE Exit \/ ExecveRemapFails \/ Fault
    BY <1>1, <1>4, <2>1, ZenonT(40) DEF Exit, ExitCurrent, ExecveRemapFails, Fault, FaultExit
  <2>2. CASE Yield \/ Fork \/ Execve \/ (\E n \in SleepTicks : Sleep(n)) \/ \E p \in Pids : Waitpid(p)
    BY <1>2, <2>2, ZenonT(40) DEF Yield, Fork, Execve, Sleep, Waitpid, Reap
  <2>3. QED
    BY <1>6, <2>1, <2>2 DEF ProcessCall
<1>7. CASE Tick
  <2>1. CASE TickDeliverFails
    BY <1>4, <2>1, TickTypes, ZenonT(40) DEF TickDeliverFails, FaultExit, IInv
  <2>2. CASE TickPlain \/ TickDeliver
    BY <1>2, <2>2 DEF TickPlain, TickDeliver
  <2>3. QED
    BY <1>7, <2>1, <2>2 DEF Tick
<1>8. CASE SignalCall \/ FutexCall
  BY <1>2, <1>8, ZenonT(40) DEF SignalCall, Kill, Sigaction, FutexCall, FutexWait, FutexWake
<1>9. CASE DescriptorCall \/ PipeCall
  BY <1>2, <1>9, ZenonT(40) DEF DescriptorCall, OpenFile, CloseFd, DupFd, Dup2Fd, SetCloexec, SetStatusFlags,
                    PipeCall, CreatePipe, ReadPipe, WritePipe, BrokenPipe, FileCall
<1>10. CASE KardiaStep \/ UNCHANGED vars
  BY <1>2, <1>10, ZenonT(40) DEF KardiaStep, KardiaWake, KardiaPop, KardiaDecide, KardiaRestart, KardiaRestartFails,
                     KardiaReap, Reap, vars
<1>11. QED
  BY <1>5, <1>6, <1>7, <1>8, <1>9, <1>10, ZenonT(40) DEF Next

\* No inbox holds more than INBOX_SIZE messages and none reaches PID 0, whose
\* capability no user process holds (Inbox::push, sys_send).
THEOREM InboxesAlwaysBounded == Spec => []InboxesBounded
<1>1. QED
  BY InitInbox, InboxInductive, Invariant, PTL DEF Spec

\* A pipe never holds more than its buffer, through any mix of partial reads and
\* writes (PipeBuffer::write and read).
THEOREM PipesAlwaysBounded == Spec => []PipeBounded
<1>1. TypeOK => PipeBounded
  BY DEF TypeOK, FileStates, PipeBuffers, PipeBounded
<1>2. QED
  BY <1>1, TypeCorrect, PTL
=============================================================================
