-------------------------- MODULE KernelSupervision --------------------------
(***************************************************************************)
(* Supervision for every number of services, ring size and restart budget:  *)
(* a service runs at most once, a service that is down stays down, and the  *)
(* crash-loop budget holds, however faults, kills, exits and the steps of   *)
(* PID 0's loop interleave.                                                 *)
(***************************************************************************)
EXTENDS KernelProofs

\* The part of a step that supervision depends on, by kind.  Claims may lapse:
Lapse ==
    /\ UNCHANGED <<ring, kpc, kreport>>
    /\ \A s \in Services : svcPid'[s] \in {svcPid[s], NoPid}

\* ... a fault of p files a report and drops p's claim:
Report(p) ==
    /\ ring' = PushReport(ring, svcPid, p)
    /\ \A s \in Services : svcPid'[s] = IF svcPid[s] = p THEN NoPid ELSE svcPid[s]
    /\ UNCHANGED <<kpc, kreport>>

\* What the proofs need to know of one step, for every service.
StepRule ==
    /\ OneIncarnation => OneIncarnation'
    /\ \A s \in Services : Down(s) => Down(s)'

LEMMA LapseRule ==
    ASSUME Lapse
    PROVE  StepRule
<1>1. \A s \in Services : /\ ReportsOf(s)' = ReportsOf(s)
                          /\ InHand(s)' <=> InHand(s)
                          /\ Claimed(s)' => Claimed(s)
  BY DEF Lapse, ReportsOf, InHand, Claimed
<1>2. QED
  BY <1>1 DEF StepRule, OneIncarnation, Down

LEMMA ReportRule ==
    ASSUME IInv, NEW p \in Pids, Report(p)
    PROVE  StepRule
<1> DEFINE x == ServiceOf(svcPid, p)
           r == [pid |-> p, service |-> x]
<1>1. \A s \in Services : s = x => svcPid[s] = p
  BY ClaimFacts DEF IInv, TypeOK, ClaimsOK
<1>2. ring \in Seq(Reports) /\ r \in Reports
  BY ClaimTypes DEF IInv, TypeOK, ClaimsOK, Reports
<1>3. ring' = ring \/ ring' = Append(ring, r)
  BY DEF Report, PushReport
<1>4. r.service = x
  OBVIOUS
<1> HIDE DEF r, x
<1>5. \A s \in Services : /\ InHand(s)' <=> InHand(s)
                          /\ Claimed(s)' => Claimed(s) /\ s # x
                          /\ s = x => Claimed(s)
  BY <1>1, NoPidNotPid DEF Report, InHand, Claimed
<1>6. ASSUME NEW s \in Services PROVE ReportsOf(s)' = IF s = x /\ ring' # ring
                                                      THEN ReportsOf(s) \cup {Len(ring) + 1} ELSE ReportsOf(s)
  <2>1. CASE ring' = ring
    BY <2>1 DEF ReportsOf
  <2>2. CASE ring' = Append(ring, r)
    <3>1. Len(ring') = Len(ring) + 1 /\ Len(ring) \in Nat
      BY <1>2, <2>2, SMTT(30)
    <3>2. \A i \in 1 .. Len(ring) + 1 : ring'[i] = IF i = Len(ring) + 1 THEN r ELSE ring[i]
      BY <1>2, <2>2, SMTT(30)
    <3>3. ring' # ring
      BY <3>1
    <3>4. QED
      BY <1>4, <3>1, <3>2, <3>3, SMTT(30) DEF ReportsOf
  <2>3. QED
    BY <1>3, <2>1, <2>2
<1>7. ASSUME OneIncarnation PROVE OneIncarnation'
  <2>1. \A s \in Services : /\ Claimed(s) => ReportsOf(s) = {} /\ ~ InHand(s)
                            /\ \A i, j \in ReportsOf(s) : i = j
                            /\ InHand(s) => ReportsOf(s) = {}
    BY <1>7 DEF OneIncarnation
  <2>2. \A s \in Services : /\ Claimed(s)' => ReportsOf(s)' = {} /\ ~ InHand(s)'
                            /\ \A i, j \in ReportsOf(s)' : i = j
                            /\ InHand(s)' => ReportsOf(s)' = {}
    BY <1>5, <1>6, <2>1
  <2>3. QED
    BY <2>2 DEF OneIncarnation
<1>8. \A s \in Services : Down(s) => Down(s)'
  BY <1>5, <1>6 DEF Down
<1>9. QED
  BY <1>7, <1>8 DEF StepRule

----------------------------------------------------------------------------
\* The steps of PID 0's loop.

LEMMA PopRule ==
    ASSUME IInv, KardiaPop
    PROVE  StepRule
<1>1. ring \in Seq(Reports) /\ kpc = "drain" /\ UNCHANGED svcPid
  BY DEF KardiaPop, IInv, TypeOK, ClaimsOK
<1>2. \A s \in Services : ~ InHand(s) /\ (Claimed(s)' <=> Claimed(s))
  BY <1>1 DEF InHand, Claimed
<1>3. CASE ring = << >>
  <2>1. UNCHANGED ring /\ kpc' = "reap"
    BY <1>3 DEF KardiaPop
  <2>2. \A s \in Services : ReportsOf(s)' = ReportsOf(s) /\ ~ InHand(s)'
    BY <2>1 DEF ReportsOf, InHand
  <2>3. QED
    BY <1>2, <2>2 DEF StepRule, OneIncarnation, Down
<1>4. CASE ring # << >>
  <2>1. kpc' = "decide" /\ kreport' = Head(ring) /\ ring' = Tail(ring)
    BY <1>4 DEF KardiaPop
  <2>2. /\ Len(ring) \in Nat /\ Len(ring) >= 1 /\ Len(ring') = Len(ring) - 1
        /\ Head(ring) = ring[1]
        /\ \A i \in 1 .. Len(ring) - 1 : ring'[i] = ring[i + 1]
    BY <1>1, <1>4, <2>1, SMTT(30)
  <2>3. \A s \in Services : InHand(s)' <=> 1 \in ReportsOf(s)
    BY <2>1, <2>2, SMTT(30) DEF InHand, ReportsOf
  <2>4. \A s \in Services : \A i \in ReportsOf(s)' : i \in Nat /\ i >= 1 /\ i + 1 \in ReportsOf(s)
    BY <2>2 DEF ReportsOf
  <2>5. ASSUME OneIncarnation, NEW s \in Services
        PROVE  /\ Claimed(s)' => ReportsOf(s)' = {} /\ ~ InHand(s)'
               /\ \A i, j \in ReportsOf(s)' : i = j
               /\ InHand(s)' => ReportsOf(s)' = {}
    <3>1. /\ Claimed(s) => ReportsOf(s) = {}
          /\ \A i, j \in ReportsOf(s) : i = j
      BY <2>5 DEF OneIncarnation
    <3>2. \A i, j \in ReportsOf(s)' : i = j
      <4>1. SUFFICES ASSUME NEW i \in ReportsOf(s)', NEW j \in ReportsOf(s)' PROVE i = j
        OBVIOUS
      <4>2. i \in Nat /\ j \in Nat /\ i + 1 = j + 1
        BY <2>4, <3>1
      <4>3. QED
        BY <4>2
    <3>3. InHand(s)' => ReportsOf(s)' = {}
      <4>1. SUFFICES ASSUME InHand(s)', NEW i \in ReportsOf(s)' PROVE FALSE
        OBVIOUS
      <4>2. i \in Nat /\ i >= 1 /\ i + 1 = 1
        BY <2>3, <2>4, <3>1, <4>1
      <4>3. QED
        BY <4>2
    <3>4. QED
      BY <1>2, <2>3, <2>4, <3>1, <3>2, <3>3, ZenonT(40)
  <2>6. \A s \in Services : Down(s) => Down(s)'
    BY <1>2, <2>3, <2>4 DEF Down
  <2>7. QED
    BY <2>5, <2>6 DEF StepRule, OneIncarnation
<1>5. QED
  BY <1>3, <1>4

\* The report in hand is dropped, or kept for the restart.
LEMMA HandRule ==
    ASSUME UNCHANGED <<ring, svcPid>>, \A s \in Services : InHand(s)' => InHand(s)
    PROVE  StepRule
<1>1. \A s \in Services : /\ ReportsOf(s)' = ReportsOf(s)
                          /\ Claimed(s)' <=> Claimed(s)
  BY DEF ReportsOf, Claimed
<1>2. QED
  BY <1>1 DEF StepRule, OneIncarnation, Down

LEMMA RestartRule ==
    ASSUME IInv, KardiaRestart
    PROVE  StepRule
<1> DEFINE p == Lowest(FreePids)
<1>1. UNCHANGED ring /\ kpc' = "drain" /\ svcPid' = [svcPid EXCEPT ![kreport.service] = p]
  BY DEF KardiaRestart
<1>2. svcPid \in [Services -> Pids \cup {NoPid}]
  BY DEF IInv, TypeOK, ClaimsOK
<1>3. \A s \in Services : /\ ReportsOf(s)' = ReportsOf(s)
                          /\ ~ InHand(s)'
                          /\ InHand(s) <=> kreport.service = s
                          /\ kreport.service # s => (Claimed(s)' <=> Claimed(s))
  BY <1>1, <1>2 DEF KardiaRestart, ReportsOf, InHand, Claimed
<1>4. QED
  BY <1>3 DEF StepRule, OneIncarnation, Down

\* Every step but those of PID 0's loop and UNCHANGED leaves the policy alone and
\* drops claims, with a report or without.
LEMMA HandlerRule ==
    ASSUME IInv, Next, ~ KardiaStep
    PROVE  StepRule /\ UNCHANGED supVars
<1>1. current \in Pids /\ svcPid \in [Services -> Pids \cup {NoPid}]
  BY DEF IInv, TypeOK, ProcOK, ClaimsOK
<1>2. \A p \in Pids : \A s \in Services :
         /\ ClearPid(svcPid, p)[s] = IF svcPid[s] = p THEN NoPid ELSE svcPid[s]
         /\ ClearPid(ReleaseClaim(svcPid, p), p)[s] = IF svcPid[s] = p THEN NoPid ELSE svcPid[s]
  BY <1>1, ClaimFacts, SMTT(30)
<1>3. ASSUME UNCHANGED <<ring, kpc, kreport>>, svcPid' = svcPid \/ \E p \in Pids : svcPid' = ClearPid(svcPid, p)
      PROVE  StepRule
  BY <1>2, <1>3, LapseRule, SMTT(30) DEF Lapse
<1>4. ASSUME NEW p \in Pids, NEW st, NEW wk, FaultExit(st, p, wk), UNCHANGED <<kpc, kreport>>
      PROVE  StepRule
  BY <1>2, <1>4, ReportRule, ZenonT(40) DEF Report, FaultExit
<1>5. CASE ProcessCall
  <2>1. CASE Exit \/ ExecveRemapFails
    BY <1>1, <1>3, <2>1, ZenonT(40) DEF Exit, ExitCurrent, ExecveRemapFails, loopVars
  <2>2. CASE Fault
    BY <1>1, <1>4, <2>2, ZenonT(40) DEF Fault, loopVars
  <2>3. CASE Yield \/ Fork \/ Execve \/ (\E n \in SleepTicks : Sleep(n)) \/ \E p \in Pids : Waitpid(p)
    BY <1>3, <2>3, ZenonT(40) DEF Yield, Fork, Execve, Sleep, Waitpid, Reap, claimVars, loopVars
  <2>4. QED
    BY <1>5, <2>1, <2>2, <2>3, ZenonT(40) DEF ProcessCall, Exit, ExecveRemapFails, Fault, Yield, Fork, Execve,
                                  Sleep, Waitpid, Reap
<1>6. ASSUME NEW p \in Pids, NEW sig, DeliverSignal(p, sig), UNCHANGED <<ring, supVars, loopVars>>
      PROVE  StepRule /\ UNCHANGED supVars
  BY <1>3, <1>6 DEF DeliverSignal, loopVars
<1>7. CASE SignalCall
  BY <1>3, <1>6, <1>7 DEF SignalCall, Kill, Sigaction, claimVars, loopVars
<1>8. CASE PipeCall
  BY <1>1, <1>3, <1>6, <1>8, ZenonT(40) DEF PipeCall, CreatePipe, ReadPipe, WritePipe, BrokenPipe, FileCall, claimVars,
                                loopVars
<1>9. CASE FutexCall \/ IpcCall
  BY <1>3, <1>9, ZenonT(40) DEF FutexCall, FutexWait, FutexWake, IpcCall, Recv, Send, claimVars, loopVars
<1>10. CASE DescriptorCall
  BY <1>3, <1>10, ZenonT(40) DEF DescriptorCall, OpenFile, CloseFd, DupFd, Dup2Fd, SetCloexec, SetStatusFlags,
                     FileCall, claimVars, loopVars
<1>11. CASE Tick
  <2>1. UNCHANGED <<kpc, kreport>> /\ UNCHANGED supVars
    BY <1>11 DEF Tick, TickPlain, TickDeliver, TickDeliverFails, CountTick
  <2>2. CASE TickDeliverFails
    BY <1>4, <2>1, <2>2, TickTypes DEF TickDeliverFails, IInv
  <2>3. CASE TickPlain \/ TickDeliver
    BY <1>3, <2>1, <2>3 DEF TickPlain, TickDeliver, claimVars
  <2>4. QED
    BY <1>11, <2>1, <2>2, <2>3 DEF Tick
<1>12. QED
  BY <1>5, <1>7, <1>8, <1>9, <1>10, <1>11, ZenonT(40) DEF Next

LEMMA KardiaRule ==
    ASSUME IInv, KardiaStep
    PROVE  StepRule
<1>1. CASE KardiaWake
  <2>1. UNCHANGED <<ring, svcPid>> /\ kpc' = "drain"
    BY <1>1 DEF KardiaWake, claimVars
  <2>2. QED
    BY <2>1, HandRule DEF InHand
<1>2. CASE KardiaDecide
  <2>1. UNCHANGED <<ring, svcPid>> /\ kpc = "decide" /\ (kpc' = "drain" \/ UNCHANGED kreport)
    BY <1>2, ZenonT(40) DEF KardiaDecide, claimVars
  <2>2. QED
    BY <2>1, HandRule, ZenonT(40) DEF InHand
<1>3. CASE KardiaRestartFails
  <2>1. UNCHANGED <<ring, svcPid>> /\ kpc' = "drain"
    BY <1>3 DEF KardiaRestartFails, claimVars
  <2>2. QED
    BY <2>1, HandRule DEF InHand
<1>4. CASE KardiaReap
  <2>1. UNCHANGED <<ring, svcPid>> /\ kpc' \in {"idle", "reap"}
    BY <1>4 DEF KardiaReap, Reap, claimVars
  <2>2. QED
    BY <2>1, HandRule DEF InHand
<1>5. QED
  BY <1>1, <1>2, <1>3, <1>4, PopRule, RestartRule, ZenonT(40) DEF KardiaStep

LEMMA StepsRule ==
    ASSUME IInv, [Next]_vars
    PROVE  StepRule
<1>1. CASE UNCHANGED vars
  BY <1>1, LapseRule DEF Lapse, vars, claimVars, loopVars
<1>2. QED
  BY <1>1, HandlerRule, KardiaRule

----------------------------------------------------------------------------
LEMMA InitSupervision == Init => OneIncarnation /\ RestartBudget
<1> SUFFICES ASSUME Init PROVE OneIncarnation /\ RestartBudget
  OBVIOUS
<1>1. \A s \in Services : ReportsOf(s) = {} /\ ~ InHand(s)
  BY DEF Init, ReportsOf, InHand
<1>2. MaxRestarts \in Nat
  BY SupervisorAssumption
<1>3. QED
  BY <1>1, <1>2, SMTT(30) DEF Init, OneIncarnation, RestartBudget

\* `decide` respects the budget, and gives up only on a service that is down
\* once the report in hand is dropped.
LEMMA DecideBudget ==
    ASSUME IInv, OneIncarnation, RestartBudget, StepRule, KardiaDecide
    PROVE  RestartBudget'
<1>0. PICK x \in Services \cup {NoService} : x = kreport.service
  BY DEF IInv, TypeOK, LoopOK, Reports
<1> DEFINE verdict == IF x = NoService THEN "None" ELSE Decision(restarts[x], windowAge[x], gaveUp[x])
<1>1. MaxRestarts \in Nat /\ restarts \in [Services -> Nat] /\ gaveUp \in [Services -> BOOLEAN]
  BY SupervisorAssumption DEF IInv, TypeOK, SupOK
<1>2. \A s \in Services : /\ restarts[s] <= MaxRestarts
                          /\ gaveUp[s] => restarts[s] = MaxRestarts /\ Down(s) /\ Down(s)'
  BY DEF RestartBudget, StepRule
<1>3. CASE verdict = "None"
  <2>1. UNCHANGED <<restarts, gaveUp>>
    BY <1>0, <1>3, ZenonT(40) DEF KardiaDecide, supVars
  <2>2. QED
    BY <1>2, <2>1, ZenonT(40) DEF RestartBudget
<1>4. CASE verdict # "None"
  <2> DEFINE n == RestartsInWindow(restarts[x], windowAge[x])
  <2>1. x \in Services /\ ~ gaveUp[x]
    BY <1>4 DEF Decision
  <2>2. n \in Nat /\ n <= MaxRestarts
    BY <1>1, <1>2, <2>1, SMTT(30) DEF RestartsInWindow
  <2>3. /\ verdict = "Restart" => n < MaxRestarts
        /\ verdict = "GiveUp" => ~ (n < MaxRestarts)
        /\ verdict \in {"Restart", "GiveUp"}
    BY <1>4, <2>1, ZenonT(40) DEF Decision
  <2>4. /\ restarts' = [restarts EXCEPT ![x] = n + (IF verdict = "Restart" THEN 1 ELSE 0)]
        /\ gaveUp' = [gaveUp EXCEPT ![x] = (verdict = "GiveUp")]
        /\ kpc = "decide" /\ kpc' = IF verdict = "Restart" THEN "restart" ELSE "drain"
        /\ UNCHANGED <<ring, svcPid>>
    BY <1>0, <1>1, <1>4, <2>1, ZenonT(40) DEF KardiaDecide, claimVars
  <2>5. InHand(x) /\ ~ Claimed(x) /\ ReportsOf(x) = {}
    BY <1>0, <2>1, <2>4, ZenonT(40) DEF InHand, OneIncarnation
  <2>6. verdict = "GiveUp" => Down(x)'
    BY <2>4, <2>5, ZenonT(40) DEF Down, InHand, Claimed, ReportsOf
  <2> HIDE DEF n, verdict
  <2>7. restarts'[x] <= MaxRestarts /\ (gaveUp'[x] => restarts'[x] = MaxRestarts /\ Down(x)')
    <3>1. CASE verdict = "Restart"
      BY <1>1, <2>1, <2>2, <2>3, <2>4, <3>1, SMTT(30)
    <3>2. CASE verdict = "GiveUp"
      BY <1>1, <2>1, <2>2, <2>3, <2>4, <2>6, <3>2, SMTT(30)
    <3>3. QED
      BY <2>3, <3>1, <3>2, ZenonT(40)
  <2>8. \A s \in Services \ {x} : restarts'[s] = restarts[s] /\ gaveUp'[s] = gaveUp[s]
    BY <1>1, <2>4
  <2>9. QED
    BY <1>2, <2>7, <2>8, ZenonT(40) DEF RestartBudget
<1>5. QED
  BY <1>3, <1>4

LEMMA SupervisionInductive ==
    IInv /\ OneIncarnation /\ RestartBudget /\ [Next]_vars => OneIncarnation' /\ RestartBudget'
<1> SUFFICES ASSUME IInv, OneIncarnation, RestartBudget, [Next]_vars PROVE OneIncarnation' /\ RestartBudget'
  OBVIOUS
<1>1. StepRule
  BY StepsRule
<1> SUFFICES RestartBudget'
  BY <1>1, ZenonT(40) DEF StepRule
<1>2. ASSUME UNCHANGED <<restarts, gaveUp>> PROVE RestartBudget'
  BY <1>1, <1>2 DEF StepRule, RestartBudget
<1>3. CASE Next /\ ~ KardiaStep
  BY <1>2, <1>3, HandlerRule DEF supVars
<1>4. CASE KardiaStep
  <2>1. CASE KardiaDecide
    BY <1>1, <2>1, DecideBudget, ZenonT(40)
  <2>2. CASE KardiaWake \/ KardiaPop \/ KardiaRestart \/ KardiaRestartFails \/ KardiaReap
    BY <1>2, <2>2 DEF KardiaWake, KardiaPop, KardiaRestart, KardiaRestartFails, KardiaReap, Reap, supVars
  <2>3. QED
    BY <1>4, <2>1, <2>2 DEF KardiaStep
<1>5. CASE UNCHANGED vars
  BY <1>2, <1>5 DEF vars, supVars
<1>6. QED
  BY <1>3, <1>4, <1>5

LEMMA SupervisionInvariant == Spec => [](OneIncarnation /\ RestartBudget)
<1>1. QED
  BY InitSupervision, SupervisionInductive, Invariant, PTL DEF Spec

\* A supervised service runs at most once: its claim, its report in the ring and
\* the report PID 0 holds exclude one another (supervisor.rs, kardia.rs).
THEOREM OneIncarnationAlways == Spec => []OneIncarnation
<1>1. QED
  BY SupervisionInvariant, PTL

\* `decide` never grants more than MAX_RESTARTS in a window, and a service it has
\* given up on is down.
THEOREM BudgetAlwaysKept == Spec => []RestartBudget
<1>1. QED
  BY SupervisionInvariant, PTL

\* A service with neither claim nor report left, after an exit, a kill or a
\* give-up, is never relaunched.
THEOREM DownIsAlwaysFinal == Spec => DownIsFinal
<1>1. IInv /\ [Next]_vars => [\A s \in Services : Down(s) => Down(s)']_vars
  BY StepsRule DEF StepRule
<1>2. QED
  BY <1>1, Invariant, PTL DEF Spec, DownIsFinal
=============================================================================
