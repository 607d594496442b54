---------------------------- MODULE KernelProofs ----------------------------
(***************************************************************************)
(* The safety of the process core for every size of its tables: the         *)
(* scheduler always finds a successor, a blocked process always has its     *)
(* waiter slot, no L1 table is shared or freed in use, no supervised claim  *)
(* outlives its process.  None of these is inductive alone; IInv is.        *)
(***************************************************************************)
EXTENDS KernelTypes

\* SpacesExclusive, with what it rests on: PID 0 runs on the kernel's table and
\* every other page table pointer is null or an allocated table.
SpacesOwned ==
    /\ pt[0] = KernelTable
    /\ \A p \in Pids \ {0} : pt[p] \in spaces \cup {NoSpace}
    /\ \A p \in Pids \ {0} : Live(p) \/ p = current => pt[p] # NoSpace
    /\ \A p, q \in Pids : p # q /\ pt[p] # NoSpace => pt[p] # pt[q]

\* Nobody is its own parent, so nobody reaps the PCB it runs on.
ParentsOther == \A p \in Pids : parent[p] # p

\* No signal is ever raised for PID 0, so no signal frame is pushed on it.
RootUnsignalled == pending[0] = {}

\* The inductive invariant.
IInv ==
    /\ TypeOK
    /\ SchedulerSafe
    /\ BlockedIffWaiting
    /\ SpacesOwned
    /\ ClaimsLive
    /\ ParentsOther
    /\ RootUnsignalled

\* Everybody but x keeps being, or not being, Free, Blocked or Dead.
SameFateBut(st, new, x) ==
    \A p \in Pids \ {x} : /\ st[p] = "Free" <=> new[p] = "Free"
                          /\ st[p] = "Blocked" <=> new[p] = "Blocked"
                          /\ st[p] = "Dead" <=> new[p] = "Dead"

----------------------------------------------------------------------------
\* What the handlers do, by kind.

LEMMA SafeIsTable ==
    ASSUME TypeOK
    PROVE  SchedulerSafe <=> SafeTable(state, current)
BY DEF TypeOK, ProcOK, SchedulerSafe, SafeTable, PreTable

\* CURRENT leaves the processor in state s.
LEMMA LeaveFacts ==
    ASSUME NEW st, NEW p \in Pids \ {0}, NEW s \in States \ {"Running"}, NEW wk,
           PreTable(st, p), Reschedule(Marked(st, p, s), p, wk)
    PROVE  /\ current' \in Pids \ {p} /\ SafeTable(state', current') /\ state'[current'] = "Running"
           /\ SameFateBut(st, state', p)
           /\ s \in {"Dead", "Blocked", "Free"} => state'[p] = s
           /\ s \notin {"Dead", "Blocked", "Free"} => state'[p] \notin {"Dead", "Blocked", "Free"}
<1> DEFINE m == Marked(st, p, s)
<1>1. PreTable(m, p) /\ \A q \in Pids : m[q] = IF q = p THEN s ELSE st[q]
  BY MarkedFacts
<1>2. Reschedule(m, p, wk)
  OBVIOUS
<1> HIDE DEF m
<1>3. /\ current' \in Pids /\ SafeTable(state', current') /\ SameFate(m, state')
      /\ state'[current'] = "Running" /\ current' # p
  BY <1>1, <1>2, RescheduleFacts
<1>4. QED
  BY <1>1, <1>3 DEF SameFate, SameFateBut

\* A step that leaves these variables alone and PID 0 unsignalled keeps the
\* invariant.
LEMMA Neutral ==
    ASSUME IInv, TypeOK', UNCHANGED <<state, current, pt, spaces, waiters, svcPid>>,
           ParentsOther', RootUnsignalled'
    PROVE  IInv'
<1>1. SchedulerSafe'
  BY DEF IInv, SchedulerSafe
<1>2. BlockedIffWaiting'
  BY DEF IInv, BlockedIffWaiting
<1>3. SpacesOwned'
  BY DEF IInv, SpacesOwned, Live
<1>4. ClaimsLive'
  BY DEF IInv, ClaimsLive, Live
<1>5. QED
  BY <1>1, <1>2, <1>3, <1>4 DEF IInv

\* A step that only schedules.
LEMMA Schedules ==
    ASSUME IInv, TypeOK', SafeTable(state', current'), state'[current'] = "Running",
           \A p \in Pids : /\ state'[p] = "Free" <=> state[p] = "Free"
                           /\ state'[p] = "Blocked" <=> state[p] = "Blocked"
                           /\ state'[p] = "Dead" => state[p] = "Dead"
                           /\ state[p] = "Dead" => state'[p] = "Dead" \/ p = current,
           UNCHANGED <<parent, pt, spaces, waiters, svcPid>>, RootUnsignalled'
    PROVE  IInv'
<1>1. SchedulerSafe'
  BY DEF SafeTable, PreTable, SchedulerSafe
<1>2. BlockedIffWaiting'
  BY DEF IInv, BlockedIffWaiting
<1>3. current' \in Pids
  BY DEF TypeOK, ProcOK
<1>4. SpacesOwned'
  BY <1>3 DEF IInv, SpacesOwned, Live
<1>5. ClaimsLive'
  <2>1. svcPid \in [Services -> Pids \cup {NoPid}]
    BY DEF IInv, TypeOK, ClaimsOK
  <2>2. QED
    BY <2>1 DEF IInv, ClaimsLive, Live
<1>6. ParentsOther'
  BY DEF IInv, ParentsOther
<1>7. QED
  BY <1>1, <1>2, <1>4, <1>5, <1>6 DEF IInv

\* Freeing p's waiters leaves the slots of the others.
LEMMA FreeWaitersFacts ==
    ASSUME WaitersOK, NEW p \in Pids
    PROVE  \A s \in Slots : FreeWaitersForPid(waiters, p)[s]
                               = IF waiters[s].pid = p THEN NoWaiter ELSE waiters[s]
BY DEF FreeWaitersForPid, ClearSlots

LEMMA NoPidNotPid == NoPid \notin Pids /\ 0 \in Pids /\ NoWaiter.pid = NoPid
BY MaxProcsAssumption DEF NoPid, Pids, NoWaiter

\* A death with exit_cleanup: p gives up its table, its waiter and its claim,
\* and somebody else runs.
LEMMA Dies ==
    ASSUME IInv, TypeOK', NEW p \in Pids \ {0}, pt[p] # NoSpace,
           SafeTable(state', current'), state'[current'] = "Running", current' # p,
           state'[p] = "Dead", SameFateBut(state, state', p),
           ReleaseProcess(p),
           \A s \in Services : svcPid'[s] = IF svcPid[s] = p THEN NoPid ELSE svcPid[s],
           UNCHANGED parent, RootUnsignalled'
    PROVE  IInv'
<1>1. SchedulerSafe'
  BY DEF SafeTable, PreTable, SchedulerSafe
<1>2. current' \in Pids
  BY DEF TypeOK, ProcOK
<1>3. \A s \in Slots : waiters'[s] = IF waiters[s].pid = p THEN NoWaiter ELSE waiters[s]
  BY FreeWaitersFacts DEF IInv, TypeOK, ReleaseProcess
<1>4. pt' = [pt EXCEPT ![p] = NoSpace] /\ spaces' = spaces \ {pt[p]} /\ pt \in [Pids -> Tables]
  BY DEF ReleaseProcess, IInv, TypeOK, MemOK
<1>5. \A q \in Pids : pt'[q] = IF q = p THEN NoSpace ELSE pt[q]
  BY <1>4
<1>6. BlockedIffWaiting'
  <2>1. \A s \in Slots : waiters[s].pid \in Pids \cup {NoPid}
    BY DEF IInv, TypeOK, WaitersOK
  <2>2. \A q \in Pids : state'[q] = "Blocked" <=> \E s \in Slots : waiters'[s].pid = q
    BY <1>3, <2>1, NoPidNotPid, SMTT(30) DEF IInv, BlockedIffWaiting, SameFateBut
  <2>3. \A s, t \in Slots : waiters'[s].pid = waiters'[t].pid /\ waiters'[s].pid # NoPid => s = t
    BY <1>3, NoPidNotPid, SMTT(30) DEF IInv, BlockedIffWaiting
  <2>4. \A s \in Slots : waiters'[s].pid # NoPid => waiters'[s].space = pt'[waiters'[s].pid]
    BY <1>3, <1>5, <2>1, NoPidNotPid, SMTT(30) DEF IInv, BlockedIffWaiting
  <2>5. QED
    BY <2>2, <2>3, <2>4 DEF BlockedIffWaiting
<1>7. SpacesOwned'
  <2>1. pt'[0] = KernelTable
    BY <1>5, NoPidNotPid DEF IInv, SpacesOwned
  <2>2. \A q \in Pids \ {0} : pt'[q] \in spaces' \cup {NoSpace}
    BY <1>4, <1>5 DEF IInv, SpacesOwned
  <2>3. \A q \in Pids \ {0} : Live(q)' \/ q = current' => pt'[q] # NoSpace
    BY <1>2, <1>5 DEF IInv, SpacesOwned, Live, SameFateBut
  <2>4. \A q, r \in Pids : q # r /\ pt'[q] # NoSpace => pt'[q] # pt'[r]
    BY <1>5 DEF IInv, SpacesOwned
  <2>5. QED
    BY <2>1, <2>2, <2>3, <2>4 DEF SpacesOwned
<1>8. ClaimsLive'
  <2>1. svcPid \in [Services -> Pids \cup {NoPid}]
    BY DEF IInv, TypeOK, ClaimsOK
  <2>2. QED
    BY <2>1, NoPidNotPid, SMTT(30) DEF IInv, ClaimsLive, Live, SameFateBut
<1>9. ParentsOther'
  BY DEF IInv, ParentsOther
<1>10. QED
  BY <1>1, <1>6, <1>7, <1>8, <1>9 DEF IInv

\* A new PCB in a free slot p on a free table.
LEMMA Creates ==
    ASSUME IInv, TypeOK', NEW p \in Pids, state[p] = "Free", NEW par \in Pids, par # p, NEW acts,
           FreeSpaces # {}, NewProcess(p, par, acts), UNCHANGED <<current, waiters>>,
           \/ UNCHANGED svcPid
           \/ \E s \in Services \cup {NoService} : svcPid' = [svcPid EXCEPT ![s] = p]
    PROVE  IInv'
<1> DEFINE space == Lowest(FreeSpaces)
<1>1. space \in Spaces /\ space \notin spaces
  BY FreeSpacesFacts
<1>2. /\ state' = Marked(state, p, "Ready") /\ parent' = [parent EXCEPT ![p] = par]
      /\ pt' = [pt EXCEPT ![p] = space] /\ spaces' = spaces \cup {space}
      /\ pending' = [pending EXCEPT ![p] = {}]
  BY DEF NewProcess
<1> HIDE DEF space
<1>3. /\ \A q \in Pids : state'[q] = IF q = p THEN "Ready" ELSE state[q]
      /\ \A q \in Pids : pt'[q] = IF q = p THEN space ELSE pt[q]
      /\ \A q \in Pids : parent'[q] = IF q = p THEN par ELSE parent[q]
      /\ \A q \in Pids : pending'[q] = IF q = p THEN {} ELSE pending[q]
  BY <1>2 DEF IInv, TypeOK, ProcOK, MemOK, SigOK, Marked
<1>4. p # 0 /\ p # current /\ 0 \in Pids /\ current \in Pids
  BY NoPidNotPid DEF IInv, SchedulerSafe, TypeOK, ProcOK
<1>5. SchedulerSafe'
  BY <1>3, <1>4 DEF IInv, SchedulerSafe
<1>6. BlockedIffWaiting'
  <2>1. \A s \in Slots : waiters[s].pid # p
    BY DEF IInv, BlockedIffWaiting
  <2>2. \A s \in Slots : waiters[s].pid \in Pids \cup {NoPid}
    BY DEF IInv, TypeOK, WaitersOK
  <2>3. QED
    BY <1>3, <2>1, <2>2 DEF IInv, BlockedIffWaiting
<1>7. SpacesOwned'
  <2>1. space # NoSpace /\ space # KernelTable
    BY <1>1, KernelAssumption, SMTT(30) DEF Spaces, NoSpace, KernelTable
  <2>2. \A q \in Pids \ {p} : pt'[q] # space
    BY <1>1, <1>3, <2>1, SMTT(30) DEF IInv, SpacesOwned
  <2>3. pt'[0] = KernelTable
    BY <1>3, <1>4 DEF IInv, SpacesOwned
  <2>4. \A q \in Pids \ {0} : pt'[q] \in spaces' \cup {NoSpace}
    BY <1>2, <1>3, SMTT(30) DEF IInv, SpacesOwned
  <2>5. \A q \in Pids \ {0} : Live(q)' \/ q = current' => pt'[q] # NoSpace
    BY <1>3, <2>1 DEF IInv, SpacesOwned, Live
  <2>6. \A q, r \in Pids : q # r /\ pt'[q] # NoSpace => pt'[q] # pt'[r]
    BY <1>3, <2>2 DEF IInv, SpacesOwned
  <2>7. QED
    BY <2>3, <2>4, <2>5, <2>6 DEF SpacesOwned
<1>8. ClaimsLive'
  <2>1. svcPid \in [Services -> Pids \cup {NoPid}]
    BY DEF IInv, TypeOK, ClaimsOK
  <2>2. \A s \in Services : svcPid[s] # p
    BY NoPidNotPid DEF IInv, ClaimsLive, Live
  <2>3. CASE UNCHANGED svcPid
    BY <1>3, <2>1, <2>2, <2>3 DEF IInv, ClaimsLive, Live
  <2>4. ASSUME NEW s \in Services \cup {NoService}, svcPid' = [svcPid EXCEPT ![s] = p] PROVE ClaimsLive'
    <3>1. \A t \in Services : svcPid'[t] = IF t = s THEN p ELSE svcPid[t]
      BY <2>1, <2>4
    <3>2. QED
      BY <1>3, <1>4, <2>1, <2>2, <3>1, SMTT(30) DEF IInv, ClaimsLive, Live
  <2>5. QED
    BY <2>3, <2>4
<1>9. ParentsOther' /\ RootUnsignalled'
  BY <1>3, <1>4 DEF IInv, ParentsOther, RootUnsignalled
<1>10. QED
  BY <1>5, <1>6, <1>7, <1>8, <1>9 DEF IInv

\* waitpid drops the PCB of a dead process that is not running.
LEMMA Reaps ==
    ASSUME IInv, TypeOK', NEW p \in Pids, p # current, state[p] = "Dead", Reap(p)
    PROVE  IInv'
<1>1. /\ state' = Marked(state, p, "Free") /\ parent' = [parent EXCEPT ![p] = NoPid]
      /\ pt' = [pt EXCEPT ![p] = NoSpace] /\ pending' = [pending EXCEPT ![p] = {}]
      /\ UNCHANGED <<current, spaces, waiters>> /\ UNCHANGED svcPid
  BY DEF Reap, claimVars
<1>2. /\ \A q \in Pids : state'[q] = IF q = p THEN "Free" ELSE state[q]
      /\ \A q \in Pids : pt'[q] = IF q = p THEN NoSpace ELSE pt[q]
      /\ \A q \in Pids : parent'[q] = IF q = p THEN NoPid ELSE parent[q]
      /\ \A q \in Pids : pending'[q] = IF q = p THEN {} ELSE pending[q]
  BY <1>1 DEF IInv, TypeOK, ProcOK, MemOK, SigOK, Marked
<1>3. p # 0 /\ 0 \in Pids /\ current \in Pids
  BY NoPidNotPid DEF IInv, SchedulerSafe, TypeOK, ProcOK
<1>4. SchedulerSafe'
  BY <1>1, <1>2, <1>3, ZenonT(40) DEF IInv, SchedulerSafe
<1>5. BlockedIffWaiting'
  <2>1. \A s \in Slots : waiters[s].pid # p
    BY DEF IInv, BlockedIffWaiting
  <2>2. \A s \in Slots : waiters[s].pid \in Pids \cup {NoPid}
    BY DEF IInv, TypeOK, WaitersOK
  <2>3. QED
    BY <1>1, <1>2, <2>1, <2>2, SMTT(30) DEF IInv, BlockedIffWaiting
<1>6. SpacesOwned'
  BY <1>1, <1>2, <1>3, SMTT(30) DEF IInv, SpacesOwned, Live
<1>7. ClaimsLive'
  <2>1. svcPid \in [Services -> Pids \cup {NoPid}]
    BY ZenonT(40) DEF IInv, TypeOK, ClaimsOK
  <2>2. QED
    BY <1>1, <1>2, <2>1 DEF IInv, ClaimsLive, Live
<1>8. ParentsOther' /\ RootUnsignalled'
  BY <1>2, <1>3, NoPidNotPid, SMTT(30) DEF IInv, ParentsOther, RootUnsignalled
<1>9. QED
  BY <1>4, <1>5, <1>6, <1>7, <1>8 DEF IInv

\* A signal to a live user process: it dies where it stands, or the signal is
\* recorded, or nothing happens.
LEMMA Signalled ==
    ASSUME IInv, TypeOK', NEW p \in Pids \ {0}, NEW sig, Live(p), DeliverSignal(p, sig),
           UNCHANGED <<current, parent, pt, spaces>>
    PROVE  IInv'
<1>1. CASE Disposition(action[p], sig) = "Terminate" /\ UNCHANGED pending
           /\ state' = Marked(state, p, "Dead") /\ waiters' = FreeWaitersForPid(waiters, p)
           /\ svcPid' = ClearPid(svcPid, p)
  <2>1. \A q \in Pids : state'[q] = IF q = p THEN "Dead" ELSE state[q]
    BY <1>1 DEF IInv, TypeOK, ProcOK, Marked
  <2>2. \A s \in Slots : waiters'[s] = IF waiters[s].pid = p THEN NoWaiter ELSE waiters[s]
    BY <1>1, FreeWaitersFacts DEF IInv, TypeOK
  <2>3. \A s \in Services : svcPid'[s] = IF svcPid[s] = p THEN NoPid ELSE svcPid[s]
    BY <1>1 DEF ClearPid
  <2>4. current \in Pids
    BY DEF IInv, TypeOK, ProcOK
  <2>5. SchedulerSafe'
    BY <2>1, <2>4, NoPidNotPid DEF IInv, SchedulerSafe
  <2>6. BlockedIffWaiting'
    <3>1. \A s \in Slots : waiters[s].pid \in Pids \cup {NoPid}
      BY ZenonT(40) DEF IInv, TypeOK, WaitersOK
    <3>2. \A q \in Pids : state'[q] = "Blocked" <=> \E s \in Slots : waiters'[s].pid = q
      BY <2>1, <2>2, <3>1, NoPidNotPid, SMTT(30) DEF IInv, BlockedIffWaiting
    <3>3. QED
      BY <2>2, <3>1, <3>2, NoPidNotPid, SMTT(30) DEF IInv, BlockedIffWaiting
  <2>7. SpacesOwned'
    BY <2>1 DEF IInv, SpacesOwned, Live
  <2>8. ClaimsLive'
    <3>1. svcPid \in [Services -> Pids \cup {NoPid}]
      BY DEF IInv, TypeOK, ClaimsOK
    <3>2. QED
      BY <2>1, <2>3, <3>1, NoPidNotPid DEF IInv, ClaimsLive, Live
  <2>9. ParentsOther' /\ RootUnsignalled'
    BY <1>1 DEF IInv, ParentsOther, RootUnsignalled
  <2>10. QED
    BY <2>5, <2>6, <2>7, <2>8, <2>9 DEF IInv
<1>2. CASE UNCHANGED <<state, waiters, svcPid>>
           /\ pending' \in {pending, [pending EXCEPT ![p] = @ \cup {sig}]}
  <2>1. ParentsOther' /\ RootUnsignalled'
    BY <1>2, NoPidNotPid DEF IInv, TypeOK, SigOK, ParentsOther, RootUnsignalled
  <2>2. QED
    BY <1>2, <2>1, Neutral
<1>3. QED
  BY <1>1, <1>2 DEF DeliverSignal

LEMMA Waits ==
    ASSUME IInv, TypeOK', NEW addr \in Addrs, FutexWait(addr)
    PROVE  IInv'
<1> DEFINE slot == FirstWaiterSlot(waiters)
           w == [addr |-> addr, space |-> pt[current], pid |-> current]
<1>1. current \in Pids \ {0} /\ UNCHANGED <<parent, pt, spaces, svcPid, pending>>
  BY DEF FutexWait, UserRuns, IInv, TypeOK, ProcOK, memVars, claimVars, sigVars
<1>2. slot \in Slots /\ waiters[slot].pid = NoPid
  BY FirstWaiterSlotFree DEF FutexWait, FreeWaiterSlots
<1>3. waiters' = [waiters EXCEPT ![slot] = w]
  BY DEF FutexWait, Register
<1>4. w.pid = current /\ w.space = pt[current]
  OBVIOUS
<1> HIDE DEF slot, w
<1>5. \A s \in Slots : waiters'[s] = IF s = slot THEN w ELSE waiters[s]
  BY <1>2, <1>3 DEF IInv, TypeOK, WaitersOK
<1>6. PreTable(state, current)
  BY SafeIsTable DEF IInv, SafeTable
<1>7. /\ current' \in Pids \ {current} /\ SafeTable(state', current') /\ state'[current'] = "Running"
      /\ SameFateBut(state, state', current) /\ state'[current] = "Blocked"
  BY <1>1, <1>6, LeaveFacts, ZenonT(40) DEF FutexWait, States
<1>8. SchedulerSafe'
  BY <1>7, ZenonT(40) DEF SafeTable, PreTable, SchedulerSafe
<1>9. BlockedIffWaiting'
  <2>1. \A s \in Slots : waiters[s].pid # current
    BY <1>1 DEF IInv, BlockedIffWaiting, SchedulerSafe
  <2>2. \A q \in Pids : state'[q] = "Blocked" <=> \E s \in Slots : waiters'[s].pid = q
    <3>1. ASSUME NEW q \in Pids \ {current}
          PROVE  (\E s \in Slots : waiters'[s].pid = q) <=> \E s \in Slots : waiters[s].pid = q
      BY <1>2, <1>4, <1>5, NoPidNotPid, ZenonT(40)
    <3>2. \E s \in Slots : waiters'[s].pid = current
      BY <1>2, <1>4, <1>5, ZenonT(40)
    <3>3. QED
      BY <1>7, <3>1, <3>2, ZenonT(40) DEF IInv, BlockedIffWaiting, SameFateBut
  <2>3. \A s, t \in Slots : waiters'[s].pid = waiters'[t].pid /\ waiters'[s].pid # NoPid => s = t
    BY <1>4, <1>5, <2>1, SMTT(30) DEF IInv, BlockedIffWaiting
  <2>4. \A s \in Slots : waiters'[s].pid # NoPid => waiters'[s].space = pt'[waiters'[s].pid]
    BY <1>1, <1>4, <1>5, ZenonT(40) DEF IInv, BlockedIffWaiting
  <2>5. QED
    BY <2>2, <2>3, <2>4, ZenonT(40) DEF BlockedIffWaiting
<1>10. SpacesOwned'
  BY <1>1, <1>7 DEF IInv, SpacesOwned, Live, SameFateBut
<1>11. ClaimsLive'
  <2>1. svcPid \in [Services -> Pids \cup {NoPid}]
    BY DEF IInv, TypeOK, ClaimsOK
  <2>2. QED
    BY <1>1, <1>7, <2>1 DEF IInv, ClaimsLive, Live, SameFateBut
<1>12. ParentsOther' /\ RootUnsignalled'
  BY <1>1 DEF IInv, ParentsOther, RootUnsignalled
<1>13. QED
  BY <1>8, <1>9, <1>10, <1>11, <1>12 DEF IInv

LEMMA Wakes ==
    ASSUME IInv, TypeOK', NEW addr \in Addrs, NEW max, FutexWake(addr, max)
    PROVE  IInv'
<1> DEFINE gone == WokenSlots(waiters, addr, pt[current], max)
           woken == WokenPids(waiters, addr, pt[current], max)
<1>1. UNCHANGED <<current, parent, pt, spaces, svcPid, pending>>
  BY DEF FutexWake, memVars, claimVars, sigVars
<1>2. gone \subseteq Slots /\ \A s \in gone : waiters[s].pid # NoPid
  BY DEF WokenSlots
<1>3. woken = {waiters[s].pid : s \in gone}
  BY DEF WokenPids
<1>4. \A s \in Slots : waiters'[s] = IF s \in gone THEN NoWaiter ELSE waiters[s]
  BY DEF FutexWake, ClearSlots
<1>5. \A p \in Pids : state'[p] = IF p \in woken THEN "Ready" ELSE state[p]
  BY DEF FutexWake
<1> HIDE DEF gone, woken
<1>6. \A s \in Slots : waiters[s].pid \in Pids \cup {NoPid}
  BY ZenonT(40) DEF IInv, TypeOK, WaitersOK
<1>7. \A p \in woken : p \in Pids /\ state[p] = "Blocked"
  BY <1>2, <1>3, <1>6, ZenonT(40) DEF IInv, BlockedIffWaiting
<1>8. SchedulerSafe'
  BY <1>1, <1>5, <1>7, NoPidNotPid, ZenonT(40) DEF IInv, SchedulerSafe, TypeOK, ProcOK
<1>9. BlockedIffWaiting'
  <2>1. ASSUME NEW p \in Pids PROVE state'[p] = "Blocked" <=> \E s \in Slots : waiters'[s].pid = p
    <3>1. CASE p \in woken
      <4>1. PICK s \in gone : waiters[s].pid = p
        BY <1>3, <3>1, ZenonT(40)
      <4>2. \A t \in Slots : waiters[t].pid = p => t = s
        BY <1>2, <4>1, ZenonT(40) DEF IInv, BlockedIffWaiting
      <4>3. \A t \in Slots : waiters'[t].pid # p
        BY <1>4, <4>1, <4>2, NoPidNotPid, ZenonT(40)
      <4>4. QED
        BY <1>5, <3>1, <4>3
    <3>2. CASE p \notin woken
      <4>1. \A t \in Slots : waiters'[t].pid = p <=> waiters[t].pid = p
        BY <1>3, <1>4, <3>2, NoPidNotPid, ZenonT(40)
      <4>2. QED
        BY <1>5, <3>2, <4>1, ZenonT(40) DEF IInv, BlockedIffWaiting
    <3>3. QED
      BY <3>1, <3>2
  <2>2. QED
    BY <1>1, <1>4, <2>1, NoPidNotPid, SMTT(30) DEF IInv, BlockedIffWaiting
<1>10. SpacesOwned'
  BY <1>1, <1>5, <1>7 DEF IInv, SpacesOwned, Live
<1>11. ClaimsLive'
  <2>1. svcPid \in [Services -> Pids \cup {NoPid}]
    BY DEF IInv, TypeOK, ClaimsOK
  <2>2. QED
    BY <1>1, <1>5, <2>1 DEF IInv, ClaimsLive, Live
<1>12. ParentsOther' /\ RootUnsignalled'
  BY <1>1 DEF IInv, ParentsOther, RootUnsignalled
<1>13. QED
  BY <1>8, <1>9, <1>10, <1>11, <1>12, ZenonT(40) DEF IInv

----------------------------------------------------------------------------
\* The actions.

LEMMA InitSafe == Init => IInv
<1> SUFFICES ASSUME Init PROVE IInv
  OBVIOUS
<1>1. TypeOK
  BY InitTypes
<1>2. SchedulerSafe
  BY NoPidNotPid DEF Init, SchedulerSafe
<1>3. BlockedIffWaiting
  BY NoPidNotPid, ZenonT(40) DEF Init, BlockedIffWaiting
<1>4. SpacesOwned
  BY KernelAssumption, MaxProcsAssumption, SMTT(30) DEF Init, SpacesOwned, Live, NoSpace, KernelTable, Pids
<1>5. ClaimsLive
  <2>1. Services \subseteq Pids \ {0} /\ Services \subseteq 1 .. Boot
    BY SupervisorAssumption, KernelAssumption
  <2>2. QED
    BY <2>1 DEF Init, ClaimsLive, Live
<1>6. ParentsOther /\ RootUnsignalled
  BY MaxProcsAssumption DEF Init, ParentsOther, RootUnsignalled, Pids, NoPid
<1>7. QED
  BY <1>1, <1>2, <1>3, <1>4, <1>5, <1>6 DEF IInv

\* CURRENT, when it is a user process, can be scheduled away from and owns its
\* page table.
LEMMA CurrentFacts ==
    ASSUME IInv
    PROVE  /\ current \in Pids /\ PreTable(state, current)
           /\ current # 0 => current \in Pids \ {0} /\ pt[current] # NoSpace
<1>1. current \in Pids /\ PreTable(state, current)
  BY SafeIsTable DEF IInv, SafeTable, TypeOK, ProcOK
<1>2. QED
  BY <1>1 DEF IInv, SpacesOwned

LEMMA ClaimFacts ==
    ASSUME NEW claim \in [Services -> Pids \cup {NoPid}], NEW p \in Pids
    PROVE  \A s \in Services :
              /\ ClearPid(claim, p)[s] = IF claim[s] = p THEN NoPid ELSE claim[s]
              /\ ClearPid(ReleaseClaim(claim, p), p)[s]
                    = IF claim[s] = p \/ s = ServiceOf(claim, p) THEN NoPid ELSE claim[s]
              /\ s = ServiceOf(claim, p) => claim[s] = p
<1>1. Services \subseteq Pids \ {0}
  BY SupervisorAssumption
<1>2. \A s \in Services : s = ServiceOf(claim, p) => claim[s] = p
  BY <1>1, ZenonT(40) DEF ServiceOf, NoService
<1>3. QED
  BY <1>2, NoPidNotPid DEF ClearPid, ReleaseClaim

\* fault_exit_current of p, CURRENT in the table st.
LEMMA FaultExits ==
    ASSUME IInv, TypeOK', NEW p \in Pids \ {0}, NEW st, NEW wk, PreTable(st, p),
           pt[p] # NoSpace, SameFate(state, st), FaultExit(st, p, wk), UNCHANGED <<parent, pending>>
    PROVE  IInv'
<1>1. /\ current' \in Pids \ {p} /\ SafeTable(state', current') /\ state'[current'] = "Running"
      /\ SameFateBut(st, state', p) /\ state'[p] = "Dead"
  BY LeaveFacts DEF FaultExit, States
<1>2. SameFateBut(state, state', p)
  BY <1>1, ZenonT(40) DEF SameFate, SameFateBut
<1>3. \A s \in Services : svcPid'[s] = IF svcPid[s] = p THEN NoPid ELSE svcPid[s]
  BY ClaimFacts, ZenonT(40) DEF FaultExit, IInv, TypeOK, ClaimsOK
<1>4. RootUnsignalled'
  BY DEF IInv, RootUnsignalled
<1>5. QED
  BY <1>1, <1>2, <1>3, <1>4, Dies, ZenonT(40) DEF FaultExit

LEMMA ProcessCallSafe ==
    ASSUME IInv, TypeOK', ProcessCall
    PROVE  IInv'
<1>1. /\ current \in Pids /\ PreTable(state, current)
      /\ current # 0 => current \in Pids \ {0} /\ pt[current] # NoSpace
  BY CurrentFacts
<1>2. pending[0] = {} /\ pending \in [Pids -> SUBSET AllSignals] /\ 0 \in Pids
  BY NoPidNotPid DEF IInv, RootUnsignalled, TypeOK, SigOK
<1>3. ASSUME current # 0, Reschedule(Marked(state, current, "Dead"), current, wake),
             ReleaseProcess(current), svcPid' = ClearPid(svcPid, current), UNCHANGED parent,
             RootUnsignalled'
      PROVE  IInv'
  <2>1. /\ current' \in Pids \ {current} /\ SafeTable(state', current') /\ state'[current'] = "Running"
        /\ SameFateBut(state, state', current) /\ state'[current] = "Dead"
    BY <1>1, <1>3, LeaveFacts, ZenonT(40) DEF States
  <2>2. \A s \in Services : svcPid'[s] = IF svcPid[s] = current THEN NoPid ELSE svcPid[s]
    BY <1>1, <1>3, ClaimFacts DEF IInv, TypeOK, ClaimsOK
  <2>3. QED
    BY <1>1, <1>3, <2>1, <2>2, Dies, ZenonT(40)
<1>4. CASE Exit
  BY <1>2, <1>3, <1>4 DEF Exit, UserRuns, ExitCurrent, sigVars, RootUnsignalled
<1>5. CASE ExecveRemapFails
  BY <1>2, <1>3, <1>5 DEF ExecveRemapFails, UserRuns, RootUnsignalled
<1>6. CASE Fault
  BY <1>1, <1>6, FaultExits, ZenonT(40) DEF Fault, UserRuns, sigVars, SameFate
<1>7. CASE Yield
  <2>1. /\ SafeTable(state', current') /\ SameFate(state, state') /\ state'[current'] = "Running"
    BY <1>1, <1>7, RescheduleFacts DEF Yield
  <2>2. UNCHANGED <<parent, pt, spaces, waiters, svcPid, pending>>
    BY <1>7 DEF Yield, memVars, claimVars, sigVars
  <2>3. QED
    BY <1>2, <2>1, <2>2, Schedules, ZenonT(40) DEF SameFate, RootUnsignalled
<1>8. CASE Fork
  <2> DEFINE child == Lowest(FreePids)
  <2>1. child \in Pids /\ state[child] = "Free"
    BY <1>8, FreePidsFacts DEF Fork
  <2>2. NewProcess(child, current, action[current]) /\ FreeSpaces # {}
    BY <1>8 DEF Fork
  <2>3. UNCHANGED <<current, waiters, svcPid>>
    BY <1>8 DEF Fork, claimVars
  <2> HIDE DEF child
  <2>4. current # child
    BY <2>1 DEF IInv, SchedulerSafe
  <2>5. QED
    BY <1>1, <2>1, <2>2, <2>3, <2>4, Creates, ZenonT(40)
<1>9. CASE Execve
  <2>1. UNCHANGED <<state, current, pt, spaces, waiters, svcPid, parent>>
    BY <1>9 DEF Execve, procVars, memVars, claimVars
  <2>2. ParentsOther' /\ RootUnsignalled'
    BY <1>1, <1>2, <1>9, <2>1, ZenonT(40) DEF Execve, UserRuns, IInv, ParentsOther, RootUnsignalled
  <2>3. QED
    BY <2>1, <2>2, Neutral
<1>10. ASSUME NEW n \in SleepTicks, Sleep(n) PROVE IInv'
  <2> DEFINE wk == [wake EXCEPT ![current] = n]
             asleep == Marked(state, current, "Sleeping")
             woken == WakeSleepers(asleep, wk)
             next == PickNext(woken, current)
             new == SwitchTo(woken, current, next)
  <2>1. current \in Pids \ {0}
    BY <1>1, <1>10 DEF Sleep, UserRuns
  <2>2. /\ PreTable(asleep, current)
        /\ \A p \in Pids : asleep[p] = IF p = current THEN "Sleeping" ELSE state[p]
    BY <1>1, <2>1, MarkedFacts, SMTT(30) DEF States
  <2> HIDE DEF asleep
  <2>3. SafeTable(new, next) /\ SameFate(asleep, new) /\ new[next] = "Running" /\ next # current
    BY <2>1, <2>2, SwitchFacts, ZenonT(40)
  <2>4. /\ state' = IF next = current THEN Marked(woken, current, "Running") ELSE new
        /\ current' = next
        /\ UNCHANGED <<parent, pt, spaces, waiters, svcPid, pending>>
    BY <1>10, ZenonT(40) DEF Sleep, memVars, claimVars, sigVars, asleep
  <2> HIDE DEF new, next, woken, wk
  <2>5. \A p \in Pids : /\ state'[p] = "Free" <=> state[p] = "Free"
                        /\ state'[p] = "Blocked" <=> state[p] = "Blocked"
                        /\ state'[p] = "Dead" => state[p] = "Dead"
                        /\ state[p] = "Dead" => state'[p] = "Dead" \/ p = current
    <3>1. state[current] \in {"Running", "Dead"}
      BY DEF IInv, SchedulerSafe
    <3>2. QED
      BY <2>2, <2>3, <2>4, <3>1, ZenonT(40) DEF SameFate
  <2>6. QED
    BY <1>2, <2>3, <2>4, <2>5, Schedules, ZenonT(40) DEF RootUnsignalled
<1>11. ASSUME NEW p \in Pids, Waitpid(p) PROVE IInv'
  <2>1. state[p] = "Dead" /\ parent[p] = current /\ Reap(p)
    BY <1>11, ZenonT(40) DEF Waitpid, CanReap
  <2>2. p # current
    BY <2>1, ZenonT(40) DEF IInv, ParentsOther
  <2>3. QED
    BY <2>1, <2>2, Reaps, ZenonT(40)
<1>12. QED
  BY <1>4, <1>5, <1>6, <1>7, <1>8, <1>9, <1>10, <1>11 DEF ProcessCall

\* System calls that leave the process table, the waiters and the claims alone.
LEMMA QuietCallSafe ==
    ASSUME IInv, TypeOK', IpcCall \/ DescriptorCall
    PROVE  IInv'
<1>1. UNCHANGED <<procVars, memVars, sigVars, waiters, claimVars>>
  BY ZenonT(40) DEF IpcCall, Recv, Send, DescriptorCall, OpenFile, CloseFd, DupFd, Dup2Fd, SetCloexec,
         SetStatusFlags, FileCall
<1>2. UNCHANGED <<state, current, pt, spaces, waiters, svcPid, parent, pending>>
  BY <1>1 DEF procVars, memVars, sigVars, claimVars
<1>3. QED
  BY <1>2, Neutral, ZenonT(40) DEF IInv, ParentsOther, RootUnsignalled

LEMMA SignalCallSafe ==
    ASSUME IInv, TypeOK', SignalCall
    PROVE  IInv'
<1>1. ASSUME NEW p \in Pids, NEW sig \in Signals, Kill(p, sig) PROVE IInv'
  BY <1>1, Signalled DEF Kill, memVars
<1>2. ASSUME NEW sig \in Signals, NEW act \in SignalActions, Sigaction(sig, act) PROVE IInv'
  <2>1. UNCHANGED <<state, current, pt, spaces, waiters, svcPid, parent, pending>>
    BY <1>2 DEF Sigaction, procVars, memVars, claimVars
  <2>2. QED
    BY <2>1, Neutral, ZenonT(40) DEF IInv, ParentsOther, RootUnsignalled
<1>3. QED
  BY <1>1, <1>2 DEF SignalCall

LEMMA PipeCallSafe ==
    ASSUME IInv, TypeOK', PipeCall
    PROVE  IInv'
<1>1. ASSUME NEW f, FileCall(f) PROVE IInv'
  <2>1. UNCHANGED <<state, current, pt, spaces, waiters, svcPid, parent, pending>>
    BY <1>1 DEF FileCall, procVars, memVars, sigVars, claimVars
  <2>2. QED
    BY <2>1, Neutral, ZenonT(40) DEF IInv, ParentsOther, RootUnsignalled
<1>2. ASSUME NEW fd \in Fds, BrokenPipe(fd) PROVE IInv'
  <2>1. current \in Pids \ {0}
    BY <1>2, CurrentFacts DEF BrokenPipe, UserRuns
  <2>2. QED
    BY <1>2, <2>1, Signalled, ZenonT(40) DEF BrokenPipe, memVars
<1>3. QED
  BY <1>1, <1>2, ZenonT(40) DEF PipeCall, CreatePipe, ReadPipe, WritePipe

LEMMA TickSafe ==
    ASSUME IInv, TypeOK', Tick
    PROVE  IInv'
<1>1. /\ TickNext \in Pids /\ SafeTable(TickStates, TickNext) /\ SameFate(state, TickStates)
      /\ TickStates[TickNext] = "Running"
  BY CurrentFacts, TickFacts, ZenonT(40) DEF IInv, TypeOK
<1>2. UNCHANGED parent
  BY ZenonT(40) DEF Tick, TickPlain, TickDeliver, TickDeliverFails, CountTick
<1>3. CASE TickPlain \/ TickDeliver
  <2>1. state' = TickStates /\ current' = TickNext /\ UNCHANGED <<pt, spaces, waiters, svcPid>>
    BY <1>3 DEF TickPlain, TickDeliver, memVars, claimVars
  <2>2. RootUnsignalled'
    <3>1. pending \in [Pids -> SUBSET AllSignals] /\ pending[0] = {} /\ 0 \in Pids
      BY NoPidNotPid DEF IInv, RootUnsignalled, TypeOK, SigOK
    <3>2. \/ UNCHANGED pending
          \/ \E x : pending' = [pending EXCEPT ![TickNext] = @ \ {x}]
      BY <1>3, ZenonT(40) DEF TickPlain, TickDeliver
    <3>3. QED
      BY <1>1, <3>1, <3>2, ZenonT(40) DEF RootUnsignalled
  <2>3. QED
    BY <1>1, <1>2, <2>1, <2>2, Schedules, ZenonT(40) DEF SameFate
<1>4. CASE TickDeliverFails
  <2>1. TickNext # 0
    BY <1>4 DEF TickDeliverFails, HasDeliverable, IInv, RootUnsignalled
  <2>2. pt[TickNext] # NoSpace
    BY <1>1, <2>1 DEF SameFate, IInv, SpacesOwned, Live
  <2>3. FaultExit(TickStates, TickNext, CountDown) /\ UNCHANGED pending
    BY <1>4 DEF TickDeliverFails
  <2>4. QED
    BY <1>1, <1>2, <2>1, <2>2, <2>3, FaultExits DEF SafeTable
<1>5. QED
  BY <1>3, <1>4, ZenonT(40) DEF Tick

LEMMA KardiaStepSafe ==
    ASSUME IInv, TypeOK', KardiaStep
    PROVE  IInv'
<1>1. CASE KardiaWake \/ KardiaPop \/ KardiaDecide \/ KardiaRestartFails
  <2>1. UNCHANGED <<state, current, pt, spaces, waiters, svcPid, parent, pending>>
    BY <1>1, ZenonT(40) DEF KardiaWake, KardiaPop, KardiaDecide, KardiaRestartFails, procVars, memVars, sigVars,
                claimVars
  <2>2. QED
    BY <2>1, Neutral, ZenonT(40) DEF IInv, ParentsOther, RootUnsignalled
<1>2. CASE KardiaRestart
  <2> DEFINE p == Lowest(FreePids)
  <2>1. p \in Pids /\ state[p] = "Free" /\ 0 \in Pids
    BY <1>2, FreePidsFacts, NoPidNotPid DEF KardiaRestart
  <2>2. NewProcess(p, 0, DefaultActions) /\ FreeSpaces # {} /\ UNCHANGED <<current, waiters>>
    BY <1>2 DEF KardiaRestart
  <2>3. svcPid' = [svcPid EXCEPT ![kreport.service] = p]
    BY <1>2 DEF KardiaRestart
  <2> HIDE DEF p
  <2>4. kreport.service \in Services \cup {NoService}
    BY DEF IInv, TypeOK, LoopOK, Reports
  <2>5. p # 0
    BY <2>1 DEF IInv, SchedulerSafe
  <2>6. QED
    BY <2>1, <2>2, <2>3, <2>4, <2>5, Creates, ZenonT(40)
<1>3. CASE KardiaReap
  <2>1. kreap \in Pids /\ current = 0 /\ state[0] = "Running"
    BY <1>3 DEF KardiaReap, IInv, TypeOK, LoopOK, SchedulerSafe
  <2>2. CASE CanReap(kreap, 0) /\ Reap(kreap)
    BY <2>1, <2>2, Reaps, ZenonT(40) DEF CanReap
  <2>3. CASE UNCHANGED <<procVars, memVars, sigVars, waiters, claimVars>>
    <3>1. UNCHANGED <<state, current, pt, spaces, waiters, svcPid, parent, pending>>
      BY <2>3 DEF procVars, memVars, sigVars, claimVars
    <3>2. QED
      BY <3>1, Neutral DEF IInv, ParentsOther, RootUnsignalled
  <2>4. QED
    BY <1>3, <2>2, <2>3, ZenonT(40) DEF KardiaReap
<1>4. QED
  BY <1>1, <1>2, <1>3, ZenonT(40) DEF KardiaStep

LEMMA SafeInductive == IInv /\ [Next]_vars => IInv'
<1> SUFFICES ASSUME IInv, [Next]_vars PROVE IInv'
  OBVIOUS
<1>1. TypeOK'
  BY TypesInductive DEF IInv
<1>2. CASE Next
  <2>1. CASE FutexCall
    BY <1>1, <2>1, Waits, Wakes, ZenonT(40) DEF FutexCall
  <2>2. QED
    BY <1>1, <1>2, <2>1, ProcessCallSafe, SignalCallSafe, QuietCallSafe, PipeCallSafe, TickSafe,
       KardiaStepSafe, ZenonT(40) DEF Next
<1>3. CASE UNCHANGED vars
  <2>1. UNCHANGED <<state, current, pt, spaces, waiters, svcPid, parent, pending>>
    BY <1>3 DEF vars, procVars, memVars, sigVars, claimVars
  <2>2. QED
    BY <1>1, <2>1, Neutral, ZenonT(40) DEF IInv, ParentsOther, RootUnsignalled
<1>4. QED
  BY <1>2, <1>3

LEMMA Invariant == Spec => []IInv
<1>1. QED
  BY InitSafe, SafeInductive, PTL DEF Spec

\* PID 0 is Ready whenever it is not CURRENT and only CURRENT is Running, for any
\* size of the process table: the fallback of exit_current is unreachable.
THEOREM SchedulerAlwaysSafe == Spec => []SchedulerSafe
<1>1. IInv => SchedulerSafe
  BY DEF IInv
<1>2. QED
  BY <1>1, Invariant, PTL

\* A process is Blocked exactly while one waiter slot, keyed by its own table,
\* names it, however deaths, wakes and slot reuse interleave (futex.rs).
THEOREM BlockedAlwaysWaiting == Spec => []BlockedIffWaiting
<1>1. IInv => BlockedIffWaiting
  BY DEF IInv
<1>2. QED
  BY <1>1, Invariant, PTL

\* No L1 table is shared between processes or freed under one that can run
\* (exit_cleanup, fork_pl0, waitpid and the pool of mmu.rs).
THEOREM SpacesAlwaysExclusive == Spec => []SpacesExclusive
<1>1. IInv => SpacesExclusive
  BY DEF IInv, SpacesOwned, SpacesExclusive
<1>2. QED
  BY <1>1, Invariant, PTL

\* A supervised claim names a live process, and no two services claim one: every
\* death path of the code drops the claim (clear_pid, report_fault).
THEOREM ClaimsAlwaysLive == Spec => []ClaimsLive
<1>1. IInv => ClaimsLive
  BY DEF IInv
<1>2. QED
  BY <1>1, Invariant, PTL
=============================================================================
