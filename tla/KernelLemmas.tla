---------------------------- MODULE KernelLemmas ----------------------------
(***************************************************************************)
(* Facts about the operators the process core is built from: the scan of    *)
(* the scheduler, the lowest free slot, and what each building block of the *)
(* handlers in module Kernel makes of the variables it assigns.             *)
(***************************************************************************)
EXTENDS KernelProperties, WellFoundedInduction, TLAPS

\* A nonempty set of naturals has a least element.
LEMMA MinExists ==
    ASSUME NEW S \in SUBSET Nat, S # {}
    PROVE  \E m \in S : \A k \in S : m <= k
<1> DEFINE R == OpToRel(<, Nat)
<1>1. IsWellFoundedOn(R, Nat)
  BY NatLessThanWellFounded, Zenon
<1>2. \A x, y \in Nat : x < y => <<x, y>> \in R
  BY DEF OpToRel
<1> HIDE DEF R
<1>3. PICK m \in S : \A k \in S : ~ (<<k, m>> \in R)
  BY <1>1, WFMin, ZenonT(40)
<1>4. ASSUME NEW k \in S PROVE m <= k
  <2>1. ~ (k < m)
    BY <1>2, <1>3, ZenonT(40)
  <2>2. QED
    BY <2>1
<1>5. QED
  BY <1>4

\* The first free slot of a table is a free slot of it (FdTable::alloc,
\* ofd_alloc, alloc_addr_space, the PCB scan).
LEMMA LowestIn ==
    ASSUME NEW S \in SUBSET Nat, S # {}
    PROVE  Lowest(S) \in S
BY MinExists, ZenonT(40) DEF Lowest

\* The same for the waiter table of sys_futex_wait.
LEMMA FirstWaiterSlotFree ==
    ASSUME NEW w, FreeWaiterSlots(w) # {}
    PROVE  FirstWaiterSlot(w) \in FreeWaiterSlots(w)
<1>1. FreeWaiterSlots(w) \in SUBSET Nat
  BY FutexAssumption DEF FreeWaiterSlots, Slots
<1>2. QED
  BY <1>1, MinExists DEF FirstWaiterSlot

\* `schedule` picks a Ready process other than the caller whenever there is
\* one, and the caller otherwise.
LEMMA PickNextReady ==
    ASSUME NEW st, NEW cur \in Pids
    PROVE  /\ PickNext(st, cur) \in Pids
           /\ ReadyOthers(st, cur) = {} => PickNext(st, cur) = cur
           /\ ReadyOthers(st, cur) # {} => PickNext(st, cur) \in ReadyOthers(st, cur)
<1> DEFINE S == ReadyOthers(st, cur)
           Offsets == {ScanOffset(cur, p) : p \in S}
<1>1. S \subseteq Pids
  BY DEF ReadyOthers
<1>2. \A p \in Pids : ScanOffset(cur, p) \in Nat
  BY MaxProcsAssumption DEF ScanOffset, Pids
<1>3. ASSUME S # {} PROVE PickNext(st, cur) \in S
  <2>1. Offsets \in SUBSET Nat /\ Offsets # {}
    BY <1>1, <1>2, <1>3
  <2> HIDE DEF S
  <2>2. PICK m \in Offsets : \A k \in Offsets : m <= k
    BY <2>1, MinExists, ZenonT(40)
  <2>3. PICK p \in S : m = ScanOffset(cur, p)
    BY <2>2
  <2>4. \A q \in S : ScanOffset(cur, p) <= ScanOffset(cur, q)
    BY <2>2, <2>3
  <2>5. QED
    BY <2>3, <2>4, <1>3 DEF PickNext, S
<1>4. S = {} => PickNext(st, cur) = cur
  BY DEF PickNext
<1>5. QED
  BY <1>1, <1>3, <1>4

----------------------------------------------------------------------------
\* A process table on which `schedule` may be called while cur is CURRENT: PID 0
\* can take over, and nothing but cur is Running.
PreTable(st, cur) ==
    /\ st \in [Pids -> States]
    /\ st[0] = IF cur = 0 THEN "Running" ELSE "Ready"
    /\ \A p \in Pids : st[p] = "Running" => p = cur

\* The same table after `switch_to`: SchedulerSafe for an arbitrary table.
SafeTable(st, cur) == PreTable(st, cur) /\ st[cur] \in {"Running", "Dead"}

\* Scheduling moves processes only among Ready, Running and Sleeping.
SameFate(st, new) ==
    \A p \in Pids : /\ st[p] = "Free" <=> new[p] = "Free"
                    /\ st[p] = "Blocked" <=> new[p] = "Blocked"
                    /\ st[p] = "Dead" <=> new[p] = "Dead"

LEMMA WakeSleepersFacts ==
    ASSUME NEW st, NEW cur \in Pids, NEW wk, PreTable(st, cur)
    PROVE  /\ PreTable(WakeSleepers(st, wk), cur)
           /\ SameFate(st, WakeSleepers(st, wk))
<1>1. 0 \in Pids
  BY MaxProcsAssumption DEF Pids
<1>2. WakeSleepers(st, wk) \in [Pids -> States]
  BY DEF WakeSleepers, PreTable, States
<1>3. QED
  BY <1>1, <1>2 DEF WakeSleepers, PreTable, SameFate

\* `schedule` and `switch_to` together: the result is safe for the process
\* chosen, which is neither free, blocked nor dead, and a user process that
\* calls them gives up the processor.
LEMMA SwitchFacts ==
    ASSUME NEW st, NEW cur \in Pids, NEW wk, PreTable(st, cur)
    PROVE  LET woken == WakeSleepers(st, wk)
               next == PickNext(woken, cur)
               new == SwitchTo(woken, cur, next)
           IN  /\ next \in Pids
               /\ SafeTable(new, next)
               /\ SameFate(st, new)
               /\ new[next] = "Running"
               /\ cur # 0 => next # cur
<1> DEFINE woken == WakeSleepers(st, wk)
           next == PickNext(woken, cur)
           new == SwitchTo(woken, cur, next)
<1>1. 0 \in Pids
  BY MaxProcsAssumption DEF Pids
<1>2. PreTable(woken, cur) /\ SameFate(st, woken)
  BY WakeSleepersFacts
<1> HIDE DEF woken
<1>3. /\ next \in Pids
      /\ ReadyOthers(woken, cur) = {} => next = cur
      /\ ReadyOthers(woken, cur) # {} => next \in ReadyOthers(woken, cur)
  BY PickNextReady
<1>4. cur # 0 => ReadyOthers(woken, cur) # {}
  BY <1>1, <1>2 DEF ReadyOthers, PreTable
<1> HIDE DEF next
<1>5. next # cur => next \in Pids /\ woken[next] = "Ready"
  BY <1>3 DEF ReadyOthers
<1>6. cur # 0 => next # cur
  BY <1>3, <1>4 DEF ReadyOthers
<1>7. CASE next = cur
  <2>1. cur = 0 /\ new = woken
    BY <1>6, <1>7 DEF SwitchTo
  <2>2. SafeTable(new, next) /\ new[next] = "Running"
    BY <2>1, <1>2, <1>7 DEF SafeTable, PreTable
  <2>3. QED
    BY <2>1, <2>2, <1>2, <1>3, <1>6 DEF woken, next
<1>8. CASE next # cur
  <2>1. new = [woken EXCEPT ![cur] = IF @ = "Running" THEN "Ready" ELSE @, ![next] = "Running"]
    BY <1>8 DEF SwitchTo
  <2>2. new \in [Pids -> States]
    BY <2>1, <1>2, ZenonT(40) DEF PreTable, States
  <2>3. \A p \in Pids : new[p] = IF p = next THEN "Running"
                                 ELSE IF p = cur /\ woken[p] = "Running" THEN "Ready" ELSE woken[p]
    BY <2>1, <1>2, <1>3, <1>8 DEF PreTable
  <2> HIDE DEF new
  <2>4. SafeTable(new, next) /\ new[next] = "Running"
    BY <2>2, <2>3, <1>1, <1>2, <1>3, <1>8 DEF SafeTable, PreTable
  <2>5. SameFate(st, new)
    BY <2>3, <1>2, <1>5, <1>8 DEF SameFate
  <2>6. QED
    BY <2>4, <2>5, <1>3, <1>6 DEF woken, next, new
<1>9. QED
  BY <1>7, <1>8

LEMMA RescheduleFacts ==
    ASSUME NEW st, NEW cur \in Pids, NEW wk, PreTable(st, cur), Reschedule(st, cur, wk)
    PROVE  /\ current' \in Pids
           /\ SafeTable(state', current')
           /\ SameFate(st, state')
           /\ state'[current'] = "Running"
           /\ cur # 0 => current' # cur
BY SwitchFacts DEF Reschedule

LEMMA TickFacts ==
    ASSUME ProcOK, PreTable(state, current)
    PROVE  /\ TickNext \in Pids
           /\ SafeTable(TickStates, TickNext)
           /\ SameFate(state, TickStates)
           /\ TickStates[TickNext] = "Running"
BY SwitchFacts DEF TickStates, TickNext, ProcOK

\* Marking a user process other than Running keeps the table schedulable.
LEMMA MarkedFacts ==
    ASSUME NEW st, NEW cur \in Pids \ {0}, NEW s \in States \ {"Running"}, PreTable(st, cur)
    PROVE  /\ PreTable(Marked(st, cur, s), cur)
           /\ \A p \in Pids : Marked(st, cur, s)[p] = IF p = cur THEN s ELSE st[p]
BY MaxProcsAssumption DEF Marked, PreTable, Pids
=============================================================================
