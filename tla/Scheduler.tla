----------------------------- MODULE Scheduler -----------------------------
(***************************************************************************)
(* The round-robin scheduler of crates/thumos/src/process.rs: `schedule`   *)
(* and `switch_to` as operators on the table of process states.  A slot of *)
(* PROCS that holds None is in state "Free"; the other states are the      *)
(* variants of `enum State`.                                               *)
(***************************************************************************)
EXTENDS Integers

CONSTANT MaxProcs      \* MAX_PROCS, 16 in the kernel

ASSUME MaxProcsAssumption == MaxProcs \in Nat /\ MaxProcs >= 2

Pids == 0 .. MaxProcs - 1
NoPid == -1            \* Option::<Pid>::None
States == {"Free", "Ready", "Running", "Blocked", "Sleeping", "Dead"}

\* Seeded fault: a sleeper is woken a tick early.
WakeSleepersEarly(st, wk) ==
    [p \in Pids |-> IF st[p] = "Sleeping" /\ wk[p] <= 1 THEN "Ready" ELSE st[p]]

\* First pass of `schedule`: a sleeper whose wake tick has come is Ready again.
\* wk[p] is the number of ticks left until wake_tick (0 once it is reached).
WakeSleepers(st, wk) ==
    [p \in Pids |-> IF st[p] = "Sleeping" /\ wk[p] = 0 THEN "Ready" ELSE st[p]]

\* Seeded fault: every scan starts at slot 0.
ScanFromZero(cur, p) == p

\* The offset at which the second pass, scanning upwards from cur and wrapping
\* at MAX_PROCS, reaches slot p.
ScanOffset(cur, p) == IF p > cur THEN p - cur ELSE p + MaxProcs - cur

ReadyOthers(st, cur) == {p \in Pids \ {cur} : st[p] = "Ready"}

\* Second pass of `schedule`: the first Ready slot of the scan, else cur itself.
PickNext(st, cur) ==
    IF ReadyOthers(st, cur) = {}
    THEN cur
    ELSE CHOOSE p \in ReadyOthers(st, cur) :
            \A q \in ReadyOthers(st, cur) : ScanOffset(cur, p) <= ScanOffset(cur, q)

\* `switch_to`: only a Running process goes back to Ready; one that was marked
\* Dead, Blocked or Sleeping keeps that state.
SwitchTo(st, cur, next) ==
    IF next = cur
    THEN st
    ELSE [st EXCEPT ![cur] = IF @ = "Running" THEN "Ready" ELSE @,
                    ![next] = "Running"]
=============================================================================
