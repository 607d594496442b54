----------------------------- MODULE Supervisor -----------------------------
(***************************************************************************)
(* The fault ring and the restart policy of crates/thumos/src/supervisor.rs *)
(* as operators.  A report keeps the faulting pid and the service it was    *)
(* resolved to at fault time.  claim[s] is the service's current_pid.       *)
(***************************************************************************)
EXTENDS Scheduler, Sequences

CONSTANTS Services,     \* supervised services, each named by its pid at boot
          RingSize,     \* RING_SIZE, 16 in the kernel
          MaxRestarts,  \* MAX_RESTARTS, 3 in the kernel
          WindowTicks   \* WINDOW_TICKS, 500 in the kernel

ASSUME SupervisorAssumption ==
    /\ Services \subseteq Pids \ {0}
    /\ RingSize \in Nat /\ MaxRestarts \in Nat /\ WindowTicks \in Nat

NoService == 0          \* a report whose service is None
Reports == [pid : Pids, service : Services \cup {NoService}]

\* Seeded fault: a service without a process matches any pid.
ServiceOfUnclaimed(claim, p) ==
    IF \E s \in Services : claim[s] \in {p, NoPid}
    THEN CHOOSE s \in Services : claim[s] \in {p, NoPid}
    ELSE NoService

\* The service whose claim names p, as `report_fault` resolves it.
ServiceOf(claim, p) ==
    IF \E s \in Services : claim[s] = p
    THEN CHOOSE s \in Services : claim[s] = p
    ELSE NoService

\* `report_fault` releases the claim of the one service it resolved ...
ReleaseClaim(claim, p) ==
    [s \in Services |-> IF s = ServiceOf(claim, p) THEN NoPid ELSE claim[s]]

\* ... whether or not the ring has room for the report.
PushReport(ring, claim, p) ==
    IF Len(ring) >= RingSize
    THEN ring
    ELSE Append(ring, [pid |-> p, service |-> ServiceOf(claim, p)])

\* Seeded fault: the claim outlives its process.
KeepClaim(claim, p) == claim

\* `clear_pid`: every death that files no report drops its claim here.
ClearPid(claim, p) == [s \in Services |-> IF claim[s] = p THEN NoPid ELSE claim[s]]

\* The window test of `decide`: age is now - window_start_tick.
WindowExpired(age) == age > WindowTicks

\* restarts_in_window after the window test, before this fault is counted.
RestartsInWindow(restarts, age) == IF WindowExpired(age) THEN 0 ELSE restarts

\* Seeded fault: one restart too many.
DecisionOffByOne(restarts, age, gaveUp) ==
    IF gaveUp THEN "None"
    ELSE IF RestartsInWindow(restarts, age) <= MaxRestarts THEN "Restart"
    ELSE "GiveUp"

\* `decide` on a report that names service s.
Decision(restarts, age, gaveUp) ==
    IF gaveUp THEN "None"
    ELSE IF RestartsInWindow(restarts, age) < MaxRestarts THEN "Restart"
    ELSE "GiveUp"
=============================================================================
