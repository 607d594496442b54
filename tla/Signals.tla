------------------------------ MODULE Signals ------------------------------
(***************************************************************************)
(* Signal numbers, default actions and the pending mask of                 *)
(* crates/thumos/src/signal.rs.  A handler address is abstracted to        *)
(* "Handler"; the pending bitmask is the set of its bits.                  *)
(***************************************************************************)
EXTENDS Integers

CONSTANT Signals       \* the signals programs send and catch in this instance

SIGKILL == 9
SIGUSR1 == 10
SIGUSR2 == 12
SIGPIPE == 13
SIGTERM == 15
SIGCHLD == 17
AllSignals == {SIGKILL, SIGUSR1, SIGUSR2, SIGPIPE, SIGTERM, SIGCHLD}

ASSUME SignalsAssumption == Signals \subseteq AllSignals

SignalActions == {"Default", "Ignore", "Handler"}

\* `SignalState::new`.
DefaultActions == [sig \in AllSignals |-> "Default"]

\* `default_action` is Terminate for every signal but SIGCHLD.
DefaultTerminates(sig) == sig # SIGCHLD

\* Seeded fault: SIGKILL may be caught like any signal.
CanCatchAll(sig) == sig \in AllSignals

\* `can_catch`.
CanCatch(sig) == sig # SIGKILL

\* What `deliver_signal_to` does to a live target: SIGKILL never consults the
\* action table.
Disposition(acts, sig) ==
    IF sig = SIGKILL THEN "Terminate"
    ELSE CASE acts[sig] = "Handler" -> "Pend"
           [] acts[sig] = "Ignore"  -> "Drop"
           [] OTHER -> IF DefaultTerminates(sig) THEN "Terminate" ELSE "Drop"

\* `next_pending`: the lowest-numbered pending signal.
NextPending(pend) == CHOOSE s \in pend : \A t \in pend : s <= t

\* `check_pending_signal` returns Some: only the lowest pending signal is tried.
HasDeliverable(acts, pend) == pend # {} /\ acts[NextPending(pend)] = "Handler"
=============================================================================
