------------------------------- MODULE Futex -------------------------------
(***************************************************************************)
(* The futex waiter table of crates/thumos/src/futex.rs as operators on a  *)
(* function from slots to waiter records.  A slot holding None has pid     *)
(* NoPid.  `space` is the physical L1 table that owns the address: two     *)
(* processes waiting on equal addresses are on different queues.           *)
(***************************************************************************)
EXTENDS Scheduler, FiniteSets

CONSTANTS MaxWaiters,  \* MAX_FUTEX_WAITERS, 32 in the kernel
          Addrs        \* the user addresses programs wait on

ASSUME FutexAssumption == MaxWaiters \in Nat /\ Addrs \subseteq Nat \ {0}

Slots == 0 .. MaxWaiters - 1
NoWaiter == [addr |-> 0, space |-> 0, pid |-> NoPid]

FreeWaiterSlots(w) == {s \in Slots : w[s].pid = NoPid}

\* `sys_futex_wait` takes the first slot that is None.
FirstWaiterSlot(w) ==
    CHOOSE s \in FreeWaiterSlots(w) : \A t \in FreeWaiterSlots(w) : s <= t

Register(w, addr, space, pid) ==
    [w EXCEPT ![FirstWaiterSlot(w)] = [addr |-> addr, space |-> space, pid |-> pid]]

\* Seeded fault: the address alone names the queue.
WokenAnySpace(w, addr, space, max) ==
    LET match == {s \in Slots : w[s].pid # NoPid /\ w[s].addr = addr}
    IN  {s \in match : Cardinality({t \in match : t < s}) < max}

\* `wake_waiters_for_address_space`: the first max slots, in table order, that
\* wait on addr in this address space.
WokenSlots(w, addr, space, max) ==
    LET match == {s \in Slots : /\ w[s].pid # NoPid
                                /\ w[s].addr = addr
                                /\ w[s].space = space}
    IN  {s \in match : Cardinality({t \in match : t < s}) < max}

WokenPids(w, addr, space, max) == {w[s].pid : s \in WokenSlots(w, addr, space, max)}

ClearSlots(w, gone) == [s \in Slots |-> IF s \in gone THEN NoWaiter ELSE w[s]]

\* Seeded fault: a death leaves the waiter slot occupied.
KeepWaiters(w, p) == w

FreeWaitersForPid(w, p) == ClearSlots(w, {s \in Slots : w[s].pid = p})
=============================================================================
