-------------------------------- MODULE Ipc --------------------------------
(***************************************************************************)
(* The per-pid message inboxes of crates/thumos/src/ipc.rs.  Each inbox is  *)
(* a bounded FIFO; of a message only its sender is kept, which is also what *)
(* the Recv system call returns.                                            *)
(***************************************************************************)
EXTENDS Scheduler, Sequences

CONSTANT InboxSize     \* INBOX_SIZE, 16 in the kernel

ASSUME InboxAssumption == InboxSize \in Nat

EmptyInbox == << >>

\* Seeded fault: one message past the capacity.
InboxHasRoomOffByOne(box) == Len(box) <= InboxSize

\* `Inbox::push` refuses a message when the inbox is at capacity.
InboxHasRoom(box) == Len(box) < InboxSize

\* `send` checks only that `to` is an index of the inbox array.
Deliver(boxes, to, from) == [boxes EXCEPT ![to] = Append(@, from)]

\* `recv` pops the head of the caller's inbox.
Receive(boxes, p) == [boxes EXCEPT ![p] = Tail(@)]

\* `clear_inbox`.
ClearInbox(boxes, p) == [boxes EXCEPT ![p] = EmptyInbox]
=============================================================================
