---------------------------- MODULE DurableStore ----------------------------
(***************************************************************************)
(* What the file system promises its callers: a tree of named files and     *)
(* directories that each call changes as a whole or not at all, and that     *)
(* power loss puts back to the last checkpoint committed, or to the one      *)
(* whose commit was under way.                                               *)
(*                                                                           *)
(* A path is a sequence of names.  A node keeps the units behind its whole   *)
(* possible extent: truncate may leave units beyond the size as they were,   *)
(* and a later write past the end brings them back.                          *)
(***************************************************************************)
EXTENDS Integers, Sequences

CONSTANTS Paths, Types, Values, MaxSize

VARIABLES tree,      \* path -> node
          saved,     \* the tree of the last checkpoint
          pending    \* the tree of a checkpoint being committed, or saved

Empty == [p \in {} |-> 0]
Offsets == 0 .. MaxSize - 1
NewNode(t) == [type |-> t, size |-> 0, units |-> [u \in Offsets |-> 0]]
Parent(p) == SubSeq(p, 1, Len(p) - 1)
IsDir(p) == p = << >> \/ (p \in DOMAIN tree /\ tree[p].type = "dir")
Larger(a, b) == IF a > b THEN a ELSE b
Smaller(a, b) == IF a < b THEN a ELSE b

Init == tree = Empty /\ saved = Empty /\ pending = Empty

Create ==
    \E p \in Paths \ DOMAIN tree, t \in Types :
        /\ IsDir(Parent(p))
        /\ tree' = [q \in DOMAIN tree \cup {p} |-> IF q = p THEN NewNode(t) ELSE tree[q]]
        /\ UNCHANGED <<saved, pending>>

Write ==
    \E p \in DOMAIN tree, off \in Offsets, len \in 1 .. MaxSize, v \in Values :
        /\ tree[p].type = "file" /\ off + len <= MaxSize
        /\ tree' = [tree EXCEPT ![p] =
                       [@ EXCEPT !.size = Larger(@, off + len),
                                 !.units = [u \in Offsets |-> IF u \in off .. off + len - 1 THEN v ELSE @[u]]]]
        /\ UNCHANGED <<saved, pending>>

\* What lies beyond both sizes is kept or zeroed; below it nothing changes.
Resize ==
    \E p \in DOMAIN tree, size \in 0 .. MaxSize :
        /\ tree[p].type = "file"
        /\ \E zeroed \in SUBSET (Smaller(size, tree[p].size) .. MaxSize - 1) :
              tree' = [tree EXCEPT ![p] =
                          [@ EXCEPT !.size = size,
                                    !.units = [u \in Offsets |-> IF u \in zeroed THEN 0 ELSE @[u]]]]
        /\ UNCHANGED <<saved, pending>>

Remove ==
    \E p \in DOMAIN tree :
        /\ \A q \in DOMAIN tree : q # << >> => Parent(q) # p
        /\ tree' = [q \in DOMAIN tree \ {p} |-> tree[q]]
        /\ UNCHANGED <<saved, pending>>

Begin == pending' = tree /\ UNCHANGED <<tree, saved>>
Commit == saved' = pending /\ UNCHANGED <<tree, pending>>

Lose ==
    /\ saved' \in {saved, pending}
    /\ tree' = saved' /\ pending' = saved'

Next == Create \/ Write \/ Resize \/ Remove \/ Begin \/ Commit \/ Lose

Spec == Init /\ [][Next]_<<tree, saved, pending>>
=============================================================================
