----------------------------- MODULE Compactor -----------------------------
(***************************************************************************)
(* The segment cleaner, lfs_compact.rs: pick the segment with the fewest     *)
(* live blocks, copy them to the log head, free the segment.                 *)
(***************************************************************************)
EXTENDS LogWriter

CONSTANTS DirectBlocks,     \* DIRECT_BLOCK_COUNT
          CompactPercent    \* COMPACT_THRESHOLD_PERCENT

Direct == 0 .. DirectBlocks - 1
Inodes(s) == SelectSeq([n \in 1 .. s.nextInode |-> n - 1], LAMBDA id : id \in DOMAIN s.imap)
InodeAt(s, id) == Peek(s, s.imap[id])
Pointers(inode) == {inode.direct[i] : i \in Direct} \ {Nil}

\* `needs_compaction`: the reserve does not count as free.
NeedsCompaction(used) ==
    Cardinality(FreeSegs(used)) - 1 < Max({(SegCount * CompactPercent) \div 100, 1})

\* The live blocks of segment g: the inodes the imap maps into it and the data
\* blocks that live inodes point to, in the order the compactor visits them.
LiveInodes(s, g) == SelectSeq(Inodes(s), LAMBDA id : s.imap[id][1] = g)
LiveData(s, g) ==
    LET ptrs(id) == [i \in 1 .. DirectBlocks |-> InodeAt(s, id).direct[i - 1]]
        all == FlattenSeq([n \in DOMAIN Inodes(s) |-> ptrs(Inodes(s)[n])])
    IN  SelectSeq(all, LAMBDA b : b # Nil /\ b[1] = g)
LiveCount(s, g) == Len(LiveInodes(s, g)) + Len(LiveData(s, g))

Candidates(s) == (s.used \cap Segs) \ {s.seg}

\* `pick_candidate`: fewest live blocks, the lowest segment among equals.
PickCandidate(s) ==
    LET live == [g \in Candidates(s) |-> LiveCount(s, g)]
    IN  Min({g \in Candidates(s) : live[g] = Min(Range(live))})

MoveInode(s, id) == WriteInode(s, id, InodeAt(s, id), TRUE)

\* `update_data_block_references`
Repoint(s, old, new) ==
    LET moved(inode) == [inode EXCEPT !.direct = [i \in Direct |-> IF @[i] = old THEN new ELSE @[i]]]
        step(r, id) == IF r.ok /\ old \in Pointers(InodeAt(s, id))
                       THEN WriteInode(r.fs, id, moved(InodeAt(s, id)), TRUE)
                       ELSE r
    IN  FoldLeft(step, Ok(s, new), Inodes(s))

RepointIf(r, b) == IF r.ok THEN Repoint(r.fs, b, r.at) ELSE r
MoveData(s, b) == RepointIf(WriteBlock(s, Peek(s, b), TRUE), b)

\* Seeded fault: inodes move, the data blocks they point to are taken for garbage.
RelocateInodesOnly(s, g) ==
    FoldLeft(LAMBDA r, id : IF r.ok THEN MoveInode(r.fs, id) ELSE r, Ok(s, Nil), LiveInodes(s, g))

\* The two copy loops of `compact_one_segment`, over the inventory taken first.
Relocate(s, g) ==
    LET inodes == FoldLeft(LAMBDA r, id : IF r.ok THEN MoveInode(r.fs, id) ELSE r,
                           Ok(s, Nil), LiveInodes(s, g))
    IN  FoldLeft(LAMBDA r, b : IF r.ok THEN MoveData(r.fs, b) ELSE r, inodes, LiveData(s, g))

\* `segment_has_live_blocks`
HasLive(s, g) == LiveCount(s, g) > 0

\* `compact_one_segment`, with its outcome: "ok" or the error it returns.
FreeIf(r, g) ==
    IF ~r.ok THEN [out |-> "no_free_segments", fs |-> r.fs]
    ELSE IF HasLive(r.fs, g) THEN [out |-> "corrupt", fs |-> r.fs]
    ELSE [out |-> "ok", fs |-> [r.fs EXCEPT !.used = @ \ {g}]]
Clean(s, g) == FreeIf(Relocate(s, g), g)
CompactOne(s) ==
    IF Candidates(s) = {} THEN [out |-> "no_candidate", fs |-> s] ELSE Clean(s, PickCandidate(s))

\* `maybe_compact`, the last step of create, write and unlink
MaybeCompact(s) ==
    IF NeedsCompaction(s.used) THEN CompactOne(s) ELSE [out |-> "ok", fs |-> s]
=============================================================================
