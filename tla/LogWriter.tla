----------------------------- MODULE LogWriter -----------------------------
(***************************************************************************)
(* The write path of the log-structured file system: the block cache        *)
(* (cache.rs), the segment bitmap (lfs_segment.rs) and the log head          *)
(* (lfs_writer.rs).                                                          *)
(*                                                                           *)
(* A block is <<segment, offset>>.  The volatile half of a mounted file      *)
(* system is one record s: imap (inode -> block), used (the bitmap), seg and *)
(* pos (the log head; seg = 0 before the first write), dirty (the cached     *)
(* blocks the medium does not hold yet), nextInode, ckptSeq, and fresh, a    *)
(* history of the segments allocated since the last checkpoint.  Clean cache *)
(* entries equal the medium and are left out.  An operator that can fail     *)
(* returns [ok, at, fs], where fs is what the call leaves behind either way. *)
(***************************************************************************)
EXTENDS Integers, FiniteSets, SequencesExt

CONSTANTS SegCount,   \* segment_count; segment 0 is reserved for metadata
          SegSize     \* segment_size in blocks, the first being the header

ASSUME LogAssumption == SegCount \in Nat /\ SegCount >= 2 /\ SegSize \in Nat /\ SegSize >= 2

VARIABLE disk         \* the medium: block -> content

Segs == 1 .. SegCount - 1
LogBlocks == Segs \X (0 .. SegSize - 1)
Nil == <<0, 0>>                        \* pointer 0: no block
SegmentHeader == [k |-> "segment"]

----------------------------------------------------------------------------
\* cache.rs

Peek(s, b) == IF b \in DOMAIN s.dirty THEN s.dirty[b] ELSE disk[b]
Cached(d, b, c) == (b :> c) @@ d
Flushed(d) == d @@ disk                \* every dirty entry written back

----------------------------------------------------------------------------
\* lfs_segment.rs

FreeSegs(used) == Segs \ used
AllocateAny(used) == IF FreeSegs(used) = {} THEN 0 ELSE Min(FreeSegs(used))

\* Seeded fault: ordinary writers may take the compactor's reserve.
AllocateLast(used) == AllocateAny(used)

\* `allocate` keeps the last free segment back for the compactor.
Allocate(used) == IF Cardinality(FreeSegs(used)) <= 1 THEN 0 ELSE AllocateAny(used)

----------------------------------------------------------------------------
\* lfs_writer.rs

Ok(s, b) == [ok |-> TRUE, at |-> b, fs |-> s]
Failed(s) == [ok |-> FALSE, at |-> Nil, fs |-> s]

\* `ensure_writer`, `with_sequence`; g = 0 when no segment could be allocated.
OpenLog(s, g) ==
    IF g = 0 THEN Failed(s)
    ELSE Ok([s EXCEPT !.used = @ \cup {g}, !.fresh = @ \cup {g}, !.seg = g, !.pos = 1], Nil)

EnsureWriter(s) == IF s.seg # 0 THEN Ok(s, Nil) ELSE OpenLog(s, Allocate(s.used))

\* Seeded fault: the next segment is not marked used.
NextSegmentUnmarked(s, g) ==
    IF g = 0 THEN Failed(s)
    ELSE Ok([s EXCEPT !.fresh = @ \cup {g}, !.seg = g, !.pos = 1,
                      !.dirty = Cached(@, <<s.seg, 0>>, SegmentHeader)], Nil)

\* `seal_segment_inner`: the next segment is allocated before the header is written.
NextSegment(s, g) ==
    IF g = 0 THEN Failed(s)
    ELSE Ok([s EXCEPT !.used = @ \cup {g}, !.fresh = @ \cup {g}, !.seg = g, !.pos = 1,
                      !.dirty = Cached(@, <<s.seg, 0>>, SegmentHeader)], Nil)

Seal(s, reserve) == NextSegment(s, IF reserve THEN AllocateAny(s.used) ELSE Allocate(s.used))

\* Seeded fault: a full segment is not sealed.
RoomWithoutSeal(s, reserve) == Ok(s, Nil)

\* `write_data_block_inner`: a full segment is sealed, then the block goes to the head.
Room(s, reserve) == IF s.pos >= SegSize THEN Seal(s, reserve) ELSE Ok(s, Nil)
AppendAt(s, at, content) == Ok([s EXCEPT !.dirty = Cached(@, at, content), !.pos = @ + 1], at)
AppendIf(r, content) == IF r.ok THEN AppendAt(r.fs, <<r.fs.seg, r.fs.pos>>, content) ELSE r
WriteBlock(s, content, reserve) == AppendIf(Room(s, reserve), content)

\* `write_inode_inner`
MapIf(r, id) == IF r.ok THEN Ok([r.fs EXCEPT !.imap = Cached(@, id, r.at)], r.at) ELSE r
WriteInode(s, id, inode, reserve) == MapIf(WriteBlock(s, inode, reserve), id)
=============================================================================
