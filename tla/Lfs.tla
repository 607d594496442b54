-------------------------------- MODULE Lfs --------------------------------
(***************************************************************************)
(* The log-structured file system, lfs.rs and lfs_checkpoint.rs, with power *)
(* loss: the calls of the Filesystem trait that change state, the steps of   *)
(* a sync, loss of power at any of them, and the mount that follows.         *)
(*                                                                           *)
(* A call runs to its end with the cache in RAM.  The cache may write any    *)
(* dirty block back at any time, so when power is lost the medium holds the  *)
(* blocks of the last flush and any part of the dirty ones.  File offsets    *)
(* and sizes count units, UnitsPerBlock of them to a block; a directory's    *)
(* size counts its entries, which fill one block at DirCapacity.             *)
(***************************************************************************)
EXTENDS Compactor

CONSTANTS Names,          \* directory entry names
          Types,          \* inode types that create is asked for
          Values,         \* what a write fills units with
          WriteOffsets, WriteLengths,   \* where writes start, in units, and how long they are
          Sizes,          \* sizes that truncate is asked for
          UnitsPerBlock, DirCapacity,
          MaxInodes, MaxCkpt, MaxCalls,   \* bounds: inode numbers, checkpoints, calls
          LossWindows     \* the two windows of PowerLoss in which power may be lost

VARIABLES fs,             \* struct Lfs with its cache, or Unmounted
          pc,             \* "idle", a step of sync, "off", or "failed" (mount refused)
          result,         \* outcome of the last call
          calls           \* calls made so far

vars == <<disk, fs, pc, result, calls>>

Unit == 0 .. UnitsPerBlock - 1
MaxFileSize == DirectBlocks * UnitsPerBlock      \* LFS_MAX_FILE_SIZE
Root == 0
NoPointers == [i \in Direct |-> Nil]
Inode(t, n, d) == [k |-> "inode", type |-> t, size |-> n, direct |-> d]
Data(u) == [k |-> "data", units |-> u]
Dir(e) == [k |-> "dir", entries |-> e]
ZeroUnits == [u \in Unit |-> 0]
NoEntries == [n \in {} |-> 0]
Unmounted == [imap |-> << >>, used |-> {}, seg |-> 0, pos |-> 0, dirty |-> << >>,
              fresh |-> {}, exposed |-> FALSE, nextInode |-> 0, ckptSeq |-> 0]

\* Segment 0: block 1 and block 65 are the checkpoint headers of slots A and B.
\* `format` puts its imap and bitmap at 3 and 7, `write_checkpoint` puts them
\* behind the header.
SlotA == 1
SlotB == 65
MetaBlocks == {0} \X {SlotA, SlotA + 1, SlotA + 2, 7, SlotB, SlotB + 1, SlotB + 2}
Blank == [k |-> "blank"]
Header(seq, im, bm, next) == [k |-> "header", seq |-> seq, imap |-> im, bitmap |-> bm, nextInode |-> next]
ImapBlock(m) == [k |-> "imap", map |-> m]
BitmapBlock(u) == [k |-> "bitmap", used |-> u]

\* `format`: the root directory in segment 1 and checkpoint 1 in slot A.
Formatted ==
    [b \in MetaBlocks \cup LogBlocks |->
        CASE b = <<0, SlotA>> -> Header(1, <<0, 3>>, <<0, 7>>, 1)
          [] b = <<0, 3>> -> ImapBlock(Root :> <<1, 1>>)
          [] b = <<0, 7>> -> BitmapBlock({0, 1})
          [] b = <<1, 0>> -> SegmentHeader
          [] b = <<1, 1>> -> Inode("dir", 0, NoPointers)
          [] OTHER -> Blank]

----------------------------------------------------------------------------
\* Mounting: `pick_latest`, then the imap and the bitmap it names.

HeaderIn(d, slot) == d[<<0, slot>>]
Valid(d, slot) == HeaderIn(d, slot).k = "header"

PickLatest(d) ==
    IF Valid(d, SlotA) /\ (Valid(d, SlotB) => HeaderIn(d, SlotA).seq >= HeaderIn(d, SlotB).seq)
    THEN HeaderIn(d, SlotA) ELSE HeaderIn(d, SlotB)

\* A bitmap read as an imap has entries inside segment 0, which `deserialize` rejects.
Mountable(d) ==
    LET h == PickLatest(d)
    IN  h.k = "header" /\ d[h.imap].k = "imap" /\ d[h.bitmap].k = "bitmap"

Recovered(d) ==
    LET h == PickLatest(d)
    IN  [Unmounted EXCEPT !.imap = d[h.imap].map, !.used = d[h.bitmap].used,
                          !.nextInode = h.nextInode, !.ckptSeq = h.seq + 1]

Init ==
    /\ disk = Formatted
    /\ fs = Recovered(Formatted)
    /\ pc = "idle" /\ result = "ok" /\ calls = 0

Mount ==
    /\ pc = "off"
    /\ IF Mountable(disk) THEN fs' = Recovered(disk) /\ pc' = "idle"
                          ELSE fs' = fs /\ pc' = "failed"
    /\ UNCHANGED <<disk, result, calls>>

----------------------------------------------------------------------------
\* The calls of the Filesystem trait.  A call that returns before it changes
\* anything is a stuttering step.

Without(f, x) == [y \in DOMAIN f \ {x} |-> f[y]]
LoadInode(id) == InodeAt(fs, id)
Exists(id, t) == id \in DOMAIN fs.imap /\ LoadInode(id).type = t
Entries(inode) == IF inode.size = 0 THEN NoEntries ELSE Peek(fs, inode.direct[0]).entries

\* `write_dir_block`: one block holds the whole directory.
WriteDirBlock(s, e) ==
    IF Cardinality(DOMAIN e) > DirCapacity THEN Failed(s) ELSE WriteBlock(s, Dir(e), FALSE)

Call == pc = "idle" /\ calls < MaxCalls /\ calls' = calls + 1 /\ UNCHANGED <<disk, pc>>

\* The steps of a call up to the first that fails, then compaction if none did.
Then(r, Step(_)) == IF r.ok THEN Step(r) ELSE r
Outcome(c) == fs' = c.fs /\ result' = c.out
Finish(r) == Outcome(IF r.ok THEN MaybeCompact(r.fs) ELSE [out |-> "no_space", fs |-> r.fs])

ImapRemove(s, id) == [s EXCEPT !.imap = Without(@, id)]

\* Seeded fault: a create that runs out of space keeps its inode.
KeepInode(s, id) == s

\* A failed create takes its inode out of the imap again.
Rollback(s, id) == ImapRemove(s, id)
RollbackIf(r, id) == IF r.ok THEN r ELSE Failed(Rollback(r.fs, id))

Create(dir, name, t) ==
    LET parent == LoadInode(dir)
        new == fs.nextInode
        e == Cached(Entries(parent), name, new)
        r1 == Then(EnsureWriter(fs), LAMBDA r :
                  WriteInode([r.fs EXCEPT !.nextInode = @ + 1], new, Inode(t, 0, NoPointers), FALSE))
        r2 == Then(r1, LAMBDA r : WriteDirBlock(r.fs, e))
        r3 == Then(r2, LAMBDA r :
                  WriteInode(r.fs, dir, Inode("dir", Cardinality(DOMAIN e), [parent.direct EXCEPT ![0] = r.at]), FALSE))
    IN  /\ Call
        /\ Exists(dir, "dir") /\ name \notin DOMAIN Entries(parent) /\ new < MaxInodes
        /\ Finish(RollbackIf(r3, new))

OldUnits(s, b) == IF b = Nil THEN ZeroUnits ELSE Peek(s, b).units

\* The loops of write and truncate carry the pointers of the inode along.
LoopStart(w, direct) == [ok |-> w.ok, fs |-> w.fs, direct |-> direct]
Pointed(b, direct, i) == [ok |-> b.ok, fs |-> b.fs, direct |-> [direct EXCEPT ![i] = b.at]]

\* The loop of `write`: each touched block is read, overlaid and appended.
Write(id, off, len, v) ==
    LET inode == LoadInode(id)
        first == off \div UnitsPerBlock
        touched == [n \in 1 .. (off + len - 1) \div UnitsPerBlock - first + 1 |-> first + n - 1]
        overlay(i, old) == [u \in Unit |-> IF i * UnitsPerBlock + u \in off .. off + len - 1 THEN v ELSE old[u]]
        step(r, i) == IF r.ok
                      THEN Pointed(WriteBlock(r.fs, Data(overlay(i, OldUnits(r.fs, r.direct[i]))), FALSE), r.direct, i)
                      ELSE r
        r1 == FoldLeft(step, LoopStart(EnsureWriter(fs), inode.direct), touched)
        r2 == Then(r1, LAMBDA r : WriteInode(r.fs, id, Inode("file", Max({inode.size, off + len}), r.direct), FALSE))
    IN  /\ Call
        /\ Exists(id, "file") /\ off + len <= MaxFileSize
        /\ Finish(r2)

BlocksFor(size) == (size + UnitsPerBlock - 1) \div UnitsPerBlock

\* `truncate` does not compact.
Truncate(id, size) ==
    LET inode == LoadInode(id)
        kept == [i \in Direct |-> IF size < inode.size /\ i >= BlocksFor(size) THEN Nil ELSE inode.direct[i]]
        grown == SelectSeq([n \in 1 .. DirectBlocks |-> n - 1], LAMBDA i :
                     i \in BlocksFor(inode.size) .. BlocksFor(size) - 1 /\ kept[i] = Nil)
        step(r, i) == IF r.ok THEN Pointed(WriteBlock(r.fs, Data(ZeroUnits), FALSE), r.direct, i) ELSE r
        r1 == FoldLeft(step, LoopStart(EnsureWriter(fs), kept), grown)
        r2 == Then(r1, LAMBDA r : WriteInode(r.fs, id, Inode("file", size, r.direct), FALSE))
    IN  /\ Call
        /\ Exists(id, "file") /\ size <= MaxFileSize
        /\ Outcome([out |-> IF r2.ok THEN "ok" ELSE "no_space", fs |-> r2.fs])

Unlinkable(inode) == inode.type = "dir" => inode.size = 0

\* `unlink`: the entry goes first, the inode leaves the imap last; link_count is always 1.
Unlink(dir, name) ==
    LET parent == LoadInode(dir)
        e == Entries(parent)
        rest == Without(e, name)
        w == EnsureWriter(fs)
        r1 == IF rest = NoEntries THEN w ELSE Then(w, LAMBDA r : WriteDirBlock(r.fs, rest))
        r2 == Then(r1, LAMBDA r :
                  WriteInode(r.fs, dir, Inode("dir", Cardinality(DOMAIN rest), [parent.direct EXCEPT ![0] = r.at]), FALSE))
    IN  /\ Call
        /\ Exists(dir, "dir") /\ name \in DOMAIN e
        /\ IF w.ok /\ ~Unlinkable(LoadInode(e[name]))
           THEN Outcome([out |-> "not_empty", fs |-> w.fs])
           ELSE Finish(Then(r2, LAMBDA r : Ok(ImapRemove(r.fs, e[name]), Nil)))

----------------------------------------------------------------------------
\* sync: flush the log, then `write_checkpoint` puts the imap and the bitmap into
\* a slot, flushes them, and writes and flushes the header last.

SlotOf(seq) == IF seq % 2 = 0 THEN SlotA ELSE SlotB
HeaderBlock(s, slot) == <<0, slot>> :> Header(s.ckptSeq, <<0, slot + 1>>, <<0, slot + 2>>, s.nextInode)

\* Seeded fault: the header goes out with its payload.
PayloadAndHeader(s, slot) ==
    HeaderBlock(s, slot) @@ (<<0, slot + 1>> :> ImapBlock(s.imap)) @@ (<<0, slot + 2>> :> BitmapBlock(s.used))

Payload(s, slot) == (<<0, slot + 1>> :> ImapBlock(s.imap)) @@ (<<0, slot + 2>> :> BitmapBlock(s.used))

\* exposed: the slot being rewritten is the one a mount would select.
\* Without a writer there is nothing dirty and no checkpoint to write.
Sync ==
    /\ pc = "idle" /\ fs.seg # 0 /\ fs.ckptSeq <= MaxCkpt
    /\ disk' = Flushed(fs.dirty)
    /\ LET slot == SlotOf(fs.ckptSeq)
       IN  fs' = [fs EXCEPT !.dirty = Payload(fs, slot),
                            !.exposed = @ \/ PickLatest(disk') = HeaderIn(disk', slot)]
    /\ pc' = "payload"
    /\ UNCHANGED <<result, calls>>

FlushPayload ==
    /\ pc = "payload"
    /\ disk' = Flushed(fs.dirty)
    /\ fs' = [fs EXCEPT !.dirty = HeaderBlock(fs, SlotOf(fs.ckptSeq))]
    /\ pc' = "header"
    /\ UNCHANGED <<result, calls>>

FlushHeader ==
    /\ pc = "header"
    /\ disk' = Flushed(fs.dirty)
    /\ fs' = [fs EXCEPT !.dirty = << >>, !.ckptSeq = @ + 1, !.fresh = {}, !.exposed = FALSE]
    /\ pc' = "idle" /\ result' = "ok"
    /\ UNCHANGED calls

\* A flush of the payload or of the header fails: sync returns, the blocks stay dirty.
SyncFails ==
    /\ pc \in {"payload", "header"}
    /\ pc' = "idle" /\ result' = "io_error"
    /\ UNCHANGED <<disk, fs, calls>>

----------------------------------------------------------------------------
\* Power loss keeps any part of the dirty blocks.  Blocks that neither
\* checkpoint reaches are written again before they are read, so whether they
\* were kept makes no difference and they are dropped.

Reached(d) ==
    LET m == d[PickLatest(d).imap].map
    IN  IF ~Mountable(d) THEN {}
        ELSE Range(m) \cup UNION {Pointers(d[b]) : b \in {b \in Range(m) : d[b].k = "inode"}}

UsedBy(d) == IF Mountable(d) THEN d[PickLatest(d).bitmap].used ELSE {}

\* "slot": the slot that a mount would select is being rewritten;
\* "reuse": a segment of the surviving checkpoint has been allocated again.
PowerLoss ==
    /\ pc \notin {"off", "failed"}
    /\ \E kept \in SUBSET (DOMAIN fs.dirty \cap (MetaBlocks \cup Reached(disk) \cup Reached(Flushed(fs.dirty)))) :
           LET d == [b \in kept |-> fs.dirty[b]] @@ disk
           IN  /\ fs.exposed => "slot" \in LossWindows
               /\ fs.fresh \cap UsedBy(d) # {} => "reuse" \in LossWindows
               /\ disk' = d
    /\ fs' = Unmounted /\ pc' = "off"
    /\ UNCHANGED <<result, calls>>

Next ==
    \/ \E dir \in DOMAIN fs.imap, name \in Names, t \in Types :
           (t = "dir" => dir = Root) /\ Create(dir, name, t)      \* bound: two levels
    \/ \E id \in DOMAIN fs.imap, off \in WriteOffsets, len \in WriteLengths, v \in Values :
           Write(id, off, len, v)
    \/ \E id \in DOMAIN fs.imap, size \in Sizes : Truncate(id, size)
    \/ \E dir \in DOMAIN fs.imap, name \in Names : Unlink(dir, name)
    \/ Sync \/ FlushPayload \/ FlushHeader \/ SyncFails
    \/ PowerLoss \/ Mount

Spec == Init /\ [][Next]_vars
=============================================================================
