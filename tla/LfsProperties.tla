--------------------------- MODULE LfsProperties ---------------------------
(***************************************************************************)
(* What the log-structured file system guarantees: the structure of the log *)
(* under compaction, and that with power loss it implements DurableStore.    *)
(* tree, saved and pending are auxiliary variables: the tree callers see, at  *)
(* the last checkpoint, and at the one whose header is on its way.           *)
(***************************************************************************)
EXTENDS Lfs

VARIABLES tree, saved, pending

----------------------------------------------------------------------------
\* The tree of paths that a mounted file system shows.

Damaged == [type |-> "damaged", size |-> 0, units |-> ZeroUnits]

Read(d, s, b) == IF b \in DOMAIN s.dirty THEN s.dirty[b] ELSE d[b]
InodeIn(d, s, id) == IF id \in DOMAIN s.imap THEN Read(d, s, s.imap[id]) ELSE Blank

EntriesIn(d, s, id) ==
    LET inode == InodeIn(d, s, id)
        block == Read(d, s, inode.direct[0])
    IN  IF inode.k = "inode" /\ inode.type = "dir" /\ inode.size > 0 /\ block.k = "dir"
        THEN block.entries ELSE NoEntries

\* path -> inode number
Namespace(d, s) ==
    LET top == EntriesIn(d, s, Root)
        below == [n \in DOMAIN top |-> EntriesIn(d, s, top[n])]
    IN  [p \in {<<n>> : n \in DOMAIN top} \cup UNION {{<<n, m>> : m \in DOMAIN below[n]} : n \in DOMAIN top} |->
            IF Len(p) = 1 THEN top[p[1]] ELSE below[p[1]][p[2]]]

NodeIn(d, s, id) ==
    LET inode == InodeIn(d, s, id)
        unit(u) == LET b == inode.direct[u \div UnitsPerBlock]
                   IN  IF b = Nil \/ inode.type = "dir" THEN 0
                       ELSE IF Read(d, s, b).k = "data" THEN Read(d, s, b).units[u % UnitsPerBlock]
                       ELSE "damaged"
    IN  IF inode.k # "inode" THEN Damaged
        ELSE [type |-> inode.type, size |-> IF inode.type = "dir" THEN 0 ELSE inode.size,
              units |-> [u \in 0 .. MaxFileSize - 1 |-> unit(u)]]

TreeIn(d, s) == LET ns == Namespace(d, s) IN [p \in DOMAIN ns |-> NodeIn(d, s, ns[p])]

\* The tree callers see, or would see after the next mount of medium d.
Tree(d, s, at) ==
    IF at \notin {"off", "failed"} THEN TreeIn(d, s)
    ELSE IF Mountable(d) THEN TreeIn(d, Recovered(d))
    ELSE [p \in {<< >>} |-> Damaged]

\* The medium gets a new header; after a failed sync it may equal the one written again.
HeaderWritten ==
    \/ fs'.ckptSeq = fs.ckptSeq + 1 /\ pc = "header"
    \/ \E slot \in {SlotA, SlotB} : HeaderIn(disk', slot) # HeaderIn(disk, slot)

HInit == Init /\ tree = Tree(disk, fs, pc) /\ saved = tree /\ pending = tree
HNext ==
    /\ Next
    /\ tree' = Tree(disk', fs', pc')
    /\ saved' = IF HeaderWritten THEN pending ELSE saved
    /\ pending' = IF pc' = "off" THEN saved' ELSE IF pc = "payload" /\ pc' = "header" THEN tree ELSE pending
HSpec == HInit /\ [][HNext]_<<vars, tree, saved, pending>>

Store == INSTANCE DurableStore WITH
            MaxSize <- MaxFileSize,
            Paths <- {<<n>> : n \in Names} \cup {<<n, m>> : n \in Names, m \in Names}

\* The file system implements the durable store: every call (create, write,
\* truncate, unlink) takes effect as a whole or not at all, compaction and
\* checkpoints change nothing a caller can see, and the mount after a power loss
\* shows the last checkpoint committed or the one whose header was being written.
ImplementsStore == Store!Spec

----------------------------------------------------------------------------
Mounted == pc \notin {"off", "failed"}
\* Type invariant.
LfsTypeOK ==
    /\ DOMAIN disk = MetaBlocks \cup LogBlocks
    /\ pc \in {"idle", "payload", "header", "off", "failed"}
    /\ DOMAIN fs.imap \subseteq 0 .. MaxInodes - 1
    /\ fs.used \subseteq 0 .. SegCount - 1
    /\ fs.seg \in 0 .. SegCount - 1 /\ fs.pos \in 0 .. SegSize
    /\ DOMAIN fs.dirty \subseteq MetaBlocks \cup LogBlocks
    /\ fs.nextInode \in 0 .. MaxInodes /\ fs.ckptSeq \in 0 .. MaxCkpt + 1

\* Every inode and data block a caller can reach lies in an allocated segment,
\* at or below the log head when it is the head's segment, and no two of them
\* share a block, whatever compaction moved and freed in between.
LogSound ==
    Mounted =>
        LET inodes == DOMAIN fs.imap
            below(b) == b[1] \in fs.used \ {0} /\ b[2] > 0 /\ (b[1] = fs.seg => b[2] < fs.pos)
            refs == {<<id, i>> \in inodes \X (Direct \cup {DirectBlocks}) :
                        i = DirectBlocks \/ InodeAt(fs, id).direct[i] # Nil}
            block(r) == IF r[2] = DirectBlocks THEN fs.imap[r[1]] ELSE InodeAt(fs, r[1]).direct[r[2]]
        IN  /\ \A r \in refs : below(block(r))
            /\ \A q, r \in refs : block(q) = block(r) => q = r

\* The imap names the root and exactly the inodes that directory entries name,
\* each once: failed creates and interrupted unlinks leak nothing (#301, #623).
NoOrphans ==
    Mounted =>
        LET ns == Namespace(disk, fs)
        IN  /\ DOMAIN fs.imap = {Root} \cup Range(ns)
            /\ \A p, q \in DOMAIN ns : ns[p] = ns[q] => p = q

\* The compactor's recheck before it frees a segment (`segment_has_live_blocks`)
\* never trips: the two copy loops have moved everything the imap reaches.
RecheckNeverTrips == result # "corrupt"

\* Ordinary writes leave the compactor its reserve: the last free segment goes
\* only when a compaction takes it and then runs out of room.
ReserveKept ==
    [][FreeSegs(fs'.used) = {} /\ pc' # "off" => result' = "no_free_segments" \/ FreeSegs(fs.used) = {}]_vars

\* After power loss a mount finds a checkpoint, and it is the last one committed or
\* the one whose header was on its way (lfs_checkpoint.rs:188, #320).
LossShowsACheckpoint == [][pc' = "off" => tree' \in {saved, pending}]_<<vars, tree, saved, pending>>

Symmetry == Permutations(Names)
=============================================================================
