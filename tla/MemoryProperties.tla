-------------------------- MODULE MemoryProperties --------------------------
(***************************************************************************)
(* What the memory calls promise: a frame has one owner, nothing is lost   *)
(* except in the ways listed, the records of a process agree with its page *)
(* table, and execve either replaces the caller or leaves it alone.        *)
(***************************************************************************)
EXTENDS Memory

Mapped == UNION {UserFrames(table[p]) : p \in Procs}
InUse(t) == Cardinality({s \in Sections : t.l1[s] = "table"})
Holders == {p \in Procs : proc[p].holds}

\* The types of the variables; a process that holds no table of its own shows
\* the kernel's.
MemoryTypeOK ==
  /\ bitmap \subseteq Frames
  /\ bytes \in [Frames -> Contents]
  /\ tables \in 0..L2PoolSize
  /\ spaces \in 0..MaxSpaces
  /\ halted \in BOOLEAN
  /\ \A p \in Procs :
       /\ proc[p].state \in {"none", "live", "dead"}
       /\ proc[p].parent \in 0..MaxProcs
       /\ proc[p].brk \in HeapBase..MmapBase
       /\ Cardinality(proc[p].maps) <= MaxMappings
       /\ proc[p].state = "live" => proc[p].holds
       /\ ~proc[p].holds => table[p] = KernelTable

\* A frame some table maps for user code is allocated and is mapped nowhere
\* else, in that process or in another: fork's deep copy, the rollbacks of
\* mmap, brk and spawn_user and the teardown of exit and exec never leave a
\* page on a frame the allocator may hand out again (process.rs, #478, #502).
FramesExclusive ==
  /\ Mapped \subseteq bitmap
  /\ \A p, q \in Procs : \A va \in UserPages(table[p]), vb \in UserPages(table[q]) :
       table[p].at[va].phys = table[q].at[vb].phys => p = q /\ va = vb

\* A frame in the free pool holds nothing of an earlier owner (page.rs, #334),
\* although some frees zero the frame through a process's own table.
FreeFramesClean == \A f \in Frames \ bitmap : bytes[f] = "zero"

\* The mapping records and the break of a process describe its page table: the
\* user pages of the mmap window are those of its records, which do not
\* overlap, each with the record's protection, and every page below the break
\* is a writable page of its own.
RecordsMatchTable ==
  \A p \in Procs : Live(p) /\ ~halted =>
    LET maps == proc[p].maps
    IN  /\ UserPages(table[p]) \cap (MmapBase..(RamBase - 1))
             = UNION {Region(r.start, r.size) : r \in maps}
        /\ \A r \in maps :
             /\ \A va \in Region(r.start, r.size) :
                  table[p].at[va].attrs = prot_to_l2_flags(r.prot)
             /\ \A s \in maps \ {r} : ~Overlap(r.start, r.size, s)
        /\ \A va \in HeapBase..(proc[p].brk - 1) : table[p].at[va].attrs = "rw"

\* Only the wait for a process that a signal killed loses page tables: every
\* other call, failed or not, returns the L2 tables and the L1 table it does
\* not keep (mmu.rs, #330).
TablesBalance ==
  [][(\A p \in Holders : proc'[p].state # "none")
     => /\ tables' - tables = ReduceSet(LAMBDA p, n : n + InUse(table'[p]) - InUse(table[p]), Procs, 0)
        /\ spaces' - spaces = Cardinality(Holders') - Cardinality(Holders)]_vars

Lost == bitmap \ Mapped

\* The frames of a process whose PCB this step clears.
Forgotten == UNION {UserFrames(table[p]) : p \in {q \in Holders : proc'[q].state = "none"}}

\* Heap pages at or above the break, left by a growth that ran out of tables.
Stranded(p) ==
  {table[p].at[va].phys : va \in UserPages(table[p]) \cap (proc[p].brk..(MmapBase - 1))}

\* A stack that this step puts on the allocator's last frame, whose address is
\* the trampoline's.
StackOnTrampoline(p, f) ==
  /\ Trampoline \in Region(proc'[p].stack, proc'[p].pages)
  /\ f = table[p].at[Trampoline].phys \/ f \notin bitmap

\* An allocated frame that no table maps is out of reach for the rest of the
\* boot.  A step makes one only in these ways: the wait for a process a signal
\* killed, a brk over pages that an earlier failed brk left above the break, an
\* execve that kills its caller after loading an image it cannot map, a stack on
\* the trampoline's page, and a kernel that is parked in the middle of an
\* execve.  Every other path, each rollback included, accounts for every frame
\* (process.rs and syscall.rs, #225, #226, #282, #328, #478, #502).
LossesKnown ==
  [][\A f \in Lost' \ Lost :
       \/ halted'
       \/ f \in Forgotten
       \/ \E p \in Procs :
            \/ f \in Stranded(p)
            \/ Live(p) /\ proc'[p].state = "dead" /\ f \notin bitmap
            \/ StackOnTrampoline(p, f)]_vars

\* The frames an execve of p takes for its stack, then for n pages of image.
NewStack(p) == Region(Min(Runs(Machine(table[p]), StackPages)), StackPages)
NewImage(p, n) ==
  Region(Min(Runs(Allocate(Machine(table[p]), NewStack(p)), n)), n)

\* p's own table translates the pages of S to themselves.
Identity(p, S) == \A f \in S : table[p].at[f].phys = f

\* A refused execve returns to the image it came from.
Refused(p) ==
  ExecveRefused(p) =>
    /\ ~halted'
    /\ UNCHANGED <<bitmap, tables, table, proc>>
    /\ bytes' = Trap(p).bytes

\* An execve that returns has the new image's bytes in its image window, an
\* identity stack and nothing of the old mappings.
Replaced(p, image) ==
  Execve(p, image) /\ ~halted' /\ proc'[p].state = "live" =>
    /\ \A va \in Region(TextBase, image.size) : bytes'[table'[p].at[va].phys] = "text"
    /\ \A va \in Region(proc'[p].stack, StackPages) : table'[p].at[va].phys = va
    /\ UserPages(table'[p]) \cap (MmapBase..(RamBase - 1)) = {}

\* execve is all or nothing (#489, #502): when it refuses, the caller goes on
\* with every page as it was, and when it succeeds the caller runs the new image
\* alone.  sys_execve loads the image, and gives a refused stack back, through
\* the caller's own table, so this holds when that table maps the frames in
\* question to themselves, which the comment at the load takes for granted.
ExecveAllOrNothing ==
  [][\A p \in Procs : Live(p) /\ Runs(Machine(table[p]), StackPages) # {} =>
       /\ Identity(p, NewStack(p)) => Refused(p)
       /\ \A image \in Images :
            /\ Runs(Allocate(Machine(table[p]), NewStack(p)), image.size) # {}
            /\ Identity(p, NewImage(p, image.size))
            => Replaced(p, image)]_vars
=============================================================================
