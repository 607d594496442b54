------------------------------- MODULE Memory -------------------------------
(***************************************************************************)
(* The memory of user processes: the system calls and the kernel paths     *)
(* that take frames from the page allocator, map them and give them back   *)
(* (process.rs, syscall.rs, elf.rs).  A trap handler runs with interrupts  *)
(* masked on one core, so each call is one step; inside it the loops over  *)
(* pages are folds that stop at the first failure.                         *)
(*                                                                         *)
(* A process leaves the table in one of two ways.  An exit or a fault      *)
(* tears its memory down; a signal only marks it Dead, and its parent's    *)
(* wait then forgets whatever it still held.                               *)
(***************************************************************************)
EXTENDS AddressSpaces

CONSTANTS MaxProcs,      \* PCB slots for user processes (PID 0 is the kernel's)
          MaxSpaces,     \* user L1 tables in the pool (16)
          StackPages,    \* STACK_PAGES = EXEC_STACK_PAGES
          MaxMappings,   \* mapping records per process (32)
          ImageSizes,    \* pages of the images that are started
          Alignments,    \* whether an image's segments are page aligned
          Breaks,        \* program breaks that are asked for
          MapSizes,      \* lengths of anonymous mappings, in pages
          Prots,         \* protections that are asked for
          MaxCalls       \* bound: steps of a behaviour

ASSUME MemoryAssumption ==
  /\ {MaxProcs, MaxSpaces, StackPages, MaxMappings} \subseteq Nat \ {0}
  /\ MaxCalls \in Nat
  /\ ImageSizes \subseteq 1..SectionPages
  /\ Alignments \subseteq BOOLEAN
  /\ Breaks \subseteq HeapBase..MmapBase
  /\ MapSizes \subseteq Nat \ {0}
  /\ Prots \subseteq SUBSET {"r", "w", "x"}

VARIABLES bitmap,    \* frames the allocator has handed out
          bytes,     \* what each frame holds
          tables,    \* L2 tables in use
          spaces,    \* L1 tables in use
          proc,      \* the process table
          table,     \* the page table of each process that holds one
          halted,    \* the kernel took a data abort of its own
          calls      \* steps taken, for the bound MaxCalls

vars == <<bitmap, bytes, tables, spaces, proc, table, halted, calls>>

Procs == 1..MaxProcs

NoProc == [state |-> "none", parent |-> 0, holds |-> FALSE,
           brk |-> HeapBase, maps |-> {}, stack |-> 0, pages |-> 0]

Live(p) == proc[p].state = "live"

\* The memory a call works on, with p's table as its table t.
Machine(t) ==
  [bitmap |-> bitmap, bytes |-> bytes, tables |-> tables, t |-> t,
   ok |-> TRUE, oom |-> FALSE, done |-> {}, halted |-> FALSE]

\* The machine when p traps: its own code has left data in every page it may
\* write.
Trap(p) ==
  LET written == {table[p].at[va].phys : va \in {v \in Pages : table[p].at[v].attrs = "rw"}}
  IN  [Machine(table[p]) EXCEPT
         !.bytes = [f \in Frames |-> IF f \in written THEN "data" ELSE @[f]]]

Becomes(p, m) ==
  /\ bitmap' = m.bitmap
  /\ bytes' = m.bytes
  /\ tables' = m.tables
  /\ table' = [table EXCEPT ![p] = m.t]
  /\ halted' = m.halted

\* A kernel that took a data abort is parked for good, interrupts masked.
Begin == ~halted /\ calls < MaxCalls /\ calls' = calls + 1

Init ==
  /\ bitmap = {}
  /\ bytes = [f \in Frames |-> "zero"]
  /\ tables = 0
  /\ spaces = 0
  /\ proc = [p \in Procs |-> NoProc]
  /\ table = [p \in Procs |-> KernelTable]
  /\ halted = FALSE
  /\ calls = 0

-----------------------------------------------------------------------------
(* Mapping an image, a stack, a trampoline *)

Region(base, n) == base..(base + n - 1)

\* Segment permissions: the first page is text, the others are data.
ImageAttrs(i) == prot_to_l2_flags(IF i = 0 THEN {"r", "x"} ELSE {"r", "w"})

ShatterAndMap(m, va, f, attrs) ==
  LET n == shatter_section(m, va)
  IN  IF n.ok THEN map_page(n, va, f, attrs) ELSE n

map_user_image(m, image, phys) ==
  IF ~image.aligned THEN Fails(m)
  ELSE LET Turn(n, va) == IF n.ok THEN ShatterAndMap(n, va, phys + (va - TextBase), ImageAttrs(va - TextBase)) ELSE n
       IN  FoldLeft(Turn, m, Ascending(Region(TextBase, image.size)))

map_user_stack(m, base) ==
  LET Turn(n, va) == IF n.ok THEN ShatterAndMap(n, va, va, prot_to_l2_flags({"r", "w"})) ELSE n
  IN  FoldLeft(Turn, m, Ascending(Region(base, StackPages)))

\* The trampoline's frame is freed again when it cannot be mapped.
map_signal_trampoline(m) ==
  IF FreeFrames(m) = {} THEN Fails(m)
  ELSE LET f == Lowest(m)
           n == ShatterAndMap(Allocate(m, {f}), Trampoline, f, prot_to_l2_flags({"r", "x"}))
       IN  IF n.ok THEN [n EXCEPT !.bytes[f] = "text"] ELSE FreePages(n, {f})

-----------------------------------------------------------------------------
(* Starting a process: load_confined and spawn_user, on the kernel's table *)

FreeSlots == {p \in Procs : proc[p].state = "none"}

\* map_signal_trampoline, map_user_image and map_user_stack in that order.
Populate(m, image, phys, base) ==
  LET a == map_signal_trampoline(m)
      b == IF a.ok THEN map_user_image(a, image, phys) ELSE a
  IN  IF b.ok THEN map_user_stack(b, base) ELSE b

\* What spawn_user leaves of the memory when it fails at or after the image.
Spawned(m, image, phys) ==
  LET frames == Region(phys, image.size)
      bases  == Runs(m, StackPages)
  IN  IF FreeSlots = {} \/ spaces = MaxSpaces \/ bases = {}
      THEN Fails(FreePages(m, frames))
      ELSE LET base == Min(bases)
               held == Allocate(m, Region(base, StackPages))
               n    == Populate(held, image, phys, base)
               tramp == IF FreeFrames(held) = {} THEN {} ELSE {Lowest(held)}
           IN  IF n.ok THEN n
               ELSE FreeSpace(FreePages(n, frames \cup Region(base, StackPages) \cup tramp))

SpawnUser(image) ==
  LET m == Machine(KernelTable)
  IN  /\ Begin
      /\ Runs(m, image.size) # {}
      /\ LET phys == Min(Runs(m, image.size))
             frames == Region(phys, image.size)
             loaded == [Allocate(m, frames) EXCEPT
                          !.bytes = [f \in Frames |-> IF f \in frames THEN "text" ELSE @[f]]]
             n == Spawned(loaded, image, phys)
             p == Min(FreeSlots)
         IN  IF n.ok
             THEN /\ Becomes(p, n)
                  /\ spaces' = spaces + 1
                  /\ proc' = [proc EXCEPT ![p] =
                       [NoProc EXCEPT !.state = "live", !.holds = TRUE, !.pages = StackPages,
                                      !.stack = Min(Runs(loaded, StackPages))]]
             ELSE /\ bitmap' = n.bitmap
                  /\ bytes' = n.bytes
                  /\ tables' = n.tables
                  /\ UNCHANGED <<spaces, proc, table, halted>>

-----------------------------------------------------------------------------
(* fork: every user page of the parent is copied into a fresh frame *)

\* fork_copy_phase's closure for one page of the parent's table.
CopyPage(parent, m, va) ==
  IF ~m.ok \/ FreeFrames(m) = {} THEN Fails(m)
  ELSE LET f == Lowest(m)
           a == [Allocate(m, {f}) EXCEPT !.bytes[f] = m.bytes[parent.at[va].phys]]
           n == ShatterAndMap(a, va, f, parent.at[va].attrs)
       IN  IF n.ok THEN n ELSE FreePages(n, {f})

\* The child's own entries are the record of what a failed fork gives back.
fork_copy_phase(trap) ==
  LET Turn(n, va) == CopyPage(trap.t, n, va)
      m == FoldLeft(Turn, [trap EXCEPT !.t = KernelTable], Ascending(UserPages(trap.t)))
  IN  IF m.ok THEN m ELSE FreeSpace(FreePages(m, UserFrames(m.t)))

Fork(p) ==
  /\ Begin /\ Live(p)
  /\ FreeSlots # {}
  /\ spaces < MaxSpaces
  /\ LET m == fork_copy_phase(Trap(p))
         c == Min(FreeSlots)
     IN  IF m.ok
         THEN /\ Becomes(c, m)
              /\ spaces' = spaces + 1
              /\ proc' = [proc EXCEPT ![c] = [proc[p] EXCEPT !.parent = p]]
         ELSE /\ bitmap' = m.bitmap
              /\ bytes' = m.bytes
              /\ tables' = m.tables
              /\ UNCHANGED <<spaces, proc, table, halted>>

-----------------------------------------------------------------------------
(* brk, mmap, munmap, mprotect *)

\* Seeded fault: a frame that cannot be mapped is dropped.
MapFreshLeaky(m, va, attrs) ==
  IF FreeFrames(m) = {} THEN [Fails(m) EXCEPT !.oom = TRUE]
  ELSE LET f == Lowest(m)
           a == ensure_page_mappable(Allocate(m, {f}), va)
           n == IF a.ok THEN map_page(a, va, f, attrs) ELSE a
       IN  IF n.ok THEN [n EXCEPT !.done = @ \cup {va}] ELSE n

\* One turn of the loop that brk and mmap share: take a frame and map it.  A
\* frame that cannot be mapped is freed at once.
MapFresh(m, va, attrs) ==
  IF FreeFrames(m) = {} THEN [Fails(m) EXCEPT !.oom = TRUE]
  ELSE LET f == Lowest(m)
           a == ensure_page_mappable(Allocate(m, {f}), va)
           n == IF a.ok THEN map_page(a, va, f, attrs) ELSE a
       IN  IF n.ok THEN [n EXCEPT !.done = @ \cup {va}] ELSE FreePages(n, {f})

MapRegion(m, S, attrs) ==
  LET Turn(n, va) == IF n.ok THEN MapFresh(n, va, attrs) ELSE n
  IN  FoldLeft(Turn, m, Ascending(S))

\* Running out of frames undoes the call; running out of L2 tables keeps the
\* pages already mapped, above a break that does not move.
BrkGrow(m, from, to) ==
  LET n == MapRegion(m, from..(to - 1), prot_to_l2_flags({"r", "w"}))
  IN  IF n.oom THEN ReleaseAll(n, n.done) ELSE n

Brk(p, to) ==
  LET from == proc[p].brk
      m == IF to > from THEN BrkGrow(Trap(p), from, to)
           ELSE ReleaseAll(Trap(p), to..(from - 1))
  IN  /\ Begin /\ Live(p)
      /\ Becomes(p, m)
      /\ proc' = [proc EXCEPT ![p].brk = IF m.ok THEN to ELSE from]
      /\ UNCHANGED spaces

End(r) == r.start + r.size
Overlap(c, n, r) == c < End(r) /\ c + n > r.start

\* Seeded fault: the search looks at the mappings that start where it starts.
FitsAtStart(p, n) ==
  {c \in {MmapBase} \cup {End(r) : r \in proc[p].maps} :
     /\ c + n <= RamBase
     /\ \A r \in proc[p].maps : r.start # c}

\* The first-fit search tries the base of the window and then the ends of the
\* mappings in its way.
Fits(p, n) ==
  {c \in {MmapBase} \cup {End(r) : r \in proc[p].maps} :
     /\ c + n <= RamBase
     /\ \A r \in proc[p].maps : ~Overlap(c, n, r)}

\* Every failure, a full record table included, gives back all that was taken.
MmapRegion(m, p, start, n, prot) ==
  LET a == MapRegion(m, Region(start, n), prot_to_l2_flags(prot))
  IN  IF a.ok /\ Cardinality(proc[p].maps) < MaxMappings THEN a
      ELSE Fails(ReleaseAll(a, a.done))

Mmap(p, n, prot) ==
  /\ Begin /\ Live(p)
  /\ prot \cap {"r", "w"} # {} \/ "x" \notin prot
  /\ Fits(p, n) # {}
  /\ LET start == Min(Fits(p, n))
         m == MmapRegion(Trap(p), p, start, n, prot)
     IN  /\ Becomes(p, m)
         /\ proc' = [proc EXCEPT ![p].maps =
              IF m.ok THEN @ \cup {[start |-> start, size |-> n, prot |-> prot]} ELSE @]
  /\ UNCHANGED spaces

Munmap(p, r) ==
  /\ Begin /\ Live(p)
  /\ Becomes(p, ReleaseAll(Trap(p), Region(r.start, r.size)))
  /\ proc' = [proc EXCEPT ![p].maps = @ \ {r}]
  /\ UNCHANGED spaces

\* A page without an entry ends the loop with an error, the record unchanged.
UpdateProt(m, va, attrs) ==
  IF L2Frames(m.t, va) = {} THEN Fails(m) ELSE [m EXCEPT !.t.at[va].attrs = attrs]

Mprotect(p, r, prot) ==
  LET Turn(n, va) == IF n.ok THEN UpdateProt(n, va, prot_to_l2_flags(prot)) ELSE n
      m == FoldLeft(Turn, Trap(p), Ascending(Region(r.start, r.size)))
  IN  /\ Begin /\ Live(p)
      /\ prot \cap {"r", "w"} # {} \/ "x" \notin prot
      /\ Becomes(p, m)
      /\ proc' = [proc EXCEPT ![p].maps =
           IF m.ok THEN (@ \ {r}) \cup {[r EXCEPT !.prot = prot]} ELSE @]
      /\ UNCHANGED spaces

-----------------------------------------------------------------------------
(* exit, and execve *)

\* exit_cleanup: the table is the record of what the process owns.  A stack
\* the table does not back is freed by its own address.
Teardown(m, q) ==
  LET backed == m.t.l1[SectionOf(q.stack)] = "table" /\ l2_entry_is_user(m.t.at[q.stack])
      n == FreeSpace(FreePages(m, UserFrames(m.t)))
  IN  IF backed THEN n ELSE FreePages(n, Region(q.stack, q.pages))

Exited(q) == [q EXCEPT !.state = "dead", !.holds = FALSE, !.pages = 0]

\* The Exit call, and a fault of the process's own.
Exit(p) ==
  /\ Begin /\ Live(p)
  /\ Becomes(p, Teardown(Trap(p), proc[p]))
  /\ spaces' = spaces - 1
  /\ proc' = [proc EXCEPT ![p] = Exited(@)]

\* execve takes the new stack before anything else.  Bad arguments, a bad
\* image and no room for the image all give the stack back, with the caller's
\* table live.
ExecveRefused(p) ==
  LET m == Trap(p)
      stack == Region(Min(Runs(m, StackPages)), StackPages)
  IN  /\ Begin /\ Live(p)
      /\ Runs(m, StackPages) # {}
      /\ Becomes(p, FoldLeft(FreeThrough, Allocate(m, stack), Ascending(stack)))
      /\ UNCHANGED <<spaces, proc>>

\* Seeded fault: the copy stops one frame short.
LoadThroughShort(m, frames) ==
  LET Turn(n, f) == IF n.halted THEN n ELSE StoreThrough(n, f, "text")
  IN  FoldLeft(Turn, m, Ascending(frames \ {Max(frames)}))

\* load_confined writes the image through the caller's table.
LoadThrough(m, frames) ==
  LET Turn(n, f) == IF n.halted THEN n ELSE StoreThrough(n, f, "text")
  IN  FoldLeft(Turn, m, Ascending(frames))

\* The old image, stack, mappings and heap, under the kernel's table.
DropOld(m, q) ==
  LET text == UserPages(m.t) \cap PagesOf(SectionOf(TextBase))
      a == ResetSection(FreePages(m, {m.t.at[va].phys : va \in text}), SectionOf(TextBase))
      b == ReleaseAll(a, Region(q.stack, q.pages))
      c == ReleaseAll(b, UNION {Region(r.start, r.size) : r \in q.maps})
  IN  ReleaseAll(c, HeapBase..(q.brk - 1))

\* Both are mapped whatever becomes of the first.
MapNew(m, image, phys, base) ==
  LET a == map_user_image(m, image, phys)
      b == map_user_stack([a EXCEPT !.ok = TRUE], base)
  IN  [b EXCEPT !.ok = a.ok /\ b.ok]

\* The new stack of a process that is about to be killed, its table live.
DropStack(m, base) ==
  LET Turn(n, va) == IF n.halted THEN n ELSE FreeThrough(unmap_page(n, va), va)
  IN  FoldLeft(Turn, m, Ascending(Region(base, StackPages)))

exec_replace_context(m, q, image, phys, base) ==
  LET n == MapNew(DropOld(m, q), image, phys, base)
  IN  IF n.ok THEN n ELSE DropStack(n, base)

Execve(p, image) ==
  LET m == Trap(p)
      base == Min(Runs(m, StackPages))
      withStack == Allocate(m, Region(base, StackPages))
      phys == Min(Runs(withStack, image.size))
      frames == Region(phys, image.size)
      loaded == LoadThrough(Allocate(withStack, frames), frames)
      argv == [loaded EXCEPT !.bytes[base + StackPages - 1] = "data"]
      n == exec_replace_context(argv, proc[p], image, phys, base)
      q == [proc[p] EXCEPT !.brk = HeapBase, !.maps = {}]
  IN  /\ Begin /\ Live(p)
      /\ Runs(m, StackPages) # {}
      /\ Runs(withStack, image.size) # {}
      /\ IF loaded.halted
         THEN Becomes(p, loaded) /\ UNCHANGED <<spaces, proc>>
         ELSE IF n.ok
         THEN /\ Becomes(p, n)
              /\ proc' = [proc EXCEPT ![p] = [q EXCEPT !.stack = base, !.pages = StackPages]]
              /\ UNCHANGED spaces
         ELSE IF n.halted
         THEN Becomes(p, n) /\ proc' = [proc EXCEPT ![p] = q] /\ UNCHANGED spaces
         ELSE LET r == [q EXCEPT !.stack = 0, !.pages = 0]
              IN  /\ Becomes(p, Teardown(n, r))
                  /\ spaces' = spaces - 1
                  /\ proc' = [proc EXCEPT ![p] = Exited(r)]

-----------------------------------------------------------------------------
(* Death by signal, and the parent's wait *)

\* A signal marks its target Dead; its memory is not touched.
Kill(p) ==
  /\ Begin /\ Live(p)
  /\ proc' = [proc EXCEPT ![p].state = "dead"]
  /\ UNCHANGED <<bitmap, bytes, tables, spaces, table, halted>>

\* waitpid clears the PCB, the only record of a table the dead still holds.
Wait(p) ==
  /\ Begin
  /\ proc[p].state = "dead"
  /\ proc[p].parent \in {0} \cup {q \in Procs : Live(q)}
  /\ proc' = [proc EXCEPT ![p] = NoProc]
  /\ table' = [table EXCEPT ![p] = KernelTable]
  /\ UNCHANGED <<bitmap, bytes, tables, spaces, halted>>

Images == [size : ImageSizes, aligned : Alignments]

Next ==
  \/ \E image \in Images : SpawnUser(image)
  \/ \E p \in Procs :
       \/ Fork(p)
       \/ \E to \in Breaks : Brk(p, to)
       \/ \E n \in MapSizes, prot \in Prots : Mmap(p, n, prot)
       \/ \E r \in proc[p].maps : Munmap(p, r)
       \/ \E r \in proc[p].maps, prot \in Prots : Mprotect(p, r, prot)
       \/ ExecveRefused(p)
       \/ \E image \in Images : Execve(p, image)
       \/ Exit(p)
       \/ Kill(p)
       \/ Wait(p)

Spec == Init /\ [][Next]_vars
=============================================================================
