----------------------------- MODULE PageFrames -----------------------------
(***************************************************************************)
(* The physical page allocator (page.rs) and the page-number layout it     *)
(* shares with the address spaces.  Everything is counted in pages: the    *)
(* heap window, the mmap window, the RAM the allocator manages and the     *)
(* image window follow one another, each a whole number of sections.       *)
(*                                                                         *)
(* An operation works on a record m with (among others) the fields         *)
(*   bitmap   the allocated frames (PAGE_BITMAP; FREE_PAGES is the rest)   *)
(*   bytes    what each frame holds: "zero", "text" (image bytes), "data"  *)
(* The lock around every accessor makes each call one step.                *)
(***************************************************************************)
EXTENDS Integers, FiniteSets, FiniteSetsExt, Sequences, SequencesExt

CONSTANTS SectionPages,    \* pages one L1 section covers (256)
          HeapSections,    \* sections from DEFAULT_HEAP_BREAK to MMAP_BASE
          MmapSections,    \* sections from MMAP_BASE to the end of the window
          RamSections      \* sections the page allocator manages

ASSUME LayoutAssumption ==
  {SectionPages, HeapSections, MmapSections, RamSections} \subseteq Nat \ {0}

HeapBase == 0
MmapBase == HeapSections * SectionPages
RamBase  == MmapBase + MmapSections * SectionPages
TextBase == RamBase + RamSections * SectionPages

\* USER_TEXT_BASE starts the image window, exactly one section.
Pages  == 0..(TextBase + SectionPages - 1)
Frames == RamBase..(TextBase - 1)

\* SIGNAL_TRAMPOLINE_VA: the page directly below the image window.
Trampoline == TextBase - 1

Contents == {"zero", "text", "data"}

FreeFrames(m) == Frames \ m.bitmap

\* alloc_page hands out the lowest free frame.
Lowest(m) == Min(FreeFrames(m))

\* The bases alloc_contiguous(n) may return; it returns the lowest.
Runs(m, n) == {f \in Frames : f..(f + n - 1) \subseteq FreeFrames(m)}

Allocate(m, S) == [m EXCEPT !.bitmap = @ \cup S]

\* Seeded fault: the freed frame keeps its bytes.
FreePagesDirty(m, S) == [m EXCEPT !.bitmap = @ \ S]

\* try_free_page under the kernel's identity table: a frame that is not
\* allocated is refused, an allocated one is zeroed and then released.
FreePages(m, S) ==
  [m EXCEPT !.bitmap = @ \ S,
            !.bytes = [f \in Frames |-> IF f \in S \cap m.bitmap THEN "zero" ELSE @[f]]]
=============================================================================
