---------------------------- MODULE AddressSpaces ----------------------------
(***************************************************************************)
(* The two-level page tables of a process (mmu.rs).                        *)
(*                                                                         *)
(* A table t has the L1 descriptor of every section (t.l1) and the         *)
(* translation of every page (t.at).  A section descriptor translates its  *)
(* pages to themselves for the kernel only, which is also how a shattered  *)
(* section is filled, so shattering a section changes t.l1 and not t.at.   *)
(* L2 tables come from one pool shared by all processes; a table is        *)
(* referenced by one L1 descriptor only (no clone ever copies a user       *)
(* descriptor), so the pool is the number of tables in use, m.tables.      *)
(***************************************************************************)
EXTENDS PageFrames

CONSTANTS L2PoolSize    \* L2 page tables in the pool (64)

ASSUME PoolAssumption == L2PoolSize \in Nat

Sections == {p \div SectionPages : p \in Pages}
SectionOf(va) == va \div SectionPages
PagesOf(s) == (s * SectionPages)..(s * SectionPages + SectionPages - 1)

NoPage == -1
UserAttrs == {"none", "ro", "rx", "rw"}

\* A zeroed descriptor, and KERNEL_DEFAULT_PAGE at its identity address.
Fault == [phys |-> NoPage, attrs |-> "fault"]
Kernel(va) == [phys |-> va, attrs |-> "kernel"]

\* The kernel's L1, which clone_addr_space copies into a new process table.
KernelTable == [l1 |-> [s \in Sections |-> "section"], at |-> [va \in Pages |-> Kernel(va)]]

\* A writable page is never executable; a page that is neither readable nor
\* writable is tagged as the user's all the same.
prot_to_l2_flags(prot) ==
  CASE "w" \in prot -> "rw"
    [] "w" \notin prot /\ "r" \in prot /\ "x" \in prot -> "rx"
    [] "w" \notin prot /\ "r" \in prot /\ "x" \notin prot -> "ro"
    [] OTHER -> "none"

l2_entry_is_user(e) == e.attrs \in UserAttrs

\* What for_each_user_page visits, and the order it visits it in.
UserPages(t) == {va \in Pages : l2_entry_is_user(t.at[va])}
Ascending(S) == SelectSeq([i \in 1..Cardinality(Pages) |-> i - 1], LAMBDA va : va \in S)
UserFrames(t) == {t.at[va].phys : va \in UserPages(t)}

Fails(m) == [m EXCEPT !.ok = FALSE]

\* Seeded fault: the pool's size is not checked.
InstallTableUnchecked(m, va) ==
  [m EXCEPT !.tables = @ + 1, !.t.l1[SectionOf(va)] = "table"]

\* alloc_l2_table for the section of va.
InstallTable(m, va) ==
  IF m.tables < L2PoolSize
  THEN [m EXCEPT !.tables = @ + 1, !.t.l1[SectionOf(va)] = "table"]
  ELSE Fails(m)

shatter_section(m, va) ==
  CASE m.t.l1[SectionOf(va)] = "table" -> m
    [] m.t.l1[SectionOf(va)] = "section" -> InstallTable(m, va)
    [] OTHER -> Fails(m)

ensure_page_mappable(m, va) ==
  IF m.t.l1[SectionOf(va)] = "section" THEN shatter_section(m, va) ELSE m

\* An absent section gets an empty table, a section is refused, and the entry
\* is written whatever it held before.
map_page(m, va, f, attrs) ==
  LET n == IF m.t.l1[SectionOf(va)] = "absent" THEN InstallTable(m, va) ELSE m
  IN  IF ~n.ok \/ n.t.l1[SectionOf(va)] = "section"
      THEN Fails(n)
      ELSE [n EXCEPT !.t.at[va] = [phys |-> f, attrs |-> attrs]]

\* A table with no entry left goes back to the pool and its section is absent.
unmap_page(m, va) ==
  LET s == SectionOf(va)
      n == [m EXCEPT !.t.at[va] = Fault]
  IN  IF m.t.l1[s] # "table" THEN m
      ELSE IF \A p \in PagesOf(s) : n.t.at[p] = Fault
           THEN [n EXCEPT !.t.l1[s] = "absent", !.tables = @ - 1]
           ELSE n

\* read_l2_phys: the frame of a page that has an L2 entry.
L2Frames(t, va) ==
  IF t.l1[SectionOf(va)] = "table" THEN {t.at[va].phys} \ {NoPage} ELSE {}

\* Seeded fault: the frame is freed and the entry stays.
ReleaseMapped(m, va) == FreePages(m, L2Frames(m.t, va))

\* read_l2_phys, unmap_page, then free_page under the kernel's L1.
Release(m, va) == FreePages(unmap_page(m, va), L2Frames(m.t, va))
ReleaseAll(m, S) == FoldLeft(Release, m, Ascending(S))

\* reset_shattered_section
ResetSection(m, s) ==
  IF m.t.l1[s] # "table" THEN m
  ELSE [m EXCEPT !.t.at = [va \in Pages |-> IF va \in PagesOf(s) THEN Kernel(va) ELSE @[va]]]

\* Seeded fault: the L1 table is freed and its L2 tables are not.
FreeSpaceOnly(m) == [m EXCEPT !.t = KernelTable]

\* free_addr_space: every L2 table still referenced goes back to the pool.
FreeSpace(m) ==
  [m EXCEPT !.tables = @ - Cardinality({s \in Sections : m.t.l1[s] = "table"}),
            !.t = KernelTable]

\* A store to page va while t is the live table: it reaches the frame the
\* entry names; a page without a translation is a data abort in the kernel.
StoreThrough(m, va, what) ==
  IF m.t.at[va].phys = NoPage
  THEN [m EXCEPT !.halted = TRUE]
  ELSE [m EXCEPT !.bytes[m.t.at[va].phys] = what]

\* free_page with the process's own table live: the zeroing goes through it.
FreeThrough(m, va) ==
  CASE m.halted \/ va \notin m.bitmap -> m
    [] OTHER -> LET n == StoreThrough(m, va, "zero")
                IN  IF n.halted THEN n ELSE [n EXCEPT !.bitmap = @ \ {va}]
=============================================================================
