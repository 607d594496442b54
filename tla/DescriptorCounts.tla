-------------------------- MODULE DescriptorCounts --------------------------
(***************************************************************************)
(* What the operators of Descriptors do to reference counts: each of them,  *)
(* except the reap of a table, changes the references and the descriptors    *)
(* of every description by the same amount, and writes one process's table. *)
(***************************************************************************)
EXTENDS FileLemmas

\* The descriptors that name description i in the tables tab, and how many.
Names(tab, i) == {x \in Pids \X Fds : tab[x[1]][x[2]].ofd = i}
Count(tab, i) == Cardinality(Names(tab, i))

\* Entry e written at fd of p's table, and the references to i it adds.
Put(tab, p, fd, e) == [tab EXCEPT ![p][fd] = e]
Adds(e, i) == IF e.ofd = i THEN 1 ELSE 0

\* No count is below the number of descriptors: NoDanglingFd, of any file state.
Counted(f) == \A i \in Ofds : Count(f.tab, i) <= f.ofd[i].refs

\* Every count exceeds the number of descriptors by as much in g as in f.
Balanced(f, g) ==
    \A i \in Ofds : g.ofd[i].refs - Count(g.tab, i) = f.ofd[i].refs - Count(f.tab, i)

----------------------------------------------------------------------------
\* Counting.

LEMMA NamesFinite ==
    ASSUME NEW tab, NEW i
    PROVE  IsFiniteSet(Names(tab, i)) /\ Count(tab, i) \in Nat
<1>1. IsFiniteSet(Fds)
  BY DescriptorsAssumption, FS_Interval DEF Fds
<1>2. IsFiniteSet(Pids)
  BY MaxProcsAssumption, FS_Interval DEF Pids
<1>3. IsFiniteSet(Pids \X Fds)
  BY <1>1, <1>2, FS_Product
<1>4. Names(tab, i) \subseteq Pids \X Fds
  BY DEF Names
<1>5. IsFiniteSet(Names(tab, i))
  BY <1>3, <1>4, FS_Subset
<1>6. QED
  BY <1>5, FS_CardinalityType DEF Count

\* A description with no references has no descriptors.
LEMMA FreeUnnamed ==
    ASSUME NEW tab, NEW i, Count(tab, i) <= 0, NEW p \in Pids, NEW fd \in Fds
    PROVE  Count(tab, i) = 0 /\ tab[p][fd].ofd # i
<1>1. Count(tab, i) = 0
  BY NamesFinite
<1>2. Names(tab, i) = {}
  BY <1>1, NamesFinite, FS_EmptySet DEF Count
<1>3. <<p, fd>> \notin Names(tab, i)
  BY <1>2
<1>4. QED
  BY <1>1, <1>3 DEF Names

\* A table entry is overwritten: one descriptor more of what it names, one less
\* of what it named.
LEMMA EntryCount ==
    ASSUME NEW tab \in [Pids -> [Fds -> Entries]], NEW p \in Pids, NEW fd \in Fds, NEW e \in Entries, NEW i
    PROVE  Count(Put(tab, p, fd, e), i) = Count(tab, i) + Adds(e, i) - Adds(tab[p][fd], i)
<1> DEFINE new == Put(tab, p, fd, e)
           x == <<p, fd>>
           old == tab[p][fd]
<1>1. \A y \in Pids \X Fds : new[y[1]][y[2]] = IF y = x THEN e ELSE tab[y[1]][y[2]]
  <2>1. \A q \in Pids, g \in Fds : new[q][g] = IF q = p /\ g = fd THEN e ELSE tab[q][g]
    BY DEF Put
  <2>2. QED
    BY <2>1
<1>2. x \in Pids \X Fds /\ tab[x[1]][x[2]] = old
  OBVIOUS
<1> HIDE DEF new, x, old
<1>3. Names(new, i) = IF e.ofd = i THEN Names(tab, i) \cup {x} ELSE Names(tab, i) \ {x}
  BY <1>1, <1>2 DEF Names
<1>4. x \in Names(tab, i) <=> old.ofd = i
  BY <1>2 DEF Names
<1>5. IsFiniteSet(Names(tab, i)) /\ Count(tab, i) \in Nat
  BY NamesFinite
<1>6. ASSUME e.ofd = i PROVE Count(new, i) = Count(tab, i) + Adds(e, i) - Adds(old, i)
  <2>1. Names(new, i) = Names(tab, i) \cup {x}
    BY <1>3, <1>6
  <2>2. Count(new, i) = IF old.ofd = i THEN Count(tab, i) ELSE Count(tab, i) + 1
    BY <1>4, <1>5, <2>1, FS_AddElement, ZenonT(40) DEF Count
  <2>3. QED
    BY <1>5, <1>6, <2>2 DEF Adds
<1>7. ASSUME e.ofd # i PROVE Count(new, i) = Count(tab, i) + Adds(e, i) - Adds(old, i)
  <2>1. Names(new, i) = Names(tab, i) \ {x}
    BY <1>3, <1>7
  <2>2. Count(new, i) = IF old.ofd = i THEN Count(tab, i) - 1 ELSE Count(tab, i)
    BY <1>4, <1>5, <2>1, FS_RemoveElement, ZenonT(40) DEF Count
  <2>3. QED
    BY <1>5, <1>7, <2>2 DEF Adds
<1>8. QED
  BY <1>6, <1>7 DEF new, old

\* The descriptors process p itself has of i, as entries of the tables.
LEMMA OwnCount ==
    ASSUME NEW p, NEW S, S \subseteq Fds
    PROVE  IsFiniteSet({p} \X S) /\ Cardinality({p} \X S) = Cardinality(S)
<1>1. IsFiniteSet(Fds)
  BY DescriptorsAssumption, FS_Interval DEF Fds
<1>2. IsFiniteSet(S) /\ Cardinality(S) \in Nat
  BY <1>1, FS_Subset, FS_CardinalityType
<1>3. IsFiniteSet({p}) /\ Cardinality({p}) = 1
  BY FS_Singleton, ZenonT(40)
<1>4. QED
  BY <1>2, <1>3, FS_Product

----------------------------------------------------------------------------
\* Every operator of module Descriptors but DropTable moves counts and
\* descriptors together.

LEMMA CloseSetBalanced ==
    ASSUME NEW f \in FileStates, Counted(f), NEW p \in Pids, NEW gone
    PROVE  Balanced(f, CloseSet(f, p, gone))
<1> DEFINE g == CloseSet(f, p, gone)
           own(i) == Naming(f, p, i) \cap gone
           drops(i) == Cardinality(own(i))
<1>1. f.tab \in [Pids -> [Fds -> Entries]] /\ f.ofd \in [Ofds -> OpenFiles]
  BY DEF FileStates
<1>2. /\ g.tab = [f.tab EXCEPT ![p] = [fd \in Fds |-> IF fd \in gone THEN NoEntry ELSE @[fd]]]
      /\ g.ofd = [i \in Ofds |-> IF drops(i) >= f.ofd[i].refs THEN NoFile
                                 ELSE [f.ofd[i] EXCEPT !.refs = @ - drops(i)]]
  BY DEF CloseSet
<1> HIDE DEF g
<1> SUFFICES ASSUME NEW i \in Ofds
             PROVE  g.ofd[i].refs - Count(g.tab, i) = f.ofd[i].refs - Count(f.tab, i)
  BY DEF Balanced, g
<1>3. i # NoOfd /\ NoEntry.ofd = NoOfd
  BY DescriptorsAssumption, SMTT(30) DEF Ofds, NoOfd, NoEntry
<1>4. Names(g.tab, i) = Names(f.tab, i) \ ({p} \X own(i))
  <2>1. \A q \in Pids, fd \in Fds :
            g.tab[q][fd] = IF q = p /\ fd \in gone THEN NoEntry ELSE f.tab[q][fd]
    BY <1>1, <1>2
  <2>2. \A x \in Pids \X Fds : x \in {p} \X own(i) <=> /\ x[1] = p /\ x[2] \in gone
                                                       /\ f.tab[x[1]][x[2]].ofd = i
    BY DEF Naming
  <2>3. \A x \in Pids \X Fds : x[1] \in Pids /\ x[2] \in Fds
    OBVIOUS
  <2> HIDE DEF own
  <2>4. QED
    BY <1>3, <2>1, <2>2, <2>3 DEF Names
<1>5. {p} \X own(i) \subseteq Names(f.tab, i)
  BY DEF Names, Naming
<1>6. own(i) \subseteq Fds
  BY DEF Naming
<1>7. Cardinality({p} \X own(i)) = drops(i) /\ drops(i) \in Nat
  BY <1>6, OwnCount, NamingCard, ZenonT(40)
<1> HIDE DEF own
<1>8. Count(g.tab, i) = Count(f.tab, i) - drops(i) /\ Count(g.tab, i) \in Nat
  <2>1. Names(f.tab, i) \cap ({p} \X own(i)) = {p} \X own(i)
    BY <1>5
  <2>2. Cardinality(Names(f.tab, i) \ ({p} \X own(i)))
           = Cardinality(Names(f.tab, i)) - Cardinality(Names(f.tab, i) \cap ({p} \X own(i)))
    BY NamesFinite, FS_Difference, ZenonT(40)
  <2>3. QED
    BY <1>4, <1>7, <2>1, <2>2, NamesFinite, ZenonT(40) DEF Count
<1>9. Count(f.tab, i) <= f.ofd[i].refs /\ f.ofd[i].refs \in Nat /\ Count(f.tab, i) \in Nat
  BY <1>1, NamesFinite DEF Counted, OpenFiles
<1>10. g.ofd[i].refs = IF drops(i) >= f.ofd[i].refs THEN 0 ELSE f.ofd[i].refs - drops(i)
  <2>1. f.ofd[i] \in OpenFiles
    BY <1>1
  <2> HIDE DEF drops
  <2>2. QED
    BY <1>2, <2>1 DEF OpenFiles, NoFile
<1> HIDE DEF drops
<1>11. QED
  BY <1>7, <1>8, <1>9, <1>10

LEMMA ForkBalanced ==
    ASSUME NEW f \in FileStates, NEW p \in Pids, NEW child \in Pids, f.tab[child] = EmptyTable
    PROVE  Balanced(f, ForkTable(f, p, child))
<1> DEFINE g == ForkTable(f, p, child)
           own(i) == Naming(f, p, i)
           n(i) == Cardinality(own(i))
<1>1. f.tab \in [Pids -> [Fds -> Entries]] /\ f.ofd \in [Ofds -> OpenFiles]
  BY DEF FileStates
<1>2. /\ g.tab = [f.tab EXCEPT ![child] = f.tab[p]]
      /\ g.ofd = [i \in Ofds |-> [f.ofd[i] EXCEPT !.refs = @ + n(i)]]
  BY DEF ForkTable, FileStates
<1> HIDE DEF g
<1> SUFFICES ASSUME NEW i \in Ofds
             PROVE  g.ofd[i].refs - Count(g.tab, i) = f.ofd[i].refs - Count(f.tab, i)
  BY DEF Balanced, g
<1>3. \A fd \in Fds : f.tab[child][fd].ofd # i
  BY DescriptorsAssumption, SMTT(30) DEF EmptyTable, NoEntry, Ofds, NoOfd
<1>4. Names(g.tab, i) = Names(f.tab, i) \cup ({child} \X own(i))
  <2>1. \A q \in Pids, fd \in Fds : g.tab[q][fd] = IF q = child THEN f.tab[p][fd] ELSE f.tab[q][fd]
    BY <1>1, <1>2
  <2>2. \A x \in Pids \X Fds : x \in {child} \X own(i) <=> x[1] = child /\ f.tab[p][x[2]].ofd = i
    BY DEF Naming
  <2>3. \A x \in Pids \X Fds : x[1] \in Pids /\ x[2] \in Fds
    OBVIOUS
  <2>4. {child} \X own(i) \subseteq Pids \X Fds
    BY DEF Naming
  <2> HIDE DEF own
  <2>5. QED
    BY <1>3, <2>1, <2>2, <2>3, <2>4, SMTT(30) DEF Names
<1>5. Names(f.tab, i) \cap ({child} \X own(i)) = {}
  BY <1>3 DEF Names, Naming
<1>6. own(i) \subseteq Fds
  BY DEF Naming
<1>7. IsFiniteSet({child} \X own(i)) /\ Cardinality({child} \X own(i)) = n(i) /\ n(i) \in Nat
  BY <1>6, OwnCount, NamingCard, ZenonT(40)
<1> HIDE DEF own
<1>8. Count(g.tab, i) = Count(f.tab, i) + n(i)
  <2>1. Cardinality(Names(f.tab, i) \cap ({child} \X own(i))) = 0
    BY <1>5, FS_EmptySet
  <2>2. Cardinality(Names(f.tab, i) \cup ({child} \X own(i)))
           = Cardinality(Names(f.tab, i)) + Cardinality({child} \X own(i))
             - Cardinality(Names(f.tab, i) \cap ({child} \X own(i)))
    BY <1>7, NamesFinite, FS_Union
  <2>3. QED
    BY <1>4, <1>7, <2>1, <2>2, NamesFinite, SMTT(30) DEF Count
<1>9. f.ofd[i].refs \in Nat /\ Count(f.tab, i) \in Nat
  BY <1>1, NamesFinite DEF OpenFiles
<1>10. g.ofd[i].refs = f.ofd[i].refs + n(i)
  <2>1. f.ofd[i] \in OpenFiles
    BY <1>1
  <2> HIDE DEF n
  <2>2. QED
    BY <1>2, <2>1 DEF OpenFiles
<1> HIDE DEF n
<1>11. QED
  BY <1>7, <1>8, <1>9, <1>10

\* A system call that changes neither which descriptions the tables name nor the
\* counts.
LEMMA SameBalanced ==
    ASSUME NEW f, NEW g, \A p \in Pids, fd \in Fds : g.tab[p][fd].ofd = f.tab[p][fd].ofd,
           \A i \in Ofds : g.ofd[i].refs = f.ofd[i].refs
    PROVE  Balanced(f, g)
<1>1. \A x \in Pids \X Fds : g.tab[x[1]][x[2]].ofd = f.tab[x[1]][x[2]].ofd
  OBVIOUS
<1>2. \A i : Names(g.tab, i) = Names(f.tab, i)
  BY <1>1 DEF Names
<1>3. QED
  BY <1>2 DEF Balanced, Count

\* One entry of p's table is written, and the counts follow: what the entry
\* names gains a reference, what it named loses one.
EntryWritten(f, g, p, fd, e) ==
    /\ g.tab = Put(f.tab, p, fd, e)
    /\ \A i \in Ofds : g.ofd[i].refs = f.ofd[i].refs + Adds(e, i) - Adds(f.tab[p][fd], i)

LEMMA EntryBalanced ==
    ASSUME NEW f \in FileStates, NEW g, NEW p \in Pids, NEW fd \in Fds, NEW e \in Entries,
           EntryWritten(f, g, p, fd, e)
    PROVE  Balanced(f, g)
<1>1. f.tab \in [Pids -> [Fds -> Entries]] /\ f.ofd \in [Ofds -> OpenFiles]
  BY DEF FileStates
<1>2. SUFFICES ASSUME NEW i \in Ofds
               PROVE  g.ofd[i].refs - Count(g.tab, i) = f.ofd[i].refs - Count(f.tab, i)
  BY DEF Balanced
<1>3. Count(g.tab, i) = Count(f.tab, i) + Adds(e, i) - Adds(f.tab[p][fd], i)
  BY <1>1, EntryCount, SMTT(30) DEF EntryWritten
<1>4. f.ofd[i].refs \in Nat /\ Count(f.tab, i) \in Nat
  BY <1>1, NamesFinite DEF OpenFiles
<1>5. Adds(e, i) \in Nat /\ Adds(f.tab[p][fd], i) \in Nat
  BY DEF Adds
<1>6. QED
  BY <1>3, <1>4, <1>5 DEF EntryWritten

LEMMA OpenBalanced ==
    ASSUME NEW f \in FileStates, NEW p \in Pids, NEW flags \in FlagWords, NEW cloexec \in BOOLEAN,
           FreeOfds(f) # {}
    PROVE  Balanced(f, Open(f, p, flags, cloexec))
<1> DEFINE g == Open(f, p, flags, cloexec)
           i == Lowest(FreeOfds(f))
           fd == Lowest(FreeFds(f, p, 0))
           e == [ofd |-> i, cloexec |-> cloexec]
<1>1. f.tab \in [Pids -> [Fds -> Entries]] /\ f.ofd \in [Ofds -> OpenFiles]
  BY DEF FileStates
<1>2. CASE FreeFds(f, p, 0) = {}
  <2>1. g.tab = f.tab /\ g.ofd = f.ofd
    BY <1>2 DEF Open, FileStates
  <2> HIDE DEF g
  <2>2. Balanced(f, g)
    BY <2>1, SameBalanced
  <2>3. QED
    BY <2>2 DEF g
<1>3. CASE FreeFds(f, p, 0) # {}
  <2>1. i \in FreeOfds(f) /\ fd \in FreeFds(f, p, 0)
    BY <1>3, FreeSlotTypes, LowestIn
  <2>2. g.tab = [f.tab EXCEPT ![p][fd] = e] /\ g.ofd = [f.ofd EXCEPT ![i] = [flags |-> flags, refs |-> 1]]
    BY <1>3 DEF Open, FileStates
  <2> HIDE DEF g, i, fd
  <2>3. i \in Ofds /\ f.ofd[i].refs = 0 /\ fd \in Fds /\ f.tab[p][fd].ofd = NoOfd
    BY <2>1 DEF FreeOfds, FreeFds
  <2>4. e \in Entries /\ e.ofd = i
    BY <2>3 DEF Entries
  <2>5. \A j \in Ofds : j # NoOfd /\ f.ofd[j].refs \in Nat
    BY <1>1, DescriptorsAssumption, SMTT(30) DEF OpenFiles, Ofds, NoOfd
  <2>6. EntryWritten(f, g, p, fd, e)
    BY <1>1, <2>2, <2>3, <2>4, <2>5, SMTT(30) DEF EntryWritten, Put, Adds
  <2> HIDE DEF e
  <2>7. Balanced(f, g)
    BY <2>3, <2>4, <2>6, EntryBalanced
  <2>8. QED
    BY <2>7 DEF g
<1>4. QED
  BY <1>2, <1>3

LEMMA DupBalanced ==
    ASSUME NEW f \in FileStates, NEW p \in Pids, NEW fd \in Fds, NEW min,
           f.tab[p][fd].ofd # NoOfd, FreeFds(f, p, min) # {}
    PROVE  Balanced(f, Dup(f, p, fd, min))
<1> DEFINE g == Dup(f, p, fd, min)
           i == f.tab[p][fd].ofd
           new == Lowest(FreeFds(f, p, min))
           e == [ofd |-> i, cloexec |-> FALSE]
<1>1. f.tab \in [Pids -> [Fds -> Entries]] /\ f.ofd \in [Ofds -> OpenFiles]
  BY DEF FileStates
<1>2. i \in Ofds
  BY <1>1 DEF Entries
<1>3. new \in FreeFds(f, p, min)
  BY FreeSlotTypes, LowestIn
<1>4. g.tab = [f.tab EXCEPT ![p][new] = e] /\ g.ofd = [f.ofd EXCEPT ![i].refs = @ + 1]
  BY DEF Dup, FileStates
<1> HIDE DEF g, i, new
<1>5. new \in Fds /\ f.tab[p][new].ofd = NoOfd
  BY <1>3 DEF FreeFds
<1>6. e \in Entries /\ e.ofd = i
  BY <1>2 DEF Entries
<1>7. \A j \in Ofds : j # NoOfd /\ f.ofd[j].refs \in Nat
  BY <1>1, DescriptorsAssumption, SMTT(30) DEF OpenFiles, Ofds, NoOfd
<1>8. \A j \in Ofds : g.ofd[j].refs = IF j = i THEN f.ofd[j].refs + 1 ELSE f.ofd[j].refs
  BY <1>1, <1>2, <1>4, SMTT(30) DEF OpenFiles
<1> HIDE DEF e
<1>9. EntryWritten(f, g, p, new, e)
  BY <1>4, <1>5, <1>6, <1>7, <1>8, SMTT(30) DEF EntryWritten, Put, Adds
<1>10. Balanced(f, g)
  BY <1>5, <1>6, <1>9, EntryBalanced
<1>11. QED
  BY <1>10 DEF g

LEMMA Dup2Balanced ==
    ASSUME NEW f \in FileStates, Counted(f), NEW p \in Pids, NEW old \in Fds, NEW new \in Fds,
           f.tab[p][old].ofd # NoOfd
    PROVE  Balanced(f, Dup2(f, p, old, new))
<1> DEFINE h == Dup2(f, p, old, new)
           i == f.tab[p][old].ofd
           j == f.tab[p][new].ofd
           e == [ofd |-> i, cloexec |-> FALSE]
           g == [f EXCEPT !.tab[p][new] = e, !.ofd[i].refs = @ + 1]
           v == IF g.ofd[j].refs = 1 THEN NoFile ELSE [g.ofd[j] EXCEPT !.refs = @ - 1]
<1>1. f.tab \in [Pids -> [Fds -> Entries]] /\ f.ofd \in [Ofds -> OpenFiles]
  BY DEF FileStates
<1>2. i \in Ofds /\ j \in Ofds \cup {NoOfd} /\ f.tab[p][new].ofd = j
  BY <1>1 DEF Entries
<1>3. g.tab = Put(f.tab, p, new, e) /\ g.ofd = [f.ofd EXCEPT ![i].refs = @ + 1]
  BY DEF FileStates, Put
<1>4. /\ h.tab = g.tab
      /\ h.ofd = IF j = NoOfd \/ g.ofd[j].refs = 0 THEN g.ofd ELSE [g.ofd EXCEPT ![j] = v]
  <2> DEFINE w == IF g.ofd[j].refs = 1 THEN ClosePipeEnds(g.pipe, {f.ofd[j].flags}) ELSE g.pipe
  <2>1. h = IF j = NoOfd \/ g.ofd[j].refs = 0 THEN g ELSE [g EXCEPT !.ofd[j] = v, !.pipe = w]
    BY DEF Dup2
  <2>2. DOMAIN g = {"tab", "ofd", "pipe"}
    <3>1. DOMAIN f = {"tab", "ofd", "pipe"}
      BY DEF FileStates
    <3> HIDE DEF i, e
    <3>2. QED
      BY <3>1, Zenon
  <2> HIDE DEF h, g, v, w
  <2>3. [g EXCEPT !.ofd[j] = v, !.pipe = w].tab = g.tab
    BY <2>2
  <2>4. [g EXCEPT !.ofd[j] = v, !.pipe = w].ofd = [g.ofd EXCEPT ![j] = v]
    BY <2>2
  <2>5. QED
    BY <2>1, <2>3, <2>4
<1> HIDE DEF h, g, i, j
<1>5. e \in Entries /\ e.ofd = i
  BY <1>2 DEF Entries
<1>6. \A x \in Ofds : x # NoOfd /\ f.ofd[x].refs \in Nat
  BY <1>1, DescriptorsAssumption, SMTT(30) DEF OpenFiles, Ofds, NoOfd
<1>7. \A x \in Ofds : g.ofd[x] \in OpenFiles /\ g.ofd[x].refs = f.ofd[x].refs + Adds(e, x)
  BY <1>1, <1>2, <1>3, <1>5, <1>6, SMTT(30) DEF OpenFiles, Adds
<1>8. ASSUME j # NoOfd PROVE f.ofd[j].refs >= 1 /\ j \in Ofds
  <2>1. j \in Ofds /\ f.ofd[j].refs \in Nat
    BY <1>2, <1>6, <1>8
  <2>2. SUFFICES ASSUME f.ofd[j].refs = 0 PROVE FALSE
    BY <2>1
  <2>3. Count(f.tab, j) <= 0
    BY <2>1, <2>2 DEF Counted
  <2>4. QED
    BY <1>2, <2>3, FreeUnnamed
<1> HIDE DEF e
<1>9. \A x \in Ofds : h.ofd[x].refs = f.ofd[x].refs + Adds(e, x) - Adds(f.tab[p][new], x)
  <2>1. CASE j = NoOfd
    BY <1>2, <1>4, <1>6, <1>7, <2>1, SMTT(30) DEF Adds
  <2>2. CASE j # NoOfd
    <3>1. g.ofd[j] \in OpenFiles /\ g.ofd[j].refs >= 1 /\ j \in Ofds
      BY <1>6, <1>7, <1>8, <2>2, SMTT(30) DEF Adds
    <3>2. v.refs = g.ofd[j].refs - 1
      BY <3>1, SMTT(30) DEF OpenFiles, NoFile
    <3> HIDE DEF v
    <3>3. h.ofd = [g.ofd EXCEPT ![j] = v] /\ g.ofd \in [Ofds -> OpenFiles]
      <4>1. DOMAIN g.ofd = Ofds /\ g.ofd = [x \in Ofds |-> g.ofd[x]]
        BY <1>1, <1>3
      <4>2. QED
        BY <1>4, <1>7, <2>2, <3>1, <4>1, SMTT(30)
    <3>4. \A x \in Ofds : h.ofd[x].refs = IF x = j THEN g.ofd[x].refs - 1 ELSE g.ofd[x].refs
      BY <3>1, <3>2, <3>3
    <3>5. \A x \in Ofds : Adds(f.tab[p][new], x) = IF x = j THEN 1 ELSE 0
      BY <1>2, ZenonT(40) DEF Adds
    <3>6. QED
      BY <1>6, <1>7, <3>4, <3>5, SMTT(30) DEF Adds
  <2>3. QED
    BY <2>1, <2>2
<1>10. EntryWritten(f, h, p, new, e)
  BY <1>3, <1>4, <1>9 DEF EntryWritten
<1>11. Balanced(f, h)
  BY <1>5, <1>10, EntryBalanced
<1>12. QED
  BY <1>11 DEF h

LEMMA StatusBalanced ==
    ASSUME NEW f \in FileStates, NEW p \in Pids, NEW fd \in Fds, NEW c \in BOOLEAN, NEW arg,
           f.tab[p][fd].ofd # NoOfd
    PROVE  Balanced(f, SetFd(f, p, fd, c)) /\ Balanced(f, SetFl(f, p, fd, arg))
<1> DEFINE g == SetFd(f, p, fd, c)
           h == SetFl(f, p, fd, arg)
           i == f.tab[p][fd].ofd
<1>1. f.tab \in [Pids -> [Fds -> Entries]] /\ f.ofd \in [Ofds -> OpenFiles]
  BY DEF FileStates
<1>2. g.tab = [f.tab EXCEPT ![p][fd].cloexec = c] /\ g.ofd = f.ofd
  BY DEF SetFd, FileStates
<1>3. h.tab = f.tab /\ h.ofd = [f.ofd EXCEPT ![i].flags = SetStatus(@, arg)] /\ i \in Ofds
  BY <1>1, SMTT(30) DEF SetFl, FileStates, Entries
<1> HIDE DEF g, h, i
<1>4. \A q \in Pids, d \in Fds : g.tab[q][d].ofd = f.tab[q][d].ofd
  BY <1>1, <1>2, SMTT(30) DEF Entries
<1>5. \A x \in Ofds : h.ofd[x].refs = f.ofd[x].refs
  BY <1>1, <1>3 DEF OpenFiles
<1>6. Balanced(f, g)
  BY <1>2, <1>4, SameBalanced, ZenonT(40)
<1>7. Balanced(f, h)
  BY <1>3, <1>5, SameBalanced, ZenonT(40)
<1>8. QED
  BY <1>6, <1>7 DEF g, h

LEMMA TransferBalanced ==
    ASSUME NEW f \in FileStates, NEW k \in Pipes, NEW n \in Nat
    PROVE  Balanced(f, PipeTake(f, k, n)) /\ Balanced(f, PipePut(f, k, n))
<1> DEFINE g == PipeTake(f, k, n)
           h == PipePut(f, k, n)
<1>1. g.tab = f.tab /\ g.ofd = f.ofd /\ h.tab = f.tab /\ h.ofd = f.ofd
  BY DEF PipeTake, PipePut, FileStates
<1> HIDE DEF g, h
<1>2. Balanced(f, g) /\ Balanced(f, h)
  BY <1>1, SameBalanced
<1>3. QED
  BY <1>2 DEF g, h

LEMMA MakePipeBalanced ==
    ASSUME NEW f \in FileStates, NEW p \in Pids, CanPipe(f, p)
    PROVE  Balanced(f, MakePipe(f, p))
<1> DEFINE g == MakePipe(f, p)
           k == Lowest(FreePipes(f))
           i == Lowest(FreeOfds(f))
           j == Lowest(FreeOfds(f) \ {i})
           r == Lowest(FreeFds(f, p, 0))
           w == Lowest(FreeFds(f, p, 0) \ {r})
           read == [ofd |-> i, cloexec |-> FALSE]
           write == [ofd |-> j, cloexec |-> FALSE]
           ofd == [f.ofd EXCEPT ![i] = [flags |-> PipeFlags(k, 0), refs |-> 1]]
           m == [f EXCEPT !.tab = Put(f.tab, p, r, read), !.ofd = ofd]
<1>1. f.tab \in [Pids -> [Fds -> Entries]] /\ f.ofd \in [Ofds -> OpenFiles]
  BY DEF FileStates
<1>2. /\ g.tab = [f.tab EXCEPT ![p][r] = read, ![p][w] = write]
      /\ g.ofd = [f.ofd EXCEPT ![i] = [flags |-> PipeFlags(k, 0), refs |-> 1],
                               ![j] = [flags |-> PipeFlags(k, 1), refs |-> 1]]
  BY DEF MakePipe
<1>3. k \in Pipes
  BY FreeSlotTypes, LowestIn DEF CanPipe
<1>4. i \in FreeOfds(f) /\ j \in FreeOfds(f) \ {i}
  <2>1. Cardinality(FreeOfds(f)) >= 2 /\ MaxOfds \in Nat
    BY DescriptorsAssumption DEF CanPipe
  <2>2. FreeOfds(f) # {}
    BY <2>1, FS_EmptySet
  <2>3. i \in FreeOfds(f) /\ FreeOfds(f) \in SUBSET (0 .. MaxOfds - 1)
    BY <2>2, FreeSlotTypes, LowestIn DEF Ofds
  <2> HIDE DEF i
  <2>4. FreeOfds(f) \ {i} # {} /\ FreeOfds(f) \ {i} \in SUBSET Nat
    BY <2>1, <2>3, SecondSlot, FreeSlotTypes, ZenonT(40)
  <2>5. QED
    BY <2>3, <2>4, LowestIn
<1>5. r \in FreeFds(f, p, 0) /\ w \in FreeFds(f, p, 0) \ {r}
  <2>1. Cardinality(FreeFds(f, p, 0)) >= 2 /\ MaxFds \in Nat
    BY DescriptorsAssumption DEF CanPipe
  <2>2. FreeFds(f, p, 0) # {}
    BY <2>1, FS_EmptySet, SMTT(30)
  <2>3. r \in FreeFds(f, p, 0) /\ FreeFds(f, p, 0) \in SUBSET (0 .. MaxFds - 1)
    BY <2>2, FreeSlotTypes, LowestIn DEF Fds
  <2> HIDE DEF r
  <2>4. FreeFds(f, p, 0) \ {r} # {} /\ FreeFds(f, p, 0) \ {r} \in SUBSET Nat
    BY <2>1, <2>3, SecondSlot, FreeSlotTypes, ZenonT(40)
  <2>5. QED
    BY <2>3, <2>4, LowestIn
<1> HIDE DEF g, i, j, k, r, w
<1>6. /\ i \in Ofds /\ f.ofd[i].refs = 0 /\ j \in Ofds /\ j # i /\ f.ofd[j].refs = 0
      /\ r \in Fds /\ f.tab[p][r].ofd = NoOfd /\ w \in Fds /\ w # r /\ f.tab[p][w].ofd = NoOfd
  BY <1>4, <1>5 DEF FreeOfds, FreeFds
<1>7. read \in Entries /\ write \in Entries /\ read.ofd = i /\ write.ofd = j
  BY <1>6 DEF Entries
<1> HIDE DEF read, write
<1>8. \A x \in Ofds : x # NoOfd /\ f.ofd[x].refs \in Nat
  BY <1>1, DescriptorsAssumption, SMTT(30) DEF OpenFiles, Ofds, NoOfd
<1>9. m.tab = Put(f.tab, p, r, read) /\ m.ofd = ofd
  BY DEF FileStates
<1>10. \A x \in Ofds : m.ofd[x].refs = IF x = i THEN 1 ELSE f.ofd[x].refs
  BY <1>1, <1>6, <1>9
<1>11. m \in FileStates
  <2>1. Put(f.tab, p, r, read) \in [Pids -> [Fds -> Entries]]
    BY <1>1, <1>6, <1>7 DEF Put
  <2>2. PipeFlags(k, 0) \in FlagWords
    BY <1>3, PipeFlagsType, SMTT(30)
  <2>3. ofd \in [Ofds -> OpenFiles]
    BY <1>1, <1>6, <2>2, ZenonT(40) DEF OpenFiles
  <2> HIDE DEF ofd
  <2>4. QED
    BY <2>1, <2>3, ZenonT(40) DEF FileStates
<1> HIDE DEF m, ofd
<1>12. EntryWritten(f, m, p, r, read)
  BY <1>6, <1>7, <1>8, <1>9, <1>10, SMTT(30) DEF EntryWritten, Adds
<1>13. m.tab[p][w].ofd = NoOfd /\ g.tab = Put(m.tab, p, w, write)
  BY <1>1, <1>2, <1>6, <1>9, SMTT(30) DEF Put
<1>14. \A x \in Ofds : g.ofd[x].refs = IF x = j THEN 1 ELSE m.ofd[x].refs
  BY <1>1, <1>2, <1>6, <1>10, SMTT(30)
<1>15. EntryWritten(m, g, p, w, write)
  BY <1>6, <1>7, <1>8, <1>10, <1>13, <1>14, SMTT(30) DEF EntryWritten, Adds
<1>16. Balanced(f, m)
  BY <1>6, <1>7, <1>12, EntryBalanced, ZenonT(40)
<1>17. Balanced(m, g)
  BY <1>6, <1>7, <1>11, <1>15, EntryBalanced, ZenonT(40)
<1>18. QED
  BY <1>16, <1>17 DEF Balanced, g

----------------------------------------------------------------------------
\* Whose table the operators write.

OthersKept(f, g, p) == \A q \in Pids \ {p} : g.tab[q] = f.tab[q]

LEMMA CloseOthers ==
    ASSUME NEW f \in FileStates, NEW p \in Pids, NEW gone
    PROVE  OthersKept(f, CloseSet(f, p, gone), p)
BY DEF OthersKept, CloseSet, FileStates

LEMMA ForkOthers ==
    ASSUME NEW f \in FileStates, NEW p \in Pids, NEW child \in Pids
    PROVE  OthersKept(f, ForkTable(f, p, child), child)
BY DEF OthersKept, ForkTable, FileStates

LEMMA CallOthers ==
    ASSUME NEW f \in FileStates, NEW p \in Pids
    PROVE  /\ \A flags, c : OthersKept(f, Open(f, p, flags, c), p)
           /\ \A fd, min : OthersKept(f, Dup(f, p, fd, min), p)
           /\ \A old, new : OthersKept(f, Dup2(f, p, old, new), p)
           /\ \A fd, c : OthersKept(f, SetFd(f, p, fd, c), p)
           /\ \A fd, arg : OthersKept(f, SetFl(f, p, fd, arg), p)
           /\ OthersKept(f, MakePipe(f, p), p)
           /\ \A k, n : OthersKept(f, PipeTake(f, k, n), p) /\ OthersKept(f, PipePut(f, k, n), p)
<1>1. f.tab \in [Pids -> [Fds -> Entries]]
  BY DEF FileStates
<1>2. ASSUME NEW flags, NEW c PROVE OthersKept(f, Open(f, p, flags, c), p)
  BY <1>1 DEF OthersKept, Open, FileStates
<1>3. ASSUME NEW fd, NEW min PROVE OthersKept(f, Dup(f, p, fd, min), p)
  BY <1>1 DEF OthersKept, Dup, FileStates
<1>4. ASSUME NEW old, NEW new PROVE OthersKept(f, Dup2(f, p, old, new), p)
  BY <1>1 DEF OthersKept, Dup2, FileStates
<1>5. ASSUME NEW fd, NEW c PROVE OthersKept(f, SetFd(f, p, fd, c), p)
  BY <1>1 DEF OthersKept, SetFd, FileStates
<1>6. ASSUME NEW fd, NEW arg PROVE OthersKept(f, SetFl(f, p, fd, arg), p)
  BY <1>1 DEF OthersKept, SetFl, FileStates
<1>7. OthersKept(f, MakePipe(f, p), p)
  BY <1>1 DEF OthersKept, MakePipe, FileStates
<1>8. ASSUME NEW k, NEW n PROVE OthersKept(f, PipeTake(f, k, n), p) /\ OthersKept(f, PipePut(f, k, n), p)
  BY <1>1 DEF OthersKept, PipeTake, PipePut, FileStates
<1>9. QED
  BY <1>2, <1>3, <1>4, <1>5, <1>6, <1>7, <1>8
=============================================================================
