----------------------------- MODULE FileLemmas -----------------------------
(***************************************************************************)
(* Every operator of module Descriptors takes a well-formed file state to a *)
(* well-formed file state.                                                  *)
(***************************************************************************)
EXTENDS KernelLemmas, FiniteSetTheorems

\* A word whose bit 10 is set is large enough to clear it.
LEMMA AppendBitValue ==
    ASSUME NEW w \in FlagWords
    PROVE  /\ AppendBit(w) = 0 \/ AppendBit(w) = 1
           /\ AppendBit(w) = 1 => w >= 1024
<1>1. w \in Nat /\ w \div 1024 \in Int
  BY DEF FlagWords
<1>2. AppendBit(w) = 0 \/ AppendBit(w) = 1
  BY <1>1 DEF AppendBit
<1>3. ASSUME w < 1024 PROVE AppendBit(w) = 0
  <2>1. w \div 1024 = 0
    BY <1>1, <1>3
  <2>2. QED
    BY <2>1 DEF AppendBit
<1>4. QED
  BY <1>1, <1>2, <1>3

\* Replacing O_APPEND in a flags word makes a flags word.
LEMMA SetStatusType ==
    ASSUME NEW flags \in FlagWords, NEW arg \in FlagWords
    PROVE  SetStatus(flags, arg) \in FlagWords
<1> DEFINE a == AppendBit(flags)
           b == AppendBit(arg)
<1>1. /\ a = 0 \/ a = 1
      /\ b = 0 \/ b = 1
      /\ a = 1 => flags >= 1024
  BY AppendBitValue
<1>2. SetStatus(flags, arg) = flags - 1024 * a + 1024 * b
  BY DEF SetStatus
<1> HIDE DEF a, b
<1>3. QED
  BY <1>1, <1>2 DEF FlagWords

LEMMA PipeFlagsType ==
    ASSUME NEW k \in Pipes, NEW end \in 0 .. 1
    PROVE  PipeFlags(k, end) \in FlagWords
<1>1. MaxPipes \in Nat /\ MaxPipes <= 8
  BY DescriptorsAssumption
<1>2. QED
  BY <1>1 DEF PipeFlags, FlagWords, Pipes

\* A set of two or more free slots has a second one.
LEMMA SecondSlot ==
    ASSUME NEW n \in Nat, NEW S \in SUBSET (0 .. n - 1), NEW x \in S, Cardinality(S) >= 2
    PROVE  S \ {x} # {}
<1>1. IsFiniteSet(0 .. n - 1)
  BY FS_Interval
<1>2. SUFFICES ASSUME S = {x} PROVE FALSE
  OBVIOUS
<1>3. Cardinality({x}) = 1
  BY FS_Singleton
<1>4. QED
  BY <1>2, <1>3

LEMMA FileStateParts ==
    ASSUME NEW f
    PROVE  f \in FileStates <=> /\ f = [tab |-> f.tab, ofd |-> f.ofd, pipe |-> f.pipe]
                                /\ f.tab \in [Pids -> [Fds -> Entries]]
                                /\ f.ofd \in [Ofds -> OpenFiles]
                                /\ f.pipe \in [Pipes -> PipeBuffers]
BY DEF FileStates

LEMMA EmptyParts ==
    /\ NoEntry \in Entries /\ NoFile \in OpenFiles /\ NoPipe \in PipeBuffers
    /\ EmptyTable \in [Fds -> Entries]
BY DescriptorsAssumption DEF NoEntry, NoFile, NoPipe, EmptyTable, Entries, OpenFiles, PipeBuffers, FlagWords

LEMMA NoFilesType == NoFiles \in FileStates
BY EmptyParts DEF NoFiles, FileStates

\* A process holds finitely many descriptors of a description.
LEMMA NamingCard ==
    ASSUME NEW f, NEW p, NEW i, NEW gone
    PROVE  Cardinality(Naming(f, p, i) \cap gone) \in Nat /\ Cardinality(Naming(f, p, i)) \in Nat
<1>1. IsFiniteSet(Fds)
  BY DescriptorsAssumption, FS_Interval DEF Fds
<1>2. Naming(f, p, i) \subseteq Fds
  BY DEF Naming
<1>3. IsFiniteSet(Naming(f, p, i)) /\ IsFiniteSet(Naming(f, p, i) \cap gone)
  BY <1>1, <1>2, FS_Subset, ZenonT(40)
<1>4. QED
  BY <1>3, FS_CardinalityType

LEMMA ClosePipeEndsType ==
    ASSUME NEW pipe \in [Pipes -> PipeBuffers], NEW ends
    PROVE  ClosePipeEnds(pipe, ends) \in [Pipes -> PipeBuffers]
BY EmptyParts, ZenonT(40) DEF ClosePipeEnds, PipeBuffers

LEMMA CloseSetType ==
    ASSUME NEW f \in FileStates, NEW p \in Pids, NEW gone
    PROVE  CloseSet(f, p, gone) \in FileStates
<1> DEFINE drops(i) == Cardinality(Naming(f, p, i) \cap gone)
           dead == {i \in Ofds : f.ofd[i].refs > 0 /\ drops(i) >= f.ofd[i].refs}
           tab == [f.tab EXCEPT ![p] = [fd \in Fds |-> IF fd \in gone THEN NoEntry ELSE @[fd]]]
           ofd == [i \in Ofds |-> IF drops(i) >= f.ofd[i].refs THEN NoFile
                                  ELSE [f.ofd[i] EXCEPT !.refs = @ - drops(i)]]
           pipe == ClosePipeEnds(f.pipe, {f.ofd[i].flags : i \in dead})
<1>1. \A i : drops(i) \in Nat
  BY NamingCard
<1> HIDE DEF drops
<1>2. f.tab \in [Pids -> [Fds -> Entries]] /\ f.ofd \in [Ofds -> OpenFiles] /\ f.pipe \in [Pipes -> PipeBuffers]
  BY DEF FileStates
<1>3. tab \in [Pids -> [Fds -> Entries]]
  BY <1>2, EmptyParts
<1>4. ofd \in [Ofds -> OpenFiles]
  BY <1>1, <1>2, EmptyParts DEF OpenFiles
<1>5. pipe \in [Pipes -> PipeBuffers]
  BY <1>2, ClosePipeEndsType
<1>6. CloseSet(f, p, gone) = [tab |-> tab, ofd |-> ofd, pipe |-> pipe]
  BY DEF CloseSet, drops
<1> HIDE DEF tab, ofd, pipe
<1>7. QED
  BY <1>3, <1>4, <1>5, <1>6 DEF FileStates

LEMMA CloseTypes ==
    ASSUME NEW f \in FileStates, NEW p \in Pids
    PROVE  CloseAll(f, p) \in FileStates /\ CloseOnExec(f, p) \in FileStates
BY CloseSetType DEF CloseAll, CloseOnExec

LEMMA ForkTableType ==
    ASSUME NEW f \in FileStates, NEW p \in Pids, NEW child \in Pids
    PROVE  ForkTable(f, p, child) \in FileStates
<1> DEFINE n(i) == Cardinality(Naming(f, p, i))
           tab == [f.tab EXCEPT ![child] = f.tab[p]]
           ofd == [i \in Ofds |-> [f.ofd[i] EXCEPT !.refs = @ + n(i)]]
<1>1. \A i : n(i) \in Nat
  BY NamingCard
<1>2. ForkTable(f, p, child) = [f EXCEPT !.tab = tab, !.ofd = ofd]
  BY DEF ForkTable
<1> HIDE DEF n
<1>3. f.tab \in [Pids -> [Fds -> Entries]] /\ f.ofd \in [Ofds -> OpenFiles]
  BY DEF FileStates
<1>4. tab \in [Pids -> [Fds -> Entries]]
  BY <1>3
<1>5. ofd \in [Ofds -> OpenFiles]
  BY <1>1, <1>3 DEF OpenFiles
<1> HIDE DEF tab, ofd
<1>6. [f EXCEPT !.tab = tab, !.ofd = ofd] \in FileStates
  BY <1>4, <1>5, ZenonT(40) DEF FileStates
<1>7. QED
  BY <1>2, <1>6

LEMMA DropTableType ==
    ASSUME NEW f \in FileStates, NEW p \in Pids
    PROVE  DropTable(f, p) \in FileStates
BY EmptyParts, ZenonT(40) DEF DropTable, FileStates

----------------------------------------------------------------------------
\* The system calls.

LEMMA FreeSlotTypes ==
    ASSUME NEW f, NEW p, NEW min
    PROVE  /\ FreeFds(f, p, min) \in SUBSET Nat /\ FreeFds(f, p, min) \subseteq Fds
           /\ FreeOfds(f) \in SUBSET Nat /\ FreeOfds(f) \subseteq Ofds
           /\ FreePipes(f) \in SUBSET Nat /\ FreePipes(f) \subseteq Pipes
BY DescriptorsAssumption DEF FreeFds, FreeOfds, FreePipes, Fds, Ofds, Pipes

LEMMA OpenType ==
    ASSUME NEW f \in FileStates, NEW p \in Pids, NEW flags \in FlagWords, NEW cloexec \in BOOLEAN,
           FreeOfds(f) # {}
    PROVE  Open(f, p, flags, cloexec) \in FileStates
<1> DEFINE i == Lowest(FreeOfds(f))
           fd == Lowest(FreeFds(f, p, 0))
<1>1. i \in Ofds
  BY FreeSlotTypes, LowestIn
<1>2. f.tab \in [Pids -> [Fds -> Entries]] /\ f.ofd \in [Ofds -> OpenFiles] /\ f.pipe \in [Pipes -> PipeBuffers]
  BY DEF FileStates
<1>3. CASE FreeFds(f, p, 0) = {}
  <2>1. Open(f, p, flags, cloexec) = [f EXCEPT !.pipe = ClosePipeEnds(f.pipe, {flags})]
    BY <1>3 DEF Open
  <2>2. ClosePipeEnds(f.pipe, {flags}) \in [Pipes -> PipeBuffers]
    BY <1>2, ClosePipeEndsType
  <2>3. QED
    BY <2>1, <2>2, ZenonT(40) DEF FileStates
<1>4. CASE FreeFds(f, p, 0) # {}
  <2> DEFINE tab == [f.tab EXCEPT ![p][fd] = [ofd |-> i, cloexec |-> cloexec]]
             ofd == [f.ofd EXCEPT ![i] = [flags |-> flags, refs |-> 1]]
  <2>1. fd \in Fds
    BY <1>4, FreeSlotTypes, LowestIn
  <2>2. Open(f, p, flags, cloexec) = [f EXCEPT !.ofd = ofd, !.tab = tab]
    BY <1>4 DEF Open
  <2> HIDE DEF i, fd
  <2>3. tab \in [Pids -> [Fds -> Entries]]
    BY <1>1, <1>2, <2>1 DEF Entries
  <2>4. ofd \in [Ofds -> OpenFiles]
    BY <1>1, <1>2 DEF OpenFiles
  <2> HIDE DEF tab, ofd
  <2>5. [f EXCEPT !.ofd = ofd, !.tab = tab] \in FileStates
    BY <2>3, <2>4, ZenonT(40) DEF FileStates
  <2>6. QED
    BY <2>2, <2>5
<1>5. QED
  BY <1>3, <1>4

LEMMA DupType ==
    ASSUME NEW f \in FileStates, NEW p \in Pids, NEW fd \in Fds, NEW min,
           f.tab[p][fd].ofd # NoOfd, FreeFds(f, p, min) # {}
    PROVE  Dup(f, p, fd, min) \in FileStates
<1> DEFINE i == f.tab[p][fd].ofd
           new == Lowest(FreeFds(f, p, min))
           tab == [f.tab EXCEPT ![p][new] = [ofd |-> i, cloexec |-> FALSE]]
           ofd == [f.ofd EXCEPT ![i].refs = @ + 1]
<1>1. f.tab \in [Pids -> [Fds -> Entries]] /\ f.ofd \in [Ofds -> OpenFiles]
  BY DEF FileStates
<1>2. i \in Ofds
  BY <1>1 DEF Entries
<1>3. new \in Fds
  BY FreeSlotTypes, LowestIn
<1>4. Dup(f, p, fd, min) = [f EXCEPT !.tab = tab, !.ofd = ofd]
  BY DEF Dup
<1> HIDE DEF i, new
<1>5. tab \in [Pids -> [Fds -> Entries]]
  BY <1>1, <1>2, <1>3 DEF Entries
<1>6. ofd \in [Ofds -> OpenFiles]
  BY <1>1, <1>2 DEF OpenFiles
<1> HIDE DEF tab, ofd
<1>7. [f EXCEPT !.tab = tab, !.ofd = ofd] \in FileStates
  BY <1>5, <1>6, ZenonT(40) DEF FileStates
<1>8. QED
  BY <1>4, <1>7

LEMMA Dup2Type ==
    ASSUME NEW f \in FileStates, NEW p \in Pids, NEW old \in Fds, NEW new \in Fds,
           f.tab[p][old].ofd # NoOfd
    PROVE  Dup2(f, p, old, new) \in FileStates
<1> DEFINE i == f.tab[p][old].ofd
           j == f.tab[p][new].ofd
           g == [f EXCEPT !.tab[p][new] = [ofd |-> i, cloexec |-> FALSE], !.ofd[i].refs = @ + 1]
           tab == [f.tab EXCEPT ![p][new] = [ofd |-> i, cloexec |-> FALSE]]
           ofd == [f.ofd EXCEPT ![i].refs = @ + 1]
           last == g.ofd[j].refs = 1
           v == IF last THEN NoFile ELSE [g.ofd[j] EXCEPT !.refs = @ - 1]
           ofd2 == [g.ofd EXCEPT ![j] = v]
           pipe2 == IF last THEN ClosePipeEnds(g.pipe, {f.ofd[j].flags}) ELSE g.pipe
<1>1. f.tab \in [Pids -> [Fds -> Entries]] /\ f.ofd \in [Ofds -> OpenFiles] /\ f.pipe \in [Pipes -> PipeBuffers]
  BY DEF FileStates
<1>2. i \in Ofds /\ j \in Ofds \cup {NoOfd}
  BY <1>1 DEF Entries
<1>3. Dup2(f, p, old, new) = IF j = NoOfd \/ g.ofd[j].refs = 0 THEN g
                             ELSE [g EXCEPT !.ofd = ofd2, !.pipe = pipe2]
  BY DEF Dup2
<1>4. g = [f EXCEPT !.tab = tab, !.ofd = ofd]
  OBVIOUS
<1> HIDE DEF i, j, g
<1>5. tab \in [Pids -> [Fds -> Entries]]
  BY <1>1, <1>2 DEF Entries
<1>6. ofd \in [Ofds -> OpenFiles]
  BY <1>1, <1>2 DEF OpenFiles
<1> HIDE DEF tab, ofd
<1>7. g \in FileStates /\ g.ofd \in [Ofds -> OpenFiles] /\ g.pipe \in [Pipes -> PipeBuffers]
  BY <1>4, <1>5, <1>6, ZenonT(40) DEF FileStates
<1>8. ASSUME j # NoOfd, g.ofd[j].refs # 0 PROVE ofd2 \in [Ofds -> OpenFiles]
  <2>1. j \in Ofds /\ g.ofd[j] \in OpenFiles
    BY <1>2, <1>7, <1>8
  <2>2. [g.ofd[j] EXCEPT !.refs = @ - 1] \in OpenFiles
    BY <2>1, <1>8 DEF OpenFiles
  <2>3. v \in OpenFiles
    BY <2>2, EmptyParts
  <2> HIDE DEF v
  <2>4. QED
    BY <2>1, <2>3, <1>7
<1>9. pipe2 \in [Pipes -> PipeBuffers]
  BY <1>7, ClosePipeEndsType
<1> HIDE DEF ofd2, pipe2
<1>10. ASSUME j # NoOfd, g.ofd[j].refs # 0 PROVE [g EXCEPT !.ofd = ofd2, !.pipe = pipe2] \in FileStates
  BY <1>7, <1>8, <1>9, <1>10, ZenonT(40) DEF FileStates
<1>11. QED
  BY <1>3, <1>7, <1>10

LEMMA SetFdType ==
    ASSUME NEW f \in FileStates, NEW p \in Pids, NEW fd \in Fds, NEW cloexec \in BOOLEAN
    PROVE  SetFd(f, p, fd, cloexec) \in FileStates
<1> DEFINE tab == [f.tab EXCEPT ![p][fd].cloexec = cloexec]
<1>1. f.tab \in [Pids -> [Fds -> Entries]]
  BY DEF FileStates
<1>2. tab \in [Pids -> [Fds -> Entries]]
  BY <1>1 DEF Entries
<1>3. SetFd(f, p, fd, cloexec) = [f EXCEPT !.tab = tab]
  BY DEF SetFd
<1> HIDE DEF tab
<1>4. QED
  BY <1>2, <1>3 DEF FileStates

LEMMA SetFlType ==
    ASSUME NEW f \in FileStates, NEW p \in Pids, NEW fd \in Fds, NEW arg \in FlagWords,
           f.tab[p][fd].ofd # NoOfd
    PROVE  SetFl(f, p, fd, arg) \in FileStates
<1> DEFINE i == f.tab[p][fd].ofd
           ofd == [f.ofd EXCEPT ![i].flags = SetStatus(@, arg)]
<1>1. f.tab \in [Pids -> [Fds -> Entries]] /\ f.ofd \in [Ofds -> OpenFiles]
  BY DEF FileStates
<1>2. i \in Ofds
  BY <1>1 DEF Entries
<1>3. SetFl(f, p, fd, arg) = [f EXCEPT !.ofd = ofd]
  BY DEF SetFl
<1> HIDE DEF i
<1>4. f.ofd[i].flags \in FlagWords
  BY <1>1, <1>2 DEF OpenFiles
<1>5. ofd \in [Ofds -> OpenFiles]
  BY <1>1, <1>2, <1>4, SetStatusType DEF OpenFiles
<1> HIDE DEF ofd
<1>6. QED
  BY <1>3, <1>5 DEF FileStates

LEMMA MakePipeType ==
    ASSUME NEW f \in FileStates, NEW p \in Pids, CanPipe(f, p)
    PROVE  MakePipe(f, p) \in FileStates
<1> DEFINE k == Lowest(FreePipes(f))
           i == Lowest(FreeOfds(f))
           j == Lowest(FreeOfds(f) \ {i})
           r == Lowest(FreeFds(f, p, 0))
           w == Lowest(FreeFds(f, p, 0) \ {r})
           tab == [f.tab EXCEPT ![p][r] = [ofd |-> i, cloexec |-> FALSE],
                                ![p][w] = [ofd |-> j, cloexec |-> FALSE]]
           ofd == [f.ofd EXCEPT ![i] = [flags |-> PipeFlags(k, 0), refs |-> 1],
                                ![j] = [flags |-> PipeFlags(k, 1), refs |-> 1]]
           pipe == [f.pipe EXCEPT ![k] = [NoPipe EXCEPT !.owner = p]]
<1>1. k \in Pipes
  BY FreeSlotTypes, LowestIn DEF CanPipe
<1>2. i \in FreeOfds(f) /\ FreeOfds(f) \ {i} # {}
  <2>1. FreeOfds(f) # {}
    <3>1. Cardinality(FreeOfds(f)) >= 2
      BY DEF CanPipe
    <3>2. QED
      BY <3>1, FS_EmptySet
  <2>2. i \in FreeOfds(f)
    BY <2>1, FreeSlotTypes, LowestIn
  <2>3. FreeOfds(f) \in SUBSET (0 .. MaxOfds - 1) /\ Cardinality(FreeOfds(f)) >= 2 /\ MaxOfds \in Nat
    BY FreeSlotTypes, DescriptorsAssumption DEF CanPipe, Ofds
  <2> HIDE DEF i
  <2>4. QED
    BY <2>2, <2>3, SecondSlot, ZenonT(40)
<1>3. r \in FreeFds(f, p, 0) /\ FreeFds(f, p, 0) \ {r} # {}
  <2>1. FreeFds(f, p, 0) # {}
    <3>1. Cardinality(FreeFds(f, p, 0)) >= 2
      BY DEF CanPipe
    <3>2. QED
      BY <3>1, FS_EmptySet
  <2>2. r \in FreeFds(f, p, 0)
    BY <2>1, FreeSlotTypes, LowestIn
  <2>3. FreeFds(f, p, 0) \in SUBSET (0 .. MaxFds - 1) /\ Cardinality(FreeFds(f, p, 0)) >= 2 /\ MaxFds \in Nat
    BY FreeSlotTypes, DescriptorsAssumption DEF CanPipe, Fds
  <2> HIDE DEF r
  <2>4. QED
    BY <2>2, <2>3, SecondSlot, ZenonT(40)
<1>4. i \in Ofds /\ r \in Fds
  BY <1>2, <1>3, FreeSlotTypes
<1>5. MakePipe(f, p) = [tab |-> tab, ofd |-> ofd, pipe |-> pipe]
  BY DEF MakePipe
<1> HIDE DEF i, r, k
<1>6. j \in Ofds /\ w \in Fds
  <2>1. FreeOfds(f) \ {i} \in SUBSET Nat /\ FreeFds(f, p, 0) \ {r} \in SUBSET Nat
    BY FreeSlotTypes
  <2>2. j \in FreeOfds(f) \ {i} /\ w \in FreeFds(f, p, 0) \ {r}
    BY <2>1, <1>2, <1>3, LowestIn
  <2>3. QED
    BY <2>2, FreeSlotTypes
<1> HIDE DEF j, w
<1>7. f.tab \in [Pids -> [Fds -> Entries]] /\ f.ofd \in [Ofds -> OpenFiles] /\ f.pipe \in [Pipes -> PipeBuffers]
  BY DEF FileStates
<1>8. tab \in [Pids -> [Fds -> Entries]]
  <2>1. [ofd |-> i, cloexec |-> FALSE] \in Entries /\ [ofd |-> j, cloexec |-> FALSE] \in Entries
    BY <1>4, <1>6 DEF Entries
  <2>2. QED
    BY <2>1, <1>4, <1>6, <1>7, ZenonT(40)
<1>9. ofd \in [Ofds -> OpenFiles]
  <2>1. PipeFlags(k, 0) \in FlagWords /\ PipeFlags(k, 1) \in FlagWords
    BY <1>1, PipeFlagsType
  <2>2. QED
    BY <2>1, <1>4, <1>6, <1>7 DEF OpenFiles
<1>10. pipe \in [Pipes -> PipeBuffers]
  BY <1>1, <1>7, EmptyParts DEF PipeBuffers
<1> HIDE DEF tab, ofd, pipe
<1>11. QED
  BY <1>5, <1>8, <1>9, <1>10, SMTT(30) DEF FileStates

\* Partial transfers keep the byte count within the buffer.
LEMMA TransferTypes ==
    ASSUME NEW f \in FileStates, NEW k \in Pipes, NEW n \in Nat
    PROVE  PipeTake(f, k, n) \in FileStates /\ PipePut(f, k, n) \in FileStates
<1> DEFINE held == f.pipe[k].held
           less == held - AtMost(n, AtMost(held, CopyChunk))
           more == held + AtMost(n, AtMost(PipeBufSize - held, CopyChunk))
<1>1. f.pipe \in [Pipes -> PipeBuffers]
  BY DEF FileStates
<1>2. f.pipe[k] \in PipeBuffers /\ held \in 0 .. PipeBufSize
  BY <1>1 DEF PipeBuffers
<1>3. /\ PipeTake(f, k, n) = [f EXCEPT !.pipe = [f.pipe EXCEPT ![k].held = less]]
      /\ PipePut(f, k, n) = [f EXCEPT !.pipe = [f.pipe EXCEPT ![k].held = more]]
  BY DEF PipeTake, PipePut
<1>4. less \in 0 .. PipeBufSize /\ more \in 0 .. PipeBufSize
  <2>1. PipeBufSize \in Nat /\ CopyChunk \in Nat
    BY DescriptorsAssumption
  <2>2. held \in Nat /\ held <= PipeBufSize
    BY <2>1, <1>2
  <2> HIDE DEF held
  <2>3. less \in 0 .. PipeBufSize
    BY <2>1, <2>2 DEF AtMost
  <2>4. more \in 0 .. PipeBufSize
    BY <2>1, <2>2 DEF AtMost
  <2>5. QED
    BY <2>3, <2>4
<1> HIDE DEF less, more
<1>5. /\ [f.pipe EXCEPT ![k].held = less] \in [Pipes -> PipeBuffers]
      /\ [f.pipe EXCEPT ![k].held = more] \in [Pipes -> PipeBuffers]
  BY <1>1, <1>4 DEF PipeBuffers
<1>6. QED
  BY <1>3, <1>5, ZenonT(40) DEF FileStates
=============================================================================
