------------------------------ MODULE PagesLemmas ------------------------------
(***************************************************************************)
(* The inductive invariant of Pages, what its tables and its allocator keep,  *)
(* and the steps of Pages that do not share or copy a frame.                 *)
(***************************************************************************)
EXTENDS Pages, FiniteSetTheorems, FunctionTheorems, TLAPS


(* The break lies in the last page of the heap, or at one end of it, and a    *)
(* process has a heap only when it exists.                                    *)
HeapShape ==
    \A p \in Process :
        IF heap[p].break = 0 THEN heap[p].pages = 0
        ELSE /\ state[p] # "unborn"
             /\ (heap[p].pages - 1) * PageSize <= heap[p].break - imageEnd
             /\ heap[p].break - imageEnd <= heap[p].pages * PageSize

(* Pages of one process have different frames, stacks can be written, and a  *)
(* free frame holds what nobody asked for.                                    *)
OneFrameEach ==
    \A p \in Process : \A v, w \in DOMAIN directory[p] :
        directory[p][v].frame = directory[p][w].frame => v = w
StacksWritable ==
    \A p \in Process : \A v \in StackArea \cap DOMAIN directory[p] : directory[p][v].writable
FreeHoldsOld == \A f \in free : content[f] = Old

(* The inductive invariant: the properties above, with the shape of a heap    *)
(* that sbrk needs to map the right pages, and what tells the frames of one    *)
(* page from those of another when counts go down.                             *)
IInv ==
    /\ TypeOK /\ MappedAsAsked /\ CountsMatch /\ FreeMeansUnmapped
    /\ WritableMeansAlone /\ CachedIsCurrent
    /\ HeapShape /\ OneFrameEach /\ StacksWritable /\ FreeHoldsOld

-----------------------------------------------------------------------------
(* What allocate returns: a free frame for each page, different ones. *)

(* A finite set maps one to one into any set that is not smaller. *)
LEMMA Injections ==
  ASSUME NEW S, NEW T, IsFiniteSet(S), IsFiniteSet(T), Cardinality(S) <= Cardinality(T)
  PROVE  \E g \in [S -> T] : Distinct(g)
<1> DEFINE m == Cardinality(S)
           n == Cardinality(T)
<1>1. m \in Nat /\ n \in Nat /\ ExistsBijection(1..m, S) /\ ExistsBijection(1..n, T)
  BY FS_CardinalityType
<1>2. ExistsBijection(S, 1..m)
  BY <1>1, Fun_ExistsBijSymmetric
<1>3. ExistsInjection(S, 1..m) /\ ExistsInjection(1..n, T)
  BY <1>1, <1>2, Fun_ExistsBijEquiv
<1>4. ExistsInjection(1..m, 1..n)
  BY <1>1, Fun_NatInjLeq
<1>5. ExistsInjection(S, T)
  BY <1>3, <1>4, Fun_ExistsInjTransitive
<1>6. PICK g : g \in Injection(S, T)
  BY <1>5 DEF ExistsInjection
<1>7. g \in [S -> T] /\ \A a, b \in S : g[a] = g[b] => a = b
  BY <1>6, Fun_InjectionProperties
<1> QED
  BY <1>7 DEF Distinct

(* PPallocator gives a different free frame for each page that is asked for. *)
LEMMA Allocated ==
  ASSUME free \subseteq Frame, NEW p, NEW pages, IsFiniteSet(pages), Enough(pages)
  PROVE  allocate(p, pages) \in [pages -> free] /\ Distinct(allocate(p, pages))
<1>1. CASE \A v \in pages : \E f \in free : Home[f] = <<p, v>>
  <2> DEFINE h == [v \in pages |-> CHOOSE f \in free : Home[f] = <<p, v>>]
  <2>1. \A v \in pages : h[v] \in free /\ Home[h[v]] = <<p, v>>
    BY <1>1
  <2>2. h \in [pages -> free]
    BY <2>1
  <2>3. \A v, w \in pages : h[v] = h[w] => v = w
    <3> SUFFICES ASSUME NEW v \in pages, NEW w \in pages, h[v] = h[w] PROVE v = w
      BY Zenon
    <3> HIDE DEF h
    <3>1. <<p, v>> = <<p, w>>
      BY <2>1
    <3> QED
      BY <3>1
  <2>4. allocate(p, pages) = h
    BY <1>1, ZenonT(60) DEF allocate
  <2> HIDE DEF h
  <2> QED
    BY <2>2, <2>3, <2>4 DEF Distinct
<1>2. CASE ~\A v \in pages : \E f \in free : Home[f] = <<p, v>>
  <2>1. IsFiniteSet(free)
    BY PagesAssumption, FS_Subset
  <2>2. \E g \in [pages -> free] : Distinct(g)
    BY <2>1, Injections DEF Enough
  <2>3. allocate(p, pages) = CHOOSE g \in [pages -> free] : Distinct(g)
    BY <1>2 DEF allocate
  <2> QED
    BY <2>2, <2>3
<1> QED
  BY <1>1, <1>2, Zenon
-----------------------------------------------------------------------------
(* What a step does to the frames when it changes the table of one process.   *)

(* p's table becomes table: its new entries have the frames in taken, one     *)
(* each, all of them free before, and no page of the stack is lost.           *)
NewTable(p, table, taken) ==
    /\ p \in Process /\ taken \subseteq free /\ IsTable(table)
    /\ directory' = [directory EXCEPT ![p] = table]
    /\ \A v \in DOMAIN table :
          \/ v \in DOMAIN directory[p] /\ table[v] = directory[p][v]
          \/ table[v].frame \in taken /\ table[v].writable
    /\ \A v, w \in DOMAIN table :
          table[v].frame \in taken /\ table[v].frame = table[w].frame => v = w
    /\ \A f \in taken : \E v \in DOMAIN table : table[v].frame = f
    /\ \A v \in StackArea \cap DOMAIN directory[p] :
          v \in DOMAIN table /\ table[v] = directory[p][v]

(* The frames an old entry had and no new one has, and the frames of taken    *)
(* that are in the process area.                                              *)
Lost(p, table) ==
    {f \in Frame : /\ \E v \in DOMAIN directory[p] : directory[p][v].frame = f
                   /\ \A v \in DOMAIN table : table[v].frame # f}
Counted(table, taken) == {f \in taken : \E v \in Area \cap DOMAIN table : table[v].frame = f}

(* The sizes of the areas are positive, and the areas do not overlap. *)
LEMMA Numbers ==
  /\ ImagePages \in Nat /\ HeapPages \in Nat /\ Reserved \in Nat /\ PageSize \in Nat
  /\ ImagePages > 0 /\ HeapPages > 0 /\ Reserved > 0 /\ PageSize > 0
  /\ Top \in Nat /\ Top = ImagePages + HeapPages + Reserved
  /\ Area \cap StackArea = {} /\ Page = Area \cup StackArea
  /\ imageEnd \in Nat /\ MaximumHeapBreak \in Nat
  BY PagesAssumption DEF Top, Area, StackArea, Page, imageEnd, MaximumHeapBreak

(* A process that gets a new table: the tables stay tables. *)
LEMMA TableTypes ==
  ASSUME TypeOK, NEW p \in Process, NEW table, NEW taken, NewTable(p, table, taken)
  PROVE  /\ directory' = [q \in Process |-> directory'[q]]
         /\ \A q \in Process : directory'[q] = IF q = p THEN table ELSE directory[q]
         /\ \A q \in Process : IsTable(directory'[q])
<1>1. directory = [q \in Process |-> directory[q]] /\ \A q \in Process : IsTable(directory[q])
  BY DEF TypeOK
<1>2. directory' = [directory EXCEPT ![p] = table] /\ IsTable(table)
  BY DEF NewTable
<1>3. directory' = [q \in Process |-> IF q = p THEN table ELSE directory[q]]
  BY <1>1, <1>2
<1> QED
  BY <1>1, <1>2, <1>3

(* Every entry of every table refers to a frame. *)
LEMMA EntryFrames ==
  ASSUME TypeOK, NEW q \in Process, NEW v \in DOMAIN directory[q]
  PROVE  directory[q][v].frame \in Frame /\ directory[q][v].writable \in BOOLEAN /\ v \in Page
  BY DEF TypeOK, IsTable, Entry

(* A process that gets a new table: what is writable is not shared. *)
LEMMA TableAlone ==
  ASSUME IInv, NEW p \in Process, NEW table, NEW taken, NewTable(p, table, taken)
  PROVE  WritableMeansAlone' /\ OneFrameEach' /\ StacksWritable'
<1>1. TypeOK /\ WritableMeansAlone /\ OneFrameEach /\ StacksWritable /\ FreeMeansUnmapped
  BY DEF IInv
<1>2. \A q \in Process : directory'[q] = IF q = p THEN table ELSE directory[q]
  BY <1>1, TableTypes
<1>3. taken \subseteq free /\ free \subseteq Frame
  BY <1>1 DEF NewTable, TypeOK
<1>4. \A q \in Process : \A v \in DOMAIN directory[q] : directory[q][v].frame \notin taken
  BY <1>1, <1>3 DEF FreeMeansUnmapped
<1>5. \A v \in DOMAIN table :
          \/ v \in DOMAIN directory[p] /\ table[v] = directory[p][v]
          \/ table[v].frame \in taken /\ table[v].writable
  BY DEF NewTable
<1>6. \A v, w \in DOMAIN table :
          table[v].frame \in taken /\ table[v].frame = table[w].frame => v = w
  BY DEF NewTable
<1>7. \A v, w \in DOMAIN table : table[v].frame = table[w].frame => v = w
  BY <1>1, <1>4, <1>5, <1>6 DEF OneFrameEach
<1>8. OneFrameEach'
  BY <1>1, <1>2, <1>7 DEF OneFrameEach
<1>9. StacksWritable'
  <2> SUFFICES ASSUME NEW q \in Process, NEW v \in StackArea, v \in DOMAIN directory'[q]
               PROVE  directory'[q][v].writable
    BY DEF StacksWritable
  <2> QED
    BY <1>1, <1>2, <1>5 DEF StacksWritable
<1>10. ASSUME NEW q \in Process, NEW r \in Process,
              NEW v \in DOMAIN directory'[q], NEW w \in DOMAIN directory'[r],
              directory'[q][v].writable, directory'[q][v].frame = directory'[r][w].frame
       PROVE  q = r /\ v = w
  <2>1. CASE q = p /\ r = p
    BY <2>1, <1>2, <1>7, <1>10
  <2>2. CASE q = p /\ r # p
    <3>1. directory'[q] = table /\ directory'[r] = directory[r]
      BY <2>2, <1>2
    <3>2. table[v].frame \notin taken
      BY <3>1, <1>4, <1>10
    <3>3. v \in DOMAIN directory[p] /\ table[v] = directory[p][v]
      BY <3>1, <3>2, <1>5, <1>10
    <3> QED
      BY <3>1, <3>3, <2>2, <1>1, <1>10 DEF WritableMeansAlone
  <2>3. CASE q # p /\ r = p
    <3>1. directory'[r] = table /\ directory'[q] = directory[q]
      BY <2>3, <1>2
    <3>2. table[w].frame \notin taken
      BY <3>1, <1>4, <1>10
    <3>3. w \in DOMAIN directory[p] /\ table[w] = directory[p][w]
      BY <3>1, <3>2, <1>5, <1>10
    <3> QED
      BY <3>1, <3>3, <2>3, <1>1, <1>10 DEF WritableMeansAlone
  <2>4. CASE q # p /\ r # p
    BY <2>4, <1>1, <1>2, <1>10 DEF WritableMeansAlone
  <2> QED
    BY <2>1, <2>2, <2>3, <2>4
<1>11. WritableMeansAlone'
  BY <1>10 DEF WritableMeansAlone
<1> QED
  BY <1>8, <1>9, <1>11

(* The processes that hold a frame after the step. *)
LEMMA TableHolders ==
  ASSUME IInv, NEW p \in Process, NEW table, NEW taken, NewTable(p, table, taken),
         NEW f \in Frame
  PROVE  /\ f \in Counted(table, taken) => p \notin Holders(f) /\ Holders(f)' = Holders(f) \cup {p}
         /\ f \in Lost(p, table) => p \in Holders(f) /\ Holders(f)' = Holders(f) \ {p}
         /\ f \notin Counted(table, taken) \cup Lost(p, table) => Holders(f)' = Holders(f)
<1>1. TypeOK /\ OneFrameEach /\ FreeMeansUnmapped
  BY DEF IInv
<1>2. \A q \in Process : directory'[q] = IF q = p THEN table ELSE directory[q]
  BY <1>1, TableTypes
<1>3. \A q \in Process : \A v \in DOMAIN directory[q] : directory[q][v].frame \notin taken
  BY <1>1 DEF NewTable, FreeMeansUnmapped, TypeOK
<1>4. \A v \in DOMAIN table :
          \/ v \in DOMAIN directory[p] /\ table[v] = directory[p][v]
          \/ table[v].frame \in taken /\ table[v].writable
  BY DEF NewTable
<1>5. \A q \in Process : q # p => (q \in Holders(f)' <=> q \in Holders(f))
  BY <1>2 DEF Holders
<1>6. p \in Holders(f)' <=> \E v \in Area \cap DOMAIN table : table[v].frame = f
  BY <1>2 DEF Holders
<1>7. p \in Holders(f) <=> \E v \in Area \cap DOMAIN directory[p] : directory[p][v].frame = f
  BY DEF Holders
<1>8. Holders(f) \subseteq Process /\ Holders(f)' \subseteq Process
  BY DEF Holders
<1>9. ASSUME f \in Counted(table, taken)
      PROVE  p \notin Holders(f) /\ Holders(f)' = Holders(f) \cup {p}
  <2>1. p \notin Holders(f)
    BY <1>3, <1>7, <1>9 DEF Counted
  <2>2. p \in Holders(f)'
    BY <1>6, <1>9 DEF Counted
  <2> QED
    BY <2>1, <2>2, <1>5, <1>8
<1>10. ASSUME f \in Lost(p, table)
       PROVE  p \in Holders(f) /\ Holders(f)' = Holders(f) \ {p}
  <2>1. p \notin Holders(f)'
    BY <1>6, <1>10 DEF Lost
  <2>2. PICK v \in DOMAIN directory[p] : directory[p][v].frame = f
    BY <1>10 DEF Lost
  <2>3. v \notin StackArea
    BY <2>2, <1>10 DEF Lost, NewTable
  <2>4. v \in Area
    BY <2>3, <1>1, EntryFrames, Numbers
  <2> QED
    BY <2>1, <2>2, <2>4, <1>5, <1>7, <1>8
<1>11. ASSUME f \notin Counted(table, taken), f \notin Lost(p, table)
       PROVE  Holders(f)' = Holders(f)
  <2>1. ASSUME p \in Holders(f)' PROVE p \in Holders(f)
    BY <2>1, <1>4, <1>6, <1>7, <1>11 DEF Counted
  <2>2. ASSUME p \in Holders(f) PROVE p \in Holders(f)'
    <3>1. PICK v \in Area \cap DOMAIN directory[p] : directory[p][v].frame = f
      BY <2>2, <1>7
    <3>2. PICK w \in DOMAIN table : table[w].frame = f
      BY <3>1, <1>11 DEF Lost
    <3>3. w \in DOMAIN directory[p] /\ table[w] = directory[p][w]
      BY <3>1, <3>2, <1>3, <1>4
    <3>4. w = v
      BY <3>1, <3>2, <3>3, <1>1 DEF OneFrameEach
    <3> QED
      BY <3>1, <3>2, <3>4, <1>6
  <2> QED
    BY <2>1, <2>2, <1>5, <1>8
<1> QED
  BY <1>9, <1>10, <1>11

(* Counts and bitmap after the step, when they change by what was taken and   *)
(* what was lost.                                                             *)
LEMMA TableCounts ==
  ASSUME IInv, NEW p \in Process, NEW table, NEW taken, NewTable(p, table, taken),
         count' = [f \in Frame |->
             IF f \in Counted(table, taken) THEN count[f] + 1
             ELSE IF f \in Lost(p, table) THEN count[f] - 1 ELSE count[f]]
  PROVE  CountsMatch' /\ count' \in [Frame -> Nat]
<1>1. \A f \in Frame : count[f] = Cardinality(Holders(f))
  BY DEF IInv, CountsMatch
<1>2. \A f : IsFiniteSet(Holders(f)) /\ IsFiniteSet(Holders(f)')
  <2>1. \A f : Holders(f) \in SUBSET Process /\ Holders(f)' \in SUBSET Process
    BY DEF Holders
  <2> QED
    BY <2>1, PagesAssumption, FS_Subset
<1>3. ASSUME NEW f \in Frame
      PROVE  count'[f] = Cardinality(Holders(f)') /\ count'[f] \in Nat
  <2>0. count[f] \in Nat /\ count[f] = Cardinality(Holders(f))
    BY <1>1, <1>2, FS_CardinalityType
  <2>4. Cardinality(Holders(f)') \in Nat
    BY <1>2, FS_CardinalityType
  <2>1. CASE f \in Counted(table, taken)
    <3>1. p \notin Holders(f) /\ Holders(f)' = Holders(f) \cup {p}
      BY <2>1, TableHolders
    <3>2. Cardinality(Holders(f) \cup {p}) = Cardinality(Holders(f)) + 1
      BY <3>1, <1>2, FS_AddElement, Zenon
    <3> QED
      BY <3>1, <3>2, <2>0, <2>1
  <2>2. CASE f \in Lost(p, table)
    <3>1. p \in Holders(f) /\ Holders(f)' = Holders(f) \ {p}
      BY <2>2, TableHolders
    <3>2. Cardinality(Holders(f) \ {p}) = Cardinality(Holders(f)) - 1
      BY <3>1, <1>2, FS_RemoveElement, ZenonT(60)
    <3>3. f \notin Counted(table, taken)
      BY <2>2 DEF Counted, Lost
    <3> QED
      BY <3>1, <3>2, <3>3, <2>0, <2>2, <2>4
  <2>3. CASE f \notin Counted(table, taken) \cup Lost(p, table)
    <3>1. Holders(f)' = Holders(f)
      BY <2>3, TableHolders
    <3> QED
      BY <3>1, <2>0, <2>3
  <2> QED
    BY <2>1, <2>2, <2>3
<1> QED
  BY <1>3 DEF CountsMatch

(* A process that gets a new table: the free frames are those without a page. *)
LEMMA TableFree ==
  ASSUME IInv, NEW p \in Process, NEW table, NEW taken, NewTable(p, table, taken),
         CountsMatch',
         free' = (free \ taken) \cup {f \in Lost(p, table) : count'[f] = 0}
  PROVE  FreeMeansUnmapped' /\ free' \subseteq Frame
<1>1. TypeOK /\ OneFrameEach /\ FreeMeansUnmapped /\ WritableMeansAlone /\ StacksWritable
  BY DEF IInv
<1>2. \A q \in Process : directory'[q] = IF q = p THEN table ELSE directory[q]
  BY <1>1, TableTypes
<1>3. free \subseteq Frame /\ taken \subseteq free
  BY <1>1 DEF TypeOK, NewTable
<1>4. \A q \in Process : \A v \in DOMAIN directory[q] : directory[q][v].frame \notin free
  BY <1>1, <1>3 DEF FreeMeansUnmapped
<1>5. free' \subseteq Frame
  BY <1>3 DEF Lost
<1>6. ASSUME NEW f \in Frame, f \in free', NEW q \in Process, NEW v \in DOMAIN directory'[q]
      PROVE  directory'[q][v].frame # f
  <2>1. CASE f \in free \ taken
    <3>1. CASE q = p
      <4>1. v \in DOMAIN table /\ directory'[q][v] = table[v]
        BY <3>1, <1>2
      <4> QED
        BY <4>1, <2>1, <1>4 DEF NewTable
    <3> QED
      BY <3>1, <2>1, <1>2, <1>4
  <2>2. CASE f \in Lost(p, table) /\ count'[f] = 0
    <3>1. Cardinality(Holders(f)') = 0
      BY <2>2 DEF CountsMatch
    <3>2. Holders(f)' \in SUBSET Process
      BY DEF Holders
    <3>3. Holders(f)' = {}
      BY <3>1, <3>2, PagesAssumption, FS_Subset, FS_EmptySet
    <3>4. CASE q = p
      BY <3>4, <2>2, <1>2 DEF Lost
    <3>5. CASE q # p /\ v \in Area
      BY <3>3, <3>5, <1>2 DEF Holders
    <3>6. CASE q # p /\ v \in StackArea
      <4>1. v \in DOMAIN directory[q] /\ directory'[q] = directory[q]
        BY <3>6, <1>2
      <4>2. directory[q][v].writable
        BY <4>1, <3>6, <1>1 DEF StacksWritable
      <4>3. PICK w \in DOMAIN directory[p] : directory[p][w].frame = f
        BY <2>2 DEF Lost
      <4> QED
        BY <4>1, <4>2, <4>3, <3>6, <1>1 DEF WritableMeansAlone
    <3>7. v \in Page
      BY <1>2, <1>1, EntryFrames DEF NewTable, IsTable
    <3> QED
      BY <3>4, <3>5, <3>6, <3>7, Numbers
  <2> QED
    BY <2>1, <2>2, <1>6
<1>7. ASSUME NEW f \in Frame, f \notin free'
      PROVE  \E q \in Process : \E v \in DOMAIN directory'[q] : directory'[q][v].frame = f
  <2>1. CASE f \in taken
    BY <2>1, <1>2 DEF NewTable
  <2>2. CASE f \notin free
    <3>1. PICK q \in Process : \E v \in DOMAIN directory[q] : directory[q][v].frame = f
      BY <2>2, <1>1 DEF FreeMeansUnmapped
    <3>2. CASE q # p
      BY <3>1, <3>2, <1>2
    <3>3. CASE q = p /\ f \notin Lost(p, table)
      BY <3>1, <3>3, <1>2 DEF Lost
    <3>4. CASE f \in Lost(p, table)
      <4>1. count'[f] # 0
        BY <3>4, <1>7
      <4>2. Cardinality(Holders(f)') # 0
        BY <4>1 DEF CountsMatch
      <4>3. Holders(f)' # {}
        BY <4>2, FS_EmptySet
      <4> QED
        BY <4>3 DEF Holders
    <3> QED
      BY <3>2, <3>3, <3>4
  <2> QED
    BY <2>1, <2>2, <1>3, <1>7
<1> QED
  BY <1>5, <1>6, <1>7 DEF FreeMeansUnmapped

(* The fields of an entry that is made. *)
LEMMA NewEntry ==
  ASSUME NEW e, NEW f, e = [frame |-> f, writable |-> TRUE]
  PROVE  e.frame = f /\ e.writable
  OBVIOUS

(* The frames of some pages of a process, and those of new pages of its area. *)
Had(p, pages) == {directory[p][v].frame : v \in pages \cap DOMAIN directory[p]}
InArea(g) == {g[v] : v \in Area \cap DOMAIN g}

(* The step of a process that unmaps the pages in less and maps new ones. *)
Maps(p, pages, less, g, table) ==
    /\ pages \subseteq Page /\ g \in [pages -> free] /\ Distinct(g)
    /\ less \cap StackArea = {} /\ pages \cap (DOMAIN directory[p] \ less) = {}
    /\ table = map(Without(directory[p], less), g)
    /\ directory' = [directory EXCEPT ![p] = table]

IsMapped(p, pages, less, g, table) ==
    /\ NewTable(p, table, FramesOf(g))
    /\ DOMAIN table = (DOMAIN directory[p] \ less) \cup pages
    /\ \A v \in DOMAIN directory[p] \ less : table[v] = directory[p][v]
    /\ Lost(p, table) = Had(p, less) /\ Counted(table, FramesOf(g)) = InArea(g)

(* map() after unmap(): the table, the frames that are lost and those to be counted. *)
LEMMA Mapped ==
  ASSUME IInv, NEW p \in Process, NEW pages, NEW less, NEW g, NEW table,
         Maps(p, pages, less, g, table)
  PROVE  IsMapped(p, pages, less, g, table)
<1>0. /\ pages \subseteq Page /\ g \in [pages -> free] /\ Distinct(g)
      /\ less \cap StackArea = {} /\ pages \cap (DOMAIN directory[p] \ less) = {}
      /\ table = map(Without(directory[p], less), g)
      /\ directory' = [directory EXCEPT ![p] = table]
  BY DEF Maps
<1> USE <1>0
<1>1. TypeOK /\ OneFrameEach /\ FreeMeansUnmapped
  BY DEF IInv
<1>2. DOMAIN table = (DOMAIN directory[p] \ less) \cup pages
  BY DEF map, Without
<1>3. \A v \in DOMAIN directory[p] \ less : table[v] = directory[p][v]
  BY DEF map, Without
<1>4. \A v \in pages : table[v] = [frame |-> g[v], writable |-> TRUE]
  BY DEF map, Without
<1>5. free \subseteq Frame
  BY <1>1 DEF TypeOK
<1>6. \A q \in Process : \A v \in DOMAIN directory[q] : directory[q][v].frame \notin free
  BY <1>1, <1>5 DEF FreeMeansUnmapped
<1>7. \A v \in pages : g[v] \in free /\ table[v].frame = g[v] /\ table[v].writable
  <2>1. \A v \in pages : g[v] \in free
    OBVIOUS
  <2>2. ASSUME NEW v \in pages PROVE table[v].frame = g[v] /\ table[v].writable
    <3>1. table[v] = [frame |-> g[v], writable |-> TRUE]
      BY <1>4
    <3> QED
      BY <3>1, NewEntry, Zenon
  <2> QED
    BY <2>1, <2>2
<1>8. FramesOf(g) = {g[v] : v \in pages}
  BY DEF FramesOf
<1>9. IsTable(table)
  <2>1. \A v \in DOMAIN table : table[v] \in Entry /\ v \in Page
    <3>1. \A v \in DOMAIN directory[p] : directory[p][v] \in Entry /\ v \in Page
      BY <1>1 DEF TypeOK, IsTable
    <3>2. \A v \in pages : [frame |-> g[v], writable |-> TRUE] \in Entry
      BY <1>5 DEF Entry
    <3> QED
      BY <3>1, <3>2, <1>2, <1>3, <1>4, ZenonT(60)
  <2>2. table = [v \in DOMAIN table |-> table[v]]
    BY DEF map, Without
  <2> QED
    BY <2>1, <2>2 DEF IsTable
<1>10. NewTable(p, table, FramesOf(g))
  <2>1. \A v \in DOMAIN table :
          \/ v \in DOMAIN directory[p] /\ table[v] = directory[p][v]
          \/ table[v].frame \in FramesOf(g) /\ table[v].writable
    BY <1>2, <1>3, <1>7, <1>8
  <2>2. \A v, w \in DOMAIN table :
          table[v].frame \in FramesOf(g) /\ table[v].frame = table[w].frame => v = w
    <3>1. \A v \in DOMAIN table : table[v].frame \in FramesOf(g) => v \in pages
      BY <1>2, <1>3, <1>6, <1>8
    <3>2. \A v, w \in pages : g[v] = g[w] => v = w
      BY DEF Distinct
    <3> QED
      BY <3>1, <3>2, <1>7
  <2>3. \A f \in FramesOf(g) : \E v \in DOMAIN table : table[v].frame = f
    BY <1>2, <1>7, <1>8
  <2>4. \A v \in StackArea \cap DOMAIN directory[p] :
          v \in DOMAIN table /\ table[v] = directory[p][v]
    BY <1>2, <1>3
  <2>5. FramesOf(g) \subseteq free
    BY <1>8
  <2> QED
    BY <2>1, <2>2, <2>3, <2>4, <2>5, <1>9 DEF NewTable
<1>11. Lost(p, table) = Had(p, less)
  <2>1. ASSUME NEW f \in Lost(p, table)
        PROVE  f \in Had(p, less)
    BY <1>2, <1>3 DEF Lost, Had
  <2>2. ASSUME NEW v \in less \cap DOMAIN directory[p] PROVE directory[p][v].frame \in Lost(p, table)
    <3>1. directory[p][v].frame \in Frame
      BY <1>1, EntryFrames
    <3>2. ASSUME NEW w \in DOMAIN table, table[w].frame = directory[p][v].frame PROVE FALSE
      <4>1. w \in DOMAIN directory[p] \ less
        BY <3>2, <1>2, <1>6, <1>7
      <4> QED
        BY <4>1, <3>2, <1>1, <1>3 DEF OneFrameEach
    <3> QED
      BY <3>1, <3>2 DEF Lost
  <2> QED
    BY <2>1, <2>2 DEF Had
<1>12. Counted(table, FramesOf(g)) = InArea(g)
  <2>1. \A v \in DOMAIN table : table[v].frame \in FramesOf(g) => v \in pages
    BY <1>2, <1>3, <1>6, <1>8
  <2> QED
    BY <2>1, <1>2, <1>7, <1>8 DEF Counted, InArea
<1> QED
  BY <1>2, <1>3, <1>10, <1>11, <1>12 DEF IsMapped

(* Nothing but some pages changes. *)
OnlyAt(p, table, pages) ==
    /\ \A v \in DOMAIN directory[p] \ pages : v \in DOMAIN table /\ table[v] = directory[p][v]
    /\ DOMAIN table \subseteq DOMAIN directory[p] \cup pages

(* Telling the core about the pages that changed is enough. *)
LEMMA Flushed ==
  ASSUME TypeOK, CachedIsCurrent, NEW p \in Process, NEW table, NEW taken,
         NewTable(p, table, taken), NEW pages, OnlyAt(p, table, pages),
         tlb' = [tlb EXCEPT ![p] = INVLPG(tlb[p], directory'[p], pages)]
  PROVE  CachedIsCurrent'
<1>1. tlb = directory /\ directory = [q \in Process |-> directory[q]]
  BY DEF CachedIsCurrent, TypeOK
<1>2. directory'[p] = table /\ directory' = [directory EXCEPT ![p] = table]
  <2>1. directory' = [directory EXCEPT ![p] = table]
    BY DEF NewTable
  <2> QED
    BY <2>1, <1>1
<1>3. table = [v \in DOMAIN table |-> table[v]]
  BY DEF NewTable, IsTable
<1>4. INVLPG(directory[p], table, pages) = table
  <2>1. (DOMAIN directory[p] \ pages) \cup (DOMAIN table \cap pages) = DOMAIN table
    BY DEF OnlyAt
  <2>2. \A v \in DOMAIN table : v \notin pages => directory[p][v] = table[v]
    BY DEF OnlyAt
  <2> QED
    BY <2>1, <2>2, <1>3 DEF INVLPG
<1> QED
  BY <1>1, <1>2, <1>4 DEF CachedIsCurrent

-----------------------------------------------------------------------------
(* Arithmetic of breaks and pages. *)

(* Multiples of the page size. *)
LEMMA Products ==
  ASSUME NEW a \in Int, NEW b \in Int
  PROVE  /\ a * PageSize \in Int /\ (a + b) * PageSize = a * PageSize + b * PageSize
         /\ (a - b) * PageSize = a * PageSize - b * PageSize
         /\ 1 * PageSize = PageSize
         /\ a <= b => a * PageSize <= b * PageSize
         /\ a * PageSize < b * PageSize => a < b
         /\ a * PageSize <= b * PageSize => a <= b
<1>1. PageSize \in Nat /\ PageSize > 0
  BY Numbers
<1>2. /\ a * PageSize \in Int /\ b * PageSize \in Int
      /\ (a + b) * PageSize = a * PageSize + b * PageSize
      /\ (a - b) * PageSize = a * PageSize - b * PageSize /\ 1 * PageSize = PageSize
  BY <1>1
<1>3. ASSUME NEW c \in Int, NEW d \in Int, c <= d PROVE c * PageSize <= d * PageSize
  <2>1. (d - c) * PageSize >= 0
    BY <1>1, <1>3
  <2>2. (d - c) * PageSize = d * PageSize - c * PageSize
    BY <1>1
  <2> QED
    BY <2>1, <2>2, <1>1
<1>4. ASSUME NEW c \in Int, NEW d \in Int, c < d PROVE c * PageSize < d * PageSize
  <2>1. (d - c) * PageSize > 0
    BY <1>1, <1>4
  <2>2. (d - c) * PageSize = d * PageSize - c * PageSize
    BY <1>1
  <2> QED
    BY <2>1, <2>2, <1>1
<1> QED
  BY <1>2, <1>3, <1>4

(* Division by the page size. *)
LEMMA Quotient ==
  ASSUME NEW a \in Int
  PROVE  /\ a \div PageSize \in Int
         /\ (a \div PageSize) * PageSize <= a /\ a < (a \div PageSize) * PageSize + PageSize
  BY Numbers

(* What HeapShape says of one heap. *)
Fits(break, pages) ==
    /\ (pages - 1) * PageSize <= break - imageEnd
    /\ break - imageEnd <= pages * PageSize

(* A break below the limit keeps the heap inside its area. *)
LEMMA HeapFits ==
  ASSUME NEW b \in Nat, b < MaximumHeapBreak, NEW n \in Int, Fits(b, n)
  PROVE  0 <= ImagePages + n /\ n <= HeapPages
<1>1. imageEnd = ImagePages * PageSize /\ MaximumHeapBreak = (ImagePages + HeapPages) * PageSize
  BY DEF imageEnd, MaximumHeapBreak
<1>2. MaximumHeapBreak = imageEnd + HeapPages * PageSize
  BY <1>1, Numbers, Products
<1>3. (n - 1) * PageSize < HeapPages * PageSize
  BY <1>2, Numbers, Products DEF Fits
<1>4. n - 1 < HeapPages
  BY <1>3, Numbers, Products
<1>5. (ImagePages + n) * PageSize = imageEnd + n * PageSize
  BY <1>1, Numbers, Products
<1>6. 0 <= (ImagePages + n) * PageSize
  BY <1>5, Numbers, Products DEF Fits
<1>7. 0 * PageSize = 0
  BY Numbers
<1>8. 0 <= ImagePages + n
  BY <1>6, <1>7, Numbers, Products
<1> QED
  BY <1>4, <1>8, Numbers

(* The page count that the loops of sbrk end with fits the break. *)
LEMMA PagesFit ==
  ASSUME NEW b \in Int, NEW n \in Int
  PROVE  PagesAt(b, n) \in Int /\ Fits(b, PagesAt(b, n))
<1> DEFINE size == b - imageEnd
<1>0. size \in Int /\ PageSize \in Nat /\ PageSize > 0 /\ imageEnd \in Nat
  BY Numbers
<1>1. CASE size > n * PageSize
  <2> DEFINE q == (size + PageSize - 1) \div PageSize
  <2>1. PagesAt(b, n) = q
    BY <1>1 DEF PagesAt
  <2>2. q \in Int /\ q * PageSize <= size + PageSize - 1 /\ size + PageSize - 1 < q * PageSize + PageSize
    BY <1>0, Quotient
  <2> HIDE DEF q
  <2>3. (q - 1) * PageSize = q * PageSize - PageSize /\ q * PageSize \in Int
    BY <2>2, Products
  <2> QED
    BY <2>1, <2>2, <2>3, <1>0 DEF Fits
<1>2. CASE ~(size > n * PageSize) /\ size < (n - 1) * PageSize
  <2> DEFINE q == size \div PageSize
  <2>1. PagesAt(b, n) = q + 1
    BY <1>2 DEF PagesAt
  <2>2. q \in Int /\ q * PageSize <= size /\ size < q * PageSize + PageSize
    BY <1>0, Quotient
  <2> HIDE DEF q
  <2>3. (q + 1) * PageSize = q * PageSize + PageSize /\ q * PageSize \in Int
    BY <2>2, Products
  <2>4. (q + 1) - 1 = q
    BY <2>2
  <2> QED
    BY <2>1, <2>2, <2>3, <2>4, <1>0 DEF Fits
<1>3. CASE ~(size > n * PageSize) /\ ~(size < (n - 1) * PageSize)
  <2>1. PagesAt(b, n) = n
    BY <1>3 DEF PagesAt
  <2>2. n * PageSize \in Int /\ (n - 1) * PageSize \in Int
    BY Products
  <2> QED
    BY <2>1, <2>2, <1>0, <1>3 DEF Fits
<1> QED
  BY <1>1, <1>2, <1>3
-----------------------------------------------------------------------------
(* Each action keeps the invariant. *)

(* At the start no process has a page and all frames are free. *)
LEMMA InitInv ==
  ASSUME Init PROVE IInv
<1>1. \A p \in Process : directory[p] = Empty /\ DOMAIN directory[p] = {}
  BY DEF Init, Empty
<1>2. TypeOK
  <2>1. IsTable(Empty)
    BY DEF IsTable, Empty
  <2>2. MaximumHeapBreak > 0
    BY Numbers DEF MaximumHeapBreak
  <2>3. heap \in [Process -> [break : 0..MaximumHeapBreak - 1, pages : Int]]
    BY <2>2, Numbers DEF Init
  <2>4. Old \in Value
    BY PagesAssumption
  <2> QED
    BY <2>1, <2>3, <2>4, Numbers DEF Init, TypeOK
<1>3. CountsMatch
  <2>1. \A f \in Frame : Holders(f) = {}
    BY <1>1 DEF Holders
  <2> QED
    BY <2>1, FS_EmptySet DEF Init, CountsMatch
<1>4. MappedAsAsked /\ HeapShape
  BY <1>1 DEF Init, MappedAsAsked, HeapShape
<1>5. FreeMeansUnmapped /\ WritableMeansAlone /\ OneFrameEach /\ StacksWritable
  BY <1>1 DEF Init, FreeMeansUnmapped, WritableMeansAlone, OneFrameEach, StacksWritable
<1>6. CachedIsCurrent /\ FreeHoldsOld
  BY DEF Init, CachedIsCurrent, FreeHoldsOld
<1> QED
  BY <1>2, <1>3, <1>4, <1>5, <1>6 DEF IInv

(* The only entry a core may use for a page. *)
LEMMA CurrentEntry ==
  ASSUME CachedIsCurrent, NEW p, NEW v, NEW e \in Entries(p, v)
  PROVE  v \in DOMAIN directory[p] /\ e = directory[p][v]
  BY DEF CachedIsCurrent, Entries

(* A store of a program or of the kernel keeps the invariant. *)
LEMMA StoreInv ==
  ASSUME IInv, NEW p \in Process, NEW v, NEW x \in Stored, store(p, v, x) \/ kernelStore(p, v, x)
  PROVE  IInv'
<1>1. PICK e \in Entries(p, v) : content' = [content EXCEPT ![e.frame] = x]
  BY DEF store, kernelStore
<1>2. UNCHANGED <<state, directory, tlb, heap, stackPages, free, count>>
  BY DEF store, kernelStore
<1>3. v \in DOMAIN directory[p] /\ e = directory[p][v]
  BY <1>1, CurrentEntry DEF IInv
<1>4. e.frame \in Frame /\ e.frame \notin free
  BY <1>3, EntryFrames DEF IInv, FreeMeansUnmapped
<1>5. content' \in [Frame -> Value]
  BY <1>1, <1>4, PagesAssumption DEF IInv, TypeOK
<1>6. TypeOK'
  BY <1>2, <1>5 DEF IInv, TypeOK
<1>7. FreeHoldsOld'
  BY <1>1, <1>2, <1>4, SMT, ZenonT(30), SMTT(60) DEF IInv, TypeOK, FreeHoldsOld
<1>8. MappedAsAsked' /\ HeapShape' /\ CachedIsCurrent'
  BY <1>2, ZenonT(60) DEF IInv, MappedAsAsked, HeapShape, CachedIsCurrent
<1>9. CountsMatch'
  BY <1>2 DEF IInv, CountsMatch, Holders
<1>10. FreeMeansUnmapped' /\ WritableMeansAlone' /\ OneFrameEach' /\ StacksWritable'
  BY <1>2 DEF IInv, FreeMeansUnmapped, WritableMeansAlone, OneFrameEach, StacksWritable
<1> QED
  BY <1>6, <1>7, <1>8, <1>9, <1>10 DEF IInv

(* The end of a process keeps the invariant. *)
LEMMA EndInv ==
  ASSUME IInv, NEW p \in Process, NEW v, exit(p) \/ raiseSIGSEGV(p, v)
  PROVE  IInv'
<1>1. state[p] = "alive" /\ state' = [state EXCEPT ![p] = "dead"]
  BY DEF exit, raiseSIGSEGV, Faults
<1>2. UNCHANGED <<directory, tlb, heap, stackPages, free, count, content>>
  BY DEF exit, raiseSIGSEGV
<1>3. state \in [Process -> {"unborn", "alive", "dead"}]
  BY DEF IInv, TypeOK
<1>4. \A q \in Process : state'[q] = "unborn" <=> state[q] = "unborn"
  BY <1>1, <1>3
<1>5. state' \in [Process -> {"unborn", "alive", "dead"}]
  BY <1>1, <1>3
<1>6. TypeOK'
  BY <1>2, <1>5 DEF IInv, TypeOK
<1>7. MappedAsAsked'
  BY <1>2, <1>4 DEF IInv, MappedAsAsked
<1>8. FreeHoldsOld' /\ HeapShape' /\ CachedIsCurrent'
  BY <1>2, <1>4 DEF IInv, FreeHoldsOld, HeapShape, CachedIsCurrent
<1>9. CountsMatch'
  BY <1>2 DEF IInv, CountsMatch, Holders
<1>10. FreeMeansUnmapped' /\ WritableMeansAlone' /\ OneFrameEach' /\ StacksWritable'
  BY <1>2 DEF IInv, FreeMeansUnmapped, WritableMeansAlone, OneFrameEach, StacksWritable
<1> QED
  BY <1>6, <1>7, <1>8, <1>9, <1>10 DEF IInv

(* A switch finds nothing to forget. *)
LEMMA SwitchInv ==
  ASSUME IInv, NEW p \in Process, switchToSpace(p)
  PROVE  UNCHANGED vars
<1>1. tlb = directory /\ tlb = [q \in Process |-> tlb[q]]
  BY DEF IInv, TypeOK, CachedIsCurrent
<1>2. tlb' = [tlb EXCEPT ![p] = tlb[p]]
  BY <1>1 DEF switchToSpace, reload
<1>3. tlb' = tlb
  BY <1>1, <1>2
<1> QED
  BY <1>3 DEF switchToSpace, vars

(* A step that changes nothing keeps the invariant. *)
LEMMA UnchangedInv ==
  ASSUME IInv, UNCHANGED vars
  PROVE  IInv'
<1> USE DEF vars
<1>1. TypeOK'
  BY DEF IInv, TypeOK
<1>2. MappedAsAsked' /\ FreeHoldsOld' /\ HeapShape' /\ CachedIsCurrent'
  BY ZenonT(60) DEF IInv, MappedAsAsked, FreeHoldsOld, HeapShape, CachedIsCurrent
<1>3. CountsMatch'
  BY DEF IInv, CountsMatch, Holders
<1>4. FreeMeansUnmapped' /\ WritableMeansAlone' /\ OneFrameEach' /\ StacksWritable'
  BY DEF IInv, FreeMeansUnmapped, WritableMeansAlone, OneFrameEach, StacksWritable
<1> QED
  BY <1>1, <1>2, <1>3, <1>4 DEF IInv

(* What is left to show when one table has changed. *)
LEMMA TableInv ==
  ASSUME IInv, NEW p \in Process, NEW table, NEW taken, NewTable(p, table, taken),
         count' = [f \in Frame |->
             IF f \in Counted(table, taken) THEN count[f] + 1
             ELSE IF f \in Lost(p, table) THEN count[f] - 1 ELSE count[f]],
         free' = (free \ taken) \cup {f \in Lost(p, table) : count'[f] = 0},
         CachedIsCurrent', MappedAsAsked', HeapShape', FreeHoldsOld',
         state' \in [Process -> {"unborn", "alive", "dead"}],
         heap' \in [Process -> [break : 0..MaximumHeapBreak - 1, pages : Int]],
         stackPages' \in [Process -> 0..Reserved],
         content' \in [Frame -> Value]
  PROVE  IInv'
<1>1. CountsMatch' /\ count' \in [Frame -> Nat]
  BY TableCounts
<1>2. FreeMeansUnmapped' /\ free' \subseteq Frame
  BY <1>1, TableFree
<1>3. WritableMeansAlone' /\ OneFrameEach' /\ StacksWritable'
  BY TableAlone
<1>4. /\ directory' = [q \in Process |-> directory'[q]]
      /\ \A q \in Process : IsTable(directory'[q])
  BY TableTypes DEF IInv
<1>5. TypeOK'
  BY <1>1, <1>2, <1>4 DEF TypeOK, CachedIsCurrent, IsTable, Entry
<1> QED
  BY <1>1, <1>2, <1>3, <1>5 DEF IInv

(* What the invariant says of the heap of one process. *)
LEMMA HeapBounds ==
  ASSUME IInv, NEW p \in Process
  PROVE  /\ heap[p] \in [break : 0..MaximumHeapBreak - 1, pages : Int]
         /\ heap[p].break \in Nat /\ heap[p].break < MaximumHeapBreak /\ heap[p].pages \in Int
         /\ 0 <= ImagePages + heap[p].pages /\ heap[p].pages <= HeapPages
         /\ heap[p].break = 0 => heap[p].pages = 0
         /\ heap[p].break # 0 => Fits(heap[p].break, heap[p].pages) /\ state[p] # "unborn"
<1>1. /\ heap[p] \in [break : 0..MaximumHeapBreak - 1, pages : Int]
      /\ heap[p].break \in Nat /\ heap[p].break < MaximumHeapBreak /\ heap[p].pages \in Int
  BY Numbers DEF IInv, TypeOK
<1>2. /\ heap[p].break = 0 => heap[p].pages = 0
      /\ heap[p].break # 0 => Fits(heap[p].break, heap[p].pages) /\ state[p] # "unborn"
  BY DEF IInv, HeapShape, Fits
<1>3. 0 <= ImagePages + heap[p].pages /\ heap[p].pages <= HeapPages
  BY <1>1, <1>2, HeapFits, Numbers
<1> QED
  BY <1>1, <1>2, <1>3

(* Unmapping no page leaves a table as it is. *)
LEMMA WithoutNone ==
  ASSUME TypeOK, NEW p \in Process
  PROVE  Without(directory[p], {}) = directory[p]
<1>1. directory[p] = [v \in DOMAIN directory[p] |-> directory[p][v]]
  BY SMT, ZenonT(30), SMTT(60) DEF TypeOK, IsTable
<1> QED
  BY <1>1 DEF Without

(* Stack growth keeps the invariant. *)
LEMMA GrowInv ==
  ASSUME IInv, NEW p \in Process, NEW v \in Page, growStack(p, v)
  PROVE  IInv'
<1> DEFINE pages == v..Top - stackPages[p] - 1
           g     == allocate(p, pages)
           table == map(Without(directory[p], {}), g)
<1>1. TypeOK /\ MappedAsAsked /\ StacksWritable /\ CachedIsCurrent
  BY DEF IInv
<1>2. stackPages[p] \in 0..Reserved /\ stackPages \in [Process -> 0..Reserved]
  BY <1>1 DEF TypeOK
<1>3. v \in StackArea /\ v \in Top - Reserved..Top - 1 /\ Top \in Nat
  BY Numbers, SMT, ZenonT(30), SMTT(60) DEF growStack, StackArea
<1>4. state[p] = "alive" /\ v \notin DOMAIN directory[p]
  <2>1. CASE v \in DOMAIN directory[p]
    <3>1. PICK e \in Entries(p, v) : ~e.writable
      BY <2>1 DEF growStack, Faults
    <3>2. e = directory[p][v]
      BY <3>1, <1>1, CurrentEntry
    <3> QED
      BY <3>1, <3>2, <2>1, <1>1, <1>3 DEF StacksWritable
  <2> QED
    BY <2>1 DEF growStack, Faults
<1>5. DOMAIN directory[p] =
        (0..ImagePages + heap[p].pages - 1) \cup (Top - stackPages[p]..Top - 1)
  BY <1>1, <1>4, ZenonT(60) DEF MappedAsAsked
<1>6. pages \subseteq StackArea /\ pages \cap DOMAIN directory[p] = {} /\ pages \subseteq Page
  <2>1. pages \subseteq StackArea
    BY <1>2, <1>3, Numbers DEF StackArea
  <2>2. v < Top - stackPages[p]
    BY <1>2, <1>3, <1>4, <1>5
  <2>3. heap[p].pages \in Int /\ ImagePages + heap[p].pages <= ImagePages + HeapPages
    BY HeapBounds, Numbers
  <2>4. \A w \in pages : w >= ImagePages + HeapPages
    BY <2>1, Numbers DEF StackArea
  <2>5. pages \cap DOMAIN directory[p] = {}
    BY <2>3, <2>4, <1>2, <1>3, <1>5, Numbers
  <2> QED
    BY <2>1, <2>5, Numbers
<1>7. g \in [pages -> free] /\ Distinct(g)
  <2>1. IsFiniteSet(pages)
    BY <1>2, <1>3, FS_Interval
  <2>2. free \subseteq Frame /\ Enough(pages)
    BY <1>1 DEF TypeOK, growStack
  <2> QED
    BY <2>1, <2>2, Allocated, Zenon
<1>8. directory' = [directory EXCEPT ![p] = table]
  BY <1>1, WithoutNone, ZenonT(60) DEF growStack
<1> HIDE DEF g, table
<1>9. /\ NewTable(p, table, FramesOf(g)) /\ DOMAIN table = DOMAIN directory[p] \cup pages
      /\ \A w \in DOMAIN directory[p] : table[w] = directory[p][w]
      /\ Lost(p, table) = {} /\ Counted(table, FramesOf(g)) = {}
  <2>1. pages \cap Area = {}
    BY <1>6, Numbers
  <2> DEFINE less == {}
  <2>2. Maps(p, pages, less, g, table)
    <3>1. table = map(Without(directory[p], less), g)
      BY DEF table
    <3>2. less \cap StackArea = {} /\ pages \cap (DOMAIN directory[p] \ less) = {}
      BY <1>6
    <3> HIDE DEF less, pages
    <3> QED
      BY <3>1, <3>2, <1>6, <1>7, <1>8 DEF Maps
  <2> HIDE DEF pages, less
  <2>3. IsMapped(p, pages, less, g, table)
    BY <2>2, Mapped, SMT, ZenonT(30), SMTT(60)
  <2> QED
    BY <2>1, <2>3, <1>7 DEF IsMapped, less, Had, InArea
<1>10. CachedIsCurrent'
  <2>1. tlb' = [tlb EXCEPT ![p] = INVLPG(tlb[p], directory'[p], pages)]
    BY DEF growStack
  <2> HIDE DEF pages
  <2>2. OnlyAt(p, table, pages)
    BY <1>9 DEF OnlyAt
  <2> QED
    BY <2>1, <2>2, <1>1, <1>9, Flushed, ZenonT(60)
<1>11. stackPages' = [stackPages EXCEPT ![p] = Top - v] /\ Top - v \in 0..Reserved
  BY <1>3, Numbers DEF growStack
<1>12. UNCHANGED <<state, heap, count, content>> /\ free' = free \ FramesOf(g)
  BY DEF growStack, g
<1>13. MappedAsAsked'
  <2>1. \A q \in Process : directory'[q] = IF q = p THEN table ELSE directory[q]
    BY <1>1, <1>9, TableTypes
  <2>2. \A q \in Process : stackPages'[q] = IF q = p THEN Top - v ELSE stackPages[q]
    BY <1>2, <1>11
  <2>3. DOMAIN table = (0..ImagePages + heap[p].pages - 1) \cup (Top - (Top - v)..Top - 1)
    <3>1. Top - (Top - v) = v /\ v < Top - stackPages[p]
      BY <1>2, <1>3, <1>4, <1>5
    <3>2. pages \cup (Top - stackPages[p]..Top - 1) = v..Top - 1
      BY <3>1, <1>2, <1>3
    <3> QED
      BY <3>1, <3>2, <1>5, <1>9
  <2> QED
    BY <2>1, <2>2, <2>3, <1>1, <1>4, <1>12, ZenonT(60) DEF MappedAsAsked
<1>14. HeapShape' /\ FreeHoldsOld'
  BY <1>12 DEF IInv, HeapShape, FreeHoldsOld
<1>15. /\ state' \in [Process -> {"unborn", "alive", "dead"}]
       /\ heap' \in [Process -> [break : 0..MaximumHeapBreak - 1, pages : Int]]
       /\ stackPages' \in [Process -> 0..Reserved] /\ content' \in [Frame -> Value]
  BY <1>1, <1>2, <1>11, <1>12 DEF TypeOK
<1>16. count' = [f \in Frame |->
             IF f \in Counted(table, FramesOf(g)) THEN count[f] + 1
             ELSE IF f \in Lost(p, table) THEN count[f] - 1 ELSE count[f]]
  BY <1>1, <1>9, <1>12 DEF TypeOK
<1>17. free' = (free \ FramesOf(g)) \cup {f \in Lost(p, table) : count'[f] = 0}
  BY <1>9, <1>12, SMT, ZenonT(30), SMTT(60)
<1> QED
  BY <1>9, <1>10, <1>13, <1>14, <1>15, <1>16, <1>17, TableInv

(* Loading an image keeps the invariant. *)
LEMMA SpawnInv ==
  ASSUME IInv, NEW p \in Process, spawn(p)
  PROVE  IInv'
<1> DEFINE image == 0..ImagePages - 1
           pages == image \cup {Top - 1}
           g     == allocate(p, pages)
           less  == {}
           table == map(Without(directory[p], less), g)
<1>1. TypeOK /\ MappedAsAsked /\ CachedIsCurrent
  BY SMT, ZenonT(30), SMTT(60) DEF IInv
<1>2. state[p] = "unborn" /\ DOMAIN directory[p] = {}
  BY <1>1, ZenonT(60) DEF spawn, MappedAsAsked
<1>3. heap[p].break = 0 /\ heap[p].pages = 0
  BY <1>2, HeapBounds
<1>4. pages \subseteq Page /\ Area \cap pages = image
  BY Numbers DEF Page, Area, StackArea
<1>5. g \in [pages -> free] /\ Distinct(g)
  <2>1. IsFiniteSet(image)
    BY Numbers, FS_Interval
  <2>2. IsFiniteSet(pages)
    BY <2>1, FS_AddElement, Zenon
  <2>3. free \subseteq Frame /\ Enough(pages)
    BY <1>1 DEF TypeOK, spawn
  <2> QED
    BY <2>2, <2>3, Allocated
<1>6. /\ directory' = [directory EXCEPT ![p] = table]
      /\ tlb' = [tlb EXCEPT ![p] = directory'[p]]
      /\ state' = [state EXCEPT ![p] = "alive"] /\ stackPages' = [stackPages EXCEPT ![p] = 1]
      /\ free' = free \ FramesOf(g) /\ count' = increment(count, {g[v] : v \in image})
      /\ UNCHANGED <<heap, content>>
  BY <1>1, WithoutNone, ZenonT(60) DEF spawn
<1> HIDE DEF g, table, less
<1>7. Maps(p, pages, less, g, table)
  <2>1. less \cap StackArea = {} /\ pages \cap (DOMAIN directory[p] \ less) = {}
    BY <1>2 DEF less
  <2>2. table = map(Without(directory[p], less), g)
    BY DEF table
  <2> HIDE DEF pages
  <2> QED
    BY <2>1, <2>2, <1>4, <1>5, <1>6 DEF Maps
<1> HIDE DEF pages
<1>8. IsMapped(p, pages, less, g, table)
  BY <1>7, Mapped, SMT, ZenonT(30), SMTT(60)
<1>9. /\ NewTable(p, table, FramesOf(g)) /\ DOMAIN table = pages
      /\ Lost(p, table) = {} /\ Counted(table, FramesOf(g)) = {g[v] : v \in image}
  BY <1>2, <1>4, <1>5, <1>8 DEF IsMapped, Had, InArea, less
<1>10. \A q \in Process : directory'[q] = IF q = p THEN table ELSE directory[q]
  BY <1>1, <1>9, TableTypes
<1>11. CachedIsCurrent'
  BY <1>1, <1>6, <1>10, SMT, ZenonT(30), SMTT(60) DEF CachedIsCurrent, TypeOK
<1>12. MappedAsAsked'
  <2>1. \A q \in Process : /\ stackPages'[q] = IF q = p THEN 1 ELSE stackPages[q]
                           /\ state'[q] = IF q = p THEN "alive" ELSE state[q]
    BY <1>1, <1>6 DEF TypeOK
  <2>2. DOMAIN table = (0..ImagePages + heap[p].pages - 1) \cup (Top - 1..Top - 1)
    <3>1. Top - 1..Top - 1 = {Top - 1} /\ ImagePages + 0 - 1 = ImagePages - 1
      BY Numbers
    <3> QED
      BY <3>1, <1>3, <1>9 DEF pages
  <2>3. DOMAIN directory'[p] =
          (0..ImagePages + heap'[p].pages - 1) \cup (Top - stackPages'[p]..Top - 1)
    BY <2>1, <2>2, <1>6, <1>10, ZenonT(60)
  <2>4. ASSUME NEW q \in Process, q # p
        PROVE  DOMAIN directory'[q] =
                 IF state'[q] = "unborn" THEN {}
                 ELSE (0..ImagePages + heap'[q].pages - 1) \cup (Top - stackPages'[q]..Top - 1)
    <3>1. /\ directory'[q] = directory[q] /\ state'[q] = state[q] /\ heap' = heap
          /\ stackPages'[q] = stackPages[q]
      BY <2>1, <2>4, <1>6, <1>10
    <3> QED
      BY <3>1, <1>1 DEF MappedAsAsked
  <2>5. state'[p] = "alive"
    BY <2>1
  <2> QED
    BY <2>3, <2>4, <2>5, ZenonT(60) DEF MappedAsAsked
<1>13. HeapShape'
  <2>1. \A q \in Process : state'[q] = IF q = p THEN "alive" ELSE state[q]
    BY <1>1, <1>6 DEF TypeOK
  <2> QED
    BY <2>1, <1>3, <1>6 DEF IInv, HeapShape
<1>14. FreeHoldsOld'
  BY <1>6 DEF IInv, FreeHoldsOld
<1>15. /\ state' \in [Process -> {"unborn", "alive", "dead"}]
       /\ heap' \in [Process -> [break : 0..MaximumHeapBreak - 1, pages : Int]]
       /\ stackPages' \in [Process -> 0..Reserved] /\ content' \in [Frame -> Value]
  BY <1>1, <1>6, Numbers, SMT, ZenonT(30), SMTT(60) DEF TypeOK
<1>16. count' = [f \in Frame |->
             IF f \in Counted(table, FramesOf(g)) THEN count[f] + 1
             ELSE IF f \in Lost(p, table) THEN count[f] - 1 ELSE count[f]]
  BY <1>6, <1>9, SMT, ZenonT(30), SMTT(60) DEF increment
<1>17. free' = (free \ FramesOf(g)) \cup {f \in Lost(p, table) : count'[f] = 0}
  BY <1>6, <1>9
<1> QED
  BY <1>9, <1>11, <1>12, <1>13, <1>14, <1>15, <1>16, <1>17, TableInv, ZenonT(60)
=============================================================================
