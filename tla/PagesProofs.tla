------------------------------ MODULE PagesProofs ------------------------------
(***************************************************************************)
(* Pages keeps frames, counts, tables and cached entries in step, and gives  *)
(* each process a memory of its own, for any number of processes, frames and *)
(* pages.                                                                    *)
(***************************************************************************)
EXTENDS PagesLemmas

(* What a free frame held is forgotten. *)
LEMMA ForgottenContent ==
  ASSUME NEW c \in [Frame -> Value], content' = Forgotten(c), free' \subseteq Frame
  PROVE  content' \in [Frame -> Value] /\ FreeHoldsOld'
  BY PagesAssumption DEF Forgotten, FreeHoldsOld

(* The page that is copied on write: one entry has a new frame. *)
IsCopied(p, v, new, table) ==
    /\ NewTable(p, table, {new}) /\ DOMAIN table = DOMAIN directory[p]
    /\ \A w \in DOMAIN directory[p] \ {v} : table[w] = directory[p][w]
    /\ Lost(p, table) = {directory[p][v].frame} /\ Counted(table, {new}) = {new}

(* What handlePageFault writes into the table when it copies a page. *)
LEMMA CopiedTable ==
  ASSUME IInv, NEW p \in Process, NEW v \in DOMAIN directory[p], v \in Area, NEW new \in free,
         NEW table, table = [directory[p] EXCEPT ![v] = [frame |-> new, writable |-> TRUE]],
         directory' = [directory EXCEPT ![p] = table]
  PROVE  IsCopied(p, v, new, table)
<1>1. TypeOK /\ OneFrameEach /\ FreeMeansUnmapped
  BY DEF IInv
<1>2. IsTable(directory[p]) /\ free \subseteq Frame
  BY <1>1 DEF TypeOK
<1>3. DOMAIN table = DOMAIN directory[p] /\ table[v] = [frame |-> new, writable |-> TRUE]
  BY <1>2 DEF IsTable
<1>4. \A w \in DOMAIN directory[p] \ {v} : table[w] = directory[p][w]
  BY <1>2 DEF IsTable
<1>5. table[v].frame = new /\ table[v].writable
  BY <1>3, NewEntry, Zenon
<1>6. IsTable(table)
  <2>1. [frame |-> new, writable |-> TRUE] \in Entry
    BY <1>2 DEF Entry
  <2> QED
    BY <2>1, <1>2 DEF IsTable
<1>7. \A q \in Process : \A w \in DOMAIN directory[q] : directory[q][w].frame # new
  BY <1>1, <1>2 DEF FreeMeansUnmapped
<1>8. \A w \in DOMAIN table : table[w].frame = new => w = v
  BY <1>3, <1>4, <1>7
<1>9. NewTable(p, table, {new})
  <2>1. \A w \in DOMAIN table :
          \/ w \in DOMAIN directory[p] /\ table[w] = directory[p][w]
          \/ table[w].frame \in {new} /\ table[w].writable
    BY <1>3, <1>4, <1>5
  <2>2. \A w, u \in DOMAIN table :
          table[w].frame \in {new} /\ table[w].frame = table[u].frame => w = u
    BY <1>8
  <2>3. \A f \in {new} : \E w \in DOMAIN table : table[w].frame = f
    BY <1>3, <1>5
  <2>4. \A w \in StackArea \cap DOMAIN directory[p] :
          w \in DOMAIN table /\ table[w] = directory[p][w]
    BY <1>3, <1>4, Numbers
  <2> QED
    BY <2>1, <2>2, <2>3, <2>4, <1>6, Zenon DEF NewTable
<1>10. Lost(p, table) = {directory[p][v].frame}
  <2>1. directory[p][v].frame \in Frame
    BY <1>1, EntryFrames
  <2>2. \A w \in DOMAIN table : table[w].frame # directory[p][v].frame
    BY <1>1, <1>3, <1>4, <1>5, <1>7 DEF OneFrameEach
  <2>3. ASSUME NEW f \in Lost(p, table) PROVE f = directory[p][v].frame
    BY <1>3, <1>4 DEF Lost
  <2> QED
    BY <2>1, <2>2, <2>3 DEF Lost
<1>11. Counted(table, {new}) = {new}
  BY <1>3, <1>5 DEF Counted
<1> QED
  BY <1>3, <1>4, <1>9, <1>10, <1>11, ZenonT(60) DEF IsCopied

(* Copy on write keeps the invariant. *)
LEMMA CopyInv ==
  ASSUME IInv, NEW p \in Process, NEW v \in Page, copyOnWrite(p, v)
  PROVE  IInv'
<1> DEFINE new   == allocate(p, {v})[v]
           old   == directory[p][v].frame
           table == [directory[p] EXCEPT ![v] = [frame |-> new, writable |-> TRUE]]
<1>1. TypeOK /\ MappedAsAsked /\ CachedIsCurrent /\ FreeMeansUnmapped
  BY DEF IInv
<1>2. state[p] = "alive" /\ v \in DOMAIN directory[p] /\ v \in Area /\ Enough({v})
  BY Numbers DEF copyOnWrite, Faults
<1>3. new \in free /\ free \subseteq Frame
  <2>1. free \subseteq Frame
    BY <1>1 DEF TypeOK
  <2>2. allocate(p, {v}) \in [{v} -> free]
    BY <2>1, <1>2, FS_Singleton, Allocated, ZenonT(60)
  <2> QED
    BY <2>1, <2>2
<1>4. old \in Frame /\ old # new
  BY <1>1, <1>2, <1>3, EntryFrames DEF FreeMeansUnmapped
<1>5. /\ directory' = [directory EXCEPT ![p] = table]
      /\ tlb' = [tlb EXCEPT ![p] = INVLPG(tlb[p], directory'[p], {v})]
      /\ count' = Recount(old, new) /\ free' = (free \ {new}) \cup Unreferenced(count', {old})
      /\ UNCHANGED <<state, heap, stackPages>>
  BY DEF copyOnWrite
<1>6. PICK e \in Entries(p, v) : content' = Forgotten(copied(new, e.frame))
  BY DEF copyOnWrite
<1> HIDE DEF new, table
<1>7. /\ NewTable(p, table, {new}) /\ DOMAIN table = DOMAIN directory[p]
      /\ \A w \in DOMAIN directory[p] \ {v} : table[w] = directory[p][w]
      /\ Lost(p, table) = {old} /\ Counted(table, {new}) = {new}
  <2>1. table = [directory[p] EXCEPT ![v] = [frame |-> new, writable |-> TRUE]]
    BY DEF table
  <2>2. IsCopied(p, v, new, table)
    BY <2>1, <1>2, <1>3, <1>5, CopiedTable, Zenon
  <2> QED
    BY <2>2 DEF IsCopied
<1> HIDE DEF old
<1>8. CachedIsCurrent'
  <2>1. OnlyAt(p, table, {v})
    BY <1>2, <1>7 DEF OnlyAt
  <2> QED
    BY <2>1, <1>1, <1>5, <1>7, Flushed, ZenonT(60)
<1>9. \A q \in Process : directory'[q] = IF q = p THEN table ELSE directory[q]
  BY <1>1, <1>7, TableTypes
<1>10. MappedAsAsked' /\ HeapShape'
  BY <1>5, <1>7, <1>9, ZenonT(60) DEF IInv, MappedAsAsked, HeapShape
<1>11. count' = [f \in Frame |->
             IF f \in Counted(table, {new}) THEN count[f] + 1
             ELSE IF f \in Lost(p, table) THEN count[f] - 1 ELSE count[f]]
  BY <1>4, <1>5, <1>7, Zenon DEF Recount, increment, decrement
<1>12. free' = (free \ {new}) \cup {f \in Lost(p, table) : count'[f] = 0}
  BY <1>5, <1>7 DEF Unreferenced
<1>13. content' \in [Frame -> Value] /\ FreeHoldsOld'
  <2>1. e.frame \in Frame
    BY <1>1, <1>2, <1>6, CurrentEntry, EntryFrames
  <2>2. copied(new, e.frame) \in [Frame -> Value]
    BY <2>1, <1>1, <1>3 DEF copied, TypeOK
  <2>3. free' \subseteq Frame
    BY <1>3, <1>4, <1>7, <1>12
  <2> QED
    BY <2>2, <2>3, <1>6, ForgottenContent
<1>14. /\ state' \in [Process -> {"unborn", "alive", "dead"}]
       /\ heap' \in [Process -> [break : 0..MaximumHeapBreak - 1, pages : Int]]
       /\ stackPages' \in [Process -> 0..Reserved]
  BY <1>1, <1>5 DEF TypeOK
<1> QED
  BY <1>7, <1>8, <1>10, <1>11, <1>12, <1>13, <1>14, TableInv, Zenon
(* The heap sbrk leaves behind. *)
After(p, amount) ==
    LET now == IF heap[p].break = 0 THEN [break |-> imageEnd, pages |-> 1] ELSE heap[p]
        new == now.break + amount
    IN  IF new >= MaximumHeapBreak THEN now
        ELSE [break |-> new, pages |-> PagesAt(new, now.pages)]

(* The break and the page count sbrk leaves behind agree. *)
LEMMA AfterFits ==
  ASSUME IInv, NEW p \in Process, NEW amount \in Amounts, sbrk(p, amount)
  PROVE  LET after == After(p, amount)
         IN  /\ after \in [break : 0..MaximumHeapBreak - 1, pages : Int]
             /\ after.break # 0 /\ Fits(after.break, after.pages)
             /\ after.pages \in Int /\ 0 <= ImagePages + after.pages /\ after.pages <= HeapPages
<1> DEFINE now   == IF heap[p].break = 0 THEN [break |-> imageEnd, pages |-> 1] ELSE heap[p]
           new   == now.break + amount
           after == After(p, amount)
<1>1. amount \in Int /\ new >= LowestBreak /\ LowestBreak \in Nat /\ LowestBreak > 0
  <2>1. new >= LowestBreak
    BY Zenon DEF sbrk
  <2>2. amount \in Int /\ LowestBreak \in Nat /\ LowestBreak > 0
    BY PagesAssumption
  <2> QED
    BY <2>1, <2>2, SMT, ZenonT(30), SMTT(60)
<1>2. imageEnd \in Nat /\ imageEnd > 0 /\ imageEnd < MaximumHeapBreak /\ Fits(imageEnd, 1)
  <2>1. imageEnd = ImagePages * PageSize /\ imageEnd > 0
    BY Numbers DEF imageEnd
  <2>2. MaximumHeapBreak = imageEnd + HeapPages * PageSize
    BY <2>1, Numbers, Products DEF MaximumHeapBreak
  <2>3. HeapPages * PageSize > 0
    BY Numbers
  <2>4. (1 - 1) * PageSize = 0 /\ 1 * PageSize = PageSize
    BY Numbers
  <2> QED
    BY <2>1, <2>2, <2>3, <2>4, Numbers DEF Fits
<1>3. /\ now.break \in Nat /\ now.break > 0 /\ now.break < MaximumHeapBreak /\ now.pages \in Int
      /\ Fits(now.break, now.pages) /\ now \in [break : 0..MaximumHeapBreak - 1, pages : Int]
  <2>1. CASE heap[p].break = 0
    <3>1. now = [break |-> imageEnd, pages |-> 1]
      BY <2>1
    <3>2. now.break = imageEnd /\ now.pages = 1
      BY <3>1
    <3>3. imageEnd \in 0..MaximumHeapBreak - 1
      BY <1>2, Numbers
    <3>4. now \in [break : 0..MaximumHeapBreak - 1, pages : Int]
      BY <3>1, <3>3
    <3> QED
      BY <3>2, <3>4, <1>2
  <2>2. CASE heap[p].break # 0
    BY <2>2, HeapBounds
  <2> QED
    BY <2>1, <2>2
<1> HIDE DEF now
<1>4. /\ after \in [break : 0..MaximumHeapBreak - 1, pages : Int] /\ after.break \in Nat
      /\ after.break # 0 /\ after.break < MaximumHeapBreak
      /\ after.pages \in Int /\ Fits(after.break, after.pages)
  <2>1. CASE new >= MaximumHeapBreak
    <3>1. after = now
      BY <2>1 DEF After, now
    <3> QED
      BY <3>1, <1>3
  <2>2. CASE ~(new >= MaximumHeapBreak)
    <3>1. after = [break |-> new, pages |-> PagesAt(new, now.pages)]
      BY <2>2 DEF After, now
    <3>2. new \in Nat /\ new > 0 /\ new < MaximumHeapBreak /\ new \in 0..MaximumHeapBreak - 1
      BY <2>2, <1>1, <1>3, Numbers
    <3>3. PagesAt(new, now.pages) \in Int /\ Fits(new, PagesAt(new, now.pages))
      BY <3>2, <1>3, PagesFit
    <3> HIDE DEF new, after
    <3>4. after.break = new /\ after.pages = PagesAt(new, now.pages)
      BY <3>1
    <3>5. after \in [break : 0..MaximumHeapBreak - 1, pages : Int]
      BY <3>1, <3>2, <3>3
    <3> QED
      BY <3>2, <3>3, <3>4, <3>5
  <2> QED
    BY <2>1, <2>2
<1> HIDE DEF after
<1>5. 0 <= ImagePages + after.pages /\ after.pages <= HeapPages
  BY <1>4, HeapFits
<1> QED
  BY <1>4, <1>5 DEF after

(* sbrk keeps the invariant, whether it grows, shrinks or refuses. *)
LEMMA SbrkInv ==
  ASSUME IInv, NEW p \in Process, NEW amount \in Amounts, sbrk(p, amount)
  PROVE  IInv'
<1> DEFINE after == After(p, amount)
           more  == HeapRange(heap[p].pages, after.pages)
           less  == HeapRange(after.pages, heap[p].pages)
           g     == allocate(p, more)
           table == map(Without(directory[p], less), g)
<1>1. TypeOK /\ MappedAsAsked /\ CachedIsCurrent /\ FreeMeansUnmapped
  BY SMT, ZenonT(30), SMTT(60) DEF IInv
<1>2. state[p] = "alive" /\ Enough(more)
  BY ZenonT(60) DEF sbrk, After
<1>3. /\ after \in [break : 0..MaximumHeapBreak - 1, pages : Int]
      /\ after.break # 0 /\ Fits(after.break, after.pages)
      /\ after.pages \in Int /\ 0 <= ImagePages + after.pages /\ after.pages <= HeapPages
  BY AfterFits
<1>4. heap[p].pages \in Int /\ 0 <= ImagePages + heap[p].pages /\ heap[p].pages <= HeapPages
  BY HeapBounds, SMT, ZenonT(30), SMTT(60)
<1>5. /\ heap' = [heap EXCEPT ![p] = after]
      /\ directory' = [directory EXCEPT ![p] = table]
      /\ tlb' = [tlb EXCEPT ![p] = INVLPG(tlb[p], directory'[p], more \cup less)]
      /\ count' = decrement(increment(count, FramesOf(g)), Had(p, less))
      /\ free' = (free \ FramesOf(g)) \cup Unreferenced(count', Had(p, less))
      /\ content' = Forgotten(content)
      /\ UNCHANGED <<state, stackPages>>
  BY Zenon DEF sbrk, After, Had
<1> HIDE DEF after
<1>6. stackPages[p] \in 0..Reserved
  BY <1>1 DEF TypeOK
<1>7. DOMAIN directory[p] =
        (0..ImagePages + heap[p].pages - 1) \cup (Top - stackPages[p]..Top - 1)
  BY <1>1, <1>2, ZenonT(60) DEF MappedAsAsked
<1>8. more \subseteq Area /\ less \subseteq Area
  BY <1>3, <1>4, Numbers DEF HeapRange, Area
<1>9. more \cap DOMAIN directory[p] = {}
  <2>1. \A w \in Top - stackPages[p]..Top - 1 : w \notin Area
    BY <1>6, Numbers DEF Area
  <2>2. \A w \in more : w \notin 0..ImagePages + heap[p].pages - 1
    BY <1>3, <1>4, Numbers DEF HeapRange
  <2> HIDE DEF more
  <2> QED
    BY <2>1, <2>2, <1>7, <1>8
<1>10. (DOMAIN directory[p] \ less) \cup more =
         (0..ImagePages + after.pages - 1) \cup (Top - stackPages[p]..Top - 1)
  <2>1. \A w \in Top - stackPages[p]..Top - 1 : w \notin less
    BY <1>6, <1>8, Numbers DEF Area
  <2>2. ((0..ImagePages + heap[p].pages - 1) \ less) \cup more = 0..ImagePages + after.pages - 1
    BY <1>3, <1>4, Numbers DEF HeapRange
  <2> HIDE DEF more, less
  <2> QED
    BY <2>1, <2>2, <1>7
<1>11. g \in [more -> free] /\ Distinct(g)
  <2>1. IsFiniteSet(more)
    <3>1. ImagePages + heap[p].pages \in Int /\ ImagePages + after.pages - 1 \in Int
      BY <1>3, <1>4, Numbers
    <3>2. IsFiniteSet(ImagePages + heap[p].pages..ImagePages + after.pages - 1)
      BY <3>1, FS_Interval
    <3> QED
      BY <3>2 DEF HeapRange
  <2>2. free \subseteq Frame
    BY <1>1 DEF TypeOK
  <2> HIDE DEF more
  <2> QED
    BY <2>1, <2>2, <1>2, Allocated
<1>12. Maps(p, more, less, g, table)
  <2> HIDE DEF more, less, g
  <2>1. less \cap StackArea = {} /\ more \cap (DOMAIN directory[p] \ less) = {} /\ more \subseteq Page
    BY <1>8, <1>9, Numbers
  <2>2. table = map(Without(directory[p], less), g)
    OBVIOUS
  <2> HIDE DEF table
  <2> QED
    BY <2>1, <2>2, <1>5, <1>11 DEF Maps
<1> HIDE DEF more, less, g, table
<1>13. IsMapped(p, more, less, g, table)
  BY <1>12, Mapped
<1>14. /\ NewTable(p, table, FramesOf(g)) /\ DOMAIN table = (DOMAIN directory[p] \ less) \cup more
       /\ \A w \in DOMAIN directory[p] \ less : table[w] = directory[p][w]
       /\ Lost(p, table) = Had(p, less) /\ Counted(table, FramesOf(g)) = FramesOf(g)
  <2>1. InArea(g) = FramesOf(g)
    BY <1>8, <1>11, SMT, ZenonT(30), SMTT(60) DEF InArea, FramesOf
  <2> QED
    BY <2>1, <1>13 DEF IsMapped
<1>15. CachedIsCurrent'
  <2>1. OnlyAt(p, table, more \cup less)
    BY <1>14 DEF OnlyAt
  <2> QED
    BY <2>1, <1>1, <1>5, <1>14, Flushed, Zenon
<1>16. \A q \in Process : directory'[q] = IF q = p THEN table ELSE directory[q]
  BY <1>1, <1>14, TableTypes
<1>17. \A q \in Process : heap'[q] = IF q = p THEN after ELSE heap[q]
  BY <1>1, <1>5 DEF TypeOK
<1>18. MappedAsAsked'
  <2>1. DOMAIN directory'[p] =
          (0..ImagePages + heap'[p].pages - 1) \cup (Top - stackPages[p]..Top - 1)
    BY <1>10, <1>14, <1>16, <1>17
  <2>2. ASSUME NEW q \in Process, q # p
        PROVE  DOMAIN directory'[q] =
                 IF state[q] = "unborn" THEN {}
                 ELSE (0..ImagePages + heap'[q].pages - 1) \cup (Top - stackPages[q]..Top - 1)
    <3>1. directory'[q] = directory[q] /\ heap'[q] = heap[q]
      BY <2>2, <1>16, <1>17
    <3> QED
      BY <3>1, <1>1, ZenonT(60) DEF MappedAsAsked
  <2> QED
    BY <2>1, <2>2, <1>2, <1>5, Zenon DEF MappedAsAsked
<1>19. HeapShape'
  <2>1. \A q \in Process : heap'[q].break # 0 =>
            state[q] # "unborn" /\ Fits(heap'[q].break, heap'[q].pages)
    BY <1>2, <1>3, <1>17, HeapBounds
  <2>2. \A q \in Process : heap'[q].break = 0 => heap'[q].pages = 0
    BY <1>3, <1>17, HeapBounds, SMT, ZenonT(30), SMTT(60)
  <2> QED
    BY <2>1, <2>2, <1>5 DEF HeapShape, Fits
<1>20. count' = [f \in Frame |->
             IF f \in Counted(table, FramesOf(g)) THEN count[f] + 1
             ELSE IF f \in Lost(p, table) THEN count[f] - 1 ELSE count[f]]
  <2>1. \A f \in Had(p, less) : f \notin FramesOf(g)
    <3>1. FramesOf(g) \subseteq free /\ free \subseteq Frame
      BY <1>1, <1>11, SMT, ZenonT(30), SMTT(60) DEF FramesOf, TypeOK
    <3> QED
      BY <3>1, <1>1 DEF Had, FreeMeansUnmapped
  <2> QED
    BY <2>1, <1>5, <1>14 DEF increment, decrement
<1>21. free' = (free \ FramesOf(g)) \cup {f \in Lost(p, table) : count'[f] = 0}
  BY <1>5, <1>14 DEF Unreferenced
<1>22. content' \in [Frame -> Value] /\ FreeHoldsOld'
  <2>1. free' \subseteq Frame
    BY <1>1, <1>21 DEF TypeOK, Lost
  <2>2. content \in [Frame -> Value]
    BY <1>1 DEF TypeOK
  <2> QED
    BY <2>1, <2>2, <1>5, ForgottenContent
<1>23. /\ state' \in [Process -> {"unborn", "alive", "dead"}]
       /\ heap' \in [Process -> [break : 0..MaximumHeapBreak - 1, pages : Int]]
       /\ stackPages' \in [Process -> 0..Reserved]
  BY <1>1, <1>3, <1>5 DEF TypeOK
<1> QED
  BY <1>14, <1>15, <1>18, <1>19, <1>20, <1>21, <1>22, <1>23, TableInv
-----------------------------------------------------------------------------
(* What fork does to the tables: parent and child share the frames of the     *)
(* process area, which neither may write, and the child has frames of its own *)
(* for the stack.                                                             *)
ForkedTables(p, child, g) ==
    /\ p # child /\ DOMAIN directory[child] = {}
    /\ g \in [StackArea \cap DOMAIN directory[p] -> free] /\ Distinct(g)
    /\ directory' = [q \in Process |-> directory'[q]]
    /\ \A q \in Process \ {p, child} : directory'[q] = directory[q]
    /\ IsTable(directory'[p]) /\ IsTable(directory'[child])
    /\ DOMAIN directory'[p] = DOMAIN directory[p] /\ DOMAIN directory'[child] = DOMAIN directory[p]
    /\ \A v \in DOMAIN directory[p] : /\ directory'[p][v].frame = directory[p][v].frame
                                      /\ directory'[p][v].writable <=> v \in StackArea
                                      /\ directory'[child][v].writable <=> v \in StackArea
    /\ \A v \in Area \cap DOMAIN directory[p] : directory'[child][v].frame = directory[p][v].frame
    /\ \A v \in StackArea \cap DOMAIN directory[p] : directory'[child][v].frame = g[v]

Stack(p) == Top - stackPages[p]..Top - 1

(* The stack fork copies is what the parent has mapped in the stack area. *)
LEMMA StackOf ==
  ASSUME IInv, NEW p \in Process, state[p] = "alive"
  PROVE  Stack(p) = StackArea \cap DOMAIN directory[p]
<1>1. stackPages[p] \in 0..Reserved
  BY DEF IInv, TypeOK
<1>2. DOMAIN directory[p] = (0..ImagePages + heap[p].pages - 1) \cup Stack(p)
  BY Zenon DEF IInv, MappedAsAsked, Stack
<1>3. Stack(p) \subseteq StackArea
  BY <1>1, Numbers DEF Stack, StackArea
<1>4. heap[p].pages \in Int /\ heap[p].pages <= HeapPages
  BY HeapBounds
<1>5. (0..ImagePages + heap[p].pages - 1) \subseteq Area
  BY <1>4, Numbers DEF Area
<1> QED
  BY <1>2, <1>3, <1>5, Numbers

(* forkCurrentPageDirectory takes write access in the area and changes nothing else. *)
LEMMA ReadOnlyTable ==
  ASSUME NEW table, IsTable(table)
  PROVE  /\ IsTable(ReadOnly(table)) /\ DOMAIN ReadOnly(table) = DOMAIN table
         /\ \A v \in DOMAIN table : ReadOnly(table)[v].frame = table[v].frame
         /\ \A v \in Area \cap DOMAIN table : ~ReadOnly(table)[v].writable
         /\ \A v \in DOMAIN table \ Area : ReadOnly(table)[v] = table[v]
<1> DEFINE t == ReadOnly(table)
<1>1. t = [v \in DOMAIN table |-> IF v \in Area THEN [table[v] EXCEPT !.writable = FALSE] ELSE table[v]]
  BY DEF ReadOnly
<1>2. \A v \in DOMAIN table : table[v] \in Entry
  BY DEF IsTable
<1>3. ASSUME NEW e \in Entry
      PROVE  LET r == [e EXCEPT !.writable = FALSE]
             IN  r \in Entry /\ r.frame = e.frame /\ r.writable = FALSE
  BY <1>3, Zenon DEF Entry
<1>4. DOMAIN t = DOMAIN table
  BY <1>1
<1>5. \A v \in DOMAIN table \ Area : t[v] = table[v]
  BY <1>1
<1>6. \A v \in Area \cap DOMAIN table : t[v] = [table[v] EXCEPT !.writable = FALSE]
  BY <1>1
<1>7. \A v \in DOMAIN table : t[v] \in Entry /\ t[v].frame = table[v].frame
  BY <1>2, <1>3, <1>5, <1>6, Zenon
<1>8. \A v \in Area \cap DOMAIN table : ~t[v].writable
  BY <1>2, <1>3, <1>6, ZenonT(60)
<1>9. IsTable(t)
  BY <1>1, <1>4, <1>7 DEF IsTable
<1> QED
  BY <1>4, <1>5, <1>7, <1>8, <1>9

(* The tables of parent and child after a fork. *)
LEMMA ForkTables ==
  ASSUME IInv, NEW p \in Process, NEW child \in Process, fork(p, child)
  PROVE  ForkedTables(p, child, allocate(child, Stack(p)))
<1> DEFINE g     == allocate(child, Stack(p))
           rest  == Without(directory[p], StackArea)
           table == map(ReadOnly(rest), g)
<1>1. TypeOK /\ MappedAsAsked /\ StacksWritable
  BY DEF IInv
<1>2. state[p] = "alive" /\ state[child] = "unborn" /\ Enough(Stack(p))
  BY DEF fork, Stack
<1>3. p # child /\ DOMAIN directory[child] = {}
  BY <1>1, <1>2, ZenonT(60) DEF MappedAsAsked
<1>4. Stack(p) = StackArea \cap DOMAIN directory[p]
  BY <1>2, StackOf
<1>5. g \in [Stack(p) -> free] /\ Distinct(g) /\ free \subseteq Frame
  <2>1. Top - stackPages[p] \in Int /\ Top - 1 \in Int
    BY <1>1, Numbers DEF TypeOK
  <2>2. IsFiniteSet(Stack(p))
    BY <2>1, FS_Interval DEF Stack
  <2>3. free \subseteq Frame
    BY <1>1 DEF TypeOK
  <2> QED
    BY <2>2, <2>3, <1>2, Allocated
<1>6. IsTable(directory[p]) /\ directory = [q \in Process |-> directory[q]]
  BY <1>1, SMT, ZenonT(30), SMTT(60) DEF TypeOK
<1>7. directory' = [directory EXCEPT ![p] = ReadOnly(directory[p]), ![child] = table]
  BY DEF fork, Stack
<1>8. DOMAIN rest = DOMAIN directory[p] \ StackArea
      /\ (\A v \in DOMAIN rest : rest[v] = directory[p][v]) /\ IsTable(rest)
  BY <1>6 DEF Without, IsTable
<1> HIDE DEF g, rest
<1>9. DOMAIN ReadOnly(rest) = DOMAIN rest /\ IsTable(ReadOnly(rest))
      /\ (\A v \in DOMAIN rest : ReadOnly(rest)[v].frame = rest[v].frame)
      /\ (\A v \in Area \cap DOMAIN rest : ~ReadOnly(rest)[v].writable)
  BY <1>8, ReadOnlyTable
<1>10. DOMAIN directory[p] \subseteq Page
  BY <1>6 DEF IsTable
<1>11. DOMAIN table = DOMAIN directory[p]
       /\ (\A v \in Area \cap DOMAIN directory[p] : table[v] = ReadOnly(rest)[v])
       /\ (\A v \in Stack(p) : table[v] = [frame |-> g[v], writable |-> TRUE])
  <2>1. DOMAIN g = Stack(p)
    BY <1>5
  <2>2. DOMAIN rest \cup Stack(p) = DOMAIN directory[p]
    BY <1>4, <1>8
  <2>3. \A v \in Area \cap DOMAIN directory[p] : v \in DOMAIN rest
    BY <1>8, Numbers
  <2>4. \A v \in Stack(p) : v \notin DOMAIN rest
    BY <1>4, <1>8
  <2> QED
    BY <2>1, <2>2, <2>3, <2>4, <1>9 DEF map
<1>12. table = [v \in DOMAIN table |-> table[v]]
  BY DEF map
<1> HIDE DEF table
<1>13. \A v \in Stack(p) : table[v].frame = g[v] /\ table[v].writable
  BY <1>11, NewEntry, Zenon
<1>14. ASSUME NEW v \in Area \cap DOMAIN directory[p]
       PROVE  table[v].frame = directory[p][v].frame /\ ~table[v].writable
  <2>1. v \in DOMAIN rest
    BY <1>8, Numbers
  <2> QED
    BY <2>1, <1>8, <1>9, <1>11
<1>15. IsTable(table)
  <2>1. \A v \in Stack(p) : [frame |-> g[v], writable |-> TRUE] \in Entry
    BY <1>5 DEF Entry
  <2>2. \A v \in DOMAIN directory[p] : v \in Area \/ v \in Stack(p)
    BY <1>4, <1>10, Numbers
  <2>3. \A v \in DOMAIN rest : ReadOnly(rest)[v] \in Entry
    BY <1>9 DEF IsTable
  <2>4. \A v \in Area \cap DOMAIN directory[p] : v \in DOMAIN rest
    BY <1>8, Numbers
  <2>5. \A v \in DOMAIN table : table[v] \in Entry
    BY <2>1, <2>2, <2>3, <2>4, <1>11, Zenon
  <2> QED
    BY <2>5, <1>10, <1>11, <1>12 DEF IsTable
<1>16. /\ directory' = [q \in Process |-> directory'[q]]
       /\ directory'[p] = ReadOnly(directory[p]) /\ directory'[child] = table
       /\ \A q \in Process \ {p, child} : directory'[q] = directory[q]
  BY <1>3, <1>6, <1>7, ZenonT(60)
<1>17. /\ IsTable(directory'[p]) /\ DOMAIN directory'[p] = DOMAIN directory[p]
       /\ \A v \in DOMAIN directory[p] : directory'[p][v].frame = directory[p][v].frame
       /\ \A v \in Area \cap DOMAIN directory[p] : ~directory'[p][v].writable
       /\ \A v \in DOMAIN directory[p] \ Area : directory'[p][v] = directory[p][v]
  BY <1>6, <1>16, ReadOnlyTable
<1>18. \A v \in DOMAIN directory[p] : directory'[p][v].writable <=> v \in StackArea
  BY <1>1, <1>10, <1>17, Numbers DEF StacksWritable
<1>19. \A v \in DOMAIN directory[p] : directory'[child][v].writable <=> v \in StackArea
  BY <1>4, <1>10, <1>13, <1>14, <1>16, Numbers, SMT, ZenonT(30), SMTT(60)
<1>20. ForkedTables(p, child, g)
  BY <1>3, <1>4, <1>5, <1>11, <1>13, <1>14, <1>15, <1>16, <1>17, <1>18, <1>19, SMT, ZenonT(30), SMTT(60) DEF ForkedTables
<1> QED
  BY <1>20 DEF g

(* What is writable after a fork, the two stacks, is shared by nobody. *)
LEMMA ForkAlone ==
  ASSUME IInv, NEW p \in Process, NEW child \in Process, NEW g, ForkedTables(p, child, g)
  PROVE  WritableMeansAlone' /\ OneFrameEach' /\ StacksWritable'
<1>0. /\ p # child /\ g \in [StackArea \cap DOMAIN directory[p] -> free] /\ Distinct(g)
      /\ \A q \in Process \ {p, child} : directory'[q] = directory[q]
      /\ DOMAIN directory'[p] = DOMAIN directory[p] /\ DOMAIN directory'[child] = DOMAIN directory[p]
      /\ \A v \in DOMAIN directory[p] : /\ directory'[p][v].frame = directory[p][v].frame
                                        /\ directory'[p][v].writable <=> v \in StackArea
                                        /\ directory'[child][v].writable <=> v \in StackArea
      /\ \A v \in Area \cap DOMAIN directory[p] : directory'[child][v].frame = directory[p][v].frame
      /\ \A v \in StackArea \cap DOMAIN directory[p] : directory'[child][v].frame = g[v]
  BY DEF ForkedTables
<1>1. TypeOK /\ OneFrameEach /\ FreeMeansUnmapped /\ WritableMeansAlone /\ StacksWritable
  BY DEF IInv
<1>2. \A q \in Process : \A v \in DOMAIN directory[q] : directory[q][v].frame \notin free
  BY <1>1 DEF FreeMeansUnmapped, TypeOK
<1>3. \A v \in DOMAIN directory[p] : v \in Area \/ v \in StackArea
  BY <1>1, EntryFrames, Numbers
<1>4. \A v \in StackArea \cap DOMAIN directory[p] : directory'[child][v].frame \in free
  BY <1>0
<1>5. \A v \in Area \cap DOMAIN directory[p] : directory'[child][v].frame \notin free
  BY <1>0, <1>2
<1>6. \A v, w \in StackArea \cap DOMAIN directory[p] :
          directory'[child][v].frame = directory'[child][w].frame => v = w
  BY <1>0 DEF Distinct
<1>7. ASSUME NEW v \in DOMAIN directory[p], NEW w \in DOMAIN directory[p],
             directory'[child][v].frame = directory'[child][w].frame
      PROVE  v = w
  <2>1. CASE v \in Area /\ w \in Area
    <3>1. directory[p][v].frame = directory[p][w].frame
      BY <2>1, <1>0, <1>7
    <3> QED
      BY <3>1, <1>1 DEF OneFrameEach
  <2>2. CASE v \in StackArea /\ w \in StackArea
    BY <2>2, <1>6, <1>7
  <2>3. CASE v \in Area /\ w \in StackArea
    BY <2>3, <1>4, <1>5, <1>7
  <2>4. CASE v \in StackArea /\ w \in Area
    BY <2>4, <1>4, <1>5, <1>7
  <2> QED
    BY <2>1, <2>2, <2>3, <2>4, <1>3
<1>8. \A q \in Process : q # child => \A v \in DOMAIN directory'[q] :
          /\ v \in DOMAIN directory[q] /\ directory'[q][v].frame = directory[q][v].frame
          /\ directory'[q][v].writable => directory[q][v].writable
  BY <1>0, <1>1 DEF StacksWritable
<1>9. OneFrameEach'
  <2> SUFFICES ASSUME NEW q \in Process, NEW v \in DOMAIN directory'[q], NEW w \in DOMAIN directory'[q],
                      directory'[q][v].frame = directory'[q][w].frame
               PROVE  v = w
    BY DEF OneFrameEach
  <2>1. CASE q = child
    BY <2>1, <1>0, <1>7
  <2>2. CASE q # child
    BY <2>2, <1>1, <1>8 DEF OneFrameEach
  <2> QED
    BY <2>1, <2>2
<1>10. StacksWritable'
  <2> SUFFICES ASSUME NEW q \in Process, NEW v \in StackArea \cap DOMAIN directory'[q]
               PROVE  directory'[q][v].writable
    BY DEF StacksWritable
  <2>1. CASE q \in {p, child}
    BY <2>1, <1>0
  <2>2. CASE q \notin {p, child}
    BY <2>2, <1>0, <1>1 DEF StacksWritable
  <2> QED
    BY <2>1, <2>2
<1>11. ASSUME NEW q \in Process, NEW r \in Process,
              NEW v \in DOMAIN directory'[q], NEW w \in DOMAIN directory'[r],
              directory'[q][v].writable, directory'[q][v].frame = directory'[r][w].frame
       PROVE  q = r /\ v = w
  <2>1. CASE q = child /\ r = child
    BY <2>1, <1>0, <1>7, <1>11
  <2>2. CASE q = child /\ r # child
    <3>1. v \in StackArea \cap DOMAIN directory[p]
      BY <2>2, <1>0, <1>11
    <3>2. directory'[r][w].frame \notin free
      BY <2>2, <1>2, <1>8
    <3> QED
      BY <3>1, <3>2, <2>2, <1>4, <1>11, SMT, ZenonT(30), SMTT(60)
  <2>3. CASE q # child /\ r = child
    <3>1. v \in DOMAIN directory[q] /\ directory'[q][v].frame = directory[q][v].frame
          /\ directory[q][v].writable
      BY <2>3, <1>8, <1>11
    <3>2. w \in DOMAIN directory[p]
      BY <2>3, <1>0
    <3>3. w \in Area
      BY <3>1, <3>2, <2>3, <1>2, <1>3, <1>4, <1>11, ZenonT(60)
    <3>4. directory[q][v].frame = directory[p][w].frame
      BY <3>1, <3>2, <3>3, <2>3, <1>0, <1>11
    <3>5. q = p /\ v = w
      BY <3>1, <3>2, <3>4, <1>1, SMT, ZenonT(30), SMTT(60) DEF WritableMeansAlone
    <3>6. v \in StackArea
      BY <3>1, <3>5, <1>0, <1>11
    <3> QED
      BY <3>3, <3>5, <3>6, Numbers
  <2>4. CASE q # child /\ r # child
    BY <2>4, <1>1, <1>8, <1>11 DEF WritableMeansAlone
  <2> QED
    BY <2>1, <2>2, <2>3, <2>4, SMT, ZenonT(30), SMTT(60)
<1>12. WritableMeansAlone'
  BY <1>11 DEF WritableMeansAlone
<1> QED
  BY <1>9, <1>10, <1>12

(* fork counts the child once for every frame it shares. *)
LEMMA ForkCounts ==
  ASSUME IInv, NEW p \in Process, NEW child \in Process, NEW g, ForkedTables(p, child, g),
         count' = increment(count, Shared(directory[p]))
  PROVE  CountsMatch' /\ count' \in [Frame -> Nat]
<1>0. /\ p # child /\ DOMAIN directory[child] = {}
      /\ \A q \in Process \ {p, child} : directory'[q] = directory[q]
      /\ DOMAIN directory'[p] = DOMAIN directory[p] /\ DOMAIN directory'[child] = DOMAIN directory[p]
      /\ \A v \in DOMAIN directory[p] : directory'[p][v].frame = directory[p][v].frame
      /\ \A v \in Area \cap DOMAIN directory[p] : directory'[child][v].frame = directory[p][v].frame
  BY DEF ForkedTables
<1>1. \A f \in Frame : count[f] = Cardinality(Holders(f))
  BY DEF IInv, CountsMatch
<1>2. \A f : Holders(f) \subseteq Process /\ Holders(f)' \subseteq Process /\ child \notin Holders(f)
  BY <1>0 DEF Holders
<1>3. \A f : \A q \in Process : q # child => (q \in Holders(f)' <=> q \in Holders(f))
  BY <1>0 DEF Holders
<1>4. \A f : child \in Holders(f)' <=> f \in Shared(directory[p])
  BY <1>0 DEF Holders, Shared
<1>5. ASSUME NEW f \in Frame
      PROVE  count'[f] = Cardinality(Holders(f)') /\ count'[f] \in Nat
  <2>1. IsFiniteSet(Holders(f))
    BY <1>2, PagesAssumption, FS_Subset
  <2>2. count[f] \in Nat /\ count[f] = Cardinality(Holders(f))
    BY <2>1, <1>1, FS_CardinalityType
  <2>3. CASE f \in Shared(directory[p])
    <3>1. Holders(f)' = Holders(f) \cup {child}
      BY <2>3, <1>2, <1>3, <1>4
    <3>2. Cardinality(Holders(f) \cup {child}) = Cardinality(Holders(f)) + 1
      BY <2>1, <1>2, FS_AddElement, ZenonT(60)
    <3> QED
      BY <3>1, <3>2, <2>2, <2>3 DEF increment
  <2>4. CASE f \notin Shared(directory[p])
    <3>1. Holders(f)' = Holders(f)
      BY <2>4, <1>2, <1>3, <1>4
    <3> QED
      BY <3>1, <2>2, <2>4 DEF increment
  <2> QED
    BY <2>3, <2>4
<1> QED
  BY <1>5 DEF CountsMatch, increment

(* fork takes frames for the child's stack only, and frees none. *)
LEMMA ForkFree ==
  ASSUME IInv, NEW p \in Process, NEW child \in Process, NEW g, ForkedTables(p, child, g),
         free' = free \ FramesOf(g)
  PROVE  FreeMeansUnmapped'
<1>0. /\ p # child /\ DOMAIN directory[child] = {}
      /\ g \in [StackArea \cap DOMAIN directory[p] -> free]
      /\ \A q \in Process \ {p, child} : directory'[q] = directory[q]
      /\ DOMAIN directory'[p] = DOMAIN directory[p] /\ DOMAIN directory'[child] = DOMAIN directory[p]
      /\ \A v \in DOMAIN directory[p] : directory'[p][v].frame = directory[p][v].frame
      /\ \A v \in Area \cap DOMAIN directory[p] : directory'[child][v].frame = directory[p][v].frame
      /\ \A v \in StackArea \cap DOMAIN directory[p] : directory'[child][v].frame = g[v]
  BY DEF ForkedTables
<1>1. TypeOK /\ FreeMeansUnmapped
  BY DEF IInv
<1>2. \A v \in DOMAIN directory[p] : v \in Area \/ v \in StackArea
  BY <1>1, EntryFrames, Numbers
<1>3. FramesOf(g) = {g[v] : v \in StackArea \cap DOMAIN directory[p]}
  BY <1>0 DEF FramesOf
<1>4. ASSUME NEW f \in Frame, f \in free', NEW q \in Process, NEW v \in DOMAIN directory'[q]
      PROVE  directory'[q][v].frame # f
  <2>1. f \in free /\ f \notin FramesOf(g)
    BY <1>4
  <2>2. \A r \in Process : \A w \in DOMAIN directory[r] : directory[r][w].frame # f
    BY <2>1, <1>1 DEF FreeMeansUnmapped
  <2>3. CASE q = child
    BY <2>1, <2>2, <2>3, <1>0, <1>2, <1>3, SMT, ZenonT(30), SMTT(60)
  <2>4. CASE q # child
    BY <2>2, <2>4, <1>0
  <2> QED
    BY <2>3, <2>4
<1>5. ASSUME NEW f \in Frame, f \notin free'
      PROVE  \E q \in Process : \E v \in DOMAIN directory'[q] : directory'[q][v].frame = f
  <2>1. CASE f \in FramesOf(g)
    <3>1. PICK v \in StackArea \cap DOMAIN directory[p] : g[v] = f
      BY <2>1, <1>3, SMT, ZenonT(30), SMTT(60)
    <3> QED
      BY <3>1, <1>0
  <2>2. CASE f \notin free
    <3>1. PICK q \in Process : \E v \in DOMAIN directory[q] : directory[q][v].frame = f
      BY <2>2, <1>1 DEF FreeMeansUnmapped
    <3>2. q # child
      BY <3>1, <1>0
    <3> QED
      BY <3>1, <3>2, <1>0
  <2> QED
    BY <2>1, <2>2, <1>5, SMT, ZenonT(30), SMTT(60)
<1> QED
  BY <1>4, <1>5 DEF FreeMeansUnmapped

(* fork keeps the invariant. *)
LEMMA ForkInv ==
  ASSUME IInv, NEW p \in Process, NEW child \in Process, fork(p, child)
  PROVE  IInv'
<1> DEFINE g == allocate(child, Stack(p))
<1>1. TypeOK /\ MappedAsAsked /\ CachedIsCurrent
  BY DEF IInv
<1>2. ForkedTables(p, child, g)
  BY ForkTables, SMT, ZenonT(30), SMTT(60)
<1>3. /\ state[p] = "alive" /\ state[child] = "unborn" /\ state' = [state EXCEPT ![child] = "alive"]
      /\ tlb' = [tlb EXCEPT ![p] = directory'[p], ![child] = directory'[child]]
      /\ heap' = [heap EXCEPT ![child] = heap[p]]
      /\ stackPages' = [stackPages EXCEPT ![child] = stackPages[p]]
      /\ free' = free \ FramesOf(g) /\ count' = increment(count, Shared(directory[p]))
      /\ content' = [f \in Frame |->
            IF f \in FramesOf(g)
            THEN content[directory[p][CHOOSE v \in Stack(p) : g[v] = f].frame] ELSE content[f]]
  BY DEF fork, Stack, reload, ForkedHeap
<1> HIDE DEF g
<1>4. WritableMeansAlone' /\ OneFrameEach' /\ StacksWritable'
  BY <1>2, ForkAlone
<1>5. CountsMatch' /\ count' \in [Frame -> Nat]
  BY <1>2, <1>3, ForkCounts
<1>6. FreeMeansUnmapped'
  BY <1>2, <1>3, ForkFree
<1>7. /\ p # child /\ directory' = [q \in Process |-> directory'[q]]
      /\ g \in [StackArea \cap DOMAIN directory[p] -> free]
      /\ \A q \in Process \ {p, child} : directory'[q] = directory[q]
      /\ IsTable(directory'[p]) /\ IsTable(directory'[child])
      /\ DOMAIN directory'[p] = DOMAIN directory[p] /\ DOMAIN directory'[child] = DOMAIN directory[p]
  BY <1>2 DEF ForkedTables
<1>8. CachedIsCurrent'
  BY <1>1, <1>3, <1>7, ZenonT(60) DEF CachedIsCurrent, TypeOK
<1>9. \A q \in Process : /\ heap'[q] = IF q = child THEN heap[p] ELSE heap[q]
                         /\ stackPages'[q] = IF q = child THEN stackPages[p] ELSE stackPages[q]
                         /\ state'[q] = IF q = child THEN "alive" ELSE state[q]
  BY <1>1, <1>3 DEF TypeOK
<1>10. MappedAsAsked'
  <2> SUFFICES ASSUME NEW q \in Process
               PROVE  DOMAIN directory'[q] =
                 IF state'[q] = "unborn" THEN {}
                 ELSE (0..ImagePages + heap'[q].pages - 1) \cup (Top - stackPages'[q]..Top - 1)
    BY Zenon DEF MappedAsAsked
  <2>1. CASE q = child
    <3>1. DOMAIN directory[p] =
            (0..ImagePages + heap[p].pages - 1) \cup (Top - stackPages[p]..Top - 1)
      BY <1>1, <1>3, Zenon DEF MappedAsAsked
    <3>2. /\ state'[q] = "alive" /\ heap'[q] = heap[p] /\ stackPages'[q] = stackPages[p]
          /\ DOMAIN directory'[q] = DOMAIN directory[p]
      BY <2>1, <1>7, <1>9
    <3> QED
      BY <3>1, <3>2
  <2>2. CASE q # child
    <3>1. /\ state'[q] = state[q] /\ heap'[q] = heap[q] /\ stackPages'[q] = stackPages[q]
          /\ DOMAIN directory'[q] = DOMAIN directory[q]
      BY <2>2, <1>7, <1>9
    <3> QED
      BY <3>1, <1>1 DEF MappedAsAsked
  <2> QED
    BY <2>1, <2>2
<1>11. HeapShape'
  <2>1. \A q \in Process : heap'[q].break # 0 =>
            state'[q] # "unborn" /\ Fits(heap'[q].break, heap'[q].pages)
    BY <1>9, HeapBounds
  <2>2. \A q \in Process : heap'[q].break = 0 => heap'[q].pages = 0
    BY <1>9, HeapBounds, SMT, ZenonT(30), SMTT(60)
  <2> QED
    BY <2>1, <2>2, SMT, ZenonT(30), SMTT(60) DEF HeapShape, Fits
<1>12. FreeHoldsOld' /\ free' \subseteq Frame
  BY <1>1, <1>3, SMT, ZenonT(30), SMTT(60) DEF IInv, TypeOK, FreeHoldsOld
<1>13. content' \in [Frame -> Value]
  <2>1. ASSUME NEW f \in FramesOf(g)
        PROVE  content[directory[p][CHOOSE v \in Stack(p) : g[v] = f].frame] \in Value
    <3> DEFINE u == CHOOSE v \in Stack(p) : g[v] = f
    <3>1. Stack(p) = StackArea \cap DOMAIN directory[p]
      BY <1>3, StackOf
    <3>2. \E v \in Stack(p) : g[v] = f
      BY <3>1, <1>7, SMT, ZenonT(30), SMTT(60) DEF FramesOf
    <3>3. u \in DOMAIN directory[p]
      BY <3>1, <3>2
    <3> HIDE DEF u
    <3>4. directory[p][u].frame \in Frame
      BY <3>3, <1>1, EntryFrames
    <3> QED
      BY <3>4, <1>1 DEF TypeOK, u
  <2> QED
    BY <2>1, <1>1, <1>3, ZenonT(60) DEF TypeOK
<1>14. \A q \in Process : IsTable(directory'[q])
  BY <1>1, <1>7 DEF TypeOK
<1>15. /\ state' \in [Process -> {"unborn", "alive", "dead"}]
       /\ heap' \in [Process -> [break : 0..MaximumHeapBreak - 1, pages : Int]]
       /\ stackPages' \in [Process -> 0..Reserved]
  BY <1>1, <1>3 DEF TypeOK
<1>16. tlb' = directory'
  BY <1>8 DEF CachedIsCurrent
<1>17. TypeOK'
  BY <1>5, <1>7, <1>12, <1>13, <1>14, <1>15, <1>16, SMT, ZenonT(30), SMTT(60) DEF TypeOK, IsTable, Entry
<1> QED
  BY <1>4, <1>5, <1>6, <1>8, <1>10, <1>11, <1>12, <1>17 DEF IInv

-----------------------------------------------------------------------------
(* Every step keeps the invariant. *)
LEMMA NextInv ==
  ASSUME IInv, [Next]_vars
  PROVE  IInv'
<1>1. ASSUME NEW p \in Process, NEW v \in Accessed, NEW x \in Stored, store(p, v, x) PROVE IInv'
  BY <1>1, StoreInv
<1>2. ASSUME NEW p \in Process, NEW v \in SyscallPages, NEW x \in Stored, kernelStore(p, v, x)
      PROVE  IInv'
  BY <1>2, StoreInv
<1>3. ASSUME NEW p \in Process, NEW v \in Accessed, growStack(p, v) PROVE IInv'
  BY <1>3, GrowInv, PagesAssumption
<1>4. ASSUME NEW p \in Process, NEW v \in Accessed, copyOnWrite(p, v) PROVE IInv'
  BY <1>4, CopyInv, PagesAssumption
<1>5. ASSUME NEW p \in Process, NEW v \in Accessed, raiseSIGSEGV(p, v) PROVE IInv'
  BY <1>5, EndInv
<1>6. ASSUME NEW p \in Process, NEW amount \in Amounts, sbrk(p, amount) PROVE IInv'
  BY <1>6, SbrkInv
<1>7. ASSUME NEW p \in Process, spawn(p) PROVE IInv'
  BY <1>7, SpawnInv
<1>8. ASSUME NEW p \in Process, switchToSpace(p) PROVE IInv'
  BY <1>8, SwitchInv, UnchangedInv
<1>9. ASSUME NEW p \in Process, exit(p) PROVE IInv'
  BY <1>9, EndInv
<1>10. ASSUME NEW p \in Process, NEW child \in Process, fork(p, child) PROVE IInv'
  BY <1>10, ForkInv
<1>11. CASE UNCHANGED vars
  BY <1>11, UnchangedInv
<1> QED
  BY <1>1, <1>2, <1>3, <1>4, <1>5, <1>6, <1>7, <1>8, <1>9, <1>10, <1>11, SMT, ZenonT(30), SMTT(60) DEF Next

(* The invariant holds throughout, for any number of processes, frames, pages *)
(* and addresses in a page.                                                    *)
THEOREM PagesInvariance == Spec => []IInv
<1>1. Init => IInv
  BY InitInv
<1>2. IInv /\ [Next]_vars => IInv'
  BY NextInv
<1> QED
  BY <1>1, <1>2, PTL DEF Spec

(* Frames, directories, counts and translation caches stay well formed. *)
THEOREM TypeCorrect == Spec => []TypeOK
<1>1. IInv => TypeOK
  BY DEF IInv
<1> QED
  BY <1>1, PagesInvariance, PTL

(* PPreferenceTracker's counts are the numbers of processes that refer to a   *)
(* frame in their image or heap, over all forks, copies and sbrk calls.        *)
THEOREM CountsAlwaysMatch == Spec => []CountsMatch
<1>1. IInv => CountsMatch
  BY DEF IInv
<1> QED
  BY <1>1, PagesInvariance, PTL

(* PPallocator gives out no frame that is in use, and no frame is lost. *)
THEOREM FreeAlwaysUnmapped == Spec => []FreeMeansUnmapped
<1>1. IInv => FreeMeansUnmapped
  BY DEF IInv
<1> QED
  BY <1>1, PagesInvariance, PTL

(* A page that can be written is the only one of its frame. *)
THEOREM WritableAlwaysAlone == Spec => []WritableMeansAlone
<1>1. IInv => WritableMeansAlone
  BY DEF IInv
<1> QED
  BY <1>1, PagesInvariance, PTL

(* sbrk, stack growth, fork and loading map what they say, and nothing twice. *)
THEOREM AlwaysMappedAsAsked == Spec => []MappedAsAsked
<1>1. IInv => MappedAsAsked
  BY DEF IInv
<1> QED
  BY <1>1, PagesInvariance, PTL

(* A core is told of every entry that changes before a program goes on. *)
THEOREM CachedAlwaysCurrent == Spec => []CachedIsCurrent
<1>1. IInv => CachedIsCurrent
  BY DEF IInv
<1> QED
  BY <1>1, PagesInvariance, PTL
-----------------------------------------------------------------------------
(* The refinement: what the processes see of the frames. *)
Seen(q) == [v \in DOMAIN directory[q] |-> content[directory[q][v].frame]]
Memory == [p \in Process |-> [v \in DOMAIN tlb[p] |-> content[tlb[p][v].frame]]]

(* Through current entries a process sees what its table refers to. *)
LEMMA SeenInMemory ==
  ASSUME CachedIsCurrent, CachedIsCurrent'
  PROVE  /\ Memory = [q \in Process |-> Seen(q)] /\ Memory' = [q \in Process |-> Seen(q)']
         /\ \A q \in Process : Memory[q] = Seen(q) /\ Memory'[q] = Seen(q)'
<1>1. tlb = directory /\ tlb' = directory'
  BY DEF CachedIsCurrent
<1>2. Memory = [q \in Process |-> Seen(q)]
  BY <1>1 DEF Memory, Seen
<1>3. Memory' = [q \in Process |-> Seen(q)']
  BY <1>1 DEF Memory, Seen
<1> QED
  BY <1>2, <1>3

(* A page whose frame and the content of it stay is seen as before. *)
LEMMA SeenAsBefore ==
  ASSUME NEW q \in Process, directory'[q] = directory[q],
         \A v \in DOMAIN directory[q] : content'[directory[q][v].frame] = content[directory[q][v].frame]
  PROVE  Seen(q)' = Seen(q)
  BY SMT, ZenonT(30), SMTT(60) DEF Seen

(* What PrivateMemory says of one process that gets or gives back pages. *)
Resized(p) ==
    /\ \A q \in Process : q # p => directory'[q] = directory[q]
    /\ \A v \in DOMAIN directory'[p] :
          IF v \in DOMAIN directory[p] THEN directory'[p][v].frame = directory[p][v].frame
                                       ELSE directory'[p][v].frame \in free
    /\ \A f \in Frame : f \notin free' => content'[f] = content[f]

(* Pages that come from free frames, or go, in one table only, are a Resize. *)
LEMMA ResizedMemory ==
  ASSUME IInv, IInv', NEW p \in Process, Resized(p)
  PROVE  Private!Resize(p)
<1>1. TypeOK' /\ FreeMeansUnmapped' /\ CachedIsCurrent /\ CachedIsCurrent' /\ TypeOK /\ FreeHoldsOld
  BY SMT, ZenonT(30), SMTT(60) DEF IInv
<1>2. /\ \A q \in Process : q # p => directory'[q] = directory[q]
      /\ \A v \in DOMAIN directory'[p] :
            IF v \in DOMAIN directory[p] THEN directory'[p][v].frame = directory[p][v].frame
                                         ELSE directory'[p][v].frame \in free
      /\ \A f \in Frame : f \notin free' => content'[f] = content[f]
  BY DEF Resized
<1>3. \A q \in Process : \A v \in DOMAIN directory'[q] :
          directory'[q][v].frame \in Frame /\ directory'[q][v].frame \notin free'
  <2>1. \A q \in Process : IsTable(directory'[q])
    BY <1>1 DEF TypeOK
  <2> QED
    BY <2>1, <1>1 DEF IsTable, Entry, FreeMeansUnmapped
<1>4. \A q \in Process : \A v \in DOMAIN directory'[q] :
          content'[directory'[q][v].frame] = content[directory'[q][v].frame]
  BY <1>2, <1>3
<1>5. ASSUME NEW q \in Process, q # p PROVE Seen(q)' = Seen(q)
  BY <1>2, <1>4, <1>5, SeenAsBefore
<1>6. Seen(p)' = [v \in DOMAIN Seen(p)' |-> IF v \in DOMAIN Seen(p) THEN Seen(p)[v] ELSE Old]
  <2>1. DOMAIN Seen(p) = DOMAIN directory[p] /\ DOMAIN Seen(p)' = DOMAIN directory'[p]
    BY DEF Seen
  <2>2. \A v \in DOMAIN directory'[p] : Seen(p)'[v] = content[directory'[p][v].frame]
    BY <1>4, SMT, ZenonT(30), SMTT(60) DEF Seen
  <2>3. \A v \in DOMAIN directory'[p] \cap DOMAIN directory[p] : Seen(p)'[v] = Seen(p)[v]
    BY <2>2, <1>2, ZenonT(60) DEF Seen
  <2>4. \A v \in DOMAIN directory'[p] \ DOMAIN directory[p] : Seen(p)'[v] = Old
    BY <2>2, <1>1, <1>2 DEF FreeHoldsOld
  <2>5. Seen(p)' = [v \in DOMAIN Seen(p)' |-> Seen(p)'[v]]
    BY DEF Seen
  <2> QED
    BY <2>1, <2>3, <2>4, <2>5, SMT, ZenonT(30), SMTT(60)
<1>7. DOMAIN Seen(p)' \subseteq Page
  BY <1>1 DEF Seen, TypeOK, IsTable
<1>8. /\ Memory = [q \in Process |-> Seen(q)] /\ Memory' = [q \in Process |-> Seen(q)']
      /\ Memory[p] = Seen(p) /\ Memory'[p] = Seen(p)'
  BY <1>1, SeenInMemory
<1>9. Memory' = [Memory EXCEPT ![p] = Seen(p)']
  BY <1>5, <1>8
<1>10. /\ DOMAIN Memory'[p] \subseteq Page
       /\ Memory' = [Memory EXCEPT ![p] =
             [v \in DOMAIN Memory'[p] |-> IF v \in DOMAIN Memory[p] THEN Memory[p][v] ELSE Old]]
  BY <1>6, <1>7, <1>8, <1>9, SMT, ZenonT(30), SMTT(60)
<1> QED
  BY <1>10, ZenonT(60) DEF Private!Resize, Memory

(* Pages that are mapped have frames that were free. *)
LEMMA MappedResizes ==
  ASSUME IInv, NEW p \in Process, NEW pages, NEW less, NEW g, g \in [pages -> free],
         pages \cap less = {}, directory' = [directory EXCEPT ![p] = map(Without(directory[p], less), g)],
         \A f \in Frame : f \notin free' => content'[f] = content[f]
  PROVE  Resized(p)
<1> DEFINE table == map(Without(directory[p], less), g)
<1>1. directory = [q \in Process |-> directory[q]]
  BY DEF IInv, TypeOK
<1>2. directory'[p] = table /\ \A q \in Process : q # p => directory'[q] = directory[q]
  BY <1>1
<1>3. DOMAIN table = (DOMAIN directory[p] \ less) \cup pages
  BY DEF map, Without
<1>4. \A v \in DOMAIN directory[p] \ less : table[v] = directory[p][v]
  BY DEF map, Without
<1>5. ASSUME NEW v \in pages, v \notin DOMAIN directory[p] PROVE table[v].frame \in free
  <2>1. table[v] = [frame |-> g[v], writable |-> TRUE]
    BY <1>5 DEF map, Without
  <2>2. table[v].frame = g[v]
    BY <2>1, NewEntry, Zenon
  <2> QED
    BY <2>2, <1>5
<1> HIDE DEF table
<1>6. \A v \in DOMAIN table :
          IF v \in DOMAIN directory[p] THEN table[v].frame = directory[p][v].frame
                                       ELSE table[v].frame \in free
  BY <1>3, <1>4, <1>5
<1> QED
  BY <1>2, <1>6 DEF Resized

(* Stack growth is a Resize of PrivateMemory. *)
LEMMA GrowResizes ==
  ASSUME IInv, IInv', NEW p \in Process, NEW v \in Page, growStack(p, v)
  PROVE  Private!Resize(p)
<1> DEFINE pages == v..Top - stackPages[p] - 1
           g     == allocate(p, pages)
           less  == {}
<1>1. TypeOK
  BY DEF IInv
<1>2. stackPages[p] \in 0..Reserved /\ v \in Int /\ Top \in Nat
  BY <1>1, Numbers DEF TypeOK, Page, Area, StackArea
<1>3. g \in [pages -> free]
  <2>1. IsFiniteSet(pages)
    BY <1>2, FS_Interval
  <2>2. free \subseteq Frame /\ Enough(pages)
    BY <1>1 DEF TypeOK, growStack
  <2> QED
    BY <2>1, <2>2, Allocated, ZenonT(60)
<1>4. directory' = [directory EXCEPT ![p] = map(Without(directory[p], less), g)]
  BY <1>1, WithoutNone, Zenon DEF growStack
<1>5. content' = content
  BY DEF growStack
<1>6. pages \cap less = {}
  OBVIOUS
<1> HIDE DEF g, pages, less
<1>7. Resized(p)
  BY <1>3, <1>4, <1>5, <1>6, MappedResizes, Zenon
<1> QED
  BY <1>7, ResizedMemory

(* Loading an image is a Resize of PrivateMemory. *)
LEMMA SpawnResizes ==
  ASSUME IInv, IInv', NEW p \in Process, spawn(p)
  PROVE  Private!Resize(p)
<1> DEFINE image == 0..ImagePages - 1
           pages == image \cup {Top - 1}
           g     == allocate(p, pages)
           less  == {}
<1>1. TypeOK
  BY DEF IInv
<1>2. g \in [pages -> free]
  <2>1. IsFiniteSet(image)
    BY Numbers, FS_Interval
  <2>2. IsFiniteSet(pages)
    BY <2>1, FS_AddElement, ZenonT(60)
  <2>3. free \subseteq Frame /\ Enough(pages)
    BY <1>1 DEF TypeOK, spawn
  <2> QED
    BY <2>2, <2>3, Allocated, Zenon
<1>3. directory' = [directory EXCEPT ![p] = map(Without(directory[p], less), g)]
  BY <1>1, WithoutNone, ZenonT(60) DEF spawn
<1>4. content' = content
  BY DEF spawn
<1>5. pages \cap less = {}
  OBVIOUS
<1> HIDE DEF g, pages, less
<1>6. Resized(p)
  BY <1>2, <1>3, <1>4, <1>5, MappedResizes, ZenonT(60)
<1> QED
  BY <1>6, ResizedMemory

(* sbrk is a Resize of PrivateMemory: the pages that stay keep their content. *)
LEMMA SbrkResizes ==
  ASSUME IInv, IInv', NEW p \in Process, NEW amount \in Amounts, sbrk(p, amount)
  PROVE  Private!Resize(p)
<1> DEFINE after == After(p, amount)
           more  == HeapRange(heap[p].pages, after.pages)
           less  == HeapRange(after.pages, heap[p].pages)
           g     == allocate(p, more)
<1>1. TypeOK
  BY DEF IInv
<1>2. /\ Enough(more) /\ directory' = [directory EXCEPT ![p] = map(Without(directory[p], less), g)]
      /\ content' = Forgotten(content)
  BY Zenon DEF sbrk, After
<1>3. after.pages \in Int /\ heap[p].pages \in Int
  BY AfterFits, HeapBounds, ZenonT(60)
<1> HIDE DEF after
<1>4. more \cap less = {}
  BY <1>3, Numbers DEF HeapRange
<1>5. g \in [more -> free]
  <2>1. ImagePages + heap[p].pages \in Int /\ ImagePages + after.pages - 1 \in Int
    BY <1>3, Numbers
  <2>2. IsFiniteSet(ImagePages + heap[p].pages..ImagePages + after.pages - 1)
    BY <2>1, FS_Interval
  <2>3. IsFiniteSet(more) /\ free \subseteq Frame
    BY <2>2, <1>1, SMT, ZenonT(30), SMTT(60) DEF HeapRange, TypeOK
  <2> HIDE DEF more
  <2> QED
    BY <2>3, <1>2, Allocated, SMT, ZenonT(30), SMTT(60)
<1>6. \A f \in Frame : f \notin free' => content'[f] = content[f]
  BY <1>2 DEF Forgotten
<1> HIDE DEF more, less, g
<1>7. Resized(p)
  BY <1>2, <1>4, <1>5, <1>6, MappedResizes, Zenon
<1> QED
  BY <1>7, ResizedMemory
(* A store to a page that can be written changes that page and no other; what *)
(* a system call stores lies in a stack, which can be written.                 *)
LEMMA StoreStores ==
  ASSUME IInv, IInv', NEW p \in Process, NEW v, NEW x \in Stored,
         store(p, v, x) \/ (kernelStore(p, v, x) /\ v \in StackArea)
  PROVE  Private!Store(p)
<1>1. TypeOK /\ WritableMeansAlone /\ StacksWritable /\ CachedIsCurrent /\ CachedIsCurrent'
  BY DEF IInv
<1>2. PICK e \in Entries(p, v) : /\ content' = [content EXCEPT ![e.frame] = x]
                                 /\ e.writable \/ v \in StackArea
  BY DEF store, kernelStore
<1>3. v \in DOMAIN directory[p] /\ e = directory[p][v]
  BY <1>1, <1>2, CurrentEntry
<1>4. directory[p][v].writable
  BY <1>1, <1>2, <1>3 DEF StacksWritable
<1>5. directory' = directory
  BY DEF store, kernelStore
<1>6. directory[p][v].frame \in Frame /\ content \in [Frame -> Value]
  BY <1>1, <1>3, EntryFrames DEF TypeOK
<1>7. \A q \in Process : \A w \in DOMAIN directory[q] :
          directory[q][w].frame = directory[p][v].frame => q = p /\ w = v
  BY <1>1, <1>3, <1>4, SMT, ZenonT(30), SMTT(60) DEF WritableMeansAlone
<1>8. \A q \in Process : \A w \in DOMAIN directory[q] :
          content'[directory[q][w].frame] =
              IF q = p /\ w = v THEN x ELSE content[directory[q][w].frame]
  <2>1. \A q \in Process : \A w \in DOMAIN directory[q] : directory[q][w].frame \in Frame
    BY <1>1, EntryFrames, SMT, ZenonT(30), SMTT(60)
  <2> QED
    BY <2>1, <1>2, <1>3, <1>6, <1>7, SMT, ZenonT(30), SMTT(60)
<1>9. ASSUME NEW q \in Process, q # p PROVE Seen(q)' = Seen(q)
  BY <1>5, <1>8, <1>9, SeenAsBefore, SMT, ZenonT(30), SMTT(60)
<1>10. Seen(p)' = [Seen(p) EXCEPT ![v] = x]
  BY <1>3, <1>5, <1>8, ZenonT(60) DEF Seen
<1>11. /\ Memory = [q \in Process |-> Seen(q)] /\ Memory' = [q \in Process |-> Seen(q)']
       /\ Memory[p] = Seen(p)
  BY <1>1, SeenInMemory
<1>12. v \in DOMAIN Memory[p]
  BY <1>3, <1>11 DEF Seen
<1>13. Memory' = [Memory EXCEPT ![p][v] = x]
  BY <1>9, <1>10, <1>11, ZenonT(60)
<1> QED
  BY <1>12, <1>13, ZenonT(60) DEF Private!Store, Memory

(* The copy of a page is seen as the page was. *)
LEMMA CopyStutters ==
  ASSUME IInv, IInv', NEW p \in Process, NEW v \in Page, copyOnWrite(p, v)
  PROVE  Memory' = Memory
<1> DEFINE new == allocate(p, {v})[v]
<1>1. TypeOK /\ TypeOK' /\ FreeMeansUnmapped /\ FreeMeansUnmapped' /\ CachedIsCurrent /\ CachedIsCurrent'
  BY DEF IInv
<1>2. v \in DOMAIN directory[p] /\ Enough({v})
  BY DEF copyOnWrite
<1>3. new \in free /\ new \in Frame
  <2>1. free \subseteq Frame
    BY <1>1 DEF TypeOK
  <2>2. allocate(p, {v}) \in [{v} -> free]
    BY <2>1, <1>2, FS_Singleton, Allocated, SMT, ZenonT(30), SMTT(60)
  <2> QED
    BY <2>1, <2>2
<1>4. PICK e \in Entries(p, v) : content' = Forgotten(copied(new, e.frame))
  BY SMT, ZenonT(30), SMTT(60) DEF copyOnWrite
<1>5. e = directory[p][v]
  BY <1>1, <1>4, CurrentEntry, SMT, ZenonT(30), SMTT(60)
<1>6. directory' = [directory EXCEPT ![p] =
          [directory[p] EXCEPT ![v] = [frame |-> new, writable |-> TRUE]]]
  BY DEF copyOnWrite
<1> HIDE DEF new
<1>7. directory = [q \in Process |-> directory[q]] /\ IsTable(directory[p])
  BY <1>1 DEF TypeOK
<1>8. /\ \A q \in Process : DOMAIN directory'[q] = DOMAIN directory[q]
      /\ \A q \in Process : \A w \in DOMAIN directory[q] :
            ~(q = p /\ w = v) => directory'[q][w] = directory[q][w]
  BY <1>6, <1>7 DEF IsTable
<1>9. directory'[p][v].frame = new
  <2>1. directory'[p][v] = [frame |-> new, writable |-> TRUE]
    BY <1>2, <1>6, <1>7, SMT, ZenonT(30), SMTT(60) DEF IsTable
  <2> QED
    BY <2>1, NewEntry, Zenon
<1>10. \A q \in Process : \A w \in DOMAIN directory'[q] :
          directory'[q][w].frame \in Frame /\ directory'[q][w].frame \notin free'
  <2>1. \A q \in Process : IsTable(directory'[q])
    BY <1>1 DEF TypeOK
  <2> QED
    BY <2>1, <1>1 DEF IsTable, Entry, FreeMeansUnmapped
<1>11. content \in [Frame -> Value]
  BY <1>1 DEF TypeOK
<1>12. \A f \in Frame : f \notin free' =>
          content'[f] = IF f = new THEN content[directory[p][v].frame] ELSE content[f]
  BY <1>3, <1>4, <1>5, <1>11, SMT, ZenonT(30), SMTT(60) DEF Forgotten, copied
<1>13. \A q \in Process : \A w \in DOMAIN directory[q] : directory[q][w].frame # new
  BY <1>1, <1>3, SMT, ZenonT(30), SMTT(60) DEF FreeMeansUnmapped
<1>14. ASSUME NEW q \in Process, NEW w \in DOMAIN directory[q]
       PROVE  content'[directory'[q][w].frame] = content[directory[q][w].frame]
  <2>1. w \in DOMAIN directory'[q]
    BY <1>8
  <2>2. CASE q = p /\ w = v
    BY <2>1, <2>2, <1>9, <1>10, <1>12, SMT, ZenonT(30), SMTT(60)
  <2>3. CASE ~(q = p /\ w = v)
    BY <2>1, <2>3, <1>8, <1>10, <1>12, <1>13, SMT, ZenonT(30), SMTT(60)
  <2> QED
    BY <2>2, <2>3
<1>15. \A q \in Process : Seen(q)' = Seen(q)
  BY <1>8, <1>14 DEF Seen
<1>16. Memory = [q \in Process |-> Seen(q)] /\ Memory' = [q \in Process |-> Seen(q)']
  BY <1>1, SeenInMemory, SMT, ZenonT(30), SMTT(60)
<1> QED
  BY <1>15, <1>16

(* The child sees what its parent does, which sees no change. *)
LEMMA ForkForks ==
  ASSUME IInv, IInv', NEW p \in Process, NEW child \in Process, fork(p, child)
  PROVE  Private!Fork(p, child)
<1> DEFINE g == allocate(child, Stack(p))
<1>1. TypeOK /\ FreeMeansUnmapped /\ CachedIsCurrent /\ CachedIsCurrent'
  BY DEF IInv
<1>2. ForkedTables(p, child, g)
  BY ForkTables, SMT, ZenonT(30), SMTT(60)
<1>3. /\ Stack(p) = StackArea \cap DOMAIN directory[p]
      /\ content' = [f \in Frame |->
            IF f \in FramesOf(g)
            THEN content[directory[p][CHOOSE v \in Stack(p) : g[v] = f].frame] ELSE content[f]]
  <2>1. state[p] = "alive"
    BY DEF fork
  <2> QED
    BY <2>1, StackOf, SMT, ZenonT(30), SMTT(60) DEF fork, Stack
<1> HIDE DEF g
<1>4. p # child /\ DOMAIN directory[child] = {}
  BY <1>2 DEF ForkedTables
<1>5. g \in [StackArea \cap DOMAIN directory[p] -> free] /\ Distinct(g)
  BY <1>2 DEF ForkedTables
<1>6. \A q \in Process \ {p, child} : directory'[q] = directory[q]
  BY <1>2 DEF ForkedTables
<1>7. /\ DOMAIN directory'[p] = DOMAIN directory[p]
      /\ \A v \in DOMAIN directory[p] : directory'[p][v].frame = directory[p][v].frame
  BY <1>2 DEF ForkedTables
<1>8. /\ DOMAIN directory'[child] = DOMAIN directory[p]
      /\ \A v \in Area \cap DOMAIN directory[p] : directory'[child][v].frame = directory[p][v].frame
      /\ \A v \in StackArea \cap DOMAIN directory[p] : directory'[child][v].frame = g[v]
  BY <1>2 DEF ForkedTables
<1>9. FramesOf(g) \subseteq free /\ free \subseteq Frame
  BY <1>1, <1>5, SMT, ZenonT(30), SMTT(60) DEF FramesOf, TypeOK
<1>10. \A q \in Process : \A v \in DOMAIN directory[q] :
          directory[q][v].frame \in Frame /\ directory[q][v].frame \notin free
  BY <1>1, EntryFrames DEF FreeMeansUnmapped
<1>11. \A f \in Frame : f \notin free => content'[f] = content[f]
  BY <1>3, <1>9
<1>12. \A q \in Process : \A v \in DOMAIN directory[q] :
          content'[directory[q][v].frame] = content[directory[q][v].frame]
  BY <1>10, <1>11, SMT, ZenonT(30), SMTT(60)
<1>13. ASSUME NEW v \in StackArea \cap DOMAIN directory[p]
       PROVE  content'[g[v]] = content[directory[p][v].frame]
  <2>1. g[v] \in FramesOf(g) /\ g[v] \in Frame
    BY <1>5, <1>9, SMT, ZenonT(30), SMTT(60) DEF FramesOf
  <2>2. \A w \in Stack(p) : g[w] = g[v] => w = v
    BY <1>3, <1>5 DEF Distinct
  <2>3. (CHOOSE w \in Stack(p) : g[w] = g[v]) = v
    BY <2>2, <1>3
  <2> QED
    BY <2>1, <2>3, <1>3
<1>14. ASSUME NEW q \in Process, q # p, q # child PROVE Seen(q)' = Seen(q)
  <2>1. directory'[q] = directory[q]
    BY <1>6, <1>14
  <2>2. \A v \in DOMAIN directory[q] :
            content'[directory[q][v].frame] = content[directory[q][v].frame]
    BY <1>12
  <2> QED
    BY <2>1, <2>2, SeenAsBefore
<1>15. Seen(p)' = Seen(p)
  <2>1. \A v \in DOMAIN directory[p] :
            content'[directory'[p][v].frame] = content[directory[p][v].frame]
    BY <1>7, <1>12
  <2>2. DOMAIN directory'[p] = DOMAIN directory[p]
    BY <1>7
  <2> QED
    BY <2>1, <2>2 DEF Seen
<1>16. Seen(child)' = Seen(p)
  <2>1. ASSUME NEW v \in DOMAIN directory[p]
        PROVE  content'[directory'[child][v].frame] = content[directory[p][v].frame]
    <3>1. CASE v \in Area
      BY <3>1, <1>8, <1>12, SMT, ZenonT(30), SMTT(60)
    <3>2. CASE v \in StackArea
      BY <3>2, <1>8, <1>13
    <3> QED
      BY <3>1, <3>2, <1>1, EntryFrames, Numbers, SMT, ZenonT(30), SMTT(60)
  <2>2. DOMAIN directory'[child] = DOMAIN directory[p]
    BY <1>8
  <2> QED
    BY <2>1, <2>2, SMT, ZenonT(30), SMTT(60) DEF Seen
<1>17. /\ Memory = [q \in Process |-> Seen(q)] /\ Memory' = [q \in Process |-> Seen(q)']
       /\ Memory[p] = Seen(p) /\ Memory[child] = Seen(child)
  BY <1>1, SeenInMemory, SMT, ZenonT(30), SMTT(60)
<1>18. DOMAIN Memory[child] = {}
  BY <1>4, <1>17 DEF Seen
<1>19. Memory' = [Memory EXCEPT ![child] = Memory[p]]
  BY <1>14, <1>15, <1>16, <1>17
<1> QED
  BY <1>18, <1>19 DEF Private!Fork, Memory

(* What leaves cached translations and contents alone, as exit does, is not seen. *)
LEMMA EndStutters ==
  ASSUME UNCHANGED <<tlb, content>>
  PROVE  Memory' = Memory
  BY DEF Memory

(* Copy on write is not to be seen: as long as the buffers programs pass to   *)
(* system calls lie in their stacks, every process has a memory of its own,    *)
(* in which only its own stores change a page, and fork copies it.             *)
THEOREM PagesArePrivate ==
  ASSUME SyscallPages \subseteq StackArea
  PROVE  Spec => IsPrivateMemory
<1>1. Init => Private!Init
  <2>1. Init => Memory = [p \in Process |-> [v \in {} |-> Old]]
    BY DEF Init, Memory, Empty
  <2> QED
    BY <2>1 DEF Private!Init, Memory
<1>2. ASSUME IInv, IInv', [Next]_vars
      PROVE  Private!Next \/ Memory' = Memory
  <2>1. ASSUME NEW p \in Process, NEW v \in Accessed, NEW x \in Stored, store(p, v, x)
        PROVE  Private!Store(p)
    BY <2>1, <1>2, StoreStores
  <2>2. ASSUME NEW p \in Process, NEW v \in SyscallPages, NEW x \in Stored, kernelStore(p, v, x)
        PROVE  Private!Store(p)
    BY <2>2, <1>2, StoreStores
  <2>3. ASSUME NEW p \in Process, NEW v \in Accessed, growStack(p, v) PROVE Private!Resize(p)
    BY <2>3, <1>2, GrowResizes, PagesAssumption
  <2>4. ASSUME NEW p \in Process, NEW v \in Accessed, copyOnWrite(p, v) PROVE Memory' = Memory
    BY <2>4, <1>2, CopyStutters, PagesAssumption
  <2>5. ASSUME NEW p \in Process, NEW v \in Accessed, raiseSIGSEGV(p, v) PROVE Memory' = Memory
    BY <2>5, EndStutters DEF raiseSIGSEGV
  <2>6. ASSUME NEW p \in Process, NEW amount \in Amounts, sbrk(p, amount) PROVE Private!Resize(p)
    BY <2>6, <1>2, SbrkResizes
  <2>7. ASSUME NEW p \in Process, spawn(p) PROVE Private!Resize(p)
    BY <2>7, <1>2, SpawnResizes
  <2>8. ASSUME NEW p \in Process, switchToSpace(p) PROVE Memory' = Memory
    <3>1. UNCHANGED vars
      BY <2>8, <1>2, SwitchInv
    <3> QED
      BY <3>1, EndStutters DEF vars
  <2>9. ASSUME NEW p \in Process, exit(p) PROVE Memory' = Memory
    BY <2>9, EndStutters DEF exit
  <2>10. ASSUME NEW p \in Process, NEW child \in Process, fork(p, child)
         PROVE  Private!Fork(p, child)
    BY <2>10, <1>2, ForkForks
  <2>11. CASE UNCHANGED vars
    BY <2>11, EndStutters DEF vars
  <2> QED
    BY <2>1, <2>2, <2>3, <2>4, <2>5, <2>6, <2>7, <2>8, <2>9, <2>10, <2>11, <1>2, SMT, ZenonT(30), SMTT(60)
       DEF Next, Private!Next
<1>3. IInv /\ IInv' /\ [Next]_vars => [Private!Next]_Memory
  BY <1>2
<1>4. IInv /\ IInv' /\ [Next]_vars =>
        [Private!Next]_([p \in Process |-> [v \in DOMAIN tlb[p] |-> content[tlb[p][v].frame]]])
  BY <1>3 DEF Memory
<1> QED
  BY <1>1, <1>4, PagesInvariance, PTL DEF Spec, IsPrivateMemory, Private!Spec
=============================================================================
