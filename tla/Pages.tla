-------------------------------- MODULE Pages --------------------------------
(***************************************************************************)
(* The pages of processes and the frames behind them: images that are       *)
(* loaded, stacks and heaps that grow, forks that share every page of the   *)
(* process area read-only, and the page fault that copies a shared page     *)
(* when it is written.  Frames are counted by PPreferenceTracker and given  *)
(* out by PPallocator.                                                      *)
(*                                                                          *)
(* Each process has its main thread only.  Pages are numbers: the image,    *)
(* the heap right behind it, then the range reserved for the stack.         *)
(* Addresses are counted in units of which PageSize make a page.  The       *)
(* frames of directories, tables and kernel stacks are left out.  Which     *)
(* free frame is taken tells nothing; Home lets behaviours that differ only *)
(* in that meet.  Each action is one critical section of handlingLock or    *)
(* one access of a program.                                                 *)
(***************************************************************************)
EXTENDS Integers, FiniteSets

CONSTANTS Process, Frame, Value,
          Home,           \* the page a frame is taken for first, if it is free
          Old,            \* what a free frame holds, whatever its last owner left
          Stored,         \* the values programs store
          Accessed,       \* bound: the pages programs store to
          Spawned,        \* the processes that are loaded, not forked
          ImagePages,     \* imageEnd - imageStart, in pages
          HeapPages,      \* bound: the heap break limit, in pages
          Reserved,       \* THREAD_USER_STACK_RESERVED_VIRTUAL_PAGES
          PageSize,
          Amounts,        \* what programs pass to sbrk
          LowestBreak,    \* bound: the lowest break programs ask for
          SyscallPages    \* pages programs name as buffers of system calls

imageEnd == ImagePages * PageSize
MaximumHeapBreak == (ImagePages + HeapPages) * PageSize
Area == 0..ImagePages + HeapPages - 1
Top == ImagePages + HeapPages + Reserved
StackArea == Top - Reserved..Top - 1
Page == Area \cup StackArea

ASSUME PagesAssumption ==
    /\ Old \in Value /\ Stored \subseteq Value /\ Spawned \subseteq Process
    /\ IsFiniteSet(Process) /\ IsFiniteSet(Frame)
    /\ ImagePages \in Nat \ {0} /\ HeapPages \in Nat \ {0} /\ Reserved \in Nat \ {0}
    /\ PageSize \in Nat \ {0} /\ Amounts \subseteq Int
    /\ LowestBreak \in Nat \ {0} /\ SyscallPages \cup Accessed \subseteq Page

VARIABLES state,      \* whether a process exists
          directory,  \* the entries of its page tables
          tlb,        \* the entries its core has cached since it was switched to
          heap,       \* heapBreak (0 before the first sbrk) and heapPages
          stackPages, \* userStackPages; the stack ends at Top
          free,       \* the bitmap of PPallocator
          count,      \* referenceCount
          content     \* what the frames hold

vars == <<state, directory, tlb, heap, stackPages, free, count, content>>

Empty == [v \in {} |-> [frame |-> 0, writable |-> FALSE]]

Init ==
    /\ state = [p \in Process |-> "unborn"]
    /\ directory = [p \in Process |-> Empty]
    /\ tlb = [p \in Process |-> Empty]
    /\ heap = [p \in Process |-> [break |-> 0, pages |-> 0]]
    /\ stackPages = [p \in Process |-> 0]
    /\ free = Frame
    /\ count = [f \in Frame |-> 0]
    /\ content = [f \in Frame |-> Old]

-----------------------------------------------------------------------------
(* Frames.  allocate() takes one frame for each page; without enough of them *)
(* it panics, and nothing goes on.                                           *)
Distinct(g) == \A v, w \in DOMAIN g : v # w => g[v] # g[w]
Enough(pages) == Cardinality(pages) <= Cardinality(free)
allocate(p, pages) ==
    IF \A v \in pages : \E f \in free : Home[f] = <<p, v>>
    THEN [v \in pages |-> CHOOSE f \in free : Home[f] = <<p, v>>]
    ELSE CHOOSE g \in [pages -> free] : Distinct(g)
FramesOf(g) == {g[v] : v \in DOMAIN g}
Forgotten(c) == [f \in Frame |-> IF f \in free' THEN Old ELSE c[f]]

(* PPreferenceTracker: one reference more, one less, for each of the frames. *)
increment(c, frames) == [f \in Frame |-> IF f \in frames THEN c[f] + 1 ELSE c[f]]
decrement(c, frames) == [f \in Frame |-> IF f \in frames THEN c[f] - 1 ELSE c[f]]

(* What decrement and free make of frames that have lost a reference. *)
(* Slip: they are freed whatever the count says. *)
UnreferencedAll(c, frames) == frames

Unreferenced(c, frames) == {f \in frames : c[f] = 0}

(* Tables.  map() leaves an entry that is there; only the copy of a shared   *)
(* page replaces one.                                                        *)
map(table, g) ==
    [v \in DOMAIN table \cup DOMAIN g |->
        IF v \in DOMAIN table THEN table[v] ELSE [frame |-> g[v], writable |-> TRUE]]
Without(table, pages) == [v \in DOMAIN table \ pages |-> table[v]]

(* A core keeps the entries it has used until it is told to forget them, or  *)
(* drops them on its own: tlb is what was in force when it was last told.     *)
INVLPG(cached, table, pages) ==
    [v \in (DOMAIN cached \ pages) \cup (DOMAIN table \cap pages) |->
        IF v \in pages THEN table[v] ELSE cached[v]]

(* Slip: the core goes on with what it had. *)
reloadNot(cached, table) == cached

(* AddressSpace::switchToSpace: the directory is loaded, and with it all of   *)
(* its entries.                                                               *)
reload(cached, table) == table

Entries(p, v) ==
    {tlb[p][w] : w \in {v} \cap DOMAIN tlb[p]}
        \cup {directory[p][w] : w \in {v} \cap DOMAIN directory[p]}

-----------------------------------------------------------------------------
(* The programs' stores, and the switch to a process. *)

store(p, v, x) ==
    /\ state[p] = "alive"
    /\ \E e \in Entries(p, v) : e.writable /\ content' = [content EXCEPT ![e.frame] = x]
    /\ UNCHANGED <<state, directory, tlb, heap, stackPages, free, count>>

(* A system call stores into a buffer.  CR0.WP is never set, so the kernel    *)
(* writes to pages that are not writable, too.                                *)
kernelStore(p, v, x) ==
    /\ state[p] = "alive"
    /\ \E e \in Entries(p, v) : content' = [content EXCEPT ![e.frame] = x]
    /\ UNCHANGED <<state, directory, tlb, heap, stackPages, free, count>>

(* Scheduler::_applyContextSwitch: the directory is loaded again. *)
switchToSpace(p) ==
    /\ state[p] = "alive"
    /\ tlb' = [tlb EXCEPT ![p] = reload(@, directory[p])]
    /\ UNCHANGED <<state, directory, heap, stackPages, free, count, content>>

-----------------------------------------------------------------------------
(* A process is loaded: its stack page, then the pages of its image. *)
spawn(p) ==
    LET image == 0..ImagePages - 1
        pages == image \cup {Top - 1}
        g     == allocate(p, pages)
    IN  /\ p \in Spawned /\ state[p] = "unborn" /\ Enough(pages)
        /\ state' = [state EXCEPT ![p] = "alive"]
        /\ directory' = [directory EXCEPT ![p] = map(@, g)]
        /\ tlb' = [tlb EXCEPT ![p] = directory'[p]]
        /\ stackPages' = [stackPages EXCEPT ![p] = 1]
        /\ free' = free \ FramesOf(g)
        /\ count' = increment(count, {g[v] : v \in image})
        /\ UNCHANGED <<heap, content>>

(* The pages of a heap after sbrk's loops, which grow it to the page the new *)
(* break ends in, or shrink it while the break is below the last page.       *)
PagesAt(break, pages) ==
    LET size == break - imageEnd
    IN  IF size > pages * PageSize THEN (size + PageSize - 1) \div PageSize
        ELSE IF size < (pages - 1) * PageSize THEN (size \div PageSize) + 1
        ELSE pages

HeapRange(from, to) == ImagePages + from..ImagePages + to - 1

sbrk(p, amount) ==
    LET now   == IF heap[p].break = 0 THEN [break |-> imageEnd, pages |-> 1] ELSE heap[p]
        new   == now.break + amount
        after == IF new >= MaximumHeapBreak THEN now
                 ELSE [break |-> new, pages |-> PagesAt(new, now.pages)]
        more  == HeapRange(heap[p].pages, after.pages)
        less  == HeapRange(after.pages, heap[p].pages)
        lost  == {directory[p][v].frame : v \in less \cap DOMAIN directory[p]}
        g     == allocate(p, more)
    IN  /\ state[p] = "alive" /\ new >= LowestBreak /\ Enough(more)
        /\ heap' = [heap EXCEPT ![p] = after]
        /\ directory' = [directory EXCEPT ![p] = map(Without(@, less), g)]
        /\ tlb' = [tlb EXCEPT ![p] = INVLPG(@, directory'[p], more \cup less)]
        /\ count' = decrement(increment(count, FramesOf(g)), lost)
        /\ free' = (free \ FramesOf(g)) \cup Unreferenced(count', lost)
        /\ content' = Forgotten(content)
        /\ UNCHANGED <<state, stackPages>>

-----------------------------------------------------------------------------
(* handlePageFault: an access to a page that is not there or, to store, to    *)
(* one that is not writable.                                                  *)
Faults(p, v) ==
    /\ state[p] = "alive"
    /\ v \notin DOMAIN directory[p] \/ \E e \in Entries(p, v) : ~e.writable

(* The stack grows down to the page of the access. *)
growStack(p, v) ==
    LET pages == v..Top - stackPages[p] - 1
        g     == allocate(p, pages)
    IN  /\ Faults(p, v) /\ v \in StackArea /\ Enough(pages)
        /\ directory' = [directory EXCEPT ![p] = map(@, g)]
        /\ tlb' = [tlb EXCEPT ![p] = INVLPG(@, directory'[p], pages)]
        /\ stackPages' = [stackPages EXCEPT ![p] = Top - v]
        /\ free' = free \ FramesOf(g)
        /\ UNCHANGED <<state, heap, count, content>>

(* Slip: the new frame keeps what was in it. *)
copiedNot(new, frame) == content

copied(new, frame) == [content EXCEPT ![new] = content[frame]]

InImage(v) == 0 <= v /\ v <= ImagePages

(* Slip: the new frame is not counted. *)
RecountOld(old, new) == decrement(count, {old})

Recount(old, new) == decrement(increment(count, {new}), {old})

(* A page of the image, or the one behind it, gets a frame of its own. *)
copyOnWrite(p, v) ==
    LET new == allocate(p, {v})[v]
        old == directory[p][v].frame
    IN  /\ Faults(p, v) /\ v \notin StackArea /\ InImage(v) /\ v \in DOMAIN directory[p]
        /\ Enough({v})
        /\ directory' = [directory EXCEPT ![p][v] = [frame |-> new, writable |-> TRUE]]
        /\ tlb' = [tlb EXCEPT ![p] = INVLPG(@, directory'[p], {v})]
        /\ count' = Recount(old, new)
        /\ free' = (free \ {new}) \cup Unreferenced(count', {old})
        /\ \E e \in Entries(p, v) : content' = Forgotten(copied(new, e.frame))
        /\ UNCHANGED <<state, heap, stackPages>>

(* Any other access raises SIGSEGV, which ends a process that has no handler. *)
raiseSIGSEGV(p, v) ==
    /\ Faults(p, v) /\ v \notin StackArea
    /\ ~(InImage(v) /\ v \in DOMAIN directory[p])
    /\ state' = [state EXCEPT ![p] = "dead"]
    /\ UNCHANGED <<directory, tlb, heap, stackPages, free, count, content>>

-----------------------------------------------------------------------------
(* Slip: the pages behind the image keep their access. *)
ReadOnlyImage(table) ==
    [v \in DOMAIN table |-> IF v < ImagePages THEN [table[v] EXCEPT !.writable = FALSE]
                                              ELSE table[v]]

ReadOnly(table) ==
    [v \in DOMAIN table |-> IF v \in Area THEN [table[v] EXCEPT !.writable = FALSE]
                                          ELSE table[v]]

(* Slip: a page that is read-only has been counted before. *)
SharedFirst(table) == {table[v].frame : v \in {w \in Area \cap DOMAIN table : table[w].writable}}

Shared(table) == {table[v].frame : v \in Area \cap DOMAIN table}

(* Slip: the child is to have a heap of its own. *)
ForkedHeapNone(p) == [break |-> 0, pages |-> 0]

ForkedHeap(p) == heap[p]

(* fork: the process area is shared, the stack copied.  The call record is   *)
(* on the stack; storing the two results there is left out, but to do it the *)
(* call switches to the child's directory and back, which empties the tlb.   *)
fork(p, child) ==
    LET stack == Top - stackPages[p]..Top - 1
        g     == allocate(child, stack)
    IN  /\ state[p] = "alive" /\ state[child] = "unborn" /\ Enough(stack)
        /\ state' = [state EXCEPT ![child] = "alive"]
        /\ directory' = [directory EXCEPT ![p] = ReadOnly(@),
                            ![child] = map(ReadOnly(Without(directory[p], StackArea)), g)]
        /\ tlb' = [tlb EXCEPT ![p] = reload(@, directory'[p]), ![child] = directory'[child]]
        /\ heap' = [heap EXCEPT ![child] = ForkedHeap(p)]
        /\ stackPages' = [stackPages EXCEPT ![child] = stackPages[p]]
        /\ free' = free \ FramesOf(g)
        /\ count' = increment(count, Shared(directory[p]))
        /\ content' = [f \in Frame |->
              IF f \in FramesOf(g)
              THEN content[directory[p][CHOOSE v \in stack : g[v] = f].frame] ELSE content[f]]

(* deleteTask of a main thread frees no frame of the process. *)
exit(p) ==
    /\ state[p] = "alive"
    /\ state' = [state EXCEPT ![p] = "dead"]
    /\ UNCHANGED <<directory, tlb, heap, stackPages, free, count, content>>

Next ==
    \/ \E p \in Process :
          \/ \E v \in Accessed, x \in Stored : store(p, v, x)
          \/ \E v \in SyscallPages, x \in Stored : kernelStore(p, v, x)
          \/ \E v \in Accessed : growStack(p, v) \/ copyOnWrite(p, v) \/ raiseSIGSEGV(p, v)
          \/ \E amount \in Amounts : sbrk(p, amount)
          \/ spawn(p) \/ switchToSpace(p) \/ exit(p)
    \/ \E p, child \in Process : fork(p, child)

Spec == Init /\ [][Next]_vars

-----------------------------------------------------------------------------
Entry == [frame : Frame, writable : BOOLEAN]
IsTable(table) == DOMAIN table \subseteq Page /\ table \in [DOMAIN table -> Entry]

(* Type invariant: tables and cached entries refer to pages and frames that  *)
(* exist, and no reference count falls below zero.                           *)
TypeOK ==
    /\ state \in [Process -> {"unborn", "alive", "dead"}]
    /\ directory = [p \in Process |-> directory[p]] /\ tlb = [p \in Process |-> tlb[p]]
    /\ \A p \in Process : IsTable(directory[p]) /\ IsTable(tlb[p])
    /\ heap \in [Process -> [break : 0..MaximumHeapBreak - 1, pages : Int]]
    /\ stackPages \in [Process -> 0..Reserved]
    /\ free \subseteq Frame /\ count \in [Frame -> Nat] /\ content \in [Frame -> Value]

(* What is mapped is what the process was given: sbrk's break and page count  *)
(* and the size of the stack tell exactly which pages have a frame, so map()   *)
(* never meets an entry that is there (its "tried duplicate mapping").         *)
MappedAsAsked ==
    \A p \in Process :
        DOMAIN directory[p] =
            IF state[p] = "unborn" THEN {}
            ELSE (0..ImagePages + heap[p].pages - 1) \cup (Top - stackPages[p]..Top - 1)

(* The processes that reference a frame in their image or heap. *)
Holders(f) ==
    {p \in Process : \E v \in Area \cap DOMAIN directory[p] : directory[p][v].frame = f}

(* PPreferenceTracker "keeps track of the number of processes that reference  *)
(* pages either in their process image or heap area", after any forks, copies *)
(* and sbrk calls of any of them; processes that are gone keep theirs.        *)
CountsMatch == \A f \in Frame : count[f] = Cardinality(Holders(f))

(* PPallocator gives out no frame that a page still refers to, and sbrk and    *)
(* copy on write lose none: the free frames are those no page refers to.       *)
FreeMeansUnmapped ==
    \A f \in Frame :
        f \in free <=>
            \A p \in Process : \A v \in DOMAIN directory[p] : directory[p][v].frame # f

(* A page that can be written shares its frame with no other page of any       *)
(* process: what fork shares is read-only on all sides, and the page fault      *)
(* makes only its own copy writable again.                                      *)
WritableMeansAlone ==
    \A p, q \in Process : \A v \in DOMAIN directory[p], w \in DOMAIN directory[q] :
        /\ directory[p][v].writable /\ directory[p][v].frame = directory[q][w].frame
        => p = q /\ v = w

(* A core may use no entry that is not in the table of the process: after      *)
(* unmap, the copy of a page and fork's loss of write access, which must each   *)
(* tell it, no old entry is left.                                              *)
CachedIsCurrent == tlb = directory

(* Refinement: through what their cores have cached the processes see           *)
(* memories of their own, of which fork makes copies.                           *)
Private == INSTANCE PrivateMemory WITH
    memory <- [p \in Process |-> [v \in DOMAIN tlb[p] |-> content[tlb[p][v].frame]]]
IsPrivateMemory == Private!Spec
=============================================================================
