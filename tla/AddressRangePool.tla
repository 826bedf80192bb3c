--------------------------- MODULE AddressRangePool ---------------------------
(* AddressRangePool, the allocator of virtual address ranges for the kernel and *)
(* for each process.  Addresses are counted in pages.  The linked list is a     *)
(* sequence.  A call runs under handlingLock; merge, which ends initialize and  *)
(* free, is a chain of steps here, one per turn of its loop, and no other call  *)
(* starts before it is through.                                                 *)
EXTENDS Integers, Sequences

CONSTANTS
    Region,    \* the areas the pool is initialized with, each once
    Flags,     \* values of the flags argument
    MaxPages   \* bound: the largest request

(* The areas hold at least one page, lie above address 0 and do not overlap. *)
ASSUME RegionAssumption ==
    /\ \A r \in Region : /\ r = [base |-> r.base, pages |-> r.pages]
                         /\ r.base \in Nat \ {0} /\ r.pages \in Nat \ {0}
    /\ \A r, s \in Region : r # s => r.base + r.pages <= s.base \/ s.base + s.pages <= r.base
ASSUME RequestAssumption == MaxPages \in Nat /\ 0 \in Flags

VARIABLES
    ranges,       \* the list of ranges
    current,      \* position of merge in the list, 0 when it does not run
    initialized,  \* the areas inserted so far
    result        \* what the last call returned

vars == <<ranges, current, initialized, result>>

(* The list with e in front of its i-th element, and without its i-th element. *)
InsertAt(s, i, e) == SubSeq(s, 1, i - 1) \o <<e>> \o SubSeq(s, i, Len(s))
RemoveAt(s, i) == SubSeq(s, 1, i - 1) \o SubSeq(s, i + 1, Len(s))

PagesOf(r) == r.base .. (r.base + r.pages - 1)
End(r) == r.base + r.pages
Idle == current = 0

Init == ranges = << >> /\ current = 0 /\ initialized = {} /\ result = 0

(* The position of the last range in the list that has a lower base, 0 if none. *)
Below(base) == {i \in DOMAIN ranges : ranges[i].base < base}
IsLastBelow(i, base) ==
    /\ i = 0 \/ i \in Below(base)
    /\ \A j \in Below(base) : j <= i

(* Slip: the new range is not merged with its neighbours. *)
initializeOnly(r) ==
    /\ Idle /\ r \in Region \ initialized
    /\ \E i \in 0..Len(ranges) :
         /\ IsLastBelow(i, r.base)
         /\ ranges' = InsertAt(ranges, i + 1,
                [base |-> r.base, pages |-> r.pages, used |-> FALSE, flags |-> 0])
    /\ initialized' = initialized \cup {r}
    /\ UNCHANGED <<current, result>>

(* The area r becomes a free range of the list. *)
initialize(r) ==
    /\ Idle /\ r \in Region \ initialized
    /\ \E i \in 0..Len(ranges) :
         /\ IsLastBelow(i, r.base)
         /\ ranges' = InsertAt(ranges, i + 1,
                [base |-> r.base, pages |-> r.pages, used |-> FALSE, flags |-> 0])
    /\ current' = 1
    /\ initialized' = initialized \cup {r}
    /\ UNCHANGED result

AtLeastOne(n) == IF n = 0 THEN 1 ELSE n

(* Slip: the range has to be larger. *)
FittingLarger(n) == {i \in DOMAIN ranges : ~ranges[i].used /\ ranges[i].pages > n}

(* The unused ranges that have n pages. *)
Fitting(n) == {i \in DOMAIN ranges : ~ranges[i].used /\ ranges[i].pages >= n}
FirstFitting(n) == {i \in Fitting(n) : \A j \in Fitting(n) : i <= j}

(* Slip: a range is split off also when nothing remains. *)
takenAlways(i, n, f) ==
    LET r == ranges[i]
        now == [base |-> r.base, pages |-> n, used |-> TRUE, flags |-> f]
        splinter == [base |-> r.base + n, pages |-> r.pages - n, used |-> FALSE, flags |-> 0]
    IN  InsertAt([ranges EXCEPT ![i] = now], i + 1, splinter)

(* The first n pages of range i become used; what remains is a range of its own. *)
taken(i, n, f) ==
    LET r == ranges[i]
        now == [base |-> r.base, pages |-> n, used |-> TRUE, flags |-> f]
        splinter == [base |-> r.base + n, pages |-> r.pages - n, used |-> FALSE, flags |-> 0]
    IN  IF r.pages - n > 0
        THEN InsertAt([ranges EXCEPT ![i] = now], i + 1, splinter)
        ELSE [ranges EXCEPT ![i] = now]

allocateFound(n, f) == \E i \in FirstFitting(n) :
    /\ ranges' = taken(i, n, f)
    /\ result' = ranges[i].base

allocateFailed(n) == Fitting(n) = {} /\ result' = 0 /\ UNCHANGED ranges

allocate(requestedPages, f) ==
    /\ Idle
    /\ \/ allocateFound(AtLeastOne(requestedPages), f)
       \/ allocateFailed(AtLeastOne(requestedPages))
    /\ UNCHANGED <<current, initialized>>

(* The first range at the address given. *)
At(base) == {i \in DOMAIN ranges : ranges[i].base = base}
FirstAt(base) == {i \in At(base) : \A j \in At(base) : i <= j}

freeFound(i) ==
    /\ ranges[i].used
    /\ ranges' = [ranges EXCEPT ![i].used = FALSE]
    /\ result' = ranges[i].pages
    /\ current' = 1

(* There is no such range, or it is not used. *)
freeNothing(base) ==
    /\ \A i \in FirstAt(base) : ~ranges[i].used
    /\ result' = -1
    /\ UNCHANGED <<ranges, current>>

(* Callers free nothing before the pool has been initialized. *)
free(base) ==
    /\ Idle /\ ranges # << >>
    /\ (\E i \in FirstAt(base) : freeFound(i)) \/ freeNothing(base)
    /\ UNCHANGED initialized

(* Slip: the ranges need not touch. *)
MergeableApart(i) == ~ranges[i].used /\ ~ranges[i + 1].used

(* Range i and the one after it are free and touch. *)
Mergeable(i) ==
    /\ ~ranges[i].used /\ ~ranges[i + 1].used
    /\ End(ranges[i]) = ranges[i + 1].base

(* The range after i is swallowed by i. *)
merged(i) ==
    RemoveAt([ranges EXCEPT ![i].pages = @ + ranges[i + 1].pages], i + 1)

(* Slip: after a range that cannot be merged it starts again. *)
mergeAgain ==
    /\ ~Idle
    /\ \/ /\ current = Len(ranges)
          /\ current' = 0
          /\ UNCHANGED ranges
       \/ /\ current < Len(ranges) /\ Mergeable(current)
          /\ ranges' = merged(current)
          /\ UNCHANGED current
       \/ /\ current < Len(ranges) /\ ~Mergeable(current)
          /\ current' = 1
          /\ UNCHANGED ranges
    /\ UNCHANGED <<initialized, result>>

(* One turn of the loop of merge. *)
merge ==
    /\ ~Idle
    /\ \/ /\ current = Len(ranges)
          /\ current' = 0
          /\ UNCHANGED ranges
       \/ /\ current < Len(ranges) /\ Mergeable(current)
          /\ ranges' = merged(current)
          /\ UNCHANGED current
       \/ /\ current < Len(ranges) /\ ~Mergeable(current)
          /\ current' = current + 1
          /\ UNCHANGED ranges
    /\ UNCHANGED <<initialized, result>>

Address == UNION {PagesOf(r) : r \in Region}

Next ==
    \/ \E r \in Region : initialize(r)
    \/ \E n \in 0..MaxPages, f \in Flags : allocate(n, f)
    \/ \E base \in Address : free(base)
    \/ merge

Spec == Init /\ [][Next]_vars

(* merge is a loop without a wait. *)
FairSpec == Spec /\ WF_vars(merge)

-----------------------------------------------------------------------------
(* Properties *)

AddressRange == [base : Nat \ {0}, pages : Nat \ {0}, used : BOOLEAN, flags : Flags]

(* Types.  No range is empty, also when a request fits exactly. *)
TypeOK ==
    /\ ranges \in Seq(AddressRange)
    /\ current \in 0..Len(ranges)
    /\ initialized \subseteq Region
    /\ result \in Int

space == UNION {PagesOf(r) : r \in initialized}

(* The list is sorted, its ranges do not overlap, and together they are the   *)
(* pages of the areas initialize inserted: allocate, free and merge lose no   *)
(* page and add none.                                                         *)
RangesTile ==
    /\ \A i, j \in DOMAIN ranges : i < j => End(ranges[i]) <= ranges[j].base
    /\ space = UNION {PagesOf(ranges[i]) : i \in DOMAIN ranges}

(* Once merge has been there, free ranges that touch are one range. *)
Coalesced == \A i \in DOMAIN ranges :
    i < Len(ranges) /\ (Idle \/ i < current) => ~Mergeable(i)

Used == {i \in DOMAIN ranges : ranges[i].used}
Block(i) == [base |-> ranges[i].base, pages |-> ranges[i].pages, flags |-> ranges[i].flags]
blocks == {Block(i) : i \in Used}
Space == INSTANCE PageSpace WITH Request <- 0..MaxPages

(* First fit on the list is what PageSpace promises: blocks that never         *)
(* overlap, each at the lowest place with room, a failed allocate only when    *)
(* there is no run of free pages that long, and free returning the block.      *)
IsPageSpace == Space!Spec

(* merge comes to an end after every initialize and free. *)
MergeEnds == ~Idle ~> Idle
===============================================================================
