------------------------ MODULE AddressRangePoolProofs ------------------------
(* AddressRangePool keeps its list sound and is a first fit allocator of pages, *)
(* for all areas, flags and requests.                                           *)
EXTENDS AddressRangePool, TLAPS

(* Joining two sequences. *)
LEMMA Joined ==
  ASSUME NEW S, NEW a \in Seq(S), NEW b \in Seq(S)
  PROVE  /\ a \o b \in Seq(S) /\ Len(a \o b) = Len(a) + Len(b)
         /\ Len(a) \in Nat /\ Len(b) \in Nat
         /\ \A j \in 1..Len(a) : (a \o b)[j] = a[j]
         /\ \A j \in 1..Len(b) : (a \o b)[Len(a) + j] = b[j]
  OBVIOUS

(* Inserting into a sequence. *)
LEMMA Inserted ==
  ASSUME NEW S, NEW s \in Seq(S), NEW e \in S, NEW i \in 1..(Len(s) + 1)
  PROVE  /\ InsertAt(s, i, e) \in Seq(S) /\ Len(InsertAt(s, i, e)) = Len(s) + 1
         /\ \A j \in 1..(i - 1) : InsertAt(s, i, e)[j] = s[j]
         /\ InsertAt(s, i, e)[i] = e
         /\ \A j \in i..Len(s) : InsertAt(s, i, e)[j + 1] = s[j]
<1> DEFINE t == InsertAt(s, i, e)
           a == SubSeq(s, 1, i - 1)
           b == SubSeq(s, i, Len(s))
           c == a \o <<e>>
<1>0. Len(s) \in Nat
  OBVIOUS
<1>1. a \in Seq(S) /\ Len(a) = i - 1 /\ \A j \in 1..(i - 1) : a[j] = s[j]
  OBVIOUS
<1>2. b \in Seq(S) /\ Len(b) = Len(s) - i + 1 /\ \A j \in 1..(Len(s) - i + 1) : b[j] = s[i + j - 1]
  OBVIOUS
<1>3. t = c \o b
  BY DEF InsertAt
<1> HIDE DEF t, a, b
<1>4. c \in Seq(S) /\ Len(c) = i
  BY <1>1
<1>5. c[i] = e /\ \A j \in 1..(i - 1) : c[j] = s[j]
  BY <1>1
<1> HIDE DEF c
<1>6. /\ t \in Seq(S) /\ Len(t) = Len(c) + Len(b)
      /\ \A j \in 1..Len(c) : t[j] = c[j]
      /\ \A j \in 1..Len(b) : t[Len(c) + j] = b[j]
  <2>1. b \in Seq(S) /\ c \in Seq(S)
    BY <1>2, <1>4
  <2>2. /\ c \o b \in Seq(S) /\ Len(c \o b) = Len(c) + Len(b)
        /\ \A j \in 1..Len(c) : (c \o b)[j] = c[j]
        /\ \A j \in 1..Len(b) : (c \o b)[Len(c) + j] = b[j]
    BY <2>1, Joined
  <2> QED
    BY <1>3, <2>2, Zenon
<1>7. Len(t) = Len(s) + 1 /\ \A j \in 1..i : t[j] = c[j]
  BY <1>0, <1>2, <1>4, <1>6
<1>8. \A j \in 1..(Len(s) - i + 1) : t[i + j] = b[j]
  BY <1>2, <1>4, <1>6
<1>9. ASSUME NEW j \in i..Len(s) PROVE t[j + 1] = s[j]
  <2> DEFINE k == j + 1 - i
  <2>1. k \in 1..(Len(s) - i + 1) /\ i + k = j + 1 /\ i + k - 1 = j
    BY <1>0
  <2>2. t[i + k] = b[k] /\ b[k] = s[i + k - 1]
    BY <2>1, <1>2, <1>8
  <2> QED
    BY <2>1, <2>2
<1> QED
  BY <1>5, <1>6, <1>7, <1>9 DEF t

(* Removing from a sequence. *)
LEMMA Removed ==
  ASSUME NEW S, NEW s \in Seq(S), NEW i \in 1..Len(s)
  PROVE  /\ RemoveAt(s, i) \in Seq(S) /\ Len(RemoveAt(s, i)) = Len(s) - 1
         /\ \A j \in 1..(i - 1) : RemoveAt(s, i)[j] = s[j]
         /\ \A j \in i..(Len(s) - 1) : RemoveAt(s, i)[j] = s[j + 1]
<1> DEFINE t == RemoveAt(s, i)
           a == SubSeq(s, 1, i - 1)
           b == SubSeq(s, i + 1, Len(s))
<1>0. Len(s) \in Nat
  OBVIOUS
<1>1. a \in Seq(S) /\ Len(a) = i - 1 /\ \A j \in 1..(i - 1) : a[j] = s[j]
  OBVIOUS
<1>2. b \in Seq(S) /\ Len(b) = Len(s) - i /\ \A j \in 1..(Len(s) - i) : b[j] = s[i + j]
  OBVIOUS
<1>3. t = a \o b
  BY DEF RemoveAt
<1> HIDE DEF t, a, b
<1>4. t \in Seq(S) /\ Len(t) = Len(s) - 1
  BY <1>0, <1>1, <1>2, <1>3
<1>5. \A j \in 1..(i - 1) : t[j] = a[j]
  BY <1>1, <1>2, <1>3
<1>6. \A j \in 1..(Len(s) - i) : t[(i - 1) + j] = b[j]
  BY <1>0, <1>1, <1>2, <1>3
<1>7. ASSUME NEW j \in i..(Len(s) - 1) PROVE t[j] = s[j + 1]
  <2> DEFINE k == j + 1 - i
  <2>1. k \in 1..(Len(s) - i) /\ (i - 1) + k = j /\ i + k = j + 1
    BY <1>0
  <2>2. t[(i - 1) + k] = b[k] /\ b[k] = s[i + k]
    BY <2>1, <1>2, <1>6
  <2> QED
    BY <2>1, <2>2
<1> QED
  BY <1>1, <1>4, <1>5, <1>7 DEF t

-----------------------------------------------------------------------------

(* The inductive invariant. *)
IInv == TypeOK /\ RangesTile /\ Coalesced

(* What the type invariant says of one range. *)
LEMMA RangeType ==
  ASSUME TypeOK
  PROVE  /\ DOMAIN ranges = 1..Len(ranges) /\ Len(ranges) \in Nat
         /\ \A i \in 1..Len(ranges) :
              /\ ranges[i] \in AddressRange
              /\ ranges[i].base \in Nat \ {0} /\ ranges[i].pages \in Nat \ {0}
              /\ ranges[i].used \in BOOLEAN /\ ranges[i].flags \in Flags
<1>1. ranges \in Seq(AddressRange)
  BY DEF TypeOK
<1>2. DOMAIN ranges = 1..Len(ranges) /\ Len(ranges) \in Nat
      /\ \A i \in 1..Len(ranges) : ranges[i] \in AddressRange
  BY <1>1
<1>3. \A x \in AddressRange : /\ x.base \in Nat \ {0} /\ x.pages \in Nat \ {0}
                              /\ x.used \in BOOLEAN /\ x.flags \in Flags
  BY DEF AddressRange
<1> QED
  BY <1>2, <1>3

(* RangesTile, page by page. *)
LEMMA InSpace ==
  ASSUME TypeOK, RangesTile, NEW p
  PROVE  p \in space <=> \E i \in 1..Len(ranges) : p \in PagesOf(ranges[i])
  BY RangeType DEF RangesTile

(* An area that is not yet inserted has no page in common with a range. *)
LEMMA AreaIsNew ==
  ASSUME TypeOK, RangesTile, NEW r \in Region \ initialized, NEW i \in 1..Len(ranges)
  PROVE  End(ranges[i]) <= r.base \/ End(r) <= ranges[i].base
<1> DEFINE q == IF ranges[i].base >= r.base THEN ranges[i].base ELSE r.base
<1>1. /\ r.base \in Nat \ {0} /\ r.pages \in Nat \ {0}
      /\ ranges[i].base \in Nat \ {0} /\ ranges[i].pages \in Nat \ {0}
  BY RegionAssumption, RangeType
<1>2. SUFFICES ASSUME ~(End(ranges[i]) <= r.base), ~(End(r) <= ranges[i].base)
               PROVE  FALSE
  OBVIOUS
<1>3. q \in PagesOf(ranges[i]) /\ q \in PagesOf(r)
  BY <1>1, <1>2, SMTT(30), ZenonT(30), SMTT(60) DEF End, PagesOf
<1>4. q \in space
  BY <1>3, InSpace
<1>5. PICK s \in initialized : q \in PagesOf(s)
  BY <1>4 DEF space
<1>6. s \in Region /\ s # r
  BY DEF TypeOK
<1>7. r.base + r.pages <= s.base \/ s.base + s.pages <= r.base
  BY <1>6, RegionAssumption
<1>8. s.base \in Nat /\ s.pages \in Nat
  BY <1>6, RegionAssumption
<1> HIDE DEF q
<1> QED
  BY <1>1, <1>3, <1>5, <1>7, <1>8, SMTT(30), ZenonT(30), SMTT(60) DEF PagesOf

-----------------------------------------------------------------------------
(* initialize *)

(* initialize puts the area where it belongs in the list, so the ranges still tile. *)
LEMMA InitializeInv ==
  ASSUME IInv, NEW r \in Region, initialize(r)
  PROVE  IInv'
<1> DEFINE new == [base |-> r.base, pages |-> r.pages, used |-> FALSE, flags |-> 0]
<1>1. PICK i \in 0..Len(ranges) : IsLastBelow(i, r.base) /\ ranges' = InsertAt(ranges, i + 1, new)
  BY DEF initialize
<1>2. /\ r \in Region \ initialized /\ current' = 1
      /\ initialized' = initialized \cup {r} /\ result' = result
  BY DEF initialize
<1>3. TypeOK /\ RangesTile /\ ranges \in Seq(AddressRange) /\ Len(ranges) \in Nat
  BY DEF IInv, TypeOK
<1>4. new \in AddressRange /\ new.base = r.base /\ new.pages = r.pages
      /\ r.base \in Nat \ {0} /\ r.pages \in Nat \ {0}
  BY RegionAssumption, RequestAssumption DEF AddressRange
<1> HIDE DEF new
<1>5. /\ ranges' \in Seq(AddressRange) /\ Len(ranges') = Len(ranges) + 1
      /\ DOMAIN ranges' = 1..(Len(ranges) + 1)
      /\ \A j \in 1..i : ranges'[j] = ranges[j]
      /\ i + 1 \in 1..(Len(ranges) + 1) /\ ranges'[i + 1] = new
      /\ \A j \in (i + 1)..Len(ranges) : ranges'[j + 1] = ranges[j]
  <2>1. i + 1 \in 1..(Len(ranges) + 1)
    BY <1>3
  <2>2. PICK m \in 1..(Len(ranges) + 1) : m = i + 1
    BY <2>1
  <2>3. ranges' = InsertAt(ranges, m, new)
    BY <1>1, <2>2
  <2>4. /\ ranges' \in Seq(AddressRange) /\ Len(ranges') = Len(ranges) + 1
        /\ \A j \in 1..(m - 1) : ranges'[j] = ranges[j]
        /\ ranges'[m] = new
        /\ \A j \in m..Len(ranges) : ranges'[j + 1] = ranges[j]
    <3>1. ranges \in Seq(AddressRange) /\ new \in AddressRange
      BY <1>3, <1>4
    <3> DEFINE t == InsertAt(ranges, m, new)
    <3>2. /\ t \in Seq(AddressRange) /\ Len(t) = Len(ranges) + 1
          /\ \A j \in 1..(m - 1) : t[j] = ranges[j]
          /\ t[m] = new
          /\ \A j \in m..Len(ranges) : t[j + 1] = ranges[j]
      BY <3>1, Inserted
    <3> QED
      BY <2>3, <3>2, Zenon
  <2>5. DOMAIN ranges' = 1..Len(ranges') /\ m - 1 = i
    BY <2>2, <2>4
  <2> QED
    BY <2>1, <2>2, <2>4, <2>5
<1>55. \A k \in 1..(Len(ranges) + 1) :
         \/ k \in 1..i /\ k \in 1..Len(ranges) /\ ranges'[k] = ranges[k]
         \/ k = i + 1
         \/ k - 1 \in (i + 1)..Len(ranges) /\ k - 1 \in 1..Len(ranges) /\ ranges'[k] = ranges[k - 1]
  <2> TAKE k \in 1..(Len(ranges) + 1)
  <2>1. CASE k <= i
    BY <2>1, <1>3, <1>5
  <2>2. CASE k > i + 1
    <3>1. k - 1 \in (i + 1)..Len(ranges) /\ (k - 1) + 1 = k
      BY <2>2, <1>3
    <3>2. ranges'[(k - 1) + 1] = ranges[k - 1]
      BY <3>1, <1>5
    <3> QED
      BY <3>1, <3>2, <1>3
  <2> QED
    BY <2>1, <2>2, <1>3
<1>6. TypeOK'
  BY <1>2, <1>3, <1>5 DEF TypeOK
<1>7. \A j \in 1..Len(ranges) : /\ ranges[j].base \in Nat /\ ranges[j].pages \in Nat \ {0}
                                 /\ (j <= i => End(ranges[j]) <= r.base)
                                 /\ (j > i => End(r) <= ranges[j].base)
  <2> TAKE j \in 1..Len(ranges)
  <2>1. ranges[j].base \in Nat /\ ranges[j].pages \in Nat \ {0} /\ DOMAIN ranges = 1..Len(ranges)
    BY <1>3, RangeType
  <2>2. End(ranges[j]) <= r.base \/ End(r) <= ranges[j].base
    BY <1>2, <1>3, AreaIsNew
  <2>3. ASSUME j > i PROVE ~(ranges[j].base < r.base)
    BY <1>1, <2>1, <2>3 DEF IsLastBelow, Below
  <2>4. ASSUME j <= i PROVE ranges[j].base < r.base
    <3>1. i \in 1..Len(ranges) /\ ranges[i].base < r.base
      BY <1>1, <2>1, <2>4 DEF IsLastBelow, Below
    <3>2. ranges[i].base \in Nat
      BY <1>3, <3>1, RangeType
    <3>3. CASE j < i
      <4>1. End(ranges[j]) <= ranges[i].base
        BY <1>3, <2>1, <3>1, <3>3 DEF RangesTile
      <4> QED
        BY <1>4, <2>1, <3>1, <3>2, <4>1 DEF End
    <3> QED
      BY <2>4, <3>1, <3>3, <1>3
  <2> QED
    BY <1>4, <2>1, <2>2, <2>3, <2>4, <1>3 DEF End
<1>8. ASSUME NEW j \in 1..(Len(ranges) + 1), NEW k \in 1..(Len(ranges) + 1), j < k
      PROVE  End(ranges'[j]) <= ranges'[k].base
  <2>1. \A m, n \in 1..Len(ranges) : m < n => End(ranges[m]) <= ranges[n].base
    BY <1>3, RangeType, ZenonT(30) DEF RangesTile
  <2>2. CASE k <= i
    <3>1. j \in 1..i /\ k \in 1..i /\ j \in 1..Len(ranges) /\ k \in 1..Len(ranges)
      BY <1>3, <1>8, <2>2
    <3> QED
      BY <1>5, <1>8, <2>1, <3>1
  <2>3. CASE k = i + 1
    <3>1. j \in 1..i /\ j \in 1..Len(ranges)
      BY <1>3, <1>8, <2>3
    <3> QED
      BY <1>4, <1>5, <1>7, <2>3, <3>1
  <2>4. CASE k > i + 1
    <3>1. k - 1 \in 1..Len(ranges) /\ k - 1 > i /\ ranges'[k] = ranges[k - 1]
      BY <1>3, <1>55, <2>4
    <3>2. CASE j <= i
      <4>1. j \in 1..i /\ j \in 1..Len(ranges) /\ j < k - 1
        BY <1>3, <2>4, <3>2
      <4> QED
        BY <1>5, <2>1, <3>1, <4>1
    <3>3. CASE j = i + 1
      BY <1>4, <1>5, <1>7, <3>1, <3>3 DEF End
    <3>4. CASE j > i + 1
      <4>1. j - 1 \in 1..Len(ranges) /\ ranges'[j] = ranges[j - 1] /\ j - 1 < k - 1
        BY <1>3, <1>55, <1>8, <3>4
      <4> QED
        BY <2>1, <3>1, <4>1
    <3> QED
      BY <3>2, <3>3, <3>4, <1>3
  <2> QED
    BY <2>2, <2>3, <2>4, <1>3
<1>9. ASSUME NEW p
      PROVE  p \in space' <=> \E j \in 1..(Len(ranges) + 1) : p \in PagesOf(ranges'[j])
  <2>1. p \in space' <=> p \in space \/ p \in PagesOf(r)
    BY <1>2 DEF space
  <2>2. p \in space <=> \E j \in 1..Len(ranges) : p \in PagesOf(ranges[j])
    BY <1>3, InSpace
  <2>3. PagesOf(new) = PagesOf(r)
    BY <1>4 DEF PagesOf
  <2>4. \A j \in 1..Len(ranges) : \E k \in 1..(Len(ranges) + 1) : ranges'[k] = ranges[j]
    <3> TAKE j \in 1..Len(ranges)
    <3>1. CASE j <= i
      BY <3>1, <1>3, <1>5
    <3>2. CASE j > i
      <4>1. j + 1 \in 1..(Len(ranges) + 1) /\ j \in (i + 1)..Len(ranges)
        BY <1>3, <3>2
      <4>2. ranges'[j + 1] = ranges[j]
        BY <4>1, <1>5
      <4> QED
        BY <4>1, <4>2
    <3> QED
      BY <3>1, <3>2, <1>3
  <2>6. \A k \in 1..(Len(ranges) + 1) :
          ranges'[k] = new \/ \E j \in 1..Len(ranges) : ranges'[k] = ranges[j]
    BY <1>5, <1>55, ZenonT(30)
  <2> QED
    BY <2>1, <2>2, <2>3, <2>4, <1>5, <2>6, ZenonT(30)
<1>10. RangesTile'
  BY <1>5, <1>8, <1>9 DEF RangesTile
<1>11. Coalesced'
  BY <1>2, <1>3, <1>5 DEF Coalesced, Idle
<1> QED
  BY <1>6, <1>10, <1>11 DEF IInv

-----------------------------------------------------------------------------
(* allocate *)

(* What allocate makes of the list when it splits the range i: the part taken, *)
(* the splinter after it, and the other ranges as they were.                   *)
LEMMA SplitShape ==
  ASSUME TypeOK, NEW i \in 1..Len(ranges), NEW n \in Nat \ {0}, NEW f \in Flags,
         ranges[i].pages > n, ranges' = taken(i, n, f)
  PROVE  /\ ranges' \in Seq(AddressRange) /\ Len(ranges') = Len(ranges) + 1
         /\ DOMAIN ranges' = 1..(Len(ranges) + 1)
         /\ \A k \in 1..(i - 1) : ranges'[k] = ranges[k]
         /\ ranges'[i] = [base |-> ranges[i].base, pages |-> n, used |-> TRUE, flags |-> f]
         /\ ranges'[i + 1] = [base |-> ranges[i].base + n, pages |-> ranges[i].pages - n,
                              used |-> FALSE, flags |-> 0]
         /\ \A k \in (i + 1)..Len(ranges) : ranges'[k + 1] = ranges[k]
<1> DEFINE r == ranges[i]
           now == [base |-> r.base, pages |-> n, used |-> TRUE, flags |-> f]
           splinter == [base |-> r.base + n, pages |-> r.pages - n, used |-> FALSE, flags |-> 0]
           held == [ranges EXCEPT ![i] = now]
<1>1. ranges \in Seq(AddressRange) /\ Len(ranges) \in Nat /\ r \in AddressRange
      /\ r.base \in Nat \ {0} /\ r.pages \in Nat \ {0}
  BY RangeType DEF TypeOK
<1>2. now \in AddressRange /\ splinter \in AddressRange
  BY <1>1, RequestAssumption, SMTT(30) DEF AddressRange
<1>4. ranges' = InsertAt(held, i + 1, splinter)
  <2>1. r.pages - n > 0
    BY <1>1
  <2> QED
    BY <2>1 DEF taken
<1> HIDE DEF now, splinter, r
<1>5. /\ held \in Seq(AddressRange) /\ Len(held) = Len(ranges) /\ held[i] = now
      /\ \A k \in 1..Len(ranges) : k # i => held[k] = ranges[k]
  BY <1>1, <1>2
<1> HIDE DEF held
<1>6. PICK m \in 1..(Len(held) + 1) : m = i + 1
  BY <1>1, <1>5
<1> DEFINE t == InsertAt(held, m, splinter)
<1>7. /\ t \in Seq(AddressRange) /\ Len(t) = Len(held) + 1
      /\ \A j \in 1..(m - 1) : t[j] = held[j]
      /\ t[m] = splinter
      /\ \A j \in m..Len(held) : t[j + 1] = held[j]
  <2>1. splinter \in AddressRange /\ held \in Seq(AddressRange)
    BY <1>2, <1>5
  <2> QED
    BY <2>1, Inserted
<1>8. ranges' = t
  BY <1>4, <1>6
<1> HIDE DEF t
<1>9. /\ ranges' \in Seq(AddressRange) /\ Len(ranges') = Len(held) + 1
      /\ \A j \in 1..(m - 1) : ranges'[j] = held[j]
      /\ ranges'[m] = splinter
      /\ \A j \in m..Len(held) : ranges'[j + 1] = held[j]
  BY <1>7, <1>8, Zenon
<1>10. m - 1 = i /\ DOMAIN ranges' = 1..Len(ranges')
  BY <1>6, <1>9
<1>11. \A k \in 1..(i - 1) : ranges'[k] = ranges[k]
  BY <1>1, <1>5, <1>9, <1>10
<1>12. ranges'[i] = now
  BY <1>1, <1>5, <1>9, <1>10
<1>13. \A k \in (i + 1)..Len(ranges) : ranges'[k + 1] = ranges[k]
  BY <1>1, <1>5, <1>6, <1>9
<1>14. ranges'[i + 1] = splinter
  BY <1>6, <1>9
<1> QED
  BY <1>5, <1>9, <1>10, <1>11, <1>12, <1>13, <1>14 DEF now, splinter, r

(* Every range after a split is one of these. *)
LEMMA SplitCases ==
  ASSUME TypeOK, NEW i \in 1..Len(ranges), NEW k \in 1..(Len(ranges) + 1),
         \A j \in 1..(i - 1) : ranges'[j] = ranges[j],
         \A j \in (i + 1)..Len(ranges) : ranges'[j + 1] = ranges[j]
  PROVE  \/ k < i /\ k \in 1..Len(ranges) /\ ranges'[k] = ranges[k]
         \/ k = i
         \/ k = i + 1
         \/ k > i + 1 /\ k - 1 \in 1..Len(ranges) /\ k - 1 > i /\ ranges'[k] = ranges[k - 1]
<1>1. Len(ranges) \in Nat
  BY RangeType
<1>2. CASE k < i
  BY <1>1, <1>2
<1>3. CASE k > i + 1
  <2>1. k - 1 \in (i + 1)..Len(ranges) /\ (k - 1) + 1 = k
    BY <1>1, <1>3
  <2>2. ranges'[(k - 1) + 1] = ranges[k - 1]
    BY <2>1
  <2> QED
    BY <1>1, <1>3, <2>1, <2>2
<1> QED
  BY <1>1, <1>2, <1>3

(* An exact fit only changes the range itself. *)
LEMMA ExactShape ==
  ASSUME TypeOK, NEW i \in 1..Len(ranges), NEW n \in Nat \ {0}, NEW f \in Flags,
         ranges[i].pages = n, ranges' = taken(i, n, f)
  PROVE  /\ ranges' \in Seq(AddressRange) /\ Len(ranges') = Len(ranges)
         /\ DOMAIN ranges' = 1..Len(ranges)
         /\ ranges'[i] = [base |-> ranges[i].base, pages |-> n, used |-> TRUE, flags |-> f]
         /\ \A k \in 1..Len(ranges) : k # i => ranges'[k] = ranges[k]
<1> DEFINE r == ranges[i]
           now == [base |-> r.base, pages |-> n, used |-> TRUE, flags |-> f]
<1>1. ranges \in Seq(AddressRange) /\ Len(ranges) \in Nat /\ r \in AddressRange
      /\ r.base \in Nat \ {0} /\ r.pages \in Nat \ {0}
  BY RangeType DEF TypeOK
<1>2. now \in AddressRange
  BY <1>1 DEF AddressRange
<1>3. ranges' = [ranges EXCEPT ![i] = now]
  <2>1. ~(r.pages - n > 0)
    BY <1>1
  <2> QED
    BY <2>1 DEF taken
<1> HIDE DEF now, r
<1>4. /\ ranges' \in Seq(AddressRange) /\ Len(ranges') = Len(ranges)
      /\ DOMAIN ranges' = 1..Len(ranges) /\ ranges'[i] = now
      /\ \A k \in 1..Len(ranges) : k # i => ranges'[k] = ranges[k]
  BY <1>1, <1>2, <1>3
<1> QED
  BY <1>4 DEF now, r

(* The split preserves the invariant. *)
LEMMA SplitInv ==
  ASSUME IInv, Idle, NEW i \in 1..Len(ranges), NEW n \in Nat \ {0}, NEW f \in Flags,
         ~ranges[i].used, ranges[i].pages > n, ranges' = taken(i, n, f),
         result' = ranges[i].base, UNCHANGED <<current, initialized>>
  PROVE  IInv'
<1> DEFINE L == Len(ranges)
<1>1. /\ TypeOK /\ RangesTile /\ Coalesced /\ L \in Nat /\ DOMAIN ranges = 1..L
      /\ \A k \in 1..L : ranges[k].base \in Nat /\ ranges[k].pages \in Nat \ {0}
  BY RangeType DEF IInv
<1>2. /\ ranges' \in Seq(AddressRange) /\ Len(ranges') = L + 1 /\ DOMAIN ranges' = 1..(L + 1)
      /\ \A k \in 1..(i - 1) : ranges'[k] = ranges[k]
      /\ \A k \in (i + 1)..L : ranges'[k + 1] = ranges[k]
  BY <1>1, SplitShape, ZenonT(30)
<1>3. /\ ranges'[i].base = ranges[i].base /\ ranges'[i].pages = n /\ ranges'[i].used = TRUE
      /\ ranges'[i + 1].base = ranges[i].base + n
      /\ ranges'[i + 1].pages = ranges[i].pages - n /\ ranges'[i + 1].used = FALSE
  <2>1. /\ ranges'[i] = [base |-> ranges[i].base, pages |-> n, used |-> TRUE, flags |-> f]
        /\ ranges'[i + 1] = [base |-> ranges[i].base + n, pages |-> ranges[i].pages - n,
                              used |-> FALSE, flags |-> 0]
    BY <1>1, SplitShape
  <2> QED
    BY <2>1
<1>33. /\ ranges[i].base \in Nat /\ ranges[i].pages \in Nat
       /\ End(ranges'[i]) = ranges[i].base + n /\ End(ranges'[i + 1]) = End(ranges[i])
       /\ End(ranges[i]) \in Nat /\ ranges[i].base + n <= End(ranges[i])
  <2>1. ranges[i].base \in Nat /\ ranges[i].pages \in Nat
    BY <1>1
  <2> QED
    <3>1. PICK b \in Nat, q \in Nat : b = ranges[i].base /\ q = ranges[i].pages
      BY <2>1
    <3>2. /\ End(ranges[i]) = b + q /\ End(ranges'[i]) = b + n
          /\ End(ranges'[i + 1]) = (b + n) + (q - n) /\ q > n
      BY <1>3, <3>1 DEF End
    <3>3. (b + n) + (q - n) = b + q /\ b + q \in Nat /\ b + n <= b + q
      BY <3>2
    <3>4. End(ranges'[i + 1]) = b + q
      BY <3>2, <3>3, Zenon
    <3> QED
      BY <2>1, <3>1, <3>2, <3>3, <3>4, Zenon
<1>4. ASSUME NEW k \in 1..(L + 1)
      PROVE  \/ k < i /\ k \in 1..L /\ ranges'[k] = ranges[k]
             \/ k = i
             \/ k = i + 1
             \/ k > i + 1 /\ k - 1 \in 1..L /\ k - 1 > i /\ ranges'[k] = ranges[k - 1]
  BY <1>1, <1>2, SplitCases
<1>5. TypeOK'
  BY <1>1, <1>2 DEF TypeOK, Idle
<1>6. \A j, k \in 1..L : j < k => End(ranges[j]) <= ranges[k].base
  BY <1>1, SMTT(30), ZenonT(30), SMTT(60) DEF RangesTile
<1> HIDE DEF L
<1>7. ASSUME NEW j \in 1..(L + 1), NEW k \in 1..(L + 1), j < k
      PROVE  End(ranges'[j]) <= ranges'[k].base
  <2>1. i \in 1..L
    BY DEF L
  <2>2. CASE k < i
    <3>1. /\ j \in 1..L /\ ranges'[j] = ranges[j] /\ k \in 1..L /\ ranges'[k] = ranges[k]
      BY <1>4, <1>7, <2>2, <1>1
    <3> QED
      BY <3>1, <1>6, <1>7
  <2>3. CASE k = i \/ k = i + 1
    <3>1. CASE j < i
      <4>1. j \in 1..L /\ ranges'[j] = ranges[j]
        BY <1>1, <1>4, <3>1, SMTT(30), ZenonT(30), SMTT(60)
      <4>2. End(ranges[j]) <= ranges[i].base
        BY <1>6, <2>1, <3>1, <4>1
      <4> QED
        BY <1>1, <1>3, <2>1, <2>3, <4>1, <4>2, SMTT(30) DEF End
    <3>2. CASE j = i
      BY <1>1, <1>3, <1>7, <2>1, <2>3, <3>2 DEF End
    <3> QED
      BY <1>1, <1>7, <2>3, <3>1, <3>2
  <2>4. CASE k > i + 1
    <3>1. k - 1 \in 1..L /\ k - 1 > i /\ ranges'[k] = ranges[k - 1]
      BY <1>1, <1>4, <2>4
    <3>2. CASE j < i
      <4>1. j \in 1..L /\ ranges'[j] = ranges[j] /\ j < k - 1
        BY <1>1, <1>4, <3>2, <3>1
      <4> QED
        BY <1>6, <3>1, <4>1
    <3>3. CASE j = i \/ j = i + 1
      <4>1. End(ranges[i]) <= ranges[k - 1].base
        BY <1>6, <2>1, <3>1
      <4>2. ranges[k - 1].base \in Nat
        BY <1>1, <3>1
      <4> QED
        BY <1>33, <3>1, <3>3, <4>1, <4>2, SMTT(30), ZenonT(30), SMTT(60)
    <3>4. CASE j > i + 1
      <4>1. j - 1 \in 1..L /\ ranges'[j] = ranges[j - 1] /\ j - 1 < k - 1
        BY <1>1, <1>4, <1>7, <3>4
      <4> QED
        BY <1>6, <3>1, <4>1
    <3> QED
      BY <1>1, <3>2, <3>3, <3>4
  <2> QED
    BY <1>1, <2>2, <2>3, <2>4
<1>8. ASSUME NEW p
      PROVE  p \in space' <=> \E j \in 1..(L + 1) : p \in PagesOf(ranges'[j])
  <2>1. p \in space' <=> \E j \in 1..L : p \in PagesOf(ranges[j])
    <3>1. space' = space
      BY DEF space
    <3> QED
      BY <1>1, <3>1, InSpace DEF L
  <2>2. i \in 1..L /\ i \in 1..(L + 1) /\ i + 1 \in 1..(L + 1)
    BY <1>1 DEF L
  <2>3. p \in PagesOf(ranges[i]) <=> p \in PagesOf(ranges'[i]) \/ p \in PagesOf(ranges'[i + 1])
    <3>1. PICK b \in Nat, q \in Nat : b = ranges[i].base /\ q = ranges[i].pages
      BY <1>33
    <3>2. /\ PagesOf(ranges[i]) = b..(b + q - 1) /\ PagesOf(ranges'[i]) = b..(b + n - 1)
          /\ PagesOf(ranges'[i + 1]) = (b + n)..((b + n) + (q - n) - 1) /\ q > n
      BY <1>3, <3>1 DEF PagesOf
    <3> QED
      BY <3>2, SMTT(30)
  <2>4. \A k \in 1..(L + 1) : k = i \/ k = i + 1 \/ \E j \in 1..L : ranges'[k] = ranges[j]
    BY <1>4
  <2>5. \A j \in 1..L : j = i \/ \E k \in 1..(L + 1) : ranges'[k] = ranges[j]
    <3> TAKE j \in 1..L
    <3>1. CASE j < i
      BY <1>1, <1>2, <3>1
    <3>2. CASE j > i
      <4>1. j \in (i + 1)..L /\ j + 1 \in 1..(L + 1)
        BY <1>1, <2>2, <3>2
      <4>2. ranges'[j + 1] = ranges[j]
        BY <1>2, <4>1
      <4> QED
        BY <4>1, <4>2
    <3> QED
      BY <1>1, <2>2, <3>1, <3>2
  <2> QED
    BY <2>1, <2>2, <2>3, <2>4, <2>5, ZenonT(30)
<1>9. RangesTile'
  BY <1>2, <1>7, <1>8 DEF RangesTile
<1>10. ASSUME NEW k \in 1..(L + 1), k < L + 1, Mergeable(k)'
       PROVE  FALSE
  <2>1. \A j \in 1..L : j < L => ~Mergeable(j)
    BY <1>1 DEF Coalesced, L
  <2>2. /\ ~ranges'[k].used /\ ~ranges'[k + 1].used
        /\ End(ranges'[k]) = ranges'[k + 1].base
    BY <1>10 DEF Mergeable
  <2>3. k + 1 \in 1..(L + 1) /\ i \in 1..L
    BY <1>1, <1>10 DEF L
  <2>4. CASE k < i
    <3>1. k + 1 # i
      BY <1>3, <2>2
    <3>2. k \in 1..L /\ ranges'[k] = ranges[k] /\ k + 1 < i
      BY <1>1, <1>4, <2>3, <2>4, <3>1
    <3>3. k + 1 \in 1..(i - 1) /\ k < L
      BY <1>1, <2>3, <3>2
    <3>4. ranges'[k + 1] = ranges[k + 1]
      BY <1>2, <3>3
    <3>5. Mergeable(k)
      BY <2>2, <3>2, <3>4 DEF Mergeable
    <3> QED
      BY <2>1, <3>2, <3>3, <3>5
  <2>5. CASE k = i
    BY <1>3, <2>2, <2>5
  <2>6. CASE k > i
    <3>1. k + 1 > i + 1 /\ (k + 1) - 1 = k /\ k < L + 1
      BY <1>1, <1>10, <2>3, <2>6
    <3>2. k \in 1..L /\ k \in (i + 1)..L
      BY <1>1, <1>10, <2>3, <2>6
    <3>3. ranges'[k + 1] = ranges[k]
      BY <1>2, <3>2
    <3>4. CASE k = i + 1
      <4>1. End(ranges[i]) = ranges[i + 1].base
        BY <1>33, <2>2, <3>3, <3>4
      <4>2. Mergeable(i)
        BY <2>2, <3>3, <3>4, <4>1 DEF Mergeable
      <4> QED
        BY <1>1, <2>1, <2>3, <3>2, <3>4, <4>2
    <3>5. CASE k > i + 1
      <4>1. k - 1 \in 1..L /\ ranges'[k] = ranges[k - 1]
        BY <1>1, <1>4, <2>3, <3>5
      <4>2. (k - 1) + 1 = k /\ k - 1 < L
        BY <1>1, <3>2
      <4>3. Mergeable(k - 1)
        BY <2>2, <3>3, <4>1, <4>2 DEF Mergeable
      <4> QED
        BY <2>1, <4>1, <4>2, <4>3
    <3> QED
      BY <1>1, <2>3, <2>6, <3>4, <3>5
  <2> QED
    BY <1>1, <2>3, <2>4, <2>5, <2>6
<1>11. Coalesced'
  BY <1>2, <1>10 DEF Coalesced
<1> QED
  BY <1>5, <1>9, <1>11 DEF IInv

(* An exact fit preserves the invariant. *)
LEMMA ExactInv ==
  ASSUME IInv, Idle, NEW i \in 1..Len(ranges), NEW n \in Nat \ {0}, NEW f \in Flags,
         ranges[i].pages = n, ranges' = taken(i, n, f),
         result' = ranges[i].base, UNCHANGED <<current, initialized>>
  PROVE  IInv'
<1> DEFINE L == Len(ranges)
<1>1. /\ TypeOK /\ RangesTile /\ Coalesced /\ L \in Nat /\ DOMAIN ranges = 1..L
      /\ \A k \in 1..L : ranges[k].base \in Nat /\ ranges[k].pages \in Nat \ {0}
  BY RangeType DEF IInv
<1>2. /\ ranges' \in Seq(AddressRange) /\ Len(ranges') = L /\ DOMAIN ranges' = 1..L
      /\ ranges'[i] = [base |-> ranges[i].base, pages |-> n, used |-> TRUE, flags |-> f]
      /\ \A k \in 1..L : k # i => ranges'[k] = ranges[k]
  BY <1>1, ExactShape
<1>3. /\ \A k \in 1..L : /\ ranges'[k].base = ranges[k].base /\ ranges'[k].pages = ranges[k].pages
                          /\ (~ranges'[k].used => ~ranges[k].used)
  BY <1>2
<1>4. TypeOK'
  BY <1>1, <1>2 DEF TypeOK, Idle
<1> HIDE DEF L
<1>5. \A k \in 1..L : PagesOf(ranges'[k]) = PagesOf(ranges[k]) /\ End(ranges'[k]) = End(ranges[k])
  BY <1>3 DEF PagesOf, End
<1>6. space' = space
  BY DEF space
<1>7. RangesTile'
  <2>1. /\ \A j, k \in 1..L : j < k => End(ranges[j]) <= ranges[k].base
        /\ space = UNION {PagesOf(ranges[k]) : k \in 1..L}
    BY <1>1, ZenonT(30) DEF RangesTile
  <2>2. \A j, k \in 1..L : j < k => End(ranges'[j]) <= ranges'[k].base
    BY <1>3, <1>5, <2>1
  <2>3. {PagesOf(ranges[k]) : k \in 1..L} = {PagesOf(ranges'[k]) : k \in 1..L}
    BY <1>5
  <2> QED
    BY <1>2, <1>6, <2>1, <2>2, <2>3, ZenonT(30) DEF RangesTile
<1>8. Coalesced'
  <2>1. ASSUME NEW k \in 1..L, k < L, Mergeable(k)' PROVE FALSE
    <3>1. k + 1 \in 1..L
      BY <1>1, <2>1
    <3>2. Mergeable(k)
      BY <1>3, <1>5, <2>1, <3>1 DEF Mergeable
    <3> QED
      BY <1>1, <2>1, <3>2 DEF Coalesced, L
  <2> QED
    BY <1>2, <2>1 DEF Coalesced
<1> QED
  BY <1>4, <1>7, <1>8 DEF IInv

(* allocate preserves the invariant. *)
LEMMA AllocateInv ==
  ASSUME IInv, NEW q \in 0..MaxPages, NEW f \in Flags, allocate(q, f)
  PROVE  IInv'
<1> DEFINE n == AtLeastOne(q)
<1>1. n \in Nat \ {0}
  BY RequestAssumption DEF AtLeastOne
<1>2. Idle /\ UNCHANGED <<current, initialized>> /\ (allocateFound(n, f) \/ allocateFailed(n))
  BY DEF allocate
<1> HIDE DEF n
<1>3. CASE allocateFound(n, f)
  <2>1. PICK i \in FirstFitting(n) : ranges' = taken(i, n, f) /\ result' = ranges[i].base
    BY <1>3 DEF allocateFound
  <2>2. i \in 1..Len(ranges) /\ ~ranges[i].used /\ ranges[i].pages >= n /\ ranges[i].pages \in Nat
    BY <2>1, RangeType DEF FirstFitting, Fitting, IInv
  <2>3. CASE ranges[i].pages = n
    BY <1>1, <1>2, <2>1, <2>2, <2>3, ExactInv, ZenonT(30)
  <2>4. CASE ranges[i].pages > n
    BY <1>1, <1>2, <2>1, <2>2, <2>4, SplitInv
  <2> QED
    BY <1>1, <2>2, <2>3, <2>4
<1>4. CASE allocateFailed(n)
  <2>1. ranges' = ranges /\ result' = 0 /\ current' = current /\ initialized' = initialized
    BY <1>2, <1>4 DEF allocateFailed
  <2> QED
    BY <2>1 DEF IInv, TypeOK, RangesTile, Coalesced, space, Mergeable, Idle
<1> QED
  BY <1>2, <1>3, <1>4

-----------------------------------------------------------------------------
(* free *)

(* What freeing the range i makes of the list. *)
LEMMA FreeShape ==
  ASSUME TypeOK, NEW i \in 1..Len(ranges), freeFound(i)
  PROVE  /\ ranges' \in Seq(AddressRange) /\ Len(ranges') = Len(ranges)
         /\ DOMAIN ranges' = 1..Len(ranges)
         /\ \A k \in 1..Len(ranges) :
              /\ ranges'[k].base = ranges[k].base /\ ranges'[k].pages = ranges[k].pages
              /\ ranges'[k].flags = ranges[k].flags
              /\ ranges'[k].used = (k # i /\ ranges[k].used)
<1> DEFINE r == ranges[i]
           now == [r EXCEPT !.used = FALSE]
<1>1. ranges \in Seq(AddressRange) /\ Len(ranges) \in Nat /\ r \in AddressRange
  BY RangeType DEF TypeOK
<1>2. /\ now \in AddressRange /\ now.base = r.base /\ now.pages = r.pages
      /\ now.flags = r.flags /\ now.used = FALSE
  BY <1>1, ZenonT(30) DEF AddressRange
<1>3. ranges' = [ranges EXCEPT ![i] = now]
  BY DEF freeFound
<1> HIDE DEF now
<1>4. /\ ranges' \in Seq(AddressRange) /\ Len(ranges') = Len(ranges)
      /\ DOMAIN ranges' = 1..Len(ranges) /\ ranges'[i] = now
      /\ \A k \in 1..Len(ranges) : k # i => ranges'[k] = ranges[k]
  BY <1>1, <1>2, <1>3
<1>5. \A k \in 1..Len(ranges) : ranges[k].used \in BOOLEAN
  BY RangeType
<1> QED
  BY <1>2, <1>4, <1>5, ZenonT(30)

(* free preserves the invariant. *)
LEMMA FreeInv ==
  ASSUME IInv, NEW b, free(b)
  PROVE  IInv'
<1> DEFINE L == Len(ranges)
<1>1. /\ TypeOK /\ RangesTile /\ L \in Nat /\ DOMAIN ranges = 1..L
      /\ \A k \in 1..L : ranges[k].base \in Nat /\ ranges[k].pages \in Nat
  BY RangeType DEF IInv
<1>2. initialized' = initialized
  BY DEF free
<1>3. CASE freeNothing(b)
  <2>1. ranges' = ranges /\ result' = -1 /\ current' = current
    BY <1>3 DEF freeNothing
  <2> QED
    BY <1>2, <2>1 DEF IInv, TypeOK, RangesTile, Coalesced, space, Mergeable, Idle
<1>4. ASSUME NEW i \in FirstAt(b), freeFound(i) PROVE IInv'
  <2>1. i \in 1..L /\ current' = 1 /\ result' = ranges[i].pages
    BY <1>1, <1>4 DEF FirstAt, At, freeFound
  <2>2. /\ ranges' \in Seq(AddressRange) /\ Len(ranges') = L /\ DOMAIN ranges' = 1..L
        /\ \A k \in 1..L : ranges'[k].base = ranges[k].base /\ ranges'[k].pages = ranges[k].pages
    BY <1>1, <1>4, <2>1, FreeShape
  <2>3. TypeOK'
    BY <1>1, <1>2, <2>1, <2>2 DEF TypeOK
  <2> HIDE DEF L
  <2>4. \A k \in 1..L : PagesOf(ranges'[k]) = PagesOf(ranges[k]) /\ End(ranges'[k]) = End(ranges[k])
    BY <2>2 DEF PagesOf, End
  <2>5. RangesTile'
    <3>1. /\ \A j, k \in 1..L : j < k => End(ranges[j]) <= ranges[k].base
          /\ space = UNION {PagesOf(ranges[k]) : k \in 1..L}
      BY <1>1, ZenonT(30) DEF RangesTile
    <3>2. \A j, k \in 1..L : j < k => End(ranges'[j]) <= ranges'[k].base
      BY <2>2, <2>4, <3>1
    <3>3. {PagesOf(ranges[k]) : k \in 1..L} = {PagesOf(ranges'[k]) : k \in 1..L}
      BY <2>4
    <3>4. space' = space
      BY <1>2 DEF space
    <3> QED
      BY <2>2, <3>1, <3>2, <3>3, <3>4, ZenonT(30) DEF RangesTile
  <2>6. Coalesced'
    BY <2>1, <2>2, <1>1 DEF Coalesced, Idle
  <2> QED
    BY <2>3, <2>5, <2>6 DEF IInv
<1> QED
  BY <1>3, <1>4 DEF free

-----------------------------------------------------------------------------
(* merge *)

(* What swallowing the range after c makes of the list. *)
LEMMA MergeShape ==
  ASSUME TypeOK, NEW c \in 1..Len(ranges), c < Len(ranges), ranges' = merged(c)
  PROVE  /\ ranges' \in Seq(AddressRange) /\ Len(ranges') = Len(ranges) - 1
         /\ DOMAIN ranges' = 1..(Len(ranges) - 1)
         /\ \A k \in 1..(c - 1) : ranges'[k] = ranges[k]
         /\ /\ ranges'[c].base = ranges[c].base /\ ranges'[c].used = ranges[c].used
            /\ ranges'[c].pages = ranges[c].pages + ranges[c + 1].pages
         /\ \A k \in (c + 1)..(Len(ranges) - 1) : ranges'[k] = ranges[k + 1]
<1> DEFINE r == ranges[c]
           now == [r EXCEPT !.pages = r.pages + ranges[c + 1].pages]
           held == [ranges EXCEPT ![c] = now]
<1>1. ranges \in Seq(AddressRange) /\ Len(ranges) \in Nat /\ r \in AddressRange /\ c + 1 \in 1..Len(ranges)
  BY RangeType DEF TypeOK
<1>2. r.pages \in Nat \ {0} /\ ranges[c + 1].pages \in Nat \ {0}
  BY <1>1, RangeType
<1>3. /\ now \in AddressRange /\ now.base = r.base /\ now.used = r.used
      /\ now.pages = r.pages + ranges[c + 1].pages
  <2>1. r.pages + ranges[c + 1].pages \in Nat \ {0}
    BY <1>2
  <2> QED
    BY <1>1, <2>1, ZenonT(30) DEF AddressRange
<1>4. ranges' = RemoveAt(held, c + 1)
  BY DEF merged
<1> HIDE DEF now
<1>5. /\ held \in Seq(AddressRange) /\ Len(held) = Len(ranges) /\ held[c] = now
      /\ \A k \in 1..Len(ranges) : k # c => held[k] = ranges[k]
  BY <1>1, <1>3
<1> HIDE DEF held, r
<1>6. PICK m \in 1..Len(held) : m = c + 1
  BY <1>1, <1>5
<1> DEFINE t == RemoveAt(held, m)
<1>7. /\ t \in Seq(AddressRange) /\ Len(t) = Len(held) - 1
      /\ \A j \in 1..(m - 1) : t[j] = held[j]
      /\ \A j \in m..(Len(held) - 1) : t[j] = held[j + 1]
  <2>1. held \in Seq(AddressRange)
    BY <1>5
  <2> QED
    BY <2>1, Removed
<1>8. ranges' = t
  BY <1>4, <1>6
<1> HIDE DEF t
<1>9. /\ ranges' \in Seq(AddressRange) /\ Len(ranges') = Len(held) - 1
      /\ \A j \in 1..(m - 1) : ranges'[j] = held[j]
      /\ \A j \in m..(Len(held) - 1) : ranges'[j] = held[j + 1]
  BY <1>7, <1>8, Zenon
<1>10. m - 1 = c /\ DOMAIN ranges' = 1..Len(ranges')
  BY <1>6, <1>9
<1>11. \A k \in 1..(c - 1) : ranges'[k] = ranges[k]
  BY <1>1, <1>5, <1>9, <1>10
<1>12. ranges'[c] = now
  BY <1>1, <1>5, <1>9, <1>10
<1>13. \A k \in (c + 1)..(Len(ranges) - 1) : ranges'[k] = ranges[k + 1]
  BY <1>1, <1>5, <1>6, <1>9
<1> QED
  BY <1>3, <1>5, <1>9, <1>10, <1>11, <1>12, <1>13 DEF r

(* A turn of merge that joins two ranges preserves the invariant. *)
LEMMA JoinInv ==
  ASSUME IInv, ~Idle, current < Len(ranges), Mergeable(current), ranges' = merged(current),
         UNCHANGED <<current, initialized, result>>
  PROVE  IInv'
<1> DEFINE L == Len(ranges)
           c == current
<1>1. /\ TypeOK /\ RangesTile /\ Coalesced /\ L \in Nat /\ DOMAIN ranges = 1..L
      /\ \A k \in 1..L : ranges[k].base \in Nat /\ ranges[k].pages \in Nat \ {0}
  BY RangeType DEF IInv
<1>2. c \in 1..L /\ c < L /\ c + 1 \in 1..L /\ c \in 1..(L - 1)
  BY <1>1, SMTT(30), ZenonT(30), SMTT(60) DEF TypeOK, Idle
<1>3. /\ ranges' \in Seq(AddressRange) /\ Len(ranges') = L - 1 /\ DOMAIN ranges' = 1..(L - 1)
      /\ \A k \in 1..(c - 1) : ranges'[k] = ranges[k]
      /\ /\ ranges'[c].base = ranges[c].base /\ ranges'[c].used = ranges[c].used
         /\ ranges'[c].pages = ranges[c].pages + ranges[c + 1].pages
      /\ \A k \in (c + 1)..(L - 1) : ranges'[k] = ranges[k + 1]
  BY <1>1, <1>2, MergeShape, Zenon
<1>4. /\ ranges[c].base \in Nat /\ ranges[c].pages \in Nat \ {0}
      /\ ranges[c + 1].base = ranges[c].base + ranges[c].pages
      /\ ranges[c + 1].pages \in Nat \ {0} /\ ~ranges[c].used
  BY <1>1, <1>2 DEF Mergeable, End
<1>5. /\ End(ranges'[c]) = End(ranges[c + 1]) /\ End(ranges'[c]) \in Nat
      /\ PagesOf(ranges'[c]) = PagesOf(ranges[c]) \cup PagesOf(ranges[c + 1])
  <2>1. PICK b \in Nat, p \in Nat \ {0}, q \in Nat \ {0} :
          b = ranges[c].base /\ p = ranges[c].pages /\ q = ranges[c + 1].pages
    BY <1>4, SMTT(30)
  <2>2. /\ End(ranges'[c]) = b + (p + q) /\ End(ranges[c + 1]) = (b + p) + q
        /\ PagesOf(ranges'[c]) = b..(b + (p + q) - 1)
        /\ PagesOf(ranges[c]) = b..(b + p - 1)
        /\ PagesOf(ranges[c + 1]) = (b + p)..((b + p) + q - 1)
    BY <1>3, <1>4, <2>1 DEF End, PagesOf
  <2>3. b + (p + q) = (b + p) + q /\ b + (p + q) \in Nat
    OBVIOUS
  <2>4. b..(b + (p + q) - 1) = (b..(b + p - 1)) \cup ((b + p)..((b + p) + q - 1))
    OBVIOUS
  <2> QED
    BY <2>2, <2>3, <2>4, Zenon
<1>6. TypeOK'
  BY <1>1, <1>2, <1>3 DEF TypeOK
<1>7. \A j, k \in 1..L : j < k => End(ranges[j]) <= ranges[k].base
  BY <1>1 DEF RangesTile
<1>8. \A k \in 1..(L - 1) : \/ k \in 1..(c - 1) /\ k \in 1..L /\ ranges'[k] = ranges[k]
                            \/ k = c
                            \/ k > c /\ k + 1 \in 1..L /\ ranges'[k] = ranges[k + 1]
  <2> TAKE k \in 1..(L - 1)
  <2>1. CASE k < c
    BY <1>1, <1>2, <1>3, <2>1
  <2>2. CASE k > c
    <3>1. k \in (c + 1)..(L - 1) /\ k + 1 \in 1..L
      BY <1>1, <1>2, <2>2
    <3> QED
      BY <1>3, <2>2, <3>1
  <2> QED
    BY <1>1, <1>2, <2>1, <2>2
<1> HIDE DEF L, c
<1>9. ASSUME NEW j \in 1..(L - 1), NEW k \in 1..(L - 1), j < k
      PROVE  End(ranges'[j]) <= ranges'[k].base
  <2>1. CASE k < c
    <3>1. /\ j \in 1..L /\ ranges'[j] = ranges[j] /\ k \in 1..L /\ ranges'[k] = ranges[k]
      BY <1>1, <1>2, <1>8, <1>9, <2>1
    <3> QED
      BY <1>7, <1>9, <3>1
  <2>2. CASE k = c
    <3>1. j \in 1..L /\ ranges'[j] = ranges[j] /\ j < c
      BY <1>1, <1>2, <1>8, <1>9, <2>2
    <3> QED
      BY <1>2, <1>3, <1>7, <2>2, <3>1
  <2>3. CASE k > c
    <3>1. k + 1 \in 1..L /\ ranges'[k] = ranges[k + 1]
      BY <1>1, <1>2, <1>8, <2>3, SMTT(30)
    <3>2. CASE j < c
      <4>1. j \in 1..L /\ ranges'[j] = ranges[j] /\ j < k + 1
        BY <1>1, <1>2, <1>8, <1>9, <3>2
      <4> QED
        BY <1>7, <3>1, <4>1
    <3>3. CASE j = c
      <4>1. c + 1 < k + 1
        BY <1>1, <1>2, <2>3
      <4>2. End(ranges[c + 1]) <= ranges[k + 1].base
        BY <1>2, <1>7, <3>1, <4>1
      <4> QED
        BY <1>5, <3>1, <3>3, <4>2
    <3>4. CASE j > c
      <4>1. j + 1 \in 1..L /\ ranges'[j] = ranges[j + 1] /\ j + 1 < k + 1
        BY <1>1, <1>2, <1>8, <1>9, <3>4, SMTT(30)
      <4> QED
        BY <1>7, <3>1, <4>1
    <3> QED
      BY <1>1, <1>2, <3>2, <3>3, <3>4
  <2> QED
    BY <1>1, <1>2, <2>1, <2>2, <2>3
<1>10. ASSUME NEW p
       PROVE  p \in space' <=> \E j \in 1..(L - 1) : p \in PagesOf(ranges'[j])
  <2>1. p \in space' <=> \E j \in 1..L : p \in PagesOf(ranges[j])
    <3>1. space' = space
      BY DEF space
    <3> QED
      BY <1>1, <3>1, InSpace DEF L
  <2>2. \A k \in 1..(L - 1) : k = c \/ \E j \in 1..L : ranges'[k] = ranges[j]
    BY <1>8
  <2>3. \A j \in 1..L : j = c \/ j = c + 1 \/ \E k \in 1..(L - 1) : ranges'[k] = ranges[j]
    <3> TAKE j \in 1..L
    <3>1. CASE j < c
      BY <1>1, <1>2, <1>3, <3>1
    <3>2. CASE j > c + 1
      <4>1. j - 1 \in (c + 1)..(L - 1) /\ j - 1 \in 1..(L - 1) /\ (j - 1) + 1 = j
        BY <1>1, <1>2, <3>2
      <4>2. ranges'[j - 1] = ranges[(j - 1) + 1]
        BY <1>3, <4>1
      <4> QED
        BY <4>1, <4>2
    <3> QED
      BY <1>1, <1>2, <3>1, <3>2
  <2> QED
    BY <1>2, <1>5, <2>1, <2>2, <2>3
<1>11. RangesTile'
  BY <1>3, <1>9, <1>10 DEF RangesTile
<1>12. ASSUME NEW k \in 1..(L - 1), k < c, Mergeable(k)'
       PROVE  FALSE
  <2>1. /\ ~ranges'[k].used /\ ~ranges'[k + 1].used
        /\ End(ranges'[k]) = ranges'[k + 1].base
    BY <1>12 DEF Mergeable
  <2>2. k \in 1..L /\ k < L /\ ranges'[k] = ranges[k] /\ k + 1 \in 1..(L - 1) /\ k + 1 <= c
    BY <1>1, <1>2, <1>8, <1>12
  <2>3. ranges'[k + 1].base = ranges[k + 1].base /\ ranges'[k + 1].used = ranges[k + 1].used
    <3>1. CASE k + 1 < c
      <4>1. k + 1 \in 1..(c - 1)
        BY <1>1, <1>2, <2>2, <3>1
      <4> QED
        BY <1>3, <4>1
    <3>2. CASE k + 1 = c
      BY <1>3, <3>2
    <3> QED
      BY <1>1, <1>2, <2>2, <3>1, <3>2
  <2>4. Mergeable(k)
    BY <2>1, <2>2, <2>3 DEF Mergeable
  <2> QED
    BY <1>1, <1>12, <2>2, <2>4 DEF Coalesced, L, c
<1>13. Coalesced'
  BY <1>3, <1>12 DEF Coalesced, Idle, c
<1> QED
  BY <1>6, <1>11, <1>13 DEF IInv

(* merge preserves the invariant. *)
LEMMA MergeInv ==
  ASSUME IInv, merge
  PROVE  IInv'
<1>1. ~Idle /\ initialized' = initialized /\ result' = result
  BY DEF merge
<1>2. TypeOK /\ RangesTile /\ Coalesced /\ Len(ranges) \in Nat /\ DOMAIN ranges = 1..Len(ranges)
  BY RangeType DEF IInv
<1>3. CASE current < Len(ranges) /\ Mergeable(current) /\ ranges' = merged(current) /\ UNCHANGED current
  BY <1>1, <1>3, JoinInv
<1>4. CASE ranges' = ranges /\ current = Len(ranges) /\ current' = 0
  <2>1. TypeOK' /\ RangesTile'
    BY <1>1, <1>2, <1>4 DEF TypeOK, RangesTile, space
  <2>2. Coalesced'
    BY <1>2, <1>4 DEF Coalesced, Mergeable
  <2> QED
    BY <2>1, <2>2 DEF IInv
<1>5. CASE ranges' = ranges /\ current < Len(ranges) /\ ~Mergeable(current) /\ current' = current + 1
  <2>1. TypeOK' /\ RangesTile'
    BY <1>1, <1>2, <1>5 DEF TypeOK, RangesTile, space
  <2>2. current \in 1..Len(ranges)
    BY <1>1, <1>2 DEF TypeOK, Idle
  <2>3. ASSUME NEW k \in 1..Len(ranges), k < Len(ranges), k < current + 1
        PROVE  ~Mergeable(k)
    BY <1>2, <1>5, <2>2, <2>3 DEF Coalesced
  <2>4. Coalesced'
    <3>1. Mergeable(1)' \in BOOLEAN /\ \A k : Mergeable(k)' <=> Mergeable(k)
      BY <1>5 DEF Mergeable
    <3> QED
      BY <1>2, <1>5, <2>2, <2>3, <3>1 DEF Coalesced, Idle
  <2> QED
    BY <2>1, <2>4 DEF IInv
<1> QED
  BY <1>3, <1>4, <1>5 DEF merge

-----------------------------------------------------------------------------
(* Every step of the specification preserves the invariant. *)
LEMMA NextInv ==
  ASSUME IInv, [Next]_vars
  PROVE  IInv'
<1>1. CASE UNCHANGED vars
  BY <1>1 DEF vars, IInv, TypeOK, RangesTile, Coalesced, space, Mergeable, Idle
<1>2. ASSUME NEW r \in Region, initialize(r) PROVE IInv'
  BY <1>2, InitializeInv
<1>3. ASSUME NEW n \in 0..MaxPages, NEW f \in Flags, allocate(n, f) PROVE IInv'
  BY <1>3, AllocateInv
<1>4. ASSUME NEW b \in Address, free(b) PROVE IInv'
  BY <1>4, FreeInv
<1>5. CASE merge
  BY <1>5, MergeInv
<1> QED
  BY <1>1, <1>2, <1>3, <1>4, <1>5 DEF Next

(* An empty pool satisfies the invariant. *)
LEMMA InitInv == Init => IInv
<1> SUFFICES ASSUME Init PROVE IInv
  OBVIOUS
<1>1. ranges = << >> /\ current = 0 /\ initialized = {} /\ result = 0
  BY DEF Init
<1>2. ranges \in Seq(AddressRange) /\ Len(ranges) = 0 /\ DOMAIN ranges = {}
  BY <1>1
<1>3. TypeOK
  BY <1>1, <1>2 DEF TypeOK
<1>4. RangesTile
  BY <1>1, <1>2 DEF RangesTile, space
<1>5. Coalesced
  BY <1>2 DEF Coalesced
<1> QED
  BY <1>3, <1>4, <1>5 DEF IInv

(* The list of AddressRangePool is sound after any calls, and between the turns *)
(* of merge: TypeOK, RangesTile and Coalesced always hold.                      *)
THEOREM Invariance == Spec => []IInv
  BY InitInv, NextInv, PTL DEF Spec

(* The list holds well-formed ranges, none of length zero, and merge stands on  *)
(* a node of the list whenever it runs.                                         *)
THEOREM TypeCorrect == Spec => []TypeOK
<1>1. IInv => TypeOK
  BY DEF IInv
<1> QED
  BY <1>1, Invariance, PTL

(* No page gets lost or into two ranges, whatever areas the pool is given. *)
THEOREM RangesAlwaysTile == Spec => []RangesTile
<1>1. IInv => RangesTile
  BY DEF IInv
<1> QED
  BY <1>1, Invariance, PTL

(* Free ranges that touch are one range whenever merge does not run. *)
THEOREM AlwaysCoalesced == Spec => []Coalesced
<1>1. IInv => Coalesced
  BY DEF IInv
<1> QED
  BY <1>1, Invariance, PTL

-----------------------------------------------------------------------------
(* The pool implements PageSpace. *)

(* The blocks of PageSpace are the used ranges. *)
LEMMA InBlocks ==
  ASSUME TypeOK, NEW x
  PROVE  x \in blocks <=> \E k \in 1..Len(ranges) : ranges[k].used /\ x = Block(k)
  BY RangeType DEF blocks, Used

(* A page is free for PageSpace when it lies in an unused range. *)
LEMMA FreePages ==
  ASSUME IInv, NEW p
  PROVE  Space!IsFree(p) <=> \E k \in 1..Len(ranges) : ~ranges[k].used /\ p \in PagesOf(ranges[k])
<1> DEFINE L == Len(ranges)
<1>1. /\ TypeOK /\ RangesTile /\ L \in Nat
      /\ \A k \in 1..L : /\ ranges[k].base \in Nat /\ ranges[k].pages \in Nat \ {0}
                         /\ ranges[k].used \in BOOLEAN
  BY RangeType DEF IInv
<1>2. \A k \in 1..L : Space!PagesOf(Block(k)) = PagesOf(ranges[k])
  BY DEF Space!PagesOf, PagesOf, Block
<1>3. p \in space <=> \E k \in 1..L : p \in PagesOf(ranges[k])
  BY <1>1, InSpace
<1>4. (\A x \in blocks : p \notin Space!PagesOf(x)) <=>
      \A k \in 1..L : ranges[k].used => p \notin PagesOf(ranges[k])
  BY <1>1, <1>2, InBlocks
<1>5. ASSUME NEW j \in 1..L, NEW k \in 1..L, j # k, p \in PagesOf(ranges[j]), p \in PagesOf(ranges[k])
      PROVE  FALSE
  <2>1. End(ranges[j]) <= ranges[k].base \/ End(ranges[k]) <= ranges[j].base
    BY <1>1, <1>5, RangeType, SMTT(30) DEF RangesTile
  <2>2. PICK b \in Nat, m \in Nat : b = ranges[j].base /\ m = ranges[j].pages
    BY <1>1
  <2>3. PICK c \in Nat, n \in Nat : c = ranges[k].base /\ n = ranges[k].pages
    BY <1>1
  <2>4. p \in b..(b + m - 1) /\ p \in c..(c + n - 1)
    BY <1>5, <2>2, <2>3 DEF PagesOf
  <2>5. b + m <= c \/ c + n <= b
    BY <2>1, <2>2, <2>3 DEF End
  <2>6. p \in Int /\ b <= p /\ p < b + m /\ c <= p /\ p < c + n
    BY <2>4
  <2> QED
    BY <2>5, <2>6
<1> QED
  BY <1>3, <1>4, <1>5 DEF Space!IsFree

(* Between calls a run of free pages lies within one unused range, since free   *)
(* ranges that touch have been merged.                                          *)
LEMMA RunInRange ==
  ASSUME IInv, Idle, NEW b \in space, NEW n \in Nat \ {0}, Space!IsRun(b, n)
  PROVE  \E j \in Fitting(n) : ranges[j].base <= b
<1> DEFINE L == Len(ranges)
<1>1. /\ TypeOK /\ RangesTile /\ Coalesced /\ L \in Nat /\ DOMAIN ranges = 1..L
      /\ \A k \in 1..L : ranges[k].base \in Nat /\ ranges[k].pages \in Nat \ {0}
  BY RangeType DEF IInv
<1>2. \A j, k \in 1..L : j < k => End(ranges[j]) <= ranges[k].base
  BY <1>1, SMTT(30), ZenonT(30), SMTT(60) DEF RangesTile
<1>3. b \in Nat
  <2>1. PICK k \in 1..L : b \in PagesOf(ranges[k])
    BY <1>1, InSpace
  <2> QED
    BY <1>1, <2>1 DEF PagesOf
<1>4. \A p \in b..(b + n - 1) : Space!IsFree(p)
  BY DEF Space!IsRun
<1>5. PICK j \in 1..L : ~ranges[j].used /\ b \in PagesOf(ranges[j])
  <2>1. b \in b..(b + n - 1)
    BY <1>3
  <2> QED
    BY <1>4, <2>1, FreePages
<1>6. /\ ranges[j].base \in Nat /\ ranges[j].pages \in Nat \ {0}
      /\ ranges[j].base <= b /\ b < End(ranges[j]) /\ End(ranges[j]) \in Nat
      /\ End(ranges[j]) = ranges[j].base + ranges[j].pages
  BY <1>1, <1>3, <1>5 DEF PagesOf, End
<1>7. ASSUME ~(b + n <= End(ranges[j])) PROVE FALSE
  <2> DEFINE q == End(ranges[j])
  <2>1. q \in b..(b + n - 1)
    BY <1>3, <1>6, <1>7
  <2>2. PICK k \in 1..L : ~ranges[k].used /\ q \in PagesOf(ranges[k])
    BY <1>4, <2>1, FreePages
  <2>3. /\ ranges[k].base \in Nat /\ ranges[k].pages \in Nat \ {0}
        /\ ranges[k].base <= q /\ q < End(ranges[k]) /\ End(ranges[k]) \in Nat
    BY <1>1, <1>6, <2>2 DEF PagesOf, End
  <2>4. k > j
    <3>1. k # j
      BY <1>6, <2>3
    <3>2. ~(k < j)
      <4>1. SUFFICES ASSUME k < j PROVE FALSE
        OBVIOUS
      <4>2. End(ranges[k]) <= ranges[j].base
        BY <1>2, <4>1
      <4> QED
        BY <1>3, <1>6, <2>3, <4>2
    <3> QED
      BY <1>1, <3>1, <3>2
  <2>5. ranges[k].base = q
    <3>1. q <= ranges[k].base
      BY <1>2, <2>4
    <3> QED
      BY <1>6, <2>3, <3>1
  <2>6. k = j + 1
    <3>1. SUFFICES ASSUME k > j + 1 PROVE FALSE
      BY <1>1, <2>4
    <3>2. j + 1 \in 1..L /\ j < j + 1 /\ j + 1 < k
      BY <1>1, <3>1
    <3>3. q <= ranges[j + 1].base /\ End(ranges[j + 1]) <= ranges[k].base
      BY <1>2, <3>2
    <3>4. ranges[j + 1].base \in Nat /\ ranges[j + 1].pages \in Nat \ {0}
      BY <1>1, <3>2
    <3> HIDE DEF q
    <3> QED
      BY <2>5, <3>3, <3>4, <1>6, SMTT(30), ZenonT(30), SMTT(60) DEF End, q
  <2>7. Mergeable(j)
    BY <1>5, <2>2, <2>5, <2>6 DEF Mergeable
  <2>8. j < L
    BY <1>1, <2>6
  <2> QED
    BY <1>1, <2>7, <2>8 DEF Coalesced
<1>8. ranges[j].pages >= n
  BY <1>3, <1>6, <1>7
<1> QED
  BY <1>1, <1>5, <1>6, <1>8 DEF Fitting

(* The calls that change no block. *)
LEMMA SameBlocks ==
  ASSUME TypeOK, TypeOK',
         \A k \in 1..Len(ranges) : ranges[k].used =>
             \E j \in 1..Len(ranges') : ranges'[j] = ranges[k],
         \A j \in 1..Len(ranges') : ranges'[j].used =>
             \E k \in 1..Len(ranges) : ranges'[j] = ranges[k]
  PROVE  blocks' = blocks
<1>1. ASSUME NEW x PROVE x \in blocks <=> \E k \in 1..Len(ranges) : ranges[k].used /\ x = Block(k)
  BY InBlocks
<1>2. ASSUME NEW x PROVE x \in blocks' <=> \E k \in 1..Len(ranges') : ranges'[k].used /\ x = Block(k)'
  <2>1. DOMAIN ranges' = 1..Len(ranges')
    BY DEF TypeOK
  <2> QED
    BY <2>1 DEF blocks, Used
<1>3. \A k \in 1..Len(ranges), j \in 1..Len(ranges') : ranges'[j] = ranges[k] => Block(j)' = Block(k)
  BY DEF Block
<1>4. ASSUME NEW x \in blocks PROVE x \in blocks'
  <2>1. PICK k \in 1..Len(ranges) : ranges[k].used /\ x = Block(k)
    BY <1>1
  <2>2. PICK j \in 1..Len(ranges') : ranges'[j] = ranges[k]
    BY <2>1
  <2> QED
    BY <1>2, <1>3, <2>1, <2>2
<1>5. ASSUME NEW x \in blocks' PROVE x \in blocks
  <2>1. PICK j \in 1..Len(ranges') : ranges'[j].used /\ x = Block(j)'
    BY <1>2
  <2>2. PICK k \in 1..Len(ranges) : ranges'[j] = ranges[k]
    BY <2>1
  <2> QED
    BY <1>1, <1>3, <2>1, <2>2
<1> QED
  BY <1>4, <1>5, ZenonT(30)

(* initialize is Insert. *)
LEMMA InitializeStep ==
  ASSUME IInv, IInv', NEW r \in Region, initialize(r)
  PROVE  Space!Insert(r)
<1> DEFINE new == [base |-> r.base, pages |-> r.pages, used |-> FALSE, flags |-> 0]
<1>1. /\ TypeOK /\ TypeOK' /\ ranges \in Seq(AddressRange) /\ Len(ranges) \in Nat
      /\ new \in AddressRange
  BY RegionAssumption, RequestAssumption DEF IInv, TypeOK, AddressRange
<1>2. space' = space \cup Space!PagesOf(r)
  BY DEF initialize, space, PagesOf, Space!PagesOf
<1>3. PICK i \in 0..Len(ranges) : ranges' = InsertAt(ranges, i + 1, new)
  BY DEF initialize
<1>4. ~new.used
  OBVIOUS
<1>5. PICK m \in 1..(Len(ranges) + 1) : m = i + 1
  BY <1>1
<1> DEFINE t == InsertAt(ranges, m, new)
<1> HIDE DEF new
<1>6. /\ Len(t) = Len(ranges) + 1 /\ \A j \in 1..(m - 1) : t[j] = ranges[j]
      /\ t[m] = new /\ \A j \in m..Len(ranges) : t[j + 1] = ranges[j]
  <2>1. ranges \in Seq(AddressRange) /\ new \in AddressRange
    BY <1>1
  <2> QED
    BY <2>1, Inserted
<1>7. ranges' = t
  BY <1>3, <1>5
<1> HIDE DEF t
<1>8. ASSUME NEW k \in 1..Len(ranges)
      PROVE  \E j \in 1..Len(t) : t[j] = ranges[k]
  <2>1. CASE k < m
    BY <1>1, <1>6, <2>1
  <2>2. CASE k >= m
    <3>1. k \in m..Len(ranges) /\ k + 1 \in 1..Len(t)
      BY <1>1, <1>6, <2>2
    <3> QED
      BY <1>6, <3>1
  <2> QED
    BY <1>1, <2>1, <2>2
<1>9. ASSUME NEW j \in 1..Len(t), t[j].used
      PROVE  \E k \in 1..Len(ranges) : t[j] = ranges[k]
  <2>1. CASE j < m
    BY <1>1, <1>6, <2>1
  <2>2. CASE j > m
    <3>1. j - 1 \in m..Len(ranges) /\ j - 1 \in 1..Len(ranges) /\ (j - 1) + 1 = j
      BY <1>1, <1>6, <2>2
    <3>2. t[(j - 1) + 1] = ranges[j - 1]
      BY <1>6, <3>1
    <3> QED
      BY <3>1, <3>2
  <2>3. j # m
    BY <1>4, <1>6, <1>9
  <2> QED
    BY <1>1, <1>6, <2>1, <2>2, <2>3
<1>10. blocks' = blocks
  BY <1>1, <1>7, <1>8, <1>9, SameBlocks
<1> QED
  BY <1>2, <1>10 DEF Space!Insert, initialize

(* merge is no step of PageSpace. *)
LEMMA MergeStep ==
  ASSUME IInv, IInv', merge
  PROVE  UNCHANGED <<space, blocks, result>>
<1>1. space' = space /\ result' = result
  BY DEF merge, space
<1>2. CASE ranges' = ranges
  BY <1>1, <1>2 DEF blocks, Used, Block
<1>3. CASE current < Len(ranges) /\ Mergeable(current) /\ ranges' = merged(current)
  <2> DEFINE L == Len(ranges)
             c == current
  <2>1. TypeOK /\ TypeOK' /\ L \in Nat
    BY RangeType DEF IInv
  <2>2. c \in 1..L /\ c < L /\ c + 1 \in 1..L /\ ~ranges[c].used /\ ~ranges[c + 1].used
    BY <1>3, <2>1 DEF TypeOK, merge, Idle, Mergeable
  <2>3. /\ Len(ranges') = L - 1 /\ \A k \in 1..(c - 1) : ranges'[k] = ranges[k]
        /\ ranges'[c].used = ranges[c].used
        /\ \A k \in (c + 1)..(L - 1) : ranges'[k] = ranges[k + 1]
    BY <1>3, <2>1, <2>2, MergeShape
  <2> HIDE DEF c
  <2>4. ASSUME NEW k \in 1..L, ranges[k].used
        PROVE  \E j \in 1..Len(ranges') : ranges'[j] = ranges[k]
    <3>1. CASE k < c
      BY <2>1, <2>2, <2>3, <3>1
    <3>2. CASE k > c + 1
      <4>1. k - 1 \in (c + 1)..(L - 1) /\ k - 1 \in 1..(L - 1) /\ (k - 1) + 1 = k
        BY <2>1, <2>2, <3>2
      <4>2. ranges'[k - 1] = ranges[(k - 1) + 1]
        BY <2>3, <4>1
      <4> QED
        BY <2>3, <4>1, <4>2
    <3>3. k # c /\ k # c + 1
      BY <2>2, <2>4
    <3> QED
      BY <2>1, <2>2, <3>1, <3>2, <3>3
  <2>5. ASSUME NEW j \in 1..Len(ranges'), ranges'[j].used
        PROVE  \E k \in 1..L : ranges'[j] = ranges[k]
    <3>1. CASE j < c
      BY <2>1, <2>2, <2>3, <3>1
    <3>2. CASE j > c
      <4>1. j \in (c + 1)..(L - 1) /\ j + 1 \in 1..L
        BY <2>1, <2>2, <2>3, <3>2
      <4> QED
        BY <2>3, <4>1
    <3>3. j # c
      BY <2>2, <2>3, <2>5
    <3> QED
      BY <2>1, <2>2, <2>3, <3>1, <3>2, <3>3
  <2>6. blocks' = blocks
    BY <2>1, <2>4, <2>5, SameBlocks
  <2> QED
    BY <1>1, <2>6
<1> QED
  BY <1>2, <1>3 DEF merge

(* A successful allocate adds one block. *)
LEMMA TakenBlocks ==
  ASSUME IInv, NEW i \in 1..Len(ranges), NEW n \in Nat \ {0}, NEW f \in Flags,
         ~ranges[i].used, ranges[i].pages >= n, ranges' = taken(i, n, f)
  PROVE  blocks' = blocks \cup {[base |-> ranges[i].base, pages |-> n, flags |-> f]}
<1> DEFINE L == Len(ranges)
           M == Len(ranges')
           new == [base |-> ranges[i].base, pages |-> n, flags |-> f]
<1>1. TypeOK /\ L \in Nat /\ ranges[i].pages \in Nat
  BY RangeType DEF IInv
<1>2. /\ DOMAIN ranges' = 1..M /\ i \in 1..M
      /\ ranges'[i] = [base |-> ranges[i].base, pages |-> n, used |-> TRUE, flags |-> f]
      /\ \A k \in 1..L : k # i => \E j \in 1..M : ranges'[j] = ranges[k]
      /\ \A j \in 1..M : j # i => ~ranges'[j].used \/ \E k \in 1..L : k # i /\ ranges'[j] = ranges[k]
  <2>1. CASE ranges[i].pages = n
    BY <1>1, <2>1, ExactShape
  <2>2. CASE ranges[i].pages > n
    <3>1. /\ M = L + 1 /\ DOMAIN ranges' = 1..(L + 1)
          /\ \A k \in 1..(i - 1) : ranges'[k] = ranges[k]
          /\ ranges'[i] = [base |-> ranges[i].base, pages |-> n, used |-> TRUE, flags |-> f]
          /\ ranges'[i + 1] = [base |-> ranges[i].base + n, pages |-> ranges[i].pages - n,
                               used |-> FALSE, flags |-> 0]
          /\ \A k \in (i + 1)..L : ranges'[k + 1] = ranges[k]
      BY <1>1, <2>2, SplitShape
    <3>2. ~ranges'[i + 1].used
      BY <3>1
    <3>3. ASSUME NEW k \in 1..L, k # i PROVE \E j \in 1..M : ranges'[j] = ranges[k]
      <4>1. CASE k < i
        <5>1. k \in 1..(i - 1) /\ k \in 1..M
          BY <1>1, <3>1, <4>1
        <5> QED
          BY <3>1, <5>1
      <4>2. CASE k > i
        <5>1. k \in (i + 1)..L /\ k + 1 \in 1..M
          BY <1>1, <3>1, <4>2
        <5> QED
          BY <3>1, <5>1
      <4> QED
        BY <1>1, <3>3, <4>1, <4>2
    <3>4. ASSUME NEW j \in 1..M, j # i
          PROVE  ~ranges'[j].used \/ \E k \in 1..L : k # i /\ ranges'[j] = ranges[k]
      <4>1. j \in 1..(L + 1)
        BY <3>1
      <4>2. \/ j < i /\ j \in 1..L /\ ranges'[j] = ranges[j]
            \/ j = i
            \/ j = i + 1
            \/ j > i + 1 /\ j - 1 \in 1..L /\ j - 1 > i /\ ranges'[j] = ranges[j - 1]
        BY <1>1, <3>1, <4>1, SplitCases, ZenonT(30)
      <4>3. CASE j > i + 1 /\ j - 1 \in 1..L /\ j - 1 > i /\ ranges'[j] = ranges[j - 1]
        <5>1. j - 1 # i
          BY <4>3
        <5> QED
          BY <4>3, <5>1
      <4> QED
        BY <3>2, <3>4, <4>2, <4>3
    <3>5. DOMAIN ranges' = 1..M /\ i \in 1..M
      BY <1>1, <3>1
    <3> QED
      BY <3>1, <3>3, <3>4, <3>5
  <2> QED
    BY <1>1, <2>1, <2>2
<1>3. Block(i)' = new /\ ranges'[i].used
  BY <1>2 DEF Block
<1>4. \A k \in 1..L, j \in 1..M : ranges'[j] = ranges[k] => Block(j)' = Block(k)
  BY DEF Block
<1>5. \A x : x \in blocks' <=> \E j \in 1..M : ranges'[j].used /\ x = Block(j)'
  BY <1>2 DEF blocks, Used
<1>6. \A x : x \in blocks <=> \E k \in 1..L : ranges[k].used /\ x = Block(k)
  BY <1>1, InBlocks
<1> HIDE DEF new, L, M
<1>7. ASSUME NEW x \in blocks' PROVE x \in blocks \cup {new}
  <2>1. PICK j \in 1..M : ranges'[j].used /\ x = Block(j)'
    BY <1>5
  <2>2. CASE j # i
    <3>1. PICK k \in 1..L : ranges'[j] = ranges[k]
      BY <1>2, <2>1, <2>2
    <3> QED
      BY <1>4, <1>6, <2>1, <3>1
  <2> QED
    BY <1>3, <2>1, <2>2
<1>8. ASSUME NEW x \in blocks \cup {new} PROVE x \in blocks'
  <2>1. CASE x = new
    BY <1>2, <1>3, <1>5, <2>1
  <2>2. CASE x \in blocks
    <3>1. PICK k \in 1..L : ranges[k].used /\ x = Block(k)
      BY <1>6, <2>2
    <3>2. k # i
      BY <3>1
    <3>3. PICK j \in 1..M : ranges'[j] = ranges[k]
      BY <1>2, <3>2
    <3> QED
      BY <1>4, <1>5, <3>1, <3>3
  <2> QED
    BY <2>1, <2>2
<1> QED
  BY <1>7, <1>8 DEF new

(* allocate is Allocate: the first range that fits holds the lowest run. *)
LEMMA AllocateStep ==
  ASSUME IInv, NEW q \in 0..MaxPages, NEW f \in Flags, allocate(q, f)
  PROVE  Space!Allocate(Space!AtLeastOne(q), f)
<1> DEFINE n == AtLeastOne(q)
           L == Len(ranges)
<1>1. n \in Nat \ {0} /\ Space!AtLeastOne(q) = n
  BY RequestAssumption DEF AtLeastOne, Space!AtLeastOne
<1>2. /\ TypeOK /\ RangesTile /\ L \in Nat /\ DOMAIN ranges = 1..L /\ Idle
      /\ \A k \in 1..L : /\ ranges[k].base \in Nat /\ ranges[k].pages \in Nat \ {0}
                         /\ ranges[k].used \in BOOLEAN
  BY RangeType DEF IInv, allocate
<1>3. space' = space
  BY DEF allocate, space
<1>4. \A k \in Fitting(n) : k \in 1..L /\ ~ranges[k].used /\ ranges[k].pages >= n
  BY <1>2 DEF Fitting
<1> HIDE DEF n, L
<1>5. CASE allocateFailed(n)
  <2>1. \A b \in space : ~Space!IsRun(b, n)
    BY <1>1, <1>2, <1>5, RunInRange DEF allocateFailed
  <2>2. blocks' = blocks
    BY <1>5 DEF allocateFailed, blocks, Used, Block
  <2> QED
    BY <1>1, <1>3, <1>5, <2>1, <2>2 DEF allocateFailed, Space!Allocate
<1>6. CASE allocateFound(n, f)
  <2>1. PICK i \in FirstFitting(n) : ranges' = taken(i, n, f) /\ result' = ranges[i].base
    BY <1>6 DEF allocateFound
  <2>2. /\ i \in Fitting(n) /\ i \in 1..L /\ ~ranges[i].used /\ ranges[i].pages >= n
        /\ \A j \in Fitting(n) : i <= j
    BY <1>4, <2>1 DEF FirstFitting
  <2>3. PICK b \in Nat, m \in Nat : b = ranges[i].base /\ m = ranges[i].pages
    BY <1>2, <2>2
  <2>4. PagesOf(ranges[i]) = b..(b + m - 1)
    BY <2>3 DEF PagesOf
  <2>5. Space!IsRun(b, n)
    <3>1. ASSUME NEW p \in b..(b + n - 1) PROVE Space!IsFree(p)
      <4>1. p \in b..(b + m - 1)
        BY <1>1, <2>2, <2>3
      <4> QED
        BY <2>2, <2>4, <4>1, FreePages DEF L
    <3> QED
      BY <3>1 DEF Space!IsRun
  <2>6. b \in space
    <3>1. b \in b..(b + n - 1)
      BY <1>1, <2>3
    <3> QED
      BY <2>5, <3>1 DEF Space!IsRun, Space!IsFree
  <2>7. ASSUME NEW c \in space, Space!IsRun(c, n) PROVE b <= c
    <3>1. PICK j \in Fitting(n) : ranges[j].base <= c
      BY <1>1, <1>2, <2>7, RunInRange
    <3>2. j \in 1..L /\ i <= j
      BY <1>4, <2>2
    <3>3. c \in Int
      <4>1. PICK r \in initialized : c \in PagesOf(r)
        BY DEF space
      <4>2. r.base \in Nat /\ r.pages \in Nat
        BY <1>2, RegionAssumption DEF TypeOK
      <4> QED
        BY <4>1, <4>2 DEF PagesOf
    <3>4. CASE i = j
      BY <2>3, <3>1, <3>4
    <3>5. CASE i < j
      <4>1. End(ranges[i]) <= ranges[j].base
        BY <1>2, <2>2, <3>2, <3>5, SMTT(30), ZenonT(30), SMTT(60) DEF RangesTile
      <4>2. b + m <= ranges[j].base
        BY <2>3, <4>1 DEF End
      <4>3. ranges[j].base \in Nat
        BY <1>2, <3>2
      <4> QED
        BY <2>3, <3>1, <3>3, <4>2, <4>3
    <3> QED
      BY <1>2, <2>2, <3>2, <3>4, <3>5
  <2>8. blocks' = blocks \cup {[base |-> b, pages |-> n, flags |-> f]}
    <3>1. i \in 1..Len(ranges) /\ ~ranges[i].used /\ ranges[i].pages >= n
      BY <2>2 DEF L
    <3> QED
      BY <1>1, <2>1, <2>3, <3>1, TakenBlocks
  <2> QED
    BY <1>1, <1>3, <2>1, <2>3, <2>5, <2>6, <2>7, <2>8 DEF Space!Allocate
<1> QED
  BY <1>5, <1>6 DEF allocate, n

(* free is Free of the block at the address, or FreeNothing. *)
LEMMA FreeStep ==
  ASSUME IInv, NEW base \in Address, free(base)
  PROVE  (\E k \in blocks : Space!Free(k)) \/ Space!FreeNothing(base)
<1> DEFINE L == Len(ranges)
<1>1. /\ TypeOK /\ RangesTile /\ L \in Nat /\ DOMAIN ranges = 1..L
      /\ \A k \in 1..L : /\ ranges[k].base \in Nat /\ ranges[k].pages \in Nat \ {0}
                         /\ ranges[k].used \in BOOLEAN
  BY RangeType DEF IInv
<1>2. space' = space
  BY DEF free, space
<1>3. \A j, k \in 1..L : ranges[j].base = ranges[k].base => j = k
  <2>1. ASSUME NEW j \in 1..L, NEW k \in 1..L, j < k PROVE ranges[j].base # ranges[k].base
    <3>1. End(ranges[j]) <= ranges[k].base
      BY <1>1, <2>1 DEF RangesTile
    <3>2. PICK b \in Nat, m \in Nat \ {0} : b = ranges[j].base /\ m = ranges[j].pages
      BY <1>1
    <3>3. b + m <= ranges[k].base /\ ranges[k].base \in Nat
      BY <1>1, <3>1, <3>2 DEF End
    <3> QED
      BY <3>2, <3>3
  <2> QED
    BY <1>1, <2>1
<1>4. \A x : x \in blocks <=> \E k \in 1..L : ranges[k].used /\ x = Block(k)
  BY <1>1, InBlocks
<1>5. \A k \in 1..L : Block(k).base = ranges[k].base /\ Block(k).pages = ranges[k].pages
  BY DEF Block
<1>6. FirstAt(base) = At(base) /\ \A k : k \in At(base) <=> k \in 1..L /\ ranges[k].base = base
  <2>1. \A k : k \in At(base) <=> k \in 1..L /\ ranges[k].base = base
    BY <1>1 DEF At
  <2>2. \A j, k \in At(base) : j = k /\ j \in Int
    BY <1>1, <1>3, <2>1
  <2>3. \A j, k \in At(base) : j <= k
    BY <2>2
  <2> QED
    BY <2>1, <2>3 DEF FirstAt
<1> HIDE DEF L
<1>7. CASE freeNothing(base)
  <2>1. ASSUME NEW x \in blocks PROVE x.base # base
    <3>1. PICK k \in 1..L : ranges[k].used /\ x = Block(k)
      BY <1>4
    <3>2. x.base = ranges[k].base
      BY <1>5, <3>1
    <3> QED
      BY <1>6, <1>7, <3>1, <3>2 DEF freeNothing
  <2>2. blocks' = blocks
    BY <1>7 DEF freeNothing, blocks, Used, Block
  <2> QED
    BY <1>2, <1>7, <2>1, <2>2 DEF freeNothing, Space!FreeNothing
<1>8. CASE \E i \in FirstAt(base) : freeFound(i)
  <2>1. PICK i \in 1..L : freeFound(i)
    BY <1>6, <1>8
  <2>2. ranges[i].used /\ result' = ranges[i].pages
    BY <2>1 DEF freeFound
  <2>3. /\ Len(ranges') = L /\ DOMAIN ranges' = 1..L
        /\ \A k \in 1..L :
             /\ ranges'[k].base = ranges[k].base /\ ranges'[k].pages = ranges[k].pages
             /\ ranges'[k].flags = ranges[k].flags
             /\ ranges'[k].used = (k # i /\ ranges[k].used)
    BY <1>1, <2>1, FreeShape DEF L
  <2>4. \A k \in 1..L : Block(k)' = Block(k)
    BY <2>3 DEF Block
  <2>5. \A x : x \in blocks' <=> \E k \in 1..L : ranges'[k].used /\ x = Block(k)'
    BY <2>3 DEF blocks, Used
  <2>6. \A x : x \in blocks' <=> \E k \in 1..L : k # i /\ ranges[k].used /\ x = Block(k)
    <3>1. \A k \in 1..L : ranges'[k].used <=> k # i /\ ranges[k].used
      BY <2>3, ZenonT(30)
    <3>2. \A k \in 1..L : (ranges'[k].used <=> k # i /\ ranges[k].used) /\ Block(k)' = Block(k)
      BY <2>4, <3>1
    <3>3. ASSUME NEW x \in blocks'
          PROVE  \E k \in 1..L : k # i /\ ranges[k].used /\ x = Block(k)
      <4>1. PICK k \in 1..L : ranges'[k].used /\ x = Block(k)'
        BY <2>5
      <4> QED
        BY <3>2, <4>1
    <3>4. ASSUME NEW k \in 1..L, k # i, ranges[k].used PROVE Block(k) \in blocks'
      BY <2>5, <3>2, <3>4
    <3> QED
      BY <3>3, <3>4
  <2>7. \A k \in 1..L : k # i => Block(k) # Block(i)
    BY <1>3, <1>5
  <2>8. blocks' = blocks \ {Block(i)}
    <3>1. ASSUME NEW x PROVE x \in blocks' <=> x \in blocks /\ x # Block(i)
      BY <1>4, <2>6, <2>7
    <3> QED
      BY <3>1
  <2>9. Block(i) \in blocks /\ result' = Block(i).pages
    BY <1>4, <1>5, <2>2
  <2> QED
    BY <1>2, <2>8, <2>9 DEF Space!Free
<1> QED
  BY <1>7, <1>8 DEF free

(* Every step of the pool is a step of PageSpace, or changes nothing it sees. *)
LEMMA NextStep ==
  ASSUME IInv, IInv', [Next]_vars
  PROVE  [Space!Next]_<<space, blocks, result>>
<1>1. ASSUME NEW r \in Region, initialize(r) PROVE Space!Next
  BY <1>1, InitializeStep DEF Space!Next
<1>2. ASSUME NEW n \in 0..MaxPages, NEW f \in Flags, allocate(n, f) PROVE Space!Next
  BY <1>2, AllocateStep DEF Space!Next
<1>3. ASSUME NEW base \in Address, free(base) PROVE Space!Next
  BY <1>3, FreeStep DEF Space!Next
<1>4. CASE merge
  BY <1>4, MergeStep
<1>5. CASE UNCHANGED vars
  BY <1>5 DEF vars, space, blocks, Used, Block
<1> QED
  BY <1>1, <1>2, <1>3, <1>4, <1>5 DEF Next

(* The pool implements PageSpace: first fit on the list gives every block the *)
(* lowest free run of pages, and fails only when there is none.               *)
THEOREM PoolIsPageSpace == Spec => IsPageSpace
<1>1. Init => Space!Init
  BY DEF Init, Space!Init, space, blocks, Used
<1>2. IInv /\ IInv' /\ [Next]_vars => [Space!Next]_<<space, blocks, result>>
  BY NextStep
<1> QED
  BY <1>1, <1>2, Invariance, PTL DEF Spec, IsPageSpace, Space!Spec

===============================================================================
