---------------------------- MODULE TaskingLemmas ----------------------------
(* Lemmas about Tasking: what its operators on queues, requests and wait      *)
(* managers keep, and that every handler of an interrupt, a system call or an  *)
(* exception but those that create threads preserves the inductive invariant,  *)
(* for any number of cores, threads and requests.                              *)
EXTENDS Tasking, TLAPS

-----------------------------------------------------------------------------
(* Queues. *)

(* The position Scheduler::_removeFromQueue stops at holds the thread. *)
LEMMA IndexOfIsThere ==
    ASSUME NEW q, NEW t \in Elements(q)
    PROVE  IndexOf(q, t) \in DOMAIN q /\ q[IndexOf(q, t)] = t
  BY DEF Elements, IndexOf

(* Taking a thread out of a queue leaves the others, once each. *)
LEMMA RemoveKeepsOthers ==
    ASSUME NEW q \in Seq(Thread), Injective(q), NEW t
    PROVE  /\ removeFromQueue(q, t) \in Seq(Thread)
           /\ Injective(removeFromQueue(q, t))
           /\ Elements(removeFromQueue(q, t)) = Elements(q) \ {t}
  <1>1. CASE t \notin Elements(q)
    BY <1>1 DEF removeFromQueue
  <1>2. CASE t \in Elements(q)
    <2> DEFINE i == IndexOf(q, t)
               r == SubSeq(q, 1, i - 1) \o SubSeq(q, i + 1, Len(q))
    <2>1. i \in 1..Len(q) /\ q[i] = t
      BY <1>2, IndexOfIsThere
    <2>2. removeFromQueue(q, t) = r
      BY <1>2, ZenonT(30) DEF removeFromQueue
    <2> HIDE DEF i
    <2> DEFINE a == SubSeq(q, 1, i - 1)
               b == SubSeq(q, i + 1, Len(q))
    <2>a. a \in Seq(Thread) /\ Len(a) = i - 1 /\ \A j \in 1..(i - 1) : a[j] = q[j]
      <3>1. 1 \in Int /\ i - 1 \in Int /\ \A j \in 1..(i - 1) : q[j] \in Thread
        BY <2>1
      <3>2. /\ a \in Seq(Thread)
            /\ Len(a) = IF 1 <= i - 1 THEN i - 1 - 1 + 1 ELSE 0
            /\ \A j \in 1..(i - 1 - 1 + 1) : a[j] = q[1 + j - 1]
        BY <3>1
      <3> QED BY <2>1, <3>2
    <2>b. b \in Seq(Thread) /\ Len(b) = Len(q) - i /\ \A j \in 1..(Len(q) - i) : b[j] = q[i + j]
      <3>1. i + 1 \in Int /\ Len(q) \in Int /\ \A j \in (i + 1)..Len(q) : q[j] \in Thread
        BY <2>1
      <3>2. /\ b \in Seq(Thread)
            /\ Len(b) = IF i + 1 <= Len(q) THEN Len(q) - (i + 1) + 1 ELSE 0
            /\ \A j \in 1..(Len(q) - (i + 1) + 1) : b[j] = q[i + 1 + j - 1]
        BY <3>1
      <3> QED BY <2>1, <3>2
    <2>c. r = a \o b
      OBVIOUS
    <2> HIDE DEF a, b, r
    <2>d. /\ r \in Seq(Thread) /\ Len(r) = Len(a) + Len(b)
          /\ \A j \in 1..(Len(a) + Len(b)) : r[j] = IF j <= Len(a) THEN a[j] ELSE b[j - Len(a)]
      <3>1. r \in Seq(Thread) /\ Len(r) = Len(a) + Len(b) /\ Len(a) \in Nat /\ Len(b) \in Nat
        BY <2>a, <2>b, <2>c
      <3>2. ASSUME NEW j \in 1..(Len(a) + Len(b))
            PROVE  r[j] = IF j <= Len(a) THEN a[j] ELSE b[j - Len(a)]
        <4>1. CASE j <= Len(a)
          BY <2>a, <2>b, <2>c, <3>1, <4>1
        <4>2. CASE ~(j <= Len(a))
          BY <2>a, <2>b, <2>c, <3>1, <4>2
        <4> QED BY <4>1, <4>2
      <3> QED BY <3>1, <3>2
    <2>3. r \in Seq(Thread) /\ Len(r) = Len(q) - 1
      BY <2>1, <2>a, <2>b, <2>d
    <2>4. ASSUME NEW j \in 1..Len(r) PROVE r[j] = IF j < i THEN q[j] ELSE q[j + 1]
      <3>0. j \in 1..(Len(a) + Len(b)) /\ Len(a) = i - 1 /\ i \in Int /\ j \in Int
        BY <2>1, <2>d, <2>a
      <3>1. CASE j < i
        <4>1. j <= Len(a) /\ j \in 1..(i - 1)
          BY <3>0, <3>1
        <4>2. r[j] = a[j]
          BY <2>d, <3>0, <4>1
        <4> QED BY <2>a, <3>1, <4>1, <4>2
      <3>2. CASE ~(j < i)
        <4>1. j - (i - 1) \in 1..(Len(q) - i) /\ i + (j - (i - 1)) = j + 1
          BY <2>1, <2>3, <3>2
        <4>2. ~(j <= Len(a))
          BY <3>0, <3>2
        <4>3. r[j] = b[j - (i - 1)]
          BY <2>d, <3>0, <4>2
        <4>4. b[j - (i - 1)] = q[j + 1]
          BY <2>b, <4>1
        <4> QED BY <3>2, <4>3, <4>4
      <3> QED BY <3>1, <3>2
    <2>5. Injective(r)
      <3> SUFFICES ASSUME NEW k \in 1..Len(r), NEW l \in 1..Len(r), r[k] = r[l] PROVE k = l
        BY <2>3 DEF Injective
      <3> DEFINE pos(j) == IF j < i THEN j ELSE j + 1
      <3>1. pos(k) \in 1..Len(q) /\ pos(l) \in 1..Len(q) /\ q[pos(k)] = q[pos(l)]
        BY <2>1, <2>3, <2>4
      <3>2. pos(k) = pos(l)
        BY <3>1 DEF Injective
      <3> QED BY <2>1, <3>2
    <2>6. Elements(r) = Elements(q) \ {t}
      <3>1. ASSUME NEW v \in Elements(r) PROVE v \in Elements(q) \ {t}
        <4>1. PICK j \in 1..Len(r) : v = r[j]
          BY <2>3 DEF Elements
        <4> DEFINE k == IF j < i THEN j ELSE j + 1
        <4>2. k \in 1..Len(q) /\ k # i /\ v = q[k]
          BY <2>1, <2>3, <2>4, <4>1
        <4>3. v # t
          BY <2>1, <4>2 DEF Injective
        <4> QED BY <4>2, <4>3 DEF Elements
      <3>2. ASSUME NEW v \in Elements(q) \ {t} PROVE v \in Elements(r)
        <4>1. PICK k \in 1..Len(q) : v = q[k] /\ k # i
          BY <2>1 DEF Elements
        <4> DEFINE j == IF k < i THEN k ELSE k - 1
        <4>2. j \in 1..Len(r) /\ r[j] = v
          BY <2>1, <2>3, <2>4, <4>1
        <4> QED BY <2>3, <4>2 DEF Elements
      <3> QED BY <3>1, <3>2
    <2> QED BY <2>2, <2>3, <2>5, <2>6
  <1> QED BY <1>1, <1>2

(* Putting a thread in front of a queue it is not in. *)
LEMMA PutInFront ==
    ASSUME NEW q \in Seq(Thread), Injective(q), NEW t \in Thread, t \notin Elements(q)
    PROVE  /\ <<t>> \o q \in Seq(Thread)
           /\ Injective(<<t>> \o q)
           /\ Elements(<<t>> \o q) = {t} \cup Elements(q)
  <1> DEFINE r == <<t>> \o q
  <1>1. r \in Seq(Thread) /\ Len(r) = Len(q) + 1
    OBVIOUS
  <1>2. \A j \in 1..Len(r) : r[j] = IF j = 1 THEN t ELSE q[j - 1]
    BY <1>1
  <1> HIDE DEF r
  <1>3. \A j \in 1..Len(q) : q[j] # t
    BY DEF Elements
  <1>4. Injective(r)
    <2> SUFFICES ASSUME NEW a \in 1..Len(r), NEW b \in 1..Len(r), r[a] = r[b] PROVE a = b
      BY <1>1 DEF Injective
    <2>1. CASE a = 1 \/ b = 1
      BY <1>1, <1>2, <1>3, <2>1
    <2>2. CASE a # 1 /\ b # 1
      BY <1>1, <1>2, <2>2 DEF Injective
    <2> QED BY <2>1, <2>2
  <1>5. Elements(r) = {t} \cup Elements(q)
    <2>1. ASSUME NEW v \in Elements(r) PROVE v \in {t} \cup Elements(q)
      <3>1. PICK j \in 1..Len(r) : v = r[j]
        BY <1>1 DEF Elements
      <3>2. CASE j = 1
        BY <1>2, <3>1, <3>2
      <3>3. CASE j # 1
        <4>1. j - 1 \in 1..Len(q) /\ v = q[j - 1]
          BY <1>1, <1>2, <3>1, <3>3
        <4> QED BY <4>1 DEF Elements
      <3> QED BY <3>2, <3>3
    <2>2. t \in Elements(r)
      <3>1. 1 \in 1..Len(r) /\ r[1] = t
        BY <1>1, <1>2
      <3> QED BY <1>1, <3>1 DEF Elements
    <2>3. ASSUME NEW v \in Elements(q) PROVE v \in Elements(r)
      <3>1. PICK k \in 1..Len(q) : v = q[k]
        BY DEF Elements
      <3>2. k + 1 \in 1..Len(r) /\ r[k + 1] = v
        BY <1>1, <1>2, <3>1
      <3> QED BY <1>1, <3>2 DEF Elements
    <2> QED BY <2>1, <2>2, <2>3
  <1> QED BY <1>1, <1>4, <1>5 DEF r

-----------------------------------------------------------------------------
(* What every move between queues keeps. *)
QueuesKept ==
    /\ runQueue' \in [Core -> Seq(Thread)]
    /\ waitQueue' \in [Core -> Seq(Thread)]
    /\ \A d \in Core :
         /\ Injective(runQueue'[d]) /\ Injective(waitQueue'[d])
         /\ Elements(runQueue'[d]) \cap Elements(waitQueue'[d]) = {}
         /\ Elements(runQueue'[d]) \cup Elements(waitQueue'[d])
              \subseteq Elements(runQueue[d]) \cup Elements(waitQueue[d])

QueuesAtHome == \A c \in Core :
    \A t \in Elements(runQueue[c]) \cup Elements(waitQueue[c]) : Belongs(t, c)

(* Only threads are queued. *)
LEMMA ElementsAreThreads ==
    ASSUME NEW q \in Seq(Thread)
    PROVE  Elements(q) \subseteq Thread
  BY DEF Elements

(* A thread of one core is not a thread of another. *)
LEMMA OneHome ==
    ASSUME NEW t \in Thread, NEW c \in Core, NEW d \in Core, Belongs(t, c), Belongs(t, d)
    PROVE  c = d
  BY ContextAssumption, ZenonT(30) DEF Belongs, Null, Idle, Boot

(* The home of a thread is the core of its scheduler. *)
LEMMA HomeIsScheduler ==
    ASSUME NEW t \in Thread, NEW c \in Core, Belongs(t, c)
    PROVE  scheduler[t] = c /\ type[t] # "unborn"
  BY ContextAssumption, ZenonT(30) DEF Belongs, Null, Idle, Boot

(* Queues that only lose or exchange entries stay disciplined and at home. *)
LEMMA KeptQueues ==
    ASSUME TypeOK, QueuesAtHome, QueuesKept, UNCHANGED birth
    PROVE  QueueDiscipline' /\ QueuesAtHome'
  <1>1. QueuesAtHome'
    BY DEF QueuesAtHome, QueuesKept, Belongs, birth
  <1>2. \A c \in Core : Elements(runQueue'[c]) \subseteq Thread /\ Elements(waitQueue'[c]) \subseteq Thread
    BY ElementsAreThreads DEF QueuesKept
  <1>3. ASSUME NEW c \in Core, NEW d \in Core, c # d
        PROVE  (Elements(runQueue'[c]) \cup Elements(waitQueue'[c]))
                 \cap (Elements(runQueue'[d]) \cup Elements(waitQueue'[d])) = {}
    <2> SUFFICES ASSUME NEW t \in Elements(runQueue'[c]) \cup Elements(waitQueue'[c]),
                        t \in Elements(runQueue'[d]) \cup Elements(waitQueue'[d])
                 PROVE  FALSE
      OBVIOUS
    <2>1. t \in Thread /\ Belongs(t, c) /\ Belongs(t, d)
      BY <1>2 DEF QueuesAtHome, QueuesKept
    <2> QED BY <1>3, <2>1, OneHome
  <1>4. \A c \in Core : /\ Injective(runQueue'[c]) /\ Injective(waitQueue'[c])
                        /\ Elements(runQueue'[c]) \cap Elements(waitQueue'[c]) = {}
    BY DEF QueuesKept
  <1>5. QueueDiscipline'
    BY <1>3, <1>4, SMT, ZenonT(30), SMTT(60) DEF QueueDiscipline
  <1> QED BY <1>1, <1>5

(* Leaving the queues alone keeps them. *)
LEMMA UnchangedQueues ==
    ASSUME TypeOK, QueueDiscipline, UNCHANGED <<runQueue, waitQueue>>
    PROVE  QueuesKept
  BY DEF TypeOK, QueueDiscipline, QueuesKept

(* The home of every entry depends on the queues, the entries in use and what  *)
(* the threads were born as, and on nothing else.                              *)
LEMMA SameHome ==
    ASSUME HomeInv,
           UNCHANGED <<runQueue, waitQueue, currentEntry, running, stale, scheduler, type>>,
           \A c \in Core : handlingLock' = c => Belongs(runningEntry, c)'
    PROVE  HomeInv'
  <1>1. \A c \in Core : \A t \in Elements(runQueue[c])' \cup Elements(waitQueue[c])' : Belongs(t, c)'
    BY DEF HomeInv, Belongs
  <1>2. \A c \in Core : Belongs(currentEntry[c], c)' /\ Belongs(running[c], c)'
    BY DEF HomeInv, Belongs
  <1>3. \A t \in Thread : Belongs(stale[t], scheduler[t])'
    BY DEF HomeInv, Belongs
  <1> QED BY <1>1, <1>2, <1>3 DEF HomeInv

(* Scheduler::moveToWaitQueue keeps the queues and takes the thread out of the *)
(* run queue.                                                                   *)
LEMMA MoveToWaitKeeps ==
    ASSUME TypeOK, QueueDiscipline, QueuesAtHome, NEW t \in Thread, moveToWaitQueue(t)
    PROVE  /\ QueuesKept
           /\ \A d \in Core : Elements(runQueue'[d]) \subseteq Elements(runQueue[d]) \ {t}
           /\ currentEntry' \in [Core -> Context \cup {Null}]
           /\ \A d \in Core : currentEntry'[d] \in {Null, currentEntry[d]}
  <1> DEFINE c == scheduler[t]
  <1>0. c \in Core
    BY DEF TypeOK
  <1>1. CASE t \in Elements(runQueue[c])
    <2>1. /\ runQueue' = [runQueue EXCEPT ![c] = removeFromQueue(runQueue[c], t)]
          /\ waitQueue' = [waitQueue EXCEPT ![c] = <<t>> \o waitQueue[c]]
          /\ currentEntry' = [currentEntry EXCEPT
                                ![c] = IF currentEntry[c] = t THEN Null ELSE currentEntry[c]]
      BY <1>1 DEF moveToWaitQueue
    <2>2. /\ removeFromQueue(runQueue[c], t) \in Seq(Thread)
          /\ Injective(removeFromQueue(runQueue[c], t))
          /\ Elements(removeFromQueue(runQueue[c], t)) = Elements(runQueue[c]) \ {t}
      BY <1>0, RemoveKeepsOthers DEF TypeOK, QueueDiscipline
    <2>3. /\ <<t>> \o waitQueue[c] \in Seq(Thread)
          /\ Injective(<<t>> \o waitQueue[c])
          /\ Elements(<<t>> \o waitQueue[c]) = {t} \cup Elements(waitQueue[c])
      BY <1>0, <1>1, PutInFront DEF TypeOK, QueueDiscipline
    <2> HIDE DEF c
    <2>4. \A d \in Core : d # c => /\ runQueue'[d] = runQueue[d] /\ waitQueue'[d] = waitQueue[d]
                                   /\ t \notin Elements(runQueue[d])
      BY <1>0, <1>1, <2>1 DEF TypeOK, QueueDiscipline
    <2>5. runQueue'[c] = removeFromQueue(runQueue[c], t) /\ waitQueue'[c] = <<t>> \o waitQueue[c]
      BY <1>0, <2>1 DEF TypeOK
    <2>6. runQueue' \in [Core -> Seq(Thread)] /\ waitQueue' \in [Core -> Seq(Thread)]
      BY <1>0, <2>1, <2>2, <2>3 DEF TypeOK
    <2>7. QueuesKept
      BY <1>0, <1>1, <2>2, <2>3, <2>4, <2>5, <2>6, ZenonT(30) DEF QueuesKept, QueueDiscipline
    <2>8. \A d \in Core : Elements(runQueue'[d]) \subseteq Elements(runQueue[d]) \ {t}
      BY <2>2, <2>4, <2>5
    <2>9. currentEntry' \in [Core -> Context \cup {Null}] /\ \A d \in Core : currentEntry'[d] \in {Null, currentEntry[d]}
      BY <1>0, <2>1 DEF TypeOK
    <2> QED BY <2>7, <2>8, <2>9
  <1>2. CASE t \notin Elements(runQueue[c])
    <2>1. UNCHANGED <<runQueue, waitQueue, currentEntry>>
      BY <1>2 DEF moveToWaitQueue, queues
    <2>2. QueuesKept
      BY <2>1, UnchangedQueues
    <2>3. \A d \in Core : t \notin Elements(runQueue[d])
      BY <1>0, <1>2, HomeIsScheduler DEF QueuesAtHome
    <2> QED BY <2>1, <2>2, <2>3 DEF TypeOK
  <1> QED BY <1>1, <1>2

(* Scheduler::moveToRunQueue keeps the queues and readies no other thread. *)
LEMMA MoveToRunKeeps ==
    ASSUME TypeOK, QueueDiscipline, QueuesAtHome, NEW t \in Thread, moveToRunQueue(t)
    PROVE  /\ QueuesKept
           /\ \A d \in Core : Elements(runQueue'[d]) \subseteq Elements(runQueue[d]) \cup {t}
  <1> DEFINE c == scheduler[t]
  <1>0. c \in Core
    BY DEF TypeOK
  <1>1. CASE t \in Elements(waitQueue[c])
    <2>1. /\ waitQueue' = [waitQueue EXCEPT ![c] = removeFromQueue(waitQueue[c], t)]
          /\ runQueue' = [runQueue EXCEPT ![c] = <<t>> \o runQueue[c]]
      BY <1>1 DEF moveToRunQueue
    <2>2. /\ removeFromQueue(waitQueue[c], t) \in Seq(Thread)
          /\ Injective(removeFromQueue(waitQueue[c], t))
          /\ Elements(removeFromQueue(waitQueue[c], t)) = Elements(waitQueue[c]) \ {t}
      BY <1>0, RemoveKeepsOthers DEF TypeOK, QueueDiscipline
    <2>3. /\ <<t>> \o runQueue[c] \in Seq(Thread)
          /\ Injective(<<t>> \o runQueue[c])
          /\ Elements(<<t>> \o runQueue[c]) = {t} \cup Elements(runQueue[c])
      BY <1>0, <1>1, PutInFront DEF TypeOK, QueueDiscipline
    <2> HIDE DEF c
    <2>4. \A d \in Core : d # c => runQueue'[d] = runQueue[d] /\ waitQueue'[d] = waitQueue[d]
      BY <1>0, <1>1, <2>1 DEF TypeOK
    <2>5. waitQueue'[c] = removeFromQueue(waitQueue[c], t) /\ runQueue'[c] = <<t>> \o runQueue[c]
      BY <1>0, <2>1 DEF TypeOK
    <2>6. runQueue' \in [Core -> Seq(Thread)] /\ waitQueue' \in [Core -> Seq(Thread)]
      BY <1>0, <2>1, <2>2, <2>3 DEF TypeOK
    <2>7. QueuesKept
      BY <1>0, <1>1, <2>2, <2>3, <2>4, <2>5, <2>6, ZenonT(30) DEF QueuesKept, QueueDiscipline
    <2> QED BY <2>3, <2>4, <2>5, <2>7, ZenonT(30)
  <1>2. CASE t \notin Elements(waitQueue[c])
    BY <1>2, UnchangedQueues DEF moveToRunQueue
  <1> QED BY <1>1, <1>2

(* Scheduler::_remove keeps the queues and readies no thread. *)
LEMMA RemoveKeeps ==
    ASSUME TypeOK, QueueDiscipline, NEW c \in Core, NEW t \in Thread, remove(c, t)
    PROVE  /\ QueuesKept
           /\ \A d \in Core : Elements(runQueue'[d]) \subseteq Elements(runQueue[d])
  <1>1. /\ runQueue' = [runQueue EXCEPT ![c] = removeFromQueue(runQueue[c], t)]
        /\ \/ waitQueue' = waitQueue
           \/ waitQueue' = [waitQueue EXCEPT ![c] = removeFromQueue(waitQueue[c], t)]
    BY DEF remove
  <1>2. /\ removeFromQueue(runQueue[c], t) \in Seq(Thread)
        /\ Injective(removeFromQueue(runQueue[c], t))
        /\ Elements(removeFromQueue(runQueue[c], t)) = Elements(runQueue[c]) \ {t}
    BY RemoveKeepsOthers DEF TypeOK, QueueDiscipline
  <1>3. /\ removeFromQueue(waitQueue[c], t) \in Seq(Thread)
        /\ Injective(removeFromQueue(waitQueue[c], t))
        /\ Elements(removeFromQueue(waitQueue[c], t)) = Elements(waitQueue[c]) \ {t}
    BY RemoveKeepsOthers DEF TypeOK, QueueDiscipline
  <1>4. runQueue' \in [Core -> Seq(Thread)]
    BY <1>1, <1>2 DEF TypeOK
  <1>5. \A d \in Core : /\ Injective(runQueue'[d])
                        /\ Elements(runQueue'[d]) \subseteq Elements(runQueue[d])
    BY <1>1, <1>2 DEF TypeOK, QueueDiscipline
  <1>6. /\ waitQueue' \in [Core -> Seq(Thread)]
        /\ \A d \in Core : /\ Injective(waitQueue'[d])
                           /\ Elements(waitQueue'[d]) \subseteq Elements(waitQueue[d])
    <2>1. CASE waitQueue' = waitQueue
      BY <2>1 DEF TypeOK, QueueDiscipline
    <2>2. CASE waitQueue' = [waitQueue EXCEPT ![c] = removeFromQueue(waitQueue[c], t)]
      BY <1>3, <2>2, SMT, ZenonT(30), SMTT(60) DEF TypeOK, QueueDiscipline
    <2> QED BY <1>1, <2>1, <2>2, ZenonT(30)
  <1>7. \A d \in Core : Elements(runQueue[d]) \cap Elements(waitQueue[d]) = {}
    BY DEF QueueDiscipline
  <1>8. QueuesKept
    BY <1>4, <1>5, <1>6, <1>7, ZenonT(30) DEF QueuesKept
  <1> QED BY <1>5, <1>8

(* The first thread of a queue is in it. *)
LEMMA HeadIsThere ==
    ASSUME NEW q \in Seq(Thread)
    PROVE  HeadOf(q) = Null \/ HeadOf(q) \in Elements(q)
  BY DEF HeadOf, Elements

(* entry->next, live or freed, leads to a thread of the same core. *)
LEMMA NextBelongs ==
    ASSUME TypeOK, QueuesAtHome, NEW c \in Core, NEW e, Belongs(e, c),
           \A t \in Thread : Belongs(stale[t], scheduler[t])
    PROVE  next(c, e) \in Thread \cup {Null} /\ Belongs(next(c, e), c)
  <1>0. Belongs(Null, c) /\ Null \in Thread \cup {Null}
    BY DEF Belongs
  <1>1. ASSUME NEW q \in Seq(Thread), e \in Elements(q), Elements(q) \subseteq Thread,
               \A t \in Elements(q) : Belongs(t, c)
        PROVE  Successor(q, e) \in Thread \cup {Null} /\ Belongs(Successor(q, e), c)
    <2>1. IndexOf(q, e) \in 1..Len(q)
      BY <1>1, IndexOfIsThere
    <2>2. CASE IndexOf(q, e) < Len(q)
      <3>1. IndexOf(q, e) + 1 \in 1..Len(q)
        BY <2>1, <2>2
      <3>2. q[IndexOf(q, e) + 1] \in Elements(q)
        BY <3>1 DEF Elements
      <3> QED BY <1>1, <2>2, <3>2 DEF Successor
    <2>3. CASE ~(IndexOf(q, e) < Len(q))
      BY <1>0, <2>3 DEF Successor
    <2> QED BY <2>2, <2>3
  <1>2. CASE e \notin Thread
    BY <1>0, <1>2 DEF next
  <1>3. CASE e \in Thread /\ e \in Elements(runQueue[c])
    BY <1>1, <1>3, ElementsAreThreads, ZenonT(30) DEF next, TypeOK, QueuesAtHome
  <1>4. CASE e \in Thread /\ e \notin Elements(runQueue[c]) /\ e \in Elements(waitQueue[c])
    BY <1>1, <1>4, ElementsAreThreads, ZenonT(30) DEF next, TypeOK, QueuesAtHome
  <1>5. CASE e \in Thread /\ e \notin Elements(runQueue[c]) /\ e \notin Elements(waitQueue[c])
    BY <1>5, HomeIsScheduler, SMT, ZenonT(30), SMTT(60) DEF next, TypeOK
  <1> QED BY <1>2, <1>3, <1>4, <1>5

-----------------------------------------------------------------------------
(* Requests. *)
HardwareOps == {"timer", "irq", "divideError", "noResolution", "unhandledIrq"}

(* A handler for anything but a hardware interrupt serves a thread, and reads *)
(* its own kind of request from the frame of that thread.                      *)
LEMMA HandledRequest ==
    ASSUME TypeOK, HandlerInv, NEW c \in Core, NEW op, Handling(c, op), op \notin HardwareOps
    PROVE  handled \in Thread /\ frame[handled] \in Request /\ frame[handled][1] = op
  <1>1. handled \in Context
    BY DEF Handling, HandlerInv, TypeOK
  <1>2. frame[handled] # NoFrame /\ frame[handled][1] = op
    BY DEF Handling, FrameOp, HardwareOps
  <1>3. frame[handled] \in Request
    BY <1>1, <1>2 DEF TypeOK, Frame
  <1>4. ASSUME handled \notin Thread PROVE FALSE
    <2>1. frame[handled] \in HardwareRequest
      BY <1>1, <1>2, <1>4, SMT, ZenonT(30), SMTT(60) DEF HandlerInv
    <2>2. frame[handled][1] \in {"timer", "irq"}
      BY <2>1, SMT, ZenonT(30), SMTT(60) DEF HardwareRequest
    <2> QED BY <1>2, <2>2 DEF HardwareOps
  <1> QED BY <1>2, <1>3, <1>4

(* The arguments of the calls, by the kind of the request. *)
LEMMA RequestArguments ==
    ASSUME NEW r \in Request
    PROVE  /\ r[1] = "irq" => r[2] \in Irq
           /\ r[1] = "sleep" => r \in {"sleep"} \X (0..MaxSleep)
           /\ r[1] = "join" => r \in {"join"} \X Thread
           /\ r[1] \in {"waitForIrq", "registerIrqHandler"} => r[2] \in Irq
           /\ r[1] = "registerSignalHandler" => r[2] \in Signal
           /\ r[1] = "raiseSignal" => r[2] \in Thread /\ r[3] \in Signal
           /\ r[1] = "kill" => r[2] \in Thread
  BY DEF Request, HardwareRequest, Exception, PlainRequest

-----------------------------------------------------------------------------
(* The part of the type invariant that handlers change besides the queues. *)
DataTyped ==
    /\ alive \in [Thread -> BOOLEAN]
    /\ waitManager \in [Thread -> Waiter]
    /\ interruptionInfo \in [Thread -> [waiter : Waiter, frame : Frame \cup {Null}]]
    /\ frame \in [Context -> Frame]
    /\ irqsWaiting \in [Irq -> BOOLEAN]
    /\ irqHandler \in [Irq -> Thread \cup {Null}]
    /\ signalHandler \in [Thread -> [Signal -> Thread \cup {Null}]]
    /\ reaping \in Thread \cup {Null}

(* What every step is shown to do: it keeps the inductive invariant and puts  *)
(* no removed thread back into a queue.                                        *)
NoneReturns == \A t \in Thread : Removed(t) => Removed(t)'
Preserved == IInv' /\ NoneReturns

(* Keeping the queues puts nobody back. *)
LEMMA KeptNoneReturns ==
    ASSUME QueuesKept, UNCHANGED birth
    PROVE  NoneReturns
  <1> SUFFICES ASSUME NEW t \in Thread, type[t] # "unborn", ~Queued(t) PROVE ~Queued(t)'
    BY DEF NoneReturns, Removed, birth
  <1> QED BY DEF QueuesKept, Queued

(* Nor does leaving them alone. *)
LEMMA SameNoneReturns ==
    ASSUME UNCHANGED <<runQueue, waitQueue, birth>>
    PROVE  NoneReturns
  BY DEF NoneReturns, Removed, Queued, birth

(* What a handler does to queues and waiters: it may take threads out of run  *)
(* queues, and gives a waiter only to threads that are in none.                *)
OnlyBlocks ==
    /\ QueuesKept
    /\ \A d \in Core : Elements(runQueue'[d]) \subseteq Elements(runQueue[d])
    /\ currentEntry' \in [Core -> Context \cup {Null}]
    /\ \A d \in Core : currentEntry'[d] \in {Null, currentEntry[d]}
    /\ \A t \in Thread : waitManager'[t] # NoWaiter =>
         \/ waitManager[t] # NoWaiter
         \/ type[t] # "unborn" /\ \A d \in Core : t \notin Elements(runQueue'[d])

HandlerEnds ==
    \/ phase' = "schedule" /\ resume' = "return"
    \/ phase' = "return" /\ resume' = resume /\ currentEntry' = currentEntry
    \/ phase' = "hang" /\ resume' = resume

(* A handler that does no more than this preserves the inductive invariant. *)
LEMMA HandlerStep ==
    ASSUME IInv, NEW c \in Core, handlingLock = c, phase \in {"handle", "vm86"},
           UNCHANGED <<birth, stale, running, trapped, handlingLock, handled, runningEntry>>,
           OnlyBlocks, HandlerEnds, DataTyped',
           \A e \in Context \ Thread : frame'[e] = frame[e]
    PROVE  Preserved
  <1> USE DEF IInv
  <1>0. QueuesAtHome
    BY DEF HomeInv, QueuesAtHome
  <1>1. QueueDiscipline' /\ QueuesAtHome'
    BY <1>0, KeptQueues DEF OnlyBlocks
  <1>2. \A d \in Core : Belongs(currentEntry[d], d)'
    BY DEF OnlyBlocks, HomeInv, Belongs, birth
  <1>3. HomeInv'
    <2>1. \A d \in Core : Belongs(running[d], d)' /\ (handlingLock' = d => Belongs(runningEntry, d)')
      BY DEF HomeInv, Belongs, birth
    <2>2. \A t \in Thread : Belongs(stale[t], scheduler[t])'
      BY DEF HomeInv, Belongs, birth
    <2> QED BY <1>1, <1>2, <2>1, <2>2 DEF HomeInv, QueuesAtHome
  <1>4. TypeOK'
    BY SMT, ZenonT(30), SMTT(60) DEF TypeOK, DataTyped, OnlyBlocks, QueuesKept, HandlerEnds, Phase, birth
  <1>5. ReadyMeansReady'
    <2> SUFFICES ASSUME NEW d \in Core, NEW t \in Elements(runQueue'[d]), waitManager'[t] # NoWaiter
                 PROVE  FALSE
      BY DEF ReadyMeansReady
    <2>1. t \in Thread /\ t \in Elements(runQueue[d])
      BY <1>4, ElementsAreThreads, SMT, ZenonT(30), SMTT(60) DEF TypeOK, OnlyBlocks
    <2> QED BY <2>1 DEF ReadyMeansReady, OnlyBlocks
  <1>6. UnbornInv'
    <2>1. type' = type /\ process' = process /\ stale' = stale
      BY SMT, ZenonT(30), SMTT(60) DEF birth
    <2>2. \A t \in Thread : waitManager'[t] # NoWaiter =>
            waitManager[t] # NoWaiter \/ type[t] # "unborn"
      BY ZenonT(60) DEF OnlyBlocks
    <2>3. \A t \in Thread : type[t] = "unborn" => waitManager'[t] = NoWaiter /\ stale[t] = Null
      BY <2>2 DEF UnbornInv
    <2>4. \A t \in Thread : type[t] # "unborn" => type[process[t]] # "unborn"
      BY DEF UnbornInv
    <2> QED BY <2>1, <2>3, <2>4 DEF UnbornInv
  <1>7. runningEntry = Null /\ handled # Null /\ currentEntry[c] = handled
    BY DEF HandlerInv
  <1>8. HandlerInv'
    BY <1>7, CoreAssumption DEF HandlerInv, HandlerEnds, OnlyBlocks, Nobody
  <1>9. SavedWhereItBelongs'
    BY DEF SavedWhereItBelongs, OnlyBlocks
  <1>10. NoneReturns
    BY KeptNoneReturns DEF OnlyBlocks
  <1> QED BY <1>1, <1>3, <1>4, <1>5, <1>6, <1>8, <1>9, <1>10 DEF Preserved

(* A handler that touches no queue and no waiter blocks nobody. *)
LEMMA NothingBlocks ==
    ASSUME IInv, UNCHANGED <<queues, waitManager>>
    PROVE  OnlyBlocks
  <1>1. QueuesKept
    BY UnchangedQueues DEF IInv, queues
  <1> QED BY <1>1 DEF OnlyBlocks, queues, IInv, TypeOK

(* Thread::wait does what a handler may do. *)
LEMMA WaitBlocks ==
    ASSUME IInv, NEW t \in Thread, type[t] # "unborn", NEW w \in Waiter, wait(t, w)
    PROVE  OnlyBlocks /\ waitManager' \in [Thread -> Waiter]
  <1>0. TypeOK /\ QueueDiscipline /\ QueuesAtHome
    BY DEF IInv, HomeInv, QueuesAtHome
  <1>1. waitManager' \in [Thread -> Waiter] /\ \A u \in Thread : u # t => waitManager'[u] = waitManager[u]
    BY <1>0 DEF wait, TypeOK
  <1>2. CASE waitManager[t] = NoWaiter
    <2>1. moveToWaitQueue(t)
      BY <1>2 DEF wait
    <2>2. /\ QueuesKept
          /\ \A d \in Core : Elements(runQueue'[d]) \subseteq Elements(runQueue[d]) \ {t}
          /\ currentEntry' \in [Core -> Context \cup {Null}]
          /\ \A d \in Core : currentEntry'[d] \in {Null, currentEntry[d]}
      BY <1>0, <2>1, MoveToWaitKeeps
    <2>3. \A d \in Core : Elements(runQueue'[d]) \subseteq Elements(runQueue[d]) /\ t \notin Elements(runQueue'[d])
      BY <2>2
    <2> QED BY <1>1, <2>2, <2>3 DEF OnlyBlocks
  <1>3. CASE waitManager[t] # NoWaiter
    <2>1. UNCHANGED <<runQueue, waitQueue, currentEntry>>
      BY <1>3 DEF wait, queues
    <2>2. QueuesKept
      BY <1>0, <2>1, UnchangedQueues
    <2> QED BY <1>0, <1>1, <1>3, <2>1, <2>2 DEF OnlyBlocks, TypeOK
  <1> QED BY <1>2, <1>3

(* Thread::enterIrqHandler and enterSignalHandler do what a handler may do. *)
LEMMA EnterBlocks ==
    ASSUME IInv, NEW t \in Thread, type[t] # "unborn", enterHandler(t)
    PROVE  /\ OnlyBlocks
           /\ waitManager' \in [Thread -> Waiter]
           /\ interruptionInfo' \in [Thread -> [waiter : Waiter, frame : Frame \cup {Null}]]
  <1>0. TypeOK /\ QueueDiscipline /\ QueuesAtHome
    BY DEF IInv, HomeInv, QueuesAtHome
  <1>1. CASE Interrupted(t)
    <2>1. UNCHANGED <<queues, waitManager, interruptionInfo>>
      BY <1>1 DEF enterHandler
    <2> QED BY <1>0, <2>1, NothingBlocks DEF TypeOK
  <1>2. CASE ~Interrupted(t)
    <2>1. /\ interruptionInfo' = [interruptionInfo EXCEPT
                                    ![t] = [waiter |-> waitManager[t], frame |-> NoFrame]]
          /\ waitManager' = [waitManager EXCEPT ![t] = <<"interruption">>]
          /\ moveToWaitQueue(t)
      BY <1>2 DEF enterHandler
    <2>2. /\ QueuesKept
          /\ \A d \in Core : Elements(runQueue'[d]) \subseteq Elements(runQueue[d]) \ {t}
          /\ currentEntry' \in [Core -> Context \cup {Null}]
          /\ \A d \in Core : currentEntry'[d] \in {Null, currentEntry[d]}
      BY <1>0, <2>1, MoveToWaitKeeps
    <2>3. \A d \in Core : Elements(runQueue'[d]) \subseteq Elements(runQueue[d]) /\ t \notin Elements(runQueue'[d])
      BY <2>2, SMT, ZenonT(30), SMTT(60)
    <2>4. waitManager' \in [Thread -> Waiter] /\ \A u \in Thread : u # t => waitManager'[u] = waitManager[u]
      BY <1>0, <2>1 DEF TypeOK, Waiter
    <2>5. interruptionInfo' \in [Thread -> [waiter : Waiter, frame : Frame \cup {Null}]]
      BY <1>0, <2>1 DEF TypeOK, Frame
    <2> QED BY <2>2, <2>3, <2>4, <2>5, SMT, ZenonT(30), SMTT(60) DEF OnlyBlocks
  <1> QED BY <1>1, <1>2

(* A thread that a handler serves exists, and so does its main thread. *)
LEMMA HandledIsBorn ==
    ASSUME IInv, NEW c \in Core, handlingLock = c, phase \in {"handle", "vm86"}, handled \in Thread
    PROVE  type[handled] # "unborn" /\ process[handled] \in Thread /\ type[process[handled]] # "unborn"
  <1>1. Belongs(handled, c)
    BY ZenonT(30) DEF IInv, HandlerInv, HomeInv
  <1>2. type[handled] # "unborn"
    BY <1>1, HomeIsScheduler
  <1> QED BY <1>2, SMTT(30) DEF IInv, UnbornInv, TypeOK

(* A thread that getTaskById finds exists. *)
LEMMA FoundIsBorn ==
    ASSUME IInv, NEW t \in Thread, getTaskById(t)
    PROVE  type[t] # "unborn"
  <1>1. PICK c \in Core : t \in Elements(runQueue[c]) \cup Elements(waitQueue[c])
    BY DEF getTaskById, Queued
  <1>2. Belongs(t, c)
    BY <1>1 DEF IInv, HomeInv
  <1> QED BY <1>2, HomeIsScheduler

-----------------------------------------------------------------------------
(* The handlers, one by one. *)
LEMMA TickTyped ==
    ASSUME NEW w \in Waiter
    PROVE  Tick(w) \in Waiter /\ (Tick(w) # NoWaiter => w # NoWaiter)
  <1>1. CASE w[1] = "sleep" /\ w[2] > 0
    <2>1. w \in {"sleep"} \X (0..MaxSleep)
      BY <1>1 DEF Waiter, NoWaiter
    <2>2. <<"sleep", w[2] - 1>> \in {"sleep"} \X (0..MaxSleep)
      BY <1>1, <2>1, SleepAssumption
    <2> QED BY <1>1, <2>1, <2>2 DEF Tick, Waiter, NoWaiter
  <1>2. CASE ~(w[1] = "sleep" /\ w[2] > 0)
    BY <1>2 DEF Tick
  <1> QED BY <1>1, <1>2

(* The timer interrupt preserves the invariant. *)
LEMMA TimerInv ==
    ASSUME IInv, NEW c \in Core, timer(c)
    PROVE  Preserved
  <1>0. TypeOK
    BY DEF IInv
  <1> DEFINE mine(t) == t \in Elements(runQueue[c]) \cup Elements(waitQueue[c])
  <1>1. waitManager' = [t \in Thread |-> IF mine(t) THEN Tick(waitManager[t]) ELSE waitManager[t]]
    BY DEF timer
  <1>2. interruptionInfo' = [t \in Thread |->
           IF mine(t) THEN [interruptionInfo[t] EXCEPT !.waiter = Tick(interruptionInfo[t].waiter)]
                      ELSE interruptionInfo[t]]
    BY DEF timer
  <1> HIDE DEF mine
  <1>3. /\ waitManager' \in [Thread -> Waiter]
        /\ \A t \in Thread : waitManager'[t] # NoWaiter => waitManager[t] # NoWaiter
    BY <1>0, <1>1, TickTyped DEF TypeOK
  <1>4. interruptionInfo' \in [Thread -> [waiter : Waiter, frame : Frame \cup {Null}]]
    <2>1. ASSUME NEW t \in Thread
          PROVE  [interruptionInfo[t] EXCEPT !.waiter = Tick(interruptionInfo[t].waiter)]
                   \in [waiter : Waiter, frame : Frame \cup {Null}]
      <3>1. interruptionInfo[t] \in [waiter : Waiter, frame : Frame \cup {Null}]
        BY <1>0 DEF TypeOK
      <3>2. Tick(interruptionInfo[t].waiter) \in Waiter
        BY <3>1, TickTyped
      <3> QED BY <3>1, <3>2
    <2> QED BY <1>0, <1>2, <2>1 DEF TypeOK
  <1>5. DataTyped'
    BY <1>0, <1>3, <1>4 DEF DataTyped, TypeOK, timer, tables, ThenSchedule
  <1>6. OnlyBlocks
    <2>1. UNCHANGED <<runQueue, waitQueue, currentEntry>>
      BY DEF timer, queues
    <2>2. QueuesKept
      BY <2>1, UnchangedQueues DEF IInv
    <2> QED BY <1>0, <1>3, <2>1, <2>2 DEF OnlyBlocks, TypeOK
  <1>7. UNCHANGED <<birth, stale, running, trapped, handlingLock, handled, runningEntry, frame>>
        /\ HandlerEnds /\ handlingLock = c /\ phase = "handle"
    BY DEF timer, Handling, ThenSchedule, AtSameCore, HandlerEnds
  <1> QED BY <1>5, <1>6, <1>7, HandlerStep

(* Handlers that change neither the queues nor a waiter. *)
LEMMA QuietInv ==
    ASSUME IInv, NEW c \in Core, handlingLock = c, phase = "handle",
           UNCHANGED <<queues, birth, waitManager, interruptionInfo, frame, stale>>,
           DataTyped', HandlerEnds, AtSameCore, UNCHANGED <<handled, runningEntry>>
    PROVE  Preserved
  <1>1. OnlyBlocks
    BY NothingBlocks
  <1> QED BY <1>1, HandlerStep DEF AtSameCore

(* Marking threads dead preserves the invariant. *)
LEMMA DieInv ==
    ASSUME IInv, NEW c \in Core, handlingLock = c, phase = "handle", NEW dead, Die(c, dead)
    PROVE  Preserved
  <1>1. DataTyped'
    BY DEF IInv, TypeOK, DataTyped, Die, tables, ThenSchedule
  <1> QED BY <1>1, QuietInv DEF Die, ThenSchedule, HandlerEnds, AtSameCore

(* So do the calls and faults that end with it. *)
LEMMA EndingInv ==
    ASSUME IInv, NEW c \in Core,
           exit(c) \/ exitThread(c) \/ handleInvalidOperationCode(c)
             \/ handleGeneralProtectionFault(c) \/ kill(c)
    PROVE  Preserved
  BY DieInv DEF exit, exitThread, handleInvalidOperationCode, handleGeneralProtectionFault, kill,
                Handling

(* The handlers that change no thread preserve the invariant. *)
LEMMA UnchangedInv ==
    ASSUME IInv, NEW c \in Core, query(c) \/ yield(c) \/ hang(c)
    PROVE  Preserved
  <1>1. UNCHANGED <<queues, threads, tables, handled, runningEntry, reaping>> /\ AtSameCore
        /\ HandlerEnds /\ handlingLock = c /\ phase = "handle"
    BY DEF query, yield, hang, Handling, ThenReturn, ThenSchedule, HandlerEnds, locals, queues
  <1>2. DataTyped'
    BY <1>1 DEF IInv, TypeOK, DataTyped, threads, tables
  <1> QED BY <1>1, <1>2, QuietInv DEF threads

(* Registering an interrupt or a signal handler preserves the invariant. *)
LEMMA RegisterInv ==
    ASSUME IInv, NEW c \in Core, registerIrqHandler(c) \/ registerSignalHandler(c)
    PROVE  Preserved
  <1>0. TypeOK /\ HandlerInv
    BY DEF IInv
  <1>1. CASE registerIrqHandler(c)
    <2>1. Handling(c, "registerIrqHandler")
      BY <1>1 DEF registerIrqHandler
    <2>a. "registerIrqHandler" \notin HardwareOps
      BY DEF HardwareOps
    <2>2. handled \in Thread /\ frame[handled] \in Request /\ frame[handled][1] = "registerIrqHandler"
      BY <1>0, <2>a, <2>1, HandledRequest
    <2>3. frame[handled][2] \in Irq
      BY <2>2, RequestArguments
    <2>4. DataTyped'
      BY <1>0, <1>1, <2>2, <2>3 DEF registerIrqHandler, TypeOK, DataTyped, threads, ThenReturn, locals
    <2> QED BY <1>1, <2>1, <2>4, QuietInv
            DEF registerIrqHandler, Handling, ThenReturn, HandlerEnds, threads, locals, queues
  <1>2. CASE registerSignalHandler(c)
    <2>1. Handling(c, "registerSignalHandler")
      BY <1>2 DEF registerSignalHandler
    <2>a. "registerSignalHandler" \notin HardwareOps
      BY DEF HardwareOps
    <2>2. handled \in Thread /\ frame[handled] \in Request /\ frame[handled][1] = "registerSignalHandler"
      BY <1>0, <2>a, <2>1, HandledRequest
    <2>3. frame[handled][2] \in Signal /\ process[handled] \in Thread
      BY <1>0, <2>2, RequestArguments DEF TypeOK
    <2>4. DataTyped'
      BY <1>0, <1>2, <2>2, <2>3, ZenonT(30) DEF registerSignalHandler, TypeOK, DataTyped, threads, ThenReturn, locals
    <2> QED BY <1>2, <2>1, <2>4, QuietInv
            DEF registerSignalHandler, Handling, ThenReturn, HandlerEnds, threads, locals, queues
  <1> QED BY <1>1, <1>2

(* An interrupt line, with or without a handler, preserves the invariant. *)
LEMMA IrqInv ==
    ASSUME IInv, NEW c \in Core, irq(c)
    PROVE  Preserved
  <1> DEFINE i == frame[handled][2]
  <1>0. TypeOK /\ HandlerInv
    BY DEF IInv
  <1>1. Handling(c, "irq") /\ handlingLock = c /\ phase = "handle"
    BY DEF irq, Handling
  <1>2. UNCHANGED <<alive, birth, frame, stale, irqHandler, signalHandler>> /\ AtSameCore
    BY DEF irq
  <1>3. i \in Irq
    <2>1. handled \in Context
      BY <1>0, <1>1 DEF HandlerInv, TypeOK
    <2>2. frame[handled] # NoFrame /\ frame[handled][1] = "irq"
      BY <1>1 DEF Handling, FrameOp
    <2> QED BY <1>0, <2>1, <2>2, RequestArguments DEF TypeOK, Frame
  <1>4. CASE irqHandler[i] = Null
    <2>1. irqsWaiting' = [irqsWaiting EXCEPT ![i] = TRUE] /\ ThenReturn
          /\ UNCHANGED <<queues, waitManager, interruptionInfo>>
      BY <1>4 DEF irq
    <2>2. DataTyped'
      BY <1>0, <1>2, <2>1, ZenonT(30) DEF DataTyped, TypeOK, ThenReturn, locals
    <2> QED BY <1>1, <1>2, <2>1, <2>2, QuietInv DEF ThenReturn, HandlerEnds, locals, queues
  <1>5. CASE irqHandler[i] # Null /\ getTaskById(irqHandler[i])
    <2>1. enterHandler(irqHandler[i]) /\ ThenSchedule /\ UNCHANGED irqsWaiting
      BY <1>5 DEF irq
    <2>2. irqHandler[i] \in Thread
      BY <1>0, <1>3, <1>5 DEF TypeOK
    <2>3. type[irqHandler[i]] # "unborn"
      BY <1>5, <2>2, FoundIsBorn
    <2>4. /\ OnlyBlocks
          /\ waitManager' \in [Thread -> Waiter]
          /\ interruptionInfo' \in [Thread -> [waiter : Waiter, frame : Frame \cup {Null}]]
      BY <2>1, <2>2, <2>3, EnterBlocks
    <2>5. DataTyped'
      BY <1>0, <1>2, <2>1, <2>4 DEF DataTyped, TypeOK, ThenSchedule
    <2> QED BY <1>1, <1>2, <2>1, <2>4, <2>5, HandlerStep DEF ThenSchedule, HandlerEnds, AtSameCore
  <1>6. CASE irqHandler[i] # Null /\ ~getTaskById(irqHandler[i])
    <2>1. ThenReturn /\ UNCHANGED <<queues, waitManager, interruptionInfo, irqsWaiting>>
      BY <1>6 DEF irq
    <2>2. DataTyped'
      BY <1>0, <1>2, <2>1 DEF DataTyped, TypeOK, ThenReturn, locals
    <2> QED BY <1>1, <1>2, <2>1, <2>2, QuietInv DEF ThenReturn, HandlerEnds, locals, queues
  <1> QED BY <1>4, <1>5, <1>6

(* A call that blocks its thread preserves the invariant. *)
LEMMA BlockInv ==
    ASSUME IInv, NEW c \in Core, handlingLock = c, phase = "handle", handled \in Thread,
           NEW w \in Waiter, Block(c, w), UNCHANGED tables
    PROVE  Preserved
  <1>1. wait(handled, w) /\ ThenSchedule /\ AtSameCore
        /\ UNCHANGED <<alive, birth, interruptionInfo, frame, stale>>
    BY DEF Block
  <1>2. OnlyBlocks /\ waitManager' \in [Thread -> Waiter]
    BY <1>1, HandledIsBorn, WaitBlocks
  <1>3. DataTyped'
    BY <1>1, <1>2 DEF IInv, DataTyped, TypeOK, ThenSchedule, tables
  <1> QED BY <1>1, <1>2, <1>3, HandlerStep DEF ThenSchedule, HandlerEnds, AtSameCore

(* sleep, join and waitForIrq are such calls. *)
LEMMA BlockingInv ==
    ASSUME IInv, NEW c \in Core, sleep(c) \/ join(c) \/ waitForIrq(c)
    PROVE  Preserved
  <1>0. TypeOK /\ HandlerInv
    BY DEF IInv
  <1>a. {"sleep", "join", "waitForIrq"} \cap HardwareOps = {}
    BY DEF HardwareOps
  <1>1. CASE sleep(c)
    <2>1. Handling(c, "sleep") /\ handlingLock = c /\ phase = "handle"
      BY <1>1 DEF sleep, Handling
    <2>2. handled \in Thread /\ frame[handled] \in Request /\ frame[handled][1] = "sleep"
      BY <1>0, <1>a, <2>1, HandledRequest
    <2>3. frame[handled] \in Waiter
      BY <2>2, RequestArguments DEF Waiter
    <2>4. CASE frame[handled][2] > 0
      <3>1. Block(c, frame[handled]) /\ UNCHANGED tables
        BY <1>1, <2>4 DEF sleep
      <3> QED BY <2>1, <2>2, <2>3, <3>1, BlockInv
    <2>5. CASE ~(frame[handled][2] > 0)
      <3>1. ThenSchedule /\ AtSameCore /\ UNCHANGED <<queues, threads, tables>>
        BY <1>1, <2>5 DEF sleep
      <3>2. DataTyped'
        BY <1>0, <3>1 DEF DataTyped, TypeOK, threads, tables, ThenSchedule
      <3> QED BY <2>1, <3>1, <3>2, QuietInv DEF threads, ThenSchedule, HandlerEnds
    <2> QED BY <2>4, <2>5
  <1>2. CASE join(c)
    <2>1. Handling(c, "join") /\ handlingLock = c /\ phase = "handle"
          /\ Block(c, frame[handled]) /\ UNCHANGED tables
      BY <1>2 DEF join, Handling
    <2>2. handled \in Thread /\ frame[handled] \in Request /\ frame[handled][1] = "join"
      BY <1>0, <1>a, <2>1, HandledRequest
    <2>3. frame[handled] \in Waiter
      BY <2>2, RequestArguments DEF Waiter
    <2> QED BY <2>1, <2>2, <2>3, BlockInv
  <1>3. CASE waitForIrq(c)
    <2> DEFINE i == frame[handled][2]
    <2>1. Handling(c, "waitForIrq") /\ handlingLock = c /\ phase = "handle"
      BY <1>3 DEF waitForIrq, Handling
    <2>2. handled \in Thread /\ frame[handled] \in Request /\ frame[handled][1] = "waitForIrq"
      BY <1>0, <1>a, <2>1, HandledRequest
    <2>3. i \in Irq
      BY <2>2, RequestArguments
    <2>4. CASE irqsWaiting[i]
      <3>1. irqsWaiting' = [irqsWaiting EXCEPT ![i] = FALSE] /\ ThenReturn /\ AtSameCore
            /\ UNCHANGED <<queues, threads, irqHandler, signalHandler>>
        BY <1>3, <2>4 DEF waitForIrq
      <3>2. DataTyped'
        BY <1>0, <2>3, <3>1 DEF DataTyped, TypeOK, threads, ThenReturn, locals
      <3> QED BY <2>1, <3>1, <3>2, QuietInv DEF threads, ThenReturn, HandlerEnds, locals, queues
    <2>5. CASE ~irqsWaiting[i]
      <3>1. Block(c, <<"irq", i>>) /\ UNCHANGED tables
        BY <1>3, <2>5 DEF waitForIrq
      <3>2. <<"irq", i>> \in Waiter
        BY <2>3 DEF Waiter
      <3> QED BY <2>1, <2>2, <3>1, <3>2, BlockInv, SMT, ZenonT(30), SMTT(60)
    <2> QED BY <2>4, <2>5
  <1> QED BY <1>1, <1>2, <1>3

(* callVm86 waiting for its thread preserves the invariant. *)
LEMMA CallVm86WaitInv ==
    ASSUME IInv, NEW c \in Core, callVm86Wait(c)
    PROVE  Preserved
  <1>0. TypeOK /\ handlingLock = c /\ phase = "vm86" /\ handled \in Thread /\ reaping \in Thread
    BY DEF IInv, HandlerInv, callVm86Wait
  <1>1. wait(handled, <<"vm86", reaping>>) /\ AtSameCore
        /\ phase' = "schedule" /\ resume' = "return" /\ reaping' = Null
        /\ UNCHANGED <<handled, runningEntry, alive, birth, interruptionInfo, frame, stale, tables>>
    BY DEF callVm86Wait
  <1>2. <<"vm86", reaping>> \in Waiter
    BY <1>0 DEF Waiter
  <1>3. OnlyBlocks /\ waitManager' \in [Thread -> Waiter]
    BY <1>0, <1>1, <1>2, HandledIsBorn, WaitBlocks
  <1>4. DataTyped'
    BY <1>0, <1>1, <1>3 DEF DataTyped, TypeOK, tables
  <1> QED BY <1>0, <1>1, <1>3, <1>4, HandlerStep DEF HandlerEnds, AtSameCore

(* Thread::raiseSignal on a thread that exists. *)
LEMMA SignalBlocks ==
    ASSUME IInv, NEW t \in Thread, type[t] # "unborn", NEW s, raiseSignalIn(t, s),
           signalHandler[process[t]][s] \in Thread \cup {Null}
    PROVE  /\ OnlyBlocks
           /\ alive' \in [Thread -> BOOLEAN]
           /\ waitManager' \in [Thread -> Waiter]
           /\ interruptionInfo' \in [Thread -> [waiter : Waiter, frame : Frame \cup {Null}]]
  <1> DEFINE h == signalHandler[process[t]][s]
  <1>0. TypeOK
    BY DEF IInv
  <1>1. CASE h # Null /\ (h = t \/ getTaskById(h))
    <2>1. enterHandler(h) /\ UNCHANGED alive
      BY <1>1 DEF raiseSignalIn
    <2>2. h \in Thread /\ type[h] # "unborn"
      BY <1>1, FoundIsBorn
    <2> QED BY <1>0, <2>1, <2>2, EnterBlocks DEF TypeOK
  <1>2. CASE h = Null /\ s = SIGSEGV
    <2>1. /\ alive' = [alive EXCEPT ![t] = FALSE, ![process[t]] = FALSE]
          /\ UNCHANGED <<queues, waitManager, interruptionInfo>>
      BY <1>2 DEF raiseSignalIn
    <2> QED BY <1>0, <2>1, NothingBlocks, ZenonT(30) DEF TypeOK
  <1>3. CASE ~(h # Null /\ (h = t \/ getTaskById(h))) /\ ~(h = Null /\ s = SIGSEGV)
    <2>1. UNCHANGED <<queues, alive, waitManager, interruptionInfo>>
      BY <1>3 DEF raiseSignalIn
    <2> QED BY <1>0, <2>1, NothingBlocks DEF TypeOK
  <1> QED BY <1>1, <1>2, <1>3

(* The call raiseSignal preserves the invariant. *)
LEMMA RaiseSignalInv ==
    ASSUME IInv, NEW c \in Core, raiseSignal(c)
    PROVE  Preserved
  <1> DEFINE target == frame[handled][2]
             s == frame[handled][3]
  <1>0. TypeOK /\ HandlerInv
    BY DEF IInv
  <1>a. "raiseSignal" \notin HardwareOps
    BY DEF HardwareOps
  <1>1. Handling(c, "raiseSignal") /\ handlingLock = c /\ phase = "handle" /\ ThenSchedule /\ AtSameCore
        /\ UNCHANGED <<birth, frame, stale, tables>>
    BY DEF raiseSignal, Handling
  <1>2. handled \in Thread /\ frame[handled] \in Request /\ frame[handled][1] = "raiseSignal"
    BY <1>0, <1>a, <1>1, HandledRequest
  <1>3. target \in Thread /\ s \in Signal
    BY <1>2, RequestArguments
  <1>4. /\ OnlyBlocks
        /\ alive' \in [Thread -> BOOLEAN]
        /\ waitManager' \in [Thread -> Waiter]
        /\ interruptionInfo' \in [Thread -> [waiter : Waiter, frame : Frame \cup {Null}]]
    <2>1. CASE target \in {handled, process[handled]} \/ getTaskById(target)
      <3>1. raiseSignalIn(target, s)
        BY <2>1 DEF raiseSignal
      <3>2. type[target] # "unborn"
        BY <1>1, <1>2, <1>3, <2>1, HandledIsBorn, FoundIsBorn
      <3>3. signalHandler[process[target]][s] \in Thread \cup {Null}
        BY <1>0, <1>3 DEF TypeOK
      <3> QED BY <1>3, <3>1, <3>2, <3>3, SignalBlocks
    <2>2. CASE ~(target \in {handled, process[handled]} \/ getTaskById(target))
      <3>1. UNCHANGED <<queues, alive, waitManager, interruptionInfo>>
        BY <2>2 DEF raiseSignal
      <3> QED BY <1>0, <3>1, NothingBlocks DEF TypeOK
    <2> QED BY <2>1, <2>2
  <1>5. DataTyped'
    BY <1>0, <1>1, <1>4 DEF DataTyped, TypeOK, tables, ThenSchedule
  <1> QED BY <1>1, <1>4, <1>5, HandlerStep DEF ThenSchedule, HandlerEnds, AtSameCore

(* A page fault, resolved or not, preserves the invariant. *)
LEMMA PageFaultInv ==
    ASSUME IInv, NEW c \in Core, handlePageFault(c)
    PROVE  Preserved
  <1>0. TypeOK /\ HandlerInv
    BY DEF IInv
  <1>1. Handling(c, "pageFault") /\ handlingLock = c /\ phase = "handle" /\ AtSameCore
        /\ UNCHANGED <<birth, frame, stale, tables>>
    BY DEF handlePageFault, Handling
  <1>2. CASE ThenReturn /\ UNCHANGED <<queues, alive, waitManager, interruptionInfo>>
    <2>1. UNCHANGED <<queues, threads, tables, handled, runningEntry, reaping>> /\ HandlerEnds
      BY <1>1, <1>2 DEF ThenReturn, HandlerEnds, threads, locals, queues
    <2>2. DataTyped'
      BY <1>0, <2>1 DEF TypeOK, DataTyped, threads, tables
    <2> QED BY <1>1, <2>1, <2>2, QuietInv DEF threads
  <1>3. CASE ThenSchedule /\ raiseSignalIn(handled, SIGSEGV)
    <2>a. "pageFault" \notin HardwareOps
      BY DEF HardwareOps
    <2>2. handled \in Thread
      BY <1>0, <1>1, <2>a, HandledRequest
    <2>3. type[handled] # "unborn"
      BY <1>1, <2>2, HandledIsBorn
    <2>4. signalHandler[process[handled]][SIGSEGV] \in Thread \cup {Null}
      BY <1>0, <2>2, SignalAssumption DEF TypeOK
    <2>5. /\ OnlyBlocks
          /\ alive' \in [Thread -> BOOLEAN]
          /\ waitManager' \in [Thread -> Waiter]
          /\ interruptionInfo' \in [Thread -> [waiter : Waiter, frame : Frame \cup {Null}]]
      BY <1>1, <1>3, <2>2, <2>3, <2>4, SignalBlocks
    <2>6. DataTyped'
      BY <1>0, <1>1, <1>3, <2>5 DEF DataTyped, TypeOK, tables, ThenSchedule
    <2> QED BY <1>1, <1>3, <2>5, <2>6, HandlerStep DEF ThenSchedule, HandlerEnds, AtSameCore
  <1> QED BY <1>2, <1>3 DEF handlePageFault

(* Coming back from a handler preserves the invariant. *)
LEMMA RestoreInv ==
    ASSUME IInv, NEW c \in Core, restoreInterruptedState(c)
    PROVE  Preserved
  <1>0. TypeOK /\ HandlerInv
    BY DEF IInv
  <1>a. "restoreInterruptedState" \notin HardwareOps
    BY SMT, ZenonT(30), SMTT(60) DEF HardwareOps
  <1>1. Handling(c, "restoreInterruptedState") /\ handlingLock = c /\ phase = "handle"
        /\ AtSameCore /\ UNCHANGED tables
    BY DEF restoreInterruptedState, Handling
  <1>2. handled \in Thread
    BY <1>0, <1>a, <1>1, HandledRequest
  <1>3. type[handled] # "unborn" /\ Context \ Thread \subseteq Context \ {handled}
    BY <1>1, <1>2, HandledIsBorn
  <1>4. CASE ~Interrupted(handled)
    <2>1. phase' = "hang" /\ UNCHANGED <<queues, threads, locals>>
      BY <1>4 DEF restoreInterruptedState
    <2>2. DataTyped'
      BY <1>0, <1>1, <2>1 DEF DataTyped, TypeOK, threads, tables, locals
    <2> QED BY <1>1, <2>1, <2>2, QuietInv DEF threads, locals, HandlerEnds
  <1>5. CASE Interrupted(handled)
    <2> DEFINE info == interruptionInfo[handled]
    <2>1. /\ wait(handled, info.waiter)
          /\ frame' = [frame EXCEPT ![handled] = info.frame]
          /\ interruptionInfo' = [interruptionInfo EXCEPT ![handled] = NoInfo]
          /\ ThenSchedule
          /\ UNCHANGED <<alive, birth, stale>>
      BY <1>5 DEF restoreInterruptedState
    <2>2. info.waiter \in Waiter /\ info.frame \in Frame
      BY <1>0, <1>2, <1>5 DEF TypeOK, Interrupted
    <2> HIDE DEF info
    <2>3. OnlyBlocks /\ waitManager' \in [Thread -> Waiter]
      BY <1>2, <1>3, <2>1, <2>2, WaitBlocks, SMT, ZenonT(30), SMTT(60)
    <2>4. NoInfo \in [waiter : Waiter, frame : Frame \cup {Null}]
      BY Zenon DEF NoInfo, Waiter
    <2>5. DataTyped'
      BY <1>0, <1>1, <1>2, <2>1, <2>2, <2>3, <2>4, ZenonT(30) DEF DataTyped, TypeOK, tables, ThenSchedule
    <2>6. \A e \in Context \ Thread : frame'[e] = frame[e]
      BY <1>0, <1>2, <2>1 DEF TypeOK
    <2> QED BY <1>1, <2>1, <2>3, <2>5, <2>6, HandlerStep, SMT, ZenonT(30), SMTT(60) DEF ThenSchedule, HandlerEnds, AtSameCore
  <1> QED BY <1>4, <1>5

===============================================================================
