---------------------------- MODULE PipeEndsProofs ----------------------------
(***************************************************************************)
(* The reference lists of the pipes count the descriptors of the processes,  *)
(* for any number of processes, threads, pipes and descriptors, as long as   *)
(* programs keep to CarefulPrograms.                                         *)
(***************************************************************************)
EXTENDS PipeEnds, FiniteSetTheorems, TLAPS

NextFd(f, p) == f.tables[p].nextFileDescriptor

(* The records of a state f are what their types say. *)
Shaped(f) ==
    /\ f = [tables |-> f.tables, pipes |-> f.pipes]
    /\ DOMAIN f.tables = Process
    /\ \A p \in Process :
         f.tables[p] = [nextFileDescriptor |-> NextFd(f, p), descriptors |-> Descriptors(f, p)]
    /\ \A id \in DOMAIN f.pipes :
         f.pipes[id] = [size |-> f.pipes[id].size, references |-> f.pipes[id].references]

(* Descriptors exist only in tables of live processes and refer to pipes. *)
SoundTables(f, live) ==
    \A p \in Process :
        /\ NextFd(f, p) \in Nat
        /\ DOMAIN Descriptors(f, p) \subseteq Fds
        /\ \A fd \in DOMAIN Descriptors(f, p) : Descriptors(f, p)[fd] \in DOMAIN f.pipes
        /\ p \notin live => DOMAIN Descriptors(f, p) = {}

(* A table that was not made by fork has numbers only below its next one. *)
BelowNext(f) ==
    \A p \in First : \A fd \in DOMAIN Descriptors(f, p) : fd < NextFd(f, p)

(* The references of a pipe are the descriptors that refer to it. *)
Counted(f, n) ==
    /\ DOMAIN f.pipes \subseteq 0..n - 1
    /\ \A id \in DOMAIN f.pipes :
         /\ f.pipes[id].size \in 0..Capacity
         /\ f.pipes[id].references \in [Process -> Nat]
         /\ \A p \in Process : f.pipes[id].references[p] = Cardinality(Ends(f, p, id))

(* Every pipe, but for the one that is being made, has a descriptor. *)
NoneIdle(f, new) ==
    \A id \in DOMAIN f.pipes \ new : \E p \in Process : Ends(f, p, id) # {}

Sound(f, live, n, new) ==
    /\ Shaped(f) /\ SoundTables(f, live) /\ BelowNext(f)
    /\ Counted(f, n) /\ NoneIdle(f, new)

-----------------------------------------------------------------------------
(* The sets of descriptors that are counted are finite. *)
LEMMA EndsFinite ==
  ASSUME NEW f, NEW live, SoundTables(f, live), NEW p \in Process, NEW id
  PROVE  /\ IsFiniteSet(Ends(f, p, id)) /\ Cardinality(Ends(f, p, id)) \in Nat
         /\ Cardinality(Ends(f, p, id)) = 0 <=> Ends(f, p, id) = {}
<1>1. IsFiniteSet(Fds)
  BY FS_Interval, EndsAssumption DEF Fds
<1>2. Ends(f, p, id) \in SUBSET Fds
  BY DEF Ends, SoundTables
<1>3. IsFiniteSet(Ends(f, p, id))
  BY <1>1, <1>2, FS_Subset
<1> QED
  BY <1>3, FS_CardinalityType, FS_EmptySet

(* The state g is f with descriptor k of pid made to refer to node, which    *)
(* gets a reference of pid, and with a next number.                          *)
Mapped(f, g, pid, node, k, next) ==
    /\ Shaped(g)
    /\ \A q \in Process \ {pid} : g.tables[q] = f.tables[q]
    /\ DOMAIN Descriptors(g, pid) = DOMAIN Descriptors(f, pid) \cup {k}
    /\ \A d \in DOMAIN Descriptors(g, pid) :
         Descriptors(g, pid)[d] = IF d = k THEN node ELSE Descriptors(f, pid)[d]
    /\ NextFd(g, pid) = next
    /\ DOMAIN g.pipes = DOMAIN f.pipes
    /\ \A id \in DOMAIN f.pipes :
         /\ g.pipes[id].size = f.pipes[id].size
         /\ g.pipes[id].references =
              IF id = node THEN [f.pipes[id].references EXCEPT ![pid] = @ + 1]
                           ELSE f.pipes[id].references

(* The number the next descriptor gets after one was made for fd. *)
NextAfter(f, pid, fd) == IF fd = AnyFd THEN NextFd(f, pid) + 1 ELSE NextFd(f, pid)

(* What mapFile changes: one descriptor, the next number, one reference. *)
LEMMA MapEffect ==
  ASSUME NEW f, Shaped(f), NEW pid \in Process, NEW node \in DOMAIN f.pipes, NEW fd
  PROVE  Mapped(f, mapFile(f, pid, node, fd), pid, node,
                NumberFor(f, pid, fd), NextAfter(f, pid, fd))
<1> DEFINE k == NumberFor(f, pid, fd)
           h == [f EXCEPT !.pipes = addReference(@, node, pid)]
           w == WithDescriptor(h, pid, NumberFor(h, pid, fd), node)
           g == mapFile(f, pid, node, fd)
           table == [d \in DOMAIN Descriptors(f, pid) \cup {k} |->
                       IF d = k THEN node ELSE Descriptors(f, pid)[d]]
           next == NextAfter(f, pid, fd)
<1>1. /\ h = [tables |-> f.tables, pipes |-> h.pipes]
      /\ h.pipes = [f.pipes EXCEPT ![node].references[pid] = @ + 1]
  BY DEF Shaped, addReference
<1>2. NumberFor(h, pid, fd) = k /\ Descriptors(h, pid) = Descriptors(f, pid)
  BY <1>1 DEF NumberFor, Descriptors
<1> HIDE DEF h
<1>3. w = [tables |-> [f.tables EXCEPT ![pid] = [nextFileDescriptor |-> NextFd(f, pid),
                                                descriptors |-> table]],
           pipes |-> h.pipes]
  <2>1. w = [h EXCEPT !.tables[pid].descriptors = table]
    BY <1>1, <1>2 DEF WithDescriptor, Descriptors
  <2>2. f.tables[pid] = [nextFileDescriptor |-> NextFd(f, pid), descriptors |-> Descriptors(f, pid)]
        /\ pid \in DOMAIN f.tables
    BY DEF Shaped
  <2> HIDE DEF table, w
  <2>3. [f.tables EXCEPT ![pid].descriptors = table] =
          [f.tables EXCEPT ![pid] = [nextFileDescriptor |-> NextFd(f, pid), descriptors |-> table]]
    BY <2>2
  <2> QED BY <1>1, <2>1, <2>3
<1>4. g = [tables |-> [f.tables EXCEPT ![pid] = [nextFileDescriptor |-> next,
                                                descriptors |-> table]],
           pipes |-> h.pipes]
  <2>1. g = [w EXCEPT !.tables[pid].nextFileDescriptor = IF fd = AnyFd THEN @ + 1 ELSE @]
    BY DEF mapFile, createDescriptor, h
  <2> DEFINE made == [nextFileDescriptor |-> NextFd(f, pid), descriptors |-> table]
             tables1 == [f.tables EXCEPT ![pid] = made]
  <2>2. pid \in DOMAIN f.tables
    BY DEF Shaped
  <2> HIDE DEF w, g, table
  <2>3. tables1[pid] = made /\ pid \in DOMAIN tables1
    BY <2>2
  <2>4. [tables1 EXCEPT ![pid].nextFileDescriptor = IF fd = AnyFd THEN @ + 1 ELSE @]
          = [tables1 EXCEPT ![pid] = [nextFileDescriptor |-> next, descriptors |-> table]]
    BY <2>3 DEF NextAfter
  <2>5. [tables1 EXCEPT ![pid] = [nextFileDescriptor |-> next, descriptors |-> table]]
          = [f.tables EXCEPT ![pid] = [nextFileDescriptor |-> next, descriptors |-> table]]
    BY <2>2
  <2> HIDE DEF tables1
  <2>6. w = [tables |-> tables1, pipes |-> h.pipes]
    BY <1>3 DEF tables1
  <2> QED BY <2>1, <2>4, <2>5, <2>6, Zenon
<1> HIDE DEF g, w
<1>5. /\ g.pipes = h.pipes /\ DOMAIN g.tables = Process
      /\ g.tables[pid] = [nextFileDescriptor |-> next, descriptors |-> table]
      /\ \A q \in Process \ {pid} : g.tables[q] = f.tables[q]
  BY <1>4 DEF Shaped
<1>6. /\ DOMAIN g.pipes = DOMAIN f.pipes
      /\ \A id \in DOMAIN f.pipes \ {node} : g.pipes[id] = f.pipes[id]
      /\ g.pipes[node] = [size |-> f.pipes[node].size,
                          references |-> [f.pipes[node].references EXCEPT ![pid] = @ + 1]]
  BY <1>1, <1>5 DEF Shaped
<1>7. Shaped(g)
  <2>1. g = [tables |-> g.tables, pipes |-> g.pipes]
    BY <1>4
  <2>2. \A p \in Process :
         g.tables[p] = [nextFileDescriptor |-> NextFd(g, p), descriptors |-> Descriptors(g, p)]
    BY <1>5 DEF Shaped, NextFd, Descriptors
  <2>3. \A id \in DOMAIN g.pipes :
         g.pipes[id] = [size |-> g.pipes[id].size, references |-> g.pipes[id].references]
    BY <1>6 DEF Shaped
  <2> QED BY <1>5, <2>1, <2>2, <2>3 DEF Shaped
<1>8. Descriptors(g, pid) = table /\ NextFd(g, pid) = next
  BY <1>5 DEF Descriptors, NextFd
<1> QED
  BY <1>5, <1>6, <1>7, <1>8 DEF g, Mapped

(* Storing the same node once more, as cloneInto does, changes nothing. *)
LEMMA CloneEffect ==
  ASSUME NEW f, NEW g, NEW pid \in Process, NEW node, NEW k, NEW next,
         Mapped(f, g, pid, node, k, next)
  PROVE  Mapped(f, WithDescriptor(g, pid, k, node), pid, node, k, next)
<1> DEFINE w == WithDescriptor(g, pid, k, node)
           table == [d \in DOMAIN Descriptors(g, pid) \cup {k} |->
                       IF d = k THEN node ELSE Descriptors(g, pid)[d]]
<1>1. Shaped(g)
  BY DEF Mapped
<1>2. w = [g EXCEPT !.tables[pid].descriptors = table]
  BY DEF WithDescriptor, Descriptors
<1>3. /\ DOMAIN table = DOMAIN Descriptors(g, pid)
      /\ \A d \in DOMAIN table : table[d] = Descriptors(g, pid)[d]
  BY DEF Mapped
<1> HIDE DEF table, w
<1>4. g.tables[pid] = [nextFileDescriptor |-> NextFd(g, pid), descriptors |-> Descriptors(g, pid)]
      /\ pid \in DOMAIN g.tables /\ g = [tables |-> g.tables, pipes |-> g.pipes]
  BY <1>1 DEF Shaped
<1>5. w = [tables |-> [g.tables EXCEPT ![pid].descriptors = table], pipes |-> g.pipes]
  BY <1>2, <1>4
<1>6. /\ DOMAIN w.tables = Process /\ w.pipes = g.pipes
      /\ w.tables[pid] = [nextFileDescriptor |-> NextFd(g, pid), descriptors |-> table]
      /\ \A q \in Process \ {pid} : w.tables[q] = g.tables[q]
  <2>1. DOMAIN g.tables = Process
    BY <1>1 DEF Shaped
  <2> QED BY <1>4, <1>5, <2>1
<1>7. Shaped(w)
  <2>1. \A p \in Process :
         w.tables[p] = [nextFileDescriptor |-> NextFd(w, p), descriptors |-> Descriptors(w, p)]
    BY <1>1, <1>6 DEF Shaped, NextFd, Descriptors
  <2> QED BY <1>1, <1>5, <1>6, <2>1 DEF Shaped
<1>8. Descriptors(w, pid) = table /\ NextFd(w, pid) = NextFd(g, pid)
  BY <1>6 DEF Descriptors, NextFd
<1>9. /\ DOMAIN Descriptors(w, pid) = DOMAIN Descriptors(f, pid) \cup {k}
      /\ \A d \in DOMAIN Descriptors(w, pid) :
           Descriptors(w, pid)[d] = IF d = k THEN node ELSE Descriptors(f, pid)[d]
  BY <1>3, <1>8 DEF Mapped
<1>10. /\ NextFd(w, pid) = next /\ \A q \in Process \ {pid} : w.tables[q] = f.tables[q]
       /\ DOMAIN w.pipes = DOMAIN f.pipes
       /\ \A id \in DOMAIN f.pipes :
            /\ w.pipes[id].size = f.pipes[id].size
            /\ w.pipes[id].references =
                 IF id = node THEN [f.pipes[id].references EXCEPT ![pid] = @ + 1]
                              ELSE f.pipes[id].references
  BY <1>6, <1>8 DEF Mapped
<1> QED
  BY <1>7, <1>9, <1>10 DEF Mapped, w

(* A state with one more descriptor and one more reference is sound, when the *)
(* descriptor was not there before.                                          *)
LEMMA MappedSound ==
  ASSUME NEW f, NEW g, NEW live \in SUBSET Process, NEW n, NEW new, Sound(f, live, n, new),
         NEW pid \in live, NEW node \in DOMAIN f.pipes, NEW k \in Fds, NEW next \in Nat,
         Mapped(f, g, pid, node, k, next),
         k \notin DOMAIN Descriptors(f, pid),
         NextFd(f, pid) <= next, pid \in First => k < next
  PROVE  Sound(g, live, n, new \ {node})
<1>1. /\ Shaped(f) /\ SoundTables(f, live) /\ BelowNext(f) /\ Counted(f, n) /\ NoneIdle(f, new)
  BY DEF Sound
<1>2. \A q \in Process \ {pid} :
        Descriptors(g, q) = Descriptors(f, q) /\ NextFd(g, q) = NextFd(f, q)
  BY DEF Mapped, Descriptors, NextFd
<1>3. pid \in Process /\ NextFd(g, pid) = next
      /\ DOMAIN Descriptors(g, pid) = DOMAIN Descriptors(f, pid) \cup {k}
      /\ DOMAIN g.pipes = DOMAIN f.pipes
      /\ \A d \in DOMAIN Descriptors(g, pid) :
           Descriptors(g, pid)[d] = IF d = k THEN node ELSE Descriptors(f, pid)[d]
  BY DEF Mapped
<1>4. SoundTables(g, live)
  <2> SUFFICES ASSUME NEW p \in Process
               PROVE  /\ NextFd(g, p) \in Nat
                      /\ DOMAIN Descriptors(g, p) \subseteq Fds
                      /\ \A fd \in DOMAIN Descriptors(g, p) :
                            Descriptors(g, p)[fd] \in DOMAIN g.pipes
                      /\ p \notin live => DOMAIN Descriptors(g, p) = {}
    BY DEF SoundTables
  <2>1. CASE p = pid
    BY <1>1, <1>3, <2>1 DEF SoundTables
  <2>2. CASE p # pid
    BY <1>1, <1>2, <1>3, <2>2 DEF SoundTables
  <2> QED BY <2>1, <2>2
<1>5. BelowNext(g)
  <2> SUFFICES ASSUME NEW p \in First, NEW fd \in DOMAIN Descriptors(g, p)
               PROVE  fd < NextFd(g, p)
    BY DEF BelowNext
  <2>0. p \in Process
    BY EndsAssumption
  <2>1. CASE p # pid
    BY <1>1, <1>2, <2>0, <2>1 DEF BelowNext
  <2>2. CASE p = pid /\ fd = k
    BY <1>3, <2>2
  <2>3. CASE p = pid /\ fd # k
    <3>1. fd \in DOMAIN Descriptors(f, pid) /\ fd \in Int
      BY <1>1, <1>3, <2>3, EndsAssumption DEF SoundTables, Fds
    <3>2. fd < NextFd(f, pid) /\ NextFd(f, pid) \in Nat
      BY <1>1, <1>3, <2>3, <3>1 DEF BelowNext, SoundTables
    <3> QED BY <1>3, <2>3, <3>1, <3>2
  <2> QED BY <2>1, <2>2, <2>3
<1>6. \A p \in Process : \A id :
        Ends(g, p, id) = IF p = pid /\ id = node THEN Ends(f, p, id) \cup {k} ELSE Ends(f, p, id)
  <2> SUFFICES ASSUME NEW p \in Process, NEW id
               PROVE  Ends(g, p, id) = IF p = pid /\ id = node THEN Ends(f, p, id) \cup {k}
                                                              ELSE Ends(f, p, id)
    OBVIOUS
  <2>1. CASE p # pid
    BY <1>2, <2>1 DEF Ends
  <2>2. CASE p = pid
    BY <1>3, <2>2 DEF Ends
  <2> QED BY <2>1, <2>2
<1>7. k \notin Ends(f, pid, node)
  BY DEF Ends
<1>8. Counted(g, n)
  <2> SUFFICES ASSUME NEW id \in DOMAIN f.pipes
               PROVE  /\ g.pipes[id].size \in 0..Capacity
                      /\ g.pipes[id].references \in [Process -> Nat]
                      /\ \A p \in Process :
                           g.pipes[id].references[p] = Cardinality(Ends(g, p, id))
    BY <1>1, <1>3 DEF Counted
  <2>1. /\ f.pipes[id].size \in 0..Capacity /\ f.pipes[id].references \in [Process -> Nat]
        /\ \A p \in Process : f.pipes[id].references[p] = Cardinality(Ends(f, p, id))
    BY <1>1 DEF Counted
  <2>2. /\ g.pipes[id].size = f.pipes[id].size
        /\ g.pipes[id].references =
             IF id = node THEN [f.pipes[id].references EXCEPT ![pid] = @ + 1]
                          ELSE f.pipes[id].references
    BY DEF Mapped
  <2>3. CASE id # node
    BY <1>6, <2>1, <2>2, <2>3, SMT, ZenonT(30), SMTT(60)
  <2>4. CASE id = node
    <3>1. Cardinality(Ends(f, pid, id) \cup {k}) = Cardinality(Ends(f, pid, id)) + 1
      BY <1>1, <1>3, <1>7, <2>4, EndsFinite, FS_AddElement, ZenonT(60)
    <3>2. Cardinality(Ends(f, pid, id)) \in Nat
      BY <1>1, <1>3, EndsFinite
    <3>3. Ends(g, pid, id) = Ends(f, pid, id) \cup {k}
      BY <1>3, <1>6, <2>4
    <3>4. \A p \in Process \ {pid} : Ends(g, p, id) = Ends(f, p, id)
      BY <1>6
    <3>5. /\ g.pipes[id].references \in [Process -> Nat]
          /\ g.pipes[id].references[pid] = f.pipes[id].references[pid] + 1
          /\ \A p \in Process \ {pid} : g.pipes[id].references[p] = f.pipes[id].references[p]
      BY <1>3, <2>1, <2>2, <2>4
    <3> QED BY <1>3, <2>1, <2>2, <3>1, <3>3, <3>4, <3>5, ZenonT(60)
  <2> QED BY <2>3, <2>4
<1>9. NoneIdle(g, new \ {node})
  <2> SUFFICES ASSUME NEW id \in DOMAIN f.pipes, id \notin new \ {node}
               PROVE  \E p \in Process : Ends(g, p, id) # {}
    BY <1>3 DEF NoneIdle
  <2>1. CASE id = node
    BY <1>3, <1>6, <2>1
  <2>2. CASE id # node
    <3>1. PICK p \in Process : Ends(f, p, id) # {}
      BY <1>1, <2>2 DEF NoneIdle
    <3> QED BY <1>6, <2>2, <3>1
  <2> QED BY <2>1, <2>2
<1>10. Shaped(g)
  BY DEF Mapped
<1> QED
  BY <1>4, <1>5, <1>8, <1>9, <1>10 DEF Sound

(* The state g is f without descriptor fd of pid. *)
Unmapped(f, g, pid, fd) ==
    /\ g = [tables |-> g.tables, pipes |-> g.pipes]
    /\ DOMAIN g.tables = Process
    /\ \A p \in Process :
         g.tables[p] = [nextFileDescriptor |-> NextFd(f, p), descriptors |-> Descriptors(g, p)]
    /\ \A q \in Process \ {pid} : g.tables[q] = f.tables[q]
    /\ DOMAIN Descriptors(g, pid) = DOMAIN Descriptors(f, pid) \ {fd}
    /\ \A d \in DOMAIN Descriptors(g, pid) : Descriptors(g, pid)[d] = Descriptors(f, pid)[d]

(* What unmapFile changes: one descriptor is gone, and one reference. *)
LEMMA UnmapEffect ==
  ASSUME NEW f, Shaped(f), NEW pid \in Process, NEW node, NEW fd
  PROVE  /\ Unmapped(f, unmapFile(f, pid, node, fd), pid, fd)
         /\ unmapFile(f, pid, node, fd).pipes = removeReference(f.pipes, node, pid)
<1> DEFINE g == unmapFile(f, pid, node, fd)
           table == Restrict(Descriptors(f, pid), DOMAIN Descriptors(f, pid) \ {fd})
           ps == removeReference(f.pipes, node, pid)
<1>1. /\ f.tables[pid] = [nextFileDescriptor |-> NextFd(f, pid), descriptors |-> Descriptors(f, pid)]
      /\ DOMAIN f.tables = Process /\ f = [tables |-> f.tables, pipes |-> f.pipes]
  BY DEF Shaped
<1>2. g = [f EXCEPT !.pipes = ps, !.tables[pid].descriptors = table]
  BY <1>1 DEF unmapFile, Descriptors
<1> HIDE DEF table, ps
<1>3. [f.tables EXCEPT ![pid].descriptors = table] =
        [f.tables EXCEPT ![pid] = [nextFileDescriptor |-> NextFd(f, pid), descriptors |-> table]]
  BY <1>1
<1>4. g = [tables |-> [f.tables EXCEPT ![pid] =
                         [nextFileDescriptor |-> NextFd(f, pid), descriptors |-> table]],
           pipes |-> ps]
  BY <1>1, <1>2, <1>3, ZenonT(60)
<1> HIDE DEF g
<1>5. /\ g = [tables |-> g.tables, pipes |-> g.pipes] /\ DOMAIN g.tables = Process
      /\ g.tables[pid] = [nextFileDescriptor |-> NextFd(f, pid), descriptors |-> table]
      /\ \A q \in Process \ {pid} : g.tables[q] = f.tables[q]
      /\ g.pipes = ps
  BY <1>1, <1>4
<1>6. Descriptors(g, pid) = table
  BY <1>5 DEF Descriptors
<1>7. \A q \in Process \ {pid} :
        g.tables[q] = [nextFileDescriptor |-> NextFd(f, q), descriptors |-> Descriptors(g, q)]
  BY <1>5 DEF Shaped, Descriptors
<1>8. \A p \in Process :
        g.tables[p] = [nextFileDescriptor |-> NextFd(f, p), descriptors |-> Descriptors(g, p)]
  BY <1>5, <1>6, <1>7
<1>9. /\ DOMAIN table = DOMAIN Descriptors(f, pid) \ {fd}
      /\ \A d \in DOMAIN table : table[d] = Descriptors(f, pid)[d]
  BY DEF table, Restrict
<1> QED
  BY <1>5, <1>6, <1>8, <1>9 DEF g, ps, Unmapped

(* Closing one descriptor with its reference keeps the state sound; the pipe  *)
(* goes exactly when that was the last descriptor of any process.            *)
LEMMA UnmapSound ==
  ASSUME NEW f, NEW live \in SUBSET Process, NEW n, Sound(f, live, n, {}),
         NEW pid \in live, NEW fd \in DOMAIN Descriptors(f, pid)
  PROVE  Sound(unmapFile(f, pid, Descriptors(f, pid)[fd], fd), live, n, {})
<1> DEFINE node == Descriptors(f, pid)[fd]
           g == unmapFile(f, pid, node, fd)
           references == Fewer(f.pipes[node].references, pid, 1)
<1>1. /\ Shaped(f) /\ SoundTables(f, live) /\ BelowNext(f) /\ Counted(f, n) /\ NoneIdle(f, {})
      /\ pid \in Process /\ node \in DOMAIN f.pipes
  BY DEF Sound, SoundTables
<1> SUFFICES Sound(g, live, n, {})
  BY DEF g, node
<1> HIDE DEF node, g, references
<1>0. Unmapped(f, g, pid, fd) /\ g.pipes = removeReference(f.pipes, node, pid)
  BY <1>1, UnmapEffect DEF g
<1>2. /\ \A q \in Process \ {pid} : g.tables[q] = f.tables[q]
      /\ DOMAIN Descriptors(g, pid) = DOMAIN Descriptors(f, pid) \ {fd}
      /\ \A d \in DOMAIN Descriptors(g, pid) : Descriptors(g, pid)[d] = Descriptors(f, pid)[d]
  BY <1>0 DEF Unmapped
<1>3. \A p \in Process : NextFd(g, p) = NextFd(f, p)
  <2> SUFFICES ASSUME NEW p \in Process PROVE NextFd(g, p) = NextFd(f, p)
    OBVIOUS
  <2>1. g.tables[p] = [nextFileDescriptor |-> NextFd(f, p), descriptors |-> Descriptors(g, p)]
    BY <1>0 DEF Unmapped
  <2>2. g.tables[p].nextFileDescriptor = NextFd(f, p)
    BY <2>1
  <2> QED BY <2>2 DEF NextFd
<1>4. \A q \in Process \ {pid} : Descriptors(g, q) = Descriptors(f, q)
  BY <1>2 DEF Descriptors
<1>5. \A p \in Process : \A id :
        Ends(g, p, id) = IF p = pid /\ id = node THEN Ends(f, p, id) \ {fd} ELSE Ends(f, p, id)
  <2> SUFFICES ASSUME NEW p \in Process, NEW id
               PROVE  Ends(g, p, id) = IF p = pid /\ id = node THEN Ends(f, p, id) \ {fd}
                                                              ELSE Ends(f, p, id)
    OBVIOUS
  <2>1. CASE p # pid
    BY <1>4, <2>1 DEF Ends
  <2>2. CASE p = pid
    BY <1>2, <2>2 DEF Ends, node
  <2> QED BY <2>1, <2>2
<1>6. /\ f.pipes[node].references \in [Process -> Nat]
      /\ \A p \in Process : f.pipes[node].references[p] = Cardinality(Ends(f, p, node))
  BY <1>1 DEF Counted
<1>7. /\ fd \in Ends(f, pid, node)
      /\ Cardinality(Ends(f, pid, node)) \in Nat \ {0}
      /\ Cardinality(Ends(g, pid, node)) = Cardinality(Ends(f, pid, node)) - 1
  <2>1. fd \in Ends(f, pid, node)
    BY DEF Ends, node
  <2>2. IsFiniteSet(Ends(f, pid, node)) /\ Cardinality(Ends(f, pid, node)) \in Nat \ {0}
    BY <1>1, <2>1, EndsFinite
  <2>3. Cardinality(Ends(f, pid, node) \ {fd}) = Cardinality(Ends(f, pid, node)) - 1
    BY <2>1, <2>2, FS_RemoveElement, ZenonT(60)
  <2> QED BY <1>1, <1>5, <2>1, <2>2, <2>3, Zenon
<1>8. /\ references \in [Process -> Nat]
      /\ \A p \in Process : references[p] = Cardinality(Ends(g, p, node))
  <2>1. /\ references \in [Process -> Nat]
        /\ references[pid] = f.pipes[node].references[pid] - 1
        /\ \A p \in Process \ {pid} : references[p] = f.pipes[node].references[p]
    BY <1>1, <1>6, <1>7 DEF references, Fewer
  <2>2. \A p \in Process \ {pid} : Ends(g, p, node) = Ends(f, p, node)
    BY <1>5
  <2> QED BY <1>1, <1>6, <1>7, <2>1, <2>2
<1>9. /\ \A p \in Process : NextFd(g, p) \in Nat /\ DOMAIN Descriptors(g, p) \subseteq Fds
                            /\ (p \notin live => DOMAIN Descriptors(g, p) = {})
      /\ \A p \in Process : DOMAIN Descriptors(g, p) \subseteq DOMAIN Descriptors(f, p)
      /\ \A p \in Process : \A d \in DOMAIN Descriptors(g, p) :
           Descriptors(g, p)[d] = Descriptors(f, p)[d]
  BY <1>1, <1>2, <1>3, <1>4 DEF SoundTables
<1>10. BelowNext(g)
  BY <1>1, <1>3, <1>9, EndsAssumption DEF BelowNext
<1>11. \A p \in Process : IsFiniteSet(Ends(g, p, node))
                          /\ (Cardinality(Ends(g, p, node)) = 0 <=> Ends(g, p, node) = {})
  <2> SUFFICES ASSUME NEW p \in Process
               PROVE  IsFiniteSet(Ends(g, p, node))
                      /\ (Cardinality(Ends(g, p, node)) = 0 <=> Ends(g, p, node) = {})
    OBVIOUS
  <2>1. Ends(g, p, node) \in SUBSET Ends(f, p, node) /\ IsFiniteSet(Ends(f, p, node))
    BY <1>1, <1>5, EndsFinite
  <2> QED BY <2>1, FS_Subset, FS_EmptySet
<1>12. Held(references) <=> \E p \in Process : Ends(g, p, node) # {}
  BY <1>8, <1>11 DEF Held
<1>13. CASE Held(references)
  <2>1. g.pipes = [f.pipes EXCEPT ![node].references = references]
    BY <1>0, <1>1, <1>13 DEF removeReference, references
  <2>2. f.pipes[node] = [size |-> f.pipes[node].size, references |-> f.pipes[node].references]
    BY <1>1 DEF Shaped
  <2>3. /\ DOMAIN g.pipes = DOMAIN f.pipes
        /\ \A id \in DOMAIN f.pipes \ {node} : g.pipes[id] = f.pipes[id]
        /\ g.pipes[node] = [size |-> f.pipes[node].size, references |-> references]
    BY <1>1, <2>1, <2>2
  <2>4. Shaped(g)
    <3>1. \A id \in DOMAIN g.pipes :
            g.pipes[id] = [size |-> g.pipes[id].size, references |-> g.pipes[id].references]
      BY <1>1, <2>3 DEF Shaped
    <3> QED BY <1>0, <1>3, <3>1 DEF Shaped, Unmapped
  <2>5. SoundTables(g, live)
    BY <1>1, <1>9, <2>3 DEF SoundTables
  <2>6. Counted(g, n)
    <3> SUFFICES ASSUME NEW id \in DOMAIN f.pipes
                 PROVE  /\ g.pipes[id].size \in 0..Capacity
                        /\ g.pipes[id].references \in [Process -> Nat]
                        /\ \A p \in Process :
                             g.pipes[id].references[p] = Cardinality(Ends(g, p, id))
      BY <1>1, <2>3, SMT, ZenonT(30), SMTT(60) DEF Counted
    <3>1. CASE id = node
      BY <1>1, <1>8, <2>3, <3>1 DEF Counted
    <3>2. CASE id # node
      BY <1>1, <1>5, <2>3, <3>2 DEF Counted
    <3> QED BY <3>1, <3>2, SMT, ZenonT(30), SMTT(60)
  <2>7. NoneIdle(g, {})
    BY <1>1, <1>5, <1>12, <1>13, <2>3 DEF NoneIdle
  <2> QED BY <1>10, <2>4, <2>5, <2>6, <2>7 DEF Sound
<1>14. CASE ~Held(references)
  <2>1. g.pipes = Restrict(f.pipes, DOMAIN f.pipes \ {node})
    BY <1>0, <1>1, <1>14 DEF removeReference, references
  <2>2. /\ DOMAIN g.pipes = DOMAIN f.pipes \ {node}
        /\ \A id \in DOMAIN g.pipes : g.pipes[id] = f.pipes[id]
    BY <2>1 DEF Restrict
  <2>3. \A p \in Process : Ends(g, p, node) = {}
    BY <1>12, <1>14
  <2>4. Shaped(g)
    <3>1. \A id \in DOMAIN g.pipes :
            g.pipes[id] = [size |-> g.pipes[id].size, references |-> g.pipes[id].references]
      BY <1>1, <2>2 DEF Shaped
    <3> QED BY <1>0, <1>3, <3>1 DEF Shaped, Unmapped
  <2>5. SoundTables(g, live)
    <3>1. \A p \in Process : \A d \in DOMAIN Descriptors(g, p) :
            Descriptors(g, p)[d] \in DOMAIN f.pipes
      BY <1>1, <1>9 DEF SoundTables
    <3>2. \A p \in Process : \A d \in DOMAIN Descriptors(g, p) : Descriptors(g, p)[d] # node
      BY <2>3 DEF Ends
    <3> QED BY <1>9, <2>2, <3>1, <3>2 DEF SoundTables
  <2>6. Counted(g, n)
    BY <1>1, <1>5, <2>2 DEF Counted
  <2>7. NoneIdle(g, {})
    BY <1>1, <1>5, <2>2 DEF NoneIdle
  <2> QED BY <1>10, <2>4, <2>5, <2>6, <2>7 DEF Sound
<1> QED
  BY <1>13, <1>14

(* processForked keeps the state sound: the child has no descriptors before. *)
LEMMA ForkSound ==
  ASSUME NEW f, NEW live \in SUBSET Process, NEW n, Sound(f, live, n, {}),
         NEW source \in live, NEW child \in Process, child \notin live, child \notin First
  PROVE  Sound(processForked(f, source, child), live \cup {child}, n, {})
<1> DEFINE g == processForked(f, source, child)
<1> SUFFICES Sound(g, live \cup {child}, n, {})
  OBVIOUS
<1>1. /\ Shaped(f) /\ SoundTables(f, live) /\ BelowNext(f) /\ Counted(f, n) /\ NoneIdle(f, {})
      /\ source \in Process /\ source # child
  BY DEF Sound
<1>2. /\ f.tables[child] = [nextFileDescriptor |-> NextFd(f, child),
                            descriptors |-> Descriptors(f, child)]
      /\ DOMAIN f.tables = Process
  BY <1>1 DEF Shaped
<1>3. /\ g = [tables |-> g.tables, pipes |-> g.pipes]
      /\ g.tables = [f.tables EXCEPT ![child].descriptors = Descriptors(f, source)]
      /\ g.pipes = [id \in DOMAIN f.pipes |-> [f.pipes[id] EXCEPT
                      !.references[child] = @ + Cardinality(Ends(f, source, id))]]
  BY DEF processForked
<1> HIDE DEF g
<1>4. /\ DOMAIN g.tables = Process
      /\ g.tables[child] = [nextFileDescriptor |-> NextFd(f, child),
                            descriptors |-> Descriptors(f, source)]
      /\ \A q \in Process \ {child} : g.tables[q] = f.tables[q]
  BY <1>2, <1>3
<1>5. /\ Descriptors(g, child) = Descriptors(f, source) /\ NextFd(g, child) = NextFd(f, child)
      /\ \A q \in Process \ {child} :
           Descriptors(g, q) = Descriptors(f, q) /\ NextFd(g, q) = NextFd(f, q)
  BY <1>4 DEF Descriptors, NextFd
<1>6. /\ \A id : Ends(g, child, id) = Ends(f, source, id)
      /\ \A id : \A q \in Process \ {child} : Ends(g, q, id) = Ends(f, q, id)
      /\ \A id : Ends(f, child, id) = {}
  BY <1>1, <1>5 DEF Ends, SoundTables
<1>7. DOMAIN g.pipes = DOMAIN f.pipes
  BY <1>3, SMT, ZenonT(30), SMTT(60)
<1>8. ASSUME NEW id \in DOMAIN f.pipes
      PROVE  /\ g.pipes[id] = [size |-> g.pipes[id].size, references |-> g.pipes[id].references]
             /\ g.pipes[id].size = f.pipes[id].size
             /\ g.pipes[id].references \in [Process -> Nat]
             /\ \A p \in Process : g.pipes[id].references[p] = Cardinality(Ends(g, p, id))
  <2> DEFINE c == Cardinality(Ends(f, source, id))
  <2>1. f.pipes[id] = [size |-> f.pipes[id].size, references |-> f.pipes[id].references]
    BY <1>1 DEF Shaped
  <2>2. /\ f.pipes[id].references \in [Process -> Nat]
        /\ \A p \in Process : f.pipes[id].references[p] = Cardinality(Ends(f, p, id))
    BY <1>1 DEF Counted
  <2>3. f.pipes[id].references[child] = 0
    BY <1>6, <2>2, FS_EmptySet, ZenonT(60)
  <2>4. c \in Nat
    BY <1>1, EndsFinite
  <2> HIDE DEF c
  <2>5. g.pipes[id] = [f.pipes[id] EXCEPT !.references[child] = @ + c]
    BY <1>3 DEF c
  <2>6. g.pipes[id] = [size |-> f.pipes[id].size,
                       references |-> [f.pipes[id].references EXCEPT ![child] = @ + c]]
    BY <2>1, <2>5
  <2>7. /\ g.pipes[id].references \in [Process -> Nat]
        /\ g.pipes[id].references[child] = c
        /\ \A q \in Process \ {child} : g.pipes[id].references[q] = f.pipes[id].references[q]
    BY <2>2, <2>3, <2>4, <2>6
  <2>8. \A p \in Process : g.pipes[id].references[p] = Cardinality(Ends(g, p, id))
    BY <1>6, <2>2, <2>7, SMT, ZenonT(30), SMTT(60) DEF c
  <2> QED BY <2>6, <2>7, <2>8
<1>9. Shaped(g)
  <2>1. \A p \in Process :
         g.tables[p] = [nextFileDescriptor |-> NextFd(g, p), descriptors |-> Descriptors(g, p)]
    BY <1>1, <1>4, <1>5 DEF Shaped
  <2> QED BY <1>3, <1>4, <1>7, <1>8, <2>1, ZenonT(60) DEF Shaped
<1>10. SoundTables(g, live \cup {child})
  <2> SUFFICES ASSUME NEW p \in Process
               PROVE  /\ NextFd(g, p) \in Nat
                      /\ DOMAIN Descriptors(g, p) \subseteq Fds
                      /\ \A fd \in DOMAIN Descriptors(g, p) :
                            Descriptors(g, p)[fd] \in DOMAIN g.pipes
                      /\ p \notin live \cup {child} => DOMAIN Descriptors(g, p) = {}
    BY DEF SoundTables
  <2>1. CASE p = child
    BY <1>1, <1>5, <1>7, <2>1 DEF SoundTables
  <2>2. CASE p # child
    BY <1>1, <1>5, <1>7, <2>2 DEF SoundTables
  <2> QED BY <2>1, <2>2
<1>11. BelowNext(g)
  BY <1>1, <1>5, EndsAssumption DEF BelowNext
<1>12. Counted(g, n)
  BY <1>1, <1>7, <1>8, ZenonT(60) DEF Counted
<1>13. NoneIdle(g, {})
  <2> SUFFICES ASSUME NEW id \in DOMAIN f.pipes
               PROVE  \E p \in Process : Ends(g, p, id) # {}
    BY <1>7 DEF NoneIdle
  <2>1. PICK p \in Process : Ends(f, p, id) # {}
    BY <1>1 DEF NoneIdle
  <2> QED BY <1>6, <2>1
<1> QED
  BY <1>9, <1>10, <1>11, <1>12, <1>13 DEF Sound

(* processClosed keeps the state sound, and with the process its descriptors *)
(* and their references go, and the pipes no other process holds.            *)
LEMMA CloseSound ==
  ASSUME NEW f, NEW live \in SUBSET Process, NEW n, Sound(f, live, n, {}), NEW pid \in live
  PROVE  Sound(processClosed(f, pid), live \ {pid}, n, {})
<1> DEFINE g == processClosed(f, pid)
           left(id) == Fewer(f.pipes[id].references, pid, Cardinality(Ends(f, pid, id)))
           gone == {id \in DOMAIN f.pipes : Ends(f, pid, id) # {} /\ ~Held(left(id))}
<1> SUFFICES Sound(g, live \ {pid}, n, {})
  OBVIOUS
<1>1. /\ Shaped(f) /\ SoundTables(f, live) /\ BelowNext(f) /\ Counted(f, n) /\ NoneIdle(f, {})
      /\ pid \in Process
  BY DEF Sound
<1>2. /\ g = [tables |-> g.tables, pipes |-> g.pipes]
      /\ g.tables = [f.tables EXCEPT ![pid] = NewTable]
      /\ g.pipes = [id \in DOMAIN f.pipes \ gone |-> [f.pipes[id] EXCEPT !.references = left(id)]]
  BY DEF processClosed
<1> HIDE DEF g, gone, left
<1>3. DOMAIN f.tables = Process
  BY <1>1 DEF Shaped
<1>4. /\ DOMAIN g.tables = Process /\ g.tables[pid] = NewTable
      /\ \A q \in Process \ {pid} : g.tables[q] = f.tables[q]
  BY <1>1, <1>2, <1>3
<1>5. /\ NextFd(g, pid) = 3 /\ Descriptors(g, pid) = << >>
      /\ \A q \in Process \ {pid} :
           Descriptors(g, q) = Descriptors(f, q) /\ NextFd(g, q) = NextFd(f, q)
  BY <1>4 DEF Descriptors, NextFd, NewTable
<1>6. DOMAIN Descriptors(g, pid) = {}
  BY <1>5
<1>7. /\ \A id : Ends(g, pid, id) = {}
      /\ \A id : \A q \in Process \ {pid} : Ends(g, q, id) = Ends(f, q, id)
  BY <1>5, <1>6 DEF Ends
<1>8. ASSUME NEW id \in DOMAIN f.pipes
      PROVE  /\ left(id) \in [Process -> Nat]
             /\ \A p \in Process : left(id)[p] = Cardinality(Ends(g, p, id))
             /\ Held(left(id)) <=> \E q \in Process \ {pid} : Ends(f, q, id) # {}
  <2> DEFINE c == Cardinality(Ends(f, pid, id))
  <2>1. /\ f.pipes[id].references \in [Process -> Nat]
        /\ \A p \in Process : f.pipes[id].references[p] = Cardinality(Ends(f, p, id))
    BY <1>1 DEF Counted
  <2>2. c \in Nat /\ f.pipes[id].references[pid] = c
    BY <1>1, <2>1
  <2> HIDE DEF c
  <2>3. left(id) = Fewer(f.pipes[id].references, pid, c)
    BY DEF left, c
  <2>4. /\ left(id) \in [Process -> Nat] /\ left(id)[pid] = 0
        /\ \A q \in Process \ {pid} : left(id)[q] = f.pipes[id].references[q]
    BY <1>1, <2>1, <2>2, <2>3 DEF Fewer
  <2>5. \A p \in Process : left(id)[p] = Cardinality(Ends(g, p, id))
    BY <1>7, <2>1, <2>4, FS_EmptySet
  <2>6. \A q \in Process \ {pid} : left(id)[q] > 0 <=> Ends(f, q, id) # {}
    <3>1. \A q \in Process \ {pid} : left(id)[q] = Cardinality(Ends(f, q, id))
      BY <2>1, <2>4
    <3>2. \A q \in Process : /\ Cardinality(Ends(f, q, id)) \in Nat
                             /\ Cardinality(Ends(f, q, id)) = 0 <=> Ends(f, q, id) = {}
      BY <1>1, EndsFinite
    <3> QED BY <3>1, <3>2
  <2>7. Held(left(id)) <=> \E q \in Process \ {pid} : Ends(f, q, id) # {}
    BY <2>4, <2>6 DEF Held
  <2> QED BY <2>4, <2>5, <2>7
<1>9. /\ DOMAIN g.pipes = DOMAIN f.pipes \ gone
      /\ \A id \in DOMAIN g.pipes : g.pipes[id] = [size |-> f.pipes[id].size, references |-> left(id)]
  <2>1. \A id \in DOMAIN g.pipes : g.pipes[id] = [f.pipes[id] EXCEPT !.references = left(id)]
    BY <1>2
  <2>2. \A id \in DOMAIN f.pipes :
          f.pipes[id] = [size |-> f.pipes[id].size, references |-> f.pipes[id].references]
    BY <1>1 DEF Shaped
  <2>3. DOMAIN g.pipes = DOMAIN f.pipes \ gone
    BY <1>2
  <2>4. ASSUME NEW id \in DOMAIN g.pipes
        PROVE  g.pipes[id] = [size |-> f.pipes[id].size, references |-> left(id)]
    <3>1. f.pipes[id] = [size |-> f.pipes[id].size, references |-> f.pipes[id].references]
      BY <2>2, <2>3
    <3> QED BY <2>1, <3>1
  <2> QED BY <2>3, <2>4
<1>10. \A id \in DOMAIN f.pipes :
         id \in gone <=> \A q \in Process \ {pid} : Ends(f, q, id) = {}
  <2> SUFFICES ASSUME NEW id \in DOMAIN f.pipes
               PROVE  id \in gone <=> \A q \in Process \ {pid} : Ends(f, q, id) = {}
    OBVIOUS
  <2>1. id \in gone <=> Ends(f, pid, id) # {} /\ ~Held(left(id))
    BY DEF gone
  <2>2. \E p \in Process : Ends(f, p, id) # {}
    BY <1>1 DEF NoneIdle
  <2> QED BY <1>1, <1>8, <2>1, <2>2
<1>11. Shaped(g)
  <2>1. \A p \in Process :
         g.tables[p] = [nextFileDescriptor |-> NextFd(g, p), descriptors |-> Descriptors(g, p)]
    BY <1>1, <1>4, <1>5 DEF Shaped, NewTable
  <2>2. ASSUME NEW id \in DOMAIN g.pipes
        PROVE  g.pipes[id] = [size |-> g.pipes[id].size, references |-> g.pipes[id].references]
    <3>1. g.pipes[id] = [size |-> f.pipes[id].size, references |-> left(id)]
      BY <1>9
    <3> QED BY <3>1
  <2> QED BY <1>2, <1>4, <2>1, <2>2, ZenonT(60) DEF Shaped
<1>12. SoundTables(g, live \ {pid})
  <2> SUFFICES ASSUME NEW p \in Process
               PROVE  /\ NextFd(g, p) \in Nat
                      /\ DOMAIN Descriptors(g, p) \subseteq Fds
                      /\ \A fd \in DOMAIN Descriptors(g, p) :
                            Descriptors(g, p)[fd] \in DOMAIN g.pipes
                      /\ p \notin live \ {pid} => DOMAIN Descriptors(g, p) = {}
    BY DEF SoundTables
  <2>1. CASE p = pid
    BY <1>5, <1>6, <2>1, SMT, ZenonT(30), SMTT(60)
  <2>2. CASE p # pid
    <3>1. \A fd \in DOMAIN Descriptors(f, p) : Descriptors(f, p)[fd] \in DOMAIN f.pipes \ gone
      <4> SUFFICES ASSUME NEW fd \in DOMAIN Descriptors(f, p)
                   PROVE  Descriptors(f, p)[fd] \in DOMAIN f.pipes \ gone
        OBVIOUS
      <4>1. fd \in Ends(f, p, Descriptors(f, p)[fd])
        BY DEF Ends
      <4>2. Descriptors(f, p)[fd] \in DOMAIN f.pipes
        BY <1>1 DEF SoundTables
      <4> QED BY <1>10, <2>2, <4>1, <4>2
    <3> QED BY <1>1, <1>5, <1>9, <2>2, <3>1 DEF SoundTables
  <2> QED BY <2>1, <2>2
<1>13. BelowNext(g)
  BY <1>1, <1>5, <1>6, EndsAssumption DEF BelowNext
<1>14. Counted(g, n)
  <2>1. DOMAIN g.pipes \subseteq 0..n - 1
    BY <1>1, <1>9, SMT, ZenonT(30), SMTT(60) DEF Counted
  <2>2. ASSUME NEW id \in DOMAIN g.pipes
        PROVE  /\ g.pipes[id].size \in 0..Capacity
               /\ g.pipes[id].references \in [Process -> Nat]
               /\ \A p \in Process : g.pipes[id].references[p] = Cardinality(Ends(g, p, id))
    <3>1. id \in DOMAIN f.pipes
      BY <1>9
    <3>2. g.pipes[id].size = f.pipes[id].size /\ g.pipes[id].references = left(id)
      <4>1. g.pipes[id] = [size |-> f.pipes[id].size, references |-> left(id)]
        BY <1>9
      <4> QED BY <4>1
    <3> QED BY <1>1, <1>8, <3>1, <3>2, SMT, ZenonT(30), SMTT(60) DEF Counted
  <2> QED BY <2>1, <2>2 DEF Counted
<1>15. NoneIdle(g, {})
  BY <1>7, <1>9, <1>10 DEF NoneIdle
<1> QED
  BY <1>11, <1>12, <1>13, <1>14, <1>15 DEF Sound

(* A state in which a pipe has another number of bytes is as sound. *)
LEMMA SizeSound ==
  ASSUME NEW f, NEW live, NEW n, Sound(f, live, n, {}),
         NEW id \in DOMAIN f.pipes, NEW s \in 0..Capacity
  PROVE  Sound([tables |-> f.tables, pipes |-> [f.pipes EXCEPT ![id].size = s]], live, n, {})
<1> DEFINE g == [tables |-> f.tables, pipes |-> [f.pipes EXCEPT ![id].size = s]]
<1> SUFFICES Sound(g, live, n, {})
  OBVIOUS
<1>1. /\ Shaped(f) /\ SoundTables(f, live) /\ BelowNext(f) /\ Counted(f, n) /\ NoneIdle(f, {})
  BY DEF Sound
<1>2. f.pipes[id] = [size |-> f.pipes[id].size, references |-> f.pipes[id].references]
  BY <1>1 DEF Shaped
<1>3. /\ g = [tables |-> g.tables, pipes |-> g.pipes] /\ g.tables = f.tables
      /\ DOMAIN g.pipes = DOMAIN f.pipes
      /\ \A i \in DOMAIN f.pipes \ {id} : g.pipes[i] = f.pipes[i]
      /\ g.pipes[id] = [size |-> s, references |-> f.pipes[id].references]
  BY <1>2
<1> HIDE DEF g
<1>4. \A p \in Process : Descriptors(g, p) = Descriptors(f, p) /\ NextFd(g, p) = NextFd(f, p)
  BY <1>3 DEF Descriptors, NextFd
<1>5. \A p \in Process : \A i : Ends(g, p, i) = Ends(f, p, i)
  BY <1>4 DEF Ends
<1>6. Shaped(g)
  <2>1. \A i \in DOMAIN g.pipes :
          g.pipes[i] = [size |-> g.pipes[i].size, references |-> g.pipes[i].references]
    BY <1>1, <1>3 DEF Shaped
  <2>2. \A p \in Process :
         g.tables[p] = [nextFileDescriptor |-> NextFd(g, p), descriptors |-> Descriptors(g, p)]
    BY <1>1, <1>3, <1>4 DEF Shaped
  <2> QED BY <1>1, <1>3, <2>1, <2>2 DEF Shaped
<1>7. SoundTables(g, live) /\ BelowNext(g)
  BY <1>1, <1>3, <1>4, EndsAssumption, SMT, ZenonT(30), SMTT(60) DEF SoundTables, BelowNext
<1>8. Counted(g, n)
  <2> SUFFICES ASSUME NEW i \in DOMAIN f.pipes
               PROVE  /\ g.pipes[i].size \in 0..Capacity
                      /\ g.pipes[i].references \in [Process -> Nat]
                      /\ \A p \in Process : g.pipes[i].references[p] = Cardinality(Ends(g, p, i))
    BY <1>1, <1>3 DEF Counted
  <2>1. g.pipes[i].references = f.pipes[i].references
    BY <1>3
  <2>2. g.pipes[i].size \in 0..Capacity
    BY <1>1, <1>3 DEF Counted
  <2> QED BY <1>1, <1>5, <2>1, <2>2 DEF Counted
<1>9. NoneIdle(g, {})
  BY <1>1, <1>3, <1>5 DEF NoneIdle
<1> QED
  BY <1>6, <1>7, <1>8, <1>9 DEF Sound

(* A pipe nobody refers to yet, with the next number, is the only idle one. *)
LEMMA NewPipeSound ==
  ASSUME NEW f, NEW live, NEW n \in Nat, Sound(f, live, n, {}),
         NEW g, Shaped(g), g.tables = f.tables,
         DOMAIN g.pipes = DOMAIN f.pipes \cup {n},
         \A id \in DOMAIN f.pipes : g.pipes[id] = f.pipes[id],
         g.pipes[n].size = 0, g.pipes[n].references = [p \in Process |-> 0]
  PROVE  Sound(g, live, n + 1, {n})
<1>1. /\ Shaped(f) /\ SoundTables(f, live) /\ BelowNext(f) /\ Counted(f, n) /\ NoneIdle(f, {})
  BY DEF Sound
<1>2. \A p \in Process : Descriptors(g, p) = Descriptors(f, p) /\ NextFd(g, p) = NextFd(f, p)
  BY DEF Descriptors, NextFd
<1>3. \A p \in Process : \A i : Ends(g, p, i) = Ends(f, p, i)
  BY <1>2, SMT, ZenonT(30), SMTT(60) DEF Ends
<1>4. SoundTables(g, live) /\ BelowNext(g)
  BY <1>1, <1>2, EndsAssumption DEF SoundTables, BelowNext
<1>5. n \notin DOMAIN f.pipes /\ DOMAIN g.pipes \subseteq 0..(n + 1) - 1
  BY <1>1 DEF Counted
<1>6. \A p \in Process : Ends(f, p, n) = {}
  BY <1>1, <1>5 DEF Ends, SoundTables
<1>7. Counted(g, n + 1)
  <2>1. ASSUME NEW i \in DOMAIN f.pipes
        PROVE  /\ g.pipes[i].size \in 0..Capacity
               /\ g.pipes[i].references \in [Process -> Nat]
               /\ \A p \in Process : g.pipes[i].references[p] = Cardinality(Ends(g, p, i))
    BY <1>1, <1>3 DEF Counted
  <2>2. /\ g.pipes[n].size \in 0..Capacity
        /\ g.pipes[n].references \in [Process -> Nat]
        /\ \A p \in Process : g.pipes[n].references[p] = Cardinality(Ends(g, p, n))
    <3>1. \A p \in Process : Cardinality(Ends(g, p, n)) = 0
      BY <1>3, <1>6, FS_EmptySet
    <3>2. 0 \in 0..Capacity
      BY EndsAssumption
    <3> QED BY <3>1, <3>2
  <2> QED BY <1>5, <2>1, <2>2 DEF Counted
<1>8. NoneIdle(g, {n})
  BY <1>1, <1>3 DEF NoneIdle
<1> QED
  BY <1>4, <1>7, <1>8 DEF Sound

(* Making a descriptor with the next number of a table that was not forked. *)
LEMMA MapNextSound ==
  ASSUME NEW f, NEW live \in SUBSET Process, NEW n, NEW new, Sound(f, live, n, new),
         NEW pid \in live, pid \in First, NEW node \in DOMAIN f.pipes,
         NextFd(f, pid) \in Fds
  PROVE  /\ Sound(mapFile(f, pid, node, AnyFd), live, n, new \ {node})
         /\ NextFd(mapFile(f, pid, node, AnyFd), pid) = NextFd(f, pid) + 1
         /\ DOMAIN mapFile(f, pid, node, AnyFd).pipes = DOMAIN f.pipes
<1> DEFINE g == mapFile(f, pid, node, AnyFd)
           k == NextFd(f, pid)
<1>1. Shaped(f) /\ pid \in Process /\ k \in Nat
  BY DEF Sound, SoundTables
<1>2. NumberFor(f, pid, AnyFd) = k /\ NextAfter(f, pid, AnyFd) = k + 1
  BY DEF NumberFor, NextAfter, NextFd
<1> HIDE DEF g, k
<1>3. Mapped(f, g, pid, node, k, k + 1)
  BY <1>1, <1>2, MapEffect DEF g
<1>4. k \notin DOMAIN Descriptors(f, pid)
  BY <1>1 DEF Sound, BelowNext, k
<1>5. /\ k \in Fds /\ k + 1 \in Nat /\ NextFd(f, pid) <= k + 1 /\ k < k + 1
  BY <1>1 DEF k
<1>6. Sound(g, live, n, new \ {node})
  BY <1>3, <1>4, <1>5, MappedSound
<1>7. NextFd(g, pid) = k + 1 /\ DOMAIN g.pipes = DOMAIN f.pipes
  BY <1>3 DEF Mapped
<1> QED
  BY <1>6, <1>7 DEF g, k

(* fsPipe keeps the state sound: its pipe ends up with two descriptors. *)
LEMMA PipeSound ==
  ASSUME NEW f, NEW live \in SUBSET Process, NEW n \in Nat, Sound(f, live, n, {}),
         NEW pid \in live, pid \in First,
         NEW g, Shaped(g), g.tables = f.tables,
         DOMAIN g.pipes = DOMAIN f.pipes \cup {n},
         \A id \in DOMAIN f.pipes : g.pipes[id] = f.pipes[id],
         g.pipes[n].size = 0, g.pipes[n].references = [p \in Process |-> 0],
         Fits(mapFile(mapFile(g, pid, n, AnyFd), pid, n, AnyFd)),
         NEW h, h = mapFile(mapFile(g, pid, n, AnyFd), pid, n, AnyFd)
  PROVE  Sound(h, live, n + 1, {})
<1> DEFINE one == mapFile(g, pid, n, AnyFd)
<1>1. Sound(g, live, n + 1, {n})
  BY NewPipeSound, SMT, ZenonT(30), SMTT(60)
<1>2. pid \in Process /\ NextFd(g, pid) \in Nat /\ Shaped(g)
  BY <1>1 DEF Sound, SoundTables
<1>3. n \in DOMAIN g.pipes
  BY SMT, ZenonT(30), SMTT(60)
<1> HIDE DEF one
<1>4. NextFd(one, pid) = NextFd(g, pid) + 1 /\ Shaped(one) /\ DOMAIN one.pipes = DOMAIN g.pipes
  <2>1. NextAfter(g, pid, AnyFd) = NextFd(g, pid) + 1
    BY SMT, ZenonT(30), SMTT(60) DEF NextAfter
  <2>2. Mapped(g, one, pid, n, NumberFor(g, pid, AnyFd), NextAfter(g, pid, AnyFd))
    BY <1>2, <1>3, MapEffect DEF one
  <2> QED BY <2>1, <2>2, SMT, ZenonT(30), SMTT(60) DEF Mapped
<1>5. NextFd(h, pid) = NextFd(g, pid) + 2
  <2>1. NextAfter(one, pid, AnyFd) = NextFd(one, pid) + 1
    BY SMT, ZenonT(30), SMTT(60) DEF NextAfter
  <2>2. Mapped(one, h, pid, n, NumberFor(one, pid, AnyFd), NextAfter(one, pid, AnyFd))
    BY <1>2, <1>3, <1>4, MapEffect, SMT, ZenonT(30), SMTT(60) DEF one
  <2>3. NextFd(h, pid) = NextFd(one, pid) + 1
    BY <2>1, <2>2 DEF Mapped
  <2> QED BY <1>2, <1>4, <2>3
<1>6. NextFd(h, pid) <= MaxFd + 1
  BY <1>2 DEF Fits, NextFd
<1>7. NextFd(g, pid) \in Fds /\ NextFd(one, pid) \in Fds
  BY <1>2, <1>4, <1>5, <1>6, EndsAssumption, SMT, ZenonT(30), SMTT(60) DEF Fds
<1>8. Sound(one, live, n + 1, {n} \ {n})
  BY <1>1, <1>3, <1>7, MapNextSound, SMT, ZenonT(30), SMTT(60) DEF one
<1>9. Sound(h, live, n + 1, ({n} \ {n}) \ {n})
  BY <1>3, <1>4, <1>7, <1>8, MapNextSound DEF one
<1>10. ({n} \ {n}) \ {n} = {}
  OBVIOUS
<1> QED
  BY <1>9, <1>10

(* A copy into a new descriptor, of a process that was not forked. *)
LEMMA CloneNewSound ==
  ASSUME NEW f, NEW live \in SUBSET Process, NEW n, Sound(f, live, n, {}),
         NEW source \in Process, NEW sourceFd \in DOMAIN Descriptors(f, source),
         NEW pid \in live, pid \in First,
         NEW h, h = clonefd(f, sourceFd, source, AnyFd, pid, Descriptors(f, source)[sourceFd]),
         Fits(h)
  PROVE  Sound(h, live, n, {})
<1> DEFINE node == Descriptors(f, source)[sourceFd]
           g == mapFile(f, pid, node, AnyFd)
           k == NextFd(f, pid)
<1>1. /\ Shaped(f) /\ pid \in Process /\ k \in Nat /\ node \in DOMAIN f.pipes
      /\ AnyFd \notin DOMAIN Descriptors(f, pid)
  BY EndsAssumption DEF Sound, SoundTables, Fds, AnyFd
<1>2. NumberFor(f, pid, AnyFd) = k /\ NextAfter(f, pid, AnyFd) = k + 1
  BY SMT, ZenonT(30), SMTT(60) DEF NumberFor, NextAfter, NextFd
<1>3. h = WithDescriptor(g, pid, k, node)
  BY <1>1, <1>2 DEF clonefd, Replaced
<1> HIDE DEF g, k, node
<1>4. Mapped(f, g, pid, node, k, k + 1)
  BY <1>1, <1>2, MapEffect DEF g
<1>5. Mapped(f, h, pid, node, k, k + 1)
  BY <1>1, <1>3, <1>4, CloneEffect, SMT, ZenonT(30), SMTT(60)
<1>6. NextFd(h, pid) = k + 1 /\ NextFd(h, pid) <= MaxFd + 1
  BY <1>1, <1>5 DEF Mapped, Fits, NextFd
<1>7. /\ k \in Fds /\ k + 1 \in Nat /\ NextFd(f, pid) <= k + 1 /\ k < k + 1
  BY <1>1, <1>6, EndsAssumption DEF k, Fds
<1>8. k \notin DOMAIN Descriptors(f, pid)
  BY <1>1 DEF Sound, BelowNext, k
<1>9. Sound(h, live, n, {} \ {node})
  BY <1>1, <1>5, <1>7, <1>8, MappedSound
<1>10. {} \ {node} = {}
  OBVIOUS
<1> QED
  BY <1>9, <1>10, SMT, ZenonT(30), SMTT(60)

(* A copy onto a lower descriptor of the same process, open or not. *)
LEMMA CloneOverSound ==
  ASSUME NEW f, NEW live \in SUBSET Process, NEW n, Sound(f, live, n, {}),
         NEW pid \in live, NEW sourceFd \in DOMAIN Descriptors(f, pid),
         NEW targetFd \in Fds, targetFd < sourceFd,
         NEW h, h = clonefd(f, sourceFd, pid, targetFd, pid, Descriptors(f, pid)[sourceFd])
  PROVE  Sound(h, live, n, {})
<1> DEFINE node == Descriptors(f, pid)[sourceFd]
           r == Replaced(f, pid, targetFd, pid)
           g == mapFile(r, pid, node, targetFd)
           next == NextFd(f, pid)
<1>1. /\ Shaped(f) /\ pid \in Process /\ next \in Nat /\ sourceFd \in Fds
  BY DEF Sound, SoundTables
<1>2. sourceFd # targetFd /\ targetFd # AnyFd
  BY <1>1, EndsAssumption DEF Fds, AnyFd
<1>3. /\ Sound(r, live, n, {}) /\ targetFd \notin DOMAIN Descriptors(r, pid)
      /\ sourceFd \in DOMAIN Descriptors(r, pid) /\ Descriptors(r, pid)[sourceFd] = node
      /\ NextFd(r, pid) = next
  <2>1. CASE targetFd \notin DOMAIN Descriptors(f, pid)
    BY <2>1 DEF Replaced
  <2>2. CASE targetFd \in DOMAIN Descriptors(f, pid)
    <3>1. r = unmapFile(f, pid, Descriptors(f, pid)[targetFd], targetFd)
      BY <2>2 DEF Replaced
    <3> HIDE DEF r, node, next
    <3>2. Sound(r, live, n, {})
      BY <2>2, <3>1, UnmapSound
    <3>3. Unmapped(f, r, pid, targetFd)
      BY <1>1, <3>1, UnmapEffect
    <3>4. /\ DOMAIN Descriptors(r, pid) = DOMAIN Descriptors(f, pid) \ {targetFd}
          /\ \A d \in DOMAIN Descriptors(r, pid) : Descriptors(r, pid)[d] = Descriptors(f, pid)[d]
      BY <3>3 DEF Unmapped
    <3>5. NextFd(r, pid) = next
      <4>1. r.tables[pid] = [nextFileDescriptor |-> NextFd(f, pid),
                             descriptors |-> Descriptors(r, pid)]
        BY <1>1, <3>3 DEF Unmapped
      <4>2. r.tables[pid].nextFileDescriptor = NextFd(f, pid)
        BY <4>1, SMT, ZenonT(30), SMTT(60)
      <4> QED BY <4>2 DEF NextFd, next
    <3> QED BY <1>2, <3>2, <3>4, <3>5 DEF node
  <2> QED BY <2>1, <2>2
<1>4. NumberFor(r, pid, targetFd) = targetFd /\ NextAfter(r, pid, targetFd) = next
  BY <1>2, <1>3 DEF NumberFor, NextAfter
<1>5. h = WithDescriptor(g, pid, targetFd, node)
  BY <1>4, SMT, ZenonT(30), SMTT(60) DEF clonefd
<1> HIDE DEF r, g, node, next
<1>6. Shaped(r) /\ node \in DOMAIN r.pipes
  BY <1>1, <1>3 DEF Sound, SoundTables
<1>7. Mapped(r, g, pid, node, targetFd, next)
  BY <1>1, <1>4, <1>6, MapEffect DEF g
<1>8. Mapped(r, h, pid, node, targetFd, next)
  BY <1>1, <1>5, <1>7, CloneEffect
<1>9. NextFd(r, pid) <= next /\ (pid \in First => targetFd < next)
  <2>1. pid \in First => sourceFd < next
    BY <1>3, SMT, ZenonT(30), SMTT(60) DEF Sound, BelowNext
  <2> QED BY <1>1, <1>3, <2>1, EndsAssumption DEF Fds
<1>10. Sound(h, live, n, {} \ {node})
  BY <1>1, <1>3, <1>6, <1>8, <1>9, MappedSound
<1>11. {} \ {node} = {}
  OBVIOUS
<1> QED
  BY <1>10, <1>11

-----------------------------------------------------------------------------
(* The inductive invariant: the tables and pipes are sound, the process ids  *)
(* fork may use were never used, and the transactions blocked threads wait   *)
(* for are well formed.                                                      *)
Lives ==
    /\ created \in 0..MaxPipes
    /\ alive \in SUBSET Process /\ unborn \in SUBSET Process
    /\ alive \cap unborn = {} /\ First \cap unborn = {}
Waits ==
    /\ DOMAIN waiting = Thread
    /\ \A t \in Thread : waiting[t] # NoCall => waiting[t] \in Call /\ Owner[t] \in alive
IInv == Sound(Now, alive, created, {}) /\ Lives /\ Waits

(* At the start there are no descriptors and no pipes. *)
LEMMA InitInv == Init => IInv
<1> SUFFICES ASSUME Init PROVE IInv
  OBVIOUS
<1>1. /\ tables = [p \in Process |-> NewTable] /\ pipes = << >> /\ created = 0
      /\ alive = First /\ unborn = Process \ First /\ waiting = [t \in Thread |-> NoCall]
  BY DEF Init
<1>2. /\ Now = [tables |-> tables, pipes |-> pipes] /\ Now.tables = tables /\ Now.pipes = pipes
      /\ DOMAIN pipes = {}
  BY <1>1 DEF Now
<1> HIDE DEF Now
<1>3. \A p \in Process : tables[p] = [nextFileDescriptor |-> 3, descriptors |-> << >>]
  BY <1>1 DEF NewTable
<1>4. \A p \in Process : NextFd(Now, p) = 3 /\ Descriptors(Now, p) = << >>
  BY <1>2, <1>3 DEF NextFd, Descriptors
<1>5. \A p \in Process : DOMAIN Descriptors(Now, p) = {}
  BY <1>4
<1>6. Shaped(Now)
  BY <1>1, <1>2, <1>3, <1>4 DEF Shaped
<1>7. SoundTables(Now, alive) /\ BelowNext(Now)
  BY <1>4, <1>5, EndsAssumption DEF SoundTables, BelowNext
<1>8. Counted(Now, created) /\ NoneIdle(Now, {})
  BY <1>2 DEF Counted, NoneIdle
<1>9. Lives /\ Waits
  BY <1>1, EndsAssumption DEF Lives, Waits
<1> QED
  BY <1>6, <1>7, <1>8, <1>9 DEF IInv, Sound

(* An attempt to read or to write leaves a sound state, and ends without      *)
(* success only when no other process has a reference.                       *)
LEMMA RequestOutcome ==
  ASSUME IInv, NEW call \in Call, NEW pid \in Process
  PROVE  /\ Sound([tables |-> tables, pipes |-> request(call, pid).pipes], alive, created, {})
         /\ request(call, pid).status \in {"repeat", "finished"}
         /\ request(call, pid).success \in BOOLEAN
         /\ request(call, pid).status = "finished" /\ ~request(call, pid).success =>
              (call.node \in DOMAIN pipes => OthersIn(pipes[call.node].references, pid) = {})
<1> DEFINE a == request(call, pid)
           id == call.node
<1>1. /\ call.op \in {"read", "write"} /\ call.length \in Nat
  BY EndsAssumption DEF Call
<1>2. /\ Sound(Now, alive, created, {}) /\ Now = [tables |-> tables, pipes |-> pipes]
      /\ Now.tables = tables /\ Now.pipes = pipes
  BY DEF IInv, Now
<1>3. Capacity \in Nat /\ \A i \in DOMAIN pipes : pipes[i].size \in 0..Capacity
  BY <1>2, EndsAssumption DEF Sound, Counted
<1>4. \/ a = Finished(pipes, FALSE) /\ (id \in DOMAIN pipes => OthersIn(pipes[id].references, pid) = {})
      \/ a = Repeat
      \/ id \in DOMAIN pipes /\ \E s \in 0..Capacity : a = Finished([pipes EXCEPT ![id].size = s], TRUE)
  <2>1. CASE id \notin DOMAIN pipes
    BY <2>1, Zenon DEF request, requestRead, requestWrite
  <2>2. CASE id \in DOMAIN pipes /\ call.op = "read"
    <3> DEFINE length == MinOf(pipes[id].size, call.length)
    <3>1. length \in Nat /\ length <= pipes[id].size /\ pipes[id].size - length \in 0..Capacity
      BY <1>1, <1>3, <2>2 DEF MinOf
    <3>2. a = IF length > 0 THEN Finished([pipes EXCEPT ![id].size = @ - length], TRUE)
              ELSE IF hasReferenceFromOtherProcess(pipes[id], pid) THEN Repeat
              ELSE Finished(pipes, FALSE)
      BY <2>2 DEF request, requestRead
    <3> HIDE DEF length, a
    <3>3. CASE length > 0
      <4>1. a = Finished([pipes EXCEPT ![id].size = pipes[id].size - length], TRUE)
        BY <3>2, <3>3
      <4> QED BY <2>2, <3>1, <4>1, Zenon
    <3>4. CASE ~(length > 0)
      BY <3>2, <3>4, Zenon DEF hasReferenceFromOtherProcess
    <3> QED BY <3>3, <3>4, Zenon
  <2>3. CASE id \in DOMAIN pipes /\ call.op = "write"
    <3> DEFINE space == Capacity - pipes[id].size
               length == MinOf(space, call.length)
    <3>1. length \in Nat /\ pipes[id].size + length \in 0..Capacity
      BY <1>1, <1>3, <2>3 DEF MinOf
    <3>2. a = IF space > 0 THEN Finished([pipes EXCEPT ![id].size = @ + length], TRUE)
              ELSE IF hasReferenceFromOtherProcess(pipes[id], pid) THEN Repeat
              ELSE Finished(pipes, FALSE)
      BY <2>3 DEF request, requestWrite
    <3> HIDE DEF length, a, space
    <3>3. CASE space > 0
      <4>1. a = Finished([pipes EXCEPT ![id].size = pipes[id].size + length], TRUE)
        BY <3>2, <3>3
      <4> QED BY <2>3, <3>1, <4>1, Zenon
    <3>4. CASE ~(space > 0)
      BY <3>2, <3>4, ZenonT(60) DEF hasReferenceFromOtherProcess
    <3> QED BY <3>3, <3>4, Zenon
  <2> QED BY <1>1, <2>1, <2>2, <2>3, Zenon
<1> HIDE DEF a, id
<1> SUFFICES /\ Sound([tables |-> tables, pipes |-> a.pipes], alive, created, {})
             /\ a.status \in {"repeat", "finished"} /\ a.success \in BOOLEAN
             /\ a.status = "finished" /\ ~a.success =>
                  (id \in DOMAIN pipes => OthersIn(pipes[id].references, pid) = {})
  BY DEF a, id
<1>5. CASE a = Finished(pipes, FALSE) /\ (id \in DOMAIN pipes => OthersIn(pipes[id].references, pid) = {})
  <2>1. a.pipes = pipes /\ a.status = "finished" /\ a.success = FALSE
    BY <1>5 DEF Finished
  <2> QED BY <1>2, <1>5, <2>1, Zenon
<1>6. CASE a = Repeat
  <2>1. a.pipes = pipes /\ a.status = "repeat" /\ a.success = FALSE
    BY <1>6 DEF Repeat
  <2> QED BY <1>2, <2>1, ZenonT(60)
<1>7. ASSUME id \in DOMAIN pipes, NEW s \in 0..Capacity,
             a = Finished([pipes EXCEPT ![id].size = s], TRUE)
      PROVE  /\ Sound([tables |-> tables, pipes |-> a.pipes], alive, created, {})
             /\ a.status = "finished" /\ a.success = TRUE
  <2>1. a.pipes = [pipes EXCEPT ![id].size = s] /\ a.status = "finished" /\ a.success = TRUE
    BY <1>7 DEF Finished
  <2>2. Sound([tables |-> Now.tables, pipes |-> [Now.pipes EXCEPT ![id].size = s]], alive, created, {})
    BY <1>2, <1>7, SizeSound
  <2> QED BY <1>2, <2>1, <2>2
<1> QED
  BY <1>4, <1>5, <1>6, <1>7, ZenonT(60)

(* The next state is the state the model's operators compute. *)
LEMMA BecomeSound ==
  ASSUME NEW f, Become(f), NEW live, NEW n, Sound(f, live, n, {})
  PROVE  Sound(Now', live, n, {})
<1>1. Now' = [tables |-> f.tables, pipes |-> f.pipes]
  BY DEF Now, Become
<1>2. f = [tables |-> f.tables, pipes |-> f.pipes]
  BY DEF Sound, Shaped
<1>3. Now' = f
  BY <1>1, <1>2
<1> QED
  BY <1>3

(* fsRead and fsWrite keep the invariant, whether they finish or block. *)
LEMMA TransferInv ==
  ASSUME IInv, NEW t \in Thread, NEW op \in {"read", "write"}, NEW fd \in Fds,
         NEW n \in ReadSizes \cup WriteSizes, fsTransfer(t, op, fd, n)
  PROVE  IInv'
<1> DEFINE call == [op |-> op, node |-> tables[Owner[t]].descriptors[fd], length |-> n,
                    status |-> "repeat", success |-> FALSE]
           a == request(call, Owner[t])
<1>1. /\ Runs(t) /\ fd \in DOMAIN tables[Owner[t]].descriptors
      /\ pipes' = a.pipes
      /\ waiting' = [waiting EXCEPT ![t] = IF a.status = "repeat" THEN call ELSE NoCall]
      /\ tables' = tables /\ created' = created /\ alive' = alive /\ unborn' = unborn
  BY DEF fsTransfer
<1>2. Owner[t] \in Process /\ Owner[t] \in alive
  BY <1>1, EndsAssumption, SMT, ZenonT(30), SMTT(60) DEF Runs
<1>3. call \in Call
  <2>1. tables[Owner[t]].descriptors[fd] \in Node
    <3>1. Descriptors(Now, Owner[t]) = tables[Owner[t]].descriptors /\ Now.pipes = pipes
      BY SMT, ZenonT(30), SMTT(60) DEF Descriptors, Now
    <3>2. /\ Descriptors(Now, Owner[t])[fd] \in DOMAIN pipes
          /\ DOMAIN pipes \subseteq 0..created - 1 /\ created \in 0..MaxPipes
      BY <1>1, <1>2, <3>1, ZenonT(60) DEF IInv, Sound, SoundTables, Counted, Lives
    <3> QED BY <3>1, <3>2, EndsAssumption DEF Node
  <2> QED BY <2>1 DEF Call
<1> HIDE DEF call, a
<1>4. Sound([tables |-> tables, pipes |-> a.pipes], alive, created, {})
  BY <1>2, <1>3, RequestOutcome, SMT, ZenonT(30), SMTT(60) DEF a
<1>5. Now' = [tables |-> tables, pipes |-> a.pipes]
  BY <1>1, SMT, ZenonT(30), SMTT(60) DEF Now
<1>6. Sound(Now, alive, created, {})'
  BY <1>1, <1>4, <1>5, SMT, ZenonT(30), SMTT(60)
<1>7. Lives'
  BY <1>1 DEF IInv, Lives
<1>8. Waits'
  BY <1>1, <1>2, <1>3 DEF IInv, Waits
<1> QED
  BY <1>6, <1>7, <1>8, SMT, ZenonT(30), SMTT(60) DEF IInv

(* A repeated attempt keeps the invariant. *)
LEMMA RetryInv ==
  ASSUME IInv, NEW t \in Thread, retry(t)
  PROVE  IInv'
<1> DEFINE a == request(waiting[t], Owner[t])
<1>1. /\ waiting[t] # NoCall /\ pipes' = a.pipes
      /\ waiting' = [waiting EXCEPT ![t].status = a.status, ![t].success = a.success]
      /\ tables' = tables /\ created' = created /\ alive' = alive /\ unborn' = unborn
  BY DEF retry
<1>2. waiting[t] \in Call /\ Owner[t] \in Process /\ Owner[t] \in alive
  BY <1>1, EndsAssumption, ZenonT(60) DEF IInv, Waits
<1>3. /\ Sound([tables |-> tables, pipes |-> a.pipes], alive, created, {})
      /\ a.status \in {"repeat", "finished"} /\ a.success \in BOOLEAN
  BY <1>2, RequestOutcome
<1> HIDE DEF a
<1>4. Now' = [tables |-> tables, pipes |-> a.pipes]
  BY <1>1 DEF Now
<1>5. Sound(Now, alive, created, {})'
  BY <1>1, <1>3, <1>4
<1>6. Lives'
  BY <1>1 DEF IInv, Lives
<1>7. waiting'[t] \in Call /\ DOMAIN waiting' = Thread
      /\ \A u \in Thread \ {t} : waiting'[u] = waiting[u]
  <2>1. DOMAIN waiting = Thread
    BY DEF IInv, Waits
  <2> QED BY <1>1, <1>2, <1>3, <2>1, ZenonT(60) DEF Call
<1>8. Waits'
  BY <1>1, <1>2, <1>7 DEF IInv, Waits
<1> QED
  BY <1>5, <1>6, <1>8 DEF IInv

(* The return of a finished call keeps the invariant. *)
LEMMA FinishInv ==
  ASSUME IInv, NEW t \in Thread, finish(t)
  PROVE  IInv'
<1>1. /\ waiting' = [waiting EXCEPT ![t] = NoCall]
      /\ tables' = tables /\ pipes' = pipes
      /\ created' = created /\ alive' = alive /\ unborn' = unborn
  BY DEF finish
<1>2. Sound(Now, alive, created, {})'
  <2>1. Now' = Now
    BY <1>1 DEF Now
  <2> QED BY <1>1, <2>1 DEF IInv
<1>3. Lives' /\ Waits'
  BY <1>1 DEF IInv, Lives, Waits
<1> QED
  BY <1>2, <1>3 DEF IInv

(* pipe keeps the invariant: both descriptors get numbers that were not in use. *)
LEMMA PipeInv ==
  ASSUME IInv, CarefulPrograms, NEW t \in Thread, fsPipe(t)
  PROVE  IInv'
<1> DEFINE pid == Owner[t]
           new == [size |-> 0, references |-> [p \in Process |-> 0]]
           made == [Now EXCEPT !.pipes = [id \in DOMAIN pipes \cup {created} |->
                                            IF id = created THEN new ELSE pipes[id]]]
           both == mapFile(mapFile(made, pid, created, AnyFd), pid, created, AnyFd)
<1>1. /\ pid \in alive /\ pid \in Creators /\ created < MaxPipes
      /\ Fits(both) /\ Become(both)
      /\ created' = created + 1 /\ alive' = alive /\ unborn' = unborn /\ waiting' = waiting
  BY DEF fsPipe, Runs
<1>2. /\ pid \in First /\ alive \in SUBSET Process /\ created \in Nat /\ created \in 0..MaxPipes
      /\ Sound(Now, alive, created, {})
  BY <1>1, EndsAssumption DEF CarefulPrograms, IInv, Lives
<1>3. /\ Now.tables = tables /\ Now.pipes = pipes
      /\ made = [tables |-> Now.tables,
                 pipes |-> [id \in DOMAIN pipes \cup {created} |->
                              IF id = created THEN new ELSE pipes[id]]]
  BY DEF Now
<1>4. created \notin DOMAIN pipes
  BY <1>2, <1>3 DEF Sound, Counted
<1> HIDE DEF made, pid
<1>5. /\ made = [tables |-> made.tables, pipes |-> made.pipes]
      /\ made.tables = Now.tables /\ DOMAIN made.pipes = DOMAIN Now.pipes \cup {created}
      /\ \A id \in DOMAIN Now.pipes : made.pipes[id] = Now.pipes[id]
      /\ made.pipes[created] = new
  BY <1>3, <1>4
<1>6. made.pipes[created].size = 0 /\ made.pipes[created].references = [p \in Process |-> 0]
  BY <1>5
<1>7. Shaped(made)
  <2>1. \A p \in Process : NextFd(made, p) = NextFd(Now, p) /\ Descriptors(made, p) = Descriptors(Now, p)
    BY <1>5 DEF NextFd, Descriptors
  <2>2. /\ DOMAIN made.tables = Process
        /\ \A p \in Process : made.tables[p] = [nextFileDescriptor |-> NextFd(made, p),
                                                descriptors |-> Descriptors(made, p)]
    BY <1>2, <1>5, <2>1 DEF Sound, Shaped
  <2>3. \A id \in DOMAIN made.pipes :
          made.pipes[id] = [size |-> made.pipes[id].size, references |-> made.pipes[id].references]
    BY <1>2, <1>5 DEF Sound, Shaped
  <2> QED BY <1>5, <2>2, <2>3 DEF Shaped
<1> HIDE DEF new, both
<1>8. Sound(both, alive, created + 1, {})
  BY <1>1, <1>2, <1>5, <1>6, <1>7, PipeSound DEF both
<1>9. Sound(Now, alive, created, {})'
  BY <1>1, <1>8, BecomeSound
<1>10. Lives' /\ Waits'
  BY <1>1, <1>2, EndsAssumption DEF IInv, Lives, Waits
<1> QED
  BY <1>9, <1>10 DEF IInv

(* clonefd keeps the invariant, for arguments a careful program uses. *)
LEMMA ClonefdInv ==
  ASSUME IInv, CarefulPrograms, NEW t \in Thread, NEW a \in CloneArgs, a[4] \in alive,
         fsClonefd(t, a[1], a[2], a[3], a[4])
  PROVE  IInv'
<1>1. /\ a[1] \in DOMAIN tables[a[2]].descriptors
      /\ created' = created /\ alive' = alive /\ unborn' = unborn /\ waiting' = waiting
      /\ \E read \in ReadNodes(Now, a[1], a[2], a[3], a[4]) :
           /\ Fits(clonefd(Now, a[1], a[2], a[3], a[4], read))
           /\ Become(clonefd(Now, a[1], a[2], a[3], a[4], read))
  BY DEF fsClonefd
<1>2. /\ a[2] \in Process /\ a[4] \in Process
      /\ \/ a[3] = AnyFd /\ a[4] \in First
         \/ a[3] \in Fds /\ a[4] = a[2] /\ a[3] < a[1]
  BY DEF CarefulPrograms
<1>3. /\ Sound(Now, alive, created, {}) /\ alive \in SUBSET Process
      /\ Descriptors(Now, a[2]) = tables[a[2]].descriptors
  BY SMT, ZenonT(30), SMTT(60) DEF IInv, Lives, Descriptors, Now
<1>4. a[1] \in DOMAIN Descriptors(Now, a[2]) /\ a[1] \in Fds
  BY <1>1, <1>2, <1>3, ZenonT(60) DEF Sound, SoundTables
<1>5. a[1] # a[3]
  BY <1>2, <1>4, EndsAssumption, SMT, ZenonT(30), SMTT(60) DEF Fds, AnyFd
<1> DEFINE h == clonefd(Now, a[1], a[2], a[3], a[4], Descriptors(Now, a[2])[a[1]])
<1>6. Fits(h) /\ Become(h)
  BY <1>1, <1>5, ZenonT(60) DEF ReadNodes
<1> HIDE DEF h
<1>7. Sound(h, alive, created, {})
  <2>1. CASE a[3] = AnyFd /\ a[4] \in First
    <3>1. h = clonefd(Now, a[1], a[2], AnyFd, a[4], Descriptors(Now, a[2])[a[1]])
      BY <2>1, ZenonT(60) DEF h
    <3> QED BY <1>2, <1>3, <1>4, <1>6, <2>1, <3>1, CloneNewSound, ZenonT(60)
  <2>2. CASE a[3] \in Fds /\ a[4] = a[2] /\ a[3] < a[1]
    <3>1. h = clonefd(Now, a[1], a[4], a[3], a[4], Descriptors(Now, a[4])[a[1]])
      BY <2>2, SMT, ZenonT(30), SMTT(60) DEF h
    <3> QED BY <1>3, <1>4, <2>2, <3>1, CloneOverSound, ZenonT(60)
  <2> QED BY <1>2, <2>1, <2>2, SMT, ZenonT(30), SMTT(60)
<1>8. Sound(Now, alive, created, {})'
  BY <1>1, <1>6, <1>7, BecomeSound, ZenonT(60)
<1>9. Lives' /\ Waits'
  BY <1>1, ZenonT(60) DEF IInv, Lives, Waits
<1> QED
  BY <1>8, <1>9, SMT, ZenonT(30), SMTT(60) DEF IInv

(* close keeps the invariant. *)
LEMMA CloseInv ==
  ASSUME IInv, NEW t \in Thread, NEW fd \in Fds, fsClose(t, fd)
  PROVE  IInv'
<1> DEFINE pid == Owner[t]
           h == unmapFile(Now, pid, Descriptors(Now, pid)[fd], fd)
<1>1. /\ pid \in alive /\ fd \in DOMAIN tables[pid].descriptors
      /\ Become(unmapFile(Now, pid, tables[pid].descriptors[fd], fd))
      /\ created' = created /\ alive' = alive /\ unborn' = unborn /\ waiting' = waiting
  BY DEF fsClose, Runs
<1>2. /\ Sound(Now, alive, created, {}) /\ alive \in SUBSET Process
      /\ Descriptors(Now, pid) = tables[pid].descriptors
  BY DEF IInv, Lives, Descriptors, Now
<1> HIDE DEF pid
<1>3. Sound(h, alive, created, {}) /\ Become(h)
  BY <1>1, <1>2, UnmapSound
<1> HIDE DEF h
<1>4. Sound(Now, alive, created, {})'
  BY <1>1, <1>3, BecomeSound, SMT, ZenonT(30), SMTT(60)
<1>5. Lives' /\ Waits'
  BY <1>1 DEF IInv, Lives, Waits
<1> QED
  BY <1>4, <1>5 DEF IInv

(* fork keeps the invariant: the child gets a reference for each descriptor. *)
LEMMA ForkInv ==
  ASSUME IInv, NEW t \in Thread, NEW child \in Process, fork(t, child)
  PROVE  IInv'
<1> DEFINE h == processForked(Now, Owner[t], child)
<1>1. /\ Owner[t] \in alive /\ child \in unborn /\ Become(h)
      /\ alive' = alive \cup {child} /\ unborn' = unborn \ {child}
      /\ created' = created /\ waiting' = waiting
  BY DEF fork, Runs
<1>2. /\ Sound(Now, alive, created, {}) /\ alive \in SUBSET Process
      /\ child \notin alive /\ child \notin First
  BY <1>1 DEF IInv, Lives
<1>3. Sound(h, alive \cup {child}, created, {})
  BY <1>1, <1>2, ForkSound
<1> HIDE DEF h
<1>4. Sound(Now, alive, created, {})'
  BY <1>1, <1>3, BecomeSound, SMT, ZenonT(30), SMTT(60)
<1>5. Lives' /\ Waits'
  BY <1>1 DEF IInv, Lives, Waits
<1> QED
  BY <1>4, <1>5 DEF IInv

(* The end of a process keeps the invariant: all its references go. *)
LEMMA ExitInv ==
  ASSUME IInv, NEW p \in Process, exit(p)
  PROVE  IInv'
<1> DEFINE h == processClosed(Now, p)
<1>1. /\ p \in alive /\ Become(h) /\ alive' = alive \ {p}
      /\ waiting' = [t \in Thread |-> IF Owner[t] = p THEN NoCall ELSE waiting[t]]
      /\ created' = created /\ unborn' = unborn
  BY DEF exit
<1>2. Sound(Now, alive, created, {}) /\ alive \in SUBSET Process
  BY DEF IInv, Lives
<1>3. Sound(h, alive \ {p}, created, {})
  BY <1>1, <1>2, CloseSound, SMT, ZenonT(30), SMTT(60)
<1> HIDE DEF h
<1>4. Sound(Now, alive, created, {})'
  BY <1>1, <1>3, BecomeSound
<1>5. Lives' /\ Waits'
  BY <1>1 DEF IInv, Lives, Waits
<1> QED
  BY <1>4, <1>5 DEF IInv

(* Every step of the system calls, of the waiting threads and of processes    *)
(* that end preserves the invariant.                                         *)
LEMMA NextInv ==
  ASSUME CarefulPrograms
  PROVE  IInv /\ [Next]_vars => IInv'
<1> SUFFICES ASSUME IInv, [Next]_vars PROVE IInv'
  OBVIOUS
<1>1. CASE \E t \in Thread, fd \in Fds, n \in ReadSizes : fsRead(t, fd, n)
  BY <1>1, TransferInv DEF fsRead
<1>2. CASE \E t \in Thread, fd \in Fds, n \in WriteSizes : fsWrite(t, fd, n)
  BY <1>2, TransferInv DEF fsWrite
<1>3. CASE \E t \in Thread, a \in CloneArgs :
             a[4] \in alive /\ fsClonefd(t, a[1], a[2], a[3], a[4])
  BY <1>3, ClonefdInv
<1>4. CASE \E t \in Thread, fd \in Fds : fsClose(t, fd)
  BY <1>4, CloseInv
<1>5. CASE \E t \in Thread, child \in Process : fork(t, child)
  BY <1>5, ForkInv
<1>6. CASE \E t \in Thread : fsPipe(t)
  BY <1>6, PipeInv
<1>7. CASE \E t \in Thread : retry(t)
  BY <1>7, RetryInv
<1>8. CASE \E t \in Thread : finish(t)
  BY <1>8, FinishInv
<1>9. CASE \E p \in Process : exit(p)
  BY <1>9, ExitInv
<1>10. CASE UNCHANGED vars
  <2>1. /\ Now' = Now /\ created' = created /\ alive' = alive /\ unborn' = unborn
        /\ waiting' = waiting
    BY <1>10 DEF vars, Now
  <2> QED BY <2>1 DEF IInv, Lives, Waits
<1> QED
  BY <1>1, <1>2, <1>3, <1>4, <1>5, <1>6, <1>7, <1>8, <1>9, <1>10 DEF Next

(* The invariant holds throughout, whatever careful programs do. *)
THEOREM EndsInvariance ==
  ASSUME CarefulPrograms
  PROVE  Spec => []IInv
<1>1. Init => IInv
  BY InitInv
<1>2. IInv /\ [Next]_vars => IInv'
  BY NextInv
<1> QED
  BY <1>1, <1>2, PTL DEF Spec

(* Descriptor tables, pipes and blocked calls are well formed: descriptors     *)
(* refer to nodes that exist, and no pipe stores more than its capacity.       *)
THEOREM TypeCorrect ==
  ASSUME CarefulPrograms
  PROVE  Spec => []TypeOK
<1>1. IInv => TypeOK
  <2> SUFFICES ASSUME IInv PROVE TypeOK
    OBVIOUS
  <2>1. /\ Now.pipes = pipes /\ \A p \in Process : Descriptors(Now, p) = tables[p].descriptors
    BY SMT, ZenonT(30), SMTT(60) DEF Now, Descriptors
  <2>2. /\ DOMAIN pipes \subseteq 0..created - 1
        /\ \A id \in DOMAIN pipes :
             pipes[id].size \in 0..Capacity /\ pipes[id].references \in [Process -> Nat]
    BY <2>1, SMT, ZenonT(30), SMTT(60) DEF IInv, Sound, Counted
  <2>3. \A p \in Process : \A fd \in DOMAIN tables[p].descriptors :
          fd \in Fds /\ tables[p].descriptors[fd] \in 0..created - 1
    BY <2>1, <2>2 DEF IInv, Sound, SoundTables
  <2> QED BY <2>2, <2>3 DEF TypeOK, IInv, Lives, Waits
<1> QED
  BY <1>1, EndsInvariance, PTL

(* A pipe that some process has a descriptor of exists, and the reference      *)
(* list has an entry of that process.                                          *)
LEMMA HolderHasReference ==
  ASSUME IInv, NEW q \in Process, NEW id, EndsOf(q, id) # {}
  PROVE  id \in DOMAIN pipes /\ pipes[id].references[q] > 0
<1>1. Now.pipes = pipes /\ SoundTables(Now, alive) /\ Counted(Now, created)
  BY DEF Now, IInv, Sound
<1>2. Ends(Now, q, id) # {}
  BY SMT, ZenonT(30), SMTT(60) DEF EndsOf
<1>3. id \in DOMAIN pipes
  BY <1>1, <1>2 DEF Ends, SoundTables
<1>4. pipes[id].references[q] = Cardinality(Ends(Now, q, id))
  BY <1>1, <1>3 DEF Counted
<1>5. Cardinality(Ends(Now, q, id)) \in Nat \ {0}
  BY <1>1, <1>2, EndsFinite
<1> QED
  BY <1>3, <1>4, <1>5

(* The reference lists count the descriptors, and a pipe exists exactly as     *)
(* long as some live process has a descriptor of it.                           *)
THEOREM ReferencesAlwaysMatch ==
  ASSUME CarefulPrograms
  PROVE  Spec => []ReferencesMatch
<1>1. IInv => ReferencesMatch
  <2> SUFFICES ASSUME IInv, NEW id \in 0..created - 1
               PROVE  /\ id \in DOMAIN pipes <=> \E p \in alive : EndsOf(p, id) # {}
                      /\ id \in DOMAIN pipes =>
                            \A p \in Process : pipes[id].references[p] = Cardinality(EndsOf(p, id))
    BY DEF ReferencesMatch
  <2>1. /\ Now.pipes = pipes /\ SoundTables(Now, alive) /\ Counted(Now, created)
        /\ NoneIdle(Now, {}) /\ alive \subseteq Process
    BY SMT, ZenonT(30), SMTT(60) DEF Now, IInv, Sound, Lives
  <2>2. (\E p \in alive : EndsOf(p, id) # {}) => id \in DOMAIN pipes
    BY <2>1, HolderHasReference
  <2>3. id \in DOMAIN pipes => \E p \in alive : EndsOf(p, id) # {}
    <3> SUFFICES ASSUME id \in DOMAIN pipes PROVE \E p \in alive : EndsOf(p, id) # {}
      OBVIOUS
    <3>1. PICK p \in Process : Ends(Now, p, id) # {}
      BY <2>1 DEF NoneIdle
    <3>2. p \in alive
      BY <2>1, <3>1 DEF SoundTables, Ends
    <3> QED BY <3>1, <3>2 DEF EndsOf
  <2>4. id \in DOMAIN pipes =>
          \A p \in Process : pipes[id].references[p] = Cardinality(EndsOf(p, id))
    BY <2>1 DEF Counted, EndsOf
  <2> QED BY <2>2, <2>3, <2>4
<1> QED
  BY <1>1, EndsInvariance, PTL

(* A blocked read or write gives up only when no other process has a           *)
(* descriptor of the pipe: requestRead and requestWrite look at the reference   *)
(* list, which tells the truth.                                                *)
THEOREM ErrorsMeanAlone ==
  ASSUME CarefulPrograms
  PROVE  Spec => ErrorMeansAlone
<1> DEFINE GivesUp(t, id) ==
             /\ waiting[t] # NoCall /\ waiting[t].node = id /\ waiting[t].status = "repeat"
             /\ waiting'[t] # NoCall /\ waiting'[t].status = "finished"
             /\ ~waiting'[t].success
           Alone == \A t \in Thread, id \in Node : GivesUp(t, id) => ~OthersHold(Owner[t], id)
<1>1. ASSUME IInv, [Next]_vars
      PROVE  Alone
  <2> SUFFICES ASSUME NEW t \in Thread, NEW id \in Node, GivesUp(t, id)
               PROVE  ~OthersHold(Owner[t], id)
    OBVIOUS
  <2>1. waiting'[t] # waiting[t]
    OBVIOUS
  <2>2. DOMAIN waiting = Thread
    BY <1>1 DEF IInv, Waits
  <2>3. retry(t)
    <3>1. ASSUME NEW u \in Thread, NEW op, NEW fd, NEW n, fsTransfer(u, op, fd, n)
          PROVE  FALSE
      <4>1. waiting[u] = NoCall /\ \A v \in Thread \ {u} : waiting'[v] = waiting[v]
        BY <2>2, <3>1, ZenonT(60) DEF fsTransfer, Runs
      <4> QED BY <2>1, <4>1, SMT, ZenonT(30), SMTT(60)
    <3>2. ASSUME NEW u \in Thread, finish(u)
          PROVE  FALSE
      <4>1. waiting'[u] = NoCall /\ \A v \in Thread \ {u} : waiting'[v] = waiting[v]
        BY <2>2, <3>2 DEF finish
      <4> QED BY <2>1, <4>1
    <3>3. ASSUME NEW p \in Process, exit(p)
          PROVE  FALSE
      <4>1. waiting'[t] = NoCall \/ waiting'[t] = waiting[t]
        BY <3>3 DEF exit
      <4> QED BY <2>1, <4>1
    <3>4. ASSUME NEW u \in Thread, retry(u)
          PROVE  retry(t)
      <4>1. \A v \in Thread \ {u} : waiting'[v] = waiting[v]
        BY <2>2, <3>4 DEF retry
      <4> QED BY <2>1, <3>4, <4>1
    <3>5. ASSUME NEW u \in Thread, \/ \E fd \in Fds : fsClose(u, fd)
                                   \/ \E a \in CloneArgs : fsClonefd(u, a[1], a[2], a[3], a[4])
                                   \/ \E child \in Process : fork(u, child)
                                   \/ fsPipe(u)
          PROVE  FALSE
      <4>1. waiting' = waiting
        BY <3>5 DEF fsClose, fsClonefd, fork, fsPipe
      <4> QED BY <2>1, <4>1
    <3>6. CASE UNCHANGED vars
      BY <2>1, <3>6, SMT, ZenonT(30), SMTT(60) DEF vars
    <3>7. CASE Next
      BY <3>1, <3>2, <3>3, <3>4, <3>5, <3>7, ZenonT(60) DEF Next, fsRead, fsWrite
    <3> QED BY <1>1, <3>6, <3>7
  <2> DEFINE a == request(waiting[t], Owner[t])
  <2>4. waiting[t] \in Call /\ Owner[t] \in Process
    BY <1>1, EndsAssumption DEF IInv, Waits
  <2>5. waiting'[t].status = a.status /\ waiting'[t].success = a.success
    BY <2>2, <2>3, <2>4 DEF retry, Call
  <2>6. id \in DOMAIN pipes => OthersIn(pipes[id].references, Owner[t]) = {}
    <3>1. a.status = "finished" /\ ~a.success =>
            (waiting[t].node \in DOMAIN pipes =>
              OthersIn(pipes[waiting[t].node].references, Owner[t]) = {})
      BY <1>1, <2>4, RequestOutcome, ZenonT(60)
    <3> HIDE DEF a
    <3> QED BY <2>5, <3>1, SMT, ZenonT(30), SMTT(60)
  <2>7. alive \subseteq Process
    BY <1>1 DEF IInv, Lives
  <2>8. ASSUME NEW q \in alive \ {Owner[t]}, EndsOf(q, id) # {}
        PROVE  FALSE
    <3>1. id \in DOMAIN pipes /\ pipes[id].references[q] > 0
      BY <1>1, <2>7, <2>8, HolderHasReference
    <3> QED BY <2>6, <2>7, <3>1 DEF OthersIn
  <2> QED BY <2>8 DEF OthersHold
<1>2. Spec => []IInv
  BY EndsInvariance
<1>3. IInv /\ [Next]_vars => [Alone]_vars
  BY <1>1
<1>4. Spec => [][Alone]_vars
  BY <1>2, <1>3, PTL DEF Spec
<1> QED
  BY <1>4 DEF ErrorMeansAlone
===============================================================================
