----------------------------- MODULE TaskingWaits -----------------------------
(* What a thread waits for is not forgotten, and no check of the scheduler or  *)
(* of the dispatcher fails before an entry is freed.                           *)
EXTENDS TaskingProofs

-----------------------------------------------------------------------------
(* A step keeps every wait that is not over. *)
KeepsWaits ==
    \A t \in Thread : \A w \in Pending(t) :
        Queued(t)' => w \in Pending(t)' \/ Tick(w) \in Pending(t)' \/ ~checkWaiting(w)

(* The entry core c goes on from after its walk through the wait queue. *)
Entry(c) == IF Walking(c) THEN runningEntry ELSE currentEntry[c]

(* What each step of the kernel is shown to do. *)
Lasting == EntriesInv' /\ WaitersInv' /\ KeepsWaits

(* A current thread has been born. *)
LEMMA CurrentIsBorn ==
    ASSUME IInv, NEW c \in Core, NEW t \in Thread, currentEntry[c] = t
    PROVE  type[t] # "unborn"
  <1>1. Belongs(t, c)
    BY DEF IInv, HomeInv
  <1> QED BY <1>1, HomeIsScheduler

(* A thread that is queued after a step and was born before was queued before. *)
LEMMA QueuedBefore ==
    ASSUME NoneReturns, NEW t \in Thread, type[t] # "unborn", Queued(t)'
    PROVE  Queued(t)
  BY DEF NoneReturns, Removed

(* Waits stay as they are. *)
LEMMA SameKept ==
    ASSUME UNCHANGED <<waitManager, interruptionInfo>>
    PROVE  KeepsWaits
  BY DEF KeepsWaits, Pending

(* Waits and the entries of calling threads stay as they are. *)
LEMMA SameWaits ==
    ASSUME IInv, WaitersInv, NoneReturns, UNCHANGED <<waitManager, interruptionInfo>>,
           \A d \in Core : Calling(d)' => Calling(d) /\ currentEntry'[d] = currentEntry[d]
    PROVE  WaitersInv' /\ KeepsWaits
  <1>1. ASSUME NEW d \in Core, NEW t \in Thread, Calling(d)', currentEntry'[d] = t, Queued(t)'
        PROVE  waitManager'[t] \in {NoWaiter, <<"interruption">>}
    <2>1. Calling(d) /\ currentEntry[d] = t
      BY <1>1
    <2>2. Queued(t)
      BY <1>1, <2>1, CurrentIsBorn, QueuedBefore
    <2> QED BY <2>1, <2>2 DEF WaitersInv
  <1>2. \A t \in Thread : ~Interrupted(t)' => interruptionInfo'[t].waiter = NoWaiter
    BY DEF WaitersInv, Interrupted
  <1>3. WaitersInv'
    BY <1>1, <1>2 DEF WaitersInv
  <1> QED BY <1>3, SameKept

(* No entry was freed before a step that leaves none freed. *)
LEMMA NoneRemovedBefore ==
    ASSUME EntriesInv, NoneReturns, \A t \in Thread : ~Removed(t)'
    PROVE  /\ \A t \in Thread : ~Removed(t)
           /\ phase # "panic"
           /\ \A c \in Core : Ready(Entry(c), c)
  <1>1. \A t \in Thread : ~Removed(t)
    BY DEF NoneReturns
  <1> QED BY <1>1 DEF EntriesInv, Entry

(* Entries stay, or are given up, and run queues only grow. *)
LEMMA SameEntries ==
    ASSUME EntriesInv, NoneReturns, phase' # "panic",
           \A d \in Core : /\ Entry(d)' = Entry(d) \/ Entry(d)' \notin Thread
                           /\ Elements(runQueue[d]) \subseteq Elements(runQueue'[d])
    PROVE  EntriesInv'
  <1> SUFFICES ASSUME \A t \in Thread : ~Removed(t)', NEW d \in Core PROVE Ready(Entry(d), d)'
    BY DEF EntriesInv, Entry
  <1>1. Ready(Entry(d), d)
    BY NoneRemovedBefore
  <1> QED BY <1>1 DEF Ready

(* A step that frees an entry needs no more. *)
LEMMA FreedEntries ==
    ASSUME NEW t \in Thread, Removed(t)'
    PROVE  EntriesInv'
  BY DEF EntriesInv

(* Scheduler::_remove takes the thread out of the queues. *)
LEMMA RemoveRemoves ==
    ASSUME IInv, NEW d \in Core, NEW t \in Thread, Belongs(t, d), remove(d, t), UNCHANGED birth
    PROVE  Removed(t)'
  <1>0. TypeOK /\ QueueDiscipline /\ QueuesAtHome
    BY DEF IInv, HomeInv, QueuesAtHome
  <1>1. type'[t] # "unborn"
    BY HomeIsScheduler DEF birth
  <1>2. QueuesKept
    BY <1>0, RemoveKeeps
  <1>3. ASSUME NEW e \in Core, e # d PROVE t \notin Elements(runQueue'[e]) \cup Elements(waitQueue'[e])
    <2>1. t \notin Elements(runQueue[e]) \cup Elements(waitQueue[e])
      BY <1>0, <1>3, OneHome DEF QueuesAtHome
    <2> QED BY <1>2, <2>1 DEF QueuesKept
  <1>4. t \notin Elements(runQueue'[d])
    <2>1. Elements(removeFromQueue(runQueue[d], t)) = Elements(runQueue[d]) \ {t}
      BY <1>0, RemoveKeepsOthers DEF TypeOK, QueueDiscipline
    <2>2. runQueue'[d] = removeFromQueue(runQueue[d], t)
      BY <1>0 DEF remove, TypeOK
    <2> QED BY <2>1, <2>2
  <1>5. t \notin Elements(waitQueue'[d])
    <2>1. CASE t \in Elements(runQueue[d])
      <3>1. waitQueue' = waitQueue
        BY <2>1 DEF remove
      <3> QED BY <1>0, <2>1, <3>1 DEF QueueDiscipline
    <2>2. CASE t \notin Elements(runQueue[d])
      <3>1. Elements(removeFromQueue(waitQueue[d], t)) = Elements(waitQueue[d]) \ {t}
        BY <1>0, RemoveKeepsOthers DEF TypeOK, QueueDiscipline
      <3>2. waitQueue'[d] = removeFromQueue(waitQueue[d], t)
        BY <1>0, <2>2 DEF remove, TypeOK
      <3> QED BY <3>1, <3>2
    <2> QED BY <2>1, <2>2
  <1>6. ~Queued(t)'
    BY <1>3, <1>4, <1>5 DEF Queued
  <1> QED BY <1>1, <1>6 DEF Removed

-----------------------------------------------------------------------------
(* The handlers. *)

(* A handler that blocks and diverts nobody. *)
LEMMA CallLasts ==
    ASSUME IInv, EntriesInv, WaitersInv, NoneReturns, NEW c \in Core, handlingLock = c, phase = "handle",
           UNCHANGED <<currentEntry, waitManager, interruptionInfo, runningEntry, handlingLock>>,
           \A d \in Core : Elements(runQueue[d]) \subseteq Elements(runQueue'[d]),
           phase' \in {"vm86", "return", "schedule", "hang"}
    PROVE  Lasting
  <1>1. \A d \in Core : Calling(d)' => Calling(d) /\ currentEntry'[d] = currentEntry[d]
    BY DEF Calling
  <1>2. \A d \in Core : Entry(d)' = Entry(d)
    BY DEF Entry, Walking
  <1>3. EntriesInv'
    BY <1>2, SameEntries
  <1> QED BY <1>1, <1>3, SameWaits DEF Lasting

(* Time passes for what is slept for, and for nothing else. *)
LEMMA TickKeepsKind ==
    /\ Tick(NoWaiter) = NoWaiter /\ Tick(<<"interruption">>) = <<"interruption">>
    /\ \A w \in Waiter \ {NoWaiter, <<"interruption">>} : Tick(w) \notin {NoWaiter, <<"interruption">>}
  <1>1. Tick(NoWaiter) = NoWaiter /\ Tick(<<"interruption">>) = <<"interruption">>
    BY DEF Tick, NoWaiter
  <1>2. ASSUME NEW w \in Waiter \ {NoWaiter, <<"interruption">>}
        PROVE  Tick(w) \notin {NoWaiter, <<"interruption">>}
    <2>1. CASE w[1] = "sleep" /\ w[2] > 0
      <3>1. Tick(w)[1] = "sleep"
        BY <2>1 DEF Tick
      <3> QED BY <3>1 DEF NoWaiter
    <2>2. CASE ~(w[1] = "sleep" /\ w[2] > 0)
      BY <2>2 DEF Tick
    <2> QED BY <2>1, <2>2
  <1> QED BY <1>1, <1>2

(* Scheduler::updateMilliseconds. *)
LEMMA TimerLasts ==
    ASSUME IInv, EntriesInv, WaitersInv, NoneReturns, NEW c \in Core, timer(c)
    PROVE  Lasting
  <1>0. TypeOK
    BY DEF IInv
  <1> DEFINE mine(t) == t \in Elements(runQueue[c]) \cup Elements(waitQueue[c])
  <1>1. waitManager' = [t \in Thread |-> IF mine(t) THEN Tick(waitManager[t]) ELSE waitManager[t]]
    BY DEF timer
  <1>2. interruptionInfo' = [t \in Thread |->
           IF mine(t) THEN [interruptionInfo[t] EXCEPT !.waiter = Tick(interruptionInfo[t].waiter)]
                      ELSE interruptionInfo[t]]
    BY DEF timer
  <1>3. /\ handlingLock = c /\ phase = "handle" /\ phase' = "schedule"
        /\ UNCHANGED <<runQueue, waitQueue, currentEntry, runningEntry, handlingLock>>
    BY DEF timer, Handling, ThenSchedule, AtSameCore, queues
  <1>4. \A t \in Thread : waitManager'[t] \in {waitManager[t], Tick(waitManager[t])}
    BY <1>1
  <1>5. ASSUME NEW t \in Thread
        PROVE  /\ interruptionInfo'[t].frame = interruptionInfo[t].frame
               /\ interruptionInfo'[t].waiter =
                    IF mine(t) THEN Tick(interruptionInfo[t].waiter) ELSE interruptionInfo[t].waiter
    <2>1. interruptionInfo[t] \in [waiter : Waiter, frame : Frame \cup {Null}]
      BY <1>0 DEF TypeOK
    <2>2. CASE mine(t)
      <3>1. interruptionInfo'[t] = [interruptionInfo[t] EXCEPT !.waiter = Tick(interruptionInfo[t].waiter)]
        BY <1>2, <2>2
      <3> QED BY <2>1, <2>2, <3>1
    <2>3. CASE ~mine(t)
      <3>1. interruptionInfo'[t] = interruptionInfo[t]
        BY <1>2, <2>3
      <3> QED BY <2>3, <3>1
    <2> QED BY <2>2, <2>3
  <1>6. WaitersInv'
    <2>1. ASSUME NEW d \in Core, NEW t \in Thread, Calling(d)', currentEntry'[d] = t, Queued(t)'
          PROVE  waitManager'[t] \in {NoWaiter, <<"interruption">>}
      <3>1. Calling(d) /\ currentEntry[d] = t /\ Queued(t)
        BY <1>3, <2>1 DEF Calling, Queued
      <3>2. waitManager[t] \in {NoWaiter, <<"interruption">>}
        BY <3>1 DEF WaitersInv
      <3> QED BY <1>4, <3>2, TickKeepsKind
    <2>2. ASSUME NEW t \in Thread, ~Interrupted(t)' PROVE interruptionInfo'[t].waiter = NoWaiter
      <3>1. interruptionInfo[t].waiter = NoWaiter
        BY <1>5, <2>2 DEF WaitersInv, Interrupted
      <3> QED BY <1>5, <3>1, TickKeepsKind
    <2> QED BY <2>1, <2>2 DEF WaitersInv
  <1>7. KeepsWaits
    <2> SUFFICES ASSUME NEW t \in Thread, NEW w \in Pending(t)
                 PROVE  w \in Pending(t)' \/ Tick(w) \in Pending(t)'
      BY DEF KeepsWaits
    <2>1. w \in {waitManager[t], interruptionInfo[t].waiter} /\ w \notin {NoWaiter, <<"interruption">>}
      BY DEF Pending
    <2>2. w \in Waiter
      BY <1>0, <2>1 DEF TypeOK
    <2>3. Tick(w) \notin {NoWaiter, <<"interruption">>}
      BY <2>1, <2>2, TickKeepsKind
    <2>4. CASE mine(t)
      <3>1. Tick(w) \in {waitManager'[t], interruptionInfo'[t].waiter}
        BY <1>1, <1>5, <2>1, <2>4
      <3> QED BY <2>3, <3>1 DEF Pending
    <2>5. CASE ~mine(t)
      <3>1. w \in {waitManager'[t], interruptionInfo'[t].waiter}
        BY <1>1, <1>5, <2>1, <2>5
      <3> QED BY <2>1, <3>1 DEF Pending
    <2> QED BY <2>4, <2>5
  <1>8. \A d \in Core : Entry(d)' = Entry(d)
    BY <1>3 DEF Entry, Walking
  <1>9. EntriesInv'
    BY <1>3, <1>8, SameEntries
  <1> QED BY <1>6, <1>7, <1>9 DEF Lasting

(* Scheduler::moveToWaitQueue gives up the entry of the thread it moves. *)
LEMMA MoveToWaitEntries ==
    ASSUME IInv, EntriesInv, NoneReturns, NEW t \in Thread, moveToWaitQueue(t), phase' # "panic",
           \A d \in Core : ~Walking(d) /\ ~Walking(d)'
    PROVE  EntriesInv'
  <1> DEFINE c == scheduler[t]
  <1>0. TypeOK /\ QueueDiscipline /\ QueuesAtHome /\ c \in Core
    BY DEF IInv, HomeInv, QueuesAtHome, TypeOK
  <1> SUFFICES ASSUME \A u \in Thread : ~Removed(u)', NEW d \in Core, Entry(d)' \in Thread
               PROVE  Entry(d)' \in Elements(runQueue'[d])
    BY DEF EntriesInv, Entry, Ready
  <1>1. currentEntry'[d] \in Thread /\ Entry(d)' = currentEntry'[d]
    BY DEF Entry
  <1>2. Ready(currentEntry[d], d)
    <2>1. Ready(Entry(d), d)
      BY NoneRemovedBefore
    <2> QED BY <2>1 DEF Entry
  <1>3. currentEntry'[d] = currentEntry[d]
    BY <1>0, <1>1, MoveToWaitKeeps, ContextAssumption DEF Null
  <1>4. CASE t \in Elements(runQueue[c])
    <2>1. /\ runQueue' = [runQueue EXCEPT ![c] = removeFromQueue(runQueue[c], t)]
          /\ currentEntry' = [currentEntry EXCEPT
                                ![c] = IF currentEntry[c] = t THEN Null ELSE currentEntry[c]]
      BY <1>4 DEF moveToWaitQueue
    <2>2. CASE d = c
      <3>1. Elements(removeFromQueue(runQueue[c], t)) = Elements(runQueue[c]) \ {t}
        BY <1>0, RemoveKeepsOthers DEF TypeOK, QueueDiscipline
      <3>2. runQueue'[d] = removeFromQueue(runQueue[c], t)
        BY <1>0, <2>1, <2>2 DEF TypeOK
      <3>3. currentEntry[d] # t
        BY <1>0, <1>1, <1>3, <2>1, <2>2, ContextAssumption, ZenonT(60) DEF TypeOK, Null
      <3> QED BY <1>1, <1>2, <1>3, <2>2, <3>1, <3>2, <3>3 DEF Ready
    <2>3. CASE d # c
      <3>1. runQueue'[d] = runQueue[d]
        BY <1>0, <2>1, <2>3 DEF TypeOK
      <3> QED BY <1>1, <1>2, <1>3, <3>1 DEF Ready
    <2> QED BY <2>2, <2>3
  <1>5. CASE t \notin Elements(runQueue[c])
    <2>1. UNCHANGED runQueue
      BY <1>5 DEF moveToWaitQueue, queues
    <2> QED BY <1>1, <1>2, <1>3, <2>1 DEF Ready
  <1> QED BY <1>4, <1>5

(* Thread::wait and Thread::restoreInterruptedState. *)
LEMMA WaitLasts ==
    ASSUME IInv, EntriesInv, WaitersInv, NoneReturns, NEW c \in Core, handlingLock = c,
           phase \in {"handle", "vm86"}, phase' = "schedule", UNCHANGED <<runningEntry, handlingLock>>,
           handled \in Thread, NEW w \in Waiter, wait(handled, w),
           \/ UNCHANGED interruptionInfo
           \/ /\ w = interruptionInfo[handled].waiter
              /\ interruptionInfo' = [interruptionInfo EXCEPT ![handled] = NoInfo]
    PROVE  Lasting
  <1>0. TypeOK /\ QueueDiscipline /\ QueuesAtHome /\ HandlerInv
    BY DEF IInv, HomeInv, QueuesAtHome
  <1>1. currentEntry[c] = handled
    BY <1>0 DEF HandlerInv
  <1>2. waitManager' = [waitManager EXCEPT ![handled] = w]
    BY DEF wait
  <1>3. UNCHANGED queues \/ moveToWaitQueue(handled)
    BY DEF wait
  <1>4. \A d \in Core : ~Walking(d) /\ ~Walking(d)'
    BY DEF Walking
  <1>5. EntriesInv'
    <2>1. CASE UNCHANGED queues
      <3>1. \A d \in Core : Entry(d)' = Entry(d)
        BY <1>4, <2>1 DEF Entry, queues
      <3> QED BY <2>1, <3>1, SameEntries DEF queues
    <2>2. CASE moveToWaitQueue(handled)
      BY <1>4, <2>2, MoveToWaitEntries
    <2> QED BY <1>3, <2>1, <2>2
  <1>6. \A d \in Core : currentEntry'[d] \in {Null, currentEntry[d]}
    <2>1. CASE UNCHANGED queues
      BY <2>1 DEF queues
    <2>2. CASE moveToWaitQueue(handled)
      BY <1>0, <2>2, MoveToWaitKeeps
    <2> QED BY <1>3, <2>1, <2>2
  <1>7. WaitersInv'
    <2>1. ASSUME NEW d \in Core, NEW t \in Thread, Calling(d)', currentEntry'[d] = t, Queued(t)'
          PROVE  waitManager'[t] \in {NoWaiter, <<"interruption">>}
      <3>1. d # c
        BY <2>1 DEF Calling
      <3>2. currentEntry[d] = t /\ Calling(d)
        BY <1>6, <2>1, <3>1, ContextAssumption DEF Null, Calling
      <3>3. t # handled
        <4>1. Belongs(currentEntry[c], c) /\ Belongs(currentEntry[d], d)
          BY DEF IInv, HomeInv
        <4> QED BY <1>1, <3>1, <3>2, <4>1, OneHome
      <3>4. Queued(t)
        BY <2>1, <3>2, CurrentIsBorn, QueuedBefore
      <3>5. waitManager'[t] = waitManager[t]
        BY <1>0, <1>2, <3>3 DEF TypeOK
      <3> QED BY <3>2, <3>4, <3>5 DEF WaitersInv
    <2>2. ASSUME NEW t \in Thread, ~Interrupted(t)' PROVE interruptionInfo'[t].waiter = NoWaiter
      <3>1. CASE interruptionInfo'[t] = NoInfo
        BY <3>1 DEF NoInfo
      <3>2. CASE interruptionInfo'[t] = interruptionInfo[t]
        BY <2>2, <3>2 DEF Interrupted, WaitersInv
      <3>3. interruptionInfo'[t] \in {NoInfo, interruptionInfo[t]}
        BY <1>0 DEF TypeOK
      <3> QED BY <3>1, <3>2, <3>3
    <2> QED BY <2>1, <2>2 DEF WaitersInv
  <1>8. KeepsWaits
    <2> SUFFICES ASSUME NEW t \in Thread, NEW x \in Pending(t), Queued(t)' PROVE x \in Pending(t)'
      BY DEF KeepsWaits
    <2>1. x \in {waitManager[t], interruptionInfo[t].waiter} /\ x \notin {NoWaiter, <<"interruption">>}
      BY DEF Pending
    <2>2. CASE t # handled
      <3>1. waitManager'[t] = waitManager[t] /\ interruptionInfo'[t] = interruptionInfo[t]
        BY <1>0, <1>2, <2>2 DEF TypeOK
      <3> QED BY <2>1, <3>1 DEF Pending
    <2>3. CASE t = handled
      <3>1. Queued(t)
        BY <1>1, <2>3, CurrentIsBorn, QueuedBefore
      <3>2. Calling(c)
        BY DEF Calling
      <3>3. waitManager[t] \in {NoWaiter, <<"interruption">>}
        BY <1>1, <2>3, <3>1, <3>2 DEF WaitersInv
      <3>4. x = interruptionInfo[t].waiter
        BY <2>1, <3>3
      <3>5. CASE UNCHANGED interruptionInfo
        BY <2>1, <3>4, <3>5 DEF Pending
      <3>6. CASE w = interruptionInfo[handled].waiter
        <4>1. waitManager'[t] = x
          BY <1>0, <1>2, <2>3, <3>4, <3>6 DEF TypeOK
        <4> QED BY <2>1, <4>1 DEF Pending
      <3> QED BY <3>5, <3>6
    <2> QED BY <2>2, <2>3
  <1> QED BY <1>5, <1>7, <1>8 DEF Lasting

(* Thread::enterIrqHandler and Thread::enterSignalHandler. *)
LEMMA EnterLasts ==
    ASSUME IInv, EntriesInv, WaitersInv, NoneReturns, NEW c \in Core, handlingLock = c,
           phase = "handle", phase' = "schedule", UNCHANGED <<runningEntry, handlingLock>>,
           NEW h \in Thread, enterHandler(h)
    PROVE  Lasting
  <1>0. TypeOK /\ QueueDiscipline /\ QueuesAtHome
    BY DEF IInv, HomeInv, QueuesAtHome
  <1>1. CASE Interrupted(h)
    <2>1. UNCHANGED <<runQueue, currentEntry, waitManager, interruptionInfo>>
      BY <1>1 DEF enterHandler, queues
    <2> QED BY <2>1, CallLasts
  <1>2. CASE ~Interrupted(h)
    <2>1. /\ interruptionInfo' = [interruptionInfo EXCEPT ![h] = [waiter |-> waitManager[h], frame |-> NoFrame]]
          /\ waitManager' = [waitManager EXCEPT ![h] = <<"interruption">>]
          /\ moveToWaitQueue(h)
      BY <1>2 DEF enterHandler
    <2>2. \A d \in Core : ~Walking(d) /\ ~Walking(d)'
      BY DEF Walking
    <2>3. EntriesInv'
      BY <2>1, <2>2, MoveToWaitEntries, SMT, ZenonT(30), SMTT(60)
    <2>4. waitManager'[h] = <<"interruption">>
          /\ interruptionInfo'[h] = [waiter |-> waitManager[h], frame |-> NoFrame]
          /\ \A t \in Thread : t # h => waitManager'[t] = waitManager[t] /\ interruptionInfo'[t] = interruptionInfo[t]
      BY <1>0, <2>1, SMT, ZenonT(30), SMTT(60) DEF TypeOK
    <2>5. WaitersInv'
      <3>1. ASSUME NEW d \in Core, NEW t \in Thread, Calling(d)', currentEntry'[d] = t, Queued(t)'
            PROVE  waitManager'[t] \in {NoWaiter, <<"interruption">>}
        <4>1. d # c /\ currentEntry'[d] \in {Null, currentEntry[d]}
          BY <1>0, <2>1, <3>1, MoveToWaitKeeps DEF Calling
        <4>2. currentEntry[d] = t /\ Calling(d)
          BY <3>1, <4>1, ContextAssumption DEF Null, Calling
        <4>3. Queued(t)
          BY <3>1, <4>2, CurrentIsBorn, QueuedBefore
        <4> QED BY <2>4, <4>2, <4>3, ZenonT(60) DEF WaitersInv
      <3>2. ASSUME NEW t \in Thread, ~Interrupted(t)' PROVE interruptionInfo'[t].waiter = NoWaiter
        <4>1. t # h
          BY <2>4, <3>2 DEF Interrupted, NoFrame, Null
        <4>2. interruptionInfo'[t] = interruptionInfo[t]
          BY <2>4, <4>1
        <4> QED BY <3>2, <4>2 DEF Interrupted, WaitersInv
      <3> QED BY <3>1, <3>2, SMT, ZenonT(30), SMTT(60) DEF WaitersInv
    <2>6. KeepsWaits
      <3> SUFFICES ASSUME NEW t \in Thread, NEW x \in Pending(t) PROVE x \in Pending(t)'
        BY DEF KeepsWaits
      <3>1. x \in {waitManager[t], interruptionInfo[t].waiter} /\ x \notin {NoWaiter, <<"interruption">>}
        BY DEF Pending
      <3>2. CASE t # h
        BY <2>4, <3>1, <3>2 DEF Pending
      <3>3. CASE t = h
        <4>1. interruptionInfo[h].waiter = NoWaiter
          BY <1>2 DEF WaitersInv
        <4>2. x = interruptionInfo'[h].waiter
          BY <2>4, <3>1, <3>3, <4>1
        <4> QED BY <3>1, <3>3, <4>2 DEF Pending
      <3> QED BY <3>2, <3>3
    <2> QED BY <2>3, <2>5, <2>6 DEF Lasting
  <1> QED BY <1>1, <1>2

(* A handler that leaves the queues alone, too. *)
LEMMA QuietLasts ==
    ASSUME IInv, EntriesInv, WaitersInv, NoneReturns, NEW c \in Core, handlingLock = c, phase = "handle",
           UNCHANGED <<queues, waitManager, interruptionInfo, runningEntry, handlingLock>>,
           phase' \in {"return", "schedule", "hang"}
    PROVE  Lasting
  BY CallLasts DEF queues

(* The handlers of this kind. *)
LEMMA QuietHandlersLast ==
    ASSUME IInv, EntriesInv, WaitersInv, NoneReturns, NEW c \in Core,
           \/ query(c) \/ yield(c) \/ hang(c) \/ exit(c) \/ exitThread(c) \/ kill(c)
           \/ handleInvalidOperationCode(c) \/ handleGeneralProtectionFault(c)
           \/ registerIrqHandler(c) \/ registerSignalHandler(c)
    PROVE  Lasting
  <1>1. CASE query(c) \/ yield(c) \/ hang(c)
    BY <1>1, QuietLasts DEF query, yield, hang, Handling, ThenReturn, ThenSchedule, AtSameCore, threads, locals
  <1>2. ASSUME NEW dead, handlingLock = c, phase = "handle", Die(c, dead) PROVE Lasting
    BY <1>2, QuietLasts, SMT, ZenonT(30), SMTT(60) DEF Die, ThenSchedule, AtSameCore
  <1>3. CASE exit(c) \/ exitThread(c) \/ kill(c) \/ handleInvalidOperationCode(c) \/ handleGeneralProtectionFault(c)
    BY <1>2, <1>3, ZenonT(60) DEF exit, exitThread, kill, handleInvalidOperationCode, handleGeneralProtectionFault, Handling
  <1>4. CASE registerIrqHandler(c) \/ registerSignalHandler(c)
    BY <1>4, QuietLasts, SMT, ZenonT(30), SMTT(60) DEF registerIrqHandler, registerSignalHandler, Handling, ThenReturn, AtSameCore, threads, locals
  <1> QED BY <1>1, <1>3, <1>4, SMT, ZenonT(30), SMTT(60)

(* An interrupt line diverts its handler, if it has one that exists. *)
LEMMA IrqLasts ==
    ASSUME IInv, EntriesInv, WaitersInv, NoneReturns, NEW c \in Core, irq(c)
    PROVE  Lasting
  <1> DEFINE h == irqHandler[frame[handled][2]]
  <1>1. handlingLock = c /\ phase = "handle" /\ UNCHANGED handlingLock
    BY DEF irq, Handling, AtSameCore
  <1>2. CASE h # Null /\ getTaskById(h)
    <2>1. enterHandler(h) /\ phase' = "schedule" /\ UNCHANGED runningEntry
      BY <1>2 DEF irq, ThenSchedule
    <2>2. h \in Thread
      BY <1>2, ElementsAreThreads DEF getTaskById, Queued, IInv, TypeOK
    <2> QED BY <1>1, <2>1, <2>2, EnterLasts
  <1>3. CASE ~(h # Null /\ getTaskById(h))
    <2>1. ThenReturn /\ UNCHANGED <<queues, waitManager, interruptionInfo>>
      BY <1>3 DEF irq
    <2> QED BY <1>1, <2>1, QuietLasts DEF ThenReturn, locals
  <1> QED BY <1>2, <1>3

(* The calls that block. *)
LEMMA BlockingLasts ==
    ASSUME IInv, EntriesInv, WaitersInv, NoneReturns, NEW c \in Core,
           sleep(c) \/ join(c) \/ waitForIrq(c) \/ callVm86Wait(c)
    PROVE  Lasting
  <1>0. TypeOK /\ HandlerInv
    BY DEF IInv
  <1>a. {"sleep", "join", "waitForIrq"} \cap HardwareOps = {}
    BY DEF HardwareOps
  <1>b. ASSUME NEW w \in Waiter, handlingLock = c, phase = "handle", handled \in Thread, Block(c, w)
        PROVE  Lasting
    BY <1>b, WaitLasts DEF Block, ThenSchedule, AtSameCore
  <1>c. ASSUME handlingLock = c, phase = "handle", ThenSchedule \/ ThenReturn, AtSameCore,
               UNCHANGED <<queues, threads>>
        PROVE  Lasting
    BY <1>c, QuietLasts DEF ThenSchedule, ThenReturn, AtSameCore, threads, locals
  <1>1. CASE sleep(c)
    <2>1. Handling(c, "sleep") /\ handlingLock = c /\ phase = "handle"
      BY <1>1 DEF sleep, Handling
    <2>2. handled \in Thread /\ frame[handled] \in Waiter
      BY <1>0, <1>a, <2>1, HandledRequest, RequestArguments DEF Waiter
    <2> QED BY <1>1, <1>b, <1>c, <2>1, <2>2 DEF sleep
  <1>2. CASE join(c)
    <2>1. Handling(c, "join") /\ handlingLock = c /\ phase = "handle" /\ Block(c, frame[handled])
      BY <1>2 DEF join, Handling
    <2>2. handled \in Thread /\ frame[handled] \in Waiter
      BY <1>0, <1>a, <2>1, HandledRequest, RequestArguments DEF Waiter
    <2> QED BY <1>b, <2>1, <2>2
  <1>3. CASE waitForIrq(c)
    <2>1. Handling(c, "waitForIrq") /\ handlingLock = c /\ phase = "handle"
      BY <1>3 DEF waitForIrq, Handling
    <2>2. handled \in Thread /\ <<"irq", frame[handled][2]>> \in Waiter
      BY <1>0, <1>a, <2>1, HandledRequest, RequestArguments DEF Waiter
    <2> QED BY <1>3, <1>b, <1>c, <2>1, <2>2 DEF waitForIrq
  <1>4. CASE callVm86Wait(c)
    <2>1. handlingLock = c /\ phase = "vm86" /\ wait(handled, <<"vm86", reaping>>) /\ phase' = "schedule"
          /\ UNCHANGED <<handlingLock, runningEntry, interruptionInfo>>
      BY <1>4 DEF callVm86Wait, AtSameCore
    <2>2. handled \in Thread /\ <<"vm86", reaping>> \in Waiter
      BY <1>0, <2>1 DEF HandlerInv, Waiter
    <2> QED BY <2>1, <2>2, WaitLasts
  <1> QED BY <1>1, <1>2, <1>3, <1>4

(* Thread::raiseSignal diverts, kills or does nothing. *)
LEMMA SignalLasts ==
    ASSUME IInv, EntriesInv, WaitersInv, NoneReturns, NEW c \in Core, handlingLock = c, phase = "handle",
           ThenSchedule, AtSameCore, NEW t \in Thread, NEW s, raiseSignalIn(t, s)
    PROVE  Lasting
  <1> DEFINE h == signalHandler[process[t]][s]
  <1>0. phase' = "schedule" /\ UNCHANGED <<handlingLock, runningEntry>>
    BY DEF ThenSchedule, AtSameCore
  <1>1. CASE h # Null /\ (h = t \/ getTaskById(h))
    <2>1. enterHandler(h)
      BY <1>1 DEF raiseSignalIn
    <2>2. h \in Thread
      BY <1>1, ElementsAreThreads DEF getTaskById, Queued, IInv, TypeOK
    <2> QED BY <1>0, <2>1, <2>2, EnterLasts
  <1>2. CASE ~(h # Null /\ (h = t \/ getTaskById(h)))
    <2>1. UNCHANGED <<queues, waitManager, interruptionInfo>>
      BY <1>2 DEF raiseSignalIn
    <2> QED BY <1>0, <2>1, QuietLasts
  <1> QED BY <1>1, <1>2

(* raiseSignal, page faults and restoreInterruptedState. *)
LEMMA SignallingLasts ==
    ASSUME IInv, EntriesInv, WaitersInv, NoneReturns, NEW c \in Core,
           raiseSignal(c) \/ handlePageFault(c) \/ restoreInterruptedState(c)
    PROVE  Lasting
  <1>0. TypeOK /\ HandlerInv
    BY DEF IInv
  <1>a. {"raiseSignal", "pageFault", "restoreInterruptedState"} \cap HardwareOps = {}
    BY SMT, ZenonT(30), SMTT(60) DEF HardwareOps
  <1>1. CASE raiseSignal(c)
    <2> DEFINE target == frame[handled][2]
    <2>1. Handling(c, "raiseSignal") /\ handlingLock = c /\ phase = "handle" /\ ThenSchedule /\ AtSameCore
      BY <1>1, ZenonT(60) DEF raiseSignal, Handling
    <2>2. target \in Thread
      BY <1>0, <1>a, <2>1, HandledRequest, RequestArguments
    <2>3. CASE raiseSignalIn(target, frame[handled][3])
      BY <2>1, <2>2, <2>3, SignalLasts
    <2>4. CASE UNCHANGED <<queues, alive, waitManager, interruptionInfo>>
      BY <2>1, <2>4, QuietLasts DEF ThenSchedule, AtSameCore
    <2> QED BY <1>1, <2>3, <2>4, ZenonT(60) DEF raiseSignal
  <1>2. CASE handlePageFault(c)
    <2>1. Handling(c, "pageFault") /\ handlingLock = c /\ phase = "handle" /\ AtSameCore
      BY <1>2 DEF handlePageFault, Handling
    <2>2. handled \in Thread
      BY <1>0, <1>a, <2>1, HandledRequest
    <2>3. CASE ThenReturn /\ UNCHANGED <<queues, alive, waitManager, interruptionInfo>>
      BY <2>1, <2>3, QuietLasts DEF ThenReturn, AtSameCore, locals
    <2>4. CASE ThenSchedule /\ raiseSignalIn(handled, SIGSEGV)
      BY <2>1, <2>2, <2>4, SignalLasts
    <2> QED BY <1>2, <2>3, <2>4 DEF handlePageFault
  <1>3. CASE restoreInterruptedState(c)
    <2>1. Handling(c, "restoreInterruptedState") /\ handlingLock = c /\ phase = "handle" /\ AtSameCore
      BY <1>3 DEF restoreInterruptedState, Handling
    <2>2. handled \in Thread
      BY <1>0, <1>a, <2>1, HandledRequest
    <2>3. CASE ~Interrupted(handled)
      <3>1. phase' = "hang" /\ UNCHANGED <<queues, threads, locals>>
        BY <1>3, <2>3, ZenonT(60) DEF restoreInterruptedState
      <3> QED BY <2>1, <3>1, QuietLasts, SMT, ZenonT(30), SMTT(60) DEF threads, locals, AtSameCore
    <2>4. CASE Interrupted(handled)
      <3>1. /\ wait(handled, interruptionInfo[handled].waiter) /\ ThenSchedule
            /\ interruptionInfo' = [interruptionInfo EXCEPT ![handled] = NoInfo]
        BY <1>3, <2>4, ZenonT(60) DEF restoreInterruptedState
      <3>2. interruptionInfo[handled].waiter \in Waiter
        BY <1>0, <2>2, SMT, ZenonT(30), SMTT(60) DEF TypeOK
      <3> QED BY <2>1, <2>2, <3>1, <3>2, WaitLasts, SMT, ZenonT(30), SMTT(60) DEF ThenSchedule, AtSameCore
    <2> QED BY <2>3, <2>4, SMT, ZenonT(30), SMTT(60)
  <1> QED BY <1>1, <1>2, <1>3

(* Creation puts the new thread into a run queue. *)
LEMMA CreationLasts ==
    ASSUME IInv, EntriesInv, WaitersInv, NoneReturns, NEW c \in Core, fork(c) \/ createThread(c) \/ callVm86(c)
    PROVE  Lasting
  <1>0. TypeOK /\ QueueDiscipline /\ HomeInv
    BY DEF IInv
  <1>1. ASSUME NEW t \in Unborn, NEW kind, NEW main, NEW state, addTask(t, kind, main, state)
        PROVE  \A d \in Core : Elements(runQueue[d]) \subseteq Elements(runQueue'[d])
    <2>1. PICK e \in Core : runQueue' = [runQueue EXCEPT ![e] = <<t>> \o runQueue[e]]
      BY <1>1, ZenonT(30) DEF addTask
    <2>2. t \in Thread /\ t \notin Elements(runQueue[e])
      BY <1>0, HomeIsScheduler DEF Unborn, HomeInv
    <2>3. Elements(<<t>> \o runQueue[e]) = {t} \cup Elements(runQueue[e])
      BY <1>0, <2>2, PutInFront DEF TypeOK, QueueDiscipline
    <2> SUFFICES ASSUME NEW d \in Core PROVE Elements(runQueue[d]) \subseteq Elements(runQueue'[d])
      OBVIOUS
    <2>4. CASE d = e
      BY <1>0, <2>1, <2>3, <2>4, ZenonT(60) DEF TypeOK
    <2>5. CASE d # e
      BY <1>0, <2>1, <2>5 DEF TypeOK
    <2> QED BY <2>4, <2>5
  <1>2. handlingLock = c /\ phase = "handle" /\ phase' \in {"vm86", "return", "schedule"}
        /\ UNCHANGED <<currentEntry, waitManager, interruptionInfo, runningEntry, handlingLock>>
    BY DEF fork, createThread, callVm86, Handling, ThenReturn, ThenSchedule, AtSameCore, locals
  <1>3. \A d \in Core : Elements(runQueue[d]) \subseteq Elements(runQueue'[d])
    <2>1. CASE runQueue' = runQueue
      BY <2>1
    <2>2. CASE runQueue' # runQueue
      <3>1. \E t \in Unborn : \E kind, main, state : addTask(t, kind, main, state)
        BY <2>2, ZenonT(30) DEF fork, createThread, callVm86, forkThread, createSubThread, createProcessVm86
      <3> QED BY <1>1, <3>1
    <2> QED BY <2>1, <2>2
  <1> QED BY <1>2, <1>3, CallLasts

-----------------------------------------------------------------------------
(* The scheduler. *)

(* A step inside Scheduler::schedule that wakes nobody. *)
LEMMA InScheduleLasts ==
    ASSUME IInv, EntriesInv, WaitersInv, NoneReturns, NEW c \in Core, handlingLock = c,
           phase \notin {"handle", "vm86", "return"}, phase' \notin {"handle", "vm86", "return"},
           UNCHANGED <<waitManager, interruptionInfo, handlingLock>>,
           \A d \in Core : d # c => currentEntry'[d] = currentEntry[d]
    PROVE  WaitersInv' /\ KeepsWaits
  <1>1. \A d \in Core : Calling(d)' => Calling(d) /\ currentEntry'[d] = currentEntry[d]
    BY DEF Calling
  <1> QED BY <1>1, SameWaits

(* The beginning and the end of the walk: the running entry is put aside. *)
LEMMA WalkEndsLast ==
    ASSUME IInv, EntriesInv, WaitersInv, NoneReturns, NEW c \in Core, schedule(c) \/ endProcessWaitQueue(c)
    PROVE  Lasting
  <1>0. TypeOK
    BY SMT, ZenonT(30), SMTT(60) DEF IInv
  <1>1. UNCHANGED <<runQueue, waitManager, interruptionInfo, handlingLock>> /\ handlingLock = c
    BY DEF schedule, endProcessWaitQueue, Scheduling, SchedulerOnly, AtSameCore
  <1>2. \A d \in Core : d # c => currentEntry'[d] = currentEntry[d]
    BY <1>0 DEF schedule, endProcessWaitQueue, TypeOK
  <1>3. CASE schedule(c)
    <2>1. phase = "schedule" /\ phase' = "processWaitQueue" /\ runningEntry' = currentEntry[c]
      BY <1>3 DEF schedule, Scheduling
    <2>2. \A d \in Core : Entry(d)' = Entry(d)
      BY <1>1, <1>2, <2>1 DEF Entry, Walking
    <2>3. EntriesInv'
      BY <1>1, <2>1, <2>2, SameEntries
    <2> QED BY <1>1, <1>2, <2>1, <2>3, InScheduleLasts DEF Lasting
  <1>4. CASE endProcessWaitQueue(c)
    <2>1. phase = "processWaitQueue" /\ phase' = "select" /\ currentEntry'[c] = runningEntry
      BY <1>0, <1>4 DEF endProcessWaitQueue, Scheduling, TypeOK
    <2>2. \A d \in Core : Entry(d)' = Entry(d)
      BY <1>1, <1>2, <2>1 DEF Entry, Walking
    <2>3. EntriesInv'
      BY <1>1, <2>1, <2>2, SameEntries
    <2> QED BY <1>1, <1>2, <2>1, <2>3, InScheduleLasts DEF Lasting
  <1> QED BY <1>3, <1>4

(* Nothing looks like the null frame of interruptionInfo. *)
LEMMA FrameIsNotNull == Null \notin Frame
  <1>1. \A r \in Request : r[1] # "null"
    BY DEF Request, HardwareRequest, Exception, PlainRequest
  <1>2. <<"null">>[1] = "null"
    OBVIOUS
  <1> QED BY <1>1, <1>2 DEF Frame, Null, NoFrame

(* One turn of Scheduler::_processWaitQueue. *)
LEMMA WalkLasts ==
    ASSUME IInv, EntriesInv, WaitersInv, NoneReturns, NEW c \in Core, processWaitQueue(c)
    PROVE  Lasting
  <1> DEFINE t == currentEntry[c]
  <1>0. TypeOK /\ QueueDiscipline /\ QueuesAtHome /\ HandlerInv /\ HomeInv
    BY DEF IInv, HomeInv, QueuesAtHome
  <1>1. /\ handlingLock = c /\ phase = "processWaitQueue" /\ UNCHANGED <<handlingLock, runningEntry, birth>>
        /\ currentEntry' = [currentEntry EXCEPT ![c] = next(c, t)]
    BY DEF processWaitQueue, Scheduling, SchedulerOnly, AtSameCore
  <1>2. t \in Thread /\ Belongs(t, c)
    BY <1>0, <1>1 DEF processWaitQueue, HandlerInv, HomeInv
  <1>3. \A d \in Core : d # c => currentEntry'[d] = currentEntry[d]
    BY <1>0, <1>1 DEF TypeOK
  <1>4. ASSUME phase' \in {"processWaitQueue", "removeThenWalk"} PROVE \A d \in Core : Entry(d)' = Entry(d)
    BY <1>1, <1>3, <1>4 DEF Entry, Walking
  <1>5. CASE ~alive[t] /\ type[t] = "main"
    <2>1. phase' = "removeThenWalk" /\ UNCHANGED <<runQueue, waitManager, interruptionInfo>>
      BY <1>5 DEF processWaitQueue
    <2>2. EntriesInv'
      BY <1>4, <2>1, SameEntries
    <2> QED BY <1>1, <1>3, <2>1, <2>2, InScheduleLasts DEF Lasting
  <1>6. CASE ~alive[t] /\ type[t] # "main"
    <2>1. remove(c, t) /\ UNCHANGED <<waitManager, interruptionInfo, phase>>
      BY <1>6 DEF processWaitQueue
    <2>2. PICK u \in Thread : u = t
      BY <1>2
    <2>3. EntriesInv'
      <3>1. remove(c, u) /\ Belongs(u, c)
        BY <1>2, <2>1, <2>2
      <3>2. Removed(u)'
        BY <1>1, <3>1, RemoveRemoves
      <3> QED BY <3>2, FreedEntries
    <2> QED BY <1>1, <1>3, <2>1, <2>3, InScheduleLasts DEF Lasting
  <1>7. CASE alive[t] /\ (waitManager[t] = NoWaiter \/ checkWaiting(waitManager[t]))
    <2>1. UNCHANGED <<runQueue, waitManager, interruptionInfo, phase>>
      BY <1>7 DEF processWaitQueue
    <2>2. EntriesInv'
      BY <1>1, <1>4, <2>1, SameEntries
    <2> QED BY <1>1, <1>3, <2>1, <2>2, InScheduleLasts DEF Lasting
  <1>8. CASE alive[t] /\ ~(waitManager[t] = NoWaiter \/ checkWaiting(waitManager[t]))
    <2>1. /\ moveToRunQueue(t) /\ UNCHANGED phase
          /\ waitManager' = [waitManager EXCEPT ![t] = NoWaiter]
          /\ interruptionInfo' = IF waitManager[t] = <<"interruption">>
               THEN [interruptionInfo EXCEPT ![t].frame = frame[t]] ELSE interruptionInfo
      BY <1>8 DEF processWaitQueue
    <2>2. \A d \in Core : Elements(runQueue[d]) \subseteq Elements(runQueue'[d])
      <3>1. CASE t \in Elements(waitQueue[c])
        <4>1. scheduler[t] = c
          BY <1>2, HomeIsScheduler
        <4>2. runQueue' = [runQueue EXCEPT ![c] = <<t>> \o runQueue[c]]
          BY <2>1, <3>1, <4>1 DEF moveToRunQueue
        <4>3. Elements(<<t>> \o runQueue[c]) = {t} \cup Elements(runQueue[c])
          BY <1>0, <1>2, <3>1, PutInFront, SMT, ZenonT(30), SMTT(60) DEF TypeOK, QueueDiscipline
        <4>4. ASSUME NEW d \in Core PROVE Elements(runQueue[d]) \subseteq Elements(runQueue'[d])
          <5>1. CASE d = c
            BY <1>0, <4>2, <4>3, <5>1, ZenonT(60) DEF TypeOK
          <5>2. CASE d # c
            BY <1>0, <4>2, <5>2 DEF TypeOK
          <5> QED BY <5>1, <5>2
        <4> QED BY <4>4
      <3>2. CASE t \notin Elements(waitQueue[c])
        <4>1. scheduler[t] = c
          BY <1>2, HomeIsScheduler
        <4> QED BY <2>1, <3>2, <4>1 DEF moveToRunQueue
      <3> QED BY <3>1, <3>2
    <2>3. EntriesInv'
      BY <1>1, <1>4, <2>1, <2>2, SameEntries
    <2>4. /\ waitManager'[t] = NoWaiter
          /\ \A u \in Thread : u # t => waitManager'[u] = waitManager[u]
      BY <1>0, <1>2, <2>1 DEF TypeOK
    <2>5. ASSUME NEW u \in Thread
          PROVE  /\ interruptionInfo'[u].waiter = interruptionInfo[u].waiter
                 /\ interruptionInfo'[u].frame = interruptionInfo[u].frame \/ interruptionInfo'[u].frame # Null
      <3>1. interruptionInfo[u] \in [waiter : Waiter, frame : Frame \cup {Null}]
        BY <1>0 DEF TypeOK
      <3>2. CASE interruptionInfo'[u] = interruptionInfo[u]
        BY <3>2
      <3>3. CASE interruptionInfo'[u] # interruptionInfo[u]
        <4>1. u = t /\ interruptionInfo'[u] = [interruptionInfo[u] EXCEPT !.frame = frame[u]]
          BY <1>0, <1>2, <2>1, <3>3, ZenonT(60) DEF TypeOK
        <4>2. frame[u] \in Frame
          BY <1>0 DEF TypeOK, Context
        <4>3. interruptionInfo'[u].waiter = interruptionInfo[u].waiter /\ interruptionInfo'[u].frame = frame[u]
          BY <3>1, <4>1
        <4> QED BY <4>2, <4>3, FrameIsNotNull
      <3> QED BY <3>2, <3>3
    <2>6. WaitersInv'
      <3>1. ASSUME NEW d \in Core, NEW u \in Thread, Calling(d)', currentEntry'[d] = u, Queued(u)'
            PROVE  waitManager'[u] \in {NoWaiter, <<"interruption">>}
        <4>1. d # c /\ Calling(d)
          BY <1>1, <2>1, <3>1 DEF Calling
        <4>2. currentEntry[d] = u
          BY <1>3, <3>1, <4>1
        <4>3. Queued(u)
          BY <3>1, <4>2, CurrentIsBorn, QueuedBefore
        <4> QED BY <2>4, <4>1, <4>2, <4>3, Zenon DEF WaitersInv
      <3>2. ASSUME NEW u \in Thread, ~Interrupted(u)' PROVE interruptionInfo'[u].waiter = NoWaiter
        BY <2>5, <3>2 DEF Interrupted, WaitersInv
      <3> QED BY <3>1, <3>2 DEF WaitersInv
    <2>7. KeepsWaits
      <3> SUFFICES ASSUME NEW u \in Thread, NEW w \in Pending(u)
                   PROVE  w \in Pending(u)' \/ ~checkWaiting(w)
        BY DEF KeepsWaits
      <3>1. w \in {waitManager[u], interruptionInfo[u].waiter} /\ w \notin {NoWaiter, <<"interruption">>}
        BY DEF Pending
      <3>2. CASE w = interruptionInfo[u].waiter
        <4>1. w = interruptionInfo'[u].waiter
          BY <2>5, <3>2
        <4> QED BY <3>1, <4>1 DEF Pending
      <3>3. CASE w = waitManager[u] /\ u # t
        <4>1. w = waitManager'[u]
          BY <2>4, <3>3
        <4> QED BY <3>1, <4>1 DEF Pending
      <3>4. CASE w = waitManager[u] /\ u = t
        BY <1>8, <3>4
      <3> QED BY <3>1, <3>2, <3>3, <3>4
    <2> QED BY <2>3, <2>6, <2>7 DEF Lasting
  <1> QED BY <1>5, <1>6, <1>7, <1>8, SMT, ZenonT(30), SMTT(60)

(* Tasking::removeThreads. *)
LEMMA RemoveThreadsLasts ==
    ASSUME IInv, EntriesInv, WaitersInv, NoneReturns, NEW c \in Core, removeThreads(c)
    PROVE  Lasting
  <1>0. TypeOK /\ QueuesAtHome
    BY SMT, ZenonT(30), SMTT(60) DEF IInv, HomeInv, QueuesAtHome
  <1>1. /\ handlingLock = c /\ phase \in {"removeThenWalk", "removeThenSelect"}
        /\ UNCHANGED <<currentEntry, waitManager, interruptionInfo, handlingLock, runningEntry, birth>>
    BY DEF removeThreads, SchedulerOnly, AtSameCore
  <1>2. CASE \A d \in Core : Victims(runQueue[d]) \cup Victims(waitQueue[d]) = {}
    <2>1. /\ phase' = IF phase = "removeThenWalk" THEN "processWaitQueue" ELSE "select"
          /\ UNCHANGED runQueue
      BY <1>2 DEF removeThreads
    <2>2. \A d \in Core : Entry(d)' = Entry(d)
      BY <1>1, <2>1 DEF Entry, Walking
    <2>3. EntriesInv'
      BY <2>1, <2>2, SameEntries
    <2> QED BY <1>1, <2>1, <2>3, InScheduleLasts, SMT, ZenonT(30), SMTT(60) DEF Lasting
  <1>3. CASE ~\A d \in Core : Victims(runQueue[d]) \cup Victims(waitQueue[d]) = {}
    <2>1. PICK d \in Core : \E t \in Victims(runQueue[d]) \cup Victims(waitQueue[d]) : remove(d, t)
      BY <1>3 DEF removeThreads
    <2>2. PICK t \in Victims(runQueue[d]) \cup Victims(waitQueue[d]) : remove(d, t)
      BY <2>1
    <2>3. UNCHANGED phase
      BY <1>3 DEF removeThreads
    <2>4. t \in Elements(runQueue[d]) \cup Elements(waitQueue[d])
      BY DEF Victims
    <2>5. t \in Thread /\ Belongs(t, d)
      BY <1>0, <2>4, ElementsAreThreads, SMT, ZenonT(30), SMTT(60) DEF QueuesAtHome, TypeOK
    <2>6. EntriesInv'
      BY <1>1, <2>2, <2>5, RemoveRemoves, FreedEntries, ZenonT(60)
    <2> QED BY <1>1, <2>3, <2>6, InScheduleLasts, SMT, ZenonT(30), SMTT(60) DEF Lasting
  <1> QED BY <1>2, <1>3, SMT, ZenonT(30), SMTT(60)

(* Until an entry is freed, the selection loop stays in the run queue. *)
LEMMA CandidateIsReady ==
    ASSUME IInv, NEW c \in Core, Ready(currentEntry[c], c)
    PROVE  Ready(Candidate(c), c)
  <1>0. runQueue[c] \in Seq(Thread) /\ ReadyMeansReady
    BY DEF IInv, TypeOK
  <1> DEFINE after == IF currentEntry[c] = Null THEN Null ELSE next(c, currentEntry[c])
             inQueue == IF after = Null THEN HeadOf(runQueue[c]) ELSE after
  <1>1. Null \notin Thread /\ Idle(c) \notin Thread
    BY ContextAssumption, ZenonT(60) DEF Null, Idle
  <1>2. after = Null \/ after \in Elements(runQueue[c])
    <2>1. CASE currentEntry[c] \notin Thread
      BY <2>1 DEF next
    <2>2. CASE currentEntry[c] \in Thread
      <3> DEFINE q == runQueue[c]
                 e == currentEntry[c]
      <3>1. e \in Elements(q)
        BY <2>2 DEF Ready
      <3>2. after = Successor(q, e)
        BY <1>1, <2>2, <3>1 DEF next
      <3>3. IndexOf(q, e) \in 1..Len(q)
        BY <1>0, <3>1, IndexOfIsThere
      <3>4. CASE IndexOf(q, e) < Len(q)
        <4>1. IndexOf(q, e) + 1 \in DOMAIN q /\ after = q[IndexOf(q, e) + 1]
          BY <1>0, <3>2, <3>3, <3>4 DEF Successor
        <4> QED BY <4>1 DEF Elements
      <3>5. CASE ~(IndexOf(q, e) < Len(q))
        BY <3>2, <3>5 DEF Successor
      <3> QED BY <3>4, <3>5
    <2> QED BY <2>1, <2>2, Zenon
  <1>3. inQueue = Null \/ inQueue \in Elements(runQueue[c])
    BY <1>0, <1>2, HeadIsThere
  <1>4. Candidate(c) = IF inQueue = Null THEN Idle(c) ELSE inQueue
    BY DEF Candidate
  <1> HIDE DEF after, inQueue
  <1> QED BY <1>1, <1>3, <1>4 DEF Ready

(* A ready entry waits for nothing. *)
LEMMA ReadyWaitsForNothing ==
    ASSUME IInv, NEW c \in Core, NEW e, Ready(e, c)
    PROVE  WaitManagerOf(e) = NoWaiter
  BY DEF IInv, ReadyMeansReady, Ready, WaitManagerOf

(* One turn of the selection loop. *)
LEMMA SelectLasts ==
    ASSUME IInv, EntriesInv, WaitersInv, NoneReturns, NEW c \in Core, select(c)
    PROVE  Lasting
  <1>0. TypeOK
    BY DEF IInv
  <1>1. /\ handlingLock = c /\ phase = "select"
        /\ UNCHANGED <<waitManager, interruptionInfo, handlingLock, runningEntry, birth>>
    BY DEF select, Scheduling, SchedulerOnly, AtSameCore
  <1>2. PICK e \in Context : e = Candidate(c)
    BY CandidateBelongs
  <1>3. Belongs(e, c) /\ KeepsWaits
    BY <1>1, <1>2, CandidateBelongs, SameKept
  <1>4. ASSUME \A t \in Thread : ~Removed(t)'
        PROVE  WaitManagerOf(e) = NoWaiter /\ Ready(e, c)
    <2>1. Ready(Entry(c), c) /\ Entry(c) = currentEntry[c]
      BY <1>1, <1>4, NoneRemovedBefore DEF Entry, Walking
    <2>2. Ready(e, c)
      BY <1>2, <2>1, CandidateIsReady
    <2> QED BY <2>2, ReadyWaitsForNothing
  <1>5. CASE WaitManagerOf(e) # NoWaiter
    <2>1. phase' = "panic" /\ UNCHANGED queues
      BY <1>2, <1>5 DEF select
    <2>2. EntriesInv'
      BY <1>4, <1>5 DEF EntriesInv
    <2> QED BY <1>1, <2>1, <2>2, InScheduleLasts DEF Lasting, queues
  <1>6. CASE WaitManagerOf(e) = NoWaiter /\ e \in Thread /\ ~alive[e]
    <2>1. currentEntry' = [currentEntry EXCEPT ![c] = Null] /\ phase' \in {"removeThenSelect", "select"}
          /\ ((phase' = "removeThenSelect" /\ UNCHANGED runQueue) \/ remove(c, e))
      BY <1>1, <1>2, <1>6 DEF select
    <2>2. EntriesInv'
      <3>1. CASE phase' = "removeThenSelect" /\ UNCHANGED runQueue
        <4>1. \A d \in Core : Entry(d)' = Entry(d) \/ Entry(d)' \notin Thread
          BY <1>0, <1>1, <2>1, <3>1, ContextAssumption DEF Entry, Walking, TypeOK, Null
        <4> QED BY <3>1, <4>1, SameEntries
      <3>2. CASE remove(c, e)
        BY <1>1, <1>3, <1>6, <3>2, RemoveRemoves, FreedEntries
      <3> QED BY <2>1, <3>1, <3>2
    <2>3. \A d \in Core : d # c => currentEntry'[d] = currentEntry[d]
      BY <1>0, <2>1 DEF TypeOK
    <2> QED BY <1>1, <2>1, <2>2, <2>3, InScheduleLasts DEF Lasting
  <1>7. CASE WaitManagerOf(e) = NoWaiter /\ ~(e \in Thread /\ ~alive[e])
    <2>1. /\ currentEntry' = [currentEntry EXCEPT ![c] = e]
          /\ phase' = resume /\ UNCHANGED runQueue
      BY <1>2, <1>7 DEF select
    <2>2. /\ currentEntry'[c] = e /\ \A d \in Core : d # c => currentEntry'[d] = currentEntry[d]
          /\ phase' \notin {"panic", "processWaitQueue", "removeThenWalk"}
      BY <1>0, <2>1 DEF TypeOK
    <2>3. EntriesInv'
      <3> SUFFICES ASSUME \A t \in Thread : ~Removed(t)', NEW d \in Core PROVE Ready(Entry(d), d)'
        BY <2>2, SMT, ZenonT(30), SMTT(60) DEF EntriesInv, Entry
      <3>1. Entry(d)' = IF d = c THEN e ELSE Entry(d)
        BY <1>1, <2>2 DEF Entry, Walking
      <3>2. Ready(Entry(d), d)
        BY NoneRemovedBefore
      <3> QED BY <1>4, <2>1, <3>1, <3>2, SMT, ZenonT(30), SMTT(60) DEF Ready
    <2>4. WaitersInv'
      <3>1. ASSUME NEW d \in Core, NEW t \in Thread, Calling(d)', currentEntry'[d] = t, Queued(t)'
            PROVE  waitManager'[t] \in {NoWaiter, <<"interruption">>}
        <4>1. CASE d = c
          BY <1>1, <1>7, <2>2, <3>1, <4>1, SMT, ZenonT(30), SMTT(60) DEF WaitManagerOf
        <4>2. CASE d # c
          <5>1. Calling(d) /\ currentEntry[d] = t
            BY <1>1, <2>2, <3>1, <4>2 DEF Calling
          <5>2. Queued(t)
            BY <3>1, <5>1, CurrentIsBorn, QueuedBefore, SMT, ZenonT(30), SMTT(60)
          <5> QED BY <1>1, <5>1, <5>2, ZenonT(60) DEF WaitersInv
        <4> QED BY <4>1, <4>2, SMT, ZenonT(30), SMTT(60)
      <3>2. \A t \in Thread : ~Interrupted(t)' => interruptionInfo'[t].waiter = NoWaiter
        BY <1>1 DEF Interrupted, WaitersInv
      <3> QED BY <3>1, <3>2 DEF WaitersInv
    <2> QED BY <1>3, <2>3, <2>4 DEF Lasting
  <1> QED BY <1>5, <1>6, <1>7

-----------------------------------------------------------------------------
(* Entering and leaving the kernel, and the whole. *)

(* Trap, save and return. *)
LEMMA EdgesLast ==
    ASSUME IInv, EntriesInv, WaitersInv, NoneReturns, NEW c \in Core,
           save(c) \/ return(c) \/ \E r \in Request : Trap(c, r)
    PROVE  Lasting
  <1>1. UNCHANGED <<runQueue, currentEntry, waitManager, interruptionInfo, runningEntry>>
    BY SMT, ZenonT(30), SMTT(60) DEF save, return, Trap, queues, threads, locals
  <1>2. CASE save(c)
    <2>1. handlingLock = Nobody /\ phase = "none" /\ handlingLock' = c /\ phase' \in {"handle", "schedule"}
      BY <1>2, ZenonT(60) DEF save, IInv, HandlerInv
    <2>2. \A d \in Core : Calling(d)' => Calling(d)
      BY <2>1, CoreAssumption DEF Calling, Nobody
    <2>3. \A d \in Core : Entry(d)' = Entry(d)
      BY <1>1, <2>1 DEF Entry, Walking
    <2> QED BY <1>1, <2>1, <2>2, <2>3, SameWaits, SameEntries, ZenonT(60) DEF Lasting
  <1>3. CASE return(c) /\ WaitManagerOf(handled) # NoWaiter
    <2>1. handlingLock = c /\ phase = "return" /\ phase' = "panic" /\ UNCHANGED <<handlingLock, handled>>
      BY <1>3 DEF return
    <2>2. EntriesInv'
      <3> SUFFICES ASSUME \A t \in Thread : ~Removed(t)' PROVE FALSE
        BY DEF EntriesInv
      <3>1. Ready(Entry(c), c) /\ Entry(c) = currentEntry[c]
        BY <2>1, NoneRemovedBefore, SMT, ZenonT(30), SMTT(60) DEF Entry, Walking
      <3>2. currentEntry[c] = handled
        BY <2>1, ZenonT(60) DEF IInv, HandlerInv
      <3> QED BY <1>3, <3>1, <3>2, ReadyWaitsForNothing, SMT, ZenonT(30), SMTT(60)
    <2>3. \A d \in Core : Calling(d)' => Calling(d)
      BY <2>1, SMT, ZenonT(30), SMTT(60) DEF Calling
    <2> QED BY <1>1, <2>2, <2>3, SameWaits DEF Lasting
  <1>4. CASE return(c) /\ WaitManagerOf(handled) = NoWaiter
    <2>1. handlingLock = c /\ phase = "return" /\ handlingLock' = Nobody /\ phase' = "none"
      BY <1>4 DEF return
    <2>2. \A d \in Core : Calling(d)
      BY <2>1 DEF Calling
    <2>3. \A d \in Core : Entry(d)' = Entry(d)
      BY <1>1, <2>1 DEF Entry, Walking
    <2> QED BY <1>1, <2>1, <2>2, <2>3, SameWaits, SameEntries, SMT, ZenonT(30), SMTT(60) DEF Lasting
  <1>5. CASE \E r \in Request : Trap(c, r)
    <2>1. UNCHANGED <<handlingLock, phase, runQueue, waitQueue, type>>
      BY <1>5 DEF Trap, queues, birth
    <2>2. \A d \in Core : (Calling(d)' => Calling(d)) /\ Entry(d)' = Entry(d)
      BY <1>1, <2>1, SMT, ZenonT(30), SMTT(60) DEF Calling, Entry, Walking
    <2>3. EntriesInv'
      BY <1>1, <2>1, <2>2, ZenonT(60) DEF EntriesInv, Entry, Removed, Queued, Ready
    <2> QED BY <1>1, <2>2, <2>3, SameWaits DEF Lasting
  <1> QED BY <1>2, <1>3, <1>4, <1>5, SMT, ZenonT(30), SMTT(60)

(* Every step keeps the waits and the entries. *)
LEMMA StepLasts == IInv /\ EntriesInv /\ WaitersInv /\ [Next]_vars => Lasting
  <1> SUFFICES ASSUME IInv, EntriesInv, WaitersInv, [Next]_vars PROVE Lasting
    OBVIOUS
  <1>0. NoneReturns
    BY StepInv DEF Preserved
  <1>1. ASSUME NEW c \in Core, Handle(c) PROVE Lasting
    BY <1>0, <1>1, TimerLasts, IrqLasts, QuietHandlersLast, BlockingLasts, SignallingLasts, CreationLasts
       DEF Handle
  <1>2. ASSUME NEW c \in Core, Schedule(c) PROVE Lasting
    BY <1>0, <1>2, WalkEndsLast, WalkLasts, RemoveThreadsLasts, SelectLasts DEF Schedule
  <1>3. CASE UNCHANGED vars
    <2>1. UNCHANGED <<runQueue, waitQueue, currentEntry, type, waitManager, interruptionInfo,
                      runningEntry, handlingLock, phase>>
      BY <1>3 DEF vars, queues, threads, birth, locals, cpus
    <2>2. \A d \in Core : (Calling(d)' => Calling(d)) /\ Entry(d)' = Entry(d)
      BY <2>1, SMT, ZenonT(30), SMTT(60) DEF Calling, Entry, Walking
    <2>3. EntriesInv'
      BY <2>1, <2>2, ZenonT(60) DEF EntriesInv, Entry, Removed, Queued, Ready
    <2> QED BY <1>0, <2>1, <2>2, <2>3, SameWaits DEF Lasting
  <1> QED BY <1>0, <1>1, <1>2, <1>3, EdgesLast DEF Next, Kernel

(* Both hold after start-up. *)
LEMMA InitLasts == Init => EntriesInv /\ WaitersInv
  <1> SUFFICES ASSUME Init PROVE EntriesInv /\ WaitersInv
    OBVIOUS
  <1>1. /\ currentEntry = [c \in Core |-> Null] /\ waitManager = [t \in Thread |-> NoWaiter]
        /\ interruptionInfo = [t \in Thread |-> NoInfo] /\ phase = "none" /\ handlingLock = Nobody
    BY ZenonT(60) DEF Init
  <1>2. EntriesInv
    BY <1>1, ContextAssumption DEF EntriesInv, Ready, Walking, Null
  <1>3. WaitersInv
    BY <1>1 DEF WaitersInv, NoInfo
  <1> QED BY <1>2, <1>3

(* They hold in every state the kernel reaches, and every step keeps them. *)
LEMMA LastingInvariance == Spec => [](IInv /\ EntriesInv /\ WaitersInv)
  <1>1. IInv /\ EntriesInv /\ WaitersInv /\ [Next]_vars => (IInv /\ EntriesInv /\ WaitersInv)'
    BY StepInv, StepLasts DEF Preserved, Lasting
  <1> QED BY <1>1, InitInv, InitLasts, PTL DEF Spec

(* The sanity checks of Scheduler::schedule ("task is in run queue had wait    *)
(* manager") and of InterruptDispatcher::handle can only fail after _remove     *)
(* has freed an entry, whatever threads, signals and interrupts do.             *)
THEOREM PanicsNeedARemoval == Spec => []PanicNeedsRemoval
  <1>1. EntriesInv => PanicNeedsRemoval
    BY DEF EntriesInv, PanicNeedsRemoval
  <1> QED BY <1>1, LastingInvariance, PTL

(* Signals, interrupt handlers, restoreInterruptedState and the scheduler      *)
(* never lose what a thread waits for: a waiter goes only when checkWaiting     *)
(* says that the wait is over, or with the thread.                              *)
THEOREM NoWaitIsForgotten == Spec => WaitsAreKept
  <1>1. IInv /\ EntriesInv /\ WaitersInv /\ [Next]_vars =>
          [\A t \in Thread : \A w \in Pending(t) :
             Queued(t)' => w \in Pending(t)' \/ Tick(w) \in Pending(t)' \/ ~checkWaiting(w)]_vars
    BY StepLasts DEF Lasting, KeepsWaits
  <1> QED BY <1>1, LastingInvariance, PTL DEF Spec, WaitsAreKept
===============================================================================
