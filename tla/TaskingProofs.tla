---------------------------- MODULE TaskingProofs -----------------------------
(* What holds of Tasking in every state it reaches, for any number of cores,   *)
(* threads and requests: every step of Scheduler::schedule, the creation of    *)
(* threads, entry and return preserve the inductive invariant.                 *)
EXTENDS TaskingLemmas

-----------------------------------------------------------------------------
(* The steps of Scheduler::schedule.  What they have in common: threads are   *)
(* only released or removed, and whatever entry becomes current, is kept as    *)
(* running or stays behind in a freed entry is one of the core.                *)
OnlyReleases(c) ==
    /\ QueuesKept
    /\ \A t \in Thread : waitManager'[t] \in {waitManager[t], NoWaiter}
    /\ \A d \in Core : \A t \in Elements(runQueue'[d]) :
         t \in Elements(runQueue[d]) \/ waitManager'[t] = NoWaiter
    /\ currentEntry' \in [Core -> Context \cup {Null}]
    /\ Belongs(currentEntry'[c], c)
    /\ \A d \in Core : d # c => currentEntry'[d] = currentEntry[d]
    /\ stale' \in [Thread -> Thread \cup {Null}]
    /\ \A t \in Thread : \/ stale'[t] = stale[t]
                         \/ type[t] # "unborn" /\ Belongs(stale'[t], scheduler[t])
    /\ runningEntry' \in Context \cup {Null}
    /\ Belongs(runningEntry', c)

(* A scheduler step that does no more than this preserves the invariant. *)
LEMMA SchedulerStep ==
    ASSUME IInv, NEW c \in Core, handlingLock = c, OnlyReleases(c), DataTyped', HandlerInv',
           UNCHANGED <<birth, running, trapped, handlingLock>>,
           phase' \in Phase, resume' \in {"none", "handle", "return"}, handled' \in Context \cup {Null}
    PROVE  Preserved
  <1> USE DEF IInv
  <1>0. QueuesAtHome
    BY DEF HomeInv, QueuesAtHome
  <1>1. QueueDiscipline' /\ QueuesAtHome'
    BY <1>0, KeptQueues, SMT, ZenonT(30), SMTT(60) DEF OnlyReleases
  <1>2. TypeOK'
    BY SMT, ZenonT(30), SMTT(60) DEF TypeOK, DataTyped, OnlyReleases, QueuesKept, birth
  <1>3. HomeInv'
    <2>1. \A d \in Core : Belongs(currentEntry[d], d)' /\ Belongs(running[d], d)'
      BY SMT, ZenonT(30), SMTT(60) DEF OnlyReleases, HomeInv, Belongs, birth
    <2>2. \A d \in Core : handlingLock' = d => Belongs(runningEntry, d)'
      BY ZenonT(60) DEF OnlyReleases, Belongs, birth
    <2>3. \A t \in Thread : Belongs(stale[t], scheduler[t])'
      BY DEF OnlyReleases, HomeInv, Belongs, birth
    <2> QED BY <1>1, <2>1, <2>2, <2>3, ZenonT(60) DEF HomeInv, QueuesAtHome
  <1>4. ReadyMeansReady'
    <2> SUFFICES ASSUME NEW d \in Core, NEW t \in Elements(runQueue'[d]) PROVE waitManager'[t] = NoWaiter
      BY DEF ReadyMeansReady
    <2>1. t \in Thread
      BY <1>2, ElementsAreThreads, SMT, ZenonT(30), SMTT(60) DEF TypeOK
    <2> QED BY <2>1 DEF ReadyMeansReady, OnlyReleases
  <1>5. UnbornInv'
    BY ZenonT(60) DEF UnbornInv, OnlyReleases, birth
  <1>6. SavedWhereItBelongs'
    BY ZenonT(60) DEF SavedWhereItBelongs, OnlyReleases
  <1>7. NoneReturns
    BY KeptNoneReturns DEF OnlyReleases
  <1> QED BY <1>1, <1>2, <1>3, <1>4, <1>5, <1>6, <1>7, SMT, ZenonT(30), SMTT(60) DEF Preserved

(* Entering Scheduler::schedule preserves the invariant. *)
LEMMA ScheduleStartInv ==
    ASSUME IInv, NEW c \in Core, schedule(c)
    PROVE  Preserved
  <1>0. TypeOK /\ HomeInv /\ HandlerInv /\ QueueDiscipline
    BY SMT, ZenonT(30), SMTT(60) DEF IInv
  <1> DEFINE e == HeadOf(waitQueue[c])
  <1>1. handlingLock = c /\ phase = "schedule" /\ phase' = "processWaitQueue"
        /\ runningEntry' = currentEntry[c] /\ currentEntry' = [currentEntry EXCEPT ![c] = e]
        /\ UNCHANGED <<running, trapped, handlingLock, birth, alive, runQueue, waitQueue, waitManager,
                       interruptionInfo, frame, stale, tables, resume, handled, reaping>>
    BY ZenonT(60) DEF schedule, Scheduling, SchedulerOnly, AtSameCore
  <1>2. e \in Thread \cup {Null} /\ Belongs(e, c) /\ e \in Context \cup {Null}
    <2>1. e = Null \/ e \in Elements(waitQueue[c])
      BY <1>0, HeadIsThere, SMT, ZenonT(30), SMTT(60) DEF TypeOK
    <2>2. CASE e = Null
      BY <2>2, ZenonT(60) DEF Belongs
    <2>3. CASE e \in Elements(waitQueue[c])
      BY <1>0, <2>3, ElementsAreThreads DEF TypeOK, HomeInv, Context
    <2> QED BY <2>1, <2>2, <2>3
  <1> HIDE DEF e
  <1>3. QueuesKept
    BY <1>0, <1>1, UnchangedQueues
  <1>4. currentEntry' \in [Core -> Context \cup {Null}] /\ currentEntry'[c] = e
        /\ \A d \in Core : d # c => currentEntry'[d] = currentEntry[d]
    BY <1>0, <1>1, <1>2 DEF TypeOK
  <1>5. OnlyReleases(c)
    BY <1>0, <1>1, <1>2, <1>3, <1>4 DEF OnlyReleases, TypeOK, HomeInv
  <1>6. DataTyped'
    BY <1>0, <1>1 DEF DataTyped, TypeOK, tables
  <1>7. HandlerInv'
    BY <1>0, <1>1, <1>2, <1>4, CoreAssumption DEF HandlerInv, Nobody
  <1> QED BY <1>0, <1>1, <1>5, <1>6, <1>7, SchedulerStep DEF TypeOK, Phase

(* The end of the wait queue walk preserves the invariant. *)
LEMMA EndOfWalkInv ==
    ASSUME IInv, NEW c \in Core, endProcessWaitQueue(c)
    PROVE  Preserved
  <1>0. TypeOK /\ HomeInv /\ HandlerInv /\ QueueDiscipline
    BY DEF IInv
  <1>1. handlingLock = c /\ phase = "processWaitQueue" /\ phase' = "select"
        /\ runningEntry' = Null /\ currentEntry' = [currentEntry EXCEPT ![c] = runningEntry]
        /\ UNCHANGED <<running, trapped, handlingLock, birth, alive, runQueue, waitQueue, waitManager,
                       interruptionInfo, frame, stale, tables, resume, handled, reaping>>
    BY DEF endProcessWaitQueue, Scheduling, SchedulerOnly, AtSameCore
  <1>2. QueuesKept
    BY <1>0, <1>1, UnchangedQueues
  <1>3. currentEntry' \in [Core -> Context \cup {Null}] /\ currentEntry'[c] = runningEntry
        /\ \A d \in Core : d # c => currentEntry'[d] = currentEntry[d]
    BY <1>0, <1>1 DEF TypeOK
  <1>4. Belongs(runningEntry, c) /\ Belongs(Null, c)
    BY <1>0, <1>1 DEF HomeInv, Belongs
  <1>5. OnlyReleases(c)
    BY <1>0, <1>1, <1>2, <1>3, <1>4 DEF OnlyReleases, TypeOK
  <1>6. DataTyped'
    BY <1>0, <1>1 DEF DataTyped, TypeOK, tables
  <1>7. HandlerInv'
    BY <1>0, <1>1, CoreAssumption DEF HandlerInv, Nobody
  <1> QED BY <1>0, <1>1, <1>5, <1>6, <1>7, SchedulerStep DEF TypeOK, Phase

(* A freed entry of core d points to an entry of core d. *)
LEMMA RemoveLeavesNext ==
    ASSUME IInv, NEW d \in Core, NEW t \in Thread, Belongs(t, d), remove(d, t)
    PROVE  /\ stale' \in [Thread -> Thread \cup {Null}]
           /\ \A u \in Thread : \/ stale'[u] = stale[u]
                                \/ type[u] # "unborn" /\ Belongs(stale'[u], scheduler[u])
  <1>0. TypeOK /\ QueuesAtHome /\ \A u \in Thread : Belongs(stale[u], scheduler[u])
    BY DEF IInv, HomeInv, QueuesAtHome
  <1>1. next(d, t) \in Thread \cup {Null} /\ Belongs(next(d, t), d)
    BY <1>0, NextBelongs
  <1>2. stale' = [stale EXCEPT ![t] = next(d, t)]
    BY DEF remove
  <1>3. scheduler[t] = d /\ type[t] # "unborn"
    BY HomeIsScheduler
  <1> QED BY <1>0, <1>1, <1>2, <1>3 DEF TypeOK

(* A turn of the wait queue walk preserves the invariant. *)
LEMMA WalkInv ==
    ASSUME IInv, NEW c \in Core, processWaitQueue(c)
    PROVE  Preserved
  <1> DEFINE t == currentEntry[c]
             e == next(c, t)
  <1>0. TypeOK /\ HomeInv /\ HandlerInv /\ QueueDiscipline /\ QueuesAtHome
    BY DEF IInv, HomeInv, QueuesAtHome
  <1>1. handlingLock = c /\ phase = "processWaitQueue" /\ t # Null
        /\ UNCHANGED <<running, trapped, handlingLock, birth, alive, frame, irqHandler, signalHandler,
                       handled, runningEntry>>
    BY SMT, ZenonT(30), SMTT(60) DEF processWaitQueue, Scheduling, SchedulerOnly, AtSameCore
  <1>2. t \in Thread /\ Belongs(t, c) /\ scheduler[t] = c
    BY <1>0, <1>1, HomeIsScheduler, SMT, ZenonT(30), SMTT(60) DEF HandlerInv, HomeInv
  <1>3. e \in Thread \cup {Null} /\ Belongs(e, c) /\ e \in Context \cup {Null}
    BY <1>0, <1>2, NextBelongs DEF HomeInv, Context
  <1>4. currentEntry' = [currentEntry EXCEPT ![c] = e]
    BY DEF processWaitQueue
  <1>5. currentEntry' \in [Core -> Context \cup {Null}] /\ currentEntry'[c] = e
        /\ \A d \in Core : d # c => currentEntry'[d] = currentEntry[d]
    BY <1>0, <1>3, <1>4 DEF TypeOK
  <1>6. runningEntry' \in Context \cup {Null} /\ Belongs(runningEntry', c)
    BY <1>0, <1>1, SMT, ZenonT(30), SMTT(60) DEF TypeOK, HomeInv
  <1> HIDE DEF e
  <1>7. ASSUME phase' \in {"processWaitQueue", "removeThenWalk"}, resume' = resume,
               QueuesKept, DataTyped',
               \A u \in Thread : waitManager'[u] \in {waitManager[u], NoWaiter},
               \A d \in Core : \A u \in Elements(runQueue'[d]) :
                 u \in Elements(runQueue[d]) \/ waitManager'[u] = NoWaiter,
               stale' \in [Thread -> Thread \cup {Null}],
               \A u \in Thread : \/ stale'[u] = stale[u]
                                 \/ type[u] # "unborn" /\ Belongs(stale'[u], scheduler[u])
        PROVE  Preserved
    <2>1. OnlyReleases(c)
      BY <1>3, <1>5, <1>6, <1>7, ZenonT(60) DEF OnlyReleases
    <2>2. HandlerInv'
      BY <1>0, <1>1, <1>3, <1>5, <1>7, CoreAssumption DEF HandlerInv, Nobody
    <2> QED BY <1>0, <1>1, <1>7, <2>1, <2>2, SchedulerStep, SMT, ZenonT(30), SMTT(60) DEF TypeOK, Phase
  <1>8. CASE ~alive[t] /\ type[t] = "main"
    <2>1. phase' = "removeThenWalk" /\ reaping' = t
          /\ UNCHANGED <<runQueue, waitQueue, waitManager, interruptionInfo, irqsWaiting, stale, resume>>
      BY <1>8, SMT, ZenonT(30), SMTT(60) DEF processWaitQueue
    <2>2. QueuesKept /\ DataTyped'
      BY <1>0, <1>1, <1>2, <2>1, UnchangedQueues, SMT, ZenonT(30), SMTT(60) DEF DataTyped, TypeOK
    <2> QED BY <1>0, <1>7, <2>1, <2>2 DEF TypeOK
  <1>9. CASE ~alive[t] /\ type[t] # "main"
    <2>1. remove(c, t) /\ UNCHANGED <<waitManager, interruptionInfo, irqsWaiting, phase, resume, reaping>>
      BY <1>9, SMT, ZenonT(30), SMTT(60) DEF processWaitQueue
    <2>2. QueuesKept /\ \A d \in Core : Elements(runQueue'[d]) \subseteq Elements(runQueue[d])
      BY <1>0, <1>2, <2>1, RemoveKeeps, ZenonT(60)
    <2>3. DataTyped'
      BY <1>0, <1>1, <2>1, SMT, ZenonT(30), SMTT(60) DEF DataTyped, TypeOK
    <2>4. /\ stale' \in [Thread -> Thread \cup {Null}]
          /\ \A u \in Thread : \/ stale'[u] = stale[u]
                               \/ type[u] # "unborn" /\ Belongs(stale'[u], scheduler[u])
      BY <1>2, <2>1, RemoveLeavesNext
    <2> QED BY <1>1, <1>7, <2>1, <2>2, <2>3, <2>4, ZenonT(60)
  <1>10. CASE alive[t] /\ (waitManager[t] = NoWaiter \/ checkWaiting(waitManager[t]))
    <2>1. UNCHANGED <<runQueue, waitQueue, waitManager, interruptionInfo, irqsWaiting, stale, phase,
                      resume, reaping>>
      BY <1>10, SMT, ZenonT(30), SMTT(60) DEF processWaitQueue
    <2>2. QueuesKept /\ DataTyped'
      BY <1>0, <1>1, <2>1, UnchangedQueues DEF DataTyped, TypeOK
    <2> QED BY <1>0, <1>1, <1>7, <2>1, <2>2 DEF TypeOK
  <1>11. CASE alive[t] /\ ~(waitManager[t] = NoWaiter \/ checkWaiting(waitManager[t]))
    <2>1. /\ moveToRunQueue(t)
          /\ waitManager' = [waitManager EXCEPT ![t] = NoWaiter]
          /\ irqsWaiting' = [i \in Irq |-> irqsWaiting[i] /\ waitManager[t] # <<"irq", i>>]
          /\ interruptionInfo' = IF waitManager[t] = <<"interruption">>
               THEN [interruptionInfo EXCEPT ![t].frame = frame[t]] ELSE interruptionInfo
          /\ UNCHANGED <<stale, phase, resume, reaping>>
      BY <1>11 DEF processWaitQueue
    <2>2. QueuesKept /\ \A d \in Core : Elements(runQueue'[d]) \subseteq Elements(runQueue[d]) \cup {t}
      BY <1>0, <1>2, <2>1, MoveToRunKeeps
    <2>3. waitManager' \in [Thread -> Waiter] /\ waitManager'[t] = NoWaiter
          /\ \A u \in Thread : waitManager'[u] \in {waitManager[u], NoWaiter}
      BY <1>0, <1>2, <2>1 DEF TypeOK, Waiter
    <2>4. interruptionInfo' \in [Thread -> [waiter : Waiter, frame : Frame \cup {Null}]]
      <3>1. frame[t] \in Frame
        BY <1>0, <1>2 DEF TypeOK, Context
      <3>2. interruptionInfo \in [Thread -> [waiter : Waiter, frame : Frame \cup {Null}]]
        BY <1>0 DEF TypeOK
      <3>3. [interruptionInfo[t] EXCEPT !.frame = frame[t]] \in [waiter : Waiter, frame : Frame \cup {Null}]
        BY <1>2, <3>1, <3>2
      <3>4. [interruptionInfo EXCEPT ![t].frame = frame[t]]
              \in [Thread -> [waiter : Waiter, frame : Frame \cup {Null}]]
        BY <3>2, <3>3, ZenonT(30)
      <3> QED BY <2>1, <3>2, <3>4
    <2>5. DataTyped'
      BY <1>0, <1>1, <2>1, <2>3, <2>4 DEF DataTyped, TypeOK
    <2> QED BY <1>0, <1>1, <1>7, <2>1, <2>2, <2>3, <2>5 DEF TypeOK
  <1>12. alive[t] \in BOOLEAN
    BY <1>0, <1>2 DEF TypeOK
  <1> QED BY <1>8, <1>9, <1>10, <1>11, <1>12

(* Tasking::removeThreads preserves the invariant, whichever entry it frees. *)
LEMMA RemoveThreadsInv ==
    ASSUME IInv, NEW c \in Core, removeThreads(c)
    PROVE  Preserved
  <1>0. TypeOK /\ HomeInv /\ HandlerInv /\ QueueDiscipline
    BY SMTT(30) DEF IInv
  <1>1. handlingLock = c /\ phase \in {"removeThenWalk", "removeThenSelect"}
        /\ UNCHANGED <<running, trapped, handlingLock, birth, alive, currentEntry, waitManager,
                       interruptionInfo, frame, tables, resume, handled, runningEntry>>
    BY ZenonT(60) DEF removeThreads, SchedulerOnly, AtSameCore
  <1>2. \/ /\ phase' = IF phase = "removeThenWalk" THEN "processWaitQueue" ELSE "select"
           /\ reaping' = Null
        \/ UNCHANGED <<phase, reaping>>
    BY ZenonT(60) DEF removeThreads
  <1>3. /\ QueuesKept
        /\ \A d \in Core : Elements(runQueue'[d]) \subseteq Elements(runQueue[d])
        /\ stale' \in [Thread -> Thread \cup {Null}]
        /\ \A u \in Thread : \/ stale'[u] = stale[u]
                             \/ type[u] # "unborn" /\ Belongs(stale'[u], scheduler[u])
    <2>1. CASE UNCHANGED <<runQueue, waitQueue, stale>>
      BY <1>0, <2>1, UnchangedQueues, SMT, ZenonT(30), SMTT(60) DEF TypeOK
    <2>2. CASE \E d \in Core : \E t \in Victims(runQueue[d]) \cup Victims(waitQueue[d]) : remove(d, t)
      <3>1. PICK d \in Core : \E t \in Victims(runQueue[d]) \cup Victims(waitQueue[d]) : remove(d, t)
        BY <2>2
      <3>2. PICK t \in Victims(runQueue[d]) \cup Victims(waitQueue[d]) : remove(d, t)
        BY <3>1
      <3>3. t \in Elements(runQueue[d]) \cup Elements(waitQueue[d])
        BY DEF Victims
      <3>4. t \in Thread /\ Belongs(t, d)
        BY <1>0, <3>3, ElementsAreThreads, SMT, ZenonT(30), SMTT(60) DEF TypeOK, HomeInv
      <3>5. QueuesKept /\ \A f \in Core : Elements(runQueue'[f]) \subseteq Elements(runQueue[f])
        BY <1>0, <3>2, <3>4, RemoveKeeps
      <3> QED BY <3>2, <3>4, <3>5, RemoveLeavesNext, ZenonT(60)
    <2> QED BY <2>1, <2>2 DEF removeThreads
  <1>4. phase' \in {"processWaitQueue", "select", "removeThenWalk", "removeThenSelect"}
        /\ reaping' \in Thread \cup {Null}
    BY <1>0, <1>1, <1>2, SMT, ZenonT(30), SMTT(60) DEF TypeOK
  <1>5. OnlyReleases(c)
    BY <1>0, <1>1, <1>3 DEF OnlyReleases, TypeOK, HomeInv
  <1>6. DataTyped'
    BY <1>0, <1>1, <1>4 DEF DataTyped, TypeOK, tables
  <1>7. HandlerInv'
    BY <1>0, <1>1, <1>2, CoreAssumption DEF HandlerInv, Nobody
  <1> QED BY <1>0, <1>1, <1>4, <1>5, <1>6, <1>7, SchedulerStep, SMT, ZenonT(30), SMTT(60) DEF TypeOK, Phase

(* The entry the selection loop looks at is one of this core. *)
LEMMA CandidateBelongs ==
    ASSUME IInv, NEW c \in Core
    PROVE  Candidate(c) \in Context /\ Belongs(Candidate(c), c) /\ Candidate(c) # Null
  <1>0. TypeOK /\ HomeInv /\ QueuesAtHome
    BY DEF IInv, HomeInv, QueuesAtHome
  <1> DEFINE after == IF currentEntry[c] = Null THEN Null ELSE next(c, currentEntry[c])
             inQueue == IF after = Null THEN HeadOf(runQueue[c]) ELSE after
  <1>1. Belongs(Null, c)
    BY SMT, ZenonT(30), SMTT(60) DEF Belongs
  <1>2. after \in Thread \cup {Null} /\ Belongs(after, c)
    BY <1>0, <1>1, NextBelongs, SMT, ZenonT(30), SMTT(60) DEF HomeInv
  <1>3. HeadOf(runQueue[c]) \in Thread \cup {Null} /\ Belongs(HeadOf(runQueue[c]), c)
    <2>1. HeadOf(runQueue[c]) = Null \/ HeadOf(runQueue[c]) \in Elements(runQueue[c])
      BY <1>0, HeadIsThere DEF TypeOK
    <2>2. Elements(runQueue[c]) \subseteq Thread
      BY <1>0, ElementsAreThreads DEF TypeOK
    <2> QED BY <1>0, <1>1, <2>1, <2>2 DEF QueuesAtHome
  <1> HIDE DEF after
  <1>4. inQueue \in Thread \cup {Null} /\ Belongs(inQueue, c)
    BY <1>2, <1>3
  <1>5. Candidate(c) = IF inQueue = Null THEN Idle(c) ELSE inQueue
    BY DEF Candidate, after
  <1> HIDE DEF inQueue
  <1>6. Idle(c) \in Context /\ Belongs(Idle(c), c) /\ Idle(c) # Null
    BY DEF Context, Belongs, Idle, Null
  <1> QED BY <1>4, <1>5, <1>6, SMT, ZenonT(30), SMTT(60) DEF Context

(* A turn of the selection loop preserves the invariant. *)
LEMMA SelectInv ==
    ASSUME IInv, NEW c \in Core, select(c)
    PROVE  Preserved
  <1> DEFINE e == Candidate(c)
             dead == e \in Thread /\ ~alive[e]
  <1>0. TypeOK /\ HomeInv /\ HandlerInv /\ QueueDiscipline
    BY DEF IInv
  <1>1. handlingLock = c /\ phase = "select"
        /\ UNCHANGED <<running, trapped, handlingLock, birth, alive, waitManager,
                       interruptionInfo, frame, tables, runningEntry>>
    BY DEF select, Scheduling, SchedulerOnly, AtSameCore
  <1>2. e \in Context /\ Belongs(e, c) /\ e # Null /\ Belongs(Null, c)
    BY CandidateBelongs DEF Belongs
  <1>3. resume \in {"handle", "return"} /\ runningEntry = Null
    BY <1>0, <1>1, SMT, ZenonT(30), SMTT(60) DEF HandlerInv, TypeOK
  <1> HIDE DEF e
  <1>4. ASSUME phase' \in {"panic", "select", "removeThenSelect", "handle", "return"},
               resume' \in {"none", "handle", "return"}, reaping' \in Thread \cup {Null},
               phase' \in {"select", "removeThenSelect"} => resume' # "none",
               phase' \in {"handle", "return"} => handled' = e /\ currentEntry'[c] = e,
               handled' \in Context \cup {Null},
               currentEntry' \in [Core -> Context \cup {Null}], Belongs(currentEntry'[c], c),
               \A d \in Core : d # c => currentEntry'[d] = currentEntry[d],
               QueuesKept, \A d \in Core : Elements(runQueue'[d]) \subseteq Elements(runQueue[d]),
               stale' \in [Thread -> Thread \cup {Null}],
               \A u \in Thread : \/ stale'[u] = stale[u]
                                 \/ type[u] # "unborn" /\ Belongs(stale'[u], scheduler[u])
        PROVE  Preserved
    <2>1. OnlyReleases(c)
      BY <1>0, <1>1, <1>2, <1>3, <1>4, SMT, ZenonT(30), SMTT(60) DEF OnlyReleases, TypeOK
    <2>2. DataTyped'
      BY <1>0, <1>1, <1>4, SMT, ZenonT(30), SMTT(60) DEF DataTyped, TypeOK, tables
    <2>3. HandlerInv'
      BY <1>0, <1>1, <1>2, <1>3, <1>4, CoreAssumption, SMT, ZenonT(30), SMTT(60) DEF HandlerInv, Nobody
    <2> QED BY <1>1, <1>4, <2>1, <2>2, <2>3, SchedulerStep, SMT, ZenonT(30), SMTT(60) DEF Phase
  <1>5. CASE WaitManagerOf(e) # NoWaiter
    <2>1. phase' = "panic" /\ UNCHANGED <<queues, stale, resume, handled, reaping>>
      BY <1>5 DEF select, e
    <2>2. QueuesKept
      BY <1>0, <2>1, UnchangedQueues, SMT, ZenonT(30), SMTT(60) DEF queues
    <2> QED BY <1>0, <1>1, <1>4, <2>1, <2>2 DEF TypeOK, HomeInv, queues
  <1>6. CASE WaitManagerOf(e) = NoWaiter /\ dead /\ type[e] = "main"
    <2>1. phase' = "removeThenSelect" /\ reaping' = e
          /\ currentEntry' = [currentEntry EXCEPT ![c] = Null]
          /\ UNCHANGED <<runQueue, waitQueue, stale, handled, resume>>
      BY <1>6 DEF select, e
    <2>2. QueuesKept
      BY <1>0, <2>1, UnchangedQueues, SMT, ZenonT(30), SMTT(60)
    <2> QED BY <1>0, <1>1, <1>2, <1>3, <1>4, <1>6, <2>1, <2>2 DEF TypeOK
  <1>7. CASE WaitManagerOf(e) = NoWaiter /\ dead /\ type[e] # "main"
    <2>1. remove(c, e) /\ currentEntry' = [currentEntry EXCEPT ![c] = Null]
          /\ UNCHANGED <<phase, reaping, handled, resume>>
      BY <1>7, SMT, ZenonT(30), SMTT(60), ZenonT(30), SMTT(60) DEF select, e
    <2>2. QueuesKept /\ \A d \in Core : Elements(runQueue'[d]) \subseteq Elements(runQueue[d])
      BY <1>0, <1>7, <2>1, RemoveKeeps, ZenonT(60)
    <2>3. /\ stale' \in [Thread -> Thread \cup {Null}]
          /\ \A u \in Thread : \/ stale'[u] = stale[u]
                               \/ type[u] # "unborn" /\ Belongs(stale'[u], scheduler[u])
      BY <1>2, <1>7, <2>1, RemoveLeavesNext, SMT, ZenonT(30), SMTT(60)
    <2> QED BY <1>0, <1>1, <1>2, <1>3, <1>4, <2>1, <2>2, <2>3 DEF TypeOK
  <1>8. CASE WaitManagerOf(e) = NoWaiter /\ ~dead
    <2>1. currentEntry' = [currentEntry EXCEPT ![c] = e] /\ handled' = e /\ phase' = resume
          /\ resume' = "none" /\ UNCHANGED <<runQueue, waitQueue, stale, reaping>>
      BY <1>8 DEF select, e
    <2>2. QueuesKept
      BY <1>0, <2>1, UnchangedQueues
    <2> QED BY <1>0, <1>1, <1>2, <1>3, <1>4, <2>1, <2>2 DEF TypeOK
  <1> QED BY <1>5, <1>6, <1>7, <1>8

-----------------------------------------------------------------------------
(* Threads are born. *)
(* Tasking::addTask: a new thread joins the queues of one core. *)
LEMMA AddTaskInv ==
    ASSUME IInv, NEW c \in Core, handlingLock = c, phase = "handle",
           NEW t \in Unborn, NEW kind \in {"main", "sub", "vm86"},
           NEW main \in Thread, main = t \/ type[main] # "unborn", NEW state \in Frame,
           addTask(t, kind, main, state), AtSameCore, UNCHANGED <<handled, runningEntry>>,
           UNCHANGED <<waitQueue, currentEntry, waitManager, interruptionInfo, stale, tables>>,
           \/ HandlerEnds /\ UNCHANGED reaping
           \/ phase' = "vm86" /\ reaping' = t /\ UNCHANGED resume /\ handled \in Thread
    PROVE  Preserved
  <1> USE DEF IInv
  <1>0. t \in Thread /\ type[t] = "unborn" /\ Thread \subseteq Context
    BY DEF Unborn, Context
  <1>1. PICK d \in Core : /\ scheduler' = [scheduler EXCEPT ![t] = d]
                          /\ runQueue' = [runQueue EXCEPT ![d] = <<t>> \o runQueue[d]]
    BY ZenonT(30) DEF addTask
  <1>2. type' = [type EXCEPT ![t] = kind] /\ process' = [process EXCEPT ![t] = main]
        /\ alive' = [alive EXCEPT ![t] = TRUE] /\ frame' = [frame EXCEPT ![t] = state]
    BY SMT, ZenonT(30), SMTT(60) DEF addTask
  <1>3. \A e \in Core : t \notin Elements(runQueue[e]) \cup Elements(waitQueue[e])
    BY <1>0, HomeIsScheduler, SMT, ZenonT(30), SMTT(60) DEF HomeInv
  <1>4. /\ <<t>> \o runQueue[d] \in Seq(Thread)
        /\ Injective(<<t>> \o runQueue[d])
        /\ Elements(<<t>> \o runQueue[d]) = {t} \cup Elements(runQueue[d])
    BY <1>0, <1>3, PutInFront, SMT, ZenonT(30), SMTT(60) DEF TypeOK, QueueDiscipline
  <1>5. runQueue'[d] = <<t>> \o runQueue[d] /\ \A e \in Core : e # d => runQueue'[e] = runQueue[e]
    BY <1>1 DEF TypeOK
  <1>6. \A e \in Core : Elements(runQueue'[e]) = Elements(runQueue[e]) \cup (IF e = d THEN {t} ELSE {})
    BY <1>4, <1>5, ZenonT(30)
  <1>7. QueueDiscipline'
    <2>1. \A e \in Core : Injective(runQueue'[e]) /\ Injective(waitQueue'[e])
      BY <1>4, <1>5, ZenonT(30) DEF QueueDiscipline
    <2>2. ASSUME NEW e \in Core, NEW f \in Core
          PROVE  Elements(runQueue'[e]) \cap Elements(waitQueue'[f]) = {}
      <3>1. Elements(runQueue[e]) \cap Elements(waitQueue[f]) = {} /\ t \notin Elements(waitQueue[f])
        BY <1>3, Zenon DEF QueueDiscipline
      <3>2. Elements(runQueue'[e]) \subseteq Elements(runQueue[e]) \cup {t}
        BY <1>6, Zenon
      <3>3. Elements(waitQueue'[f]) = Elements(waitQueue[f])
        BY Zenon
      <3> QED BY <3>1, <3>2, <3>3, ZenonT(30)
    <2>3. ASSUME NEW e \in Core, NEW f \in Core, e # f
          PROVE  /\ Elements(runQueue'[e]) \cap Elements(runQueue'[f]) = {}
                 /\ Elements(waitQueue'[e]) \cap Elements(waitQueue'[f]) = {}
      <3>1. Elements(runQueue[e]) \cap Elements(runQueue[f]) = {}
            /\ Elements(waitQueue[e]) \cap Elements(waitQueue[f]) = {}
            /\ t \notin Elements(runQueue[e]) /\ t \notin Elements(runQueue[f])
        BY <1>3, <2>3, Zenon DEF QueueDiscipline
      <3>2. \/ Elements(runQueue'[e]) = Elements(runQueue[e])
            \/ Elements(runQueue'[f]) = Elements(runQueue[f])
        BY <1>6, <2>3, ZenonT(60)
      <3>3. /\ Elements(runQueue'[e]) \subseteq Elements(runQueue[e]) \cup {t}
            /\ Elements(runQueue'[f]) \subseteq Elements(runQueue[f]) \cup {t}
        BY <1>6, Zenon
      <3>4. Elements(waitQueue'[e]) = Elements(waitQueue[e]) /\ Elements(waitQueue'[f]) = Elements(waitQueue[f])
        BY Zenon
      <3> QED BY <3>1, <3>2, <3>3, <3>4, ZenonT(30)
    <2> QED BY <2>1, <2>2, <2>3, ZenonT(30) DEF QueueDiscipline
  <1>8. \A u \in Thread : u # t => scheduler'[u] = scheduler[u] /\ type'[u] = type[u] /\ process'[u] = process[u]
    BY <1>1, <1>2 DEF TypeOK
  <1>9. scheduler'[t] = d /\ type'[t] # "unborn" /\ process'[t] = main
    BY <1>0, <1>1, <1>2 DEF TypeOK
  <1>10. ASSUME NEW CONSTANT e, NEW CONSTANT f \in Core, Belongs(e, f) PROVE Belongs(e, f)'
    <2>1. e # t
      BY <1>0, <1>10, HomeIsScheduler, ZenonT(60)
    <2> QED BY <1>8, <1>10, <2>1, ZenonT(60) DEF Belongs
  <1>11. HomeInv'
    <2>1. ASSUME NEW e \in Core, NEW u \in Elements(runQueue'[e]) \cup Elements(waitQueue'[e])
          PROVE  Belongs(u, e)'
      <3>1. CASE u = t
        BY <1>0, <1>3, <1>6, <1>9, <2>1, <3>1, SMT, ZenonT(30), SMTT(60) DEF Belongs
      <3>2. CASE u # t
        <4>1. u \in Elements(runQueue[e]) \cup Elements(waitQueue[e])
          BY <1>6, <2>1, <3>2, ZenonT(60)
        <4>2. Belongs(u, e)
          BY <4>1, SMT, ZenonT(30), SMTT(60) DEF HomeInv
        <4> QED BY <1>10, <4>2, ZenonT(60)
      <3> QED BY <3>1, <3>2, SMT, ZenonT(30), SMTT(60)
    <2>2. ASSUME NEW e \in Core PROVE Belongs(currentEntry[e], e)' /\ Belongs(running[e], e)'
      <3>1. Belongs(currentEntry[e], e) /\ Belongs(running[e], e)
        BY ZenonT(60) DEF HomeInv
      <3>2. currentEntry' = currentEntry /\ running' = running
        BY SMT, ZenonT(30), SMTT(60) DEF AtSameCore
      <3> QED BY <1>10, <3>1, <3>2, ZenonT(60) DEF Belongs
    <2>3. ASSUME NEW e \in Core, handlingLock' = e PROVE Belongs(runningEntry, e)'
      <3>1. Belongs(runningEntry, e)
        BY <2>3, SMT, ZenonT(30), SMTT(60) DEF HomeInv, AtSameCore
      <3> QED BY <1>10, <3>1, SMT, ZenonT(30), SMTT(60) DEF Belongs
    <2>4. ASSUME NEW u \in Thread PROVE Belongs(stale[u], scheduler[u])'
      <3>1. CASE u = t
        BY <1>0, <3>1, SMT, ZenonT(30), SMTT(60) DEF UnbornInv, Belongs
      <3>2. CASE u # t
        <4>1. Belongs(stale[u], scheduler[u]) /\ scheduler[u] \in Core /\ scheduler'[u] = scheduler[u]
          BY <1>8, <3>2, ZenonT(60) DEF HomeInv, TypeOK
        <4> QED BY <1>10, <4>1, ZenonT(60) DEF Belongs
      <3> QED BY <3>1, <3>2, SMT, ZenonT(30), SMTT(60)
    <2> QED BY <2>1, <2>2, <2>3, <2>4, ZenonT(60) DEF HomeInv
  <1>12. TypeOK'
    BY <1>0, <1>1, <1>2, <1>4, SMT, ZenonT(30), SMTT(60), ZenonT(30), SMTT(60) DEF TypeOK, HandlerEnds, Phase, AtSameCore, tables
  <1>13. ReadyMeansReady'
    BY <1>0, <1>6, ZenonT(60) DEF ReadyMeansReady, UnbornInv
  <1>14. UnbornInv'
    <2>1. ASSUME NEW u \in Thread
          PROVE  IF type'[u] = "unborn" THEN waitManager'[u] = NoWaiter /\ stale'[u] = Null
                 ELSE type'[process'[u]] # "unborn"
      <3>1. CASE u = t
        BY <1>0, <1>8, <1>9, <3>1, SMT, ZenonT(30), SMTT(60)
      <3>2. CASE u # t
        <4>1. process[u] \in Thread /\ type'[u] = type[u] /\ process'[u] = process[u]
          BY <1>8, <3>2, ZenonT(60) DEF TypeOK
        <4> QED BY <1>0, <1>8, <4>1, SMT, ZenonT(30), SMTT(60) DEF UnbornInv
      <3> QED BY <3>1, <3>2, SMT, ZenonT(30), SMTT(60)
    <2> QED BY <2>1, SMT, ZenonT(30), SMTT(60) DEF UnbornInv
  <1>15. HandlerInv'
    <2>1. handled # Null /\ currentEntry[c] = handled /\ runningEntry = Null
      BY ZenonT(60) DEF HandlerInv
    <2>2. \A e \in Context \ Thread : frame'[e] = frame[e]
      BY <1>0, <1>2, SMT, ZenonT(30), SMTT(60) DEF TypeOK
    <2> QED BY <1>0, <2>1, <2>2, CoreAssumption, ZenonT(60) DEF HandlerInv, HandlerEnds, AtSameCore, Nobody
  <1>16. SavedWhereItBelongs'
    BY SMT, ZenonT(30), SMTT(60) DEF SavedWhereItBelongs, AtSameCore
  <1>17. NoneReturns
    <2> SUFFICES ASSUME NEW u \in Thread, type[u] # "unborn", ~Queued(u)
                 PROVE  type'[u] # "unborn" /\ ~Queued(u)'
      BY Zenon DEF NoneReturns, Removed
    <2>1. u # t
      BY <1>0
    <2> QED BY <1>6, <1>8, <2>1, SMT, ZenonT(30), SMTT(60) DEF Queued
  <1> QED BY <1>7, <1>11, <1>12, <1>13, <1>14, <1>15, <1>16, <1>17 DEF Preserved

(* The calls that create threads preserve the invariant. *)
LEMMA CreationInv ==
    ASSUME IInv, NEW c \in Core, fork(c) \/ createThread(c) \/ callVm86(c)
    PROVE  Preserved
  <1>0. TypeOK /\ HandlerInv
    BY DEF IInv
  <1>a. {"fork", "createThread", "callVm86"} \cap HardwareOps = {}
    BY DEF HardwareOps
  <1>b. NoFrame \in Frame /\ Unborn \subseteq Thread
    BY DEF Frame, Unborn
  <1>1. ASSUME handlingLock = c, phase = "handle", HandlerEnds, AtSameCore,
               UNCHANGED <<handled, runningEntry, reaping, runQueue, alive, birth, frame>>,
               UNCHANGED <<waitQueue, currentEntry, waitManager, interruptionInfo, stale, tables>>
        PROVE  Preserved
    <2>1. DataTyped'
      BY <1>0, <1>1, SMT, ZenonT(30), SMTT(60), ZenonT(30), SMTT(60) DEF DataTyped, TypeOK, tables
    <2> QED BY <1>1, <2>1, QuietInv DEF queues
  <1>2. CASE fork(c)
    <2>1. Handling(c, "fork") /\ handlingLock = c /\ phase = "handle" /\ ThenReturn /\ AtSameCore
          /\ UNCHANGED <<waitQueue, currentEntry, waitManager, interruptionInfo, stale, tables>>
      BY <1>2, ZenonT(60) DEF fork, Handling
    <2>2. handled \in Thread /\ frame[handled] \in Frame
      BY <1>0, <1>a, <2>1, HandledRequest DEF Frame
    <2>3. HandlerEnds /\ UNCHANGED <<handled, runningEntry, reaping>>
      BY <2>1, SMT, ZenonT(30), SMTT(60) DEF HandlerEnds, ThenReturn, locals
    <2>4. CASE \E child \in Unborn : addTask(child, "main", child, frame[handled])
      BY <1>b, <2>1, <2>2, <2>3, <2>4, AddTaskInv
    <2>5. CASE UNCHANGED <<runQueue, alive, birth, frame>>
      BY <1>1, <2>1, <2>3, <2>5
    <2> QED BY <1>2, <2>4, <2>5, SMT, ZenonT(30), SMTT(60), ZenonT(30), SMTT(60) DEF fork, forkThread
  <1>3. CASE createThread(c)
    <2>1. Handling(c, "createThread") /\ handlingLock = c /\ phase = "handle" /\ ThenSchedule /\ AtSameCore
          /\ UNCHANGED <<waitQueue, currentEntry, waitManager, interruptionInfo, stale, tables>>
      BY <1>3, SMT, ZenonT(30), SMTT(60) DEF createThread, Handling
    <2>2. handled \in Thread
      BY <1>0, <1>a, <2>1, HandledRequest, SMT, ZenonT(30), SMTT(60)
    <2>3. process[handled] \in Thread /\ type[process[handled]] # "unborn"
      BY <2>1, <2>2, HandledIsBorn, ZenonT(60)
    <2>4. HandlerEnds /\ UNCHANGED <<handled, runningEntry, reaping>>
      BY <2>1, SMT, ZenonT(30), SMTT(60) DEF HandlerEnds, ThenSchedule
    <2>5. CASE \E sub \in Unborn : addTask(sub, "sub", process[handled], NoFrame)
      BY <1>b, <2>1, <2>3, <2>4, <2>5, AddTaskInv, SMT, ZenonT(30), SMTT(60)
    <2>6. CASE UNCHANGED <<runQueue, alive, birth, frame>>
      BY <1>1, <2>1, <2>4, <2>6, SMT, ZenonT(30), SMTT(60)
    <2> QED BY <1>3, <2>5, <2>6 DEF createThread, createSubThread
  <1>4. CASE callVm86(c)
    <2>1. Handling(c, "callVm86") /\ handlingLock = c /\ phase = "handle" /\ AtSameCore
          /\ UNCHANGED <<waitQueue, currentEntry, waitManager, interruptionInfo, stale, tables>>
      BY <1>4, SMT, ZenonT(30), SMTT(60) DEF callVm86, Handling
    <2>2. handled \in Thread
      BY <1>0, <1>a, <2>1, HandledRequest, SMT, ZenonT(30), SMTT(60)
    <2>3. CASE \E v \in Unborn : /\ addTask(v, "vm86", v, NoFrame)
                                 /\ phase' = "vm86" /\ reaping' = v
                                 /\ UNCHANGED <<resume, handled, runningEntry>>
      BY <1>b, <2>1, <2>2, <2>3, AddTaskInv
    <2>4. CASE ThenSchedule /\ UNCHANGED <<runQueue, alive, birth, frame>>
      <3>1. HandlerEnds /\ UNCHANGED <<handled, runningEntry, reaping>>
        BY <2>4 DEF HandlerEnds, ThenSchedule
      <3> QED BY <1>1, <2>1, <2>4, <3>1
    <2> QED BY <1>4, <2>3, <2>4, SMT, ZenonT(30), SMTT(60) DEF callVm86, createProcessVm86
  <1> QED BY <1>2, <1>3, <1>4

-----------------------------------------------------------------------------
(* Entering and leaving the kernel, and the start. *)

(* A trap touches nothing but the frame and the set of cores in the kernel. *)
LEMMA TrapInv ==
    ASSUME IInv, NEW c \in Core, NEW r \in Request, Trap(c, r)
    PROVE  Preserved
  <1> USE DEF IInv
  <1>1. frame' = [frame EXCEPT ![running[c]] = r] /\ trapped' = trapped \cup {c}
        /\ May(running[c], r)
        /\ UNCHANGED <<runQueue, waitQueue, currentEntry, alive, type, process, scheduler, waitManager,
                       interruptionInfo, stale, irqsWaiting, irqHandler, signalHandler, resume,
                       handled, runningEntry, reaping, running, handlingLock, phase>>
    BY ZenonT(60) DEF Trap, queues, birth, tables, locals
  <1>2. frame' \in [Context -> Frame] /\ trapped' \subseteq Core
    BY <1>1, SMT, ZenonT(30), SMTT(60) DEF TypeOK, Frame
  <1>3. TypeOK'
    BY <1>1, <1>2, SMT, ZenonT(30), SMTT(60) DEF TypeOK
  <1>4. HandlerInv'
    <2>1. \A e \in Context \ Thread : frame'[e] \in HardwareRequest \cup {NoFrame}
      BY <1>1 DEF HandlerInv, TypeOK, May
    <2> QED BY <1>1, <2>1, ZenonT(60) DEF HandlerInv
  <1>5. QueueDiscipline' /\ ReadyMeansReady' /\ UnbornInv' /\ SavedWhereItBelongs'
    <2>1. QueueDiscipline' /\ ReadyMeansReady'
      BY <1>1, ZenonT(60) DEF QueueDiscipline, ReadyMeansReady
    <2>2. UnbornInv' /\ SavedWhereItBelongs'
      BY <1>1, ZenonT(60) DEF UnbornInv, SavedWhereItBelongs
    <2> QED BY <2>1, <2>2, SMT, ZenonT(30), SMTT(60)
  <1>6. HomeInv'
    <2>1. \A d \in Core : handlingLock' = d => Belongs(runningEntry, d)'
      BY <1>1, ZenonT(60) DEF HomeInv, Belongs
    <2> QED BY <1>1, <2>1, SameHome, SMT, ZenonT(30), SMTT(60), ZenonT(30), SMTT(60)
  <1>7. NoneReturns
    BY <1>1, SameNoneReturns DEF birth
  <1> QED BY <1>3, <1>4, <1>5, <1>6, <1>7, SMT, ZenonT(30), SMTT(60) DEF Preserved

(* Taking handlingLock and Scheduler::save preserve the invariant. *)
LEMMA SaveInv ==
    ASSUME IInv, NEW c \in Core, save(c)
    PROVE  Preserved
  <1> USE DEF IInv
  <1>1. handlingLock = Nobody /\ handlingLock' = c
        /\ UNCHANGED <<runQueue, waitQueue, currentEntry, alive, type, process, scheduler, waitManager,
                       interruptionInfo, frame, stale, irqsWaiting, irqHandler, signalHandler,
                       runningEntry, reaping, running, trapped>>
    BY DEF save, queues, threads, birth, tables
  <1>2. \/ /\ currentEntry[c] # Null /\ handled' = currentEntry[c]
           /\ phase' = "handle" /\ resume' = resume
        \/ phase' = "schedule" /\ resume' = "handle" /\ handled' = handled
    BY SMT, ZenonT(30), SMTT(60) DEF save
  <1>3. runningEntry = Null
    BY <1>1, SMT, ZenonT(30), SMTT(60) DEF HandlerInv
  <1>4. TypeOK'
    BY <1>1, <1>2, SMT, ZenonT(30), SMTT(60), ZenonT(30), SMTT(60) DEF TypeOK, Phase
  <1>5. HandlerInv'
    BY <1>1, <1>2, <1>3, CoreAssumption, ZenonT(60) DEF HandlerInv, Nobody
  <1>6. QueueDiscipline' /\ ReadyMeansReady' /\ UnbornInv'
    <2>1. QueueDiscipline' /\ ReadyMeansReady'
      BY <1>1, SMT, ZenonT(30), SMTT(60), ZenonT(30), SMTT(60) DEF QueueDiscipline, ReadyMeansReady
    <2>2. UnbornInv'
      BY <1>1, ZenonT(60) DEF UnbornInv
    <2> QED BY <2>1, <2>2, SMT, ZenonT(30), SMTT(60)
  <1>7. HomeInv'
    <2>1. \A d \in Core : Belongs(runningEntry, d)'
      BY <1>1, <1>3, SMT, ZenonT(30), SMTT(60) DEF Belongs
    <2> QED BY <1>1, <2>1, SameHome, SMT, ZenonT(30), SMTT(60)
  <1>8. SavedWhereItBelongs'
    BY <1>1, CoreAssumption DEF SavedWhereItBelongs, Nobody
  <1>9. NoneReturns
    BY <1>1, SameNoneReturns DEF birth
  <1> QED BY <1>4, <1>5, <1>6, <1>7, <1>8, <1>9, SMT, ZenonT(30), SMTT(60) DEF Preserved

(* Unlocking and returning into the chosen thread preserve the invariant. *)
LEMMA ReturnInv ==
    ASSUME IInv, NEW c \in Core, return(c)
    PROVE  Preserved
  <1> USE DEF IInv
  <1>1. handlingLock = c /\ phase = "return"
        /\ UNCHANGED <<runQueue, waitQueue, currentEntry, alive, type, process, scheduler, waitManager,
                       interruptionInfo, frame, stale, irqsWaiting, irqHandler, signalHandler,
                       resume, runningEntry, reaping>>
    BY SMT, ZenonT(30), SMTT(60) DEF return, queues, threads, birth, tables
  <1>2. handled # Null /\ currentEntry[c] = handled /\ handled \in Context /\ runningEntry = Null
    BY <1>1 DEF HandlerInv, TypeOK
  <1>3. QueueDiscipline' /\ ReadyMeansReady' /\ UnbornInv' /\ NoneReturns
    <2>1. QueueDiscipline' /\ ReadyMeansReady'
      BY <1>1, SMT, ZenonT(30), SMTT(60) DEF QueueDiscipline, ReadyMeansReady
    <2>2. UnbornInv'
      BY <1>1, ZenonT(60) DEF UnbornInv
    <2>3. NoneReturns
      BY <1>1, SameNoneReturns DEF birth
    <2> QED BY <2>1, <2>2, <2>3, SMT, ZenonT(30), SMTT(60)
  <1>4. CASE phase' = "panic" /\ UNCHANGED <<running, trapped, handlingLock, handled>>
    <2>0. TypeOK'
      BY <1>1, <1>4, SMT, ZenonT(30), SMTT(60) DEF TypeOK, Phase
    <2>1. HandlerInv' /\ SavedWhereItBelongs'
      BY <1>1, <1>2, <1>4, CoreAssumption, ZenonT(60) DEF HandlerInv, Nobody, SavedWhereItBelongs
    <2>2. \A d \in Core : Belongs(runningEntry, d)'
      BY <1>1, <1>2, ZenonT(60) DEF Belongs
    <2>3. HomeInv'
      BY <1>1, <1>4, <2>2, SameHome
    <2> QED BY <1>3, <2>0, <2>1, <2>3, SMT, ZenonT(30), SMTT(60) DEF Preserved
  <1>5. CASE /\ phase' = "none" /\ handlingLock' = Nobody /\ trapped' = trapped \ {c}
             /\ running' = [running EXCEPT ![c] = handled] /\ handled' = Null
    <2>1. running' \in [Core -> Context] /\ running'[c] = handled
          /\ \A d \in Core : d # c => running'[d] = running[d]
      BY <1>2, <1>5, SMT, ZenonT(30), SMTT(60) DEF TypeOK
    <2>2. TypeOK'
      BY <1>1, <1>5, <2>1, SMT, ZenonT(30), SMTT(60) DEF TypeOK, Phase
    <2>3. HandlerInv'
      BY <1>1, <1>2, <1>5, CoreAssumption, ZenonT(60) DEF HandlerInv, Nobody
    <2>4. SavedWhereItBelongs'
      BY <1>1, <1>2, <1>5, <2>1, CoreAssumption, SMT, ZenonT(30), SMTT(60) DEF SavedWhereItBelongs, Nobody
    <2>5. HomeInv'
      <3>1. ASSUME NEW d \in Core PROVE Belongs(currentEntry[d], d)' /\ Belongs(running[d], d)'
        <4>1. Belongs(currentEntry[d], d) /\ Belongs(running'[d], d)
          BY <1>2, <2>1, ZenonT(60) DEF HomeInv
        <4>2. currentEntry' = currentEntry /\ scheduler' = scheduler /\ type' = type
          BY <1>1
        <4> QED BY <4>1, <4>2, SMT, ZenonT(30), SMTT(60) DEF Belongs
      <3>2. \A d \in Core : handlingLock' = d => Belongs(runningEntry, d)'
        BY <1>5, CoreAssumption, SMT, ZenonT(30), SMTT(60), ZenonT(30), SMTT(60) DEF Nobody
      <3>3. /\ \A t \in Thread : Belongs(stale[t], scheduler[t])'
            /\ \A d \in Core : \A t \in Elements(runQueue[d])' \cup Elements(waitQueue[d])' : Belongs(t, d)'
        BY <1>1, SMT, ZenonT(30), SMTT(60) DEF HomeInv, Belongs
      <3> QED BY <3>1, <3>2, <3>3, ZenonT(60) DEF HomeInv
    <2> QED BY <1>3, <2>2, <2>3, <2>4, <2>5, SMT, ZenonT(30), SMTT(60) DEF Preserved
  <1> QED BY <1>4, <1>5 DEF return

(* The state after start-up satisfies the invariant. *)
LEMMA InitInv == Init => IInv
  <1> SUFFICES ASSUME Init PROVE IInv
    BY SMT, ZenonT(30), SMTT(60)
  <1>1. scheduler \in [Thread -> Core] /\ waitQueue = [c \in Core |-> << >>]
        /\ type = [t \in Thread |-> IF t \in FirstThreads THEN "main" ELSE "unborn"]
        /\ process = [t \in Thread |-> t] /\ waitManager = [t \in Thread |-> NoWaiter]
        /\ stale = [t \in Thread |-> Null] /\ currentEntry = [c \in Core |-> Null]
        /\ running = [c \in Core |-> Boot(c)] /\ handlingLock = Nobody /\ phase = "none"
        /\ runningEntry = Null /\ handled = Null /\ resume = "none" /\ reaping = Null
        /\ frame = [e \in Context |-> NoFrame] /\ trapped = {}
        /\ alive = [t \in Thread |-> t \in FirstThreads] /\ irqsWaiting = [i \in Irq |-> FALSE]
        /\ irqHandler = [i \in Irq |-> Null] /\ interruptionInfo = [t \in Thread |-> NoInfo]
        /\ signalHandler = [t \in Thread |-> [s \in Signal |-> Null]]
    BY ZenonT(60) DEF Init
  <1>2. runQueue \in [Core -> Seq(Thread)]
    <2>1. ASSUME NEW n \in 0..Cardinality(FirstThreads), NEW q \in [1..n -> FirstThreads]
          PROVE  q \in Seq(Thread)
      <3>1. n \in Nat
        OBVIOUS
      <3>2. \A i \in 1..n : q[i] \in Thread
        BY ThreadAssumption, SMT, ZenonT(30), SMTT(60)
      <3> QED BY <3>1, <3>2
    <2>2. runQueue \in [Core -> UNION {[1..n -> FirstThreads] : n \in 0..Cardinality(FirstThreads)}]
      BY ZenonT(60) DEF Init
    <2>3. \A q \in UNION {[1..n -> FirstThreads] : n \in 0..Cardinality(FirstThreads)} : q \in Seq(Thread)
      BY <2>1, SMT, ZenonT(30), SMTT(60), ZenonT(30), SMTT(60)
    <2> QED BY <2>2, <2>3
  <1>3. \A c \in Core : Elements(runQueue[c]) = {t \in FirstThreads : scheduler[t] = c}
                        /\ Injective(runQueue[c])
    BY ZenonT(60) DEF Init
  <1>4. \A c \in Core : Elements(waitQueue[c]) = {} /\ Injective(waitQueue[c])
    BY <1>1 DEF Elements, Injective
  <1>5. waitQueue \in [Core -> Seq(Thread)]
    BY <1>1, SMT, ZenonT(30), SMTT(60)
  <1>6. TypeOK
    <2>1. interruptionInfo \in [Thread -> [waiter : Waiter, frame : Frame \cup {Null}]]
      <3>1. NoInfo \in [waiter : Waiter, frame : Frame \cup {Null}]
        BY DEF NoInfo, Waiter
      <3> QED BY <1>1, <3>1
    <2>2. alive \in [Thread -> BOOLEAN] /\ irqsWaiting \in [Irq -> BOOLEAN]
      BY <1>1
    <2>a. irqHandler \in [Irq -> Thread \cup {Null}]
      BY <1>1
    <2>b. signalHandler \in [Thread -> [Signal -> Thread \cup {Null}]]
      BY <1>1, SMT, ZenonT(30), SMTT(60)
    <2>3. waitManager \in [Thread -> Waiter] /\ frame \in [Context -> Frame]
      BY <1>1, ZenonT(60) DEF Waiter, Frame
    <2>4. running \in [Core -> Context]
      BY <1>1, SMT, ZenonT(30), SMTT(60) DEF Context
    <2> QED BY <1>1, <1>2, <1>5, <2>1, <2>2, <2>a, <2>b, <2>3, <2>4, SMT, ZenonT(30), SMTT(60) DEF TypeOK, Phase
  <1>7. QueueDiscipline
    BY <1>3, <1>4, ZenonT(60) DEF QueueDiscipline
  <1>8. HomeInv
    <2>1. \A c \in Core : \A t \in Elements(runQueue[c]) \cup Elements(waitQueue[c]) : Belongs(t, c)
      BY <1>1, <1>3, <1>4, ThreadAssumption, ZenonT(60) DEF Belongs
    <2>2. \A c \in Core : Belongs(currentEntry[c], c) /\ Belongs(running[c], c)
      BY <1>1 DEF Belongs
    <2>3. \A t \in Thread : Belongs(stale[t], scheduler[t])
      BY <1>1 DEF Belongs
    <2>4. \A c \in Core : Belongs(runningEntry, c)
      BY <1>1 DEF Belongs
    <2> QED BY <2>1, <2>2, <2>3, <2>4, SMT, ZenonT(30), SMTT(60), ZenonT(30), SMTT(60) DEF HomeInv
  <1>9. ReadyMeansReady /\ UnbornInv
    BY <1>1, <1>3, ThreadAssumption, SMT, ZenonT(30), SMTT(60) DEF ReadyMeansReady, UnbornInv
  <1>10. HandlerInv /\ SavedWhereItBelongs
    BY <1>1, SMT, ZenonT(30), SMTT(60) DEF HandlerInv, SavedWhereItBelongs
  <1> QED BY <1>6, <1>7, <1>8, <1>9, <1>10 DEF IInv

(* Every handler preserves the invariant. *)
LEMMA HandleInv ==
    ASSUME IInv, NEW c \in Core, Handle(c)
    PROVE  Preserved
  BY TimerInv, IrqInv, UnchangedInv, EndingInv, CreationInv, CallVm86WaitInv, BlockingInv,
     RegisterInv, RaiseSignalInv, PageFaultInv, RestoreInv DEF Handle

(* Every step preserves the invariant and puts no removed thread back. *)
LEMMA StepInv == IInv /\ [Next]_vars => Preserved
  <1> SUFFICES ASSUME IInv, [Next]_vars PROVE Preserved
    OBVIOUS
  <1>1. ASSUME NEW c \in Core, Kernel(c) PROVE Preserved
    BY <1>1, SaveInv, ReturnInv, HandleInv, ScheduleStartInv, WalkInv, EndOfWalkInv, RemoveThreadsInv,
       SelectInv DEF Kernel, Schedule
  <1>2. ASSUME NEW c \in Core, NEW r \in Request, Trap(c, r) PROVE Preserved
    BY <1>2, TrapInv
  <1>3. CASE UNCHANGED vars
    <2>1. UNCHANGED <<runQueue, waitQueue, currentEntry, alive, type, process, scheduler, waitManager,
                      interruptionInfo, frame, stale, irqsWaiting, irqHandler, signalHandler, resume,
                      handled, runningEntry, reaping, running, trapped, handlingLock, phase>>
      BY <1>3, SMT, ZenonT(30), SMTT(60), ZenonT(30), SMTT(60) DEF vars, queues, threads, birth, tables, locals, cpus
    <2>2. TypeOK' /\ QueueDiscipline' /\ ReadyMeansReady' /\ UnbornInv' /\ SavedWhereItBelongs'
      BY <2>1, ZenonT(60) DEF IInv, TypeOK, QueueDiscipline, ReadyMeansReady, UnbornInv, SavedWhereItBelongs
    <2>3. HomeInv'
      <3>1. HomeInv /\ \A d \in Core : handlingLock' = d => Belongs(runningEntry, d)'
        BY <2>1, ZenonT(60) DEF IInv, HomeInv, Belongs
      <3> QED BY <2>1, <3>1, SameHome, SMT, ZenonT(30), SMTT(60)
    <2>4. HandlerInv'
      BY <2>1, ZenonT(60) DEF IInv, HandlerInv
    <2>5. NoneReturns
      BY <2>1, SameNoneReturns DEF birth
    <2> QED BY <2>2, <2>3, <2>4, <2>5, SMT, ZenonT(30), SMTT(60) DEF IInv, Preserved
  <1> QED BY <1>1, <1>2, <1>3 DEF Next

-----------------------------------------------------------------------------
(* The inductive invariant holds in every state the kernel reaches, for any   *)
(* number of cores, threads, interrupt lines and signals.                      *)
THEOREM Invariance == Spec => []IInv
  <1>1. IInv /\ [Next]_vars => IInv'
    BY StepInv DEF Preserved
  <1> QED BY <1>1, InitInv, PTL DEF Spec

(* _remove is final: a thread that has left the queues never gets an entry     *)
(* again, whatever is still done by, to or on behalf of that thread.           *)
THEOREM TheRemovedStayRemoved == Spec => RemovedStaysRemoved
  <1>1. IInv /\ [Next]_vars => [\A t \in Thread : Removed(t) => Removed(t)']_vars
    BY StepInv DEF Preserved, NoneReturns
  <1> QED BY <1>1, Invariance, PTL DEF Spec, RemovedStaysRemoved

(* Every variable of the schedulers and the dispatcher keeps its type. *)
THEOREM TypeCorrect == Spec => []TypeOK
  BY Invariance, PTL DEF IInv

(* moveToRunQueue, moveToWaitQueue, _remove and add never duplicate an entry:  *)
(* a thread is in at most one queue of one core.                               *)
THEOREM QueuesAreDisciplined == Spec => []QueueDiscipline
  BY Invariance, PTL DEF IInv

(* Nothing in a run queue has a wait manager, so a panic of schedule() can     *)
(* only be reached through an entry that has left the queues.                  *)
THEOREM ReadyThreadsAreReady == Spec => []ReadyMeansReady
  BY Invariance, PTL DEF IInv

(* The state Scheduler::save stores is that of the thread it is stored in. *)
THEOREM StatesAreSavedWhereTheyBelong == Spec => []SavedWhereItBelongs
  BY Invariance, PTL DEF IInv

(* No thread is executed by two cores: each core only ever reaches the threads *)
(* Scheduler::add gave it, whether through a queue or through a freed entry.    *)
THEOREM NoThreadOnTwoCores == Spec => []OneCorePerThread
  <1>1. IInv => OneCorePerThread
    <2> SUFFICES ASSUME IInv, NEW c \in Core, NEW d \in Core, running[c] = running[d] PROVE c = d
      BY SMT, ZenonT(30), SMTT(60) DEF OneCorePerThread
    <2>0. HomeInv /\ running \in [Core -> Context]
      BY SMT, ZenonT(30), SMTT(60) DEF IInv, TypeOK
    <2>1. Belongs(running[c], c) /\ Belongs(running[c], d) /\ running[c] \in Context
      BY <2>0 DEF HomeInv
    <2>2. CASE running[c] \in Thread
      BY <2>1, <2>2, OneHome, SMT, ZenonT(30), SMTT(60)
    <2>3. CASE running[c] \notin Thread
      BY <2>1, <2>3, CoreAssumption DEF Belongs, Context, Idle, Boot, Null
    <2> QED BY <2>2, <2>3
  <1> QED BY <1>1, Invariance, PTL
===============================================================================
