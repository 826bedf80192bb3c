-------------------------------- MODULE Tasking --------------------------------
(***************************************************************************)
(* Threads, the per-core schedulers, and the interrupt dispatcher that      *)
(* enters them: tasking.cpp, thread.cpp, scheduling/scheduler.cpp, the       *)
(* waiters of tasking/wait, InterruptDispatcher and its two handlers, and    *)
(* the tasking system calls.                                                 *)
(*                                                                           *)
(* A core that traps waits for handlingLock, so handlers exclude each other, *)
(* but between the trap and the lock another core may change the thread that *)
(* trapped.  A handler runs as a chain of steps under the lock, one step per *)
(* iteration of the scheduler's loops, because those loops move and free the *)
(* entries they walk over.                                                   *)
(*                                                                           *)
(* A TaskEntry is identified with its thread.  Thread objects are never      *)
(* freed; entries are.  ChunkAllocator::free leaves the contents of a chunk  *)
(* alone, so a freed entry still has the `next' it had when it was freed:    *)
(* that is the function `stale'.                                             *)
(***************************************************************************)
EXTENDS Integers, Sequences, FiniteSets

CONSTANTS Core,          \* the processors, numbered
          Thread,        \* thread ids; an id is used once
          FirstThreads,  \* the main threads the kernel starts
          Irq, Signal,   \* interrupt lines other than the timer; signal numbers
          SIGSEGV,       \* the signal whose default action kills
          MaxSleep,      \* bound: longest sleep, in timer ticks
          Ops            \* bound: what the programs of a run do

ASSUME CoreAssumption == Core \subseteq Nat \ {0} /\ Core # {}
ASSUME ThreadAssumption == FirstThreads \subseteq Thread
ASSUME SleepAssumption == MaxSleep \in Nat
ASSUME SignalAssumption == SIGSEGV \in Signal
ASSUME ContextAssumption ==
    <<"null">> \notin Thread /\ \A c \in Core : <<"idle", c>> \notin Thread /\ <<"boot", c>> \notin Thread

VARIABLES runQueue, waitQueue, currentEntry,       \* class Scheduler, per core
          alive, type, process, scheduler,         \* class Thread
          waitManager, interruptionInfo, frame, stale,
          irqsWaiting, irqHandler, signalHandler,  \* request handler, processes
          running,        \* what each core executes outside the kernel
          trapped,        \* the cores that have trapped and not returned
          handlingLock,   \* the core inside InterruptDispatcher::handle
          phase,          \* where that core is
          resume,         \* what follows the schedule() in progress
          handled,        \* currentThread of the handler
          runningEntry,   \* local of Scheduler::schedule
          reaping         \* argument of Tasking::removeThreads

queues == <<runQueue, waitQueue, currentEntry>>
birth == <<type, process, scheduler>>
threads == <<alive, birth, waitManager, interruptionInfo, frame, stale>>
tables == <<irqsWaiting, irqHandler, signalHandler>>
locals == <<resume, handled, runningEntry, reaping>>
cpus == <<running, trapped, handlingLock, phase>>
vars == <<queues, threads, tables, locals, cpus>>

Nobody == 0
Null == <<"null">>
Idle(c) == <<"idle", c>>
Boot(c) == <<"boot", c>>
NoWaiter == <<"none">>
NoFrame == <<"none">>
NoInfo == [waiter |-> NoWaiter, frame |-> Null]

Elements(q) == {q[i] : i \in DOMAIN q}
Injective(q) == \A i, j \in DOMAIN q : q[i] = q[j] => i = j
Queued(t) == \E c \in Core : t \in Elements(runQueue[c]) \cup Elements(waitQueue[c])
getTaskById(t) == Queued(t) /\ alive[t]
Context == Thread \cup {Idle(c) : c \in Core} \cup {Boot(c) : c \in Core}
WaitManagerOf(e) == IF e \in Thread THEN waitManager[e] ELSE NoWaiter

-----------------------------------------------------------------------------
(* What can make a core enter the kernel; the redirection entries send the *)
(* interrupt lines to the first processor.                                   *)
IrqCore == CHOOSE c \in Core : \A d \in Core : c <= d

HardwareRequest == {<<"timer">>} \cup ({"irq"} \X Irq)
Exception == {"pageFault", "invalidOpcode", "generalProtection", "divideError"}
PlainRequest == {"yield", "exit", "exitThread", "fork", "createThread", "callVm86",
                 "restoreInterruptedState", "query", "unknown"}
Request ==
    {<<"timer">>} \cup
    {r \in HardwareRequest \cup {<<op>> : op \in Exception \cup PlainRequest}
           \cup ({"kill", "join"} \X Thread) \cup ({"sleep"} \X (0..MaxSleep))
           \cup ({"waitForIrq", "registerIrqHandler"} \X Irq)
           \cup ({"registerSignalHandler"} \X Signal)
           \cup ({"raiseSignal"} \X Thread \X Signal) : r[1] \in Ops}

IsException(f) == f[1] \in Exception

-----------------------------------------------------------------------------
(* Scheduler::_removeFromQueue and the list it leaves. *)
IndexOf(q, t) == CHOOSE i \in DOMAIN q : q[i] = t
removeFromQueue(q, t) ==
    IF t \in Elements(q)
      THEN SubSeq(q, 1, IndexOf(q, t) - 1) \o SubSeq(q, IndexOf(q, t) + 1, Len(q))
      ELSE q

Successor(q, t) == IF IndexOf(q, t) < Len(q) THEN q[IndexOf(q, t) + 1] ELSE Null
HeadOf(q) == IF q = << >> THEN Null ELSE q[1]

(* entry->next, read from a live or a freed entry of core c. *)
next(c, e) ==
    IF e \notin Thread THEN Null
    ELSE IF e \in Elements(runQueue[c]) THEN Successor(runQueue[c], e)
    ELSE IF e \in Elements(waitQueue[c]) THEN Successor(waitQueue[c], e)
    ELSE stale[e]

(* Slip: the entry is copied to the run queue and left in the wait queue. *)
moveToRunQueueCopy(t) ==
    /\ runQueue' = [runQueue EXCEPT ![scheduler[t]] = <<t>> \o @]
    /\ UNCHANGED waitQueue

(* Each insertion is at the head; the thread is where its scheduler is. *)
moveToRunQueue(t) ==
    LET c == scheduler[t]
    IN  IF t \in Elements(waitQueue[c])
          THEN /\ waitQueue' = [waitQueue EXCEPT ![c] = removeFromQueue(@, t)]
               /\ runQueue' = [runQueue EXCEPT ![c] = <<t>> \o @]
          ELSE UNCHANGED <<runQueue, waitQueue>>

(* Slip: the entry of a thread that is put to sleep stays the current one. *)
moveToWaitQueueKeepCurrent(t) ==
    LET c == scheduler[t]
    IN  IF t \in Elements(runQueue[c])
          THEN /\ runQueue' = [runQueue EXCEPT ![c] = removeFromQueue(@, t)]
               /\ waitQueue' = [waitQueue EXCEPT ![c] = <<t>> \o @]
               /\ UNCHANGED currentEntry
          ELSE UNCHANGED queues

(* Slip: a thread that is not in the run queue gets a new entry. *)
moveToWaitQueueAnyway(t) ==
    LET c == scheduler[t]
    IN  /\ runQueue' = [runQueue EXCEPT ![c] = removeFromQueue(@, t)]
        /\ waitQueue' = [waitQueue EXCEPT ![c] = <<t>> \o removeFromQueue(@, t)]
        /\ currentEntry' = [currentEntry EXCEPT ![c] = IF @ = t THEN Null ELSE @]

moveToWaitQueue(t) ==
    LET c == scheduler[t]
    IN  IF t \in Elements(runQueue[c])
          THEN /\ runQueue' = [runQueue EXCEPT ![c] = removeFromQueue(@, t)]
               /\ waitQueue' = [waitQueue EXCEPT ![c] = <<t>> \o @]
               /\ currentEntry' = [currentEntry EXCEPT ![c] = IF @ = t THEN Null ELSE @]
          ELSE UNCHANGED queues

(* Slip: the waiter is installed and the thread stays ready. *)
waitInRunQueue(t, waiter) ==
    /\ waitManager' = [waitManager EXCEPT ![t] = waiter]
    /\ UNCHANGED queues

(* Thread::wait: a waiter that is already there is replaced. *)
wait(t, waiter) ==
    /\ waitManager' = [waitManager EXCEPT ![t] = waiter]
    /\ IF waitManager[t] = NoWaiter THEN moveToWaitQueue(t) ELSE UNCHANGED queues

Interrupted(t) == interruptionInfo[t].frame # Null

(* Slip: the waiter of the diverted thread is not put aside. *)
enterHandlerForgetting(t) ==
    IF Interrupted(t)
      THEN UNCHANGED <<queues, waitManager, interruptionInfo>>
      ELSE /\ interruptionInfo' = [interruptionInfo EXCEPT
                                     ![t] = [waiter |-> NoWaiter, frame |-> NoFrame]]
           /\ waitManager' = [waitManager EXCEPT ![t] = <<"interruption">>]
           /\ moveToWaitQueue(t)

(* Thread::enterIrqHandler, enterSignalHandler: nothing happens to a thread  *)
(* that is already interrupted; otherwise its waiter is put aside and the     *)
(* waiter that diverts it is installed.                                       *)
enterHandler(t) ==
    IF Interrupted(t)
      THEN UNCHANGED <<queues, waitManager, interruptionInfo>>
      ELSE /\ interruptionInfo' = [interruptionInfo EXCEPT
                                     ![t] = [waiter |-> waitManager[t], frame |-> NoFrame]]
           /\ waitManager' = [waitManager EXCEPT ![t] = <<"interruption">>]
           /\ moveToWaitQueue(t)

(* Tasking::addTask: the core with the fewest threads, the first such. *)
calculateLoad(c) == Len(runQueue[c]) + Len(waitQueue[c])
LowestLoad(c) == \A d \in Core : \/ calculateLoad(c) < calculateLoad(d)
                                 \/ calculateLoad(c) = calculateLoad(d) /\ c <= d

(* Slip: every scheduler gets an entry for the new thread. *)
addTaskEverywhere(t, kind, main, state) ==
    /\ type' = [type EXCEPT ![t] = kind]
    /\ process' = [process EXCEPT ![t] = main]
    /\ alive' = [alive EXCEPT ![t] = TRUE]
    /\ frame' = [frame EXCEPT ![t] = state]
    /\ \E c \in Core : LowestLoad(c) /\ scheduler' = [scheduler EXCEPT ![t] = c]
    /\ runQueue' = [c \in Core |-> <<t>> \o runQueue[c]]

(* A thread object is set up and Tasking::addTask gives it to a scheduler. *)
addTask(t, kind, main, state) ==
    /\ type' = [type EXCEPT ![t] = kind]
    /\ process' = [process EXCEPT ![t] = main]
    /\ alive' = [alive EXCEPT ![t] = TRUE]
    /\ frame' = [frame EXCEPT ![t] = state]
    /\ \E c \in Core : /\ LowestLoad(c)
                       /\ scheduler' = [scheduler EXCEPT ![t] = c]
                       /\ runQueue' = [runQueue EXCEPT ![c] = <<t>> \o @]

(* Slip: the id of a dead thread is given out again. *)
UnbornOrDead == {t \in Thread : ~alive[t]}

(* Thread ids are given out once. *)
Unborn == {t \in Thread : type[t] = "unborn"}

-----------------------------------------------------------------------------
(* The state after start-up: idle threads and the first main threads exist,  *)
(* no core has taken an interrupt yet.                                       *)
Init ==
    /\ scheduler \in {f \in [Thread -> Core] : \A t \in Thread \ FirstThreads : f[t] = IrqCore}
    /\ runQueue \in [Core -> UNION {[1..n -> FirstThreads] : n \in 0..Cardinality(FirstThreads)}]
    /\ \A c \in Core : /\ Elements(runQueue[c]) = {t \in FirstThreads : scheduler[t] = c}
                       /\ Injective(runQueue[c])
    /\ waitQueue = [c \in Core |-> << >>]
    /\ currentEntry = [c \in Core |-> Null]
    /\ alive = [t \in Thread |-> t \in FirstThreads]
    /\ type = [t \in Thread |-> IF t \in FirstThreads THEN "main" ELSE "unborn"]
    /\ process = [t \in Thread |-> t]
    /\ waitManager = [t \in Thread |-> NoWaiter]
    /\ interruptionInfo = [t \in Thread |-> NoInfo]
    /\ frame = [e \in Context |-> NoFrame]
    /\ stale = [t \in Thread |-> Null]
    /\ irqsWaiting = [i \in Irq |-> FALSE]
    /\ irqHandler = [i \in Irq |-> Null]
    /\ signalHandler = [t \in Thread |-> [s \in Signal |-> Null]]
    /\ running = [c \in Core |-> Boot(c)]
    /\ trapped = {}
    /\ handlingLock = Nobody
    /\ phase = "none"
    /\ resume = "none"
    /\ handled = Null
    /\ runningEntry = Null
    /\ reaping = Null

-----------------------------------------------------------------------------
(* Entering and leaving the kernel. *)

(* What the code on a core may ask for.  restoreInterruptedState is called at *)
(* the end of an interrupt or signal handler and nowhere else; vm86 code only *)
(* faults.                                                                    *)
May(e, r) ==
    IF e \notin Thread THEN r \in HardwareRequest
    ELSE /\ r = <<"restoreInterruptedState">> =>
              interruptionInfo[e].frame \notin {Null, NoFrame}
         /\ type[e] = "vm86" => r \in HardwareRequest \/ r = <<"generalProtection">>
         /\ r[1] \in {"fork", "createThread", "callVm86"} => Unborn # {}

(* The processor pushes the state onto the kernel stack of what it was running. *)
Trap(c, r) ==
    /\ c \notin trapped
    /\ May(running[c], r)
    /\ r[1] = "irq" => c = IrqCore
    /\ frame' = [frame EXCEPT ![running[c]] = r]
    /\ trapped' = trapped \cup {c}
    /\ UNCHANGED <<queues, alive, birth, waitManager, interruptionInfo, stale,
                   tables, locals, running, handlingLock, phase>>

(* InterruptDispatcher::handle takes the lock; Scheduler::save. *)
save(c) ==
    /\ c \in trapped
    /\ handlingLock = Nobody
    /\ handlingLock' = c
    /\ IF currentEntry[c] # Null
         THEN /\ handled' = currentEntry[c]
              /\ phase' = "handle"
              /\ UNCHANGED resume
         ELSE /\ phase' = "schedule"
              /\ resume' = "handle"
              /\ UNCHANGED handled
    /\ UNCHANGED <<queues, threads, tables, runningEntry, reaping, running, trapped>>

(* Slip: the state of the interrupted thread is loaded again. *)
returnToInterrupted(c) ==
    /\ handlingLock = c
    /\ phase = "return"
    /\ phase' = "none" /\ handlingLock' = Nobody /\ trapped' = trapped \ {c} /\ handled' = Null
    /\ UNCHANGED <<queues, threads, tables, resume, runningEntry, reaping, running>>

(* The end of InterruptDispatcher::handle: the sanity check, the unlock, and *)
(* the return into the chosen thread.                                         *)
return(c) ==
    /\ handlingLock = c
    /\ phase = "return"
    /\ IF WaitManagerOf(handled) # NoWaiter
         THEN phase' = "panic" /\ UNCHANGED <<running, trapped, handlingLock, handled>>
         ELSE /\ phase' = "none"
              /\ handlingLock' = Nobody
              /\ trapped' = trapped \ {c}
              /\ running' = [running EXCEPT ![c] = handled]
              /\ handled' = Null
    /\ UNCHANGED <<queues, threads, tables, resume, runningEntry, reaping>>

-----------------------------------------------------------------------------
(* The handlers.  The exception handler is chosen by the frame the processor *)
(* just pushed, but both handlers then read the frame of currentThread; the   *)
(* two differ when save() had to choose another thread.  An all-zero frame    *)
(* (a thread that never ran) reads as interrupt 0.                            *)
FrameOp(c) ==
    LET byProcessor == frame[running[c]]
        ofThread == frame[handled]
    IN  CASE IsException(byProcessor) /\ ofThread = NoFrame     -> "divideError"
          [] IsException(byProcessor) /\ ~IsException(ofThread) -> "noResolution"
          [] ~IsException(byProcessor) /\ (ofThread = NoFrame \/ IsException(ofThread)) -> "unhandledIrq"
          [] OTHER -> ofThread[1]

Handling(c, op) == handlingLock = c /\ phase = "handle" /\ FrameOp(c) = op
ThenSchedule == phase' = "schedule" /\ resume' = "return" /\ UNCHANGED <<handled, runningEntry, reaping>>
ThenReturn == phase' = "return" /\ UNCHANGED locals
AtSameCore == UNCHANGED <<running, trapped, handlingLock>>

(* Slip: time stands still. *)
TickNever(w) == w

(* Scheduler::updateMilliseconds: the sleepers of this core get closer. *)
Tick(w) == IF w[1] = "sleep" /\ w[2] > 0 THEN <<"sleep", w[2] - 1>> ELSE w
timer(c) ==
    LET mine(t) == t \in Elements(runQueue[c]) \cup Elements(waitQueue[c])
    IN  /\ Handling(c, "timer")
        /\ waitManager' = [t \in Thread |-> IF mine(t) THEN Tick(waitManager[t]) ELSE waitManager[t]]
        /\ interruptionInfo' = [t \in Thread |->
              IF mine(t) THEN [interruptionInfo[t] EXCEPT !.waiter = Tick(@)]
                         ELSE interruptionInfo[t]]
        /\ ThenSchedule /\ AtSameCore
        /\ UNCHANGED <<queues, alive, birth, frame, stale, tables>>

(* InterruptRequestHandler::handle, any other line. *)
irq(c) ==
    LET i == frame[handled][2]
    IN  /\ Handling(c, "irq") /\ AtSameCore
        /\ CASE irqHandler[i] = Null ->
                  /\ irqsWaiting' = [irqsWaiting EXCEPT ![i] = TRUE]
                  /\ ThenReturn
                  /\ UNCHANGED <<queues, waitManager, interruptionInfo>>
             [] irqHandler[i] # Null /\ getTaskById(irqHandler[i]) ->
                  /\ enterHandler(irqHandler[i])
                  /\ ThenSchedule
                  /\ UNCHANGED irqsWaiting
             [] OTHER ->
                  /\ ThenReturn
                  /\ UNCHANGED <<queues, waitManager, interruptionInfo, irqsWaiting>>
        /\ UNCHANGED <<alive, birth, frame, stale, irqHandler, signalHandler>>

(* The calls that only read, an interrupt number nobody handles, and a vm86   *)
(* instruction the monitor emulates: back to the thread.                      *)
query(c) ==
    /\ \/ Handling(c, "query")
       \/ Handling(c, "unhandledIrq")
       \/ Handling(c, "generalProtection") /\ handled \in Thread /\ type[handled] = "vm86"
    /\ ThenReturn /\ AtSameCore
    /\ UNCHANGED <<queues, threads, tables>>

(* Tasking::schedule and nothing else. *)
yield(c) ==
    /\ \/ Handling(c, "yield")
       \/ Handling(c, "divideError")
    /\ ThenSchedule /\ AtSameCore
    /\ UNCHANGED <<queues, threads, tables>>

(* Exception 'no resolution, hanging system': the lock is never given back. *)
hang(c) ==
    /\ Handling(c, "noResolution")
    /\ phase' = "hang"
    /\ AtSameCore
    /\ UNCHANGED <<queues, threads, tables, locals>>

(* The calls and faults that mark threads dead; removal is the scheduler's. *)
Die(c, dead) ==
    /\ alive' = [t \in Thread |-> alive[t] /\ t \notin dead]
    /\ ThenSchedule /\ AtSameCore
    /\ UNCHANGED <<queues, birth, waitManager, interruptionInfo, frame, stale, tables>>

exit(c) == Handling(c, "exit") /\ Die(c, {process[handled]})
exitThread(c) == (Handling(c, "exitThread") \/ Handling(c, "unknown")) /\ Die(c, {handled})
handleInvalidOperationCode(c) ==
    Handling(c, "invalidOpcode") /\ Die(c, {handled, process[handled]})
handleGeneralProtectionFault(c) ==
    /\ Handling(c, "generalProtection")
    /\ Die(c, {IF type[handled] = "vm86" THEN handled ELSE process[handled]})
kill(c) ==
    LET target == frame[handled][2]
    IN  /\ Handling(c, "kill")
        /\ Die(c, IF getTaskById(target) THEN {target} ELSE {})

-----------------------------------------------------------------------------
(* Creating threads.  createThread fails when the address ranges for stacks    *)
(* are used up, callVm86 when the process is no driver; fork is for main        *)
(* threads (and fails when the ids of a run are used up).                       *)
forkThread(child) == addTask(child, "main", child, frame[handled])
createSubThread(sub) == addTask(sub, "sub", process[handled], NoFrame)
createProcessVm86(v) == addTask(v, "vm86", v, NoFrame)

fork(c) ==
    /\ Handling(c, "fork") /\ ThenReturn /\ AtSameCore
    /\ \/ /\ process[handled] = handled
          /\ \E child \in Unborn : forkThread(child)
       \/ /\ process[handled] # handled \/ Unborn = {}
          /\ UNCHANGED <<runQueue, alive, birth, frame>>
    /\ UNCHANGED <<waitQueue, currentEntry, waitManager, interruptionInfo, stale, tables>>

createThread(c) ==
    /\ Handling(c, "createThread") /\ ThenSchedule /\ AtSameCore
    /\ \/ \E sub \in Unborn : createSubThread(sub)
       \/ UNCHANGED <<runQueue, alive, birth, frame>>
    /\ UNCHANGED <<waitQueue, currentEntry, waitManager, interruptionInfo, stale, tables>>

(* callVm86 adds the vm86 thread and then waits for it to be gone.  The second *)
(* half is callVm86Wait, which finds the new thread in `reaping'.              *)
callVm86(c) ==
    /\ Handling(c, "callVm86") /\ AtSameCore
    /\ \/ \E v \in Unborn :
            /\ createProcessVm86(v)
            /\ phase' = "vm86" /\ reaping' = v
            /\ UNCHANGED <<resume, handled, runningEntry>>
       \/ ThenSchedule /\ UNCHANGED <<runQueue, alive, birth, frame>>
    /\ UNCHANGED <<waitQueue, currentEntry, waitManager, interruptionInfo, stale, tables>>

callVm86Wait(c) ==
    /\ handlingLock = c /\ phase = "vm86"
    /\ wait(handled, <<"vm86", reaping>>)
    /\ phase' = "schedule" /\ resume' = "return" /\ reaping' = Null
    /\ AtSameCore
    /\ UNCHANGED <<handled, runningEntry, alive, birth, interruptionInfo, frame, stale, tables>>

-----------------------------------------------------------------------------
(* The calls that block. *)
Block(c, waiter) ==
    /\ wait(handled, waiter)
    /\ ThenSchedule /\ AtSameCore
    /\ UNCHANGED <<alive, birth, interruptionInfo, frame, stale>>

sleep(c) ==
    /\ Handling(c, "sleep") /\ UNCHANGED tables
    /\ IF frame[handled][2] > 0 THEN Block(c, frame[handled])
       ELSE ThenSchedule /\ AtSameCore /\ UNCHANGED <<queues, threads>>

join(c) == Handling(c, "join") /\ Block(c, frame[handled]) /\ UNCHANGED tables

waitForIrq(c) ==
    LET i == frame[handled][2]
    IN  /\ Handling(c, "waitForIrq")
        /\ IF irqsWaiting[i]
             THEN /\ irqsWaiting' = [irqsWaiting EXCEPT ![i] = FALSE]
                  /\ ThenReturn /\ AtSameCore
                  /\ UNCHANGED <<queues, threads, irqHandler, signalHandler>>
             ELSE Block(c, <<"irq", i>>) /\ UNCHANGED tables

(* Slip: the thread that is waited for is known, hence taken to be there. *)
checkWaitingForKnown(w) ==
    CASE w[1] = "sleep" -> w[2] > 0
      [] w[1] \in {"join", "vm86"} -> type[w[2]] # "unborn"
      [] w[1] = "irq" -> ~irqsWaiting[w[2]]
      [] w[1] = "interruption" -> FALSE

(* What is waited for is not over yet; asked by Scheduler::_checkWaitingState. *)
checkWaiting(w) ==
    CASE w[1] = "sleep" -> w[2] > 0
      [] w[1] \in {"join", "vm86"} -> getTaskById(w[2])
      [] w[1] = "irq" -> ~irqsWaiting[w[2]]
      [] w[1] = "interruption" -> FALSE

-----------------------------------------------------------------------------
(* Interrupt and signal handlers. *)
registerIrqHandler(c) ==
    /\ Handling(c, "registerIrqHandler") /\ ThenReturn /\ AtSameCore
    /\ irqHandler' = [irqHandler EXCEPT ![frame[handled][2]] = handled]
    /\ UNCHANGED <<queues, threads, irqsWaiting, signalHandler>>

registerSignalHandler(c) ==
    /\ Handling(c, "registerSignalHandler") /\ ThenReturn /\ AtSameCore
    /\ signalHandler' = [signalHandler EXCEPT ![process[handled]][frame[handled][2]] = handled]
    /\ UNCHANGED <<queues, threads, irqsWaiting, irqHandler>>

(* Thread::raiseSignal on thread t. *)
raiseSignalIn(t, s) ==
    LET h == signalHandler[process[t]][s]
    IN  CASE h # Null /\ (h = t \/ getTaskById(h)) -> enterHandler(h) /\ UNCHANGED alive
          [] h = Null /\ s = SIGSEGV ->
               /\ alive' = [alive EXCEPT ![t] = FALSE, ![process[t]] = FALSE]
               /\ UNCHANGED <<queues, waitManager, interruptionInfo>>
          [] OTHER -> UNCHANGED <<queues, alive, waitManager, interruptionInfo>>

raiseSignal(c) ==
    LET target == frame[handled][2]
    IN  /\ Handling(c, "raiseSignal") /\ ThenSchedule /\ AtSameCore
        /\ IF target \in {handled, process[handled]} \/ getTaskById(target)
             THEN raiseSignalIn(target, frame[handled][3])
             ELSE UNCHANGED <<queues, alive, waitManager, interruptionInfo>>
        /\ UNCHANGED <<birth, frame, stale, tables>>

(* A page fault either grows the stack or copies a page and returns to the    *)
(* thread (memory is not part of this state), or raises SIGSEGV in the thread. *)
handlePageFault(c) ==
    /\ Handling(c, "pageFault") /\ AtSameCore
    /\ \/ ThenReturn /\ UNCHANGED <<queues, alive, waitManager, interruptionInfo>>
       \/ ThenSchedule /\ raiseSignalIn(handled, SIGSEGV)
    /\ UNCHANGED <<birth, frame, stale, tables>>

(* Thread::restoreInterruptedState: the waiter put aside comes back, and so    *)
(* does the frame.  Without an interruption it dereferences a null pointer     *)
(* inside the kernel, which nothing resolves.                                  *)
restoreInterruptedState(c) ==
    /\ Handling(c, "restoreInterruptedState") /\ AtSameCore
    /\ IF ~Interrupted(handled)
         THEN phase' = "hang" /\ UNCHANGED <<queues, threads, locals>>
         ELSE /\ wait(handled, interruptionInfo[handled].waiter)
              /\ frame' = [frame EXCEPT ![handled] = interruptionInfo[handled].frame]
              /\ interruptionInfo' = [interruptionInfo EXCEPT ![handled] = NoInfo]
              /\ ThenSchedule
              /\ UNCHANGED <<alive, birth, stale>>
    /\ UNCHANGED tables

-----------------------------------------------------------------------------
(* Scheduler::schedule, one step per loop iteration. *)
Scheduling(c, p) == handlingLock = c /\ phase = p
SchedulerOnly == AtSameCore /\ UNCHANGED <<birth, alive>>

schedule(c) ==
    /\ Scheduling(c, "schedule")
    /\ runningEntry' = currentEntry[c]
    /\ currentEntry' = [currentEntry EXCEPT ![c] = HeadOf(waitQueue[c])]
    /\ phase' = "processWaitQueue"
    /\ SchedulerOnly
    /\ UNCHANGED <<runQueue, waitQueue, waitManager, interruptionInfo, frame, stale, tables,
                   resume, handled, reaping>>

(* Scheduler::_remove: the entry is freed and keeps its `next'. *)
remove(c, t) ==
    /\ stale' = [stale EXCEPT ![t] = next(c, t)]
    /\ runQueue' = [runQueue EXCEPT ![c] = removeFromQueue(@, t)]
    /\ waitQueue' = IF t \in Elements(runQueue[c]) THEN waitQueue
                    ELSE [waitQueue EXCEPT ![c] = removeFromQueue(@, t)]

processWaitQueue(c) ==
    LET t == currentEntry[c]
        walk == currentEntry' = [currentEntry EXCEPT ![c] = next(c, t)]
    IN  /\ Scheduling(c, "processWaitQueue")
        /\ t # Null
        /\ CASE ~alive[t] /\ type[t] = "main" ->
                  /\ walk /\ phase' = "removeThenWalk" /\ reaping' = t
                  /\ UNCHANGED <<runQueue, waitQueue, waitManager, interruptionInfo, irqsWaiting,
                                 stale, resume>>
             [] ~alive[t] /\ type[t] # "main" ->
                  /\ walk /\ remove(c, t)
                  /\ UNCHANGED <<waitManager, interruptionInfo, irqsWaiting, phase, resume, reaping>>
             [] alive[t] /\ (waitManager[t] = NoWaiter \/ checkWaiting(waitManager[t])) ->
                  /\ walk
                  /\ UNCHANGED <<runQueue, waitQueue, waitManager, interruptionInfo, irqsWaiting,
                                 stale, phase, resume, reaping>>
             [] OTHER ->
                  /\ walk /\ moveToRunQueue(t)
                  /\ waitManager' = [waitManager EXCEPT ![t] = NoWaiter]
                  /\ irqsWaiting' = [i \in Irq |-> irqsWaiting[i] /\ waitManager[t] # <<"irq", i>>]
                  /\ interruptionInfo' = IF waitManager[t] = <<"interruption">>
                       THEN [interruptionInfo EXCEPT ![t].frame = frame[t]] ELSE interruptionInfo
                  /\ UNCHANGED <<stale, phase, resume, reaping>>
        /\ SchedulerOnly
        /\ UNCHANGED <<frame, irqHandler, signalHandler, handled, runningEntry>>

(* currentEntry = runningEntry: the walk is over, the choice begins. *)
endProcessWaitQueue(c) ==
    /\ Scheduling(c, "processWaitQueue")
    /\ currentEntry[c] = Null
    /\ currentEntry' = [currentEntry EXCEPT ![c] = runningEntry]
    /\ runningEntry' = Null
    /\ phase' = "select"
    /\ SchedulerOnly
    /\ UNCHANGED <<runQueue, waitQueue, waitManager, interruptionInfo, frame, stale, tables,
                   resume, handled, reaping>>

(* Slip: only the main thread is looked for. *)
VictimsMainOnly(q) == {t \in Elements(q) : t = reaping}

(* Tasking::removeThreads: every queued thread of the process, on every core, *)
(* each queue from its head.  The order among queues makes no difference.      *)
Victims(q) == {t \in Elements(q) : process[t] = reaping}
FirstVictim(q, t) == t \in Victims(q) /\ \A v \in Victims(q) : IndexOf(q, t) <= IndexOf(q, v)
removeThreads(c) ==
    /\ handlingLock = c
    /\ phase \in {"removeThenWalk", "removeThenSelect"}
    /\ IF \A d \in Core : Victims(runQueue[d]) \cup Victims(waitQueue[d]) = {}
         THEN /\ phase' = IF phase = "removeThenWalk" THEN "processWaitQueue" ELSE "select"
              /\ reaping' = Null
              /\ UNCHANGED <<runQueue, waitQueue, stale>>
         ELSE /\ \E d \in Core : \E t \in Victims(runQueue[d]) \cup Victims(waitQueue[d]) :
                   /\ FirstVictim(runQueue[d], t) \/ FirstVictim(waitQueue[d], t)
                   /\ remove(d, t)
              /\ UNCHANGED <<phase, reaping>>
    /\ SchedulerOnly
    /\ UNCHANGED <<currentEntry, waitManager, interruptionInfo, frame, tables,
                   resume, handled, runningEntry>>

(* Slip: the choice starts at the head of the run queue every time. *)
CandidateHead(c) == IF runQueue[c] = << >> THEN Idle(c) ELSE runQueue[c][1]

(* One turn of the selection loop. *)
Candidate(c) ==
    LET after == IF currentEntry[c] = Null THEN Null ELSE next(c, currentEntry[c])
        inQueue == IF after = Null THEN HeadOf(runQueue[c]) ELSE after
    IN  IF inQueue = Null THEN Idle(c) ELSE inQueue

select(c) ==
    LET e == Candidate(c)
        dead == e \in Thread /\ ~alive[e]
        drop == currentEntry' = [currentEntry EXCEPT ![c] = Null] /\ UNCHANGED <<handled, resume>>
    IN  /\ Scheduling(c, "select")
        /\ CASE WaitManagerOf(e) # NoWaiter ->
                  /\ phase' = "panic"
                  /\ UNCHANGED <<queues, stale, resume, handled, reaping>>
             [] WaitManagerOf(e) = NoWaiter /\ dead /\ type[e] = "main" ->
                  /\ drop /\ phase' = "removeThenSelect" /\ reaping' = e
                  /\ UNCHANGED <<runQueue, waitQueue, stale>>
             [] WaitManagerOf(e) = NoWaiter /\ dead /\ type[e] # "main" ->
                  /\ drop /\ remove(c, e)
                  /\ UNCHANGED <<phase, reaping>>
             [] OTHER ->
                  /\ currentEntry' = [currentEntry EXCEPT ![c] = e]
                  /\ handled' = e /\ phase' = resume /\ resume' = "none"
                  /\ UNCHANGED <<runQueue, waitQueue, stale, reaping>>
        /\ SchedulerOnly
        /\ UNCHANGED <<waitManager, interruptionInfo, frame, tables, runningEntry>>

-----------------------------------------------------------------------------
Handle(c) ==
    \/ timer(c) \/ irq(c) \/ query(c) \/ yield(c) \/ hang(c)
    \/ exit(c) \/ exitThread(c) \/ handleInvalidOperationCode(c)
    \/ handleGeneralProtectionFault(c) \/ kill(c)
    \/ fork(c) \/ createThread(c) \/ callVm86(c) \/ callVm86Wait(c)
    \/ sleep(c) \/ join(c) \/ waitForIrq(c)
    \/ registerIrqHandler(c) \/ registerSignalHandler(c) \/ raiseSignal(c)
    \/ handlePageFault(c) \/ restoreInterruptedState(c)

Schedule(c) ==
    \/ schedule(c) \/ processWaitQueue(c) \/ endProcessWaitQueue(c)
    \/ removeThreads(c) \/ select(c)

Kernel(c) == save(c) \/ Handle(c) \/ Schedule(c) \/ return(c)

Next == \E c \in Core : Kernel(c) \/ \E r \in Request : Trap(c, r)

Spec == Init /\ [][Next]_vars

-----------------------------------------------------------------------------
Waiter == {NoWaiter, <<"interruption">>} \cup ({"sleep"} \X (0..MaxSleep))
          \cup ({"join", "vm86"} \X Thread) \cup ({"irq"} \X Irq)
Frame == Request \cup {NoFrame}
Phase == {"none", "handle", "vm86", "schedule", "processWaitQueue", "removeThenWalk",
          "removeThenSelect", "select", "return", "panic", "hang"}

(* Every variable of the schedulers, the threads and the handler in progress *)
(* stays within its type.                                                     *)
TypeOK ==
    /\ runQueue \in [Core -> Seq(Thread)]
    /\ waitQueue \in [Core -> Seq(Thread)]
    /\ currentEntry \in [Core -> Context \cup {Null}]
    /\ alive \in [Thread -> BOOLEAN]
    /\ type \in [Thread -> {"unborn", "main", "sub", "vm86"}]
    /\ process \in [Thread -> Thread]
    /\ scheduler \in [Thread -> Core]
    /\ waitManager \in [Thread -> Waiter]
    /\ interruptionInfo \in [Thread -> [waiter : Waiter, frame : Frame \cup {Null}]]
    /\ frame \in [Context -> Frame]
    /\ stale \in [Thread -> Thread \cup {Null}]
    /\ irqsWaiting \in [Irq -> BOOLEAN]
    /\ irqHandler \in [Irq -> Thread \cup {Null}]
    /\ signalHandler \in [Thread -> [Signal -> Thread \cup {Null}]]
    /\ running \in [Core -> Context]
    /\ trapped \subseteq Core
    /\ handlingLock \in Core \cup {Nobody}
    /\ phase \in Phase
    /\ resume \in {"none", "handle", "return"}
    /\ handled \in Context \cup {Null}
    /\ runningEntry \in Context \cup {Null}
    /\ reaping \in Thread \cup {Null}

(* A thread is in at most one queue of one core, and there only once: moving  *)
(* it between queues, waking it and freeing it never duplicate its entry.      *)
QueueDiscipline ==
    /\ \A c \in Core : Injective(runQueue[c]) /\ Injective(waitQueue[c])
    /\ \A c, d \in Core : Elements(runQueue[c]) \cap Elements(waitQueue[d]) = {}
    /\ \A c, d \in Core : c # d =>
         /\ Elements(runQueue[c]) \cap Elements(runQueue[d]) = {}
         /\ Elements(waitQueue[c]) \cap Elements(waitQueue[d]) = {}

(* A thread in a run queue waits for nothing: what the panic "task is in run  *)
(* queue had wait manager" of Scheduler::schedule stands for.                  *)
ReadyMeansReady == \A c \in Core : \A t \in Elements(runQueue[c]) : waitManager[t] = NoWaiter

(* No thread executes on two cores at once. *)
OneCorePerThread == \A c, d \in Core : running[c] = running[d] => c = d

(* Outside the kernel a core executes its current entry, unless another core  *)
(* took that entry away to divert the thread into a handler: save() never      *)
(* stores a state in a thread it does not belong to.                           *)
SavedWhereItBelongs ==
    \A c \in Core : handlingLock # c => currentEntry[c] \in {Null, running[c]}

(* The entry is null, core c's idle or boot context, or a thread of core c. *)
Belongs(e, c) ==
    \/ e \in {Null, Idle(c), Boot(c)}
    \/ e \in Thread /\ scheduler[e] = c /\ type[e] # "unborn"

(* Why the discipline is kept.  A thread never leaves its core: whatever queue, *)
(* current entry, freed entry or local of the scheduler refers to it.           *)
HomeInv ==
    /\ \A c \in Core : \A t \in Elements(runQueue[c]) \cup Elements(waitQueue[c]) : Belongs(t, c)
    /\ \A c \in Core : Belongs(currentEntry[c], c) /\ Belongs(running[c], c)
    /\ \A t \in Thread : Belongs(stale[t], scheduler[t])
    /\ \A c \in Core : handlingLock = c => Belongs(runningEntry, c)

(* A thread that does not exist yet waits for nothing and has left no entry. *)
UnbornInv ==
    \A t \in Thread : IF type[t] = "unborn" THEN waitManager[t] = NoWaiter /\ stale[t] = Null
                      ELSE type[process[t]] # "unborn"

(* Where the handler in progress is. *)
HandlerInv ==
    /\ phase = "none" <=> handlingLock = Nobody
    /\ phase \in {"handle", "vm86", "return"} =>
         handled # Null /\ currentEntry[handlingLock] = handled
    /\ phase = "vm86" => handled \in Thread /\ reaping \in Thread
    /\ phase \in {"schedule", "processWaitQueue", "removeThenWalk", "removeThenSelect", "select"}
         => resume # "none"
    /\ phase \in {"processWaitQueue", "removeThenWalk"} => currentEntry[handlingLock] \in Thread \cup {Null}
    /\ phase \notin {"processWaitQueue", "removeThenWalk"} => runningEntry = Null
    /\ \A e \in Context \ Thread : frame[e] \in HardwareRequest \cup {NoFrame}

(* The inductive invariant. *)
IInv == /\ TypeOK /\ QueueDiscipline /\ HomeInv /\ ReadyMeansReady /\ UnbornInv /\ HandlerInv
        /\ SavedWhereItBelongs

(* A removed thread never comes back into a queue, although its freed entry    *)
(* may still be current on another core and its thread may still be executing. *)
Removed(t) == type[t] # "unborn" /\ ~Queued(t)
RemovedStaysRemoved == [][\A t \in Thread : Removed(t) => Removed(t)']_vars

(* The two sanity checks of Scheduler::schedule and InterruptDispatcher::handle *)
(* never fail as long as no entry was freed: a panic needs a core that follows   *)
(* a freed entry or goes on executing the thread of one.                         *)
PanicNeedsRemoval == phase = "panic" => \E t \in Thread : Removed(t)

(* Why: until an entry is freed, the entry a core works with is in its run queue. *)
Ready(e, c) == e \in Thread => e \in Elements(runQueue[c])
Walking(c) == handlingLock = c /\ phase \in {"processWaitQueue", "removeThenWalk"}
EntriesInv ==
    (\A t \in Thread : ~Removed(t)) =>
        /\ phase # "panic"
        /\ \A c \in Core : Ready(IF Walking(c) THEN runningEntry ELSE currentEntry[c], c)

(* What a thread waits for, also while it is diverted into a handler.  *)
Pending(t) == {waitManager[t], interruptionInfo[t].waiter} \ {NoWaiter, <<"interruption">>}

(* A wait is given up only when it is over: neither a signal nor an interrupt  *)
(* handler that diverts the thread in the middle loses it.                     *)
WaitsAreKept ==
    [][\A t \in Thread : \A w \in Pending(t) :
          Queued(t)' => w \in Pending(t)' \/ Tick(w) \in Pending(t)' \/ ~checkWaiting(w)]_vars

(* Why: a thread that makes a call waits for nothing, although another core    *)
(* may have begun to divert it, and a waiter is put aside only for a handler.    *)
Calling(c) == handlingLock # c \/ phase \in {"handle", "vm86", "return"}
WaitersInv ==
    /\ \A c \in Core : \A t \in Thread :
         Calling(c) /\ currentEntry[c] = t /\ Queued(t) => waitManager[t] \in {NoWaiter, <<"interruption">>}
    /\ \A t \in Thread : ~Interrupted(t) => interruptionInfo[t].waiter = NoWaiter

-----------------------------------------------------------------------------
(* Fairness.  A handler runs to its end, and a core that spins on handlingLock *)
(* gets it when it stays free.  The local APIC keeps a timer interrupt pending  *)
(* while the core is in the kernel, so that a core which enters and leaves the  *)
(* kernel for ever takes the timer for ever: strong fairness.  The lock itself  *)
(* is an unfair test-and-set, so liveness is checked on one core.               *)
FairSpec == Spec /\ \A c \in Core : WF_vars(Kernel(c)) /\ SF_vars(Trap(c, <<"timer">>))

(* A ready thread executes in the end, although new threads are put in front   *)
(* of it, unless the others block and wake again and again: whoever wakes is    *)
(* put in front, and after a block the search for the next thread starts there. *)
NoStarvation ==
    \A t \in Thread :
        []<>(\/ \E c \in Core : running[c] = t \/ waitQueue[c] # << >>
             \/ \A c \in Core : t \notin Elements(runQueue[c]))

(* A dead thread is removed; with a dead main thread the whole process goes. *)
TheDeadAreRemoved ==
    \A t \in Thread : (type[t] # "unborn" /\ ~alive[t])
        ~> \A u \in Thread : (u = t \/ (type[t] = "main" /\ process[u] = t)) => ~Queued(u)

(* A sleep ends, and a thread that waits for one that is gone goes on. *)
SleepEnds ==
    \A t \in Thread : waitManager[t][1] = "sleep" ~> (waitManager[t][1] # "sleep" \/ ~Queued(t))
JoinEnds ==
    \A t, u \in Thread : (waitManager[t] = <<"join", u>> /\ ~getTaskById(u))
        ~> (waitManager[t] # <<"join", u>> \/ ~Queued(t))

-----------------------------------------------------------------------------
(* What the documentation promises and the code does not do. *)

(* libapi.adoc says that RestoreInterruptedState re-establishes the execution  *)
(* of the thread: after it the thread does not wait for nothing for ever.       *)
Stuck(t) == /\ \E c \in Core : t \in Elements(waitQueue[c])
            /\ alive[t] /\ waitManager[t] = NoWaiter
RestoreResumes == \A t \in Thread : []<>~Stuck(t)
===============================================================================
