------------------------------- MODULE Messages -------------------------------
(* Messages between threads: MessageController with its queues and memory      *)
(* pools, the two system calls, and the wait managers that repeat a call until *)
(* it succeeds.  Each action is one critical section of handlingLock.          *)
(*                                                                             *)
(* A message is a block of kernel memory; blocks are numbered in the order in  *)
(* which the heap hands them out, and 0 is the null pointer.  The content of a *)
(* message is its number among those its sender wanted to send.                *)
EXTENDS Naturals, Sequences, FiniteSets, SequencesExt

CONSTANTS
    Thread,
    Length,               \* content lengths programs use
    Transaction,          \* transaction ids, without MESSAGE_TRANSACTION_NONE
    Maximum,              \* sizes of the buffers receivers offer
    Breakable,            \* whether receivers give a break condition
    PoolSize,             \* block sizes of the memory pools
    HeaderSize,           \* sizeof(MessageHeader)
    MaximumLength,        \* MESSAGE_MAXIMUM_LENGTH
    MaximumQueueContent,  \* MESSAGE_MAXIMUM_QUEUE_CONTENT
    Refill,               \* blocks a pool is refilled with
    Blocks,               \* bound: blocks the heap can hand out
    MaxSends              \* bound: messages a thread wants to send

ASSUME SizesAssumption ==
    /\ {HeaderSize, MaximumLength, MaximumQueueContent, Blocks, MaxSends} \subseteq Nat
    /\ Length \subseteq Nat /\ Maximum \subseteq Nat /\ PoolSize \subseteq Nat
    /\ Refill \in Nat \ {0}

None == 0  \* MESSAGE_TRANSACTION_NONE
Block == 1..Blocks
Pointer == 0..Blocks

VARIABLES
    queues,          \* the queue heads, for the threads that have one
    messages,        \* the header (and content) in each block
    pools,           \* the unused blocks of each size, as stacks
    heap,            \* the sizes of the blocks the heap has handed out
    waiting,         \* the call a blocked thread repeats
    status,          \* the result of the last call that was tried
    breakCondition,  \* the flags that blocked receivers watch
    deleted,         \* threads deleteTask has been called for
    sent             \* number of messages each thread wanted to send

memory == <<messages, pools, heap>>
vars == <<queues, memory, waiting, status, breakCondition, deleted, sent>>

NoCall == [op |-> "none"]
EmptyHead == [first |-> 0, last |-> 0, total |-> 0]
NoHeader == [sender |-> 0, transaction |-> None, length |-> 0, previous |-> 0, next |-> 0, content |-> 0]

Init ==
    /\ queues = << >>
    /\ messages = [m \in Block |-> NoHeader]
    /\ pools = [p \in PoolSize |-> << >>]
    /\ heap = << >>
    /\ waiting = [t \in Thread |-> NoCall]
    /\ status = "none"
    /\ breakCondition = [t \in Thread |-> FALSE]
    /\ deleted = {}
    /\ sent = [t \in Thread |-> 0]

-----------------------------------------------------------------------------
(* Memory of messages. *)

(* get and release: the smallest pool whose blocks are larger than size. *)
PoolsFor(size) == {p \in PoolSize : size < p /\ \A q \in PoolSize : size < q => p <= q}

(* getFromPool, with refill when the pool is empty: the block it returns, what *)
(* is left in the pool and what the heap has handed out by then.               *)
IsEmpty(p) == pools[p] = << >>
getFromPool(p) == IF IsEmpty(p) THEN Len(heap) + Refill ELSE Last(pools[p])
PoolAfter(p) == IF IsEmpty(p) THEN [i \in 1..(Refill - 1) |-> Len(heap) + i] ELSE Front(pools[p])
refill(p) == IF IsEmpty(p) THEN heap \o [i \in 1..Refill |-> p] ELSE heap

(* The memory a message takes. *)
SizeOf(m) == HeaderSize + messages[m].length

(* Slip: the size of the header is forgotten. *)
releaseByLength(blocks) ==
    [p \in PoolSize |-> pools[p] \o SelectSeq(blocks, LAMBDA m : p \in PoolsFor(messages[m].length))]

(* release of the blocks of a sequence, one after the other.  What an unused   *)
(* block holds is never read, so it is not kept.                               *)
release(blocks) ==
    [p \in PoolSize |-> pools[p] \o SelectSeq(blocks, LAMBDA m : p \in PoolsFor(SizeOf(m)))]

-----------------------------------------------------------------------------
(* The queues. *)

(* The head of the queue of t; sendMessage creates an empty one. *)
HeadOf(t) == IF t \in DOMAIN queues THEN queues[t] ELSE EmptyHead

(* The queue map with a new head for t. *)
WithHead(t, head) == [u \in DOMAIN queues \cup {t} |-> IF u = t THEN head ELSE queues[u]]

(* The blocks reached from m through a pointer of the header. *)
Follow(m, pointer) ==
    LET walk[n \in 0..Blocks, b \in Pointer] ==
          IF n = 0 \/ b = 0 THEN << >> ELSE <<b>> \o walk[n - 1, messages[b][pointer]]
    IN  walk[Blocks, m]
Queue(t) == Follow(HeadOf(t).first, "next")

-----------------------------------------------------------------------------
(* MessageController *)

(* Slip: the message is put in front. *)
appendFirst(t, d) == \E p \in PoolsFor(HeaderSize + d.length) :
    LET m == getFromPool(p)
        head == HeadOf(d.receiver)
        header == [sender |-> t, transaction |-> d.transaction, length |-> d.length,
                   previous |-> 0, next |-> head.first, content |-> d.content]
    IN  /\ m <= Blocks
        /\ pools' = [pools EXCEPT ![p] = PoolAfter(p)]
        /\ heap' = refill(p)
        /\ messages' = [b \in Block |-> CASE b = m -> header
                                         [] b = head.first -> [messages[b] EXCEPT !.previous = m]
                                         [] OTHER -> messages[b]]
        /\ queues' = WithHead(d.receiver, [first |-> m,
                                           last  |-> IF head.last = 0 THEN m ELSE head.last,
                                           total |-> head.total + d.length])

(* The message d, from t, is appended to the queue of its receiver. *)
append(t, d) == \E p \in PoolsFor(HeaderSize + d.length) :
    LET m == getFromPool(p)
        head == HeadOf(d.receiver)
        header == [sender |-> t, transaction |-> d.transaction, length |-> d.length,
                   previous |-> head.last, next |-> 0, content |-> d.content]
    IN  /\ m <= Blocks
        /\ pools' = [pools EXCEPT ![p] = PoolAfter(p)]
        /\ heap' = refill(p)
        /\ messages' = [b \in Block |-> CASE b = m -> header
                                         [] b = head.last -> [messages[b] EXCEPT !.next = m]
                                         [] OTHER -> messages[b]]
        /\ queues' = WithHead(d.receiver, [first |-> IF head.first = 0 THEN m ELSE head.first,
                                           last  |-> m,
                                           total |-> head.total + d.length])

(* Slip: the length of the new message is not counted. *)
FitsBefore(d) == HeadOf(d.receiver).total <= MaximumQueueContent

(* The queue of the receiver has room for the message. *)
Fits(d) == HeadOf(d.receiver).total + d.length <= MaximumQueueContent

(* MessageController::sendMessage returns s. *)
controllerSend(t, d, s) ==
    \/ /\ s = "exceedsMaximum" /\ d.length > MaximumLength
       /\ UNCHANGED <<queues, memory>>
    \/ /\ d.length <= MaximumLength
       /\ \/ s = "queueFull" /\ ~Fits(d)
          \/ s = "failed" /\ Fits(d) /\ PoolsFor(HeaderSize + d.length) = {}
       /\ queues' = WithHead(d.receiver, HeadOf(d.receiver))
       /\ UNCHANGED memory
    \/ /\ s = "successful" /\ d.length <= MaximumLength /\ Fits(d)
       /\ append(t, d)

(* Slip: the last pointer of the queue is forgotten. *)
unlinkKeepLast(t, m) ==
    LET next == messages[m].next
        previous == messages[m].previous
        head == queues[t]
    IN  /\ messages' = [b \in Block |-> CASE b = m -> NoHeader
                                         [] b = next -> [messages[b] EXCEPT !.previous = previous]
                                         [] b = previous -> [messages[b] EXCEPT !.next = next]
                                         [] OTHER -> messages[b]]
        /\ queues' = WithHead(t, [first |-> IF previous = 0 THEN next ELSE head.first,
                                  last  |-> head.last,
                                  total |-> head.total - messages[m].length])

(* The message m is taken out of the queue of t. *)
unlink(t, m) ==
    LET next == messages[m].next
        previous == messages[m].previous
        head == queues[t]
    IN  /\ messages' = [b \in Block |-> CASE b = m -> NoHeader
                                         [] b = next -> [messages[b] EXCEPT !.previous = previous]
                                         [] b = previous -> [messages[b] EXCEPT !.next = next]
                                         [] OTHER -> messages[b]]
        /\ queues' = WithHead(t, [first |-> IF previous = 0 THEN next ELSE head.first,
                                  last  |-> IF next = 0 THEN previous ELSE head.last,
                                  total |-> head.total - messages[m].length])

(* The messages in the queue of t that a receiver of transaction x asks for. *)
Asked(t, x) ==
    LET queue == Queue(t)
    IN  {i \in DOMAIN queue : x = None \/ messages[queue[i]].transaction = x}

(* Slip: the search does not stop at the first one. *)
LastAsked(t, x) ==
    LET asked == Asked(t, x)
    IN  {i \in asked : \A j \in asked : j <= i}

(* receiveMessage takes the first of them, whatever lies in front of it. *)
FirstAsked(t, x) ==
    LET asked == Asked(t, x)
    IN  {i \in asked : \A j \in asked : i <= j}

(* MessageController::receiveMessage returns s. *)
controllerReceive(t, d, s) ==
    \/ /\ s = "queueEmpty" /\ Asked(t, d.transaction) = {}
       /\ UNCHANGED <<queues, memory>>
    \/ \E i \in FirstAsked(t, d.transaction) :
         LET m == Queue(t)[i]
         IN  \/ s = "exceedsBufferSize" /\ SizeOf(m) > d.maximum /\ UNCHANGED <<queues, memory>>
             \/ /\ s = "successful" /\ SizeOf(m) <= d.maximum
                /\ unlink(t, m)
                /\ pools' = release(<<m>>)
                /\ UNCHANGED heap

-----------------------------------------------------------------------------
(* The system calls. *)

SendStatus == {"successful", "queueFull", "failed", "exceedsMaximum"}
ReceiveStatus == {"successful", "queueEmpty", "exceedsBufferSize"}
SendCall(k) == [op : {"send"}, receiver : Thread, length : Length,
                transaction : Transaction \cup {None}, content : {k}]
ReceiveCall == [op : {"receive"}, maximum : Maximum, transaction : Transaction \cup {None},
                breakable : Breakable]

Watches(t) == waiting[t].op = "receive" /\ waiting[t].breakable
Runs(t) == t \notin deleted /\ waiting[t] = NoCall

(* A call that cannot be done now makes the thread wait if it is a blocking one. *)
returnOrWait(t, d, notNow) ==
    \/ UNCHANGED waiting
    \/ notNow /\ waiting' = [waiting EXCEPT ![t] = d]

sendMessage(t) == \E d \in SendCall(sent[t] + 1), s \in SendStatus :
    /\ Runs(t) /\ sent[t] < MaxSends
    /\ controllerSend(t, d, s)
    /\ status' = s
    /\ returnOrWait(t, d, s = "queueFull")
    /\ sent' = [sent EXCEPT ![t] = d.content]
    /\ UNCHANGED <<breakCondition, deleted>>

(* The flag is a variable of the program, which may have set it already. *)
receiveMessage(t) == \E d \in ReceiveCall, s \in ReceiveStatus :
    /\ Runs(t)
    /\ controllerReceive(t, d, s)
    /\ status' = s
    /\ returnOrWait(t, d, s = "queueEmpty")
    /\ \E b \in BOOLEAN : breakCondition' = [breakCondition EXCEPT ![t] = b /\ Watches(t)']
    /\ UNCHANGED <<deleted, sent>>

(* WaiterSendMessage::checkWaiting *)
checkSend(t) == \E s \in SendStatus :
    /\ waiting[t].op = "send"
    /\ controllerSend(t, waiting[t], s)
    /\ status' = s
    /\ waiting' = [waiting EXCEPT ![t] = IF s = "queueFull" THEN @ ELSE NoCall]
    /\ UNCHANGED <<breakCondition, deleted, sent>>

(* Slip: it is repeated until a message is received. *)
checkReceiveAgain(t) ==
    /\ waiting[t].op = "receive"
    /\ \/ /\ breakCondition[t]
          /\ status' = "interrupted"
          /\ waiting' = [waiting EXCEPT ![t] = NoCall]
          /\ UNCHANGED <<queues, memory>>
       \/ \E s \in ReceiveStatus :
          /\ ~breakCondition[t]
          /\ controllerReceive(t, waiting[t], s)
          /\ status' = s
          /\ waiting' = [waiting EXCEPT ![t] = IF s # "successful" THEN @ ELSE NoCall]
    /\ breakCondition' = [breakCondition EXCEPT ![t] = @ /\ Watches(t)']
    /\ UNCHANGED <<deleted, sent>>

(* WaiterReceiveMessage::checkWaiting *)
checkReceive(t) ==
    /\ waiting[t].op = "receive"
    /\ \/ /\ breakCondition[t]
          /\ status' = "interrupted"
          /\ waiting' = [waiting EXCEPT ![t] = NoCall]
          /\ UNCHANGED <<queues, memory>>
       \/ \E s \in ReceiveStatus :
          /\ ~breakCondition[t]
          /\ controllerReceive(t, waiting[t], s)
          /\ status' = s
          /\ waiting' = [waiting EXCEPT ![t] = IF s = "queueEmpty" THEN @ ELSE NoCall]
    /\ breakCondition' = [breakCondition EXCEPT ![t] = @ /\ Watches(t)']
    /\ UNCHANGED <<deleted, sent>>

(* The program changes the flag one of its threads watches. *)
SetBreakCondition(t) ==
    /\ Watches(t)
    /\ breakCondition' = [breakCondition EXCEPT ![t] = ~@]
    /\ UNCHANGED <<queues, memory, waiting, status, deleted, sent>>

(* ThreadManager::deleteTask with MessageController::clear. *)
deleteTask(t) ==
    /\ t \notin deleted
    /\ deleted' = deleted \cup {t}
    /\ pools' = release(Queue(t))
    /\ messages' = [b \in Block |-> IF b \in ToSet(Queue(t)) THEN NoHeader ELSE messages[b]]
    /\ queues' = [u \in DOMAIN queues \ {t} |-> queues[u]]
    /\ waiting' = [waiting EXCEPT ![t] = NoCall]
    /\ breakCondition' = [breakCondition EXCEPT ![t] = FALSE]
    /\ UNCHANGED <<heap, status, sent>>

checkWaiting(t) == checkSend(t) \/ checkReceive(t)
Next == \E t \in Thread : \/ sendMessage(t) \/ receiveMessage(t) \/ checkWaiting(t)
                          \/ SetBreakCondition(t) \/ deleteTask(t)

Spec == Init /\ [][Next]_vars

(* Every walk through a wait queue asks every waiter in it. *)
FairSpec == Spec /\ \A t \in Thread : WF_vars(checkWaiting(t))

-----------------------------------------------------------------------------
(* Properties *)

(* Types.  The total of a queue never exceeds the limit sendMessage checks,     *)
(* and never gets below zero when receiveMessage subtracts from it.            *)
TypeOK ==
    /\ DOMAIN queues \subseteq Thread
    /\ \A t \in DOMAIN queues : queues[t] \in [first : Pointer, last : Pointer, total : 0..MaximumQueueContent]
    /\ messages \in [Block -> [sender : Thread \cup {0}, transaction : Transaction \cup {None},
                               length : Length \cup {0}, previous : Pointer, next : Pointer,
                               content : 0..MaxSends]]
    /\ pools \in [PoolSize -> Seq(Block)]
    /\ heap \in Seq(PoolSize) /\ Len(heap) <= Blocks
    /\ waiting \in [Thread -> {NoCall} \cup UNION {SendCall(k) : k \in 1..MaxSends} \cup ReceiveCall]
    /\ status \in {"none", "interrupted"} \cup SendStatus \cup ReceiveStatus
    /\ breakCondition \in [Thread -> BOOLEAN]
    /\ deleted \subseteq Thread
    /\ sent \in [Thread -> 0..MaxSends]

(* The list sendMessage and receiveMessage link is the same in both            *)
(* directions, from first and from last, and total is the content it holds.    *)
ListsAreSound == \A t \in DOMAIN queues :
    /\ Queue(t) = Reverse(Follow(queues[t].last, "previous"))
    /\ queues[t].total = FoldSeq(LAMBDA m, n : messages[m].length + n, 0, Queue(t))

(* Every block a refill got is in exactly one place: once in one queue, and    *)
(* then the message fits into it, or once in the pool of its size.  release    *)
(* finds the pool from the length in the header alone, so this says that no    *)
(* block is released twice or into the wrong pool, and none is lost.           *)
BlocksAreKept ==
    LET queue == [t \in Thread |-> Queue(t)]
    IN  /\ \A t \in Thread : IsInjective(queue[t]) /\ \A m \in ToSet(queue[t]) : SizeOf(m) < heap[m]
        /\ \A p \in PoolSize : IsInjective(pools[p]) /\ \A m \in ToSet(pools[p]) : heap[m] = p
        /\ \A m \in 1..Len(heap) : Cardinality({t \in Thread : m \in ToSet(queue[t])})
                                   + Cardinality({p \in PoolSize : m \in ToSet(pools[p])}) = 1

(* What a queue looks like from outside: letters without pointers. *)
Letter == [sender : Thread, transaction : Transaction \cup {None}, length : Length, content : 1..MaxSends]
LetterIn(m) == [sender |-> messages[m].sender, transaction |-> messages[m].transaction,
                length |-> messages[m].length, content |-> messages[m].content]
Letters(queue) == [i \in DOMAIN queue |-> LetterIn(queue[i])]

(* Messages of one sender lie in a queue in the order it sent them, also when  *)
(* some of them had to wait for room and were sent by WaiterSendMessage.       *)
InOrder == \A t \in DOMAIN queues :
    LET queue == Letters(Queue(t))
    IN  \A i, j \in DOMAIN queue :
          i < j /\ queue[i].sender = queue[j].sender => queue[i].content < queue[j].content

Mail == INSTANCE Mailbox WITH box <- [t \in Thread |-> Letters(Queue(t))]

(* The controller, its calls and its waiters implement mailboxes: messages are *)
(* appended within the limit, and taken only by their receiver, oldest first.  *)
IsMailbox == Mail!Spec

Receiving(t) == waiting[t].op = "receive"

(* A receiver blocked in WaiterReceiveMessage goes on once there is a message  *)
(* it asked for, even one too long for its buffer, and does not sleep for ever *)
(* on a break condition that stays set.                                        *)
ReceiverWakes == \A t \in Thread :
    /\ (Receiving(t) /\ Asked(t, waiting[t].transaction) # {}) ~> ~Receiving(t)
    /\ []<>~(Receiving(t) /\ breakCondition[t])
===============================================================================
