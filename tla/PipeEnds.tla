------------------------------- MODULE PipeEnds -------------------------------
(***************************************************************************)
(* Who holds a pipe, and who waits at it: the descriptor tables             *)
(* (FsDescriptors), the reference lists of the pipes (pipes.cpp), the calls  *)
(* that create, copy and close descriptors (filesystem.cpp), and the calls   *)
(* that block at an empty or a full pipe (FsDelegatePipe, the read and write *)
(* handlers and WaiterFsTransaction).  Of the bytes only their number is     *)
(* kept; PipeBuffer has the bytes.                                           *)
(*                                                                           *)
(* Each action is one critical section of handlingLock.  A pipe and its node *)
(* have one identity here: nodes are never removed, pipes are.  Nothing ever  *)
(* clears isBlocking of a node, so the non-blocking branches are left out.   *)
(***************************************************************************)
EXTENDS Integers, FiniteSets, Functions

CONSTANTS Process, Thread,
          Owner,        \* the process of each thread
          First,        \* the processes that exist at the start
          Capacity,     \* PIPE_DEFAULT_CAPACITY
          ReadSizes, WriteSizes,  \* numbers of bytes programs ask for
          Creators,     \* the processes that call pipe and clonefd
          CloneArgs,    \* the arguments clonefd gets: source fd, source, target fd, target
          MaxPipes,     \* bound: pipes that are created
          MaxFd         \* bound: largest descriptor

ASSUME EndsAssumption ==
    /\ Owner \in [Thread -> Process] /\ First \subseteq Process
    /\ Capacity \in Nat \ {0} /\ ReadSizes \cup WriteSizes \subseteq Nat
    /\ MaxPipes \in Nat /\ MaxFd \in Nat

VARIABLES tables,   \* the descriptor table of each process
          pipes,    \* the pipes that exist: bytes stored, and references per process
          created,  \* pipeNextID
          alive,    \* the processes that exist
          unborn,   \* the process ids fork has not used yet
          waiting   \* the transaction a blocked thread waits for

vars == <<tables, pipes, created, alive, unborn, waiting>>

AnyFd == -1
Node == 0..MaxPipes - 1
NewTable == [nextFileDescriptor |-> 3, descriptors |-> << >>]
NoCall == [op |-> "none"]

Init ==
    /\ tables = [p \in Process |-> NewTable]
    /\ pipes = << >>
    /\ created = 0
    /\ alive = First
    /\ unborn = Process \ First
    /\ waiting = [t \in Thread |-> NoCall]

-----------------------------------------------------------------------------
(* Pipes.  The order of a reference list tells nothing, so it is a bag. *)

(* Slip: a process that has a reference gets no other. *)
addReferenceOnce(ps, id, pid) ==
    IF id \in DOMAIN ps THEN [ps EXCEPT ![id].references[pid] = 1] ELSE ps

addReference(ps, id, pid) ==
    IF id \in DOMAIN ps THEN [ps EXCEPT ![id].references[pid] = @ + 1] ELSE ps

(* A reference list with n entries of pid less, and whether one is not empty. *)
Fewer(references, pid, n) == [references EXCEPT ![pid] = IF @ > n THEN @ - n ELSE 0]
Held(references) == \E p \in Process : references[p] > 0

(* The process ids other than pid that a reference list holds. *)
OthersIn(references, pid) == {p \in Process \ {pid} : references[p] > 0}

(* Slip: references of the process itself count. *)
hasReference(pipe, pid) == Held(pipe.references)

hasReferenceFromOtherProcess(pipe, pid) == OthersIn(pipe.references, pid) # {}

(* Slip: the search goes on after the first entry. *)
removeReferences(ps, id, pid) ==
    LET references == [ps[id].references EXCEPT ![pid] = 0]
    IN  IF id \notin DOMAIN ps THEN ps
        ELSE IF Held(references) THEN [ps EXCEPT ![id].references = references]
        ELSE Restrict(ps, DOMAIN ps \ {id})

(* The pipe goes with its last reference, or when there was none to remove. *)
removeReference(ps, id, pid) ==
    LET references == Fewer(ps[id].references, pid, 1)
    IN  IF id \notin DOMAIN ps THEN ps
        ELSE IF Held(references) THEN [ps EXCEPT ![id].references = references]
        ELSE Restrict(ps, DOMAIN ps \ {id})

-----------------------------------------------------------------------------
(* Descriptors.  These operators turn a state f of tables and pipes into the *)
(* state after the function they are named for.                              *)

Descriptors(f, pid) == f.tables[pid].descriptors
Ends(f, pid, node) == {fd \in DOMAIN Descriptors(f, pid) : Descriptors(f, pid)[fd] = node}
WithDescriptor(f, pid, fd, node) ==
    [f EXCEPT !.tables[pid].descriptors =
        [d \in DOMAIN @ \cup {fd} |-> IF d = fd THEN node ELSE @[d]]]

(* FileDescriptors::createDescriptor: the number it takes. *)
NumberFor(f, pid, fd) == IF fd = AnyFd THEN f.tables[pid].nextFileDescriptor ELSE fd
createDescriptor(f, pid, node, fd) ==
    [WithDescriptor(f, pid, NumberFor(f, pid, fd), node)
        EXCEPT !.tables[pid].nextFileDescriptor = IF fd = AnyFd THEN @ + 1 ELSE @]

mapFile(f, pid, node, fd) ==
    createDescriptor([f EXCEPT !.pipes = addReference(@, node, pid)], pid, node, fd)

(* FileSystem::unmapFile with FileDescriptors::unmap. *)
unmapFile(f, pid, node, fd) ==
    [f EXCEPT !.pipes = removeReference(@, node, pid),
              !.tables[pid].descriptors = Restrict(@, DOMAIN @ \ {fd})]

(* The descriptor that takes the place of targetFd: line 420 closes the node *)
(* found in the target with the source's process id.  `read` is the node     *)
(* cloneInto finds in the content it copies from.                            *)
Replaced(f, sourcePid, targetFd, targetPid) ==
    IF targetFd \in DOMAIN Descriptors(f, targetPid)
    THEN unmapFile(f, sourcePid, Descriptors(f, targetPid)[targetFd], targetFd)
    ELSE f
clonefd(f, sourceFd, sourcePid, targetFd, targetPid, read) ==
    IF sourceFd \notin DOMAIN Descriptors(f, sourcePid) THEN f
    ELSE LET node == Descriptors(f, sourcePid)[sourceFd]
             g    == Replaced(f, sourcePid, targetFd, targetPid)
         IN  WithDescriptor(mapFile(g, targetPid, node, targetFd), targetPid,
                            NumberFor(g, targetPid, targetFd), read)

(* Closing targetFd deletes the content of sourceFd when the numbers agree;  *)
(* cloneInto then copies from freed memory, and any node may come out.       *)
ReadNodes(f, sourceFd, sourcePid, targetFd, targetPid) ==
    IF sourceFd = targetFd /\ targetFd \in DOMAIN Descriptors(f, targetPid)
    THEN 0..created - 1
    ELSE {Descriptors(f, sourcePid)[sourceFd]}

(* clonefd for each descriptor of the source.  The fork has none yet, so     *)
(* nothing is replaced; the numbers of its table start from the beginning.   *)
processForked(f, source, fork) ==
    [tables |-> [f.tables EXCEPT ![fork].descriptors = Descriptors(f, source)],
     pipes  |-> [id \in DOMAIN f.pipes |->
                   [f.pipes[id] EXCEPT !.references[fork] = @ + Cardinality(Ends(f, source, id))]]]

(* unmapFile for each descriptor, then the table is deleted: a pipe loses a  *)
(* reference for each, and goes when one of these removals was the last.     *)
processClosed(f, pid) ==
    LET left(id) == Fewer(f.pipes[id].references, pid, Cardinality(Ends(f, pid, id)))
        gone == {id \in DOMAIN f.pipes : Ends(f, pid, id) # {} /\ ~Held(left(id))}
    IN  [tables |-> [f.tables EXCEPT ![pid] = NewTable],
         pipes  |-> [id \in DOMAIN f.pipes \ gone |->
                       [f.pipes[id] EXCEPT !.references = left(id)]]]

-----------------------------------------------------------------------------
(* One attempt of a read or a write: the pipes after it, the status of the   *)
(* transaction, and whether the handler will report success.                 *)

Finished(ps, success) == [pipes |-> ps, status |-> "finished", success |-> success]
Repeat == [pipes |-> pipes, status |-> "repeat", success |-> FALSE]
MinOf(a, b) == IF a <= b THEN a ELSE b

requestRead(id, pid, n) ==
    LET length == MinOf(pipes[id].size, n)
    IN  IF id \notin DOMAIN pipes THEN Finished(pipes, FALSE)
        ELSE IF length > 0 THEN Finished([pipes EXCEPT ![id].size = @ - length], TRUE)
        ELSE IF hasReferenceFromOtherProcess(pipes[id], pid) THEN Repeat
        ELSE Finished(pipes, FALSE)

(* Slip: the space that is left does not limit the length. *)
requestWriteAll(id, pid, n) ==
    IF id \notin DOMAIN pipes THEN Finished(pipes, FALSE)
    ELSE IF pipes[id].size < Capacity THEN Finished([pipes EXCEPT ![id].size = @ + n], TRUE)
    ELSE IF hasReferenceFromOtherProcess(pipes[id], pid) THEN Repeat
    ELSE Finished(pipes, FALSE)

requestWrite(id, pid, n) ==
    LET space  == Capacity - pipes[id].size
        length == MinOf(space, n)
    IN  IF id \notin DOMAIN pipes THEN Finished(pipes, FALSE)
        ELSE IF space > 0 THEN Finished([pipes EXCEPT ![id].size = @ + length], TRUE)
        ELSE IF hasReferenceFromOtherProcess(pipes[id], pid) THEN Repeat
        ELSE Finished(pipes, FALSE)

request(call, pid) ==
    IF call.op = "read" THEN requestRead(call.node, pid, call.length)
    ELSE requestWrite(call.node, pid, call.length)

-----------------------------------------------------------------------------
(* The system calls of a thread, and the check of a thread that waits. *)

Runs(t) == Owner[t] \in alive /\ waiting[t] = NoCall
Fits(f) == \A p \in Process : f.tables[p].nextFileDescriptor <= MaxFd + 1
Become(f) == tables' = f.tables /\ pipes' = f.pipes
Now == [tables |-> tables, pipes |-> pipes]

(* fsRead and fsWrite: a first attempt that is not finished installs a       *)
(* WaiterFsTransaction, after a second attempt that finds the same pipe.     *)
fsTransfer(t, op, fd, n) ==
    /\ Runs(t)
    /\ fd \in DOMAIN tables[Owner[t]].descriptors
    /\ LET call == [op |-> op, node |-> tables[Owner[t]].descriptors[fd], length |-> n,
                    status |-> "repeat", success |-> FALSE]
           a == request(call, Owner[t])
       IN  /\ pipes' = a.pipes
           /\ waiting' = [waiting EXCEPT ![t] = IF a.status = "repeat" THEN call ELSE NoCall]
    /\ UNCHANGED <<tables, created, alive, unborn>>
fsRead(t, fd, n) == fsTransfer(t, "read", fd, n)
fsWrite(t, fd, n) == fsTransfer(t, "write", fd, n)

(* isTransactionWaiting on a transaction to repeat: it is tried again, and   *)
(* the thread waits for one more check even when it is finished now.         *)
retry(t) ==
    /\ waiting[t] # NoCall /\ waiting[t].status = "repeat"
    /\ LET a == request(waiting[t], Owner[t])
       IN  /\ pipes' = a.pipes
           /\ waiting' = [waiting EXCEPT ![t].status = a.status, ![t].success = a.success]
    /\ UNCHANGED <<tables, created, alive, unborn>>

(* isTransactionWaiting on a finished transaction: the call returns. *)
finish(t) ==
    /\ waiting[t] # NoCall /\ waiting[t].status = "finished"
    /\ waiting' = [waiting EXCEPT ![t] = NoCall]
    /\ UNCHANGED <<tables, pipes, created, alive, unborn>>
checkWaiting(t) == retry(t) \/ finish(t)

(* One node, one pipe, the write descriptor and then the read descriptor. *)
fsPipe(t) ==
    /\ Runs(t) /\ Owner[t] \in Creators /\ created < MaxPipes
    /\ LET new  == [size |-> 0, references |-> [p \in Process |-> 0]]
           made == [Now EXCEPT !.pipes = [id \in DOMAIN pipes \cup {created} |->
                                            IF id = created THEN new ELSE pipes[id]]]
           both == mapFile(mapFile(made, Owner[t], created, AnyFd), Owner[t], created, AnyFd)
       IN  Fits(both) /\ Become(both)
    /\ created' = created + 1
    /\ UNCHANGED <<alive, unborn, waiting>>

fsClonefd(t, sourceFd, sourcePid, targetFd, targetPid) ==
    /\ Runs(t) /\ Owner[t] \in Creators
    /\ sourceFd \in DOMAIN tables[sourcePid].descriptors
    /\ \E read \in ReadNodes(Now, sourceFd, sourcePid, targetFd, targetPid) :
          LET f == clonefd(Now, sourceFd, sourcePid, targetFd, targetPid, read)
          IN  Fits(f) /\ Become(f)
    /\ UNCHANGED <<created, alive, unborn, waiting>>

fsClose(t, fd) ==
    /\ Runs(t)
    /\ fd \in DOMAIN tables[Owner[t]].descriptors
    /\ Become(unmapFile(Now, Owner[t], tables[Owner[t]].descriptors[fd], fd))
    /\ UNCHANGED <<created, alive, unborn, waiting>>

fork(t, child) ==
    /\ Runs(t) /\ child \in unborn
    /\ Become(processForked(Now, Owner[t], child))
    /\ alive' = alive \cup {child} /\ unborn' = unborn \ {child}
    /\ UNCHANGED <<created, waiting>>

(* The last thread of a process is deleted, a waiting one included. *)
exit(p) ==
    /\ p \in alive
    /\ Become(processClosed(Now, p))
    /\ alive' = alive \ {p}
    /\ waiting' = [t \in Thread |-> IF Owner[t] = p THEN NoCall ELSE waiting[t]]
    /\ UNCHANGED <<created, unborn>>

Fds == 0..MaxFd
Next ==
    \/ \E t \in Thread :
          \/ \E fd \in Fds, n \in ReadSizes : fsRead(t, fd, n)
          \/ \E fd \in Fds, n \in WriteSizes : fsWrite(t, fd, n)
          \/ \E a \in CloneArgs : a[4] \in alive /\ fsClonefd(t, a[1], a[2], a[3], a[4])
          \/ \E fd \in Fds : fsClose(t, fd)
          \/ \E child \in Process : fork(t, child)
          \/ fsPipe(t) \/ retry(t) \/ finish(t)
    \/ \E p \in Process : exit(p)

Spec == Init /\ [][Next]_vars

(* Every walk over a wait queue asks every waiting thread (checkWaiting). *)
FairSpec == Spec /\ \A t \in Thread : WF_vars(checkWaiting(t))

-----------------------------------------------------------------------------
Call == [op : {"read", "write"}, node : Node, length : ReadSizes \cup WriteSizes,
         status : {"repeat", "finished"}, success : BOOLEAN]

(* Type invariant: a pipe never stores more than its capacity, descriptors   *)
(* refer to nodes that exist, and only threads of live processes wait.       *)
TypeOK ==
    /\ created \in 0..MaxPipes /\ DOMAIN pipes \subseteq 0..created - 1
    /\ \A id \in DOMAIN pipes :
          pipes[id].size \in 0..Capacity /\ pipes[id].references \in [Process -> Nat]
    /\ \A p \in Process : \A fd \in DOMAIN tables[p].descriptors :
          fd \in Fds /\ tables[p].descriptors[fd] \in 0..created - 1
    /\ alive \cup unborn \subseteq Process /\ alive \cap unborn = {}
    /\ \A t \in Thread : waiting[t] # NoCall => waiting[t] \in Call /\ Owner[t] \in alive

(* What programs must keep to, because descriptors are lost otherwise: new    *)
(* descriptors are only made in processes that were not forked, whose numbers  *)
(* do not start again, and a descriptor is only put in the place of a lower    *)
(* one of the same process.                                                    *)
CarefulPrograms ==
    /\ Creators \subseteq First
    /\ \A a \in CloneArgs :
          /\ a[2] \in Process /\ a[4] \in Process
          /\ \/ a[3] = AnyFd /\ a[4] \in First
             \/ a[3] \in Fds /\ a[4] = a[2] /\ a[3] < a[1]

(* The descriptors of process p that refer to pipe id. *)
EndsOf(p, id) == Ends(Now, p, id)
OthersHold(p, id) == \E q \in alive \ {p} : EndsOf(q, id) # {}

(* The reference list that addReference and removeReference keep counts the  *)
(* descriptors: a pipe has one reference of a process for each descriptor of  *)
(* that process, and exists exactly as long as some descriptor refers to it.  *)
ReferencesMatch ==
    \A id \in 0..created - 1 :
        /\ id \in DOMAIN pipes <=> \E p \in alive : EndsOf(p, id) # {}
        /\ id \in DOMAIN pipes =>
              \A p \in Process : pipes[id].references[p] = Cardinality(EndsOf(p, id))

(* A blocked read or write ends without bytes (FS_READ_ERROR, FS_WRITE_ERROR) only   *)
(* at a moment when no other process has a descriptor of the pipe: data on    *)
(* its way through a pipe somebody can still fill or empty is not cut short.  *)
ErrorMeansAlone ==
    [][\A t \in Thread, id \in Node :
          (/\ waiting[t] # NoCall /\ waiting[t].node = id /\ waiting[t].status = "repeat"
           /\ waiting'[t] # NoCall /\ waiting'[t].status = "finished"
           /\ ~waiting'[t].success)
              => ~OthersHold(Owner[t], id)]_vars

(* A blocked read or write that could go on returns: because there are bytes  *)
(* to read or room to write, or because ("avoid block if no one else has       *)
(* access to pipe", FsDelegatePipe::requestRead) no other process has a        *)
(* descriptor any more.  A read of zero bytes is only released by the latter.  *)
CanGoOn(t) ==
    /\ waiting[t] # NoCall
    /\ LET id == waiting[t].node
       IN  \/ ~OthersHold(Owner[t], id)
           \/ id \in DOMAIN pipes /\ IF waiting[t].op = "read"
                                     THEN waiting[t].length > 0 /\ pipes[id].size > 0
                                     ELSE pipes[id].size < Capacity
BlockedCallsEnd == \A t \in Thread : []<>~CanGoOn(t)
=============================================================================
