------------------------------- MODULE Mailbox -------------------------------
(* What message passing promises: every thread has a mailbox, letters are put  *)
(* in at the end as long as their content fits, and only the thread takes them *)
(* out, in that order (among those of one transaction, when it asks for one).  *)
(* The letters a thread has not taken are thrown away when it is deleted.      *)
EXTENDS Naturals, Sequences, SequencesExt

CONSTANTS Thread, Letter, None, MaximumQueueContent

VARIABLES box, deleted

Content(letters) == FoldSeq(LAMBDA l, n : l.length + n, 0, letters)

Init == box = [t \in Thread |-> << >>] /\ deleted = {}

(* The letter put in is the one that lies last afterwards. *)
Put(t) ==
    /\ Len(box'[t]) = Len(box[t]) + 1
    /\ LET letter == Last(box'[t])
       IN  /\ letter \in Letter
           /\ Content(box[t]) + letter.length <= MaximumQueueContent
           /\ box' = [box EXCEPT ![t] = Append(@, letter)]
    /\ UNCHANGED deleted

Asked(l, x) == x = None \/ l.transaction = x

(* The first letter of the transaction, whatever lies in front of it. *)
Take(t) ==
    /\ t \notin deleted
    /\ Len(box'[t]) + 1 = Len(box[t])
    /\ \E i \in DOMAIN box[t] :
         /\ box' = [box EXCEPT ![t] = RemoveAt(@, i)]
         /\ \E x \in {box[t][i].transaction, None} : \A j \in 1..(i - 1) : ~Asked(box[t][j], x)
    /\ UNCHANGED deleted

Delete(t) ==
    /\ t \notin deleted /\ deleted' = deleted \cup {t}
    /\ box' = [box EXCEPT ![t] = << >>]

Next == \E t \in Thread : Put(t) \/ Take(t) \/ Delete(t)

Spec == Init /\ [][Next]_<<box, deleted>>
===============================================================================
