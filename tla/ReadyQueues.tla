---------------------------- MODULE ReadyQueues ----------------------------
(***************************************************************************)
(* Abstract specification of the scheduler's ready queues (spec.md 4.6,   *)
(* 5: "FIFO within priority").  Each queue is a sequence of distinct      *)
(* threads and no thread is in two queues.  In one step every queue may   *)
(* lose any of its members, the survivors keep their relative order, and  *)
(* new members join only at the tail.  Several enqueues and dequeues may  *)
(* happen in one step because one kernel entry performs several of them   *)
(* (e.g. schedule() re-queues the current thread and dequeues the chosen  *)
(* one).                                                                   *)
(***************************************************************************)
EXTENDS Sequences, SequencesExt, FiniteSets

CONSTANTS
    QueueIds,   \* one queue per (domain, priority)
    Elems       \* the threads

VARIABLE rq     \* rq[i] : the contents of queue i, head first

Distinct(s) == Cardinality(ToSet(s)) = Len(s)

NoThreadInTwoQueues ==
    \A i, j \in QueueIds : i # j => ToSet(rq[i]) \cap ToSet(rq[j]) = {}

TypeOK ==
    /\ rq \in [QueueIds -> Seq(Elems)]
    /\ \A i \in QueueIds : Distinct(rq[i])
    /\ NoThreadInTwoQueues

Init == rq = [i \in QueueIds |-> <<>>]

(* r is q with some members removed (order kept) and fresh ones appended. *)
FifoStep(q, r) ==
    \E k \in 0..Len(r) :
        LET kept  == SubSeq(r, 1, k)
            added == SubSeq(r, k + 1, Len(r))
        IN  /\ kept = SelectSeq(q, LAMBDA x : x \in ToSet(kept))
            /\ ToSet(added) \cap ToSet(kept) = {}

Next ==
    /\ \A i \in QueueIds : FifoStep(rq[i], rq'[i])
    /\ TypeOK'

Spec == Init /\ [][Next]_rq

=============================================================================
