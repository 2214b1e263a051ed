---------------------------- MODULE SchedulerIPC ----------------------------
(***************************************************************************)
(* The scheduler composed with one endpoint's wait queue.                  *)
(*                                                                         *)
(* tcbEPAppend and tcbEPDequeue (src/src/kernel/thread.rs) keep the queue  *)
(* as a head/tail pair passed by value and the tcbEPNext/tcbEPPrev fields  *)
(* of the TCBs.  Their callers, sendIPC and receiveIPC, are not in src/;   *)
(* as spec.md 4.7 says, they block a sender on the endpoint and wake the   *)
(* sender at its head, and that is all they do here: one endpoint, the     *)
(* send side only.  Every Scheduler action that is not IPC (Suspend,       *)
(* Resume, SetPriority, Schedule, ActivateThread) leaves the queue alone;  *)
(* in particular suspend, whose cancelIPC call is commented out.           *)
(***************************************************************************)
EXTENDS Scheduler

VARIABLE ep   \* [head, tail] of the endpoint and the TCBs' tcbEPNext/tcbEPPrev

ipcVars == <<vars, ep>>

tcbEPAppend(e, t) ==
    [e EXCEPT !.head = IF e.head = NULL THEN t ELSE @,
              !.next = IF e.head = NULL THEN [@ EXCEPT ![t] = NULL]
                       ELSE [@ EXCEPT ![e.tail] = t, ![t] = NULL],
              !.prev = [@ EXCEPT ![t] = e.tail],
              !.tail = t]

(* The dequeued TCB's own tcbEPNext/tcbEPPrev are left as they were.       *)
tcbEPDequeue(e, t) ==
    LET p == e.prev[t]
        n == e.next[t]
    IN  [e EXCEPT !.next = IF p # NULL THEN [@ EXCEPT ![p] = n] ELSE @,
                  !.head = IF p # NULL THEN @ ELSE n,
                  !.prev = IF n # NULL THEN [@ EXCEPT ![n] = p] ELSE @,
                  !.tail = IF n # NULL THEN @ ELSE p]

(* sendIPC with no receiver waiting: the caller blocks and joins the queue.*)
SendBlock ==
    /\ ks.tsType[ks.curThread] = "Running"
    /\ IPCStep(setThreadState(ks, ks.curThread, "BlockedOnSend"))
    /\ ep' = tcbEPAppend(ep, ks.curThread)

(* receiveIPC finding a sender queued: the head is dequeued and, its       *)
(* message transferred, made Running; the queue is trusted, so the head's *)
(* state is not looked at.                                                 *)
ReceiveWake ==
    LET h == ep.head
    IN  /\ h # NULL
        /\ h # ks.curThread
        /\ ks.tsType[ks.curThread] = "Running"
        /\ IPCStep(possibleSwitchTo(setThreadState(ks, h, "Running"), h))
        /\ ep' = tcbEPDequeue(ep, h)

IPCInit ==
    /\ Init
    /\ ep = [head |-> NULL, tail |-> NULL,
             next |-> [t \in TCBs |-> NULL], prev |-> [t \in TCBs |-> NULL]]

IPCNext ==
    \/ (Suspend \/ Resume \/ SetPriority \/ Schedule \/ ActivateThread \/ Halted)
         /\ UNCHANGED ep
    \/ SendBlock
    \/ ReceiveWake

IPCSpec == IPCInit /\ [][IPCNext]_ipcVars

-----------------------------------------------------------------------------
EPQueue == WalkFrom(ep.next, ep.head, Cardinality(TCBs) + 1)

(* spec.md 3 and 4.7: a TCB is on the endpoint queue exactly while it is  *)
(* blocked sending to it, at most once, and the queue is a well-formed     *)
(* doubly-linked list ending at its tail, so that receiveIPC only ever     *)
(* wakes a blocked sender.  suspend, which sets a blocked thread Inactive  *)
(* without cancelIPC, has to keep this.                                     *)
EPQueueMatchesState ==
    /\ IsInjective(EPQueue)
    /\ Len(EPQueue) <= Cardinality(Threads)
    /\ ToSet(EPQueue) = {t \in Threads : ks.tsType[t] = "BlockedOnSend"}
    /\ ep.tail = IF EPQueue = <<>> THEN NULL ELSE EPQueue[Len(EPQueue)]
    /\ \A i \in 1..Len(EPQueue) :
           ep.prev[EPQueue[i]] = IF i = 1 THEN NULL ELSE EPQueue[i - 1]

=============================================================================
