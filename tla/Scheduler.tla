----------------------------- MODULE Scheduler -----------------------------
(***************************************************************************)
(* The scheduler and TCB state machine of src/src/kernel/thread.rs.       *)
(*                                                                         *)
(* The kernel is single-core and runs one kernel entry at a time; within   *)
(* an entry the scheduler functions are plain sequential code over global  *)
(* state.  The whole scheduler state is therefore one record ks, and every *)
(* Rust function is an operator from a state record (and its arguments) to *)
(* the state record it leaves, so that a call sequence in the code is a    *)
(* nesting of operators here.                                              *)
(*                                                                         *)
(* A kernel entry is: the operations of one system call, then schedule(),  *)
(* then activateThread() just before the return to user mode.             *)
(***************************************************************************)
EXTENDS Integers, Sequences, SequencesExt, FiniteSets

CONSTANTS
    Threads,         \* the user TCBs
    Idle,            \* ksIdleThread
    NULL,            \* the null TCB pointer (0)
    InitThread,      \* the root server's TCB, created at boot
    WordRadix,       \* wordRadix: a word has 2^WordRadix bits
    NumPriorities,   \* CONFIG_NUM_PRIORITIES
    NumDomains,      \* CONFIG_NUM_DOMAINS
    CurDomain,       \* ksCurDomain (never advanced: nextDomain is commented out)
    ThreadDomain,    \* tcb.domain of every user TCB
    MaxOps,          \* bound on the scheduler calls of one system call
    PrioChoices      \* the priorities a SetPriority invocation may request

ASSUME InitThread \in Threads
ASSUME PrioChoices \subseteq 0..NumPriorities - 1
ASSUME ThreadDomain \in [Threads -> 0..NumDomains - 1]

TCBs     == Threads \cup {Idle}
Prios    == 0..NumPriorities - 1
Domains  == 0..NumDomains - 1
QueueIds == Domains \X Prios
WordBits == 2^WordRadix
L2_BITMAP_SIZE == (NumPriorities + WordBits - 1) \div WordBits
seL4_MaxPrio   == NumPriorities - 1

(* ksSchedulerAction: the two sentinels, or a TCB to switch to. *)
ResumeCurrentThread == "ResumeCurrentThread"
ChooseNewThread     == "ChooseNewThread"

ThreadStates == {"Inactive", "Running", "Restart", "IdleThreadState",
                 "BlockedOnReceive", "BlockedOnSend", "BlockedOnReply",
                 "BlockedOnNotification"}
BlockedStates == {"BlockedOnReceive", "BlockedOnSend", "BlockedOnReply",
                  "BlockedOnNotification"}

VARIABLES
    ks,          \* the scheduler globals and the scheduler fields of every TCB
    phase,       \* "user", "kernel" (system call done, schedule() pending), "activate"
    entryOps     \* scheduler calls made so far by the current system call

vars == <<ks, phase, entryOps>>

Dom(t) == IF t \in Threads THEN ThreadDomain[t] ELSE 0

-----------------------------------------------------------------------------
(* Machine-word bit operations, on words of WordBits bits.                 *)

HasBit(w, i)   == (w \div 2^i) % 2 = 1
SetBit(w, i)   == IF HasBit(w, i) THEN w ELSE w + 2^i      \* w |= BIT!(i)
ClearBit(w, i) == IF HasBit(w, i) THEN w - 2^i ELSE w      \* w &= !BIT!(i)
\* leading_zeros() of a WordBits-bit word
LeadingZeros(w) ==
    IF w = 0 THEN WordBits
    ELSE WordBits - 1 - (CHOOSE i \in 0..WordBits - 1 : 2^i <= w /\ w < 2^(i + 1))

prio_to_l1index(prio)    == prio \div WordBits
l1index_to_prio(l1index) == l1index * WordBits
invert_l1index(l1index)  == L2_BITMAP_SIZE - 1 - l1index

(* getHighestPrio: two count-leading-zeros; the "|" of the code is a "+"   *)
(* because l2index < WordBits and l1index_to_prio has no low bits.  An    *)
(* all-zero L2 row makes wordBits - 1 - leading_zeros() underflow, which  *)
(* is an arithmetic panic (debug) or an out-of-bounds index (release):    *)
(* the result is then -1 here, and chooseThread panics on it.             *)
\* Variant of getHighestPrio that indexes the L2 row without inverting.
getHighestPrio_noInvert(s, dom) ==
    LET l1index == WordBits - 1 - LeadingZeros(s.l1[dom])
        l2index == WordBits - 1 - LeadingZeros(s.l2[dom][l1index])
    IN  IF l2index < 0 THEN -1 ELSE l1index_to_prio(l1index) + l2index

getHighestPrio(s, dom) ==
    LET l1index == WordBits - 1 - LeadingZeros(s.l1[dom])
        l2index == WordBits - 1 - LeadingZeros(s.l2[dom][invert_l1index(l1index)])
    IN  IF l2index < 0 THEN -1 ELSE l1index_to_prio(l1index) + l2index

addToBitmap(s, dom, prio) ==
    LET l1index == prio_to_l1index(prio)
        inv     == invert_l1index(l1index)
    IN  [s EXCEPT !.l1[dom]      = SetBit(@, l1index),
                  !.l2[dom][inv] = SetBit(@, prio % WordBits)]

\* Variant of removeFromBitmap that never clears the L1 bit.
removeFromBitmap_keepL1(s, dom, prio) ==
    LET inv == invert_l1index(prio_to_l1index(prio))
    IN  [s EXCEPT !.l2[dom][inv] = ClearBit(@, prio % WordBits)]

removeFromBitmap(s, dom, prio) ==
    LET l1index == prio_to_l1index(prio)
        inv     == invert_l1index(l1index)
        row     == ClearBit(s.l2[dom][inv], prio % WordBits)
    IN  [s EXCEPT !.l2[dom][inv] = row,
                  !.l1[dom]      = IF row = 0 THEN ClearBit(@, l1index) ELSE @]

-----------------------------------------------------------------------------
(* Thread state predicates.                                                *)

isRunnable(s, t) == s.tsType[t] \in {"Running", "Restart"}
\* isStopped (thread.rs:93-107): of its match patterns only ThreadStateInactive
\* is an imported constant; ThreadStateBlockedOnNotification is not in
\* scope, so Rust reads it as a binding that matches every other state.
\* The function is therefore TRUE for every TCB pointer other than 0 and 1,
\* whatever its state.
isStopped(s, t)  == t # NULL

-----------------------------------------------------------------------------
(* The ready queues: intrusive doubly-linked lists through tcbSchedNext and *)
(* tcbSchedPrev, with head and tail in ksReadyQueues[dom][prio].           *)

\* Variant of tcbSchedEnqueue that links the thread in at the head.
tcbSchedEnqueue_atHead(s, t) ==
    IF s.tcbQueued[t] # 0 THEN s
    ELSE LET qid == <<Dom(t), s.tcbPriority[t]>>
             q   == s.queues[qid]
             s1  == IF q.tail = NULL
                    THEN addToBitmap([s EXCEPT !.queues[qid].tail = t], Dom(t), s.tcbPriority[t])
                    ELSE [s EXCEPT !.prev[q.head] = t]
         IN  [s1 EXCEPT !.prev[t] = NULL,
                        !.next[t] = q.head,
                        !.queues[qid].head = t,
                        !.tcbQueued[t] = 1]

tcbSchedEnqueue(s, t) ==
    IF s.tcbQueued[t] # 0 THEN s
    ELSE LET qid == <<Dom(t), s.tcbPriority[t]>>
             q   == s.queues[qid]
             s1  == IF q.tail = NULL
                    THEN addToBitmap([s EXCEPT !.queues[qid].head = t], Dom(t), s.tcbPriority[t])
                    ELSE [s EXCEPT !.next[q.tail] = t]
         IN  [s1 EXCEPT !.prev[t] = q.tail,
                        !.next[t] = NULL,
                        !.queues[qid].tail = t,
                        !.tcbQueued[t] = 1]

\* Variant of tcbSchedDequeue that forgets to move the tail back.
tcbSchedDequeue_keepTail(s, t) ==
    IF s.tcbQueued[t] = 0 THEN s
    ELSE LET qid == <<Dom(t), s.tcbPriority[t]>>
             p   == s.prev[t]
             n   == s.next[t]
             s1  == IF p # NULL
                    THEN [s EXCEPT !.next[p] = n]
                    ELSE LET s0 == [s EXCEPT !.queues[qid].head = n]
                         IN  IF n = NULL THEN removeFromBitmap(s0, Dom(t), s.tcbPriority[t])
                                         ELSE s0
             s2  == IF n # NULL THEN [s1 EXCEPT !.prev[n] = p] ELSE s1
         IN  [s2 EXCEPT !.tcbQueued[t] = 0]

tcbSchedDequeue(s, t) ==
    IF s.tcbQueued[t] = 0 THEN s
    ELSE LET qid == <<Dom(t), s.tcbPriority[t]>>
             p   == s.prev[t]
             n   == s.next[t]
             s1  == IF p # NULL
                    THEN [s EXCEPT !.next[p] = n]
                    ELSE LET s0 == [s EXCEPT !.queues[qid].head = n]
                         IN  IF n = NULL THEN removeFromBitmap(s0, Dom(t), s.tcbPriority[t])
                                         ELSE s0
             s2  == IF n # NULL
                    THEN [s1 EXCEPT !.prev[n] = p]
                    ELSE [s1 EXCEPT !.queues[qid].tail = p]
         IN  [s2 EXCEPT !.tcbQueued[t] = 0]

\* Differs from tcbSchedEnqueue: tests head rather than tail, and never
\* stores the new tail (thread.rs:476-486).
tcbSchedAppend(s, t) ==
    IF s.tcbQueued[t] # 0 THEN s
    ELSE LET qid == <<Dom(t), s.tcbPriority[t]>>
             q   == s.queues[qid]
             s1  == IF q.head = NULL
                    THEN addToBitmap([s EXCEPT !.queues[qid].head = t], Dom(t), s.tcbPriority[t])
                    ELSE [s EXCEPT !.next[q.tail] = t]
         IN  [s1 EXCEPT !.prev[t] = q.tail,
                        !.next[t] = NULL,
                        !.tcbQueued[t] = 1]

-----------------------------------------------------------------------------
(* Scheduler actions and thread state changes.                             *)

rescheduleRequired(s) ==
    LET s1 == IF s.action \notin {ResumeCurrentThread, ChooseNewThread}
              THEN tcbSchedEnqueue(s, s.action)
              ELSE s
    IN  [s1 EXCEPT !.action = ChooseNewThread]

scheduleTCB(s, t) ==
    IF t = s.curThread /\ s.action = ResumeCurrentThread /\ ~isRunnable(s, t)
    THEN rescheduleRequired(s)
    ELSE s

\* Variant of setThreadState without the scheduleTCB call.
setThreadState_noSchedule(s, t, ts) == [s EXCEPT !.tsType[t] = ts]

setThreadState(s, t, ts) == scheduleTCB([s EXCEPT !.tsType[t] = ts], t)

possibleSwitchTo(s, t) ==
    IF CurDomain # Dom(t) THEN tcbSchedEnqueue(s, t)
    ELSE IF s.action # ResumeCurrentThread
         THEN tcbSchedEnqueue(rescheduleRequired(s), t)
         ELSE [s EXCEPT !.action = t]

\* updateReStartPC only copies a register; registers are not modelled.
suspend(s, t) == tcbSchedDequeue(setThreadState(s, t, "Inactive"), t)

restart(s, t) ==
    IF isStopped(s, t)
    THEN possibleSwitchTo(tcbSchedEnqueue(setThreadState(s, t, "Restart"), t), t)
    ELSE s

\* Variant of setPriority that stores one more than the requested priority.
setPriority_offByOne(s, t, prio) ==
    LET s1 == [tcbSchedDequeue(s, t) EXCEPT !.tcbPriority[t] = prio + 1]
    IN  IF isRunnable(s1, t)
        THEN IF t = s1.curThread THEN rescheduleRequired(s1)
                                 ELSE possibleSwitchTo(s1, t)
        ELSE s1

\* Variant of setPriority that treats every runnable thread as the current one.
setPriority_noSwitch(s, t, prio) ==
    LET s1 == [tcbSchedDequeue(s, t) EXCEPT !.tcbPriority[t] = prio]
    IN  IF isRunnable(s1, t) THEN rescheduleRequired(s1) ELSE s1

\* Variant of setPriority that re-prioritises without dequeueing first.
setPriority_noDequeue(s, t, prio) ==
    LET s1 == [s EXCEPT !.tcbPriority[t] = prio]
    IN  IF isRunnable(s1, t)
        THEN IF t = s1.curThread THEN rescheduleRequired(s1)
                                 ELSE possibleSwitchTo(s1, t)
        ELSE s1

setPriority(s, t, prio) ==
    LET s1 == [tcbSchedDequeue(s, t) EXCEPT !.tcbPriority[t] = prio]
    IN  IF isRunnable(s1, t)
        THEN IF t = s1.curThread THEN rescheduleRequired(s1)
                                 ELSE possibleSwitchTo(s1, t)
        ELSE s1

switchToThread(s, t) == [tcbSchedDequeue(s, t) EXCEPT !.curThread = t]

\* Always domain 0 (thread.rs:358); with no ready thread the kernel shuts down.
chooseThread(s) ==
    LET dom == 0
    IN  IF s.l1[dom] # 0
        THEN LET prio == getHighestPrio(s, dom)
             IN  IF prio \notin Prios THEN [s EXCEPT !.halt = "panic"]  \* overflow / bounds check
                 ELSE LET thread == s.queues[<<dom, prio>>].head
                      IN  IF thread = NULL THEN [s EXCEPT !.halt = "panic"]  \* assert!(_thread != 0)
                                           ELSE switchToThread(s, thread)
        ELSE [s EXCEPT !.halt = "shutdown"]

activateThread(s) ==
    CASE s.tsType[s.curThread] = "Running"         -> s
      [] s.tsType[s.curThread] = "Restart"         -> setThreadState(s, s.curThread, "Running")
      [] s.tsType[s.curThread] = "IdleThreadState" -> s
      [] OTHER                                     -> [s EXCEPT !.halt = "panic"]

(* schedule() is not in src/; modelled from spec.md 4.6: the current      *)
(* thread goes back to its queue if still runnable, then either the        *)
(* SwitchTo target is switched to or a new thread is chosen.              *)
schedule(s) ==
    IF s.action = ResumeCurrentThread THEN s
    ELSE LET s1 == IF isRunnable(s, s.curThread) THEN tcbSchedEnqueue(s, s.curThread) ELSE s
             s2 == IF s.action = ChooseNewThread THEN chooseThread(s1)
                   ELSE switchToThread(s1, s.action)
         IN  [s2 EXCEPT !.action = ResumeCurrentThread]

-----------------------------------------------------------------------------
(* State after boot: root server created by create_initial_thread          *)
(* (root_server.rs:97-149) and made the SwitchTo target, every other TCB   *)
(* freshly retyped (zeroed: Inactive, priority 0), the idle thread current. *)

Init ==
    /\ ks = [tsType    |-> [t \in TCBs |-> IF t = InitThread THEN "Running"
                                          ELSE IF t = Idle THEN "IdleThreadState"
                                          ELSE "Inactive"],
             tcbQueued   |-> [t \in TCBs |-> 0],
             tcbPriority |-> [t \in TCBs |-> IF t = InitThread THEN seL4_MaxPrio ELSE 0],
             next        |-> [t \in TCBs |-> NULL],
             prev        |-> [t \in TCBs |-> NULL],
             queues      |-> [q \in QueueIds |-> [head |-> NULL, tail |-> NULL]],
             l1          |-> [d \in Domains |-> 0],
             l2          |-> [d \in Domains |-> [i \in 0..L2_BITMAP_SIZE - 1 |-> 0]],
             curThread   |-> Idle,
             action      |-> InitThread,
             halt        |-> "none"]
    /\ phase = "kernel"
    /\ entryOps = MaxOps

-----------------------------------------------------------------------------
(* Kernel entries.  A TCB invocation (Suspend, Resume, SetPriority) makes   *)
(* one scheduler call; IPC system calls (not in src/) wake blocked threads *)
(* with setThreadState(t, Running); possibleSwitchTo(t) and block the       *)
(* caller with setThreadState, up to MaxOps of these per call.              *)

Live(s) == s.halt = "none"

Invocation(newks) ==
    /\ phase = "user" /\ Live(ks)
    /\ ks.curThread \in Threads
    /\ ks' = newks
    /\ phase' = "kernel"
    /\ entryOps' = MaxOps

IPCStep(newks) ==
    /\ phase \in {"user", "kernel"} /\ Live(ks)
    /\ entryOps < MaxOps
    /\ ks.curThread \in Threads
    /\ ks' = newks
    /\ phase' = "kernel"
    /\ entryOps' = entryOps + 1

Suspend     == \E t \in Threads : Invocation(suspend(ks, t))
Resume      == \E t \in Threads : Invocation(restart(ks, t))
SetPriority == \E t \in Threads, p \in PrioChoices : Invocation(setPriority(ks, t, p))

(* The scheduler code never tells the blocked states apart (isStopped,    *)
(* isRunnable and activateThread treat them alike), so one stands for all. *)
BlockCurrent ==
    \E ts \in {"BlockedOnReceive"} :
        /\ ks.tsType[ks.curThread] = "Running"
        /\ IPCStep(setThreadState(ks, ks.curThread, ts))

WakeThread ==
    \E t \in Threads :
        /\ t # ks.curThread
        /\ ks.tsType[t] \in BlockedStates
        /\ IPCStep(possibleSwitchTo(setThreadState(ks, t, "Running"), t))

Schedule ==
    /\ phase = "kernel" /\ Live(ks)
    /\ ks' = schedule(ks)
    /\ phase' = "activate"
    /\ entryOps' = 0

ActivateThread ==
    /\ phase = "activate" /\ Live(ks)
    /\ ks' = activateThread(ks)
    /\ phase' = "user"
    /\ UNCHANGED entryOps

\* The kernel has shut down (or halted on a failed assertion).
Halted == ~Live(ks) /\ UNCHANGED vars

Next ==
    \/ Suspend \/ Resume \/ SetPriority
    \/ BlockCurrent \/ WakeThread
    \/ Schedule \/ ActivateThread
    \/ Halted

Spec == Init /\ [][Next]_vars

(* A yield-style entry (not in src/; spec.md 4.6: tcbSchedAppend serves    *)
(* priority ties): the current thread is taken out of its queue, appended  *)
(* behind the threads of equal priority, and a new thread is chosen.       *)
Yield ==
    /\ phase = "user" /\ Live(ks)
    /\ ks.curThread \in Threads
    /\ ks' = rescheduleRequired(tcbSchedAppend(tcbSchedDequeue(ks, ks.curThread), ks.curThread))
    /\ phase' = "kernel"
    /\ entryOps' = MaxOps

NextWithYield == Next \/ Yield

SpecWithYield == Init /\ [][NextWithYield]_vars

-----------------------------------------------------------------------------
(* Reading the linked ready queues.                                        *)

RECURSIVE WalkFrom(_, _, _)
WalkFrom(nxt, h, n) ==
    IF h = NULL \/ n = 0 THEN <<>> ELSE <<h>> \o WalkFrom(nxt, nxt[h], n - 1)

\* The threads reached from the head of queue qid, at most |TCBs| + 1 of them.
QueueContents(s, qid) == WalkFrom(s.next, s.queues[qid].head, Cardinality(TCBs) + 1)

\* The threads whose tcbQueued flag places them in queue qid.
FlaggedIn(s, qid) ==
    {t \in Threads : s.tcbQueued[t] = 1 /\ <<Dom(t), s.tcbPriority[t]>> = qid}

-----------------------------------------------------------------------------
(* Invariants and properties.                                              *)

TypeOK ==
    /\ ks.tsType \in [TCBs -> ThreadStates]
    /\ ks.tcbQueued \in [TCBs -> {0, 1}]
    /\ ks.tcbPriority \in [TCBs -> Prios]
    /\ ks.next \in [TCBs -> TCBs \cup {NULL}]
    /\ ks.prev \in [TCBs -> TCBs \cup {NULL}]
    /\ ks.queues \in [QueueIds -> [head : TCBs \cup {NULL}, tail : TCBs \cup {NULL}]]
    /\ ks.l1 \in [Domains -> 0..2^WordBits - 1]
    /\ ks.l2 \in [Domains -> [0..L2_BITMAP_SIZE - 1 -> 0..2^WordBits - 1]]
    /\ ks.curThread \in TCBs
    /\ ks.action \in {ResumeCurrentThread, ChooseNewThread} \cup Threads
    /\ ks.halt \in {"none", "shutdown", "panic"}
    /\ phase \in {"user", "kernel", "activate"}
    /\ entryOps \in 0..MaxOps

(* I5 and the list structure: every ready queue, walked from its head,    *)
(* ends (no cycle), its last element is the recorded tail, every prev link *)
(* mirrors a next link, and its members are exactly the TCBs whose         *)
(* tcbQueued flag, domain and priority place them there.  Enqueue, dequeue *)
(* and setPriority's dequeue-then-reprioritise must agree on all of it.    *)
ReadyQueuesWellFormed ==
    \A qid \in QueueIds :
        LET w == QueueContents(ks, qid)
        IN  /\ Len(w) <= Cardinality(Threads)
            /\ ks.queues[qid].tail = IF w = <<>> THEN NULL ELSE w[Len(w)]
            /\ w # <<>> => ks.prev[w[1]] = NULL
            /\ \A k \in 1..Len(w) - 1 : ks.prev[w[k + 1]] = w[k]
            /\ ToSet(w) = FlaggedIn(ks, qid)

(* I4: the bit of priority p in domain d's L2 row is set iff that queue is *)
(* non-empty, and an L1 bit is set iff its (inverted) L2 row is non-zero.  *)
BitmapMatchesQueues ==
    \A d \in Domains :
        /\ \A p \in Prios :
               HasBit(ks.l2[d][invert_l1index(prio_to_l1index(p))], p % WordBits)
                   <=> ks.queues[<<d, p>>].head # NULL
        /\ \A i \in 0..L2_BITMAP_SIZE - 1 :
               HasBit(ks.l1[d], i) <=> ks.l2[d][invert_l1index(i)] # 0

CurrentThreadActive ==
    /\ ks.halt # "panic"
    /\ (phase = "user" /\ Live(ks)) =>
           (ks.curThread = Idle \/ ks.tsType[ks.curThread] = "Running")

(* When schedule() chooses a new thread (bitmap arithmetic over L1/L2),   *)
(* the thread it picks was ready in domain 0 and has the highest priority *)
(* of every thread then ready there (the re-queued current one included). *)
ChoosesHighestReady ==
    [][ (Schedule /\ ks.action = ChooseNewThread) =>
          LET ready == {t \in Threads : Dom(t) = 0 /\
                          (ks.tcbQueued[t] = 1 \/ (t = ks.curThread /\ isRunnable(ks, t)))}
              chosen == ks'.curThread
          IN  ready # {} =>
                /\ Live(ks')
                /\ chosen \in ready
                /\ \A t \in ready : ks.tcbPriority[t] <= ks'.tcbPriority[chosen]
      ]_vars

(* Enqueue and dequeue are the sequence operations they stand for: in    *)
(* every reachable state, tcbSchedEnqueue of an unqueued thread appends it *)
(* at the tail of its queue's walk and tcbSchedDequeue of a queued thread  *)
(* removes exactly it, the others keeping their order.  This is what      *)
(* "FIFO within priority" asks of the pointer surgery in thread.rs.       *)
QueueOpsAreFifo ==
    \A t \in Threads :
        LET qid == <<Dom(t), ks.tcbPriority[t]>>
            w   == QueueContents(ks, qid)
        IN  IF ks.tcbQueued[t] = 0
            THEN QueueContents(tcbSchedEnqueue(ks, t), qid) = Append(w, t)
            ELSE QueueContents(tcbSchedDequeue(ks, t), qid) = Remove(w, t)

(* spec.md 4.6: when schedule() has to choose and no thread is ready in   *)
(* the current domain it switches to the idle thread, and the kernel runs  *)
(* on.  chooseThread (thread.rs:367-370) calls shutdown() instead.         *)
IdlesWhenNothingReady == ks.halt # "shutdown"

(* The linked lists implement FIFO ready queues (ReadyQueues.tla).         *)
AbsQueues == INSTANCE ReadyQueues WITH
                 QueueIds <- QueueIds, Elems <- Threads,
                 rq <- [qid \in QueueIds |-> QueueContents(ks, qid)]
ReadyQueuesFIFO == AbsQueues!Spec

=============================================================================
