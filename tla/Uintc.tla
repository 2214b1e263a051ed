------------------------------- MODULE Uintc -------------------------------
(***************************************************************************)
(* User-interrupt management of src/src/uintc/mod.rs.  Receivers are      *)
(* UINTC entries (UIntrReceiver) that notifications register for; senders *)
(* are entries of per-thread sender tables (UIntrSTEntry) in a pool.  On  *)
(* every return to user mode uirs_restore reads the receiver entry of the *)
(* current thread's bound notification from the UINTC, sets its mode and *)
(* hart and writes both words back, and uist_init points the hart at the  *)
(* thread's sender table.  Meanwhile user threads on other harts send     *)
(* (uipi_send: the UINTC sets a bit in the target receiver's irq word)    *)
(* and claim (uipi_read/uipi_write) user interrupts.                      *)
(*                                                                         *)
(* Kernel entries are atomic (they hold the allocators' locks and run on  *)
(* one hart); only uirs_restore is split into its read of the UINTC and   *)
(* its write-back, because the hardware can change the entry in between.  *)
(* The irq word is the set of its 1 bits; the mode and hartid fields of a *)
(* receiver are not modelled, as no property depends on them.             *)
(***************************************************************************)
EXTENDS Integers, FiniteSets

CONSTANTS
    Harts,              \* the harts running user threads
    Threads,            \* user threads
    Ntfns,              \* notification objects
    Bound,              \* tcbBoundNotification of each thread (or NoNtfn)
    NoNtfn, NoIdx,      \* null values
    EntryNum,           \* UINTC_ENTRY_NUM
    PoolNum,            \* size of the sender-table pool (16 in the code)
    ALLOCATE_ID_TO_RS_ID, \* the map from receiver allocator index to UINTC entry
    Vecs                \* badges a notification cap can carry (sender vectors)

ASSUME Bound \in [Threads -> Ntfns \cup {NoNtfn}]

EntryIdx == 0..EntryNum - 1
PoolIdx  == 0..PoolNum - 1
RSIds    == {ALLOCATE_ID_TO_RS_ID[i] : i \in EntryIdx} \cup {0}   \* 0: a fresh ntfn's recv_idx
NoEntry  == [valid |-> FALSE, vec |-> 0, index |-> 0, for |-> NoNtfn]

VARIABLES
    recvAlloc,   \* UINTR_RECV_ALLOCATOR: allocated receiver indices
    poolAlloc,   \* UINTR_ST_POOL_ALLOCATOR: allocated sender tables
    entryAlloc,  \* UINTR_ST_ENTRY_ALLOCATOR: allocated entries per table
    kernelPool,  \* KERNEL_SENDER_POOL_IDX (NoIdx until first used)
    ntfn,        \* per notification: uintr_flag and recv_idx
    uist,        \* per thread: uintr_inner.uist
    ste,         \* UINTR_ST_POOL: sender entries; .for records the ntfn (history)
    irq,         \* UINTC receiver entries: the pending-vector bits
    cur,         \* the thread current on each hart
    phase,       \* per hart: "user", "kernel" or "restoring"
    snap,        \* per hart: uirs_restore's local copy (index, irq)
    suirs,       \* per hart: the suirs CSR (receiver index or NoIdx)
    suist,       \* per hart: the suist CSR (sender table or NoIdx)
    pending,     \* history: vectors sent to each receiver and not yet claimed
    halt         \* "none" or "panic"

vars == <<recvAlloc, poolAlloc, entryAlloc, kernelPool, ntfn, uist, ste, irq,
          cur, phase, snap, suirs, suist, pending, halt>>

(***************************************************************************)
(* IndexAllocator::allocate: the lowest free index, or none.              *)
(***************************************************************************)
(* A plausible slip: the allocator hands out its first index every time. *)
allocate_noMark(used, size) == IF size > 0 THEN 0 ELSE NoIdx

(* A plausible slip: the scan runs one index past the end (0..=SIZE).    *)
allocate_offByOne(used, size) ==
    LET free == {i \in 0..size : i \notin used}
    IN  IF free = {} THEN NoIdx ELSE CHOOSE i \in free : \A j \in free : i <= j

allocate(used, size) ==
    LET free == {i \in 0..size - 1 : i \notin used}
    IN  IF free = {} THEN NoIdx ELSE CHOOSE i \in free : \A j \in free : i <= j

(***************************************************************************)
(* Kernel entries.                                                         *)
(***************************************************************************)
InKernel(h) == phase[h] = "kernel" /\ halt = "none"

register_receiver(n, t) ==
    LET ri == allocate(recvAlloc, EntryNum)
        rs == ALLOCATE_ID_TO_RS_ID[ri]
    IN  /\ Bound[t] = n                      \* "need to bind ntfn first"
        /\ ri # NoIdx                        \* else "register_receiver fail"
        /\ recvAlloc' = recvAlloc \cup {ri}
        /\ ntfn' = [ntfn EXCEPT ![n] = [flag |-> 1, idx |-> rs]]
        /\ irq' = [irq EXCEPT ![rs] = {}]    \* uirs.irq = 0; uirs.sync
        /\ pending' = [pending EXCEPT ![rs] = {}]
        /\ UNCHANGED <<poolAlloc, entryAlloc, kernelPool, uist, ste>>

RegisterReceiver(h) ==
    /\ InKernel(h)
    /\ \E n \in Ntfns, t \in Threads : register_receiver(n, t)
    /\ UNCHANGED <<cur, phase, snap, suirs, suist, halt>>

(* Fill a sender entry: set_valid(true), set_vec, set_index.              *)
NewEntry(vec, n) == [valid |-> TRUE, vec |-> vec, index |-> ntfn[n].idx, for |-> n]

(* A plausible slip: the thread's existing table is not reused (the       *)
(* uist.is_none() test is lost) and every call takes a fresh one.          *)
register_sender_noReuse(t, n, badge) ==
    LET p  == allocate(poolAlloc, PoolNum)
        ei == IF p = NoIdx THEN NoIdx ELSE allocate(entryAlloc[p], EntryNum)
    IN  /\ p # NoIdx
        /\ poolAlloc' = poolAlloc \cup {p}
        /\ uist' = [uist EXCEPT ![t] = p]
        /\ IF ei = NoIdx
           THEN UNCHANGED <<entryAlloc, ste>>
           ELSE /\ entryAlloc' = [entryAlloc EXCEPT ![p] = @ \cup {ei}]
                /\ ste' = [ste EXCEPT ![<<p, ei>>] = NewEntry(badge, n)]
        /\ UNCHANGED <<recvAlloc, kernelPool, ntfn, irq, pending>>

register_sender(t, n, badge) ==
    LET p  == IF uist[t] # NoIdx THEN uist[t] ELSE allocate(poolAlloc, PoolNum)
        ei == IF p = NoIdx THEN NoIdx ELSE allocate(entryAlloc[p], EntryNum)
    IN  /\ p # NoIdx                         \* else "alloc sender table fail"
        /\ poolAlloc' = poolAlloc \cup {p}
        /\ uist' = [uist EXCEPT ![t] = p]
        /\ IF ei = NoIdx                     \* "fail to alloc uiste": table kept
           THEN UNCHANGED <<entryAlloc, ste>>
           ELSE /\ entryAlloc' = [entryAlloc EXCEPT ![p] = @ \cup {ei}]
                /\ ste' = [ste EXCEPT ![<<p, ei>>] = NewEntry(badge, n)]
        /\ UNCHANGED <<recvAlloc, kernelPool, ntfn, irq, pending>>

RegisterSender(h) ==
    /\ InKernel(h)
    /\ \E n \in Ntfns, badge \in Vecs : register_sender(cur[h], n, badge)
    /\ UNCHANGED <<cur, phase, snap, suirs, suist, halt>>

(* register_sender_async_syscall; the first use initialises the lazy     *)
(* KERNEL_SENDER_POOL_IDX, whose allocate().unwrap() panics on a full pool. *)
RegisterSenderAsync(h) ==
    /\ InKernel(h)
    /\ \E n \in Ntfns :
        LET p  == IF kernelPool # NoIdx THEN kernelPool ELSE allocate(poolAlloc, PoolNum)
            ei == IF p = NoIdx THEN NoIdx ELSE allocate(entryAlloc[p], EntryNum)
        IN  IF p = NoIdx
            THEN /\ halt' = "panic"
                 /\ UNCHANGED <<recvAlloc, poolAlloc, entryAlloc, kernelPool, ntfn, uist, ste, irq, pending>>
            ELSE /\ poolAlloc' = poolAlloc \cup {p}
                 /\ kernelPool' = p
                 /\ IF ei = NoIdx            \* returns -1
                    THEN UNCHANGED <<entryAlloc, ste>>
                    ELSE /\ entryAlloc' = [entryAlloc EXCEPT ![p] = @ \cup {ei}]
                         /\ ste' = [ste EXCEPT ![<<p, ei>>] = NewEntry(0, n)]
                 /\ UNCHANGED <<recvAlloc, ntfn, uist, irq, pending, halt>>
    /\ UNCHANGED <<cur, phase, snap, suirs, suist>>

(***************************************************************************)
(* User-mode steps and the return path.                                   *)
(***************************************************************************)
(* A system call or trap on hart h.                                       *)
Trap(h) ==
    /\ phase[h] = "user" /\ halt = "none"
    /\ phase' = [phase EXCEPT ![h] = "kernel"]
    /\ UNCHANGED <<recvAlloc, poolAlloc, entryAlloc, kernelPool, ntfn, uist, ste, irq,
                   cur, snap, suirs, suist, pending, halt>>

(* uist_init: the hart's sender table is the current thread's.            *)
uist_init(h, t) == suist' = [suist EXCEPT ![h] = uist[t]]

(* Kernel exit: the scheduler picks a thread t not running on another     *)
(* hart, then uintr_return runs uirs_restore, whose first half reads the  *)
(* receiver entry (UIntrReceiver::from) into a local copy.  A thread with *)
(* no registered receiver gets suirs = 0 and goes straight on to uist_init. *)
UintrReturn(h) ==
    /\ InKernel(h)
    /\ \E t \in Threads :
        /\ \A g \in Harts \ {h} : cur[g] # t
        /\ cur' = [cur EXCEPT ![h] = t]
        /\ LET n == Bound[t]
           IN  IF n # NoNtfn /\ ntfn[n].flag = 1
               THEN /\ snap' = [snap EXCEPT ![h] = [idx |-> ntfn[n].idx, irq |-> irq[ntfn[n].idx]]]
                    /\ phase' = [phase EXCEPT ![h] = "restoring"]
                    /\ UNCHANGED <<suirs, suist>>
               ELSE /\ suirs' = [suirs EXCEPT ![h] = NoIdx]
                    /\ uist_init(h, t)
                    /\ phase' = [phase EXCEPT ![h] = "user"]
                    /\ UNCHANGED snap
    /\ UNCHANGED <<recvAlloc, poolAlloc, entryAlloc, kernelPool, ntfn, uist, ste, irq, pending, halt>>

(* Second half of uirs_restore: uirs.sync(index) writes the local copy,   *)
(* irq word included, back to the UINTC; suirs is pointed at the entry.   *)
uirs_restore_sync(h) ==
    /\ irq' = [irq EXCEPT ![snap[h].idx] = snap[h].irq]
    /\ suirs' = [suirs EXCEPT ![h] = snap[h].idx]

RestoreSync(h) ==
    /\ phase[h] = "restoring" /\ halt = "none"
    /\ uirs_restore_sync(h)
    /\ uist_init(h, cur[h])
    /\ phase' = [phase EXCEPT ![h] = "user"]
    /\ UNCHANGED <<recvAlloc, poolAlloc, entryAlloc, kernelPool, ntfn, uist, ste,
                   cur, snap, pending, halt>>

(* uipi_send(off) by the user thread on h: the UINTC looks up entry off   *)
(* of the hart's sender table and, if valid, sets bit vec of the target   *)
(* receiver's irq word.                                                    *)
Send(h) ==
    /\ phase[h] = "user" /\ halt = "none"
    /\ suist[h] # NoIdx
    /\ \E off \in EntryIdx :
        LET e == ste[<<suist[h], off>>]
        IN  /\ e.valid
            /\ irq' = [irq EXCEPT ![e.index] = @ \cup {e.vec}]
            /\ pending' = [pending EXCEPT ![e.index] = @ \cup {e.vec}]
    /\ UNCHANGED <<recvAlloc, poolAlloc, entryAlloc, kernelPool, ntfn, uist, ste,
                   cur, phase, snap, suirs, suist, halt>>

(* The receiver's handler takes its pending vectors (uipi_read, then      *)
(* uipi_write of the remaining bits, here none).                          *)
Claim(h) ==
    /\ phase[h] = "user" /\ halt = "none"
    /\ suirs[h] # NoIdx
    /\ irq[suirs[h]] # {}
    /\ irq' = [irq EXCEPT ![suirs[h]] = {}]
    /\ pending' = [pending EXCEPT ![suirs[h]] = {}]
    /\ UNCHANGED <<recvAlloc, poolAlloc, entryAlloc, kernelPool, ntfn, uist, ste,
                   cur, phase, snap, suirs, suist, halt>>

(***************************************************************************)
(* Initially nothing is registered and every hart is in user mode running *)
(* a different thread.                                                     *)
(***************************************************************************)
Init ==
    /\ recvAlloc = {}
    /\ poolAlloc = {}
    /\ entryAlloc = [p \in PoolIdx |-> {}]
    /\ kernelPool = NoIdx
    /\ ntfn = [n \in Ntfns |-> [flag |-> 0, idx |-> 0]]
    /\ uist = [t \in Threads |-> NoIdx]
    /\ ste = [k \in PoolIdx \X EntryIdx |-> NoEntry]
    /\ irq = [r \in RSIds |-> {}]
    /\ cur \in {c \in [Harts -> Threads] : \A g, h \in Harts : g # h => c[g] # c[h]}
    /\ phase = [h \in Harts |-> "user"]
    /\ snap = [h \in Harts |-> [idx |-> 0, irq |-> {}]]
    /\ suirs = [h \in Harts |-> NoIdx]
    /\ suist = [h \in Harts |-> NoIdx]
    /\ pending = [r \in RSIds |-> {}]
    /\ halt = "none"

Next ==
    \E h \in Harts :
        \/ Trap(h)
        \/ RegisterReceiver(h)
        \/ RegisterSender(h)
        \/ RegisterSenderAsync(h)
        \/ UintrReturn(h)
        \/ RestoreSync(h)
        \/ Send(h)
        \/ Claim(h)

Spec == Init /\ [][Next]_vars

(***************************************************************************)
(* Properties.                                                             *)
(***************************************************************************)
TypeOK ==
    /\ recvAlloc \subseteq EntryIdx
    /\ poolAlloc \subseteq PoolIdx
    /\ entryAlloc \in [PoolIdx -> SUBSET EntryIdx]
    /\ ntfn \in [Ntfns -> [flag : {0, 1}, idx : RSIds]]
    /\ uist \in [Threads -> PoolIdx \cup {NoIdx}]
    /\ irq \in [RSIds -> SUBSET Vecs]
    /\ suirs \in [Harts -> RSIds \cup {NoIdx}]
    /\ halt \in {"none", "panic"}

(* The allocators never hand one resource to two owners: notifications   *)
(* registered as receivers have distinct UINTC entries, threads have      *)
(* distinct sender tables, none of them the kernel's, and every valid     *)
(* sender entry sits in an allocated slot.                                 *)
UintcIndicesExclusive ==
    /\ \A n, m \in Ntfns : n # m /\ ntfn[n].flag = 1 /\ ntfn[m].flag = 1 => ntfn[n].idx # ntfn[m].idx
    /\ \A t, u \in Threads : t # u /\ uist[t] # NoIdx => uist[t] # uist[u]
    /\ \A t \in Threads : uist[t] # NoIdx => uist[t] # kernelPool
    /\ \A k \in PoolIdx \X EntryIdx : ste[k].valid => k[2] \in entryAlloc[k[1]]

(* Every sender table taken from the 16-table pool has exactly one owner, *)
(* a thread (uintr_inner.uist) or the kernel (KERNEL_SENDER_POOL_IDX), so  *)
(* with one table per thread plus one the pool never runs dry: the lazy    *)
(* allocate().unwrap() of the kernel's table (line 48) does not panic, in  *)
(* whatever order threads register and the kernel first sends.            *)
SenderPoolAccounted ==
    /\ poolAlloc = {uist[t] : t \in {u \in Threads : uist[u] # NoIdx}} \cup ({kernelPool} \ {NoIdx})
    /\ halt = "none"

(* A user interrupt sent to a receiver stays pending (its bit stays set   *)
(* in the UINTC, "there is user-interrupt request for a vector if the     *)
(* corresponding bit is 1") until the receiver claims it or the entry is  *)
(* re-registered: uirs_restore's write-back must not erase it.            *)
NoLostUserInterrupt == \A r \in RSIds : pending[r] \subseteq irq[r]

(* A sender entry registered for notification n delivers to n's receiver *)
(* entry: n is registered as a receiver and the entry's index is its       *)
(* recv_idx.                                                               *)
SendReachesRegisteredReceiver ==
    \A k \in PoolIdx \X EntryIdx :
        (ste[k].valid /\ ste[k].for # NoNtfn) =>
            /\ ntfn[ste[k].for].flag = 1
            /\ ste[k].index = ntfn[ste[k].for].idx

====
