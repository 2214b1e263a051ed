-------------------------------- MODULE CNode --------------------------------
(***************************************************************************)
(* CNode invocations and the deletion engine of src/src/object/cap.rs:    *)
(* cteDelete, finaliseSlot, reduceZombie, emptySlot, cteRevoke and the    *)
(* decoder's paths (Copy, Mint, Move, Mutate, Rotate, Delete, Revoke,     *)
(* SaveCaller, CancelBadgedSends), with preemptionPoint of                 *)
(* src/src/kernel/preemption.rs.                                          *)
(*                                                                         *)
(* Slots are integers so that a Zombie's "ptr + n - 1" is the code's      *)
(* pointer arithmetic: CNode object o owns slots Base[o] .. Base[o] +     *)
(* Size[o] - 1.  Caps are CNode caps, endpoint caps (with a badge), reply *)
(* caps and Zombies.  The MDB is the prev/next/revocable/firstBadged      *)
(* quadruple of every slot.  Rights are not modelled (every cap has all   *)
(* of them), so maskCapRights is the identity and hasCancelSendRight     *)
(* holds of every endpoint cap.                                           *)
(*                                                                         *)
(* A kernel entry is atomic (the kernel is non-preemptible except at      *)
(* preemptionPoint, where it aborts), so one invocation, including the    *)
(* whole recursive deletion, is one step.  Operators of this module are   *)
(* functions from a kernel-state record st to the next one; st.ret is the *)
(* exception_t the code returns.                                          *)
(*                                                                         *)
(* finaliseCap, cteInsert, cteMove, cteSwap, isFinalCapability,           *)
(* isMDBParentOf, deriveCap, isCapRevocable and updateCapData live in     *)
(* crates that are not part of the sources and are modelled from spec.md  *)
(* 4.2-4.4.                                                               *)
(*                                                                         *)
(* derivedFrom is a history variable: the slot a cap was copied or minted *)
(* from, kept up to date through moves, swaps and deletions.  No action   *)
(* reads it; MdbParentIsAncestor compares the MDB with it.                *)
(***************************************************************************)
EXTENDS Integers, FiniteSets

CONSTANTS
    Threads,      \* user threads invoking CNode operations
    CNodeObjs,    \* CNode objects
    EpObjs,       \* endpoint objects (caps to them cascade nothing)
    Base,         \* Base[o]: first slot of CNode object o
    Size,         \* Size[o]: 2^radix slots of CNode object o
    NSlots,       \* slots are 0 .. NSlots-1
    RootSlot,     \* RootSlot[t]: the TCB CTable slot of thread t
    CallerSlot,   \* CallerSlot[t]: the TCB caller slot of thread t
    InitCaps,     \* the possible slot -> cap maps the system starts from
    Badges,       \* badges a Mint may set (0 is "unbadged")
    CONFIG_MAX_NUM_WORK_UNITS_PER_PREEMPTION,
    Arrivals,     \* isIRQPending call index at which an IRQ becomes pending
    Fuel,         \* bound on the depth of the deletion recursion
    NoSlot,       \* a null cte_t pointer / an index that resolves nowhere
    NoObj

Slots == 0 .. NSlots - 1

\* Zombie numbers never exceed the largest CNode.
MaxN == CHOOSE m \in {Size[o] : o \in CNodeObjs} :
            \A o \in CNodeObjs : Size[o] <= m

NullCap      == [type |-> "null",   obj |-> NoObj, n |-> 0, badge |-> 0]
CNodeCap(o)  == [type |-> "cnode",  obj |-> o,     n |-> 0, badge |-> 0]
EpCap(e, b)  == [type |-> "ep",     obj |-> e,     n |-> 0, badge |-> b]
\* A non-master reply cap to thread t (the only kind a caller slot holds).
ReplyCap(t)  == [type |-> "reply",  obj |-> t,     n |-> 0, badge |-> 0]
Zombie(o, n) == [type |-> "zombie", obj |-> o,     n |-> n, badge |-> 0]

Caps == {NullCap} \cup {CNodeCap(o) : o \in CNodeObjs}
            \cup {EpCap(e, b) : e \in EpObjs, b \in {0} \cup Badges}
            \cup {ReplyCap(t) : t \in Threads}
            \cup {Zombie(o, n) : o \in CNodeObjs, n \in 0 .. MaxN}

SlotsOf(o) == Base[o] .. Base[o] + Size[o] - 1

\* cap_zombie_cap_get_capZombiePtr: the first slot of the zombie's object.
ZombiePtr(c) == Base[c.obj]

VARIABLES
    cap,          \* slot -> cap
    mdbNext,      \* slot -> slot or NoSlot
    mdbPrev,      \* slot -> slot or NoSlot
    mdbRevocable, \* slot -> BOOLEAN
    mdbFirstBadged, \* slot -> BOOLEAN
    derivedFrom,  \* history: slot -> the slot its cap was derived from
    ksWorkUnitsCompleted,
    tstate,       \* thread -> "running" | "restart"
    restartOp,    \* thread -> the invocation a Restart thread replays
    reply,        \* the last invocation, its exception and its thread
    halt          \* "none", "panic" (failed assert) or "loop" (no progress)

vars == <<cap, mdbNext, mdbPrev, mdbRevocable, mdbFirstBadged, derivedFrom,
          ksWorkUnitsCompleted, tstate, restartOp, reply, halt>>

(***************************************************************************)
(* Capability algebra (spec.md 4.2, 4.3).                                  *)
(***************************************************************************)
\* sameRegionAs / sameObjectAs: the same kind and object, whatever the
\* badge; Zombies are the same as nothing.
sameObjectAs(a, b) == a.type \in {"cnode", "ep", "reply"} /\ a.type = b.type /\ a.obj = b.obj

\* finaliseCap(cap, final, false) as finaliseSlot calls it: the remainder.
finaliseCap(c, final) ==
    CASE c.type = "cnode" /\ final -> Zombie(c.obj, Size[c.obj])
      [] c.type = "zombie"         -> c
      [] OTHER                     -> NullCap

\* Mutant: a one-slot Zombie is removable wherever it sits.
capRemovable_noSlotCheck(c, slot) ==
    \/ c.type = "null"
    \/ c.type = "zombie" /\ c.n <= 1

\* capRemovable: a Null cap, or a Zombie with nothing left but its own slot.
capRemovable(c, slot) ==
    \/ c.type = "null"
    \/ c.type = "zombie" /\ (c.n = 0 \/ (c.n = 1 /\ ZombiePtr(c) = slot))

capCyclicZombie(c, slot) == c.type = "zombie" /\ ZombiePtr(c) = slot

\* deriveCap: Zombies and reply caps cannot be derived.
deriveCap(c) == IF c.type \in {"zombie", "reply"} THEN NullCap ELSE c

\* isCapRevocable: a derived endpoint cap is revocable iff its badge
\* differs from its source's.
isCapRevocable(derived, src) == derived.type = "ep" /\ derived.badge # src.badge

\* updateCapData(preserve, data, cap): an unbadged endpoint cap takes the
\* badge, re-badging a badged one yields Null; a CNode cap takes the data
\* as its guard, which with data 0 leaves it as it is.  preserve only
\* matters for caps not modelled here.
updateCapData(preserve, data, c) ==
    CASE c.type = "ep" /\ c.badge = 0 -> [c EXCEPT !.badge = data]
      [] c.type = "ep"                -> NullCap
      [] OTHER                        -> c

(***************************************************************************)
(* The MDB (spec.md 4.3) on the kernel-state record st.                    *)
(***************************************************************************)
isFinalCapability(st, s) ==
    \A nb \in {st.next[s], st.prev[s]} \ {NoSlot} : ~sameObjectAs(st.cap[nb], st.cap[s])

\* A badged endpoint cap is the parent only of the caps of its own badge
\* group: the same badge, up to the next firstBadged node.
isMDBParentOf(st, a, b) ==
    /\ st.rev[a]
    /\ sameObjectAs(st.cap[a], st.cap[b])
    /\ st.cap[a].type = "ep" /\ st.cap[a].badge # 0 =>
          st.cap[a].badge = st.cap[b].badge /\ ~st.fb[b]

\* Set f[k] to v unless k is the null pointer.
Link(f, k, v) == IF k = NoSlot THEN f ELSE [f EXCEPT ![k] = v]

\* Relabel slots s1 and s2 in a slot -> slot-or-NoSlot map.
SwapLinks(f, s1, s2) ==
    LET sw(x) == IF x = s1 THEN s2 ELSE IF x = s2 THEN s1 ELSE x
    IN [x \in Slots |-> sw(f[sw(x)])]

\* cteSwap(cap1, slot1, cap2, slot2): slot1 takes cap2 and slot2 takes
\* cap1, each with the other's MDB node, and their neighbours are
\* repointed: the relabelling of slot1 and slot2 in every link.
cteSwap(st, cap1, slot1, cap2, slot2) ==
    LET sw(x) == IF x = slot1 THEN slot2 ELSE IF x = slot2 THEN slot1 ELSE x
    IN [st EXCEPT !.cap  = [x \in Slots |-> CASE x = slot1 -> cap2
                                              [] x = slot2 -> cap1
                                              [] OTHER     -> st.cap[x]],
                  !.next = SwapLinks(st.next, slot1, slot2),
                  !.prev = SwapLinks(st.prev, slot1, slot2),
                  !.rev  = [x \in Slots |-> st.rev[sw(x)]],
                  !.fb   = [x \in Slots |-> st.fb[sw(x)]],
                  !.df   = SwapLinks(st.df, slot1, slot2)]

\* cteMove: dest takes newCap and src's MDB node, src is left Null with a
\* null MDB node, and src's neighbours are repointed to dest.  (Callers
\* pass an empty dest; a full one would be overwritten.)
cteMove(st, newCap, src, dest) ==
    LET p == st.prev[src]
        n == st.next[src]
    IN [st EXCEPT !.cap  = [@ EXCEPT ![dest] = newCap, ![src] = NullCap],
                  !.next = Link([@ EXCEPT ![dest] = n, ![src] = NoSlot], p, dest),
                  !.prev = Link([@ EXCEPT ![dest] = p, ![src] = NoSlot], n, dest),
                  !.rev  = [@ EXCEPT ![dest] = st.rev[src], ![src] = FALSE],
                  !.fb   = [@ EXCEPT ![dest] = st.fb[src], ![src] = FALSE],
                  !.df   = [x \in Slots |-> CASE x = dest       -> st.df[src]
                                            [] x = src        -> NoSlot
                                            [] st.df[x] = src -> dest
                                            [] OTHER          -> st.df[x]]]

\* cteInsert: the new cap goes right after its source in the MDB list; it
\* is revocable, and first of its badge group, iff isCapRevocable.
cteInsert(st, newCap, src, dest) ==
    LET nx  == st.next[src]
        rvk == isCapRevocable(newCap, st.cap[src])
    IN [st EXCEPT !.cap[dest] = newCap,
                  !.prev = Link([@ EXCEPT ![dest] = src], nx, dest),
                  !.next = [@ EXCEPT ![dest] = nx, ![src] = dest],
                  !.rev[dest] = rvk,
                  !.fb[dest] = rvk,
                  !.df[dest] = src]

(***************************************************************************)
(* The deletion engine (cap.rs 32-211, preemption.rs 10-22).               *)
(***************************************************************************)
\* capSwapForDelete
capSwapForDelete(st, slot1, slot2) ==
    IF slot1 = slot2 THEN st ELSE cteSwap(st, st.cap[slot1], slot1, st.cap[slot2], slot2)

\* The history of emptySlot: caps derived from the emptied slot now count
\* as derived from its own source.
Reparent(df, slot) ==
    [x \in Slots |-> CASE x = slot      -> NoSlot
                      [] df[x] = slot   -> df[slot]
                      [] OTHER          -> df[x]]

\* Mutant: the next node keeps its prev pointer to the emptied slot.
emptySlot_noPrevFix(st, slot) ==
    IF st.cap[slot].type = "null" THEN st
    ELSE [st EXCEPT !.next = [Link(@, st.prev[slot], st.next[slot]) EXCEPT ![slot] = NoSlot],
                    !.prev[slot] = NoSlot, !.rev[slot] = FALSE, !.fb[slot] = FALSE,
                    !.cap[slot] = NullCap, !.df = Reparent(@, slot)]

\* Mutant: the next node does not inherit the emptied node's firstBadged.
emptySlot_noBadgePropagate(st, slot) ==
    IF st.cap[slot].type = "null" THEN st
    ELSE LET p == st.prev[slot]
             n == st.next[slot]
         IN [st EXCEPT !.next = [Link(@, p, n) EXCEPT ![slot] = NoSlot],
                       !.prev = [Link(@, n, p) EXCEPT ![slot] = NoSlot],
                       !.rev[slot] = FALSE, !.fb[slot] = FALSE,
                       !.cap[slot] = NullCap, !.df = Reparent(@, slot)]

\* emptySlot: unlink the slot from its MDB neighbours, pass its
\* firstBadged on to the next node, and null it.  (postCapDeletion acts
\* on IRQ-handler caps only.)
emptySlot(st, slot) ==
    IF st.cap[slot].type = "null" THEN st
    ELSE LET p == st.prev[slot]
             n == st.next[slot]
         IN [st EXCEPT !.next = [Link(@, p, n) EXCEPT ![slot] = NoSlot],
                       !.prev = [Link(@, n, p) EXCEPT ![slot] = NoSlot],
                       !.fb   = [Link(@, n, n # NoSlot /\ (st.fb[n] \/ st.fb[slot]))
                                   EXCEPT ![slot] = FALSE],
                       !.rev[slot] = FALSE,
                       !.cap[slot] = NullCap,
                       !.df = Reparent(@, slot)]

\* Mutant: the work-unit counter is never reset.
preemptionPoint_noReset(st) ==
    IF st.wu + 1 >= CONFIG_MAX_NUM_WORK_UNITS_PER_PREEMPTION
    THEN [st EXCEPT !.wu = @ + 1, !.polls = @ + 1,
                    !.ret = IF st.polls >= st.arrive THEN "preempted" ELSE "none"]
    ELSE [st EXCEPT !.wu = @ + 1, !.ret = "none"]

\* preemptionPoint: every work unit counts; every
\* CONFIG_MAX_NUM_WORK_UNITS_PER_PREEMPTION units the counter is reset and
\* the IRQ controller polled.  st.polls counts the polls of this entry; the
\* IRQ is pending from poll st.arrive on.
preemptionPoint(st) ==
    IF st.wu + 1 >= CONFIG_MAX_NUM_WORK_UNITS_PER_PREEMPTION
    THEN [st EXCEPT !.wu = 0, !.polls = @ + 1,
                    !.ret = IF st.polls >= st.arrive THEN "preempted" ELSE "none"]
    ELSE [st EXCEPT !.wu = @ + 1, !.ret = "none"]

Panic(st) == [st EXCEPT !.halt = "panic"]
Stopped(st) == st.halt # "none" \/ st.ret # "none"

RECURSIVE cteDelete(_, _, _, _), finaliseSlot(_, _, _, _), reduceZombie(_, _, _, _),
          reduceZombie_endOffByOne(_, _, _, _), reduceZombie_noDecrement(_, _, _, _)

\* cteDelete: finalise, then empty the slot if exposed or finalised.
cteDelete(st, slot, exposed, fuel) ==
    LET fs == finaliseSlot(st, slot, exposed, fuel) IN
    IF Stopped(fs) THEN fs
    ELSE IF exposed \/ fs.success THEN emptySlot(fs, slot) ELSE fs

\* finaliseSlot: the while loop, one iteration per call.
finaliseSlot(st, slot, immediate, fuel) ==
    LET c   == st.cap[slot]
        rem == finaliseCap(c, isFinalCapability(st, slot))
        s1  == [st EXCEPT !.cap[slot] = rem]
        s2  == reduceZombie(s1, slot, immediate, fuel - 1)
        s3  == preemptionPoint(s2)
    IN CASE fuel = 0                  -> [st EXCEPT !.halt = "loop"]
         [] c.type = "null"           -> [st EXCEPT !.ret = "none", !.success = TRUE]
         [] capRemovable(rem, slot)   -> [st EXCEPT !.ret = "none", !.success = TRUE]
         [] ~immediate /\ capCyclicZombie(rem, slot)
                                      -> [s1 EXCEPT !.ret = "none", !.success = FALSE]
         [] Stopped(s2)               -> [s2 EXCEPT !.success = FALSE]
         [] s3.ret # "none"           -> [s3 EXCEPT !.success = FALSE]
         [] OTHER                     -> finaliseSlot(s3, slot, immediate, fuel - 1)

\* Mutant: the last slot is taken as ptr + n.
reduceZombie_endOffByOne(st, slot, immediate, fuel) ==
    LET c == st.cap[slot]
        e == Base[c.obj] + c.n
        s1 == cteDelete(st, e, FALSE, fuel)
    IN CASE c.type # "zombie" \/ c.n = 0 -> Panic(st)
         [] immediate /\ e \notin Slots -> Panic(st)
         [] immediate /\ Stopped(s1) -> s1
         [] immediate /\ s1.cap[slot].type = "zombie" /\ s1.cap[slot].n = c.n ->
                [s1 EXCEPT !.cap[slot].n = c.n - 1]
         [] immediate -> s1
         [] OTHER -> [capSwapForDelete(st, Base[c.obj], slot) EXCEPT !.ret = "none"]

\* Mutant: the Zombie's number is not decremented after its last slot is
\* deleted.
reduceZombie_noDecrement(st, slot, immediate, fuel) ==
    LET c == st.cap[slot]
        s1 == cteDelete(st, Base[c.obj] + c.n - 1, FALSE, fuel)
    IN CASE c.type # "zombie" \/ c.n = 0 -> Panic(st)
         [] immediate -> s1
         [] OTHER -> [capSwapForDelete(st, Base[c.obj], slot) EXCEPT !.ret = "none"]

\* reduceZombie: with immediate, delete the zombie's last slot and count it
\* off; otherwise swap the zombie with its object's first slot.
reduceZombie(st, slot, immediate, fuel) ==
    LET c       == st.cap[slot]
        ptr     == ZombiePtr(c)
        n       == c.n
        endSlot == ptr + n - 1
        s1      == cteDelete(st, endSlot, FALSE, fuel)
        c2      == s1.cap[slot]
    IN CASE c.type # "zombie" \/ n = 0 -> Panic(st)
         [] immediate /\ endSlot \notin Slots -> Panic(st)
         [] immediate /\ Stopped(s1) -> s1
         [] immediate /\ c2.type = "null" -> s1
         [] immediate /\ c2.type = "zombie" /\ c2.obj = c.obj /\ c2.n = n ->
                IF s1.cap[endSlot].type = "null"
                THEN [s1 EXCEPT !.cap[slot].n = n - 1]
                ELSE Panic(s1)
         [] immediate /\ c2.type = "zombie" ->
                IF ZombiePtr(c2) = slot /\ ptr # slot THEN s1 ELSE Panic(s1)
         [] immediate -> Panic(s1)
         [] ptr = slot -> Panic(st)
         [] st.cap[ptr].type = "zombie" /\ ZombiePtr(st.cap[ptr]) = ptr -> Panic(st)
         [] OTHER -> [capSwapForDelete(st, ptr, slot) EXCEPT !.ret = "none"]

\* cteRevoke: delete MDB children of slot until the next node is not one.
RECURSIVE cteRevoke(_, _, _)
cteRevoke(st, slot, fuel) ==
    LET nx == st.next[slot]
        s1 == cteDelete(st, nx, TRUE, fuel)
        s2 == preemptionPoint(s1)
    IN CASE fuel = 0 -> [st EXCEPT !.halt = "loop"]
         [] nx = NoSlot \/ ~isMDBParentOf(st, slot, nx) -> [st EXCEPT !.ret = "none"]
         [] Stopped(s1) -> s1
         [] s2.ret # "none" -> s2
         [] OTHER -> cteRevoke(s2, slot, fuel - 1)

(***************************************************************************)
(* The decoder (cap.rs 236-245, 283-313, 315-480).                         *)
(***************************************************************************)
\* Objects reachable from a thread's CSpace root through CNode caps: the
\* slots of these are what rust_lookupTargetSlot / rust_lookupSourceSlot
\* can resolve (a Zombie is not a CNode cap, so lookups stop at it).
RECURSIVE Reach(_, _)
Reach(st, objs) ==
    LET more == objs \cup {st.cap[s].obj : s \in {x \in UNION {SlotsOf(o) : o \in objs} :
                                                   st.cap[x].type = "cnode"}}
    IN IF more = objs THEN objs ELSE Reach(st, more)

Addressable(st, t) ==
    LET root == st.cap[RootSlot[t]]
    IN IF root.type = "cnode" THEN UNION {SlotsOf(o) : o \in Reach(st, {root.obj})} ELSE {}

\* The invocations a thread can make, over the slots A its lookups can
\* resolve; NoSlot stands for every capability pointer that does not
\* resolve.  data is Mint's badge, and the (zero) data of Mutate and Rotate.
\* The decoder looks up the target slot first, and Rotate's source before
\* its pivot, so once a lookup fails the later arguments are never read:
\* one invocation stands for all that fail at the same lookup.  Likewise a
\* Copy/Mint/Move/Mutate to a full slot F fails whatever its source, and
\* a Rotate into a full slot other than its source fails, leaving the
\* CSpace as it was, whatever its pivot.
CNodeLabels == {"Copy", "Mint", "Move", "Mutate", "Rotate", "Delete", "Revoke",
                "SaveCaller", "CancelBadgedSends"}

OpsOver(A, F) ==
       [label : CNodeLabels, dest : {NoSlot}, src : {NoSlot}, pivot : {NoSlot}, data : {0}]
  \cup [label : {"Copy", "Move", "Mutate", "Mint", "Rotate"}, dest : A, src : {NoSlot},
        pivot : {NoSlot}, data : {0}]
  \cup [label : {"Copy", "Move", "Mutate"}, dest : A \ F, src : A, pivot : {NoSlot}, data : {0}]
  \cup [label : {"Mint"}, dest : A \ F, src : A, pivot : {NoSlot}, data : {0} \cup Badges]
  \cup {r \in [label : {"Rotate"}, dest : A, src : A, pivot : A \cup {NoSlot}, data : {0}] :
            r.dest \notin F \/ r.src = r.dest}
  \cup [label : {"Delete", "Revoke", "SaveCaller", "CancelBadgedSends"},
        dest : A, src : {NoSlot}, pivot : {NoSlot}, data : {0}]

Ret(st, r) == [st EXCEPT !.ret = r]

\* ensureEmptySlot
ensureEmptySlot(st, slot) ==
    IF st.cap[slot].type # "null" THEN "syscall_error" ELSE "none"

\* invokeCNodeMove and invokeCNodeInsert: one MDB operation, no error.
invokeCNodeMove(st, c, srcSlot, destSlot) == Ret(cteMove(st, c, srcSlot, destSlot), "none")

invokeCNodeInsert(st, c, srcSlot, destSlot) == Ret(cteInsert(st, c, srcSlot, destSlot), "none")

\* Copy/Mint/Move/Mutate (cap.rs 345-468).
\* A failed source lookup returns `status`, ensureEmptySlot's result.
decodeTransfer(st, op) ==
    LET status == ensureEmptySlot(st, op.dest)
        src    == op.src
        srcCap == st.cap[src]
        newCap == CASE op.label = "Copy" -> deriveCap(srcCap)
                    [] op.label = "Mint" -> deriveCap(updateCapData(FALSE, op.data, srcCap))
                    [] op.label = "Move" -> srcCap
                    [] OTHER             -> updateCapData(TRUE, op.data, srcCap)
    IN CASE status # "none"                      -> Ret(st, status)
         [] src \notin st.addr                      -> Ret(st, status)
         [] srcCap.type = "null"                 -> Ret(st, "syscall_error")
         [] newCap.type = "null"                 -> Ret(st, "syscall_error")
         [] op.label \in {"Move", "Mutate"}      -> invokeCNodeMove(st, newCap, src, op.dest)
         [] OTHER                                -> invokeCNodeInsert(st, newCap, src, op.dest)

\* Mutant: Rotate always moves, also when source and destination coincide.
invokeCNodeRotate_noSwapCase(st, cap1, cap2, slot1, slot2, slot3) ==
    cteMove(cteMove(st, cap2, slot2, slot3), cap1, slot1, slot2)

\* invokeCNodeRotate: slot2's cap goes to slot3 and slot1's to slot2; with
\* slot1 = slot3 that is a swap.
invokeCNodeRotate(st, cap1, cap2, slot1, slot2, slot3) ==
    IF slot1 = slot3 THEN cteSwap(st, cap1, slot1, cap2, slot2)
    ELSE cteMove(cteMove(st, cap2, slot2, slot3), cap1, slot1, slot2)

\* Rotate (cap.rs 504-580): lookups, the pivot/ensureEmptySlot/Null checks
\* in code order, then the rotation.
decodeRotate(st, op) ==
    LET A        == st.addr
        newSrc   == updateCapData(TRUE, op.data, st.cap[op.src])
        newPivot == updateCapData(TRUE, op.data, st.cap[op.pivot])
    IN CASE op.src \notin A                          -> Ret(st, "lookup_fault")
         [] op.pivot \notin A                        -> Ret(st, "lookup_fault")
         [] op.pivot \in {op.src, op.dest}           -> Ret(st, "syscall_error")
         [] op.src # op.dest /\ ensureEmptySlot(st, op.dest) # "none"
                                                     -> Ret(st, "syscall_error")
         [] st.cap[op.src].type = "null"             -> Ret(st, "syscall_error")
         [] st.cap[op.pivot].type = "null"           -> Ret(st, "syscall_error")
         [] newSrc.type = "null"                     -> Ret(st, "syscall_error")
         [] newPivot.type = "null"                   -> Ret(st, "syscall_error")
         [] OTHER -> Ret(invokeCNodeRotate(st, newSrc, newPivot, op.src, op.pivot, op.dest), "none")

\* invokeCNodeSaveCaller: move the (non-master) reply cap out of the
\* thread's caller slot; any other cap there is a kernel panic.
invokeCNodeSaveCaller(st, destSlot) ==
    LET srcSlot == CallerSlot[st.thread]
        c       == st.cap[srcSlot]
    IN CASE c.type = "null"  -> Ret(st, "none")
         [] c.type = "reply" -> Ret(cteMove(st, c, srcSlot, destSlot), "none")
         [] OTHER            -> Panic(st)

\* decodeCNodeInvocation after the target-slot lookup.  CancelBadgedSends
\* on an endpoint cap only touches the endpoint's queue (not modelled).
decodeCNodeInvocation(st, op) ==
    CASE op.dest \notin st.addr -> Ret(st, "lookup_fault")
      [] op.label \in {"Copy", "Mint", "Move", "Mutate"} -> decodeTransfer(st, op)
      [] op.label = "Revoke" -> cteRevoke(st, op.dest, Fuel)
      [] op.label = "Delete" -> cteDelete(st, op.dest, TRUE, Fuel)
      [] op.label = "SaveCaller" ->
            IF ensureEmptySlot(st, op.dest) # "none" THEN Ret(st, "syscall_error")
            ELSE invokeCNodeSaveCaller(st, op.dest)
      [] op.label = "CancelBadgedSends" ->
            IF st.cap[op.dest].type # "ep" THEN Ret(st, "syscall_error") ELSE Ret(st, "none")
      [] OTHER -> decodeRotate(st, op)

(***************************************************************************)
(* Kernel entries.  handleInvocation (not in the sources) leaves a thread  *)
(* whose invocation was preempted in Restart, to replay the same system   *)
(* call when next scheduled, and otherwise returns it to Running.         *)
(***************************************************************************)
\* addr: the slots the entry's lookups resolve, all made before the
\* invocation changes anything.
KernelState(t, arrive, addr) ==
    [addr |-> addr, cap |-> cap, next |-> mdbNext, prev |-> mdbPrev, rev |-> mdbRevocable,
     fb |-> mdbFirstBadged, df |-> derivedFrom,
     wu |-> ksWorkUnitsCompleted, polls |-> 0, arrive |-> arrive, thread |-> t,
     ret |-> "none", success |-> FALSE, halt |-> "none"]

NoOp == [label |-> "none", dest |-> NoSlot, src |-> NoSlot, pivot |-> NoSlot, data |-> 0]

Commit(t, op, r) ==
    /\ cap' = r.cap
    /\ mdbNext' = r.next
    /\ mdbPrev' = r.prev
    /\ mdbRevocable' = r.rev
    /\ mdbFirstBadged' = r.fb
    /\ derivedFrom' = r.df
    /\ ksWorkUnitsCompleted' = r.wu
    /\ halt' = r.halt
    /\ tstate' = [tstate EXCEPT ![t] = IF r.ret = "preempted" THEN "restart" ELSE "running"]
    /\ restartOp' = [restartOp EXCEPT ![t] = IF r.ret = "preempted" THEN op ELSE NoOp]
    /\ reply' = [op |-> op, ret |-> r.ret, thread |-> t]

\* Non-zero Mint data is a badge for an endpoint cap but a guard for a
\* CNode cap; guards belong to CSpaceLookup, so here threads mint
\* non-zero data from endpoint caps only.
MintsBadge(op) == op.label = "Mint" /\ op.data # 0 => op.src # NoSlot /\ cap[op.src].type = "ep"

\* Only Delete and Revoke reach preemptionPoint, so only they poll for the
\* IRQ.
ArrivalsFor(op) ==
    IF op.label \in {"Delete", "Revoke"} THEN Arrivals ELSE {CHOOSE x \in Arrivals : TRUE}

\* A running thread invokes a CNode operation; the IRQ may become pending
\* at any poll of the entry.
Invoke(t) ==
    /\ halt = "none"
    /\ tstate[t] = "running"
    /\ LET A == Addressable([cap |-> cap], t) IN
       \E op \in OpsOver(A, {s \in A : cap[s].type # "null"}) :
          /\ MintsBadge(op)
          /\ \E arrive \in ArrivalsFor(op) :
                Commit(t, op, decodeCNodeInvocation(KernelState(t, arrive, A), op))

\* A Restart thread replays its preempted invocation, decoded afresh.
Replay(t) ==
    /\ halt = "none"
    /\ tstate[t] = "restart"
    /\ LET A == Addressable([cap |-> cap], t) IN
       \E arrive \in Arrivals :
          Commit(t, restartOp[t], decodeCNodeInvocation(KernelState(t, arrive, A), restartOp[t]))

\* Boot writes each original with write_slot: revocable, first of its
\* badge group and unlinked.  create_initial_thread then cteInserts a copy
\* of the root CNode cap into the TCB CTable; InitCaps gives every slot's
\* cap, and a cap to an object a lower slot already holds is such a copy,
\* of the copy before it.  A reply cap in a caller slot is the child of
\* its thread's master reply cap (not modelled), so it is neither
\* revocable nor first.
CopiesOf(c0, s, below) ==
    {r \in Slots : (r < s) = below /\ r # s /\ sameObjectAs(c0[r], c0[s])}

Nearest(S, below) == CHOOSE r \in S : \A x \in S : IF below THEN x <= r ELSE r <= x

BootLink(c0, s, below) ==
    IF CopiesOf(c0, s, below) = {} THEN NoSlot ELSE Nearest(CopiesOf(c0, s, below), below)

Init ==
    /\ cap \in InitCaps
    /\ mdbNext = [s \in Slots |-> BootLink(cap, s, FALSE)]
    /\ mdbPrev = [s \in Slots |-> BootLink(cap, s, TRUE)]
    /\ mdbRevocable = [s \in Slots |-> cap[s].type \in {"cnode", "ep"} /\ mdbPrev[s] = NoSlot]
    /\ mdbFirstBadged = mdbRevocable
    /\ derivedFrom = mdbPrev
    /\ ksWorkUnitsCompleted = 0
    /\ tstate = [t \in Threads |-> "running"]
    /\ restartOp = [t \in Threads |-> NoOp]
    /\ reply = [op |-> NoOp, ret |-> "none", thread |-> NoObj]
    /\ halt = "none"

Next == \E t \in Threads : Invoke(t) \/ Replay(t)

\* A restarted thread is runnable, and the scheduler runs every runnable
\* thread of a priority level in turn, so a Restart thread is eventually
\* replayed; nothing is assumed of when IRQs arrive.
\* This is WF_vars(Replay(t)), written with the guard of Replay(t) (Commit
\* is always possible once it holds) instead of ENABLED.  A step of Next
\* is a Replay(t) step iff t was in Restart and the step is t's (a thread
\* in Restart only replays): ReplayStep(t) says so without decoding the
\* invocation again on every transition.
ReplayEnabled(t) == halt = "none" /\ tstate[t] = "restart"

ReplayStep(t) == ReplayEnabled(t) /\ reply'.thread = t

Fairness == \A t \in Threads : []<>~ReplayEnabled(t) \/ []<><<ReplayStep(t)>>_vars

Spec == Init /\ [][Next]_vars /\ Fairness

\* reply is history read by no action: runs that do not check
\* TransferReportsOutcome identify states up to it.  (derivedFrom is
\* history too, but MdbParentIsAncestor reads it, so it stays.)
StateView == <<cap, mdbNext, mdbPrev, mdbRevocable, mdbFirstBadged, derivedFrom,
               ksWorkUnitsCompleted, tstate, restartOp, halt>>

(***************************************************************************)
(* Properties.                                                             *)
(***************************************************************************)
TypeOK ==
    /\ cap \in [Slots -> Caps]
    /\ mdbNext \in [Slots -> Slots \cup {NoSlot}]
    /\ mdbPrev \in [Slots -> Slots \cup {NoSlot}]
    /\ mdbRevocable \in [Slots -> BOOLEAN]
    /\ mdbFirstBadged \in [Slots -> BOOLEAN]
    /\ derivedFrom \in [Slots -> Slots \cup {NoSlot}]
    /\ ksWorkUnitsCompleted \in 0 .. CONFIG_MAX_NUM_WORK_UNITS_PER_PREEMPTION - 1
    /\ tstate \in [Threads -> {"running", "restart"}]
    /\ \A t \in Threads : tstate[t] = "restart" <=> restartOp[t] # NoOp
    /\ halt \in {"none", "panic", "loop"}

\* The slots and MDB of the current state, as the operators above see them.
CurrentMDB == [cap |-> cap, next |-> mdbNext, prev |-> mdbPrev, rev |-> mdbRevocable,
               fb |-> mdbFirstBadged]

RECURSIVE NextAfter(_, _)
NextAfter(s, k) == IF k = 0 \/ s = NoSlot THEN s ELSE NextAfter(mdbNext[s], k - 1)

\* The slots s's cap was derived from, transitively (derivedFrom is
\* acyclic: it follows the order of the derivations).
RECURSIVE SourcesOf(_, _)
SourcesOf(s, k) ==
    IF k = 0 \/ derivedFrom[s] = NoSlot THEN {}
    ELSE {derivedFrom[s]} \cup SourcesOf(derivedFrom[s], k - 1)

\* spec.md I1: through every insert, move, swap and emptySlot, including
\* the swaps of capSwapForDelete in the middle of a preempted delete, the
\* MDB stays a set of acyclic doubly-linked lists whose nodes are exactly
\* the non-null slots.
MdbWellFormed ==
    \A s \in Slots :
        /\ mdbNext[s] # NoSlot => mdbPrev[mdbNext[s]] = s
        /\ mdbPrev[s] # NoSlot => mdbNext[mdbPrev[s]] = s
        /\ cap[s].type = "null" => mdbNext[s] = NoSlot /\ mdbPrev[s] = NoSlot
        /\ NextAfter(s, NSlots) = NoSlot

\* Revocation deletes only what was derived from the revoked cap.
\* cteRevoke deletes the next MDB node while isMDBParentOf holds of it, so
\* whenever that predicate holds of a slot and its MDB successor, the
\* successor's cap must have been copied or minted, directly or through
\* caps since deleted, from the slot's cap.  For badged endpoint caps
\* this rests on emptySlot passing mdbFirstBadged on to the next node
\* (cap.rs 70-75) when the first cap of a badge group is deleted, and on
\* cteMove and cteSwap carrying the flag with the cap.
MdbParentIsAncestor ==
    \A s \in Slots :
        mdbNext[s] # NoSlot /\ isMDBParentOf(CurrentMDB, s, mdbNext[s])
            => s \in SourcesOf(mdbNext[s], NSlots)

\* spec.md I2: isFinalCapability, which looks only at a slot's two MDB
\* neighbours, is true exactly when no other slot holds a cap to the same
\* object.  finaliseSlot turns a CNode cap into a Zombie on its word, so
\* the caps to one object must stay adjacent in the MDB through inserts,
\* moves, Rotate's swaps and moves, and deletions.
FinalityExact ==
    \A s \in Slots :
        cap[s].type # "null" =>
            (isFinalCapability(CurrentMDB, s)
                <=> \A r \in Slots \ {s} : ~sameObjectAs(cap[r], cap[s]))

\* A CNode whose slots still hold caps is still referenced: finaliseSlot
\* removes the last cap to a CNode (its Zombie) only once reduceZombie has
\* emptied every slot of it, however often the delete is preempted and
\* whatever other threads do in between.
NoOrphanedContents ==
    \A o \in CNodeObjs :
        (\E s \in SlotsOf(o) : cap[s].type # "null")
            => \E r \in Slots : cap[r].type \in {"cnode", "zombie"} /\ cap[r].obj = o

\* No assert of reduceZombie (cap.rs 171, 176, 193, 196, 199, 202, 205)
\* fails and no deletion recursion runs without end, for every CSpace the
\* invocations can build, cyclic ones included; nor does SaveCaller ever
\* find a cap other than Null or a reply cap in a caller slot (cap.rs 261).
DeleteNeverPanics == halt = "none"

\* A thread whose Delete or Revoke was preempted completes it once the other
\* threads leave the CSpace alone: each replay resumes from the Zombie or
\* the MDB left behind and makes progress before its first preemption
\* point, even if an IRQ is pending at every poll.  (Other threads that
\* keep copying caps under a slot being revoked can starve the revoke.)
RestartEventuallyCompletes ==
    \A t \in Threads : <>[][ReplayStep(t)]_vars => <>[](tstate[t] = "running")

\* An invocation of Copy/Mint/Move/Mutate that returns EXCEPTION_NONE has
\* put a cap in its destination slot (spec.md 4.5: errors surface as
\* syscall errors).
TransferReportsOutcome ==
    reply.op.label \in {"Copy", "Mint", "Move", "Mutate"} /\ reply.ret = "none"
        => cap[reply.op.dest].type # "null"

====
