---------------------------- MODULE CSpaceLookup ----------------------------
(***************************************************************************)
(* Guarded-radix capability address resolution, src/src/kernel/cspace.rs.  *)
(*                                                                         *)
(* rust_resolveAddressBits is a pure function of the CSpace and its three  *)
(* arguments, apart from the lookup fault it leaves in the global          *)
(* current_lookup_fault; its while-true loop is a RECURSIVE operator here  *)
(* (every iteration strictly decreases n_bits, so the recursion ends).     *)
(* lookupSlotForCNodeOp wraps it for the CNode invocations.  The CSpace   *)
(* and the arguments are chosen in Init among all small configurations,  *)
(* and the properties compare the code's result with the resolution       *)
(* spec.md 4.1 describes, written independently over bit strings.         *)
(*                                                                         *)
(* Words have WordBits = 2^WordRadix bits; ">>" is \div 2^k and            *)
(* "& MASK!(k)" is % 2^k.                                                  *)
(***************************************************************************)
EXTENDS Integers, Sequences, SequencesExt

CONSTANTS
    Objs,            \* the CNode objects
    ObjRadix,        \* ObjRadix[o]: o holds 2^ObjRadix[o] slots
    NoObj,           \* the pointer of a cap that is not a CNode cap
    WordRadix,       \* wordRadix
    CapChoices,      \* the caps a slot of the CSpace may hold
    RootChoices,     \* the caps that may be passed as root
    OverflowChecks   \* TRUE in a build where usize underflow panics

WordBits == 2^WordRadix

Slots  == UNION {{<<o, i>> : i \in 0..2^ObjRadix[o] - 1} : o \in Objs}
NoSlot == <<NoObj, 0>>

(* cap_t, reduced to what resolution reads: the tag, and for a CNode cap   *)
(* capCNodePtr, capCNodeRadix, capCNodeGuardSize and capCNodeGuard.        *)
CNodeCap(o, gs, g) == [tag |-> "cnode", ptr |-> o, radix |-> ObjRadix[o],
                       guardSize |-> gs, guard |-> g]
OtherCap == [tag |-> "other", ptr |-> NoObj, radix |-> 0, guardSize |-> 0, guard |-> 0]
NullCap  == [tag |-> "null",  ptr |-> NoObj, radix |-> 0, guardSize |-> 0, guard |-> 0]

(* lookup_fault_t variants (structures.rs), and "none" for a fault never   *)
(* written.                                                                 *)
NoFault                  == [kind |-> "none", a |-> 0, b |-> 0, c |-> 0]
InvalidRoot              == [kind |-> "InvalidRoot", a |-> 0, b |-> 0, c |-> 0]
GuardMismatch(g, n, gb)  == [kind |-> "GuardMismatch", a |-> g, b |-> n, c |-> gb]
DepthMismatch(lvl, n)    == [kind |-> "DepthMismatch", a |-> lvl, b |-> n, c |-> 0]

VARIABLES
    cspace,    \* cspace[s] : the cap in slot s
    root,      \* the root cap argument
    capptr,    \* the capability address argument
    depth,     \* the depth (n_bits) argument
    prior      \* current_lookup_fault before the call

vars == <<cspace, root, capptr, depth, prior>>

-----------------------------------------------------------------------------
(* resolveAddressBits_ret_t plus the value left in current_lookup_fault.   *)
Ret(status, slot, bits, fault) ==
    [status |-> status, slot |-> slot, bitsRemaining |-> bits, fault |-> fault]

(* The guard read of cspace.rs:85.  When guardBits > n_bits the usize      *)
(* subtraction underflows: with overflow checks that is a panic, without   *)
(* them it wraps, and "& MASK!(wordRadix)" reduces it modulo WordBits.     *)
GuardOf(p, n, gb) == (p \div 2^((n - gb) % WordBits)) % 2^gb

\* Variant of ResolveLoop whose guard is read one bit too low.
RECURSIVE ResolveLoop_guardOffByOne(_, _, _, _, _, _)
ResolveLoop_guardOffByOne(cs, nodeCap, p, n, orig, lf) ==
    LET radixBits == nodeCap.radix
        guardBits == nodeCap.guardSize
        levelBits == radixBits + guardBits
        guard     == (p \div 2^((n - guardBits - 1) % WordBits)) % 2^guardBits
    IN  CASE levelBits = 0 -> Ret("panic", NoSlot, orig, lf)
          [] guardBits > n \/ guard # nodeCap.guard ->
                 Ret("LOOKUP_FAULT", NoSlot, orig, GuardMismatch(nodeCap.guard, n, guardBits))
          [] levelBits > n ->
                 Ret("LOOKUP_FAULT", NoSlot, orig, DepthMismatch(levelBits, n))
          [] OTHER ->
                 LET offset == (p \div 2^(n - levelBits)) % 2^radixBits
                     slot   == <<nodeCap.ptr, offset>>
                 IN  IF n = levelBits THEN Ret("NONE", slot, 0, lf)
                     ELSE IF cs[slot].tag # "cnode"
                          THEN Ret("NONE", slot, n - levelBits, lf)
                          ELSE ResolveLoop_guardOffByOne(cs, cs[slot], p, n - levelBits, orig, lf)

\* Variant of ResolveLoop whose slot offset keeps the guard bits.
RECURSIVE ResolveLoop_offsetWithGuard(_, _, _, _, _, _)
ResolveLoop_offsetWithGuard(cs, nodeCap, p, n, orig, lf) ==
    LET radixBits == nodeCap.radix
        guardBits == nodeCap.guardSize
        levelBits == radixBits + guardBits
    IN  CASE levelBits = 0 -> Ret("panic", NoSlot, orig, lf)
          [] guardBits > n \/ GuardOf(p, n, guardBits) # nodeCap.guard ->
                 Ret("LOOKUP_FAULT", NoSlot, orig, GuardMismatch(nodeCap.guard, n, guardBits))
          [] levelBits > n ->
                 Ret("LOOKUP_FAULT", NoSlot, orig, DepthMismatch(levelBits, n))
          [] OTHER ->
                 LET offset == (p \div 2^(n - levelBits)) % 2^levelBits
                     slot   == <<nodeCap.ptr, offset>>
                 IN  IF n = levelBits \/ slot \notin Slots THEN Ret("NONE", slot, 0, lf)
                     ELSE IF cs[slot].tag # "cnode"
                          THEN Ret("NONE", slot, n - levelBits, lf)
                          ELSE ResolveLoop_offsetWithGuard(cs, cs[slot], p, n - levelBits, orig, lf)

(* One iteration of the while-true loop of rust_resolveAddressBits, and    *)
(* the rest of the loop.  orig is ret.bitsRemaining, which the code sets  *)
(* to the original n_bits and updates only on the two successful returns. *)
RECURSIVE ResolveLoop(_, _, _, _, _, _)
ResolveLoop(cs, nodeCap, p, n, orig, lf) ==
    LET radixBits == nodeCap.radix
        guardBits == nodeCap.guardSize
        levelBits == radixBits + guardBits
    IN  CASE levelBits = 0 -> Ret("panic", NoSlot, orig, lf)        \* assert!(levelBits != 0)
          [] guardBits > n /\ OverflowChecks -> Ret("panic", NoSlot, orig, lf)
          [] guardBits > n \/ GuardOf(p, n, guardBits) # nodeCap.guard ->
                 Ret("LOOKUP_FAULT", NoSlot, orig, GuardMismatch(nodeCap.guard, n, guardBits))
          [] levelBits > n ->
                 Ret("LOOKUP_FAULT", NoSlot, orig, DepthMismatch(levelBits, n))
          [] OTHER ->
                 LET offset == (p \div 2^(n - levelBits)) % 2^radixBits
                     slot   == <<nodeCap.ptr, offset>>
                 IN  IF n = levelBits THEN Ret("NONE", slot, 0, lf)
                     ELSE IF cs[slot].tag # "cnode"
                          THEN Ret("NONE", slot, n - levelBits, lf)
                          ELSE ResolveLoop(cs, cs[slot], p, n - levelBits, orig, lf)

rust_resolveAddressBits(cs, nodeCap, p, n, lf) ==
    IF nodeCap.tag # "cnode"
    THEN Ret("LOOKUP_FAULT", NoSlot, n, InvalidRoot)
    ELSE ResolveLoop(cs, nodeCap, p, n, n, lf)

(* lookupSlot_ret_t of lookupSlotForCNodeOp, with the syscall error type   *)
(* it sets and the value it leaves in current_lookup_fault.  Line 148      *)
(* tests ret.status, the function's own still-default return value, where *)
(* the resolver's res_ret.status is meant.                                 *)
CNodeOpRet(status, slot, err, fault) ==
    [status |-> status, slot |-> slot, error |-> err, fault |-> fault]

\* Variant of lookupSlotForCNodeOp that accepts a partial resolution.
lookupSlotForCNodeOp_noDepthCheck(cs, isSource, r, p, d, lf) ==
    IF r.tag # "cnode" THEN CNodeOpRet("SYSCALL_ERROR", NoSlot, "FailedLookup", InvalidRoot)
    ELSE IF d < 1 \/ d > WordBits THEN CNodeOpRet("SYSCALL_ERROR", NoSlot, "RangeError", lf)
    ELSE LET res_ret == rust_resolveAddressBits(cs, r, p, d, lf)
         IN  IF res_ret.status = "panic" THEN CNodeOpRet("panic", NoSlot, "none", res_ret.fault)
             ELSE CNodeOpRet("NONE", res_ret.slot, "none", res_ret.fault)

lookupSlotForCNodeOp(cs, isSource, r, p, d, lf) ==
    IF r.tag # "cnode" THEN CNodeOpRet("SYSCALL_ERROR", NoSlot, "FailedLookup", InvalidRoot)
    ELSE IF d < 1 \/ d > WordBits THEN CNodeOpRet("SYSCALL_ERROR", NoSlot, "RangeError", lf)
    ELSE LET res_ret == rust_resolveAddressBits(cs, r, p, d, lf)
             retStatus == "NONE"                                  \* ret.status, never set
         IN  CASE res_ret.status = "panic" -> CNodeOpRet("panic", NoSlot, "none", res_ret.fault)
               [] retStatus # "NONE" ->
                      CNodeOpRet("SYSCALL_ERROR", NoSlot, "FailedLookup", res_ret.fault)
               [] res_ret.bitsRemaining # 0 ->
                      CNodeOpRet("SYSCALL_ERROR", NoSlot, "FailedLookup",
                                 DepthMismatch(0, res_ret.bitsRemaining))
               [] OTHER -> CNodeOpRet("NONE", res_ret.slot, "none", res_ret.fault)

-----------------------------------------------------------------------------
(* The inputs: every CSpace whose slots hold caps from CapChoices, every   *)
(* root from RootChoices, every address word and every depth 0..WordBits+1 *)
(* (one past the range check on each side).  Nothing changes afterwards.  *)

Init ==
    /\ cspace \in [Slots -> CapChoices]
    /\ root \in RootChoices
    /\ capptr \in 0..2^WordBits - 1
    /\ depth \in 0..WordBits + 1
    /\ prior \in {NoFault}

Next == UNCHANGED vars

Spec == Init /\ [][Next]_vars

-----------------------------------------------------------------------------
(* The resolution spec.md 4.1 describes, over the bit string of the low    *)
(* n bits of the address, most significant first: each level consumes     *)
(* guard_bits then radix_bits of it.                                       *)

BitString(p, n) == [i \in 1..n |-> (p \div 2^(n - i)) % 2]
Value(bs)       == FoldLeft(LAMBDA acc, b : 2 * acc + b, 0, bs)

RECURSIVE RefWalk(_, _, _)
RefWalk(cs, c, bs) ==
    LET gb == c.guardSize
        lvl == c.radix + c.guardSize
    IN  IF gb > Len(bs) \/ Value(SubSeq(bs, 1, gb)) # c.guard
        THEN [ok |-> FALSE, fault |-> GuardMismatch(c.guard, Len(bs), gb)]
        ELSE IF lvl > Len(bs)
        THEN [ok |-> FALSE, fault |-> DepthMismatch(lvl, Len(bs))]
        ELSE LET slot == <<c.ptr, Value(SubSeq(bs, gb + 1, lvl))>>
                 rest == SubSeq(bs, lvl + 1, Len(bs))
             IN  IF rest = <<>> \/ cs[slot].tag # "cnode"
                 THEN [ok |-> TRUE, slot |-> slot, remaining |-> Len(rest)]
                 ELSE RefWalk(cs, cs[slot], rest)

RefResolve(cs, r, p, n) ==
    IF r.tag # "cnode" THEN [ok |-> FALSE, fault |-> InvalidRoot]
    ELSE RefWalk(cs, r, BitString(p, n))

Faults == {NoFault, InvalidRoot}
          \cup {GuardMismatch(g, n, gb) : g \in 0..2^WordBits - 1, n \in 0..WordBits + 1,
                                          gb \in 0..WordBits}
          \cup {DepthMismatch(l, n) : l \in 0..2 * WordBits, n \in 0..WordBits + 1}

(* The inputs, and the resolver's result: a status, a slot of the CSpace  *)
(* (or none), no more bits remaining than were given, a lookup fault.     *)
TypeOK ==
    /\ cspace \in [Slots -> CapChoices]
    /\ root \in RootChoices
    /\ capptr \in 0..2^WordBits - 1
    /\ depth \in 0..WordBits + 1
    /\ LET r == rust_resolveAddressBits(cspace, root, capptr, depth, prior)
       IN  /\ r.status \in {"NONE", "LOOKUP_FAULT", "panic"}
           /\ r.slot \in Slots \cup {NoSlot}
           /\ r.bitsRemaining \in 0..depth
           /\ r.fault \in Faults

(* rust_resolveAddressBits computes what spec.md 4.1 says, for every       *)
(* CSpace, root, address and depth of the model: the same slot and        *)
(* remaining bits on success, the same lookup fault (guard mismatch with   *)
(* the guard, depth and guard size; depth mismatch with level and depth)   *)
(* on failure.  Its shift-and-mask arithmetic, the guard read before the   *)
(* guardBits > n_bits test, and the partial stop at a non-CNode cap are    *)
(* what is checked.                                                        *)
ResolverMatchesSpec ==
    LET code == rust_resolveAddressBits(cspace, root, capptr, depth, prior)
        ref  == RefResolve(cspace, root, capptr, depth)
    IN  IF ref.ok
        THEN code.status = "NONE" /\ code.slot = ref.slot /\ code.bitsRemaining = ref.remaining
        ELSE code.status = "LOOKUP_FAULT" /\ code.fault = ref.fault

(* lookupSlotForCNodeOp (spec.md 4.1) succeeds exactly when the depth is   *)
(* in 1..wordBits and the address resolves completely (no bits left), and *)
(* then yields the resolved slot; otherwise it is a syscall error, a       *)
(* RangeError for a bad depth and a FailedLookup for a failed or partial   *)
(* resolution.  The test of the wrong status at cspace.rs:148 is caught    *)
(* only by the bitsRemaining test that follows it; this checks it is.     *)
CNodeOpLookupCorrect ==
    LET code == lookupSlotForCNodeOp(cspace, TRUE, root, capptr, depth, prior)
        ref  == RefResolve(cspace, root, capptr, depth)
    IN  CASE root.tag # "cnode"            -> code.error = "FailedLookup"
          [] depth < 1 \/ depth > WordBits -> code.error = "RangeError"
          [] ref.ok /\ ref.remaining = 0   -> code.status = "NONE" /\ code.slot = ref.slot
          [] OTHER                         -> code.status = "SYSCALL_ERROR"
                                              /\ code.error = "FailedLookup"

(* spec.md 4.1 and 7: a failed resolution "populates current_lookup_fault" *)
(* with its GuardMismatch or DepthMismatch, and lookupSlotForCNodeOp       *)
(* reports it as FailedLookup.  Because line 148 tests ret.status, the     *)
(* resolver's fault is overwritten by the DepthMismatch{0, n} of the       *)
(* bitsRemaining test (res_ret.bitsRemaining is still the original depth). *)
CNodeOpKeepsLookupFault ==
    LET code == lookupSlotForCNodeOp(cspace, TRUE, root, capptr, depth, prior)
        ref  == RefResolve(cspace, root, capptr, depth)
    IN  (root.tag = "cnode" /\ depth \in 1..WordBits /\ ~ref.ok) => code.fault = ref.fault

=============================================================================
