------------------------------- MODULE MC_CNode -------------------------------
(***************************************************************************)
(* CNode for TLC.  Slots 0 and 1 are t1's TCB CTable and caller slots, 2  *)
(* and 3 t2's.  The CNode objects are d (slots 4-7), a (slot 8), b (slots  *)
(* 9-10) and c (slot 11, the last one, so that a slot index one past c    *)
(* is no slot at all); e is an endpoint.  The system starts from one of   *)
(* two CSpaces:                                                            *)
(*  - nested CNodes: both threads' roots are caps to a (t2's a copy of    *)
(*    t1's), a holds the only cap to b and b the only cap to c.  b has    *)
(*    radix 1, so its Zombie counts down from 2 and "ptr + n - 1" moves;  *)
(*    deleting b's cap nests c's deletion inside b's, which is where      *)
(*    reduceZombie swaps a Zombie into its own object.                    *)
(*  - badges: t1's root cap is to d, whose first slot holds the original *)
(*    cap to e, and t1's caller slot a reply cap to t2; t2 has no CSpace. *)
(*    At most MaxBadgeCaps caps are in d at once: an original, a Mint and *)
(*    a copy of it are the smallest MDB in which deleting the first cap   *)
(*    of a badge group matters.                                           *)
(***************************************************************************)
EXTENDS CNode, TLC

CONSTANTS t1, t2, a, b, c, d, e

MC_Threads    == {t1, t2}
MC_CNodeObjs  == {a, b, c, d}
MC_EpObjs     == {e}
MC_Base       == (a :> 8) @@ (b :> 9) @@ (c :> 11) @@ (d :> 4)
MC_Size       == (a :> 1) @@ (b :> 2) @@ (c :> 1) @@ (d :> 4)
MC_RootSlot   == (t1 :> 0) @@ (t2 :> 2)
MC_CallerSlot == (t1 :> 1) @@ (t2 :> 3)
MC_Badges     == {1}

Empty == [s \in 0 .. 11 |-> NullCap]
MC_InitCaps ==
    { [Empty EXCEPT ![0] = CNodeCap(a), ![2] = CNodeCap(a),
                    ![8] = CNodeCap(b), ![9] = CNodeCap(c)],
      [Empty EXCEPT ![0] = CNodeCap(d), ![4] = EpCap(e, 0), ![1] = ReplyCap(t2)] }

\* The badge CSpace holds at most three caps at once.
MaxBadgeCaps == 3
BadgeBound == Cardinality({s \in SlotsOf(d) : cap[s].type # "null"}) <= MaxBadgeCaps

\* An IRQ pending from the start of the entry, from its second poll, or
\* not at all.
MC_Arrivals   == {0, 1, 1000}
====
