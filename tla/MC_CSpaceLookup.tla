--------------------------- MODULE MC_CSpaceLookup --------------------------
(* Two CNode objects of two slots each, four-bit words.  Slots hold null,  *)
(* a non-CNode cap, a guardless cap to o1 or a one-bit-guarded cap to o2,  *)
(* so that walks stop, descend, loop back to a node already visited, and   *)
(* fail on a guard at the second level.  Roots add a two-bit guard (longer *)
(* than a depth of 1) and a three-bit guard (level of the whole word).     *)
EXTENDS CSpaceLookup

CONSTANTS o1, o2

MC_Objs     == {o1, o2}
MC_ObjRadix == [o \in MC_Objs |-> 1]
MC_CapChoices  == {NullCap, OtherCap, CNodeCap(o1, 0, 0), CNodeCap(o2, 1, 1)}
MC_RootChoices == {OtherCap, CNodeCap(o1, 0, 0), CNodeCap(o2, 2, 2), CNodeCap(o1, 3, 5)}

=============================================================================
