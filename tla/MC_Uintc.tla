------------------------------ MODULE MC_Uintc ------------------------------
(***************************************************************************)
(* Uintc for TLC: two threads, each bound to its own notification, two    *)
(* UINTC receiver entries and a sender-table pool of three (one per       *)
(* thread and the kernel's lazy table).                                    *)
(* Vectors 0 and 1 are the badges; the async path always sends vector 0.  *)
(***************************************************************************)
EXTENDS Uintc

CONSTANTS h1, h2, ta, tb, n1, n2

MC_OneHart  == {h1}
MC_TwoHarts == {h1, h2}
MC_Threads  == {ta, tb}
MC_Ntfns    == {n1, n2}
MC_Bound    == [t \in MC_Threads |-> IF t = ta THEN n1 ELSE n2]
MC_Vecs     == {0, 1}
MC_OneVec   == {0}
\* static ALLOCATE_ID_TO_RS_ID: [usize; 8] = [0, 5, 6, 7, 8, 9, 10, 11]
MC_ALLOCATE_ID_TO_RS_ID == [i \in 0..7 |-> IF i = 0 THEN 0 ELSE i + 4]

====
