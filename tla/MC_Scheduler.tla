---------------------------- MODULE MC_Scheduler ----------------------------
(* Model-checking instance of Scheduler: three user TCBs and four          *)
(* priorities on two-bit words, so that both L1 bits and both L2 rows of   *)
(* the bitmap are used.  Two domain assignments: t3 in a domain other      *)
(* than the current one (possibleSwitchTo's cross-domain branch), or all   *)
(* three in the current domain (two blocked threads woken in one entry     *)
(* while a third runs; two threads sharing a queue behind a third).        *)
EXTENDS Scheduler, TLC

CONSTANTS t1, t2, t3

MC_Threads      == {t1, t2, t3}
\* Both L2 rows, both bits of one row, and the maximum priority.
MC_PrioChoices  == {0, 1, 3}
MC_ThreadDomain == [t \in MC_Threads |-> IF t = t3 THEN 1 ELSE 0]
MC_OneDomain    == [t \in MC_Threads |-> 0]
\* With one domain, t2 and t3 start alike (Inactive, priority 0).
MC_Symmetry     == Permutations({t2, t3})

=============================================================================
