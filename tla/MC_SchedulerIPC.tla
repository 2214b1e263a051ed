--------------------------- MODULE MC_SchedulerIPC --------------------------
(* Model-checking instance of SchedulerIPC: the three user TCBs of         *)
(* MC_Scheduler, all in the current domain, and one endpoint.              *)
EXTENDS SchedulerIPC, TLC

CONSTANTS t1, t2, t3

MC_Threads      == {t1, t2, t3}
MC_PrioChoices  == {0, 1, 3}
MC_OneDomain    == [t \in MC_Threads |-> 0]

=============================================================================
