----------------------------- MODULE MCCronJobs -----------------------------
(* Small instances of CronJobs: a limited job that repeats missed calls, and  *)
(* an unlimited one that does not, of equal priority.                         *)
EXTENDS CronJobs

CONSTANTS once, many, r1, r2

MCPriority == [j \in Job |-> 5]
MCInterval == [j \in Job |-> 1]
MCFirstCall == [j \in Job |-> 0]
MCBudget == [j \in Job |-> IF j = many THEN 3 ELSE -1]
MCDoAll == Job \cap {many}

=============================================================================
