----------------------------- MODULE MCPrefork -----------------------------
(* One HTTP worker and one cron worker.  A pid is used again once its worker *)
(* has been reaped, as the system may do.                                    *)
EXTENDS Prefork

MCPopulation == [k \in Kind |-> 1]
=============================================================================
