---------------------------- MODULE MCApproval ----------------------------
(* Pickings p1 and p2 (a back order or a return of p1) and inventories v1    *)
(* and v2 that share their ids.  On both buttons: a standard item of each    *)
(* model for contents that are not small; on action_done: an auto item for   *)
(* what is not huge; on force_assign: a standard item that always applies.   *)
EXTENDS Approval

MCModelOf == [d \in Doc |-> IF d \in {"v1", "v2"} THEN "inventory" ELSE "picking"]

MCPicking == {d \in Doc : ModelOf[d] = "picking"}

MCIdOf == [d \in Doc |-> IF d \in {"p2", "v2"} THEN 2 ELSE 1]

MCItemModel == [it \in Item |-> IF it = "count" THEN "inventory" ELSE "picking"]

MCItemHooks ==
    [it \in Item |-> Hook \cap CASE it = "release" -> {"force_assign"}
                                 [] it = "limit"   -> {"action_done"}
                                 [] OTHER          -> {"action_done", "force_assign"}]

MCGroupUsers == [it \in Item |-> User \cap {IF it = "count" THEN "clerk" ELSE "boss"}]

MCItemApprover == [it \in Item |-> IF it = "release" /\ "boss" \in User THEN "boss" ELSE NoUser]

MCRule ==
    [it \in Item |-> CASE it \in {"amount", "count"} -> Content \ {"small"}
                       [] it = "limit"  -> Content \ {"huge"}
                       [] OTHER         -> Content]

\* The amount's hash tells every content apart; the other items keep the default
\* hash_code, which is the same for all.
MCHash == [it \in Item |-> [c \in Content |-> IF it = "amount" THEN c ELSE "True"]]

\* A scheme for small documents and one for big ones; none applies to huge ones.
MCScheme ==
    [d \in Doc |-> [c \in Content |->
        SelectSeq(CASE ModelOf[d] = "inventory" -> <<"count">>
                    [] c = "small"              -> <<"amount", "limit">>
                    [] c = "big"                -> <<"release", "amount">>
                    [] OTHER                    -> <<>>,
                  LAMBDA it : it \in Item)]]
=============================================================================
