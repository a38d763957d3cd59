----------------------------- MODULE MCWorkflow -----------------------------
(* A sale order, abridged from sale_workflow.xml and sale_stock_workflow.xml: *)
(* once confirmed it is invoiced (a subflow) and shipped (a condition that    *)
(* waits for a stock move) side by side, and done when both ended.  Or a      *)
(* procurement, from procurement_workflow.xml: it waits for a purchase order  *)
(* (a subflow, like the invoice here), which may be merged into another.      *)
EXTENDS Workflow, FiniteSets

MCDoc == {"sale", "invoice", "move", "need", "order", "other"}
Sub == {"invoice", "order", "other"}
MCFlowOf == [d \in MCDoc |-> IF d \in Sub THEN "sub" ELSE d]
MCStart == [d \in MCDoc |-> CASE d = "sale" -> {"router"}
                              [] d = "need" -> {"buy"}
                              [] d \in Sub -> {"open"}
                              [] d = "move" -> {}]

Act(kind, split, join, stop, send, writes) ==
    [kind |-> kind, split_mode |-> split, join_mode |-> join, flow_stop |-> stop,
     signal_send |-> send, writes |-> writes]
Dummy == Act("dummy", "XOR", "XOR", FALSE, None, {})

MCActivity ==
    [router |-> Act("function", "OR", "XOR", FALSE, None, {"state"}),
     wait_invoice |-> Dummy,
     invoice |-> Act("subflow", "XOR", "XOR", FALSE, None, {}),
     invoice_end |-> Act("function", "XOR", "XOR", FALSE, None, {}),
     wait_ship |-> Dummy,
     ship_end |-> Act("function", "XOR", "XOR", FALSE, None, {"state"}),
     done |-> Act("function", "XOR", "AND", TRUE, None, {"state"}),
     cancel |-> Act("stopall", "XOR", "XOR", TRUE, None, {"state"}),
     buy |-> Act("subflow", "XOR", "XOR", FALSE, None, {}),
     ready |-> Act("function", "XOR", "XOR", TRUE, None, {"state"}),
     failed |-> Act("dummy", "XOR", "XOR", TRUE, None, {}),
     open |-> Dummy,
     paid |-> Act("function", "XOR", "XOR", FALSE, Subflow("paid"), {"state"}),
     void |-> Act("stopall", "XOR", "XOR", TRUE, None, {"state"})]

Trans(from, to, signal) == [act_from |-> from, act_to |-> to, signal |-> signal]

MCTransition ==
    [to_invoice |-> Trans("router", "wait_invoice", None),
     to_ship |-> Trans("router", "wait_ship", None),
     manual |-> Trans("wait_invoice", "invoice", <<"manual_invoice">>),
     paid_end |-> Trans("invoice", "invoice_end", Subflow("paid")),
     void_cancel |-> Trans("invoice", "cancel", Subflow("void")),
     shipped |-> Trans("wait_ship", "ship_end", None),
     cancel_i |-> Trans("wait_invoice", "cancel", <<"cancel">>),
     cancel_s |-> Trans("wait_ship", "cancel", <<"cancel">>),
     end_i |-> Trans("invoice_end", "done", None),
     end_s |-> Trans("ship_end", "done", None),
     bought |-> Trans("buy", "ready", Subflow("paid")),
     refused |-> Trans("buy", "failed", Subflow("void")),
     settle |-> Trans("open", "paid", None),
     voids |-> Trans("open", "void", <<"cancel">>)]

MCCondition(t, d, facts) ==
    CASE t = "shipped" -> "moved" \in facts["move"]
      [] t = "settle" -> "settled" \in facts[d]
      [] OTHER -> TRUE
MCTrigger(t, d) == IF t = "shipped" THEN {"move"} ELSE {}
MCSubDoc(a, d) == IF d = "sale" THEN "invoice" ELSE "order"

MCSignals == [d \in MCDoc |-> CASE d = "sale" -> {<<"manual_invoice">>, <<"cancel">>}
                                [] d \in Sub -> {<<"cancel">>}
                                [] OTHER -> {}]
MCFacts == [d \in MCDoc |-> CASE d \in Sub -> {"settled"}
                              [] d = "move" -> {"moved"}
                              [] OTHER -> {}]
MCMerged == {<<"order", "other", <<"cancel">>>>}
-----------------------------------------------------------------------------
\* The two branches of a sale order are both over when it is done: _join_test
\* (workitem.py:179-198) waits for every incoming transition and takes its marks.
DoneAlone ==
    \A i \in DOMAIN db.items :
        db.items[i].act = "done" =>
            ItemsOf(db, "sale") = {i} /\ ~ \E m \in db.marks : m.inst = "sale"
=============================================================================
