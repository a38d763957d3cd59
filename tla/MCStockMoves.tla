----------------------------- MODULE MCStockMoves -----------------------------
EXTENDS StockMoves

\* A store with a shelf, an input location chained to it, and an output
\* location that leads on to the customer.
MCWithin == [l \in Location |-> IF l = "stock" THEN {"stock"} ELSE {l}]
MCArrive == [l \in Location |-> IF l = "output" THEN "customer" ELSE l]
MCChain == [l \in Location |-> IF l = "input" THEN "stock" ELSE None]

M(state, qty, src, dst, next, pick, incoming, leg) ==
    [state |-> state, qty |-> qty, src |-> src, dst |-> dst, next |-> next, pick |-> pick,
     incoming |-> incoming, auto |-> state = "waiting" /\ leg = 3, leg |-> leg]

\* Besides nothing and all of it: one, and for one delivery of one piece too much.
MCEntered == [l \in Move |-> IF l = 1 THEN {1, 2} ELSE {1}]

\* One piece in stock and one on the shelf, a delivery of two and one of one.
MCDeliveries ==
    <<M("draft", 1, "stock", "output", 0, 2, FALSE, 1),
      M("done", 1, "supplier", "stock", 0, 0, FALSE, 2),
      M("done", 1, "supplier", "shelf", 0, 0, FALSE, 3),
      M("draft", 2, "stock", "output", 0, 1, FALSE, 4)>>

\* A receipt of two, chained from input to stock, with one piece on the shelf.
\* The chained move is processed automatically.
MCReceipt ==
    <<M("done", 1, "supplier", "shelf", 0, 0, FALSE, 1),
      M("assigned", 2, "supplier", "input", 3, 1, TRUE, 2),
      M("waiting", 2, "input", "stock", 0, 2, FALSE, 3)>>

\* Two halves of a receipt that the same move waits for.
MCHalves ==
    <<M("done", 1, "supplier", "shelf", 0, 0, FALSE, 1),
      M("assigned", 1, "supplier", "input", 4, 1, TRUE, 2),
      M("assigned", 1, "supplier", "input", 4, 1, TRUE, 3),
      M("waiting", 2, "input", "stock", 0, 2, FALSE, 4)>>

\* One piece in stock and one on the shelf, and a picking of two and of one.
MCSameOrder ==
    <<M("draft", 2, "stock", "output", 0, 1, FALSE, 1),
      M("draft", 1, "stock", "output", 0, 1, FALSE, 2),
      M("done", 1, "supplier", "stock", 0, 0, FALSE, 3),
      M("done", 1, "supplier", "shelf", 0, 0, FALSE, 4)>>

MCInitial == {MCDeliveries, MCHalves, MCReceipt, MCSameOrder}
MCProduct == {MCSameOrder}
MCOutgoing == {MCDeliveries}
=============================================================================
