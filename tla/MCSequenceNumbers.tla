------------------------- MODULE MCSequenceNumbers -------------------------
(* Two requests that draw numbers and one administrator's.  Invoices have a  *)
(* sequence without gaps that counts by two, orders a standard one.          *)
EXTENDS SequenceNumbers

MCInitial ==
    [s \in Sequence |->
        [implementation   |-> IF s = "invoice" THEN "no_gap" ELSE "standard",
         number_next      |-> 1,
         number_increment |-> IF s = "invoice" THEN 2 ELSE 1]]

MCMaxDraws == [r \in Request |-> IF r = "a" THEN 2 ELSE 1]

MCNewIncrement == [s \in Sequence |-> IF s = "invoice" THEN {3} ELSE {0, 3}]
MCSameIncrement == [s \in Sequence |-> {}]
=============================================================================
