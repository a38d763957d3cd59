----------------------------- MODULE Numbering -----------------------------
(***************************************************************************)
(* What ir.sequence promises to the documents it numbers                   *)
(* (openerp/addons/base/ir/ir_sequence.py): "unique identifiers in a       *)
(* transaction-safe way", and with the implementation 'No gap' no gap      *)
(* between them.  Transactions, locks and retries are not visible here: a  *)
(* step adds the documents of one committed request, or changes the        *)
(* settings of a sequence.                                                 *)
(***************************************************************************)
EXTENDS Integers

CONSTANTS Sequence, Initial

VARIABLES
    numbered,   \* committed documents: [doc, seq, num]
    series      \* [Sequence -> [implementation, number_next, number_increment]]

Init ==
    /\ numbered = {}
    /\ series = Initial

\* The numbers ns lead from number a up to number b, step by step and without a gap.
Chained(ns, a, b, step) ==
    /\ a \in ns \cup {b}
    /\ \A n \in ns : a <= n /\ n < b /\ n + step \in ns \cup {b}

NewNumbers(s) == {d.num : d \in {e \in numbered' \ numbered : e.seq = s}}

NumbersUnique(docs) == \A d, e \in docs : d.seq = e.seq /\ d.num = e.num => d = e

\* A request commits and its documents carry numbers nobody had.  A sequence
\* without gaps hands out the next ones in a row.
Issue ==
    /\ numbered \subseteq numbered'
    /\ NumbersUnique(numbered')
    /\ \A s \in Sequence :
          /\ series'[s] = [series[s] EXCEPT !.number_next = series'[s].number_next]
          /\ series[s].implementation = "no_gap" =>
                Chained(NewNumbers(s), series[s].number_next,
                        series'[s].number_next, series[s].number_increment)
          /\ series[s].implementation # "no_gap" => series'[s] = series[s]

\* An administrator changes or deletes sequences; documents keep their numbers.
Reconfigure == UNCHANGED numbered

Next == Issue \/ Reconfigure

Spec == Init /\ [][Next]_<<numbered, series>>
=============================================================================
