--------------------------- MODULE SequenceProofs ---------------------------
(***************************************************************************)
(* Proofs about SequenceNumbers, for any requests and sequences: as long   *)
(* as administrators only make sequences standard, change increments and   *)
(* delete sequences, no number is used twice, and the committed documents  *)
(* are numbered as Numbering says.                                         *)
(***************************************************************************)
EXTENDS SequenceNumbers, TLAPS

\* What the administrators are restricted to: nobody sets number_next or makes a
\* sequence gapless, and increments go up, 0 being tried on standard sequences only.
Forward ==
    /\ NewImplementation \subseteq {"standard"}
    /\ NewNext = {}
    /\ \A s \in Sequence :
          /\ Initial[s].number_increment > 0
          /\ \A i \in NewIncrement[s] :
                i > 0 \/ (i = 0 /\ Initial[s].implementation = "standard")

\* The numbers of sequence s that r has drawn.
Nums(r, s) == {drawn[r][k].num : k \in {j \in DOMAIN drawn[r] : drawn[r][j].seq = s}}

\* A PostgreSQL sequence exists only for a standard row; the row of a gapless
\* sequence was gapless from the start.
RowsOK ==
    \A s \in Sequence :
        /\ row[s].number_increment > 0
        /\ pgseq[s].increment > 0
        /\ pgseq[s].exists => row[s].implementation = "standard"
        /\ row[s].implementation = "no_gap" => Initial[s].implementation = "no_gap"

\* A transaction sees the committed row, unless it missed a commit or has locked the row.
ViewsOK ==
    \A r \in Request, s \in Sequence : Open(r) =>
        /\ lock[s] # r /\ s \notin missed[r] => view[r][s] = row[s]
        /\ lock[s] = r => s \notin missed[r]

\* The numbers ns lead a gapless row from one version to another.
Leads(ns, old, new) ==
    /\ old.implementation = "no_gap"
    /\ new = [old EXCEPT !.number_next = new.number_next]
    /\ Abstract!Chained(ns, old.number_next, new.number_next, old.number_increment)

\* A request that draws locks gapless rows only, and what it drew from one leads
\* from the committed version to the one it sees.
DrawersOK ==
    \A r \in Request \ Admin :
        /\ altered[r] = None
        /\ \A s \in Sequence : lock[s] = r => Leads(Nums(r, s), row[s], view[r][s])

\* What an administrator may have made of a row by point p of the request; the
\* increment 0 is refused by the second half of write().
Legal(p, old, new) ==
    /\ old.implementation # "gone"
    /\ new.implementation \in {old.implementation, "standard", "gone"}
    /\ new.number_next = old.number_next
    /\ new.number_increment >= 0
    /\ new.implementation # "standard" \/ p = "altered" => new.number_increment > 0

\* An administrator's request draws nothing and locks the one row it alters.
AdminsOK ==
    \A r \in Admin :
        /\ drawn[r] = <<>>
        /\ \A s \in Sequence : lock[s] = r <=> altered[r] = s
        /\ \A s \in Sequence : altered[r] = s => Legal(pc[r], row[s], view[r][s])

\* n is below what nextval returns.
Below(q, n) == n < q.last_value \/ (q.is_called /\ n = q.last_value)

\* A drawn number is behind the counter it came from.
NumbersOK ==
    \A r \in Request : \A k \in DOMAIN drawn[r] :
        LET s == drawn[r][k].seq  n == drawn[r][k].num IN
        /\ row[s].implementation = "no_gap" =>
              IF pc[r] = "done" THEN n < row[s].number_next ELSE lock[s] = r
        /\ row[s].implementation = "standard" => Below(pgseq[s], n)

IInv ==
    /\ TypeOK
    /\ RowsOK
    /\ ViewsOK
    /\ DrawersOK
    /\ AdminsOK
    /\ NumbersOK
    /\ UniqueNumbers

-----------------------------------------------------------------------------
LEMMA InitIInv == ASSUME SequencesAssumption, Forward, Init PROVE IInv
  <1>1. Initial \in [Sequence -> Row] BY DEF SequencesAssumption, Row, Implementation
  <1>2. pgseq \in [Sequence -> PgSeq]
    BY <1>1 DEF Init, PgSeq, Created, Dropped, Row
  <1>3. TypeOK BY <1>1, <1>2 DEF Init, TypeOK, SequencesAssumption, Open
  <1>4. RowsOK BY DEF Init, RowsOK, Forward, Created, Dropped
  <1>5. ViewsOK BY DEF Init, ViewsOK, Open
  <1>6. \A r \in Request, s \in Sequence : lock[s] # r BY DEF Init, SequencesAssumption
  <1>7. DrawersOK BY <1>6 DEF Init, DrawersOK
  <1>8. AdminsOK
    <2>1. \A r \in Request : drawn[r] = <<>> /\ altered[r] = None BY DEF Init
    <2>2. \A s \in Sequence : s # None BY DEF SequencesAssumption
    <2> QED BY <1>6, <2>1, <2>2 DEF AdminsOK, SequencesAssumption
  <1>9. \A r \in Request : DOMAIN drawn[r] = {}
    <2>1. DOMAIN <<>> = {} OBVIOUS
    <2>2. \A r \in Request : drawn[r] = <<>> BY DEF Init
    <2> QED BY <2>1, <2>2, Zenon
  <1>10. NumbersOK BY <1>9 DEF NumbersOK
  <1>11. UniqueNumbers BY <1>9 DEF UniqueNumbers
  <1> QED BY <1>3, <1>4, <1>5, <1>7, <1>8, <1>10, <1>11 DEF IInv

LEMMA DrawnType ==
  ASSUME IInv, NEW r \in Request, NEW k \in DOMAIN drawn[r]
  PROVE  /\ drawn[r][k] \in [seq: Sequence, num: Int]
         /\ drawn[r][k].seq \in Sequence /\ drawn[r][k].num \in Int
  <1> DEFINE Number == [seq: Sequence, num: Int]
  <1>1. drawn[r] \in Seq(Number) BY DEF IInv, TypeOK
  <1> HIDE DEF Number
  <1>2. drawn[r][k] \in Number BY <1>1
  <1> QED BY <1>2 DEF Number

\* What the type invariant says of one request.
LEMMA RequestType ==
  ASSUME IInv, NEW r \in Request
  PROVE  /\ pc[r] \in {"altering", "altered"} <=> altered[r] # None
         /\ pc[r] \in {"called", "failed"} => drawn[r] = <<>>
         /\ \A s \in Sequence : lock[s] = r => Open(r)
  BY DEF IInv, TypeOK

\* A transaction that is rolled back leaves nothing but its nextval.
LEMMA RollbackStep ==
  ASSUME SequencesAssumption, IInv, NEW r \in Request, Rollback(r), UNCHANGED <<row, pgseq>>,
         pc' = [pc EXCEPT ![r] = "called"] \/ pc' = [pc EXCEPT ![r] = "failed"],
         tries' \in [Request -> Nat]
  PROVE  IInv'
  <1>1. Initial \in [Sequence -> Row] BY DEF SequencesAssumption, Row, Implementation
  <1>2. lock' \in [Sequence -> Request \cup {None}] BY DEF IInv, TypeOK, Rollback, Unlocked
  <1>3. pc' \in [Request -> {"called", "open", "altering", "altered", "done", "failed"}]
    BY DEF IInv, TypeOK
  <1>4. \A s \in Sequence : lock'[s] # r /\ (\A b \in Request \ {r} : lock'[s] = b <=> lock[s] = b)
    BY DEF IInv, TypeOK, Rollback, Unlocked, SequencesAssumption
  <1>5. \A b \in Request \ {r} : /\ pc'[b] = pc[b] /\ view'[b] = view[b] /\ missed'[b] = missed[b]
                                 /\ altered'[b] = altered[b] /\ drawn'[b] = drawn[b]
    BY DEF IInv, TypeOK, Rollback
  <1>6. ~Open(r)' /\ drawn'[r] = <<>> /\ altered'[r] = None /\ pc'[r] \in {"called", "failed"}
    BY DEF IInv, TypeOK, Rollback, Open
  <1>7. TypeOK'
    <2>1. view' \in [Request -> [Sequence -> Row]] BY <1>1 DEF IInv, TypeOK, Rollback
    <2>2. missed' \in [Request -> SUBSET Sequence] BY DEF IInv, TypeOK, Rollback
    <2>4. altered' \in [Request -> Sequence \cup {None}] BY DEF IInv, TypeOK, Rollback
    <2>5. drawn' \in [Request -> Seq([seq: Sequence, num: Int])]
      <3>1. <<>> \in Seq([seq: Sequence, num: Int]) OBVIOUS
      <3> QED BY <3>1 DEF IInv, TypeOK, Rollback
    <2>3. ASSUME NEW b \in Request
          PROVE  /\ pc'[b] \in {"altering", "altered"} <=> altered'[b] # None
                 /\ pc'[b] \in {"called", "failed"} => drawn'[b] = <<>>
                 /\ \A s \in Sequence : lock'[s] = b => Open(b)'
      <3>1. CASE b = r BY <1>4, <1>6, <3>1
      <3>2. CASE b # r
        <4>1. pc'[b] = pc[b] /\ altered'[b] = altered[b] /\ drawn'[b] = drawn[b] BY <1>5, <3>2
        <4>2. \A s \in Sequence : lock'[s] = b <=> lock[s] = b BY <1>4, <3>2
        <4>3. Open(b)' <=> Open(b) BY <4>1 DEF Open
        <4>4. /\ pc[b] \in {"altering", "altered"} <=> altered[b] # None
              /\ pc[b] \in {"called", "failed"} => drawn[b] = <<>>
              /\ \A s \in Sequence : lock[s] = b => Open(b)
          BY RequestType
        <4> QED BY ONLY <4>1, <4>2, <4>3, <4>4
      <3> QED BY <3>1, <3>2
    <2> QED BY <1>2, <1>3, <2>1, <2>2, <2>3, <2>4, <2>5 DEF IInv, TypeOK
  <1>8. RowsOK' BY DEF IInv, RowsOK
  <1>9. ViewsOK'
    <2> SUFFICES ASSUME NEW b \in Request, NEW s \in Sequence, Open(b)'
                 PROVE  /\ lock'[s] # b /\ s \notin missed'[b] => view'[b][s] = row'[s]
                        /\ lock'[s] = b => s \notin missed'[b]
      BY DEF ViewsOK
    <2>1. b # r /\ Open(b) BY <1>5, <1>6 DEF Open
    <2>2. view'[b][s] = view[b][s] /\ missed'[b] = missed[b] BY <1>5, <2>1
    <2>3. lock'[s] = b <=> lock[s] = b BY <1>4, <2>1
    <2>4. ViewsOK BY DEF IInv
    <2> QED BY <2>1, <2>2, <2>3, <2>4 DEF ViewsOK
  <1>10. DrawersOK'
    <2>1. \A b \in Request \ {r}, s \in Sequence : Nums(b, s)' = Nums(b, s) BY <1>5 DEF Nums
    <2>2. \A b \in Request \ Admin : altered'[b] = None BY <1>5, <1>6 DEF IInv, DrawersOK
    <2>3. ASSUME NEW b \in Request \ Admin, NEW s \in Sequence, lock'[s] = b
          PROVE  Leads(Nums(b, s)', row'[s], view'[b][s])
      <3>1. b # r /\ lock[s] = b BY <1>4, <2>3
      <3> QED BY <1>5, <2>1, <3>1 DEF IInv, DrawersOK
    <2> QED BY <2>2, <2>3 DEF DrawersOK, Leads, Abstract!Chained
  <1>11. AdminsOK'
    <2>1. \A s \in Sequence : s # None BY DEF SequencesAssumption
    <2> SUFFICES ASSUME NEW b \in Admin
                 PROVE  /\ drawn'[b] = <<>>
                        /\ \A s \in Sequence : lock'[s] = b <=> altered'[b] = s
                        /\ \A s \in Sequence :
                              altered'[b] = s => Legal(pc'[b], row'[s], view'[b][s])
      BY DEF AdminsOK, Legal
    <2>2. b \in Request BY DEF SequencesAssumption
    <2>3. CASE b = r BY <1>4, <1>6, <2>1, <2>3
    <2>4. CASE b # r
      <3>1. /\ pc'[b] = pc[b] /\ view'[b] = view[b] /\ row' = row
            /\ drawn'[b] = drawn[b] /\ altered'[b] = altered[b]
            /\ \A s \in Sequence : lock'[s] = b <=> lock[s] = b
        BY <1>4, <1>5, <2>2, <2>4
      <3> QED BY <3>1 DEF IInv, AdminsOK
    <2> QED BY <2>3, <2>4
  <1>12. DOMAIN drawn'[r] = {} BY <1>6
  <1>13. NumbersOK'
    <2> SUFFICES ASSUME NEW b \in Request, NEW k \in DOMAIN drawn'[b]
                 PROVE  LET s == drawn'[b][k].seq  n == drawn'[b][k].num IN
                        /\ row'[s].implementation = "no_gap" =>
                              IF pc'[b] = "done" THEN n < row'[s].number_next ELSE lock'[s] = b
                        /\ row'[s].implementation = "standard" => Below(pgseq'[s], n)
      BY DEF NumbersOK, Below
    <2>1. b # r /\ drawn'[b] = drawn[b] /\ pc'[b] = pc[b] BY <1>5, <1>12
    <2>2. drawn[b][k].seq \in Sequence BY <2>1, DrawnType
    <2> QED BY <1>4, <2>1, <2>2 DEF IInv, NumbersOK
  <1>14. UniqueNumbers' BY <1>5, <1>12 DEF IInv, UniqueNumbers
  <1> QED BY <1>7, <1>8, <1>9, <1>10, <1>11, <1>13, <1>14 DEF IInv

\* A transaction that begins sees what is committed.
LEMMA BeginStep == ASSUME SequencesAssumption, IInv, NEW r \in Request, Begin(r) PROVE IInv'
  <1>1. TypeOK'
    <2>1. view' \in [Request -> [Sequence -> Row]] BY DEF IInv, TypeOK, Begin
    <2>2. \A s \in Sequence : lock[s] # r BY DEF IInv, TypeOK, Begin, Open
    <2>3. altered[r] = None BY DEF IInv, TypeOK, Begin
    <2> QED BY <2>1, <2>2, <2>3 DEF IInv, TypeOK, Begin, Open
  <1>2. RowsOK' BY DEF IInv, RowsOK, Begin
  <1>3. ViewsOK' BY DEF IInv, TypeOK, ViewsOK, Begin, Open
  <1>4. DrawersOK'
    <2>1. \A s \in Sequence : lock[s] # r BY DEF IInv, TypeOK, Begin, Open
    <2>2. \A b \in Request, s \in Sequence : Nums(b, s)' = Nums(b, s) BY DEF Nums, Begin
    <2> QED BY <2>1, <2>2 DEF IInv, TypeOK, DrawersOK, Begin
  <1>5. AdminsOK'
    <2>1. altered[r] = None BY DEF IInv, TypeOK, Begin
    <2>2. \A s \in Sequence : s # None BY DEF SequencesAssumption
    <2> QED BY <2>1, <2>2 DEF IInv, TypeOK, AdminsOK, Legal, Begin, SequencesAssumption
  <1>6. NumbersOK'
    <2>1. drawn[r] = <<>> BY DEF IInv, TypeOK, Begin
    <2>2. DOMAIN drawn[r] = {} BY <2>1
    <2> SUFFICES ASSUME NEW b \in Request, NEW k \in DOMAIN drawn'[b]
                 PROVE  LET s == drawn'[b][k].seq  n == drawn'[b][k].num IN
                        /\ row'[s].implementation = "no_gap" =>
                              IF pc'[b] = "done" THEN n < row'[s].number_next ELSE lock'[s] = b
                        /\ row'[s].implementation = "standard" => Below(pgseq'[s], n)
      BY DEF NumbersOK, Below
    <2>3. drawn' = drawn /\ row' = row /\ pgseq' = pgseq /\ lock' = lock BY DEF Begin
    <2>4. b # r BY <2>2, <2>3
    <2>5. pc'[b] = pc[b] BY <2>4 DEF Begin, IInv, TypeOK
    <2> QED BY <2>3, <2>5 DEF IInv, NumbersOK
  <1>7. UniqueNumbers' BY DEF IInv, UniqueNumbers, Begin
  <1> QED BY <1>1, <1>2, <1>3, <1>4, <1>5, <1>6, <1>7 DEF IInv

\* What TakeNumber leaves: one more number at the end of r's.
LEMMA Taken ==
  ASSUME IInv, NEW r \in Request, NEW s \in Sequence, NEW n \in Int, TakeNumber(r, s, n)
  PROVE  /\ drawn' \in [Request -> Seq([seq: Sequence, num: Int])]
         /\ \A b \in Request \ {r} : drawn'[b] = drawn[b]
         /\ DOMAIN drawn'[r] = DOMAIN drawn[r] \cup {Len(drawn[r]) + 1}
         /\ Len(drawn[r]) + 1 \notin DOMAIN drawn[r]
         /\ \A k \in DOMAIN drawn[r] : drawn'[r][k] = drawn[r][k]
         /\ drawn'[r][Len(drawn[r]) + 1] = [seq |-> s, num |-> n]
  <1> DEFINE Number == [seq: Sequence, num: Int]
             new == [seq |-> s, num |-> n]
  <1>1. drawn[r] \in Seq(Number) /\ new \in Number BY DEF IInv, TypeOK
  <1>2. drawn' = [drawn EXCEPT ![r] = Append(drawn[r], new)] BY DEF TakeNumber
  <1> HIDE DEF Number, new
  <1>3. /\ Append(drawn[r], new) \in Seq(Number)
        /\ DOMAIN Append(drawn[r], new) = 1..(Len(drawn[r]) + 1)
        /\ DOMAIN drawn[r] = 1..Len(drawn[r]) /\ Len(drawn[r]) \in Nat
        /\ \A k \in 1..Len(drawn[r]) : Append(drawn[r], new)[k] = drawn[r][k]
        /\ Append(drawn[r], new)[Len(drawn[r]) + 1] = new
    BY <1>1
  <1>4. drawn \in [Request -> Seq(Number)] BY DEF IInv, TypeOK, Number
  <1>5. drawn'[r] = Append(drawn[r], new) BY <1>2, <1>4
  <1>6. drawn' \in [Request -> Seq(Number)] /\ \A b \in Request \ {r} : drawn'[b] = drawn[b]
    BY <1>2, <1>3, <1>4
  <1> DEFINE last == Len(drawn[r]) + 1
  <1>7. DOMAIN drawn'[r] = DOMAIN drawn[r] \cup {last} /\ last \notin DOMAIN drawn[r]
    BY <1>3, <1>5
  <1>8. drawn'[r][last] = new /\ \A k \in DOMAIN drawn[r] : drawn'[r][k] = drawn[r][k]
    BY <1>3, <1>5
  <1> QED BY <1>6, <1>7, <1>8 DEF Number, new

\* The new number differs from all that are in use.
LEMMA StaysUnique ==
  ASSUME IInv, NEW r \in Request, NEW s \in Sequence, NEW n \in Int, TakeNumber(r, s, n),
         \A b \in Request : \A k \in DOMAIN drawn[b] : drawn[b][k] # [seq |-> s, num |-> n]
  PROVE  UniqueNumbers'
  <1> DEFINE last == Len(drawn[r]) + 1
  <1>t. /\ drawn' \in [Request -> Seq([seq: Sequence, num: Int])]
        /\ \A q \in Request \ {r} : drawn'[q] = drawn[q]
        /\ DOMAIN drawn'[r] = DOMAIN drawn[r] \cup {last} /\ last \notin DOMAIN drawn[r]
        /\ \A m \in DOMAIN drawn[r] : drawn'[r][m] = drawn[r][m]
        /\ drawn'[r][last] = [seq |-> s, num |-> n]
    BY ONLY IInv, TakeNumber(r, s, n), Taken
  <1> SUFFICES ASSUME NEW a \in Request, NEW b \in Request,
                      NEW j \in DOMAIN drawn'[a], NEW k \in DOMAIN drawn'[b],
                      drawn'[a][j] = drawn'[b][k]
               PROVE  a = b /\ j = k
    BY DEF UniqueNumbers
  <1>1. \A c \in Request : \A i \in DOMAIN drawn'[c] :
            \/ i \in DOMAIN drawn[c] /\ drawn'[c][i] = drawn[c][i]
            \/ c = r /\ i = last /\ drawn'[c][i] = [seq |-> s, num |-> n]
    <2> SUFFICES ASSUME NEW c \in Request, NEW i \in DOMAIN drawn'[c]
                 PROVE  \/ i \in DOMAIN drawn[c] /\ drawn'[c][i] = drawn[c][i]
                        \/ c = r /\ i = last /\ drawn'[c][i] = [seq |-> s, num |-> n]
        OBVIOUS
    <2>1. CASE c # r
        <3>1. drawn'[c] = drawn[c] BY <1>t, <2>1
        <3> QED BY <3>1
    <2>2. CASE c = r BY <1>t, <2>2
    <2> QED BY <2>1, <2>2
  <1> HIDE DEF last
  <1>2. CASE j \in DOMAIN drawn[a] /\ drawn'[a][j] = drawn[a][j]
             /\ k \in DOMAIN drawn[b] /\ drawn'[b][k] = drawn[b][k]
    <2>1. drawn[a][j] = drawn[b][k] BY <1>2
    <2> QED BY <1>2, <2>1 DEF IInv, UniqueNumbers
  <1> QED BY <1>1, <1>2

LEMMA NextvalType ==
  ASSUME NEW q \in PgSeq
  PROVE  /\ Nextval(q) \in Int
         /\ AfterNextval(q) \in PgSeq
         /\ AfterNextval(q).increment = q.increment /\ AfterNextval(q).exists = q.exists
         /\ AfterNextval(q).last_value = Nextval(q) /\ AfterNextval(q).is_called = TRUE
  <1>1. q.last_value \in Int /\ q.increment \in Int BY DEF PgSeq
  <1>2. Nextval(q) \in Int BY <1>1 DEF Nextval
  <1> QED BY <1>2 DEF AfterNextval, PgSeq

\* nextval is above all numbers of the sequence.
LEMMA DrawStandardStep ==
  ASSUME SequencesAssumption, IInv, NEW r \in Request, NEW s \in Sequence, DrawStandard(r, s)
  PROVE  IInv'
  <1> DEFINE q == pgseq[s]
  <1>1. /\ q \in PgSeq /\ q.increment > 0 /\ row[s].implementation = "standard"
        /\ pc[r] = "open" /\ r \notin Admin
    BY DEF IInv, TypeOK, RowsOK, DrawStandard, CanDraw
  <1>2. AfterNextval(q) \in PgSeq /\ Nextval(q) \in Int BY <1>1, NextvalType
  <1>n. PICK n \in Int : n = Nextval(q) BY <1>2
  <1> DEFINE last == Len(drawn[r]) + 1
  <1>3. /\ TakeNumber(r, s, n)
        /\ drawn' \in [Request -> Seq([seq: Sequence, num: Int])]
        /\ \A b \in Request \ {r} : drawn'[b] = drawn[b]
        /\ DOMAIN drawn'[r] = DOMAIN drawn[r] \cup {last} /\ last \notin DOMAIN drawn[r]
        /\ \A k \in DOMAIN drawn[r] : drawn'[r][k] = drawn[r][k]
        /\ drawn'[r][last] = [seq |-> s, num |-> n]
    <2>1. TakeNumber(r, s, n) BY <1>n DEF DrawStandard
    <2> QED BY ONLY IInv, <2>1, Taken
  <1>4. /\ pgseq' \in [Sequence -> PgSeq]
        /\ pgseq'[s] = AfterNextval(q) /\ \A t \in Sequence \ {s} : pgseq'[t] = pgseq[t]
    BY <1>2 DEF DrawStandard, IInv, TypeOK
  <1>5. UNCHANGED <<row, lock, pc, view, missed, altered, tries>> BY DEF DrawStandard
  <1> HIDE DEF last
  <1>6. \A m \in Int : Below(q, m) => Below(AfterNextval(q), m) /\ m # n
    <2>1. /\ q.last_value \in Int /\ q.increment \in Int /\ q.is_called \in BOOLEAN
      BY <1>1 DEF PgSeq
    <2>2. n = IF q.is_called THEN q.last_value + q.increment ELSE q.last_value
      BY <1>n DEF Nextval
    <2>3. AfterNextval(q).last_value = n /\ AfterNextval(q).is_called
      BY <1>1, <1>n, NextvalType
    <2> QED BY <1>1, <2>1, <2>2, <2>3 DEF Below
  <1>7. Below(AfterNextval(q), n) BY <1>1, <1>n, NextvalType DEF Below
  <1>8. AfterNextval(q).increment = q.increment /\ AfterNextval(q).exists = q.exists
    BY <1>1, NextvalType
  <1> HIDE DEF q
  <1>9. TypeOK'
    <2>1. \A b \in Request : pc[b] \in {"called", "failed"} => drawn'[b] = <<>>
      BY <1>1, <1>3 DEF IInv, TypeOK
    <2> QED BY <1>3, <1>4, <1>5, <2>1 DEF IInv, TypeOK, Open
  <1>10. RowsOK' BY <1>4, <1>5, <1>8 DEF IInv, RowsOK, q
  <1>11. ViewsOK' BY <1>5 DEF IInv, ViewsOK, Open
  <1>12. DrawersOK'
    <2> SUFFICES ASSUME NEW b \in Request \ Admin, NEW t \in Sequence, lock[t] = b
                 PROVE  Nums(b, t)' = Nums(b, t)
      BY <1>5 DEF IInv, DrawersOK, Leads, Abstract!Chained
    <2>1. CASE b # r
      <3>1. drawn'[b] = drawn[b] BY <1>3, <2>1
      <3> QED BY <3>1 DEF Nums
    <2>2. CASE b = r
      <3>1. t # s BY <1>1 DEF IInv, DrawersOK, Leads
      <3>2. drawn'[r][last].seq = s BY <1>3
      <3>3. \A k : k \in {j \in DOMAIN drawn'[r] : drawn'[r][j].seq = t}
                    <=> k \in {j \in DOMAIN drawn[r] : drawn[r][j].seq = t}
        BY <1>3, <3>1, <3>2
      <3>4. {k \in DOMAIN drawn'[r] : drawn'[r][k].seq = t}
              = {k \in DOMAIN drawn[r] : drawn[r][k].seq = t}
        BY <3>3
      <3>5. \A k \in {j \in DOMAIN drawn[r] : drawn[r][j].seq = t} : drawn'[r][k] = drawn[r][k]
        BY <1>3
      <3> QED BY <2>2, <3>4, <3>5 DEF Nums
    <2> QED BY <2>1, <2>2
  <1>13. AdminsOK'
    <2>1. \A b \in Admin : drawn'[b] = drawn[b]
      BY <1>1, <1>3 DEF SequencesAssumption
    <2> QED BY <1>5, <2>1 DEF IInv, AdminsOK, Legal
  <1>14. NumbersOK'
    <2> SUFFICES ASSUME NEW b \in Request, NEW k \in DOMAIN drawn'[b]
                 PROVE  LET t == drawn'[b][k].seq  m == drawn'[b][k].num IN
                        /\ row[t].implementation = "no_gap" =>
                              IF pc[b] = "done" THEN m < row[t].number_next ELSE lock[t] = b
                        /\ row[t].implementation = "standard" => Below(pgseq'[t], m)
      BY <1>5 DEF NumbersOK, Below
    <2>1. CASE k \in DOMAIN drawn[b] /\ drawn'[b][k] = drawn[b][k]
      <3>1. drawn[b][k].seq \in Sequence /\ drawn[b][k].num \in Int BY <2>1, DrawnType
      <3>2. NumbersOK BY DEF IInv
      <3>3. Below(pgseq[drawn[b][k].seq], drawn[b][k].num) => Below(pgseq'[drawn[b][k].seq], drawn[b][k].num)
        BY <1>4, <1>6, <3>1 DEF q
      <3> QED BY <2>1, <3>2, <3>3 DEF NumbersOK
    <2>2. CASE drawn'[b][k] = [seq |-> s, num |-> n] BY <1>1, <1>4, <1>7, <2>2
    <2> QED BY <1>3, <2>1, <2>2
  <1>15. UniqueNumbers'
    <2>1. ASSUME NEW b \in Request, NEW k \in DOMAIN drawn[b]
          PROVE  drawn[b][k] # [seq |-> s, num |-> n]
      BY <1>1, <1>2, <1>6 DEF IInv, NumbersOK, q
    <2>2. \A b \in Request : \A k \in DOMAIN drawn[b] : drawn[b][k] # [seq |-> s, num |-> n]
      BY <2>1
    <2>3. TakeNumber(r, s, n) BY <1>3
    <2> QED BY ONLY IInv, <2>2, <2>3, StaysUnique
  <1> QED BY <1>9, <1>10, <1>11, <1>12, <1>13, <1>14, <1>15 DEF IInv

\* One more number, and the row counts on.
LEMMA LeadsOn ==
  ASSUME NEW ns \in SUBSET Int, NEW old \in Row, NEW new \in Row,
         old.number_increment > 0, Leads(ns, old, new)
  PROVE  /\ Leads(ns \cup {new.number_next}, old, Successor(new))
         /\ Successor(new) \in Row
         /\ new.number_next \notin ns /\ old.number_next <= new.number_next
  <1> DEFINE a == old.number_next
             b == new.number_next
             step == old.number_increment
  <1>1. /\ a \in Int /\ b \in Int /\ step \in Int /\ step > 0 /\ new.number_increment = step
        /\ Successor(new) = [new EXCEPT !.number_next = b + step]
        /\ Successor(new) \in Row
    BY DEF Leads, Successor, Row
  <1>2. a \in ns \cup {b} /\ \A n \in ns : a <= n /\ n < b /\ n + step \in ns \cup {b}
    BY DEF Leads, Abstract!Chained
  <1>3. b \notin ns /\ a <= b BY <1>1, <1>2
  <1>4. Abstract!Chained(ns \cup {b}, a, b + step, step)
    <2> HIDE DEF a, b, step
    <2> DEFINE ms == ns \cup {b}
    <2>1. a \in ms \cup {b + step} BY <1>2
    <2>2. ASSUME NEW n \in ms PROVE a <= n /\ n < b + step /\ n + step \in ms \cup {b + step}
      <3>1. CASE n \in ns
        <4>1. n \in Int BY <3>1
        <4> QED BY <1>1, <1>2, <3>1, <4>1
      <3>2. CASE n = b BY <1>1, <1>3, <3>2
      <3> QED BY <3>1, <3>2
    <2> QED BY <2>1, <2>2 DEF Abstract!Chained
  <1>5. Successor(new).number_next = b + step BY <1>1 DEF Row
  <1>6. Successor(new) = [old EXCEPT !.number_next = b + step]
    <2>1. new = [old EXCEPT !.number_next = b] BY DEF Leads
    <2> HIDE DEF a, b, step
    <2> QED BY <1>1, <2>1 DEF Row
  <1> QED BY <1>1, <1>3, <1>4, <1>5, <1>6 DEF Leads

LEMMA NumsType == ASSUME IInv, NEW r \in Request, NEW s \in Sequence PROVE Nums(r, s) \in SUBSET Int
  BY DrawnType DEF Nums

\* A row without gaps is counted on under the lock, from the version that is committed.
LEMMA DrawNoGapStep ==
  ASSUME SequencesAssumption, IInv, NEW r \in Request, NEW s \in Sequence, DrawNoGap(r, s)
  PROVE  IInv'
  <1>1. /\ pc[r] = "open" /\ Open(r) /\ r \in Request \ Admin /\ s \notin missed[r]
        /\ view[r][s].implementation = "no_gap" /\ lock[s] \in {None, r}
        /\ view[r][s] \in Row /\ row[s] \in Row /\ row[s].number_increment > 0
    BY DEF IInv, TypeOK, RowsOK, DrawNoGap, CanDraw, Stale, Free, Open
  <1>2. Leads(Nums(r, s), row[s], view[r][s])
    <2>1. CASE lock[s] = r BY <1>1, <2>1 DEF IInv, DrawersOK
    <2>2. CASE lock[s] # r
      <3>1. view[r][s] = row[s] BY <1>1, <2>2 DEF IInv, ViewsOK
      <3>2. Nums(r, s) = {} BY <1>1, <2>2, <3>1 DEF IInv, NumbersOK, Nums
      <3>3. row[s].number_next \in Int BY <1>1 DEF Row
      <3>4. Abstract!Chained({}, row[s].number_next, row[s].number_next, row[s].number_increment)
        BY DEF Abstract!Chained
      <3>5. row[s] = [row[s] EXCEPT !.number_next = row[s].number_next] BY <1>1 DEF Row
      <3> QED BY <1>1, <3>1, <3>2, <3>4, <3>5 DEF Leads
    <2> QED BY <2>1, <2>2
  <1>3. row[s].implementation = "no_gap" BY <1>2 DEF Leads
  <1>4. /\ Leads(Nums(r, s) \cup {view[r][s].number_next}, row[s], Successor(view[r][s]))
        /\ Successor(view[r][s]) \in Row
        /\ view[r][s].number_next \notin Nums(r, s)
        /\ row[s].number_next <= view[r][s].number_next
    <2>1. PICK ns \in SUBSET Int : ns = Nums(r, s) BY NumsType
    <2>2. PICK old \in Row : old = row[s] BY <1>1
    <2>3. PICK new \in Row : new = view[r][s] BY <1>1
    <2> QED BY <1>1, <1>2, <2>1, <2>2, <2>3, LeadsOn
  <1> DEFINE last == Len(drawn[r]) + 1
  <1>n. PICK n \in Int : n = view[r][s].number_next BY <1>1 DEF Row
  <1>5. /\ TakeNumber(r, s, n)
        /\ drawn' \in [Request -> Seq([seq: Sequence, num: Int])]
        /\ \A b \in Request \ {r} : drawn'[b] = drawn[b]
        /\ DOMAIN drawn'[r] = DOMAIN drawn[r] \cup {last} /\ last \notin DOMAIN drawn[r]
        /\ \A k \in DOMAIN drawn[r] : drawn'[r][k] = drawn[r][k]
        /\ drawn'[r][last] = [seq |-> s, num |-> n]
    <2>1. TakeNumber(r, s, n) BY <1>n DEF DrawNoGap
    <2> QED BY ONLY IInv, <2>1, Taken
  <1> HIDE DEF last
  <1>6. UNCHANGED <<row, pgseq, pc, missed, altered, tries>> BY DEF DrawNoGap
  <1>7. /\ lock' \in [Sequence -> Request \cup {None}]
        /\ lock'[s] = r /\ \A t \in Sequence \ {s} : lock'[t] = lock[t]
    BY DEF DrawNoGap, IInv, TypeOK
  <1>8. /\ view' \in [Request -> [Sequence -> Row]]
        /\ view'[r][s] = Successor(view[r][s])
        /\ \A b \in Request, t \in Sequence : b # r \/ t # s => view'[b][t] = view[b][t]
    BY <1>4 DEF DrawNoGap, IInv, TypeOK
  <1>9. TypeOK'
    <2>1. \A b \in Request : pc[b] \in {"called", "failed"} => drawn'[b] = <<>>
      BY <1>1, <1>5 DEF IInv, TypeOK
    <2>2. \A b \in Request, t \in Sequence : lock'[t] = b => Open(b)
      BY <1>1, <1>7 DEF IInv, TypeOK
    <2> QED BY <1>5, <1>6, <1>7, <1>8, <2>1, <2>2 DEF IInv, TypeOK, Open
  <1>10. RowsOK' BY <1>6 DEF IInv, RowsOK
  <1>11. ViewsOK'
    <2> SUFFICES ASSUME NEW b \in Request, NEW t \in Sequence, Open(b)
                 PROVE  /\ lock'[t] # b /\ t \notin missed[b] => view'[b][t] = row[t]
                        /\ lock'[t] = b => t \notin missed[b]
      BY <1>6 DEF ViewsOK, Open
    <2>1. CASE t # s BY <1>7, <1>8, <2>1 DEF IInv, ViewsOK
    <2>2. CASE t = s /\ b = r BY <1>1, <1>7, <2>2
    <2>3. CASE t = s /\ b # r
      <3>1. lock[s] # b BY <1>1, <2>3 DEF SequencesAssumption
      <3> QED BY <1>7, <1>8, <2>3, <3>1 DEF IInv, ViewsOK
    <2> QED BY <2>1, <2>2, <2>3
  <1>12. DrawersOK'
    <2> SUFFICES ASSUME NEW b \in Request \ Admin, NEW t \in Sequence, lock'[t] = b
                 PROVE  Leads(Nums(b, t)', row[t], view'[b][t])
      BY <1>6 DEF IInv, DrawersOK, Leads, Abstract!Chained
    <2>1. CASE b # r
      <3>1. drawn'[b] = drawn[b] BY <1>5, <2>1
      <3>2. Nums(b, t)' = Nums(b, t) BY <3>1 DEF Nums
      <3>3. lock[t] = b /\ view'[b][t] = view[b][t] BY <1>7, <1>8, <2>1
      <3> QED BY <3>2, <3>3 DEF IInv, DrawersOK
    <2>2. CASE b = r /\ t # s
      <3>1. \A k : k \in {j \in DOMAIN drawn'[r] : drawn'[r][j].seq = t}
                    <=> k \in {j \in DOMAIN drawn[r] : drawn[r][j].seq = t}
        <4>1. drawn'[r][last].seq = s /\ t # s BY <1>5, <2>2
        <4> QED BY <1>5, <4>1
      <3>2. {k \in DOMAIN drawn'[r] : drawn'[r][k].seq = t}
              = {k \in DOMAIN drawn[r] : drawn[r][k].seq = t}
        BY <3>1
      <3>3. \A k \in {j \in DOMAIN drawn[r] : drawn[r][j].seq = t} : drawn'[r][k] = drawn[r][k]
        BY <1>5
      <3>4. Nums(b, t)' = Nums(b, t) BY <2>2, <3>2, <3>3 DEF Nums
      <3>5. lock[t] = b /\ view'[b][t] = view[b][t] BY <1>7, <1>8, <2>2
      <3> QED BY <3>4, <3>5 DEF IInv, DrawersOK
    <2>3. CASE b = r /\ t = s
      <3>1. \A m : m \in Nums(r, s)' <=> m \in Nums(r, s) \cup {n}
        <4>1. drawn'[r][last].seq = s /\ drawn'[r][last].num = n BY <1>5
        <4>2. \A m : m \in Nums(r, s)' <=>
                  \E k \in DOMAIN drawn'[r] : drawn'[r][k].seq = s /\ drawn'[r][k].num = m
          BY DEF Nums
        <4>3. \A m : m \in Nums(r, s) <=>
                  \E k \in DOMAIN drawn[r] : drawn[r][k].seq = s /\ drawn[r][k].num = m
          BY DEF Nums
        <4>4. \A k \in DOMAIN drawn'[r] : k = last \/ k \in DOMAIN drawn[r] BY <1>5
        <4>5. last \in DOMAIN drawn'[r] /\ \A k \in DOMAIN drawn[r] : k \in DOMAIN drawn'[r]
          BY <1>5
        <4>6. \A k \in DOMAIN drawn[r] : drawn'[r][k] = drawn[r][k] BY <1>5
        <4> QED BY <4>1, <4>2, <4>3, <4>4, <4>5, <4>6
      <3>2. Nums(r, s)' = Nums(r, s) \cup {n} BY <3>1
      <3> QED BY <1>4, <1>n, <1>8, <2>3, <3>2
    <2> QED BY <2>1, <2>2, <2>3
  <1>13. AdminsOK'
    <2> SUFFICES ASSUME NEW b \in Admin
                 PROVE  /\ drawn'[b] = <<>>
                        /\ \A t \in Sequence : lock'[t] = b <=> altered[b] = t
                        /\ \A t \in Sequence : altered[b] = t => Legal(pc[b], row[t], view'[b][t])
      BY <1>6 DEF AdminsOK, Legal
    <2>1. b \in Request /\ b # r BY <1>1 DEF SequencesAssumption
    <2>2. \A t \in Sequence : lock'[t] = b <=> lock[t] = b
      BY <1>1, <1>7, <2>1 DEF SequencesAssumption
    <2>3. drawn'[b] = drawn[b] /\ \A t \in Sequence : view'[b][t] = view[b][t]
      BY <1>5, <1>8, <2>1
    <2> QED BY <2>2, <2>3 DEF IInv, AdminsOK
  <1>14. NumbersOK'
    <2> SUFFICES ASSUME NEW b \in Request, NEW k \in DOMAIN drawn'[b]
                 PROVE  LET t == drawn'[b][k].seq  m == drawn'[b][k].num IN
                        /\ row[t].implementation = "no_gap" =>
                              IF pc[b] = "done" THEN m < row[t].number_next ELSE lock'[t] = b
                        /\ row[t].implementation = "standard" => Below(pgseq[t], m)
      BY <1>6 DEF NumbersOK, Below
    <2>1. CASE k \in DOMAIN drawn[b] /\ drawn'[b][k] = drawn[b][k]
      <3>1. drawn[b][k].seq \in Sequence /\ drawn[b][k].num \in Int BY <2>1, DrawnType
      <3>2. lock[drawn[b][k].seq] = b => lock'[drawn[b][k].seq] = b
        BY <1>1, <1>7, <3>1 DEF SequencesAssumption
      <3> QED BY <2>1, <3>1, <3>2 DEF IInv, NumbersOK
    <2>2. CASE b = r /\ drawn'[b][k] = [seq |-> s, num |-> n]
      BY <1>1, <1>3, <1>7, <2>2
    <2> QED BY <1>5, <2>1, <2>2
  <1>15. UniqueNumbers'
    <2>1. ASSUME NEW b \in Request, NEW k \in DOMAIN drawn[b], drawn[b][k] = [seq |-> s, num |-> n]
          PROVE  FALSE
      <3>1. IF pc[b] = "done" THEN n < row[s].number_next ELSE lock[s] = b
        BY <1>3, <2>1 DEF IInv, NumbersOK
      <3>2. row[s].number_next \in Int BY <1>1 DEF Row
      <3>3. lock[s] = b BY <1>4, <1>n, <3>1, <3>2
      <3>4. b = r BY <1>1, <3>3 DEF SequencesAssumption
      <3>5. n \in Nums(r, s) BY <2>1, <3>4 DEF Nums
      <3> QED BY <1>4, <1>n, <3>5
    <2>2. \A b \in Request : \A k \in DOMAIN drawn[b] : drawn[b][k] # [seq |-> s, num |-> n]
      BY <2>1
    <2>3. TakeNumber(r, s, n) BY <1>5
    <2> QED BY ONLY IInv, <2>2, <2>3, StaysUnique
  <1> QED BY <1>9, <1>10, <1>11, <1>12, <1>13, <1>14, <1>15 DEF IInv

-----------------------------------------------------------------------------
\* The first half of a change: the row is free and as the administrator saw it.
LEMMA LockRow ==
  ASSUME SequencesAssumption, IInv, NEW r \in Request, NEW s \in Sequence,
         pc[r] = "open", r \in Admin, Free(r, s), ~Stale(r, s),
         NEW new \in Row, Legal("altering", row[s], new),
         view' = [view EXCEPT ![r][s] = new],
         lock' = [lock EXCEPT ![s] = r],
         altered' = [altered EXCEPT ![r] = s],
         pc' = [pc EXCEPT ![r] = "altering"],
         UNCHANGED <<row, pgseq, missed, drawn, tries>>
  PROVE  IInv'
  <1>1. altered[r] = None /\ Open(r) BY DEF IInv, TypeOK, Open
  <1>2. \A t \in Sequence : lock[t] # r BY <1>1 DEF IInv, AdminsOK, SequencesAssumption
  <1>3. lock[s] = None BY <1>2 DEF Free
  <1>4. \A t \in Sequence : lock'[t] = IF t = s THEN r ELSE lock[t] BY DEF IInv, TypeOK
  <1>5. /\ view' \in [Request -> [Sequence -> Row]] /\ view'[r][s] = new
        /\ \A b \in Request, t \in Sequence : b # r \/ t # s => view'[b][t] = view[b][t]
    BY DEF IInv, TypeOK
  <1>6. /\ altered'[r] = s /\ pc'[r] = "altering"
        /\ \A b \in Request \ {r} : altered'[b] = altered[b] /\ pc'[b] = pc[b]
    BY DEF IInv, TypeOK
  <1>7. TypeOK'
    <2>1. lock' \in [Sequence -> Request \cup {None}] BY DEF IInv, TypeOK
    <2>2. altered' \in [Request -> Sequence \cup {None}] BY DEF IInv, TypeOK
    <2>3. pc' \in [Request -> {"called", "open", "altering", "altered", "done", "failed"}]
      BY DEF IInv, TypeOK
    <2>4. ASSUME NEW b \in Request
          PROVE  /\ pc'[b] \in {"altering", "altered"} <=> altered'[b] # None
                 /\ pc'[b] \in {"called", "failed"} => drawn[b] = <<>>
                 /\ \A t \in Sequence : lock'[t] = b => Open(b)'
      BY <1>4, <1>6 DEF IInv, TypeOK, Open, SequencesAssumption
    <2> QED BY <1>5, <2>1, <2>2, <2>3, <2>4 DEF IInv, TypeOK
  <1>8. RowsOK' BY DEF IInv, RowsOK
  <1>9. ViewsOK'
    <2> SUFFICES ASSUME NEW b \in Request, NEW t \in Sequence, Open(b)'
                 PROVE  /\ lock'[t] # b /\ t \notin missed[b] => view'[b][t] = row[t]
                        /\ lock'[t] = b => t \notin missed[b]
      BY DEF ViewsOK
    <2>1. Open(b) BY <1>1, <1>6 DEF Open
    <2> QED BY <1>2, <1>3, <1>4, <1>5, <2>1 DEF IInv, ViewsOK, Stale, SequencesAssumption
  <1>10. DrawersOK'
    <2> SUFFICES ASSUME NEW b \in Request \ Admin
                 PROVE  /\ altered'[b] = None
                        /\ \A t \in Sequence : lock'[t] = b => Leads(Nums(b, t), row[t], view[b][t])'
      BY DEF DrawersOK
    <2>1. b # r OBVIOUS
    <2>2. \A t \in Sequence : /\ lock'[t] = b => lock[t] = b
                             /\ view'[b][t] = view[b][t]
      BY <1>4, <1>5, <2>1
    <2>3. ASSUME NEW t \in Sequence
          PROVE  Leads(Nums(b, t), row[t], view[b][t])' <=> Leads(Nums(b, t), row[t], view[b][t])
      <3>1. Nums(b, t)' = Nums(b, t) BY DEF Nums
      <3> QED BY <2>2, <3>1 DEF Leads, Abstract!Chained
    <2> QED BY <1>6, <2>1, <2>2, <2>3 DEF IInv, DrawersOK
  <1>11. AdminsOK'
    <2> SUFFICES ASSUME NEW b \in Admin
                 PROVE  /\ drawn[b] = <<>>
                        /\ \A t \in Sequence : lock'[t] = b <=> altered'[b] = t
                        /\ \A t \in Sequence : altered'[b] = t => Legal(pc'[b], row[t], view'[b][t])
      BY DEF AdminsOK, Legal
    <2>1. CASE b = r BY <1>2, <1>4, <1>5, <1>6, <2>1 DEF IInv, AdminsOK
    <2>2. CASE b # r
      <3>1. b \in Request BY DEF SequencesAssumption
      <3>2. /\ \A t \in Sequence : lock'[t] = b <=> lock[t] = b
            /\ altered'[b] = altered[b] /\ pc'[b] = pc[b]
            /\ \A t \in Sequence : view'[b][t] = view[b][t]
        BY <1>3, <1>4, <1>5, <1>6, <2>2, <3>1 DEF SequencesAssumption
      <3> QED BY <3>2 DEF IInv, AdminsOK
    <2> QED BY <2>1, <2>2
  <1>12. NumbersOK'
    <2> SUFFICES ASSUME NEW b \in Request, NEW k \in DOMAIN drawn[b]
                 PROVE  LET t == drawn[b][k].seq  m == drawn[b][k].num IN
                        /\ row[t].implementation = "no_gap" =>
                              IF pc'[b] = "done" THEN m < row[t].number_next ELSE lock'[t] = b
                        /\ row[t].implementation = "standard" => Below(pgseq[t], m)
      BY DEF NumbersOK, Below
    <2>1. DOMAIN <<>> = {} OBVIOUS
    <2>2. b # r BY <2>1 DEF IInv, AdminsOK
    <2>3. drawn[b][k].seq \in Sequence BY DrawnType
    <2>4. lock[drawn[b][k].seq] = b => lock'[drawn[b][k].seq] = b
      BY <1>3, <1>4, <2>3 DEF SequencesAssumption
    <2> QED BY <1>6, <2>2, <2>4 DEF IInv, NumbersOK
  <1>13. UniqueNumbers' BY DEF IInv, UniqueNumbers
  <1> QED BY <1>7, <1>8, <1>9, <1>10, <1>11, <1>12, <1>13 DEF IInv

LEMMA WriteStep ==
  ASSUME SequencesAssumption, Forward, IInv, NEW r \in Request, NEW s \in Sequence,
         Write(r, s) \/ Unlink(r, s)
  PROVE  IInv'
  <1>1. /\ pc[r] = "open" /\ r \in Admin /\ Free(r, s) /\ ~Stale(r, s)
        /\ view[r][s].implementation # "gone"
        /\ lock' = [lock EXCEPT ![s] = r]
        /\ altered' = [altered EXCEPT ![r] = s]
        /\ pc' = [pc EXCEPT ![r] = "altering"]
        /\ UNCHANGED <<row, pgseq, missed, drawn, tries>>
    BY DEF Write, Unlink
  <1>2. view[r][s] = row[s] /\ row[s] \in Row
    <2>1. altered[r] = None /\ Open(r) BY <1>1 DEF IInv, TypeOK, Open
    <2>2. lock[s] # r BY <1>1, <2>1 DEF IInv, AdminsOK, SequencesAssumption
    <2> QED BY <1>1, <2>1, <2>2 DEF IInv, TypeOK, ViewsOK, Stale
  <1>3. \E new \in Row : /\ view' = [view EXCEPT ![r][s] = new]
                         /\ Legal("altering", row[s], new)
    <2>1. CASE Unlink(r, s)
      <3> DEFINE new == [row[s] EXCEPT !.implementation = "gone"]
      <3>1. view' = [view EXCEPT ![r][s] = new] BY <1>2, <2>1 DEF Unlink, IInv, TypeOK
      <3>2. new \in Row /\ Legal("altering", row[s], new)
        BY <1>1, <1>2 DEF Row, Legal, IInv, RowsOK
      <3> QED BY <3>1, <3>2
    <2>2. CASE Write(r, s)
      <3>1. PICK i \in NewImplementation \cup {row[s].implementation},
                 n \in NewNext \cup {row[s].number_next},
                 k \in NewIncrement[s] \cup {row[s].number_increment} :
              view' = [view EXCEPT ![r][s] = [implementation |-> i, number_next |-> n,
                                              number_increment |-> k]]
        BY <1>2, <2>2 DEF Write
      <3> DEFINE new == [implementation |-> i, number_next |-> n, number_increment |-> k]
      <3>2. n = row[s].number_next BY DEF Forward
      <3>3. i \in {row[s].implementation, "standard"} BY DEF Forward
      <3>4. row[s].implementation \in {"standard", "no_gap"} /\ row[s].number_next \in Int
            /\ row[s].number_increment \in Int /\ row[s].number_increment > 0
        BY <1>1, <1>2 DEF Row, Implementation, IInv, RowsOK
      <3>5. k \in Int /\ k >= 0 /\ (i # "standard" => k > 0)
        <4>1. CASE k = row[s].number_increment BY <3>4, <4>1
        <4>2. CASE k \in NewIncrement[s]
          <5>1. k \in Int BY <4>2 DEF SequencesAssumption
          <5>2. k > 0 \/ (k = 0 /\ Initial[s].implementation = "standard") BY <4>2 DEF Forward
          <5>3. i # "standard" => Initial[s].implementation = "no_gap"
            BY <3>3, <3>4 DEF IInv, RowsOK
          <5> QED BY <5>1, <5>2, <5>3
        <4> QED BY <4>1, <4>2
      <3>6. new \in Row BY <3>2, <3>3, <3>4, <3>5 DEF Row, Implementation
      <3>7. Legal("altering", row[s], new) BY <3>2, <3>3, <3>4, <3>5 DEF Legal
      <3> QED BY <3>1, <3>6, <3>7
    <2> QED BY <1>1, <2>1, <2>2
  <1> QED BY <1>1, <1>3, LockRow

\* The second half: the PostgreSQL sequence counts by the new increment from where it is.
LEMMA AlterStep == ASSUME SequencesAssumption, IInv, NEW r \in Request, Alter(r) PROVE IInv'
  <1>1. /\ pc[r] = "altering" /\ altered[r] # None
        /\ pc' = [pc EXCEPT ![r] = "altered"]
        /\ UNCHANGED <<row, lock, view, missed, altered, drawn, tries>>
    BY DEF Alter, IInv, TypeOK
  <1>2. r \in Admin BY <1>1 DEF IInv, DrawersOK
  <1>3. PICK s \in Sequence : s = altered[r] BY <1>1 DEF IInv, TypeOK
  <1>4. /\ row[s] \in Row /\ view[r][s] \in Row /\ pgseq[s] \in PgSeq
        /\ Legal("altering", row[s], view[r][s])
    <2>1. row[s] \in Row /\ view[r][s] \in Row /\ pgseq[s] \in PgSeq BY DEF IInv, TypeOK
    <2>2. Legal(pc[r], row[s], view[r][s]) BY <1>2, <1>3 DEF IInv, AdminsOK
    <2> QED BY <1>1, <2>1, <2>2
  <1>5. ~ZeroIncrement(row[s], view[r][s]) BY <1>3 DEF Alter
  <1>6. view[r][s].number_increment > 0 /\ view[r][s].number_increment \in Int
    BY <1>4, <1>5 DEF Legal, ZeroIncrement, Row
  <1>7. Legal("altered", row[s], view[r][s]) BY <1>4, <1>6 DEF Legal
  <1>8. PICK q \in PgSeq : /\ pgseq' = [pgseq EXCEPT ![s] = q]
                           /\ q.exists = pgseq[s].exists /\ q.increment > 0
                           /\ q.last_value = pgseq[s].last_value
                           /\ q.is_called = pgseq[s].is_called
    <2>1. CASE row[s].implementation = "standard" /\ view[r][s].implementation = "standard"
      <3> DEFINE q == [pgseq[s] EXCEPT !.increment = view[r][s].number_increment]
      <3>1. ~Restarts(row[s], view[r][s]) BY <1>4 DEF Restarts, Legal
      <3>2. pgseq' = [pgseq EXCEPT ![s] = q] BY <1>3, <2>1, <3>1 DEF Alter, Altered
      <3>3. /\ q \in PgSeq /\ q.exists = pgseq[s].exists /\ q.increment > 0
            /\ q.last_value = pgseq[s].last_value /\ q.is_called = pgseq[s].is_called
        BY <1>4, <1>6 DEF PgSeq
      <3> HIDE DEF q
      <3> QED BY <3>2, <3>3
    <2>2. CASE ~(row[s].implementation = "standard" /\ view[r][s].implementation = "standard")
      <3>1. pgseq' = pgseq BY <1>3, <2>2 DEF Alter
      <3>2. pgseq' = [pgseq EXCEPT ![s] = pgseq[s]] BY <3>1 DEF IInv, TypeOK
      <3> QED BY <1>4, <3>2 DEF IInv, RowsOK
    <2> QED BY <2>1, <2>2
  <1>9. pc'[r] = "altered" /\ \A b \in Request \ {r} : pc'[b] = pc[b]
    BY <1>1 DEF IInv, TypeOK
  <1>10. \A b \in Request : Open(b)' <=> Open(b) BY <1>1, <1>9 DEF Open
  <1>11. \A t \in Sequence : /\ pgseq'[t].exists = pgseq[t].exists /\ pgseq'[t].increment > 0
                             /\ pgseq'[t].last_value = pgseq[t].last_value
                             /\ pgseq'[t].is_called = pgseq[t].is_called
    BY <1>8 DEF IInv, TypeOK, RowsOK
  <1>12. TypeOK'
    <2>1. pgseq' \in [Sequence -> PgSeq] BY <1>8 DEF IInv, TypeOK
    <2>2. pc' \in [Request -> {"called", "open", "altering", "altered", "done", "failed"}]
      BY <1>1 DEF IInv, TypeOK
    <2> QED BY <1>1, <1>9, <1>10, <2>1, <2>2 DEF IInv, TypeOK
  <1>13. RowsOK' BY <1>1, <1>11 DEF IInv, RowsOK
  <1>14. ViewsOK' BY <1>1, <1>10 DEF IInv, ViewsOK
  <1>15. DrawersOK' BY <1>1 DEF IInv, DrawersOK, Leads, Abstract!Chained, Nums
  <1>16. AdminsOK'
    <2> SUFFICES ASSUME NEW b \in Admin
                 PROVE  \A t \in Sequence : altered[b] = t => Legal(pc'[b], row[t], view[b][t])
      BY <1>1 DEF IInv, AdminsOK, Legal
    <2>1. CASE b = r BY <1>3, <1>7, <1>9, <2>1
    <2>2. CASE b # r
      <3>1. pc'[b] = pc[b] BY <1>9, <2>2 DEF SequencesAssumption
      <3> QED BY <3>1 DEF IInv, AdminsOK
    <2> QED BY <2>1, <2>2
  <1>17. NumbersOK'
    <2> SUFFICES ASSUME NEW b \in Request, NEW k \in DOMAIN drawn[b]
                 PROVE  LET t == drawn[b][k].seq  m == drawn[b][k].num IN
                        /\ row[t].implementation = "no_gap" =>
                              IF pc'[b] = "done" THEN m < row[t].number_next ELSE lock[t] = b
                        /\ row[t].implementation = "standard" => Below(pgseq'[t], m)
      BY <1>1 DEF NumbersOK, Below
    <2>1. drawn[b][k].seq \in Sequence BY DrawnType
    <2>2. pc'[b] = "done" <=> pc[b] = "done" BY <1>1, <1>9
    <2> QED BY <1>11, <2>1, <2>2 DEF IInv, NumbersOK, Below
  <1>18. UniqueNumbers' BY <1>1 DEF IInv, UniqueNumbers
  <1> QED BY <1>12, <1>13, <1>14, <1>15, <1>16, <1>17, <1>18 DEF IInv

\* What a commit makes of a row: a drawer's gapless row moves on, an administrator's
\* row changes legally, and the others stay as they are, as does their PostgreSQL sequence.
LEMMA CommittedRow ==
  ASSUME SequencesAssumption, IInv, NEW r \in Request, Commit(r), NEW s \in Sequence
  PROVE  /\ row[s] \in Row /\ row'[s] \in Row
         /\ \/ lock[s] # r /\ row'[s] = row[s] /\ pgseq'[s] = pgseq[s]
            \/ /\ r \in Request \ Admin /\ lock[s] = r /\ pgseq'[s] = pgseq[s]
               /\ row'[s] = view[r][s]
               /\ Leads(Nums(r, s), row[s], row'[s])
            \/ /\ r \in Admin /\ lock[s] = r /\ Legal("altered", row[s], row'[s])
               /\ pgseq'[s] = PgSeqAfterCommit(pgseq[s], row[s], row'[s])
  <1>1. /\ row[s] \in Row /\ view[r][s] \in Row /\ pgseq[s] \in PgSeq
        /\ row'[s] = IF lock[s] = r THEN view[r][s] ELSE row[s]
        /\ pgseq'[s] = IF s = altered[r] THEN PgSeqAfterCommit(pgseq[s], row[s], view[r][s])
                       ELSE pgseq[s]
    BY DEF Commit, IInv, TypeOK
  <1>2. row'[s] \in Row BY <1>1
  <1>3. CASE r \in Admin /\ lock[s] = r
    <2>1. altered[r] = s BY <1>3 DEF IInv, AdminsOK
    <2>2. pc[r] = "altered"
      <3>1. altered[r] # None BY <2>1 DEF SequencesAssumption
      <3> QED BY <3>1 DEF Commit, IInv, TypeOK
    <2>3. Legal(pc[r], row[s], view[r][s]) BY <1>3, <2>1 DEF IInv, AdminsOK
    <2> QED BY <1>1, <1>2, <1>3, <2>1, <2>2, <2>3
  <1>4. CASE r \in Admin /\ lock[s] # r
    <2>1. altered[r] # s BY <1>4 DEF IInv, AdminsOK
    <2> QED BY <1>1, <1>4, <2>1
  <1>5. CASE r \notin Admin
    <2>1. altered[r] # s BY <1>5 DEF IInv, DrawersOK, SequencesAssumption
    <2>2. CASE lock[s] = r
      <3>1. Leads(Nums(r, s), row[s], view[r][s]) BY <1>5, <2>2 DEF IInv, DrawersOK
      <3> QED BY <1>1, <1>2, <1>5, <2>1, <2>2, <3>1
    <2> QED BY <1>1, <1>5, <2>1, <2>2
  <1> QED BY <1>3, <1>4, <1>5

\* A gapless row that is advanced stays gapless and leaves the numbers behind.
LEMMA LeadsFacts ==
  ASSUME NEW ns, NEW old \in Row, NEW new \in Row, Leads(ns, old, new)
  PROVE  /\ old.implementation = "no_gap" /\ new.implementation = "no_gap"
         /\ new.number_increment = old.number_increment
         /\ old.number_next <= new.number_next
         /\ \A n \in ns : n < new.number_next
  BY DEF Leads, Abstract!Chained, Row

LEMMA CommitStep ==
  ASSUME SequencesAssumption, IInv, NEW r \in Request, Commit(r)
  PROVE  IInv'
  <1>1. /\ pc[r] \in {"open", "altered"} /\ pc' = [pc EXCEPT ![r] = "done"]
        /\ lock' = Unlocked(r)
        /\ view' = [view EXCEPT ![r] = Initial]
        /\ altered' = [altered EXCEPT ![r] = None]
        /\ UNCHANGED <<drawn, tries>>
    BY DEF Commit
  <1>2. \A s \in Sequence : lock'[s] # r /\ (\A b \in Request \ {r} : lock'[s] = b <=> lock[s] = b)
    BY <1>1 DEF Unlocked, SequencesAssumption
  <1>3. \A b \in Request \ {r} : pc'[b] = pc[b] /\ view'[b] = view[b] /\ altered'[b] = altered[b]
    BY <1>1 DEF IInv, TypeOK
  <1>4. pc'[r] = "done" /\ altered'[r] = None /\ ~Open(r)' BY <1>1 DEF IInv, TypeOK, Open
  <1>5. \A s \in Sequence : row[s] \in Row /\ row'[s] \in Row BY CommittedRow
  <1>6. TypeOK'
    <2>1. row' \in [Sequence -> Row] BY <1>5 DEF Commit
    <2>2. pgseq' \in [Sequence -> PgSeq]
      <3>1. \A s \in Sequence : PgSeqAfterCommit(pgseq[s], row[s], view[r][s]) \in PgSeq
        BY DEF PgSeqAfterCommit, Dropped, Created, PgSeq, Row, IInv, TypeOK
      <3> QED BY <3>1 DEF Commit, IInv, TypeOK
    <2>3. lock' \in [Sequence -> Request \cup {None}] BY <1>1 DEF Unlocked, IInv, TypeOK
    <2>4. view' \in [Request -> [Sequence -> Row]]
      <3>1. Initial \in [Sequence -> Row] BY DEF SequencesAssumption, Row, Implementation
      <3> QED BY <1>1, <3>1 DEF IInv, TypeOK
    <2>5. missed' \in [Request -> SUBSET Sequence] BY DEF Commit, IInv, TypeOK
    <2>6. pc' \in [Request -> {"called", "open", "altering", "altered", "done", "failed"}]
      BY <1>1 DEF IInv, TypeOK
    <2>7. altered' \in [Request -> Sequence \cup {None}] BY <1>1 DEF IInv, TypeOK
    <2>8. ASSUME NEW b \in Request
          PROVE  /\ pc'[b] \in {"altering", "altered"} <=> altered'[b] # None
                 /\ pc'[b] \in {"called", "failed"} => drawn[b] = <<>>
                 /\ \A s \in Sequence : lock'[s] = b => Open(b)'
      <3>1. CASE b = r BY <1>2, <1>3, <1>4, <3>1, RequestType DEF Open
      <3>2. CASE b # r BY <1>2, <1>3, <1>4, <3>2, RequestType DEF Open
      <3> QED BY <3>1, <3>2
    <2> QED BY <1>1, <2>1, <2>2, <2>3, <2>4, <2>5, <2>6, <2>7, <2>8 DEF IInv, TypeOK
  <1>7. RowsOK'
    <2> SUFFICES ASSUME NEW s \in Sequence
                 PROVE  /\ row'[s].number_increment > 0
                        /\ pgseq'[s].increment > 0
                        /\ pgseq'[s].exists => row'[s].implementation = "standard"
                        /\ row'[s].implementation = "no_gap" => Initial[s].implementation = "no_gap"
      BY DEF RowsOK
    <2>1. CASE row'[s] = row[s] /\ pgseq'[s] = pgseq[s] BY <2>1 DEF IInv, RowsOK
    <2>2. CASE Leads(Nums(r, s), row[s], row'[s]) /\ pgseq'[s] = pgseq[s]
      <3>1. /\ row[s].implementation = "no_gap" /\ row'[s].implementation = "no_gap"
            /\ row'[s].number_increment = row[s].number_increment
        <4>1. PICK old \in Row : old = row[s] BY <1>5
        <4>2. PICK new \in Row : new = row'[s] BY <1>5
        <4>3. PICK ns : ns = Nums(r, s) OBVIOUS
        <4>4. Leads(ns, old, new) BY <2>2, <4>1, <4>2, <4>3
        <4>5. /\ old.implementation = "no_gap" /\ new.implementation = "no_gap"
              /\ new.number_increment = old.number_increment
              /\ old.number_next <= new.number_next
              /\ \A m \in ns : m < new.number_next
          BY ONLY <4>4, LeadsFacts
        <4> QED BY <4>1, <4>2, <4>3, <4>5
      <3> QED BY <2>2, <3>1 DEF IInv, RowsOK
    <2>3. CASE /\ Legal("altered", row[s], row'[s])
               /\ pgseq'[s] = PgSeqAfterCommit(pgseq[s], row[s], row'[s])
      BY <1>5, <2>3 DEF Legal, PgSeqAfterCommit, Dropped, Created, Row, IInv, RowsOK
    <2> QED BY <2>1, <2>2, <2>3, CommittedRow
  <1>8. ViewsOK'
    <2> SUFFICES ASSUME NEW b \in Request, NEW s \in Sequence, Open(b)'
                 PROVE  /\ lock'[s] # b /\ s \notin missed'[b] => view'[b][s] = row'[s]
                        /\ lock'[s] = b => s \notin missed'[b]
      BY DEF ViewsOK
    <2>1. b # r /\ Open(b) BY <1>3, <1>4 DEF Open
    <2>2. missed'[b] = missed[b] \cup {t \in Sequence : lock[t] = r} BY <2>1 DEF Commit
    <2>3. lock[s] # r => row'[s] = row[s] BY DEF Commit
    <2> QED BY <1>2, <1>3, <2>1, <2>2, <2>3 DEF IInv, ViewsOK
  <1>9. DrawersOK'
    <2>1. \A b \in Request, s \in Sequence : Nums(b, s)' = Nums(b, s) BY <1>1 DEF Nums
    <2>2. \A b \in Request \ Admin : altered'[b] = None BY <1>3, <1>4 DEF IInv, DrawersOK
    <2>3. ASSUME NEW b \in Request \ Admin, NEW s \in Sequence, lock'[s] = b
          PROVE  Leads(Nums(b, s)', row'[s], view'[b][s])
      <3>1. b # r /\ lock[s] = b BY <1>2, <2>3
      <3>2. row'[s] = row[s] /\ view'[b][s] = view[b][s] BY <1>3, <3>1 DEF Commit
      <3> QED BY <2>1, <3>1, <3>2 DEF IInv, DrawersOK
    <2> QED BY <2>2, <2>3 DEF DrawersOK, Leads, Abstract!Chained
  <1>10. AdminsOK'
    <2> SUFFICES ASSUME NEW b \in Admin
                 PROVE  /\ drawn[b] = <<>>
                        /\ \A s \in Sequence : lock'[s] = b <=> altered'[b] = s
                        /\ \A s \in Sequence :
                              altered'[b] = s => Legal(pc'[b], row'[s], view'[b][s])
      BY <1>1 DEF AdminsOK, Legal
    <2>1. b \in Request BY DEF SequencesAssumption
    <2>2. CASE b = r BY <1>2, <1>4, <2>2 DEF IInv, AdminsOK, SequencesAssumption
    <2>3. CASE b # r
      <3>1. /\ pc'[b] = pc[b] /\ view'[b] = view[b] /\ altered'[b] = altered[b]
            /\ \A s \in Sequence : lock'[s] = b <=> lock[s] = b
        BY <1>2, <1>3, <2>1, <2>3
      <3>2. \A s \in Sequence : lock[s] = b => row'[s] = row[s] BY <2>3 DEF Commit
      <3> QED BY <3>1, <3>2 DEF IInv, AdminsOK
    <2> QED BY <2>2, <2>3
  <1>11. NumbersOK'
    <2> SUFFICES ASSUME NEW b \in Request, NEW k \in DOMAIN drawn[b]
                 PROVE  LET s == drawn[b][k].seq  n == drawn[b][k].num IN
                        /\ row'[s].implementation = "no_gap" =>
                              IF pc'[b] = "done" THEN n < row'[s].number_next ELSE lock'[s] = b
                        /\ row'[s].implementation = "standard" => Below(pgseq'[s], n)
      BY <1>1 DEF NumbersOK, Below
    <2>1. PICK s \in Sequence : s = drawn[b][k].seq BY DrawnType
    <2>2. PICK n \in Int : n = drawn[b][k].num BY DrawnType
    <2>3. /\ row[s].implementation = "no_gap" =>
                IF pc[b] = "done" THEN n < row[s].number_next ELSE lock[s] = b
          /\ row[s].implementation = "standard" => Below(pgseq[s], n)
      BY <2>1, <2>2 DEF IInv, NumbersOK
    <2>4. n \in Nums(b, s) BY <2>1, <2>2 DEF Nums
    <2> SUFFICES /\ row'[s].implementation = "no_gap" =>
                       IF pc'[b] = "done" THEN n < row'[s].number_next ELSE lock'[s] = b
                 /\ row'[s].implementation = "standard" => Below(pgseq'[s], n)
      BY <2>1, <2>2
    <2>5. CASE lock[s] # r /\ row'[s] = row[s] /\ pgseq'[s] = pgseq[s]
      <3>1. row[s].implementation = "no_gap" /\ b = r => FALSE BY <1>1, <2>3, <2>5
      <3>2. b # r => pc'[b] = pc[b] /\ (lock'[s] = b <=> lock[s] = b) BY <1>2, <1>3
      <3> QED BY <2>3, <2>5, <3>1, <3>2 DEF Below
    <2>6. CASE /\ r \in Request \ Admin /\ lock[s] = r /\ pgseq'[s] = pgseq[s]
               /\ Leads(Nums(r, s), row[s], row'[s])
      <3>1. /\ row[s].implementation = "no_gap" /\ row'[s].implementation = "no_gap"
            /\ row[s].number_next <= row'[s].number_next
            /\ \A m \in Nums(r, s) : m < row'[s].number_next
        <4>1. PICK old \in Row : old = row[s] BY <1>5
        <4>2. PICK new \in Row : new = row'[s] BY <1>5
        <4>3. PICK ns : ns = Nums(r, s) OBVIOUS
        <4>4. Leads(ns, old, new) BY <2>6, <4>1, <4>2, <4>3
        <4>5. /\ old.implementation = "no_gap" /\ new.implementation = "no_gap"
              /\ new.number_increment = old.number_increment
              /\ old.number_next <= new.number_next
              /\ \A m \in ns : m < new.number_next
          BY ONLY <4>4, LeadsFacts
        <4> QED BY <4>1, <4>2, <4>3, <4>5
      <3>2. row[s].number_next \in Int /\ row'[s].number_next \in Int BY <1>5 DEF Row
      <3>3. CASE b = r BY <1>4, <2>4, <3>1, <3>3
      <3>4. CASE b # r
        <4>1. pc[b] = "done" /\ pc'[b] = "done" BY <1>3, <2>3, <2>6, <3>1, <3>4
        <4> QED BY <2>3, <3>1, <3>2, <4>1
      <3> QED BY <3>3, <3>4
    <2>7. CASE /\ r \in Admin /\ lock[s] = r /\ Legal("altered", row[s], row'[s])
               /\ pgseq'[s] = PgSeqAfterCommit(pgseq[s], row[s], row'[s])
      <3>1. b # r
        <4>1. DOMAIN <<>> = {} OBVIOUS
        <4> QED BY <2>7, <4>1 DEF IInv, AdminsOK
      <3>2. row[s].implementation = "no_gap" => pc[b] = "done" /\ n < row[s].number_next
        BY <2>3, <2>7, <3>1
      <3>3. row'[s].number_next = row[s].number_next BY <2>7 DEF Legal
      <3>4. row'[s].implementation = "no_gap" => row[s].implementation = "no_gap"
        BY <2>7 DEF Legal
      <3>5. pc'[b] = pc[b] BY <1>3, <3>1
      <3>6. row'[s].implementation = "standard" => Below(pgseq'[s], n)
        <4> SUFFICES ASSUME row'[s].implementation = "standard" PROVE Below(pgseq'[s], n)
          OBVIOUS
        <4>1. CASE row[s].implementation = "standard"
          BY <2>3, <2>7, <4>1 DEF PgSeqAfterCommit
        <4>2. CASE row[s].implementation = "no_gap"
          BY <2>7, <3>2, <3>3, <4>2 DEF PgSeqAfterCommit, Below, Created
        <4> QED BY <1>5, <2>7, <4>1, <4>2 DEF Legal, Row, Implementation
      <3> QED BY <3>2, <3>3, <3>4, <3>5, <3>6
    <2> QED BY <2>5, <2>6, <2>7, CommittedRow
  <1>12. UniqueNumbers' BY <1>1 DEF IInv, UniqueNumbers
  <1> QED BY <1>6, <1>7, <1>8, <1>9, <1>10, <1>11, <1>12 DEF IInv

LEMMA RetryStep ==
  ASSUME SequencesAssumption, IInv, NEW r \in Request, Retry(r) \/ Fail(r)
  PROVE  IInv'
  <1>1. Rollback(r) /\ UNCHANGED <<row, pgseq>> BY DEF Retry, Fail
  <1>2. pc' = [pc EXCEPT ![r] = "called"] \/ pc' = [pc EXCEPT ![r] = "failed"]
    BY DEF Retry, Fail
  <1>3. tries' \in [Request -> Nat]
    <2>1. tries \in [Request -> Nat] BY DEF IInv, TypeOK
    <2>2. tries' = tries \/ tries' = [tries EXCEPT ![r] = tries[r] + 1]
      BY DEF Retry, Fail, Tried
    <2> QED BY <2>1, <2>2
  <1> QED BY <1>1, <1>2, <1>3, RollbackStep

LEMMA NextIInv == ASSUME SequencesAssumption, Forward, IInv, [Next]_vars PROVE IInv'
  <1>1. ASSUME NEW r \in Request, Step(r) PROVE IInv'
    <2>1. CASE Begin(r) BY <2>1, BeginStep
    <2>2. ASSUME NEW s \in Sequence, DrawStandard(r, s) PROVE IInv' BY <2>2, DrawStandardStep
    <2>3. ASSUME NEW s \in Sequence, DrawNoGap(r, s) PROVE IInv' BY <2>3, DrawNoGapStep
    <2>4. ASSUME NEW s \in Sequence, Write(r, s) \/ Unlink(r, s) PROVE IInv' BY <2>4, WriteStep
    <2>5. ASSUME NEW s \in Sequence, DrawDropped(r, s) \/ DrawConflict(r, s) \/ WriteConflict(r, s)
          PROVE  IInv'
      BY <2>5, RetryStep DEF DrawDropped, DrawConflict, WriteConflict
    <2>6. CASE Collide(r) \/ Raise(r) \/ AlterRefused(r)
      BY <2>6, RetryStep DEF Collide, Raise, AlterRefused
    <2>7. CASE Alter(r) BY <2>7, AlterStep
    <2>8. CASE Commit(r) BY <2>8, CommitStep
    <2> QED BY <1>1, <2>1, <2>2, <2>3, <2>4, <2>5, <2>6, <2>7, <2>8 DEF Step
  <1>2. CASE UNCHANGED vars
    <2>1. TypeOK' BY <1>2 DEF vars, IInv, TypeOK, Open
    <2>2. RowsOK' BY <1>2 DEF vars, IInv, RowsOK
    <2>3. ViewsOK' BY <1>2 DEF vars, IInv, ViewsOK, Open
    <2>4. DrawersOK' BY <1>2 DEF vars, IInv, DrawersOK, Leads, Abstract!Chained, Nums
    <2>5. AdminsOK' BY <1>2 DEF vars, IInv, AdminsOK, Legal
    <2>6. NumbersOK' BY <1>2 DEF vars, IInv, NumbersOK, Below
    <2>7. UniqueNumbers' BY <1>2 DEF vars, IInv, UniqueNumbers
    <2> QED BY <2>1, <2>2, <2>3, <2>4, <2>5, <2>6, <2>7 DEF IInv
  <1> QED BY <1>1, <1>2 DEF Next

\* The invariant of the sequences, for any requests, sequences, retries and numbers drawn.
THEOREM Invariance == ASSUME Forward PROVE Spec => []IInv
  <1>1. Init => IInv BY InitIInv, SequencesAssumption
  <1>2. IInv /\ [Next]_vars => IInv' BY NextIInv, SequencesAssumption
  <1> QED BY <1>1, <1>2, PTL DEF Spec

\* Rows, PostgreSQL sequences, locks and transactions keep their types.
THEOREM TypeCorrect == ASSUME Forward PROVE Spec => []TypeOK
  <1>1. IInv => TypeOK BY DEF IInv
  <1> QED BY <1>1, Invariance, PTL

\* _next never gives a number twice, whatever the requests and their retries, as long as
\* nobody sets number_next back or makes a standard sequence gapless.
THEOREM Unique == ASSUME Forward PROVE Spec => []UniqueNumbers
  <1>1. IInv => UniqueNumbers BY DEF IInv
  <1> QED BY <1>1, Invariance, PTL

-----------------------------------------------------------------------------
\* The committed documents stay when nobody else is done and the numbers of those who are stay.
LEMMA SameCommitted ==
  ASSUME \A b \in Request : pc'[b] = "done" <=> pc[b] = "done",
         \A b \in Request : pc[b] = "done" => drawn'[b] = drawn[b]
  PROVE  Committed' = Committed
  <1>1. {q \in Request : pc'[q] = "done"} = {q \in Request : pc[q] = "done"} OBVIOUS
  <1>2. \A q \in {b \in Request : pc[b] = "done"} : DocumentsOf(q)' = DocumentsOf(q)
    BY DEF DocumentsOf
  <1> QED BY <1>1, <1>2 DEF Committed

LEMMA RollbackSame ==
  ASSUME IInv, NEW r \in Request, pc[r] # "done", Retry(r) \/ Fail(r)
  PROVE  Committed' = Committed
  <1>1. \A b \in Request : pc'[b] = "done" <=> pc[b] = "done"
    BY DEF Retry, Fail, IInv, TypeOK
  <1>2. \A b \in Request \ {r} : drawn'[b] = drawn[b] BY DEF Retry, Fail, Rollback, IInv, TypeOK
  <1> QED BY <1>1, <1>2, SameCommitted

\* A commit adds the documents of the request.
LEMMA CommitAdds ==
  ASSUME IInv, NEW r \in Request, Commit(r)
  PROVE  /\ Committed' = Committed \cup DocumentsOf(r)
         /\ \A d \in DocumentsOf(r) : d \notin Committed
  <1>1. drawn' = drawn /\ pc[r] # "done" BY DEF Commit
  <1>2. \A b \in Request : DocumentsOf(b)' = DocumentsOf(b) BY <1>1 DEF DocumentsOf
  <1>3. {q \in Request : pc'[q] = "done"} = {q \in Request : pc[q] = "done"} \cup {r}
    BY DEF Commit, IInv, TypeOK
  <1>4. Committed' = Committed \cup DocumentsOf(r)
    <2>1. \A d : d \in Committed' <=> \E q \in Request : pc'[q] = "done" /\ d \in DocumentsOf(q)'
      BY DEF Committed
    <2>2. \A d : d \in Committed <=> \E q \in Request : pc[q] = "done" /\ d \in DocumentsOf(q)
      BY DEF Committed
    <2>3. \A q \in Request : pc'[q] = "done" <=> pc[q] = "done" \/ q = r BY <1>3
    <2>4. \A d : d \in Committed' <=> d \in Committed \cup DocumentsOf(r)
      BY <1>2, <2>1, <2>2, <2>3
    <2> QED BY <2>4
  <1>5. ASSUME NEW d \in DocumentsOf(r), d \in Committed PROVE FALSE
    <2>1. PICK q \in Request : pc[q] = "done" /\ d \in DocumentsOf(q) BY <1>5 DEF Committed
    <2>2. d.doc[1] = r /\ d.doc[1] = q BY <2>1 DEF DocumentsOf
    <2> QED BY <1>1, <2>1, <2>2
  <1> QED BY <1>4, <1>5

\* The numbers of committed documents are among the drawn ones, hence unique.
LEMMA CommittedUnique == ASSUME IInv' PROVE Abstract!NumbersUnique(Committed')
  <1> SUFFICES ASSUME NEW d \in Committed', NEW e \in Committed', d.seq = e.seq, d.num = e.num
               PROVE  d = e
    BY DEF Abstract!NumbersUnique
  <1>1. PICK a \in Request : d \in DocumentsOf(a)' BY DEF Committed
  <1>2. PICK j \in DOMAIN drawn'[a] :
          d = [doc |-> <<a, j>>, seq |-> drawn'[a][j].seq, num |-> drawn'[a][j].num]
    BY <1>1 DEF DocumentsOf
  <1>3. PICK b \in Request : e \in DocumentsOf(b)' BY DEF Committed
  <1>4. PICK k \in DOMAIN drawn'[b] :
          e = [doc |-> <<b, k>>, seq |-> drawn'[b][k].seq, num |-> drawn'[b][k].num]
    BY <1>3 DEF DocumentsOf
  <1>5. drawn'[a][j].seq = drawn'[b][k].seq /\ drawn'[a][j].num = drawn'[b][k].num
    BY <1>2, <1>4
  <1>6. drawn'[a][j] = drawn'[b][k]
    <2> DEFINE Number == [seq: Sequence, num: Int]
    <2>1. drawn'[a] \in Seq(Number) /\ drawn'[b] \in Seq(Number) BY DEF IInv, TypeOK
    <2> HIDE DEF Number
    <2>2. drawn'[a][j] \in Number /\ drawn'[b][k] \in Number BY <2>1
    <2> QED BY <1>5, <2>2 DEF Number
  <1>7. a = b /\ j = k BY <1>6 DEF IInv, UniqueNumbers
  <1> QED BY <1>2, <1>4, <1>7

\* What a request drew from a gapless sequence is what its documents are numbered with.
LEMMA NewAreDrawn ==
  ASSUME IInv, NEW r \in Request, Commit(r), NEW s \in Sequence
  PROVE  Abstract!NewNumbers(s) = Nums(r, s)
  <1>1. Committed' \ Committed = DocumentsOf(r) BY CommitAdds
  <1>2. Abstract!NewNumbers(s) = {d.num : d \in {e \in DocumentsOf(r) : e.seq = s}}
    BY <1>1 DEF Abstract!NewNumbers
  <1>3. \A k \in DOMAIN drawn[r] : \E d \in DocumentsOf(r) :
          d.seq = drawn[r][k].seq /\ d.num = drawn[r][k].num
    <2> SUFFICES ASSUME NEW k \in DOMAIN drawn[r]
                 PROVE  \E d \in DocumentsOf(r) :
                          d.seq = drawn[r][k].seq /\ d.num = drawn[r][k].num
      OBVIOUS
    <2>1. [doc |-> <<r, k>>, seq |-> drawn[r][k].seq, num |-> drawn[r][k].num]
            \in DocumentsOf(r)
      BY DEF DocumentsOf
    <2> QED BY <2>1
  <1>4. \A d \in DocumentsOf(r) : \E k \in DOMAIN drawn[r] :
          d.seq = drawn[r][k].seq /\ d.num = drawn[r][k].num
    BY DEF DocumentsOf
  <1>5. \A n : n \in {d.num : d \in {e \in DocumentsOf(r) : e.seq = s}} <=> n \in Nums(r, s)
    <2>1. \A n : n \in Nums(r, s) <=>
            \E k \in DOMAIN drawn[r] : drawn[r][k].seq = s /\ drawn[r][k].num = n
      BY DEF Nums
    <2>2. \A n : n \in {d.num : d \in {e \in DocumentsOf(r) : e.seq = s}} <=>
            \E d \in DocumentsOf(r) : d.seq = s /\ d.num = n
      OBVIOUS
    <2>3. \A n : (\E d \in DocumentsOf(r) : d.seq = s /\ d.num = n) <=>
            \E k \in DOMAIN drawn[r] : drawn[r][k].seq = s /\ drawn[r][k].num = n
      BY <1>3, <1>4
    <2> QED BY <2>1, <2>2, <2>3
  <1> QED BY <1>2, <1>5

LEMMA CommitIssues ==
  ASSUME SequencesAssumption, IInv, IInv', NEW r \in Request \ Admin, Commit(r)
  PROVE  Abstract!Issue
  <1>1. Committed \subseteq Committed' BY CommitAdds
  <1>2. Abstract!NumbersUnique(Committed') BY CommittedUnique
  <1> SUFFICES ASSUME NEW s \in Sequence
               PROVE  /\ row'[s] = [row[s] EXCEPT !.number_next = row'[s].number_next]
                      /\ row[s].implementation = "no_gap" =>
                            Abstract!Chained(Nums(r, s), row[s].number_next,
                                             row'[s].number_next, row[s].number_increment)
                      /\ row[s].implementation # "no_gap" => row'[s] = row[s]
    BY <1>1, <1>2, NewAreDrawn DEF Abstract!Issue
  <1>3. row[s] \in Row /\ row'[s] \in Row BY CommittedRow
  <1>4. CASE lock[s] # r /\ row'[s] = row[s]
    <2>1. pc[r] # "done" BY DEF Commit
    <2>2. row[s].implementation = "no_gap" => Nums(r, s) = {}
      BY <1>4, <2>1 DEF IInv, NumbersOK, Nums
    <2>3. row[s].number_next \in Int BY <1>3 DEF Row
    <2>4. Abstract!Chained({}, row[s].number_next, row[s].number_next, row[s].number_increment)
      BY DEF Abstract!Chained
    <2> QED BY <1>3, <1>4, <2>2, <2>4 DEF Row
  <1>5. CASE Leads(Nums(r, s), row[s], row'[s]) BY <1>5 DEF Leads
  <1> QED BY <1>4, <1>5, CommittedRow

LEMMA StepSimulates ==
  ASSUME SequencesAssumption, Forward, IInv, IInv', [Next]_vars
  PROVE  [Abstract!Next]_<<Committed, row>>
  <1> USE DEF Abstract!Next, Abstract!Reconfigure
  <1>1. ASSUME NEW r \in Request, Step(r) PROVE Committed' = Committed \/ Abstract!Issue
    <2>1. CASE UNCHANGED drawn /\ \A b \in Request : pc'[b] = "done" <=> pc[b] = "done"
      BY <2>1, SameCommitted
    <2>2. CASE Begin(r) \/ Alter(r) \/ \E s \in Sequence : Write(r, s) \/ Unlink(r, s)
      <3>1. UNCHANGED drawn BY <2>2 DEF Begin, Alter, Write, Unlink
      <3>2. \A b \in Request : pc'[b] = "done" <=> pc[b] = "done"
        <4>1. pc \in [Request -> {"called", "open", "altering", "altered", "done", "failed"}]
          BY DEF IInv, TypeOK
        <4>2. pc[r] # "done" BY <2>2 DEF Begin, Alter, Write, Unlink
        <4>3. \E p \in {"open", "altering", "altered"} : pc' = [pc EXCEPT ![r] = p]
          BY <2>2 DEF Begin, Alter, Write, Unlink
        <4> QED BY <4>1, <4>2, <4>3
      <3> QED BY <2>1, <3>1, <3>2
    <2>3. ASSUME NEW s \in Sequence, DrawStandard(r, s) \/ DrawNoGap(r, s)
          PROVE  Committed' = Committed
      <3>1. pc' = pc /\ pc[r] # "done" BY <2>3 DEF DrawStandard, DrawNoGap, CanDraw
      <3>2. \A b \in Request \ {r} : drawn'[b] = drawn[b]
        BY <2>3 DEF DrawStandard, DrawNoGap, TakeNumber, IInv, TypeOK
      <3> QED BY <3>1, <3>2, SameCommitted
    <2>4. ASSUME NEW s \in Sequence, DrawDropped(r, s) \/ DrawConflict(r, s) \/ WriteConflict(r, s)
          PROVE  Committed' = Committed
      BY <2>4, RollbackSame DEF DrawDropped, DrawConflict, WriteConflict, CanDraw
    <2>5. CASE Collide(r) \/ Raise(r) \/ AlterRefused(r)
      BY <2>5, RollbackSame DEF Collide, Raise, AlterRefused
    <2>6. CASE Commit(r)
      <3>1. CASE r \in Admin
        <4>1. DOMAIN <<>> = {} OBVIOUS
        <4>2. DOMAIN drawn[r] = {} BY <3>1, <4>1 DEF IInv, AdminsOK
        <4>3. DocumentsOf(r) = {} BY <4>2 DEF DocumentsOf
        <4> QED BY <2>6, <4>3, CommitAdds
      <3>2. CASE r \notin Admin BY <2>6, <3>2, CommitIssues
      <3> QED BY <3>1, <3>2
    <2> QED BY <1>1, <2>2, <2>3, <2>4, <2>5, <2>6 DEF Step
  <1>2. CASE UNCHANGED vars
    <2>1. Committed' = Committed BY <1>2 DEF vars, Committed, DocumentsOf
    <2> QED BY <1>2, <2>1 DEF vars
  <1> QED BY <1>1, <1>2 DEF Next

\* Requests with their locks, retries and rollbacks implement Numbering: committed documents
\* carry unique numbers, and those of a gapless sequence follow each other without a gap.
THEOREM Refines == ASSUME Forward PROVE Spec => IsNumbering
  <1>1. Init => Abstract!Init
    <2>1. Init => Committed = {} BY DEF Init, Committed
    <2> QED BY <2>1 DEF Init, Abstract!Init
  <1>2. IInv /\ IInv' /\ [Next]_vars => [Abstract!Next]_<<Committed, row>>
    BY StepSimulates, SequencesAssumption
  <1> QED BY <1>1, <1>2, Invariance, PTL DEF Spec, IsNumbering, Abstract!Spec
=============================================================================
