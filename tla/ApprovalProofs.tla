--------------------------- MODULE ApprovalProofs ---------------------------
(***************************************************************************)
(* Proofs about Approval and ApprovalMessage, for every set of documents,  *)
(* items, contents and users: the types, StateTracksRule and               *)
(* HashTracksContent; that reviews are lost only to a change, and not in   *)
(* silence; and that the overrides of via_approval_message implement       *)
(* Approval.                                                               *)
(***************************************************************************)
EXTENDS ApprovalMessage, FiniteSetTheorems, TLAPS

\* A row of the right type whose buttons were only shown for a standard item.
RowOK(a) ==
    /\ a \in Approval
    /\ a.state \in IF IsAuto(a) THEN AutoState ELSE StandardState
    /\ a.offered => ~IsAuto(a)

RowsOK(l) == l \in Seq(Approval) /\ \A i \in DOMAIN l : RowOK(l[i])

\* The row says what hash and, once it was evaluated, rule say of content c.
Settled(a, c) ==
    /\ a.evaluated =>
          /\ ~IsAuto(a) /\ a.state = "na" => ~Visible(a, c)
          /\ ~IsAuto(a) /\ a.state = "pending" => Visible(a, c)
          /\ a.state = "passed" => Visible(a, c)
          /\ a.state = "failed" => ~Visible(a, c)
    /\ ~IsAuto(a) /\ Visible(a, c) => a.hash = Hash[a.item][c]

ContentOK == content \in [Doc -> Content \cup {NoDoc, Deleted}]

StaleOK == stale \subseteq {d \in Doc : Exists(d)}

\* The rows l against the contents ct and the stale documents st: no row belongs
\* to a document that was never created (so a new document starts without rows),
\* and the rows of a document that is not stale are settled.
RowsGood(l, ct, st) ==
    /\ RowsOK(l)
    /\ \A i \in DOMAIN l :
          /\ ct[l[i].doc] # NoDoc
          /\ ct[l[i].doc] \in Content /\ l[i].doc \notin st => Settled(l[i], ct[l[i].doc])

\* The inductive invariant.
IInv == ContentOK /\ StaleOK /\ RowsGood(list, content, stale) /\ audit \subseteq AuditRow

-----------------------------------------------------------------------------
(* Facts about the pure operators *)

\* Re-evaluating a row keeps its type, its document and its item, and settles it.
LEMMA ReevaluateRow ==
    ASSUME NEW a, RowOK(a), NEW c \in Content
    PROVE  /\ RowOK(Reevaluate(a, c))
           /\ Settled(Reevaluate(a, c), c)
           /\ Reevaluate(a, c).doc = a.doc
<1> DEFINE r == Reevaluate(a, c)
           s == ReevaluatedState(a, c)
<1>1. a \in Approval /\ a.item \in Item
    BY DEF RowOK, Approval
<1>2. Hash[a.item][c] \in HashVal
    BY <1>1, ApprovalAssumption
<1>3. /\ r.doc = a.doc /\ r.item = a.item /\ r.offered = a.offered /\ r.approver = a.approver
      /\ r.state = s /\ r.hash = ReevaluatedHash(a, c)
    BY <1>1 DEF Reevaluate, Approval
<1>4. s \in IF IsAuto(a) THEN AutoState ELSE StandardState
    BY DEF ReevaluatedState, RowOK, AutoState, StandardState
<1>5. ReevaluatedHash(a, c) \in HashVal
    BY <1>1, <1>2 DEF ReevaluatedHash, Approval
<1>6. r \in Approval
    BY <1>1, <1>4, <1>5 DEF Reevaluate, Approval
<1>7. IsAuto(r) = IsAuto(a) /\ Visible(r, c) = Visible(a, c)
    BY <1>3 DEF IsAuto, Visible
<1>8. RowOK(r)
    BY <1>3, <1>4, <1>6, <1>7 DEF RowOK
<1>9. Settled(r, c)
    <2>1. CASE IsAuto(a)
        BY <2>1, <1>3, <1>7 DEF Settled, ReevaluatedState
    <2>2. CASE ~IsAuto(a)
        <3>1. a.state \in StandardState
            BY <2>2 DEF RowOK
        <3> QED
            BY <2>2, <3>1, <1>3, <1>7
            DEF Settled, ReevaluatedState, ReevaluatedHash, StandardState, Reviewed
    <2> QED BY <2>1, <2>2
<1> QED BY <1>3, <1>8, <1>9

\* write_obj settles every row of the document and leaves the others alone.
LEMMA WriteObjRows ==
    ASSUME NEW l, RowsOK(l), NEW d \in Doc, NEW c \in Content
    PROVE  /\ RowsOK(WriteObj(l, d, c))
           /\ DOMAIN WriteObj(l, d, c) = DOMAIN l
           /\ \A i \in DOMAIN l : /\ WriteObj(l, d, c)[i].doc = l[i].doc
                                  /\ l[i].doc = d => Settled(WriteObj(l, d, c)[i], c)
                                  /\ l[i].doc # d => WriteObj(l, d, c)[i] = l[i]
<1> DEFINE w == WriteObj(l, d, c)
<1>1. l \in Seq(Approval) /\ DOMAIN l = 1..Len(l) /\ Len(l) \in Nat
    BY DEF RowsOK
<1>2. DOMAIN w = DOMAIN l
    BY DEF WriteObj
<1>3. \A i \in DOMAIN l : /\ RowOK(w[i])
                          /\ w[i].doc = l[i].doc
                          /\ l[i].doc = d => Settled(w[i], c)
                          /\ l[i].doc # d => w[i] = l[i]
    BY ReevaluateRow DEF RowsOK, WriteObj
<1>4. w \in Seq(Approval)
    <2>1. w \in [1..Len(l) -> Approval]
        BY <1>1, <1>3 DEF WriteObj, RowOK
    <2> QED BY <2>1, <1>1
<1> QED BY <1>2, <1>3, <1>4 DEF RowsOK

LEMMA WriteAuditRows ==
    ASSUME NEW l, RowsOK(l), NEW d \in Doc, NEW c \in Content
    PROVE  WriteAudit(l, d, c) \subseteq AuditRow
<1>1. \A i \in DOMAIN l : i \in Nat /\ RowOK(l[i]) /\ RowOK(Reevaluate(l[i], c))
    BY ReevaluateRow DEF RowsOK
<1>2. \A i \in DOMAIN l : /\ l[i].state \in StandardState \cup AutoState
                          /\ ReevaluatedState(l[i], c) \in StandardState \cup AutoState
    BY <1>1 DEF RowOK, Approval, Reevaluate
<1> QED BY <1>1, <1>2 DEF WriteAudit, AuditRow, RowsOf

\* hook_validation leaves a row alone or makes it approved (a standard one) or ignored.
LEMMA AfterHookRows ==
    ASSUME NEW l, RowsOK(l), NEW u, NEW d, NEW h, NEW forced \in BOOLEAN
    PROVE  /\ RowsOK(AfterHook(l, u, d, h, forced))
           /\ DOMAIN AfterHook(l, u, d, h, forced) = DOMAIN l
           /\ \A i \in DOMAIN l :
                 /\ AfterHook(l, u, d, h, forced)[i].doc = l[i].doc
                 /\ \A c : Settled(l[i], c) => Settled(AfterHook(l, u, d, h, forced)[i], c)
<1> DEFINE w == AfterHook(l, u, d, h, forced)
<1>1. l \in Seq(Approval) /\ DOMAIN l = 1..Len(l) /\ Len(l) \in Nat
    BY DEF RowsOK
<1>2. DOMAIN w = DOMAIN l
    BY DEF AfterHook
<1>3. ASSUME NEW i \in DOMAIN l
      PROVE  /\ RowOK(w[i])
             /\ w[i].doc = l[i].doc
             /\ \A c : Settled(l[i], c) => Settled(w[i], c)
    <2>1. RowOK(l[i])
        BY DEF RowsOK
    <2>2. \/ w[i] = l[i]
          \/ w[i] = [l[i] EXCEPT !.state = "ignore"]
          \/ w[i] = [l[i] EXCEPT !.state = "approved"] /\ ~IsAuto(l[i])
        <3>1. \/ HookState(l, u, d, i, forced) = l[i].state
              \/ HookState(l, u, d, i, forced) = "ignore"
              \/ HookState(l, u, d, i, forced) = "approved" /\ ~IsAuto(l[i])
            BY DEF HookState, ForceToApprove
        <3>2. [l[i] EXCEPT !.state = l[i].state] = l[i]
            BY <2>1 DEF RowOK, Approval
        <3> QED BY <3>1, <3>2 DEF AfterHook
    <2>3. \A s : /\ [l[i] EXCEPT !.state = s].item = l[i].item
                 /\ [l[i] EXCEPT !.state = s].evaluated = l[i].evaluated
        BY <2>1 DEF RowOK, Approval
    <2> QED
        BY <2>1, <2>2, <2>3 DEF RowOK, Approval, IsAuto, Visible, Settled, AutoState, StandardState, Reviewed
<1>4. w \in Seq(Approval)
    <2>1. w \in [1..Len(l) -> Approval]
        BY <1>1, <1>2, <1>3 DEF AfterHook, RowOK
    <2> QED BY <2>1, <1>1
<1> QED BY <1>2, <1>3, <1>4 DEF RowsOK

\* A new row is settled for the content it was created with.
LEMMA NewApprovalRow ==
    ASSUME NEW d \in Doc, NEW it \in Item, NEW c \in Content
    PROVE  /\ RowOK(NewApproval(d, it, c))
           /\ NewApproval(d, it, c).doc = d
           /\ Settled(NewApproval(d, it, c), c)
<1>1. Hash[it][c] \in HashVal /\ ItemApprover[it] \in User \cup {NoUser}
    BY ApprovalAssumption
<1> QED
    BY <1>1 DEF NewApproval, RowOK, Approval, IsAuto, Visible, Settled, AutoState, StandardState, Reviewed

LEMMA SchemeRows ==
    ASSUME NEW d \in Doc, NEW c \in Content
    PROVE  /\ RowsOK(SchemeApprovals(d, c))
           /\ \A k \in DOMAIN SchemeApprovals(d, c) :
                 /\ SchemeApprovals(d, c)[k].doc = d
                 /\ Settled(SchemeApprovals(d, c)[k], c)
<1> DEFINE n == Scheme[d][c]
           w == SchemeApprovals(d, c)
<1>1. n \in Seq(Item)
    BY ApprovalAssumption
<1>2. DOMAIN w = 1..Len(n) /\ Len(n) \in Nat
    BY <1>1 DEF SchemeApprovals
<1>3. \A k \in 1..Len(n) : w[k] = NewApproval(d, n[k], c) /\ n[k] \in Item
    BY <1>1 DEF SchemeApprovals
<1>4. \A k \in 1..Len(n) : RowOK(w[k]) /\ w[k].doc = d /\ Settled(w[k], c)
    BY <1>3, NewApprovalRow
<1>5. w \in Seq(Approval)
    <2>1. w \in [1..Len(n) -> Approval]
        BY <1>2, <1>4 DEF SchemeApprovals, RowOK
    <2> QED BY <2>1, <1>2
<1> QED BY <1>2, <1>4, <1>5 DEF RowsOK

\* Copies of rows keep their state, and are filed under a document that exists, with
\* its hash; nothing says that their state suits it.
LEMMA CarriedRows ==
    ASSUME NEW l, RowsOK(l), NEW rows \in SUBSET DOMAIN l, NEW idx \in InOrder(rows), NEW d, NEW ct,
           \A i \in rows : Homes(d, l[i].doc, ct) # {}
    PROVE  /\ RowsOK(CarriedApprovals(l, idx, d, ct))
           /\ \A k \in DOMAIN CarriedApprovals(l, idx, d, ct) :
                 LET a == CarriedApprovals(l, idx, d, ct)[k]
                 IN  ct[a.doc] \in Content /\ Settled(a, ct[a.doc])
<1> DEFINE n == Cardinality(rows)
           w == CarriedApprovals(l, idx, d, ct)
           home(a) == CHOOSE h \in Homes(d, a.doc, ct) : TRUE
<1>1. n \in Nat
    <2>1. DOMAIN l = 1..Len(l) /\ Len(l) \in Nat
        BY DEF RowsOK
    <2>2. IsFiniteSet(1..Len(l))
        BY <2>1, FS_Interval
    <2>3. IsFiniteSet(rows)
        BY <2>1, <2>2, FS_Subset
    <2> QED BY <2>3, FS_CardinalityType
<1>2. idx \in [1..n -> rows]
    BY DEF InOrder
<1>3. DOMAIN w = 1..n
    BY <1>2 DEF CarriedApprovals
<1>4. ASSUME NEW a, RowOK(a), NEW h \in Doc, NEW c \in Content
      PROVE  LET b == CarriedApproval(a, h, c) IN RowOK(b) /\ b.doc = h /\ Settled(b, c)
    <2> DEFINE b == CarriedApproval(a, h, c)
    <2>1. a.item \in Item
        BY <1>4 DEF RowOK, Approval
    <2>2. RowOK(NewApproval(h, a.item, c))
        BY <2>1, NewApprovalRow
    <2>3. /\ b.item = a.item /\ b.state = a.state /\ b.doc = h /\ b.hash = Hash[a.item][c]
          /\ b.evaluated = FALSE
        BY DEF CarriedApproval, NewApproval
    <2>4. RowOK(b)
        BY <1>4, <2>1, <2>2 DEF CarriedApproval, NewApproval, RowOK, Approval, IsAuto
    <2> QED BY <2>3, <2>4 DEF Settled
<1>5. ASSUME NEW k \in 1..n
      PROVE  RowOK(w[k]) /\ ct[w[k].doc] \in Content /\ Settled(w[k], ct[w[k].doc])
    <2> DEFINE a == l[idx[k]]
               h == home(a)
    <2>1. idx[k] \in rows /\ RowOK(a)
        BY <1>2 DEF RowsOK
    <2>2. h \in Homes(d, a.doc, ct)
        BY <2>1
    <2>3. h \in Doc /\ ct[h] \in Content
        BY <2>2 DEF Homes
    <2>4. w[k] = CarriedApproval(a, h, ct[h])
        BY <1>2 DEF CarriedApprovals
    <2> QED BY <1>4, <2>1, <2>3, <2>4
<1>6. w \in Seq(Approval)
    <2>1. w \in [1..n -> Approval]
        BY <1>3, <1>5 DEF CarriedApprovals, RowOK
    <2> QED BY <2>1, <1>1
<1> QED BY <1>3, <1>5, <1>6 DEF RowsOK

LEMMA ListedRows ==
    ASSUME NEW src, NEW d, NEW rows \in ApprovalLists(src, d)
    PROVE  rows \in SUBSET DOMAIN list
BY DEF ApprovalLists, RowsOf, SameId

LEMMA ConcatRows ==
    ASSUME NEW l, RowsOK(l), NEW m, RowsOK(m)
    PROVE  /\ RowsOK(l \o m)
           /\ \A i \in DOMAIN (l \o m) :
                 \/ i \in DOMAIN l /\ (l \o m)[i] = l[i]
                 \/ i \notin DOMAIN l /\ i - Len(l) \in DOMAIN m /\ (l \o m)[i] = m[i - Len(l)]
<1>1. l \in Seq(Approval) /\ m \in Seq(Approval)
    BY DEF RowsOK
<1>2. l \o m \in Seq(Approval)
    BY <1>1
<1>3. \A i \in DOMAIN (l \o m) :
                 \/ i \in DOMAIN l /\ (l \o m)[i] = l[i]
                 \/ i \notin DOMAIN l /\ i - Len(l) \in DOMAIN m /\ (l \o m)[i] = m[i - Len(l)]
    BY <1>1
<1> QED BY <1>2, <1>3 DEF RowsOK

-----------------------------------------------------------------------------
(* RowsGood under the steps the requests are made of *)

LEMMA RowDoc == ASSUME NEW l, RowsOK(l), NEW i \in DOMAIN l PROVE l[i].doc \in Doc
BY DEF RowsOK, RowOK, Approval

\* A write of the document makes its rows good, whatever they were.
LEMMA GoodWrite ==
    ASSUME NEW l, RowsOK(l), NEW ct \in [Doc -> Content \cup {NoDoc, Deleted}], NEW st,
           NEW d \in Doc, NEW c \in Content,
           \A i \in DOMAIN l : l[i].doc # d =>
              /\ ct[l[i].doc] # NoDoc
              /\ ct[l[i].doc] \in Content /\ l[i].doc \notin st => Settled(l[i], ct[l[i].doc])
    PROVE  RowsGood(WriteObj(l, d, c), [ct EXCEPT ![d] = c], st \ {d})
<1> DEFINE w == WriteObj(l, d, c)
           ct2 == [ct EXCEPT ![d] = c]
<1>1. RowsOK(w) /\ DOMAIN w = DOMAIN l
    BY WriteObjRows
<1>2. ASSUME NEW i \in DOMAIN l
      PROVE  /\ ct2[w[i].doc] # NoDoc
             /\ ct2[w[i].doc] \in Content /\ w[i].doc \notin st \ {d} => Settled(w[i], ct2[w[i].doc])
    <2>1. l[i].doc \in Doc /\ w[i].doc = l[i].doc
        BY RowDoc, WriteObjRows
    <2>2. CASE l[i].doc = d
        BY <2>1, <2>2, WriteObjRows, ApprovalAssumption
    <2>3. CASE l[i].doc # d
        BY <2>1, <2>3, WriteObjRows
    <2> QED BY <2>2, <2>3
<1> QED BY <1>1, <1>2 DEF RowsGood

LEMMA GoodHook ==
    ASSUME NEW l, NEW ct, NEW st, RowsGood(l, ct, st), NEW u, NEW d, NEW h, NEW forced \in BOOLEAN
    PROVE  RowsGood(AfterHook(l, u, d, h, forced), ct, st)
BY AfterHookRows DEF RowsGood

\* The content of d changes and d becomes stale, is deleted or has no rows.
LEMMA GoodChange ==
    ASSUME NEW l, NEW ct \in [Doc -> Content \cup {NoDoc, Deleted}], NEW st, RowsGood(l, ct, st),
           NEW d \in Doc, NEW c \in Content \cup {Deleted}, NEW st2,
           \/ st2 = st \cup {d}
           \/ st2 = st /\ ct[d] = NoDoc
           \/ st2 = st \ {d} /\ c = Deleted
    PROVE  RowsGood(l, [ct EXCEPT ![d] = c], st2)
<1>1. \A i \in DOMAIN l : l[i].doc \in Doc
    BY RowDoc DEF RowsGood
<1> QED BY <1>1, ApprovalAssumption DEF RowsGood

LEMMA GoodConcat ==
    ASSUME NEW l, NEW m, NEW ct, NEW st, RowsGood(l, ct, st), RowsGood(m, ct, st)
    PROVE  RowsGood(l \o m, ct, st)
BY ConcatRows DEF RowsGood

LEMMA GoodScheme ==
    ASSUME NEW ct \in [Doc -> Content \cup {NoDoc, Deleted}], NEW st, NEW d \in Doc, NEW c \in Content
    PROVE  RowsGood(SchemeApprovals(d, c), [ct EXCEPT ![d] = c], st)
BY SchemeRows, ApprovalAssumption DEF RowsGood

-----------------------------------------------------------------------------
(* The inductive invariant *)

LEMMA InitIInv == Init => IInv
<1> SUFFICES ASSUME Init PROVE IInv
    OBVIOUS
<1>1. list \in Seq(Approval) /\ DOMAIN list = {}
    BY DEF Init
<1> QED BY <1>1 DEF Init, IInv, ContentOK, StaleOK, RowsGood, RowsOK

\* The shape of every request that ends in a write of its document.
LEMMA WriteStep ==
    ASSUME IInv, NEW l, RowsOK(l), NEW d \in Doc, NEW c \in Content,
           \A i \in DOMAIN l : l[i].doc # d =>
              /\ content[l[i].doc] # NoDoc
              /\ content[l[i].doc] \in Content /\ l[i].doc \notin stale
                    => Settled(l[i], content[l[i].doc]),
           content' = [content EXCEPT ![d] = c],
           list' = WriteObj(l, d, c),
           stale' = stale \ {d},
           audit' \subseteq AuditRow
    PROVE  IInv'
<1>1. RowsGood(list', content', stale')
    BY GoodWrite DEF IInv, ContentOK
<1>2. ContentOK' /\ StaleOK'
    BY DEF IInv, ContentOK, StaleOK, Exists
<1> QED BY <1>1, <1>2 DEF IInv

\* The shape of a review: one state and its audit row.
LEMMA ReviewStep ==
    ASSUME IInv, NEW i \in DOMAIN list, NEW s,
           s \in IF IsAuto(list[i]) THEN {"ignore"} ELSE {"approved", "reject", "ignore"},
           Review(i, s)
    PROVE  IInv'
<1>1. list \in Seq(Approval) /\ RowOK(list[i]) /\ i \in Nat
    BY DEF IInv, RowsGood, RowsOK
<1> DEFINE r == [list[i] EXCEPT !.state = s]
<1>2. list' = [list EXCEPT ![i] = r]
    BY DEF Review
<1>3. r.item = list[i].item /\ r.doc = list[i].doc /\ r.hash = list[i].hash
      /\ r.offered = list[i].offered /\ r.state = s /\ r.evaluated = list[i].evaluated
    BY <1>1 DEF RowOK, Approval
<1>4. RowOK(r)
    BY <1>1, <1>3 DEF RowOK, Approval, IsAuto, StandardState, AutoState, Reviewed
<1>5. ASSUME NEW c, Settled(list[i], c) PROVE Settled(r, c)
    BY <1>3, <1>5 DEF Settled, IsAuto, Visible
<1>6. RowsOK(list')
    BY <1>1, <1>2, <1>4 DEF RowsOK, RowOK, IInv, RowsGood
<1>7. RowsGood(list', content, stale)
    BY <1>1, <1>2, <1>3, <1>5, <1>6 DEF IInv, RowsGood
<1>8. audit' \subseteq AuditRow
    BY <1>1 DEF Review, AuditRow, RowOK, Approval, StandardState, AutoState, Reviewed
<1> QED BY <1>7, <1>8 DEF Review, IInv, ContentOK, StaleOK, Exists

LEMMA NextIInv == IInv /\ [Next]_vars => IInv'
<1> SUFFICES ASSUME IInv, [Next]_vars PROVE IInv'
    OBVIOUS
<1> USE DEF IInv
<1>0. RowsOK(list) /\ content \in [Doc -> Content \cup {NoDoc, Deleted}]
    BY DEF RowsGood, ContentOK
<1>1. ASSUME NEW d \in Doc, NEW c \in Content, CreateDoc(d, c) PROVE IInv'
    <2>1. RowsGood(list, content', stale)
        BY <1>0, <1>1, GoodChange DEF CreateDoc, IsNew
    <2>2. RowsGood(SchemeApprovals(d, c), content', stale)
        BY <1>0, <1>1, GoodScheme DEF CreateDoc
    <2>3. RowsGood(list', content', stale')
        BY <1>1, <2>1, <2>2, GoodConcat DEF CreateDoc
    <2> QED BY <1>1, <2>3 DEF CreateDoc, ContentOK, StaleOK, Exists
<1>2. ASSUME NEW d \in Doc, NEW c \in Content, WriteDoc(d, c) PROVE IInv'
    BY <1>0, <1>2, WriteStep, WriteAuditRows DEF WriteDoc, RowsGood
<1>3. ASSUME NEW d \in Doc, NEW c \in Content, ChangeRelated(d, c) PROVE IInv'
    <2>1. RowsGood(list, content', stale')
        BY <1>0, <1>3, GoodChange DEF ChangeRelated
    <2> QED BY <1>3, <2>1 DEF ChangeRelated, ContentOK, StaleOK, Exists
<1>4. ASSUME NEW d \in Doc, NEW c \in Content, NEW src \in Doc, CarryOver(src, d, c) PROVE IInv'
    <2>1. RowsGood(list, content', stale')
        BY <1>0, <1>4, GoodChange DEF CarryOver, IsNew
    <2>2. PICK rows \in ApprovalLists(src, d) :
              /\ \A i \in rows : Homes(d, list[i].doc, content') # {}
              /\ \E idx \in InOrder(rows) : list' = list \o CarriedApprovals(list, idx, d, content')
        BY <1>4 DEF CarryOver
    <2>3. PICK idx \in InOrder(rows) : list' = list \o CarriedApprovals(list, idx, d, content')
        BY <2>2
    <2>4. RowsGood(CarriedApprovals(list, idx, d, content'), content', stale')
        <3> DEFINE w == CarriedApprovals(list, idx, d, content')
        <3>1. rows \in SUBSET DOMAIN list
            BY ListedRows
        <3>2. /\ RowsOK(w)
              /\ \A k \in DOMAIN w : LET a == w[k]
                                    IN  content'[a.doc] \in Content /\ Settled(a, content'[a.doc])
            BY <1>0, <2>2, <3>1, CarriedRows
        <3> HIDE DEF w
        <3>3. RowsGood(w, content', stale')
            BY <3>2, ApprovalAssumption DEF RowsGood
        <3> QED BY <3>3 DEF w
    <2>5. RowsGood(list', content', stale')
        BY <2>1, <2>3, <2>4, GoodConcat
    <2> QED BY <1>4, <2>5 DEF CarryOver, ContentOK, StaleOK, Exists
<1>5. ASSUME NEW d \in Doc, NEW it \in Item, NEW c \in Content, AddApproval(d, it, c) PROVE IInv'
    <2> DEFINE l == Append(list, NewApproval(d, it, c))
    <2>1. RowsOK(l) /\ \A i \in DOMAIN l : l[i].doc # d => i \in DOMAIN list /\ l[i] = list[i]
        <3>1. RowOK(NewApproval(d, it, c)) /\ NewApproval(d, it, c).doc = d
            BY NewApprovalRow
        <3>2. list \in Seq(Approval)
            BY <1>0 DEF RowsOK
        <3>3. l \in Seq(Approval) /\ DOMAIN l = 1..(Len(list) + 1) /\ Len(list) \in Nat
            BY <3>1, <3>2 DEF RowOK
        <3>4. \A i \in DOMAIN l : \/ i \in DOMAIN list /\ l[i] = list[i]
                                  \/ l[i] = NewApproval(d, it, c)
            BY <3>2, <3>3
        <3> QED BY <1>0, <3>1, <3>3, <3>4 DEF RowsOK
    <2>2. WriteAudit(l, d, c) \subseteq AuditRow
        BY <2>1, WriteAuditRows
    <2>3. /\ content' = [content EXCEPT ![d] = c]
          /\ list' = WriteObj(l, d, c)
          /\ stale' = stale \ {d}
          /\ audit' \subseteq AuditRow
        BY <1>5, <2>2 DEF AddApproval
    <2>4. \A i \in DOMAIN l : l[i].doc # d =>
              /\ content[l[i].doc] # NoDoc
              /\ content[l[i].doc] \in Content /\ l[i].doc \notin stale
                    => Settled(l[i], content[l[i].doc])
        BY <2>1 DEF RowsGood
    <2> HIDE DEF l
    <2> QED BY <2>1, <2>3, <2>4, WriteStep
<1>6. ASSUME NEW i \in DOMAIN list, NEW v \in User, SetApprover(i, v) PROVE IInv'
    <2> DEFINE d == list[i].doc
               l == [list EXCEPT ![i].approver = v]
    <2>1. d \in Doc /\ content[d] \in Content
        BY <1>0, <1>6, RowDoc DEF SetApprover, Exists
    <2>2. RowsOK(l) /\ \A j \in DOMAIN l : l[j].doc # d => j \in DOMAIN list /\ l[j] = list[j]
        <3>1. list \in Seq(Approval) /\ RowOK(list[i])
            BY <1>0 DEF RowsOK
        <3>2. RowOK(l[i]) /\ l[i].doc = d
            BY <3>1 DEF RowOK, Approval, IsAuto
        <3>3. DOMAIN l = DOMAIN list /\ \A j \in DOMAIN list : j # i => l[j] = list[j]
            BY <3>1
        <3>4. l \in Seq(Approval)
            BY <3>1, <3>2, <3>3 DEF RowOK
        <3> QED BY <1>0, <3>2, <3>3, <3>4 DEF RowsOK
    <2>3. WriteAudit(l, d, content[d]) \subseteq AuditRow
        BY <2>1, <2>2, WriteAuditRows
    <2>4. content' = [content EXCEPT ![d] = content[d]]
        BY <1>0, <1>6 DEF SetApprover
    <2>5. /\ list' = WriteObj(l, d, content[d])
          /\ stale' = stale \ {d}
          /\ audit' \subseteq AuditRow
        BY <1>6, <2>3 DEF SetApprover
    <2>6. \A j \in DOMAIN l : l[j].doc # d =>
              /\ content[l[j].doc] # NoDoc
              /\ content[l[j].doc] \in Content /\ l[j].doc \notin stale
                    => Settled(l[j], content[l[j].doc])
        BY <2>2 DEF RowsGood
    <2>7. RowsOK(l)
        BY <2>2
    <2> HIDE DEF l, d
    <2> QED BY <2>1, <2>4, <2>5, <2>6, <2>7, WriteStep
<1>7. ASSUME NEW u \in User, NEW d \in Doc, OpenForm(u, d) PROVE IInv'
    <2> DEFINE auto == \E i \in DOMAIN list : list[i].doc = d /\ IsAuto(list[i])
               l == IF auto THEN WriteObj(list, d, content[d]) ELSE list
               st == IF auto THEN stale \ {d} ELSE stale
               offer(i) == /\ l[i].doc = d
                           /\ ~IsAuto(l[i])
                           /\ l[i].state = "pending"
                           /\ Visible(l[i], content[d]) /\ u \in ApproverUsers(l[i])
    <2>1. content[d] \in Content
        BY <1>7 DEF OpenForm, Exists
    <2>2. RowsGood(l, content, st)
        <3>1. content = [content EXCEPT ![d] = content[d]]
            BY <1>0
        <3>2. RowsGood(WriteObj(list, d, content[d]), [content EXCEPT ![d] = content[d]], stale \ {d})
            BY <1>0, <2>1, GoodWrite DEF RowsGood
        <3> QED BY <3>1, <3>2
    <2>3. list' = [i \in DOMAIN l |-> IF offer(i) THEN [l[i] EXCEPT !.offered = TRUE] ELSE l[i]]
        BY <1>7 DEF OpenForm
    <2>4. \A i \in DOMAIN l : RowOK(l[i])
        BY <2>2 DEF RowsGood, RowsOK
    <2> HIDE DEF l
    <2>5. ASSUME NEW i \in DOMAIN l
          PROVE  /\ RowOK(list'[i])
                 /\ list'[i].doc = l[i].doc
                 /\ \A c : Settled(l[i], c) => Settled(list'[i], c)
        <3>1. l[i] \in Approval
            BY <2>4 DEF RowOK
        <3>2. CASE offer(i)
            <4>1. list'[i] = [l[i] EXCEPT !.offered = TRUE]
                BY <2>3, <3>2
            <4> QED BY <2>4, <3>1, <3>2, <4>1 DEF RowOK, Approval, Settled, IsAuto, Visible
        <3>3. CASE ~offer(i)
            BY <2>3, <2>4, <3>3
        <3> QED BY <3>2, <3>3
    <2>6. RowsOK(list') /\ DOMAIN list' = DOMAIN l
        <3>1. l \in Seq(Approval) /\ DOMAIN l = 1..Len(l) /\ Len(l) \in Nat
            BY <2>2 DEF RowsGood, RowsOK
        <3>2. DOMAIN list' = DOMAIN l
            BY <2>3
        <3>3. list' \in [1..Len(l) -> Approval]
            BY <2>3, <2>5, <3>1, <3>2 DEF RowOK
        <3> QED BY <2>5, <3>1, <3>2, <3>3 DEF RowsOK
    <2>7. RowsGood(list', content, st)
        BY <2>2, <2>5, <2>6 DEF RowsGood
    <2>8. audit' \subseteq AuditRow
        BY <1>0, <1>7, <2>1, WriteAuditRows DEF OpenForm
    <2> QED BY <1>7, <2>7, <2>8 DEF OpenForm, ContentOK, StaleOK, Exists
<1>8. ASSUME NEW i \in DOMAIN list, Approve(i) \/ Reject(i) \/ Ignore(i) PROVE IInv'
    <2>1. list[i].offered => ~IsAuto(list[i])
        BY <1>0 DEF RowsOK, RowOK
    <2> QED BY <1>8, <2>1, ReviewStep DEF Approve, Reject, Ignore
<1>9. ASSUME NEW u \in User, NEW d \in Doc, NEW h \in Hook, OperateReadOnly(u, d, h) PROVE IInv'
    BY <1>9, GoodHook DEF OperateReadOnly, ContentOK, StaleOK, Exists
<1>10. ASSUME NEW u \in User, NEW d \in Doc, NEW h \in Hook, NEW c \in Content,
              OperateAndWrite(u, d, h, c)
       PROVE IInv'
    <2> DEFINE l == AfterHook(list, u, d, h, FALSE)
    <2>1. RowsGood(l, content, stale)
        BY GoodHook
    <2>2. RowsOK(l)
        BY <2>1 DEF RowsGood
    <2>3. WriteAudit(l, d, c) \subseteq AuditRow
        BY <2>2, WriteAuditRows
    <2> QED BY <1>10, <2>1, <2>2, <2>3, WriteStep DEF OperateAndWrite, RowsGood
<1>11. ASSUME NEW u \in User, NEW d \in Doc, NEW c0 \in Content, NEW c \in Content,
              CreateReturn(u, d, c0, c)
       PROVE IInv'
    <2> DEFINE created == list \o SchemeApprovals(d, c0)
               new == WriteObj(created, d, c)
               l == AfterHook(new, u, d, ForceAssign, TRUE)
               ct == [content EXCEPT ![d] = c]
    <2>1. d \notin stale /\ content[d] = NoDoc
        BY <1>11, ApprovalAssumption DEF CreateReturn, IsNew, StaleOK, Exists
    <2>2. RowsGood(created, [content EXCEPT ![d] = c0], stale)
        BY <1>0, <2>1, GoodChange, GoodScheme, GoodConcat
    <2>3. RowsOK(created)
        BY <2>2 DEF RowsGood
    <2>4. \A i \in DOMAIN created : created[i].doc # d =>
              /\ content[created[i].doc] # NoDoc
              /\ content[created[i].doc] \in Content /\ created[i].doc \notin stale
                    => Settled(created[i], content[created[i].doc])
        BY <1>0, <2>2, <2>3, RowDoc DEF RowsGood
    <2>5. RowsGood(new, ct, stale \ {d})
        BY <1>0, <2>3, <2>4, GoodWrite
    <2>6. RowsGood(l, ct, stale \ {d})
        BY <2>5, GoodHook
    <2>7. RowsOK(l)
        BY <2>6 DEF RowsGood
    <2>8. \A i \in DOMAIN l : l[i].doc # d =>
              /\ content[l[i].doc] # NoDoc
              /\ content[l[i].doc] \in Content /\ l[i].doc \notin stale
                    => Settled(l[i], content[l[i].doc])
        BY <1>0, <2>6, <2>7, RowDoc DEF RowsGood
    <2>9. WriteAudit(created, d, c) \subseteq AuditRow /\ WriteAudit(l, d, c) \subseteq AuditRow
        BY <2>3, <2>7, WriteAuditRows
    <2>10. /\ content' = ct
           /\ list' = WriteObj(l, d, c)
           /\ stale' = stale \ {d}
           /\ audit' \subseteq AuditRow
        BY <1>11, <2>1, <2>9 DEF CreateReturn
    <2> HIDE DEF l
    <2> QED BY <2>7, <2>8, <2>10, WriteStep
<1>12. ASSUME NEW d \in Doc, DeleteDoc(d) PROVE IInv'
    <2>1. RowsGood(list, content', stale')
        BY <1>0, <1>12, GoodChange DEF DeleteDoc
    <2> QED BY <1>12, <2>1 DEF DeleteDoc, ContentOK, StaleOK, Exists
<1>13. ASSUME UNCHANGED vars PROVE IInv'
    BY <1>13 DEF vars, ContentOK, StaleOK, Exists
<1> QED
    BY <1>1, <1>2, <1>3, <1>4, <1>5, <1>6, <1>7, <1>8, <1>9, <1>10, <1>11, <1>12, <1>13 DEF Next

-----------------------------------------------------------------------------
(* The theorems *)

\* At every reachable state the invariant holds ...
THEOREM Invariance == Spec => []IInv
<1>1. Init => IInv
    BY InitIInv
<1>2. IInv /\ [Next]_vars => IInv'
    BY NextIInv
<1> QED BY <1>1, <1>2, PTL DEF Spec

\* ... hence the variables have their types: no button, hook or re-evaluation
\* ever puts a standard approval in a state of an auto one, or the reverse.
THEOREM TypeCorrect == Spec => []TypeOK
<1>1. IInv => TypeOK
    BY DEF IInv, RowsGood, RowsOK, RowOK, ContentOK, StaleOK, TypeOK
<1> QED BY <1>1, Invariance, PTL

\* The state of every evaluated approval of a document that did not change behind its
\* back agrees with the rule, for any rules, schemes, hooks and sequence of requests.
THEOREM StateTracksRuleHolds == Spec => []StateTracksRule
<1>1. IInv => StateTracksRule
    BY DEF IInv, RowsGood, Settled, StateTracksRule
<1> QED BY <1>1, Invariance, PTL

\* The hash kept with a standard approval whose rule holds is the hash of the
\* document as it is, so what was reviewed hashes as what is there.
THEOREM HashTracksContentHolds == Spec => []HashTracksContent
<1>1. IInv => HashTracksContent
    BY DEF IInv, RowsGood, Settled, HashTracksContent
<1> QED BY <1>1, Invariance, PTL

\* No guarded button goes through past a pending or rejected approval whose rule
\* holds, for a user who is not its approver.
THEOREM Gate == Spec => NoUnapprovedOperation
<1>1. IInv /\ [Next]_vars => [~UnapprovedOperation]_vars
    <2> SUFFICES ASSUME IInv, UnapprovedOperation PROVE FALSE
        OBVIOUS
    <2>1. PICK i \in DOMAIN list :
              /\ Exists(list[i].doc)
              /\ list[i].state = "na" => list[i].doc \notin stale /\ list[i].evaluated
              /\ Visible(list[i], content[list[i].doc])
              /\ list[i].state \notin {"approved", "ignore", "passed"}
              /\ \E u \in User \ ApproverUsers(list[i]), h \in ItemHooks[list[i].item] :
                    Operates(u, list[i].doc, h)
        BY DEF UnapprovedOperation
    <2>2. PICK u \in User \ ApproverUsers(list[i]), h \in ItemHooks[list[i].item] :
              Operates(u, list[i].doc, h)
        BY <2>1
    <2>3. Proceeds(list, u, list[i].doc, h, FALSE)
        BY <2>2 DEF Operates, OperateReadOnly, OperateAndWrite
    <2>4. i \in Matching(list, list[i].doc, h)
        BY <2>2 DEF Matching, SameId
    <2>5. ~Blocks(u, list[i])
        BY <2>3, <2>4 DEF Proceeds
    <2>6. /\ RowOK(list[i])
          /\ list[i].state = "na" => Settled(list[i], content[list[i].doc])
        BY <2>1 DEF IInv, RowsGood, RowsOK, Exists
    <2>7. list[i].state \in {"pending", "reject", "failed"}
        BY <2>1, <2>6 DEF RowOK, Settled, AutoState, StandardState, Reviewed
    <2> QED BY <2>2, <2>5, <2>7 DEF Blocks, ForceToApprove
<1> QED BY <1>1, Invariance, PTL DEF Spec, NoUnapprovedOperation

-----------------------------------------------------------------------------
(* Reviews that are lost, with and without messages. *)

\* Row b is what a reset leaves of row a.
IsReset(a, b, c) ==
    ~IsAuto(a) /\ b.state = "pending" /\ b.item = a.item /\ b.hash # a.hash /\ Visible(b, c)

\* The step keeps the review of row i, or resets it and announces that in P.
KeptOrTold(i, P) ==
    list[i].state \in Reviewed =>
        \/ list'[i].state \in Reviewed
        \/ /\ IsReset(list[i], list'[i], content'[list[i].doc])
           /\ "reset" \in Notify[list[i].item] => <<i, "reset">> \in P

\* Row b has the item, hash and document of row a, and is reviewed if a is.
SameReview(a, b) ==
    /\ b.item = a.item /\ b.hash = a.hash /\ b.doc = a.doc
    /\ a.state \in Reviewed => b.state \in Reviewed

\* write_obj loses a review only if it resets it.
LEMMA WriteRow ==
    ASSUME NEW l, RowsOK(l), NEW d, NEW c \in Content, NEW i \in DOMAIN l, l[i].state \in Reviewed
    PROVE  \/ WriteObj(l, d, c)[i].state \in Reviewed
           \/ /\ l[i].doc = d
              /\ l[i].hash # Hash[l[i].item][c]
              /\ IsReset(l[i], WriteObj(l, d, c)[i], c)
<1> DEFINE a == l[i]
           w == WriteObj(l, d, c)[i]
<1>1. RowOK(a) BY DEF RowsOK
<1>2. CASE a.doc # d BY <1>2 DEF WriteObj
<1>3. CASE a.doc = d
    <2>1. w = Reevaluate(a, c) BY <1>3 DEF WriteObj
    <2>2. /\ w.state = ReevaluatedState(a, c) /\ w.hash = ReevaluatedHash(a, c)
          /\ w.item = a.item
        BY <1>1, <2>1 DEF RowOK, Approval, Reevaluate
    <2>3. CASE IsAuto(a)
        <3>1. a.state = "ignore" BY <1>1, <2>3 DEF RowOK, AutoState, Reviewed
        <3> QED BY <2>2, <2>3, <3>1 DEF ReevaluatedState, Reviewed
    <2>4. CASE ~IsAuto(a)
        BY <1>3, <2>2, <2>4 DEF ReevaluatedState, ReevaluatedHash, IsReset, Visible, IsAuto, Reviewed
    <2> QED BY <2>3, <2>4
<1> QED BY <1>2, <1>3

\* hook_validation keeps reviews reviewed, and changes nothing but states.
LEMMA HookRow ==
    ASSUME NEW l, RowsOK(l), NEW u, NEW d, NEW h, NEW forced \in BOOLEAN,
           NEW w, w = AfterHook(l, u, d, h, forced), NEW i \in DOMAIN l
    PROVE  SameReview(l[i], w[i])
<1> DEFINE s == HookState(l, u, d, i, forced)
<1>1. RowOK(l[i]) BY DEF RowsOK
<1>2. w[i] = l[i] \/ w[i] = [l[i] EXCEPT !.state = s] BY DEF AfterHook
<1>3. s \in {"ignore", "approved", l[i].state} BY DEF HookState
<1> QED BY <1>1, <1>2, <1>3 DEF SameReview, RowOK, Approval, Reviewed

\* A request that ends with a write of document d, on rows l that differ from the
\* rows before it by their states, approvers and buttons only.
LEMMA Written ==
    ASSUME NEW l, RowsOK(l), NEW d \in Doc, NEW c \in Content, NEW i \in DOMAIN list, i \in DOMAIN l,
           SameReview(list[i], l[i]), content'[d] = c, list'[i].state = WriteObj(l, d, c)[i].state,
           list'[i].item = WriteObj(l, d, c)[i].item, list'[i].hash = WriteObj(l, d, c)[i].hash
    PROVE  KeptOrTold(i, ResetPosts(l, d, c))
<1> DEFINE w == WriteObj(l, d, c)[i]
<1> SUFFICES ASSUME list[i].state \in Reviewed, list'[i].state \notin Reviewed
             PROVE  /\ IsReset(list[i], list'[i], content'[list[i].doc])
                    /\ "reset" \in Notify[list[i].item] => <<i, "reset">> \in ResetPosts(l, d, c)
    BY DEF KeptOrTold
<1>0. l[i].item = list[i].item /\ l[i].hash = list[i].hash /\ l[i].state \in Reviewed
    BY DEF SameReview
<1>1. l[i].doc = d /\ l[i].hash # Hash[l[i].item][c] /\ IsReset(l[i], w, c)
    BY <1>0, WriteRow
<1>2. IsReset(list[i], list'[i], content'[list[i].doc])
    BY <1>0, <1>1 DEF IsReset, IsAuto, Visible, SameReview
<1>3. "reset" \in Notify[list[i].item] => <<i, "reset">> \in ResetPosts(l, d, c)
    BY <1>0, <1>1 DEF ResetPosts, IsReset
<1> QED BY <1>2, <1>3

-----------------------------------------------------------------------------
(* One lemma per kind of request. *)

\* Requests that do not evaluate the document: no review is lost.
LEMMA UnwrittenStep ==
    ASSUME IInv, NEW i \in DOMAIN list,
           \/ \E d \in Doc, c \in Content :
                 CreateDoc(d, c) \/ ChangeRelated(d, c) \/ \E src \in Doc : CarryOver(src, d, c)
           \/ \E d \in Doc : DeleteDoc(d)
           \/ \E u \in User, d \in Doc, h \in Hook : OperateReadOnly(u, d, h)
           \/ \E j \in DOMAIN list : Approve(j) \/ Reject(j) \/ Ignore(j)
    PROVE  list[i].state \in Reviewed => list'[i].state \in Reviewed
<1>0. RowsOK(list) /\ list \in Seq(Approval) /\ RowOK(list[i])
    BY DEF IInv, RowsGood, RowsOK
<1>1. ASSUME NEW m, RowsOK(m), list' = list \o m PROVE list'[i] = list[i]
    BY <1>0, <1>1, ConcatRows
<1>2. ASSUME NEW d \in Doc, NEW c \in Content, CreateDoc(d, c) PROVE list'[i] = list[i]
    BY <1>1, <1>2, SchemeRows DEF CreateDoc
<1>3. ASSUME NEW d \in Doc, NEW c \in Content, NEW src \in Doc, CarryOver(src, d, c)
      PROVE  list'[i] = list[i]
    BY <1>0, <1>1, <1>3, CarriedRows, ListedRows DEF CarryOver
<1>4. ASSUME NEW u \in User, NEW d \in Doc, NEW h \in Hook, OperateReadOnly(u, d, h)
      PROVE  list[i].state \in Reviewed => list'[i].state \in Reviewed
    <2>1. FALSE \in BOOLEAN OBVIOUS
    <2>2. SameReview(list[i], list'[i])
        BY <1>0, <1>4, <2>1, HookRow DEF OperateReadOnly
    <2> QED BY <2>2 DEF SameReview
<1>5. ASSUME NEW j \in DOMAIN list, NEW s, Review(j, s), s \in Reviewed
      PROVE  list[i].state \in Reviewed => list'[i].state \in Reviewed
    BY <1>0, <1>5 DEF Review, RowOK, Approval
<1>6. ASSUME NEW j \in DOMAIN list, Approve(j) \/ Reject(j) \/ Ignore(j)
      PROVE  \E s \in Reviewed : Review(j, s)
    <2>1. list[j].offered => ~IsAuto(list[j]) BY <1>0 DEF RowsOK, RowOK
    <2> QED BY <1>6, <2>1 DEF Approve, Reject, Ignore, Reviewed
<1> QED BY <1>2, <1>3, <1>4, <1>5, <1>6 DEF ChangeRelated, DeleteDoc

LEMMA WriteDocStep ==
    ASSUME IInv, NEW i \in DOMAIN list, NEW d \in Doc, NEW c \in Content, WriteDoc(d, c)
    PROVE  KeptOrTold(i, ResetPosts(list, d, c))
BY Written DEF WriteDoc, IInv, RowsGood, ContentOK, SameReview

LEMMA AddApprovalStep ==
    ASSUME IInv, NEW i \in DOMAIN list, NEW d \in Doc, NEW c \in Content, NEW it \in Item,
           AddApproval(d, it, c)
    PROVE  KeptOrTold(i, ResetPosts(list, d, c))
<1> DEFINE l == Append(list, NewApproval(d, it, c))
<1>1. RowsOK(list) /\ list \in Seq(Approval) BY DEF IInv, RowsGood, RowsOK
<1>2. i \in DOMAIN l /\ l[i] = list[i] BY <1>1
<1>3. list'[i] = WriteObj(list, d, c)[i] BY <1>2 DEF AddApproval, WriteObj
<1>4. content'[d] = c BY DEF AddApproval, IInv, ContentOK
<1> QED BY <1>1, <1>3, <1>4, Written DEF SameReview

LEMMA SetApproverStep ==
    ASSUME IInv, NEW i \in DOMAIN list, NEW j \in DOMAIN list, NEW v \in User, SetApprover(j, v)
    PROVE  KeptOrTold(i, ResetPosts(list, list[j].doc, content[list[j].doc]))
<1> DEFINE d == list[j].doc
           c == content[d]
           l == [list EXCEPT ![j].approver = v]
<1>1. RowsOK(list) /\ list \in Seq(Approval) /\ RowOK(list[i]) /\ RowOK(list[j])
    BY DEF IInv, RowsGood, RowsOK
<1>2. d \in Doc /\ c \in Content /\ content'[d] = c
    BY <1>1, RowDoc DEF SetApprover, Exists
<1>3. /\ i \in DOMAIN l
      /\ l[i].item = list[i].item /\ l[i].hash = list[i].hash /\ l[i].doc = list[i].doc
      /\ l[i].state = list[i].state
    BY <1>1 DEF RowOK, Approval
<1>4. l[i] \in Approval
    BY <1>1 DEF RowOK, Approval
<1>5. list' = WriteObj(l, d, c) BY DEF SetApprover
<1>6. /\ list'[i].state = WriteObj(list, d, c)[i].state
      /\ list'[i].item = WriteObj(list, d, c)[i].item
      /\ list'[i].hash = WriteObj(list, d, c)[i].hash
    <2>1. CASE list[i].doc # d BY <1>3, <1>5, <2>1 DEF WriteObj
    <2>2. CASE list[i].doc = d
        <3>1. list'[i] = Reevaluate(l[i], c) /\ WriteObj(list, d, c)[i] = Reevaluate(list[i], c)
            BY <1>3, <1>5, <2>2 DEF WriteObj
        <3>2. /\ ReevaluatedState(l[i], c) = ReevaluatedState(list[i], c)
              /\ ReevaluatedHash(l[i], c) = ReevaluatedHash(list[i], c)
            BY <1>3 DEF ReevaluatedState, ReevaluatedHash, IsAuto, Visible
        <3> QED BY <1>1, <1>3, <1>4, <3>1, <3>2 DEF Reevaluate, RowOK, Approval
    <2> QED BY <2>1, <2>2
<1> QED BY <1>1, <1>2, <1>6, Written DEF SameReview

LEMMA OpenFormStep ==
    ASSUME IInv, NEW i \in DOMAIN list, NEW u \in User, NEW d \in Doc, OpenForm(u, d)
    PROVE  KeptOrTold(i, IF HasAuto(d) THEN ResetPosts(list, d, content[d]) ELSE {})
<1> DEFINE c == content[d]
           l == IF HasAuto(d) THEN WriteObj(list, d, c) ELSE list
<1>1. RowsOK(list) /\ c \in Content /\ content'[d] = c
    BY DEF IInv, RowsGood, OpenForm, Exists
<1>2. RowsOK(l) /\ DOMAIN l = DOMAIN list BY <1>1, WriteObjRows
<1>3. list'[i] = l[i] \/ list'[i] = [l[i] EXCEPT !.offered = TRUE]
    BY <1>2 DEF OpenForm, HasAuto
<1>4. list'[i].state = l[i].state /\ list'[i].item = l[i].item /\ list'[i].hash = l[i].hash
    BY <1>2, <1>3 DEF RowsOK, RowOK, Approval
<1>5. CASE HasAuto(d) BY <1>1, <1>4, <1>5, Written DEF SameReview
<1>6. CASE ~HasAuto(d) BY <1>4, <1>6 DEF KeptOrTold
<1> QED BY <1>5, <1>6

LEMMA OperateStep ==
    ASSUME IInv, NEW i \in DOMAIN list, NEW u \in User, NEW d \in Doc, NEW h \in Hook,
           NEW c \in Content, OperateAndWrite(u, d, h, c)
    PROVE  KeptOrTold(i, ResetPosts(AfterHook(list, u, d, h, FALSE), d, c))
<1> DEFINE l == AfterHook(list, u, d, h, FALSE)
<1>1. RowsOK(list) BY DEF IInv, RowsGood
<1>2. RowsOK(l) /\ DOMAIN l = DOMAIN list BY <1>1, AfterHookRows
<1>3. content'[d] = c /\ list' = WriteObj(l, d, c) BY DEF OperateAndWrite, IInv, ContentOK
<1>4. SameReview(list[i], l[i])
    <2>1. FALSE \in BOOLEAN OBVIOUS
    <2> QED BY <1>1, <2>1, HookRow
<1> HIDE DEF l
<1>5. KeptOrTold(i, ResetPosts(l, d, c)) BY <1>2, <1>3, <1>4, Written
<1> QED BY <1>5 DEF l

\* A new document has no rows yet, so that a return resets none.
LEMMA ReturnStep ==
    ASSUME IInv, NEW i \in DOMAIN list, NEW u \in User, NEW d \in Doc, NEW c0 \in Content,
           NEW c \in Content, CreateReturn(u, d, c0, c)
    PROVE  list[i].state \in Reviewed => list'[i].state \in Reviewed
<1> DEFINE created == list \o SchemeApprovals(d, c0)
           new == WriteObj(created, d, c)
           l == AfterHook(new, u, d, ForceAssign, TRUE)
<1>1. RowsOK(list) /\ list[i].doc # d
    BY DEF IInv, RowsGood, CreateReturn, IsNew
<1>2. RowsOK(created) /\ i \in DOMAIN created /\ created[i] = list[i]
    <2>1. RowsOK(SchemeApprovals(d, c0)) BY SchemeRows
    <2>2. DOMAIN list \subseteq DOMAIN created BY <1>1, <2>1 DEF RowsOK
    <2> QED BY <1>1, <2>1, <2>2, ConcatRows
<1> HIDE DEF created
<1>3. RowsOK(new) /\ i \in DOMAIN new /\ new[i] = list[i]
    BY <1>1, <1>2, WriteObjRows
<1> HIDE DEF new
<1>4. /\ i \in DOMAIN l /\ l[i].doc = list[i].doc
      /\ list[i].state \in Reviewed => l[i].state \in Reviewed
    <2>1. TRUE \in BOOLEAN OBVIOUS
    <2>2. DOMAIN l = DOMAIN new BY <1>3, <2>1, AfterHookRows
    <2>3. SameReview(new[i], l[i]) BY <1>3, <2>1, HookRow
    <2> QED BY <1>3, <2>2, <2>3 DEF SameReview
<1>5. list' = WriteObj(l, d, c)
    BY DEF CreateReturn, created, new
<1> HIDE DEF l
<1> QED BY <1>1, <1>4, <1>5 DEF WriteObj

-----------------------------------------------------------------------------
(* The theorems. *)

\* What a return ignores are rows that it forces.
LEMMA ReturnForces ==
    ASSUME IInv, NEW u \in User, NEW d \in Doc, NEW c0 \in Content, NEW c \in Content,
           CreateReturn(u, d, c0, c), NEW i \in DOMAIN list', list'[i].state = "ignore",
           i \in DOMAIN list => list[i].state # "ignore"
    PROVE  ItemHooks[list'[i].item] \subseteq {ForceAssign}
<1> DEFINE created == list \o SchemeApprovals(d, c0)
           new == WriteObj(created, d, c)
           l == AfterHook(new, u, d, ForceAssign, TRUE)
<1>1. RowsOK(list) /\ RowsOK(SchemeApprovals(d, c0))
    BY SchemeRows DEF IInv, RowsGood
<1>2. RowsOK(created) BY <1>1, ConcatRows
<1>3. \A k \in DOMAIN created : created[k].state = "ignore" => k \in DOMAIN list /\ created[k] = list[k]
    <2>1. \A k \in DOMAIN SchemeApprovals(d, c0) : SchemeApprovals(d, c0)[k].state # "ignore"
        BY DEF SchemeApprovals, NewApproval
    <2> QED BY <1>1, <2>1, ConcatRows
<1>4. list' = WriteObj(l, d, c) BY DEF CreateReturn
<1> HIDE DEF created, new
<1>5. RowsOK(new) /\ DOMAIN new = DOMAIN created BY <1>2, WriteObjRows DEF new
<1>6. RowsOK(l) /\ DOMAIN l = DOMAIN new /\ i \in DOMAIN new
    <2>1. TRUE \in BOOLEAN OBVIOUS
    <2>2. DOMAIN l = DOMAIN new BY DEF AfterHook
    <2>3. RowsOK(l) BY <1>5, <2>1, AfterHookRows
    <2> QED BY <1>4, <2>2, <2>3 DEF WriteObj
\* write_obj makes no approval ignored.
<1>7. ASSUME NEW k, RowsOK(k), i \in DOMAIN k, WriteObj(k, d, c)[i].state = "ignore"
      PROVE  k[i].state = "ignore"
    <2>1. RowOK(k[i]) BY <1>7 DEF RowsOK
    <2>2. Reevaluate(k[i], c).state = ReevaluatedState(k[i], c)
        BY <2>1 DEF RowOK, Approval, Reevaluate
    <2>3. ReevaluatedState(k[i], c) = "ignore" => k[i].state = "ignore"
        BY DEF ReevaluatedState
    <2> QED BY <1>7, <2>2, <2>3 DEF WriteObj
<1>8. l[i].state = "ignore" BY <1>4, <1>6, <1>7
<1>9. new[i].state # "ignore" BY <1>3, <1>2, <1>5, <1>6, <1>7 DEF new
<1>10. list'[i].item = new[i].item
    <2>1. TRUE \in BOOLEAN OBVIOUS
    <2>2. SameReview(new[i], l[i]) BY <1>5, <1>6, <2>1, HookRow
    <2>3. RowOK(l[i]) BY <1>6 DEF RowsOK
    <2>4. Reevaluate(l[i], c).item = l[i].item BY <2>3 DEF RowOK, Approval, Reevaluate
    <2> QED BY <1>4, <1>6, <2>2, <2>4 DEF WriteObj, SameReview
<1>11. i \in Matching(new, d, ForceAssign) /\ HookState(new, u, d, i, TRUE) = "ignore"
    <2>1. RowOK(new[i]) BY <1>5, <1>6 DEF RowsOK
    <2>2. i \in Matching(new, d, ForceAssign) BY <1>6, <1>8, <1>9 DEF AfterHook
    <2>3. l[i] = [new[i] EXCEPT !.state = HookState(new, u, d, i, TRUE)]
        BY <1>6, <2>2 DEF AfterHook
    <2> QED BY <1>8, <2>1, <2>2, <2>3 DEF RowOK, Approval
<1>12. ForcedAt(new, d, i) BY <1>9, <1>11 DEF HookState
<1>13. i \in SameId(new, d) BY <1>11 DEF Matching
<1>14. i <= i BY <1>5, <1>6 DEF RowsOK
<1> QED BY <1>10, <1>12, <1>13, <1>14 DEF ForcedAt

\* The overrides of via_approval_message do what write_obj and the buttons of
\* via_approval do, whatever they post: the messages change nothing else.
THEOREM Implements == MSpec => Spec
<1>1. MInit => Init BY DEF MInit
<1>2. [MNext]_mvars => [Next]_vars
    <2> SUFFICES ASSUME [MNext]_mvars PROVE [Next]_vars
        OBVIOUS
    <2>1. CASE MNext BY <2>1 DEF MNext, Next
    <2>2. CASE UNCHANGED mvars BY <2>2 DEF mvars, vars
    <2> QED BY <2>1, <2>2
<1> QED BY <1>1, <1>2, PTL DEF MSpec, Spec

\* A review of a standard approval is lost only to a change of what was reviewed,
\* whatever buttons, forms, returns and back orders do.
THEOREM ReviewSurvivesHolds == Spec => ReviewSurvives
<1>1. IInv /\ [Next]_vars => [ReviewsKept]_vars
    <2> SUFFICES ASSUME IInv, Next, NEW i \in DOMAIN list, list[i].state \in Reviewed
                 PROVE  \/ list'[i].state \in Reviewed
                        \/ IsReset(list[i], list'[i], content'[list[i].doc])
        BY DEF ReviewsKept, IsReset
    <2>1. ASSUME NEW P, KeptOrTold(i, P)
          PROVE  \/ list'[i].state \in Reviewed
                 \/ IsReset(list[i], list'[i], content'[list[i].doc])
        BY <2>1 DEF KeptOrTold
    <2> QED BY <2>1, UnwrittenStep, WriteDocStep, AddApprovalStep, SetApproverStep, OpenFormStep,
               OperateStep, ReturnStep DEF Next
<1> QED BY <1>1, Invariance, PTL DEF Spec, ReviewSurvives

\* force_to_pass waives approvals on force_assign alone.
THEOREM ForceHolds == Spec => ForceOnlyForceAssign
<1> DEFINE A == \A u \in User, d \in Doc, c0, c \in Content : CreateReturn(u, d, c0, c) =>
                   \A i \in DOMAIN list' :
                      list'[i].state = "ignore" /\ (i \in DOMAIN list => list[i].state # "ignore")
                         => ItemHooks[list'[i].item] \subseteq {ForceAssign}
<1>1. IInv => [A]_vars BY ReturnForces
<1> QED BY <1>1, Invariance, PTL DEF ForceOnlyForceAssign

\* No reviewed approval with the flag is reset in silence.
THEOREM Announced == MSpec => ResetIsAnnounced
<1> DEFINE A == \A i \in DOMAIN list :
                   /\ list[i].state \in Reviewed /\ list'[i].state = "pending"
                   /\ "reset" \in Notify[list[i].item]
                   => <<i, "reset">> \in posts'
<1>1. IInv /\ [MNext]_mvars => [A]_mvars
    <2> SUFFICES ASSUME IInv, MNext, NEW i \in DOMAIN list, list[i].state \in Reviewed,
                        list'[i].state \notin Reviewed, "reset" \in Notify[list[i].item]
                 PROVE  <<i, "reset">> \in posts'
        BY DEF Reviewed
    <2>1. ASSUME NEW P, KeptOrTold(i, P), posts' = P PROVE <<i, "reset">> \in posts'
        BY <2>1 DEF KeptOrTold
    <2> QED BY <2>1, UnwrittenStep, WriteDocStep, AddApprovalStep, SetApproverStep, OpenFormStep,
               OperateStep, ReturnStep DEF MNext
<1> QED BY <1>1, Implements, Invariance, PTL DEF MSpec, ResetIsAnnounced
=============================================================================
