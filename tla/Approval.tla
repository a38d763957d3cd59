------------------------------ MODULE Approval ------------------------------
(***************************************************************************)
(* The approval engine of the emm addons (emm/via_approval) together with  *)
(* the document classes that call it (via_approval_sale, _purchase,        *)
(* _stock, _account, _service): every write of a document re-evaluates its *)
(* approvals, every guarded button asks hook_validation before it runs.    *)
(*                                                                         *)
(* A document's data is one member of Content; an approval item sees it    *)
(* through its rule (the contents on which the approval is required) and   *)
(* its hash (what a review covers).  One action is one committed request:  *)
(* a request that raises is rolled back and changes nothing.               *)
(***************************************************************************)
EXTENDS Naturals, Sequences, FiniteSets

CONSTANTS
    Doc,            \* documents, each a (model, id) pair
    Picking,        \* those of the three picking models, that are split and returned
    User,           \* users that press the guarded buttons
    Item,           \* approval.items
    Content,        \* abstract contents of a document
    Hook,           \* method names of approval.hook
    HashVal,        \* values of the hash formula
    ForceAssign,    \* the hook 'force_assign'
    NoDoc,          \* content of a document that was not created yet
    Deleted,        \* content of a deleted document; its id is never used again
    NoUser,         \* approver_user left empty
    ModelOf,        \* [Doc -> model]
    IdOf,           \* [Doc -> id]; two models may use the same id
    AutoItem,       \* the items of approval_type 'auto'
    ItemModel,      \* [Item -> model]
    ItemHooks,      \* [Item -> SUBSET Hook]
    GroupUsers,     \* [Item -> SUBSET User], the users of the approver groups
    ItemApprover,   \* [Item -> User or NoUser], the specific approver
    Rule,           \* [Item -> SUBSET Content], contents on which the rule holds
    Hash,           \* [Item -> [Content -> HashVal]]
    Scheme,         \* [Doc -> [Content -> Seq(Item)]], lines of the scheme that applies
    MaxApprovals    \* bound: rows of approval.list

ASSUME ApprovalAssumption ==
    /\ Picking \subseteq Doc
    /\ ForceAssign \in Hook
    /\ NoDoc \notin Content
    /\ Deleted \notin Content /\ Deleted # NoDoc
    /\ NoUser \notin User
    /\ \A d, e \in Doc : ModelOf[d] = ModelOf[e] /\ IdOf[d] = IdOf[e] => d = e
    /\ AutoItem \subseteq Item
    /\ ItemHooks \in [Item -> SUBSET Hook]
    /\ GroupUsers \in [Item -> SUBSET User]
    /\ ItemApprover \in [Item -> User \cup {NoUser}]
    /\ Rule \in [Item -> SUBSET Content]
    /\ Hash \in [Item -> [Content -> HashVal]]
    /\ Scheme \in [Doc -> [Content -> Seq(Item)]]
    /\ MaxApprovals \in Nat

VARIABLES
    content,    \* [Doc -> Content, NoDoc or Deleted]
    list,       \* the rows of approval.list, in id order
    stale,      \* documents whose content moved without their write method
    audit       \* the approval.audit rows the last request created

vars == <<content, list, stale, audit>>

Reviewed == {"approved", "reject", "ignore"}
StandardState == {"na", "pending"} \cup Reviewed
AutoState == {"passed", "failed", "ignore"}

Approval ==
    [doc: Doc, item: Item, state: StandardState \cup AutoState, hash: HashVal,
     approver: User \cup {NoUser}, offered: BOOLEAN,
     evaluated: BOOLEAN]    \* FALSE: the state was copied and the rule not asked since

AuditRow == [appr: Nat, from: StandardState \cup AutoState, to: StandardState \cup AutoState]

-----------------------------------------------------------------------------
(* Pure operators: what the methods of approval.list compute from a row and *)
(* the content of its document.                                             *)

IsAuto(a) == a.item \in AutoItem

Visible(a, c) == c \in Rule[a.item]

\* A specific approver hides the approver groups.
ApproverUsers(a) ==
    IF a.approver # NoUser THEN {a.approver} ELSE GroupUsers[a.item]

\* approval_list.create: state from the rule, hash from the content.
NewApproval(d, it, c) ==
    [doc |-> d, item |-> it, hash |-> Hash[it][c], approver |-> ItemApprover[it],
     offered |-> FALSE, evaluated |-> TRUE,
     state |-> IF it \in AutoItem THEN IF c \in Rule[it] THEN "passed" ELSE "failed"
               ELSE IF c \in Rule[it] THEN "pending" ELSE "na"]

\* create_obj without carry over: one approval per line of the applying scheme.
SchemeApprovals(d, c) ==
    [k \in 1..Len(Scheme[d][c]) |-> NewApproval(d, Scheme[d][c][k], c)]

\* approval_list.create under the context 'exception': as above, but the state is given.
CarriedApproval(a, d, c) == [NewApproval(d, a.item, c) EXCEPT !.state = a.state, !.evaluated = FALSE]

\* The documents that a copy of a row of e is filed under: create looks at the model of
\* the approval item and at the new id, and raises where there is no such document.
Homes(d, e, ct) ==
    {h \in Doc : ModelOf[h] = ModelOf[e] /\ IdOf[h] = IdOf[d] /\ ct[h] \in Content}

\* create_obj with carry over: copies for the id of d of the rows that idx enumerates
\* in their order, in the contents ct.
CarriedApprovals(l, idx, d, ct) ==
    [k \in DOMAIN idx |->
        LET h == CHOOSE h \in Homes(d, l[idx[k]].doc, ct) : TRUE
        IN  CarriedApproval(l[idx[k]], h, ct[h])]

RowsOf(l, d) == {i \in DOMAIN l : l[i].doc = d}

InOrder(rows) ==
    {idx \in [1..Cardinality(rows) -> rows] : \A j, k \in DOMAIN idx : j < k => idx[j] < idx[k]}

\* Mutants of ReevaluatedState: an approval that was n/a stays so, ...
NaStays(a, c) ==
    IF IsAuto(a)
    THEN IF a.state = "ignore" THEN a.state ELSE IF Visible(a, c) THEN "passed" ELSE "failed"
    ELSE IF Visible(a, c) /\ a.state # "na"
         THEN IF a.state \in Reviewed /\ a.hash = Hash[a.item][c] THEN a.state ELSE "pending"
         ELSE IF a.state \in Reviewed THEN a.state ELSE "na"

\* ... or a review is dropped as soon as the rule does not hold.
ReviewDropped(a, c) ==
    IF IsAuto(a)
    THEN IF a.state = "ignore" THEN a.state ELSE IF Visible(a, c) THEN "passed" ELSE "failed"
    ELSE IF ~Visible(a, c) THEN "na"
         ELSE IF a.state \in Reviewed /\ a.hash = Hash[a.item][c] THEN a.state ELSE "pending"

\* The body of the loop of write_obj.
ReevaluatedState(a, c) ==
    IF IsAuto(a)
    THEN IF a.state = "ignore" THEN a.state ELSE IF Visible(a, c) THEN "passed" ELSE "failed"
    ELSE IF Visible(a, c)
         THEN IF a.state \in Reviewed /\ a.hash = Hash[a.item][c] THEN a.state ELSE "pending"
         ELSE IF a.state \in Reviewed THEN a.state ELSE "na"

\* Mutant of ReevaluatedHash: the hash of a reset review is not renewed.
HashKept(a, c) == a.hash

ReevaluatedHash(a, c) ==
    IF ~IsAuto(a) /\ Visible(a, c) THEN Hash[a.item][c] ELSE a.hash

Reevaluate(a, c) ==
    [a EXCEPT !.state = ReevaluatedState(a, c), !.hash = ReevaluatedHash(a, c), !.evaluated = TRUE]

\* write_obj: every approval of the document.
WriteObj(l, d, c) == [i \in DOMAIN l |-> IF l[i].doc = d THEN Reevaluate(l[i], c) ELSE l[i]]

\* The rows write_obj adds to approval.audit.  An ignored auto approval leaves
\* "value" empty, and None differs from the old state: it is audited each time.
WriteAudit(l, d, c) ==
    {[appr |-> i, from |-> l[i].state, to |-> ReevaluatedState(l[i], c)] :
        i \in {j \in RowsOf(l, d) : /\ IsAuto(l[j])
                                   /\ \/ l[j].state = "ignore"
                                      \/ l[j].state # ReevaluatedState(l[j], c)}}

-----------------------------------------------------------------------------
(* hook_validation(uid, doc_id, hook_name).  It searches by doc_id alone,  *)
(* so approvals of another model with the same id take part.  The rows are *)
(* walked in id order and, after each one, all matching rows met so far    *)
(* are processed again; force_to_pass is dropped for good at the first row *)
(* with a hook other than force_assign.                                    *)

SameId(l, d) == {i \in DOMAIN l : IdOf[l[i].doc] = IdOf[d]}

Matching(l, d, h) == {i \in SameId(l, d) : h \in ItemHooks[l[i].item]}

\* Mutant of ForcedAt: only the rows before i drop force_to_pass.
ForcedBefore(l, d, i) ==
    \A j \in SameId(l, d) : j < i => ItemHooks[l[j].item] \subseteq {ForceAssign}

\* force_to_pass is still set when row i is processed for the first time ...
ForcedAt(l, d, i) ==
    \A j \in SameId(l, d) : j <= i => ItemHooks[l[j].item] \subseteq {ForceAssign}

\* ... and when it is processed for the last time.
ForcedToEnd(l, d) == \A j \in SameId(l, d) : ItemHooks[l[j].item] \subseteq {ForceAssign}

ForceToApprove(u, a) == ~IsAuto(a) /\ u \in ApproverUsers(a)

\* Mutant of Blocks: a pending approval lets the button through.
BlocksUnlessPending(u, a) == ~ForceToApprove(u, a) /\ a.state \in {"reject", "failed"}

\* The row makes hook_validation raise.
Blocks(u, a) == ~ForceToApprove(u, a) /\ a.state \in {"reject", "pending", "failed"}

Proceeds(l, u, d, h, forced) ==
    \A i \in Matching(l, d, h) : (forced /\ ForcedAt(l, d, i)) \/ ~Blocks(u, l[i])

HookState(l, u, d, i, forced) ==
    IF forced /\ ForcedAt(l, d, i)
    THEN IF ~ForcedToEnd(l, d) /\ ForceToApprove(u, l[i]) THEN "approved" ELSE "ignore"
    ELSE IF ForceToApprove(u, l[i]) /\ l[i].state # "na" THEN "approved" ELSE l[i].state

AfterHook(l, u, d, h, forced) ==
    [i \in DOMAIN l |-> IF i \in Matching(l, d, h)
                        THEN [l[i] EXCEPT !.state = HookState(l, u, d, i, forced)]
                        ELSE l[i]]

-----------------------------------------------------------------------------
Exists(d) == content[d] \in Content

IsNew(d) == content[d] = NoDoc

Init ==
    /\ content = [d \in Doc |-> NoDoc]
    /\ list = <<>>
    /\ stale = {}
    /\ audit = {}

\* create of a document class, outside a split: super().create, then create_obj.
CreateDoc(d, c) ==
    /\ IsNew(d)
    /\ Len(list) + Len(Scheme[d][c]) <= MaxApprovals
    /\ content' = [content EXCEPT ![d] = c]
    /\ list' = list \o SchemeApprovals(d, c)
    /\ audit' = {}
    /\ UNCHANGED stale

\* What approval_list of the active document shows.  On stock.picking it is restricted
\* to the model; on the models of incoming and outgoing pickings it is not, and holds the
\* approvals of any model with that id.  Without an active_id (src = d) nothing is copied.
ApprovalLists(src, d) == IF src = d THEN {{}} ELSE {RowsOf(list, src), SameId(list, src)}

\* create under approval_carry_over (the back order of a partial delivery): the states
\* come from the approvals of the active document and are not evaluated.
CarryOver(src, d, c) ==
    /\ IsNew(d) /\ d \in Picking
    /\ src # d => Exists(src) /\ ModelOf[src] = ModelOf[d]
    /\ content' = [content EXCEPT ![d] = c]
    /\ \E rows \in ApprovalLists(src, d) :
          /\ Len(list) + Cardinality(rows) <= MaxApprovals
          /\ \A i \in rows : Homes(d, list[i].doc, content') # {}
          /\ \E idx \in InOrder(rows) : list' = list \o CarriedApprovals(list, idx, d, content')
    /\ audit' = {}
    /\ UNCHANGED stale

\* write of a document class: super().write, then write_obj.
WriteDoc(d, c) ==
    /\ Exists(d)
    /\ content' = [content EXCEPT ![d] = c]
    /\ list' = WriteObj(list, d, c)
    /\ stale' = stale \ {d}
    /\ audit' = WriteAudit(list, d, c)

\* The content changes through another record or by SQL: write_obj is not called.
ChangeRelated(d, c) ==
    /\ Exists(d)
    /\ content' = [content EXCEPT ![d] = c]
    /\ stale' = stale \cup {d}
    /\ audit' = {}
    /\ UNCHANGED list

\* A line added on the approval page of the form: one write of the document that
\* creates the approval and then re-evaluates them all.
AddApproval(d, it, c) ==
    /\ Exists(d)
    /\ ItemModel[it] = ModelOf[d]
    /\ Len(list) < MaxApprovals
    /\ LET l == Append(list, NewApproval(d, it, c))
       IN  list' = WriteObj(l, d, c) /\ audit' = WriteAudit(l, d, c)
    /\ content' = [content EXCEPT ![d] = c]
    /\ stale' = stale \ {d}

\* approver_user_show filled in on the form (read-only once set), saved with the document.
SetApprover(i, v) ==
    LET d == list[i].doc
        l == [list EXCEPT ![i].approver = v]
    IN  /\ Exists(d)
        /\ list[i].approver = NoUser
        /\ v \in GroupUsers[list[i].item]
        /\ list' = WriteObj(l, d, content[d])
        /\ audit' = WriteAudit(l, d, content[d])
        /\ stale' = stale \ {d}
        /\ UNCHANGED content

\* Reading the form evaluates auto_approval_func, which writes the document when
\* it has an auto approval; the client then shows Approve and Reject on the
\* pending rows whose rule holds and whose approver the user is, and keeps
\* showing them until it reloads.
OpenForm(u, d) ==
    LET auto == \E i \in DOMAIN list : list[i].doc = d /\ IsAuto(list[i])
        l == IF auto THEN WriteObj(list, d, content[d]) ELSE list
    IN  /\ Exists(d)
        /\ list' = [i \in DOMAIN l |->
                        IF /\ l[i].doc = d
                           /\ ~IsAuto(l[i])
                           /\ l[i].state = "pending"
                           /\ Visible(l[i], content[d]) /\ u \in ApproverUsers(l[i])
                        THEN [l[i] EXCEPT !.offered = TRUE] ELSE l[i]]
        /\ stale' = IF auto THEN stale \ {d} ELSE stale
        /\ audit' = IF auto THEN WriteAudit(list, d, content[d]) ELSE {}
        /\ UNCHANGED content

\* The buttons write the state whatever it is by now, and leave hash_value alone.
Review(i, s) ==
    /\ list' = [list EXCEPT ![i].state = s]
    /\ audit' = {[appr |-> i, from |-> list[i].state, to |-> s]}
    /\ UNCHANGED <<content, stale>>

Approve(i) == list[i].offered /\ Review(i, IF IsAuto(list[i]) THEN "passed" ELSE "approved")

Reject(i) == list[i].offered /\ Review(i, "reject")

\* Shown to the approval super users on every row.
Ignore(i) == Review(i, "ignore")

\* A guarded button whose method does not write the document (print, view_picking).
OperateReadOnly(u, d, h) ==
    /\ Exists(d)
    /\ Proceeds(list, u, d, h, FALSE)
    /\ list' = AfterHook(list, u, d, h, FALSE)
    /\ audit' = {}
    /\ UNCHANGED <<content, stale>>

\* A guarded button whose method writes the document, hence write_obj.
OperateAndWrite(u, d, h, c) ==
    /\ Exists(d)
    /\ Proceeds(list, u, d, h, FALSE)
    /\ LET l == AfterHook(list, u, d, h, FALSE)
       IN  list' = WriteObj(l, d, c) /\ audit' = WriteAudit(l, d, c)
    /\ content' = [content EXCEPT ![d] = c]
    /\ stale' = stale \ {d}

\* create_returns under force_to_pass: the copied picking gets its scheme's
\* approvals, is confirmed (a write) and force-assigned in the same request.
CreateReturn(u, d, c0, c) ==
    LET created == list \o SchemeApprovals(d, c0)
        new == WriteObj(created, d, c)
        l == AfterHook(new, u, d, ForceAssign, TRUE)
    IN  /\ IsNew(d) /\ d \in Picking
        /\ Len(created) <= MaxApprovals
        /\ Proceeds(new, u, d, ForceAssign, TRUE)
        /\ content' = [content EXCEPT ![d] = c]
        /\ list' = WriteObj(l, d, c)
        /\ audit' = WriteAudit(created, d, c) \cup WriteAudit(l, d, c)
        /\ UNCHANGED stale

\* unlink of a document leaves its approvals behind.
DeleteDoc(d) ==
    /\ Exists(d)
    /\ content' = [content EXCEPT ![d] = Deleted]
    /\ stale' = stale \ {d}
    /\ audit' = {}
    /\ UNCHANGED list

Next ==
    \/ \E d \in Doc, c \in Content :
          \/ CreateDoc(d, c)
          \/ WriteDoc(d, c)
          \/ ChangeRelated(d, c)
          \/ \E src \in Doc : CarryOver(src, d, c)
          \/ \E it \in Item : AddApproval(d, it, c)
          \/ \E u \in User, c0 \in Content : CreateReturn(u, d, c0, c)
          \/ \E u \in User, h \in Hook : OperateAndWrite(u, d, h, c)
    \/ \E d \in Doc : DeleteDoc(d)
    \/ \E u \in User, d \in Doc :
          \/ OpenForm(u, d)
          \/ \E h \in Hook : OperateReadOnly(u, d, h)
    \/ \E i \in DOMAIN list :
          \/ Approve(i)
          \/ Reject(i)
          \/ Ignore(i)
          \/ \E v \in User : SetApprover(i, v)

Spec == Init /\ [][Next]_vars

-----------------------------------------------------------------------------
(* Properties *)

\* Types of the variables; a standard approval never takes a state of an auto one.
TypeOK ==
    /\ content \in [Doc -> Content \cup {NoDoc, Deleted}]
    /\ list \in Seq(Approval)
    /\ stale \subseteq {d \in Doc : Exists(d)}
    /\ audit \subseteq AuditRow
    /\ \A i \in DOMAIN list :
          list[i].state \in IF IsAuto(list[i]) THEN AutoState ELSE StandardState

\* Safety: unless its document changed behind its back, or its state was copied from
\* another approval and not evaluated since, a standard approval is
\* n/a only while its rule does not hold and pending only while it does, and an
\* auto approval that nobody ignored is passed exactly when its rule holds
\* (write_obj and create against carry over and every button).
StateTracksRule ==
    \A i \in DOMAIN list : LET a == list[i]  c == content[list[i].doc] IN
        c \in Content /\ a.doc \notin stale /\ a.evaluated =>
            /\ ~IsAuto(a) /\ a.state = "na" => ~Visible(a, c)
            /\ ~IsAuto(a) /\ a.state = "pending" => Visible(a, c)
            /\ a.state = "passed" => Visible(a, c)
            /\ a.state = "failed" => ~Visible(a, c)

\* Safety: a review covers the content it is read with: where its rule holds, the
\* hash kept on a standard approval is the hash of the document as it is now, so
\* an approved row was never approved for data that hashes differently (unless its
\* state was copied from another document).
HashTracksContent ==
    \A i \in DOMAIN list : LET a == list[i]  c == content[list[i].doc] IN
        c \in Content /\ a.doc \notin stale /\ ~IsAuto(a) /\ Visible(a, c)
            => a.hash = Hash[a.item][c]

Operates(u, d, h) ==
    OperateReadOnly(u, d, h) \/ \E c \in Content : OperateAndWrite(u, d, h, c)

\* A guarded button goes through although an approval of the document that carries
\* its hook, and whose rule holds, is not settled and the user is no approver of it.
\* An approval that is n/a counts where its rule was asked since its document, or its
\* state, came from elsewhere.
UnapprovedOperation ==
    \E i \in DOMAIN list :
        /\ Exists(list[i].doc)
        /\ list[i].state = "na" => list[i].doc \notin stale /\ list[i].evaluated
        /\ Visible(list[i], content[list[i].doc])
        /\ list[i].state \notin {"approved", "ignore", "passed"}
        /\ \E u \in User \ ApproverUsers(list[i]), h \in ItemHooks[list[i].item] :
              Operates(u, list[i].doc, h)

\* Action property: hook_validation lets no such operation through, whatever
\* happened to the document and its approvals before.
NoUnapprovedOperation == [][~UnapprovedOperation]_vars

\* A reviewed standard approval stays reviewed, or returns to pending with a new
\* hash where its rule holds; nothing makes it n/a.
ReviewsKept ==
    \A i \in DOMAIN list :
        ~IsAuto(list[i]) /\ list[i].state \in Reviewed =>
            \/ list'[i].state \in Reviewed
            \/ /\ list'[i].state = "pending"
               /\ list'[i].hash # list[i].hash
               /\ Visible(list'[i], content'[list[i].doc])

\* Action property: a review is only lost to a change of what was reviewed.
ReviewSurvives == [][ReviewsKept]_vars

\* Action property: a return ignores approvals only when they and every earlier
\* approval with the document's id are guarded by force_assign alone; an approval
\* on another button is never waived by force_to_pass.
ForceOnlyForceAssign ==
    [][\A u \in User, d \in Doc, c0, c \in Content : CreateReturn(u, d, c0, c) =>
          \A i \in DOMAIN list' :
             list'[i].state = "ignore" /\ (i \in DOMAIN list => list[i].state # "ignore")
                => ItemHooks[list'[i].item] \subseteq {ForceAssign}]_vars
=============================================================================
