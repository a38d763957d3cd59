--------------------------- MODULE ApprovalMessage ---------------------------
(***************************************************************************)
(* emm/via_approval_message on top of Approval: write_obj and the three    *)
(* review buttons are overridden to post a message on the document.        *)
(***************************************************************************)
EXTENDS Approval

CONSTANT Notify     \* [Item -> SUBSET texts], the notification flags of approval.items

ASSUME NotifyAssumption ==
    Notify \in [Item -> SUBSET {"approved", "rejected", "ignored", "reset"}]

VARIABLE posts      \* messages the last request posted: <<row of list, text>>

mvars == <<content, list, stale, audit, posts>>

MInit == Init /\ posts = {}

\* Mutant of ResetPosts: the rows are looked at after write_obj has reset them.
PostsAfterReset(l, d, c) ==
    {<<i, "reset">> : i \in {j \in DOMAIN l :
        /\ l[j].doc = d
        /\ ~IsAuto(l[j])
        /\ l[j].hash # Hash[l[j].item][c]
        /\ ReevaluatedState(l[j], c) \in Reviewed
        /\ "reset" \in Notify[l[j].item]}}

\* write_obj compares the hashes before it calls super, whatever the rule says:
\* create_message then posts for rows that are reviewed by that time.
ResetPosts(l, d, c) ==
    {<<i, "reset">> : i \in {j \in DOMAIN l :
        /\ l[j].doc = d
        /\ ~IsAuto(l[j])
        /\ l[j].hash # Hash[l[j].item][c]
        /\ l[j].state \in Reviewed
        /\ "reset" \in Notify[l[j].item]}}

ReviewPosts(i, text) == IF text \in Notify[list[i].item] THEN {<<i, text>>} ELSE {}

HasAuto(d) == \E i \in DOMAIN list : list[i].doc = d /\ IsAuto(list[i])

MNext ==
    \/ /\ posts' = {}
       /\ \/ \E d \in Doc, c \in Content :
                CreateDoc(d, c) \/ ChangeRelated(d, c) \/ \E src \in Doc : CarryOver(src, d, c)
          \/ \E d \in Doc : DeleteDoc(d)
          \/ \E u \in User, d \in Doc, h \in Hook : OperateReadOnly(u, d, h)
    \/ \E d \in Doc, c \in Content :
          \/ WriteDoc(d, c) /\ posts' = ResetPosts(list, d, c)
          \/ \E it \in Item : AddApproval(d, it, c) /\ posts' = ResetPosts(list, d, c)
          \/ \E u \in User, h \in Hook :
                /\ OperateAndWrite(u, d, h, c)
                /\ posts' = ResetPosts(AfterHook(list, u, d, h, FALSE), d, c)
          \/ \E u \in User, c0 \in Content :
                /\ CreateReturn(u, d, c0, c)
                /\ LET new == WriteObj(list \o SchemeApprovals(d, c0), d, c)
                   IN  posts' = ResetPosts(AfterHook(new, u, d, ForceAssign, TRUE), d, c)
    \/ \E u \in User, d \in Doc :
          /\ OpenForm(u, d)
          /\ posts' = IF HasAuto(d) THEN ResetPosts(list, d, content[d]) ELSE {}
    \/ \E i \in DOMAIN list :
          \/ Approve(i) /\ posts' = ReviewPosts(i, "approved")
          \/ Reject(i) /\ posts' = ReviewPosts(i, "rejected")
          \/ Ignore(i) /\ posts' = ReviewPosts(i, "ignored")
          \/ \E v \in User : /\ SetApprover(i, v)
                             /\ posts' = ResetPosts(list, list[i].doc, content[list[i].doc])

MSpec == MInit /\ [][MNext]_mvars

-----------------------------------------------------------------------------
\* Action property: no reviewed approval with the flag is reset in silence, not
\* even by the write that a button or the reading of a form makes.
ResetIsAnnounced ==
    [][\A i \in DOMAIN list :
          /\ list[i].state \in Reviewed /\ list'[i].state = "pending"
          /\ "reset" \in Notify[list[i].item]
          => <<i, "reset">> \in posts']_mvars
=============================================================================
