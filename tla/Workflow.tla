------------------------------ MODULE Workflow ------------------------------
(***************************************************************************)
(* The workflow engine (openerp/workflow): instances of workflows, the     *)
(* work items that move through their activities, and the requests that    *)
(* move them.                                                              *)
(*                                                                         *)
(* The engine is a recursive interpreter over database rows; here its      *)
(* calls wait in a sequence.  A request (write, signal, trigger, unlink,   *)
(* merge) runs it to the end inside one transaction in snapshot isolation, *)
(* which then commits, or is rolled back and perhaps called again.  Nobody *)
(* sees its rows before: Begin takes the snapshot, and Commit evaluates    *)
(* the request on it and publishes what it changed, unless a request that  *)
(* committed in between updated or deleted one of the same rows.           *)
(*                                                                         *)
(* A document has at most one workflow, so that an instance is identified  *)
(* with its document.  Groups of transitions and server actions of         *)
(* activities are left out; the expression of a condition reads documents  *)
(* and the action of an activity writes its own document, or creates the   *)
(* document of a subflow.                                                  *)
(***************************************************************************)
EXTENDS Naturals, Functions, FiniteSets, SequencesExt

CONSTANTS
    Request,        \* concurrent requests
    Doc,            \* documents with a workflow, or that a workflow waits for
    FlowOf,         \* [Doc -> workflow]
    Start,          \* [Doc -> SUBSET Activity]: flow_start
    Activity,       \* [name -> [kind, split_mode, join_mode, flow_stop, signal_send, writes]]
    Transition,     \* [id -> [act_from, act_to, signal]]
    Condition(_, _, _), \* does transition t hold for document d, given the facts?
    Trigger(_, _),  \* documents that the trigger expression of t yields for d
    SubDoc(_, _),   \* the document that a subflow activity creates for d
    Signals,        \* [Doc -> signals that users send]
    Facts,          \* [Doc -> what users write into the document]
    Created,        \* documents that users create first: a behaviour has one of them,
    Deleted,        \* documents that they delete,
    Merged,         \* <<old, new, signal>>: orders replaced by another, and cancelled
    Telling,        \* documents whose methods write, then call trg_trigger
    None,
    MaxItems,       \* bound: work item ids
    MaxSteps        \* bound: calls that a request makes of the engine

ASSUME WorkflowAssumption ==
    /\ MaxItems \in Nat /\ MaxSteps \in Nat
    /\ IsFiniteSet(Doc) /\ None \notin Doc \cup {"active", "complete", "gone"}
    /\ Created \cup Deleted \subseteq Doc /\ Start \in [Doc -> SUBSET DOMAIN Activity]
    /\ \A m \in Merged : {m[1], m[2]} \subseteq Doc
    /\ IsFiniteSet(DOMAIN Activity) /\ IsFiniteSet(DOMAIN Transition)
    /\ \A a \in DOMAIN Activity :
        /\ Activity[a].kind \in {"dummy", "function", "stopall", "subflow"}
        /\ Activity[a].split_mode \in {"XOR", "OR", "AND"} /\ Activity[a].join_mode \in {"XOR", "AND"}
        /\ Activity[a].kind = "subflow" => \A d \in Doc : SubDoc(a, d) \in Doc
    /\ \A t \in DOMAIN Transition :
        /\ {Transition[t].act_from, Transition[t].act_to} \subseteq DOMAIN Activity
        /\ \A d \in Doc : Trigger(t, d) \subseteq Doc

VARIABLES
    db,             \* the committed rows
    sess            \* [Request -> its open transaction, or Closed]

vars == <<db, sess>>

\* inst: wkf_instance.state; items: wkf_workitem; marks: wkf_witm_trans, each
\* with the item that took the transition; trig: wkf_triggers; facts: documents.
NoRows == [inst  |-> [d \in Doc |-> None],
           items |-> << >>,
           marks |-> {},
           trig  |-> {},
           facts |-> [d \in Doc |-> {}]]

\* Rows by table, to tell which transactions conflict.
Untouched == [item |-> {}, mark |-> {}, inst |-> {}, doc |-> {}]

Closed == [open |-> FALSE, snap |-> NoRows, missed |-> Untouched]

\* The name of a sub-instance's activity as the signal sent upwards.
Subflow(a) == <<"subflow", a>>

Out(a) == {t \in DOMAIN Transition : Transition[t].act_from = a}
Into(a) == {t \in DOMAIN Transition : Transition[t].act_to = a}
MarksOf(b, t, d) == {m \in b.marks : m.trans = t /\ m.inst = d}
ItemsOf(b, d) == {i \in DOMAIN b.items : b.items[i].inst = d}
Waiting(b, d) == {i \in DOMAIN b.items : b.items[i].sub = d}
Parents(b, d) == {b.items[i].inst : i \in Waiting(b, d)}

Exists(b, d) == b.inst[d] \in {"active", "complete"}

\* wkf_expr.check
Check(b, t, d, signal) ==
    /\ Transition[t].signal \in {None, signal}
    /\ Condition(t, d, b.facts)

-----------------------------------------------------------------------------
(* Statements.  v is a request under way: its rows, the rows it updated or   *)
(* deleted, the ids it may use, the order in which SELECT returns rows,      *)
(* whether actions of subflows return a document, whether it has failed, and *)
(* the calls it has still to make, the next one first.                       *)

Rows(v, S) == IF v.up THEN SetToSeq(S) ELSE Reverse(SetToSeq(S))

Raise(v) == [v EXCEPT !.ok = FALSE]

\* The calls, then what is still to be done.
Call(v, calls) == [v EXCEPT !.todo = calls \o @]

SetState(v, I, state) ==
    [v EXCEPT !.db.items = [i \in DOMAIN @ |-> IF i \in I THEN [@[i] EXCEPT !.state = state] ELSE @[i]],
              !.touched.item = @ \cup (I \cap DOMAIN v.db.items)]

SetSub(v, I, d) ==
    [v EXCEPT !.db.items = [i \in DOMAIN @ |-> IF i \in I THEN [@[i] EXCEPT !.sub = d] ELSE @[i]],
              !.touched.item = @ \cup (I \cap DOMAIN v.db.items)]

SetInstance(v, d, state) == [v EXCEPT !.db.inst[d] = state, !.touched.inst = @ \cup {d}]

\* delete from wkf_workitem, with the triggers that cascade
DeleteItems(v, I) ==
    [v EXCEPT !.db.items = Restrict(@, DOMAIN @ \ I),
              !.db.trig = {g \in @ : g.item \notin I},
              !.touched.item = @ \cup (I \cap DOMAIN v.db.items)]

DeleteMarks(v, M) ==
    [v EXCEPT !.db.marks = @ \ M, !.touched.mark = @ \cup M]

\* delete from wkf_instance, with all that cascades: also the items that wait
\* for this instance in others.
DeleteInstance(v, d) ==
    LET u == DeleteItems(v, ItemsOf(v.db, d) \cup Waiting(v.db, d))
    IN  SetInstance(DeleteMarks(u, {m \in u.db.marks : m.inst = d}), d, "gone")

\* insert into wkf_triggers, for each transition with a trigger model
Watch(v, w) ==
    LET rows == {[doc |-> x, item |-> w.id] :
                    x \in UNION {Trigger(t, w.inst) : t \in Out(w.act)}}
    IN  IF rows # {} /\ w.id \notin DOMAIN v.db.items THEN Raise(v)
        ELSE [v EXCEPT !.db.trig = @ \cup rows]

-----------------------------------------------------------------------------
(* The interpreter: instance.py and workitem.py.                             *)

Validate(d, signal, force) == [do |-> "validate", inst |-> d, signal |-> signal, force |-> force]

\* instance.update does what validate does, with no signal.
Update(d) == Validate(d, None, FALSE)

trg_write(v, d) == IF v.db.inst[d] = "active" THEN Call(v, <<Update(d)>>) ELSE v

\* Mutant of Write: the workflow is not told.
WriteOnly(v, d, facts) == [v EXCEPT !.db.facts[d] = @ \cup facts, !.touched.doc = @ \cup {d}]

\* orm.write
Write(v, d, facts) ==
    trg_write([v EXCEPT !.db.facts[d] = @ \cup facts, !.touched.doc = @ \cup {d}], d)

\* workitem.create for one activity
create(v, a, d) ==
    LET i == Min(v.ids)
        row == [act |-> a, inst |-> d, state |-> "active", sub |-> None]
        w == [id |-> i, act |-> a, inst |-> d, state |-> "active"]
    IN  IF v.ids = {} THEN Raise(v)
        ELSE Call([v EXCEPT !.ids = @ \ {i},
                            !.db.items = [k \in DOMAIN @ \cup {i} |-> IF k = i THEN row ELSE @[k]]],
                  <<[do |-> "process", w |-> w, signal |-> None, force |-> FALSE]>>)

\* instance.create
CreateInstance(v, d) ==
    LET acts == Rows(v, Start[d])
    IN  Call(SetInstance(v, d, "active"),
             [k \in DOMAIN acts |-> [do |-> "create", act |-> acts[k], inst |-> d]] \o <<Update(d)>>)

\* Mutants of UpdateEnd: any complete item ends the instance; the items that wait
\* are not told.
EndsAnywhere(v, d) ==
    IF \A i \in ItemsOf(v.db, d) : v.db.items[i].state = "complete"
    THEN SetInstance(v, d, "complete") ELSE v
EndsSilently(v, d) ==
    IF \A i \in ItemsOf(v.db, d) :
        v.db.items[i].state = "complete" /\ Activity[v.db.items[i].act].flow_stop
    THEN SetInstance(v, d, "complete") ELSE v

\* _update_end.  An instance without a work item counts as complete.
UpdateEnd(v, d) ==
    LET own == ItemsOf(v.db, d)
        ended == \A i \in own : /\ v.db.items[i].state = "complete"
                                /\ Activity[v.db.items[i].act].flow_stop
        parents == Rows(v, Parents(v.db, d))
    IN  IF ~ended THEN v
        ELSE Call(SetState(SetInstance(v, d, "complete"), Waiting(v.db, d), "complete"),
                  [k \in DOMAIN parents |->
                    [do |-> "tell", inst |-> parents[k], names |-> {v.db.items[i].act : i \in own}]])

\* The signals of _update_end for one parent.
Tell(v, d, names) ==
    LET acts == Rows(v, names)
    IN  Call(v, [k \in DOMAIN acts |-> Validate(d, Subflow(acts[k]), FALSE)])

\* instance.validate: the rows are fetched once, and each is processed as it
\* was then, whatever the ones before it did to the table.
validate(v, d, signal, force) ==
    LET ids == Rows(v, ItemsOf(v.db, d))
        Item(i) == [id |-> i, act |-> v.db.items[i].act, inst |-> d, state |-> v.db.items[i].state]
    IN  Call(v, [k \in DOMAIN ids |->
                    [do |-> "process", w |-> Item(ids[k]), signal |-> signal, force |-> force]]
                \o <<[do |-> "end", inst |-> d]>>)

\* wkf_expr.execute of an action that writes its document, or of none
Perform(v, a, d) ==
    IF Activity[a].writes = {} THEN v ELSE Write(v, d, Activity[a].writes)

\* The subflow branch of _execute: c is the rest of it.
Descend(v, w, c) ==
    LET s == SubDoc(w.act, w.inst)
        run == Call(SetState(v, {w.id}, "running"), <<c>>)
    IN  IF ~v.yes THEN DeleteItems(v, {w.id})
        ELSE CASE v.db.inst[s] = None -> CreateInstance(run, s)
               [] v.db.inst[s] = "gone" -> Raise(v)
               [] OTHER -> run

\* _execute, of an active work item, up to what follows its action.
Execute(v, w, signal, force) ==
    LET act == Activity[w.act]
        up == IF act.signal_send = None THEN {} ELSE Parents(v.db, w.inst)
        c == [do |-> "executed", w |-> w, parents |-> up, signal |-> signal, force |-> force]
        run == Call(SetState(v, {w.id}, "running"), <<c>>)
        alone == DeleteItems(run, ItemsOf(v.db, w.inst) \ {w.id})
    IN  CASE act.kind = "dummy" -> Call(v, <<c>>)
          [] act.kind = "function" -> Perform(run, w.act, w.inst)
          [] act.kind = "stopall" -> Perform(alone, w.act, w.inst)
          [] act.kind = "subflow" -> Descend(v, w, c)

\* What follows: the item waits for its subflow or is complete, and signal_send
\* goes to the instances that waited for this one.
Executed(v, c) ==
    LET w == c.w
        act == Activity[w.act]
        s == SubDoc(w.act, w.inst)
        bound == IF act.kind = "subflow" THEN SetSub(v, {w.id}, s) ELSE v
        waits == act.kind = "subflow" /\ v.db.inst[s] # "complete"
        parents == Rows(v, c.parents)
    IN  Call(IF waits THEN bound ELSE SetState(bound, {w.id}, "complete"),
             [k \in DOMAIN parents |-> Validate(parents[k], act.signal_send, TRUE)]
             \o <<[do |-> "leave", w |-> w, state |-> IF waits THEN "running" ELSE "complete",
                   signal |-> c.signal, force |-> c.force]>>)

\* Mutants of JoinTest: the mark stays; one branch is enough.
KeepsMark(v, t, d) ==
    IF Activity[Transition[t].act_to].join_mode = "XOR" \/
       \A u \in Into(Transition[t].act_to) : MarksOf(v.db, u, d) # {}
    THEN create(v, Transition[t].act_to, d) ELSE v
AnyBranch(v, t, d) == create(Call(v, <<[do |-> "unmark", trans |-> t, inst |-> d]>>), Transition[t].act_to, d)

\* _join_test
JoinTest(v, t, d) ==
    LET a == Transition[t].act_to
        in == UNION {MarksOf(v.db, u, d) : u \in Into(a)}
    IN  IF Activity[a].join_mode = "XOR"
        THEN create(Call(v, <<[do |-> "unmark", trans |-> t, inst |-> d]>>), a, d)
        ELSE IF \A u \in Into(a) : MarksOf(v.db, u, d) # {} THEN create(DeleteMarks(v, in), a, d)
        ELSE v

\* The transitions that _split_test takes.
Taken(v, w, signal) ==
    LET mode == Activity[w.act].split_mode
        holding == {t \in Out(w.act) : Check(v.db, t, w.inst, signal)}
    IN  CASE mode = "OR" -> holding
          [] mode = "XOR" -> IF holding = {} THEN {} ELSE {Head(Rows(v, holding))}
          [] mode = "AND" -> IF holding # Out(w.act) THEN {}
                             ELSE {t \in holding : MarksOf(v.db, t, w.inst) = {}}

\* The rest of _split_test.
SplitTest(v, w, taken) ==
    LET joins == Rows(v, taken)
    IN  Call([DeleteItems(v, {w.id}) EXCEPT
                !.db.marks = @ \cup {[trans |-> t, inst |-> w.inst, by |-> w.id] : t \in taken}],
             [k \in DOMAIN joins |-> [do |-> "join", trans |-> joins[k], inst |-> w.inst]])

\* workitem.process, once the activity has been executed.
Leave(v, w, state, signal, force) ==
    LET taken == IF state = "complete" \/ force THEN Taken(v, w, signal) ELSE {}
    IN  IF taken # {} THEN SplitTest(v, w, taken)
        ELSE IF w.state = "active" THEN Watch(v, w) ELSE v

\* workitem.process
process(v, w, signal, force) ==
    IF w.state = "active" THEN Execute(v, w, signal, force) ELSE Leave(v, w, w.state, signal, force)

-----------------------------------------------------------------------------
(* wkf_service.py: what requests call.                                       *)

trg_trigger(v, x) ==
    LET told == Rows(v, {v.db.items[g.item].inst : g \in {h \in v.db.trig : h.doc = x}})
    IN  Call(v, [k \in DOMAIN told |-> Update(told[k])])

trg_redirect(v, old, new) ==
    IF Exists(v.db, old) /\ v.db.inst[new] = "active" /\ FlowOf[old] = FlowOf[new]
    THEN SetSub(v, Waiting(v.db, old), new)
    ELSE v

trg_validate(v, d, signal) ==
    IF v.db.inst[d] = "active" THEN Call(v, <<Validate(d, signal, FALSE)>>) ELSE v

\* purchase.order do_merge, for one order: m = <<old, new, signal>>
Merge(v, m) ==
    CreateInstance(Call(v, <<[do |-> "redirect", old |-> m[1], new |-> m[2]],
                             [do |-> "signal", inst |-> m[1], signal |-> m[3]]>>), m[2])

\* A method that writes a document, and tells the workflows that wait for it.
Change(v, d, f) ==
    IF d \in Telling THEN Write(Call(v, <<[do |-> "trigger", doc |-> d]>>), d, {f}) ELSE Write(v, d, {f})

\* The requests that can be made of the rows v.db, before their first call.
Requests(v) ==
    (UNION {{trg_validate(v, d, s) : s \in Signals[d]} : d \in {e \in Doc : Exists(v.db, e)}})
    \cup (UNION {{Change(v, d, f) : f \in Facts[d]} : d \in {e \in Doc : Start[e] = {} \/ Exists(v.db, e)}})
    \cup {DeleteInstance(v, d) : d \in {e \in Deleted : Exists(v.db, e)}}
    \cup {Merge(v, m) : m \in {n \in Merged : v.db.inst[n[1]] = "active" /\ v.db.inst[n[2]] = None}}

-----------------------------------------------------------------------------
(* Running a request.                                                        *)

Make(v, c) ==
    CASE c.do = "create" -> create(v, c.act, c.inst)
      [] c.do = "validate" -> validate(v, c.inst, c.signal, c.force)
      [] c.do = "process" -> process(v, c.w, c.signal, c.force)
      [] c.do = "executed" -> Executed(v, c)
      [] c.do = "leave" -> Leave(v, c.w, c.state, c.signal, c.force)
      [] c.do = "join" -> JoinTest(v, c.trans, c.inst)
      [] c.do = "unmark" -> DeleteMarks(v, MarksOf(v.db, c.trans, c.inst))
      [] c.do = "end" -> UpdateEnd(v, c.inst)
      [] c.do = "tell" -> Tell(v, c.inst, c.names)
      [] c.do = "trigger" -> trg_trigger(v, c.doc)
      [] c.do = "redirect" -> trg_redirect(v, c.old, c.new)
      [] c.do = "signal" -> trg_validate(v, c.inst, c.signal)

Step(v) ==
    IF v.todo = << >> \/ ~v.ok THEN v ELSE Make([v EXCEPT !.todo = Tail(@)], Head(v.todo))

\* A request, run to its end (bound: MaxSteps calls).
Run(v) ==
    LET at[n \in 0 .. MaxSteps] == IF n = 0 THEN v ELSE Step(at[n - 1])
    IN  at[MaxSteps]

-----------------------------------------------------------------------------
(* Transactions.                                                             *)

Begin(r) ==
    /\ ~sess[r].open
    /\ sess' = [sess EXCEPT ![r] = [open |-> TRUE, snap |-> db, missed |-> Untouched]]
    /\ UNCHANGED db

\* Ids come from a PostgreSQL sequence: nobody else uses or remembers them.
Free == (1 .. MaxItems) \ (DOMAIN db.items \cup
            UNION {DOMAIN sess[r].snap.items \cup sess[r].missed.item : r \in Request})

Fresh(b, ids, up, yes) ==
    [db |-> b, touched |-> Untouched, ids |-> ids, up |-> up, yes |-> yes, ok |-> TRUE, todo |-> << >>]

\* The requests that can be made of the rows b, each run to its end.
Evaluated(b) ==
    {v \in {Run(q) : q \in UNION {Requests(Fresh(b, Free, up, yes)) : up, yes \in BOOLEAN}} :
        v.ok /\ v.todo = << >>}

\* The committed rows, with those that a request made old into new.
Published(old, new) ==
    LET gone == DOMAIN old.items \ DOMAIN new.items
        own == {i \in DOMAIN new.items : i \notin DOMAIN old.items \/ new.items[i] # old.items[i]}
        Column(f, g, now) == [d \in Doc |-> IF g[d] = f[d] THEN now[d] ELSE g[d]]
    IN  [inst  |-> Column(old.inst, new.inst, db.inst),
         items |-> [i \in own \cup (DOMAIN db.items \ gone) |->
                        IF i \in own THEN new.items[i] ELSE db.items[i]],
         marks |-> (db.marks \ (old.marks \ new.marks)) \cup (new.marks \ old.marks),
         trig  |-> (db.trig \ (old.trig \ new.trig)) \cup (new.trig \ old.trig),
         facts |-> Column(old.facts, new.facts, db.facts)]

\* The foreign keys of base.sql.
References(b) ==
    /\ \A i \in DOMAIN b.items : \A d \in {b.items[i].inst, b.items[i].sub} \ {None} : Exists(b, d)
    /\ \A m \in b.marks : Exists(b, m.inst)
    /\ \A g \in b.trig : g.item \in DOMAIN b.items

\* Mutant of Serializes: only documents are protected.
GuardsDocuments(v, s) == v.touched.doc \cap s.missed.doc = {}

\* No row of its own was updated or deleted by a request committed meanwhile.
Serializes(v, s) == \A k \in DOMAIN Untouched : v.touched[k] \cap s.missed[k] = {}

Commit(r) ==
    /\ sess[r].open
    /\ \E v \in Evaluated(sess[r].snap) :
        /\ Serializes(v, sess[r])
        /\ References(Published(sess[r].snap, v.db))
        /\ db' = Published(sess[r].snap, v.db)
        /\ sess' = [q \in Request |->
                        IF q = r \/ ~sess[q].open THEN Closed
                        ELSE [sess[q] EXCEPT !.missed = [k \in DOMAIN @ |-> @[k] \cup v.touched[k]]]]

\* A conflict, an exception, a process that dies: the rows stay.
Abort(r) ==
    /\ sess[r].open
    /\ sess' = [sess EXCEPT ![r] = Closed]
    /\ UNCHANGED db

\* trg_create has started the workflow of a document.
Init ==
    /\ sess = [r \in Request |-> Closed]
    /\ \E d \in Created : \E v \in {Run(CreateInstance(Fresh(NoRows, 1 .. MaxItems, TRUE, TRUE), d))} :
        v.ok /\ v.todo = << >> /\ db = v.db

Next == \E r \in Request : Begin(r) \/ Commit(r) \/ Abort(r)

Spec == Init /\ [][Next]_vars

-----------------------------------------------------------------------------
(* Correctness.                                                              *)

\* The rows are well formed and refer to rows that exist.  No item is left half
\* executed: it is complete, or runs until its subflow ends (workitem.py:79-145).  A
\* mark outlives its request only while it waits for the other marks of an AND join.
TypeOK ==
    /\ db.inst \in [Doc -> {None, "active", "complete", "gone"}]
    /\ \A i \in DOMAIN db.items :
        /\ db.items[i].act \in DOMAIN Activity
        /\ db.items[i].state = "complete" \/ (db.items[i].state = "running" /\ db.items[i].sub # None)
    /\ \A m \in db.marks : Activity[Transition[m.trans].act_to].join_mode = "AND"
    /\ References(db)

\* No token is duplicated: an instance never has two items in one activity nor
\* takes a transition into a join twice, whatever requests ran side by side and
\* although validate and update process rows that may be gone (instance.py:38-53).
\* It holds of workflows that are safe as nets, as those of MCWorkflow are.
OneToken ==
    /\ \A i, j \in DOMAIN db.items :
        db.items[i].inst = db.items[j].inst /\ db.items[i].act = db.items[j].act => i = j
    /\ \A m, n \in db.marks : m.inst = n.inst /\ m.trans = n.trans => m = n

\* A complete instance has nothing left to do, and no request that began before
\* its end gives it anything to do afterwards (instance.py:55-73).
CompleteIsDone ==
    \A i \in DOMAIN db.items :
        db.inst[db.items[i].inst] = "complete" =>
            db.items[i].state = "complete" /\ Activity[db.items[i].act].flow_stop

\* An item that waits for a sub-instance knows of its end, also when the order it
\* waited for was merged into another (instance.py:67-72, wkf_service.py:123-152).
\* It holds where each subflow is created for its item, as in MCWorkflow: an order
\* that exists already may be cancelled while another request makes an item wait for it.
Untold(b) == {i \in DOMAIN b.items : /\ b.items[i].sub # None /\ b.inst[b.items[i].sub] = "complete"
                                     /\ b.items[i].state # "complete"}
WaitersTold == Untold(db) = {}

\* Only a race leaves an item untold: after the commit of a request that found every
\* item told, an item that is not had been changed since by others, or its subflow
\* had (instance.py:67-72, workitem.py:126-145).
UntoldByRaceOnly ==
    [][\A r \in Request :
        db' # db /\ sess[r].open /\ ~sess'[r].open /\ Untold(sess[r].snap) = {} =>
            \A i \in Untold(db') :
                \/ db.inst[db'.items[i].sub] # sess[r].snap.inst[db'.items[i].sub]
                \/ /\ i \in DOMAIN db.items
                   /\ i \in DOMAIN sess[r].snap.items => db.items[i] # sess[r].snap.items[i]]_vars

\* An instance is created, ends and is deleted, and never goes back, whatever a
\* request saw of it when it began (instance.py:22-36, 67).
Onward(x, y) == x = y \/ x = None \/ (x = "active" /\ y # None) \/ (x = "complete" /\ y = "gone")
InstancesAdvance == [][\A d \in Doc : Onward(db.inst[d], db'.inst[d])]_vars

\* Nothing can move on its own: no complete item of an active instance has a
\* transition that holds without a signal, no AND join has all its marks.
Settled(b) ==
    /\ \A i \in DOMAIN b.items :
        b.items[i].state = "complete" /\ b.inst[b.items[i].inst] = "active" =>
            Taken([db |-> b, up |-> TRUE], b.items[i], None) = {}
    /\ \A a \in DOMAIN Activity, d \in Doc :
        Activity[a].join_mode = "AND" /\ Into(a) # {} =>
            \E t \in Into(a) : MarksOf(b, t, d) = {}

\* A request that runs alone leaves nothing behind: the triggers, the nested
\* trg_write and the signals to parents reach every item that can move.
SerialSettles ==
    [][\A r \in Request :
        db' # db /\ sess[r].open /\ ~sess'[r].open /\ sess[r].snap = db /\ Settled(db)
            => Settled(db')]_vars

\* So does a set of requests: the engine relies on the isolation that sql_db
\* promises (sql_db.py:97-105).
JoinsFire == Settled(db)
=============================================================================
