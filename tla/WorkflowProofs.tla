--------------------------- MODULE WorkflowProofs ---------------------------
(***************************************************************************)
(* Proofs about Workflow, for every set of workflows, documents and        *)
(* requests: the types, the foreign keys, that a mark outlives its request *)
(* only at an AND join, that no item is left half executed and none misses *)
(* the end of its subflow but by a race, and that instances only advance.  *)
(*                                                                         *)
(* A request is followed from call to call: Sound says of a request under  *)
(* way that its rows are well formed, that the instances its pending calls *)
(* work for exist, and that each mark of an XOR join has a pending call    *)
(* that will look at it or take it away.  Every operator of the            *)
(* interpreter keeps Sound, so that the rows with which a request ends are *)
(* Kept; a commit puts them among rows that are.                           *)
(*                                                                         *)
(* Under follows the same calls once more: every item is at rest or has a  *)
(* pending call that resumes it, and no instance is behind where it was.   *)
(* A request therefore ends with its items Resting, and a commit puts them *)
(* among items that are, unless others wrote what it had read.             *)
(***************************************************************************)
EXTENDS Workflow, FiniteSetTheorems, WellFoundedInduction, TLAPS

-----------------------------------------------------------------------------
(* Types.                                                                    *)

Act == DOMAIN Activity
Id == 1 .. MaxItems
ItemState == {"active", "running", "complete"}
ItemRow == [act : Act, inst : Doc, state : ItemState, sub : Doc \cup {None}]
Mark == [trans : DOMAIN Transition, inst : Doc, by : Id]
Fact == (UNION {Facts[d] : d \in Doc}) \cup (UNION {Activity[a].writes : a \in Act})
Items == UNION {[I -> ItemRow] : I \in SUBSET Id}
Table == [inst : [Doc -> {None, "active", "complete", "gone"}], items : Items, marks : SUBSET Mark,
          trig : SUBSET [doc : Doc, item : Id], facts : [Doc -> SUBSET Fact]]
Touched == [item : SUBSET Id, mark : SUBSET Mark, inst : SUBSET Doc, doc : SUBSET Doc]

Work == [id : Id, act : Act, inst : Doc, state : ItemState]
Ends == {Subflow(a) : a \in Act}
Signal == {None} \cup (UNION {Signals[d] : d \in Doc}) \cup Ends
            \cup {Activity[a].signal_send : a \in Act} \cup {m[3] : m \in Merged}
CreateCalls == [do : {"create"}, act : Act, inst : Doc]
ValidateCalls == [do : {"validate"}, inst : Doc, signal : Signal, force : BOOLEAN]
ProcessCalls == [do : {"process"}, w : Work, signal : Signal, force : BOOLEAN]
ExecutedCalls == [do : {"executed"}, w : Work, parents : SUBSET Doc, signal : Signal, force : BOOLEAN]
LeaveCalls == [do : {"leave"}, w : Work, state : ItemState, signal : Signal, force : BOOLEAN]
MarkCalls == [do : {"join", "unmark"}, trans : DOMAIN Transition, inst : Doc]
EndCalls == [do : {"end"}, inst : Doc]
TellCalls == [do : {"tell"}, inst : Doc, names : SUBSET Act]
TriggerCalls == [do : {"trigger"}, doc : Doc]
RedirectCalls == [do : {"redirect"}, old : Doc, new : Doc]
SignalCalls == [do : {"signal"}, inst : Doc, signal : Signal]
Calls == CreateCalls \cup ValidateCalls \cup ProcessCalls \cup ExecutedCalls \cup LeaveCalls \cup MarkCalls
            \cup EndCalls \cup TellCalls \cup TriggerCalls \cup RedirectCalls \cup SignalCalls

Running == [db : Table, touched : Touched, ids : SUBSET Id, up : BOOLEAN, yes : BOOLEAN, ok : BOOLEAN,
            todo : Seq(Calls)]

\* The documents whose instances call c works for.
Names(c) ==
    CASE c.do \in {"create", "validate", "join", "end", "tell"} -> {c.inst}
      [] c.do \in {"process", "leave"} -> {c.w.inst}
      [] c.do = "executed" ->
           {c.w.inst} \cup c.parents
           \cup (IF Activity[c.w.act].kind = "subflow" THEN {SubDoc(c.w.act, c.w.inst)} ELSE {})
      [] OTHER -> {}

\* Call c will take the mark m away, or find that it belongs to an AND join.
Cleans(c, m) == c.do \in {"join", "unmark"} /\ c.trans = m.trans /\ c.inst = m.inst

\* Every mark belongs to an AND join or is still to be looked at, by a pending
\* call or one of X.
Sound(v, X) ==
    /\ v \in Running /\ References(v.db) /\ v.ids \cap DOMAIN v.db.items = {}
    /\ \A k \in DOMAIN v.todo : \A d \in Names(v.todo[k]) : Exists(v.db, d)
    /\ \A m \in v.db.marks :
        \/ Activity[Transition[m.trans].act_to].join_mode = "AND"
        \/ \E c \in X : Cleans(c, m)
        \/ \E k \in DOMAIN v.todo : Cleans(v.todo[k], m)

\* What a statement may do: u keeps what is pending, and every instance.
Follows(u, v) ==
    /\ u.todo = v.todo /\ u.up = v.up /\ u.yes = v.yes
    /\ \A d \in Doc : Exists(v.db, d) => Exists(u.db, d)

\* The fields of a call, by its name.
LEMMA Shapes ==
  ASSUME NEW c \in Calls
  PROVE  /\ c.do = "create" => c \in CreateCalls
         /\ c.do = "validate" => c \in ValidateCalls
         /\ c.do = "process" => c \in ProcessCalls
         /\ c.do = "executed" => c \in ExecutedCalls
         /\ c.do = "leave" => c \in LeaveCalls
         /\ c.do \in {"join", "unmark"} => c \in MarkCalls
         /\ c.do = "end" => c \in EndCalls
         /\ c.do = "tell" => c \in TellCalls
         /\ c.do = "trigger" => c \in TriggerCalls
         /\ c.do = "redirect" => c \in RedirectCalls
         /\ c.do = "signal" => c \in SignalCalls
         /\ c.do \in {"create", "validate", "process", "executed", "leave", "join", "unmark", "end", "tell",
                      "trigger", "redirect", "signal"}
  BY DEF Calls, CreateCalls, ValidateCalls, ProcessCalls, ExecutedCalls, LeaveCalls, MarkCalls, EndCalls,
         TellCalls, TriggerCalls, RedirectCalls, SignalCalls

\* Calls work for documents.
LEMMA NamesIs ==
  ASSUME NEW c \in Calls
  PROVE  Names(c) \subseteq Doc
  <1>1. CASE c.do \in {"create", "validate", "join", "end", "tell"}
    <2>1. c.inst \in Doc
      BY <1>1, Shapes DEF CreateCalls, ValidateCalls, MarkCalls, EndCalls, TellCalls
    <2> QED BY <1>1, <2>1 DEF Names
  <1>2. CASE c.do \in {"process", "leave"}
    <2>1. c.w \in Work BY <1>2, Shapes DEF ProcessCalls, LeaveCalls
    <2> QED BY <1>2, <2>1 DEF Names, Work
  <1>3. CASE c.do = "executed"
    <2>1. c.w \in Work /\ c.parents \subseteq Doc BY <1>3, Shapes DEF ExecutedCalls
    <2>2. c.w.act \in DOMAIN Activity /\ c.w.inst \in Doc BY <2>1 DEF Work, Act
    <2>3. Activity[c.w.act].kind = "subflow" => SubDoc(c.w.act, c.w.inst) \in Doc
      BY <2>2, WorkflowAssumption
    <2> QED BY <1>3, <2>1, <2>2, <2>3 DEF Names
  <1>4. CASE c.do \in {"unmark", "trigger", "redirect", "signal"} BY <1>4 DEF Names
  <1> QED BY <1>1, <1>2, <1>3, <1>4, Shapes

\* The fields of a request under way.
LEMMA Fields ==
  ASSUME NEW v, NEW X, Sound(v, X)
  PROVE  /\ v \in Running /\ v.db \in Table /\ v.touched \in Touched /\ v.ids \subseteq Id
         /\ v.up \in BOOLEAN /\ v.yes \in BOOLEAN /\ v.ok \in BOOLEAN /\ v.todo \in Seq(Calls)
         /\ v.db.items \in Items /\ v.db.marks \subseteq Mark /\ References(v.db)
         /\ DOMAIN v.db.items \subseteq Id
         /\ \A i \in DOMAIN v.db.items : v.db.items[i] \in ItemRow
         /\ v.ids \cap DOMAIN v.db.items = {}
  BY DEF Sound, Running, Table, Items

LEMMA ItemsIs ==
  ASSUME NEW D \in SUBSET Id, NEW f, f = [i \in D |-> f[i]], \A i \in D : f[i] \in ItemRow
  PROVE  f \in Items /\ DOMAIN f = D
  BY DEF Items

\* A statement changes rows and locks some.
With(v, b, t) == [v EXCEPT !.db = b, !.touched = t]

LEMMA WithIs ==
  ASSUME NEW v \in Running, NEW b \in Table, NEW t \in Touched
  PROVE  /\ With(v, b, t) \in Running /\ With(v, b, t).db = b /\ With(v, b, t).ids = v.ids
         /\ With(v, b, t).todo = v.todo /\ With(v, b, t).up = v.up /\ With(v, b, t).yes = v.yes
         /\ With(v, b, t).ok = v.ok
  BY DEF Running, With

\* Rows that keep every instance and every foreign key keep the request sound.
LEMMA WithSound ==
  ASSUME NEW v, NEW X, Sound(v, X), NEW b \in Table, NEW t \in Touched, References(b),
         v.ids \cap DOMAIN b.items = {}, \A d \in Doc : Exists(v.db, d) => Exists(b, d),
         \A m \in b.marks \ v.db.marks :
            Activity[Transition[m.trans].act_to].join_mode = "AND" \/ \E c \in X : Cleans(c, m)
  PROVE  Sound(With(v, b, t), X) /\ Follows(With(v, b, t), v) /\ With(v, b, t).db = b
  <1> DEFINE u == With(v, b, t)
  <1>1. /\ u \in Running /\ u.db = b /\ u.ids = v.ids /\ u.todo = v.todo /\ u.up = v.up /\ u.yes = v.yes
        /\ u.ok = v.ok
    BY Fields, WithIs
  <1> HIDE DEF u
  <1>2. ASSUME NEW k \in DOMAIN u.todo, NEW d \in Names(u.todo[k]) PROVE Exists(u.db, d)
    <2>1. u.todo[k] \in Calls BY <1>1 DEF Running
    <2>2. d \in Doc BY <2>1, NamesIs
    <2>3. Exists(v.db, d) BY <1>1 DEF Sound
    <2> QED BY <1>1, <2>2, <2>3
  <1>3. Sound(u, X) BY <1>1, <1>2 DEF Sound
  <1>4. Follows(u, v) BY <1>1 DEF Follows
  <1> QED BY <1>1, <1>3, <1>4 DEF u

\* An exception changes no row.
LEMMA RaiseIs ==
  ASSUME NEW v, NEW X, Sound(v, X)
  PROVE  Sound(Raise(v), X)
  <1>1. /\ Raise(v) \in Running /\ Raise(v).db = v.db /\ Raise(v).ids = v.ids /\ Raise(v).todo = v.todo
    BY Fields DEF Raise, Running
  <1> HIDE DEF Raise
  <1> QED BY <1>1 DEF Sound

Puts(b, items) == [b EXCEPT !.items = items]
Locks(t, T) == [t EXCEPT !.item = @ \cup T]

\* A change of items that are there.
LEMMA SetItems ==
  ASSUME NEW v, NEW X, Sound(v, X), NEW new, DOMAIN new = DOMAIN v.db.items,
         new = [i \in DOMAIN new |-> new[i]],
         \A i \in DOMAIN new : new[i] \in ItemRow /\ new[i].inst = v.db.items[i].inst,
         \A i \in DOMAIN new : new[i].sub = v.db.items[i].sub \/ Exists(v.db, new[i].sub),
         NEW T \in SUBSET Id
  PROVE  LET b == Puts(v.db, new)
             t == Locks(v.touched, T)
         IN  Sound(With(v, b, t), X) /\ Follows(With(v, b, t), v) /\ With(v, b, t).db.inst = v.db.inst
  <1> DEFINE b == Puts(v.db, new)
             t == Locks(v.touched, T)
  <1>1. DOMAIN new \subseteq Id /\ new \in Items BY Fields, ItemsIs
  <1>2. b \in Table /\ b.inst = v.db.inst /\ b.items = new /\ b.marks = v.db.marks /\ b.trig = v.db.trig
    BY <1>1, Fields DEF Table, Puts
  <1>3. t \in Touched BY Fields DEF Touched, Locks
  <1> HIDE DEF b, t
  <1>4. References(b)
    <2>1. ASSUME NEW i \in DOMAIN new, NEW d \in {new[i].inst, new[i].sub} \ {None} PROVE Exists(b, d)
      BY <1>2, <2>1, Fields DEF References, Exists
    <2> QED BY <1>2, <2>1, Fields DEF References, Exists
  <1>5. \A d \in Doc : Exists(v.db, d) => Exists(b, d) BY <1>2 DEF Exists
  <1>6. v.ids \cap DOMAIN b.items = {} BY <1>2, Fields
  <1>7. b.marks \ v.db.marks = {} BY <1>2
  <1>8. Sound(With(v, b, t), X) /\ Follows(With(v, b, t), v) /\ With(v, b, t).db.inst = v.db.inst
    BY <1>2, <1>3, <1>4, <1>5, <1>6, <1>7, WithSound
  <1> QED BY <1>8 DEF b, t

\* update wkf_workitem set state (workitem.py:79-82).
LEMMA SetStateIs ==
  ASSUME NEW v, NEW X, Sound(v, X), NEW I, NEW state \in ItemState
  PROVE  /\ Sound(SetState(v, I, state), X) /\ Follows(SetState(v, I, state), v)
         /\ SetState(v, I, state).db.inst = v.db.inst
  <1> DEFINE f == v.db.items
             new == [i \in DOMAIN f |-> IF i \in I THEN [f[i] EXCEPT !.state = state] ELSE f[i]]
             T == I \cap DOMAIN f
             b == Puts(v.db, new)
             t == Locks(v.touched, T)
  <1>1. SetState(v, I, state) = With(v, b, t) BY Fields DEF SetState, With, Puts, Locks, Running, Table
  <1>2. \A i \in DOMAIN new : new[i] \in ItemRow /\ new[i].inst = f[i].inst /\ new[i].sub = f[i].sub
    BY Fields DEF ItemRow
  <1>3. DOMAIN new = DOMAIN f /\ new = [i \in DOMAIN new |-> new[i]] /\ T \in SUBSET Id BY Fields
  <1> HIDE DEF new, T
  <1>5. Sound(With(v, b, t), X) /\ Follows(With(v, b, t), v) /\ With(v, b, t).db.inst = v.db.inst
    BY <1>2, <1>3, SetItems
  <1> QED BY <1>1, <1>5

\* update wkf_workitem set subflow_id (workitem.py:138).
LEMMA SetSubIs ==
  ASSUME NEW v, NEW X, Sound(v, X), NEW I, NEW d \in Doc, Exists(v.db, d)
  PROVE  /\ Sound(SetSub(v, I, d), X) /\ Follows(SetSub(v, I, d), v)
         /\ SetSub(v, I, d).db.inst = v.db.inst
  <1> DEFINE f == v.db.items
             new == [i \in DOMAIN f |-> IF i \in I THEN [f[i] EXCEPT !.sub = d] ELSE f[i]]
             T == I \cap DOMAIN f
             b == Puts(v.db, new)
             t == Locks(v.touched, T)
  <1>1. SetSub(v, I, d) = With(v, b, t) BY Fields DEF SetSub, With, Puts, Locks, Running, Table
  <1>2. \A i \in DOMAIN new : new[i] \in ItemRow /\ new[i].inst = f[i].inst /\ new[i].sub \in {f[i].sub, d}
    BY Fields DEF ItemRow
  <1>3. DOMAIN new = DOMAIN f /\ new = [i \in DOMAIN new |-> new[i]] /\ T \in SUBSET Id BY Fields
  <1>5. \A i \in DOMAIN new : new[i].sub = v.db.items[i].sub \/ Exists(v.db, new[i].sub) BY <1>2
  <1> HIDE DEF new, T
  <1>6. Sound(With(v, b, t), X) /\ Follows(With(v, b, t), v) /\ With(v, b, t).db.inst = v.db.inst
    BY <1>2, <1>3, <1>5, SetItems
  <1> QED BY <1>1, <1>6

\* insert into wkf_instance, or its end (instance.py:25, 67).
LEMMA SetInstanceIs ==
  ASSUME NEW v, NEW X, Sound(v, X), NEW d \in Doc, NEW state \in {"active", "complete"}
  PROVE  /\ Sound(SetInstance(v, d, state), X) /\ Follows(SetInstance(v, d, state), v)
         /\ Exists(SetInstance(v, d, state).db, d) /\ SetInstance(v, d, state).db.items = v.db.items
  <1> DEFINE new == [v.db.inst EXCEPT ![d] = state]
             b == [v.db EXCEPT !.inst = new]
             t == [v.touched EXCEPT !.inst = @ \cup {d}]
  <1>1. SetInstance(v, d, state) = With(v, b, t) BY Fields DEF SetInstance, With, Running, Table
  <1>2. new \in [Doc -> {None, "active", "complete", "gone"}] BY Fields DEF Table
  <1>3. \A e \in Doc : new[e] = IF e = d THEN state ELSE v.db.inst[e] BY Fields DEF Table
  <1> HIDE DEF new
  <1>4. b \in Table /\ b.inst = new /\ b.items = v.db.items /\ b.marks = v.db.marks /\ b.trig = v.db.trig
    BY <1>2, Fields DEF Table
  <1>5. t \in Touched BY Fields DEF Touched
  <1> HIDE DEF b, t
  <1>6. Exists(b, d) /\ \A e \in Doc : Exists(v.db, e) => Exists(b, e) BY <1>3, <1>4 DEF Exists
  <1>7. References(b)
    <2>1. ASSUME NEW i \in DOMAIN b.items, NEW e \in {b.items[i].inst, b.items[i].sub} \ {None}
          PROVE Exists(b, e)
      <3>1. i \in DOMAIN v.db.items /\ e \in {v.db.items[i].inst, v.db.items[i].sub} \ {None} BY <1>4, <2>1
      <3>2. e \in Doc BY <3>1, Fields DEF ItemRow
      <3>3. Exists(v.db, e) BY <3>1, Fields DEF References
      <3> QED BY <1>6, <3>2, <3>3
    <2>2. \A m \in b.marks : Exists(b, m.inst)
      <3>1. \A m \in v.db.marks : m.inst \in Doc /\ Exists(v.db, m.inst) BY Fields DEF References, Mark
      <3> QED BY <1>4, <1>6, <3>1
    <2>3. \A g \in b.trig : g.item \in DOMAIN b.items BY <1>4, Fields DEF References
    <2> QED BY <2>1, <2>2, <2>3 DEF References
  <1>8. v.ids \cap DOMAIN b.items = {} /\ b.marks \ v.db.marks = {} BY <1>4, Fields
  <1>9. Sound(With(v, b, t), X) /\ Follows(With(v, b, t), v) /\ With(v, b, t).db = b
    BY <1>4, <1>5, <1>6, <1>7, <1>8, WithSound
  <1> QED BY <1>1, <1>4, <1>6, <1>9

\* What is kept when items go: what refers to them goes as well.
LEMMA DeleteItemsIs ==
  ASSUME NEW v, NEW X, Sound(v, X), NEW I
  PROVE  /\ Sound(DeleteItems(v, I), X) /\ Follows(DeleteItems(v, I), v)
         /\ DeleteItems(v, I).db.inst = v.db.inst /\ DeleteItems(v, I).db.marks = v.db.marks
         /\ \A i \in DOMAIN DeleteItems(v, I).db.items :
                i \in DOMAIN v.db.items \ I /\ DeleteItems(v, I).db.items[i] = v.db.items[i]
  <1> DEFINE f == v.db.items
             new == [i \in DOMAIN f \ I |-> f[i]]
             g == {h \in v.db.trig : h.item \notin I}
             T == I \cap DOMAIN f
             b == [v.db EXCEPT !.items = new, !.trig = g]
             t == Locks(v.touched, T)
  <1>1. DeleteItems(v, I) = With(v, b, t)
    BY Fields DEF DeleteItems, Restrict, With, Locks, Running, Table
  <1>2. new \in Items /\ DOMAIN new = DOMAIN f \ I /\ \A i \in DOMAIN new : new[i] = f[i]
    <2>1. DOMAIN f \ I \in SUBSET Id /\ \A i \in DOMAIN f \ I : f[i] \in ItemRow BY Fields
    <2> HIDE DEF f
    <2>2. new \in [DOMAIN f \ I -> ItemRow] BY <2>1
    <2> QED BY <2>1, <2>2 DEF Items
  <1>3. g \in SUBSET [doc : Doc, item : Id] BY Fields DEF Table
  <1>4. g \subseteq v.db.trig /\ \A h \in g : h.item \notin I OBVIOUS
  <1> HIDE DEF new, g
  <1>5. b \in Table /\ b.inst = v.db.inst /\ b.items = new /\ b.marks = v.db.marks /\ b.trig = g
    BY <1>2, <1>3, Fields DEF Table
  <1>6. t \in Touched BY Fields DEF Touched, Locks
  <1> HIDE DEF b, t
  <1>7. References(b)
    <2>1. ASSUME NEW i \in DOMAIN new, NEW d \in {new[i].inst, new[i].sub} \ {None} PROVE Exists(b, d)
      BY <1>2, <1>5, <2>1, Fields DEF References, Exists
    <2>2. \A h \in g : h.item \in DOMAIN new BY <1>2, <1>4, Fields DEF References
    <2> QED BY <1>5, <2>1, <2>2, Fields DEF References, Exists
  <1>8. v.ids \cap DOMAIN b.items = {} /\ b.marks \ v.db.marks = {} BY <1>2, <1>5, Fields
  <1>9. \A d \in Doc : Exists(v.db, d) => Exists(b, d) BY <1>5 DEF Exists
  <1>10. Sound(With(v, b, t), X) /\ Follows(With(v, b, t), v) /\ With(v, b, t).db = b
    BY <1>5, <1>6, <1>7, <1>8, <1>9, WithSound
  <1> QED BY <1>1, <1>2, <1>5, <1>10

PutsMarks(b, M) == [b EXCEPT !.marks = M]

\* A change of marks: those that are new are of AND joins, or X will clean them.
LEMMA SetMarks ==
  ASSUME NEW v, NEW X, Sound(v, X), NEW M \in SUBSET Mark, NEW t \in Touched,
         \A m \in M : Exists(v.db, m.inst),
         \A m \in M \ v.db.marks :
            Activity[Transition[m.trans].act_to].join_mode = "AND" \/ \E c \in X : Cleans(c, m)
  PROVE  LET u == With(v, PutsMarks(v.db, M), t)
         IN  /\ Sound(u, X) /\ Follows(u, v) /\ u.db.marks = M /\ u.db.items = v.db.items
             /\ u.ids = v.ids
  <1> DEFINE b == PutsMarks(v.db, M)
  <1>1. b \in Table /\ b.inst = v.db.inst /\ b.items = v.db.items /\ b.marks = M /\ b.trig = v.db.trig
    BY Fields DEF Table, PutsMarks
  <1> HIDE DEF b
  <1>2. References(b) BY <1>1, Fields DEF References, Exists
  <1>3. v.ids \cap DOMAIN b.items = {} BY <1>1, Fields
  <1>4. \A d \in Doc : Exists(v.db, d) => Exists(b, d) BY <1>1 DEF Exists
  <1>5. Sound(With(v, b, t), X) /\ Follows(With(v, b, t), v) /\ With(v, b, t).db = b
    BY <1>1, <1>2, <1>3, <1>4, WithSound
  <1>6. With(v, b, t).ids = v.ids BY <1>1, Fields, WithIs
  <1> QED BY <1>1, <1>5, <1>6 DEF b

\* delete from wkf_witm_trans (workitem.py:184, 197).
LEMMA DeleteMarksIs ==
  ASSUME NEW v, NEW X, Sound(v, X), NEW M \in SUBSET v.db.marks
  PROVE  /\ Sound(DeleteMarks(v, M), X) /\ Follows(DeleteMarks(v, M), v)
         /\ DeleteMarks(v, M).db.marks = v.db.marks \ M /\ DeleteMarks(v, M).db.items = v.db.items
         /\ DeleteMarks(v, M).ids = v.ids
  <1> DEFINE L == v.db.marks \ M
             t == [v.touched EXCEPT !.mark = @ \cup M]
  <1>1. L \in SUBSET Mark /\ M \in SUBSET Mark /\ L \ v.db.marks = {} BY Fields
  <1>2. \A m \in L : Exists(v.db, m.inst) BY Fields DEF References
  <1>3. DeleteMarks(v, M) = With(v, PutsMarks(v.db, L), t)
    BY Fields DEF DeleteMarks, With, PutsMarks, Running, Table
  <1>4. t \in Touched BY <1>1, Fields DEF Touched
  <1> HIDE DEF L, t
  <1> DEFINE u == With(v, PutsMarks(v.db, L), t)
  <1>5. Sound(u, X) /\ Follows(u, v) /\ u.db.marks = L /\ u.db.items = v.db.items /\ u.ids = v.ids
    BY <1>1, <1>2, <1>4, SetMarks
  <1> QED BY <1>3, <1>5 DEF L

\* Triggers are inserted for an item that is still there (workitem.py:66-73).
LEMMA WatchIs ==
  ASSUME NEW v, NEW X, Sound(v, X), NEW w \in Work
  PROVE  Sound(Watch(v, w), X)
  <1> DEFINE rows == {[doc |-> x, item |-> w.id] : x \in UNION {Trigger(t, w.inst) : t \in Out(w.act)}}
             b == [v.db EXCEPT !.trig = @ \cup rows]
             u == [v EXCEPT !.db.trig = @ \cup rows]
  <1>1. CASE rows # {} /\ w.id \notin DOMAIN v.db.items
    <2>1. Watch(v, w) = Raise(v) BY <1>1 DEF Watch
    <2> QED BY <2>1, RaiseIs
  <1>2. CASE ~(rows # {} /\ w.id \notin DOMAIN v.db.items)
    <2>1. Watch(v, w) = u BY <1>2 DEF Watch
    <2>2. u = With(v, b, v.touched) BY Fields DEF With, Running, Table
    <2>3. rows \in SUBSET [doc : Doc, item : Id]
      <3>1. w.id \in Id /\ w.inst \in Doc BY DEF Work
      <3>2. \A t \in Out(w.act) : Trigger(t, w.inst) \subseteq Doc BY <3>1, WorkflowAssumption DEF Out
      <3> QED BY <3>1, <3>2
    <2>4. \A h \in rows : h.item \in DOMAIN v.db.items BY <1>2
    <2> HIDE DEF rows
    <2>5. b \in Table /\ b.inst = v.db.inst /\ b.items = v.db.items /\ b.marks = v.db.marks /\ b.trig = v.db.trig \cup rows
      BY <2>3, Fields DEF Table
    <2> HIDE DEF b, u
    <2>6. References(b) BY <2>4, <2>5, Fields DEF References, Exists
    <2>7. v.ids \cap DOMAIN b.items = {} /\ b.marks \ v.db.marks = {} BY <2>5, Fields
    <2>8. \A d \in Doc : Exists(v.db, d) => Exists(b, d) BY <2>5 DEF Exists
    <2>9. Sound(With(v, b, v.touched), X) BY <2>5, <2>6, <2>7, <2>8, Fields, WithSound
    <2> QED BY <2>1, <2>2, <2>9
  <1> QED BY <1>1, <1>2

-----------------------------------------------------------------------------
(* Sequences of rows and of calls.                                           *)

\* Induction over a set of numbers.
LEMMA NatSet == ASSUME NEW S, 0 \in S, \A n \in Nat : n \in S => n + 1 \in S PROVE Nat \subseteq S
  <1> DEFINE T == Nat \ S
             R == OpToRel(<, Nat)
  <1> SUFFICES ASSUME T # {} PROVE FALSE
    OBVIOUS
  <1>1. IsWellFoundedOn(R, Nat) BY NatLessThanWellFounded
  <1>2. PICK x \in T : \A y \in T : <<y, x>> \notin R
    <2> HIDE DEF R, T
    <2>1. T \subseteq Nat BY DEF T
    <2> QED BY <1>1, <2>1, WFMin
  <1>3. x # 0 /\ x - 1 \in Nat OBVIOUS
  <1>4. x - 1 \in T BY <1>3
  <1>5. <<x - 1, x>> \in R BY <1>3 DEF OpToRel
  <1> QED BY <1>2, <1>4, <1>5

\* A nonempty set of numbers has a least element.
LEMMA MinIn == ASSUME NEW S \in SUBSET Nat, S # {} PROVE Min(S) \in S
  <1> DEFINE R == OpToRel(<, Nat)
  <1>1. IsWellFoundedOn(R, Nat) BY NatLessThanWellFounded
  <1>2. PICK x \in S : \A y \in S : <<y, x>> \notin R
    <2> HIDE DEF R
    <2> QED BY <1>1, WFMin
  <1>3. ASSUME NEW y \in S, ~(x <= y) PROVE FALSE
    <2>1. x \in Nat /\ y \in Nat /\ y < x BY <1>3
    <2>2. <<y, x>> \in R BY <2>1 DEF OpToRel
    <2> QED BY <1>2, <2>2
  <1> QED BY <1>3 DEF Min

\* SELECT returns every row of the set.
LEMMA RowsAre ==
  ASSUME NEW v, NEW S, IsFiniteSet(S)
  PROVE  /\ Rows(v, S) \in Seq(S) /\ DOMAIN Rows(v, S) = 1 .. Len(Rows(v, S))
         /\ \A k \in DOMAIN Rows(v, S) : Rows(v, S)[k] \in S
         /\ \A x \in S : \E k \in DOMAIN Rows(v, S) : Rows(v, S)[k] = x
         /\ S # {} => Head(Rows(v, S)) \in S
  <1> DEFINE n == Cardinality(S)
             s == SetToSeq(S)
  <1>1. n \in Nat BY FS_CardinalityType
  <1>2. PICK k \in Nat : ExistsBijection(1 .. k, S) BY FS_NatBijection
  <1>3. k = n BY <1>2, FS_CountingElements
  <1>4. PICK f \in [1 .. n -> S] : IsInjective(f)
    BY <1>2, <1>3 DEF ExistsBijection, Bijection, Injection, IsInjective
  <1>5. s \in [1 .. n -> S] /\ IsInjective(s) BY <1>4 DEF SetToSeq
  <1>6. Cardinality(1 .. n) = n BY <1>1, FS_Interval
  <1>7. s \in Injection(1 .. n, S) BY <1>5 DEF Injection, IsInjective
  <1>8. s \in Surjection(1 .. n, S) BY <1>6, <1>7, FS_Injection
  <1>9. \A x \in S : \E i \in 1 .. n : s[i] = x BY <1>8 DEF Surjection
  <1> HIDE DEF s, n
  <1>10. s \in Seq(S) /\ Len(s) = n /\ DOMAIN s = 1 .. n BY <1>1, <1>5
  <1>11. CASE v.up
    <2>1. Rows(v, S) = s BY <1>11 DEF Rows, s
    <2>2. S # {} => s # << >> BY <1>9, <1>10
    <2>3. S # {} => Head(s) \in S BY <1>10, <2>2
    <2> QED BY <1>5, <1>9, <1>10, <2>1, <2>3
  <1>12. CASE ~v.up
    <2> DEFINE r == [i \in 1 .. n |-> s[(n - i) + 1]]
    <2>1. Rows(v, S) = r BY <1>10, <1>12 DEF Rows, Reverse, s
    <2>2. \A i \in 1 .. n : (n - i) + 1 \in 1 .. n BY <1>1
    <2>3. r \in [1 .. n -> S] BY <1>5, <2>2
    <2>4. ASSUME NEW x \in S PROVE \E i \in 1 .. n : r[i] = x
      <3>1. PICK j \in 1 .. n : s[j] = x BY <1>9
      <3>2. (n - j) + 1 \in 1 .. n /\ (n - ((n - j) + 1)) + 1 = j BY <1>1
      <3> QED BY <3>1, <3>2
    <2> HIDE DEF r
    <2>5. r \in Seq(S) /\ Len(r) = n /\ DOMAIN r = 1 .. n BY <1>1, <2>3
    <2>6. S # {} => r # << >> BY <2>4, <2>5
    <2>7. S # {} => Head(r) \in S BY <2>5, <2>6
    <2> QED BY <2>1, <2>3, <2>4, <2>5, <2>7
  <1> QED BY <1>11, <1>12

\* One call for every row.
LEMMA EachIs ==
  ASSUME NEW S, NEW rows \in Seq(S), NEW f, f = [k \in DOMAIN rows |-> f[k]],
         \A k \in DOMAIN rows : f[k] \in Calls
  PROVE  f \in Seq(Calls) /\ DOMAIN f = DOMAIN rows
  <1>1. DOMAIN rows = 1 .. Len(rows) /\ Len(rows) \in Nat OBVIOUS
  <1> DEFINE C == Calls
  <1>2. \A k \in DOMAIN rows : f[k] \in C OBVIOUS
  <1> HIDE DEF C
  <1>3. f \in [1 .. Len(rows) -> C] BY <1>1, <1>2
  <1> QED BY <1>1, <1>3 DEF C

\* The calls of a concatenation.
LEMMA Joined ==
  ASSUME NEW s \in Seq(Calls), NEW r \in Seq(Calls)
  PROVE  /\ s \o r \in Seq(Calls)
         /\ \A k \in DOMAIN (s \o r) :
                \/ k \in DOMAIN s /\ (s \o r)[k] = s[k]
                \/ \E j \in DOMAIN r : (s \o r)[k] = r[j]
         /\ \A k \in DOMAIN s : k \in DOMAIN (s \o r) /\ (s \o r)[k] = s[k]
         /\ \A j \in DOMAIN r : \E k \in DOMAIN (s \o r) : (s \o r)[k] = r[j]
  <1> DEFINE C == Calls
             u == s \o r
  <1> HIDE DEF C
  <1>0. s \in Seq(C) /\ r \in Seq(C) BY DEF C
  <1>1. /\ u \in Seq(C) /\ Len(u) = Len(s) + Len(r) /\ Len(s) \in Nat /\ Len(r) \in Nat
        /\ DOMAIN u = 1 .. Len(u) /\ DOMAIN s = 1 .. Len(s) /\ DOMAIN r = 1 .. Len(r)
        /\ \A k \in 1 .. Len(s) : u[k] = s[k]
        /\ \A k \in 1 .. Len(r) : u[Len(s) + k] = r[k]
    BY <1>0
  <1> HIDE DEF u
  <1>2. ASSUME NEW k \in DOMAIN u, k \notin DOMAIN s PROVE \E j \in DOMAIN r : u[k] = r[j]
    <2>1. k - Len(s) \in 1 .. Len(r) /\ Len(s) + (k - Len(s)) = k BY <1>1, <1>2
    <2> QED BY <1>1, <2>1
  <1>3. ASSUME NEW j \in DOMAIN r PROVE \E k \in DOMAIN u : u[k] = r[j]
    <2>1. Len(s) + j \in DOMAIN u BY <1>1
    <2> QED BY <1>1, <2>1
  <1>4. \A k \in DOMAIN s : k \in DOMAIN u BY <1>1
  <1> QED BY <1>1, <1>2, <1>3, <1>4 DEF u, C

\* Calls are made that work for instances that exist; they take over what X is
\* to do.
LEMMA Push ==
  ASSUME NEW v, NEW X, Sound(v, X), NEW cs \in Seq(Calls), NEW Y,
         \A k \in DOMAIN cs : \A d \in Names(cs[k]) : Exists(v.db, d),
         \A c \in X, m \in v.db.marks : Cleans(c, m) =>
            \/ Activity[Transition[m.trans].act_to].join_mode = "AND"
            \/ \E y \in Y : Cleans(y, m)
            \/ \E k \in DOMAIN cs : Cleans(cs[k], m)
  PROVE  Sound(Call(v, cs), Y) /\ Call(v, cs).db = v.db /\ Call(v, cs).ids = v.ids
  <1> DEFINE u == Call(v, cs)
             s == cs \o v.todo
             C == Calls
  <1>1. v.todo \in Seq(Calls) BY Fields
  <1>2. /\ u.db = v.db /\ u.ids = v.ids /\ u.todo = s /\ s \in Seq(C) /\ u \in Running
    <2>1. s \in Seq(Calls) BY <1>1, Joined
    <2>2. u = [v EXCEPT !.todo = s] BY DEF Call
    <2> HIDE DEF s, u
    <2> QED BY <2>1, <2>2, Fields DEF Running
  <1> HIDE DEF u, C
  <1>3. ASSUME NEW k \in DOMAIN s, NEW d \in Names(s[k]) PROVE Exists(v.db, d)
    BY <1>1, <1>3, Joined DEF Sound
  <1>4. ASSUME NEW m \in v.db.marks
        PROVE  \/ Activity[Transition[m.trans].act_to].join_mode = "AND"
               \/ \E y \in Y : Cleans(y, m)
               \/ \E k \in DOMAIN s : Cleans(s[k], m)
    <2>1. CASE \E k \in DOMAIN v.todo : Cleans(v.todo[k], m)
      <3>1. PICK j \in DOMAIN v.todo : Cleans(v.todo[j], m) BY <2>1
      <3>2. PICK k \in DOMAIN s : s[k] = v.todo[j] BY <1>1, Joined
      <3> QED BY <3>1, <3>2
    <2>2. CASE \E k \in DOMAIN cs : Cleans(cs[k], m)
      <3>1. PICK k \in DOMAIN cs : Cleans(cs[k], m) BY <2>2
      <3>2. k \in DOMAIN s /\ s[k] = cs[k] BY <1>1, Joined
      <3> QED BY <3>1, <3>2
    <2> QED BY <2>1, <2>2 DEF Sound
  <1>5. Sound(u, Y)
    <2> HIDE DEF s
    <2> QED BY <1>2, <1>3, <1>4 DEF Sound
  <1> QED BY <1>2, <1>5 DEF u

\* One call that works for instances that exist.
LEMMA PushOne ==
  ASSUME NEW v, NEW X, Sound(v, X), NEW c \in Calls, NEW Y, \A d \in Names(c) : Exists(v.db, d),
         \A x \in X, m \in v.db.marks : Cleans(x, m) =>
            \/ Activity[Transition[m.trans].act_to].join_mode = "AND"
            \/ \E y \in Y : Cleans(y, m)
            \/ Cleans(c, m)
  PROVE  Sound(Call(v, <<c>>), Y) /\ Call(v, <<c>>).db = v.db /\ Call(v, <<c>>).ids = v.ids
  <1> DEFINE cs == <<c>>
             C == Calls
  <1>1. cs \in Seq(C) /\ DOMAIN cs = {1} /\ cs[1] = c
    <2> HIDE DEF C
    <2>1. c \in C BY DEF C
    <2> QED BY <2>1
  <1> HIDE DEF cs
  <1>2. Sound(Call(v, cs), Y) /\ Call(v, cs).db = v.db /\ Call(v, cs).ids = v.ids BY <1>1, Push DEF C
  <1> QED BY <1>2 DEF cs

\* Calls that take over nothing.
LEMMA PushMore ==
  ASSUME NEW v, NEW X, Sound(v, X), NEW cs \in Seq(Calls),
         \A k \in DOMAIN cs : \A d \in Names(cs[k]) : Exists(v.db, d)
  PROVE  Sound(Call(v, cs), X) /\ Call(v, cs).db = v.db /\ Call(v, cs).ids = v.ids
  BY Push

LEMMA OneCall ==
  ASSUME NEW c \in Calls
  PROVE  <<c>> \in Seq(Calls) /\ DOMAIN <<c>> = {1} /\ <<c>>[1] = c
  <1> DEFINE C == Calls
  <1> HIDE DEF C
  <1>1. c \in C BY DEF C
  <1>2. <<c>> \in Seq(C) /\ DOMAIN <<c>> = {1} /\ <<c>>[1] = c BY <1>1
  <1> QED BY <1>2 DEF C

\* A call for every row, and another one.
LEMMA PushThen ==
  ASSUME NEW v, NEW X, Sound(v, X), NEW cs \in Seq(Calls), NEW c \in Calls,
         \A k \in DOMAIN cs : \A d \in Names(cs[k]) : Exists(v.db, d),
         \A d \in Names(c) : Exists(v.db, d)
  PROVE  Sound(Call(v, cs \o <<c>>), X)
  <1> DEFINE r == <<c>>
             s == cs \o r
  <1>1. r \in Seq(Calls) /\ DOMAIN r = {1} /\ r[1] = c BY OneCall
  <1> HIDE DEF r
  <1>2. s \in Seq(Calls) BY <1>1, Joined
  <1>3. ASSUME NEW k \in DOMAIN s, NEW d \in Names(s[k]) PROVE Exists(v.db, d)
    <2>1. (k \in DOMAIN cs /\ s[k] = cs[k]) \/ s[k] = c BY <1>1, Joined
    <2> QED BY <1>3, <2>1
  <1> HIDE DEF s
  <1>4. Sound(Call(v, s), X) BY <1>2, <1>3, PushMore
  <1> QED BY <1>4 DEF s, r

\* All tables are finite.
LEMMA FewRows ==
  ASSUME NEW S, S \subseteq Id \/ S \subseteq Doc \/ S \subseteq Act \/ S \subseteq DOMAIN Transition
  PROVE  IsFiniteSet(S)
  <1>1. IsFiniteSet(Id)
    <2>1. MaxItems \in Int /\ 1 \in Int BY WorkflowAssumption
    <2> QED BY <2>1, FS_Interval DEF Id
  <1>2. IsFiniteSet(Doc) /\ IsFiniteSet(Act) /\ IsFiniteSet(DOMAIN Transition) BY WorkflowAssumption DEF Act
  <1>3. CASE S \subseteq Id BY <1>1, <1>3, FS_Subset
  <1>4. CASE S \subseteq Doc BY <1>2, <1>4, FS_Subset
  <1>5. CASE S \subseteq Act BY <1>2, <1>5, FS_Subset
  <1>6. CASE S \subseteq DOMAIN Transition BY <1>2, <1>6, FS_Subset
  <1> QED BY <1>3, <1>4, <1>5, <1>6

-----------------------------------------------------------------------------
(* The interpreter.                                                          *)

LEMMA NoneIs == None \in Signal BY DEF Signal

LEMMA ValidateIs ==
  ASSUME NEW d \in Doc, NEW signal \in Signal, NEW force \in BOOLEAN
  PROVE  Validate(d, signal, force) \in Calls /\ Names(Validate(d, signal, force)) = {d}
  <1> DEFINE c == Validate(d, signal, force)
  <1>1. c \in ValidateCalls /\ c.do = "validate" /\ c.inst = d BY DEF Validate, ValidateCalls
  <1> HIDE DEF c
  <1>2. c \in Calls /\ Names(c) = {d} BY <1>1 DEF Calls, Names
  <1> QED BY <1>2 DEF c

LEMMA UpdateIs ==
  ASSUME NEW d \in Doc
  PROVE  Update(d) \in Calls /\ Names(Update(d)) = {d}
  BY NoneIs, ValidateIs DEF Update

\* Operators of the module under the name of the code: each keeps the request sound.
LEMMA trg_writeIs ==
  ASSUME NEW v, NEW X, Sound(v, X), NEW d \in Doc
  PROVE  Sound(trg_write(v, d), X)
  <1>1. CASE v.db.inst[d] = "active"
    <2>1. Exists(v.db, d) BY <1>1 DEF Exists
    <2>2. Sound(Call(v, <<Update(d)>>), X) BY <2>1, UpdateIs, PushOne
    <2> QED BY <1>1, <2>2 DEF trg_write
  <1>2. CASE v.db.inst[d] # "active" BY <1>2 DEF trg_write
  <1> QED BY <1>1, <1>2

LEMMA WriteIs ==
  ASSUME NEW v, NEW X, Sound(v, X), NEW d \in Doc, NEW facts \in SUBSET Fact
  PROVE  Sound(Write(v, d, facts), X)
  <1> DEFINE b == [v.db EXCEPT !.facts[d] = @ \cup facts]
             t == [v.touched EXCEPT !.doc = @ \cup {d}]
  <1>1. Write(v, d, facts) = trg_write(With(v, b, t), d) BY Fields DEF Write, With, Running, Table
  <1>2. b \in Table /\ b.inst = v.db.inst /\ b.items = v.db.items /\ b.marks = v.db.marks /\ b.trig = v.db.trig
    BY Fields DEF Table
  <1>3. t \in Touched BY Fields DEF Touched
  <1> HIDE DEF b, t
  <1>4. References(b) BY <1>2, Fields DEF References, Exists
  <1>5. v.ids \cap DOMAIN b.items = {} /\ b.marks \ v.db.marks = {} BY <1>2, Fields
  <1>6. \A e \in Doc : Exists(v.db, e) => Exists(b, e) BY <1>2 DEF Exists
  <1>7. Sound(With(v, b, t), X) BY <1>2, <1>3, <1>4, <1>5, <1>6, WithSound
  <1> QED BY <1>1, <1>7, trg_writeIs

LEMMA createIs ==
  ASSUME NEW v, NEW X, Sound(v, X), NEW a \in Act, NEW d \in Doc, Exists(v.db, d)
  PROVE  Sound(create(v, a, d), X)
  <1> DEFINE i == Min(v.ids)
             row == [act |-> a, inst |-> d, state |-> "active", sub |-> None]
             w == [id |-> i, act |-> a, inst |-> d, state |-> "active"]
             c == [do |-> "process", w |-> w, signal |-> None, force |-> FALSE]
             f == v.db.items
             new == [k \in DOMAIN f \cup {i} |-> IF k = i THEN row ELSE f[k]]
             u == [v EXCEPT !.ids = @ \ {i}, !.db.items = new]
  <1>1. CASE v.ids = {}
    <2>1. create(v, a, d) = Raise(v) BY <1>1 DEF create
    <2> QED BY <2>1, RaiseIs
  <1>2. CASE v.ids # {}
    <2>1. create(v, a, d) = Call(u, <<c>>) BY <1>2, Fields DEF create, Running, Table
    <2>2. i \in v.ids /\ i \in Id
      <3>1. v.ids \in SUBSET Nat BY Fields DEF Id
      <3> QED BY <1>2, <3>1, MinIn, Fields
    <2> HIDE DEF i
    <2>3. row \in ItemRow /\ row.inst = d /\ row.sub = None BY DEF ItemRow, ItemState
    <2>4. w \in Work /\ w.inst = d BY <2>2 DEF Work, ItemState
    <2> HIDE DEF row, w
    <2>5. c \in ProcessCalls /\ c.do = "process" /\ c.w = w BY <2>4, NoneIs DEF ProcessCalls
    <2> HIDE DEF c
    <2>6. c \in Calls /\ Names(c) = {d} BY <2>4, <2>5 DEF Calls, Names
    <2>7. /\ DOMAIN new = DOMAIN f \cup {i} /\ new[i] = row
          /\ new = [k \in DOMAIN new |-> new[k]]
          /\ \A k \in DOMAIN f : new[k] = f[k]
      <3>1. i \notin DOMAIN f BY <2>2, Fields
      <3> HIDE DEF f
      <3> QED BY <3>1
    <2> HIDE DEF new
    <2>8. new \in Items BY <2>2, <2>3, <2>7, Fields, ItemsIs
    <2> DEFINE b == Puts(v.db, new)
    <2>9. u = [v EXCEPT !.db = b, !.ids = v.ids \ {i}] BY Fields DEF Puts, Running, Table
    <2>10. b \in Table /\ b.inst = v.db.inst /\ b.items = new /\ b.marks = v.db.marks /\ b.trig = v.db.trig
      BY <2>8, Fields DEF Table, Puts
    <2> HIDE DEF b, u
    <2>11. /\ u \in Running /\ u.db = b /\ u.ids = v.ids \ {i} /\ u.todo = v.todo /\ u.up = v.up /\ u.yes = v.yes
      <3>1. v \in Running /\ v.ids \ {i} \in SUBSET Id BY Fields
      <3> QED BY <2>9, <2>10, <3>1 DEF Running
    <2>12. Exists(b, d) /\ \A e \in Doc : Exists(v.db, e) => Exists(b, e) BY <2>10 DEF Exists
    <2>13. References(b)
      <3>1. ASSUME NEW k \in DOMAIN new, NEW e \in {new[k].inst, new[k].sub} \ {None} PROVE Exists(b, e)
        <4>1. CASE k = i BY <2>3, <2>7, <2>12, <3>1, <4>1
        <4>2. CASE k \in DOMAIN v.db.items
          <5>1. Exists(v.db, e) BY <2>7, <3>1, <4>2, Fields DEF References
          <5> QED BY <2>10, <5>1 DEF Exists
        <4> QED BY <2>7, <4>1, <4>2
      <3>2. \A g \in v.db.trig : g.item \in DOMAIN new BY <2>7, Fields DEF References
      <3> QED BY <2>10, <3>1, <3>2, Fields DEF References, Exists
    <2>14. u.ids \cap DOMAIN u.db.items = {} BY <2>7, <2>10, <2>11, Fields
    <2>15. Sound(u, X)
      <3>1. ASSUME NEW k \in DOMAIN u.todo, NEW e \in Names(u.todo[k]) PROVE Exists(b, e)
        BY <2>10, <2>11, <3>1 DEF Sound, Exists
      <3> QED BY <2>10, <2>11, <2>13, <2>14, <3>1 DEF Sound
    <2>16. \A e \in Names(c) : Exists(u.db, e) BY <2>6, <2>11, <2>12
    <2>17. Sound(Call(u, <<c>>), X) BY <2>6, <2>15, <2>16, PushOne
    <2> QED BY <2>1, <2>17
  <1> QED BY <1>1, <1>2

\* SELECT over items, instances or activities.
LEMMA Selected ==
  ASSUME NEW v, NEW S, S \subseteq Id \/ S \subseteq Doc \/ S \subseteq Act \/ S \subseteq DOMAIN Transition
  PROVE  /\ Rows(v, S) \in Seq(S) /\ \A k \in DOMAIN Rows(v, S) : Rows(v, S)[k] \in S
         /\ \A x \in S : \E k \in DOMAIN Rows(v, S) : Rows(v, S)[k] = x
         /\ S # {} => Head(Rows(v, S)) \in S
  BY FewRows, RowsAre

\* The calls of instance.create, once the instance is there.
LEMMA Starts ==
  ASSUME NEW v, NEW u, NEW X, Sound(u, X), NEW d \in Doc, Exists(u.db, d)
  PROVE  LET acts == Rows(v, Start[d])
         IN  Sound(Call(u, [k \in DOMAIN acts |-> [do |-> "create", act |-> acts[k], inst |-> d]]
                               \o <<Update(d)>>), X)
  <1> DEFINE acts == Rows(v, Start[d])
             f == [k \in DOMAIN acts |-> [do |-> "create", act |-> acts[k], inst |-> d]]
  <1>2. Start[d] \subseteq Act BY WorkflowAssumption DEF Act
  <1>3. acts \in Seq(Start[d]) /\ \A k \in DOMAIN acts : acts[k] \in Act BY <1>2, Selected
  <1> HIDE DEF acts
  <1>4. ASSUME NEW k \in DOMAIN acts PROVE f[k] \in Calls /\ Names(f[k]) = {d}
    <2>1. f[k] \in CreateCalls /\ f[k].do = "create" /\ f[k].inst = d BY <1>3 DEF CreateCalls
    <2> HIDE DEF f
    <2> QED BY <2>1 DEF Calls, Names
  <1>5. f = [k \in DOMAIN acts |-> f[k]] OBVIOUS
  <1> HIDE DEF f
  <1>6. f \in Seq(Calls) /\ DOMAIN f = DOMAIN acts BY <1>3, <1>4, <1>5, EachIs
  <1>7. Sound(Call(u, f \o <<Update(d)>>), X) BY <1>4, <1>6, UpdateIs, PushThen
  <1> QED BY <1>7 DEF acts, f

LEMMA CreateInstanceIs ==
  ASSUME NEW v, NEW X, Sound(v, X), NEW d \in Doc
  PROVE  Sound(CreateInstance(v, d), X)
  <1> DEFINE u == SetInstance(v, d, "active")
  <1>1. Sound(u, X) /\ Exists(u.db, d) BY SetInstanceIs
  <1> HIDE DEF u
  <1>2. Sound(CreateInstance(v, d), X) BY <1>1, Starts DEF CreateInstance, u
  <1> QED BY <1>2

\* A statement does not look at what is pending.
LEMMA Later ==
  ASSUME NEW v, NEW X, Sound(v, X), NEW cs \in Seq(Calls), NEW d \in Doc, NEW state
  PROVE  SetInstance(Call(v, cs), d, state) = Call(SetInstance(v, d, state), cs)
  <1> DEFINE b == [v.db EXCEPT !.inst[d] = state]
             t == [v.touched EXCEPT !.inst = @ \cup {d}]
             s == cs \o v.todo
             u == Call(v, cs)
  <1>1. SetInstance(v, d, state) = With(v, b, t) BY Fields DEF SetInstance, With, Running, Table
  <1>2. u = [v EXCEPT !.todo = s] BY DEF Call
  <1>3. u.db = v.db /\ u.touched = v.touched BY <1>2, Fields DEF Running
  <1>4. SetInstance(u, d, state) = With(u, b, t)
    <2>1. u = [db |-> v.db, touched |-> v.touched, ids |-> v.ids, up |-> v.up, yes |-> v.yes, ok |-> v.ok, todo |-> s]
      <3> HIDE DEF s, u
      <3>1. v \in Running BY Fields
      <3> QED BY <1>2, <3>1 DEF Running
    <2> HIDE DEF u, s
    <2> QED BY <2>1, Fields DEF SetInstance, With, Table
  <1> HIDE DEF b, t, s
  <1>5. With(v, b, t).todo = v.todo BY Fields DEF With, Running
  <1>6. With(u, b, t) = [With(v, b, t) EXCEPT !.todo = s]
    <2> HIDE DEF u
    <2> QED BY <1>2, Fields DEF With, Running
  <1> QED BY <1>1, <1>4, <1>5, <1>6 DEF u, Call, s

\* Who waits for an instance exists.
LEMMA ParentsAre ==
  ASSUME NEW v, NEW X, Sound(v, X), NEW d \in Doc
  PROVE  /\ Parents(v.db, d) \in SUBSET Doc /\ \A p \in Parents(v.db, d) : Exists(v.db, p)
         /\ ItemsOf(v.db, d) \in SUBSET Id /\ {v.db.items[i].act : i \in ItemsOf(v.db, d)} \in SUBSET Act
  <1>1. \A i \in DOMAIN v.db.items :
            /\ v.db.items[i].inst \in Doc /\ v.db.items[i].act \in Act /\ v.db.items[i].inst # None
    BY Fields, WorkflowAssumption DEF ItemRow
  <1>2. \A i \in DOMAIN v.db.items : Exists(v.db, v.db.items[i].inst) BY <1>1, Fields DEF References
  <1> QED BY <1>1, <1>2, Fields DEF Parents, Waiting, ItemsOf

LEMMA UpdateEndIs ==
  ASSUME NEW v, NEW X, Sound(v, X), NEW d \in Doc
  PROVE  Sound(UpdateEnd(v, d), X)
  <1> DEFINE own == ItemsOf(v.db, d)
             ended == \A i \in own : /\ v.db.items[i].state = "complete"
                                     /\ Activity[v.db.items[i].act].flow_stop
             names == {v.db.items[i].act : i \in own}
             parents == Rows(v, Parents(v.db, d))
             f == [k \in DOMAIN parents |-> [do |-> "tell", inst |-> parents[k], names |-> names]]
             x == SetInstance(v, d, "complete")
             u == SetState(x, Waiting(v.db, d), "complete")
  <1>1. UpdateEnd(v, d) = IF ~ended THEN v ELSE Call(u, f) BY DEF UpdateEnd
  <1>2. names \in SUBSET Act BY ParentsAre
  <1> HIDE DEF ended, names
  <1>3. Sound(x, X) /\ Follows(x, v) BY SetInstanceIs
  <1>4. Sound(u, X) /\ Follows(u, x) BY <1>3, SetStateIs DEF ItemState
  <1> HIDE DEF x, u
  <1>5. parents \in Seq(Parents(v.db, d)) /\ \A k \in DOMAIN parents : parents[k] \in Doc /\ Exists(v.db, parents[k])
    BY ParentsAre, Selected
  <1> HIDE DEF parents
  <1>6. ASSUME NEW k \in DOMAIN parents PROVE f[k] \in Calls /\ Names(f[k]) = {parents[k]}
    <2>1. f[k] \in TellCalls /\ f[k].do = "tell" /\ f[k].inst = parents[k] BY <1>2, <1>5 DEF TellCalls
    <2> HIDE DEF f
    <2> QED BY <2>1 DEF Calls, Names
  <1>7. f = [k \in DOMAIN parents |-> f[k]] OBVIOUS
  <1> HIDE DEF f
  <1>8. f \in Seq(Calls) /\ DOMAIN f = DOMAIN parents BY <1>5, <1>6, <1>7, EachIs
  <1>9. \A k \in DOMAIN f : \A e \in Names(f[k]) : Exists(u.db, e)
    BY <1>3, <1>4, <1>5, <1>6, <1>8 DEF Follows
  <1>10. Sound(Call(u, f), X) BY <1>4, <1>8, <1>9, PushMore
  <1> QED BY <1>1, <1>10

LEMMA TellIs ==
  ASSUME NEW v, NEW X, Sound(v, X), NEW d \in Doc, Exists(v.db, d), NEW names \in SUBSET Act
  PROVE  Sound(Tell(v, d, names), X)
  <1> DEFINE acts == Rows(v, names)
             f == [k \in DOMAIN acts |-> Validate(d, Subflow(acts[k]), FALSE)]
  <1>1. acts \in Seq(names) /\ \A k \in DOMAIN acts : acts[k] \in Act BY Selected
  <1> HIDE DEF acts
  <1>2. ASSUME NEW k \in DOMAIN acts PROVE f[k] \in Calls /\ Names(f[k]) = {d}
    <2>1. acts[k] \in Act BY <1>1
    <2>2. Subflow(acts[k]) \in Ends BY <2>1 DEF Ends
    <2>3. Subflow(acts[k]) \in Signal BY <2>2 DEF Signal
    <2> QED BY <2>3, ValidateIs
  <1>3. f = [k \in DOMAIN acts |-> f[k]] OBVIOUS
  <1> HIDE DEF f
  <1>4. f \in Seq(Calls) /\ DOMAIN f = DOMAIN acts BY <1>1, <1>2, <1>3, EachIs
  <1>5. Sound(Call(v, f), X) BY <1>2, <1>4, PushMore
  <1> QED BY <1>5 DEF Tell, acts, f

LEMMA validateIs ==
  ASSUME NEW v, NEW X, Sound(v, X), NEW d \in Doc, Exists(v.db, d), NEW signal \in Signal, NEW force \in BOOLEAN
  PROVE  Sound(validate(v, d, signal, force), X)
  <1> DEFINE ids == Rows(v, ItemsOf(v.db, d))
             Item(i) == [id |-> i, act |-> v.db.items[i].act, inst |-> d, state |-> v.db.items[i].state]
             f == [k \in DOMAIN ids |-> [do |-> "process", w |-> Item(ids[k]), signal |-> signal, force |-> force]]
             c == [do |-> "end", inst |-> d]
  <1>1. validate(v, d, signal, force) = Call(v, f \o <<c>>) BY DEF validate
  <1>2. ids \in Seq(ItemsOf(v.db, d)) /\ \A k \in DOMAIN ids : ids[k] \in Id /\ ids[k] \in DOMAIN v.db.items
    BY ParentsAre, Selected DEF ItemsOf
  <1> HIDE DEF ids
  <1>3. ASSUME NEW k \in DOMAIN ids PROVE f[k] \in Calls /\ Names(f[k]) = {d}
    <2> DEFINE w == Item(ids[k])
    <2>1. v.db.items[ids[k]] \in ItemRow BY <1>2, Fields
    <2>2. w \in Work /\ w.inst = d BY <1>2, <2>1 DEF ItemRow, Work
    <2>3. f[k] = [do |-> "process", w |-> w, signal |-> signal, force |-> force] OBVIOUS
    <2> HIDE DEF w, f
    <2>4. f[k] \in ProcessCalls /\ f[k].do = "process" /\ f[k].w = w BY <2>2, <2>3 DEF ProcessCalls
    <2> QED BY <2>2, <2>4 DEF Calls, Names
  <1>4. f = [k \in DOMAIN ids |-> f[k]] OBVIOUS
  <1>5. c \in EndCalls /\ c.do = "end" /\ c.inst = d BY DEF EndCalls
  <1> HIDE DEF f, c
  <1>6. c \in Calls /\ Names(c) = {d} BY <1>5 DEF Calls, Names
  <1>7. f \in Seq(Calls) /\ DOMAIN f = DOMAIN ids BY <1>2, <1>3, <1>4, EachIs
  <1>8. Sound(Call(v, f \o <<c>>), X) BY <1>3, <1>6, <1>7, PushThen
  <1> QED BY <1>1, <1>8

LEMMA PerformIs ==
  ASSUME NEW v, NEW X, Sound(v, X), NEW a \in Act, NEW d \in Doc
  PROVE  Sound(Perform(v, a, d), X)
  <1>1. Activity[a].writes \in SUBSET Fact BY DEF Fact
  <1>2. Sound(Write(v, d, Activity[a].writes), X) BY <1>1, WriteIs
  <1> QED BY <1>2 DEF Perform

\* The rest of _execute as a call.
LEMMA RestIs ==
  ASSUME NEW w \in Work, NEW up \in SUBSET Doc, NEW signal \in Signal, NEW force \in BOOLEAN
  PROVE  LET c == [do |-> "executed", w |-> w, parents |-> up, signal |-> signal, force |-> force]
         IN  /\ c \in Calls
             /\ Names(c) = {w.inst} \cup up
                    \cup (IF Activity[w.act].kind = "subflow" THEN {SubDoc(w.act, w.inst)} ELSE {})
  <1> DEFINE c == [do |-> "executed", w |-> w, parents |-> up, signal |-> signal, force |-> force]
  <1>1. c \in ExecutedCalls /\ c.do = "executed" /\ c.w = w /\ c.parents = up BY DEF ExecutedCalls
  <1> HIDE DEF c
  <1>2. c \in Calls BY <1>1 DEF Calls
  <1>3. Names(c) = {w.inst} \cup up
                    \cup (IF Activity[w.act].kind = "subflow" THEN {SubDoc(w.act, w.inst)} ELSE {})
    BY <1>1 DEF Names
  <1> QED BY <1>2, <1>3 DEF c

LEMMA DescendIs ==
  ASSUME NEW v, NEW X, Sound(v, X), NEW w \in Work, Activity[w.act].kind = "subflow", NEW c \in Calls,
         \A d \in Names(c) : d = SubDoc(w.act, w.inst) \/ Exists(v.db, d)
  PROVE  Sound(Descend(v, w, c), X)
  <1> DEFINE s == SubDoc(w.act, w.inst)
             x == SetState(v, {w.id}, "running")
             run == Call(x, <<c>>)
  <1>1. s \in Doc BY WorkflowAssumption DEF Work, Act
  <1>2. Sound(x, X) /\ Follows(x, v) /\ x.db.inst = v.db.inst BY SetStateIs DEF ItemState
  <1> HIDE DEF s, x
  <1>3. Names(c) \subseteq Doc BY NamesIs
  <1>4. CASE ~v.yes
    <2>1. Descend(v, w, c) = DeleteItems(v, {w.id}) BY <1>4 DEF Descend
    <2> QED BY <2>1, DeleteItemsIs
  <1>5. CASE v.yes /\ v.db.inst[s] = None
    <2>0. None # "gone" BY WorkflowAssumption
    <2>1. Descend(v, w, c) = CreateInstance(run, s) BY <1>5, <2>0 DEF Descend, s, x
    <2> DEFINE u == SetInstance(x, s, "active")
    <2>2. Sound(u, X) /\ Follows(u, x) /\ Exists(u.db, s) BY <1>1, <1>2, SetInstanceIs
    <2> HIDE DEF u
    <2>3. \A d \in Names(c) : Exists(u.db, d) BY <1>2, <1>3, <2>2 DEF Follows, s
    <2>4. Sound(Call(u, <<c>>), X) /\ Call(u, <<c>>).db = u.db BY <2>2, <2>3, PushOne
    <2>5. SetInstance(run, s, "active") = Call(u, <<c>>) BY <1>1, <1>2, OneCall, Later DEF u
    <2>6. Exists(Call(u, <<c>>).db, s) BY <2>2, <2>4
    <2> HIDE DEF run
    <2>7. Sound(CreateInstance(run, s), X) BY <1>1, <2>4, <2>5, <2>6, Starts DEF CreateInstance
    <2> QED BY <2>1, <2>7
  <1>6. CASE v.yes /\ v.db.inst[s] = "gone"
    <2>1. None # "gone" BY WorkflowAssumption
    <2>2. Descend(v, w, c) = Raise(v) BY <1>6, <2>1 DEF Descend, s
    <2> QED BY <2>2, RaiseIs
  <1>7. CASE v.yes /\ v.db.inst[s] \notin {None, "gone"}
    <2>1. Descend(v, w, c) = run BY <1>7 DEF Descend, s, x
    <2>2. Exists(x.db, s) BY <1>1, <1>2, <1>7, Fields DEF Exists, Table
    <2>3. \A d \in Names(c) : Exists(x.db, d) BY <1>2, <1>3, <2>2 DEF Follows, s
    <2>4. Sound(run, X) BY <1>2, <2>3, PushOne
    <2> QED BY <2>1, <2>4
  <1> QED BY <1>4, <1>5, <1>6, <1>7

LEMMA ExecuteIs ==
  ASSUME NEW v, NEW X, Sound(v, X), NEW w \in Work, Exists(v.db, w.inst), NEW signal \in Signal,
         NEW force \in BOOLEAN
  PROVE  Sound(Execute(v, w, signal, force), X)
  <1> DEFINE act == Activity[w.act]
             up == IF act.signal_send = None THEN {} ELSE Parents(v.db, w.inst)
             c == [do |-> "executed", w |-> w, parents |-> up, signal |-> signal, force |-> force]
             x == SetState(v, {w.id}, "running")
             run == Call(x, <<c>>)
             I == ItemsOf(v.db, w.inst) \ {w.id}
             alone == DeleteItems(run, I)
  <1>1. w.inst \in Doc /\ w.act \in Act /\ w.act \in DOMAIN Activity BY DEF Work, Act
  <1>2. up \in SUBSET Doc /\ \A p \in up : Exists(v.db, p) BY <1>1, ParentsAre
  <1>3. /\ Execute(v, w, signal, force) =
            CASE act.kind = "dummy" -> Call(v, <<c>>)
              [] act.kind = "function" -> Perform(run, w.act, w.inst)
              [] act.kind = "stopall" -> Perform(alone, w.act, w.inst)
              [] act.kind = "subflow" -> Descend(v, w, c)
    BY DEF Execute
  <1>4. act.kind \in {"dummy", "function", "stopall", "subflow"} BY <1>1, WorkflowAssumption
  <1> HIDE DEF up
  <1>5. /\ c \in Calls
        /\ Names(c) = {w.inst} \cup up \cup (IF act.kind = "subflow" THEN {SubDoc(w.act, w.inst)} ELSE {})
    BY <1>2, RestIs
  <1>6. Sound(x, X) /\ Follows(x, v) BY SetStateIs DEF ItemState
  <1> HIDE DEF c, x, I, act
  <1>7. ASSUME act.kind # "subflow"
        PROVE  /\ Sound(Call(v, <<c>>), X) /\ Sound(run, X) /\ Sound(alone, X)
    <2>1. \A d \in Names(c) : d \in Doc /\ Exists(v.db, d) BY <1>1, <1>2, <1>5, <1>7
    <2>2. \A d \in Names(c) : Exists(x.db, d) BY <1>6, <2>1 DEF Follows
    <2>3. Sound(Call(v, <<c>>), X) BY <1>5, <2>1, PushOne
    <2>4. Sound(run, X) BY <1>5, <1>6, <2>2, PushOne
    <2> HIDE DEF run
    <2>5. Sound(alone, X) BY <2>4, DeleteItemsIs
    <2> QED BY <2>3, <2>4, <2>5
  <1> HIDE DEF run, alone
  <1>8. CASE act.kind = "dummy" BY <1>3, <1>7, <1>8
  <1>9. CASE act.kind = "function"
    <2>1. Execute(v, w, signal, force) = Perform(run, w.act, w.inst) BY <1>3, <1>9
    <2> QED BY <1>1, <1>7, <1>9, <2>1, PerformIs
  <1>10. CASE act.kind = "stopall"
    <2>1. Execute(v, w, signal, force) = Perform(alone, w.act, w.inst) BY <1>3, <1>10
    <2> QED BY <1>1, <1>7, <1>10, <2>1, PerformIs
  <1>11. CASE act.kind = "subflow"
    <2>1. Execute(v, w, signal, force) = Descend(v, w, c) BY <1>3, <1>11
    <2>2. \A d \in Names(c) : d = SubDoc(w.act, w.inst) \/ Exists(v.db, d) BY <1>2, <1>5
    <2> QED BY <1>5, <1>11, <2>1, <2>2, DescendIs DEF act
  <1> QED BY <1>4, <1>8, <1>9, <1>10, <1>11

\* The mode of a join, and the marks that X no longer has to clean.
LEMMA Drop ==
  ASSUME NEW v, NEW X, Sound(v, X), NEW Y,
         \A c \in X, m \in v.db.marks : Cleans(c, m) =>
            Activity[Transition[m.trans].act_to].join_mode = "AND" \/ \E y \in Y : Cleans(y, m)
  PROVE  Sound(v, Y)
  BY DEF Sound

\* After the action the subflow of the activity exists (workitem.py:126-145).
LEMMA ExecutedIs ==
  ASSUME NEW v, NEW X, Sound(v, X), NEW c \in ExecutedCalls, \A d \in Names(c) : Exists(v.db, d)
  PROVE  Sound(Executed(v, c), X)
  <1> DEFINE w == c.w
             act == Activity[w.act]
             s == SubDoc(w.act, w.inst)
             bound == IF act.kind = "subflow" THEN SetSub(v, {w.id}, s) ELSE v
             waits == act.kind = "subflow" /\ v.db.inst[s] # "complete"
             parents == Rows(v, c.parents)
             u == IF waits THEN bound ELSE SetState(bound, {w.id}, "complete")
             f == [k \in DOMAIN parents |-> Validate(parents[k], act.signal_send, TRUE)]
             l == [do |-> "leave", w |-> w, state |-> IF waits THEN "running" ELSE "complete",
                   signal |-> c.signal, force |-> c.force]
  <1>1. Executed(v, c) = Call(u, f \o <<l>>) BY DEF Executed
  <1>2. /\ w \in Work /\ c.parents \subseteq Doc /\ c.signal \in Signal /\ c.force \in BOOLEAN
        /\ c.do = "executed" /\ w.inst \in Doc /\ w.act \in Act
    BY DEF ExecutedCalls, Work
  <1>3. Names(c) = {w.inst} \cup c.parents \cup (IF act.kind = "subflow" THEN {s} ELSE {})
    BY <1>2 DEF Names
  <1>4. /\ Exists(v.db, w.inst) /\ \A p \in c.parents : Exists(v.db, p)
        /\ act.kind = "subflow" => s \in Doc /\ Exists(v.db, s)
    BY <1>2, <1>3, WorkflowAssumption DEF Act
  <1>5. act.signal_send \in Signal BY <1>2 DEF Signal
  <1> HIDE DEF w, act, s
  <1>6. Sound(bound, X) /\ Follows(bound, v) BY <1>4, SetSubIs DEF Follows
  <1> HIDE DEF bound, waits
  <1>7. Sound(u, X) /\ \A d \in Doc : Exists(v.db, d) => Exists(u.db, d)
    BY <1>6, SetStateIs DEF Follows, ItemState
  <1> HIDE DEF u
  <1>8. parents \in Seq(c.parents) /\ \A k \in DOMAIN parents : parents[k] \in c.parents BY <1>2, Selected
  <1> HIDE DEF parents
  <1>9. ASSUME NEW k \in DOMAIN parents PROVE f[k] \in Calls /\ Names(f[k]) = {parents[k]}
    BY <1>2, <1>5, <1>8, ValidateIs
  <1>10. f = [k \in DOMAIN parents |-> f[k]] OBVIOUS
  <1>11. l \in LeaveCalls /\ l.do = "leave" /\ l.w = w BY <1>2 DEF LeaveCalls, ItemState
  <1> HIDE DEF f, l
  <1>12. l \in Calls /\ Names(l) = {w.inst} BY <1>11 DEF Calls, Names
  <1>13. f \in Seq(Calls) /\ DOMAIN f = DOMAIN parents BY <1>8, <1>9, <1>10, EachIs
  <1>14. \A k \in DOMAIN f : \A d \in Names(f[k]) : Exists(u.db, d)
    BY <1>2, <1>4, <1>7, <1>8, <1>9, <1>13
  <1>15. \A d \in Names(l) : Exists(u.db, d) BY <1>2, <1>4, <1>7, <1>12
  <1>16. Sound(Call(u, f \o <<l>>), X) BY <1>7, <1>12, <1>13, <1>14, <1>15, PushThen
  <1> QED BY <1>1, <1>16

\* A mark is taken away by the call that looks at it, or by one that it makes,
\* unless it belongs to an AND join.
LEMMA JoinTestIs ==
  ASSUME NEW v, NEW c \in MarkCalls, c.do = "join", Sound(v, {c}), Exists(v.db, c.inst)
  PROVE  Sound(JoinTest(v, c.trans, c.inst), {})
  <1> DEFINE t == c.trans
             d == c.inst
             a == Transition[t].act_to
             in == UNION {MarksOf(v.db, u, d) : u \in Into(a)}
             y == [do |-> "unmark", trans |-> t, inst |-> d]
  <1>1. t \in DOMAIN Transition /\ d \in Doc BY DEF MarkCalls
  <1>2. a \in Act /\ Activity[a].join_mode \in {"XOR", "AND"} BY <1>1, WorkflowAssumption DEF Act
  <1>3. /\ JoinTest(v, t, d) =
            IF Activity[a].join_mode = "XOR" THEN create(Call(v, <<y>>), a, d)
            ELSE IF \A u \in Into(a) : MarksOf(v.db, u, d) # {} THEN create(DeleteMarks(v, in), a, d)
            ELSE v
    BY DEF JoinTest
  <1>4. CASE Activity[a].join_mode = "XOR"
    <2>1. y \in MarkCalls /\ y.do = "unmark" /\ y.trans = t /\ y.inst = d BY <1>1 DEF MarkCalls
    <2> HIDE DEF y, t, d
    <2>2. y \in Calls /\ Names(y) = {} BY <2>1 DEF Calls, Names
    <2>3. \A m \in v.db.marks : Cleans(c, m) => Cleans(y, m) BY <2>1 DEF Cleans, t, d
    <2>4. Sound(Call(v, <<y>>), {}) /\ Call(v, <<y>>).db = v.db BY <2>2, <2>3, PushOne
    <2>5. Sound(create(Call(v, <<y>>), a, d), {}) BY <1>1, <1>2, <2>4, createIs DEF d
    <2> QED BY <1>3, <1>4, <2>5 DEF t, d
  <1>5. CASE Activity[a].join_mode # "XOR"
    <2>1. \A m \in v.db.marks : Cleans(c, m) => Activity[Transition[m.trans].act_to].join_mode = "AND"
      BY <1>2, <1>5 DEF Cleans
    <2>2. Sound(v, {}) BY <2>1, Drop
    <2>3. in \in SUBSET v.db.marks BY DEF MarksOf
    <2> HIDE DEF in, t, d
    <2>4. Sound(DeleteMarks(v, in), {}) /\ Follows(DeleteMarks(v, in), v) BY <2>2, <2>3, DeleteMarksIs
    <2>5. Exists(DeleteMarks(v, in).db, d) BY <1>1, <2>4 DEF Follows, d
    <2>6. Sound(create(DeleteMarks(v, in), a, d), {}) BY <1>1, <1>2, <2>4, <2>5, createIs
    <2> QED BY <1>3, <1>5, <2>2, <2>6 DEF t, d
  <1> QED BY <1>4, <1>5

\* After the deletion there is no mark of the transition (workitem.py:184).
LEMMA UnmarkIs ==
  ASSUME NEW v, NEW c \in MarkCalls, Sound(v, {c})
  PROVE  Sound(DeleteMarks(v, MarksOf(v.db, c.trans, c.inst)), {})
  <1> DEFINE M == MarksOf(v.db, c.trans, c.inst)
             u == DeleteMarks(v, M)
  <1>1. M \in SUBSET v.db.marks BY DEF MarksOf
  <1>2. \A m \in v.db.marks : Cleans(c, m) => m \in M BY DEF Cleans, MarksOf
  <1> HIDE DEF M
  <1>3. Sound(u, {c}) /\ u.db.marks = v.db.marks \ M BY <1>1, DeleteMarksIs
  <1> HIDE DEF u
  <1>4. \A m \in u.db.marks : ~Cleans(c, m) BY <1>2, <1>3
  <1>5. Sound(u, {}) BY <1>3, <1>4, Drop
  <1> QED BY <1>5 DEF u, M

\* _split_test takes transitions.
LEMMA TakenIs ==
  ASSUME NEW v, NEW w \in Work, NEW signal
  PROVE  Taken(v, w, signal) \subseteq DOMAIN Transition
  <1> DEFINE holding == {t \in Out(w.act) : Check(v.db, t, w.inst, signal)}
             mode == Activity[w.act].split_mode
  <1>1. mode \in {"XOR", "OR", "AND"} BY WorkflowAssumption DEF Work, Act
  <1>2. holding \subseteq DOMAIN Transition BY DEF Out
  <1>3. CASE mode = "OR" BY <1>2, <1>3 DEF Taken
  <1>4. CASE mode = "XOR"
    <2>1. Taken(v, w, signal) = IF holding = {} THEN {} ELSE {Head(Rows(v, holding))} BY <1>4 DEF Taken
    <2> HIDE DEF holding
    <2>2. holding # {} => Head(Rows(v, holding)) \in holding BY <1>2, Selected
    <2> QED BY <1>2, <2>1, <2>2
  <1>5. CASE mode = "AND" BY <1>2, <1>5 DEF Taken
  <1> QED BY <1>1, <1>3, <1>4, <1>5

\* Each mark that _split_test makes has its _join_test pending (workitem.py:168-174).
LEMMA SplitTestIs ==
  ASSUME NEW v, NEW X, Sound(v, X), NEW w \in Work, Exists(v.db, w.inst),
         NEW taken, taken \subseteq DOMAIN Transition
  PROVE  Sound(SplitTest(v, w, taken), X)
  <1> DEFINE d == w.inst
             x == DeleteItems(v, {w.id})
             N == {[trans |-> t, inst |-> d, by |-> w.id] : t \in taken}
             M == x.db.marks \cup N
             u == [x EXCEPT !.db.marks = @ \cup N]
             joins == Rows(v, taken)
             J == {[do |-> "join", trans |-> t, inst |-> d] : t \in taken}
             f == [k \in DOMAIN joins |-> [do |-> "join", trans |-> joins[k], inst |-> d]]
  <1>1. SplitTest(v, w, taken) = Call(u, f) BY DEF SplitTest
  <1>2. d \in Doc /\ w.id \in Id BY DEF Work
  <1>3. Sound(x, X) /\ Follows(x, v) BY DeleteItemsIs
  <1> HIDE DEF x, d
  <1>4. Sound(x, X \cup J)
    <2> HIDE DEF J
    <2> QED BY <1>3, Drop
  <1>5. x.db.marks \subseteq Mark /\ \A m \in x.db.marks : Exists(x.db, m.inst) BY <1>3, Fields DEF References
  <1>6. Exists(x.db, d) BY <1>2, <1>3 DEF Follows, d
  <1>7. N \in SUBSET Mark /\ \A n \in N : n.inst = d BY <1>2 DEF Mark
  <1>8. \A n \in N : \E c \in J : Cleans(c, n)
    <2> SUFFICES ASSUME NEW t \in taken
                 PROVE  \E c \in J : Cleans(c, [trans |-> t, inst |-> d, by |-> w.id])
      OBVIOUS
    <2>1. [do |-> "join", trans |-> t, inst |-> d] \in J OBVIOUS
    <2>2. Cleans([do |-> "join", trans |-> t, inst |-> d], [trans |-> t, inst |-> d, by |-> w.id]) BY DEF Cleans
    <2> QED BY <2>1, <2>2
  <1>9. u = With(x, PutsMarks(x.db, M), x.touched)
    <2> HIDE DEF N
    <2> QED BY <1>3, Fields DEF With, PutsMarks, Running, Table
  <1>10. Sound(u, X \cup J) /\ Follows(u, x)
    <2>1. M \in SUBSET Mark /\ \A m \in M : Exists(x.db, m.inst) BY <1>5, <1>6, <1>7
    <2>2. \A m \in M \ x.db.marks : \E c \in X \cup J : Cleans(c, m) BY <1>8
    <2>3. x.touched \in Touched BY <1>3, Fields
    <2> HIDE DEF M, J, N, u
    <2> DEFINE z == With(x, PutsMarks(x.db, M), x.touched)
    <2>4. Sound(z, X \cup J) /\ Follows(z, x) BY <1>4, <2>1, <2>2, <2>3, SetMarks
    <2> QED BY <1>9, <2>4
  <1> HIDE DEF u
  <1>11. /\ joins \in Seq(taken) /\ \A k \in DOMAIN joins : joins[k] \in taken
         /\ \A t \in taken : \E k \in DOMAIN joins : joins[k] = t
    BY Selected
  <1> HIDE DEF joins
  <1>12. ASSUME NEW k \in DOMAIN joins PROVE f[k] \in Calls /\ Names(f[k]) = {d}
    <2>1. f[k] \in MarkCalls /\ f[k].do = "join" /\ f[k].inst = d BY <1>2, <1>11 DEF MarkCalls
    <2> HIDE DEF f
    <2> QED BY <2>1 DEF Calls, Names
  <1>13. f = [k \in DOMAIN joins |-> f[k]] OBVIOUS
  <1>14. \A c \in J : \E k \in DOMAIN joins : f[k] = c BY <1>11
  <1> HIDE DEF f, J
  <1>15. f \in Seq(Calls) /\ DOMAIN f = DOMAIN joins BY <1>11, <1>12, <1>13, EachIs
  <1>16. Exists(u.db, d) BY <1>2, <1>6, <1>10 DEF Follows
  <1>17. \A c \in X \cup J, m \in u.db.marks : Cleans(c, m) =>
            (\E y \in X : Cleans(y, m)) \/ \E k \in DOMAIN f : Cleans(f[k], m)
    BY <1>14, <1>15
  <1>18. Sound(Call(u, f), X) BY <1>10, <1>12, <1>15, <1>16, <1>17, Push
  <1> QED BY <1>1, <1>18

LEMMA LeaveIs ==
  ASSUME NEW v, NEW X, Sound(v, X), NEW w \in Work, Exists(v.db, w.inst), NEW state, NEW signal, NEW force
  PROVE  Sound(Leave(v, w, state, signal, force), X)
  <1> DEFINE taken == IF state = "complete" \/ force THEN Taken(v, w, signal) ELSE {}
  <1>1. taken \subseteq DOMAIN Transition BY TakenIs
  <1>2. /\ Leave(v, w, state, signal, force) =
            IF taken # {} THEN SplitTest(v, w, taken) ELSE IF w.state = "active" THEN Watch(v, w) ELSE v
    BY DEF Leave
  <1> HIDE DEF taken
  <1>3. Sound(SplitTest(v, w, taken), X) BY <1>1, SplitTestIs
  <1>4. Sound(Watch(v, w), X) BY WatchIs
  <1> QED BY <1>2, <1>3, <1>4

LEMMA processIs ==
  ASSUME NEW v, NEW X, Sound(v, X), NEW w \in Work, Exists(v.db, w.inst), NEW signal \in Signal,
         NEW force \in BOOLEAN
  PROVE  Sound(process(v, w, signal, force), X)
  BY ExecuteIs, LeaveIs DEF process

\* A trigger belongs to an item, and the item to an instance, that exists.
LEMMA trg_triggerIs ==
  ASSUME NEW v, NEW X, Sound(v, X), NEW x \in Doc
  PROVE  Sound(trg_trigger(v, x), X)
  <1> DEFINE T == {h \in v.db.trig : h.doc = x}
             S == {v.db.items[g.item].inst : g \in T}
             told == Rows(v, S)
             f == [k \in DOMAIN told |-> Update(told[k])]
  <1>1. \A i \in DOMAIN v.db.items :
            v.db.items[i].inst \in Doc /\ v.db.items[i].inst # None
    BY Fields, WorkflowAssumption DEF ItemRow
  <1>2. \A i \in DOMAIN v.db.items : Exists(v.db, v.db.items[i].inst) BY <1>1, Fields DEF References
  <1>3. \A g \in T : g.item \in DOMAIN v.db.items BY Fields DEF References
  <1> HIDE DEF T
  <1>4. S \subseteq Doc /\ \A d \in S : Exists(v.db, d) BY <1>1, <1>2, <1>3
  <1>5. trg_trigger(v, x) = Call(v, f) BY DEF trg_trigger, T
  <1> HIDE DEF S
  <1>6. told \in Seq(S) /\ \A k \in DOMAIN told : told[k] \in S BY <1>4, Selected
  <1> HIDE DEF told
  <1>7. ASSUME NEW k \in DOMAIN told PROVE f[k] \in Calls /\ Names(f[k]) = {told[k]}
    BY <1>4, <1>6, UpdateIs
  <1>8. f = [k \in DOMAIN told |-> f[k]] OBVIOUS
  <1> HIDE DEF f
  <1>9. f \in Seq(Calls) /\ DOMAIN f = DOMAIN told BY <1>6, <1>7, <1>8, EachIs
  <1>10. Sound(Call(v, f), X) BY <1>4, <1>6, <1>7, <1>9, PushMore
  <1> QED BY <1>5, <1>10

LEMMA trg_redirectIs ==
  ASSUME NEW v, NEW X, Sound(v, X), NEW old \in Doc, NEW new \in Doc
  PROVE  Sound(trg_redirect(v, old, new), X)
  <1>1. v.db.inst[new] = "active" => Exists(v.db, new) BY DEF Exists
  <1>2. v.db.inst[new] = "active" => Sound(SetSub(v, Waiting(v.db, old), new), X) BY <1>1, SetSubIs
  <1> QED BY <1>2 DEF trg_redirect

LEMMA trg_validateIs ==
  ASSUME NEW v, NEW X, Sound(v, X), NEW d \in Doc, NEW signal \in Signal
  PROVE  Sound(trg_validate(v, d, signal), X)
  <1>1. v.db.inst[d] = "active" => Exists(v.db, d) BY DEF Exists
  <1>2. Validate(d, signal, FALSE) \in Calls /\ Names(Validate(d, signal, FALSE)) = {d} BY ValidateIs
  <1>3. v.db.inst[d] = "active" => Sound(Call(v, <<Validate(d, signal, FALSE)>>), X) BY <1>1, <1>2, PushOne
  <1> QED BY <1>3 DEF trg_validate

-----------------------------------------------------------------------------
(* A request.                                                                *)

\* The call that is made next, and what it had to clean.
LEMMA MakeIs ==
  ASSUME NEW v, NEW c \in Calls, Sound(v, {c}), \A d \in Names(c) : Exists(v.db, d)
  PROVE  Sound(Make(v, c), {})
  <1>1. ASSUME c.do \notin {"join", "unmark"} PROVE Sound(v, {})
    BY <1>1, Drop DEF Cleans
  <1>2. CASE c.do = "create"
    <2>1. c.act \in Act /\ c.inst \in Doc BY <1>2, Shapes DEF CreateCalls
    <2>2. Exists(v.db, c.inst) BY <1>2 DEF Names
    <2>3. Make(v, c) = create(v, c.act, c.inst) BY <1>2 DEF Make
    <2> QED BY <1>1, <1>2, <2>1, <2>2, <2>3, createIs
  <1>3. CASE c.do = "validate"
    <2>1. c.inst \in Doc /\ c.signal \in Signal /\ c.force \in BOOLEAN BY <1>3, Shapes DEF ValidateCalls
    <2>2. Exists(v.db, c.inst) BY <1>3 DEF Names
    <2>3. Make(v, c) = validate(v, c.inst, c.signal, c.force) BY <1>3 DEF Make
    <2> QED BY <1>1, <1>3, <2>1, <2>2, <2>3, validateIs
  <1>4. CASE c.do = "process"
    <2>1. c.w \in Work /\ c.signal \in Signal /\ c.force \in BOOLEAN BY <1>4, Shapes DEF ProcessCalls
    <2>2. Exists(v.db, c.w.inst) BY <1>4 DEF Names
    <2>3. Make(v, c) = process(v, c.w, c.signal, c.force) BY <1>4 DEF Make
    <2> QED BY <1>1, <1>4, <2>1, <2>2, <2>3, processIs
  <1>5. CASE c.do = "executed"
    <2>1. c \in ExecutedCalls BY <1>5, Shapes
    <2>2. Make(v, c) = Executed(v, c) BY <1>5 DEF Make
    <2> QED BY <1>1, <1>5, <2>1, <2>2, ExecutedIs
  <1>6. CASE c.do = "leave"
    <2>1. c.w \in Work BY <1>6, Shapes DEF LeaveCalls
    <2>2. Exists(v.db, c.w.inst) BY <1>6 DEF Names
    <2>3. Make(v, c) = Leave(v, c.w, c.state, c.signal, c.force) BY <1>6 DEF Make
    <2> QED BY <1>1, <1>6, <2>1, <2>2, <2>3, LeaveIs
  <1>7. CASE c.do = "join"
    <2>1. c \in MarkCalls BY <1>7, Shapes
    <2>2. Exists(v.db, c.inst) BY <1>7 DEF Names
    <2>3. Make(v, c) = JoinTest(v, c.trans, c.inst) BY <1>7 DEF Make
    <2> QED BY <1>7, <2>1, <2>2, <2>3, JoinTestIs
  <1>8. CASE c.do = "unmark"
    <2>1. c \in MarkCalls BY <1>8, Shapes
    <2>2. Make(v, c) = DeleteMarks(v, MarksOf(v.db, c.trans, c.inst)) BY <1>8 DEF Make
    <2> QED BY <2>1, <2>2, UnmarkIs
  <1>9. CASE c.do = "end"
    <2>1. c.inst \in Doc BY <1>9, Shapes DEF EndCalls
    <2>2. Make(v, c) = UpdateEnd(v, c.inst) BY <1>9 DEF Make
    <2> QED BY <1>1, <1>9, <2>1, <2>2, UpdateEndIs
  <1>10. CASE c.do = "tell"
    <2>1. c.inst \in Doc /\ c.names \in SUBSET Act BY <1>10, Shapes DEF TellCalls
    <2>2. Exists(v.db, c.inst) BY <1>10 DEF Names
    <2>3. Make(v, c) = Tell(v, c.inst, c.names) BY <1>10 DEF Make
    <2> QED BY <1>1, <1>10, <2>1, <2>2, <2>3, TellIs
  <1>11. CASE c.do = "trigger"
    <2>1. c.doc \in Doc BY <1>11, Shapes DEF TriggerCalls
    <2>2. Make(v, c) = trg_trigger(v, c.doc) BY <1>11 DEF Make
    <2> QED BY <1>1, <1>11, <2>1, <2>2, trg_triggerIs
  <1>12. CASE c.do = "redirect"
    <2>1. c.old \in Doc /\ c.new \in Doc BY <1>12, Shapes DEF RedirectCalls
    <2>2. Make(v, c) = trg_redirect(v, c.old, c.new) BY <1>12 DEF Make
    <2> QED BY <1>1, <1>12, <2>1, <2>2, trg_redirectIs
  <1>13. CASE c.do = "signal"
    <2>1. c.inst \in Doc /\ c.signal \in Signal BY <1>13, Shapes DEF SignalCalls
    <2>2. Make(v, c) = trg_validate(v, c.inst, c.signal) BY <1>13 DEF Make
    <2> QED BY <1>1, <1>13, <2>1, <2>2, trg_validateIs
  <1> QED
    BY <1>2, <1>3, <1>4, <1>5, <1>6, <1>7, <1>8, <1>9, <1>10, <1>11, <1>12, <1>13, Shapes

\* The next call and the others.
LEMMA Popped ==
  ASSUME NEW s \in Seq(Calls), s # << >>
  PROVE  /\ Head(s) \in Calls /\ Tail(s) \in Seq(Calls) /\ 1 \in DOMAIN s /\ s[1] = Head(s)
         /\ \A k \in DOMAIN Tail(s) : k + 1 \in DOMAIN s /\ Tail(s)[k] = s[k + 1]
         /\ \A k \in DOMAIN s : k = 1 \/ (k - 1 \in DOMAIN Tail(s) /\ Tail(s)[k - 1] = s[k])
  <1> DEFINE C == Calls
  <1> HIDE DEF C
  <1>1. s \in Seq(C) BY DEF C
  <1>2. /\ Head(s) \in C /\ Tail(s) \in Seq(C) /\ Head(s) = s[1] /\ Len(s) \in Nat \ {0}
        /\ Len(Tail(s)) = Len(s) - 1 /\ DOMAIN s = 1 .. Len(s) /\ DOMAIN Tail(s) = 1 .. Len(Tail(s))
        /\ \A k \in 1 .. Len(Tail(s)) : Tail(s)[k] = s[k + 1]
    BY <1>1
  <1>3. \A k \in 1 .. Len(s) : k = 1 \/ (k - 1 \in 1 .. (Len(s) - 1) /\ (k - 1) + 1 = k) BY <1>2
  <1> QED BY <1>2, <1>3 DEF C

\* A step of the interpreter.
LEMMA StepIs ==
  ASSUME NEW v, Sound(v, {})
  PROVE  Sound(Step(v), {})
  <1>1. CASE v.todo = << >> \/ ~v.ok BY <1>1 DEF Step
  <1>2. CASE v.todo # << >> /\ v.ok
    <2> DEFINE s == v.todo
               c == Head(s)
               r == Tail(s)
               u == [v EXCEPT !.todo = r]
    <2>1. Step(v) = Make(u, c)
      <3>1. [v EXCEPT !.todo = Tail(@)] = u BY Fields DEF Running
      <3> QED BY <1>2, <3>1 DEF Step
    <2>2. /\ c \in Calls /\ r \in Seq(Calls) /\ 1 \in DOMAIN s /\ s[1] = c
          /\ \A k \in DOMAIN r : k + 1 \in DOMAIN s /\ r[k] = s[k + 1]
          /\ \A k \in DOMAIN s : k = 1 \/ (k - 1 \in DOMAIN r /\ r[k - 1] = s[k])
      BY <1>2, Fields, Popped
    <2> HIDE DEF c, r
    <2>3. u \in Running /\ u.db = v.db /\ u.ids = v.ids /\ u.todo = r
      <3>1. v \in Running /\ r \in Seq(Calls) BY <2>2 DEF Sound
      <3> HIDE DEF s
      <3> QED BY <3>1 DEF Running
    <2> HIDE DEF u
    <2>4. \A k \in DOMAIN r : \A d \in Names(r[k]) : Exists(u.db, d) BY <2>2, <2>3 DEF Sound
    <2>5. \A d \in Names(c) : Exists(u.db, d) BY <2>2, <2>3 DEF Sound
    <2>6. ASSUME NEW m \in u.db.marks
          PROVE  \/ Activity[Transition[m.trans].act_to].join_mode = "AND"
                 \/ Cleans(c, m)
                 \/ \E k \in DOMAIN r : Cleans(r[k], m)
      <3>1. \/ Activity[Transition[m.trans].act_to].join_mode = "AND"
            \/ \E k \in DOMAIN s : Cleans(s[k], m)
        BY <2>3 DEF Sound
      <3> QED BY <2>2, <3>1
    <2>7. Sound(u, {c}) BY <2>3, <2>4, <2>6 DEF Sound
    <2>8. Sound(Make(u, c), {}) BY <2>2, <2>5, <2>7, MakeIs
    <2> QED BY <2>1, <2>8
  <1> QED BY <1>1, <1>2

\* The states of a run, one after the other.
At(w, D, g) == g = [n \in D |-> IF n = 0 THEN w ELSE Step(g[n - 1])]

\* What every step keeps, a run keeps.
LEMMA RunKeeps ==
  ASSUME NEW S, NEW w \in S, \A v \in S : Step(v) \in S
  PROVE  Run(w) \in S
  <1>0. MaxSteps \in Nat BY WorkflowAssumption
  <1>1. \E g : At(w, 0 .. MaxSteps, g)
    <2> DEFINE T == {n \in Nat : \E g : At(w, 0 .. n, g)}
    <2>1. 0 \in T
      <3> DEFINE g == [n \in 0 .. 0 |-> w]
      <3>1. At(w, 0 .. 0, g) BY DEF At
      <3> QED BY <3>1
    <2>2. ASSUME NEW n \in Nat, n \in T PROVE n + 1 \in T
      <3>1. PICK g : At(w, 0 .. n, g) BY <2>2
      <3> DEFINE h == [k \in 0 .. (n + 1) |-> IF k = 0 THEN w ELSE Step(g[k - 1])]
      <3>2. \A k \in 0 .. n : h[k] = g[k] BY <3>1 DEF At
      <3>3. ASSUME NEW k \in 0 .. (n + 1), k # 0 PROVE h[k - 1] = g[k - 1]
        <4>1. k - 1 \in 0 .. n BY <3>3
        <4> HIDE DEF h
        <4> QED BY <3>2, <4>1
      <3>4. h = [k \in 0 .. (n + 1) |-> IF k = 0 THEN w ELSE Step(h[k - 1])]
        <4>1. \A k \in 0 .. (n + 1) : (IF k = 0 THEN w ELSE Step(g[k - 1])) = (IF k = 0 THEN w ELSE Step(h[k - 1]))
          BY <3>3
        <4> QED BY <4>1
      <3>5. At(w, 0 .. (n + 1), h) BY <3>4 DEF At
      <3> QED BY <3>5
    <2> HIDE DEF T
    <2>3. MaxSteps \in T BY <1>0, <2>1, <2>2, NatSet
    <2> QED BY <2>3 DEF T
  <1>2. Run(w) = (CHOOSE g : At(w, 0 .. MaxSteps, g))[MaxSteps] BY DEF Run, At
  <1>3. PICK g : At(w, 0 .. MaxSteps, g) /\ Run(w) = g[MaxSteps] BY <1>1, <1>2
  <1> DEFINE T == {n \in Nat : n <= MaxSteps => g[n] \in S}
  <1>4. 0 \in T BY <1>0, <1>3 DEF At
  <1>5. ASSUME NEW n \in Nat, n \in T PROVE n + 1 \in T
    <2> SUFFICES ASSUME n + 1 <= MaxSteps PROVE g[n + 1] \in S
      OBVIOUS
    <2>1. g[n + 1] = Step(g[n]) BY <1>0, <1>3 DEF At
    <2>2. g[n] \in S BY <1>0, <1>5
    <2> QED BY <2>1, <2>2
  <1> HIDE DEF T
  <1>6. MaxSteps \in T BY <1>0, <1>4, <1>5, NatSet
  <1> QED BY <1>0, <1>3, <1>6 DEF T

LEMMA RunIs ==
  ASSUME NEW w, Sound(w, {})
  PROVE  Sound(Run(w), {})
  <1> DEFINE S == {v \in Running : Sound(v, {})}
  <1>1. w \in S BY DEF Sound
  <1>2. \A v \in S : Step(v) \in S
    <2> SUFFICES ASSUME NEW v, Sound(v, {}) PROVE Step(v) \in Running /\ Sound(Step(v), {})
      BY DEF Sound
    <2> QED BY StepIs DEF Sound
  <1>3. \A v \in S : Sound(v, {}) OBVIOUS
  <1> HIDE DEF S
  <1> QED BY <1>1, <1>2, <1>3, RunKeeps

-----------------------------------------------------------------------------
(* The requests.                                                             *)

\* Rows as a request finds and leaves them: the marks that are left belong to
\* AND joins.
Kept(b) ==
    /\ b \in Table /\ References(b)
    /\ \A m \in b.marks : Activity[Transition[m.trans].act_to].join_mode = "AND"

\* A request begins on rows that are kept.
LEMMA FreshIs ==
  ASSUME NEW b, Kept(b), NEW ids \in SUBSET Id, ids \cap DOMAIN b.items = {}, NEW up \in BOOLEAN,
         NEW yes \in BOOLEAN
  PROVE  /\ Sound(Fresh(b, ids, up, yes), {}) /\ Fresh(b, ids, up, yes).db = b
         /\ Fresh(b, ids, up, yes).todo = << >>
  <1> DEFINE v == Fresh(b, ids, up, yes)
             C == Calls
  <1>1. Untouched \in Touched BY DEF Untouched, Touched
  <1>2. << >> \in Seq(Calls)
    <2> HIDE DEF C
    <2>1. << >> \in Seq(C) OBVIOUS
    <2> QED BY <2>1 DEF C
  <1>3. v \in Running /\ v.db = b /\ v.ids = ids /\ v.todo = << >>
    BY <1>1, <1>2 DEF Kept, Fresh, Running
  <1> HIDE DEF v
  <1>4. DOMAIN v.todo = {} BY <1>3
  <1>5. Sound(v, {}) BY <1>3, <1>4 DEF Kept, Sound
  <1> QED BY <1>3, <1>5 DEF v

\* Nothing refers to an instance that is deleted.
LEMMA DeleteInstanceIs ==
  ASSUME NEW v, Sound(v, {}), v.todo = << >>, NEW d \in Doc
  PROVE  Sound(DeleteInstance(v, d), {})
  <1> DEFINE I == ItemsOf(v.db, d) \cup Waiting(v.db, d)
             u == DeleteItems(v, I)
             M == {m \in u.db.marks : m.inst = d}
             x == DeleteMarks(u, M)
             new == [x.db.inst EXCEPT ![d] = "gone"]
             b == [x.db EXCEPT !.inst = new]
             t == [x.touched EXCEPT !.inst = @ \cup {d}]
  <1>1. DeleteInstance(v, d) = SetInstance(x, d, "gone") BY DEF DeleteInstance
  <1>2. \A i \in DOMAIN v.db.items \ I : v.db.items[i].inst # d /\ v.db.items[i].sub # d
    BY DEF ItemsOf, Waiting
  <1> HIDE DEF I
  <1>3. /\ Sound(u, {}) /\ Follows(u, v)
        /\ \A i \in DOMAIN u.db.items : i \in DOMAIN v.db.items \ I /\ u.db.items[i] = v.db.items[i]
    BY DeleteItemsIs
  <1> HIDE DEF u
  <1>4. \A i \in DOMAIN u.db.items : u.db.items[i].inst # d /\ u.db.items[i].sub # d BY <1>2, <1>3
  <1>5. M \in SUBSET u.db.marks /\ \A m \in u.db.marks \ M : m.inst # d OBVIOUS
  <1> HIDE DEF M
  <1>6. /\ Sound(x, {}) /\ Follows(x, u) /\ x.db.marks = u.db.marks \ M /\ x.db.items = u.db.items
    BY <1>3, <1>5, DeleteMarksIs
  <1> HIDE DEF x
  <1>7. SetInstance(x, d, "gone") = With(x, b, t) BY <1>6, Fields DEF SetInstance, With, Running, Table
  <1>8. /\ new \in [Doc -> {None, "active", "complete", "gone"}]
        /\ \A e \in Doc : e # d => new[e] = x.db.inst[e]
    BY <1>6, Fields DEF Table
  <1> HIDE DEF new
  <1>9. b \in Table /\ b.inst = new /\ b.items = x.db.items /\ b.marks = x.db.marks /\ b.trig = x.db.trig
    BY <1>6, <1>8, Fields DEF Table
  <1>10. t \in Touched BY <1>6, Fields DEF Touched
  <1> HIDE DEF b, t
  <1>11. References(b)
    <2>1. ASSUME NEW i \in DOMAIN b.items, NEW e \in {b.items[i].inst, b.items[i].sub} \ {None}
          PROVE Exists(b, e)
      <3>1. i \in DOMAIN x.db.items /\ e \in {x.db.items[i].inst, x.db.items[i].sub} \ {None} BY <1>9, <2>1
      <3>2. e \in Doc BY <1>6, <3>1, Fields DEF ItemRow
      <3>3. e # d BY <1>4, <1>6, <3>1
      <3>4. Exists(x.db, e) BY <1>6, <3>1, Fields DEF References
      <3> QED BY <1>8, <1>9, <3>2, <3>3, <3>4 DEF Exists
    <2>2. \A m \in b.marks : Exists(b, m.inst)
      <3>1. \A m \in x.db.marks : m.inst \in Doc /\ Exists(x.db, m.inst) /\ m.inst # d
        BY <1>5, <1>6, Fields DEF References, Mark
      <3> QED BY <1>8, <1>9, <3>1 DEF Exists
    <2>3. \A g \in b.trig : g.item \in DOMAIN b.items BY <1>6, <1>9, Fields DEF References
    <2> QED BY <2>1, <2>2, <2>3 DEF References
  <1>12. /\ With(x, b, t) \in Running /\ With(x, b, t).db = b /\ With(x, b, t).ids = x.ids
         /\ With(x, b, t).todo = << >>
    <2>1. x.todo = << >> BY <1>3, <1>6 DEF Follows
    <2> QED BY <1>6, <1>9, <1>10, <2>1, Fields, WithIs
  <1>13. \A m \in b.marks : Activity[Transition[m.trans].act_to].join_mode = "AND"
    <2>1. DOMAIN x.todo = {} BY <1>3, <1>6 DEF Follows
    <2> QED BY <1>6, <1>9, <2>1 DEF Sound
  <1> DEFINE z == With(x, b, t)
  <1> HIDE DEF z
  <1>14. DOMAIN z.todo = {} BY <1>12 DEF z
  <1>15. x.ids \cap DOMAIN b.items = {} BY <1>6, <1>9, Fields
  <1>16. z \in Running /\ z.db = b /\ z.ids = x.ids BY <1>12 DEF z
  <1>17. Sound(z, {}) BY <1>11, <1>13, <1>14, <1>15, <1>16 DEF Sound
  <1> QED BY <1>1, <1>7, <1>17 DEF z

LEMMA ChangeIs ==
  ASSUME NEW v, Sound(v, {}), NEW d \in Doc, NEW f \in Facts[d]
  PROVE  Sound(Change(v, d, f), {})
  <1> DEFINE c == [do |-> "trigger", doc |-> d]
  <1>1. c \in TriggerCalls /\ c.do = "trigger" BY DEF TriggerCalls
  <1>2. Change(v, d, f) = IF d \in Telling THEN Write(Call(v, <<c>>), d, {f}) ELSE Write(v, d, {f})
    BY DEF Change
  <1> HIDE DEF c
  <1>3. c \in Calls /\ Names(c) = {} BY <1>1 DEF Calls, Names
  <1>4. Sound(Call(v, <<c>>), {}) BY <1>3, PushOne
  <1>5. {f} \in SUBSET Fact BY DEF Fact
  <1> QED BY <1>2, <1>4, <1>5, WriteIs

LEMMA MergeIs ==
  ASSUME NEW v, Sound(v, {}), NEW m \in Merged
  PROVE  Sound(Merge(v, m), {})
  <1> DEFINE c == [do |-> "redirect", old |-> m[1], new |-> m[2]]
             e == [do |-> "signal", inst |-> m[1], signal |-> m[3]]
             cs == <<c, e>>
             C == Calls
  <1>1. m[1] \in Doc /\ m[2] \in Doc BY WorkflowAssumption
  <1>2. m[3] \in Signal BY DEF Signal
  <1>3. c \in RedirectCalls /\ e \in SignalCalls /\ c.do = "redirect" /\ e.do = "signal"
    BY <1>1, <1>2 DEF RedirectCalls, SignalCalls
  <1>4. Merge(v, m) = CreateInstance(Call(v, cs), m[2]) BY DEF Merge
  <1> HIDE DEF c, e
  <1>5. c \in C /\ e \in C /\ Names(c) = {} /\ Names(e) = {} BY <1>3 DEF Calls, Names
  <1> HIDE DEF C
  <1>6. cs \in Seq(C) /\ \A k \in DOMAIN cs : cs[k] \in {c, e} BY <1>5
  <1> HIDE DEF cs
  <1>7. Sound(Call(v, cs), {}) BY <1>5, <1>6, PushMore DEF C
  <1> QED BY <1>1, <1>4, <1>7, CreateInstanceIs

\* So does whatever is asked of the engine.
LEMMA RequestsAre ==
  ASSUME NEW v, Sound(v, {}), v.todo = << >>, NEW q \in Requests(v)
  PROVE  Sound(q, {})
  <1>1. CASE \E d \in Doc : \E signal \in Signals[d] : q = trg_validate(v, d, signal)
    <2>1. PICK d \in Doc : \E signal \in Signals[d] : q = trg_validate(v, d, signal) BY <1>1
    <2>2. PICK signal \in Signals[d] : q = trg_validate(v, d, signal) BY <2>1
    <2>3. signal \in Signal BY DEF Signal
    <2> QED BY <2>2, <2>3, trg_validateIs
  <1>2. CASE \E d \in Doc : \E f \in Facts[d] : q = Change(v, d, f)
    BY <1>2, ChangeIs
  <1>3. CASE \E d \in Doc : q = DeleteInstance(v, d) BY <1>3, DeleteInstanceIs
  <1>4. CASE \E m \in Merged : q = Merge(v, m) BY <1>4, MergeIs
  <1> DEFINE A == {e \in Doc : Exists(v.db, e)}
             B == {e \in Doc : Start[e] = {} \/ Exists(v.db, e)}
  <1>5. \/ q \in UNION {{trg_validate(v, d, s) : s \in Signals[d]} : d \in A}
        \/ q \in UNION {{Change(v, d, f) : f \in Facts[d]} : d \in B}
        \/ q \in {DeleteInstance(v, d) : d \in {e \in Deleted : Exists(v.db, e)}}
        \/ q \in {Merge(v, m) : m \in {n \in Merged : v.db.inst[n[1]] = "active" /\ v.db.inst[n[2]] = None}}
    BY DEF Requests
  <1>6. A \subseteq Doc /\ B \subseteq Doc OBVIOUS
  <1> HIDE DEF A, B
  <1>7. CASE q \in UNION {{trg_validate(v, d, s) : s \in Signals[d]} : d \in A} BY <1>1, <1>6, <1>7
  <1>8. CASE q \in UNION {{Change(v, d, f) : f \in Facts[d]} : d \in B} BY <1>2, <1>6, <1>8
  <1>9. CASE q \in {DeleteInstance(v, d) : d \in {e \in Deleted : Exists(v.db, e)}}
    <2>1. Deleted \subseteq Doc BY WorkflowAssumption
    <2> QED BY <1>3, <1>9, <2>1
  <1>10. CASE q \in {Merge(v, m) : m \in {n \in Merged : v.db.inst[n[1]] = "active" /\ v.db.inst[n[2]] = None}}
    BY <1>4, <1>10
  <1> QED BY <1>5, <1>7, <1>8, <1>9, <1>10

\* What a request leaves, when it ends.
LEMMA EvaluatedAre ==
  ASSUME NEW b, Kept(b), Free \cap DOMAIN b.items = {}, NEW v \in Evaluated(b)
  PROVE  Kept(v.db) /\ v.touched \in Touched
  <1>a. PICK up \in BOOLEAN, yes \in BOOLEAN : \E q \in Requests(Fresh(b, Free, up, yes)) : v = Run(q)
    BY DEF Evaluated
  <1>1. PICK q \in Requests(Fresh(b, Free, up, yes)) : v = Run(q) BY <1>a
  <1>2. v.todo = << >> BY DEF Evaluated
  <1>3. Free \in SUBSET Id BY DEF Free, Id
  <1>4. Sound(q, {}) BY <1>3, FreshIs, RequestsAre
  <1>5. Sound(v, {}) BY <1>1, <1>4, RunIs
  <1>6. DOMAIN v.todo = {} BY <1>2
  <1> QED BY <1>5, <1>6, Fields DEF Sound, Kept

-----------------------------------------------------------------------------
(* The transactions.                                                         *)

IInv ==
    /\ Kept(db)
    /\ sess \in [Request -> [open : BOOLEAN, snap : Table, missed : Touched]]
    /\ \A r \in Request : Kept(sess[r].snap)

\* A request that is not open.
LEMMA ClosedIs == Kept(NoRows) /\ Closed \in [open : BOOLEAN, snap : Table, missed : Touched] /\ Closed.snap = NoRows
  <1>1. << >> \in Items
    <2>1. << >> \in [{} -> ItemRow] OBVIOUS
    <2> QED BY <2>1 DEF Items
  <1>2. [d \in Doc |-> None] \in [Doc -> {None, "active", "complete", "gone"}] OBVIOUS
  <1>3. [d \in Doc |-> {}] \in [Doc -> SUBSET Fact] OBVIOUS
  <1>4. NoRows \in Table BY <1>1, <1>2, <1>3 DEF NoRows, Table
  <1>5. NoRows.items = << >> /\ NoRows.marks = {} /\ NoRows.trig = {} BY DEF NoRows
  <1>6. DOMAIN NoRows.items = {} BY <1>5
  <1>7. References(NoRows) BY <1>5, <1>6 DEF References
  <1>8. Untouched \in Touched BY DEF Untouched, Touched
  <1>9. Kept(NoRows) BY <1>4, <1>5, <1>7 DEF Kept
  <1> QED BY <1>4, <1>8, <1>9 DEF Closed

LEMMA InitInv == Init => IInv
  <1> SUFFICES ASSUME Init PROVE IInv
    OBVIOUS
  <1>1. PICK d \in Created : \E v \in {Run(CreateInstance(Fresh(NoRows, 1 .. MaxItems, TRUE, TRUE), d))} :
            v.ok /\ v.todo = << >> /\ db = v.db
    BY DEF Init
  <1> DEFINE x == Fresh(NoRows, 1 .. MaxItems, TRUE, TRUE)
             v == Run(CreateInstance(x, d))
  <1>2. v.todo = << >> /\ db = v.db BY <1>1
  <1>3. d \in Doc BY WorkflowAssumption
  <1>4. DOMAIN NoRows.items = {} BY DEF NoRows
  <1>5. Sound(x, {}) BY <1>4, ClosedIs, FreshIs DEF Id
  <1> HIDE DEF x
  <1>6. Sound(v, {}) BY <1>3, <1>5, CreateInstanceIs, RunIs
  <1> HIDE DEF v
  <1>7. DOMAIN v.todo = {} BY <1>2
  <1>8. Kept(db) BY <1>2, <1>6, <1>7, Fields DEF Sound, Kept
  <1>9. sess = [r \in Request |-> Closed] BY DEF Init
  <1> QED BY <1>8, <1>9, ClosedIs DEF IInv

LEMMA TouchedMore ==
  ASSUME NEW s \in Touched, NEW t \in Touched
  PROVE  [k \in DOMAIN s |-> s[k] \cup t[k]] \in Touched
  <1> DEFINE u == [k \in DOMAIN s |-> s[k] \cup t[k]]
  <1>1. DOMAIN s = {"item", "mark", "inst", "doc"} BY DEF Touched
  <1>2. u = [item |-> s.item \cup t.item, mark |-> s.mark \cup t.mark, inst |-> s.inst \cup t.inst,
             doc |-> s.doc \cup t.doc]
    <2> DEFINE R == [item |-> s.item \cup t.item, mark |-> s.mark \cup t.mark,
                     inst |-> s.inst \cup t.inst, doc |-> s.doc \cup t.doc]
    <2>1. DOMAIN R = DOMAIN s /\ DOMAIN u = DOMAIN s BY <1>1
    <2>2. \A k \in DOMAIN s : R[k] = u[k] BY <1>1
    <2>3. R = [k \in DOMAIN R |-> R[k]] OBVIOUS
    <2> HIDE DEF R
    <2> QED BY <2>1, <2>2, <2>3 DEF R
  <1> QED BY <1>2 DEF Touched

\* A commit puts rows that are kept among rows that are, if all references hold.
LEMMA PublishedIs ==
  ASSUME NEW old, NEW new, Kept(old), Kept(new), Kept(db), References(Published(old, new))
  PROVE  Kept(Published(old, new))
  <1> DEFINE gone == DOMAIN old.items \ DOMAIN new.items
             own == {i \in DOMAIN new.items : i \notin DOMAIN old.items \/ new.items[i] # old.items[i]}
             inst == [d \in Doc |-> IF new.inst[d] = old.inst[d] THEN db.inst[d] ELSE new.inst[d]]
             facts == [d \in Doc |-> IF new.facts[d] = old.facts[d] THEN db.facts[d] ELSE new.facts[d]]
             items == [i \in own \cup (DOMAIN db.items \ gone) |-> IF i \in own THEN new.items[i] ELSE db.items[i]]
             marks == (db.marks \ (old.marks \ new.marks)) \cup (new.marks \ old.marks)
             trig == (db.trig \ (old.trig \ new.trig)) \cup (new.trig \ old.trig)
             p == [inst |-> inst, items |-> items, marks |-> marks, trig |-> trig, facts |-> facts]
  <1>1. Published(old, new) = p BY DEF Published
  <1>2. old \in Table /\ new \in Table /\ db \in Table BY DEF Kept
  <1>3. inst \in [Doc -> {None, "active", "complete", "gone"}] BY <1>2 DEF Table
  <1>4. facts \in [Doc -> SUBSET Fact] BY <1>2 DEF Table
  <1>5. marks \in SUBSET Mark /\ trig \in SUBSET [doc : Doc, item : Id] BY <1>2 DEF Table
  <1>6. items \in Items
    <2>1. /\ DOMAIN new.items \subseteq Id /\ \A i \in DOMAIN new.items : new.items[i] \in ItemRow
          /\ DOMAIN db.items \subseteq Id /\ \A i \in DOMAIN db.items : db.items[i] \in ItemRow
      BY <1>2 DEF Table, Items
    <2>2. own \subseteq DOMAIN new.items OBVIOUS
    <2> DEFINE D == own \cup (DOMAIN db.items \ gone)
    <2>3. D \in SUBSET Id BY <2>1, <2>2
    <2> HIDE DEF own, gone
    <2>4. \A i \in D : (IF i \in own THEN new.items[i] ELSE db.items[i]) \in ItemRow BY <2>1, <2>2
    <2>5. items \in [D -> ItemRow] BY <2>4
    <2> QED BY <2>3, <2>5 DEF Items
  <1>7. \A m \in marks : Activity[Transition[m.trans].act_to].join_mode = "AND" BY DEF Kept
  <1> HIDE DEF inst, facts, items, marks, trig
  <1>8. p \in Table /\ p.marks = marks BY <1>3, <1>4, <1>5, <1>6 DEF Table
  <1> QED BY <1>1, <1>7, <1>8 DEF Kept

LEMMA NextInv == IInv /\ [Next]_vars => IInv'
  <1> SUFFICES ASSUME IInv, [Next]_vars PROVE IInv'
    OBVIOUS
  <1> DEFINE S == [open : BOOLEAN, snap : Table, missed : Touched]
  <1>0. /\ \A r \in Request : sess[r] \in S /\ sess[r].snap \in Table /\ sess[r].missed \in Touched
        /\ Kept(db) /\ sess \in [Request -> S]
    BY DEF IInv
  <1>1. ASSUME NEW r \in Request, Begin(r) PROVE IInv'
    <2> DEFINE new == [open |-> TRUE, snap |-> db, missed |-> Untouched]
    <2>1. db' = db /\ sess' = [sess EXCEPT ![r] = new] BY <1>1 DEF Begin
    <2>2. Untouched \in Touched /\ db \in Table BY <1>0 DEF Untouched, Touched, Kept
    <2>3. new \in S /\ new.snap = db BY <2>2
    <2> HIDE DEF new
    <2>4. sess' \in [Request -> S] BY <1>0, <2>1, <2>3
    <2>5. \A q \in Request : sess'[q].snap = sess[q].snap \/ sess'[q].snap = db BY <1>0, <2>1, <2>3
    <2>6. Kept(db)' BY <1>0, <2>1 DEF Kept
    <2>7. \A q \in Request : Kept(sess[q].snap) BY DEF IInv
    <2>8. \A q \in Request : Kept(sess'[q].snap) BY <1>0, <2>5, <2>7
    <2> QED BY <2>4, <2>6, <2>8 DEF IInv
  <1>2. ASSUME NEW r \in Request, Abort(r) PROVE IInv'
    <2>1. db' = db /\ sess' = [sess EXCEPT ![r] = Closed] BY <1>2 DEF Abort
    <2>2. sess' \in [Request -> S] BY <1>0, <2>1, ClosedIs
    <2>3. \A q \in Request : sess'[q] = sess[q] \/ sess'[q] = Closed BY <1>0, <2>1
    <2>4. \A q \in Request : Kept(sess[q].snap) BY DEF IInv
    <2>5. \A q \in Request : Kept(sess'[q].snap) BY <2>3, <2>4, ClosedIs
    <2> QED BY <1>0, <2>1, <2>2, <2>5 DEF IInv
  <1>3. ASSUME NEW r \in Request, Commit(r) PROVE IInv'
    <2> DEFINE old == sess[r].snap
    <2>1. Kept(old) BY DEF IInv
    <2>2. Free \cap DOMAIN old.items = {} BY DEF Free
    <2> HIDE DEF old
    <2>3. PICK v \in Evaluated(old) :
            /\ References(Published(old, v.db)) /\ db' = Published(old, v.db)
            /\ sess' = [q \in Request |->
                          IF q = r \/ ~sess[q].open THEN Closed
                          ELSE [sess[q] EXCEPT !.missed = [k \in DOMAIN @ |-> @[k] \cup v.touched[k]]]]
      BY <1>3 DEF Commit, old
    <2>4. Kept(v.db) /\ v.touched \in Touched BY <2>1, <2>2, EvaluatedAre
    <2>5. Kept(db') BY <1>0, <2>1, <2>3, <2>4, PublishedIs
    <2>6. ASSUME NEW q \in Request PROVE sess'[q] \in S /\ Kept(sess'[q].snap)
      <3> DEFINE m == [k \in DOMAIN sess[q].missed |-> sess[q].missed[k] \cup v.touched[k]]
      <3>1. m \in Touched BY <1>0, <2>4, TouchedMore
      <3>2. sess'[q] = Closed \/ sess'[q] = [sess[q] EXCEPT !.missed = m] BY <1>0, <2>3
      <3> HIDE DEF m
      <3>3. [sess[q] EXCEPT !.missed = m] \in S /\ [sess[q] EXCEPT !.missed = m].snap = sess[q].snap
        BY <1>0, <3>1
      <3>4. Kept(sess[q].snap) BY DEF IInv
      <3> QED BY <3>2, <3>3, <3>4, ClosedIs
    <2>7. sess' \in [Request -> S] BY <2>3, <2>6
    <2> QED BY <2>5, <2>6, <2>7 DEF IInv
  <1>4. CASE UNCHANGED vars
    BY <1>4 DEF IInv, Kept, vars
  <1> QED BY <1>1, <1>2, <1>3, <1>4 DEF Next

-----------------------------------------------------------------------------
(* What a request leaves of items and instances.                             *)

InstState == {None, "active", "complete", "gone"}

\* Item i needs nothing more of the request that made it: it is complete, or waits
\* for a subflow, which has not ended if nobody else is to tell.
Rests(b, i, alone) ==
    \/ b.items[i].state = "complete"
    \/ /\ b.items[i].state = "running" /\ b.items[i].sub # None
       /\ alone => b.inst[b.items[i].sub] # "complete"

\* Call c goes on with the execution of item i.
Resumes(c, i) ==
    /\ c.do \in {"process", "executed"} /\ c.w.id = i
    /\ c.do = "process" => c.w.state = "active"

Binds(c) == c.do = "executed" /\ Activity[c.w.act].kind = "subflow"

\* Call c names no item that is still to be created; the item of a subflow runs.
Fits(c, v) ==
    /\ c.do \in {"process", "executed"} => c.w.id \notin v.ids
    /\ Binds(c) /\ c.w.id \in DOMAIN v.db.items => v.db.items[c.w.id].state # "active"

\* Every item rests or is resumed by a pending call or one of Y; the instances
\* have only advanced since they were o, and those that did are locked.
Under(v, Y, alone, o) ==
    /\ \A k \in DOMAIN v.todo : Fits(v.todo[k], v)
    /\ \A i \in DOMAIN v.db.items :
        \/ Rests(v.db, i, alone)
        \/ \E c \in Y : Resumes(c, i)
        \/ \E k \in DOMAIN v.todo : Resumes(v.todo[k], i)
    /\ \A d \in Doc : /\ Onward(o[d], v.db.inst[d])
                      /\ v.db.inst[d] # o[d] => d \in v.touched.inst

\* What a statement does to items and instances: E are the items it leaves restless.
Eases(u, v, alone, E) ==
    /\ u.todo = v.todo /\ u.ids = v.ids
    /\ \A i \in DOMAIN u.db.items :
        /\ i \in DOMAIN v.db.items
        /\ u.db.items[i].state = "active" => v.db.items[i].state = "active"
        /\ i \in E \/ (Rests(v.db, i, alone) => Rests(u.db, i, alone))
    /\ \A d \in Doc : /\ Onward(v.db.inst[d], u.db.inst[d])
                      /\ u.db.inst[d] # v.db.inst[d] => d \in u.touched.inst
                      /\ d \in v.touched.inst => d \in u.touched.inst

\* A statement that changes neither.
Same(u, v) ==
    /\ u \in Running /\ u.db.items = v.db.items /\ u.db.inst = v.db.inst /\ u.touched.inst = v.touched.inst
    /\ u.todo = v.todo /\ u.ids = v.ids

LEMMA OnwardMore ==
  ASSUME NEW x \in InstState, NEW y \in InstState, NEW z \in InstState, Onward(x, y), Onward(y, z)
  PROVE  Onward(x, z)
  BY WorkflowAssumption DEF Onward, InstState

\* The fields of a request.
LEMMA Typed ==
  ASSUME NEW v \in Running
  PROVE  /\ v.db \in Table /\ v.touched \in Touched /\ v.ids \in SUBSET Id /\ v.todo \in Seq(Calls)
         /\ v.db.items \in Items /\ DOMAIN v.db.items \in SUBSET Id /\ v.db.marks \in SUBSET Mark
         /\ \A i \in DOMAIN v.db.items : v.db.items[i] \in ItemRow
         /\ v.db.inst \in [Doc -> InstState] /\ v.touched.inst \in SUBSET Doc
         /\ v.db.trig \in SUBSET [doc : Doc, item : Id] /\ v.yes \in BOOLEAN
  BY DEF Running, Table, Items, InstState, Touched

LEMMA Eased ==
  ASSUME NEW v \in Running, NEW u \in Running, NEW Y, NEW Z, NEW alone, NEW o \in [Doc -> InstState],
         Under(v, Y, alone, o), NEW E, Eases(u, v, alone, E),
         \A i \in DOMAIN u.db.items :
            i \in E \/ (\E c \in Y : Resumes(c, i)) => Rests(u.db, i, alone) \/ \E c \in Z : Resumes(c, i)
  PROVE  Under(u, Z, alone, o)
  <1>1. ASSUME NEW k \in DOMAIN u.todo PROVE Fits(u.todo[k], u)
    <2>1. Fits(v.todo[k], v) /\ u.todo[k] = v.todo[k] BY <1>1 DEF Under, Eases
    <2> QED BY <2>1 DEF Fits, Eases
  <1>2. ASSUME NEW i \in DOMAIN u.db.items
        PROVE  \/ Rests(u.db, i, alone)
               \/ \E c \in Z : Resumes(c, i)
               \/ \E k \in DOMAIN u.todo : Resumes(u.todo[k], i)
    <2>1. i \in DOMAIN v.db.items /\ (i \in E \/ (Rests(v.db, i, alone) => Rests(u.db, i, alone)))
      BY <1>2 DEF Eases
    <2>2. \/ Rests(v.db, i, alone)
          \/ \E c \in Y : Resumes(c, i)
          \/ \E k \in DOMAIN v.todo : Resumes(v.todo[k], i)
      BY <2>1 DEF Under
    <2>3. u.todo = v.todo BY DEF Eases
    <2> QED BY <2>1, <2>2, <2>3
  <1>3. ASSUME NEW d \in Doc
        PROVE  Onward(o[d], u.db.inst[d]) /\ (u.db.inst[d] # o[d] => d \in u.touched.inst)
    <2>1. o[d] \in InstState /\ v.db.inst[d] \in InstState /\ u.db.inst[d] \in InstState BY Typed
    <2>2. /\ Onward(o[d], v.db.inst[d]) /\ (v.db.inst[d] # o[d] => d \in v.touched.inst)
      BY DEF Under
    <2>3. /\ Onward(v.db.inst[d], u.db.inst[d]) /\ (u.db.inst[d] # v.db.inst[d] => d \in u.touched.inst)
          /\ d \in v.touched.inst => d \in u.touched.inst
      BY DEF Eases
    <2>4. Onward(o[d], u.db.inst[d]) BY <2>1, <2>2, <2>3, OnwardMore
    <2> QED BY <2>2, <2>3, <2>4
  <1> QED BY <1>1, <1>2, <1>3 DEF Under

LEMMA SameIs ==
  ASSUME NEW v \in Running, NEW u, Same(u, v), NEW Y, NEW alone, NEW o \in [Doc -> InstState],
         Under(v, Y, alone, o)
  PROVE  Under(u, Y, alone, o)
  <1>1. Eases(u, v, alone, {}) BY DEF Same, Eases, Rests, Onward
  <1>2. u \in Running BY DEF Same
  <1> QED BY <1>1, <1>2, Eased

\* An exception.
LEMMA RaiseSame ==
  ASSUME NEW v \in Running
  PROVE  Same(Raise(v), v) /\ ~Raise(v).ok
  BY DEF Same, Raise, Running

\* A statement by its rows and locks.
LEMMA WithAs ==
  ASSUME NEW v \in Running, NEW b \in Table, NEW t \in Touched
  PROVE  LET u == With(v, b, t)
         IN  u \in Running /\ u.db = b /\ u.touched = t /\ u.ids = v.ids /\ u.todo = v.todo
  BY DEF Running, With

\* A change of items.
LEMMA PutsAs ==
  ASSUME NEW v \in Running, NEW new, new = [i \in DOMAIN new |-> new[i]], DOMAIN new \in SUBSET Id,
         \A i \in DOMAIN new : new[i] \in ItemRow, NEW T \in SUBSET Id
  PROVE  LET u == With(v, Puts(v.db, new), Locks(v.touched, T))
         IN  /\ u \in Running /\ u.db.items = new /\ u.db.inst = v.db.inst /\ u.touched.inst = v.touched.inst
             /\ u.ids = v.ids /\ u.todo = v.todo
  <1> DEFINE b == Puts(v.db, new)
             t == Locks(v.touched, T)
  <1>1. new \in Items BY ItemsIs
  <1>2. b \in Table /\ b.items = new /\ b.inst = v.db.inst BY <1>1, Typed DEF Table, Puts
  <1>3. t \in Touched /\ t.inst = v.touched.inst BY Typed DEF Touched, Locks
  <1> HIDE DEF b, t
  <1> DEFINE u == With(v, b, t)
  <1>4. u \in Running /\ u.db = b /\ u.touched = t /\ u.ids = v.ids /\ u.todo = v.todo BY <1>2, <1>3, WithAs
  <1> QED BY <1>2, <1>3, <1>4 DEF b, t

LEMMA SetStateAs ==
  ASSUME NEW v \in Running, NEW I, NEW state \in ItemState
  PROVE  LET u == SetState(v, I, state)
         IN  /\ u \in Running /\ u.db.inst = v.db.inst /\ u.touched.inst = v.touched.inst
             /\ u.ids = v.ids /\ u.todo = v.todo /\ DOMAIN u.db.items = DOMAIN v.db.items
             /\ \A i \in DOMAIN v.db.items :
                    /\ u.db.items[i].state = IF i \in I THEN state ELSE v.db.items[i].state
                    /\ u.db.items[i].sub = v.db.items[i].sub
  <1> DEFINE f == v.db.items
             new == [i \in DOMAIN f |-> IF i \in I THEN [f[i] EXCEPT !.state = state] ELSE f[i]]
             T == I \cap DOMAIN f
             u == With(v, Puts(v.db, new), Locks(v.touched, T))
  <1>1. SetState(v, I, state) = u BY Typed DEF SetState, With, Puts, Locks, Running, Table, Touched
  <1>2. ASSUME NEW i \in DOMAIN f
        PROVE  /\ new[i] \in ItemRow /\ new[i].sub = f[i].sub
               /\ new[i].state = IF i \in I THEN state ELSE f[i].state
    <2>1. f[i] \in ItemRow BY Typed
    <2> HIDE DEF f
    <2> QED BY <2>1 DEF ItemRow
  <1>3. DOMAIN new = DOMAIN f /\ new = [i \in DOMAIN new |-> new[i]] /\ T \in SUBSET Id /\ DOMAIN f \in SUBSET Id
    BY Typed
  <1> HIDE DEF new, T
  <1>4. DOMAIN new \in SUBSET Id /\ \A i \in DOMAIN new : new[i] \in ItemRow BY <1>2, <1>3
  <1>5. /\ u \in Running /\ u.db.items = new /\ u.db.inst = v.db.inst /\ u.touched.inst = v.touched.inst
        /\ u.ids = v.ids /\ u.todo = v.todo
    BY <1>3, <1>4, PutsAs
  <1> QED BY <1>1, <1>2, <1>3, <1>5

LEMMA SetSubAs ==
  ASSUME NEW v \in Running, NEW I, NEW d \in Doc
  PROVE  LET u == SetSub(v, I, d)
         IN  /\ u \in Running /\ u.db.inst = v.db.inst /\ u.touched.inst = v.touched.inst
             /\ u.ids = v.ids /\ u.todo = v.todo /\ DOMAIN u.db.items = DOMAIN v.db.items
             /\ \A i \in DOMAIN v.db.items :
                    /\ u.db.items[i].sub = IF i \in I THEN d ELSE v.db.items[i].sub
                    /\ u.db.items[i].state = v.db.items[i].state
  <1> DEFINE f == v.db.items
             new == [i \in DOMAIN f |-> IF i \in I THEN [f[i] EXCEPT !.sub = d] ELSE f[i]]
             T == I \cap DOMAIN f
             u == With(v, Puts(v.db, new), Locks(v.touched, T))
  <1>1. SetSub(v, I, d) = u BY Typed DEF SetSub, With, Puts, Locks, Running, Table, Touched
  <1>2. ASSUME NEW i \in DOMAIN f
        PROVE  /\ new[i] \in ItemRow /\ new[i].state = f[i].state
               /\ new[i].sub = IF i \in I THEN d ELSE f[i].sub
    <2>1. f[i] \in ItemRow BY Typed
    <2> HIDE DEF f
    <2> QED BY <2>1 DEF ItemRow
  <1>3. DOMAIN new = DOMAIN f /\ new = [i \in DOMAIN new |-> new[i]] /\ T \in SUBSET Id /\ DOMAIN f \in SUBSET Id
    BY Typed
  <1> HIDE DEF new, T
  <1>4. DOMAIN new \in SUBSET Id /\ \A i \in DOMAIN new : new[i] \in ItemRow BY <1>2, <1>3
  <1>5. /\ u \in Running /\ u.db.items = new /\ u.db.inst = v.db.inst /\ u.touched.inst = v.touched.inst
        /\ u.ids = v.ids /\ u.todo = v.todo
    BY <1>3, <1>4, PutsAs
  <1> QED BY <1>1, <1>2, <1>3, <1>5

LEMMA SetInstanceAs ==
  ASSUME NEW v \in Running, NEW d \in Doc, NEW state \in InstState
  PROVE  LET u == SetInstance(v, d, state)
         IN  /\ u \in Running /\ u.db.items = v.db.items /\ u.touched.inst = v.touched.inst \cup {d}
             /\ u.ids = v.ids /\ u.todo = v.todo
             /\ \A e \in Doc : u.db.inst[e] = IF e = d THEN state ELSE v.db.inst[e]
  <1> DEFINE new == [v.db.inst EXCEPT ![d] = state]
             b == [v.db EXCEPT !.inst = new]
             t == [v.touched EXCEPT !.inst = @ \cup {d}]
  <1>1. SetInstance(v, d, state) = With(v, b, t) BY Typed DEF SetInstance, With, Running, Table, Touched
  <1>2. new \in [Doc -> InstState] BY Typed
  <1>3. \A e \in Doc : new[e] = IF e = d THEN state ELSE v.db.inst[e] BY Typed
  <1> HIDE DEF new
  <1>4. b \in Table /\ b.inst = new /\ b.items = v.db.items BY <1>2, Typed DEF Table, InstState
  <1>5. t \in Touched /\ t.inst = v.touched.inst \cup {d} BY Typed DEF Touched
  <1> HIDE DEF b, t
  <1>6. LET u == With(v, b, t)
        IN  u \in Running /\ u.db = b /\ u.touched = t /\ u.ids = v.ids /\ u.todo = v.todo
    BY <1>4, <1>5, WithAs
  <1> QED BY <1>1, <1>3, <1>4, <1>5, <1>6

LEMMA DeleteItemsAs ==
  ASSUME NEW v \in Running, NEW I
  PROVE  LET u == DeleteItems(v, I)
         IN  /\ u \in Running /\ u.db.inst = v.db.inst /\ u.touched.inst = v.touched.inst
             /\ u.ids = v.ids /\ u.todo = v.todo /\ DOMAIN u.db.items = DOMAIN v.db.items \ I
             /\ \A i \in DOMAIN u.db.items : u.db.items[i] = v.db.items[i]
  <1> DEFINE f == v.db.items
             new == [i \in DOMAIN f \ I |-> f[i]]
             g == {h \in v.db.trig : h.item \notin I}
             T == I \cap DOMAIN f
             b == [v.db EXCEPT !.items = new, !.trig = g]
             t == Locks(v.touched, T)
  <1>1. DeleteItems(v, I) = With(v, b, t)
    BY Typed DEF DeleteItems, Restrict, With, Locks, Running, Table, Touched
  <1>2. new \in Items /\ DOMAIN new = DOMAIN f \ I /\ \A i \in DOMAIN new : new[i] = f[i]
    <2>1. DOMAIN f \ I \in SUBSET Id /\ \A i \in DOMAIN f \ I : f[i] \in ItemRow BY Typed
    <2> HIDE DEF f
    <2>2. new \in [DOMAIN f \ I -> ItemRow] BY <2>1
    <2> QED BY <2>1, <2>2 DEF Items
  <1>3. g \in SUBSET [doc : Doc, item : Id] /\ T \in SUBSET Id BY Typed
  <1> HIDE DEF new, g, T
  <1>4. b \in Table /\ b.inst = v.db.inst /\ b.items = new BY <1>2, <1>3, Typed DEF Table
  <1>5. t \in Touched /\ t.inst = v.touched.inst BY <1>3, Typed DEF Touched, Locks
  <1> HIDE DEF b, t
  <1>6. LET u == With(v, b, t)
        IN  u \in Running /\ u.db = b /\ u.touched = t /\ u.ids = v.ids /\ u.todo = v.todo
    BY <1>4, <1>5, WithAs
  <1> QED BY <1>1, <1>2, <1>4, <1>5, <1>6

LEMMA DeleteMarksAs ==
  ASSUME NEW v \in Running, NEW M \in SUBSET v.db.marks
  PROVE  Same(DeleteMarks(v, M), v)
  <1> DEFINE L == v.db.marks \ M
             b == PutsMarks(v.db, L)
             t == [v.touched EXCEPT !.mark = @ \cup M]
  <1>1. L \in SUBSET Mark /\ M \in SUBSET Mark BY Typed
  <1>2. DeleteMarks(v, M) = With(v, b, t) BY Typed DEF DeleteMarks, With, PutsMarks, Running, Table, Touched
  <1> HIDE DEF L
  <1>3. b \in Table /\ b.inst = v.db.inst /\ b.items = v.db.items BY <1>1, Typed DEF Table, PutsMarks
  <1>4. t \in Touched /\ t.inst = v.touched.inst BY <1>1, Typed DEF Touched
  <1> HIDE DEF b, t
  <1>5. LET u == With(v, b, t)
        IN  u \in Running /\ u.db = b /\ u.touched = t /\ u.ids = v.ids /\ u.todo = v.todo
    BY <1>3, <1>4, WithAs
  <1> QED BY <1>2, <1>3, <1>4, <1>5 DEF Same

\* Statements keep what is under way.
LEMMA DeleteItemsUnder ==
  ASSUME NEW v \in Running, NEW I, NEW Y, NEW Z, NEW alone, NEW o \in [Doc -> InstState], Under(v, Y, alone, o),
         \A i \in DOMAIN v.db.items \ I : (\E c \in Y : Resumes(c, i)) => \E c \in Z : Resumes(c, i)
  PROVE  Under(DeleteItems(v, I), Z, alone, o)
  <1> DEFINE u == DeleteItems(v, I)
  <1>1. /\ u \in Running /\ u.db.inst = v.db.inst /\ u.touched.inst = v.touched.inst
        /\ u.ids = v.ids /\ u.todo = v.todo /\ DOMAIN u.db.items = DOMAIN v.db.items \ I
        /\ \A i \in DOMAIN u.db.items : u.db.items[i] = v.db.items[i]
    BY DeleteItemsAs
  <1> HIDE DEF u
  <1>2. Eases(u, v, alone, {}) BY <1>1 DEF Eases, Rests, Onward
  <1>3. Under(u, Z, alone, o) BY <1>1, <1>2, Eased
  <1> QED BY <1>3 DEF u

LEMMA RunsUnder ==
  ASSUME NEW v \in Running, NEW I, NEW Y, NEW Z, NEW alone, NEW o \in [Doc -> InstState], Under(v, Y, alone, o),
         \A i \in DOMAIN v.db.items : i \in I \/ (\E c \in Y : Resumes(c, i)) => \E c \in Z : Resumes(c, i)
  PROVE  Under(SetState(v, I, "running"), Z, alone, o)
  <1> DEFINE u == SetState(v, I, "running")
  <1>0. "running" \in ItemState BY DEF ItemState
  <1>1. /\ u \in Running /\ u.db.inst = v.db.inst /\ u.touched.inst = v.touched.inst
        /\ u.ids = v.ids /\ u.todo = v.todo /\ DOMAIN u.db.items = DOMAIN v.db.items
        /\ \A i \in DOMAIN v.db.items :
               /\ u.db.items[i].state = IF i \in I THEN "running" ELSE v.db.items[i].state
               /\ u.db.items[i].sub = v.db.items[i].sub
    BY <1>0, SetStateAs
  <1> HIDE DEF u
  <1>2. Eases(u, v, alone, I) BY <1>1 DEF Eases, Rests, Onward
  <1>3. Under(u, Z, alone, o) BY <1>1, <1>2, Eased
  <1> QED BY <1>3 DEF u

\* A call that does not work on an item.
Quiet(c) == c.do \notin {"process", "executed"}

\* The calls u are those of s and r.
Joins(u, s, r) ==
    /\ \A k \in DOMAIN u : (\E j \in DOMAIN s : u[k] = s[j]) \/ (\E j \in DOMAIN r : u[k] = r[j])
    /\ \A j \in DOMAIN s : \E k \in DOMAIN u : u[k] = s[j]
    /\ \A j \in DOMAIN r : \E k \in DOMAIN u : u[k] = r[j]

\* The calls of a concatenation, whatever they are.
LEMMA JoinedAny ==
  ASSUME NEW C, NEW D, NEW s \in Seq(C), NEW r \in Seq(D)
  PROVE  s \o r \in Seq(C \cup D) /\ Joins(s \o r, s, r)
  <1> DEFINE B == C \cup D
             u == s \o r
  <1>0. s \in Seq(B) /\ r \in Seq(B)
    <2>1. s \in [1 .. Len(s) -> C] /\ r \in [1 .. Len(r) -> D] /\ Len(s) \in Nat /\ Len(r) \in Nat OBVIOUS
    <2>2. s \in [1 .. Len(s) -> B] /\ r \in [1 .. Len(r) -> B] BY <2>1
    <2> HIDE DEF B
    <2> QED BY <2>1, <2>2
  <1> HIDE DEF B
  <1>1. /\ u \in Seq(B) /\ Len(u) = Len(s) + Len(r) /\ Len(s) \in Nat /\ Len(r) \in Nat
        /\ DOMAIN u = 1 .. Len(u) /\ DOMAIN s = 1 .. Len(s) /\ DOMAIN r = 1 .. Len(r)
        /\ \A k \in 1 .. Len(s) : u[k] = s[k]
        /\ \A k \in 1 .. Len(r) : u[Len(s) + k] = r[k]
    BY <1>0
  <1> HIDE DEF u
  <1>2. ASSUME NEW k \in DOMAIN u
        PROVE  (\E j \in DOMAIN s : u[k] = s[j]) \/ (\E j \in DOMAIN r : u[k] = r[j])
    <2>1. CASE k \in DOMAIN s BY <1>1, <2>1
    <2>2. CASE k \notin DOMAIN s
      <3>1. k - Len(s) \in 1 .. Len(r) /\ Len(s) + (k - Len(s)) = k BY <1>1, <1>2, <2>2
      <3> QED BY <1>1, <3>1
    <2> QED BY <2>1, <2>2
  <1>3. ASSUME NEW j \in DOMAIN r PROVE \E k \in DOMAIN u : u[k] = r[j]
    <2>1. Len(s) + j \in DOMAIN u BY <1>1
    <2> QED BY <1>1, <2>1
  <1>4. \A j \in DOMAIN s : j \in DOMAIN u BY <1>1
  <1>5. Joins(u, s, r) BY <1>1, <1>2, <1>3, <1>4 DEF Joins
  <1> QED BY <1>1, <1>5 DEF u, B

\* One thing for every row.
LEMMA EachAny ==
  ASSUME NEW S, NEW rows \in Seq(S), NEW f, f = [k \in DOMAIN rows |-> f[k]]
  PROVE  f \in Seq({f[k] : k \in DOMAIN rows}) /\ DOMAIN f = DOMAIN rows
  <1> DEFINE C == {f[k] : k \in DOMAIN rows}
  <1>1. DOMAIN rows = 1 .. Len(rows) /\ Len(rows) \in Nat OBVIOUS
  <1>2. \A k \in DOMAIN rows : f[k] \in C OBVIOUS
  <1> HIDE DEF C
  <1>3. f \in [1 .. Len(rows) -> C] BY <1>1, <1>2
  <1> QED BY <1>1, <1>3 DEF C

LEMMA OneOf == ASSUME NEW c PROVE <<c>> \in Seq({c}) /\ DOMAIN <<c>> = {1} /\ <<c>>[1] = c
  OBVIOUS

\* One more call.
LEMMA AndOne ==
  ASSUME NEW C, NEW s \in Seq(C), NEW c
  PROVE  /\ s \o <<c>> \in Seq(C \cup {c})
         /\ \A k \in DOMAIN (s \o <<c>>) : (\E j \in DOMAIN s : (s \o <<c>>)[k] = s[j]) \/ (s \o <<c>>)[k] = c
  <1> DEFINE r == <<c>>
             u == s \o r
  <1>1. r \in Seq({c}) /\ DOMAIN r = {1} /\ r[1] = c BY OneOf
  <1> HIDE DEF r
  <1>2. u \in Seq(C \cup {c}) /\ Joins(u, s, r) BY <1>1, JoinedAny
  <1> HIDE DEF u
  <1>3. \A k \in DOMAIN u : (\E j \in DOMAIN s : u[k] = s[j]) \/ u[k] = c BY <1>1, <1>2 DEF Joins
  <1> QED BY <1>2, <1>3 DEF u, r

\* The calls after a call has made its own.
LEMMA CallAs ==
  ASSUME NEW v \in Running, NEW C, NEW cs \in Seq(C)
  PROVE  LET u == Call(v, cs)
         IN  /\ u.db = v.db /\ u.ids = v.ids /\ u.touched = v.touched /\ u.yes = v.yes /\ u.ok = v.ok
             /\ u.todo = cs \o v.todo /\ Joins(u.todo, cs, v.todo)
             /\ C \subseteq Calls => u \in Running
  <1> DEFINE q == v.todo
             s == cs \o q
             u == Call(v, cs)
             D == Calls
  <1>1. q \in Seq(D) BY Typed
  <1>2. u = [v EXCEPT !.todo = s] BY DEF Call
  <1> HIDE DEF D, q
  <1>3. s \in Seq(C \cup D) /\ Joins(s, cs, q) BY <1>1, JoinedAny
  <1>4. C \subseteq D => s \in Seq(D)
    <2>1. C \subseteq D => C \cup D = D OBVIOUS
    <2> HIDE DEF s
    <2> QED BY <1>3, <2>1
  <1> HIDE DEF s, u
  <1>5. /\ u.db = v.db /\ u.ids = v.ids /\ u.touched = v.touched /\ u.yes = v.yes /\ u.ok = v.ok /\ u.todo = s
        /\ s \in Seq(D) => u \in Running
    BY <1>2 DEF Running, D
  <1>6. /\ u.db = v.db /\ u.ids = v.ids /\ u.touched = v.touched /\ u.yes = v.yes /\ u.ok = v.ok
        /\ u.todo = s /\ Joins(u.todo, cs, q)
        /\ C \subseteq D => u \in Running
    BY <1>3, <1>4, <1>5
  <1> QED BY <1>6 DEF u, s, q, D

\* Calls take over the items that Y was to resume.
LEMMA PushUnder ==
  ASSUME NEW v \in Running, NEW Y, NEW Z, NEW alone, NEW o, Under(v, Y, alone, o), NEW C, NEW cs \in Seq(C),
         \A k \in DOMAIN cs : Fits(cs[k], v),
         \A i \in DOMAIN v.db.items : (\E c \in Y : Resumes(c, i)) =>
            \/ Rests(v.db, i, alone)
            \/ \E z \in Z : Resumes(z, i)
            \/ \E k \in DOMAIN cs : Resumes(cs[k], i)
  PROVE  Under(Call(v, cs), Z, alone, o)
  <1> DEFINE u == Call(v, cs)
  <1>1. u.db = v.db /\ u.ids = v.ids /\ u.touched = v.touched /\ Joins(u.todo, cs, v.todo) BY CallAs
  <1> HIDE DEF u
  <1>2. ASSUME NEW k \in DOMAIN u.todo PROVE Fits(u.todo[k], u)
    <2>1. Fits(u.todo[k], v)
      <3>1. \A j \in DOMAIN v.todo : Fits(v.todo[j], v) BY DEF Under
      <3> QED BY <1>1, <3>1 DEF Joins
    <2> QED BY <1>1, <2>1 DEF Fits
  <1>3. ASSUME NEW i \in DOMAIN u.db.items
        PROVE  \/ Rests(u.db, i, alone)
               \/ \E c \in Z : Resumes(c, i)
               \/ \E k \in DOMAIN u.todo : Resumes(u.todo[k], i)
    <2>1. \/ Rests(v.db, i, alone)
          \/ \E c \in Y : Resumes(c, i)
          \/ \E k \in DOMAIN v.todo : Resumes(v.todo[k], i)
      BY <1>1 DEF Under
    <2>2. CASE \E k \in DOMAIN v.todo : Resumes(v.todo[k], i) BY <1>1, <2>2 DEF Joins
    <2>3. CASE \E k \in DOMAIN cs : Resumes(cs[k], i) BY <1>1, <2>3 DEF Joins
    <2> QED BY <1>1, <2>1, <2>2, <2>3
  <1>4. Under(u, Z, alone, o) BY <1>1, <1>2, <1>3 DEF Under
  <1> QED BY <1>4 DEF u

\* Calls that do not work on items, after which nothing else has changed.
LEMMA PushQuiet ==
  ASSUME NEW v \in Running, NEW Y, NEW alone, NEW o, Under(v, Y, alone, o), NEW C, NEW cs \in Seq(C),
         \A k \in DOMAIN cs : Quiet(cs[k])
  PROVE  Under(Call(v, cs), Y, alone, o)
  <1>1. \A k \in DOMAIN cs : Fits(cs[k], v) BY DEF Quiet, Fits, Binds
  <1> QED BY <1>1, PushUnder

\* The call that was taken from the list had nothing to resume.
LEMMA Done ==
  ASSUME NEW v, NEW c, NEW alone, NEW o, Under(v, {c}, alone, o), \A i : ~Resumes(c, i)
  PROVE  Under(v, {}, alone, o)
  BY DEF Under

-----------------------------------------------------------------------------
(* The interpreter keeps it.                                                 *)

LEMMA trg_writeUnder ==
  ASSUME NEW v \in Running, NEW Y, NEW alone, NEW o, Under(v, Y, alone, o), NEW d
  PROVE  Under(trg_write(v, d), Y, alone, o)
  <1> DEFINE c == Update(d)
             cs == <<c>>
  <1>1. Quiet(c) BY DEF Quiet, Update, Validate
  <1> HIDE DEF c
  <1>2. cs \in Seq({c}) /\ \A k \in DOMAIN cs : Quiet(cs[k]) BY <1>1, OneOf
  <1> HIDE DEF cs
  <1>3. Under(Call(v, cs), Y, alone, o) BY <1>2, PushQuiet
  <1> QED BY <1>3 DEF trg_write, cs, c

LEMMA WriteUnder ==
  ASSUME NEW v \in Running, NEW Y, NEW alone, NEW o \in [Doc -> InstState], Under(v, Y, alone, o),
         NEW d \in Doc, NEW facts \in SUBSET Fact
  PROVE  Under(Write(v, d, facts), Y, alone, o)
  <1> DEFINE b == [v.db EXCEPT !.facts[d] = @ \cup facts]
             t == [v.touched EXCEPT !.doc = @ \cup {d}]
             u == With(v, b, t)
  <1>1. Write(v, d, facts) = trg_write(u, d) BY Typed DEF Write, With, Running, Table, Touched
  <1>2. b \in Table /\ b.inst = v.db.inst /\ b.items = v.db.items BY Typed DEF Table
  <1>3. t \in Touched /\ t.inst = v.touched.inst BY Typed DEF Touched
  <1> HIDE DEF b, t
  <1>4. u \in Running /\ u.db = b /\ u.touched = t /\ u.ids = v.ids /\ u.todo = v.todo BY <1>2, <1>3, WithAs
  <1>5. Same(u, v) BY <1>2, <1>3, <1>4 DEF Same
  <1> HIDE DEF u
  <1>6. Under(u, Y, alone, o) BY <1>5, SameIs
  <1> QED BY <1>1, <1>4, <1>6, trg_writeUnder

LEMMA PerformUnder ==
  ASSUME NEW v \in Running, NEW Y, NEW alone, NEW o \in [Doc -> InstState], Under(v, Y, alone, o),
         NEW a \in Act, NEW d \in Doc
  PROVE  Under(Perform(v, a, d), Y, alone, o)
  <1>1. Activity[a].writes \in SUBSET Fact BY DEF Fact
  <1>2. Under(Write(v, d, Activity[a].writes), Y, alone, o) BY <1>1, WriteUnder
  <1> QED BY <1>2 DEF Perform

\* A new item has its processing pending (workitem.py:40-53).
LEMMA createUnder ==
  ASSUME NEW v \in Running, NEW Y, NEW alone, NEW o \in [Doc -> InstState], Under(v, Y, alone, o),
         NEW a \in Act, NEW d \in Doc, v.ids \cap DOMAIN v.db.items = {}
  PROVE  Under(create(v, a, d), Y, alone, o)
  <1> DEFINE i == Min(v.ids)
             row == [act |-> a, inst |-> d, state |-> "active", sub |-> None]
             w == [id |-> i, act |-> a, inst |-> d, state |-> "active"]
             c == [do |-> "process", w |-> w, signal |-> None, force |-> FALSE]
             f == v.db.items
             new == [k \in DOMAIN f \cup {i} |-> IF k = i THEN row ELSE f[k]]
             u == [v EXCEPT !.ids = @ \ {i}, !.db.items = new]
  <1>1. CASE v.ids = {}
    <2>1. create(v, a, d) = Raise(v) BY <1>1 DEF create
    <2> QED BY <2>1, RaiseSame, SameIs
  <1>2. CASE v.ids # {}
    <2>1. create(v, a, d) = Call(u, <<c>>) BY <1>2, Typed DEF create, Running, Table
    <2>2. i \in v.ids /\ i \in Id
      <3>1. v.ids \in SUBSET Nat BY Typed DEF Id
      <3> QED BY <1>2, <3>1, MinIn, Typed
    <2> HIDE DEF i
    <2>3. row \in ItemRow BY DEF ItemRow, ItemState
    <2>4. c.do = "process" /\ c.w.id = i /\ c.w.state = "active" OBVIOUS
    <2> HIDE DEF row, c
    <2>5. /\ DOMAIN new = DOMAIN f \cup {i} /\ i \notin DOMAIN f
          /\ new = [k \in DOMAIN new |-> new[k]]
          /\ \A k \in DOMAIN f : new[k] = f[k]
          /\ \A k \in DOMAIN new : new[k] \in ItemRow
      <3>1. i \notin DOMAIN f /\ \A k \in DOMAIN f : f[k] \in ItemRow BY <2>2, Typed
      <3> HIDE DEF f
      <3> QED BY <2>3, <3>1
    <2> HIDE DEF new
    <2>6. new \in Items
      <3>1. DOMAIN new \in SUBSET Id BY <2>2, <2>5, Typed
      <3> QED BY <2>5, <3>1, ItemsIs
    <2> DEFINE b == Puts(v.db, new)
    <2>7. u = [v EXCEPT !.db = b, !.ids = v.ids \ {i}] BY Typed DEF Puts, Running, Table
    <2>8. b \in Table /\ b.inst = v.db.inst /\ b.items = new BY <2>6, Typed DEF Table, Puts
    <2> HIDE DEF b, u
    <2>9. u \in Running /\ u.db = b /\ u.ids = v.ids \ {i} /\ u.todo = v.todo /\ u.touched = v.touched
      <3>1. v \in Running /\ v.ids \ {i} \in SUBSET Id BY Typed
      <3> QED BY <2>7, <2>8, <3>1 DEF Running
    <2>10. ASSUME NEW k \in DOMAIN u.todo PROVE Fits(u.todo[k], u)
      <3>1. Fits(v.todo[k], v) /\ u.todo[k] = v.todo[k] BY <2>9, <2>10 DEF Under
      <3> DEFINE e == v.todo[k]
      <3> HIDE DEF e
      <3>2. e.do \in {"process", "executed"} => e.w.id \notin v.ids BY <3>1 DEF Fits, e
      <3>3. ASSUME Binds(e), e.w.id \in DOMAIN u.db.items PROVE u.db.items[e.w.id].state # "active"
        <4>1. e.w.id # i BY <2>2, <3>2, <3>3 DEF Binds
        <4>2. e.w.id \in DOMAIN f BY <2>5, <2>8, <2>9, <3>3, <4>1
        <4>3. f[e.w.id].state # "active" BY <3>1, <3>3, <4>2 DEF Fits, e
        <4> QED BY <2>5, <2>8, <2>9, <4>2, <4>3
      <3> QED BY <2>9, <3>1, <3>2, <3>3 DEF Fits, e
    <2>11. ASSUME NEW k \in DOMAIN u.db.items
           PROVE  \/ Rests(u.db, k, alone)
                  \/ \E y \in Y \cup {c} : Resumes(y, k)
                  \/ \E j \in DOMAIN u.todo : Resumes(u.todo[j], k)
      <3>1. CASE k = i BY <2>4, <3>1 DEF Resumes
      <3>2. CASE k # i
        <4>1. k \in DOMAIN f /\ u.db.items[k] = f[k] /\ u.db.inst = v.db.inst BY <2>5, <2>8, <2>9, <2>11, <3>2
        <4>2. \/ Rests(v.db, k, alone)
              \/ \E y \in Y : Resumes(y, k)
              \/ \E j \in DOMAIN v.todo : Resumes(v.todo[j], k)
          BY <4>1 DEF Under
        <4>3. Rests(v.db, k, alone) => Rests(u.db, k, alone) BY <4>1 DEF Rests
        <4> QED BY <2>9, <4>2, <4>3
      <3> QED BY <3>1, <3>2
    <2>12. Under(u, Y \cup {c}, alone, o) BY <2>8, <2>9, <2>10, <2>11 DEF Under
    <2> DEFINE cs == <<c>>
    <2>13. cs \in Seq({c}) /\ DOMAIN cs = {1} /\ cs[1] = c BY OneOf
    <2> HIDE DEF cs
    <2>14. Fits(c, u) BY <2>4, <2>9 DEF Fits, Binds
    <2>15. Under(Call(u, cs), Y, alone, o)
      <3>1. \A k \in DOMAIN cs : Fits(cs[k], u) BY <2>13, <2>14
      <3>2. \A k \in DOMAIN u.db.items : (\E y \in Y \cup {c} : Resumes(y, k)) =>
                (\E z \in Y : Resumes(z, k)) \/ \E j \in DOMAIN cs : Resumes(cs[j], k)
        BY <2>13
      <3> QED BY <2>9, <2>12, <2>13, <3>1, <3>2, PushUnder
    <2> QED BY <2>1, <2>15 DEF cs
  <1> QED BY <1>1, <1>2

\* Calls for every row that work on no item, and another one.
LEMMA EachQuiet ==
  ASSUME NEW v \in Running, NEW Y, NEW alone, NEW o, Under(v, Y, alone, o),
         NEW S, NEW rows \in Seq(S), NEW f, f = [k \in DOMAIN rows |-> f[k]], \A k \in DOMAIN rows : Quiet(f[k])
  PROVE  /\ Under(Call(v, f), Y, alone, o)
         /\ \A c : Quiet(c) => Under(Call(v, f \o <<c>>), Y, alone, o)
  <1> DEFINE C == {f[k] : k \in DOMAIN rows}
  <1>1. f \in Seq(C) /\ DOMAIN f = DOMAIN rows BY EachAny
  <1> HIDE DEF C
  <1>2. Under(Call(v, f), Y, alone, o) BY <1>1, PushQuiet
  <1>3. ASSUME NEW c, Quiet(c) PROVE Under(Call(v, f \o <<c>>), Y, alone, o)
    <2> DEFINE s == f \o <<c>>
               D == C \cup {c}
    <2>1. s \in Seq(D) /\ \A k \in DOMAIN s : (\E j \in DOMAIN f : s[k] = f[j]) \/ s[k] = c BY <1>1, AndOne
    <2> HIDE DEF s, D
    <2>2. \A k \in DOMAIN s : Quiet(s[k]) BY <1>1, <1>3, <2>1
    <2>3. Under(Call(v, s), Y, alone, o) BY <2>1, <2>2, PushQuiet
    <2> QED BY <2>3 DEF s
  <1> QED BY <1>2, <1>3

LEMMA UpdateQuiet ==
  ASSUME NEW d, NEW signal, NEW force
  PROVE  Quiet(Update(d)) /\ Quiet(Validate(d, signal, force))
  BY DEF Quiet, Update, Validate

\* An instance is created where there was none (instance.py:22-30).
LEMMA CreateInstanceUnder ==
  ASSUME NEW v \in Running, NEW Y, NEW alone, NEW o \in [Doc -> InstState], Under(v, Y, alone, o),
         NEW d \in Doc, v.db.inst[d] = None
  PROVE  Under(CreateInstance(v, d), Y, alone, o)
  <1> DEFINE u == SetInstance(v, d, "active")
             acts == Rows(v, Start[d])
             f == [k \in DOMAIN acts |-> [do |-> "create", act |-> acts[k], inst |-> d]]
  <1>1. CreateInstance(v, d) = Call(u, f \o <<Update(d)>>) BY DEF CreateInstance
  <1>2. Start[d] \subseteq Act BY WorkflowAssumption DEF Act
  <1>3. acts \in Seq(Start[d]) BY <1>2, Selected
  <1> HIDE DEF acts
  <1>4. "active" \in InstState BY DEF InstState
  <1>5. /\ u \in Running /\ u.db.items = v.db.items /\ u.touched.inst = v.touched.inst \cup {d}
        /\ u.ids = v.ids /\ u.todo = v.todo
        /\ \A e \in Doc : u.db.inst[e] = IF e = d THEN "active" ELSE v.db.inst[e]
    BY <1>4, SetInstanceAs
  <1> HIDE DEF u
  <1>6. Eases(u, v, alone, {})
    <2>1. ASSUME NEW i \in DOMAIN u.db.items, Rests(v.db, i, alone) PROVE Rests(u.db, i, alone)
      <3>1. v.db.items[i] \in ItemRow BY <1>5, Typed
      <3>2. v.db.items[i].sub # None => v.db.items[i].sub \in Doc BY <3>1 DEF ItemRow
      <3> QED BY <1>5, <2>1, <3>2 DEF Rests
    <2>2. ASSUME NEW e \in Doc
          PROVE  /\ Onward(v.db.inst[e], u.db.inst[e]) /\ (u.db.inst[e] # v.db.inst[e] => e \in u.touched.inst)
                 /\ e \in v.touched.inst => e \in u.touched.inst
      BY <1>5 DEF Onward
    <2> QED BY <1>5, <2>1, <2>2 DEF Eases
  <1>7. Under(u, Y, alone, o) BY <1>5, <1>6, Eased
  <1>8. f = [k \in DOMAIN acts |-> f[k]] /\ \A k \in DOMAIN acts : Quiet(f[k]) BY DEF Quiet
  <1> HIDE DEF f
  <1> QED BY <1>1, <1>3, <1>5, <1>7, <1>8, EachQuiet, UpdateQuiet

\* The end of an instance is written into all items that wait for it (instance.py:55-73).
LEMMA UpdateEndUnder ==
  ASSUME NEW v \in Running, NEW Y, NEW alone, NEW o \in [Doc -> InstState], Under(v, Y, alone, o),
         NEW d \in Doc, Exists(v.db, d)
  PROVE  Under(UpdateEnd(v, d), Y, alone, o)
  <1> DEFINE own == ItemsOf(v.db, d)
             ended == \A i \in own : /\ v.db.items[i].state = "complete"
                                     /\ Activity[v.db.items[i].act].flow_stop
             names == {v.db.items[i].act : i \in own}
             S == Parents(v.db, d)
             parents == Rows(v, S)
             f == [k \in DOMAIN parents |-> [do |-> "tell", inst |-> parents[k], names |-> names]]
             I == Waiting(v.db, d)
             x == SetInstance(v, d, "complete")
             u == SetState(x, I, "complete")
  <1>1. UpdateEnd(v, d) = IF ~ended THEN v ELSE Call(u, f) BY DEF UpdateEnd
  <1>2. parents \in Seq(S)
    <2>1. \A i \in DOMAIN v.db.items : v.db.items[i].inst \in Doc BY Typed DEF ItemRow
    <2>2. S \subseteq Doc BY <2>1 DEF Parents, Waiting
    <2> HIDE DEF S
    <2> QED BY <2>2, Selected
  <1> HIDE DEF ended, names, S, parents
  <1>3. "complete" \in InstState /\ "complete" \in ItemState BY DEF InstState, ItemState
  <1>4. /\ x \in Running /\ x.db.items = v.db.items /\ x.touched.inst = v.touched.inst \cup {d}
        /\ x.ids = v.ids /\ x.todo = v.todo
        /\ \A e \in Doc : x.db.inst[e] = IF e = d THEN "complete" ELSE v.db.inst[e]
    BY <1>3, SetInstanceAs
  <1> HIDE DEF x
  <1>5. /\ u \in Running /\ u.db.inst = x.db.inst /\ u.touched.inst = x.touched.inst
        /\ u.ids = x.ids /\ u.todo = x.todo /\ DOMAIN u.db.items = DOMAIN x.db.items
        /\ \A i \in DOMAIN x.db.items :
               /\ u.db.items[i].state = IF i \in I THEN "complete" ELSE x.db.items[i].state
               /\ u.db.items[i].sub = x.db.items[i].sub
    BY <1>3, <1>4, SetStateAs
  <1> HIDE DEF u
  <1>6. Eases(u, v, alone, {})
    <2>1. ASSUME NEW i \in DOMAIN u.db.items
          PROVE  /\ i \in DOMAIN v.db.items
                 /\ u.db.items[i].state = "active" => v.db.items[i].state = "active"
                 /\ Rests(v.db, i, alone) => Rests(u.db, i, alone)
      <3>1. i \in DOMAIN v.db.items BY <1>4, <1>5
      <3>2. u.db.items[i].state = (IF i \in I THEN "complete" ELSE v.db.items[i].state)
            /\ u.db.items[i].sub = v.db.items[i].sub
        BY <1>4, <1>5, <3>1
      <3>3. i \in I => Rests(u.db, i, alone) BY <3>2 DEF Rests
      <3>4. i \notin I /\ v.db.items[i].sub # None => u.db.inst[v.db.items[i].sub] = v.db.inst[v.db.items[i].sub]
        <4>1. v.db.items[i] \in ItemRow BY <3>1, Typed
        <4>2. v.db.items[i].sub # None => v.db.items[i].sub \in Doc BY <4>1 DEF ItemRow
        <4>3. i \notin I => v.db.items[i].sub # d BY <3>1 DEF Waiting
        <4> QED BY <1>4, <1>5, <4>2, <4>3
      <3>5. i \notin I /\ Rests(v.db, i, alone) => Rests(u.db, i, alone) BY <3>2, <3>4 DEF Rests
      <3> QED BY <3>1, <3>2, <3>3, <3>5
    <2>2. ASSUME NEW e \in Doc
          PROVE  /\ Onward(v.db.inst[e], u.db.inst[e]) /\ (u.db.inst[e] # v.db.inst[e] => e \in u.touched.inst)
                 /\ e \in v.touched.inst => e \in u.touched.inst
      <3>1. None # "complete" BY WorkflowAssumption
      <3> QED BY <1>4, <1>5, <3>1 DEF Onward, Exists
    <2> QED BY <1>4, <1>5, <2>1, <2>2 DEF Eases
  <1> HIDE DEF I
  <1>7. Under(u, Y, alone, o) BY <1>5, <1>6, Eased
  <1>8. f = [k \in DOMAIN parents |-> f[k]] /\ \A k \in DOMAIN parents : Quiet(f[k]) BY DEF Quiet
  <1> HIDE DEF f
  <1>9. Under(Call(u, f), Y, alone, o) BY <1>2, <1>5, <1>7, <1>8, EachQuiet
  <1> QED BY <1>1, <1>9

LEMMA TellUnder ==
  ASSUME NEW v \in Running, NEW Y, NEW alone, NEW o, Under(v, Y, alone, o), NEW d, NEW names \in SUBSET Act
  PROVE  Under(Tell(v, d, names), Y, alone, o)
  <1> DEFINE acts == Rows(v, names)
             f == [k \in DOMAIN acts |-> Validate(d, Subflow(acts[k]), FALSE)]
  <1>1. acts \in Seq(names) BY Selected
  <1> HIDE DEF acts
  <1>2. f = [k \in DOMAIN acts |-> f[k]] /\ \A k \in DOMAIN acts : Quiet(f[k]) BY UpdateQuiet
  <1> HIDE DEF f
  <1>3. Under(Call(v, f), Y, alone, o) BY <1>1, <1>2, EachQuiet
  <1> QED BY <1>3 DEF Tell, acts, f

\* Items are fetched that are there (instance.py:38-53).
LEMMA validateUnder ==
  ASSUME NEW v \in Running, NEW Y, NEW alone, NEW o, Under(v, Y, alone, o), NEW d, NEW signal, NEW force,
         v.ids \cap DOMAIN v.db.items = {}
  PROVE  Under(validate(v, d, signal, force), Y, alone, o)
  <1> DEFINE S == ItemsOf(v.db, d)
             ids == Rows(v, S)
             Item(i) == [id |-> i, act |-> v.db.items[i].act, inst |-> d, state |-> v.db.items[i].state]
             f == [k \in DOMAIN ids |-> [do |-> "process", w |-> Item(ids[k]), signal |-> signal, force |-> force]]
             c == [do |-> "end", inst |-> d]
             C == {f[k] : k \in DOMAIN ids}
             s == f \o <<c>>
             D == C \cup {c}
  <1>1. validate(v, d, signal, force) = Call(v, s) BY DEF validate
  <1>2. S \subseteq DOMAIN v.db.items /\ S \subseteq Id BY Typed DEF ItemsOf
  <1> HIDE DEF S
  <1>3. ids \in Seq(S) /\ \A k \in DOMAIN ids : ids[k] \in S BY <1>2, Selected
  <1> HIDE DEF ids
  <1>4. \A k \in DOMAIN ids : f[k].do = "process" /\ f[k].w.id = ids[k] OBVIOUS
  <1>5. f = [k \in DOMAIN ids |-> f[k]] /\ c.do = "end" OBVIOUS
  <1> HIDE DEF f, c
  <1>6. f \in Seq(C) /\ DOMAIN f = DOMAIN ids BY <1>3, <1>5, EachAny
  <1> HIDE DEF C
  <1>7. s \in Seq(D) /\ \A k \in DOMAIN s : (\E j \in DOMAIN f : s[k] = f[j]) \/ s[k] = c BY <1>6, AndOne
  <1> HIDE DEF s, D
  <1>8. \A k \in DOMAIN ids : Fits(f[k], v)
    <2>1. \A k \in DOMAIN ids : ids[k] \notin v.ids BY <1>2, <1>3
    <2> QED BY <1>4, <2>1 DEF Fits, Binds
  <1>9. Fits(c, v) BY <1>5 DEF Fits, Binds
  <1>10. \A k \in DOMAIN s : Fits(s[k], v) BY <1>6, <1>7, <1>8, <1>9
  <1>11. Under(Call(v, s), Y, alone, o) BY <1>7, <1>10, PushUnder
  <1> QED BY <1>1, <1>11

\* The item runs, and what is left of its execution is pending.
LEMMA ResumedUnder ==
  ASSUME NEW v \in Running, NEW p, NEW alone, NEW o \in [Doc -> InstState], Under(v, {p}, alone, o),
         NEW w, \A i : Resumes(p, i) => i = w.id, w.id \notin v.ids,
         NEW c \in Calls, c.do = "executed", c.w = w
  PROVE  LET x == SetState(v, {w.id}, "running")
             run == Call(x, <<c>>)
         IN  Under(run, {}, alone, o) /\ run \in Running /\ run.db.inst = v.db.inst /\ run.ids = v.ids
  <1> DEFINE x == SetState(v, {w.id}, "running")
             cs == <<c>>
             run == Call(x, cs)
  <1>1. "running" \in ItemState BY DEF ItemState
  <1>2. /\ x \in Running /\ x.db.inst = v.db.inst /\ x.ids = v.ids /\ DOMAIN x.db.items = DOMAIN v.db.items
        /\ \A i \in DOMAIN v.db.items : i = w.id => x.db.items[i].state = "running"
    BY <1>1, SetStateAs
  <1>3. Under(x, {c}, alone, o)
    <2>1. \A i \in DOMAIN v.db.items : i \in {w.id} \/ (\E y \in {p} : Resumes(y, i)) => \E y \in {c} : Resumes(y, i)
      BY DEF Resumes
    <2> HIDE DEF x
    <2> QED BY <2>1, RunsUnder DEF x
  <1> HIDE DEF x
  <1>4. Fits(c, x) BY <1>2 DEF Fits
  <1>5. cs \in Seq({c}) /\ DOMAIN cs = {1} /\ cs[1] = c BY OneOf
  <1> HIDE DEF cs
  <1>6. Under(run, {}, alone, o)
    <2>1. \A k \in DOMAIN cs : Fits(cs[k], x) BY <1>4, <1>5
    <2>2. \A i \in DOMAIN x.db.items : (\E y \in {c} : Resumes(y, i)) => \E k \in DOMAIN cs : Resumes(cs[k], i)
      BY <1>5
    <2> QED BY <1>2, <1>3, <1>5, <2>1, <2>2, PushUnder
  <1>7. run.db = x.db /\ run.ids = x.ids /\ run \in Running
    <2>1. {c} \subseteq Calls OBVIOUS
    <2> HIDE DEF run
    <2> QED BY <1>2, <1>5, <2>1, CallAs DEF run
  <1> HIDE DEF run
  <1>8. Under(run, {}, alone, o) /\ run \in Running /\ run.db.inst = v.db.inst /\ run.ids = v.ids
    BY <1>2, <1>6, <1>7
  <1> QED BY <1>8 DEF run, cs, x

\* The item of a subflow is deleted, or runs until what is left is done (workitem.py:126-145).
LEMMA DescendUnder ==
  ASSUME NEW v \in Running, NEW p, NEW alone, NEW o \in [Doc -> InstState], Under(v, {p}, alone, o),
         NEW w \in Work, \A i : Resumes(p, i) => i = w.id, w.id \notin v.ids,
         NEW c \in Calls, c.do = "executed", c.w = w, Activity[w.act].kind = "subflow",
         Descend(v, w, c).ok
  PROVE  Under(Descend(v, w, c), {}, alone, o)
  <1> DEFINE s == SubDoc(w.act, w.inst)
             x == SetState(v, {w.id}, "running")
             run == Call(x, <<c>>)
  <1>1. s \in Doc BY WorkflowAssumption DEF Work, Act
  <1>2. Under(run, {}, alone, o) /\ run \in Running /\ run.db.inst = v.db.inst
    <2> HIDE DEF run, x
    <2> QED BY ResumedUnder DEF run, x
  <1>3. CASE ~v.yes
    <2>1. Descend(v, w, c) = DeleteItems(v, {w.id}) BY <1>3 DEF Descend
    <2>2. \A i \in DOMAIN v.db.items \ {w.id} : (\E y \in {p} : Resumes(y, i)) => \E y \in {} : Resumes(y, i)
      OBVIOUS
    <2>3. Under(DeleteItems(v, {w.id}), {}, alone, o) BY <2>2, DeleteItemsUnder
    <2> QED BY <2>1, <2>3
  <1>4. CASE v.yes /\ v.db.inst[s] = None
    <2>1. None # "gone" BY WorkflowAssumption
    <2>2. Descend(v, w, c) = CreateInstance(run, s) BY <1>4, <2>1 DEF Descend
    <2> HIDE DEF run, s
    <2>3. Under(CreateInstance(run, s), {}, alone, o) BY <1>1, <1>2, <1>4, CreateInstanceUnder
    <2> QED BY <2>2, <2>3
  <1>5. CASE v.yes /\ v.db.inst[s] = "gone"
    <2>1. None # "gone" BY WorkflowAssumption
    <2>2. Descend(v, w, c) = Raise(v) BY <1>5, <2>1 DEF Descend
    <2> QED BY <2>2, RaiseSame
  <1>6. CASE v.yes /\ v.db.inst[s] \notin {None, "gone"}
    <2>1. Descend(v, w, c) = run BY <1>6 DEF Descend
    <2> QED BY <1>2, <2>1
  <1> QED BY <1>3, <1>4, <1>5, <1>6

\* An item that is executed has the rest pending, or is no more (workitem.py:79-145).
LEMMA ExecuteUnder ==
  ASSUME NEW v \in Running, NEW p, NEW alone, NEW o \in [Doc -> InstState], Under(v, {p}, alone, o),
         NEW X, Sound(v, X),
         NEW w \in Work, \A i : Resumes(p, i) => i = w.id, w.id \notin v.ids,
         NEW signal \in Signal, NEW force \in BOOLEAN, Execute(v, w, signal, force).ok
  PROVE  Under(Execute(v, w, signal, force), {}, alone, o)
  <1> DEFINE act == Activity[w.act]
             up == IF act.signal_send = None THEN {} ELSE Parents(v.db, w.inst)
             c == [do |-> "executed", w |-> w, parents |-> up, signal |-> signal, force |-> force]
             x == SetState(v, {w.id}, "running")
             run == Call(x, <<c>>)
             I == ItemsOf(v.db, w.inst) \ {w.id}
             alive == DeleteItems(run, I)
             u == Execute(v, w, signal, force)
  <1>1. w.inst \in Doc /\ w.act \in Act /\ w.act \in DOMAIN Activity BY DEF Work, Act
  <1>2. up \in SUBSET Doc BY <1>1, ParentsAre
  <1>3. u = CASE act.kind = "dummy" -> Call(v, <<c>>)
              [] act.kind = "function" -> Perform(run, w.act, w.inst)
              [] act.kind = "stopall" -> Perform(alive, w.act, w.inst)
              [] act.kind = "subflow" -> Descend(v, w, c)
    BY DEF Execute
  <1>4. act.kind \in {"dummy", "function", "stopall", "subflow"} BY <1>1, WorkflowAssumption
  <1> HIDE DEF up
  <1>5. c \in Calls BY <1>2, RestIs
  <1>6. c.do = "executed" /\ c.w = w OBVIOUS
  <1> HIDE DEF c, I, act, u
  <1>7. Under(run, {}, alone, o) /\ run \in Running
    <2> HIDE DEF run, x
    <2> QED BY <1>5, <1>6, ResumedUnder DEF run, x
  <1> HIDE DEF run
  <1>8. CASE act.kind = "dummy"
    <2> DEFINE cs == <<c>>
    <2>1. u = Call(v, cs) BY <1>3, <1>8
    <2>2. cs \in Seq({c}) /\ DOMAIN cs = {1} /\ cs[1] = c BY OneOf
    <2> HIDE DEF cs
    <2>3. Fits(c, v) BY <1>6, <1>8 DEF Fits, Binds, act
    <2>4. \A k \in DOMAIN cs : Fits(cs[k], v) BY <2>2, <2>3
    <2>5. \A i \in DOMAIN v.db.items : (\E y \in {p} : Resumes(y, i)) => \E k \in DOMAIN cs : Resumes(cs[k], i)
      BY <1>6, <2>2 DEF Resumes
    <2>6. Under(Call(v, cs), {}, alone, o) BY <2>2, <2>4, <2>5, PushUnder
    <2> QED BY <2>1, <2>6 DEF u
  <1>9. CASE act.kind = "function"
    <2>1. u = Perform(run, w.act, w.inst) BY <1>3, <1>9
    <2>2. Under(Perform(run, w.act, w.inst), {}, alone, o) BY <1>1, <1>7, PerformUnder
    <2> QED BY <2>1, <2>2 DEF u
  <1>10. CASE act.kind = "stopall"
    <2>1. u = Perform(alive, w.act, w.inst) BY <1>3, <1>10
    <2>2. Under(alive, {}, alone, o) BY <1>7, DeleteItemsUnder
    <2>3. alive \in Running BY <1>7, DeleteItemsAs
    <2> HIDE DEF alive
    <2>4. Under(Perform(alive, w.act, w.inst), {}, alone, o) BY <1>1, <2>2, <2>3, PerformUnder
    <2> QED BY <2>1, <2>4 DEF u
  <1>11. CASE act.kind = "subflow"
    <2>1. u = Descend(v, w, c) BY <1>3, <1>11
    <2>2. Descend(v, w, c).ok BY <2>1 DEF u
    <2>3. Under(Descend(v, w, c), {}, alone, o) BY <1>5, <1>6, <1>11, <2>2, DescendUnder DEF act
    <2> QED BY <2>1, <2>3 DEF u
  <1> QED BY <1>4, <1>8, <1>9, <1>10, <1>11

\* Then the item is complete or waits for its subflow, which has not ended (workitem.py:126-145).
LEMMA ExecutedUnder ==
  ASSUME NEW v \in Running, NEW c \in ExecutedCalls, NEW alone, NEW o \in [Doc -> InstState],
         Under(v, {c}, alone, o), Fits(c, v)
  PROVE  Under(Executed(v, c), {}, alone, o)
  <1> DEFINE w == c.w
             act == Activity[w.act]
             s == SubDoc(w.act, w.inst)
             flows == act.kind = "subflow"
             bound == IF flows THEN SetSub(v, {w.id}, s) ELSE v
             waits == flows /\ v.db.inst[s] # "complete"
             S == c.parents
             parents == Rows(v, S)
             u == IF waits THEN bound ELSE SetState(bound, {w.id}, "complete")
             f == [k \in DOMAIN parents |-> Validate(parents[k], act.signal_send, TRUE)]
             l == [do |-> "leave", w |-> w, state |-> IF waits THEN "running" ELSE "complete",
                   signal |-> c.signal, force |-> c.force]
  <1>1. Executed(v, c) = Call(u, f \o <<l>>) BY DEF Executed
  <1>2. w \in Work /\ S \subseteq Doc /\ c.do = "executed" BY DEF ExecutedCalls
  <1>3. flows => s \in Doc BY <1>2, WorkflowAssumption DEF Work, Act
  <1>4. parents \in Seq(S) BY <1>2, Selected
  <1>5. f = [k \in DOMAIN parents |-> f[k]] /\ \A k \in DOMAIN parents : Quiet(f[k]) BY UpdateQuiet
  <1>6. Quiet(l) BY DEF Quiet
  <1>7. flows /\ w.id \in DOMAIN v.db.items => v.db.items[w.id].state # "active" BY <1>2 DEF Fits, Binds
  <1> HIDE DEF S, parents, f, l
  <1>8. /\ bound \in Running /\ bound.db.inst = v.db.inst /\ bound.touched.inst = v.touched.inst
        /\ bound.ids = v.ids /\ bound.todo = v.todo /\ DOMAIN bound.db.items = DOMAIN v.db.items
        /\ \A i \in DOMAIN v.db.items :
               /\ bound.db.items[i].sub = IF flows /\ i = w.id THEN s ELSE v.db.items[i].sub
               /\ bound.db.items[i].state = v.db.items[i].state
    <2>1. CASE flows
      <3> DEFINE z == SetSub(v, {w.id}, s)
      <3>1. bound = z BY <2>1
      <3> HIDE DEF bound, s, flows
      <3>2. /\ z \in Running /\ z.db.inst = v.db.inst /\ z.touched.inst = v.touched.inst
            /\ z.ids = v.ids /\ z.todo = v.todo /\ DOMAIN z.db.items = DOMAIN v.db.items
            /\ \A i \in DOMAIN v.db.items :
                    /\ z.db.items[i].sub = IF i \in {w.id} THEN s ELSE v.db.items[i].sub
                    /\ z.db.items[i].state = v.db.items[i].state
        BY <1>3, <2>1, SetSubAs
      <3> QED BY <2>1, <3>1, <3>2
    <2>2. CASE ~flows
      <3>1. bound = v BY <2>2
      <3> HIDE DEF bound, flows
      <3> QED BY <2>2, <3>1
    <2> QED BY <2>1, <2>2
  <1> HIDE DEF bound
  <1>9. /\ u \in Running /\ u.db.inst = v.db.inst /\ u.touched.inst = v.touched.inst
        /\ u.ids = v.ids /\ u.todo = v.todo /\ DOMAIN u.db.items = DOMAIN v.db.items
        /\ \A i \in DOMAIN v.db.items :
               /\ u.db.items[i].sub = IF flows /\ i = w.id THEN s ELSE v.db.items[i].sub
               /\ u.db.items[i].state = IF ~waits /\ i = w.id THEN "complete" ELSE v.db.items[i].state
    <2>1. CASE waits
      <3>1. u = bound BY <2>1
      <3> HIDE DEF u, waits, flows
      <3> QED BY <1>8, <2>1, <3>1
    <2>2. CASE ~waits
      <3> DEFINE z == SetState(bound, {w.id}, "complete")
      <3>1. u = z BY <2>2
      <3>2. "complete" \in ItemState BY DEF ItemState
      <3> HIDE DEF u, waits, flows
      <3>3. /\ z \in Running /\ z.db.inst = bound.db.inst /\ z.touched.inst = bound.touched.inst
            /\ z.ids = bound.ids /\ z.todo = bound.todo /\ DOMAIN z.db.items = DOMAIN bound.db.items
            /\ \A i \in DOMAIN bound.db.items :
                    /\ z.db.items[i].state = IF i \in {w.id} THEN "complete" ELSE bound.db.items[i].state
                    /\ z.db.items[i].sub = bound.db.items[i].sub
        BY <1>8, <3>2, SetStateAs
      <3> HIDE DEF z
      <3> QED BY <1>8, <2>2, <3>1, <3>3
    <2> QED BY <2>1, <2>2
  <1> HIDE DEF u
  <1>10. Eases(u, v, alone, {w.id})
    <2>1. ASSUME NEW i \in DOMAIN u.db.items, i # w.id, Rests(v.db, i, alone) PROVE Rests(u.db, i, alone)
      BY <1>9, <2>1 DEF Rests
    <2>2. ASSUME NEW i \in DOMAIN u.db.items, u.db.items[i].state = "active" PROVE v.db.items[i].state = "active"
      BY <1>9, <2>2
    <2> HIDE DEF flows, waits
    <2> QED BY <1>9, <2>1, <2>2 DEF Eases, Onward
  <1>11. ASSUME w.id \in DOMAIN u.db.items PROVE Rests(u.db, w.id, alone)
    <2>1. v.db.items[w.id] \in ItemRow BY <1>9, <1>11, Typed
    <2>2. CASE waits
      <3>1. v.db.items[w.id].state \in {"running", "complete"} BY <1>7, <1>9, <1>11, <2>1, <2>2 DEF ItemRow, ItemState
      <3>2. s # None BY <1>3, <2>2, WorkflowAssumption
      <3>3. u.db.items[w.id].sub = s /\ u.db.items[w.id].state = v.db.items[w.id].state /\ u.db.inst[s] # "complete"
        BY <1>9, <1>11, <2>2
      <3> HIDE DEF waits, s
      <3> QED BY <3>1, <3>2, <3>3 DEF Rests
    <2>3. CASE ~waits BY <1>9, <1>11, <2>3 DEF Rests
    <2> QED BY <2>2, <2>3
  <1>12. Under(u, {}, alone, o)
    <2>1. \A i \in DOMAIN u.db.items :
              i \in {w.id} \/ (\E y \in {c} : Resumes(y, i)) => Rests(u.db, i, alone) \/ \E y \in {} : Resumes(y, i)
      BY <1>11 DEF Resumes
    <2> QED BY <1>9, <1>10, <2>1, Eased
  <1> QED BY <1>1, <1>4, <1>5, <1>6, <1>9, <1>12, EachQuiet

\* A join creates the item of its activity (workitem.py:176-198).
LEMMA JoinTestUnder ==
  ASSUME NEW v \in Running, NEW alone, NEW o \in [Doc -> InstState], Under(v, {}, alone, o),
         NEW t \in DOMAIN Transition, NEW d \in Doc, v.ids \cap DOMAIN v.db.items = {}
  PROVE  Under(JoinTest(v, t, d), {}, alone, o)
  <1> DEFINE a == Transition[t].act_to
             M == UNION {MarksOf(v.db, u, d) : u \in Into(a)}
             y == [do |-> "unmark", trans |-> t, inst |-> d]
             u == Call(v, <<y>>)
             x == DeleteMarks(v, M)
             full == \A k \in Into(a) : MarksOf(v.db, k, d) # {}
  <1>1. a \in Act BY WorkflowAssumption DEF Act
  <1>2. JoinTest(v, t, d) = IF Activity[a].join_mode = "XOR" THEN create(u, a, d)
                            ELSE IF full THEN create(x, a, d) ELSE v
    BY DEF JoinTest
  <1>3. M \in SUBSET v.db.marks BY DEF MarksOf
  <1>4. y \in MarkCalls /\ y.do = "unmark" BY DEF MarkCalls
  <1> HIDE DEF a, M, y, full
  <1>5. Under(create(u, a, d), {}, alone, o)
    <2> DEFINE cs == <<y>>
    <2>1. {y} \subseteq Calls /\ Quiet(y) BY <1>4 DEF Calls, Quiet
    <2>2. cs \in Seq({y}) /\ DOMAIN cs = {1} /\ cs[1] = y BY OneOf
    <2> HIDE DEF cs
    <2> DEFINE z == Call(v, cs)
    <2>3. Under(z, {}, alone, o) BY <2>1, <2>2, PushQuiet
    <2>4. z \in Running /\ z.db = v.db /\ z.ids = v.ids
      <3> HIDE DEF z
      <3> QED BY <2>1, <2>2, CallAs DEF z
    <2> HIDE DEF z
    <2>5. Under(create(z, a, d), {}, alone, o) BY <1>1, <2>3, <2>4, createUnder
    <2> QED BY <2>5 DEF z, cs
  <1>6. Under(create(x, a, d), {}, alone, o)
    <2>1. Same(x, v) BY <1>3, DeleteMarksAs
    <2>2. Under(x, {}, alone, o) BY <2>1, SameIs
    <2> HIDE DEF x
    <2>3. x \in Running /\ x.ids \cap DOMAIN x.db.items = {} BY <2>1 DEF Same
    <2> QED BY <1>1, <2>2, <2>3, createUnder
  <1> QED BY <1>2, <1>5, <1>6

\* The item of the activity that is left goes, and its transitions are marked (workitem.py:148-174).
LEMMA SplitTestUnder ==
  ASSUME NEW v \in Running, NEW alone, NEW o \in [Doc -> InstState], Under(v, {}, alone, o),
         NEW w \in Work, NEW taken, taken \subseteq DOMAIN Transition
  PROVE  Under(SplitTest(v, w, taken), {}, alone, o)
  <1> DEFINE x == DeleteItems(v, {w.id})
             N == {[trans |-> t, inst |-> w.inst, by |-> w.id] : t \in taken}
             M == x.db.marks \cup N
             b == PutsMarks(x.db, M)
             u == [x EXCEPT !.db.marks = @ \cup N]
             z == With(x, b, x.touched)
             joins == Rows(v, taken)
             f == [k \in DOMAIN joins |-> [do |-> "join", trans |-> joins[k], inst |-> w.inst]]
  <1>1. SplitTest(v, w, taken) = Call(u, f) BY DEF SplitTest
  <1>2. w.inst \in Doc /\ w.id \in Id BY DEF Work
  <1>3. N \in SUBSET Mark BY <1>2 DEF Mark
  <1>4. joins \in Seq(taken) BY Selected
  <1>5. f = [k \in DOMAIN joins |-> f[k]] /\ \A k \in DOMAIN joins : Quiet(f[k]) BY DEF Quiet
  <1> HIDE DEF joins, f, N
  <1>6. x \in Running BY DeleteItemsAs
  <1>7. Under(x, {}, alone, o) BY DeleteItemsUnder
  <1> HIDE DEF x
  <1>8. u = z BY <1>6, Typed DEF With, PutsMarks, Running, Table
  <1>9. M \in SUBSET Mark BY <1>3, <1>6, Typed
  <1> HIDE DEF M
  <1>10. b \in Table /\ b.inst = x.db.inst /\ b.items = x.db.items BY <1>6, <1>9, Typed DEF Table, PutsMarks
  <1> HIDE DEF b
  <1>11. Same(z, x)
    <2>1. x.touched \in Touched BY <1>6, Typed
    <2>2. z \in Running /\ z.db = b /\ z.touched = x.touched /\ z.ids = x.ids /\ z.todo = x.todo
      BY <1>6, <1>10, <2>1, WithAs
    <2> QED BY <1>10, <2>2 DEF Same
  <1> HIDE DEF z, u
  <1>12. Under(z, {}, alone, o) /\ z \in Running BY <1>6, <1>7, <1>11, SameIs DEF Same
  <1>13. Under(Call(z, f), {}, alone, o) BY <1>4, <1>5, <1>12, EachQuiet
  <1> QED BY <1>1, <1>8, <1>13

\* Triggers change neither items nor instances (workitem.py:66-73).
LEMMA WatchUnder ==
  ASSUME NEW v \in Running, NEW alone, NEW o \in [Doc -> InstState], Under(v, {}, alone, o), NEW w \in Work
  PROVE  Under(Watch(v, w), {}, alone, o)
  <1> DEFINE rows == {[doc |-> x, item |-> w.id] : x \in UNION {Trigger(t, w.inst) : t \in Out(w.act)}}
             b == [v.db EXCEPT !.trig = @ \cup rows]
             u == [v EXCEPT !.db.trig = @ \cup rows]
             z == With(v, b, v.touched)
  <1>1. Watch(v, w) = Raise(v) \/ Watch(v, w) = u BY DEF Watch
  <1>2. Under(Raise(v), {}, alone, o) BY RaiseSame, SameIs
  <1>3. u = z BY Typed DEF With, Running, Table
  <1>4. rows \in SUBSET [doc : Doc, item : Id]
    <2>1. w.id \in Id /\ w.inst \in Doc BY DEF Work
    <2>2. \A t \in Out(w.act) : Trigger(t, w.inst) \subseteq Doc BY <2>1, WorkflowAssumption DEF Out
    <2> QED BY <2>1, <2>2
  <1> HIDE DEF rows
  <1>5. b \in Table /\ b.inst = v.db.inst /\ b.items = v.db.items BY <1>4, Typed DEF Table
  <1> HIDE DEF b
  <1>6. Same(z, v)
    <2>1. v.touched \in Touched BY Typed
    <2>2. z \in Running /\ z.db = b /\ z.touched = v.touched /\ z.ids = v.ids /\ z.todo = v.todo
      BY <1>5, <2>1, WithAs
    <2> QED BY <1>5, <2>2 DEF Same
  <1> HIDE DEF z, u
  <1>7. Under(z, {}, alone, o) BY <1>6, SameIs
  <1> QED BY <1>1, <1>2, <1>3, <1>7

LEMMA LeaveUnder ==
  ASSUME NEW v \in Running, NEW alone, NEW o \in [Doc -> InstState], Under(v, {}, alone, o),
         NEW w \in Work, NEW state, NEW signal, NEW force
  PROVE  Under(Leave(v, w, state, signal, force), {}, alone, o)
  <1> DEFINE taken == IF state = "complete" \/ force THEN Taken(v, w, signal) ELSE {}
  <1>1. taken \subseteq DOMAIN Transition BY TakenIs
  <1>2. /\ Leave(v, w, state, signal, force) =
            IF taken # {} THEN SplitTest(v, w, taken) ELSE IF w.state = "active" THEN Watch(v, w) ELSE v
    BY DEF Leave
  <1> HIDE DEF taken
  <1> QED BY <1>1, <1>2, SplitTestUnder, WatchUnder

\* Who waited for an instance waits for the one that replaces it, which has not ended
\* (wkf_service.py:123-152).
LEMMA trg_redirectUnder ==
  ASSUME NEW v \in Running, NEW alone, NEW o \in [Doc -> InstState], Under(v, {}, alone, o),
         NEW old \in Doc, NEW new \in Doc
  PROVE  Under(trg_redirect(v, old, new), {}, alone, o)
  <1> DEFINE I == Waiting(v.db, old)
             u == SetSub(v, I, new)
  <1>1. \/ trg_redirect(v, old, new) = v
        \/ trg_redirect(v, old, new) = u /\ v.db.inst[new] = "active"
    BY DEF trg_redirect
  <1> HIDE DEF I
  <1>2. CASE v.db.inst[new] = "active"
    <2>1. /\ u \in Running /\ u.db.inst = v.db.inst /\ u.touched.inst = v.touched.inst
          /\ u.ids = v.ids /\ u.todo = v.todo /\ DOMAIN u.db.items = DOMAIN v.db.items
          /\ \A i \in DOMAIN v.db.items :
                 /\ u.db.items[i].sub = IF i \in I THEN new ELSE v.db.items[i].sub
                 /\ u.db.items[i].state = v.db.items[i].state
      BY SetSubAs
    <2>2. new # None BY WorkflowAssumption
    <2> HIDE DEF u
    <2>3. ASSUME NEW i \in DOMAIN u.db.items, Rests(v.db, i, alone) PROVE Rests(u.db, i, alone)
      BY <1>2, <2>1, <2>2, <2>3 DEF Rests
    <2>4. Eases(u, v, alone, {}) BY <2>1, <2>3 DEF Eases, Onward
    <2>5. Under(u, {}, alone, o) BY <2>1, <2>4, Eased
    <2> QED BY <1>1, <2>5 DEF u
  <1>3. CASE v.db.inst[new] # "active" BY <1>1, <1>3
  <1> QED BY <1>2, <1>3

LEMMA trg_validateUnder ==
  ASSUME NEW v \in Running, NEW alone, NEW o, Under(v, {}, alone, o), NEW d, NEW signal
  PROVE  Under(trg_validate(v, d, signal), {}, alone, o)
  <1> DEFINE c == Validate(d, signal, FALSE)
             cs == <<c>>
  <1>1. Quiet(c) BY UpdateQuiet
  <1> HIDE DEF c
  <1>2. cs \in Seq({c}) /\ \A k \in DOMAIN cs : Quiet(cs[k]) BY <1>1, OneOf
  <1> HIDE DEF cs
  <1>3. Under(Call(v, cs), {}, alone, o) BY <1>2, PushQuiet
  <1> QED BY <1>3 DEF trg_validate, cs, c

LEMMA trg_triggerUnder ==
  ASSUME NEW v \in Running, NEW alone, NEW o, Under(v, {}, alone, o), References(v.db), NEW x
  PROVE  Under(trg_trigger(v, x), {}, alone, o)
  <1> DEFINE T == {h \in v.db.trig : h.doc = x}
             S == {v.db.items[g.item].inst : g \in T}
             told == Rows(v, S)
             f == [k \in DOMAIN told |-> Update(told[k])]
  <1>1. \A i \in DOMAIN v.db.items : v.db.items[i].inst \in Doc BY Typed DEF ItemRow
  <1>2. \A g \in T : g.item \in DOMAIN v.db.items BY DEF References
  <1> HIDE DEF T
  <1>3. S \subseteq Doc BY <1>1, <1>2
  <1>4. trg_trigger(v, x) = Call(v, f) BY DEF trg_trigger, T
  <1> HIDE DEF S
  <1>5. told \in Seq(S) BY <1>3, Selected
  <1> HIDE DEF told
  <1>6. f = [k \in DOMAIN told |-> f[k]] /\ \A k \in DOMAIN told : Quiet(f[k]) BY UpdateQuiet
  <1> HIDE DEF f
  <1> QED BY <1>4, <1>5, <1>6, EachQuiet

\* Every call takes over what it had to resume.
LEMMA MakeUnder ==
  ASSUME NEW v, NEW c \in Calls, Sound(v, {c}), \A d \in Names(c) : Exists(v.db, d),
         NEW alone, NEW o \in [Doc -> InstState], Under(v, {c}, alone, o), Fits(c, v), Make(v, c).ok
  PROVE  Under(Make(v, c), {}, alone, o)
  <1>0. v \in Running /\ References(v.db) /\ v.ids \cap DOMAIN v.db.items = {} BY DEF Sound
  <1>1. ASSUME c.do \notin {"process", "executed"} PROVE Under(v, {}, alone, o)
    BY <1>1, Done DEF Resumes
  <1>2. CASE c.do = "create"
    <2>1. c.act \in Act /\ c.inst \in Doc BY <1>2, Shapes DEF CreateCalls
    <2>2. Make(v, c) = create(v, c.act, c.inst) BY <1>2 DEF Make
    <2> QED BY <1>0, <1>1, <1>2, <2>1, <2>2, createUnder
  <1>3. CASE c.do = "validate"
    <2>1. Make(v, c) = validate(v, c.inst, c.signal, c.force) BY <1>3 DEF Make
    <2> QED BY <1>0, <1>1, <1>3, <2>1, validateUnder
  <1>4. CASE c.do = "process"
    <2> DEFINE w == c.w
    <2>1. w \in Work /\ c.signal \in Signal /\ c.force \in BOOLEAN BY <1>4, Shapes DEF ProcessCalls
    <2>2. Make(v, c) = process(v, w, c.signal, c.force) BY <1>4 DEF Make
    <2>3. CASE w.state = "active"
      <3>1. Make(v, c) = Execute(v, w, c.signal, c.force) BY <2>2, <2>3 DEF process
      <3>2. \A i : Resumes(c, i) => i = w.id BY DEF Resumes
      <3>3. w.id \notin v.ids BY <1>4 DEF Fits
      <3>4. Execute(v, w, c.signal, c.force).ok BY <3>1
      <3> HIDE DEF w
      <3> QED BY <1>0, <2>1, <3>1, <3>2, <3>3, <3>4, ExecuteUnder
    <2>4. CASE w.state # "active"
      <3>1. Make(v, c) = Leave(v, w, w.state, c.signal, c.force) BY <2>2, <2>4 DEF process
      <3>2. \A i : ~Resumes(c, i) BY <1>4, <2>4 DEF Resumes
      <3>3. Under(v, {}, alone, o) BY <3>2, Done
      <3> HIDE DEF w
      <3> QED BY <1>0, <2>1, <3>1, <3>3, LeaveUnder
    <2> QED BY <2>3, <2>4
  <1>5. CASE c.do = "executed"
    <2>1. c \in ExecutedCalls BY <1>5, Shapes
    <2>2. Make(v, c) = Executed(v, c) BY <1>5 DEF Make
    <2> QED BY <1>0, <2>1, <2>2, ExecutedUnder
  <1>6. CASE c.do = "leave"
    <2>1. c.w \in Work BY <1>6, Shapes DEF LeaveCalls
    <2>2. Make(v, c) = Leave(v, c.w, c.state, c.signal, c.force) BY <1>6 DEF Make
    <2> QED BY <1>0, <1>1, <1>6, <2>1, <2>2, LeaveUnder
  <1>7. CASE c.do = "join"
    <2>1. c.trans \in DOMAIN Transition /\ c.inst \in Doc BY <1>7, Shapes DEF MarkCalls
    <2>2. Make(v, c) = JoinTest(v, c.trans, c.inst) BY <1>7 DEF Make
    <2> QED BY <1>0, <1>1, <1>7, <2>1, <2>2, JoinTestUnder
  <1>8. CASE c.do = "unmark"
    <2> DEFINE M == MarksOf(v.db, c.trans, c.inst)
    <2>1. Make(v, c) = DeleteMarks(v, M) BY <1>8 DEF Make
    <2>2. M \in SUBSET v.db.marks BY DEF MarksOf
    <2> HIDE DEF M
    <2>3. Same(DeleteMarks(v, M), v) BY <1>0, <2>2, DeleteMarksAs
    <2> QED BY <1>0, <1>1, <1>8, <2>1, <2>3, SameIs
  <1>9. CASE c.do = "end"
    <2>1. c.inst \in Doc BY <1>9, Shapes DEF EndCalls
    <2>2. Exists(v.db, c.inst) BY <1>9 DEF Names
    <2>3. Make(v, c) = UpdateEnd(v, c.inst) BY <1>9 DEF Make
    <2> QED BY <1>0, <1>1, <1>9, <2>1, <2>2, <2>3, UpdateEndUnder
  <1>10. CASE c.do = "tell"
    <2>1. c.names \in SUBSET Act BY <1>10, Shapes DEF TellCalls
    <2>2. Make(v, c) = Tell(v, c.inst, c.names) BY <1>10 DEF Make
    <2> QED BY <1>0, <1>1, <1>10, <2>1, <2>2, TellUnder
  <1>11. CASE c.do = "trigger"
    <2>1. Make(v, c) = trg_trigger(v, c.doc) BY <1>11 DEF Make
    <2> QED BY <1>0, <1>1, <1>11, <2>1, trg_triggerUnder
  <1>12. CASE c.do = "redirect"
    <2>1. c.old \in Doc /\ c.new \in Doc BY <1>12, Shapes DEF RedirectCalls
    <2>2. Make(v, c) = trg_redirect(v, c.old, c.new) BY <1>12 DEF Make
    <2> QED BY <1>0, <1>1, <1>12, <2>1, <2>2, trg_redirectUnder
  <1>13. CASE c.do = "signal"
    <2>1. Make(v, c) = trg_validate(v, c.inst, c.signal) BY <1>13 DEF Make
    <2> QED BY <1>0, <1>1, <1>13, <2>1, trg_validateUnder
  <1> QED
    BY <1>2, <1>3, <1>4, <1>5, <1>6, <1>7, <1>8, <1>9, <1>10, <1>11, <1>12, <1>13, Shapes

LEMMA StepUnder ==
  ASSUME NEW v, Sound(v, {}), NEW alone, NEW o \in [Doc -> InstState], v.ok => Under(v, {}, alone, o), Step(v).ok
  PROVE  Under(Step(v), {}, alone, o)
  <1>1. CASE v.todo = << >> \/ ~v.ok BY <1>1 DEF Step
  <1>2. CASE v.todo # << >> /\ v.ok
    <2> DEFINE s == v.todo
               c == Head(s)
               r == Tail(s)
               u == [v EXCEPT !.todo = r]
    <2>1. Step(v) = Make(u, c)
      <3>1. [v EXCEPT !.todo = Tail(@)] = u BY Fields DEF Running
      <3> QED BY <1>2, <3>1 DEF Step
    <2>2. /\ c \in Calls /\ r \in Seq(Calls) /\ 1 \in DOMAIN s /\ s[1] = c
          /\ \A k \in DOMAIN r : k + 1 \in DOMAIN s /\ r[k] = s[k + 1]
          /\ \A k \in DOMAIN s : k = 1 \/ (k - 1 \in DOMAIN r /\ r[k - 1] = s[k])
      BY <1>2, Fields, Popped
    <2>3. Under(v, {}, alone, o) BY <1>2
    <2>a. \A k \in DOMAIN s : Fits(s[k], v) BY <2>3 DEF Under
    <2>b. \A i \in DOMAIN v.db.items : Rests(v.db, i, alone) \/ \E k \in DOMAIN s : Resumes(s[k], i)
      BY <2>3 DEF Under
    <2>c. \A m \in v.db.marks :
            Activity[Transition[m.trans].act_to].join_mode = "AND" \/ \E k \in DOMAIN s : Cleans(s[k], m)
      BY DEF Sound
    <2>d. \A k \in DOMAIN s : \A d \in Names(s[k]) : Exists(v.db, d) BY DEF Sound
    <2> HIDE DEF c, r
    <2>4. u \in Running /\ u.db = v.db /\ u.ids = v.ids /\ u.todo = r /\ u.touched = v.touched
      <3>1. v \in Running /\ r \in Seq(Calls) BY <2>2 DEF Sound
      <3> HIDE DEF s
      <3> QED BY <3>1 DEF Running
    <2> HIDE DEF u, s
    <2>5. Sound(u, {c})
      <3>1. \A k \in DOMAIN r : \A d \in Names(r[k]) : Exists(u.db, d) BY <2>2, <2>4, <2>d
      <3>2. ASSUME NEW m \in u.db.marks
            PROVE  \/ Activity[Transition[m.trans].act_to].join_mode = "AND"
                   \/ Cleans(c, m)
                   \/ \E k \in DOMAIN r : Cleans(r[k], m)
        BY <2>2, <2>4, <2>c
      <3> QED BY <2>4, <3>1, <3>2 DEF Sound
    <2>6. \A d \in Names(c) : Exists(u.db, d) BY <2>2, <2>4, <2>d
    <2>7. Fits(c, u) BY <2>2, <2>4, <2>a DEF Fits
    <2>8. Under(u, {c}, alone, o)
      <3>1. ASSUME NEW k \in DOMAIN r PROVE Fits(r[k], u) BY <2>2, <2>4, <2>a, <3>1 DEF Fits
      <3>2. ASSUME NEW i \in DOMAIN u.db.items
            PROVE  \/ Rests(u.db, i, alone)
                   \/ Resumes(c, i)
                   \/ \E k \in DOMAIN r : Resumes(r[k], i)
        BY <2>2, <2>4, <2>b
      <3>3. \A d \in Doc : Onward(o[d], u.db.inst[d]) /\ (u.db.inst[d] # o[d] => d \in u.touched.inst)
        BY <2>3, <2>4 DEF Under
      <3> QED BY <2>4, <3>1, <3>2, <3>3 DEF Under
    <2> QED BY <2>1, <2>2, <2>5, <2>6, <2>7, <2>8, MakeUnder
  <1> QED BY <1>1, <1>2

LEMMA RunUnder ==
  ASSUME NEW w, Sound(w, {}), NEW alone, NEW o \in [Doc -> InstState], Under(w, {}, alone, o), Run(w).ok
  PROVE  Under(Run(w), {}, alone, o)
  <1> DEFINE S == {v \in Running : Sound(v, {}) /\ (v.ok => Under(v, {}, alone, o))}
  <1>1. w \in S BY DEF Sound
  <1>2. \A v \in S : Step(v) \in S
    <2> SUFFICES ASSUME NEW v, Sound(v, {}), v.ok => Under(v, {}, alone, o) PROVE Step(v) \in S
      OBVIOUS
    <2>1. Sound(Step(v), {}) /\ Step(v) \in Running BY StepIs DEF Sound
    <2>2. Step(v).ok => Under(Step(v), {}, alone, o) BY StepUnder
    <2> QED BY <2>1, <2>2
  <1>3. \A v \in S : v.ok => Under(v, {}, alone, o) OBVIOUS
  <1> HIDE DEF S
  <1>4. Run(w) \in S BY <1>1, <1>2, RunKeeps
  <1> QED BY <1>3, <1>4

-----------------------------------------------------------------------------
(* What requests leave.                                                      *)

\* Every item is complete, or runs until its subflow ends.
Resting(b, alone) == \A i \in DOMAIN b.items : Rests(b, i, alone)

LEMMA FreshUnder ==
  ASSUME NEW b, Kept(b), NEW alone, Resting(b, alone), NEW ids, NEW up, NEW yes
  PROVE  Under(Fresh(b, ids, up, yes), {}, alone, b.inst)
  <1> DEFINE v == Fresh(b, ids, up, yes)
  <1>1. v.db = b /\ v.todo = << >> BY DEF Fresh
  <1> HIDE DEF v
  <1>2. DOMAIN v.todo = {} BY <1>1
  <1>3. Under(v, {}, alone, b.inst) BY <1>1, <1>2 DEF Under, Resting, Onward
  <1> QED BY <1>3 DEF v

\* unlink: who waited for the instance goes as well.
LEMMA DeleteInstanceUnder ==
  ASSUME NEW v \in Running, NEW alone, NEW o \in [Doc -> InstState], Under(v, {}, alone, o),
         NEW d \in Doc, Exists(v.db, d)
  PROVE  Under(DeleteInstance(v, d), {}, alone, o)
  <1> DEFINE I == ItemsOf(v.db, d) \cup Waiting(v.db, d)
             u == DeleteItems(v, I)
             M == {m \in u.db.marks : m.inst = d}
             x == DeleteMarks(u, M)
             z == SetInstance(x, d, "gone")
  <1>1. DeleteInstance(v, d) = z BY DEF DeleteInstance
  <1>2. \A i \in DOMAIN v.db.items \ I : v.db.items[i].sub # d BY DEF Waiting
  <1> HIDE DEF I
  <1>3. /\ u \in Running /\ u.db.inst = v.db.inst /\ DOMAIN u.db.items = DOMAIN v.db.items \ I
        /\ \A i \in DOMAIN u.db.items : u.db.items[i] = v.db.items[i]
    BY DeleteItemsAs
  <1>4. Under(u, {}, alone, o)
    <2> HIDE DEF u
    <2> QED BY DeleteItemsUnder DEF u
  <1> HIDE DEF u
  <1>5. M \in SUBSET u.db.marks OBVIOUS
  <1> HIDE DEF M
  <1>6. Same(x, u) BY <1>3, <1>5, DeleteMarksAs
  <1> HIDE DEF x
  <1>7. Under(x, {}, alone, o) BY <1>3, <1>4, <1>6, SameIs
  <1>8. x \in Running /\ x.db.items = u.db.items /\ x.db.inst = v.db.inst BY <1>3, <1>6 DEF Same
  <1>9. \A i \in DOMAIN x.db.items : x.db.items[i].sub # d BY <1>2, <1>3, <1>8
  <1>10. "gone" \in InstState BY DEF InstState
  <1>11. /\ z \in Running /\ z.db.items = x.db.items /\ z.touched.inst = x.touched.inst \cup {d}
         /\ z.ids = x.ids /\ z.todo = x.todo
         /\ \A e \in Doc : z.db.inst[e] = IF e = d THEN "gone" ELSE x.db.inst[e]
    <2>1. x \in Running BY <1>8
    <2> HIDE DEF z
    <2> QED BY <1>10, <2>1, SetInstanceAs DEF z
  <1> HIDE DEF z
  <1>12. Eases(z, x, alone, {})
    <2>1. ASSUME NEW i \in DOMAIN z.db.items, Rests(x.db, i, alone) PROVE Rests(z.db, i, alone)
      <3>1. x.db.items[i] \in ItemRow BY <1>8, <1>11, Typed
      <3>2. x.db.items[i].sub # None => x.db.items[i].sub \in Doc BY <3>1 DEF ItemRow
      <3> QED BY <1>9, <1>11, <2>1, <3>2 DEF Rests
    <2>2. ASSUME NEW e \in Doc
          PROVE  /\ Onward(x.db.inst[e], z.db.inst[e]) /\ (z.db.inst[e] # x.db.inst[e] => e \in z.touched.inst)
                 /\ e \in x.touched.inst => e \in z.touched.inst
      <3>1. None # "gone" BY WorkflowAssumption
      <3> QED BY <1>8, <1>11, <3>1 DEF Onward, Exists
    <2> QED BY <1>11, <2>1, <2>2 DEF Eases
  <1>13. Under(z, {}, alone, o) BY <1>7, <1>8, <1>11, <1>12, Eased
  <1> QED BY <1>1, <1>13

LEMMA ChangeUnder ==
  ASSUME NEW v \in Running, NEW alone, NEW o \in [Doc -> InstState], Under(v, {}, alone, o),
         NEW d \in Doc, NEW f \in Facts[d]
  PROVE  Under(Change(v, d, f), {}, alone, o)
  <1> DEFINE c == [do |-> "trigger", doc |-> d]
             cs == <<c>>
             u == Call(v, cs)
  <1>1. c \in TriggerCalls /\ c.do = "trigger" BY DEF TriggerCalls
  <1>2. Change(v, d, f) = IF d \in Telling THEN Write(u, d, {f}) ELSE Write(v, d, {f}) BY DEF Change
  <1> HIDE DEF c
  <1>3. {c} \subseteq Calls /\ Quiet(c) BY <1>1 DEF Calls, Quiet
  <1>4. cs \in Seq({c}) /\ DOMAIN cs = {1} /\ cs[1] = c BY OneOf
  <1> HIDE DEF cs
  <1>5. Under(u, {}, alone, o) BY <1>3, <1>4, PushQuiet
  <1>6. u \in Running
    <2> HIDE DEF u
    <2> QED BY <1>3, <1>4, CallAs DEF u
  <1> HIDE DEF u
  <1>7. {f} \in SUBSET Fact BY DEF Fact
  <1> QED BY <1>2, <1>5, <1>6, <1>7, WriteUnder

LEMMA MergeUnder ==
  ASSUME NEW v \in Running, NEW alone, NEW o \in [Doc -> InstState], Under(v, {}, alone, o),
         NEW m \in Merged, v.db.inst[m[2]] = None
  PROVE  Under(Merge(v, m), {}, alone, o)
  <1> DEFINE c == [do |-> "redirect", old |-> m[1], new |-> m[2]]
             e == [do |-> "signal", inst |-> m[1], signal |-> m[3]]
             cs == <<c, e>>
             C == {c, e}
             u == Call(v, cs)
  <1>1. m[1] \in Doc /\ m[2] \in Doc BY WorkflowAssumption
  <1>2. m[3] \in Signal BY DEF Signal
  <1>3. c \in RedirectCalls /\ e \in SignalCalls /\ c.do = "redirect" /\ e.do = "signal"
    BY <1>1, <1>2 DEF RedirectCalls, SignalCalls
  <1>4. Merge(v, m) = CreateInstance(u, m[2]) BY DEF Merge
  <1> HIDE DEF c, e
  <1>5. C \subseteq Calls /\ Quiet(c) /\ Quiet(e) BY <1>3 DEF Calls, Quiet
  <1>6. cs \in Seq(C) /\ \A k \in DOMAIN cs : cs[k] \in C
    OBVIOUS
  <1>7. \A k \in DOMAIN cs : Quiet(cs[k]) BY <1>5, <1>6
  <1> HIDE DEF cs, C
  <1>8. Under(u, {}, alone, o) BY <1>6, <1>7, PushQuiet
  <1>9. u \in Running /\ u.db = v.db
    <2> HIDE DEF u
    <2> QED BY <1>5, <1>6, CallAs DEF u
  <1> HIDE DEF u
  <1> QED BY <1>1, <1>4, <1>8, <1>9, CreateInstanceUnder

LEMMA RequestsUnder ==
  ASSUME NEW v, Sound(v, {}), NEW alone, NEW o \in [Doc -> InstState], Under(v, {}, alone, o), NEW q \in Requests(v)
  PROVE  Under(q, {}, alone, o)
  <1> DEFINE A == {e \in Doc : Exists(v.db, e)}
             B == {e \in Doc : Start[e] = {} \/ Exists(v.db, e)}
             D == {e \in Deleted : Exists(v.db, e)}
             N == {n \in Merged : v.db.inst[n[1]] = "active" /\ v.db.inst[n[2]] = None}
  <1>0. v \in Running BY DEF Sound
  <1>1. \/ q \in UNION {{trg_validate(v, d, s) : s \in Signals[d]} : d \in A}
        \/ q \in UNION {{Change(v, d, f) : f \in Facts[d]} : d \in B}
        \/ q \in {DeleteInstance(v, d) : d \in D}
        \/ q \in {Merge(v, m) : m \in N}
    BY DEF Requests
  <1>2. B \subseteq Doc /\ (\A d \in D : d \in Doc /\ Exists(v.db, d))
        /\ \A m \in N : m \in Merged /\ v.db.inst[m[2]] = None
    BY WorkflowAssumption
  <1> HIDE DEF A, B, D, N
  <1>3. CASE q \in UNION {{trg_validate(v, d, s) : s \in Signals[d]} : d \in A}
    <2>1. PICK d \in A : \E s \in Signals[d] : q = trg_validate(v, d, s) BY <1>3
    <2> QED BY <1>0, <2>1, trg_validateUnder
  <1>4. CASE q \in UNION {{Change(v, d, f) : f \in Facts[d]} : d \in B}
    <2>1. PICK d \in B : \E f \in Facts[d] : q = Change(v, d, f) BY <1>4
    <2> QED BY <1>0, <1>2, <2>1, ChangeUnder
  <1>5. CASE q \in {DeleteInstance(v, d) : d \in D} BY <1>0, <1>2, <1>5, DeleteInstanceUnder
  <1>6. CASE q \in {Merge(v, m) : m \in N} BY <1>0, <1>2, <1>6, MergeUnder
  <1> QED BY <1>1, <1>3, <1>4, <1>5, <1>6

\* A request that ends leaves no item half executed, and no instance moved back.
LEMMA EvaluatedUnder ==
  ASSUME NEW b, Kept(b), NEW alone, Resting(b, alone), Free \cap DOMAIN b.items = {}, NEW v \in Evaluated(b)
  PROVE  /\ Resting(v.db, alone)
         /\ \A d \in Doc : Onward(b.inst[d], v.db.inst[d]) /\ (v.db.inst[d] # b.inst[d] => d \in v.touched.inst)
  <1>1. PICK up \in BOOLEAN, yes \in BOOLEAN : \E q \in Requests(Fresh(b, Free, up, yes)) : v = Run(q)
    BY DEF Evaluated
  <1> DEFINE w == Fresh(b, Free, up, yes)
  <1>2. PICK q \in Requests(w) : v = Run(q) BY <1>1
  <1>3. v.ok /\ v.todo = << >> BY DEF Evaluated
  <1>4. Free \in SUBSET Id BY DEF Free, Id
  <1>5. Sound(w, {}) /\ w.todo = << >> /\ Under(w, {}, alone, b.inst) BY <1>4, FreshIs, FreshUnder
  <1>6. b.inst \in [Doc -> InstState] BY DEF Kept, Table, InstState
  <1> HIDE DEF w
  <1>7. Sound(q, {}) /\ Under(q, {}, alone, b.inst) BY <1>5, <1>6, RequestsAre, RequestsUnder
  <1>8. Under(v, {}, alone, b.inst) BY <1>2, <1>3, <1>6, <1>7, RunUnder
  <1>9. DOMAIN v.todo = {} BY <1>3
  <1> QED BY <1>8, <1>9 DEF Under, Resting

-----------------------------------------------------------------------------
(* Transactions again.                                                       *)

\* Besides, no item was left half executed, in the committed rows nor in a snapshot,
\* and an instance is as a request saw it unless a commit that the request missed
\* has locked it.
RInv ==
    /\ IInv
    /\ Resting(db, FALSE) /\ \A r \in Request : Resting(sess[r].snap, FALSE)
    /\ \A r \in Request : sess[r].open =>
        \A d \in Doc : d \notin sess[r].missed.inst => sess[r].snap.inst[d] = db.inst[d]

LEMMA TypeOK_ == RInv => TypeOK
  <1> SUFFICES ASSUME RInv PROVE TypeOK
    OBVIOUS
  <1>1. /\ db.inst \in [Doc -> {None, "active", "complete", "gone"}] /\ References(db)
        /\ \A i \in DOMAIN db.items : db.items[i].act \in DOMAIN Activity
        /\ \A m \in db.marks : Activity[Transition[m.trans].act_to].join_mode = "AND"
    BY DEF RInv, IInv, Kept, Table, Items, ItemRow, Act
  <1>2. \A i \in DOMAIN db.items :
            db.items[i].state = "complete" \/ (db.items[i].state = "running" /\ db.items[i].sub # None)
    BY DEF RInv, Resting, Rests
  <1> QED BY <1>1, <1>2 DEF TypeOK

\* The commit of r, which was evaluated to v.
Commits(r, v, alone) ==
    /\ db' = Published(sess[r].snap, v.db) /\ Resting(v.db, alone) /\ v.touched \in Touched
    /\ \A d \in Doc : /\ Onward(sess[r].snap.inst[d], v.db.inst[d])
                      /\ v.db.inst[d] # sess[r].snap.inst[d] =>
                            d \in v.touched.inst /\ db.inst[d] = sess[r].snap.inst[d]
    /\ sess' = [q \in Request |->
                  IF q = r \/ ~sess[q].open THEN Closed
                  ELSE [sess[q] EXCEPT !.missed = [k \in DOMAIN @ |-> @[k] \cup v.touched[k]]]]

LEMMA CommitIs ==
  ASSUME RInv, NEW r \in Request, Commit(r), NEW alone, Resting(sess[r].snap, alone)
  PROVE  \E v : Commits(r, v, alone)
  <1> DEFINE old == sess[r].snap
  <1>1. Kept(old) BY DEF RInv, IInv
  <1>2. Free \cap DOMAIN old.items = {} BY DEF Free
  <1>3. sess[r].open /\ \A d \in Doc : d \notin sess[r].missed.inst => old.inst[d] = db.inst[d]
    BY DEF RInv, Commit
  <1> HIDE DEF old
  <1>4. PICK v \in Evaluated(old) :
          /\ Serializes(v, sess[r]) /\ db' = Published(old, v.db)
          /\ sess' = [q \in Request |->
                        IF q = r \/ ~sess[q].open THEN Closed
                        ELSE [sess[q] EXCEPT !.missed = [k \in DOMAIN @ |-> @[k] \cup v.touched[k]]]]
    BY DEF Commit, old
  <1>5. v.touched \in Touched BY <1>1, <1>2, EvaluatedAre
  <1>6. /\ Resting(v.db, alone)
        /\ \A d \in Doc : Onward(old.inst[d], v.db.inst[d]) /\ (v.db.inst[d] # old.inst[d] => d \in v.touched.inst)
    BY <1>1, <1>2, EvaluatedUnder DEF old
  <1>7. v.touched.inst \cap sess[r].missed.inst = {}
    <2>1. "inst" \in DOMAIN Untouched BY DEF Untouched
    <2> QED BY <1>4, <2>1 DEF Serializes
  <1>8. \A d \in Doc : v.db.inst[d] # old.inst[d] => d \in v.touched.inst /\ db.inst[d] = old.inst[d]
    BY <1>3, <1>6, <1>7
  <1> QED BY <1>4, <1>5, <1>6, <1>8 DEF old, Commits

\* The instances and items after a commit.
LEMMA PublishedItems ==
  ASSUME NEW old, NEW new
  PROVE  LET p == Published(old, new)
             own == {i \in DOMAIN new.items : i \notin DOMAIN old.items \/ new.items[i] # old.items[i]}
         IN  /\ \A d \in Doc : p.inst[d] = IF new.inst[d] = old.inst[d] THEN db.inst[d] ELSE new.inst[d]
             /\ \A i \in DOMAIN p.items :
                  \/ i \in own /\ p.items[i] = new.items[i]
                  \/ /\ i \notin own /\ i \in DOMAIN db.items /\ p.items[i] = db.items[i]
                     /\ i \in DOMAIN old.items => i \in DOMAIN new.items
  BY DEF Published

LEMMA InitRests == Init => RInv
  <1> SUFFICES ASSUME Init PROVE RInv
    OBVIOUS
  <1>1. PICK d \in Created : \E v \in {Run(CreateInstance(Fresh(NoRows, 1 .. MaxItems, TRUE, TRUE), d))} :
            v.ok /\ v.todo = << >> /\ db = v.db
    BY DEF Init
  <1> DEFINE x == Fresh(NoRows, 1 .. MaxItems, TRUE, TRUE)
             q == CreateInstance(x, d)
             v == Run(q)
             o == NoRows.inst
  <1>2. v.ok /\ v.todo = << >> /\ db = v.db BY <1>1
  <1>3. d \in Doc BY WorkflowAssumption
  <1>4. DOMAIN NoRows.items = {} /\ NoRows.inst[d] = None BY <1>3 DEF NoRows
  <1>5. Resting(NoRows, FALSE) BY <1>4 DEF Resting
  <1>6. o \in [Doc -> InstState] BY ClosedIs DEF Kept, Table, InstState
  <1>7. Sound(x, {}) BY <1>4, ClosedIs, FreshIs DEF Id
  <1>a. x.db = NoRows BY DEF Fresh
  <1>8. Under(x, {}, FALSE, o) BY <1>5, ClosedIs, FreshUnder
  <1> HIDE DEF x, o
  <1>9. Sound(q, {}) /\ Under(q, {}, FALSE, o)
    <2>1. x \in Running BY <1>7 DEF Sound
    <2> QED BY <1>3, <1>4, <1>6, <1>7, <1>8, <1>a, <2>1, CreateInstanceIs, CreateInstanceUnder
  <1> HIDE DEF q
  <1>10. Under(v, {}, FALSE, o) BY <1>2, <1>6, <1>9, RunUnder
  <1> HIDE DEF v
  <1>11. DOMAIN v.todo = {} BY <1>2
  <1>12. Resting(db, FALSE) BY <1>2, <1>10, <1>11 DEF Under, Resting
  <1>13. \A r \in Request : sess[r] = Closed BY DEF Init
  <1>14. Closed.snap = NoRows /\ Closed.open = FALSE BY DEF Closed
  <1> QED BY <1>5, <1>12, <1>13, <1>14, InitInv DEF RInv

LEMMA NextRests == RInv /\ [Next]_vars => RInv'
  <1> SUFFICES ASSUME RInv, [Next]_vars PROVE RInv'
    OBVIOUS
  <1> DEFINE S == [open : BOOLEAN, snap : Table, missed : Touched]
  <1>1. IInv /\ IInv' BY NextInv DEF RInv
  <1>2. /\ \A q \in Request : sess[q] \in S /\ sess[q].missed \in Touched
        /\ sess \in [Request -> S]
    BY <1>1 DEF IInv
  <1>3. /\ Resting(db, FALSE) /\ \A q \in Request : Resting(sess[q].snap, FALSE)
        /\ \A q \in Request : sess[q].open =>
              \A d \in Doc : d \notin sess[q].missed.inst => sess[q].snap.inst[d] = db.inst[d]
    BY DEF RInv
  <1>4. Closed.snap = NoRows /\ Closed.open = FALSE /\ Resting(NoRows, FALSE)
    BY DEF Closed, NoRows, Resting
  <1>5. ASSUME NEW r \in Request, Begin(r) PROVE RInv'
    <2> DEFINE new == [open |-> TRUE, snap |-> db, missed |-> Untouched]
    <2>1. db' = db /\ sess' = [sess EXCEPT ![r] = new] BY <1>5 DEF Begin
    <2>2. new.snap = db OBVIOUS
    <2> HIDE DEF new
    <2>3. \A q \in Request : sess'[q] = sess[q] \/ sess'[q] = new BY <1>2, <2>1
    <2>4. \A q \in Request : sess'[q].open =>
              \A d \in Doc : d \notin sess'[q].missed.inst => sess'[q].snap.inst[d] = db'.inst[d]
      BY <1>3, <2>1, <2>2, <2>3
    <2>5. \A q \in Request : Resting(sess'[q].snap, FALSE) BY <1>3, <2>2, <2>3
    <2>6. Resting(db', FALSE) BY <1>3, <2>1
    <2> QED BY <1>1, <2>4, <2>5, <2>6 DEF RInv
  <1>6. ASSUME NEW r \in Request, Abort(r) PROVE RInv'
    <2>1. db' = db /\ sess' = [sess EXCEPT ![r] = Closed] BY <1>6 DEF Abort
    <2>2. \A q \in Request : sess'[q] = sess[q] \/ sess'[q] = Closed BY <1>2, <2>1
    <2>3. \A q \in Request : sess'[q].open =>
              \A d \in Doc : d \notin sess'[q].missed.inst => sess'[q].snap.inst[d] = db'.inst[d]
      BY <1>3, <1>4, <2>1, <2>2
    <2>4. \A q \in Request : Resting(sess'[q].snap, FALSE) BY <1>3, <1>4, <2>2
    <2>5. Resting(db', FALSE) BY <1>3, <2>1
    <2> QED BY <1>1, <2>3, <2>4, <2>5 DEF RInv
  <1>7. ASSUME NEW r \in Request, Commit(r) PROVE RInv'
    <2> DEFINE old == sess[r].snap
    <2>a. PICK v : Commits(r, v, FALSE) BY <1>3, <1>7, CommitIs
    <2>1. /\ db' = Published(old, v.db) /\ Resting(v.db, FALSE) /\ v.touched \in Touched
          /\ \A d \in Doc : v.db.inst[d] # old.inst[d] => d \in v.touched.inst
          /\ sess' = [q \in Request |->
                        IF q = r \/ ~sess[q].open THEN Closed
                        ELSE [sess[q] EXCEPT !.missed = [k \in DOMAIN @ |-> @[k] \cup v.touched[k]]]]
      BY <2>a DEF Commits
    <2> HIDE DEF old
    <2>2. \A d \in Doc : db'.inst[d] = IF v.db.inst[d] = old.inst[d] THEN db.inst[d] ELSE v.db.inst[d]
      BY <2>1, PublishedItems
    <2>3. Resting(db', FALSE)
      <3> SUFFICES ASSUME NEW i \in DOMAIN db'.items PROVE Rests(db', i, FALSE)
        BY DEF Resting
      <3>1. \/ i \in DOMAIN v.db.items /\ db'.items[i] = v.db.items[i]
            \/ i \in DOMAIN db.items /\ db'.items[i] = db.items[i]
        BY <2>1, PublishedItems
      <3>2. i \in DOMAIN v.db.items => Rests(v.db, i, FALSE) BY <2>1 DEF Resting
      <3>3. i \in DOMAIN db.items => Rests(db, i, FALSE) BY <1>3 DEF Resting
      <3> QED BY <3>1, <3>2, <3>3 DEF Rests
    <2>4. ASSUME NEW q \in Request
          PROVE  /\ Resting(sess'[q].snap, FALSE)
                 /\ sess'[q].open =>
                      \A d \in Doc : d \notin sess'[q].missed.inst => sess'[q].snap.inst[d] = db'.inst[d]
      <3> DEFINE m == [k \in DOMAIN sess[q].missed |-> sess[q].missed[k] \cup v.touched[k]]
                 s == [sess[q] EXCEPT !.missed = m]
      <3>1. sess'[q] = Closed \/ (sess[q].open /\ sess'[q] = s) BY <2>1
      <3>2. m.inst = sess[q].missed.inst \cup v.touched.inst BY <1>2, <2>1 DEF Touched
      <3> HIDE DEF m
      <3>3. s.snap = sess[q].snap /\ s.missed = m BY <1>2
      <3> HIDE DEF s
      <3>4. CASE sess'[q] = Closed BY <1>4, <3>4
      <3>5. CASE sess[q].open /\ sess'[q] = s
        <4>1. Resting(sess'[q].snap, FALSE) BY <1>3, <3>3, <3>5
        <4>2. ASSUME NEW d \in Doc, d \notin s.missed.inst PROVE s.snap.inst[d] = db'.inst[d]
          <5>1. d \notin sess[q].missed.inst /\ d \notin v.touched.inst BY <3>2, <3>3, <4>2
          <5>2. sess[q].snap.inst[d] = db.inst[d] BY <1>3, <3>5, <5>1
          <5>3. v.db.inst[d] = old.inst[d] BY <2>1, <5>1
          <5> QED BY <2>2, <3>3, <5>2, <5>3
        <4> QED BY <3>5, <4>1, <4>2
      <3> QED BY <3>1, <3>4, <3>5
    <2> QED BY <1>1, <2>3, <2>4 DEF RInv
  <1>8. CASE UNCHANGED vars
    <2>1. db' = db /\ sess' = sess BY <1>8 DEF vars
    <2> QED BY <1>1, <1>3, <2>1 DEF RInv
  <1> QED BY <1>5, <1>6, <1>7, <1>8 DEF Next

LEMMA AdvanceStep ==
  ASSUME RInv, [Next]_vars, NEW d \in Doc
  PROVE  Onward(db.inst[d], db'.inst[d])
  <1>1. ASSUME NEW r \in Request, Commit(r) PROVE Onward(db.inst[d], db'.inst[d])
    <2> DEFINE old == sess[r].snap
    <2>1. PICK v : Commits(r, v, FALSE) BY <1>1, CommitIs DEF RInv
    <2>2. /\ db' = Published(old, v.db) /\ Onward(old.inst[d], v.db.inst[d])
          /\ v.db.inst[d] # old.inst[d] => db.inst[d] = old.inst[d]
      BY <2>1 DEF Commits
    <2> HIDE DEF old
    <2>3. db'.inst[d] = IF v.db.inst[d] = old.inst[d] THEN db.inst[d] ELSE v.db.inst[d] BY <2>2, PublishedItems
    <2> QED BY <2>2, <2>3 DEF Onward
  <1>2. CASE db' = db BY <1>2 DEF Onward
  <1> QED BY <1>1, <1>2 DEF Next, Begin, Abort, vars

LEMMA ToldStep ==
  ASSUME RInv, [Next]_vars, NEW r \in Request, db' # db, sess[r].open, ~sess'[r].open, Untold(sess[r].snap) = {},
         NEW i \in Untold(db')
  PROVE  \/ db.inst[db'.items[i].sub] # sess[r].snap.inst[db'.items[i].sub]
         \/ /\ i \in DOMAIN db.items
            /\ i \in DOMAIN sess[r].snap.items => db.items[i] # sess[r].snap.items[i]
  <1> DEFINE old == sess[r].snap
             s == db'.items[i].sub
  <1>1. Commit(r)
    <2>1. PICK q \in Request : Commit(q) BY DEF Next, Begin, Abort, vars
    <2>2. CASE q = r BY <2>1, <2>2
    <2>3. CASE q # r
      <3>1. sess \in [Request -> [open : BOOLEAN, snap : Table, missed : Touched]] BY DEF RInv, IInv
      <3>2. \E v : sess'[r] = [sess[r] EXCEPT !.missed = [k \in DOMAIN @ |-> @[k] \cup v.touched[k]]]
        BY <2>1, <2>3 DEF Commit
      <3>3. \A m : [sess[r] EXCEPT !.missed = m].open = sess[r].open BY <3>1
      <3> QED BY <3>2, <3>3
    <2> QED BY <2>2, <2>3
  <1>2. Resting(old, TRUE)
    <2>1. Resting(old, FALSE) /\ Untold(old) = {} BY DEF RInv
    <2> HIDE DEF old
    <2> QED BY <2>1 DEF Resting, Rests, Untold
  <1>a. PICK v : Commits(r, v, TRUE) BY <1>1, <1>2, CommitIs
  <1>3. db' = Published(old, v.db) /\ Resting(v.db, TRUE) BY <1>a DEF Commits
  <1>4. i \in DOMAIN db'.items /\ s # None /\ db'.inst[s] = "complete" /\ db'.items[i].state # "complete"
    BY DEF Untold
  <1>5. s \in Doc
    <2>1. Kept(db') BY NextInv DEF RInv, IInv
    <2> QED BY <1>4, <2>1 DEF Kept, Table, Items, ItemRow
  <1> HIDE DEF old
  <1>6. db'.inst[s] = IF v.db.inst[s] = old.inst[s] THEN db.inst[s] ELSE v.db.inst[s]
    BY <1>3, <1>5, PublishedItems
  <1>7. CASE i \in DOMAIN v.db.items /\ db'.items[i] = v.db.items[i]
    <2>1. v.db.inst[s] # "complete" BY <1>3, <1>4, <1>7 DEF Resting, Rests
    <2>2. db.inst[s] # old.inst[s] BY <1>4, <1>6, <2>1
    <2> QED BY <2>2 DEF old
  <1>8. CASE ~(i \in DOMAIN v.db.items /\ db'.items[i] = v.db.items[i])
    <2>1. /\ i \in DOMAIN db.items /\ db'.items[i] = db.items[i]
          /\ i \in DOMAIN old.items => i \in DOMAIN v.db.items /\ v.db.items[i] = old.items[i]
      BY <1>3, <1>4, <1>8, PublishedItems
    <2>2. i \in DOMAIN old.items => db.items[i] # old.items[i] BY <1>8, <2>1
    <2> QED BY <2>1, <2>2 DEF old
  <1> QED BY <1>7, <1>8

\* The committed rows and every snapshot are kept: requests begin and commit in
\* any order (osv.py:192-207).
THEOREM Invariance == Spec => []RInv
  BY InitRests, NextRests, PTL DEF Spec

\* Whatever the workflows are and however requests interleave, the committed rows
\* refer to rows that exist, no item is left half executed by the request that
\* processed it, and a mark of wkf_witm_trans that outlives its request waits at an
\* AND join (workitem.py:79-198).
THEOREM TypeCorrect == Spec => []TypeOK
  BY Invariance, TypeOK_, PTL

\* No interleaving of requests takes an instance back to a state it has left
\* (instance.py:22-36, 67).
THEOREM Advances == Spec => InstancesAdvance
  <1>1. RInv /\ [Next]_vars => [\A d \in Doc : Onward(db.inst[d], db'.inst[d])]_vars BY AdvanceStep
  <1> QED BY <1>1, Invariance, PTL DEF Spec, InstancesAdvance

\* An item misses the end of its subflow only if the request that ended it, or that
\* sent the item into it, ran beside another that wrote the same instance or item
\* (instance.py:67-72, workitem.py:126-145).
THEOREM ToldUnlessRaced == Spec => UntoldByRaceOnly
  <1> DEFINE A == \A r \in Request :
                    db' # db /\ sess[r].open /\ ~sess'[r].open /\ Untold(sess[r].snap) = {} =>
                        \A i \in Untold(db') :
                            \/ db.inst[db'.items[i].sub] # sess[r].snap.inst[db'.items[i].sub]
                            \/ /\ i \in DOMAIN db.items
                               /\ i \in DOMAIN sess[r].snap.items => db.items[i] # sess[r].snap.items[i]
  <1>1. RInv /\ [Next]_vars => [A]_vars BY ToldStep
  <1> QED BY <1>1, Invariance, PTL DEF Spec, UntoldByRaceOnly
=============================================================================
