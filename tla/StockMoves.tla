----------------------------- MODULE StockMoves -----------------------------
(***************************************************************************)
(* Stock moves of one product (odoo/addons/stock/stock.py, as changed by   *)
(* the fork in stock.py and emm_stock_enhancements/stock.py): confirmation *)
(* with chained moves, reservation, partial transfers and cancellation.    *)
(*                                                                         *)
(* A request runs in one transaction of snapshot isolation, and nobody     *)
(* sees its rows before the commit.  Begin takes the snapshot; one action  *)
(* per method evaluates it on the snapshot and publishes what it wrote,    *)
(* unless a row that it wrote, or locked for a reservation, was updated    *)
(* by a request that committed in between; Abort is everything else: an    *)
(* exception, a lock that is not free, a serialization failure.  A request *)
(* that nothing overtakes is one step, Alone.  The methods check little by *)
(* themselves: the buttons of the views say which moves they are called on *)
(* (Buttons).                                                              *)
(*                                                                         *)
(* Units of measure, lots, tracking, prices and accounting are left out.   *)
(* A picking is the set of the moves that refer to it: its own state       *)
(* follows theirs through its workflow.                                    *)
(***************************************************************************)
EXTENDS Integers, Sequences, SequencesExt

CONSTANTS
    Request,        \* requests that others may overtake
    Alone,          \* ... and one that nothing overtakes
    MaxMoves,       \* bound: rows of stock.move
    MaxSteps,       \* bound: calls of a request
    MaxOvertakes,   \* bound: requests that commit while another is open
    Entered,        \* bound: [Move -> SUBSET Nat], the quantities that users enter
    Location,
    Within,         \* [Location -> SUBSET Location]: the location and its children
    Everywhere,     \* the locations that the fork adds to every search
    Unlimited,      \* locations of suppliers
    Arrive,         \* [Location -> Location]: where transparent chains lead
    Chain,          \* [Location -> Location or None]: manual chains
    None,
    Initial         \* sequences of moves, as users and procurements created them

VARIABLES
    db,             \* the committed moves
    sess            \* [Request -> its open transaction, or Closed]

vars == <<db, sess>>

Move == 1 .. MaxMoves
Ended == {"done", "cancel"}
Open == {"draft", "waiting", "confirmed", "assigned"}

\* next: move_dest_id, or 0; auto: auto_validate; incoming: the type of the
\* picking; leg: which demand the move is a part of (for the properties only).
Row == [state : Open \cup Ended, qty : Nat, src : Location, dst : Location,
        next : Move \cup {0}, pick : Nat, incoming : BOOLEAN, auto : BOOLEAN, leg : Move]

NoRow == [state |-> "none", qty |-> 0, src |-> None, dst |-> None,
          next |-> 0, pick |-> 0, incoming |-> FALSE, auto |-> FALSE, leg |-> 0]

\* A store is given, with its chains and with moves that refer to each other.
ASSUME StockAssumption ==
    /\ MaxMoves \in Nat /\ MaxSteps \in Nat /\ Alone \notin Request
    /\ IsFiniteSet(Location) /\ None \notin Location
    /\ Within \in [Location -> SUBSET Location] /\ Everywhere \subseteq Location
    /\ Arrive \in [Location -> Location] /\ Chain \in [Location -> Location \cup {None}]
    /\ Entered \in [Move -> SUBSET Nat]
    /\ \A first \in Initial :
        /\ DOMAIN first \subseteq Move
        /\ \A m \in DOMAIN first :
            first[m] \in Row /\ first[m].next \in DOMAIN first \cup {0} /\ first[m].leg \in DOMAIN first

Closed == [open |-> FALSE, snap |-> << >>, missed |-> {}, age |-> 0]

Rows(t) == {m \in Move : t[m].state # "none"}
LinesOf(t, p) == {m \in Rows(t) : t[m].pick = p}
InState(t, p, S) == {m \in LinesOf(t, p) : t[m].state \in S}
PicksIn(t) == {t[m].pick : m \in Rows(t)}
Sum(f, S) == MapThenSumSet(LAMBDA x : f[x], S)
Quantities(t) == [m \in Move |-> t[m].qty]

-----------------------------------------------------------------------------
(* A request under way is a record w: its moves, the ids it may use, the     *)
(* rows it wrote and locked, the pickings in use, the order in which SELECT  *)
(* returns locations, whether it has not raised, and the calls it has yet to *)
(* make, the next one last.  A call is a record as well: do, the method, and *)
(* its arguments.                                                            *)

Call(w, c) == [w EXCEPT !.todo = Append(@, c)]
Raise(w) == [w EXCEPT !.ok = FALSE]

SetState(w, S, s) ==
    [w EXCEPT !.moves = [m \in Move |-> IF m \in S THEN [w.moves[m] EXCEPT !.state = s] ELSE w.moves[m]],
              !.wrote = @ \cup S]

Put(w, m, row) == [w EXCEPT !.moves[m] = row, !.wrote = @ \cup {m}]

\* orm.create: an id above all others (bound: with none left the request raises).
NewId(w) == Min(w.free)
Insert(w, row) == [Put(w, NewId(w), row) EXCEPT !.free = @ \ {NewId(w)}]

\* Numbers for a new picking.
FreePicks(w) == (1 .. MaxMoves + 1) \ (w.picks \cup PicksIn(w.moves))

\* What _product_reserve counts at a location: moves in, and moves out that
\* are done or reserved.
MovesIn(t, l) == {m \in Rows(t) : t[m].dst = l /\ t[m].src # l /\ t[m].state = "done"}
MovesOut(t, l) == {m \in Rows(t) : t[m].src = l /\ t[m].dst # l /\ t[m].state \in {"done", "assigned"}}
Available(t, l) == Sum(Quantities(t), MovesIn(t, l)) - Sum(Quantities(t), MovesOut(t, l))

-----------------------------------------------------------------------------
(* Methods of stock.move.                                                    *)

\* A pass of create_chained_picking over the moves ids, for which it makes one picking.
Chain1(w, ids) ==
    IF FreePicks(w) = {} THEN Raise(w)
    ELSE Call(w, [do |-> "chain", ids |-> ids, new |-> {}, pick |-> Min(FreePicks(w))])

\* create_chained_picking, with _chain_compute: a waiting move from where the
\* move arrives, and so on along the chain.
Chained(w, c) ==
    LET m == Min(c.ids)
        row == w.moves[m]
        here == Arrive[row.dst]
        moved == IF here = row.dst THEN w ELSE Put(w, m, [row EXCEPT !.dst = here])
        onward == [row EXCEPT !.state = "waiting", !.src = here, !.dst = Chain[here], !.incoming = FALSE,
                              !.pick = IF @ = 0 THEN 0 ELSE c.pick, !.leg = NewId(w)]
        linked == Put(Insert(moved, onward), m, [moved.moves[m] EXCEPT !.next = NewId(w)])
        rest == [c EXCEPT !.ids = @ \ {m}]
    IN  IF c.ids = {} THEN IF c.new = {} THEN w ELSE Chain1(w, c.new)
        ELSE IF Chain[here] = None THEN Call(moved, rest)
        ELSE IF w.free = {} THEN Raise(w)
        ELSE Call(linked, [rest EXCEPT !.new = @ \cup {NewId(w)}])

Confirm(w, ids) == IF ids = {} THEN w ELSE Chain1(SetState(w, ids, "confirmed"), ids)

\* create, as the fork extends it: a move of an incoming picking is confirmed
\* and assigned at once.
Create(w, row) ==
    LET new == {NewId(w)}
        made == Insert(w, row)
    IN  IF w.free = {} THEN Raise(w)
        ELSE IF ~row.incoming THEN made
        ELSE Call(Call(made, [do |-> "assign", ids |-> new, done |-> {}]), [do |-> "confirm", ids |-> new])

\* check_assign, move by move: those that were found are assigned together, at the end.
Assign(w, c) ==
    LET m == Min(c.ids)
        row == w.moves[m]
        ids == c.ids \ {m}
        done == c.done \cup {m}
    IN  IF c.ids = {} THEN SetState(w, c.done, "assigned")
        ELSE IF row.state \notin {"confirmed", "waiting"} THEN Call(w, [c EXCEPT !.ids = ids])
        ELSE IF row.src \in Unlimited THEN Call(w, [do |-> "assign", ids |-> ids, done |-> done])
        ELSE Call(w, [do |-> "reserve", move |-> m, left |-> row.qty, from |-> w.order, got |-> << >>,
                      ids |-> ids, done |-> done])

\* Mutant of Take: a location that has anything gives everything.
TakeAll(free, left) == left

Take(free, left) == IF free < left THEN free ELSE left

Given(row, g) == [row EXCEPT !.state = "assigned", !.qty = g.qty, !.src = g.src]

\* _product_reserve, location by location: what each gives towards the quantity of
\* the move, with the rows that it counts locked.  check_assign raises for all
\* moves when some is missing, and else assigns the move and splits it over those
\* locations.
Reserve(w, c) ==
    LET row == w.moves[c.move]
        l == Head(c.from)
        rest == [c EXCEPT !.from = Tail(@)]
        free == Available(w.moves, l)
        take == Take(free, c.left)
        seen == [w EXCEPT !.locked = @ \cup MovesIn(w.moves, l) \cup MovesOut(w.moves, l)]
    IN  IF c.left = 0 /\ c.got # << >>
        THEN Call(Put(w, c.move, Given(row, Head(c.got))),
                  [do |-> "copies", move |-> c.move, got |-> c.got, k |-> 2, ids |-> c.ids, done |-> c.done])
        ELSE IF c.from = << >> THEN Raise(w)
        ELSE IF l \notin Within[row.src] \cup Everywhere THEN Call(w, rest)
        ELSE IF free <= 0 THEN Call(seen, rest)
        ELSE Call(seen, [rest EXCEPT !.left = @ - take, !.got = Append(@, [qty |-> take, src |-> l])])

\* The copies that check_assign makes of a split move.  copy gives them the default
\* state: the moves that follow in the same call do not count what they take.
Draft(row) == [row EXCEPT !.state = "draft"]

Copies(w, c) ==
    IF c.k > Len(c.got) THEN Call(w, [do |-> "assign", ids |-> c.ids, done |-> c.done])
    ELSE IF w.free = {} THEN Raise(w)
    ELSE Create(Call(w, [c EXCEPT !.k = @ + 1, !.done = @ \cup {NewId(w)}]),
                Draft(Given(w.moves[c.move], c.got[c.k])))

ForceAssign(w, ids) == SetState(w, ids, "assigned")

\* action_cancel: a move that waits for a cancelled one waits no more.
Cancel(w, ids) ==
    LET told == {n \in {w.moves[m].next : m \in ids} \ {0} : w.moves[n].state = "waiting"}
        off == SetState(SetState(w, told, "confirmed"), ids, "cancel")
    IN  [off EXCEPT !.moves = [m \in Move |-> IF m \in ids THEN [@[m] EXCEPT !.next = 0] ELSE @[m]]]

\* Mutant of Upstream: counts the move that is being processed.
AllUpstream(t, m) == {o \in Rows(t) : t[o].next = t[m].next /\ t[o].state \notin Ended}

\* The other moves that the move after m still waits for, in action_done.
Upstream(t, m) == {o \in Rows(t) \ {m} : t[o].next = t[m].next /\ t[o].state \notin Ended}

\* action_done: the drafts are confirmed, ...
Done(w, ids) ==
    Call(Call(w, [do |-> "process", ids |-> ids]),
         [do |-> "confirm", ids |-> {m \in ids : w.moves[m].state = "draft"}])

\* ... then the moves are gone through, those that were waiting are confirmed,
\* and all are done.
Process(w, ids) ==
    LET open == {m \in ids : w.moves[m].state \notin Ended}
        waiting == {m \in open : w.moves[m].state = "waiting"}
    IN  Call(Call(Call(w, [do |-> "end", ids |-> open]),
                  [do |-> "confirm", ids |-> waiting]),
             [do |-> "release", ids |-> open])

\* A move that was the last before the next one makes that one available, and
\* does it as well when it is to be validated automatically.
Release(w, c) ==
    LET m == Min(c.ids)
        n == w.moves[m].next
        rest == Call(w, [c EXCEPT !.ids = @ \ {m}])
        forced == ForceAssign(rest, {n})
    IN  IF c.ids = {} THEN w
        ELSE IF n = 0 THEN rest
        ELSE IF Upstream(w.moves, m) # {} \/ w.moves[n].state \notin {"waiting", "confirmed"} THEN rest
        ELSE IF w.moves[n].auto THEN Call(forced, [do |-> "done", ids |-> {n}])
        ELSE forced

\* Mutant of Rest: the remaining line keeps the quantity of the order.
Whole(row, q) == row

\* What stays of a move when q of it leaves.
Rest(row, q) == [row EXCEPT !.qty = @ - q]

Reduce(w, c) == Put(w, c.move, Rest(w.moves[c.move], c.qty))

\* q of move m leaves as the row part, which is created first.
SplitOff(w, m, q, part) ==
    LET rest == Call(w, [do |-> "reduce", move |-> m, qty |-> q])
    IN  IF q = 0 THEN rest ELSE Create(rest, part)

\* stock.move do_partial, for one move.
MovePartial(w, m, q) ==
    LET row == w.moves[m]
        part == [row EXCEPT !.qty = q, !.state = "assigned", !.next = 0]
    IN  IF row.state \in Ended THEN w
        ELSE IF q >= row.qty THEN Call(w, [do |-> "done", ids |-> {m}])
        ELSE IF q = 0 THEN SplitOff(w, m, q, part)
        ELSE IF w.free = {} THEN Raise(w)
        ELSE SplitOff(Call(w, [do |-> "done", ids |-> {NewId(w)}]), m, q, part)

-----------------------------------------------------------------------------
(* Methods of stock.picking.                                                 *)

PickConfirm(w, p) == Call(w, [do |-> "confirm", ids |-> InState(w.moves, p, {"draft"})])

\* action_assign, once the drafts are confirmed: raises when no line is.
LinesAssign(w, p) ==
    LET ids == InState(w.moves, p, {"confirmed"})
    IN  IF ids = {} THEN Raise(w) ELSE Call(w, [do |-> "assign", ids |-> ids, done |-> {}])

PickAssign(w, p) == PickConfirm(Call(w, [do |-> "assign_lines", pick |-> p]), p)

PickForce(w, p) == ForceAssign(w, InState(w.moves, p, {"confirmed", "waiting"}))

\* draft_validate: all lines become available, before the wizard opens.
PickValidate(w, p) == PickConfirm(Call(w, [do |-> "force", ids |-> LinesOf(w.moves, p)]), p)

\* allow_cancel, action_cancel
PickCancel(w, p) ==
    IF InState(w.moves, p, {"done"}) # {} THEN Raise(w) ELSE Cancel(w, LinesOf(w.moves, p))

ActionMove(w, p) == Call(w, [do |-> "done", ids |-> InState(w.moves, p, {"draft", "confirmed", "assigned"})])

TooFew(row, q) == q < row.qty

\* do_partial, line by line: lines with too little are split, and what leaves goes
\* into a picking of its own together with the complete lines.
Leave(w, c) ==
    LET few == {m \in c.ids : TooFew(w.moves[m], c.given[m])}
        m == IF few # {} THEN Min(few) ELSE Min(c.ids)
        q == c.given[m]
        row == w.moves[m]
        rest == Call(w, [c EXCEPT !.ids = @ \ {m}])
        part == [row EXCEPT !.qty = q, !.pick = c.pick, !.next = 0,
                            !.state = IF @ = "assigned" THEN "confirmed" ELSE @]
    IN  IF c.ids = {} THEN w
        ELSE IF m \in few THEN SplitOff(rest, m, q, part)
        ELSE Put(rest, m, [row EXCEPT !.qty = q, !.pick = c.pick])

\* ... then the picking that leaves is confirmed and done.
Transfer(w, p, given) ==
    LET few == {m \in DOMAIN given : TooFew(w.moves[m], given[m])}
        Go(pick) ==
            Call(Call(Call(w, [do |-> "move_lines", pick |-> pick]),
                      [do |-> "confirm_lines", pick |-> pick]),
                 [do |-> "leave", ids |-> DOMAIN given, given |-> given, pick |-> pick])
    IN  IF few = {} THEN Go(p)
        ELSE IF FreePicks(w) = {} THEN Raise(w)
        ELSE Go(Min(FreePicks(w)))

-----------------------------------------------------------------------------
(* Running a request.                                                        *)

\* The next call, which is made with the rest of the calls pending.
Make(w, c) ==
    CASE c.do = "confirm"       -> Confirm(w, c.ids)
      [] c.do = "chain"         -> Chained(w, c)
      [] c.do = "assign"        -> Assign(w, c)
      [] c.do = "reserve"       -> Reserve(w, c)
      [] c.do = "copies"        -> Copies(w, c)
      [] c.do = "force"         -> ForceAssign(w, c.ids)
      [] c.do = "done"          -> Done(w, c.ids)
      [] c.do = "process"       -> Process(w, c.ids)
      [] c.do = "release"       -> Release(w, c)
      [] c.do = "end"           -> SetState(w, c.ids, "done")
      [] c.do = "reduce"        -> Reduce(w, c)
      [] c.do = "leave"         -> Leave(w, c)
      [] c.do = "confirm_lines" -> PickConfirm(w, c.pick)
      [] c.do = "assign_lines"  -> LinesAssign(w, c.pick)
      [] c.do = "move_lines"    -> ActionMove(w, c.pick)

Step(w) ==
    IF w.todo = << >> \/ ~w.ok THEN w
    ELSE Make([w EXCEPT !.todo = SubSeq(@, 1, Len(@) - 1)], w.todo[Len(w.todo)])

\* A request, run to its end (bound: MaxSteps calls).
Run(w) ==
    LET at[n \in 0 .. MaxSteps] == IF n = 0 THEN w ELSE Step(at[n - 1])
    IN  at[MaxSteps]

-----------------------------------------------------------------------------
(* Transactions.                                                             *)

Begin(r) ==
    /\ ~sess[r].open
    /\ sess' = [sess EXCEPT ![r] = [open |-> TRUE, snap |-> db, missed |-> {}, age |-> 0]]
    /\ UNCHANGED db

\* What request r read.
Read(r) == IF r = Alone THEN [open |-> TRUE, snap |-> db, missed |-> {}, age |-> 0] ELSE sess[r]

\* A request that starts from the snapshot of r; ids come from a sequence.
Start(r, order) ==
    [moves |-> Read(r).snap, free |-> Move \ Rows(db),
     picks |-> PicksIn(db) \cup UNION {PicksIn(sess[q].snap) : q \in {p \in Request : sess[p].open}},
     wrote |-> {}, locked |-> {}, order |-> order, todo |-> << >>, ok |-> TRUE]

\* Mutant of Serializes: rows are written without a look at their version.
LockedOnly(w, missed) == w.locked \cap missed = {}

\* First updater wins: the rows written, and those locked FOR UPDATE, are still
\* those of the snapshot.
Serializes(w, missed) == (w.wrote \cup w.locked) \cap missed = {}

Published(w) == [m \in Move |-> IF m \in w.wrote THEN w.moves[m] ELSE db[m]]

\* The request runs to its end, and its transaction commits.
Commit(r, request) ==
    \E w \in {Run(request)} :
    /\ \A q \in Request \ {r} : sess[q].age < MaxOvertakes
    /\ w.ok /\ w.todo = << >> /\ w.wrote # {}
    /\ Serializes(w, Read(r).missed)
    /\ db' = Published(w)
    /\ sess' = [q \in Request |->
                    IF q = r \/ ~sess[q].open THEN Closed
                    ELSE [sess[q] EXCEPT !.missed = @ \cup w.wrote, !.age = @ + 1]]

AnyOrder == SetToSeq(Location)
Orders(t, p) ==
    SetToSeqs(Everywhere \cup UNION {Within[t[m].src] : m \in LinesOf(t, p)})

Seen(r) == Rows(Read(r).snap)
Picks(r) == PicksIn(Read(r).snap) \ {0}

\* The buttons of the form of a move, by the states that show them.
Buttons == [confirm |-> {"draft"}, force |-> {"confirmed"}, cancel_assign |-> {"assigned"},
            cancel |-> {"confirmed", "assigned"}, done |-> {"draft", "confirmed", "assigned"},
            partial |-> {"assigned"}]
Lines(r, button) == {m \in Seen(r) : Read(r).snap[m].state \in Buttons[button]}

ConfirmMove(r, m) == Commit(r, Call(Start(r, AnyOrder), [do |-> "confirm", ids |-> {m}]))
ForceMove(r, m) == Commit(r, ForceAssign(Start(r, AnyOrder), {m}))
CancelAssign(r, m) == Commit(r, SetState(Start(r, AnyOrder), {m}, "confirmed"))
CancelMove(r, m) == Commit(r, Cancel(Start(r, AnyOrder), {m}))
DoneMove(r, m) == Commit(r, Call(Start(r, AnyOrder), [do |-> "done", ids |-> {m}]))
\* What a user enters for a move: nothing, all of it, or something else.
Enter(row) == {0, row.qty} \cup Entered[row.leg]

PartialMove(r, m) ==
    \E q \in Enter(Read(r).snap[m]) : Commit(r, MovePartial(Start(r, AnyOrder), m, q))

ConfirmPicking(r, p) == Commit(r, PickConfirm(Start(r, AnyOrder), p))
AssignPicking(r, p) ==
    \E order \in Orders(Read(r).snap, p) : Commit(r, PickAssign(Start(r, order), p))
ForcePicking(r, p) == Commit(r, PickForce(Start(r, AnyOrder), p))
ValidatePicking(r, p) ==
    /\ InState(Read(r).snap, p, {"draft"}) # {}
    /\ Commit(r, PickValidate(Start(r, AnyOrder), p))
CancelPicking(r, p) == Commit(r, PickCancel(Start(r, AnyOrder), p))
TransferPicking(r, p) ==
    LET lines == InState(Read(r).snap, p, Open)
        entered == UNION {Enter(Read(r).snap[m]) : m \in lines}
    IN  \E given \in {g \in [lines -> entered] : \A m \in lines : g[m] \in Enter(Read(r).snap[m])} :
            Commit(r, Transfer(Start(r, AnyOrder), p, given))

Abort(r) ==
    /\ sess[r].open
    /\ sess' = [sess EXCEPT ![r] = Closed]
    /\ UNCHANGED db

Init ==
    /\ \E first \in Initial : db = [m \in Move |-> IF m \in DOMAIN first THEN first[m] ELSE NoRow]
    /\ sess = [r \in Request |-> Closed]

OnMove(r) ==
    \/ \E m \in Lines(r, "confirm") : ConfirmMove(r, m)
    \/ \E m \in Lines(r, "force") : ForceMove(r, m)
    \/ \E m \in Lines(r, "cancel_assign") : CancelAssign(r, m)
    \/ \E m \in Lines(r, "cancel") : CancelMove(r, m)
    \/ \E m \in Lines(r, "done") : DoneMove(r, m)
    \/ \E m \in Lines(r, "partial") : PartialMove(r, m)

OnPicking(r) ==
    \E p \in Picks(r) :
        \/ ConfirmPicking(r, p) \/ AssignPicking(r, p) \/ ForcePicking(r, p)
        \/ ValidatePicking(r, p) \/ CancelPicking(r, p) \/ TransferPicking(r, p)

Next ==
    \/ \E r \in Request : Begin(r) \/ Abort(r)
    \/ \E r \in {q \in Request : sess[q].open} \cup {Alone} : OnMove(r) \/ OnPicking(r)

Spec == Init /\ [][Next]_vars

-----------------------------------------------------------------------------
(* Correctness.                                                              *)

\* Moves are well typed, and refer to moves that exist.
TypeOK ==
    /\ \A m \in Rows(db) : db[m] \in Row /\ db[m].next \in Rows(db) \cup {0}
    /\ \A m \in Move \ Rows(db) : db[m] = NoRow
    /\ \A r \in Request : sess[r].missed \subseteq Rows(db)

\* The moves that a demand has been split into.
Leg(t, l) == {m \in Rows(t) : t[m].leg = l}

\* Splitting a demand over locations (check_assign) and deliveries (do_partial)
\* neither loses nor duplicates any of it, whatever requests run side by side:
\* it grows only by what a user enters above the quantity of a move.
DemandKept ==
    [][\A l \in {db[m].leg : m \in Rows(db)} :
        LET more == [m \in Move |-> IF db'[m].qty > db[m].qty THEN db'[m].qty - db[m].qty ELSE 0]
        IN  Sum(Quantities(db'), Leg(db', l)) = Sum(Quantities(db), Leg(db, l)) + Sum(more, Leg(db, l))]_vars

\* What is left at location l when the moves S have taken theirs.
Left(t, l, S) == Sum(Quantities(t), MovesIn(t, l)) - Sum(Quantities(t), MovesOut(t, l) \cap S)

Reserved == {m \in Rows(db') : db'[m].state = "assigned" /\ db[m].state # "assigned" /\ db'[m].src \notin Unlimited}

\* A step that reserves more than a location has: in one piece, or for the moves
\* that were there before, taken together.
Overdraws ==
    \E m \in Reserved :
        \/ db'[m].qty > Available(db, db'[m].src)
        \/ m \in Rows(db) /\ Left(db', db'[m].src, Rows(db)) < 0

\* ... or for all moves, with the copies that were made of them.
OverdrawsWithCopies == \E m \in Reserved : Available(db', db'[m].src) < 0

\* What left location l since r read, and what of it is only reserved.
Taken(r, l) == MovesOut(db, l) \ MovesOut(sess[r].snap, l)
ReservedSince(r, l) == {m \in Taken(r, l) : db[m].state = "assigned"}

\* A reservation that is not overtaken by another request takes no more than a
\* location has, with several moves and locations in one request (stock.py:2180-2225).
ReserveWithinFree == [][Overdraws => \A p \in Picks(Alone) : ~AssignPicking(Alone, p)]_vars

\* ... and that is also so when a product occurs several times in a picking, for
\* which check_assign assigns each move before it looks at the next (stock.py:2199-2202).
SameProductTwice == [][OverdrawsWithCopies => \A p \in Picks(Alone) : ~AssignPicking(Alone, p)]_vars

\* No reservation takes what another request has reserved since it began,
\* according to the docstring (stock.py:382-383).
NeverReservedTwice ==
    [][\A r \in {q \in Request : sess[q].open} : \A p \in Picks(r) :
        AssignPicking(r, p) =>
            \A l \in Location \ Unlimited :
                Available(db, l) >= 0 /\ ReservedSince(r, l) = Taken(r, l) => Available(db', l) >= 0]_vars

\* Quantities and locations of a processed move stay (stock.py:1804-1814), also
\* when it was processed after another request had read it.
ProcessedIsFrozen ==
    [][\A m \in Rows(db) :
        db[m].state = "done" /\ db'[m].state = "done" =>
            /\ db'[m].qty = db[m].qty
            /\ db'[m].src = db[m].src
            /\ db'[m].dst = db[m].dst]_vars

\* Processing the last move before another one makes that one available, however
\* the moves before it were split (stock.py:2416-2430).
LastUpstreamReleases ==
    [][\A m \in {k \in Lines(Alone, "done") : db[k].next # 0} :
        (/\ db'[db[m].next].state = "waiting"
         /\ \A o \in Rows(db') : db'[o].next = db[m].next => db'[o].state \in Ended)
            => ~DoneMove(Alone, m)]_vars
=============================================================================
