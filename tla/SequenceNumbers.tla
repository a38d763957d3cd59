--------------------------- MODULE SequenceNumbers ---------------------------
(***************************************************************************)
(* ir.sequence (openerp/addons/base/ir/ir_sequence.py) under concurrent    *)
(* requests, with the retry loop of object_proxy (openerp/osv/osv.py).     *)
(*                                                                         *)
(* A request is one transaction in snapshot isolation (REPEATABLE READ):   *)
(* it reads the rows as they were when it began, and a row that another    *)
(* request committed since then can be neither locked nor updated.  The    *)
(* implementation 'no_gap' counts in the row, under a lock nobody waits    *)
(* for; 'standard' counts in a PostgreSQL sequence, whose nextval and      *)
(* ALTER no rollback takes back, while CREATE and DROP take effect with    *)
(* the commit.                                                             *)
(***************************************************************************)
EXTENDS Integers, Sequences

CONSTANTS
    Request,            \* calls of object_proxy.execute
    Admin,              \* those that change a sequence; the others draw numbers
    Sequence,           \* rows of ir_sequence
    Initial,            \* [Sequence -> Row]
    NewImplementation,  \* implementations that an administrator may choose,
    NewNext,            \* numbers to go on with
    NewIncrement,       \* and [Sequence -> increments]
    None,               \* no request, no sequence
    MaxTries,           \* MAX_TRIES_ON_CONCURRENCY_FAILURE
    MaxDraws            \* bound: [Request -> how many numbers it may draw]

Implementation == {"standard", "no_gap"}

\* "gone" stands for the row of a deleted sequence.
Row == [implementation: Implementation \cup {"gone"}, number_next: Int, number_increment: Int]

ASSUME SequencesAssumption ==
    /\ Admin \subseteq Request
    /\ None \notin Request /\ None \notin Sequence
    /\ Initial \in [Sequence -> [implementation: Implementation,
                                 number_next: Int, number_increment: Int]]
    /\ NewImplementation \subseteq Implementation
    /\ NewNext \subseteq Int
    /\ NewIncrement \in [Sequence -> SUBSET Int]
    /\ MaxTries \in Nat /\ MaxDraws \in [Request -> Nat]

VARIABLES
    row,        \* [Sequence -> committed row]
    pgseq,      \* [Sequence -> PostgreSQL sequence ir_sequence_<id>]
    lock,       \* [Sequence -> request that locked or updated the row, or None]
    pc,         \* [Request -> where it is]
    view,       \* [Request -> [Sequence -> row as its transaction sees it]], Initial
                \* between transactions
    missed,     \* [Request -> rows that others committed since its snapshot]
    altered,    \* [Request -> sequence an administrator's write has updated, or None]
    drawn,      \* [Request -> the numbers it drew: [seq, num]]
    tries       \* [Request -> retries]

vars == <<row, pgseq, lock, pc, view, missed, altered, drawn, tries>>

PgSeq == [exists: BOOLEAN, last_value: Int, is_called: BOOLEAN, increment: Int]

\* CREATE SEQUENCE ... INCREMENT BY i START WITH n
Created(i, n) == [exists |-> TRUE, last_value |-> n, is_called |-> FALSE, increment |-> i]

Dropped == [exists |-> FALSE, last_value |-> 0, is_called |-> FALSE, increment |-> 1]

Init ==
    /\ row = Initial
    /\ pgseq = [s \in Sequence |->
                  IF Initial[s].implementation = "standard"
                  THEN Created(Initial[s].number_increment, Initial[s].number_next)
                  ELSE Dropped]
    /\ lock = [s \in Sequence |-> None]
    /\ pc = [r \in Request |-> "called"]
    /\ view = [r \in Request |-> Initial]
    /\ missed = [r \in Request |-> {}]
    /\ altered = [r \in Request |-> None]
    /\ drawn = [r \in Request |-> <<>>]
    /\ tries = [r \in Request |-> 0]

-----------------------------------------------------------------------------
Open(r) == pc[r] \in {"open", "altering", "altered"}

Free(r, s) == lock[s] \in {None, r}

\* A newer version of the row than the one r sees was committed.
Stale(r, s) == s \in missed[r]

\* Mutant of Successor: every sequence counts by one.
ByOne(v) == [v EXCEPT !.number_next = @ + 1]

\* UPDATE ir_sequence SET number_next = number_next + number_increment
Successor(v) == [v EXCEPT !.number_next = @ + v.number_increment]

\* nextval, and the state it leaves.
Nextval(q) == IF q.is_called THEN q.last_value + q.increment ELSE q.last_value

AfterNextval(q) == [q EXCEPT !.last_value = Nextval(q), !.is_called = TRUE]

\* Locks held until the end of the transaction: a request that called nextval keeps
\* the sequence from being dropped, one that dropped it keeps others from using it.
UsesPgSeq(r, s) == pc[r] = "open" /\ \E k \in DOMAIN drawn[r] : drawn[r][k].seq = s

Drops(r, s) == pc[r] = "altered" /\ altered[r] = s /\ view[r][s].implementation # "standard"

-----------------------------------------------------------------------------
Unlocked(r) == [s \in Sequence |-> IF lock[s] = r THEN None ELSE lock[s]]

\* cr.rollback(), cr.close()
Rollback(r) ==
    /\ lock' = Unlocked(r)
    /\ view' = [view EXCEPT ![r] = Initial]
    /\ missed' = [missed EXCEPT ![r] = {}]
    /\ altered' = [altered EXCEPT ![r] = None]
    /\ drawn' = [drawn EXCEPT ![r] = <<>>]

\* Mutant of Tried: the retries are not counted.
Uncounted(r) == tries[r]

Tried(r) == tries[r] + 1

\* object_proxy.check, for the errors in PG_CONCURRENCY_ERRORS_TO_RETRY: the
\* method is called again, after a while, unless it was tried often enough.
Retry(r) ==
    /\ Rollback(r)
    /\ IF tries[r] >= MaxTries
       THEN pc' = [pc EXCEPT ![r] = "failed"] /\ UNCHANGED tries
       ELSE pc' = [pc EXCEPT ![r] = "called"] /\ tries' = [tries EXCEPT ![r] = Tried(r)]
    /\ UNCHANGED <<row, pgseq>>

\* Any other exception goes to the caller.
Fail(r) ==
    /\ Rollback(r)
    /\ pc' = [pc EXCEPT ![r] = "failed"]
    /\ UNCHANGED <<row, pgseq, tries>>

\* execute: a cursor is opened, and the first query takes the snapshot.
Begin(r) ==
    /\ pc[r] = "called"
    /\ pc' = [pc EXCEPT ![r] = "open"]
    /\ view' = [view EXCEPT ![r] = row]
    /\ missed' = [missed EXCEPT ![r] = {}]
    /\ UNCHANGED <<row, pgseq, lock, altered, drawn, tries>>

\* _next on the sequence that next_by_code or next_by_id found.
CanDraw(r, s, i) ==
    /\ pc[r] = "open" /\ r \notin Admin
    /\ view[r][s].implementation = i

TakeNumber(r, s, n) ==
    /\ Len(drawn[r]) < MaxDraws[r]
    /\ drawn' = [drawn EXCEPT ![r] = Append(@, [seq |-> s, num |-> n])]

\* SELECT nextval('ir_sequence_<id>')
DrawStandard(r, s) ==
    /\ CanDraw(r, s, "standard")
    /\ pgseq[s].exists
    /\ \A a \in Request : ~Drops(a, s)
    /\ TakeNumber(r, s, Nextval(pgseq[s]))
    /\ pgseq' = [pgseq EXCEPT ![s] = AfterNextval(@)]
    /\ UNCHANGED <<row, lock, pc, view, missed, altered, tries>>

\* The sequence was dropped after the snapshot: a ProgrammingError, not tried again.
DrawDropped(r, s) ==
    /\ CanDraw(r, s, "standard")
    /\ ~pgseq[s].exists
    /\ Fail(r)

\* SELECT number_next ... FOR UPDATE NOWAIT, then the UPDATE; the number is the
\* one read before the lock was taken.
DrawNoGap(r, s) ==
    /\ CanDraw(r, s, "no_gap")
    /\ Free(r, s) /\ ~Stale(r, s)
    /\ TakeNumber(r, s, view[r][s].number_next)
    /\ lock' = [lock EXCEPT ![s] = r]
    /\ view' = [view EXCEPT ![r][s] = Successor(@)]
    /\ UNCHANGED <<row, pgseq, pc, missed, altered, tries>>

\* lock_not_available, or serialization_failure.
DrawConflict(r, s) ==
    /\ CanDraw(r, s, "no_gap")
    /\ ~Free(r, s) \/ Stale(r, s)
    /\ Retry(r)

\* The rest of the method collides with another request, ...
Collide(r) == pc[r] = "open" /\ Retry(r)

\* ... or raises, or the process dies.
Raise(r) == pc[r] = "open" /\ Fail(r)

-----------------------------------------------------------------------------
\* write() up to the UPDATE, which waits for the lock.  A value equal to the row's
\* has the same effect as one that is not given.
Write(r, s) ==
    /\ pc[r] = "open" /\ r \in Admin
    /\ view[r][s].implementation # "gone"
    /\ Free(r, s) /\ ~Stale(r, s)
    /\ \E i \in NewImplementation \cup {view[r][s].implementation},
          n \in NewNext \cup {view[r][s].number_next},
          k \in NewIncrement[s] \cup {view[r][s].number_increment} :
          view' = [view EXCEPT ![r][s] = [implementation |-> i, number_next |-> n,
                                          number_increment |-> k]]
    /\ lock' = [lock EXCEPT ![s] = r]
    /\ altered' = [altered EXCEPT ![r] = s]
    /\ pc' = [pc EXCEPT ![r] = "altering"]
    /\ UNCHANGED <<row, pgseq, missed, drawn, tries>>

\* unlink() up to the DELETE.
Unlink(r, s) ==
    /\ pc[r] = "open" /\ r \in Admin
    /\ view[r][s].implementation # "gone"
    /\ Free(r, s) /\ ~Stale(r, s)
    /\ view' = [view EXCEPT ![r][s].implementation = "gone"]
    /\ lock' = [lock EXCEPT ![s] = r]
    /\ altered' = [altered EXCEPT ![r] = s]
    /\ pc' = [pc EXCEPT ![r] = "altering"]
    /\ UNCHANGED <<row, pgseq, missed, drawn, tries>>

\* The row was committed by another request after the snapshot.
WriteConflict(r, s) ==
    /\ pc[r] = "open" /\ r \in Admin
    /\ Free(r, s) /\ Stale(r, s)
    /\ Retry(r)

\* The cases of write() that _create_sequence or _alter_sequence refuse.
ZeroIncrement(old, new) ==
    new.implementation = "standard" /\ new.number_increment = 0

\* Mutant of Restarts: the PostgreSQL sequence goes back to the row's number.
AlwaysRestarts(old, new) == TRUE

\* "Only change sequence if really requested."
Restarts(old, new) == old.number_next # new.number_next

\* _alter_sequence
Altered(q, old, new) ==
    IF Restarts(old, new)
    THEN [Created(new.number_increment, new.number_next) EXCEPT !.exists = q.exists]
    ELSE [q EXCEPT !.increment = new.number_increment]

\* write(), second half: what becomes of the PostgreSQL sequence.  row[s] is still
\* the row that was read, since r holds its lock.
Alter(r) ==
    LET s == altered[r]  old == row[s]  new == view[r][s] IN
    /\ pc[r] = "altering"
    /\ ~ZeroIncrement(old, new)
    /\ \/ new.implementation = "standard"
       \/ \A b \in Request \ {r} : ~UsesPgSeq(b, s)
    /\ pgseq' = IF old.implementation = "standard" /\ new.implementation = "standard"
                THEN [pgseq EXCEPT ![s] = Altered(@, old, new)]
                ELSE pgseq
    /\ pc' = [pc EXCEPT ![r] = "altered"]
    /\ UNCHANGED <<row, lock, view, missed, altered, drawn, tries>>

AlterRefused(r) ==
    /\ pc[r] = "altering"
    /\ ZeroIncrement(row[altered[r]], view[r][altered[r]])
    /\ Fail(r)

\* What the CREATE SEQUENCE or DROP SEQUENCE of the transaction leaves.
PgSeqAfterCommit(q, old, new) ==
    IF new.implementation # "standard" THEN Dropped
    ELSE IF old.implementation = "standard" THEN q
    ELSE Created(new.number_increment, new.number_next)

\* cr.commit(): the rows it locked get the versions it sees.
Commit(r) ==
    /\ pc[r] \in {"open", "altered"}
    /\ row' = [s \in Sequence |-> IF lock[s] = r THEN view[r][s] ELSE row[s]]
    /\ pgseq' = [s \in Sequence |-> IF s = altered[r]
                                    THEN PgSeqAfterCommit(pgseq[s], row[s], view[r][s])
                                    ELSE pgseq[s]]
    /\ lock' = Unlocked(r)
    /\ missed' = [b \in Request |-> IF b = r THEN {}
                                    ELSE IF Open(b) THEN missed[b] \cup {s \in Sequence : lock[s] = r}
                                    ELSE missed[b]]
    /\ view' = [view EXCEPT ![r] = Initial]
    /\ altered' = [altered EXCEPT ![r] = None]
    /\ pc' = [pc EXCEPT ![r] = "done"]
    /\ UNCHANGED <<drawn, tries>>

-----------------------------------------------------------------------------
Step(r) ==
    \/ Begin(r)
    \/ \E s \in Sequence :
          \/ DrawStandard(r, s) \/ DrawDropped(r, s)
          \/ DrawNoGap(r, s) \/ DrawConflict(r, s)
          \/ Write(r, s) \/ Unlink(r, s) \/ WriteConflict(r, s)
    \/ Collide(r)
    \/ Raise(r)
    \/ Alter(r)
    \/ AlterRefused(r)
    \/ Commit(r)

Next == \E r \in Request : Step(r)

Spec == Init /\ [][Next]_vars

\* A request that was begun is worked on until it is answered.
FairSpec == Spec /\ \A r \in Request : WF_vars(Step(r))

-----------------------------------------------------------------------------
TypeOK ==
    /\ row \in [Sequence -> Row]
    /\ pgseq \in [Sequence -> PgSeq]
    /\ lock \in [Sequence -> Request \cup {None}]
    /\ pc \in [Request -> {"called", "open", "altering", "altered", "done", "failed"}]
    /\ view \in [Request -> [Sequence -> Row]]
    /\ missed \in [Request -> SUBSET Sequence]
    /\ altered \in [Request -> Sequence \cup {None}]
    /\ drawn \in [Request -> Seq([seq: Sequence, num: Int])]
    /\ tries \in [Request -> Nat]
    /\ \A r \in Request :
          /\ pc[r] \in {"altering", "altered"} <=> altered[r] # None
          /\ pc[r] \in {"called", "failed"} => drawn[r] = <<>>
          /\ \A s \in Sequence : lock[s] = r => Open(r)

\* Safety: "unique identifiers in a transaction-safe way" (docstring of
\* ir_sequence): no number is used twice, neither by committed requests nor by
\* requests that may still commit, nor twice in the same request.
UniqueNumbers ==
    \A a, b \in Request : \A j \in DOMAIN drawn[a], k \in DOMAIN drawn[b] :
        drawn[a][j] = drawn[b][k] => a = b /\ j = k

\* Refinement: to those who look at committed documents only, the sequences hand
\* out unique numbers, and those without gaps consecutive ones, whatever was
\* rolled back, tried again or changed by administrators meanwhile.
DocumentsOf(r) ==
    {[doc |-> <<r, k>>, seq |-> drawn[r][k].seq, num |-> drawn[r][k].num] : k \in DOMAIN drawn[r]}

Committed == UNION {DocumentsOf(r) : r \in {q \in Request : pc[q] = "done"}}

Abstract == INSTANCE Numbering WITH numbered <- Committed, series <- row

IsNumbering == Abstract!Spec

\* Liveness: the bounded retries end, and everybody gets an answer.
Answered == \A r \in Request : pc[r] = "open" ~> pc[r] \in {"done", "failed"}
=============================================================================
