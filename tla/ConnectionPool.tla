--------------------------- MODULE ConnectionPool ---------------------------
(***************************************************************************)
(* openerp/sql_db.py: the pool of connections and the cursors that borrow  *)
(* from it.  Each method of the pool holds its lock; closing a cursor, its *)
(* collection by the garbage collector and the loss of a connection on the *)
(* server's side do not wait for the lock.                                 *)
(*                                                                         *)
(* The list _connections is kept as two sets, for its flag "used".  Its    *)
(* order decides only which of several connections that would do is taken  *)
(* or evicted: here, any of them.                                          *)
(***************************************************************************)
EXTENDS Integers, FiniteSets

CONSTANTS
    Db,             \* databases (dsn)
    Template,       \* those whose connections are not kept in the pool
    Conn,           \* names for psycopg2 connections
    Cursor,         \* names for Cursor objects
    None,           \* no connection
    MaxConn         \* _maxconn

ASSUME PoolAssumption ==
    /\ Template \subseteq Db
    /\ None \notin Conn
    /\ MaxConn \in Nat \ {0}

VARIABLES
    idle, used,     \* the connections in _connections
    home,           \* [Conn -> its database, or None: never opened]
    broken,         \* lost on the server's side, which nobody has noticed yet
    closed,         \* connections with the attribute closed
    leaked,         \* connections with the attribute leaked
    dirty,          \* connections inside a transaction
    pc,             \* [Cursor -> how far it is in its life]
    cnx,            \* [Cursor -> its connection, or None]
    want            \* [Cursor -> the database it is borrowing for, or None]

vars == <<idle, used, home, broken, closed, leaked, dirty, pc, cnx, want>>

flags == <<home, broken, closed, leaked, dirty>>

Pool == idle \cup used

Held == {cnx[k] : k \in {m \in Cursor : pc[m] \in {"open", "closing"}}}

\* self._lock is held over the two loops of borrow.
Locked == \E k \in Cursor : pc[k] = "borrowing"

Init ==
    /\ idle = {} /\ used = {}
    /\ home = [c \in Conn |-> None]
    /\ broken = {} /\ closed = {} /\ leaked = {} /\ dirty = {}
    /\ pc = [k \in Cursor |-> "none"]
    /\ cnx = [k \in Cursor |-> None]
    /\ want = [k \in Cursor |-> None]

-----------------------------------------------------------------------------
(* borrow *)

\* delattr(cnx, 'leaked') for each recovered connection (mutant: the flag stays).
FlagStays == leaked

Unflagged == leaked \ (Pool \ closed)

\* The first loop takes closed connections out and recovers the leaked ones.
Sweep(k, d) ==
    /\ pc[k] = "none" /\ ~Locked
    /\ used' = used \ (closed \cup leaked)
    /\ idle' = (idle \cup (used \cap leaked)) \ closed
    /\ leaked' = Unflagged
    /\ pc' = [pc EXCEPT ![k] = "borrowing"]
    /\ want' = [want EXCEPT ![k] = d]
    /\ UNCHANGED <<home, broken, closed, dirty, cnx>>

\* The connections the second loop has yet to try (mutant: whatever their database).
AnyDatabase(d) == idle \ closed

Candidate(d) == {c \in idle \ closed : home[c] = d}

\* The lock is released: the cursor has a connection, or the exception leaves.
Got(k, c) ==
    /\ pc' = [pc EXCEPT ![k] = "open"]
    /\ cnx' = [cnx EXCEPT ![k] = c]
    /\ want' = [want EXCEPT ![k] = None]

Raises(k) ==
    /\ pc' = [pc EXCEPT ![k] = "none"]
    /\ want' = [want EXCEPT ![k] = None]
    /\ UNCHANGED cnx

\* cnx.reset() succeeds, which also ends whatever transaction it was in.
Reuse(k, c) ==
    /\ pc[k] = "borrowing"
    /\ c \in Candidate(want[k]) \ broken
    /\ idle' = idle \ {c}
    /\ used' = used \cup {c}
    /\ dirty' = dirty \ {c}
    /\ Got(k, c)
    /\ UNCHANGED <<home, broken, closed, leaked>>

\* cnx.reset() fails: the connection is closed and left in the list for now.
ResetFails(k, c) ==
    /\ pc[k] = "borrowing"
    /\ c \in Candidate(want[k]) \cap broken
    /\ closed' = closed \cup {c}
    /\ broken' = broken \ {c}
    /\ UNCHANGED <<idle, used, home, leaked, dirty, pc, cnx, want>>

\* No connection will do.  In a full pool the unused ones make room, one at a
\* time; the set evicted is what is popped before connecting (mutant: > for >=).
EvictsTooLate == IF Cardinality(Pool) > MaxConn THEN {{c} : c \in idle} ELSE {{}}

Evictions == IF Cardinality(Pool) >= MaxConn THEN {{c} : c \in idle} ELSE {{}}

\* psycopg2.connect gives a new connection c.
Connect(k, c) ==
    /\ pc[k] = "borrowing"
    /\ Candidate(want[k]) = {}
    /\ c \notin Pool \cup Held
    /\ \E out \in Evictions : idle' = idle \ out
    /\ used' = used \cup {c}
    /\ home' = [home EXCEPT ![c] = want[k]]
    /\ broken' = broken \ {c} /\ closed' = closed \ {c}
    /\ leaked' = leaked \ {c} /\ dirty' = dirty \ {c}
    /\ Got(k, c)

\* psycopg2.connect fails, after the eviction.
ConnectFails(k) ==
    /\ pc[k] = "borrowing"
    /\ Candidate(want[k]) = {}
    /\ \E out \in Evictions : idle' = idle \ out
    /\ Raises(k)
    /\ UNCHANGED <<used, flags>>

\* PoolError: The Connection Pool Is Full.
PoolFull(k) ==
    /\ pc[k] = "borrowing"
    /\ Candidate(want[k]) = {}
    /\ Evictions = {}
    /\ Raises(k)
    /\ UNCHANGED <<idle, used, flags>>

-----------------------------------------------------------------------------
(* The life of a cursor *)

\* A statement on a sound connection opens a transaction; commit and rollback end it.
Execute(k) ==
    /\ pc[k] = "open" /\ cnx[k] \notin broken \cup closed
    /\ dirty' = dirty \cup {cnx[k]}
    /\ UNCHANGED <<idle, used, home, broken, closed, leaked, pc, cnx, want>>

EndTransaction(k) ==
    /\ pc[k] = "open" /\ cnx[k] \notin broken \cup closed
    /\ dirty' = dirty \ {cnx[k]}
    /\ UNCHANGED <<idle, used, home, broken, closed, leaked, pc, cnx, want>>

\* Any use of a lost connection raises, and psycopg2 marks it closed.
NoticeLoss(k) ==
    /\ pc[k] = "open" /\ cnx[k] \in broken
    /\ broken' = broken \ {cnx[k]}
    /\ closed' = closed \cup {cnx[k]}
    /\ UNCHANGED <<idle, used, home, leaked, dirty, pc, cnx, want>>

\* The rollback of _close: it succeeds, or raises and leaves the connection closed.
RollsBack(c) ==
    IF c \in broken \cup closed
    THEN closed' = closed \cup {c} /\ broken' = broken \ {c} /\ UNCHANGED dirty
    ELSE dirty' = dirty \ {c} /\ UNCHANGED <<closed, broken>>

\* cr.close() up to the rollback, whose exception keeps it from give_back.
CloseCursor(k) ==
    LET sound == cnx[k] \notin broken \cup closed IN
    /\ pc[k] = "open"
    /\ RollsBack(cnx[k])
    /\ pc' = [pc EXCEPT ![k] = IF sound THEN "closing" ELSE "none"]
    /\ cnx' = [cnx EXCEPT ![k] = IF sound THEN @ ELSE None]
    /\ UNCHANGED <<idle, used, home, leaked, want>>

\* give_back, when the lock is free; a connection that close_all took out of the
\* pool meanwhile is refused with a PoolError.
GiveBack(k) ==
    LET c == cnx[k]
        drop == home[c] \in Template IN
    /\ pc[k] = "closing" /\ ~Locked
    /\ used' = used \ {c}
    /\ idle' = IF c \in Pool /\ ~drop THEN idle \cup {c} ELSE idle \ {c}
    /\ closed' = IF c \in Pool /\ drop THEN closed \cup {c} ELSE closed
    /\ pc' = [pc EXCEPT ![k] = "none"]
    /\ cnx' = [cnx EXCEPT ![k] = None]
    /\ UNCHANGED <<home, broken, leaked, dirty, want>>

\* cnx.leaked = True (mutant: the connection is just forgotten).
Forgotten(c) == leaked

Flagged(c) == leaked \cup {c}

\* __del__ of a cursor nobody closed: unless its connection is closed it is rolled
\* back and flagged, without the lock, which the collecting thread may hold.
Collect(k) ==
    LET c == cnx[k] IN
    /\ pc[k] = "open"
    /\ IF c \in closed THEN UNCHANGED <<closed, broken, dirty>> ELSE RollsBack(c)
    /\ leaked' = IF c \in closed \cup broken THEN leaked ELSE Flagged(c)
    /\ pc' = [pc EXCEPT ![k] = "none"]
    /\ cnx' = [cnx EXCEPT ![k] = None]
    /\ UNCHANGED <<idle, used, home, want>>

-----------------------------------------------------------------------------
\* close_db(d): connections in use included.
CloseAll(d) ==
    LET gone == {c \in Pool : home[c] = d} IN
    /\ ~Locked
    /\ idle' = idle \ gone
    /\ used' = used \ gone
    /\ closed' = closed \cup gone
    /\ broken' = broken \ gone
    /\ UNCHANGED <<home, leaked, dirty, pc, cnx, want>>

\* The server goes away, or drops the connection.
Lose(c) ==
    /\ c \in (Pool \cup Held) \ closed
    /\ broken' = broken \cup {c}
    /\ UNCHANGED <<idle, used, home, closed, leaked, dirty, pc, cnx, want>>

BorrowStep(k) ==
    \/ \E c \in Conn : Reuse(k, c) \/ ResetFails(k, c) \/ Connect(k, c)
    \/ ConnectFails(k)
    \/ PoolFull(k)

CursorStep(k) ==
    \/ Execute(k)
    \/ EndTransaction(k)
    \/ NoticeLoss(k)
    \/ CloseCursor(k)
    \/ GiveBack(k)
    \/ Collect(k)

Next ==
    \/ \E k \in Cursor : BorrowStep(k) \/ CursorStep(k) \/ \E d \in Db : Sweep(k, d)
    \/ \E d \in Db : CloseAll(d)
    \/ \E c \in Conn : Lose(c)

Spec == Init /\ [][Next]_vars

-----------------------------------------------------------------------------
\* Type invariant: the parts of the pool, and of a cursor at each point of its life.
TypeOK ==
    /\ idle \subseteq Conn /\ used \subseteq Conn /\ idle \cap used = {}
    /\ home \in [Conn -> Db \cup {None}]
    /\ broken \subseteq Conn /\ closed \subseteq Conn
    /\ leaked \subseteq Conn /\ dirty \subseteq Conn
    /\ pc \in [Cursor -> {"none", "borrowing", "open", "closing"}]
    /\ cnx \in [Cursor -> Conn \cup {None}]
    /\ want \in [Cursor -> Db \cup {None}]
    /\ \A k \in Cursor : pc[k] \in {"open", "closing"} => cnx[k] \in Conn
    /\ \A k \in Cursor : pc[k] = "borrowing" => want[k] \in Db
    /\ \A k, m \in Cursor : pc[k] = "borrowing" /\ pc[m] = "borrowing" => k = m

\* The pool never holds more than maxconn connections, whatever fails in borrow.
WithinLimit == Cardinality(Pool) <= MaxConn

\* Two cursors never work on one connection (their transactions would mix), and
\* none works on a connection the pool takes for unused, through leaks, losses,
\* collections between the loops of borrow, and close_all.
NoSharedConnection ==
    /\ \A k, m \in Cursor :
          k # m /\ {pc[k], pc[m]} \subseteq {"open", "closing"} => cnx[k] # cnx[m]
    /\ Held \cap idle = {}

\* No connection is lost to the pool: one that is marked used although no cursor
\* has it is flagged or closed, so the first loop of the next borrow recovers it.
NoOrphan == used \ Held \subseteq leaked \cup closed

-----------------------------------------------------------------------------
Asked == [k \in {m \in Cursor : pc[m] = "borrowing"} |-> want[k]]

Session == [k \in {m \in Cursor : pc[m] = "open"} |->
                [db |-> home[cnx[k]], begun |-> cnx[k] \in dirty]]

Cursors == INSTANCE Sessions WITH asked <- Asked, session <- Session

\* A cursor is a session of its own with the database it was opened for, whichever
\* connection serves it: none begins inside a transaction that another left open, no
\* cursor's statements reach another's transaction, through reuse, recovery of leaked
\* connections, losses, evictions and close_all ("Represents an open transaction to
\* the PostgreSQL DB backend", sql_db.py:82).
IsSessions == Cursors!Spec

=============================================================================
