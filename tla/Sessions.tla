------------------------------ MODULE Sessions ------------------------------
(***************************************************************************)
(* What a cursor is to those who open one: "an open transaction to the     *)
(* PostgreSQL DB backend" (openerp/sql_db.py).  It is connected to the     *)
(* database that was asked for, starts outside any transaction whatever    *)
(* others did before it, and only what is done with this cursor begins or  *)
(* ends its transaction.  Connections, their reuse, losses and leaks and   *)
(* the pool are not visible here.                                          *)
(***************************************************************************)
CONSTANTS Db, Cursor

VARIABLES
    asked,      \* the database that each waiting cursor has asked for
    session     \* for each open cursor: its database, is a transaction begun

Open(k) == k \in DOMAIN session

Without(f, k) == [m \in DOMAIN f \ {k} |-> f[m]]

With(f, k, x) == [m \in DOMAIN f \cup {k} |-> IF m = k THEN x ELSE f[m]]

Init ==
    /\ DOMAIN asked = {}
    /\ DOMAIN session = {}

Ask(k, d) ==
    /\ k \notin DOMAIN asked /\ ~Open(k)
    /\ asked' = With(asked, k, d)
    /\ UNCHANGED session

\* The request fails, for want of a connection.
Refuse(k) ==
    /\ k \in DOMAIN asked
    /\ asked' = Without(asked, k)
    /\ UNCHANGED session

Grant(k) ==
    /\ k \in DOMAIN asked
    /\ asked' = Without(asked, k)
    /\ session' = With(session, k, [db |-> asked[k], begun |-> FALSE])

\* Statements, commit and rollback.
Work(k) ==
    /\ Open(k)
    /\ \E b \in BOOLEAN : session' = With(session, k, [db |-> session[k].db, begun |-> b])
    /\ UNCHANGED asked

\* Closed, or collected as garbage.
Leave(k) ==
    /\ Open(k)
    /\ session' = Without(session, k)
    /\ UNCHANGED asked

Next == \E k \in Cursor :
    \/ \E d \in Db : Ask(k, d)
    \/ Refuse(k) \/ Grant(k) \/ Work(k) \/ Leave(k)

Spec == Init /\ [][Next]_<<asked, session>>
=============================================================================
