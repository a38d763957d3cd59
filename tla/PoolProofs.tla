----------------------------- MODULE PoolProofs -----------------------------
(***************************************************************************)
(* Proofs about ConnectionPool, for any set of connections and cursors and *)
(* any limit: types, the limit, exclusive connections, no lost connection, *)
(* and that every cursor is a session of its own.                          *)
(***************************************************************************)
EXTENDS ConnectionPool, FiniteSetTheorems, TLAPS

Active(k) == pc[k] \in {"open", "closing"}

\* An unused connection is in no transaction, so it holds no lock and no snapshot.
IdleClean == idle \cap dirty = {}

\* A flagged connection was rolled back, and no cursor can reach it.
LeakedLoose == leaked \cap (Held \cup idle \cup dirty) = {}

\* Between the rollback and give_back no transaction is open.
ClosingClean == \A k \in Cursor : pc[k] = "closing" => cnx[k] \notin dirty

Bounded == IsFiniteSet(Pool) /\ WithinLimit

IInv ==
    /\ TypeOK
    /\ Bounded
    /\ NoSharedConnection
    /\ NoOrphan
    /\ IdleClean
    /\ LeakedLoose
    /\ ClosingClean

-----------------------------------------------------------------------------
(* What the steps of a cursor's life do to the set of connections in hands *)

LEMMA HeldMember == ASSUME NEW c PROVE c \in Held <=> \E k \in Cursor : Active(k) /\ cnx[k] = c
  BY DEF Held, Active

LEMMA HeldGrows ==
  ASSUME TypeOK, NEW k \in Cursor, NEW c \in Conn, pc[k] = "borrowing", Got(k, c)
  PROVE  Held' = Held \cup {c}
  <1>1. \A m \in Cursor : m # k => pc'[m] = pc[m] /\ cnx'[m] = cnx[m] BY DEF Got, TypeOK
  <1>2. pc'[k] = "open" /\ cnx'[k] = c BY DEF Got, TypeOK
  <1> QED BY <1>1, <1>2 DEF Held

LEMMA HeldShrinks ==
  ASSUME TypeOK, NoSharedConnection, NEW k \in Cursor, Active(k),
         pc' = [pc EXCEPT ![k] = "none"], cnx' = [cnx EXCEPT ![k] = None]
  PROVE  Held' = Held \ {cnx[k]}
  <1>1. \A m \in Cursor : m # k => pc'[m] = pc[m] /\ cnx'[m] = cnx[m] BY DEF TypeOK
  <1>2. ~Active(k)' BY DEF Active, TypeOK
  <1>3. \A m \in Cursor : m # k /\ Active(m) => cnx[m] # cnx[k]
    BY DEF NoSharedConnection, Active
  <1> QED BY <1>1, <1>2, <1>3 DEF Held, Active

\* The life of k goes on without a change of the connection, or begins or ends without one.
LEMMA HeldStays ==
  ASSUME TypeOK, NEW k \in Cursor, NEW p, pc' = [pc EXCEPT ![k] = p], UNCHANGED cnx,
         Active(k) <=> p \in {"open", "closing"}
  PROVE  Held' = Held
  <1>1. \A m \in Cursor : Active(m)' <=> Active(m) BY DEF Active, TypeOK
  <1> QED BY <1>1 DEF Held, Active

LEMMA Sharing ==
  ASSUME TypeOK, NoSharedConnection, Held' \cap idle' = {},
         \A k \in Cursor : Active(k)' => Active(k) /\ cnx'[k] = cnx[k]
  PROVE  NoSharedConnection'
  BY DEF NoSharedConnection, Active

LEMMA SharingGot ==
  ASSUME TypeOK, NoSharedConnection, Held' \cap idle' = {},
         NEW k \in Cursor, NEW c \in Conn \ Held, pc[k] = "borrowing", Got(k, c)
  PROVE  NoSharedConnection'
  <1>1. \A m \in Cursor : m # k => pc'[m] = pc[m] /\ cnx'[m] = cnx[m] BY DEF Got, TypeOK
  <1>2. pc'[k] = "open" /\ cnx'[k] = c BY DEF Got, TypeOK
  <1>3. \A m \in Cursor : Active(m) => cnx[m] # c BY HeldMember
  <1> QED BY <1>1, <1>2, <1>3 DEF NoSharedConnection, Active

\* Taking connections out of the pool, or moving them in it, keeps its bound.
LEMMA BoundKept == ASSUME Bounded, Pool' \subseteq Pool, MaxConn \in Nat PROVE Bounded'
  <1>1. IsFiniteSet(Pool') /\ Cardinality(Pool') <= Cardinality(Pool)
    BY FS_Subset DEF Bounded
  <1>2. Cardinality(Pool) \in Nat /\ Cardinality(Pool') \in Nat
    BY <1>1, FS_CardinalityType DEF Bounded
  <1> QED BY <1>1, <1>2 DEF Bounded, WithinLimit

-----------------------------------------------------------------------------
LEMMA InitIInv == PoolAssumption /\ Init => IInv
  <1> SUFFICES ASSUME PoolAssumption, Init PROVE IInv
    OBVIOUS
  <1>1. Pool = {} /\ Held = {} BY DEF Init, Pool, Held
  <1>2. Bounded BY <1>1, FS_EmptySet DEF Bounded, WithinLimit, PoolAssumption
  <1>3. TypeOK BY DEF Init, TypeOK
  <1> QED BY <1>1, <1>2, <1>3
       DEF Init, IInv, NoSharedConnection, NoOrphan, IdleClean, LeakedLoose, ClosingClean

-----------------------------------------------------------------------------
LEMMA SweepStep ==
  ASSUME PoolAssumption, IInv, NEW k \in Cursor, NEW d \in Db, Sweep(k, d) PROVE IInv'
  <1>1. Held' = Held
    <2>1. ~Active(k) BY DEF Active, Sweep
    <2> QED BY <2>1, HeldStays DEF IInv, Sweep
  <1>2. TypeOK' BY DEF IInv, TypeOK, Sweep, Locked, Unflagged
  <1>3. Bounded' BY BoundKept DEF IInv, Sweep, Pool, PoolAssumption
  <1>4. Held' \cap idle' = {} BY <1>1 DEF IInv, NoSharedConnection, LeakedLoose, Sweep
  <1>5. NoSharedConnection'
    <2>1. \A m \in Cursor : Active(m)' => Active(m) /\ cnx'[m] = cnx[m]
      BY DEF Active, Sweep, IInv, TypeOK
    <2> QED BY <1>4, <2>1, Sharing DEF IInv
  <1>6. NoOrphan' BY <1>1 DEF IInv, NoOrphan, Sweep
  <1>7. IdleClean' BY DEF IInv, IdleClean, LeakedLoose, Sweep
  <1>8. LeakedLoose' BY <1>1 DEF IInv, LeakedLoose, Sweep, Unflagged, Pool
  <1>9. ClosingClean' BY DEF IInv, ClosingClean, Sweep, TypeOK
  <1> QED BY <1>2, <1>3, <1>5, <1>6, <1>7, <1>8, <1>9 DEF IInv

LEMMA ReuseStep ==
  ASSUME PoolAssumption, IInv, NEW k \in Cursor, NEW c \in Conn, Reuse(k, c) PROVE IInv'
  <1>1. c \in idle /\ c \notin Held BY DEF Reuse, Candidate, IInv, NoSharedConnection
  <1>2. Held' = Held \cup {c} BY HeldGrows DEF IInv, Reuse
  <1>3. TypeOK' BY <1>1 DEF IInv, TypeOK, Reuse, Got
  <1>4. Bounded' BY <1>1, BoundKept DEF IInv, Reuse, Pool, PoolAssumption
  <1>5. Held' \cap idle' = {} BY <1>2 DEF IInv, NoSharedConnection, Reuse
  <1>6. NoSharedConnection' BY <1>1, <1>5, SharingGot DEF IInv, Reuse
  <1>7. NoOrphan' BY <1>2 DEF IInv, NoOrphan, Reuse
  <1>8. IdleClean' BY DEF IInv, IdleClean, Reuse
  <1>9. LeakedLoose' BY <1>1, <1>2 DEF IInv, LeakedLoose, Reuse
  <1>10. ClosingClean' BY DEF IInv, ClosingClean, Reuse, Got, TypeOK
  <1> QED BY <1>3, <1>4, <1>6, <1>7, <1>8, <1>9, <1>10 DEF IInv

\* Steps of borrow that give no connection: idle may lose some, nothing else moves.
LEMMA NothingGot ==
  ASSUME PoolAssumption, IInv, Held' = Held, TypeOK', idle' \subseteq idle, used' = used,
         UNCHANGED <<leaked, dirty>>, closed \subseteq closed',
         \A m \in Cursor : Active(m)' => Active(m) /\ cnx'[m] = cnx[m],
         \A m \in Cursor : pc'[m] = "closing" => pc[m] = "closing"
  PROVE  IInv'
  <1>1. Bounded' BY BoundKept DEF IInv, Pool, PoolAssumption
  <1>2. Held' \cap idle' = {} BY DEF IInv, NoSharedConnection
  <1>3. NoSharedConnection' BY <1>2, Sharing DEF IInv
  <1>4. NoOrphan' /\ IdleClean' /\ LeakedLoose' BY DEF IInv, NoOrphan, IdleClean, LeakedLoose
  <1>5. ClosingClean' BY DEF IInv, ClosingClean, Active
  <1> QED BY <1>1, <1>3, <1>4, <1>5 DEF IInv

LEMMA ResetFailsStep ==
  ASSUME PoolAssumption, IInv, NEW k \in Cursor, NEW c \in Conn, ResetFails(k, c) PROVE IInv'
  <1>1. Held' = Held BY DEF Held, ResetFails
  <1>2. TypeOK' BY DEF IInv, TypeOK, ResetFails
  <1>3. \A m \in Cursor : Active(m)' => Active(m) /\ cnx'[m] = cnx[m]
    BY DEF Active, ResetFails
  <1>4. closed \subseteq closed' /\ UNCHANGED <<idle, used, leaked, dirty, pc>>
    BY DEF ResetFails
  <1> QED BY <1>1, <1>2, <1>3, <1>4, NothingGot

LEMMA RaisesStep ==
  ASSUME PoolAssumption, IInv, NEW k \in Cursor, ConnectFails(k) \/ PoolFull(k) PROVE IInv'
  <1>1. pc[k] = "borrowing" /\ Raises(k) /\ UNCHANGED <<used, flags>>
    BY DEF ConnectFails, PoolFull
  <1>2. Held' = Held
    <2>1. ~Active(k) BY <1>1 DEF Active
    <2> QED BY <1>1, <2>1, HeldStays DEF IInv, Raises
  <1>3. idle' \subseteq idle BY DEF ConnectFails, PoolFull
  <1>4. TypeOK' BY <1>1, <1>3 DEF IInv, TypeOK, Raises, flags
  <1>5. \A m \in Cursor : Active(m)' => Active(m) /\ cnx'[m] = cnx[m]
    BY <1>1 DEF Active, Raises, IInv, TypeOK
  <1>6. \A m \in Cursor : pc'[m] = "closing" => pc[m] = "closing"
    BY <1>1 DEF Raises, IInv, TypeOK
  <1> QED BY <1>1, <1>2, <1>3, <1>4, <1>5, <1>6, NothingGot DEF flags

\* An unused connection made room if the pool was full.
LEMMA ConnectStep ==
  ASSUME PoolAssumption, IInv, NEW k \in Cursor, NEW c \in Conn, Connect(k, c) PROVE IInv'
  <1> PICK out \in Evictions : idle' = idle \ out BY DEF Connect
  <1>1. c \notin idle \cup used \cup Held /\ used' = used \cup {c} /\ idle' \subseteq idle
    BY DEF Connect, Pool
  <1>2. Held' = Held \cup {c} BY HeldGrows DEF IInv, Connect
  <1>3. TypeOK' BY <1>1 DEF IInv, TypeOK, Connect, Got
  <1>4. Bounded'
    <2>1. IsFiniteSet(Pool) /\ Cardinality(Pool) \in Nat /\ MaxConn \in Nat \ {0}
      BY FS_CardinalityType DEF IInv, Bounded, PoolAssumption
    <2>2. CASE Cardinality(Pool) < MaxConn
      <3>1. IsFiniteSet(Pool \cup {c}) /\ Cardinality(Pool \cup {c}) <= MaxConn
        <4>1. Cardinality(Pool \cup {c}) = Cardinality(Pool) + 1
          BY <2>1, <1>1, FS_AddElement DEF Pool
        <4> QED BY <2>1, <2>2, <4>1, FS_AddElement
      <3>2. Pool' \subseteq Pool \cup {c} BY <1>1 DEF Pool
      <3>3. IsFiniteSet(Pool') /\ Cardinality(Pool') <= Cardinality(Pool \cup {c})
        BY <3>1, <3>2, FS_Subset
      <3> QED BY <3>1, <3>3, <2>1, FS_CardinalityType DEF Bounded, WithinLimit
    <2>3. CASE Cardinality(Pool) >= MaxConn
      <3> PICK e \in idle : out = {e} BY <2>3 DEF Evictions
      <3>1. e \in Pool BY DEF Pool
      <3>2. Pool' = (Pool \ {e}) \cup {c} BY <1>1 DEF Pool, IInv, TypeOK
      <3>3. IsFiniteSet(Pool \ {e}) /\ Cardinality(Pool \ {e}) = Cardinality(Pool) - 1
        BY <2>1, <3>1, FS_RemoveElement
      <3>4. IsFiniteSet(Pool') /\ Cardinality(Pool') = Cardinality(Pool)
        <4>1. c \notin Pool \ {e} BY <1>1 DEF Pool
        <4>2. Cardinality((Pool \ {e}) \cup {c}) = Cardinality(Pool \ {e}) + 1
          BY <3>3, <4>1, FS_AddElement
        <4>3. IsFiniteSet((Pool \ {e}) \cup {c}) BY <3>3, FS_AddElement
        <4> QED BY <2>1, <3>2, <3>3, <4>2, <4>3
      <3> QED BY <3>4 DEF IInv, Bounded, WithinLimit
    <2> QED BY <2>1, <2>2, <2>3
  <1>5. Held' \cap idle' = {} BY <1>1, <1>2 DEF IInv, NoSharedConnection
  <1>6. NoSharedConnection' BY <1>1, <1>5, SharingGot DEF IInv, Connect
  <1>7. NoOrphan' BY <1>1, <1>2 DEF IInv, NoOrphan, Connect
  <1>8. IdleClean' BY <1>1 DEF IInv, IdleClean, Connect
  <1>9. LeakedLoose' BY <1>1, <1>2 DEF IInv, LeakedLoose, Connect
  <1>10. ClosingClean' BY DEF IInv, ClosingClean, Connect, Got, TypeOK
  <1> QED BY <1>3, <1>4, <1>6, <1>7, <1>8, <1>9, <1>10 DEF IInv

\* Execute, EndTransaction: only an open cursor's own connection changes.
LEMMA UseStep ==
  ASSUME PoolAssumption, IInv, NEW k \in Cursor,
         Execute(k) \/ EndTransaction(k) \/ NoticeLoss(k)
  PROVE  IInv'
  <1>1. UNCHANGED <<idle, used, home, leaked, pc, cnx, want>> /\ pc[k] = "open"
    BY DEF Execute, EndTransaction, NoticeLoss
  <1>2. cnx[k] \in Held /\ cnx[k] \in Conn BY <1>1 DEF Held, IInv, TypeOK
  <1>3. Held' = Held /\ Pool' = Pool BY <1>1 DEF Held, Pool
  <1>4. TypeOK' BY <1>1, <1>2 DEF IInv, TypeOK, Execute, EndTransaction, NoticeLoss
  <1>5. Bounded' BY <1>3 DEF IInv, Bounded, WithinLimit
  <1>6. NoSharedConnection' BY <1>1, <1>3 DEF IInv, NoSharedConnection
  <1>7. dirty' \subseteq dirty \cup {cnx[k]} /\ closed \subseteq closed'
    BY DEF Execute, EndTransaction, NoticeLoss
  <1>8. NoOrphan' BY <1>1, <1>3, <1>7 DEF IInv, NoOrphan
  <1>9. IdleClean' BY <1>1, <1>2, <1>7 DEF IInv, IdleClean, NoSharedConnection
  <1>10. LeakedLoose' BY <1>1, <1>2, <1>3, <1>7 DEF IInv, LeakedLoose
  <1>11. ClosingClean'
    <2> SUFFICES ASSUME NEW m \in Cursor, pc[m] = "closing" PROVE cnx[m] \notin dirty'
      BY <1>1 DEF ClosingClean
    <2>1. cnx[m] # cnx[k] BY <1>1 DEF IInv, NoSharedConnection
    <2> QED BY <2>1, <1>7 DEF IInv, ClosingClean
  <1> QED BY <1>4, <1>5, <1>6, <1>8, <1>9, <1>10, <1>11 DEF IInv

-----------------------------------------------------------------------------
\* A cursor lets go of c: what is left to show is that c is not lost, and that the
\* pool has taken it for unused only if it is clean and not flagged.
LEMMA LetGo ==
  ASSUME PoolAssumption, IInv, NEW k \in Cursor, Active(k), NEW c \in Conn, c = cnx[k],
         pc' = [pc EXCEPT ![k] = "none"], cnx' = [cnx EXCEPT ![k] = None],
         UNCHANGED <<home, want>>,
         used' \subseteq used, idle' \subseteq idle \cup {c}, Pool' \subseteq Pool,
         c \in used' => c \in leaked' \cup closed',
         closed \subseteq closed', closed' \subseteq Conn, broken' \subseteq Conn,
         leaked \subseteq leaked', leaked' \subseteq leaked \cup {c}, dirty' \subseteq dirty,
         c \in idle' => c \notin used' \cup dirty' \cup leaked',
         c \in leaked' => c \notin dirty'
  PROVE  IInv'
  <1>1. Held' = Held \ {c} BY HeldShrinks DEF IInv
  <1>2. c \in Held BY HeldMember
  <1>3. c \notin idle /\ c \notin leaked BY <1>2 DEF IInv, NoSharedConnection, LeakedLoose
  <1>4. TypeOK' BY DEF IInv, TypeOK, IdleClean
  <1>5. Bounded' BY BoundKept DEF IInv, PoolAssumption
  <1>6. Held' \cap idle' = {} BY <1>1 DEF IInv, NoSharedConnection
  <1>7. \A m \in Cursor : Active(m)' => Active(m) /\ cnx'[m] = cnx[m] /\ pc'[m] = pc[m]
    BY DEF Active, IInv, TypeOK
  <1>8. NoSharedConnection' BY <1>6, <1>7, Sharing DEF IInv
  <1>9. NoOrphan' BY <1>1 DEF IInv, NoOrphan
  <1>10. IdleClean' BY DEF IInv, IdleClean
  <1>11. LeakedLoose' BY <1>1, <1>3 DEF IInv, LeakedLoose
  <1>12. ClosingClean' BY <1>7 DEF IInv, ClosingClean, Active
  <1> QED BY <1>4, <1>5, <1>8, <1>9, <1>10, <1>11, <1>12 DEF IInv

LEMMA CloseCursorStep ==
  ASSUME PoolAssumption, IInv, NEW k \in Cursor, CloseCursor(k) PROVE IInv'
  <1> DEFINE c == cnx[k]
  <1>1. Active(k) /\ c \in Conn /\ c \in Held BY HeldMember DEF Active, CloseCursor, IInv, TypeOK
  <1>2. UNCHANGED <<idle, used, home, leaked, want>> /\ RollsBack(c) BY DEF CloseCursor
  <1>3. CASE c \in broken \cup closed
    <2>1. pc' = [pc EXCEPT ![k] = "none"] /\ cnx' = [cnx EXCEPT ![k] = None]
      BY <1>3 DEF CloseCursor
    <2>2. closed' = closed \cup {c} /\ broken' = broken \ {c} /\ dirty' = dirty
      BY <1>2, <1>3 DEF RollsBack
    <2>3. c \notin idle /\ c \notin leaked BY <1>1 DEF IInv, NoSharedConnection, LeakedLoose
    <2>4. closed \subseteq Conn /\ broken \subseteq Conn BY DEF IInv, TypeOK
    <2>5. Pool' = Pool BY <1>2 DEF Pool
    <2> QED BY <1>1, <1>2, <2>1, <2>2, <2>3, <2>4, <2>5, LetGo
  <1>4. CASE c \notin broken \cup closed
    <2>1. pc' = [pc EXCEPT ![k] = "closing"] /\ UNCHANGED cnx
      BY <1>4 DEF CloseCursor, IInv, TypeOK
    <2>2. dirty' = dirty \ {c} /\ UNCHANGED <<closed, broken>> BY <1>2, <1>4 DEF RollsBack
    <2>3. Held' = Held /\ Pool' = Pool BY <2>1, <1>1, <1>2, HeldStays DEF IInv, Pool
    <2>4. TypeOK' BY <1>1, <1>2, <2>1, <2>2 DEF IInv, TypeOK, Active
    <2>5. Bounded' BY <2>3 DEF IInv, Bounded, WithinLimit
    <2>6. \A m \in Cursor : Active(m)' => Active(m) /\ cnx'[m] = cnx[m]
      BY <1>1, <2>1 DEF Active, IInv, TypeOK
    <2>7. Held' \cap idle' = {} BY <1>2, <2>3 DEF IInv, NoSharedConnection
    <2>8. NoSharedConnection' BY <2>6, <2>7, Sharing DEF IInv
    <2>9. NoOrphan' /\ IdleClean' /\ LeakedLoose'
      BY <1>2, <2>2, <2>3 DEF IInv, NoOrphan, IdleClean, LeakedLoose
    <2>10. ClosingClean' BY <2>1, <2>2 DEF IInv, ClosingClean, TypeOK
    <2> QED BY <2>4, <2>5, <2>8, <2>9, <2>10 DEF IInv
  <1> QED BY <1>3, <1>4

LEMMA GiveBackStep ==
  ASSUME PoolAssumption, IInv, NEW k \in Cursor, GiveBack(k) PROVE IInv'
  <1> DEFINE c == cnx[k]
  <1>1. Active(k) /\ c \in Conn /\ c \in Held BY HeldMember DEF Active, GiveBack, IInv, TypeOK
  <1>2. c \notin idle /\ c \notin leaked /\ c \notin dirty
    BY <1>1 DEF IInv, NoSharedConnection, LeakedLoose, ClosingClean, GiveBack
  <1>3. used' = used \ {c} /\ idle' \subseteq idle \cup {c} /\ Pool' \subseteq Pool
    BY <1>1 DEF GiveBack, Pool
  <1>4. closed \subseteq closed' /\ closed' \subseteq Conn /\ UNCHANGED <<broken, leaked, dirty>>
    BY <1>1 DEF GiveBack, IInv, TypeOK
  <1>5. pc' = [pc EXCEPT ![k] = "none"] /\ cnx' = [cnx EXCEPT ![k] = None]
        /\ UNCHANGED <<home, want>>
    BY DEF GiveBack
  <1>6. broken \subseteq Conn BY DEF IInv, TypeOK
  <1> QED BY <1>1, <1>2, <1>3, <1>4, <1>5, <1>6, LetGo

LEMMA CollectStep ==
  ASSUME PoolAssumption, IInv, NEW k \in Cursor, Collect(k) PROVE IInv'
  <1> DEFINE c == cnx[k]
  <1>1. Active(k) /\ c \in Conn /\ c \in Held BY HeldMember DEF Active, Collect, IInv, TypeOK
  <1>2. c \notin idle /\ c \notin leaked BY <1>1 DEF IInv, NoSharedConnection, LeakedLoose
  <1>3. closed \subseteq Conn /\ broken \subseteq Conn BY DEF IInv, TypeOK
  <1>4. UNCHANGED <<idle, used, home, want>> /\ Pool' = Pool BY DEF Collect, Pool
  <1>5. /\ closed \subseteq closed' /\ closed' \subseteq Conn /\ broken' \subseteq Conn
        /\ dirty' \subseteq dirty
        /\ leaked' = IF c \in closed \cup broken THEN leaked ELSE leaked \cup {c}
        /\ c \in leaked' \cup closed' /\ (c \in leaked' => c \notin dirty')
    BY <1>1, <1>2, <1>3 DEF Collect, RollsBack, Flagged
  <1>6. pc' = [pc EXCEPT ![k] = "none"] /\ cnx' = [cnx EXCEPT ![k] = None]
    BY DEF Collect
  <1>7. leaked \subseteq leaked' /\ leaked' \subseteq leaked \cup {c} BY <1>5
  <1> QED BY <1>1, <1>2, <1>4, <1>5, <1>6, <1>7, LetGo

-----------------------------------------------------------------------------
LEMMA CloseAllStep ==
  ASSUME PoolAssumption, IInv, NEW d \in Db, CloseAll(d) PROVE IInv'
  <1>1. Held' = Held BY DEF Held, CloseAll
  <1>2. UNCHANGED <<home, leaked, dirty, pc, cnx, want>> BY DEF CloseAll
  <1>3. idle' \subseteq idle /\ used' \subseteq used /\ closed \subseteq closed'
    BY DEF CloseAll
  <1>4. TypeOK' BY <1>2 DEF IInv, TypeOK, CloseAll, Pool
  <1>5. Bounded' BY <1>3, BoundKept DEF IInv, Pool, PoolAssumption
  <1>6. NoSharedConnection' BY <1>1, <1>2, <1>3 DEF IInv, NoSharedConnection
  <1>7. NoOrphan' /\ IdleClean' /\ LeakedLoose'
    BY <1>1, <1>2, <1>3 DEF IInv, NoOrphan, IdleClean, LeakedLoose
  <1>8. ClosingClean' BY <1>2 DEF IInv, ClosingClean
  <1> QED BY <1>4, <1>5, <1>6, <1>7, <1>8 DEF IInv

\* What Lose and a stuttering step have in common.
LEMMA OnlyBroken ==
  ASSUME IInv, UNCHANGED <<idle, used, home, closed, leaked, dirty, pc, cnx, want>>,
         broken' \subseteq Conn
  PROVE  IInv'
  <1>1. Held' = Held /\ Pool' = Pool BY DEF Held, Pool
  <1>2. TypeOK' BY DEF IInv, TypeOK
  <1>3. Bounded' BY <1>1 DEF IInv, Bounded, WithinLimit
  <1>4. NoSharedConnection' BY <1>1 DEF IInv, NoSharedConnection
  <1>5. NoOrphan' /\ IdleClean' /\ LeakedLoose'
    BY <1>1 DEF IInv, NoOrphan, IdleClean, LeakedLoose
  <1>6. ClosingClean' BY DEF IInv, ClosingClean
  <1> QED BY <1>2, <1>3, <1>4, <1>5, <1>6 DEF IInv

LEMMA NextIInv == PoolAssumption /\ IInv /\ [Next]_vars => IInv'
  <1> SUFFICES ASSUME PoolAssumption, IInv, [Next]_vars PROVE IInv'
    OBVIOUS
  <1>1. ASSUME NEW k \in Cursor, BorrowStep(k) PROVE IInv'
    BY <1>1, ReuseStep, ResetFailsStep, ConnectStep, RaisesStep DEF BorrowStep
  <1>2. ASSUME NEW k \in Cursor, CursorStep(k) PROVE IInv'
    BY <1>2, UseStep, CloseCursorStep, GiveBackStep, CollectStep DEF CursorStep
  <1>3. ASSUME NEW c \in Conn, Lose(c) PROVE IInv'
    <2>1. broken' \subseteq Conn BY <1>3 DEF Lose, IInv, TypeOK
    <2> QED BY <1>3, <2>1, OnlyBroken DEF Lose
  <1>4. CASE UNCHANGED vars
    <2>1. broken' \subseteq Conn BY <1>4 DEF vars, IInv, TypeOK
    <2> QED BY <1>4, <2>1, OnlyBroken DEF vars
  <1> QED BY <1>1, <1>2, <1>3, <1>4, SweepStep, CloseAllStep DEF Next

\* The invariant of the pool, for any connections, cursors, databases and limit.
THEOREM Invariance == Spec => []IInv
  <1>1. Init => IInv BY InitIInv, PoolAssumption
  <1>2. IInv /\ [Next]_vars => IInv' BY NextIInv, PoolAssumption
  <1> QED BY <1>1, <1>2, PTL DEF Spec

\* The parts of the pool and the stages of cursors keep their types.
THEOREM TypeCorrect == Spec => []TypeOK
  <1>1. IInv => TypeOK BY DEF IInv
  <1> QED BY <1>1, Invariance, PTL

\* borrow never lets the pool grow past its limit.
THEOREM LimitHolds == Spec => []WithinLimit
  <1>1. IInv => WithinLimit BY DEF IInv, Bounded
  <1> QED BY <1>1, Invariance, PTL

\* A connection serves one cursor at a time.
THEOREM Exclusive == Spec => []NoSharedConnection
  <1>1. IInv => NoSharedConnection BY DEF IInv
  <1> QED BY <1>1, Invariance, PTL

\* Every connection nobody holds can be recovered.
THEOREM NothingLost == Spec => []NoOrphan
  <1>1. IInv => NoOrphan BY DEF IInv
  <1> QED BY <1>1, Invariance, PTL

-----------------------------------------------------------------------------
(* The abstract sessions.                                                    *)

\* What other cursors see of a step is nothing.
Unseen(k) ==
    \A m \in Cursor \ {k} :
        /\ pc'[m] = pc[m] /\ want'[m] = want[m]
        /\ pc[m] = "open" => home'[cnx'[m]] = home[cnx[m]] /\ (cnx'[m] \in dirty' <=> cnx[m] \in dirty)

\* Cursor k asks for a connection, or no longer does; the others go on as they did.
LEMMA AskedBy ==
  ASSUME NEW k \in Cursor, Unseen(k)
  PROVE  /\ pc'[k] = "borrowing" => Asked' = Cursors!With(Asked, k, want'[k])
         /\ pc'[k] # "borrowing" => Asked' = Cursors!Without(Asked, k)
         /\ pc'[k] # "borrowing" /\ pc[k] # "borrowing" => Asked' = Asked
  <1>1. \A m \in Cursor \ {k} : pc'[m] = pc[m] /\ want'[m] = want[m] BY DEF Unseen
  <1>2. CASE pc'[k] = "borrowing" BY <1>1, <1>2 DEF Asked, Cursors!With
  <1>3. CASE pc'[k] # "borrowing"
    <2>1. Asked' = Cursors!Without(Asked, k) BY <1>1, <1>3 DEF Asked, Cursors!Without
    <2>2. pc[k] # "borrowing" => Asked' = Asked BY <1>1, <1>3 DEF Asked
    <2> QED BY <1>3, <2>1, <2>2
  <1> QED BY <1>2, <1>3

\* Cursor k has a session, or none.
LEMMA SessionOf ==
  ASSUME NEW k \in Cursor, Unseen(k)
  PROVE  /\ pc'[k] = "open" =>
               Session' = Cursors!With(Session, k, [db |-> home'[cnx'[k]], begun |-> cnx'[k] \in dirty'])
         /\ pc'[k] # "open" => Session' = Cursors!Without(Session, k)
         /\ pc'[k] # "open" /\ pc[k] # "open" => Session' = Session
  <1> DEFINE x(m) == [db |-> home[cnx[m]], begun |-> cnx[m] \in dirty]
             y(m) == [db |-> home'[cnx'[m]], begun |-> cnx'[m] \in dirty']
             old == {m \in Cursor : pc[m] = "open"}
             new == {m \in Cursor : pc'[m] = "open"}
  <1>1. new \ {k} = old \ {k} BY DEF Unseen
  <1>2. \A m \in new \ {k} : y(m) = x(m) BY DEF Unseen
  <1>3. Session = [m \in old |-> x(m)] /\ Session' = [m \in new |-> y(m)] BY DEF Session
  <1> HIDE DEF x, y
  <1>4. CASE k \in new
    <2>1. Session' = Cursors!With(Session, k, y(k)) BY <1>1, <1>2, <1>3, <1>4 DEF Cursors!With
    <2> QED BY <1>4, <2>1 DEF y
  <1>5. CASE k \notin new
    <2>1. Session' = Cursors!Without(Session, k) BY <1>1, <1>2, <1>3, <1>5 DEF Cursors!Without
    <2>2. pc[k] # "open" => Session' = Session BY <1>1, <1>2, <1>3, <1>5
    <2> QED BY <1>5, <2>1, <2>2
  <1> QED BY <1>4, <1>5

LEMMA Domains ==
  ASSUME NEW k \in Cursor
  PROVE  /\ k \in DOMAIN Asked <=> pc[k] = "borrowing"
         /\ Cursors!Open(k) <=> pc[k] = "open"
         /\ pc[k] = "borrowing" => Asked[k] = want[k]
         /\ pc[k] = "open" => Session[k].db = home[cnx[k]]
  BY DEF Asked, Session, Cursors!Open

LEMMA SweepAsks ==
  ASSUME IInv, NEW k \in Cursor, NEW d \in Db, Sweep(k, d) PROVE Cursors!Ask(k, d)
  <1>1. pc[k] = "none" /\ pc'[k] = "borrowing" /\ want'[k] = d /\ Unseen(k)
    BY DEF Sweep, Unseen, IInv, TypeOK
  <1> QED BY <1>1, AskedBy, SessionOf, Domains DEF Cursors!Ask

\* The connection is the one that was asked for, in no transaction, and no other cursor has it.
LEMMA GotGrants ==
  ASSUME IInv, NEW k \in Cursor, NEW c \in Conn, Reuse(k, c) \/ Connect(k, c) PROVE Cursors!Grant(k)
  <1>1. /\ pc[k] = "borrowing" /\ pc'[k] = "open" /\ cnx'[k] = c
        /\ \A m \in Cursor \ {k} : pc'[m] = pc[m] /\ cnx'[m] = cnx[m] /\ want'[m] = want[m]
    BY DEF Reuse, Connect, Got, IInv, TypeOK
  <1>2. c \notin Held BY DEF Reuse, Connect, Candidate, IInv, NoSharedConnection
  <1>3. home'[c] = want[k] /\ c \notin dirty' BY DEF Reuse, Connect, Candidate, IInv, TypeOK
  <1>4. \A b \in Conn \ {c} : home'[b] = home[b] /\ (b \in dirty' <=> b \in dirty)
    BY DEF Reuse, Connect, IInv, TypeOK
  <1>5. \A m \in Cursor : pc[m] = "open" => cnx[m] \in Conn \ {c}
    BY <1>2, HeldMember DEF Active, IInv, TypeOK
  <1>6. Unseen(k) BY <1>1, <1>4, <1>5 DEF Unseen
  <1>7. Asked' = Cursors!Without(Asked, k) /\ Asked[k] = want[k] BY <1>1, <1>6, AskedBy, Domains
  <1>8. Session' = Cursors!With(Session, k, [db |-> want[k], begun |-> FALSE])
    <2>1. (cnx'[k] \in dirty') = FALSE BY <1>1, <1>3
    <2> QED BY <1>1, <1>3, <1>6, <2>1, SessionOf
  <1> QED BY <1>1, <1>7, <1>8, Domains DEF Cursors!Grant

LEMMA RaisesRefuses ==
  ASSUME IInv, NEW k \in Cursor, ConnectFails(k) \/ PoolFull(k) PROVE Cursors!Refuse(k)
  <1>1. pc[k] = "borrowing" /\ pc'[k] = "none" /\ Unseen(k)
    BY DEF ConnectFails, PoolFull, Raises, flags, Unseen, IInv, TypeOK
  <1> QED BY <1>1, AskedBy, SessionOf, Domains DEF Cursors!Refuse

\* No other open cursor has the connection of k.
LEMMA OwnConnection ==
  ASSUME IInv, NEW k \in Cursor, NEW m \in Cursor \ {k}, Active(k), Active(m) PROVE cnx[m] # cnx[k]
  BY DEF IInv, NoSharedConnection, Active

LEMMA UseWorks ==
  ASSUME IInv, NEW k \in Cursor, Execute(k) \/ EndTransaction(k) PROVE Cursors!Work(k)
  <1>1. /\ pc[k] = "open" /\ UNCHANGED <<pc, cnx, want, home>>
        /\ dirty' \cup {cnx[k]} = dirty \cup {cnx[k]}
    BY DEF Execute, EndTransaction
  <1>2. Unseen(k) BY <1>1, OwnConnection DEF Unseen, Active
  <1>3. Asked' = Asked BY <1>1, <1>2, AskedBy
  <1>4. Session' = Cursors!With(Session, k, [db |-> Session[k].db, begun |-> cnx'[k] \in dirty'])
    BY <1>1, <1>2, SessionOf, Domains
  <1>5. (cnx'[k] \in dirty') \in BOOLEAN OBVIOUS
  <1> QED BY <1>1, <1>3, <1>4, <1>5, Domains DEF Cursors!Work

LEMMA EndLeaves ==
  ASSUME IInv, NEW k \in Cursor, CloseCursor(k) \/ Collect(k) PROVE Cursors!Leave(k)
  <1>1. /\ pc[k] = "open" /\ pc'[k] \in {"none", "closing"} /\ UNCHANGED <<want, home>>
        /\ \A m \in Cursor \ {k} : pc'[m] = pc[m] /\ cnx'[m] = cnx[m]
    BY DEF CloseCursor, Collect, IInv, TypeOK
  <1>2. dirty' \cup {cnx[k]} = dirty \cup {cnx[k]} BY DEF CloseCursor, Collect, RollsBack
  <1>3. Unseen(k) BY <1>1, <1>2, OwnConnection DEF Unseen, Active
  <1> QED BY <1>1, <1>3, AskedBy, SessionOf, Domains DEF Cursors!Leave

\* Steps behind the scenes.
LEMMA HiddenStep ==
  ASSUME IInv, \/ UNCHANGED <<home, dirty, pc, cnx, want>>
               \/ \E k \in Cursor : GiveBack(k)
  PROVE  UNCHANGED <<Asked, Session>>
  <1>1. CASE UNCHANGED <<home, dirty, pc, cnx, want>> BY <1>1 DEF Asked, Session
  <1>2. ASSUME NEW k \in Cursor, GiveBack(k) PROVE UNCHANGED <<Asked, Session>>
    <2>1. pc[k] = "closing" /\ pc'[k] = "none" /\ Unseen(k) BY <1>2 DEF GiveBack, Unseen, IInv, TypeOK
    <2> QED BY <2>1, AskedBy, SessionOf
  <1> QED BY <1>1, <1>2

LEMMA StepRefines == IInv /\ [Next]_vars => [Cursors!Next]_<<Asked, Session>>
  <1> SUFFICES ASSUME IInv, [Next]_vars PROVE Cursors!Next \/ UNCHANGED <<Asked, Session>>
    OBVIOUS
  <1>1. ASSUME NEW k \in Cursor, BorrowStep(k) PROVE Cursors!Next \/ UNCHANGED <<Asked, Session>>
    <2>1. CASE \E c \in Conn : Reuse(k, c) \/ Connect(k, c) BY <2>1, GotGrants DEF Cursors!Next
    <2>2. CASE \E c \in Conn : ResetFails(k, c) BY <2>2, HiddenStep DEF ResetFails
    <2>3. CASE ConnectFails(k) \/ PoolFull(k) BY <2>3, RaisesRefuses DEF Cursors!Next
    <2> QED BY <1>1, <2>1, <2>2, <2>3 DEF BorrowStep
  <1>2. ASSUME NEW k \in Cursor, CursorStep(k) PROVE Cursors!Next \/ UNCHANGED <<Asked, Session>>
    <2>1. CASE Execute(k) \/ EndTransaction(k) BY <2>1, UseWorks DEF Cursors!Next
    <2>2. CASE NoticeLoss(k) BY <2>2, HiddenStep DEF NoticeLoss
    <2>3. CASE CloseCursor(k) \/ Collect(k) BY <2>3, EndLeaves DEF Cursors!Next
    <2>4. CASE GiveBack(k) BY <2>4, HiddenStep
    <2> QED BY <1>2, <2>1, <2>2, <2>3, <2>4 DEF CursorStep
  <1>3. ASSUME NEW k \in Cursor, NEW d \in Db, Sweep(k, d) PROVE Cursors!Next
    BY <1>3, SweepAsks DEF Cursors!Next
  <1>4. ASSUME NEW d \in Db, CloseAll(d) PROVE UNCHANGED <<Asked, Session>>
    BY <1>4, HiddenStep DEF CloseAll
  <1>5. ASSUME NEW c \in Conn, Lose(c) PROVE UNCHANGED <<Asked, Session>>
    BY <1>5, HiddenStep DEF Lose
  <1>6. CASE UNCHANGED vars BY <1>6, HiddenStep DEF vars
  <1> QED BY <1>1, <1>2, <1>3, <1>4, <1>5, <1>6 DEF Next

\* The cursors of the pool are sessions of their own, for any connections, cursors,
\* databases and limit, whatever is reused, lost, leaked, evicted or closed under them.
THEOREM Isolates == Spec => IsSessions
  <1>1. Init => Cursors!Init
    <2>1. ASSUME Init PROVE DOMAIN Asked = {} /\ DOMAIN Session = {}
      BY <2>1 DEF Init, Asked, Session
    <2> QED BY <2>1 DEF Cursors!Init
  <1>2. IInv /\ [Next]_vars => [Cursors!Next]_<<Asked, Session>> BY StepRefines
  <1> QED BY <1>1, <1>2, Invariance, PTL DEF Spec, IsSessions, Cursors!Spec

=============================================================================
