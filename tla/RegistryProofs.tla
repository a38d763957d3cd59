---------------------------- MODULE RegistryProofs ----------------------------
(***************************************************************************)
(* What holds of RegistrySignaling for any number of processes, models and *)
(* changes: a process that signals nothing itself learns of every change   *)
(* that was signalled (check_registry_signaling, signal_caches_change).    *)
(***************************************************************************)
EXTENDS RegistrySignaling, TLAPS

\* A process that is no writer leaves no change to be signalled.
ReadersOnlyRead ==
    \A p \in Reader : mine[p] = 0 /\ p \notin cleared /\ phase[p] # "unlinking"

\* What a transaction wrote is its own until it ends.
OwnWrites == \A p \in Process : phase[p] # "open" => mine[p] = 0

\* The row has one writer at a time, whose value is newer than the committed one.
OneWriter ==
    /\ \A p, q \in Process :
          phase[p] = "open" /\ phase[q] = "open" /\ mine[p] # 0 /\ mine[q] # 0 => p = q
    /\ \A p \in Process : phase[p] = "open" /\ mine[p] # 0 => mine[p] > committed

\* What a signal is owed for was signalled, or its committer is yet to do it.
Announcing ==
    /\ announced <= committed /\ owed <= committed
    /\ announced < owed => lost \/ \E q \in Process : YetToSignal(q)
    /\ \A p \in Process : floor[p] <= announced

\* What a reader has in its cache, or would put there, is as new as what was
\* signalled, or the reader will be told.
UpToDate(p) ==
    /\ cache[p] # Empty /\ cache[p] < announced => Told(p)
    /\ phase[p] = "open" /\ snap[p] < announced => Told(p)
    /\ phase[p] \in {"checked", "open"} /\ cache[p] # Empty => cache[p] >= floor[p]
    /\ phase[p] = "open" => snap[p] >= floor[p]

ReadersUpToDate == \A p \in Reader : UpToDate(p)

DeletionsTold ==
    \A p \in Reader :
        \/ loaded[p] \subseteq models
        \/ registrySeen[p] # registrySeq
        \/ lost
        \/ \E q \in Process : phase[q] = "unlinking"

IInv ==
    /\ TypeOK
    /\ ReadersOnlyRead
    /\ OwnWrites
    /\ OneWriter
    /\ Announcing
    /\ ReadersUpToDate
    /\ DeletionsTold

-----------------------------------------------------------------------------
\* Init establishes the invariant.
LEMMA InitInv == Init => IInv
  <1> SUFFICES ASSUME Init PROVE IInv
    OBVIOUS
  <1> USE DEF Init, Empty
  <1>1. TypeOK
    <2>1. cacheSeen \in [Process -> 0 .. cacheSeq] /\ registrySeen \in [Process -> 0 .. registrySeq]
      OBVIOUS
    <2>2. committed \in 0 .. writes /\ announced \in 0 .. writes
      OBVIOUS
    <2>3. /\ snap \in [Process -> 0 .. writes] /\ mine \in [Process -> 0 .. writes]
          /\ floor \in [Process -> 0 .. writes]
          /\ cache \in [Process -> {Empty} \cup 0 .. writes]
      OBVIOUS
    <2> QED BY <2>1, <2>2, <2>3 DEF TypeOK
  <1>2. ReadersOnlyRead BY DEF ReadersOnlyRead, Reader
  <1>3. OwnWrites BY DEF OwnWrites
  <1>4. OneWriter BY DEF OneWriter
  <1>5. Announcing BY DEF Announcing
  <1>6. ReadersUpToDate BY DEF ReadersUpToDate, UpToDate, Reader
  <1>7. DeletionsTold BY DEF DeletionsTold, Reader
  <1> QED BY <1>1, <1>2, <1>3, <1>4, <1>5, <1>6, <1>7 DEF IInv

-----------------------------------------------------------------------------
\* Types, one step per action.
LEMMA TypeStep == TypeOK /\ [Next]_vars => TypeOK'
  <1> SUFFICES ASSUME TypeOK, [Next]_vars PROVE TypeOK'
    OBVIOUS
  <1> USE DEF TypeOK, Goes, Empty
  <1>1. ASSUME NEW p \in Process, Check(p) PROVE TypeOK'
    BY <1>1 DEF Check, CacheAfterCheck, LoadedAfterCheck
  <1>2. ASSUME NEW p \in Process, Begin(p) PROVE TypeOK'
    BY <1>2 DEF Begin
  <1>3. ASSUME NEW p \in Process, Fill(p) PROVE TypeOK'
    BY <1>3 DEF Fill
  <1>4. ASSUME NEW p \in Process, NEW keyed \in BOOLEAN, Write(p, keyed) PROVE TypeOK'
    BY <1>4 DEF Write, ClearedAfter
  <1>5. ASSUME NEW p \in Process, Commit(p) PROVE TypeOK'
    BY <1>5 DEF Commit, CommittedRow
  <1>6. ASSUME NEW p \in Process, Signal(p) PROVE TypeOK'
    BY <1>6 DEF Signal, Signals, SeenAfterSignal
  <1>7. ASSUME NEW p \in Process, RestartPool(p) PROVE TypeOK'
    BY <1>7 DEF RestartPool
  <1>8. ASSUME NEW p \in Process, Crash(p) PROVE TypeOK'
    BY <1>8 DEF Crash, YetToSignal
  <1>9. ASSUME NEW p \in Process, NEW next \in {"idle", "checked"}, Rollback(p, next)
        PROVE TypeOK'
    BY <1>9 DEF Rollback
  <1>10. ASSUME NEW p \in Process, NEW m \in Model, CreateModel(p, m) PROVE TypeOK'
    BY <1>10 DEF CreateModel
  <1>11. ASSUME NEW p \in Process, NEW m \in Model, UnlinkModel(p, m) PROVE TypeOK'
    BY <1>11 DEF UnlinkModel, CommittedRow
  <1>12. CASE UNCHANGED vars BY <1>12 DEF vars
  <1> QED BY <1>1, <1>2, <1>3, <1>4, <1>5, <1>6, <1>7, <1>8, <1>9, <1>10, <1>11, <1>12 DEF Next

\* Readers stay readers: they neither write nor unlink.
LEMMA ReadersStep == IInv /\ TypeOK' /\ [Next]_vars => ReadersOnlyRead'
  <1> SUFFICES ASSUME IInv, TypeOK', [Next]_vars PROVE ReadersOnlyRead'
    OBVIOUS
  <1> USE DEF IInv, TypeOK, ReadersOnlyRead, Reader, Goes
  <1>1. ASSUME NEW p \in Process, Check(p) PROVE ReadersOnlyRead'
    BY <1>1 DEF Check, CacheAfterCheck, LoadedAfterCheck
  <1>2. ASSUME NEW p \in Process, Begin(p) PROVE ReadersOnlyRead'
    BY <1>2 DEF Begin
  <1>3. ASSUME NEW p \in Process, Fill(p) PROVE ReadersOnlyRead'
    BY <1>3 DEF Fill
  <1>4. ASSUME NEW p \in Process, NEW keyed \in BOOLEAN, Write(p, keyed) PROVE ReadersOnlyRead'
    BY <1>4 DEF Write, ClearedAfter
  <1>5. ASSUME NEW p \in Process, Commit(p) PROVE ReadersOnlyRead'
    BY <1>5 DEF Commit, CommittedRow
  <1>6. ASSUME NEW p \in Process, Signal(p) PROVE ReadersOnlyRead'
    BY <1>6 DEF Signal, Signals, SeenAfterSignal
  <1>7. ASSUME NEW p \in Process, RestartPool(p) PROVE ReadersOnlyRead'
    BY <1>7 DEF RestartPool
  <1>8. ASSUME NEW p \in Process, Crash(p) PROVE ReadersOnlyRead'
    BY <1>8 DEF Crash, YetToSignal
  <1>9. ASSUME NEW p \in Process, NEW next \in {"idle", "checked"}, Rollback(p, next)
        PROVE ReadersOnlyRead'
    BY <1>9 DEF Rollback
  <1>10. ASSUME NEW p \in Process, NEW m \in Model, CreateModel(p, m) PROVE ReadersOnlyRead'
    BY <1>10 DEF CreateModel
  <1>11. ASSUME NEW p \in Process, NEW m \in Model, UnlinkModel(p, m) PROVE ReadersOnlyRead'
    BY <1>11 DEF UnlinkModel, CommittedRow
  <1>12. CASE UNCHANGED vars BY <1>12 DEF vars
  <1> QED BY <1>1, <1>2, <1>3, <1>4, <1>5, <1>6, <1>7, <1>8, <1>9, <1>10, <1>11, <1>12 DEF Next

\* Transactions end with nothing written left over.
LEMMA OwnWritesStep == IInv /\ TypeOK' /\ [Next]_vars => OwnWrites'
  <1> SUFFICES ASSUME IInv, TypeOK', [Next]_vars PROVE OwnWrites'
    OBVIOUS
  <1> USE DEF IInv, TypeOK, OwnWrites, Goes
  <1>1. ASSUME NEW p \in Process, Check(p) PROVE OwnWrites'
    BY <1>1 DEF Check, CacheAfterCheck, LoadedAfterCheck
  <1>2. ASSUME NEW p \in Process, Begin(p) PROVE OwnWrites'
    BY <1>2 DEF Begin
  <1>3. ASSUME NEW p \in Process, Fill(p) PROVE OwnWrites'
    BY <1>3 DEF Fill
  <1>4. ASSUME NEW p \in Process, NEW keyed \in BOOLEAN, Write(p, keyed) PROVE OwnWrites'
    BY <1>4 DEF Write, ClearedAfter
  <1>5. ASSUME NEW p \in Process, Commit(p) PROVE OwnWrites'
    BY <1>5 DEF Commit, CommittedRow
  <1>6. ASSUME NEW p \in Process, Signal(p) PROVE OwnWrites'
    BY <1>6 DEF Signal, Signals, SeenAfterSignal
  <1>7. ASSUME NEW p \in Process, RestartPool(p) PROVE OwnWrites'
    BY <1>7 DEF RestartPool
  <1>8. ASSUME NEW p \in Process, Crash(p) PROVE OwnWrites'
    BY <1>8 DEF Crash, YetToSignal
  <1>9. ASSUME NEW p \in Process, NEW next \in {"idle", "checked"}, Rollback(p, next)
        PROVE OwnWrites'
    BY <1>9 DEF Rollback
  <1>10. ASSUME NEW p \in Process, NEW m \in Model, CreateModel(p, m) PROVE OwnWrites'
    BY <1>10 DEF CreateModel
  <1>11. ASSUME NEW p \in Process, NEW m \in Model, UnlinkModel(p, m) PROVE OwnWrites'
    BY <1>11 DEF UnlinkModel, CommittedRow
  <1>12. CASE UNCHANGED vars BY <1>12 DEF vars
  <1> QED BY <1>1, <1>2, <1>3, <1>4, <1>5, <1>6, <1>7, <1>8, <1>9, <1>10, <1>11, <1>12 DEF Next

\* The row lock and the snapshots keep the writes in order.
LEMMA OneWriterStep == IInv /\ TypeOK' /\ [Next]_vars => OneWriter'
  <1> SUFFICES ASSUME IInv, TypeOK', [Next]_vars PROVE OneWriter'
    OBVIOUS
  <1> USE DEF IInv, TypeOK, OneWriter, OwnWrites, Goes
  <1>1. ASSUME NEW p \in Process, Check(p) PROVE OneWriter'
    BY <1>1 DEF Check, CacheAfterCheck, LoadedAfterCheck
  <1>2. ASSUME NEW p \in Process, Begin(p) PROVE OneWriter'
    BY <1>2 DEF Begin
  <1>3. ASSUME NEW p \in Process, Fill(p) PROVE OneWriter'
    BY <1>3 DEF Fill
  <1>4. ASSUME NEW p \in Process, NEW keyed \in BOOLEAN, Write(p, keyed) PROVE OneWriter'
    BY <1>4 DEF Write, ClearedAfter
  <1>5. ASSUME NEW p \in Process, Commit(p) PROVE OneWriter'
    BY <1>5 DEF Commit, CommittedRow
  <1>6. ASSUME NEW p \in Process, Signal(p) PROVE OneWriter'
    BY <1>6 DEF Signal, Signals, SeenAfterSignal
  <1>7. ASSUME NEW p \in Process, RestartPool(p) PROVE OneWriter'
    BY <1>7 DEF RestartPool
  <1>8. ASSUME NEW p \in Process, Crash(p) PROVE OneWriter'
    BY <1>8 DEF Crash, YetToSignal
  <1>9. ASSUME NEW p \in Process, NEW next \in {"idle", "checked"}, Rollback(p, next)
        PROVE OneWriter'
    BY <1>9 DEF Rollback
  <1>10. ASSUME NEW p \in Process, NEW m \in Model, CreateModel(p, m) PROVE OneWriter'
    BY <1>10 DEF CreateModel
  <1>11. ASSUME NEW p \in Process, NEW m \in Model, UnlinkModel(p, m) PROVE OneWriter'
    BY <1>11 DEF UnlinkModel, CommittedRow
  <1>12. CASE UNCHANGED vars BY <1>12 DEF vars
  <1> QED BY <1>1, <1>2, <1>3, <1>4, <1>5, <1>6, <1>7, <1>8, <1>9, <1>10, <1>11, <1>12 DEF Next

\* What was signalled follows what was committed.
LEMMA AnnouncingStep == IInv /\ TypeOK' /\ [Next]_vars => Announcing'
  <1> SUFFICES ASSUME IInv, TypeOK', [Next]_vars PROVE Announcing'
    OBVIOUS
  <1> USE DEF IInv, TypeOK, Announcing, OneWriter, Goes, YetToSignal
  <1>1. ASSUME NEW p \in Process, Check(p) PROVE Announcing'
    BY <1>1 DEF Check, CacheAfterCheck, LoadedAfterCheck
  <1>2. ASSUME NEW p \in Process, Begin(p) PROVE Announcing'
    BY <1>2 DEF Begin
  <1>3. ASSUME NEW p \in Process, Fill(p) PROVE Announcing'
    BY <1>3 DEF Fill
  <1>4. ASSUME NEW p \in Process, NEW keyed \in BOOLEAN, Write(p, keyed) PROVE Announcing'
    BY <1>4 DEF Write, ClearedAfter
  <1>5. ASSUME NEW p \in Process, Commit(p) PROVE Announcing'
    BY <1>5 DEF Commit, CommittedRow
  <1>6. ASSUME NEW p \in Process, Signal(p) PROVE Announcing'
    BY <1>6 DEF Signal, Signals, SeenAfterSignal
  <1>7. ASSUME NEW p \in Process, RestartPool(p) PROVE Announcing'
    BY <1>7 DEF RestartPool
  <1>8. ASSUME NEW p \in Process, Crash(p) PROVE Announcing'
    <2>1. announced' = announced /\ committed' = committed /\ owed' = owed /\ floor' = floor
      BY <1>8 DEF Crash
    <2>2. ASSUME NEW q \in Process, YetToSignal(q) PROVE lost' \/ YetToSignal(q)'
      <3>1. CASE q = p BY <1>8, <2>2, <3>1 DEF Crash
      <3>2. CASE q # p BY <1>8, <2>2, <3>2 DEF Crash, YetToSignal
      <3> QED BY <3>1, <3>2
    <2>3. lost => lost' BY <1>8 DEF Crash
    <2> QED BY <2>1, <2>2, <2>3
  <1>9. ASSUME NEW p \in Process, NEW next \in {"idle", "checked"}, Rollback(p, next)
        PROVE Announcing'
    BY <1>9 DEF Rollback
  <1>10. ASSUME NEW p \in Process, NEW m \in Model, CreateModel(p, m) PROVE Announcing'
    BY <1>10 DEF CreateModel
  <1>11. ASSUME NEW p \in Process, NEW m \in Model, UnlinkModel(p, m) PROVE Announcing'
    BY <1>11 DEF UnlinkModel, CommittedRow
  <1>12. CASE UNCHANGED vars BY <1>12 DEF vars
  <1> QED BY <1>1, <1>2, <1>3, <1>4, <1>5, <1>6, <1>7, <1>8, <1>9, <1>10, <1>11, <1>12 DEF Next

\* The caches of readers.
LEMMA UpToDateStep == IInv /\ TypeOK' /\ [Next]_vars => ReadersUpToDate'
  <1> SUFFICES ASSUME IInv, TypeOK', [Next]_vars PROVE ReadersUpToDate'
    OBVIOUS
  <1> USE DEF IInv, TypeOK, ReadersUpToDate, UpToDate, Told, Reader, Goes, ReadersOnlyRead, OwnWrites, Announcing
  <1>1. ASSUME NEW p \in Process, Check(p) PROVE ReadersUpToDate'
    BY <1>1 DEF Check, CacheAfterCheck, LoadedAfterCheck
  <1>2. ASSUME NEW p \in Process, Begin(p) PROVE ReadersUpToDate'
    BY <1>2 DEF Begin
  <1>3. ASSUME NEW p \in Process, Fill(p) PROVE ReadersUpToDate'
    BY <1>3 DEF Fill
  <1>4. ASSUME NEW p \in Process, NEW keyed \in BOOLEAN, Write(p, keyed) PROVE ReadersUpToDate'
    BY <1>4 DEF Write, ClearedAfter
  <1>5. ASSUME NEW p \in Process, Commit(p) PROVE ReadersUpToDate'
    BY <1>5 DEF Commit, CommittedRow
  <1>6. ASSUME NEW p \in Process, Signal(p) PROVE ReadersUpToDate'
    BY <1>6 DEF Signal, Signals, SeenAfterSignal
  <1>7. ASSUME NEW p \in Process, RestartPool(p) PROVE ReadersUpToDate'
    BY <1>7 DEF RestartPool
  <1>8. ASSUME NEW p \in Process, Crash(p) PROVE ReadersUpToDate'
    BY <1>8 DEF Crash, YetToSignal
  <1>9. ASSUME NEW p \in Process, NEW next \in {"idle", "checked"}, Rollback(p, next)
        PROVE ReadersUpToDate'
    BY <1>9 DEF Rollback
  <1>10. ASSUME NEW p \in Process, NEW m \in Model, CreateModel(p, m) PROVE ReadersUpToDate'
    BY <1>10 DEF CreateModel
  <1>11. ASSUME NEW p \in Process, NEW m \in Model, UnlinkModel(p, m) PROVE ReadersUpToDate'
    BY <1>11 DEF UnlinkModel, CommittedRow
  <1>12. CASE UNCHANGED vars BY <1>12 DEF vars
  <1> QED BY <1>1, <1>2, <1>3, <1>4, <1>5, <1>6, <1>7, <1>8, <1>9, <1>10, <1>11, <1>12 DEF Next

\* The registries of readers.
LEMMA DeletionsStep == IInv /\ TypeOK' /\ [Next]_vars => DeletionsTold'
  <1> SUFFICES ASSUME IInv, TypeOK', [Next]_vars PROVE DeletionsTold'
    OBVIOUS
  <1> USE DEF IInv, TypeOK, DeletionsTold, ReadersOnlyRead, Reader, Goes
  <1>1. ASSUME NEW p \in Process, Check(p) PROVE DeletionsTold'
    BY <1>1 DEF Check, CacheAfterCheck, LoadedAfterCheck
  <1>2. ASSUME NEW p \in Process, Begin(p) PROVE DeletionsTold'
    BY <1>2 DEF Begin
  <1>3. ASSUME NEW p \in Process, Fill(p) PROVE DeletionsTold'
    BY <1>3 DEF Fill
  <1>4. ASSUME NEW p \in Process, NEW keyed \in BOOLEAN, Write(p, keyed) PROVE DeletionsTold'
    BY <1>4 DEF Write, ClearedAfter
  <1>5. ASSUME NEW p \in Process, Commit(p) PROVE DeletionsTold'
    BY <1>5 DEF Commit, CommittedRow
  <1>6. ASSUME NEW p \in Process, Signal(p) PROVE DeletionsTold'
    BY <1>6 DEF Signal, Signals, SeenAfterSignal
  <1>7. ASSUME NEW p \in Process, RestartPool(p) PROVE DeletionsTold'
    BY <1>7 DEF RestartPool
  <1>8. ASSUME NEW p \in Process, Crash(p) PROVE DeletionsTold'
    BY <1>8 DEF Crash, YetToSignal
  <1>9. ASSUME NEW p \in Process, NEW next \in {"idle", "checked"}, Rollback(p, next)
        PROVE DeletionsTold'
    BY <1>9 DEF Rollback
  <1>10. ASSUME NEW p \in Process, NEW m \in Model, CreateModel(p, m) PROVE DeletionsTold'
    BY <1>10 DEF CreateModel
  <1>11. ASSUME NEW p \in Process, NEW m \in Model, UnlinkModel(p, m) PROVE DeletionsTold'
    BY <1>11 DEF UnlinkModel, CommittedRow
  <1>12. CASE UNCHANGED vars BY <1>12 DEF vars
  <1> QED BY <1>1, <1>2, <1>3, <1>4, <1>5, <1>6, <1>7, <1>8, <1>9, <1>10, <1>11, <1>12 DEF Next

-----------------------------------------------------------------------------
\* The inductive invariant of the signalling.
THEOREM Invariance == Spec => []IInv
  <1>1. IInv /\ [Next]_vars => IInv'
    BY TypeStep, ReadersStep, OwnWritesStep, OneWriterStep, AnnouncingStep, UpToDateStep,
       DeletionsStep DEF IInv
  <1> QED BY InitInv, <1>1, PTL DEF Spec

\* Types of the signalling; no process has seen a number that was not drawn.
THEOREM TypeCorrect == Spec => []TypeOK
  <1>1. IInv => TypeOK BY DEF IInv
  <1> QED BY Invariance, <1>1, PTL

\* A process that signals nothing itself and caches a value outdated by a commit that
\* is signalled clears it at its next check, once it has been signalled.
THEOREM ReadersTold == Spec => []ReadersAreTold
  <1>1. IInv => ReadersAreTold
    <2> SUFFICES ASSUME IInv, NEW p \in Reader, cache[p] # Empty, cache[p] < owed, ~Told(p)
                 PROVE SignalPending
      BY DEF ReadersAreTold
    <2>1. p \in Process /\ cache[p] \in Int /\ announced \in Int /\ owed \in Int
      BY DEF IInv, TypeOK, Reader, Empty
    <2>2. ~(cache[p] < announced)
      BY DEF IInv, ReadersUpToDate, UpToDate
    <2>3. announced < owed BY <2>1, <2>2
    <2> QED BY <2>3 DEF IInv, Announcing, SignalPending
  <1> QED BY Invariance, <1>1, PTL

\* A request of such a process reads nothing that is older than what was signalled
\* before the request.
THEOREM ReadersFresh == Spec => []ReadersAreFresh
  <1>1. IInv => ReadersAreFresh
    BY DEF IInv, ReadersUpToDate, UpToDate, ReadersAreFresh
  <1> QED BY Invariance, <1>1, PTL

\* A deleted model leaves the registry of such a process at the next check.
THEOREM DeletedTold == Spec => []DeletedModelsTold
  <1>1. IInv => DeletedModelsTold
    BY DEF IInv, DeletionsTold, DeletedModelsTold, SignalPending, YetToSignal
  <1> QED BY Invariance, <1>1, PTL
=============================================================================
