--------------------------- MODULE PreforkProofs ---------------------------
(***************************************************************************)
(* The prefork server, for any population, timeout and queue limit: its    *)
(* master knows each of its children while it needs to.                    *)
(***************************************************************************)
EXTENDS Prefork, FiniteSetTheorems, TLAPS

IInv == TypeOK /\ NoForgottenWorker

\* The share of each class, as a fact about a registry.
LEMMA SharesPersist ==
    ASSUME IInv, workers' \subseteq workers, UNCHANGED kind
    PROVE  \A k \in Kind : Cardinality(Registry(k)') <= Population[k]
<1> SUFFICES ASSUME NEW k \in Kind
             PROVE  Cardinality(Registry(k)') <= Population[k]
  OBVIOUS
<1>1. workers \subseteq Pid /\ Cardinality(Registry(k)) <= Population[k]
  BY DEF IInv, TypeOK, NoForgottenWorker
<1>2. Registry(k)' \in SUBSET Registry(k) /\ Registry(k) \in SUBSET Pid
  BY <1>1 DEF Registry
<1>3. IsFiniteSet(Registry(k))
  BY <1>2, PreforkAssumption, FS_Subset
<1>4. Cardinality(Registry(k)') <= Cardinality(Registry(k)) /\ IsFiniteSet(Registry(k)')
  BY <1>2, <1>3, FS_Subset
<1>5. /\ Cardinality(Registry(k)') \in Nat
      /\ Cardinality(Registry(k)) \in Nat
      /\ Population[k] \in Nat
  BY <1>3, <1>4, PreforkAssumption, FS_CardinalityType
<1> QED
  BY <1>1, <1>4, <1>5

\* What worker_spawn registers had room.
LEMMA SharesSpawn ==
    ASSUME IInv, NEW k \in Kind, NEW p \in Pid, Spawn(k, p)
    PROVE  \A c \in Kind : Cardinality(Registry(c)') <= Population[c]
<1> SUFFICES ASSUME NEW c \in Kind
             PROVE  Cardinality(Registry(c)') <= Population[c]
  OBVIOUS
<1>1. /\ workers \subseteq Pid /\ kind \in [Pid -> Kind]
      /\ Cardinality(Registry(c)) <= Population[c]
  BY DEF IInv, TypeOK, NoForgottenWorker
<1>2. /\ workers' = workers \cup {p} /\ p \notin workers
      /\ kind' = [kind EXCEPT ![p] = k] /\ Lacks(k)
  BY DEF Spawn
<1>3. CASE c = k
  <2>1. Registry(k)' = Registry(k) \cup {p} /\ p \notin Registry(k)
    BY <1>1, <1>2 DEF Registry
  <2>2. IsFiniteSet(Registry(k))
    BY <1>1, PreforkAssumption, FS_Subset DEF Registry
  <2>3. Cardinality(Registry(k)') = Cardinality(Registry(k)) + 1
    BY <2>1, <2>2, FS_AddElement
  <2>4. Cardinality(Registry(k)) \in Nat /\ Population[k] \in Nat
    BY <2>2, FS_CardinalityType, PreforkAssumption
  <2> QED
    BY <1>2, <1>3, <2>3, <2>4 DEF Lacks
<1>4. CASE c # k
  <2>1. Registry(c)' = Registry(c)
    BY <1>1, <1>2, <1>4 DEF Registry
  <2> QED
    BY <1>1, <2>1
<1> QED
  BY <1>3, <1>4

LEMMA InitInvariant == Init => IInv
<1> SUFFICES ASSUME Init PROVE IInv
  OBVIOUS
<1>1. TypeOK
  <2>1. QueueLimit \in Nat /\ Timeout \in Nat
    BY PreforkAssumption
  <2>2. /\ age \in [Pid -> 0 .. Timeout] /\ kind \in [Pid -> Kind]
        /\ proc \in [Pid -> Live \cup Zombie \cup {"none"}]
    BY <2>1 DEF Init
  <2>3. /\ chld \in 0 .. QueueLimit /\ term \in 0 .. QueueLimit /\ left \in 0 .. Timeout
    BY <2>1 DEF Init
  <2> QED
    BY <2>2, <2>3 DEF Init, TypeOK, Loop
<1>2. NoForgottenWorker
  <2>1. {p \in Pid : proc[p] # "none"} \subseteq workers
    BY DEF Init
  <2>2. ASSUME NEW k \in Kind PROVE Cardinality(Registry(k)) <= Population[k]
    <3>1. Registry(k) = {}
      BY DEF Init, Registry
    <3> QED
      BY <3>1, FS_EmptySet, PreforkAssumption
  <2> QED
    BY <2>1, <2>2 DEF NoForgottenWorker
<1> QED
  BY <1>1, <1>2 DEF IInv

\* Counting a SIGCHLD keeps the queue's type.
LEMMA SigchldType ==
    ASSUME TypeOK, Sigchld
    PROVE  chld' \in 0 .. QueueLimit /\ term' \in 0 .. QueueLimit /\ wakeup' \in BOOLEAN
BY PreforkAssumption DEF TypeOK, Sigchld

LEMMA EndsType ==
    ASSUME TypeOK, NEW p \in Pid, NEW z \in Zombie, Ends(p, z)
    PROVE  /\ chld' \in 0 .. QueueLimit /\ term' \in 0 .. QueueLimit /\ wakeup' \in BOOLEAN
           /\ proc' \in [Pid -> Live \cup Zombie \cup {"none"}]
           /\ {q \in Pid : proc'[q] # "none"} \subseteq {q \in Pid : proc[q] # "none"} \cup {p}
<1>1. CASE master = "over"
  BY <1>1 DEF TypeOK, Ends, queue
<1>2. CASE master # "over"
  BY <1>2, SigchldType DEF TypeOK, Ends
<1> QED
  BY <1>1, <1>2

\* Steps that register nobody and start no process while the master needs to
\* know it preserve the invariant when they preserve the types.
LEMMA Preserved ==
    ASSUME IInv, TypeOK', workers' \subseteq workers, UNCHANGED kind,
           master' \in Loop \cup {"stop", "drain"} =>
               {p \in Pid : proc'[p] # "none"} \subseteq workers'
    PROVE  IInv'
BY SharesPersist DEF IInv, NoForgottenWorker

LEMMA NextInvariant == IInv /\ [Next]_vars => IInv'
<1> SUFFICES ASSUME IInv, [Next]_vars PROVE IInv'
  OBVIOUS
<1> USE DEF Loop, Stop, Live, Zombie
<1>0. TypeOK /\ NoForgottenWorker
  BY DEF IInv
<1>1. ASSUME NEW p \in Pid, Reap(p) PROVE IInv'
  <2>1. TypeOK'
    BY <1>0, <1>1 DEF Reap, WorkerPop, TypeOK, queue
  <2> QED
    BY <1>0, <1>1, <2>1, Preserved DEF Reap, WorkerPop, TypeOK, NoForgottenWorker
<1>2. ASSUME NEW p \in Pid, ReapFatal(p) PROVE IInv'
  <2>1. TypeOK'
    BY <1>0, <1>2 DEF ReapFatal, TypeOK, queue
  <2> QED
    BY <1>0, <1>2, <2>1, Preserved DEF ReapFatal
<1>3. ASSUME NEW p \in Pid, Kill(p) PROVE IInv'
  <2>1. TypeOK'
    BY <1>0, <1>3, SigchldType DEF Kill, TypeOK
  <2> QED
    BY <1>0, <1>3, <2>1, Preserved DEF Kill, TypeOK, NoForgottenWorker
<1>4. ASSUME NEW k \in Kind, NEW p \in Pid, Spawn(k, p) PROVE IInv'
  <2>1. TypeOK'
    BY <1>0, <1>4, PreforkAssumption DEF Spawn, TypeOK, queue
  <2>2. {q \in Pid : proc'[q] # "none"} \subseteq workers'
    BY <1>0, <1>4 DEF Spawn, TypeOK, NoForgottenWorker
  <2> QED
    BY <1>4, <2>1, <2>2, SharesSpawn DEF IInv, NoForgottenWorker
<1>5. CASE ProcessSignals
  <2>1. TypeOK'
    BY <1>0, <1>5, PreforkAssumption DEF ProcessSignals, TypeOK
  <2> QED
    BY <1>0, <1>5, <2>1, Preserved DEF ProcessSignals, NoForgottenWorker
<1>6. CASE ReapDone \/ KillDone \/ SpawnDone \/ ForkFails
  <2>1. TypeOK'
    BY <1>0, <1>6 DEF ReapDone, KillDone, SpawnDone, ForkFails, TypeOK, queue
  <2> QED
    BY <1>0, <1>6, <2>1, Preserved DEF ReapDone, KillDone, SpawnDone, ForkFails, NoForgottenWorker
<1>7. CASE Wake \/ Tick
  <2>1. age' \in [Pid -> 0 .. Timeout]
    BY <1>0, <1>7, PreforkAssumption DEF Wake, Tick, Older, TypeOK
  <2>2. TypeOK'
    BY <1>0, <1>7, <2>1 DEF Wake, Tick, Woken, TypeOK
  <2> QED
    BY <1>0, <1>7, <2>2, Preserved DEF Wake, Tick, Woken, NoForgottenWorker
<1>8. CASE StopBegin \/ DrainTick
  <2>1. TypeOK'
    BY <1>0, <1>8, PreforkAssumption DEF StopBegin, DrainTick, Termed, TypeOK, queue
  <2>2. {p \in Pid : proc'[p] # "none"} \subseteq {p \in Pid : proc[p] # "none"}
    BY <1>0, <1>8 DEF StopBegin, DrainTick, Termed, TypeOK
  <2> QED
    BY <1>0, <1>8, <2>1, <2>2, Preserved DEF StopBegin, DrainTick, NoForgottenWorker
<1>9. CASE StopEnd \/ DrainRaises \/ MasterDies
  <2>1. PICK S : Exit(S)
    BY <1>9 DEF StopEnd, DrainRaises, MasterDies
  <2>2. TypeOK'
    BY <1>0, <2>1 DEF Exit, TypeOK, queue
  <2> QED
    BY <2>1, <2>2, Preserved DEF Exit
<1>10. CASE Sigterm
  <2>1. TypeOK'
    BY <1>0, <1>10, PreforkAssumption DEF Sigterm, TypeOK
  <2> QED
    BY <1>0, <1>10, <2>1, Preserved DEF Sigterm, NoForgottenWorker
<1>11. ASSUME NEW p \in Pid, Start(p) \/ Round(p) PROVE IInv'
  <2>1. TypeOK'
    BY <1>0, <1>11 DEF Start, Round, TypeOK, queue
  <2>2. {q \in Pid : proc'[q] # "none"} \subseteq {q \in Pid : proc[q] # "none"}
    BY <1>0, <1>11 DEF Start, Round, TypeOK
  <2>3. UNCHANGED <<master, workers, kind>>
    BY <1>11 DEF Start, Round
  <2> QED
    BY <1>0, <2>1, <2>2, <2>3, Preserved DEF NoForgottenWorker
<1>12. ASSUME NEW p \in Pid, Finish(p) \/ Crash(p) PROVE IInv'
  <2>1. /\ UNCHANGED <<master, workers, kind, age, ping, left, last>>
        /\ proc[p] # "none"
    BY <1>0, <1>12 DEF Finish, Crash, TypeOK
  <2>2. /\ chld' \in 0 .. QueueLimit /\ term' \in 0 .. QueueLimit /\ wakeup' \in BOOLEAN
        /\ proc' \in [Pid -> Live \cup Zombie \cup {"none"}]
        /\ {q \in Pid : proc'[q] # "none"} \subseteq {q \in Pid : proc[q] # "none"} \cup {p}
    <3>1. CASE \E z \in Zombie : Ends(p, z)
      BY <1>0, <3>1, EndsType
    <3>2. CASE proc' = [proc EXCEPT ![p] = "idle"] /\ UNCHANGED queue
      BY <1>0, <3>2 DEF TypeOK, queue
    <3> QED
      BY <1>12, <3>1, <3>2 DEF Finish, Crash
  <2>3. TypeOK'
    BY <1>0, <2>1, <2>2 DEF TypeOK
  <2> QED
    BY <1>0, <2>1, <2>2, <2>3, Preserved DEF NoForgottenWorker
<1>13. CASE UNCHANGED vars
  <2>1. TypeOK'
    BY <1>0, <1>13 DEF TypeOK, vars
  <2> QED
    BY <1>0, <1>13, <2>1, Preserved DEF vars, NoForgottenWorker
<1> QED
  BY <1>1, <1>2, <1>3, <1>4, <1>5, <1>6, <1>7, <1>8, <1>9, <1>10, <1>11, <1>12, <1>13
  DEF Next, MasterStep

\* The invariant holds whatever the population, the timeout and the limit of the
\* queue are.
THEOREM Invariance == Spec => []IInv
BY InitInvariant, NextInvariant, PTL DEF Spec

\* workers.py keeps its state well typed; in particular its queue never holds
\* more signals than its limit, SIGCHLD aside.
THEOREM TypeCorrect == Spec => []TypeOK
<1>1. IInv => TypeOK
  BY DEF IInv
<1> QED
  BY <1>1, Invariance, PTL

\* Every child of a master that runs or stops gracefully is registered, and no
\* class of workers has more than its share.
THEOREM NobodyForgotten == Spec => []NoForgottenWorker
<1>1. IInv => NoForgottenWorker
  BY DEF IInv
<1> QED
  BY <1>1, Invariance, PTL
=============================================================================
