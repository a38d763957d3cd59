-------------------------- MODULE RegistrySignaling --------------------------
(***************************************************************************)
(* openerp/modules/registry.py and tools/cache.py with several server      *)
(* processes: how one process learns through two database sequences that   *)
(* another one changed cached data (base_cache_signaling) or the models    *)
(* (base_registry_signaling).                                              *)
(*                                                                         *)
(* One ormcache entry over one row stands for all of them; its values are  *)
(* the numbers of the writes.  A process serves one request at a time:     *)
(* check_registry_signaling, a transaction under snapshot isolation, then  *)
(* signal_caches_change (dispatch of service/web_services.py, and the cron *)
(* job of ir_cron).                                                        *)
(***************************************************************************)
EXTENDS Integers, FiniteSets

CONSTANTS
    Process,        \* server processes
    Writer,         \* those whose requests write the row or the models
    Model,          \* names of custom models
    MaxChanges,     \* bound on writes of the row and changes of the models
    MaxCrash        \* bound on kills of processes

ASSUME SignalingAssumption ==
    /\ Writer \subseteq Process
    /\ MaxChanges \in Nat /\ MaxCrash \in Nat

VARIABLES
    cacheSeq,       \* last_value of base_cache_signaling
    registrySeq,    \* last_value of base_registry_signaling
    committed,      \* committed value of the row
    writes,         \* number of writes so far
    models,         \* committed custom models
    phase,          \* [Process -> where it is in its request]
    cacheSeen,      \* [Process -> base_cache_signaling_sequence]
    registrySeen,   \* [Process -> base_registry_signaling_sequence]
    cache,          \* [Process -> cached value, or Empty]
    cleared,        \* processes with _any_cache_cleared
    loaded,         \* [Process -> custom models in its registry]
    snap,           \* [Process -> value of the row its transaction sees]
    mine,           \* [Process -> value its transaction wrote, or 0]
    created,        \* [Process -> models its transaction created]
    owed,           \* what was committed at the latest commit that is signalled after it
    announced,      \* what was committed at the latest signal
    floor,          \* [Process -> announced when it last checked]
    lost,           \* a process was killed between a commit and its signal
    crashes

vars == <<cacheSeq, registrySeq, committed, writes, models, phase, cacheSeen, registrySeen,
          cache, cleared, loaded, snap, mine, created, owed, announced, floor, lost, crashes>>

Empty == -1

Init ==
    /\ cacheSeq = 1 /\ registrySeq = 1
    /\ committed = 0 /\ writes = 0 /\ models = {}
    /\ phase = [p \in Process |-> "idle"]
    /\ cacheSeen = [p \in Process |-> 1]
    /\ registrySeen = [p \in Process |-> 1]
    /\ cache = [p \in Process |-> Empty]
    /\ cleared = {}
    /\ loaded = [p \in Process |-> {}]
    /\ snap = [p \in Process |-> 0]
    /\ mine = [p \in Process |-> 0]
    /\ created = [p \in Process |-> {}]
    /\ owed = 0 /\ announced = 0
    /\ floor = [p \in Process |-> 0]
    /\ lost = FALSE
    /\ crashes = 0

-----------------------------------------------------------------------------
MayChange == writes + registrySeq <= MaxChanges

Goes(p, s) == phase' = [phase EXCEPT ![p] = s]

\* Mutant of CacheAfterCheck: the sequence is noted, the caches are kept.
NotedOnly(p) == cache[p]

\* check_registry_signaling: a change of the models reloads the registry, with
\* empty caches; otherwise a change of the caches clears them.
CacheAfterCheck(p) ==
    IF registrySeen[p] # registrySeq \/ cacheSeen[p] # cacheSeq THEN Empty ELSE cache[p]

\* Mutant of LoadedAfterCheck: the registry is not loaded again.
LoadedBefore(p) == loaded[p]

LoadedAfterCheck(p) == IF registrySeen[p] # registrySeq THEN models ELSE loaded[p]

Check(p) ==
    /\ phase[p] = "idle"
    /\ loaded' = [loaded EXCEPT ![p] = LoadedAfterCheck(p)]
    /\ cache' = [cache EXCEPT ![p] = CacheAfterCheck(p)]
    /\ cleared' = IF registrySeen[p] # registrySeq \/ cacheSeen[p] # cacheSeq
                  THEN cleared \ {p} ELSE cleared
    /\ cacheSeen' = [cacheSeen EXCEPT ![p] = cacheSeq]
    /\ registrySeen' = [registrySeen EXCEPT ![p] = registrySeq]
    /\ floor' = [floor EXCEPT ![p] = announced]
    /\ Goes(p, "checked")
    /\ UNCHANGED <<cacheSeq, registrySeq, committed, writes, models, snap, mine, created,
                   owed, announced, lost, crashes>>

\* The request's own cursor executes its first statement.
Begin(p) ==
    /\ phase[p] = "checked"
    /\ snap' = [snap EXCEPT ![p] = committed]
    /\ Goes(p, "open")
    /\ UNCHANGED <<cacheSeq, registrySeq, committed, writes, models, cacheSeen, registrySeen,
                   cache, cleared, loaded, mine, created, owed, announced, floor, lost, crashes>>

\* lookup of a cached method that misses: the value the transaction sees is kept.
Fill(p) ==
    /\ phase[p] = "open" /\ cache[p] = Empty
    /\ cache' = [cache EXCEPT ![p] = IF mine[p] # 0 THEN mine[p] ELSE snap[p]]
    /\ UNCHANGED <<cacheSeq, registrySeq, committed, writes, models, phase, cacheSeen,
                   registrySeen, cleared, loaded, snap, mine, created, owed, announced, floor,
                   lost, crashes>>

\* clear_cache raises _any_cache_cleared; with a key (the translations, the external
\* ids) only where the process has that key in its cache.
ClearedAfter(p, keyed) == IF keyed /\ cache[p] = Empty THEN cleared ELSE cleared \cup {p}

\* The row is written, then clear_cache.  A second writer of the row waits for the
\* first and fails, and so does one whose snapshot is older than the row.
Write(p, keyed) ==
    /\ p \in Writer /\ MayChange
    /\ phase[p] = "open" /\ mine[p] = 0 /\ snap[p] = committed
    /\ \A q \in Process \ {p} : phase[q] = "open" => mine[q] = 0
    /\ writes' = writes + 1
    /\ mine' = [mine EXCEPT ![p] = writes + 1]
    /\ cache' = [cache EXCEPT ![p] = Empty]
    /\ cleared' = ClearedAfter(p, keyed)
    /\ UNCHANGED <<cacheSeq, registrySeq, committed, models, phase, cacheSeen, registrySeen,
                   loaded, snap, created, owed, announced, floor, lost, crashes>>

\* create of a manual ir.model: it is loaded here, and signalled before the commit.
CreateModel(p, m) ==
    /\ p \in Writer /\ MayChange
    /\ phase[p] = "open"
    /\ m \notin models /\ \A q \in Process : m \notin created[q]
    /\ created' = [created EXCEPT ![p] = @ \cup {m}]
    /\ loaded' = [loaded EXCEPT ![p] = @ \cup {m}]
    /\ registrySeq' = registrySeq + 1
    /\ registrySeen' = [registrySeen EXCEPT ![p] = registrySeq + 1]
    /\ UNCHANGED <<cacheSeq, committed, writes, models, phase, cacheSeen, cache, cleared,
                   snap, mine, owed, announced, floor, lost, crashes>>

CommittedRow(p) == IF mine[p] # 0 THEN mine[p] ELSE committed

Commit(p) ==
    /\ phase[p] = "open"
    /\ committed' = CommittedRow(p)
    /\ owed' = IF p \in cleared THEN CommittedRow(p) ELSE owed
    /\ models' = models \cup created[p]
    /\ mine' = [mine EXCEPT ![p] = 0]
    /\ created' = [created EXCEPT ![p] = {}]
    /\ snap' = [snap EXCEPT ![p] = 0]
    /\ Goes(p, "committed")
    /\ UNCHANGED <<cacheSeq, registrySeq, writes, cacheSeen, registrySeen, cache, cleared,
                   loaded, announced, floor, lost, crashes>>

\* An exception: the request ends without a signal, or object_proxy.check starts
\* its transaction again.  The caches and the registry stay as they are.
Rollback(p, next) ==
    /\ phase[p] = "open"
    /\ mine' = [mine EXCEPT ![p] = 0]
    /\ created' = [created EXCEPT ![p] = {}]
    /\ snap' = [snap EXCEPT ![p] = 0]
    /\ Goes(p, next)
    /\ UNCHANGED <<cacheSeq, registrySeq, committed, writes, models, cacheSeen, registrySeen,
                   cache, cleared, loaded, owed, announced, floor, lost, crashes>>

\* Mutant of Signals: nobody signals.
NeverSignals(p) == FALSE

\* any_cache_cleared of the process's registry.
Signals(p) == p \in cleared

SeenAfterSignal(p) == IF Signals(p) THEN cacheSeq + 1 ELSE cacheSeen[p]

\* signal_caches_change: the number it draws is noted as seen, whatever numbers
\* other processes have drawn since the check.
Signal(p) ==
    /\ phase[p] = "committed"
    /\ cacheSeq' = IF Signals(p) THEN cacheSeq + 1 ELSE cacheSeq
    /\ cacheSeen' = [cacheSeen EXCEPT ![p] = SeenAfterSignal(p)]
    /\ cleared' = cleared \ {p}
    /\ announced' = IF Signals(p) THEN committed ELSE announced
    /\ Goes(p, "idle")
    /\ UNCHANGED <<registrySeq, committed, writes, models, registrySeen, cache, loaded, snap,
                   mine, created, owed, floor, lost, crashes>>

\* unlink of a manual ir.model: it commits what the request did so far, which
\* the signal of the registry will tell whatever was cleared, ...
UnlinkModel(p, m) ==
    /\ p \in Writer /\ MayChange
    /\ phase[p] = "open" /\ m \in models
    /\ committed' = CommittedRow(p)
    /\ owed' = CommittedRow(p)
    /\ models' = (models \cup created[p]) \ {m}
    /\ mine' = [mine EXCEPT ![p] = 0]
    /\ created' = [created EXCEPT ![p] = {}]
    /\ snap' = [snap EXCEPT ![p] = 0]
    /\ Goes(p, "unlinking")
    /\ UNCHANGED <<cacheSeq, registrySeq, writes, cacheSeen, registrySeen, cache, cleared,
                   loaded, announced, floor, lost, crashes>>

\* ... then restart_pool loads a new registry, whose flag _any_cache_cleared is
\* down, and signals it; the transaction of the request goes on.
RestartPool(p) ==
    /\ phase[p] = "unlinking"
    /\ loaded' = [loaded EXCEPT ![p] = models]
    /\ cache' = [cache EXCEPT ![p] = Empty]
    /\ cleared' = cleared \ {p}
    /\ cacheSeen' = [cacheSeen EXCEPT ![p] = cacheSeq]
    /\ registrySeq' = registrySeq + 1
    /\ registrySeen' = [registrySeen EXCEPT ![p] = registrySeq + 1]
    /\ announced' = committed
    /\ snap' = [snap EXCEPT ![p] = committed]
    /\ Goes(p, "open")
    /\ UNCHANGED <<cacheSeq, committed, writes, models, mine, created, owed, floor, lost, crashes>>

\* p committed, and has a signal to send.
YetToSignal(p) == phase[p] = "unlinking" \/ (phase[p] = "committed" /\ p \in cleared)

\* The process is killed and the master spawns another, which loads the registry.
Crash(p) ==
    /\ crashes < MaxCrash
    /\ crashes' = crashes + 1
    /\ lost' = (lost \/ YetToSignal(p))
    /\ loaded' = [loaded EXCEPT ![p] = models]
    /\ cache' = [cache EXCEPT ![p] = Empty]
    /\ cleared' = cleared \ {p}
    /\ cacheSeen' = [cacheSeen EXCEPT ![p] = cacheSeq]
    /\ registrySeen' = [registrySeen EXCEPT ![p] = registrySeq]
    /\ mine' = [mine EXCEPT ![p] = 0]
    /\ created' = [created EXCEPT ![p] = {}]
    /\ snap' = [snap EXCEPT ![p] = 0]
    /\ Goes(p, "idle")
    /\ UNCHANGED <<cacheSeq, registrySeq, committed, writes, models, owed, announced, floor>>

Next ==
    \E p \in Process :
        \/ Check(p) \/ Begin(p) \/ Fill(p) \/ Commit(p)
        \/ Signal(p) \/ RestartPool(p) \/ Crash(p)
        \/ \E keyed \in BOOLEAN : Write(p, keyed)
        \/ \E next \in {"idle", "checked"} : Rollback(p, next)
        \/ \E m \in Model : CreateModel(p, m) \/ UnlinkModel(p, m)

Spec == Init /\ [][Next]_vars

-----------------------------------------------------------------------------
\* Type invariant; no process has seen a number that was not drawn.
TypeOK ==
    /\ cacheSeq \in Nat /\ registrySeq \in Nat
    /\ committed \in 0..writes /\ writes \in Nat /\ announced \in 0..writes
    /\ owed \in 0..writes
    /\ models \subseteq Model
    /\ phase \in [Process -> {"idle", "checked", "open", "committed", "unlinking"}]
    /\ cacheSeen \in [Process -> 0..cacheSeq]
    /\ registrySeen \in [Process -> 0..registrySeq]
    /\ cache \in [Process -> {Empty} \cup 0..writes]
    /\ cleared \subseteq Process
    /\ loaded \in [Process -> SUBSET Model]
    /\ snap \in [Process -> 0..writes] /\ mine \in [Process -> 0..writes]
    /\ created \in [Process -> SUBSET Model]
    /\ floor \in [Process -> 0..writes]
    /\ lost \in BOOLEAN /\ crashes \in Nat

Reader == Process \ Writer

\* The next check of p will clear its caches.
Told(p) == cacheSeen[p] # cacheSeq \/ registrySeen[p] # registrySeq

\* Some process still has to signal what it committed.
SignalPending == lost \/ \E q \in Process : YetToSignal(q)

\* A process that never signals itself and caches a value that a commit with the flag
\* _any_cache_cleared up, or the unlink of a model, made outdated will clear it at its
\* next check, unless the committer is yet to signal or was killed before.  It does not
\* hold of every committed change: a key that the writer's own cache lacks is cleared
\* with the flag down (tools/cache.py:56-62), and such a commit is not signalled.
ReadersAreTold ==
    \A p \in Reader : cache[p] # Empty /\ cache[p] < owed => Told(p) \/ SignalPending

\* Within a request, such a process reads nothing from its cache that is older
\* than what was signalled before the request, even while others commit.
ReadersAreFresh ==
    \A p \in Reader : phase[p] = "open" /\ cache[p] # Empty => cache[p] >= floor[p]

\* A model that was deleted leaves the registry of such a process at the next check.
DeletedModelsTold ==
    \A p \in Reader : loaded[p] \subseteq models \/ registrySeen[p] # registrySeq \/ SignalPending

=============================================================================
