------------------------------ MODULE CronJobs ------------------------------
(***************************************************************************)
(* The scheduler: rows of ir_cron and the runners that process them (the   *)
(* cron threads of service/cron.py, or the WorkerCron processes of         *)
(* service/workers.py).  A runner polls the due jobs in one transaction,   *)
(* closes it, then locks and processes them one after the other from the   *)
(* dictionaries it polled, which it never reads again.                     *)
(*                                                                         *)
(* Time is counted in Ticks; the occurrences of a job, the times it is to  *)
(* be called at, are FirstCall, FirstCall + Interval, ...                  *)
(***************************************************************************)
EXTENDS Integers, FiniteSets

CONSTANTS
    Job,            \* rows of ir_cron
    Runner,         \* cron threads or processes
    Priority,       \* [Job -> number], the smallest first
    Interval,       \* [Job -> positive]
    FirstCall,      \* [Job -> initial nextcall]
    Budget,         \* [Job -> initial numbercall], negative: no limit
    DoAll,          \* jobs that repeat missed occurrences
    Prefork,        \* runners are processes the master starts again
    None,           \* no runner, no job
    MaxTime,        \* bound on the clock
    MaxCrash,       \* bound on kills of runners
    MaxEdit         \* bound on the users' writes of jobs

ASSUME CronAssumption ==
    /\ Priority \in [Job -> Int]
    /\ Interval \in [Job -> Nat \ {0}]
    /\ FirstCall \in [Job -> Nat]
    /\ Budget \in [Job -> Int]
    /\ DoAll \subseteq Job
    /\ Prefork \in BOOLEAN
    /\ None \notin Runner
    /\ MaxTime \in Nat /\ MaxCrash \in Nat /\ MaxEdit \in Nat

VARIABLES
    now,        \* the clock
    row,        \* [Job -> its committed row]
    lock,       \* [Job -> the runner that holds the row lock, or None]
    pc,         \* [Runner -> where it is in its loop]
    todo,       \* [Runner -> polled dictionaries it has yet to take up]
    cur,        \* [Runner -> the dictionary it is busy with, or None]
    overtaken,  \* runners whose locking statement has a snapshot that is too old
    out,        \* [Runner -> what the loop over cur came to]
    called,     \* [Job -> occurrences whose call is committed]
    calls,      \* [Job -> number of committed calls]
    crashes, edits

vars == <<now, row, lock, pc, todo, cur, overtaken, out,
          called, calls, crashes, edits>>

Row == [nextcall: Nat, numbercall: Int, active: BOOLEAN, exists: BOOLEAN]
Dict == [job: Job, nextcall: Nat, numbercall: Int]
Out == [times: SUBSET Nat, nextcall: Nat, numbercall: Int]

NoOut == [times |-> {}, nextcall |-> 0, numbercall |-> 0]

Init ==
    /\ now = 0
    /\ row = [j \in Job |-> [nextcall |-> FirstCall[j], numbercall |-> Budget[j],
                             active |-> TRUE, exists |-> TRUE]]
    /\ lock = [j \in Job |-> None]
    /\ pc = [r \in Runner |-> "sleeping"]
    /\ todo = [r \in Runner |-> {}]
    /\ cur = [r \in Runner |-> None]
    /\ overtaken = {}
    /\ out = [r \in Runner |-> NoOut]
    /\ called = [j \in Job |-> {}]
    /\ calls = [j \in Job |-> 0]
    /\ crashes = 0
    /\ edits = 0

-----------------------------------------------------------------------------
\* The poll's WHERE clause.  (nextcall is a whole second and the clocks are
\* finer, so the <= of the poll and the < of the loop do not differ.)
Due(j) == row[j].exists /\ row[j].active /\ row[j].numbercall # 0 /\ row[j].nextcall < now

Polled(j) == [job |-> j, nextcall |-> row[j].nextcall, numbercall |-> row[j].numbercall]

\* The loop of _process_job over dictionary d at time t: how often it turns, ...
Turns(d, t) ==
    LET missed == Cardinality({k \in 0..t : d.nextcall + k * Interval[d.job] < t})
    IN  IF d.numbercall < 0 \/ missed <= d.numbercall THEN missed ELSE d.numbercall

\* ... which of n turns call the method (mutant: a missed call is never repeated), ...
FirstTurnOnly(d, n) == {0} \cap 0..(n - 1)

CalledTurns(d, n) == IF d.job \in DoAll THEN 0..(n - 1) ELSE {0} \cap 0..(n - 1)

\* ... the occurrences it calls, and the values it writes back.  The last call
\* of a limited job does not move nextcall.
Outcome(d, t) ==
    LET n == Turns(d, t)
        left == IF d.numbercall < 0 THEN d.numbercall ELSE d.numbercall - n
        steps == IF left = 0 /\ n > 0 THEN n - 1 ELSE n
    IN  [times      |-> {d.nextcall + k * Interval[d.job] : k \in CalledTurns(d, n)},
         nextcall   |-> d.nextcall + steps * Interval[d.job],
         numbercall |-> left]

\* A commit on the row of j makes the snapshots too old of the statements that
\* are about to lock it.
Overtake(j) == overtaken \cup {r \in Runner : pc[r] = "locking" /\ cur[r].job = j}

\* FOR UPDATE NOWAIT succeeds on the row (mutant: a SELECT that locks nothing).
AlwaysFree(j) == TRUE

Lockable(j) == lock[j] = None

\* An exception or a kill leaves the loop over the polled jobs.
DropsJobs(r) == cur' = [cur EXCEPT ![r] = None] /\ todo' = [todo EXCEPT ![r] = {}]

-----------------------------------------------------------------------------
Tick ==
    /\ now < MaxTime
    /\ now' = now + 1
    /\ UNCHANGED <<row, lock, pc, todo, cur, overtaken, out, called, calls, crashes, edits>>

\* First half of _acquire_job: the due jobs are read, and the transaction closed.
Poll(r) ==
    /\ pc[r] = "sleeping"
    /\ todo' = [todo EXCEPT ![r] = {Polled(j) : j \in {i \in Job : Due(i)}}]
    /\ pc' = [pc EXCEPT ![r] = "polled"]
    /\ UNCHANGED <<now, row, lock, cur, overtaken, out, called, calls, crashes, edits>>

\* SELECT ... FOR UPDATE NOWAIT starts in a fresh cursor, for a job of the
\* smallest priority: its snapshot is taken.
StartLock(r, d) ==
    /\ pc[r] = "polled"
    /\ \A e \in todo[r] : Priority[d.job] <= Priority[e.job]
    /\ todo' = [todo EXCEPT ![r] = @ \ {d}]
    /\ cur' = [cur EXCEPT ![r] = d]
    /\ pc' = [pc EXCEPT ![r] = "locking"]
    /\ UNCHANGED <<now, row, lock, overtaken, out, called, calls, crashes, edits>>

\* lock_not_available: another runner is busy with the job, go on with the next.
SkipLocked(r) ==
    /\ pc[r] = "locking"
    /\ ~Lockable(cur[r].job)
    /\ r \notin overtaken
    /\ cur' = [cur EXCEPT ![r] = None]
    /\ pc' = [pc EXCEPT ![r] = "polled"]
    /\ UNCHANGED <<now, row, lock, todo, overtaken, out, called, calls, crashes, edits>>

\* The row changed after the snapshot: serialization_failure is another
\* OperationalError, which is raised again, out of the loop of the runner.
LockFails(r) ==
    /\ pc[r] = "locking"
    /\ r \in overtaken
    /\ DropsJobs(r)
    /\ overtaken' = overtaken \ {r}
    /\ pc' = [pc EXCEPT ![r] = "dead"]
    /\ UNCHANGED <<now, row, lock, out, called, calls, crashes, edits>>

\* The lock is taken (on no row at all if the job was deleted before the
\* snapshot) and _process_job makes the calls in job_cr, from the dictionary.
Process(r) ==
    LET j == cur[r].job IN
    /\ pc[r] = "locking"
    /\ Lockable(j)
    /\ r \notin overtaken
    /\ lock' = [lock EXCEPT ![j] = IF row[j].exists THEN r ELSE @]
    /\ out' = [out EXCEPT ![r] = Outcome(cur[r], now)]
    /\ pc' = [pc EXCEPT ![r] = "ran"]
    /\ UNCHANGED <<now, row, todo, cur, overtaken, called, calls, crashes, edits>>

\* finally: job_cr.commit() ...
CommitJob(r) ==
    LET j == cur[r].job IN
    /\ pc[r] = "ran"
    /\ called' = [called EXCEPT ![j] = @ \cup out[r].times]
    /\ calls' = [calls EXCEPT ![j] = @ + Cardinality(out[r].times)]
    /\ pc' = [pc EXCEPT ![r] = "committed"]
    /\ UNCHANGED <<now, row, lock, todo, cur, overtaken, out, crashes, edits>>

\* The row the UPDATE of _process_job leaves.
Updated(j, o) ==
    IF row[j].exists
    THEN [row[j] EXCEPT !.nextcall = o.nextcall, !.numbercall = o.numbercall,
                        !.active = IF o.numbercall = 0 THEN FALSE ELSE @]
    ELSE row[j]

\* ... then cron_cr.commit(), with the UPDATE, which frees the row.
CommitCron(r) ==
    LET j == cur[r].job IN
    /\ pc[r] = "committed"
    /\ row' = [row EXCEPT ![j] = Updated(j, out[r])]
    /\ overtaken' = IF row[j].exists THEN Overtake(j) ELSE overtaken
    /\ lock' = [lock EXCEPT ![j] = IF @ = r THEN None ELSE @]
    /\ cur' = [cur EXCEPT ![r] = None]
    /\ out' = [out EXCEPT ![r] = NoOut]
    /\ pc' = [pc EXCEPT ![r] = "polled"]
    /\ UNCHANGED <<now, todo, called, calls, crashes, edits>>

\* _acquire_job falls off its end: it returns None whatever it did, and the runner
\* goes to sleep.
Return(r) ==
    /\ pc[r] = "polled" /\ todo[r] = {}
    /\ pc' = [pc EXCEPT ![r] = "sleeping"]
    /\ UNCHANGED <<now, row, lock, todo, cur, overtaken, out, called, calls, crashes, edits>>

\* The runner's process is killed (time limit, restart) and its transactions are
\* rolled back.  A thread is never killed alone.
Crash(r) ==
    /\ Prefork /\ crashes < MaxCrash
    /\ pc[r] # "dead"
    /\ crashes' = crashes + 1
    /\ lock' = [j \in Job |-> IF lock[j] = r THEN None ELSE lock[j]]
    /\ DropsJobs(r)
    /\ out' = [out EXCEPT ![r] = NoOut]
    /\ overtaken' = overtaken \ {r}
    /\ pc' = [pc EXCEPT ![r] = "dead"]
    /\ UNCHANGED <<now, row, called, calls, edits>>

\* Mutant of the next action: nobody replaces a runner.
NoRespawn(r) == FALSE

\* The master notices that the process is gone and spawns another (process_spawn).
Respawn(r) ==
    /\ Prefork
    /\ pc[r] = "dead"
    /\ pc' = [pc EXCEPT ![r] = "sleeping"]
    /\ UNCHANGED <<now, row, lock, todo, cur, overtaken, out, called, calls, crashes, edits>>

\* write() and unlink() of a job: _try_lock refuses while a runner holds the row.
Edit(j, new) ==
    /\ edits < MaxEdit
    /\ row[j].exists
    /\ Lockable(j)
    /\ edits' = edits + 1
    /\ row' = [row EXCEPT ![j] = new]
    /\ overtaken' = Overtake(j)
    /\ UNCHANGED <<now, lock, pc, todo, cur, out, called, calls, crashes>>

SetActive(j, b) == Edit(j, [row[j] EXCEPT !.active = b])

Unlink(j) == Edit(j, [row[j] EXCEPT !.exists = FALSE])

-----------------------------------------------------------------------------
RunnerStep(r) ==
    \/ Poll(r)
    \/ \E d \in todo[r] : StartLock(r, d)
    \/ SkipLocked(r)
    \/ LockFails(r)
    \/ Process(r)
    \/ CommitJob(r)
    \/ CommitCron(r)
    \/ Return(r)

Next ==
    \/ Tick
    \/ \E r \in Runner : RunnerStep(r) \/ Crash(r) \/ Respawn(r)
    \/ \E j \in Job : Unlink(j) \/ \E b \in BOOLEAN : SetActive(j, b)

Spec == Init /\ [][Next]_vars

\* A runner that is not killed keeps going, and the master keeps its children alive.
FairSpec == Spec /\ \A r \in Runner : WF_vars(RunnerStep(r)) /\ WF_vars(Respawn(r))

-----------------------------------------------------------------------------
Busy(r) == pc[r] \in {"ran", "committed"}

\* Type invariant, with the part of a runner's state each place in its loop uses.
TypeOK ==
    /\ now \in Nat
    /\ row \in [Job -> Row]
    /\ lock \in [Job -> Runner \cup {None}]
    /\ pc \in [Runner -> {"sleeping", "polled", "locking", "ran", "committed", "dead"}]
    /\ todo \in [Runner -> SUBSET Dict]
    /\ cur \in [Runner -> Dict \cup {None}]
    /\ overtaken \subseteq {r \in Runner : pc[r] = "locking"}
    /\ out \in [Runner -> Out]
    /\ \A r \in Runner : IsFiniteSet(out[r].times)
    /\ called \in [Job -> SUBSET Nat]
    /\ calls \in [Job -> Nat]
    /\ crashes \in Nat /\ edits \in Nat
    /\ \A r \in Runner : IF pc[r] \in {"locking", "ran", "committed"}
                         THEN cur[r] \in Dict ELSE cur[r] = None
    /\ \A r \in Runner : pc[r] \in {"sleeping", "dead"} => todo[r] = {}

\* No two runners process the same job at once, whatever stale dictionaries
\* they hold ("it means the job was already locked to be taken care of by
\* another thread"); a deleted job has no row left to lock.
OneRunnerPerJob ==
    \A r, s \in Runner :
        r # s /\ Busy(r) /\ Busy(s) /\ cur[r].job = cur[s].job => ~row[cur[r].job].exists

\* While a runner processes a job, nobody else changes the job's row: not a
\* user's write or unlink, not another runner's update.
RowKeptWhileBusy ==
    [][\A r \in Runner :
         Busy(r) /\ Busy(r)' => row'[cur[r].job] = row[cur[r].job]]_vars

\* A runner that works from a dictionary another runner has already dealt with
\* neither moves nextcall back nor gives calls back to numbercall.
ScheduleNeverRewinds ==
    [][\A j \in Job : row'[j].nextcall >= row[j].nextcall
                      /\ row'[j].numbercall <= row[j].numbercall]_vars

\* Every occurrence of a job that repeats missed calls, up to its nextcall, has
\* been called, through crashes, skips and edits.
NoOccurrenceSkipped ==
    \A j \in DoAll : \A k \in 0..MaxTime :
        FirstCall[j] + k * Interval[j] < row[j].nextcall
            => FirstCall[j] + k * Interval[j] \in called[j]

\* numbercall is never used up without calls: what a limited job that repeats missed
\* calls has left and the calls made add up to its budget or more, through kills
\* between the two commits and through updates from stale dictionaries.
NoCallLost ==
    \A j \in DoAll :
        Budget[j] >= 0 /\ row[j].exists => row[j].numbercall + calls[j] >= Budget[j]

\* A due job is eventually processed, deactivated or deleted.
DueServed == \A j \in Job : Due(j) ~> ~Due(j)

=============================================================================
