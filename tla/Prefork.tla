------------------------------ MODULE Prefork ------------------------------
(***************************************************************************)
(* The prefork server (openerp/service/workers.py): a master process that  *)
(* forks HTTP and cron workers, reaps those that end, kills those that no  *)
(* longer ping it, and stops them all when it is told to.                  *)
(*                                                                         *)
(* The master runs process_signals, process_zombie, process_timeout,       *)
(* process_spawn and sleep in a loop, one or more steps each; signals      *)
(* arrive and workers start, ping, work, exit and crash in between.  Time  *)
(* passes in select() only, one beat per Tick: the master's own code takes *)
(* none.  What a worker does with a request is left to the other modules.  *)
(***************************************************************************)
EXTENDS Naturals, FiniteSets

CONSTANTS
    Pid,            \* process ids
    Kind,           \* classes of workers: WorkerHTTP, WorkerCron
    Population,     \* [Kind -> Nat]: workers, max_cron_threads
    Timeout,        \* limit_time_real, in beats
    QueueLimit      \* signals that the master keeps (5), SIGCHLD aside

ASSUME PreforkAssumption ==
    /\ IsFiniteSet(Pid)
    /\ Population \in [Kind -> Nat]
    /\ Timeout \in Nat \ {0} /\ QueueLimit \in Nat \ {0}

VARIABLES
    master,     \* where the master is in its loop, in stop(), or that it is over
    chld, term, \* self.queue: SIGCHLD (counted up to QueueLimit), SIGTERM and SIGINT
    wakeup,     \* self.pipe has a byte
    workers,    \* self.workers, with the class of each in
    kind,       \* workers_http and workers_cron
    age,        \* beats since watchdog_time
    ping,       \* workers with a byte in watchdog_pipe
    left,       \* beats until stop() gives up
    proc,       \* the system's process table
    last        \* workers with alive = False

vars == <<master, chld, term, wakeup, workers, kind, age, ping, left, proc, last>>
queue == <<chld, term, wakeup>>

Loop == {"signals", "zombie", "timeout", "spawn", "sleep"}
Stop == {"stop", "drain", "abort"}

\* "forked" has still the master's signal handlers; "fatal" is a zombie with
\* exit status 3.
Live == {"forked", "idle", "working"}
Zombie == {"zombie", "fatal"}

TypeOK ==
    /\ master \in Loop \cup Stop \cup {"over"}
    /\ chld \in 0 .. QueueLimit /\ term \in 0 .. QueueLimit /\ wakeup \in BOOLEAN
    /\ workers \subseteq Pid
    /\ kind \in [Pid -> Kind]
    /\ age \in [Pid -> 0 .. Timeout]
    /\ ping \subseteq Pid
    /\ left \in 0 .. Timeout
    /\ proc \in [Pid -> Live \cup Zombie \cup {"none"}]
    /\ last \subseteq Pid

Registry(k) == {p \in workers : kind[p] = k}

Init ==
    /\ master = "signals"
    /\ chld = 0 /\ term = 0 /\ wakeup = FALSE
    /\ workers = {}
    /\ kind \in [Pid -> Kind]
    /\ age = [p \in Pid |-> 0]
    /\ ping = {}
    /\ left = 0
    /\ proc = [p \in Pid |-> "none"]
    /\ last = {}

-----------------------------------------------------------------------------
(* Signals to the master.                                                    *)

\* signal_handler for SIGCHLD, which it never drops
Sigchld ==
    /\ chld' = IF chld < QueueLimit THEN chld + 1 ELSE chld
    /\ wakeup' = TRUE
    /\ UNCHANGED term

\* signal_handler for SIGTERM and SIGINT
Sigterm ==
    /\ master \in Loop
    /\ chld + term < QueueLimit
    /\ term' = term + 1
    /\ wakeup' = TRUE
    /\ UNCHANGED <<master, chld, workers, kind, age, ping, left, proc, last>>

\* p ends; when the master is no more, init reaps it at once.
Ends(p, zombie) ==
    IF master = "over" THEN proc' = [proc EXCEPT ![p] = "none"] /\ UNCHANGED queue
    ELSE proc' = [proc EXCEPT ![p] = zombie] /\ Sigchld

-----------------------------------------------------------------------------
(* The master's loop: run.                                                   *)

\* Mutants of ProcessSignals: dead children are not reaped next; only the first
\* signal is looked at.
SkipsZombies ==
    /\ master = "signals"
    /\ master' = IF term > 0 THEN "stop" ELSE "timeout"
    /\ chld' = 0 /\ term' = 0
    /\ UNCHANGED <<wakeup, workers, kind, age, ping, left, proc, last>>
FirstSignal ==
    /\ master = "signals"
    /\ master' = IF term > 0 /\ chld = 0 THEN "stop" ELSE "zombie"
    /\ chld' = 0 /\ term' = 0
    /\ UNCHANGED <<wakeup, workers, kind, age, ping, left, proc, last>>

\* process_signals.  Of a queue with a SIGTERM the rest is never read.
ProcessSignals ==
    /\ master = "signals"
    /\ master' = IF term > 0 THEN "stop" ELSE "zombie"
    /\ chld' = 0 /\ term' = 0
    /\ UNCHANGED <<wakeup, workers, kind, age, ping, left, proc, last>>

\* worker_pop
WorkerPop(p) ==
    /\ workers' = workers \ {p}
    /\ ping' = ping \ {p}

\* process_zombie: waitpid.  Exit status 3 raises before the worker is popped;
\* in stop() nothing catches the exception and it ends the master.
Reap(p) ==
    /\ master \in {"zombie", "drain"}
    /\ proc[p] = "zombie"
    /\ proc' = [proc EXCEPT ![p] = "none"]
    /\ WorkerPop(p)
    /\ UNCHANGED <<master, queue, kind, age, left, last>>

ReapFatal(p) ==
    /\ master = "zombie"
    /\ proc[p] = "fatal"
    /\ proc' = [proc EXCEPT ![p] = "none"]
    /\ master' = "abort"
    /\ UNCHANGED <<queue, workers, kind, age, ping, left, last>>

ReapDone ==
    /\ master = "zombie"
    /\ \A p \in Pid : proc[p] \notin Zombie
    /\ master' = "timeout"
    /\ UNCHANGED <<queue, workers, kind, age, ping, left, proc, last>>

\* process_timeout: SIGKILL.  The worker stays registered until it is reaped.
Late(p) == p \in workers /\ age[p] >= Timeout

\* Mutant of Kill: the worker is popped before it is reaped.
KillsAndForgets(p) ==
    /\ master = "timeout" /\ Late(p) /\ proc[p] \in Live
    /\ proc' = [proc EXCEPT ![p] = "zombie"]
    /\ Sigchld /\ WorkerPop(p)
    /\ UNCHANGED <<master, kind, age, left, last>>

Kill(p) ==
    /\ master = "timeout"
    /\ Late(p) /\ proc[p] \in Live
    /\ proc' = [proc EXCEPT ![p] = "zombie"]
    /\ Sigchld
    /\ UNCHANGED <<master, workers, kind, age, ping, left, last>>

KillDone ==
    /\ master = "timeout"
    /\ ~ \E p \in Pid : Late(p) /\ proc[p] \in Live
    /\ master' = "spawn"
    /\ UNCHANGED <<queue, workers, kind, age, ping, left, proc, last>>

\* process_spawn and worker_spawn
Lacks(k) == Cardinality(Registry(k)) < Population[k]

Spawn(k, p) ==
    /\ master = "spawn"
    /\ Lacks(k)
    /\ proc[p] = "none" /\ p \notin workers
    /\ proc' = [proc EXCEPT ![p] = "forked"]
    /\ workers' = workers \cup {p}
    /\ kind' = [kind EXCEPT ![p] = k]
    /\ age' = [age EXCEPT ![p] = 0]
    /\ last' = last \ {p}
    /\ UNCHANGED <<master, queue, ping, left>>

SpawnDone ==
    /\ master = "spawn"
    /\ \A k \in Kind : ~Lacks(k)
    /\ master' = "sleep"
    /\ UNCHANGED <<queue, workers, kind, age, ping, left, proc, last>>

\* os.fork raises; run calls stop(False).
ForkFails ==
    /\ master = "spawn"
    /\ \E k \in Kind : Lacks(k)
    /\ master' = "abort"
    /\ UNCHANGED <<queue, workers, kind, age, ping, left, proc, last>>

\* sleep: select returns because of a ping or a signal, or after a beat, and
\* the pipes are emptied.
Woken ==
    /\ ping' = ping \ workers
    /\ wakeup' = FALSE
    /\ master' = "signals"
    /\ UNCHANGED <<chld, term, workers, kind, left, proc, last>>

\* Mutant of Wake: a ping of one worker counts for all.
RefreshesAll ==
    /\ master = "sleep"
    /\ wakeup \/ ping \cap workers # {}
    /\ age' = [p \in Pid |-> 0]
    /\ Woken

Wake ==
    /\ master = "sleep"
    /\ wakeup \/ ping \cap workers # {}
    /\ age' = [p \in Pid |-> IF p \in ping THEN 0 ELSE age[p]]
    /\ Woken

Older(p) == IF age[p] < Timeout THEN age[p] + 1 ELSE age[p]

Tick ==
    /\ master = "sleep"
    /\ age' = [p \in Pid |-> IF p \in ping THEN 0 ELSE Older(p)]
    /\ Woken

-----------------------------------------------------------------------------
(* The end of the master: stop.                                              *)

\* SIGTERM has its default effect on a worker that has started; before, the
\* handler it inherited puts it in the worker's copy of the queue.
Termed(p) == proc[p] \in {"idle", "working"} /\ p \in workers

StopBegin ==
    /\ master = "stop"
    /\ proc' = [p \in Pid |-> IF Termed(p) THEN "zombie" ELSE proc[p]]
    /\ left' = Timeout
    /\ master' = "drain"
    /\ UNCHANGED <<queue, workers, kind, age, ping, last>>

DrainTick ==
    /\ master = "drain"
    /\ left > 0
    /\ left' = left - 1
    /\ UNCHANGED <<master, queue, workers, kind, age, ping, proc, last>>

\* The master ends, and with it its zombies; S are the workers it kills.
Exit(S) ==
    /\ master' = "over"
    /\ proc' = [p \in Pid |-> IF p \in S \/ proc[p] \in Zombie THEN "none" ELSE proc[p]]
    /\ UNCHANGED <<queue, workers, kind, age, ping, left, last>>

StopEnd ==
    /\ \/ master = "drain" /\ (workers = {} \/ left = 0)
       \/ master = "abort"
    /\ Exit({p \in Pid : Termed(p)})

DrainRaises ==
    /\ master = "drain"
    /\ \E p \in Pid : proc[p] = "fatal"
    /\ Exit({})

\* The master is killed.
MasterDies == master # "over" /\ Exit({})

-----------------------------------------------------------------------------
(* Workers: run.                                                             *)

\* Worker.start installs the handlers.
Start(p) ==
    /\ proc[p] = "forked"
    /\ proc' = [proc EXCEPT ![p] = "idle"]
    /\ UNCHANGED <<master, queue, workers, kind, age, ping, left, last>>

\* Mutant of Round: the parent is not looked at.
StaysOn(p) ==
    /\ proc[p] = "idle"
    /\ proc' = [proc EXCEPT ![p] = "working"]
    /\ last' \in {last, last \cup {p}}
    /\ ping' = ping \cup {p}
    /\ UNCHANGED <<master, queue, workers, kind, age, left>>

\* process_limit and pipe_ping: this round is the last one when the parent has
\* changed, and when the worker has served enough or has grown too big.
Round(p) ==
    /\ proc[p] = "idle"
    /\ proc' = [proc EXCEPT ![p] = "working"]
    /\ last' = last \cup {p} \/ (last' = last /\ master # "over")
    /\ ping' = ping \cup {p}
    /\ UNCHANGED <<master, queue, workers, kind, age, left>>

\* sleep and process_work have returned: the next round, or the end.
Finish(p) ==
    /\ proc[p] = "working"
    /\ IF p \in last THEN Ends(p, "zombie")
       ELSE proc' = [proc EXCEPT ![p] = "idle"] /\ UNCHANGED queue
    /\ UNCHANGED <<master, workers, kind, age, ping, left, last>>

\* An exception (status 1), a signal, or an exit with status 3.
Crash(p) ==
    /\ proc[p] \in Live
    /\ \E z \in Zombie : Ends(p, z)
    /\ UNCHANGED <<master, workers, kind, age, ping, left, last>>

-----------------------------------------------------------------------------
MasterStep ==
    \/ ProcessSignals \/ ReapDone \/ KillDone \/ SpawnDone \/ Wake
    \/ \E p \in Pid : Reap(p) \/ ReapFatal(p) \/ Kill(p) \/ \E k \in Kind : Spawn(k, p)
    \/ StopBegin \/ DrainTick \/ StopEnd \/ DrainRaises

Next ==
    \/ MasterStep \/ Tick \/ ForkFails \/ MasterDies
    \/ Sigterm
    \/ \E p \in Pid : Start(p) \/ Round(p) \/ Finish(p) \/ Crash(p)

Spec == Init /\ [][Next]_vars

\* The master is scheduled, time passes whatever wakes the master before, and a
\* worker runs; but nothing makes it finish what it is working on.
Fairness ==
    /\ WF_vars(MasterStep)
    /\ SF_vars(Tick)
    /\ \A p \in Pid : WF_vars(Start(p)) /\ WF_vars(Round(p))

FairSpec == Spec /\ Fairness

-----------------------------------------------------------------------------
(* Correctness.                                                              *)

\* Until the master is over or aborts every child is registered, so that each
\* is watched, reaped and told to stop, and no class has more than its share
\* (worker_spawn, worker_pop, process_spawn).
NoForgottenWorker ==
    /\ master \in Loop \cup {"stop", "drain"} => {p \in Pid : proc[p] # "none"} \subseteq workers
    /\ \A k \in Kind : Cardinality(Registry(k)) <= Population[k]

\* A worker that ended is reaped, hence replaced, or the server stops
\* (process_zombie, process_spawn).
DeadAreReaped ==
    \A p \in Pid : proc[p] \in Zombie ~> proc[p] \notin Zombie

\* A worker does not keep the server in one request for ever: the watchdog ends
\* it, whatever the other workers do (process_timeout, sleep).
StuckAreKilled ==
    \A p \in Pid : proc[p] = "working" ~> (proc[p] # "working" \/ master = "over")

\* A SIGTERM that is queued stops the master (process_signals, stop), even while
\* a worker has not installed its handlers yet.
StopEnds == term > 0 ~> master = "over"

\* No worker outlives its master and goes on serving: it leaves, or is stuck in
\* one last request (process_limit).
OrphansLeave ==
    <>(master = "over") =>
        \A p \in Pid : <>[](proc[p] = "none") \/ <>[](proc[p] = "working")
=============================================================================
