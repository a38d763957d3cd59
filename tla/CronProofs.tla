----------------------------- MODULE CronProofs -----------------------------
(***************************************************************************)
(* Proofs about CronJobs for any set of jobs and runners: the types, and   *)
(* that the row lock alone keeps two runners off one job and everybody     *)
(* else off its row.  Then the ledger: for a job that repeats missed calls *)
(* nextcall and numbercall never run ahead of the calls that are           *)
(* committed, since job_cr commits before cron_cr and every dictionary was *)
(* true when it was polled; and the row never moves back.                  *)
(***************************************************************************)
EXTENDS CronJobs, FiniteSetTheorems, TLAPS

\* A busy runner holds the lock of its job's row, if there still is a row.
LockHeld == \A r \in Runner : Busy(r) /\ row[cur[r].job].exists => lock[cur[r].job] = r

IInv == TypeOK /\ LockHeld

USE DEF Lockable

-----------------------------------------------------------------------------
(* What the loop of _process_job returns *)

LEMMA ProductNat == ASSUME NEW a \in Nat, NEW b \in Nat PROVE a * b \in Nat
  OBVIOUS

\* The loop turns a natural number of times.
LEMMA TurnsNat == ASSUME NEW d \in Dict, NEW t \in Nat PROVE Turns(d, t) \in Nat
  <1> DEFINE S == {k \in 0..t : d.nextcall + k * Interval[d.job] < t}
  <1>1. IsFiniteSet(0..t) BY FS_Interval
  <1>2. IsFiniteSet(S) BY <1>1, FS_Subset
  <1>3. Cardinality(S) \in Nat BY <1>2, FS_CardinalityType
  <1>4. d.numbercall \in Int BY DEF Dict
  <1> HIDE DEF S
  <1>5. Turns(d, t) = IF d.numbercall < 0 \/ Cardinality(S) <= d.numbercall
                      THEN Cardinality(S) ELSE d.numbercall
    BY DEF Turns, S
  <1> QED BY <1>3, <1>4, <1>5

\* Its outcome has the type of Out, and calls finitely many occurrences.
LEMMA OutcomeType ==
  ASSUME NEW d \in Dict, NEW t \in Nat, CronAssumption
  PROVE  Outcome(d, t) \in Out /\ IsFiniteSet(Outcome(d, t).times)
  <1> DEFINE n == Turns(d, t)
             left == IF d.numbercall < 0 THEN d.numbercall ELSE d.numbercall - n
             steps == IF left = 0 /\ n > 0 THEN n - 1 ELSE n
             f(k) == d.nextcall + k * Interval[d.job]
             times == {f(k) : k \in CalledTurns(d, n)}
  <1>1. n \in Nat BY TurnsNat
  <1>2. d.job \in Job /\ d.nextcall \in Nat /\ d.numbercall \in Int BY DEF Dict
  <1>3. Interval[d.job] \in Nat BY <1>2 DEF CronAssumption
  <1> HIDE DEF n
  <1>4. left \in Int /\ steps \in Nat BY <1>1, <1>2
  <1>5. CalledTurns(d, n) \subseteq 0..(n - 1) BY DEF CalledTurns
  <1>6. IsFiniteSet(CalledTurns(d, n))
    <2>1. n - 1 \in Int BY <1>1
    <2>2. IsFiniteSet(0..(n - 1)) BY <2>1, FS_Interval
    <2> QED BY <2>2, <1>5, FS_Subset
  <1>7. times \subseteq Nat
    <2>1. \A k \in CalledTurns(d, n) : k \in Nat BY <1>5, <1>1
    <2>2. \A k \in Nat : k * Interval[d.job] \in Nat BY <1>3, ProductNat
    <2> QED BY <2>1, <2>2, <1>2
  <1>8. IsFiniteSet(times)
    <2> DEFINE g == [k \in CalledTurns(d, n) |-> f(k)]
    <2>1. g \in Surjection(CalledTurns(d, n), times) BY DEF Surjection
    <2> QED BY <1>6, <2>1, FS_Surjection
  <1>9. d.nextcall + steps * Interval[d.job] \in Nat
    <2> HIDE DEF steps
    <2>1. steps * Interval[d.job] \in Nat BY <1>3, <1>4, ProductNat
    <2> QED BY <2>1, <1>2
  <1>10. Outcome(d, t) = [times |-> times, nextcall |-> d.nextcall + steps * Interval[d.job],
                          numbercall |-> left]
    BY DEF Outcome, n
  <1> HIDE DEF times, steps, left
  <1> QED BY <1>4, <1>7, <1>8, <1>9, <1>10 DEF Out

-----------------------------------------------------------------------------
(* The invariant *)

LEMMA InitIInv == CronAssumption /\ Init => IInv
  <1> SUFFICES ASSUME CronAssumption, Init PROVE IInv
    OBVIOUS
  <1>1. NoOut \in Out /\ IsFiniteSet(NoOut.times) BY FS_EmptySet DEF NoOut, Out
  <1>2. row \in [Job -> Row] BY DEF Init, CronAssumption, Row
  <1>4. TypeOK BY <1>1, <1>2 DEF Init, TypeOK
  <1>5. LockHeld BY DEF Init, LockHeld, Busy
  <1> QED BY <1>4, <1>5 DEF IInv


\* What a user's write and a runner's update leave is a row.
LEMMA EditedRow ==
  ASSUME IInv, NEW j \in Job, NEW b \in BOOLEAN
  PROVE  [row[j] EXCEPT !.active = b] \in Row /\ [row[j] EXCEPT !.exists = FALSE] \in Row
  <1>1. row[j] \in Row BY DEF IInv, TypeOK
  <1> QED BY <1>1 DEF Row

LEMMA UpdatedRow ==
  ASSUME IInv, NEW j \in Job, NEW r \in Runner
  PROVE  Updated(j, out[r]) \in Row /\ Updated(j, out[r]).exists = row[j].exists
  <1>1. row[j] \in Row /\ out[r] \in Out BY DEF IInv, TypeOK
  <1> QED BY <1>1 DEF Updated, Row, Out

LEMMA PollStep == ASSUME IInv, NEW r \in Runner, Poll(r) PROVE IInv'
  <1>1. {Polled(j) : j \in {i \in Job : Due(i)}} \in SUBSET Dict
    BY DEF Polled, Dict, IInv, TypeOK, Row
  <1>2. TypeOK' BY <1>1 DEF IInv, TypeOK, Poll
  <1>3. LockHeld' BY DEF IInv, LockHeld, Busy, Poll, TypeOK
  <1> QED BY <1>2, <1>3 DEF IInv

LEMMA StartLockStep ==
  ASSUME IInv, NEW r \in Runner, NEW d \in todo[r], StartLock(r, d) PROVE IInv'
  <1>1. d \in Dict BY DEF IInv, TypeOK
  <1>2. TypeOK' BY <1>1 DEF IInv, TypeOK, StartLock
  <1>3. LockHeld' BY DEF IInv, LockHeld, Busy, StartLock, TypeOK
  <1> QED BY <1>2, <1>3 DEF IInv

LEMMA SkipLockedStep == ASSUME IInv, NEW r \in Runner, SkipLocked(r) PROVE IInv'
  <1>1. TypeOK' BY DEF IInv, TypeOK, SkipLocked
  <1>2. LockHeld' BY DEF IInv, LockHeld, Busy, SkipLocked, TypeOK
  <1> QED BY <1>1, <1>2 DEF IInv

LEMMA LockFailsStep == ASSUME IInv, NEW r \in Runner, LockFails(r) PROVE IInv'
  <1>1. TypeOK' BY DEF IInv, TypeOK, LockFails, DropsJobs
  <1>2. LockHeld' BY DEF IInv, LockHeld, Busy, LockFails, DropsJobs, TypeOK
  <1> QED BY <1>1, <1>2 DEF IInv

\* The lock of the row was free, so no other busy runner has it.
LEMMA ProcessStep ==
  ASSUME CronAssumption, IInv, NEW r \in Runner, Process(r) PROVE IInv'
  <1> DEFINE j == cur[r].job
  <1>1. cur[r] \in Dict /\ j \in Job /\ now \in Nat BY DEF IInv, TypeOK, Process, Dict
  <1>2. Outcome(cur[r], now) \in Out /\ IsFiniteSet(Outcome(cur[r], now).times)
    BY <1>1, OutcomeType
  <1>3. TypeOK' BY <1>1, <1>2 DEF IInv, TypeOK, Process
  <1>4. LockHeld'
    <2> SUFFICES ASSUME NEW s \in Runner, Busy(s)', row[cur[s].job].exists
                 PROVE  lock'[cur[s].job] = s
      BY DEF LockHeld, Process
    <2>1. CASE s = r BY <2>1, <1>1 DEF Process, IInv, TypeOK
    <2>2. CASE s # r
      <3>1. Busy(s) BY <2>2 DEF Busy, Process, IInv, TypeOK
      <3>2. lock[cur[s].job] = s BY <3>1 DEF IInv, LockHeld
      <3>3. cur[s].job # j BY <3>2 DEF Process, CronAssumption
      <3> QED BY <3>2, <3>3 DEF Process, IInv, TypeOK
    <2> QED BY <2>1, <2>2
  <1> QED BY <1>3, <1>4 DEF IInv

LEMMA CommitJobStep == ASSUME IInv, NEW r \in Runner, CommitJob(r) PROVE IInv'
  <1> DEFINE j == cur[r].job
  <1>1. j \in Job BY DEF IInv, TypeOK, CommitJob, Dict
  <1>2. out[r].times \subseteq Nat /\ Cardinality(out[r].times) \in Nat
    BY FS_CardinalityType DEF IInv, TypeOK, Out
  <1>3. called' \in [Job -> SUBSET Nat] BY <1>1, <1>2 DEF IInv, TypeOK, CommitJob
  <1>4. calls' \in [Job -> Nat] BY <1>1, <1>2 DEF IInv, TypeOK, CommitJob
  <1>5. TypeOK' BY <1>3, <1>4 DEF IInv, TypeOK, CommitJob
  <1>6. LockHeld' BY DEF IInv, LockHeld, Busy, CommitJob, TypeOK
  <1> QED BY <1>5, <1>6 DEF IInv

\* Only the runner's own lock is given back, and no row is created.
LEMMA CommitCronStep == ASSUME IInv, NEW r \in Runner, CommitCron(r) PROVE IInv'
  <1> DEFINE j == cur[r].job
  <1>1. j \in Job BY DEF IInv, TypeOK, CommitCron, Dict
  <1>2. Updated(j, out[r]) \in Row /\ Updated(j, out[r]).exists = row[j].exists
    BY <1>1, UpdatedRow
  <1>3. NoOut \in Out /\ IsFiniteSet(NoOut.times) BY FS_EmptySet DEF NoOut, Out
  <1>4. row' \in [Job -> Row] BY <1>1, <1>2 DEF IInv, TypeOK, CommitCron
  <1>5. lock' \in [Job -> Runner \cup {None}] BY <1>1 DEF IInv, TypeOK, CommitCron
  <1>6. overtaken' \subseteq {s \in Runner : pc[s] = "locking"} 
    BY DEF IInv, TypeOK, CommitCron, Overtake
  <1>7. overtaken' \subseteq {s \in Runner : pc'[s] = "locking"}
    BY <1>6 DEF IInv, TypeOK, CommitCron
  <1>8. TypeOK' BY <1>3, <1>4, <1>5, <1>7 DEF IInv, TypeOK, CommitCron
  <1>9. LockHeld'
    <2> SUFFICES ASSUME NEW s \in Runner, Busy(s)', row'[cur'[s].job].exists
                 PROVE  lock'[cur'[s].job] = s
      BY DEF LockHeld
    <2>1. s # r BY DEF Busy, CommitCron, IInv, TypeOK
    <2>2. Busy(s) /\ cur'[s] = cur[s] BY <2>1 DEF Busy, CommitCron, IInv, TypeOK
    <2>3. cur[s].job \in Job BY <2>2 DEF Busy, IInv, TypeOK, Dict
    <2>4. row[cur[s].job].exists BY <2>2, <2>3, <1>1, <1>2 DEF CommitCron, IInv, TypeOK
    <2>5. lock[cur[s].job] = s BY <2>2, <2>4 DEF IInv, LockHeld
    <2> QED BY <2>1, <2>2, <2>3, <2>5, <1>1 DEF CommitCron, IInv, TypeOK
  <1> QED BY <1>8, <1>9 DEF IInv

LEMMA ReturnStep == ASSUME IInv, NEW r \in Runner, Return(r) PROVE IInv'
  <1>1. TypeOK' BY DEF IInv, TypeOK, Return
  <1>2. LockHeld' BY DEF IInv, LockHeld, Busy, Return, TypeOK
  <1> QED BY <1>1, <1>2 DEF IInv

LEMMA CrashStep == ASSUME IInv, NEW r \in Runner, Crash(r) PROVE IInv'
  <1>1. NoOut \in Out /\ IsFiniteSet(NoOut.times) BY FS_EmptySet DEF NoOut, Out
  <1>2. TypeOK' BY <1>1 DEF IInv, TypeOK, Crash, DropsJobs
  <1>3. LockHeld'
    <2> SUFFICES ASSUME NEW s \in Runner, Busy(s)', row[cur'[s].job].exists
                 PROVE  lock'[cur'[s].job] = s
      BY DEF LockHeld, Crash
    <2>1. s # r BY DEF Busy, Crash, IInv, TypeOK
    <2>2. Busy(s) /\ cur'[s] = cur[s] BY <2>1 DEF Busy, Crash, DropsJobs, IInv, TypeOK
    <2>3. cur[s].job \in Job BY <2>2 DEF Busy, IInv, TypeOK, Dict
    <2>4. lock[cur[s].job] = s BY <2>2 DEF IInv, LockHeld
    <2> QED BY <2>1, <2>2, <2>3, <2>4 DEF Crash
  <1> QED BY <1>2, <1>3 DEF IInv

LEMMA RespawnStep == ASSUME IInv, NEW r \in Runner, Respawn(r) PROVE IInv'
  <1>1. TypeOK' BY DEF IInv, TypeOK, Respawn
  <1>2. LockHeld' BY DEF IInv, LockHeld, Busy, Respawn, TypeOK
  <1> QED BY <1>1, <1>2 DEF IInv

\* A user's write finds the row lock free, so nobody is busy with the job.
LEMMA EditStep ==
  ASSUME CronAssumption, IInv, NEW j \in Job, NEW new \in Row, Edit(j, new) PROVE IInv'
  <1>1. overtaken' \subseteq {s \in Runner : pc[s] = "locking"}
    BY DEF IInv, TypeOK, Edit, Overtake
  <1>2. TypeOK' BY <1>1 DEF IInv, TypeOK, Edit
  <1>3. LockHeld'
    <2> SUFFICES ASSUME NEW s \in Runner, Busy(s), row'[cur[s].job].exists
                 PROVE  lock[cur[s].job] = s
      BY DEF LockHeld, Edit, Busy
    <2>1. cur[s].job \in Job BY DEF Busy, IInv, TypeOK, Dict
    <2>2. CASE cur[s].job = j BY <2>2 DEF Edit, IInv, LockHeld
    <2>3. CASE cur[s].job # j BY <2>1, <2>3 DEF Edit, IInv, LockHeld, TypeOK
    <2> QED BY <2>2, <2>3
  <1> QED BY <1>2, <1>3 DEF IInv

LEMMA NextIInv == CronAssumption /\ IInv /\ [Next]_vars => IInv'
  <1> SUFFICES ASSUME CronAssumption, IInv, [Next]_vars PROVE IInv'
    OBVIOUS
  <1>1. CASE Tick
    <2>1. TypeOK' BY <1>1 DEF IInv, TypeOK, Tick
    <2>2. LockHeld' BY <1>1 DEF IInv, LockHeld, Busy, Tick
    <2> QED BY <2>1, <2>2 DEF IInv
  <1>2. ASSUME NEW r \in Runner, RunnerStep(r) PROVE IInv'
    BY <1>2, PollStep, StartLockStep, SkipLockedStep, LockFailsStep, ProcessStep,
       CommitJobStep, CommitCronStep, ReturnStep DEF RunnerStep
  <1>3. ASSUME NEW r \in Runner, Crash(r) \/ Respawn(r) PROVE IInv'
    BY <1>3, CrashStep, RespawnStep
  <1>4. ASSUME NEW j \in Job, NEW b \in BOOLEAN, SetActive(j, b) \/ Unlink(j) PROVE IInv'
    <2>1. [row[j] EXCEPT !.active = b] \in Row /\ [row[j] EXCEPT !.exists = FALSE] \in Row
      BY EditedRow
    <2> QED BY <1>4, <2>1, EditStep DEF SetActive, Unlink
  <1>5. CASE UNCHANGED vars
    <2>1. TypeOK' BY <1>5 DEF IInv, TypeOK, vars
    <2>2. LockHeld' BY <1>5 DEF IInv, LockHeld, Busy, vars
    <2> QED BY <2>1, <2>2 DEF IInv
  <1> QED BY <1>1, <1>2, <1>3, <1>4, <1>5 DEF Next

\* The invariant of the scheduler, for any jobs, runners and bounds.
THEOREM Invariance == Spec => []IInv
  <1>1. Init => IInv BY InitIInv, CronAssumption
  <1>2. IInv /\ [Next]_vars => IInv' BY NextIInv, CronAssumption
  <1> QED BY <1>1, <1>2, PTL DEF Spec

\* Variables keep their types, and each place of a runner's loop its part of them.
THEOREM TypeCorrect == Spec => []TypeOK
  <1>1. IInv => TypeOK BY DEF IInv
  <1> QED BY <1>1, Invariance, PTL

\* FOR UPDATE NOWAIT keeps two runners off the same existing job.
THEOREM MutualExclusion == Spec => []OneRunnerPerJob
  <1>1. IInv => OneRunnerPerJob BY DEF IInv, LockHeld, OneRunnerPerJob
  <1> QED BY <1>1, Invariance, PTL

\* While a runner is busy with a job, no other commit touches its row.
THEOREM RowKept == Spec => RowKeptWhileBusy
  <1> DEFINE Kept == \A r \in Runner :
                        Busy(r) /\ Busy(r)' => row'[cur[r].job] = row[cur[r].job]
  <1>1. IInv /\ [Next]_vars => [Kept]_vars
    <2> SUFFICES ASSUME IInv, Next, NEW r \in Runner, Busy(r), Busy(r)'
                 PROVE  row'[cur[r].job] = row[cur[r].job]
      BY DEF vars
    <2> DEFINE j == cur[r].job
    <2>1. j \in Job BY DEF Busy, IInv, TypeOK, Dict
    <2>2. ASSUME NEW s \in Runner, CommitCron(s) PROVE row'[j] = row[j]
      <3>1. s # r BY <2>2 DEF CommitCron, Busy, IInv, TypeOK
      <3>2. CASE cur[s].job = j
        <4>1. ~row[j].exists BY <2>2, <3>1, <3>2 DEF CommitCron, Busy, IInv, LockHeld
        <4> QED BY <2>1, <2>2, <3>2, <4>1 DEF CommitCron, Updated, IInv, TypeOK
      <3>3. CASE cur[s].job # j BY <2>2, <3>3 DEF CommitCron
      <3> QED BY <3>2, <3>3
    <2>3. ASSUME NEW i \in Job, NEW new \in Row, Edit(i, new) PROVE row'[j] = row[j]
      <3>1. i # j BY <2>3, CronAssumption DEF Edit, IInv, LockHeld, CronAssumption
      <3> QED BY <2>3, <3>1 DEF Edit
    <2>4. ASSUME NEW i \in Job, NEW b \in BOOLEAN, SetActive(i, b) \/ Unlink(i)
          PROVE  row'[j] = row[j]
      <3>1. [row[i] EXCEPT !.active = b] \in Row /\ [row[i] EXCEPT !.exists = FALSE] \in Row
        BY EditedRow
      <3> QED BY <2>3, <2>4, <3>1 DEF SetActive, Unlink
    <2>5. ASSUME NEW s \in Runner, RunnerStep(s) \/ Crash(s) \/ Respawn(s), ~CommitCron(s)
          PROVE  row' = row
      BY <2>5 DEF RunnerStep, Poll, StartLock, SkipLocked, LockFails, Process, CommitJob,
                  Return, Crash, Respawn
    <2>6. CASE Tick BY <2>6 DEF Tick
    <2> QED BY <2>2, <2>4, <2>5, <2>6 DEF Next
  <1> QED BY <1>1, Invariance, PTL DEF Spec, RowKeptWhileBusy

-----------------------------------------------------------------------------
(* The ledger of calls                                                       *)

\* x is an occurrence of j.
Occurrence(j, x) == \E k \in Nat : x = FirstCall[j] + k * Interval[j]

\* nextcall x and numbercall n, of a row, a dictionary or an outcome, are backed by
\* the calls made: the occurrences in done, c calls in all.
Backed(j, x, n, done, c) ==
    /\ Occurrence(j, x)
    /\ \A k \in Nat : FirstCall[j] + k * Interval[j] < x => FirstCall[j] + k * Interval[j] \in done
    /\ n + c >= Budget[j]

RowsBacked ==
    \A j \in DoAll : Backed(j, row[j].nextcall, row[j].numbercall, called[j], calls[j])

DictBacked(d) ==
    d.job \in DoAll => Backed(d.job, d.nextcall, d.numbercall, called[d.job], calls[d.job])

DictsBacked ==
    \A r \in Runner : /\ \A d \in todo[r] : DictBacked(d)
                      /\ pc[r] \in {"locking", "ran", "committed"} => DictBacked(cur[r])

\* The outcome of a busy runner is backed as soon as its calls are committed.
OutsBacked ==
    \A r \in Runner : LET j == cur[r].job  o == out[r] IN
        j \in DoAll =>
            /\ pc[r] = "ran" => Backed(j, o.nextcall, o.numbercall, called[j] \cup o.times,
                                       calls[j] + Cardinality(o.times))
            /\ pc[r] = "committed" => Backed(j, o.nextcall, o.numbercall, called[j], calls[j])

Ledger == RowsBacked /\ DictsBacked /\ OutsBacked

-----------------------------------------------------------------------------
LEMMA Multiples ==
  ASSUME NEW i \in Nat \ {0}, NEW a \in Nat, NEW b \in Nat
  PROVE  /\ a * i \in Nat /\ b * i \in Nat
         /\ a * i < b * i => a < b
         /\ a * i = b * i => a = b
         /\ (a + b) * i = a * i + b * i
         /\ a < b => a * i < b * i
  OBVIOUS

\* More calls back at least as much.
LEMMA BackedMore ==
  ASSUME NEW j, NEW x, NEW n \in Int, NEW done, NEW c \in Nat, Budget[j] \in Int,
         NEW more, NEW e \in Nat, done \subseteq more, c <= e, Backed(j, x, n, done, c)
  PROVE  Backed(j, x, n, more, e)
  BY DEF Backed

\* The loop of _process_job calls every occurrence it passes.
LEMMA OutcomeBacked ==
  ASSUME CronAssumption, NEW d \in Dict, NEW t \in Nat, d.job \in DoAll,
         NEW done, NEW c \in Nat, Backed(d.job, d.nextcall, d.numbercall, done, c)
  PROVE  LET o == Outcome(d, t) IN
         Backed(d.job, o.nextcall, o.numbercall, done \cup o.times, c + Cardinality(o.times))
  <1> DEFINE n == Turns(d, t)
             i == Interval[d.job]
             first == FirstCall[d.job]
             left == IF d.numbercall < 0 THEN d.numbercall ELSE d.numbercall - n
             steps == IF left = 0 /\ n > 0 THEN n - 1 ELSE n
             times == {d.nextcall + k * i : k \in 0..(n - 1)}
             next == d.nextcall + steps * i
  <1>1. n \in Nat BY TurnsNat
  <1>2. /\ d.job \in Job /\ d.nextcall \in Nat /\ d.numbercall \in Int
        /\ i \in Nat \ {0} /\ first \in Nat /\ Budget[d.job] \in Int
    BY DEF Dict, CronAssumption
  <1>3. Outcome(d, t) = [times |-> times, nextcall |-> next, numbercall |-> left]
    BY DEF Outcome, CalledTurns
  <1> HIDE DEF n, i, first
  <1>4. left \in Int /\ left + n >= d.numbercall /\ steps \in Nat /\ steps <= n
    BY <1>1, <1>2
  <1>5. Cardinality(times) = n
    <2> DEFINE f == [k \in 0..(n - 1) |-> d.nextcall + k * i]
    <2>1. \A k \in 0..(n - 1) : k \in Nat BY <1>1
    <2>2. ASSUME NEW k \in 0..(n - 1), NEW l \in 0..(n - 1), f[k] = f[l] PROVE k = l
      <3>1. k * i \in Nat /\ l * i \in Nat BY <1>2, <2>1, Multiples
      <3>2. k * i = l * i BY <1>2, <2>2, <3>1
      <3> QED BY <1>2, <2>1, <3>2, Multiples
    <2>3. f \in Bijection(0..(n - 1), times)
      <3>1. f \in [0..(n - 1) -> times] OBVIOUS
      <3>2. \A x \in times : \E k \in 0..(n - 1) : f[k] = x OBVIOUS
      <3> HIDE DEF f, times
      <3> QED BY <2>2, <3>1, <3>2 DEF Bijection, Injection, Surjection, IsInjective
    <2>4. IsFiniteSet(0..(n - 1)) /\ Cardinality(0..(n - 1)) = n
      <3>1. PICK b \in Int : b = n - 1 BY <1>1
      <3>2. PICK a \in Int : a = 0 OBVIOUS
      <3>3. IsFiniteSet(a..b) /\ Cardinality(a..b) = IF a > b THEN 0 ELSE b - a + 1
        BY FS_Interval
      <3> QED BY <1>1, <3>1, <3>2, <3>3
    <2> HIDE DEF f, times
    <2> QED BY <2>3, <2>4, FS_Bijection DEF ExistsBijection
  <1> HIDE DEF times, left, steps
  <1>6. PICK m \in Nat : d.nextcall = first + m * i BY DEF Backed, Occurrence, first, i
  <1>7. Occurrence(d.job, next)
    <2>1. m + steps \in Nat /\ first + (m + steps) * i = next
      BY <1>2, <1>4, <1>6, Multiples
    <2> QED BY <2>1 DEF Occurrence, first, i
  <1>8. ASSUME NEW k \in Nat, first + k * i < next
        PROVE  first + k * i \in done \cup times
    <2>1. CASE k < m
      <3>1. k * i < m * i /\ k * i \in Nat /\ m * i \in Nat BY <1>2, <2>1, Multiples
      <3>2. first + k * i < d.nextcall BY <1>2, <1>6, <3>1
      <3> QED BY <3>2 DEF Backed, first, i
    <2>2. CASE m <= k
      <3>1. PICK l \in Nat : k = m + l
        <4>1. k - m \in Nat /\ k = m + (k - m) BY <2>2
        <4> QED BY <4>1
      <3>2. k * i = m * i + l * i /\ l * i \in Nat /\ m * i \in Nat /\ steps * i \in Nat
        BY <1>2, <1>4, <3>1, Multiples
      <3>3. first + k * i = d.nextcall + l * i /\ l * i < steps * i
        BY <1>2, <1>6, <1>8, <3>2
      <3>4. l < steps BY <1>2, <1>4, <3>3, Multiples
      <3>5. l \in 0..(n - 1) BY <1>1, <1>4, <3>4
      <3> QED BY <3>3, <3>5 DEF times
    <2> QED BY <2>1, <2>2
  <1>9. left + (c + n) >= Budget[d.job] BY <1>1, <1>2, <1>4 DEF Backed
  <1> QED BY <1>3, <1>5, <1>7, <1>8, <1>9 DEF Backed, first, i

-----------------------------------------------------------------------------
LEMMA InitLedger == CronAssumption /\ Init => Ledger
  <1> SUFFICES ASSUME CronAssumption, Init PROVE Ledger
    OBVIOUS
  <1>1. RowsBacked
    <2> SUFFICES ASSUME NEW j \in DoAll
                 PROVE  Backed(j, FirstCall[j], Budget[j], {}, 0)
      BY DEF Init, RowsBacked, CronAssumption
    <2>1. j \in Job /\ FirstCall[j] \in Nat /\ Interval[j] \in Nat \ {0} /\ Budget[j] \in Int
      BY DEF CronAssumption
    <2>2. 0 * Interval[j] = 0 /\ \A k \in Nat : k * Interval[j] \in Nat
      BY <2>1, Multiples
    <2>3. Occurrence(j, FirstCall[j])
      <3>1. FirstCall[j] = FirstCall[j] + 0 * Interval[j] BY <2>1, <2>2
      <3> QED BY <3>1 DEF Occurrence
    <2> QED BY <2>1, <2>2, <2>3 DEF Backed
  <1>2. DictsBacked BY DEF Init, DictsBacked
  <1>3. OutsBacked BY DEF Init, OutsBacked
  <1> QED BY <1>1, <1>2, <1>3 DEF Ledger

\* Steps that commit nothing and leave the outcomes of busy runners alone.
LEMMA QuietStep ==
  ASSUME IInv, Ledger, UNCHANGED <<called, calls>>,
         \A j \in Job : row'[j].nextcall = row[j].nextcall /\ row'[j].numbercall = row[j].numbercall,
         DoAll \subseteq Job,
         \A r \in Runner :
            \/ UNCHANGED <<pc[r], cur[r], out[r], todo[r]>>
            \/ /\ pc'[r] \notin {"ran", "committed"}
               /\ \A d \in todo'[r] : DictBacked(d)
               /\ pc'[r] = "locking" => DictBacked(cur'[r])
  PROVE  Ledger'
  <1>1. RowsBacked' BY DEF Ledger, RowsBacked, Backed, Occurrence
  <1>2. \A d : DictBacked(d) =>
                  (d.job \in DoAll =>
                     Backed(d.job, d.nextcall, d.numbercall, called'[d.job], calls'[d.job]))
    BY DEF DictBacked
  <1>3. DictsBacked'
    <2> SUFFICES ASSUME NEW r \in Runner
                 PROVE  /\ \A d \in todo'[r] : DictBacked(d)'
                        /\ pc'[r] \in {"locking", "ran", "committed"} => DictBacked(cur[r])'
      BY DEF DictsBacked
    <2>1. \A d \in todo'[r] : DictBacked(d) BY DEF Ledger, DictsBacked
    <2>2. pc'[r] \in {"locking", "ran", "committed"} => DictBacked(cur'[r])
      BY DEF Ledger, DictsBacked
    <2> QED BY <2>1, <2>2, <1>2 DEF DictBacked, Backed, Occurrence
  <1>4. OutsBacked'
    <2> SUFFICES ASSUME NEW r \in Runner, pc'[r] \in {"ran", "committed"}, cur'[r].job \in DoAll
                 PROVE  LET j == cur'[r].job  o == out'[r] IN
                        /\ pc'[r] = "ran" =>
                              Backed(j, o.nextcall, o.numbercall, called[j] \cup o.times,
                                     calls[j] + Cardinality(o.times))
                        /\ pc'[r] = "committed" =>
                              Backed(j, o.nextcall, o.numbercall, called[j], calls[j])
      BY DEF OutsBacked, Backed, Occurrence
    <2>1. UNCHANGED <<pc[r], cur[r], out[r]>> OBVIOUS
    <2> QED BY <2>1 DEF Ledger, OutsBacked
  <1> QED BY <1>1, <1>3, <1>4 DEF Ledger

\* What is polled is what the rows say.
LEMMA PollLedger == ASSUME CronAssumption, IInv, Ledger, NEW r \in Runner, Poll(r) PROVE Ledger'
  <1>1. \A j \in Job : DictBacked(Polled(j)) BY DEF Ledger, RowsBacked, DictBacked, Polled
  <1>2. \A d \in todo'[r] : DictBacked(d) BY <1>1 DEF Poll, IInv, TypeOK
  <1>3. pc'[r] = "polled" /\ UNCHANGED <<row, called, calls, cur, out>> BY DEF Poll, IInv, TypeOK
  <1>4. \A s \in Runner : s # r => UNCHANGED <<pc[s], todo[s]>> BY DEF Poll, IInv, TypeOK
  <1> QED BY <1>2, <1>3, <1>4, QuietStep DEF CronAssumption

LEMMA StartLockLedger ==
  ASSUME CronAssumption, IInv, Ledger, NEW r \in Runner, NEW d \in todo[r], StartLock(r, d)
  PROVE  Ledger'
  <1>1. /\ pc'[r] = "locking" /\ cur'[r] = d /\ todo'[r] \subseteq todo[r]
        /\ UNCHANGED <<row, called, calls, out>>
        /\ \A s \in Runner : s # r => UNCHANGED <<pc[s], todo[s], cur[s]>>
    BY DEF StartLock, IInv, TypeOK
  <1>2. \A e \in todo[r] : DictBacked(e) BY DEF Ledger, DictsBacked
  <1> QED BY <1>1, <1>2, QuietStep DEF CronAssumption

\* A runner that skips a job, returns, dies or starts again has fewer dictionaries, if any.
LEMMA IdleLedger ==
  ASSUME CronAssumption, IInv, Ledger, NEW r \in Runner,
         SkipLocked(r) \/ LockFails(r) \/ Return(r) \/ Crash(r) \/ Respawn(r)
  PROVE  Ledger'
  <1>1. /\ pc'[r] \in {"polled", "dead", "sleeping"} /\ todo'[r] \subseteq todo[r]
        /\ UNCHANGED <<row, called, calls>>
    BY DEF SkipLocked, LockFails, Return, Crash, Respawn, DropsJobs, IInv, TypeOK
  <1>2. \A s \in Runner : s # r => UNCHANGED <<pc[s], todo[s], cur[s], out[s]>>
    BY DEF SkipLocked, LockFails, Return, Crash, Respawn, DropsJobs, IInv, TypeOK
  <1>3. \A e \in todo[r] : DictBacked(e) BY DEF Ledger, DictsBacked
  <1> QED BY <1>1, <1>2, <1>3, QuietStep DEF CronAssumption

\* Users change neither nextcall nor numbercall, and the clock changes nothing.
LEMMA OtherLedger ==
  ASSUME CronAssumption, IInv, Ledger,
         Tick \/ (\E j \in Job : Unlink(j) \/ \E b \in BOOLEAN : SetActive(j, b)) \/ UNCHANGED vars
  PROVE  Ledger'
  <1>1. UNCHANGED <<called, calls, pc, cur, out, todo>>
    BY DEF Tick, Unlink, SetActive, Edit, vars
  <1>2. \A j \in Job : row'[j].nextcall = row[j].nextcall /\ row'[j].numbercall = row[j].numbercall
    <2>1. ASSUME NEW i \in Job, Unlink(i) \/ \E b \in BOOLEAN : SetActive(i, b), NEW j \in Job
          PROVE  row'[j].nextcall = row[j].nextcall /\ row'[j].numbercall = row[j].numbercall
      <3>1. row[i] \in Row /\ row \in [Job -> Row] BY DEF IInv, TypeOK
      <3> QED BY <2>1, <3>1 DEF Unlink, SetActive, Edit, Row
    <2>2. CASE Tick \/ UNCHANGED vars BY <2>2 DEF Tick, vars
    <2> QED BY <2>1, <2>2
  <1> QED BY <1>1, <1>2, QuietStep DEF CronAssumption

\* The outcome of the locked job's dictionary.
LEMMA ProcessLedger ==
  ASSUME CronAssumption, IInv, Ledger, NEW r \in Runner, Process(r) PROVE Ledger'
  <1>1. PICK d \in Dict : d = cur[r] BY DEF Process, IInv, TypeOK
  <1>2. PICK t \in Nat : t = now BY DEF IInv, TypeOK
  <1>3. /\ pc'[r] = "ran" /\ out'[r] = Outcome(d, t)
        /\ UNCHANGED <<row, called, calls, cur, todo>>
        /\ \A s \in Runner : s # r => UNCHANGED <<pc[s], out[s]>>
    BY <1>1, <1>2 DEF Process, IInv, TypeOK
  <1>4. DictBacked(d) BY <1>1 DEF Ledger, DictsBacked, Process
  <1>5. RowsBacked' BY <1>3 DEF Ledger, RowsBacked, Backed, Occurrence
  <1>6. DictsBacked'
    <2> SUFFICES ASSUME NEW s \in Runner
                 PROVE  /\ \A e \in todo[s] : DictBacked(e)
                        /\ pc'[s] \in {"locking", "ran", "committed"} => DictBacked(cur[s])
      BY <1>3 DEF DictsBacked, DictBacked, Backed, Occurrence
    <2>1. CASE s = r BY <1>1, <1>4, <2>1 DEF Ledger, DictsBacked
    <2>2. CASE s # r BY <1>3, <2>2 DEF Ledger, DictsBacked
    <2> QED BY <2>1, <2>2
  <1>7. OutsBacked'
    <2> SUFFICES ASSUME NEW s \in Runner, cur[s].job \in DoAll
                 PROVE  LET j == cur[s].job  o == out'[s] IN
                        /\ pc'[s] = "ran" =>
                              Backed(j, o.nextcall, o.numbercall, called[j] \cup o.times,
                                     calls[j] + Cardinality(o.times))
                        /\ pc'[s] = "committed" =>
                              Backed(j, o.nextcall, o.numbercall, called[j], calls[j])
      BY <1>3 DEF OutsBacked, Backed, Occurrence
    <2>1. CASE s = r
      <3>1. PICK c \in Nat : c = calls[d.job] BY <1>1, <2>1 DEF IInv, TypeOK, Dict
      <3>2. PICK done : done = called[d.job] OBVIOUS
      <3>3. d.job \in DoAll /\ Backed(d.job, d.nextcall, d.numbercall, done, c)
        BY <1>1, <1>4, <2>1, <3>1, <3>2 DEF DictBacked
      <3>4. LET o == Outcome(d, t) IN
            Backed(d.job, o.nextcall, o.numbercall, done \cup o.times, c + Cardinality(o.times))
        BY <3>3, OutcomeBacked
      <3> QED BY <1>1, <1>3, <2>1, <3>1, <3>2, <3>4
    <2>2. CASE s # r BY <1>3, <2>2 DEF Ledger, OutsBacked
    <2> QED BY <2>1, <2>2
  <1> QED BY <1>5, <1>6, <1>7 DEF Ledger

\* job_cr.commit() turns what backs the outcome into committed calls.
LEMMA CommitJobLedger ==
  ASSUME CronAssumption, IInv, Ledger, NEW r \in Runner, CommitJob(r) PROVE Ledger'
  <1>1. PICK d \in Dict : d = cur[r] BY DEF CommitJob, IInv, TypeOK
  <1>2. /\ pc[r] = "ran" /\ pc'[r] = "committed"
        /\ UNCHANGED <<row, cur, todo, out>>
        /\ \A s \in Runner : s # r => UNCHANGED pc[s]
        /\ called'[d.job] = called[d.job] \cup out[r].times
        /\ calls'[d.job] = calls[d.job] + Cardinality(out[r].times)
        /\ \A j \in Job : j # d.job => UNCHANGED <<called[j], calls[j]>>
    BY <1>1 DEF CommitJob, IInv, TypeOK, Dict
  <1>3. \A s \in Runner : out[s] \in Out /\ Cardinality(out[s].times) \in Nat
    BY FS_CardinalityType DEF IInv, TypeOK
  <1>4. \A j \in Job : /\ calls[j] \in Nat /\ calls'[j] \in Nat /\ calls[j] <= calls'[j]
                       /\ called[j] \subseteq called'[j]
                       /\ Budget[j] \in Int /\ row[j].numbercall \in Int
    BY <1>2, <1>3 DEF IInv, TypeOK, Row, CronAssumption
  <1>5. DoAll \subseteq Job BY DEF CronAssumption
  <1>6. ASSUME NEW j \in DoAll, NEW x, NEW n \in Int, Backed(j, x, n, called[j], calls[j])
        PROVE  Backed(j, x, n, called'[j], calls'[j])
    <2>1. PICK c \in Nat : c = calls[j] BY <1>4, <1>5
    <2>2. PICK e \in Nat : e = calls'[j] BY <1>4, <1>5
    <2>3. PICK done : done = called[j] OBVIOUS
    <2>4. PICK more : more = called'[j] OBVIOUS
    <2>5. done \subseteq more /\ c <= e /\ Backed(j, x, n, done, c) /\ Budget[j] \in Int
      BY <1>4, <1>5, <1>6, <2>1, <2>2, <2>3, <2>4
    <2>6. Backed(j, x, n, more, e) BY <2>5, BackedMore
    <2> QED BY <2>2, <2>4, <2>6
  <1>7. RowsBacked'
    <2> SUFFICES ASSUME NEW j \in DoAll
                 PROVE  Backed(j, row[j].nextcall, row[j].numbercall, called'[j], calls'[j])
      BY <1>2 DEF RowsBacked, Backed, Occurrence
    <2>1. PICK n \in Int : n = row[j].numbercall BY <1>4, <1>5
    <2>2. PICK x : x = row[j].nextcall OBVIOUS
    <2>3. Backed(j, x, n, called[j], calls[j]) BY <2>1, <2>2 DEF Ledger, RowsBacked
    <2> QED BY <1>6, <2>1, <2>2, <2>3
  <1>8. ASSUME NEW e \in Dict, DictBacked(e) PROVE DictBacked(e)'
    <2> SUFFICES ASSUME e.job \in DoAll
                 PROVE  Backed(e.job, e.nextcall, e.numbercall, called'[e.job], calls'[e.job])
      BY DEF DictBacked, Backed, Occurrence
    <2>1. e.numbercall \in Int BY DEF Dict
    <2> QED BY <1>6, <1>8, <2>1 DEF DictBacked
  <1>9. DictsBacked'
    <2> SUFFICES ASSUME NEW s \in Runner
                 PROVE  /\ \A e \in todo'[s] : DictBacked(e)'
                        /\ pc'[s] \in {"locking", "ran", "committed"} => DictBacked(cur[s])'
      BY DEF DictsBacked
    <2>1. todo'[s] = todo[s] /\ cur'[s] = cur[s] BY <1>2
    <2>2. \A e \in todo[s] : e \in Dict /\ DictBacked(e) BY DEF Ledger, DictsBacked, IInv, TypeOK
    <2>3. pc'[s] \in {"locking", "ran", "committed"} => cur[s] \in Dict /\ DictBacked(cur[s])
      BY <1>2 DEF Ledger, DictsBacked, IInv, TypeOK
    <2>4. \A e \in todo[s] : DictBacked(e)' BY <1>8, <2>2
    <2>5. ASSUME pc'[s] \in {"locking", "ran", "committed"} PROVE DictBacked(cur[s])'
      <3>1. PICK e \in Dict : e = cur[s] /\ DictBacked(e) BY <2>3, <2>5
      <3>2. DictBacked(e)' BY <1>8, <3>1
      <3> QED BY <2>1, <3>1, <3>2 DEF DictBacked
    <2> QED BY <2>1, <2>4, <2>5
  <1>10. OutsBacked'
    <2> SUFFICES ASSUME NEW s \in Runner, cur[s].job \in DoAll
                 PROVE  LET j == cur[s].job  o == out[s] IN
                        /\ pc'[s] = "ran" =>
                              Backed(j, o.nextcall, o.numbercall, called'[j] \cup o.times,
                                     calls'[j] + Cardinality(o.times))
                        /\ pc'[s] = "committed" =>
                              Backed(j, o.nextcall, o.numbercall, called'[j], calls'[j])
      BY <1>2 DEF OutsBacked, Backed, Occurrence
    <2> DEFINE j == cur[s].job
               o == out[s]
    <2>1. CASE s = r
      BY <1>1, <1>2, <2>1 DEF Ledger, OutsBacked
    <2>2. CASE s # r /\ pc[s] = "committed"
      <3>1. PICK n \in Int : n = o.numbercall BY <1>3 DEF Out
      <3>2. PICK x : x = o.nextcall OBVIOUS
      <3>3. Backed(j, x, n, called[j], calls[j]) BY <2>2, <3>1, <3>2 DEF Ledger, OutsBacked
      <3>4. Backed(j, x, n, called'[j], calls'[j]) BY <1>6, <3>3
      <3> QED BY <1>2, <2>2, <3>1, <3>2, <3>4
    <2>3. CASE s # r /\ pc[s] = "ran"
      <3>1. PICK n \in Int : n = o.numbercall BY <1>3 DEF Out
      <3>2. PICK x : x = o.nextcall OBVIOUS
      <3>3. PICK c \in Nat : c = calls[j] + Cardinality(o.times) BY <1>3, <1>4, <1>5
      <3>4. PICK e \in Nat : e = calls'[j] + Cardinality(o.times) BY <1>3, <1>4, <1>5
      <3>5. c <= e BY <1>3, <1>4, <1>5, <3>3, <3>4
      <3>6. PICK done : done = called[j] \cup o.times OBVIOUS
      <3>7. PICK more : more = called'[j] \cup o.times OBVIOUS
      <3>8. done \subseteq more BY <1>4, <1>5, <3>6, <3>7
      <3>9. Backed(j, x, n, done, c)
        BY <2>3, <3>1, <3>2, <3>3, <3>6 DEF Ledger, OutsBacked
      <3>10. PICK k \in DoAll : k = j OBVIOUS
      <3>11. Budget[k] \in Int /\ Backed(k, x, n, done, c) BY <1>4, <1>5, <3>9, <3>10
      <3>12. Backed(k, x, n, more, e) BY <3>5, <3>8, <3>11, BackedMore
      <3> QED BY <1>2, <2>3, <3>1, <3>2, <3>4, <3>7, <3>10, <3>12
    <2>4. CASE s # r /\ pc[s] \notin {"ran", "committed"} BY <1>2, <2>4
    <2> QED BY <2>1, <2>2, <2>3, <2>4
  <1> QED BY <1>7, <1>9, <1>10 DEF Ledger

\* cron_cr.commit() writes an outcome whose calls are committed already.
LEMMA CommitCronLedger ==
  ASSUME CronAssumption, IInv, Ledger, NEW r \in Runner, CommitCron(r) PROVE Ledger'
  <1>1. PICK d \in Dict : d = cur[r] BY DEF CommitCron, IInv, TypeOK
  <1>2. /\ pc[r] = "committed" /\ pc'[r] = "polled"
        /\ UNCHANGED <<called, calls, todo>>
        /\ \A s \in Runner : s # r => UNCHANGED <<pc[s], cur[s], out[s]>>
        /\ row'[d.job] = Updated(d.job, out[r])
        /\ \A j \in Job : j # d.job => row'[j] = row[j]
    BY <1>1 DEF CommitCron, IInv, TypeOK, Dict
  <1>3. RowsBacked'
    <2> SUFFICES ASSUME NEW j \in DoAll
                 PROVE  Backed(j, row'[j].nextcall, row'[j].numbercall, called[j], calls[j])
      BY <1>2 DEF RowsBacked, Backed, Occurrence
    <2>1. j \in Job BY DEF CronAssumption
    <2>2. CASE j # d.job \/ ~row[j].exists
      <3>1. row'[j] = row[j] BY <1>2, <2>1, <2>2 DEF Updated
      <3> QED BY <3>1 DEF Ledger, RowsBacked
    <2>3. CASE j = d.job /\ row[j].exists
      <3>1. row[j] \in Row BY <2>1 DEF IInv, TypeOK
      <3>2. row'[j].nextcall = out[r].nextcall /\ row'[j].numbercall = out[r].numbercall
        BY <1>2, <2>3, <3>1 DEF Updated, Row
      <3> QED BY <1>1, <1>2, <2>3, <3>2 DEF Ledger, OutsBacked
    <2> QED BY <2>2, <2>3
  <1>4. DictsBacked'
    <2> SUFFICES ASSUME NEW s \in Runner
                 PROVE  /\ \A e \in todo[s] : DictBacked(e)
                        /\ pc'[s] \in {"locking", "ran", "committed"} => DictBacked(cur'[s])
      BY <1>2 DEF DictsBacked, DictBacked, Backed, Occurrence
    <2> QED BY <1>2 DEF Ledger, DictsBacked
  <1>5. OutsBacked'
    <2> SUFFICES ASSUME NEW s \in Runner, pc'[s] \in {"ran", "committed"}, cur'[s].job \in DoAll
                 PROVE  LET j == cur'[s].job  o == out'[s] IN
                        /\ pc'[s] = "ran" =>
                              Backed(j, o.nextcall, o.numbercall, called[j] \cup o.times,
                                     calls[j] + Cardinality(o.times))
                        /\ pc'[s] = "committed" =>
                              Backed(j, o.nextcall, o.numbercall, called[j], calls[j])
      BY <1>2 DEF OutsBacked, Backed, Occurrence
    <2>1. UNCHANGED <<pc[s], cur[s], out[s]>> BY <1>2
    <2> QED BY <2>1 DEF Ledger, OutsBacked
  <1> QED BY <1>3, <1>4, <1>5 DEF Ledger

LEMMA NextLedger == CronAssumption /\ IInv /\ Ledger /\ [Next]_vars => Ledger'
  <1> SUFFICES ASSUME CronAssumption, IInv, Ledger, [Next]_vars PROVE Ledger'
    OBVIOUS
  <1>1. ASSUME NEW r \in Runner, RunnerStep(r) \/ Crash(r) \/ Respawn(r) PROVE Ledger'
    BY <1>1, PollLedger, StartLockLedger, IdleLedger, ProcessLedger, CommitJobLedger,
       CommitCronLedger DEF RunnerStep
  <1> QED BY <1>1, OtherLedger DEF Next

\* Whatever a dictionary, an outcome or a row says was called, was.
THEOREM LedgerHolds == Spec => []Ledger
  <1>1. Init => Ledger BY InitLedger, CronAssumption
  <1>2. IInv /\ Ledger /\ [Next]_vars => Ledger' BY NextLedger, CronAssumption
  <1> QED BY <1>1, <1>2, Invariance, PTL DEF Spec

\* No occurrence of a job with doall is skipped, for any runners, kills and writes.
THEOREM NothingSkipped == Spec => []NoOccurrenceSkipped
  <1>1. Ledger => NoOccurrenceSkipped
    <2> SUFFICES ASSUME Ledger, NEW j \in DoAll, NEW k \in 0..MaxTime,
                        FirstCall[j] + k * Interval[j] < row[j].nextcall
                 PROVE  FirstCall[j] + k * Interval[j] \in called[j]
      BY DEF NoOccurrenceSkipped
    <2>1. k \in Nat BY CronAssumption DEF CronAssumption
    <2> QED BY <2>1 DEF Ledger, RowsBacked, Backed
  <1> QED BY <1>1, LedgerHolds, PTL

\* numbercall is used up by calls only.
THEOREM NothingLostFromBudget == Spec => []NoCallLost
  <1>1. Ledger => NoCallLost BY DEF Ledger, RowsBacked, Backed, NoCallLost
  <1> QED BY <1>1, LedgerHolds, PTL

-----------------------------------------------------------------------------
(* Why the schedule never rewinds: every copy of a job's row is the row after  *)
(* some number of turns; a dictionary may lag behind the row, but the loop     *)
(* over it goes on to the clock, as far as any turn the row has seen.          *)

\* nextcall x and numbercall n after c turns of j, in all.
After(j, c, x, n) ==
    /\ Budget[j] >= 0 => c <= Budget[j]
    /\ x = FirstCall[j] + (IF c = Budget[j] /\ c > 0 THEN c - 1 ELSE c) * Interval[j]
    /\ n = IF Budget[j] < 0 THEN Budget[j] ELSE Budget[j] - c

\* The last of c turns was due at time t.
LastDue(j, c, t) == c > 0 => FirstCall[j] + (c - 1) * Interval[j] < t

\* A copy of the row of j that no turn before its time has made.
Paced(j, x, n, t) == \E c \in Nat : After(j, c, x, n) /\ LastDue(j, c, t)

DictPaced(d) == d.numbercall # 0 /\ Paced(d.job, d.nextcall, d.numbercall, now)

RowsPaced == \A j \in Job : Paced(j, row[j].nextcall, row[j].numbercall, now)

DictsPaced ==
    \A r \in Runner : /\ \A d \in todo[r] : DictPaced(d)
                      /\ pc[r] = "locking" => DictPaced(cur[r])

\* What a busy runner is going to write is not behind the row.
OutsAhead ==
    \A r \in Runner : LET j == cur[r].job  o == out[r] IN
        Busy(r) /\ row[j].exists =>
            /\ Paced(j, o.nextcall, o.numbercall, now)
            /\ o.nextcall >= row[j].nextcall
            /\ o.numbercall <= row[j].numbercall

Pace == RowsPaced /\ DictsPaced /\ OutsAhead

\* The clock only makes turns overdue.
LEMMA PacedLater ==
  ASSUME NEW j, NEW x, NEW n, NEW t \in Nat, NEW u \in Nat, t <= u, Paced(j, x, n, t),
         j \in Job, CronAssumption
  PROVE  Paced(j, x, n, u)
  <1>1. PICK c \in Nat : After(j, c, x, n) /\ LastDue(j, c, t) BY DEF Paced
  <1>2. LastDue(j, c, u)
    <2>1. CASE c = 0 BY <2>1 DEF LastDue
    <2>2. CASE c > 0
      <3>1. PICK e \in Nat : e = c - 1 BY <2>2
      <3>2. FirstCall[j] + e * Interval[j] < t /\ e * Interval[j] \in Nat
        BY <1>1, <2>2, <3>1, ProductNat DEF LastDue, CronAssumption
      <3> QED BY <3>1, <3>2 DEF LastDue, CronAssumption
    <2> QED BY <2>1, <2>2
  <1> QED BY <1>1, <1>2 DEF Paced

\* More turns leave a later nextcall and a smaller numbercall.
LEMMA AfterMonotone ==
  ASSUME CronAssumption, NEW j \in Job, NEW a \in Nat, NEW c \in Nat, a <= c,
         NEW x, NEW n, NEW y, NEW m, After(j, a, x, n), After(j, c, y, m)
  PROVE  x <= y /\ m <= n
  <1> DEFINE i == Interval[j]
             b == Budget[j]
             p == IF a = b /\ a > 0 THEN a - 1 ELSE a
             q == IF c = b /\ c > 0 THEN c - 1 ELSE c
  <1>1. i \in Nat \ {0} /\ b \in Int /\ FirstCall[j] \in Nat BY DEF CronAssumption
  <1>2. p \in Nat /\ q \in Nat BY <1>1
  <1>3. p <= q
    <2>1. b >= 0 => c <= b BY DEF After
    <2> QED BY <1>1, <2>1
  <1>4. x = FirstCall[j] + p * i /\ y = FirstCall[j] + q * i BY DEF After
  <1>5. m <= n BY <1>1 DEF After
  <1> HIDE DEF p, q, i
  <1>6. p * i \in Nat /\ q * i \in Nat /\ p * i <= q * i
    <2>1. p = q \/ p < q BY <1>2, <1>3
    <2> QED BY <1>1, <1>2, <2>1, Multiples
  <1> QED BY <1>1, <1>4, <1>5, <1>6

\* How many occurrences from x on a step of i apart are before t.
LEMMA Missed ==
  ASSUME NEW x \in Nat, NEW i \in Nat \ {0}, NEW t \in Nat
  PROVE  \E m \in Nat : \A k \in Nat : x + k * i < t <=> k < m
  <1>1. CASE t <= x
    <2>1. \A k \in Nat : k * i \in Nat BY ProductNat
    <2>2. \A k \in Nat : x + k * i < t <=> k < 0 BY <1>1, <2>1
    <2> QED BY <2>2
  <1>2. CASE x < t
    <2>1. PICK a \in Nat : a = t - x - 1 BY <1>2
    <2>2. PICK q \in Nat : q * i <= a /\ a < (q + 1) * i
      <3>1. PICK q \in Int : q = a \div i BY <2>1
      <3>2. PICK r \in Int : r = a % i BY <2>1
      <3>3. a = i * q + r /\ 0 <= r /\ r < i BY <2>1, <3>1, <3>2, Z3
      <3>4. q \in Nat BY <2>1, <3>1, Z3
      <3> QED BY <3>3, <3>4
    <2>3. ASSUME NEW k \in Nat PROVE x + k * i < t <=> k < q + 1
      <3>1. k * i \in Nat /\ q * i \in Nat /\ (q + 1) * i \in Nat BY ProductNat
      <3>2. CASE k < q + 1
        <4>1. k * i <= q * i
          <5>1. k = q \/ k < q BY <3>2
          <5> QED BY <3>1, <5>1, Multiples
        <4> QED BY <2>1, <2>2, <3>1, <3>2, <4>1
      <3>3. CASE q + 1 <= k
        <4>1. (q + 1) * i <= k * i
          <5>1. k = q + 1 \/ q + 1 < k BY <3>3
          <5> QED BY <3>1, <5>1, Multiples
        <4> QED BY <2>1, <2>2, <3>1, <3>3, <4>1
      <3> QED BY <3>2, <3>3
    <2> DEFINE m == q + 1
    <2>4. m \in Nat /\ \A k \in Nat : x + k * i < t <=> k < m BY <2>3
    <2> HIDE DEF m
    <2> QED BY <2>4
  <1> QED BY <1>1, <1>2

\* The loop turns once for each of them, or as often as numbercall allows.
LEMMA TurnsMissed ==
  ASSUME CronAssumption, NEW d \in Dict, NEW t \in Nat
  PROVE  \E m \in Nat :
            /\ \A k \in Nat : d.nextcall + k * Interval[d.job] < t <=> k < m
            /\ Turns(d, t) = IF d.numbercall < 0 \/ m <= d.numbercall THEN m ELSE d.numbercall
  <1>1. PICK x \in Nat : x = d.nextcall BY DEF Dict
  <1>2. PICK i \in Nat \ {0} : i = Interval[d.job] BY DEF Dict, CronAssumption
  <1>3. PICK m \in Nat : \A k \in Nat : x + k * i < t <=> k < m BY Missed
  <1> DEFINE S == {k \in 0..t : x + k * i < t}
  <1>4. ASSUME NEW k \in Nat, x + k * i < t PROVE k <= t
    <2>1. i = 1 \/ 1 < i OBVIOUS
    <2>2. k * i \in Nat /\ k * 1 <= k * i BY <2>1
    <2> QED BY <1>4, <2>2
  <1>5. S = 0..(m - 1) BY <1>3, <1>4
  <1>6. Cardinality(S) = m
    <2>1. PICK b \in Int : b = m - 1 OBVIOUS
    <2>2. PICK a \in Int : a = 0 OBVIOUS
    <2>3. Cardinality(a..b) = IF a > b THEN 0 ELSE b - a + 1 BY FS_Interval
    <2>4. a..b = S BY <1>5, <2>1, <2>2
    <2> HIDE DEF S
    <2> QED BY <2>1, <2>2, <2>3, <2>4
  <1>7. Turns(d, t) = IF d.numbercall < 0 \/ Cardinality(S) <= d.numbercall
                      THEN Cardinality(S) ELSE d.numbercall
    BY <1>1, <1>2 DEF Turns
  <1> HIDE DEF S
  <1> QED BY <1>1, <1>2, <1>3, <1>6, <1>7

\* The loop goes on to the clock, and no further: out of a dictionary made by a
\* turns, it leaves the row after c turns, of which the last was due, and none is
\* due any more.
LEMMA OutcomePaced ==
  ASSUME CronAssumption, NEW d \in Dict, NEW t \in Nat, d.numbercall # 0,
         Paced(d.job, d.nextcall, d.numbercall, t)
  PROVE  LET o == Outcome(d, t) IN
         \E c \in Nat : /\ After(d.job, c, o.nextcall, o.numbercall)
                        /\ LastDue(d.job, c, t)
                        /\ c = Budget[d.job] \/ t <= FirstCall[d.job] + c * Interval[d.job]
  <1>1. PICK j \in Job : j = d.job BY DEF Dict
  <1>2. PICK i \in Nat \ {0} : i = Interval[j] BY DEF CronAssumption
  <1>3. PICK f \in Nat : f = FirstCall[j] BY DEF CronAssumption
  <1>4. PICK b \in Int : b = Budget[j] BY DEF CronAssumption
  <1>5. PICK x \in Nat : x = d.nextcall BY DEF Dict
  <1>6. PICK l \in Int : l = d.numbercall BY DEF Dict
  <1>7. PICK a \in Nat : After(j, a, x, l) /\ LastDue(j, a, t) BY <1>1, <1>5, <1>6 DEF Paced
  <1>8. l = IF b < 0 THEN b ELSE b - a BY <1>4, <1>7 DEF After
  <1>9. b >= 0 => a < b
    <2>1. b >= 0 => a <= b BY <1>4, <1>7 DEF After
    <2> QED BY <1>6, <1>8, <2>1
  <1>10. x = f + a * i
    <2>1. ~(a = b /\ a > 0) BY <1>9
    <2> QED BY <1>2, <1>3, <1>4, <1>7, <2>1 DEF After
  <1>11. PICK m \in Nat :
            /\ \A k \in Nat : x + k * i < t <=> k < m
            /\ Turns(d, t) = IF l < 0 \/ m <= l THEN m ELSE l
    BY <1>1, <1>2, <1>5, <1>6, TurnsMissed
  <1>12. PICK n \in Nat : n = IF l < 0 \/ m <= l THEN m ELSE l OBVIOUS
  <1>13. PICK left \in Int : left = IF l < 0 THEN l ELSE l - n OBVIOUS
  <1>14. PICK steps \in Nat : steps = IF left = 0 /\ n > 0 THEN n - 1 ELSE n
    <2>1. n > 0 => n - 1 \in Nat OBVIOUS
    <2> QED BY <2>1
  <1>15. LET o == Outcome(d, t) IN o.nextcall = x + steps * i /\ o.numbercall = left
    BY <1>1, <1>2, <1>5, <1>6, <1>11, <1>12, <1>13, <1>14 DEF Outcome
  <1> DEFINE c == a + n
  <1>16. c \in Nat OBVIOUS
  <1>17. left = IF b < 0 THEN b ELSE b - c BY <1>8, <1>9, <1>13
  <1>18. b >= 0 => c <= b BY <1>8, <1>9, <1>12
  <1>19. x + steps * i = f + (IF c = b /\ c > 0 THEN c - 1 ELSE c) * i
    <2>1. a + steps = IF c = b /\ c > 0 THEN c - 1 ELSE c
      BY <1>8, <1>9, <1>12, <1>13, <1>14, <1>18
    <2>2. (a + steps) * i = a * i + steps * i /\ a * i \in Nat /\ steps * i \in Nat
      BY Multiples
    <2> QED BY <1>10, <2>1, <2>2
  <1>20. After(j, c, x + steps * i, left)
    BY <1>2, <1>3, <1>4, <1>17, <1>18, <1>19 DEF After
  <1>21. LastDue(j, c, t)
    <2>1. CASE n = 0 BY <1>7, <2>1
    <2>2. CASE n > 0
      <3>1. PICK k \in Nat : k = n - 1 BY <2>2
      <3>2. x + k * i < t BY <1>11, <1>12, <3>1
      <3>3. (a + k) * i = a * i + k * i /\ a * i \in Nat /\ k * i \in Nat BY Multiples
      <3>4. f + (a + k) * i < t BY <1>10, <3>2, <3>3
      <3>5. c - 1 = a + k BY <3>1
      <3> QED BY <1>2, <1>3, <3>4, <3>5 DEF LastDue
    <2> QED BY <2>1, <2>2
  <1>22. c = b \/ t <= f + c * i
    <2>1. CASE n = m
      <3>1. ~(x + n * i < t) BY <1>11, <2>1
      <3>2. c * i = a * i + n * i /\ a * i \in Nat /\ n * i \in Nat BY Multiples
      <3> QED BY <1>10, <3>1, <3>2
    <2>2. CASE n # m BY <1>8, <1>12, <2>2
    <2> QED BY <2>1, <2>2
  <1> HIDE DEF c
  <1> QED BY <1>1, <1>2, <1>3, <1>4, <1>15, <1>16, <1>20, <1>21, <1>22

\* So it is never behind a row that no turn before its time has made.
LEMMA OutcomeAhead ==
  ASSUME CronAssumption, NEW d \in Dict, NEW t \in Nat, d.numbercall # 0,
         Paced(d.job, d.nextcall, d.numbercall, t),
         NEW x, NEW n, Paced(d.job, x, n, t)
  PROVE  LET o == Outcome(d, t) IN
         /\ Paced(d.job, o.nextcall, o.numbercall, t)
         /\ o.nextcall >= x
         /\ o.numbercall <= n
  <1>1. PICK j \in Job : j = d.job BY DEF Dict
  <1>2. PICK i \in Nat \ {0} : i = Interval[j] BY DEF CronAssumption
  <1>3. PICK f \in Nat : f = FirstCall[j] BY DEF CronAssumption
  <1> DEFINE y == Outcome(d, t).nextcall
             m == Outcome(d, t).numbercall
  <1>4. PICK c \in Nat : After(j, c, y, m) /\ LastDue(j, c, t) /\ (c = Budget[j] \/ t <= f + c * i)
    BY <1>1, <1>2, <1>3, OutcomePaced
  <1>5. PICK a \in Nat : After(j, a, x, n) /\ LastDue(j, a, t) BY <1>1 DEF Paced
  <1>6. a <= c
    <2>1. CASE c = Budget[j] BY <1>5, <2>1 DEF After
    <2>2. CASE t <= f + c * i /\ a > 0
      <3>1. PICK k \in Nat : k = a - 1 BY <2>2
      <3>2. f + k * i < t BY <1>2, <1>3, <1>5, <2>2, <3>1 DEF LastDue
      <3>3. k * i \in Nat /\ c * i \in Nat /\ (k * i < c * i => k < c) BY Multiples
      <3>4. k * i < c * i BY <2>2, <3>2, <3>3
      <3> QED BY <3>1, <3>3, <3>4
    <2> QED BY <1>4, <2>1, <2>2
  <1> HIDE DEF y, m
  <1>7. x <= y /\ m <= n BY <1>4, <1>5, <1>6, AfterMonotone
  <1>8. x \in Int /\ n \in Int /\ y \in Int /\ m \in Int
    <2>1. ASSUME NEW k \in Nat, NEW u, NEW v, After(j, k, u, v) PROVE u \in Int /\ v \in Int
      <3>1. PICK q \in Nat : q = IF k = Budget[j] /\ k > 0 THEN k - 1 ELSE k OBVIOUS
      <3>2. q * i \in Nat BY ProductNat
      <3>3. Budget[j] \in Int BY DEF CronAssumption
      <3>4. u = f + q * i /\ v = IF Budget[j] < 0 THEN Budget[j] ELSE Budget[j] - k
        BY <1>2, <1>3, <2>1, <3>1 DEF After
      <3> QED BY <3>2, <3>3, <3>4
    <2> QED BY <1>4, <1>5, <2>1
  <1>9. Paced(d.job, y, m, t) BY <1>1, <1>4 DEF Paced
  <1> QED BY <1>7, <1>8, <1>9 DEF y, m

-----------------------------------------------------------------------------
\* Before any turn.
LEMMA InitPace == CronAssumption /\ Init => Pace
  <1> SUFFICES ASSUME CronAssumption, Init PROVE Pace
    OBVIOUS
  <1>1. ASSUME NEW j \in Job PROVE Paced(j, FirstCall[j], Budget[j], 0)
    <2>1. FirstCall[j] \in Nat /\ Interval[j] \in Nat /\ Budget[j] \in Int BY DEF CronAssumption
    <2>2. FirstCall[j] = FirstCall[j] + 0 * Interval[j] BY <2>1
    <2>3. After(j, 0, FirstCall[j], Budget[j]) BY <2>1, <2>2 DEF After
    <2> QED BY <2>3 DEF Paced, LastDue
  <1>2. RowsPaced BY <1>1 DEF Init, RowsPaced
  <1>3. DictsPaced /\ OutsAhead BY DEF Init, DictsPaced, OutsAhead, Busy
  <1> QED BY <1>2, <1>3 DEF Pace

\* Steps that move the clock or delete rows but write no outcome.
LEMMA QuietPace ==
  ASSUME CronAssumption, IInv, Pace, now' \in Nat, now <= now',
         \A j \in Job : /\ UNCHANGED <<row[j].nextcall, row[j].numbercall>>
                        /\ row'[j].exists => row[j].exists,
         \A r \in Runner :
            \/ /\ UNCHANGED <<cur[r], out[r], todo[r]>>
               /\ Busy(r)' => Busy(r)
               /\ pc'[r] = "locking" => pc[r] = "locking"
            \/ /\ ~Busy(r)'
               /\ \A d \in todo'[r] : d \in Dict /\ DictPaced(d)
               /\ pc'[r] = "locking" => cur'[r] \in Dict /\ DictPaced(cur'[r])
  PROVE  Pace'
  <1>1. now \in Nat BY DEF IInv, TypeOK
  <1>2. ASSUME NEW j \in Job, NEW x, NEW n, Paced(j, x, n, now) PROVE Paced(j, x, n, now')
    BY <1>1, <1>2, PacedLater
  <1>3. RowsPaced'
    <2> SUFFICES ASSUME NEW j \in Job PROVE Paced(j, row'[j].nextcall, row'[j].numbercall, now')
      BY DEF RowsPaced, Paced, After, LastDue
    <2>1. Paced(j, row[j].nextcall, row[j].numbercall, now) BY DEF Pace, RowsPaced
    <2> QED BY <1>2, <2>1
  <1>4. ASSUME NEW d \in Dict, DictPaced(d) PROVE DictPaced(d)'
    <2>1. d.job \in Job BY DEF Dict
    <2>2. d.numbercall # 0 /\ Paced(d.job, d.nextcall, d.numbercall, now')
      BY <1>2, <1>4, <2>1 DEF DictPaced
    <2> QED BY <2>2 DEF DictPaced, Paced, After, LastDue
  <1>5. DictsPaced'
    <2> SUFFICES ASSUME NEW r \in Runner
                 PROVE  /\ \A d \in todo'[r] : DictPaced(d)'
                        /\ pc'[r] = "locking" => DictPaced(cur[r])'
      BY DEF DictsPaced
    <2>1. \A d \in todo'[r] : d \in Dict /\ DictPaced(d)
      BY DEF Pace, DictsPaced, IInv, TypeOK
    <2>2. pc'[r] = "locking" => cur'[r] \in Dict /\ DictPaced(cur'[r])
      BY DEF Pace, DictsPaced, IInv, TypeOK
    <2>3. \A d \in todo'[r] : DictPaced(d)' BY <1>4, <2>1
    <2>4. ASSUME pc'[r] = "locking" PROVE DictPaced(cur[r])'
      <3>1. PICK d \in Dict : d = cur'[r] /\ DictPaced(d) BY <2>2, <2>4
      <3>2. DictPaced(d)' BY <1>4, <3>1
      <3> QED BY <3>1, <3>2 DEF DictPaced
    <2> QED BY <2>3, <2>4
  <1>6. OutsAhead'
    <2> SUFFICES ASSUME NEW r \in Runner, Busy(r)', row'[cur'[r].job].exists
                 PROVE  LET j == cur'[r].job  o == out'[r] IN
                        /\ Paced(j, o.nextcall, o.numbercall, now')
                        /\ o.nextcall >= row'[j].nextcall
                        /\ o.numbercall <= row'[j].numbercall
      BY DEF OutsAhead, Paced, After, LastDue
    <2>1. UNCHANGED <<cur[r], out[r]>> /\ Busy(r) OBVIOUS
    <2>2. PICK j \in Job : j = cur[r].job BY <2>1 DEF IInv, TypeOK, Busy, Dict
    <2>3. /\ Paced(j, out[r].nextcall, out[r].numbercall, now)
          /\ out[r].nextcall >= row[j].nextcall
          /\ out[r].numbercall <= row[j].numbercall
      BY <2>1, <2>2 DEF Pace, OutsAhead
    <2> QED BY <1>2, <2>1, <2>2, <2>3
  <1> QED BY <1>3, <1>5, <1>6 DEF Pace

\* A dictionary is polled with calls left, as the row is.
LEMMA PollPace == ASSUME CronAssumption, IInv, Pace, NEW r \in Runner, Poll(r) PROVE Pace'
  <1>1. pc'[r] = "polled" /\ UNCHANGED <<now, row, cur, out>> BY DEF Poll, IInv, TypeOK
  <1>2. now \in Nat BY DEF IInv, TypeOK
  <1>3. \A s \in Runner : s # r => UNCHANGED <<pc[s], todo[s]>> BY DEF Poll, IInv, TypeOK
  <1>4. ASSUME NEW d \in todo'[r] PROVE d \in Dict /\ DictPaced(d)
    <2>1. PICK j \in Job : Due(j) /\ d = Polled(j) BY DEF Poll, IInv, TypeOK
    <2>2. row[j] \in Row BY DEF IInv, TypeOK
    <2>3. Paced(j, row[j].nextcall, row[j].numbercall, now) BY DEF Pace, RowsPaced
    <2> QED BY <2>1, <2>2, <2>3 DEF Polled, Due, DictPaced, Dict, Row
  <1> QED BY <1>1, <1>2, <1>3, <1>4, QuietPace DEF Busy

LEMMA StartLockPace ==
  ASSUME CronAssumption, IInv, Pace, NEW r \in Runner, NEW d \in todo[r], StartLock(r, d)
  PROVE  Pace'
  <1>1. /\ pc'[r] = "locking" /\ cur'[r] = d /\ todo'[r] \subseteq todo[r]
        /\ UNCHANGED <<now, row, out>>
        /\ \A s \in Runner : s # r => UNCHANGED <<pc[s], todo[s], cur[s]>>
    BY DEF StartLock, IInv, TypeOK
  <1>2. \A e \in todo[r] : e \in Dict /\ DictPaced(e) BY DEF Pace, DictsPaced, IInv, TypeOK
  <1>3. now \in Nat BY DEF IInv, TypeOK
  <1> QED BY <1>1, <1>2, <1>3, QuietPace DEF Busy

\* A runner that skips a job, returns, dies or starts again writes nothing.
LEMMA IdlePace ==
  ASSUME CronAssumption, IInv, Pace, NEW r \in Runner,
         SkipLocked(r) \/ LockFails(r) \/ Return(r) \/ Crash(r) \/ Respawn(r)
  PROVE  Pace'
  <1>1. /\ pc'[r] \in {"polled", "dead", "sleeping"} /\ todo'[r] \subseteq todo[r]
        /\ UNCHANGED <<now, row>>
    BY DEF SkipLocked, LockFails, Return, Crash, Respawn, DropsJobs, IInv, TypeOK
  <1>2. \A s \in Runner : s # r => UNCHANGED <<pc[s], todo[s], cur[s], out[s]>>
    BY DEF SkipLocked, LockFails, Return, Crash, Respawn, DropsJobs, IInv, TypeOK
  <1>3. \A e \in todo[r] : e \in Dict /\ DictPaced(e) BY DEF Pace, DictsPaced, IInv, TypeOK
  <1>4. now \in Nat BY DEF IInv, TypeOK
  <1> QED BY <1>1, <1>2, <1>3, <1>4, QuietPace DEF Busy

\* Users change neither nextcall nor numbercall, and do not bring back a row.
LEMMA OtherPace ==
  ASSUME CronAssumption, IInv, Pace,
         Tick \/ (\E j \in Job : Unlink(j) \/ \E b \in BOOLEAN : SetActive(j, b)) \/ UNCHANGED vars
  PROVE  Pace'
  <1>1. UNCHANGED <<pc, cur, out, todo>> BY DEF Tick, Unlink, SetActive, Edit, vars
  <1>2. now \in Nat /\ now' \in Nat /\ now <= now'
    <2>1. now \in Nat BY DEF IInv, TypeOK
    <2>2. now' = now \/ now' = now + 1 BY DEF Tick, Unlink, SetActive, Edit, vars
    <2> QED BY <2>1, <2>2
  <1>3. \A j \in Job : /\ UNCHANGED <<row[j].nextcall, row[j].numbercall>>
                       /\ row'[j].exists => row[j].exists
    <2>1. ASSUME NEW i \in Job, Unlink(i) \/ \E b \in BOOLEAN : SetActive(i, b), NEW j \in Job
          PROVE  /\ UNCHANGED <<row[j].nextcall, row[j].numbercall>>
                 /\ row'[j].exists => row[j].exists
      <3>1. row[i] \in Row /\ row \in [Job -> Row] BY DEF IInv, TypeOK
      <3> QED BY <2>1, <3>1 DEF Unlink, SetActive, Edit, Row
    <2>2. CASE Tick \/ UNCHANGED vars BY <2>2 DEF Tick, vars
    <2> QED BY <2>1, <2>2
  <1> QED BY <1>1, <1>2, <1>3, QuietPace DEF Busy

\* The loop runs on a dictionary that may be stale, but the row is what no turn
\* before this moment has made.
LEMMA ProcessPace ==
  ASSUME CronAssumption, IInv, Pace, NEW r \in Runner, Process(r) PROVE Pace'
  <1>1. PICK d \in Dict : d = cur[r] BY DEF Process, IInv, TypeOK
  <1>2. PICK t \in Nat : t = now BY DEF IInv, TypeOK
  <1>3. /\ pc[r] = "locking" /\ pc'[r] = "ran" /\ out'[r] = Outcome(d, t)
        /\ UNCHANGED <<now, row, cur, todo>>
        /\ \A s \in Runner : s # r => UNCHANGED <<pc[s], out[s]>>
    BY <1>1, <1>2 DEF Process, IInv, TypeOK
  <1>4. PICK j \in Job : j = d.job BY DEF Dict
  <1>5. d.numbercall # 0 /\ Paced(d.job, d.nextcall, d.numbercall, t)
    BY <1>1, <1>2, <1>3 DEF Pace, DictsPaced, DictPaced
  <1>6. Paced(d.job, row[j].nextcall, row[j].numbercall, t) BY <1>2, <1>4 DEF Pace, RowsPaced
  <1>7. /\ Paced(j, out'[r].nextcall, out'[r].numbercall, now)
        /\ out'[r].nextcall >= row[j].nextcall
        /\ out'[r].numbercall <= row[j].numbercall
    BY <1>2, <1>3, <1>4, <1>5, <1>6, OutcomeAhead
  <1>8. RowsPaced' BY <1>3 DEF Pace, RowsPaced, Paced, After, LastDue
  <1>9. DictsPaced'
    <2> SUFFICES ASSUME NEW s \in Runner
                 PROVE  /\ \A e \in todo[s] : DictPaced(e)
                        /\ pc'[s] = "locking" => DictPaced(cur[s])
      BY <1>3 DEF DictsPaced, DictPaced, Paced, After, LastDue
    <2> QED BY <1>3 DEF Pace, DictsPaced
  <1>10. OutsAhead'
    <2> SUFFICES ASSUME NEW s \in Runner, Busy(s)', row[cur[s].job].exists
                 PROVE  LET i == cur[s].job  o == out'[s] IN
                        /\ Paced(i, o.nextcall, o.numbercall, now)
                        /\ o.nextcall >= row[i].nextcall
                        /\ o.numbercall <= row[i].numbercall
      BY <1>3 DEF OutsAhead, Paced, After, LastDue
    <2>1. CASE s = r BY <1>1, <1>4, <1>7, <2>1
    <2>2. CASE s # r BY <1>3, <2>2 DEF Pace, OutsAhead, Busy
    <2> QED BY <2>1, <2>2
  <1> QED BY <1>8, <1>9, <1>10 DEF Pace

LEMMA CommitJobPace ==
  ASSUME CronAssumption, IInv, Pace, NEW r \in Runner, CommitJob(r) PROVE Pace'
  <1>1. /\ pc[r] = "ran" /\ pc'[r] = "committed" /\ UNCHANGED <<now, row, cur, todo, out>>
        /\ \A s \in Runner : s # r => UNCHANGED pc[s]
    BY DEF CommitJob, IInv, TypeOK
  <1>2. now \in Nat BY DEF IInv, TypeOK
  <1> QED BY <1>1, <1>2, QuietPace DEF Busy

\* The row moves on to the outcome.
LEMMA CommitCronMoves ==
  ASSUME CronAssumption, IInv, Pace, NEW r \in Runner, CommitCron(r), NEW j \in Job
  PROVE  /\ row'[j].nextcall >= row[j].nextcall /\ row'[j].numbercall <= row[j].numbercall
         /\ Paced(j, row'[j].nextcall, row'[j].numbercall, now)
         /\ row'[j].exists = row[j].exists
         /\ j # cur[r].job \/ ~row[j].exists => row'[j] = row[j]
  <1>1. row[j] \in Row /\ out[r] \in Out BY DEF IInv, TypeOK
  <1>2. Paced(j, row[j].nextcall, row[j].numbercall, now) BY DEF Pace, RowsPaced
  <1>3. CASE j # cur[r].job \/ ~row[j].exists
    <2>1. row'[j] = row[j] BY <1>3 DEF CommitCron, Updated, IInv, TypeOK
    <2>2. row[j].nextcall \in Nat /\ row[j].numbercall \in Int BY <1>1 DEF Row
    <2> QED BY <1>2, <2>1, <2>2
  <1>4. CASE j = cur[r].job /\ row[j].exists
    <2>1. /\ Paced(j, out[r].nextcall, out[r].numbercall, now)
          /\ out[r].nextcall >= row[j].nextcall /\ out[r].numbercall <= row[j].numbercall
      BY <1>4 DEF Pace, OutsAhead, CommitCron, Busy
    <2>2. row'[j] = [row[j] EXCEPT !.nextcall = out[r].nextcall, !.numbercall = out[r].numbercall,
                                   !.active = IF out[r].numbercall = 0 THEN FALSE ELSE @]
      BY <1>4 DEF CommitCron, Updated, IInv, TypeOK
    <2>3. /\ row'[j].nextcall = out[r].nextcall /\ row'[j].numbercall = out[r].numbercall
          /\ row'[j].exists = row[j].exists
      BY <1>1, <2>2 DEF Row
    <2> QED BY <1>4, <2>1, <2>3
  <1> QED BY <1>3, <1>4

LEMMA CommitCronPace ==
  ASSUME CronAssumption, IInv, Pace, NEW r \in Runner, CommitCron(r) PROVE Pace'
  <1>1. /\ pc[r] = "committed" /\ pc'[r] = "polled"
        /\ UNCHANGED <<now, todo>>
        /\ \A s \in Runner : s # r => UNCHANGED <<pc[s], cur[s], out[s]>>
    BY DEF CommitCron, IInv, TypeOK
  <1>2. RowsPaced' BY <1>1, CommitCronMoves DEF RowsPaced, Paced, After, LastDue
  <1>3. DictsPaced'
    <2> SUFFICES ASSUME NEW s \in Runner
                 PROVE  /\ \A e \in todo[s] : DictPaced(e)
                        /\ pc'[s] = "locking" => DictPaced(cur'[s])
      BY <1>1 DEF DictsPaced, DictPaced, Paced, After, LastDue
    <2> QED BY <1>1 DEF Pace, DictsPaced
  <1>4. OutsAhead'
    <2> SUFFICES ASSUME NEW s \in Runner, Busy(s)', row'[cur'[s].job].exists
                 PROVE  LET i == cur'[s].job  o == out'[s] IN
                        /\ Paced(i, o.nextcall, o.numbercall, now)
                        /\ o.nextcall >= row'[i].nextcall
                        /\ o.numbercall <= row'[i].numbercall
      BY <1>1 DEF OutsAhead, Paced, After, LastDue
    <2>1. s # r /\ Busy(s) /\ UNCHANGED <<cur[s], out[s]>> BY <1>1 DEF Busy
    <2>2. PICK i \in Job : i = cur[s].job BY <2>1 DEF IInv, TypeOK, Busy, Dict
    <2>3. row[i].exists BY <2>1, <2>2, CommitCronMoves
    <2>4. i # cur[r].job
      <3>1. lock[i] = s BY <2>1, <2>2, <2>3 DEF IInv, LockHeld
      <3>2. i = cur[r].job => lock[i] = r BY <1>1, <2>3 DEF IInv, LockHeld, Busy
      <3> QED BY <2>1, <3>1, <3>2
    <2>5. row'[i] = row[i] BY <2>4, CommitCronMoves
    <2> QED BY <2>1, <2>2, <2>3, <2>5 DEF Pace, OutsAhead
  <1> QED BY <1>2, <1>3, <1>4 DEF Pace

LEMMA NextPace == CronAssumption /\ IInv /\ Pace /\ [Next]_vars => Pace'
  <1> SUFFICES ASSUME CronAssumption, IInv, Pace, [Next]_vars PROVE Pace'
    OBVIOUS
  <1>1. ASSUME NEW r \in Runner, RunnerStep(r) \/ Crash(r) \/ Respawn(r) PROVE Pace'
    BY <1>1, PollPace, StartLockPace, IdlePace, ProcessPace, CommitJobPace, CommitCronPace
       DEF RunnerStep
  <1> QED BY <1>1, OtherPace DEF Next

\* A step that is no CommitCron leaves nextcall and numbercall alone.
LEMMA NextMoves ==
  ASSUME CronAssumption, IInv, Pace, Next, NEW j \in Job
  PROVE  row'[j].nextcall >= row[j].nextcall /\ row'[j].numbercall <= row[j].numbercall
  <1>1. row[j] \in Row /\ row[j].nextcall \in Nat /\ row[j].numbercall \in Int
    BY DEF IInv, TypeOK, Row
  <1>2. CASE \E r \in Runner : CommitCron(r) BY <1>2, CommitCronMoves
  <1>3. CASE \E i \in Job : Unlink(i) \/ \E b \in BOOLEAN : SetActive(i, b)
    <2>1. PICK i \in Job : Unlink(i) \/ \E b \in BOOLEAN : SetActive(i, b) BY <1>3
    <2>2. PICK new : /\ row' = [row EXCEPT ![i] = new]
                     /\ \/ new = [row[i] EXCEPT !.exists = FALSE]
                        \/ \E b \in BOOLEAN : new = [row[i] EXCEPT !.active = b]
      BY <2>1 DEF Unlink, SetActive, Edit
    <2>3. new.nextcall = row[i].nextcall /\ new.numbercall = row[i].numbercall
      <3>1. row[i] \in Row BY DEF IInv, TypeOK
      <3> QED BY <2>2, <3>1 DEF Row
    <2>4. row'[j] = row[j] \/ (j = i /\ row'[j] = new) BY <2>2 DEF IInv, TypeOK
    <2> QED BY <1>1, <2>3, <2>4
  <1>4. CASE UNCHANGED row BY <1>1, <1>4
  <1> QED
    BY <1>2, <1>3, <1>4 DEF Next, Tick, RunnerStep, Poll, StartLock, SkipLocked, LockFails,
       Process, CommitJob, Return, Crash, Respawn

\* The schedule never rewinds, however stale the dictionaries runners work from are.
THEOREM NeverRewinds == Spec => ScheduleNeverRewinds
  <1>1. Init => Pace BY InitPace, CronAssumption
  <1>2. IInv /\ Pace /\ [Next]_vars => Pace' BY NextPace, CronAssumption
  <1>3. IInv /\ Pace /\ [Next]_vars
          => [\A j \in Job : row'[j].nextcall >= row[j].nextcall
                             /\ row'[j].numbercall <= row[j].numbercall]_vars
    BY NextMoves, CronAssumption
  <1> QED BY <1>1, <1>2, <1>3, Invariance, PTL DEF Spec, ScheduleNeverRewinds
=============================================================================
