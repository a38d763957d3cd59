# Verification of odoo_emm

TLA+ models, TLC runs and TLAPS proofs about the server in this repository: the
OpenERP/Odoo 7.0 server (`src/odoo/openerp`), the addons shipped with it
(`src/odoo/addons`) and the addons of the fork (`src/emm`).

Contents

1. The system: components, state, operations, what is hard
2. Modules, and how they correspond to the code
3. Runs
4. Bounds
5. Fairness
6. Proofs
7. Where the code and its words disagree
8. What is not modelled, and limits of the guarantees
9. What could come next

Run a model with `tlc -workers 2 -config MCCronJobs.cfg MCCronJobs`, a proof with
`tlapm CronProofs.tla`.

## 1. The system

A server is a set of operating system processes (a prefork master with HTTP and
cron workers) or of threads in one process. Every process keeps, per database, a
*registry* of model objects with in-memory caches, and a *pool* of connections.
A request checks whether other processes changed the registry or the caches,
runs one ORM method in one REPEATABLE READ transaction, commits, and signals what
it changed; a request that met a conflict is run again, a few times. Cron runners
call model methods at their due times in the same way. Business documents (sales
orders, purchase orders, pickings, invoices, service orders) are models; a
*workflow* moves each of them, a *sequence* numbers them, and the fork puts an
*approval engine* in front of their buttons. *Stock moves* carry what the
documents promise from location to location.

```
 master (Prefork) --- spawns, watches, kills ---> HTTP and cron workers
                                                   |
 client -> web_services.dispatch -> object_proxy.check -> model method
                  |  ^                    (retry)           |
                  v  |                                      v
     RegistryManager (caches, signals)      via_approval: write_obj / hook_validation
                  |                         workflow: trg_write / trg_validate
                  |                         ir_sequence, stock.move, stock.picking
                  |                                      |
 cron runner -----+--------------> ConnectionPool / Cursor -> PostgreSQL
```

| component | code | state | operations | hard parts |
|---|---|---|---|---|
| Approval engine | `emm/via_approval` | rows of `approval.list` (document, item, state, hash, approver), `approval.audit` | create_obj, write_obj, hook_validation, approve, reject, ignore, reading of the form | states must follow rules and hashes through any sequence of writes, buttons, partial deliveries and returns; a form shows buttons for data that changed since |
| Approval messages | `emm/via_approval_message` | messages of a document | overrides of write_obj and the buttons | ordered before the write they announce |
| Documents under approval | `emm/via_approval_{sale,purchase,stock,account,service}`, `emm_approval`, `emm_approval_rma` | the document | create, write, copy, the guarded buttons | content that changes without the document's `write` |
| Scheduler | `openerp/addons/base/ir/ir_cron.py`, `service/cron.py`, `WorkerCron` | `ir_cron` rows, each runner's polled dictionaries | poll, lock, process, two commits, write/unlink by users | several runners, dictionaries polled before the lock, kill between two commits, serialization failures |
| Connection pool | `openerp/sql_db.py` | `_connections`, flags on connections, cursors | borrow, give_back, close_all, cursor close, `__del__` | garbage collection at any point, lost connections, full pool, failure after eviction |
| Registry and caches | `modules/registry.py`, `tools/cache.py`, `ir_model.py` | registries, ormcaches, two database sequences | check_registry_signaling, signal_caches_change, signal_registry_change | numbers drawn by others between a check and a signal; signal before commit; kill before signal |
| Request execution | `service/web_services.py`, `osv/osv.py` | one transaction | begin, commit, rollback, retry | retries with what the failed try left in memory |
| Prefork server | `service/workers.py` | registered workers, queue of signals, pipes, timeouts | spawn, reap, watchdog kill, stop; start, rounds and end of a worker | signals, deaths and hangs at any point, two ways to stop, a master that dies |
| Sequences | `base/ir/ir_sequence.py` | rows of `ir_sequence`, PostgreSQL sequences | next (standard and no_gap), write, unlink | gaps and duplicates under locks, rollbacks, retries and administrators' changes |
| Workflow engine | `openerp/workflow` | instances, work items, marks of joins, triggers | create, write, validate, trigger, redirect, delete | recursion over splits, joins and subflows; lists fetched before they are processed; requests side by side |
| Stock | `addons/stock`, `emm_stock_enhancements` | moves, pickings | confirm, assign, force, cancel, process, transfer in parts | reservation over several locations, chained moves, splits, requests side by side |
| ORM | `openerp/osv` | records | read, write, store triggers | recomputation order, cycles |
| LRU cache | `tools/lru.py` | linked list and dictionary | get, set, pop | relinking |

What makes each modelled component correct:

- *Approval*: an approval whose rule holds is never n/a; a review is only as good
  as the data it covered; no guarded button goes through on unsettled approvals; a
  review is lost only to a change of the reviewed data, and never in silence.
- *Scheduler*: one runner per job at a time; no occurrence is skipped; the
  schedule never goes backwards; no call of a limited job is lost; due jobs get served.
- *Pool*: never more than `maxconn` connections; a connection never serves two
  cursors; none is lost; none is handed out inside a transaction.
- *Caches*: once a change has been signalled no request starts with outdated data;
  no signalled change is overlooked for good.
- *Prefork*: every child is registered until it is reaped; the dead are reaped, the
  stuck killed, the server stops when told to, and no worker goes on without it.
- *Sequences*: no number is used twice; a gapless sequence has no gap among the
  committed documents; every request is answered.
- *Workflow*: a work item is neither doubled, left behind nor left half executed; an instance
  never goes back, one that ended has nothing to do, and those who waited for it know; what
  can move moves.
- *Stock*: splitting neither loses nor duplicates a demand; a reservation takes what is there, once;
  what was processed stays; a chained move is released by the last one before it.

The hazards behind these properties are listed, with the line where each bites, in
`PROJECT.json`.

## 2. Modules

The code's transactions are PostgreSQL's snapshot isolation. Where requests that run
side by side matter, a module models them in the way that its code depends on:

| module | a transaction is |
|---|---|
| Approval | one action: two requests on one document would update its row, so that they are serialized |
| CronJobs | poll, lock, two commits as separate actions, with `overtaken` for snapshots that are older than a commit |
| SequenceNumbers | a snapshot `view`, row locks that are taken statement by statement, `missed` rows that others committed since |
| Workflow, StockMoves | `Begin` takes the snapshot; one action evaluates the whole method on it and commits, unless one of the rows it wrote (or locked) was committed by another in between |

### Approval (+ MCApproval, ApprovalMessage, MCApprovalMessage, ApprovalProofs)

One action is one committed request. A request of the server runs in one
transaction and is rolled back when it raises, so a button that
`hook_validation` refuses is an action that is not enabled. Concurrent requests on
one document are serialized by PostgreSQL's snapshot isolation with retries
(`osv.py`), since both would update the same row of the document.

| state | code |
|---|---|
| `content[d]` | the data of document `d`, one member of `Content`, seen by items only through `Rule` (the item's condition, `eval`ed in `_check_rule`) and `Hash` (its hash formula). `NoDoc` before creation, `Deleted` after |
| `list` | rows of `approval.list` in id order: document, item, state, hash, approver, and `offered`, which is the client's: it shows the review buttons since the form was read |
| `evaluated`, a field of `list` | FALSE on a copy of a carry-over, whose state was given, until `write_obj` asks its rule |
| `stale` | documents whose content moved without their `write` (another record, SQL): nothing evaluates them until they are next written |
| `audit` | rows of `approval.audit` the last request created |

| action | code |
|---|---|
| `CreateDoc`, `WriteDoc`, `DeleteDoc` | create, write and unlink of a document class, with `create_obj` and `write_obj` at their end |
| `CarryOver` | create under the context key `approval_carry_over`: the back order of a partial delivery. `ApprovalLists`: what `approval_list` of the active document shows, which on incoming and outgoing pickings has no domain on the model. `Homes`: `create` files each copy under the document of its *item's* model with the new id, and raises where there is none |
| `CreateReturn` | `create_returns` with `force_to_pass`: create, confirm, force_assign in one request |
| `OperateReadOnly`, `OperateAndWrite` | a guarded button: `hook_validation`, then the method, which leaves its document alone or writes it |
| `AddApproval`, `SetApprover` | the approval page of the form, saved with the document |
| `OpenForm` | reading the form, whose function field `auto_approval_func` writes |
| `Approve`, `Reject`, `Ignore` | the review buttons; they write whatever the row has become since the form was read |
| `ChangeRelated` | the content changes behind the document's back |

`ReevaluatedState` and `ReevaluatedHash` are the body of the loop in `write_obj`.
`HookState` is the net effect of `hook_validation`'s nested loops: rows are walked
in id order and all rows met so far are processed again after each one, while
`force_to_pass` is switched off for good by the first row with another hook.
`SameId` keeps the search by `doc_id` alone, over all models.

`ApprovalMessage` adds `posts`, the messages the request left, to every action of
`Approval`. Its `MSpec` implements `Spec` (theorem `Implements`), so the run of `MSpec`
also checks the properties of `Approval`.

### CronJobs (+ MCCronJobs, CronProofs)

A runner goes `sleeping -> polled -> locking -> ran -> committed -> polled ...`.
Between any two of these, other runners, users and kills take their steps.

| action | code |
|---|---|
| `Poll` | the first SELECT of `_acquire_job`; its transaction is closed and only dictionaries are kept (`todo`) |
| `StartLock` | a fresh cursor begins `SELECT ... FOR UPDATE NOWAIT`: its snapshot is taken |
| `SkipLocked` | 55P03, the job is busy elsewhere |
| `LockFails` | the row was changed after the snapshot: a serialization failure, another `OperationalError`, raised again out of the runner |
| `Process` | lock taken, `_process_job` calls the method from the dictionary. `Outcome` is its loop: `Turns`, `CalledTurns`, the last call that does not move `nextcall` |
| `CommitJob`, `CommitCron` | the two commits in their order: the calls, then the row |
| `Return` | `_acquire_job` ends |
| `Crash`, `Respawn` | a worker process is killed, and replaced by the master. A thread (`Prefork = FALSE`) is not |
| `SetActive`, `Unlink` | users; `_try_lock` refuses while a runner has the row |

`overtaken` holds the runners whose snapshot is older than a commit on the row they
are about to lock. `called` and `calls` record committed calls; they are history
variables. A row that was deleted cannot be locked by anybody, and the code does
not look at how many rows `FOR UPDATE` returned: the dictionary is processed all
the same, and `OneRunnerPerJob` says so.

### Sessions, ConnectionPool (+ MCConnectionPool, PoolProofs)

`_connections` is two sets, `idle` and `used`. `borrow` holds the lock over its two
loops; it is split into `Sweep` (first loop), then `Reuse`/`ResetFails` (second
loop), then `Connect`/`ConnectFails`/`PoolFull`, because the steps that do not take
the lock fall between them: `CloseCursor` up to its rollback, `Collect` (`__del__` by
the garbage collector, possibly of the very thread that is in `borrow`), `NoticeLoss`
and `Lose`. `GiveBack`, `CloseAll` and `Sweep` wait for the lock (`Locked`). A closed
connection's name can be used again by `Connect`. The order of the list is abstracted
to any choice among the connections that would do.

`Sessions` is the abstract specification, of what a cursor is to those who open one: it asks (`Ask`)
for a database, is refused or granted a session with that database in which no transaction is begun, works, and leaves;
there are no connections. `IsSessions` maps an open cursor to the session with its connection's database, begun if the connection is
in a transaction. A shared connection, a wrong one, or one that comes with somebody's transaction would be a
step that `Sessions` does not have.

### RegistrySignaling (+ MCRegistrySignaling, RegistryProofs)

A process's request goes `idle -> checked -> open -> committed -> idle`:
`check_registry_signaling`, first statement of its transaction, commit, then
`signal_caches_change`. One ormcache entry over one row stands for all; its values
number the writes. `CreateModel` draws the registry's number inside the transaction,
`UnlinkModel`/`RestartPool` commits first, as `ir_model.create` and `unlink` do.
`announced` and `floor` are history variables: the newest value signalled, and what
had been signalled when a process last checked. `lost` records a kill between a commit
and its signal.

`clear_cache` without arguments raises `_any_cache_cleared`; with arguments, as the translations
(ir_translation.py:277-279, 347-348, 362-363, 371-372) and the external ids (ir_model.py:932-933) call it, it does so
only if the process has that key in its cache (tools/cache.py:56-62): `Write(p, keyed)` is both. `owed` is
what was committed by the latest commit that is followed by a signal, either because the flag is up
or because a model was deleted. `ReadersAreTold` is about `owed`. Of every committed change it is false,
see section 7.

### Numbering, SequenceNumbers (+ MCSequenceNumbers, SequenceProofs)

`Numbering` is the abstract specification: a set of committed documents with their
numbers, and a series per sequence. A step commits the documents of one request, with
numbers nobody had and, for a gapless series, the next ones in a row; or administrators
change a series. `SequenceNumbers` is the code, and implements it under
`Committed` (the numbers drawn by requests that are done) and `row`.

| state | code |
|---|---|
| `row`, `lock` | the committed rows of `ir_sequence`, and who locked or updated them |
| `pgseq` | the PostgreSQL sequences: `last_value`, `is_called`, `increment` |
| `view`, `missed` | a transaction's snapshot with its own updates; the rows others committed since |
| `pc`, `tries`, `drawn`, `altered` | a request in `object_proxy.check`, its retries, the numbers it drew, the row an administrator's write has updated |

| action | code |
|---|---|
| `Begin`, `Commit` | `execute`: cursor, first query, `cr.commit()` |
| `DrawStandard`, `DrawDropped` | `nextval`, which no rollback takes back; a sequence that was dropped since is an error |
| `DrawNoGap`, `DrawConflict` | `FOR UPDATE NOWAIT`, then the UPDATE; the number is the one read before. No lock, or a newer version: retried |
| `Collide`, `Raise` | the rest of the method conflicts (retried), raises, or the process dies |
| `Write`, `Unlink`, `WriteConflict` | the UPDATE or DELETE of an administrator, which waits for the lock |
| `Alter`, `AlterRefused` | the second half of `write`: `_alter_sequence` takes effect at once, CREATE and DROP with the commit (`PgSeqAfterCommit`) |

### Workflow (+ MCWorkflow, WorkflowProofs)

The interpreter is written as operators on a request under way (`v`): its rows, the rows
it touched, free ids, the order in which SELECT returns rows, whether a subflow's action returns
a document, and `todo`, the calls it has still to make, the next one first. `process`, `validate`,
`Update`, `create`, `Execute` (with `Executed`, what follows the action of the activity), `SplitTest`,
`JoinTest` and `UpdateEnd` follow `workitem.py` and `instance.py` name by name, the lists of rows
fetched once before their loops included; `trg_write`, `trg_validate`, `trg_trigger`,
`trg_redirect`, `DeleteInstance` and `CreateInstance` follow `wkf_service.py`.

The code is recursive: a split creates items, which are processed before the next branch of the split is
looked at, and whose conditions, subflows and signals start more of the same. Here an operator does what
comes before its first call and puts that call, and what it does after it, in front of `todo` (`Call`),
so that calls are made in the order of the code, depth first. `leave`, `executed`, `unmark`, `end`
and `tell` are the remainders of `process`, `_execute`, `_join_test`, `validate` and `_update_end`.
`Step` makes one call (`Make`), `Run` all of them.

| state | code |
|---|---|
| `db.inst` | `wkf_instance.state` of each document; `gone` after its deletion |
| `db.items` | `wkf_workitem`: activity, instance, state, subflow |
| `db.marks`, `db.trig` | `wkf_witm_trans`, `wkf_triggers` |
| `db.facts` | what the conditions of transitions read of the documents |
| `sess` | each request's snapshot, and the rows others touched since |

`Requests` lists what a request may be: a signal, a write (and `trg_trigger`, for
documents whose methods call it), a deletion, or a merge of orders. `Commit` runs one and publishes
its rows if no row of its own was touched meanwhile (`Serializes`) and the foreign keys hold.
MCWorkflow gives it the sale order's workflow and the procurement's, abridged.

### Prefork (+ MCPrefork, PreforkProofs)

The master's loop is `signals -> zombie -> timeout -> spawn -> sleep`, one or more steps
each (`ProcessSignals`, `Reap`, `ReapFatal`, `Kill`, `Spawn`, `ForkFails`, `Wake`, `Tick`), and
`stop -> drain -> over` or `abort -> over` at its end (`StopBegin`, `DrainTick`,
`StopEnd`, `DrainRaises`, `MasterDies`). `chld` and `term` are `self.queue`, `wakeup` is
the byte in `self.pipe`, `ping` the bytes in the workers' watchdog pipes, `age` the beats
since `watchdog_time`. A worker is `forked` (the master's handlers are still in place),
`idle`, `working`, and a `zombie` (`fatal` when it exits with status 3) until it is reaped;
`last` holds those whose `alive` is False. Time passes in the master's `select()` only.

### StockMoves (+ MCStockMoves, StockProofs)

One product's moves. `Chained` (`create_chained_picking`), `Confirm`, `Assign` (`check_assign`),
`Reserve` (`_product_reserve`), `ForceAssign`, `Cancel`, `Done` with `Process` and `Release`
(`action_done`), `MovePartial` are the methods of `stock.move` and `stock.location`;
`PickConfirm`, `PickAssign`, `PickForce`, `PickValidate`, `PickCancel`, `Transfer` with `Leave`
(`do_partial`) those of `stock.picking`, as `emm_stock_enhancements` and the fork's changes in
`stock.py` leave them: `Create` confirms and assigns a move of an incoming picking at once, `Assign`
splits a move over the locations that give it or raises for all, `Transfer` splits lines. The copies
that `check_assign` makes of a split move are drafts (`Draft`: `copy` is given no state) until the loop over all moves has
ended and everything that was found is assigned at once (the set `done`): the moves in between do not count them.

These methods call each other, `action_done` and `create_chained_picking` themselves as well. A
request under way is a record `w` with its rows and a stack `todo` of the calls it has yet to make,
as a program has its stack: a method does what comes before its first call, pushes its calls
and what it does after them, and `Step` makes the call on top. A loop over moves is a call
that leaves itself with the moves that remain. `Run` makes steps until the stack is empty;
a call that raises ends the request.

The actions run a request from a button's call, one that others may overtake (`Begin`, then the
method) or in one step (`Alone`). `Buttons` says in which states the form shows a
button of a move. `leg` tells which demand a move is part of and serves the properties
only.

## 3. Runs

| run | module, cfg | distinct states | what it shows |
|---|---|---|---|
| approval_core | MCApprovalMessage, MCApproval | 51 163 | one document with approvals of three items (standard, auto, and a standard one that is on force_assign alone), through every request, with messages: `StateTracksRule`, `HashTracksContent`, `NoUnapprovedOperation`, `ReviewSurvives`, `ResetIsAnnounced`, `ForceOnlyForceAssign` |
| approval_carry | MCApproval, MCApprovalCarry | 318 304 | `StateTracksRule`, `NoUnapprovedOperation` for a picking, its back order, which is created with the states of the first, and the inventories with their ids, under which copies of the other model's approvals are filed; with rows that deleted documents left behind |
| cron_runners | MCCronJobs, MCCronJobs | 502 571 | two worker processes, a kill between any two steps, a user's write: `OneRunnerPerJob`, `RowKeptWhileBusy`, `NoOccurrenceSkipped`, `NoCallLost`, `ScheduleNeverRewinds`, `DueServed` |
| pool | MCConnectionPool, MCConnectionPool | 253 046 | three cursors over a pool of two connections to two databases: `WithinLimit`, `NoSharedConnection`, `NoOrphan`, the refinement `IsSessions` |
| registry | MCRegistrySignaling, MCRegistrySignaling | 1 535 347 | two writers and a reader: `ReadersAreTold`, `ReadersAreFresh`, `DeletedModelsTold` |
| sequences | MCSequenceNumbers, MCSequenceNumbers | 195 218 | two requests draw numbers, one of them two, while an administrator changes, converts and deletes sequences: `UniqueNumbers`, the refinement `IsNumbering`, `Answered` |
| workflow | MCWorkflow, MCWorkflow | 12 324 | a sale order (split, subflow, trigger, join) or a procurement whose order is merged, under two requests: `TypeOK`, `OneToken`, `CompleteIsDone`, `WaitersTold`, `DoneAlone`, `InstancesAdvance`, `SerialSettles` |
| workflow_join | MCWorkflow, MCWorkflowJoin | violated | `JoinsFire`: two requests finish the branches of a join side by side |
| prefork | MCPrefork, MCPrefork | 148 942 | an HTTP and a cron worker, signals, crashes, hangs, failing forks, a killed master: `NoForgottenWorker`, `DeadAreReaped`, `StuckAreKilled`, `StopEnds`, `OrphansLeave` |
| stock | MCStockMoves, MCStockMoves | 59 724 | two deliveries in two pickings or in one, a chained receipt, or two halves of one, through every button, with a request that others overtake: `DemandKept`, `ReserveWithinFree`, `ProcessedIsFrozen`, `LastUpstreamReleases` |
| stock_copies | MCStockMoves, MCStockCopies | violated | `SameProductTwice`: the second move of a picking reserves the piece that a copy of the first was given |
| stock_twice | MCStockMoves, MCStockTwice | violated | `NeverReservedTwice`: a request that was overtaken reserves the same pieces again |

Deadlock is checked where the system cannot stop (scheduler, pool, registry). The others may
end: a server that was stopped or killed stays so, a request that is answered is not made
again (sequences), and in the approval, workflow and stock runs a state is reached
where nothing more is possible within the bounds.

Type invariants are theorems (`TypeCorrect` of each module of proofs). Only Workflow's is in a run
as well, since it says more than types: no item is left half executed, and a mark waits at an AND join.

The definitions called "mutant" in the modules are plausible mistakes in the code next
to the definition they would replace; with each of them in place the property it is
paired with in `PROJECT.json` is violated in the same run.

## 4. Bounds

- `MaxApprovals` (2 rows of `approval.list`). The engine treats rows independently
  except in `hook_validation`, whose interactions (an earlier row with another hook,
  two rows on one button) are between pairs; two rows give every pair. `Content` has
  three members in approval_core and approval_carry (rule of the standard item false, true, true with
  another hash; rule of the auto item true, true, false; outside the scheme's filter)
  approval_carry has four documents, so that both pickings share their ids with an inventory; one guarded
  button and a user who approves nothing are enough there.
- `MaxTime` (2 ticks), `MaxCrash` (1), `MaxEdit` (1) of CronJobs. A stale dictionary
  needs one tick to become due and one for the other runner to move the job; an
  occurrence is missed as soon as two ticks pass between polls. The limited job has 3
  calls, so that its last one is reached within the clock. One kill suffices for each
  place in the loop, since every place is reached without one.
- `Conn` (4 names) for `MaxConn = 2` and three cursors: two in the pool, and two that
  `close_all` took away from cursors that still hold them. `MaxConn` is the code's own
  parameter and no bound of the model. Three cursors compete for two places, which
  is the least at which a pool is full for someone. Cursors and connections are symmetric.
- `MaxChanges` (2) of RegistrySignaling: writes and changes of models together; two is the
  least at which one process's number hides another's. `MaxCrash` (1). The writers are
  symmetric.
- SequenceNumbers: `MaxTries` (1; the code's 5 only repeats the same loop), and at most two
  draws by one request and one by the other, which is the least that shows a gap inside a
  request and one between requests. Every request runs once.
- Workflow: `MaxItems` (9) work item ids, of which no request finds none left; two
  requests, since every conflict is between pairs. The orders in which SELECT returns rows
  are one and its reverse. `MaxSteps` (40) calls for a request, which none uses up (30 are enough).
- Prefork: two pids, one worker per class, so that a pid is used again as soon as its worker
  has been reaped; `Timeout` (2 beats), of which one passes unnoticed; `QueueLimit` (1 in place of 5).
- StockMoves: `MaxMoves` (5 rows) over two or three demands, enough for one demand to be split
  twice, each of two once, or the first of two moves of a picking (`MCSameOrder`); `MaxOvertakes` (1): one request that commits while another is open; `MaxSteps` (20) calls
  of a request, and 26 or 30 give the same states, so that no request is cut off; `Entered`, what users
  enter besides nothing and all of it: one piece, and two for a delivery of one.

The theorems hold without any of these bounds: every bound is an arbitrary natural number
there, and the sets are arbitrary.

## 5. Fairness

*CronJobs*, `FairSpec`:

- `WF(RunnerStep(r))`: a runner that is not killed keeps going. `cron_runner` and
  `WorkerCron.run` are loops that sleep a bounded time and never wait for another
  runner (`NOWAIT`).
- `WF(Respawn(r))`: the master's loop (`Multicorn.run` calls `process_spawn`) keeps
  starting children until it has as many as configured.

Nothing is assumed about the clock, users or kills. With threads (`Prefork = FALSE`)
`DueServed` would not hold: a runner that met a serialization failure is gone.

*SequenceNumbers*, `WF(Step(r))`: a request that was begun is worked on; the loop of
`object_proxy.check` ends after `MaxTries`. Nothing says which of its steps it takes.

*Prefork*, `Fairness`:

- `WF(MasterStep)`: the master's process is scheduled.
- `SF(Tick)`: time passes. Every `select()` of the master may be cut short by a byte in its
  pipe, but not for ever by the same one; strong fairness keeps wake-ups from stopping
  the clock.
- `WF(Start(p))`, `WF(Round(p))`: a worker's process is scheduled too, and its `select` has
  a timeout.

Nothing makes a worker finish the request it is working on: `StuckAreKilled` is about those
that never do.

## 6. Proofs

All theorems are of the form `Spec => []P`, `Spec => [][A]_vars` or `Spec => AbstractSpec`, for
every value of the constants that satisfies the module's ASSUME.

**ApprovalProofs** (`ApprovalAssumption`). `IInv` says that contents, stale documents and
audit rows are well typed, that no row belongs to a document that was never created, and
that each row of a document that is not stale is *settled* for its content. The second
part is what makes creation inductive: a new document starts without rows, so the ones
`create_obj` appends are all it has. A carry-over may append rows to *other* documents as well, also to
ones that are not stale: such a row is settled in its hash, which `create` computes for the document under which it files
the row, and in its state from its next evaluation on. Lemmas about the pure operators (`ReevaluateRow`,
`WriteObjRows`, `AfterHookRows`, `SchemeRows`, `CarriedRows`, `ConcatRows`) say what each
does to a row; every request is a composition of them (`GoodWrite`, `GoodHook`,
`GoodChange`, `GoodConcat`). Theorems: `TypeCorrect`, `StateTracksRuleHolds`,
`HashTracksContentHolds`, and `Gate`, the action property `NoUnapprovedOperation`: a
settled row whose rule holds is not n/a, so if it is neither approved, ignored
nor passed it blocks anyone who is no approver.

The same module has the theorems about messages (they need `NotifyAssumption`). `Implements`: `MSpec => Spec`, the
messages restrict nothing and change nothing. `ReviewSurvivesHolds` and `Announced` follow
from one statement per kind of request, `KeptOrTold`: the review of a row is kept, or the
row is reset for another hash and that is in the request's messages. `WriteRow` says it of
`write_obj`, `HookRow` of `hook_validation`, and `Written` of the two in a row.
`ForceHolds`: what a return ignores is what `force_to_pass` allowed.

**CronProofs** (`CronAssumption`). `IInv` is the type invariant and `LockHeld`: a busy
runner holds the lock of its job as long as the row exists. `OneRunnerPerJob` alone is not
inductive: it is the lock that keeps `Process` from letting a second runner in.
Theorems: `TypeCorrect`, `MutualExclusion`, `RowKept`. `OutcomeType` proves that the
loop of `_process_job` returns a well-typed outcome for any dictionary and time.

In the same module, `Ledger` says of every copy of a job's `nextcall` and `numbercall`, in the
row, in a dictionary polled long ago or in an outcome that is about to be written, that
it is *backed* by the calls that are committed (plus, before the first commit, those of
the outcome): all occurrences before `nextcall` were called, and calls and `numbercall`
together reach the budget. Copies only age, and calls are only added, so a stale copy is
never ahead. `OutcomeBacked` is the arithmetic of the loop. Theorems: `LedgerHolds`,
`NothingSkipped`, `NothingLostFromBudget`.

`Pace` is the invariant behind `ScheduleNeverRewinds`, whose argument
goes the other way, since a stale dictionary *is* behind the row. Every copy is the row *after*
some number of turns, the last of which was due when it was made (`Paced`); the loop goes on
until no occurrence is due or no call is left (`OutcomePaced`), so it turns at least as far as
any turn the row has seen (`OutcomeAhead`); and while the runner is busy the lock keeps
the row where it was (`OutsAhead`). Theorem: `NeverRewinds`. It needs the clock that all
runners share, see section 8.

**PoolProofs** (`PoolAssumption`). `IInv` joins the safety properties with `IdleClean` (an unused connection is in no transaction), `LeakedLoose`
(a flagged connection is held by nobody, unused by nobody and in no transaction) and
`ClosingClean` (between its rollback and `give_back` a connection is in no transaction),
without which `Sweep` and `GiveBack` could put a dirty or shared connection back.
The limit needs the pool to be finite (`Bounded`) and the arithmetic of one eviction
per connection. For the refinement, `Unseen` says what a step of one cursor must leave alone of the others
(their stage, and the database and transaction of their connections); it follows from exclusive connections, and from
it `AskedBy` and `SessionOf` give the abstract step. `Reuse` and `Connect` are a `Grant`, `CloseCursor`
and `Collect` a `Leave`, a borrow that raises is a `Refuse`, and what the second loop, `give_back`,
`close_all` and the server do is a stutter. Theorems: `TypeCorrect`, `LimitHolds`, `Exclusive`, `NothingLost`,
`Isolates`.

**RegistryProofs** (`SignalingAssumption`). `IInv`: readers write nothing, the
row has one writer (`OneWriter`), and if the newest value that is `owed` a signal is not announced, a process is
between its commit and its signal, or was killed there (`Announcing`). That a request which wrote will
signal is no part of it: a keyed clear may leave the flag down. With these, `ReadersUpToDate` is inductive: the
cache and the snapshot of a reader are as new as what was announced, or the reader will
be told, and within a request they are never older than what was announced before it.
`DeletionsTold` says the same of the models. Theorems: `TypeCorrect`, `ReadersTold`,
`ReadersFresh`, `DeletedTold`.

**SequenceProofs** (`SequencesAssumption`, and `Forward`: administrators make sequences
standard and never gapless, do not set `number_next`, and use positive increments, except that 0
may be tried on a standard sequence, which refuses it). `IInv` says how snapshots relate
to rows (`ViewsOK`), that what a request drew from a gapless sequence leads from the committed
row to the one it sees, under its lock (`DrawersOK`), what an administrator's pending change may
be (`AdminsOK`), and that every drawn number is behind the counter it came from (`NumbersOK`).
Theorems: `TypeCorrect`, `Unique`, and `Refines`: SequenceNumbers implements Numbering; a
step is an `Issue` when a request commits, a `Reconfigure` when an administrator does, and a
stutter otherwise. Without `Forward` the theorems are false, see section 7.

**PreforkProofs** (`PreforkAssumption`). `NoForgottenWorker` with the type invariant, which says
what each place of the master's loop knows, is inductive. Theorems: `TypeCorrect`, `NobodyForgotten`.

**StockProofs** (`StockAssumption`: a finite set of locations, any chains, any initial moves that refer
to each other). Two invariants carry it. The first is about the inside of a request, which is one
step of the specification but many calls: `Sound` holds between any two calls. Its half `Data` compares
the rows with those of the snapshot: they stay linked, processed moves keep quantity and
locations, and the quantities of a demand add up to what they were and what was
entered in excess, if one counts what is `owed`: a move that has been cut down to its first piece is owed
the pieces of the copies that are still to be made, and one from which a part was copied
owes that part until it is reduced. Its half `Agenda` says what the pending calls rely on: the moves they name
exist, those they may change are not processed, the pieces a reservation collected and what it still
looks for make up the quantity of the move, no two pending calls change the quantity of one move, and each
debt has a call that settles it. Without the last part a chain that is confirmed between
two copies could hide a debt, and `DemandKept` would not follow from an empty agenda.
`MakeSound` has one lemma for every kind of call; `RunHealthy` extends it to any number of calls.
The second invariant, `IInv`, is about transactions: a snapshot differs from the committed rows only in rows that
the request is known to have missed (`Saw`). A request that `Serializes` therefore wrote over rows it had
read, and what it kept with respect to its snapshot it keeps with respect to the
committed rows (`CommitInv`, `CommitConserves`, `CommitFreezes`). `LastUpstreamReleases` needs a third one, over
the calls of the request that processes a move: `OneByOne`, no two pending calls process a move, since a
move that is released and validated automatically is processed before its predecessor ends; and `Watched`, while the
next move waits, an open move that leads to it is out of reach of every pending `end`, or the only one within
reach is about to be released. A chained move that is created on the way takes the place of the move it was
chained to (`ChainedKeeps`), so the next move keeps something to wait for.
`ReserveWithinFree` needs a fourth, `Reserving`, over the calls of a request that reserves a picking without being
overtaken: since it began no location has given a move more than it had, nor the moves that were there
before more than it had in all (`Fine`), and the call that is made next finds what it relies on
(`Ready`). For a reservation that is that every piece found is still available (`Pieces`), since nothing else runs before the move takes
the first of them. For the copies it is only that each piece was available when the request *began*: they
are drafts, and moves that follow may take the same pieces. What is assigned at the end is `Pending`: assigned already, from a
supplier, or a new move with a piece that was once there; and this survives whatever is called in between
(`Later`). The copies are therefore no part of the sum that the theorem bounds: with them it is false
(`SameProductTwice`, section 7). Theorems: `Invariance`, `TypeCorrect`, `ProcessedStays`,
`DemandConserved`, `LastReleases`, `ReservesWithin`.

**WorkflowProofs** (`WorkflowAssumption`: finitely many documents, activities and transitions, of the kinds and modes
that the forms offer; any workflows, conditions, triggers and signals). As for the stock moves, a request is
followed from call to call. `Sound` says of a request under way that its rows are typed and refer to
rows that exist, that its free ids are free, that the instances for which a pending call works
exist, since `process` goes on with items it fetched before other calls ran and relies on their instance, and
that each mark either belongs to an AND join or has a pending call that looks at it or takes it away
(`Cleans`). The second argument of `Sound` is the call that was just taken from the list: what it was to
clean is its duty until it has made its own calls. There is one lemma for every operator of the
interpreter (`SplitTestIs` hands its new marks to the joins, `JoinTestIs` to `unmark`, `UnmarkIs` removes them;
`DescendIs` creates the instance before anything works for it; `DeleteInstanceIs` shows that nothing refers to what is
deleted), `MakeIs` and `StepIs` put them together, and `RunIs` extends them to any number of calls. A request
that ends has no pending call, so its rows are `Kept`, and `PublishedIs` puts them among the
committed ones, whose foreign keys the database checks.

`Sound` says nothing about what becomes of an item. That is `Under`, which follows the same calls once more: every
item is at rest (`Rests`: it is complete, or runs with a subflow that it waits for) or a pending call resumes
it, and every instance is where it was when the request began or further on, and then locked. It is
kept only because a call names no item that is still to be created, and because the item a pending call
goes on with after it started a subflow is no longer active (`Fits`): without that, a call fetched before could make the item
active again under it. `Eases` and `Same` say what a single statement does to items and instances, there is again one lemma for every
operator, and `EvaluatedUnder` draws the conclusion: a request ends with all items `Resting`. If no item was untold when
it began, it also ends with none untold, because `tell` reaches every item that waits for an instance that ends.
Across transactions `RInv` adds to `IInv` that the committed rows and all snapshots are `Resting`, and that an
instance is as a snapshot has it unless a commit that the request has missed locked it. A commit
that `Serializes` therefore moves instances on from where they *are*, not only from where it saw them. What
it may get wrong is a pair: it leaves the item it read beside a subflow that others ended, or ends the
subflow it read beside an item that others sent into it. `UntoldByRaceOnly` says that nothing else goes wrong (in the run, where `WaitersTold` holds, it follows from that). The exception is
real: if the workflow of one document has a transition into an activity whose subflow is an order that exists already, one request can
take it while another cancels the order. They write no common row, and the item waits for ever: with such a
workflow TLC finds it in a few steps, and therefore `WaitersTold` is stated of workflows that create the subflow's document
for the item, as procurements and sale orders do. Theorems: `Invariance`, `TypeCorrect`, `Advances`, `ToldUnlessRaced`.

For StockMoves, two inductions are needed, over the number of calls and over the sums of
`MapThenSumSet`. They are made by hand: `NatSet` is induction for a *set* of numbers, from the
library's theorem that a nonempty set has a minimal element, and the first lemmas
unfold the function that `MapThenSumSet` folds with (`SumRemove`, `SumSame`, `SumSupport`, `SumMoved`).
`RunIs` of WorkflowProofs uses the same device.

Only model-checked:

- liveness (`DueServed`, `Answered`, `DeadAreReaped`, `StuckAreKilled`, `StopEnds`, `OrphansLeave`),
  which is outside the prover's reach;
- `OneToken`, `CompleteIsDone`, `WaitersTold`, `DoneAlone` and `SerialSettles` of Workflow, which are properties of the
  workflows in the runs and do not hold for every one: a net that is not safe doubles a token, an
  ending activity with transitions lets a complete instance go on, and a subflow that returns a document
  that others work on already may end, unnoticed, while the item begins to wait for it.

## 7. Where the code and its words disagree

Each of these is a run whose property states the quoted words, with TLC's trace as the
explanation.

- `JoinsFire` (workflow_join): `_join_test` (workitem.py:187) counts the marks of its own
  snapshot. The two branches of the sale order's join end in `action_invoice_end`
  (sale.py:548) and `action_ship_end` (sale_stock.py:449), of which only one writes the order;
  when they run side by side each leaves its mark, no row is written by both, and the order
  is never done. `Cursor` promises "the best guarantees that no data corruption can ever be
  cause by simply running multiple transactions in parallel" (sql_db.py:97-99).
- `SameProductTwice` (stock_copies): `check_assign` assigns each move before it looks at the next, since "the test does
  not work correctly if the same product occurs multiple times in the same order" (stock.py:2199-2202). The copies of a
  split move stay drafts until the loop ends (2213, 2217-2219; orm.py:4992-4997), `_product_reserve` does not count
  drafts, and a picking of two and of one reserves three pieces where two are, with no other request involved.
- `NeverReservedTwice` (stock_twice): the rows that `_product_reserve` locks "to prevent
  reservin twice the same products" (stock.py:382-383) are those of its snapshot. A reservation that was
  committed since has inserted or updated other rows, the lock is granted and the
  sums are taken from the snapshot.

Met while modelling, not given a run:

- *Scheduler*. A row is not read again after the lock (ir_cron.py:154, 222): two runners that
  polled a job call it more often than `numbercall` allows (help text, ir_cron.py:70). A serialization
  failure of the locking statement leaves the thread's loop for good (ir_cron.py:245,
  service/cron.py:58). `_acquire_job`'s docstring says "If a job was processed, returns True"
  (ir_cron.py:185) and it always returns None.
- *Registry*. A process that creates, writes or deletes a translation without having it in its cache commits and
  signals nothing (tools/cache.py:56-62), and the others go on serving the old one, although caches "must be
  invalidated (e.g. after a write occured on another process)" (registry.py:308-309): with `committed` in
  place of `owed` in `ReadersAreTold` TLC shows it in a few steps. `signal_caches_change` notes the number it drew as seen, and with it those others drew
  since the check (registry.py:342, comment 308). `ir_model.create` signals before it commits
  (ir_model.py:202), so that another process may reload too early and never again.
- *Approval*. `hook_validation` searches approvals by document id, not by model (via_approval.py:715): the button of a
  picking validates, and approves for an approver, the approvals of the inventory with the same number, although
  it is about approvals "related to the button" (709). A carry-over copies them as well (450). An auto approval that was ignored is audited at each write although nothing changes
  (via_approval.py:529-531); the message of a reset is also posted for an approval that is kept
  because its rule no longer holds (approval_message.py:92).
- *Pool*. `ConnectionPool`'s docstring says only `close_db` closes connections (sql_db.py:368) although
  `borrow` evicts, and connections to templates are closed on return.
- *Sequences*. A standard sequence made gapless goes on from the `number_next` of its row, which
  nobody updated meanwhile (ir_sequence.py:206-207; docstring 50-52); setting `number_next` to that stale value
  is taken for no change (201); a gapless sequence with increment 0 repeats its number.
- *Workflow*. `validate` processes the items as they were when it fetched them (instance.py:41,
  workitem.py:116-174), so that an activity that is not safe as a net may run twice; a subflow action that returns
  False deletes the item, and the join behind it never fires (workitem.py:128-130); deleting a document
  that is waited for deletes the waiting item of its parent (cascade in base.sql); an instance without
  items counts as complete; `stopall` leaves marks of joins behind.
- *Prefork*. With five signals in the queue SIGTERM is dropped (workers.py:71); a graceful stop tells workers
  to end while they serve requests (184-187, 294); a worker that is forked but has not installed its handlers
  ignores SIGTERM; a worker that exits with status 3 while the master is stopping raises out of `stop`; idle cron
  workers sleep 60 to 69 seconds, so that `limit_time_real` below that kills them; `pipe_ping` catches IOError where
  `os.write` raises OSError; a fork that fails stops the server.
- *Stock*. Two halves of a chained receipt that are processed in one transfer, or by two requests side by
  side, leave the chained move waiting for ever (stock.py:2418). A partial transfer of a waiting move copies it
  as waiting with no move before it. A partial transfer of a chained incoming picking duplicates the chained quantity,
  because `create` confirms the copy again. Four location ids (63, 55, 71, 20) are searched in every
  reservation (stock.py:410-414). A reservation that finds too little raises for the whole picking. A transfer
  wizard that was filled in before delivers more than is left, and `do_partial` checks no state.

## 8. What is not modelled, and limits of the guarantees

- *Stale documents*. When a line or a related record changes a document's content without
  the document's `write`, nothing re-evaluates its approvals. The approval properties
  exclude such documents (`stale`) until they are next written: this is a limit of the
  guarantee the code gives.
- *Back orders* copy the states of the original, which are not evaluated before the
  first write (`evaluated`). Without an `active_id` in the context no approval is created. On
  incoming and outgoing pickings `approval_list` has no domain on the model
  (via_approval_stock/stock.py:337, 458): the approvals of any model with the active document's id are copied
  (via_approval.py:450), and each is filed under the document of its own model that has the *new* id
  (291-308), be that an inventory which nobody has written. `StateTracksRule` is about evaluated states, and
  `NoUnapprovedOperation` counts an n/a only once its rule was asked; every other unsettled state blocks the
  button as it was copied. A copied review also keeps the word of a reviewer who saw another document's data.
- *An approver who presses the guarded button* approves by that, also over a rejection.
  `NoUnapprovedOperation` is therefore about users who are not approvers of the row.
- *Scheme selection* (dates, filters) is the constant `Scheme`; the copies of an item's
  settings on its approvals are constants, so edits of items and schemes during a
  document's life are left out.
- *The clock of the scheduler* is one for all runners and for PostgreSQL, and it does not
  go back. Writes of a job by users change `active` or delete the row; a new `nextcall` or
  `numbercall` would be a new schedule, to which the ledger of the old one does not apply.
- *Effects of the methods* that cron jobs call, and SQL errors in them, are not modelled:
  a call is counted when its transaction commits.
- *Lost signals*. A process that is killed between its commit and its signal leaves the
  others' caches outdated; the code does not repair that, and the properties of
  RegistrySignaling say nothing after it (`lost`). A process that signals changes itself may
  overlook those of others: the properties are about processes that do not.
- *Sequences*: their creation, the choice among companies, prefixes and suffixes.
- *Workflow*: groups of transitions, server actions of activities, several workflows per model,
  subflows without an action, the cache of `wkf_service` that says which models have a workflow.
- *Prefork*: sockets, limits of memory and CPU as such (a worker may end at any round), logging.
- *Stock*: scrap, deletion of pickings, returns, splitting without processing, lots and tracking,
  prices, units of measure, accounting, the state of a picking itself, `ready_for_transfer`.
- Transport, reports, views, the ORM's translation to SQL, the addons of the distribution beyond what
  the modelled components call, vendored libraries and deployment: I/O, layout or data, with little control
  of their own. They are the bulk of the repository's lines.

## 9. What could come next

1. Conditions on workflows (safe nets, endings without transitions) under which `OneToken` and `CompleteIsDone` hold in general.
2. Edits of items and schemes during a document's life.
3. The linked list of `tools/lru.py` against a reference sequence.
4. Landing cost, lot valuation and payments of the fork.
