# OpenVoxDB in TLA+

A verification development kept beside the OpenVoxDB sources. It models the
parts of the program in which threads, files, the database and failures meet;
TLC checks the models on small instances, and TLAPS proves the most important
invariants for every value of the constants.

Paths below are relative to the repository; `puppetdb/` stands for
`src/puppetlabs/puppetdb/`.

## 1. The system

Agents and Puppet servers submit *commands* over HTTP (replace catalog, replace
facts, store report, deactivate node, replace catalog inputs). The program
answers at once, having only written the command to a directory, and stores
the data in PostgreSQL later. Queries are read from the same database.

    HTTP thread --store--> stockpile (files)      <--load-- message-loader (at start)
         |                     ^   |                              |
         +--put--> command-chan (SortedCommandBuffer) <--put------+
                        |                       ^
                    shovel (dochan)             | after an hour
                        |                       |
                  gated thread pool ---failed---+ delay-pool
                   |        |      \
           PostgreSQL   remove file  \---given up---> dead letter office (files)
                ^
    query threads ---+--- query monitor (deadlines, disconnects -> pg_terminate_backend)
    clean thread / admin clean requests (expire, purge, sweep, prune partitions)

### Inventory

| Component | State | Operations | Interacts through | Hard behaviour | Correct when |
|---|---|---|---|---|---|
| Command queue, `puppetdb/queue.clj` | stockpile directory; `fifo-queue`, `certnames-map` of the buffer; message-id ceiling | `store-command`, `add!*`, `remove!`, `cons-attempt`, `ack-command`, `message-loader` | core.async channel; files | order of arrival against order of timestamps; index entry going stale; loader racing writers; equal timestamps | the newest data survives; only superseded commands are marked; each file has exactly one reference |
| Command processing, `puppetdb/command.clj` | `write-semaphore`, delay pool, counters, attempts of a reference | `enqueue-command`, `process-message`, `process-cmd`, `schedule-delayed-message`, `discard-message`, start and stop | the queue, the pool, PostgreSQL, the dead letter office | failure between the transaction and the removal of the file; delayed retries across restarts; failed discards; reload in one JVM | nothing accepted is lost; nothing runs twice without cause; every command settles; counters are right |
| Gated thread pool, `puppetdb/threadpool.clj` | semaphore, executor, `blocked?` | `gated-execute`, `dochan`, `pause-resume`, `shutdown` | channel and jobs | a command held outside any queue; a permit returned twice or never | limits hold; nothing taken is dropped |
| Dead letter office, `command/dlo.clj` | files | `discard-cmdref`, `discard-bytes` | files | the move succeeds and the write of the error file fails | a discarded command is kept |
| Query monitor, `query/monitor.clj` | `queries` atom (`:selector-keys`, `:deadlines`), the info of each query (`:pg-pid`, `:terminated`), the selector | `stop-query-at-deadline-or-disconnect`, `register-pg-pid`, `forget`, `enforce-deadlines!`, `stop-abandoned!`, `stop` | NIO selector, query threads, `pg_terminate_backend` | a query ends while its backend is being terminated and the connection is reused | no other query is ever terminated; an expired query is; `forget` is bounded in time |
| HTTP submission, `http/command.clj` | a promise per blocking submission | `blocking-submit-command` | response channel | the time-out races the answer | the client is told what happened, or that it is unknown |
| Broadcast, `command.clj` `broadcast-*` | a response channel per command | parallel execution on several write databases | pool threads | first success wins, the others are interrupted | acknowledged only when some database has it |
| Service lifecycle, collection, `cli/services.clj`, `admin.clj` | clean lock, `clean-status`, stop status, sync mode | `start-puppetdb`, `stop-puppetdb`, `coordinate-gc-with-shutdown`, `clean-up`, `try-lock` | scheduler, HTTP admin | periodic and requested cleaning; shut-down during cleaning | at most one cleaning; shut-down ends |
| Nodes and catalogs, `scf/storage.clj` | tables `certnames`, `catalogs`, `factsets`, edges, resources | `replace-catalog!`, `replace-facts!`, `deactivate-node!`, `expire-stale-nodes`, `purge-*` | PostgreSQL transactions | a node expires while a command for it is stored; deactivation older than the data | no live node is purged; older data never replaces newer |
| Reports and partitions, `scf/storage.clj`, `scf/partitioning.clj` | `reports` partitions, `certnames.latest_report_id` | `add-report!`, `delete-reports-older-than!`, `prune-daily-partitions` | transactions, DDL locks | two reports of one node at once; a pruned partition holding the latest report | the flag is on the newest report, or on none |
| JDBC, `jdbc.clj` | connection pools, gc interruption state | `retry-sql`, schema-checking pools | PostgreSQL | a repeated transaction that had committed | repetition is safe or refused |
| Migrations, `scf/migrate.clj` | `schema_migrations` | `migrate!`, `require-valid-schema` | PostgreSQL | interrupted migration; an older program on a newer schema | versions are a contiguous prefix |
| Query engine and PQL | none | compile an AST to SQL | - | size, not state | - |
| HTTP server and endpoints | routing; maintenance mode | - | - | maintenance switch | - |
| Wire formats, configuration, utilities | none | pure conversions | - | - | - |
| Export, import, benchmark, generators, dashboard | none in the service | batch tools | public API | - | - |
| Puppet terminus (Ruby), `puppet/lib` | sticky server, list of servers | failover, command broadcast | HTTP | a server fails in the middle of a list | each command reaches as many servers as configured |

`PROJECT.json` lists every component with its sources and status, and every
hazard with its line and the properties that cover it.

## 2. Modules

| Module | Models |
|---|---|
| `CommandBuffer` | `SortedCommandBuffer`: what a command reference is, `Add` (`add!*`) and `Remove` (`remove!*`) |
| `CommandPipeline` | extends it with submission, loader, shovel, worker pool, processing, retries, dead letter office, crash, stop and reload |
| `CommandDelivery` | the abstract promise to whoever submits a command: it stays pending until it is applied, a newer one makes it useless, or it is set aside; older data never replaces newer. With its own theorem |
| `MCCommandPipeline` | the symmetry of its runs |
| `CommandPipelineProofs` | type correctness, one lemma per action |
| `CommandSafetyProofs` | the safety invariants, in strengthened form, and their theorems |
| `CommandCounterProofs` | the counters, and that whoever holds a command finds its file |
| `CommandRefinementProofs` | `CommandPipeline` implements `CommandDelivery` |
| `Broadcast` | one attempt after another at commands with several write databases: the broadcast pool, the quick retries, the worker that waits for the first success, the client that may wait for the outcome. It has an instance of `CommandDelivery` too |
| `MCBroadcast`, `BroadcastProofs` | symmetry; the inductive invariant, its theorems, and the refinement of `CommandDelivery` |
| `Storage` | one write database: the transactions that store catalogs, facts and reports and deactivate nodes, the cleaning under the clean lock, and the deletion of a node |
| `MCStorage` | symmetry and the requests for cleaning of the runs |
| `StorageProofs` | the inductive invariant of `Storage` and its theorems |
| `QueryMonitor` | the query monitor's thread and selector, and the query threads that use it |
| `MCQueryMonitor` | the symmetry of its runs |
| `QueryMonitorProofs` | the monitor's inductive invariant and its theorems |

### CommandBuffer and CommandPipeline

| State | In the code |
|---|---|
| `fifo`, `certnames` | the `TreeMap` (a set of references, ordered by id) and the `HashMap` of `SortedCommandBuffer`; core.async runs `add!` and `remove!` under the channel's mutex, hence one step each |
| `invalidated`, `depth`, `awaiting` | the counters `:invalidated`, `:depth`, `:awaiting-retry` |
| `stored`, `disk`, `dlo` | everything ever written to the stockpile (its id is the position), the files now in it, the entries of the dead letter office. Only these and `db` survive a crash |
| `submitter`, `permits` | each HTTP thread's place in `enqueue-command` and `do-enqueue-command`, waiting for a permit included; the free permits of `write-semaphore` |
| `loader`, `ceiling`, `loaderOwes` | `message-loader`: directory entries unread, the id from which commands are skipped as new, a command put but not counted yet |
| `shovel`, `handing`, `blocked`, `gate`, `running` | `dochan`'s reference in hand, and whether it waits for the end of a pause, for a permit, or has one; `blocked?`, the pool's permits, and each job's place in `process-message` |
| `delayed`, `revived` | references handed to the delay pool for an hour; threads of that pool that have put theirs back on the channel and have yet to count that |
| `db` | per key, the producer timestamp of the data in PostgreSQL. Storage keeps the newer of two |
| `executed`, `obsolete`, `lost`, `stranded`, `crashes`, `reloads`, `ioFailures` | history: nothing reads them but properties and bounds |

A *key* is a command type with a certname, for the types the buffer compares
(catalogs and facts). Payloads and formats are abstracted to the timestamp.
`declared` says whether a submission gave the timestamp in the request; without
it the file name has none and the buffer never compares the command.

A step of a worker ends where another thread, or a crash, can see what it did:
after the transaction (`Execute`), and after the file is dealt with and the
counter is changed (`Ack`, `DropObsolete`, `Discard`, ...). The quick retries
of one attempt are part of that attempt; the attempt then succeeds (`Execute`),
fails for a while (`FailTransiently`) or for good (`FailForGood`).

The shovel passes the pause (`PassPause`), takes a permit of the pool (`Grant`) and hands
its reference over (`Dispatch`), three steps between which execution may be paused
or the service stopped; a pool that was shut down meanwhile rejects the job and gets its permit back
(`Rejected`). A thread of the delay pool puts a reference on the channel (`Revive`) before it
counts that (`CountRevival`), so a worker may have failed at the command again in between. The
HTTP threads that still wait when the web server stops are interrupted, at the put
(`PutInterrupted`) or at the semaphore (`AcquireInterrupted`, section 5).

`CommandDelivery` has six variables; under the refinement mapping `sent` is
`stored`, `pending` is `disk`, `applied` are the commands that were executed,
`dead` the entries of the dead letter office, and `lost` and `data` are `lost` and
`db`. `Store` is `Accept`, `Execute` is `Apply`, the removals of a file are
`Settle`, `Supersede`, `SetAside` and `Lose`, and everything else, crashes and
reloads included, is a stutter.

### Broadcast

| State | In the code |
|---|---|
| `sent`, `state`, `attempts` | the commands; whether each is queued (or waits for its retry), in the hands of a worker that prepares it and starts its threads (`starting`), or that waits for their results in `broadcast-cmd` (`running`), being acknowledged, or gone; the attempts in its reference |
| `threads` | the busy threads of `create-broadcast-pool`, each with its command, attempt and database, whether its transaction has committed, and its failures in `call-with-quick-retry` |
| `results` | the `results` atom of the current attempt. An earlier attempt has an atom of its own, which nobody reads any more |
| `data`, `commits` | what each database holds; history of the transactions |
| `client` | the promise of `blocking-submit-command`: waiting, or what it was told |
| `closing`, `troubles` | the shut-down of the pool; history of failed acknowledgements and shut-downs |

The queue is `CommandPipeline`'s, reduced to a set: any queued command may be
taken next, and a command may be dropped whenever another one that is as new, or newer, was
submitted. (`CommandPipeline` says which of those the queue marks.) So with equal timestamps two commands may be dropped for
each other, as in the run `ties`; the two properties that this breaks presuppose `~AllowTies`.
The threads of an attempt start one after the other (`Start`), and the first may be done before
the last begins. A shut-down rejects those not yet started (`Rejected`) or interrupts the worker
that waits (`Interrupted`); either way the attempt is given up while its threads run on. The
interruption of the threads that are left is modelled as what it does, nothing
(section 5).

### Storage

| State | In the code |
|---|---|
| `db.status`, `db.catalogs`, `db.factsets`, `db.reports`, `db.envs`, `db.paths` | the tables `certnames` with `certnames_status`, `catalogs`, `factsets`, `reports` (with the flag `latest`, which is the partition), `environments`, `fact_paths`. A document is its producer timestamp, environment and paths; a report is its timestamp, environment, and whether it is a plan's |
| `tx` | per connection, the transaction in progress: a snapshot if it is repeatable read; how far it is, what it has read, whether it holds the row of its node, and whether it has found or inserted the environment of its report if it is read committed |
| `cleaner` | the holder of the clean lock: what it was asked for, what is still to do, what its step has selected, and whether its purge stopped at the batch limit (`cut`) |
| `clock` | the server's time |
| `begun`, `cleans`, `purged` | history: two bounds, and the nodes that were deleted at some time |

Each statement of a read committed transaction that reads is a step; writes show
at the commit, joined with the last statement. A repeatable read transaction is
its snapshot and its commit. What is assumed of PostgreSQL:

* a repeatable read transaction fails if a row that it updates has changed since
  its snapshot, or if a row it refers to is gone (foreign keys);
* an upsert or update of a row waits for the transaction that has written it,
  and then sees the new row (read committed) or fails (repeatable read);
* `on conflict do nothing` takes no lock on the row that is there;
* the unique indexes of `reports_latest` and of the report hashes hold, the foreign
  keys of catalogs, factsets and latest reports cascade from the node, the one of
  catalogs cascades from the environment, and the one of factsets restricts. Reports are tied
  to their environment by none (`scf/migrate.clj:2158`, 2240, 2394).

Rows are compared by value, so a row that was deleted and stored again equal
counts as unchanged; the model then lets a transaction commit that PostgreSQL would
fail, which adds behaviours and hides none.

A report whose environment is collected before it is stored has none from then on; one that
is stored already loses it. In the tables the column keeps an id without a row, which no join finds.

A step of a cleaning that fails is logged, and the cleaning goes on with the next (`GiveUpStep`).
The purge takes as many overdue nodes as its batch limit allows (`ChoosePurge`); the rest are
left to the next cleaning.

Left out: the types of the values at a fact path (a row of a former type lingers while the
path is in use, as `scf/storage.clj:1313` says), resource parameters, edges and packages,
catalog inputs, the expiration of facts, the creation and locking of partitions,
and the rounding of the horizon for reports to the day. The
collections of packages and of events and `other` are not among the options (`other`
repeats two that are).

### QueryMonitor

| State | In the code |
|---|---|
| `at`, `chan`, `deadline`, `skey`, `pid`, `waits` | per request: where its thread is between `stop-query-at-deadline-or-disconnect` and the return of its connection; the client's channel; the deadline; the `SelectionKey`; the backend of its connection; whether `forget` found a promise |
| `selectorKeys`, `deadlines` | the keys of the two maps in the `queries` atom |
| `pgPid`, `terminated` | the info in those maps: its `:pg-pid` atom and its `:terminated` promise |
| `chanKey`, `cancelled`, `watched`, `wakeup` | the NIO selector: registered channels, the cancelled-key set, what the current select watches, a pending wakeup |
| `mon`, `clock`, `wakeAt`, `doomed`, `todo`, `victim`, `why`, `target`, `failing` | the monitor thread: where it is in its loop, the time it read, the select timeout, `dead-keys` and those of them still to do, the termination in progress, an exception on its way out |
| `stop` | how far a call of `stop` has come: the `exit` flag, then the wakeup |
| `now`, `gone`, `killed` | the clock, disconnected clients, terminated backends |
| `attempted`, `timedOut` | history: nothing reads them but properties and one bound |

A request stands for its selection key too: a channel that is registered gets a
new key unless it has one already, which `RegisterKey` takes over as NIO does.
Each `swap!` is one step, and so is `compare-and-set!` with the read it
confirms; the steps around a swap (registering a channel, waking the selector,
cancelling a key, reading the pid, sending the termination, delivering the
promise) are separate. Two steps of the monitor thread are joined: dropping an
expired query with cancelling its key, and cancelling an abandoned key with
looking its query up; between them no other thread reads what the first changes
and the second depends on.

The read by which a disconnection is confirmed may end with -1 (`Wake`) or throw (`WakeFails`):
after a reset, or for a closed channel, whose `:closed` is no argument for `long`. The exception leaves the loop
before any of the selected queries is dealt with, and the monitor thread ends.

Left out: bytes that a client sends during its query (read and dropped), the
second `forget` of a request that has failed (it finds nothing), `forget-pg-pid`
(only tests call it), and two keys with the same deadline and the same
`hashCode`, which the sorted map of deadlines would take for one.

## 3. Runs

The runs of the command path use one key and at most two HTTP threads; keys do
not interact except through the shared bounds.

| Run | Bounds | Shows |
|---|---|---|
| `order` | 3 commands, 3 timestamps, buffer of 2, one retry, one worker | types; the index never points outside the queue; only superseded commands are marked; the newest data survives; the path implements `CommandDelivery`. Three commands are the fewest for which an old one can be compared with a newer one, forgotten, and meet a third |
| `restart` | 2 commands, whose timestamps are equal or left out (whichever comes second may be marked), 2 HTTP threads, one permit, one buffer slot, one worker, one crash, reload, failed file operation or vanished file, interrupted requests, rejected jobs | no command in two places; nothing lost; no file waits for a restart in vain, with the loader racing submissions; whoever holds a command finds its file; limits hold, with everybody blocked on everybody, and permits are given back once for each time they were taken; the counters follow |
| `settles` | 2 commands of equal timestamps, buffer of 1, one crash, failed file operation or vanished file, execution paused and resumed at will, fairness | no unexplained second execution; every stored command is settled |
| `ties` (violation) | equal timestamps, one failed removal | two commands can each be dropped in favour of the other |

Deadlock is not checked in these runs, as clients may stop sending. That nothing
hangs is what `Settles` shows; `WithinLimits` is about the limits alone.

*Bounds.* `MaxId`, `MaxTime`, `MaxCrashes`, `MaxReloads`, `MaxIOFailures`,
`MaxLost` and `MaxMishaps` (the four before it together) bound what the environment may do and
appear only in guards. The runs have one mishap each, whose trace (a file run already,
stranded, gone, or a counter too high) the rest of the run may stumble over; several in a row are
left to the theorems of section 4, which hold for any bounds.
`MayPause` says whether execution may be paused; a pause only holds the shovel back, as a
full pool does, so that one run has it. `AllowTies` says whether a client may
repeat a timestamp. `MaxRetries`, `MaxEnqueued`, `ConcurrentWrites`, `Threads` and the
two threads of the delay pool are parameters of the program.

*Fairness* (`FairSpec`, run `settles` only). Weak fairness of each thread that
can run: an HTTP thread that has a request, the loader, the shovel, each job,
each scheduled retry and its count. The JVM schedules runnable threads; the channel and the
semaphores hand over under their own mutexes. Nothing is assumed of clients, of
pause and resume (the property holds once execution stays unpaused) or of
failures, which their bounds end.

Runs of the query monitor, with two requests throughout: that is a query, and
the one that uses its channel or backend next, or competes for the monitor.

| Run | Bounds | Shows |
|---|---|---|
| `monitor` | 2 channels, 2 backends, one tick, 2 disconnections, one `forget` that gives up | types; an expired query is terminated on its own backend, which serves no other query; nothing of a forgotten query is left; the monitor is woken for whatever it must notice; the next request finds its channel free |
| `expired` | 2 channels, 2 backends, one tick, fairness | a termination is attempted for every expired query that does not end first |
| `returns` | one channel, one backend, one tick, one disconnection, failing terminations, a stop, fairness | registration, `forget` and `stop` return; a termination is attempted for an abandoned query that does not end first |
| `foreign_backend` (violation) | 2 channels, one backend | an abandoned query's termination can hit another query |

Deadlock is not checked here: requests are finitely many and the monitor may be
stopped, so the system may come to rest.

*Bounds.* `MaxTime`, `MaxGone` and `MaxTimeouts` bound the environment;
deadlines are those up to `MaxTime` and one that never passes, as the
program's `##Inf`. One tick is enough to have a deadline before and one after
the clock. `LongestSleep` is a limit of the program, 2^31-1 ms; in the runs it exceeds every
deadline (section 5 has what happens otherwise). `MayFail` and `MayStop` say whether
terminations fail and the service stops.

*Fairness.* Weak fairness of the monitor thread and of each step of a query
thread that waits for no one outside: registration (with its retry loop),
enrolment, `forget`. Nothing is assumed of clients, of the pool, of how long a
query takes (`Finish`), of the clock, or of the time-out of `forget`: what is
shown of termination holds because the monitor works, not because queries end
or `forget` gives up. `ExpiredAttempted` and `AbandonedAttempted` have the premise `[]Unharmed`: nobody
calls `stop`, and no exception ends the monitor's loop. It is not a condition for the good cases
only: the program's comments make the promise without it, and one client that resets its
connection can end the monitor for all queries (section 5). `NothingBlocks` has no premise.

Runs of the broadcast and of storage:

| Run | Bounds | Shows |
|---|---|---|
| `broadcast` | 2 commands of one node with 2 distinct timestamps, 2 databases, 2 workers, one retry, one quick retry, one blocking client, one failed acknowledgement or shut-down | types; what is acknowledged is stored, and so is what a client is told; no database is left out; threads left over never put older data in the place of newer; a worker never waits in vain and, until the shut-down, gives up last; the promise of `CommandDelivery` holds |
| `storage` | two nodes, one environment, one path, 2 connections, 3 transactions, 2 times, one cleaning of everything with a batch limit of one node, or one deletion | types; the latest report is the newest; nothing is stored for a node that is not there; cleaning is thorough; documents go forwards only, and vanish only with their node or, a catalog, with its environment; a node is revived by newer commands only |
| `purge_race` (violation) | catalogs and deactivations, 4 transactions, 3 times, purge only | a node that has come back is deleted |
| `lost_paths` (violation) | facts, 4 transactions, 3 times, collection of paths only | a path in use loses its row |

Deadlock is not checked in them, as everything in them may be done.

*Bounds.* `MaxSent`, `MaxTime`, `Blocking` and `MaxTroubles` bound `Broadcast`; two
commands are enough for a thread of the older to commit after the newer, two
databases for one to fail and one to be late, and one retry for the threads of one
attempt to meet those of the next. `MaxTime`, `MaxBegun` and `MaxCleans`
(cleanings and deletions together) bound `Storage`. `Arriving` says which commands arrive: in the
run `storage` everything for one node, except that its factsets have a path just when they
have an environment, its reports an environment just when they are the older ones, and a plan's report is
the newer one; and deactivations for a second node, so that more nodes can be overdue than the
purge takes (`BatchLimits`). Nodes share only environments and paths, which one node fills and
empties as well as two. Two connections are
enough for every pair of transactions, and the third transaction for a report, a
document or a status that the two then meet. The times to live are 0, so
that a node expires and is purged within the times on the clock.

## 4. Proofs

Every invariant and every action property that a passing run checks is proved, and so are the
two refinements of `CommandDelivery`, by `CommandPipeline` and by `Broadcast`. For each of the
claims that a run refutes, a theorem says how far the disagreement reaches.

Assumptions of the command path: those named `BufferAssumption`, `NoCmdAssumption`
and `PipelineAssumption`, which say that bounds are natural numbers, that the
program's capacities are at least one and that the three special values differ
from the ordinary ones. Everything is proved for any sets of keys and
HTTP threads. The theorems on limits and on the counters are the only ones that need cardinalities.

The argument goes in layers, each an inductive invariant that uses those above:

1. `Typed` = `TypeOK` and `HeldStored` (every reference in memory is of a
   stored command). Type correctness alone is not inductive: `RefOf(i)` reads
   `stored[i]`. Gives `TypeCorrect`.
2. `Placed` = `OneEach`, `Apart` and `IndexInQueue`: each place holds at most
   one reference to a command, and the places are disjoint. The loader's part
   is that an unread entry below the ceiling is nowhere else; one
   from the ceiling on belongs to a submission of this run and is skipped.
   The three need each other: `add!*` puts the mapped command back, so an index
   entry outside the queue would break the disjointness. Gives `OnePlaceOnly`
   and `IndexStaysInQueue`.
3. `OnTheWay`: a file's id is in one of the places, or stranded. Gives
   `NoneIsForgotten`.
4. `RanFirst`: a job that has executed did run; from it `NothingIsLost`.
5. `Marks`: whatever is marked has a strictly newer rival among the *stored*
   commands; the copies in `certnames` are of the same commands as the queue's.
   Gives `MarkedAreSuperseded`.
6. `Unborn` and `Applied`: what has executed is in the database with a timestamp
   at least its own, and ids not yet stored have no history. With layers 4
   and 5 this gives `TheNewestSurvives`.
7. `Budget`: a command whose file is there, and which no worker is about to
   acknowledge, has run no more often than there were mishaps; any other may
   have run once more. Gives `RunsAtMostOnce`.
8. `BufferBound`, `WorkerBound`, `WriterBound`: free permits and those held, by a job or by the
   shovel, make up the pool's capacity until a stop drains the free ones, and never exceed
   it; free permits and writers make up theirs until a stop, and never fall below it, as an
   interrupted thread then gives back a permit that it may not have had. Gives `LimitsHold`.
9. `HeldOnDisk` itself, with layer 2: a file goes when its command is acknowledged,
   dropped or discarded, and as the worker that does it held the only reference, none
   outlives the file. Gives `FilesAreThere`.
10. `RetryBalance`, `MarkBalance`, `DepthBalance`: the counters in terms of the *ids* of
   the references. Layer 2 makes both counts equal; and the ids in memory stay the same
   when a reference moves or is marked, so that only the steps that bring a command
   into memory, or take one out of it, matter, and those change it by one. `RetryBalance` has the
   revivals that are on the channel and not counted yet on the side of the delayed ones.
   `DepthBalance` puts the commands not counted yet on the other side of
   the scales; it is exact only while nothing went wrong (`Calm`), and otherwise errs on the side of
   too many. Gives `CountersAreTrue`.

The refinement (`PipelineDelivers`) has one lemma per kind of step. It needs layer 4
for `Settle` (a file that is acknowledged was executed) and layer 5 for
`Supersede` (a command that is dropped has a strictly newer rival), and so the same
assumption of distinct timestamps, `~AllowTies`. `CommandDelivery` proves of itself
that the newest command of a key is in effect, pending, set aside or taken away
(`NewestIsKept`), from the invariant that every command is in one of these sets or has
a strictly newer rival.

`DroppedAreOverwritten` says that the equal timestamps of the run `ties` are the only
cause of what it shows: with distinct ones, the newest of the commands of a node (timestamps are
bounded, so there is one, by well-founded induction) has no newer rival, is not
dropped by layer 5, and so has run or is kept by layer 4.

For the broadcast, `BroadcastAssumption` asks for at least one database and one worker.
The inductive invariant has these parts:

1. `Typed` = `TypeOK` and `Known`: whatever is known of a command is of one that was
   submitted, so `sent[i]` is defined.
2. `Truthful`: what passes for a success, in a thread, in the results, in the state or
   with a client, goes back to a committed transaction.
3. `Rounds`: no thread belongs to a later attempt than the current one, none to
   the current one while the command is queued, and an attempt has at most one thread per
   database. Without it the result of a thread left over could be taken for one of the
   current attempt.
4. `Complete`: in the current attempt each database has a busy thread or a result,
   never both, from the time the worker waits; while it starts the threads a database may have
   neither yet. Gives `WorkersAreWoken`, `GivenUpLast` and, with 2, `NoDbIsLeftOut`.
   `GivenUpLast` is about attempts given up before the shut-down, by `GiveUp` or before any thread
   was started (`NotPrepared`, `Drop`); `Rejected` and `Interrupted` leave threads behind,
   and need `closing`.
5. `StragglersDoNotBash` itself: what has been committed is in effect. With 2 it gives
   `DoneMeansStored`.
6. `DistinctTimes`: without ties, of two commands of a key one is newer, so that a command
   is dropped for a strictly newer one only (`OutdatedIsSuperseded`). With 2 and 5 it gives
   `AnswersAreTrue`.

The refinement (`PromiseIsKept`) maps the data of the promise to the newest data of all databases.
That a newest exists is an invariant of its own (`HasNewest`), as a set of timestamps need not have
a greatest if nothing is known of the databases but that there are some. A commit then raises the
newest or leaves it (`CommitNewest`), which makes it `Apply`, be it the first of its command or a late one.
A worker settles a command with a result that goes back to a commit (2), supersedes one only when a
newer one was submitted (6), or sets it aside. As for the command path, `~AllowTies` is a premise of
the theorem.

For storage, `StorageAssumption` says which kinds of commands and options there are, and
that bounds are natural numbers; nodes, connections, environments and paths may be any sets. The
invariant consists of `TypeOK`, `LatestIsNewest`, `NoDataWithoutNode`, and:

1. `OneLatest`, `LatestIsAgent`: the unique index of `reports_latest`, and that a plan
   report is never the latest.
2. `FoundStands`: between the search for the latest report and the insertion, the report
   that was found stays, or a newer one takes its place. So a report that is stored as historical
   has a newer latest one, and one stored as the latest is newer than those it did not see,
   as the index lets it in only if what it found is still there. A purge breaks this,
   which is why `LatestIsNewest` excepts nodes that were purged.
3. `UnknownIsBlank`, `OneHolder`, `StillToAdd`: a node that is not there has no status; one
   transaction at a time holds a node's row; and nobody adds the node that a
   deactivation is about to add, as both would hold the row. `NoDataWithoutNode` rests on
   them: a transaction that found the node may commit its data only if the node is as it was.
4. `Aimed`: the collection of environments has environments in hand, so that what it deletes it
   also takes from the catalogs and reports that use it. It changes the reports in nothing but their
   environments, and so disturbs none of the above (`CollectEffect`).

`NeverGoesBack` and `RevivedByNewer` are action properties; they follow from the invariant with
a lemma per action on what it does to documents, reports and statuses.

`CleaningIsThorough` speaks of the end of a cleaning, and needs what holds in its course
(`Thorough`): as long as nothing disturbs it (no other transaction writes, and the clock stands
still), what is still to do was asked for, an option that was seen to
has nothing left to delete and comes before those still to do, and what has been chosen
is what there is to delete. A purge that its batch limit has cut short is excused (`Excused`): it
has chosen some of the overdue nodes, and leaves others. The proof is that no option gives an earlier one anything to
delete again, for the order in which `clean-up` does them: a purge leaves environments and paths behind, but
neither of their collections makes a node overdue, nor does one that leaves nodes behind matter to the
environments and paths, which are judged by what is there when they are collected. Gives `NothingIsLeftOver`.

`Thorough` also bounds the two races of section 5: a purge in a cleaning that nothing disturbed
deletes inactive nodes only (`OnlyComebacksArePurged`), and a path in use loses its row
only to a collection in one that was disturbed (`OnlyDisturbedCollectionsLosePaths`).

For the query monitor, `MonitorAssumption` says that bounds are natural numbers
and that each nil differs from the ordinary values. The inductive invariant
`IInv` (model-checked as well, with failures and stops, before it was proved) has
these parts:

1. `OwnKey`, `OwnChannel`, `NoneWhenClosed`, `ValidKey`: a request only ever has
   its own key, because its channel is its own and a key that is not cancelled
   belongs to a request still using that channel. This gives `ChannelStaysFree`,
   and everything else rests on it: were a key shared, `forget` of one request
   would drop another.
2. `Entries`: both maps have the same keys, and while the monitor lives those are
   keys of requests that have not called `forget` yet. Gives
   `ForgottenStaysForgotten`. After the monitor's death `forget` leaves the maps
   alone, so the condition is needed.
3. `OwnPid`: the pid in an info is its request's as long as the request holds
   the connection.
4. `HasVictim`, `VictimIsPinned`, `VictimKeepsPid`: from the promise on, the
   request of an expired query is either before its `forget`, which will find
   the promise, or waiting in it, so the backend read is still its own when the
   termination is sent. Gives `ExpiryHitsItsOwn`; with the types, `TypeCorrect`.
   An abandoned query has no promise, and the argument fails for it.
   `OneHolder` says that the pool gives a connection to one request at a time,
   so the termination hits that request and no other. `OnlyAbandonedHitOthers` draws the line:
   whenever the backend of another query would be terminated, the victim was abandoned, or its
   `forget` had given up waiting.
5. `SleepsInTime`, `WatchesAll`, `SeesStop`: while no wakeup is pending, what the
   monitor should know of is known to it or in the hands of a thread about to
   wake it. Gives `MonitorWakesInTime`.

Only model-checked: the liveness properties of the monitor (`ExpiredAttempted`,
`AbandonedAttempted`, `NothingBlocks`) and `Settles`, as liveness under fairness is outside the
prover's reach; and, naturally, the counterexamples of the runs that expect a violation.

## 5. Where code and documentation disagree

* Equal timestamps (`queue.clj:427`): the later command is marked obsolete
  although none is newer; after a failed removal a marked command may become
  the known one and take another down with it. Run `ties`; distinct timestamps
  exclude it (`DroppedAreOverwritten`).
* A disconnected client's query gets no `:terminated` promise
  (`query/monitor.clj:250`), so its `forget` does not wait and the termination may
  hit the next query on that backend, which the comment at line 56 says is
  prevented. Run `foreign_backend`; a query that is not abandoned is safe unless its `forget`
  times out (`OnlyAbandonedHitOthers`).
* The purge selects overdue nodes and deletes them by name (`scf/storage.clj:344`):
  a node that comes back in between is deleted with what it has just stored, though
  `purge-nodes!` speaks of nodes that are deactivated or expired. Run `purge_race`.
* The collection of fact paths and a transaction that stores facts do not conflict
  (`scf/storage.clj:1311`): a row of `fact_paths` may be deleted while a factset begins
  to use it, and stays away as long as the node's paths stay the same, as `update-facts!`
  calls `realize-paths` only for other paths. Run `lost_paths`.

Seen, without a run:

* `:depth` after a reload in one JVM (`queue.clj:480`): the metrics registry outlives the
  services and the loader counts every command again, though `command.clj:158` calls
  `:depth` the number of commands currently enqueued. `CountersTrack` allows for it.
* An HTTP thread that is interrupted while it waits for the write semaphore, as the web server does at
  the end of a stop, releases a permit that it never acquired: `.acquire` is inside the `try` whose
  `finally` releases (`command.clj:274-286`). Until the next start more threads may then write at
  once than `concurrent-writes` says (`documentation/configure.markdown:623`). `WithinLimits` allows
  for it while the service stops.
* Attempts are given up with threads still running when the pools are shut down: `broadcast-cmd` throws
  when a thread is rejected (`command.clj:740`) or when it is interrupted at `@finished` by
  `shutdownNow` (`threadpool.clj:57`), and takes no notice of the threads it has started. `GivesUpLast`
  speaks of the time before.
* The read that confirms a client's disconnection may throw, "-1 or exception when client is gone"
  (`query/monitor.clj:221`), but only `ClosedChannelException` is caught, and its substitute
  `:closed` is passed to `long`, which throws. Either exception ends the monitor thread, and neither
  deadlines nor disconnections are noticed from then on, against lines 4 to 8. `ExpiredAttempted` and
  `AbandonedAttempted` hold as long as no exception ends the loop.
* The channel is registered with the selector before the query is entered
  (`query/monitor.clj:384`): a disconnection found in between cancels the key (line 251), and the query then runs
  watched by its deadline only. `AbandonedAttempted` has the premise that the key is valid.
* A `forget` that times out returns the connection while its backend is still to be terminated
  (`query/monitor.clj:457`), as its docstring admits; `ExpiredHitsItsOwn` excepts it.
* The select timeout is converted to an int (`query/monitor.clj:273`): a deadline
  more than 24.8 days away ends the monitor thread.
* `broadcast-cmd` means to interrupt the threads left over that wait for a connection
  (`command.clj:714`), but takes `connecting?` and `thread` from the atoms instead of the maps
  in them, and so interrupts none. With a database that hangs there can be more threads
  than the pool is said to need (log message at line 1049).
* A client that waits is told of an error, and `processed`, while the command is scheduled again
  (`documentation/api/command/v1/commands.markdown:130`).
* The collection of environments cascades to a catalog committed with the environment
  while the statement runs, where `scf/storage.clj:1001` speaks of environments that "aren't
  associated with a catalog, report or factset". A report committed with the environment
  meanwhile keeps the id of a row that is gone, as no foreign key ties reports to environments since they are
  partitioned.
* A report submitted twice at once may be kept twice, as the latest and as historical: the search
  for the hash and that for the latest report are two statements, and the
  unique index on the hash includes the flag (`scf/migrate.clj:2427`). The next
  report of the node cannot move the latest copy then.
* A command older than a node's deactivation may clear it all the same: if the node had expired before
  the command, and is deactivated after `maybe-activate-node!` has read its status, the upsert finds
  one of the two times older than the command, and its condition is an `or`
  (`scf/storage.clj:1911`). `RevivedByNewer` is stated with that `or`.
* The support guide (`documentation/pdb_support_guide.markdown:175`)
  speaks of 16 retries where `maximum-allowable-retries` is 5; and a query that the
  monitor gives up before its backend is registered runs on unwatched
  (`query/monitor.clj:410`), although the comment at line 51 asks for its termination.

## 6. Order of the work

Done: the command path and its abstract promise, with the refinement proved; the query monitor;
the broadcast with the blocking client; nodes, catalogs, facts and reports with the cleaning
that runs beside them.

What would come next, were the work carried on:

1. Catalog inputs, packages and the expiration of facts in `Storage`, which add a clock of their own
   to the expiry of a node; the partitions of reports, with the locks that their creation
   and their removal take, against queries and the bulldozer.
2. The life of the service: start, stop during a cleaning, maintenance mode, the pools that check
   the schema.
3. A composition of `CommandPipeline` with `Storage` in place of its `db`, by a refinement
   from `Storage` to the rule that data is replaced by newer data only.
4. Pure algorithms against reference definitions: the metadata codec of queue
   file names, the split of facts into stable and volatile, the catalog diff,
   the reduction of clean requests.

Not modelled: the query engine, PQL and the endpoints (compilers and row
munging, whose correctness is the meaning of SQL), wire formats, configuration
and general utilities (pure conversions), export, import, benchmarks,
generators and dashboard (tools outside the service), migrations (run by one thread
before the service starts), and the terminus (another program).
