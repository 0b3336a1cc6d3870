--------------------------- MODULE CommandPipeline ---------------------------
(***************************************************************************)
(* The path of a command through OpenVoxDB: an HTTP thread writes it to    *)
(* the stockpile and puts a reference to it on the command channel; the    *)
(* shovel thread hands references to a gated pool of workers; a worker     *)
(* runs the command and removes its file, schedules another attempt, or    *)
(* moves the file to the dead letter office.  Only the stockpile and the   *)
(* dead letter office survive a crash: at start the loader puts every      *)
(* stored command on the channel again.  (command.clj, queue.clj,          *)
(* threadpool.clj, command/dlo.clj, and init-queue in cli/services.clj.)   *)
(*                                                                         *)
(* Not represented: logging, the other metrics, response-chan, and         *)
(* maybe-send-cmd-event!, which does nothing unless emit-cmd-events? is    *)
(* set.  A worker's step is cut only where another thread or a crash can   *)
(* see it: at the start, after the database transaction, and at the end.   *)
(***************************************************************************)
EXTENDS CommandBuffer, Sequences

CONSTANTS
  Submitters,       \* HTTP threads that submit commands
  ConcurrentWrites, \* permits of write-semaphore
  Threads,          \* permits of the gated thread pool
  MaxCrashes,       \* bound: crashes of the process
  MaxReloads,       \* bound: stops and starts within one process
  MaxIOFailures,    \* bound: failed removals and moves of queue files
  MaxLost,          \* bound: queue files removed behind the program's back
  MaxMishaps,       \* bound: all of the former together
  MayPause,         \* bound: may an operator pause and resume execution?
  AllowTies         \* may two commands of one key carry the same timestamp?

ASSUME PipelineAssumption ==
  /\ ConcurrentWrites \in Nat \ {0}
  /\ Threads \in Nat \ {0}
  /\ MaxCrashes \in Nat
  /\ MaxReloads \in Nat
  /\ MaxIOFailures \in Nat
  /\ MaxLost \in Nat
  /\ MaxMishaps \in Nat
  /\ MayPause \in BOOLEAN
  /\ AllowTies \in BOOLEAN

VARIABLES
  stored,       \* every command ever stored; the stockpile id is its index
  disk,         \* ids of the files in the stockpile
  dlo,          \* entries of the dead letter office
  db,           \* per key, timestamp of the data in PostgreSQL (0: none)
  submitter,    \* what each HTTP thread is doing, and to which id
  permits,      \* free permits of write-semaphore
  loader,       \* ids of the directory entries the loader has still to read
  ceiling,      \* message-id-ceiling: ids from here on were stored since
  loaderOwes,   \* has the loader put a command it has not counted yet?
  shovel,       \* the reference the shovel thread holds
  handing,      \* how far the shovel has got with handing it to a worker
  blocked,      \* the blocked? atom of pause/resume
  gate,         \* free permits of the worker pool
  running,      \* what the workers are doing
  delayed,      \* references scheduled for another attempt
  revived,      \* threads of delay-pool that have yet to count a revival
  depth,        \* the :depth counter
  awaiting,     \* the :awaiting-retry counter
  stopping,     \* has stop-command-service begun?
  executed,     \* history: how often each command was run to success
  obsolete,     \* history: commands removed because marked obsolete
  lost,         \* history: files removed behind the program's back
  stranded,     \* history: on disk but dropped by a failed discard
  crashes, reloads, ioFailures \* history: counts of what went wrong

submitVars == <<submitter, permits>>
loadVars   == <<loader, ceiling, loaderOwes>>
workVars   == <<gate, running, handing>>
diskVars   == <<stored, disk, dlo>>
countVars  == <<depth, awaiting>>
history    == <<executed, obsolete, lost, stranded, crashes, reloads,
                ioFailures>>
vars == <<bufferVars, submitVars, loadVars, workVars, diskVars, countVars,
          history, db, shovel, blocked, delayed, revived, stopping>>

\* A command as the stockpile keeps it.  "time" is the producer timestamp of
\* the payload; "declared" says whether the submission repeated it, which is
\* what the queue goes by.
Command == [key: Keys \cup {NoKey}, time: Times, declared: BOOLEAN]

\* "why" tells a command given up on from one that could never succeed.
DloEntry == [id: Ids, attempts: Nat, why: {"exhausted", "fatal"}]

Job == [ref: Ref, at: {"start", "executed", "exhausted", "fatal"}]

SubmitState ==
  [at: {"idle", "acquire", "store", "put", "count"}, id: Ids \cup {0}]

DiskTypeOK ==
  /\ stored \in Seq(Command)
  /\ Len(stored) <= MaxId
  /\ disk \subseteq Ids
  /\ dlo \subseteq DloEntry

SubmitTypeOK ==
  /\ submitter \in [Submitters -> SubmitState]
  /\ permits \in Int

LoadTypeOK ==
  /\ loader \subseteq Ids
  /\ ceiling \in 1..MaxId + 1
  /\ loaderOwes \in BOOLEAN

WorkTypeOK ==
  /\ gate \in Int
  /\ running \subseteq Job
  /\ handing \in {"held", "passed", "granted"}

HistoryTypeOK ==
  /\ executed \in [Ids -> Nat]
  /\ obsolete \subseteq Ids
  /\ lost \subseteq Ids
  /\ stranded \subseteq Ids
  /\ crashes \in Nat
  /\ reloads \in Nat
  /\ ioFailures \in Nat

OtherTypeOK ==
  /\ db \in [Keys -> Times \cup {0}]
  /\ shovel \in Ref \cup {NoCmd}
  /\ blocked \in BOOLEAN
  /\ delayed \subseteq Ref
  /\ revived \in Int
  /\ depth \in Int
  /\ awaiting \in Int
  /\ stopping \in BOOLEAN

TypeOK == /\ BufferTypeOK /\ DiskTypeOK /\ SubmitTypeOK /\ LoadTypeOK
          /\ WorkTypeOK /\ HistoryTypeOK /\ OtherTypeOK

Init ==
  /\ EmptyBuffer /\ invalidated = 0
  /\ stored = <<>>
  /\ disk = {}
  /\ dlo = {}
  /\ db = [k \in Keys |-> 0]
  /\ submitter = [s \in Submitters |-> [at |-> "idle", id |-> 0]]
  /\ permits = ConcurrentWrites
  /\ loader = {} /\ ceiling = 1 /\ loaderOwes = FALSE
  /\ shovel = NoCmd /\ handing = "held"
  /\ blocked = FALSE
  /\ gate = Threads
  /\ running = {}
  /\ delayed = {} /\ revived = 0
  /\ depth = 0 /\ awaiting = 0
  /\ stopping = FALSE
  /\ executed = [i \in Ids |-> 0]
  /\ obsolete = {} /\ lost = {} /\ stranded = {}
  /\ crashes = 0 /\ reloads = 0 /\ ioFailures = 0

\* The reference built from the metadata in the file name.
RefOf(i) == [id |-> i, key |-> stored[i].key,
             stamp |-> IF stored[i].declared THEN stored[i].time ELSE NoTime,
             delete |-> FALSE, attempts |-> 0]

\* May one more thing go wrong?
Mishap == crashes + reloads + ioFailures + Cardinality(lost) < MaxMishaps

-----------------------------------------------------------------------------
\* async/>!! command-chan: blocks while the buffer is full; on a closed
\* channel it returns at once and the reference is dropped.
PutOnChannel(r) ==
  \/ ~stopping /\ ~Full /\ Add(r)
  \/ stopping /\ UNCHANGED bufferVars

\* enqueue-command lets a request through while nothing is stopping ...
Arrive(s) ==
  /\ ~stopping
  /\ submitter[s].at = "idle"
  /\ Len(stored) < MaxId
  /\ submitter' = [submitter EXCEPT ![s].at = "acquire"]
  /\ UNCHANGED <<bufferVars, loadVars, workVars, diskVars, countVars, history,
                 permits, db, shovel, blocked, delayed, revived, stopping>>

\* ... do-enqueue-command, in the HTTP thread s: acquire write-semaphore ...
Acquire(s) ==
  /\ submitter[s].at = "acquire"
  /\ permits > 0
  /\ permits' = permits - 1
  /\ submitter' = [submitter EXCEPT ![s].at = "store"]
  /\ UNCHANGED <<bufferVars, loadVars, workVars, diskVars, countVars, history,
                 db, shovel, blocked, delayed, revived, stopping>>

\* ... or be interrupted at it by the web server, at the end of a stop: the
\* finally clause then releases a permit that was never acquired ...
AcquireInterrupted(s) ==
  /\ submitter[s].at = "acquire"
  /\ stopping
  /\ permits' = permits + 1
  /\ submitter' = [submitter EXCEPT ![s].at = "idle"]
  /\ UNCHANGED <<bufferVars, loadVars, workVars, diskVars, countVars, history,
                 db, shovel, blocked, delayed, revived, stopping>>

\* The commands a client may send.  The timestamp of a command outside Keys
\* is of no consequence here.
Admissible(c) ==
  IF c.key = NoKey THEN ~c.declared /\ c.time = MaxTime
  ELSE AllowTies \/ \A i \in DOMAIN stored :
                      stored[i].key = c.key => stored[i].time # c.time

\* ... store the command in the stockpile, where a loader still reading the
\* directory may come across it ...
Store(s) ==
  /\ submitter[s].at = "store"
  /\ Len(stored) < MaxId
  /\ \E c \in Command :
       /\ Admissible(c)
       /\ stored' = Append(stored, c)
  /\ disk' = disk \cup {Len(stored')}
  /\ submitter' = [submitter EXCEPT ![s] = [at |-> "put", id |-> Len(stored')]]
  /\ \/ UNCHANGED loader
     \/ loader # {} /\ loader' = loader \cup {Len(stored')}
  /\ UNCHANGED <<bufferVars, ceiling, loaderOwes, workVars, countVars, history, dlo,
                 permits, db, shovel, blocked, delayed, revived, stopping>>

\* Faulty variant: the permit is not released on failure.
StoreFailsHolding(s) ==
  /\ submitter[s].at = "store"
  /\ submitter' = [submitter EXCEPT ![s].at = "idle"]
  /\ UNCHANGED <<bufferVars, loadVars, workVars, diskVars, countVars, history,
                 permits, db, shovel, blocked, delayed, revived, stopping>>

\* ... or fail to, whereupon the client gets an error ...
StoreFails(s) ==
  /\ submitter[s].at = "store"
  /\ permits' = permits + 1
  /\ submitter' = [submitter EXCEPT ![s].at = "idle"]
  /\ UNCHANGED <<bufferVars, loadVars, workVars, diskVars, countVars, history,
                 db, shovel, blocked, delayed, revived, stopping>>

\* ... put it on the channel, while holding the permit, then release it ...
Put(s) ==
  /\ submitter[s].at = "put"
  /\ PutOnChannel(RefOf(submitter[s].id))
  /\ permits' = permits + 1
  /\ submitter' = [submitter EXCEPT ![s].at = "count"]
  /\ UNCHANGED <<loadVars, workVars, diskVars, countVars, history,
                 db, shovel, blocked, delayed, revived, stopping>>

\* ... unless the put is still blocked when the web server, at the end of a
\* stop, interrupts the thread ...
PutInterrupted(s) ==
  /\ submitter[s].at = "put"
  /\ stopping
  /\ permits' = permits + 1
  /\ submitter' = [submitter EXCEPT ![s] = [at |-> "idle", id |-> 0]]
  /\ UNCHANGED <<bufferVars, loadVars, workVars, diskVars, countVars, history,
                 db, shovel, blocked, delayed, revived, stopping>>

\* ... and, in enqueue-command, count it, before the client gets its answer.
Count(s) ==
  /\ submitter[s].at = "count"
  /\ depth' = depth + 1
  /\ submitter' = [submitter EXCEPT ![s] = [at |-> "idle", id |-> 0]]
  /\ UNCHANGED <<bufferVars, loadVars, workVars, diskVars, awaiting, history,
                 permits, db, shovel, blocked, delayed, revived, stopping>>

\* Faulty variant: the loader does not heed its ceiling.
LoadWithoutCeiling(i) ==
  /\ i \in loader
  /\ ~loaderOwes
  /\ PutOnChannel(RefOf(i))
  /\ loader' = loader \ {i}
  /\ loaderOwes' = TRUE
  /\ UNCHANGED <<ceiling, submitVars, workVars, diskVars, countVars, history,
                 db, shovel, blocked, delayed, revived, stopping>>

\* message-loader: the files stored before this start are put on the channel,
\* in no particular order, each counted after its put.
Load(i) ==
  /\ i \in loader
  /\ i < ceiling
  /\ ~loaderOwes
  /\ PutOnChannel(RefOf(i))
  /\ loader' = loader \ {i}
  /\ loaderOwes' = TRUE
  /\ UNCHANGED <<ceiling, submitVars, workVars, diskVars, countVars, history,
                 db, shovel, blocked, delayed, revived, stopping>>

\* Faulty variant: the ceiling is off by one.
LoadSkipsOffByOne(i) ==
  /\ i \in loader
  /\ i >= ceiling - 1 \/ i \notin disk
  /\ ~loaderOwes
  /\ loader' = loader \ {i}
  /\ UNCHANGED <<bufferVars, submitVars, workVars, diskVars, countVars, history,
                 ceiling, loaderOwes, db, shovel, blocked, delayed, revived, stopping>>

\* A file stored since, or gone before the directory is read that far.
LoadSkips(i) ==
  /\ i \in loader
  /\ i >= ceiling \/ i \notin disk
  /\ ~loaderOwes
  /\ loader' = loader \ {i}
  /\ UNCHANGED <<bufferVars, submitVars, workVars, diskVars, countVars, history,
                 ceiling, loaderOwes, db, shovel, blocked, delayed, revived, stopping>>

LoadCounts ==
  /\ loaderOwes
  /\ loaderOwes' = FALSE
  /\ depth' = depth + 1
  /\ UNCHANGED <<bufferVars, submitVars, workVars, diskVars, awaiting, history,
                 loader, ceiling, db, shovel, blocked, delayed, revived, stopping>>

-----------------------------------------------------------------------------
\* dochan: the shovel takes a reference off the channel first and waits
\* afterwards: first while execution is paused, then for a free worker.  (What
\* it may still take after a stop goes no further, and is not represented.)
Take(r) ==
  /\ ~stopping
  /\ shovel = NoCmd
  /\ Remove(r)
  /\ shovel' = r
  /\ UNCHANGED <<submitVars, loadVars, workVars, diskVars, countVars, history,
                 db, blocked, delayed, revived, stopping>>

PassPause ==
  /\ ~stopping
  /\ shovel # NoCmd
  /\ handing = "held"
  /\ ~blocked
  /\ handing' = "passed"
  /\ UNCHANGED <<bufferVars, submitVars, loadVars, gate, running, diskVars,
                 countVars, history, db, shovel, blocked, delayed, revived,
                 stopping>>

\* gated-execute: acquire a permit, be execution paused again or not ...
Grant ==
  /\ ~stopping
  /\ handing = "passed"
  /\ gate > 0
  /\ gate' = gate - 1
  /\ handing' = "granted"
  /\ UNCHANGED <<bufferVars, submitVars, loadVars, running, diskVars, countVars,
                 history, db, shovel, blocked, delayed, revived, stopping>>

\* ... and hand the reference to a thread of the pool ...
Dispatch ==
  /\ shovel # NoCmd
  /\ handing = "granted"
  /\ running' = running \cup {[ref |-> shovel, at |-> "start"]}
  /\ shovel' = NoCmd /\ handing' = "held"
  /\ UNCHANGED <<bufferVars, submitVars, loadVars, gate, diskVars, countVars,
                 history, db, blocked, delayed, revived, stopping>>

\* ... unless the pool has been shut down meanwhile: the permit goes back and
\* the shovel ends.  The command is found again at the next start.
Rejected ==
  /\ stopping
  /\ shovel # NoCmd
  /\ handing = "granted"
  /\ gate' = gate + 1
  /\ shovel' = NoCmd /\ handing' = "held"
  /\ UNCHANGED <<bufferVars, submitVars, loadVars, running, diskVars, countVars,
                 history, db, blocked, delayed, revived, stopping>>

PauseOrResume ==
  /\ MayPause
  /\ blocked' = ~blocked
  /\ UNCHANGED <<bufferVars, submitVars, loadVars, workVars, diskVars, countVars,
                 history, db, shovel, delayed, revived, stopping>>

-----------------------------------------------------------------------------
\* gated-execute returns the permit whichever way the job ends.
Finish(j) ==
  /\ running' = running \ {j}
  /\ gate' = gate + 1
  /\ UNCHANGED handing

\* A file operation of the stockpile or the dead letter office throws.
FailIO ==
  /\ ioFailures < MaxIOFailures /\ Mishap
  /\ ioFailures' = ioFailures + 1

Steps(j, at) ==
  /\ running' = (running \ {j}) \cup {[j EXCEPT !.at = at]}
  /\ UNCHANGED handing

\* The queue file is missing.
Missing(j) ==
  /\ j.at = "start"
  /\ j.ref.id \notin disk
  /\ Finish(j)
  /\ depth' = depth - 1
  /\ UNCHANGED <<bufferVars, submitVars, loadVars, diskVars, awaiting, history,
                 db, shovel, blocked, delayed, revived, stopping>>

\* process-delete-cmd.
DropObsolete(j) ==
  /\ j.at = "start"
  /\ j.ref.id \in disk
  /\ j.ref.delete
  /\ disk' = disk \ {j.ref.id}
  /\ obsolete' = obsolete \cup {j.ref.id}
  /\ Finish(j)
  /\ depth' = depth - 1
  /\ invalidated' = invalidated - 1
  /\ UNCHANGED <<submitVars, loadVars, stored, dlo, fifo, certnames, awaiting,
                 executed, lost, stranded, crashes, reloads, ioFailures,
                 db, shovel, blocked, delayed, revived, stopping>>

\* Faulty variant: the data is replaced however new what is stored.
ExecuteBlindly(j) ==
  /\ j.at = "start"
  /\ j.ref.id \in disk
  /\ ~j.ref.delete
  /\ LET c == stored[j.ref.id] IN
       db' = IF c.key \in Keys THEN [db EXCEPT ![c.key] = c.time] ELSE db
  /\ executed' = [executed EXCEPT ![j.ref.id] = @ + 1]
  /\ Steps(j, "executed")
  /\ UNCHANGED <<bufferVars, submitVars, loadVars, gate, diskVars, countVars,
                 obsolete, lost, stranded, crashes, reloads, ioFailures,
                 shovel, blocked, delayed, revived, stopping>>

\* exec-command commits; storage keeps the newer of the two data.
Execute(j) ==
  /\ j.at = "start"
  /\ j.ref.id \in disk
  /\ ~j.ref.delete
  /\ LET c == stored[j.ref.id] IN
       db' = IF c.key \in Keys /\ db[c.key] < c.time
             THEN [db EXCEPT ![c.key] = c.time] ELSE db
  /\ executed' = [executed EXCEPT ![j.ref.id] = @ + 1]
  /\ Steps(j, "executed")
  /\ UNCHANGED <<bufferVars, submitVars, loadVars, gate, diskVars, countVars,
                 obsolete, lost, stranded, crashes, reloads, ioFailures,
                 shovel, blocked, delayed, revived, stopping>>

\* Faulty variant: the file is removed before the command has run.
AckEarly(j) ==
  /\ j.at \in {"start", "executed"}
  /\ j.ref.id \in disk
  /\ disk' = disk \ {j.ref.id}
  /\ Finish(j)
  /\ depth' = depth - 1
  /\ UNCHANGED <<bufferVars, submitVars, loadVars, stored, dlo, awaiting, history,
                 db, shovel, blocked, delayed, revived, stopping>>

\* ack-command, then the counter.
Ack(j) ==
  /\ j.at = "executed"
  /\ j.ref.id \in disk
  /\ disk' = disk \ {j.ref.id}
  /\ Finish(j)
  /\ depth' = depth - 1
  /\ UNCHANGED <<bufferVars, submitVars, loadVars, stored, dlo, awaiting, history,
                 db, shovel, blocked, delayed, revived, stopping>>

\* Faulty variants: the attempt is not recorded, or not checked.
DelayUnrecorded(j) ==
  /\ j.ref.attempts < MaxRetries
  /\ delayed' = delayed \cup {j.ref}
  /\ awaiting' = awaiting + 1
  /\ Finish(j)

DelayUnchecked(j) ==
  /\ delayed' = delayed \cup {[j.ref EXCEPT !.attempts = @ + 1]}
  /\ awaiting' = awaiting + 1
  /\ Finish(j)

\* schedule-delayed-message.
Delay(j) ==
  /\ j.ref.attempts < MaxRetries
  /\ delayed' = delayed \cup {[j.ref EXCEPT !.attempts = @ + 1]}
  /\ awaiting' = awaiting + 1
  /\ Finish(j)

\* "retry" in process-message: another attempt later, or none any more.
Retry(j) ==
  /\ \/ Delay(j)
     \/ /\ j.ref.attempts = MaxRetries
        /\ Steps(j, "exhausted")
        /\ UNCHANGED <<gate, delayed, awaiting>>
  /\ UNCHANGED <<bufferVars, submitVars, loadVars, diskVars, depth, revived,
                 executed, obsolete, lost, stranded, crashes, reloads, db,
                 shovel, blocked, stopping>>

\* Faulty variant: what follows the transaction is retried with it.
FailAfterExecution(j) ==
  /\ j.at \in {"start", "executed"}
  /\ j.ref.id \in disk
  /\ Retry(j)
  /\ UNCHANGED ioFailures

\* Reading the file, or running the command through its quick retries, throws
\* something that may pass: the database being away, say.
FailTransiently(j) ==
  /\ j.at = "start"
  /\ j.ref.id \in disk
  /\ Retry(j)
  /\ UNCHANGED ioFailures

\* The file cannot be removed: the command has run, or was to be dropped,
\* and is tried again all the same.
AckFails(j) ==
  /\ \/ j.at = "executed"
     \/ j.at = "start" /\ j.ref.delete /\ j.ref.id \in disk
  /\ \/ j.ref.id \notin disk /\ UNCHANGED ioFailures
     \/ j.ref.id \in disk /\ FailIO
  /\ Retry(j)

\* The file cannot be parsed, or the command can never succeed.
FailForGood(j) ==
  /\ j.at = "start"
  /\ j.ref.id \in disk
  /\ Steps(j, "fatal")
  /\ UNCHANGED <<bufferVars, submitVars, loadVars, gate, diskVars, countVars,
                 history, db, shovel, blocked, delayed, revived, stopping>>

MoveToDlo(j) ==
  /\ disk' = disk \ {j.ref.id}
  /\ dlo' = dlo \cup
       {[id |-> j.ref.id, attempts |-> j.ref.attempts + 1, why |-> j.at]}
  /\ UNCHANGED stored

\* discard-message.
Discard(j) ==
  /\ j.at \in {"exhausted", "fatal"}
  /\ j.ref.id \in disk
  /\ MoveToDlo(j)
  /\ Finish(j)
  /\ depth' = depth - 1
  /\ UNCHANGED <<bufferVars, submitVars, loadVars, awaiting, history,
                 db, shovel, blocked, delayed, revived, stopping>>

\* The move fails, or the write of the error file after it: the exception
\* leaves process-message, and nothing counts or reschedules the command.
DiscardFails(j) ==
  /\ j.at \in {"exhausted", "fatal"}
  /\ \/ /\ j.ref.id \notin disk
        /\ UNCHANGED <<ioFailures, stranded, diskVars>>
     \/ /\ j.ref.id \in disk
        /\ FailIO
        /\ stranded' = stranded \cup {j.ref.id}
        /\ UNCHANGED diskVars
     \/ /\ j.ref.id \in disk
        /\ FailIO
        /\ MoveToDlo(j)
        /\ UNCHANGED stranded
  /\ Finish(j)
  /\ UNCHANGED <<bufferVars, submitVars, loadVars, countVars, executed,
                 obsolete, lost, crashes, reloads,
                 db, shovel, blocked, delayed, revived, stopping>>

\* delay-pool-size: the threads that put references back, or have yet to count.
DelayPoolSize == 2

\* The delay is over: a thread of delay-pool puts the reference back ...
Revive(r) ==
  /\ r \in delayed
  /\ revived < DelayPoolSize
  /\ PutOnChannel(r)
  /\ delayed' = delayed \ {r}
  /\ revived' = revived + 1
  /\ UNCHANGED <<submitVars, loadVars, workVars, diskVars, countVars, history,
                 db, shovel, blocked, stopping>>

\* Faulty variant: the counter is left as it is.
CountsNoRevival ==
  /\ revived > 0
  /\ revived' = revived - 1
  /\ UNCHANGED <<bufferVars, submitVars, loadVars, workVars, diskVars, countVars,
                 history, db, shovel, blocked, delayed, stopping>>

\* ... and counts it afterwards, when a worker may already be at it again.
CountRevival ==
  /\ revived > 0
  /\ revived' = revived - 1
  /\ awaiting' = awaiting - 1
  /\ UNCHANGED <<bufferVars, submitVars, loadVars, workVars, diskVars, depth,
                 history, db, shovel, blocked, delayed, stopping>>

-----------------------------------------------------------------------------
\* What was in memory is gone, and the loader will find what is on disk.
\* next-likely-id, its ceiling, is above the id of every file found.
Restart ==
  /\ fifo' = {}
  /\ certnames' = [k \in Keys |-> NoCmd]
  /\ submitter' = [s \in Submitters |-> [at |-> "idle", id |-> 0]]
  /\ permits' = ConcurrentWrites
  /\ loader' = disk
  /\ ceiling' = Len(stored) + 1
  /\ loaderOwes' = FALSE
  /\ shovel' = NoCmd /\ handing' = "held"
  /\ blocked' = FALSE
  /\ gate' = Threads
  /\ running' = {}
  /\ delayed' = {} /\ revived' = 0
  /\ stopping' = FALSE
  /\ stranded' = {}
  /\ UNCHANGED <<diskVars, db, executed, obsolete, lost, ioFailures>>

\* The process dies and is started again; its counters start from zero.
Crash ==
  /\ crashes < MaxCrashes /\ Mishap
  /\ crashes' = crashes + 1
  /\ depth' = 0 /\ awaiting' = 0 /\ invalidated' = 0
  /\ Restart
  /\ UNCHANGED reloads

\* stop-command-service: close the channel, interrupt the shovel, which drops
\* what it still waits to hand over, and drain the permits ...
Stop ==
  /\ ~stopping
  /\ reloads < MaxReloads /\ Mishap
  /\ stopping' = TRUE
  /\ gate' = 0
  /\ \/ handing = "granted" /\ UNCHANGED <<shovel, handing>>
     \/ handing # "granted" /\ shovel' = NoCmd /\ handing' = "held"
  /\ UNCHANGED <<bufferVars, submitVars, loadVars, running, diskVars, countVars,
                 history, db, blocked, delayed, revived>>

\* ... and, on SIGHUP, start again in the same JVM, whose metrics registry
\* keeps the counters.  Jobs still running and delays still pending are cut;
\* the shovel and the scheduler have ended, and the web server has let its
\* requests finish, before anything starts again.
Reload ==
  /\ stopping
  /\ \A s \in Submitters : submitter[s].at = "idle"
  /\ ~loaderOwes
  /\ shovel = NoCmd
  /\ revived = 0
  /\ reloads' = reloads + 1
  /\ Restart
  /\ UNCHANGED <<countVars, invalidated, crashes>>

\* Somebody removes a queue file.
LoseFile(i) ==
  /\ i \in disk
  /\ Cardinality(lost) < MaxLost /\ Mishap
  /\ disk' = disk \ {i}
  /\ lost' = lost \cup {i}
  /\ UNCHANGED <<bufferVars, submitVars, loadVars, workVars, stored, dlo,
                 countVars, executed, obsolete, stranded, crashes, reloads,
                 ioFailures, db, shovel, blocked, delayed, revived, stopping>>

-----------------------------------------------------------------------------
Submission(s) ==
  \/ Acquire(s) \/ AcquireInterrupted(s) \/ Store(s) \/ StoreFails(s)
  \/ Put(s) \/ PutInterrupted(s) \/ Count(s)

Loading == (\E i \in loader : Load(i) \/ LoadSkips(i)) \/ LoadCounts

Shoveling ==
  (\E r \in fifo : Take(r)) \/ PassPause \/ Grant \/ Dispatch \/ Rejected

Work(j) ==
  \/ Missing(j) \/ DropObsolete(j) \/ Execute(j) \/ Ack(j)
  \/ FailTransiently(j) \/ AckFails(j) \/ FailForGood(j)
  \/ Discard(j) \/ DiscardFails(j)

Next ==
  \/ \E s \in Submitters : Arrive(s) \/ Submission(s)
  \/ Loading
  \/ Shoveling \/ PauseOrResume
  \/ \E j \in running : Work(j)
  \/ (\E r \in delayed : Revive(r)) \/ CountRevival
  \/ Crash \/ Stop \/ Reload
  \/ \E i \in disk : LoseFile(i)

Spec == Init /\ [][Next]_vars

(***************************************************************************)
(* Threads that can run do run: the HTTP thread that has a request, the    *)
(* loader, the shovel, the pool's threads and the scheduler.  Nothing is   *)
(* assumed of clients, of pause and resume, or of failures.                *)
(***************************************************************************)
Fairness ==
  /\ \A s \in Submitters : WF_vars(Submission(s))
  /\ WF_vars(Loading)
  /\ WF_vars(Shoveling)
  /\ \A i \in Ids : WF_vars(\E j \in running : j.ref.id = i /\ Work(j))
  /\ \A i \in Ids : WF_vars(\E r \in delayed : r.id = i /\ Revive(r))
  /\ WF_vars(CountRevival)
  /\ WF_vars(Reload)

FairSpec == Spec /\ Fairness

-----------------------------------------------------------------------------
StoredIds == DOMAIN stored

\* The places of the running program that hold a command.
Putting   == {submitter[s].id : s \in {t \in Submitters : submitter[t].at = "put"}}
Unloaded  == {i \in loader : i < ceiling}
InShovel  == IF shovel = NoCmd THEN {} ELSE {shovel}
InWorkers == {j.ref : j \in running}
InMemory  == fifo \cup InShovel \cup InWorkers \cup delayed

IdsOf(refs) == {r.id : r \in refs}
DloIds      == {d.id : d \in dlo}

Places == <<Putting, Unloaded, IdsOf(fifo), IdsOf(InShovel), IdsOf(InWorkers),
            IdsOf(delayed)>>

(***************************************************************************)
(* No command is in two places of the program, or twice in one: it is      *)
(* never worked on by two threads at once.  The loader's ceiling, the      *)
(* shovel and the delayed retries could each hand out a second reference.  *)
(***************************************************************************)
SinglePlace ==
  /\ UniqueIds
  /\ \A q, r \in delayed : q.id = r.id => q = r
  /\ \A j, k \in running : j.ref.id = k.ref.id => j = k
  /\ \A s, t \in Submitters :
       /\ submitter[s].at = "put" /\ submitter[t].at = "put"
       /\ submitter[s].id = submitter[t].id
       => s = t
  /\ \A m, n \in DOMAIN Places : m # n => Places[m] \cap Places[n] = {}

(***************************************************************************)
(* While the program runs, a command on disk is on its way to a worker,    *)
(* unless discard-message failed on it: no file waits for a restart        *)
(* because some thread dropped its reference (loader, channel, retry).     *)
(***************************************************************************)
NoneForgotten ==
  ~stopping => disk \subseteq Putting \cup Unloaded \cup IdsOf(InMemory) \cup stranded

(***************************************************************************)
(* A stored command leaves the queue directory only once it has run, was   *)
(* dropped as obsolete, or is in the dead letter office: acknowledging,    *)
(* discarding and crashing never lose one (process-cmd acks after exec).   *)
(***************************************************************************)
NothingLost ==
  \A i \in StoredIds :
    i \in disk \cup DloIds \cup obsolete \cup lost \/ executed[i] > 0

(***************************************************************************)
(* The newest data of a node is never bashed: it is in the database,       *)
(* still queued, or in the dead letter office, however retries, restarts   *)
(* and late arrivals shuffle the commands of its key (add!*, remove!).     *)
(* With equal timestamps both can be dropped, so those are left out.       *)
(***************************************************************************)
Newest(i) ==
  /\ stored[i].key \in Keys
  /\ \A j \in StoredIds : stored[j].key = stored[i].key => stored[j].time <= stored[i].time

NewestSurvives ==
  ~AllowTies => \A i \in StoredIds : Newest(i) =>
    db[stored[i].key] >= stored[i].time \/ i \in disk \cup DloIds \cup lost

(***************************************************************************)
(* Whoever is marked obsolete, in memory or in certnames-map, has a        *)
(* strictly newer rival, provided a client never repeats a timestamp.      *)
(* Add relies on the copies certnames-map keeps, retries on their flag.    *)
(***************************************************************************)
Superseded(i) ==
  \E j \in StoredIds :
    stored[j].key = stored[i].key /\ stored[j].time > stored[i].time

MarkedSuperseded ==
  ~AllowTies =>
    /\ \A r \in InMemory : r.delete => Superseded(r.id)
    /\ \A k \in Keys : certnames[k] # NoCmd /\ certnames[k].delete
                         => Superseded(certnames[k].id)
    /\ \A i \in obsolete : Superseded(i)

(***************************************************************************)
(* command.clj:156 says that a command is marked delete? because a newer   *)
(* one "was enqueued that will overwrite" it.  So of the commands of its   *)
(* key as new as a dropped one, some must have run, or be still to run, or *)
(* at least be kept in the dead letter office.                             *)
(***************************************************************************)
DroppedIsOverwritten ==
  \A i \in obsolete : \E j \in StoredIds :
    /\ stored[j].key = stored[i].key
    /\ stored[j].time >= stored[i].time
    /\ j \in disk \cup DloIds \cup lost \/ executed[j] > 0

(***************************************************************************)
(* The command buffer, the worker pool and the writers keep their limits   *)
(* through pauses, retries, failures and restarts.  A permit is given back *)
(* once for each time it was taken: gate and permits add up until a stop   *)
(* drains the gate, a rejected job's permit included (gated-execute), and  *)
(* interrupts writers, who give back what they never had: only then can    *)
(* more than ConcurrentWrites commands be written at once.                 *)
(***************************************************************************)
Writing == {s \in Submitters : submitter[s].at \in {"store", "put"}}
Granted == IF handing = "granted" THEN 1 ELSE 0

WithinLimits ==
  /\ Cardinality(fifo) <= MaxEnqueued
  /\ gate + Cardinality(running) + Granted <= Threads
  /\ permits + Cardinality(Writing) >= ConcurrentWrites
  /\ ~stopping => /\ gate + Cardinality(running) + Granted = Threads
                  /\ permits + Cardinality(Writing) = ConcurrentWrites
  /\ gate >= 0 /\ permits >= 0

(***************************************************************************)
(* A command runs to success at most once, but for a crash, a reload or a  *)
(* failed acknowledgement in between: retries and the loader do not repeat *)
(* what has succeeded (process-message, message-loader).                   *)
(***************************************************************************)
RunsOnce ==
  \A i \in Ids : executed[i] <= 1 + crashes + reloads + ioFailures

(***************************************************************************)
(* Whoever holds a command finds its file, unless somebody removed it: no  *)
(* reference outlives the acknowledgement or the discard of its command    *)
(* (ack-command, discard-message), so process-message meets a missing file *)
(* only through interference.                                              *)
(***************************************************************************)
HeldOnDisk == Putting \cup Unloaded \cup IdsOf(InMemory) \subseteq disk \cup lost

(***************************************************************************)
(* The counters against what they count.  The :depth counter is behind by  *)
(* the commands already on the channel and not counted yet, never by more; *)
(* it is exact unless a discard failed or the channel was closed.  The     *)
(* :awaiting-retry counter is ahead by the revivals not counted yet, and   *)
(* exact otherwise, until a reload.  :invalidated never falls below the    *)
(* marked ones, also when a marked command comes back from a retry.        *)
(***************************************************************************)
Uncounted == Cardinality({s \in Submitters : submitter[s].at = "count"})
               + (IF loaderOwes THEN 1 ELSE 0)

CountersTrack ==
  /\ depth >= Cardinality(InMemory) - Uncounted
  /\ awaiting >= Cardinality(delayed) + revived
  /\ invalidated >= Cardinality({r \in InMemory : r.delete})
  /\ reloads = 0 => awaiting = Cardinality(delayed) + revived
  /\ ~stopping /\ reloads = 0 /\ ioFailures = 0 /\ lost = {}
       => depth = Cardinality(InMemory) - Uncounted

(***************************************************************************)
(* Every stored command is settled in the end, once execution is no longer *)
(* paused: it runs, is dropped or is discarded, and its file goes, unless  *)
(* its discard failed (retries, delays and the bounded buffer included).   *)
(***************************************************************************)
Settles ==
  (<>[]~blocked) => \A i \in Ids : i \in disk ~> i \notin disk \/ i \in stranded

-----------------------------------------------------------------------------
(***************************************************************************)
(* The path keeps the promise of CommandDelivery: a file leaves the queue  *)
(* only after its command ran, with a strictly newer rival stored, or into *)
(* the dead letter office, and data never gives way to older data, through *)
(* every retry, crash and restart (process-message, message-loader).       *)
(* Equal timestamps break it, so clients are assumed not to repeat one.    *)
(***************************************************************************)
Delivery == INSTANCE CommandDelivery WITH
  Commands <- Command,
  sent     <- stored,
  pending  <- disk,
  applied  <- {i \in Ids : executed[i] > 0},
  dead     <- DloIds,
  data     <- db

Delivers == Delivery!Spec
=============================================================================
