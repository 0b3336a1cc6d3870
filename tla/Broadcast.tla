------------------------------- MODULE Broadcast -------------------------------
(***************************************************************************)
(* One attempt at a command when several write databases are configured:   *)
(* a worker has a thread of the broadcast pool run the command on each     *)
(* database, and goes on with the first success, or with the last failure. *)
(* Threads that are not done by then run on.  A client may be waiting for  *)
(* the outcome (broadcast-cmd and its callers in command.clj,              *)
(* blocking-submit-command in http/command.clj).                           *)
(*                                                                         *)
(* The queue, the delay before a retry and the acknowledgement are those   *)
(* of CommandPipeline; here a command is queued, or in the hands of a      *)
(* worker, or dealt with.  The crash of the process is left to that module.*)
(***************************************************************************)
EXTENDS Integers, FiniteSets, Sequences

CONSTANTS
  Keys,          \* the [command-type certname] pairs of catalogs and facts
  Dbs,           \* write-dbs
  Workers,       \* cmd-concurrency
  QuickRetries,  \* quick-retry-count
  MaxRetries,    \* maximum-allowable-retries
  MaxTime,       \* bound: the largest producer timestamp
  MaxSent,       \* bound: how many commands are submitted
  Blocking,      \* bound: the submissions that wait for the outcome
  MaxTroubles,   \* bound: failed acknowledgements and the shutdown, in all
  AllowTies      \* may two commands of one key carry the same timestamp?

ASSUME BroadcastAssumption ==
  /\ Dbs # {}
  /\ Workers \in Nat \ {0}
  /\ QuickRetries \in Nat
  /\ MaxRetries \in Nat
  /\ MaxTime \in Nat
  /\ MaxSent \in Nat
  /\ MaxTroubles \in Nat
  /\ AllowTies \in BOOLEAN

Ids     == 1..MaxSent
Command == [key: Keys, time: 1..MaxTime]

\* A thread of the pool: the command and the attempt it belongs to, its
\* database, how far it is, and how many of its tries have failed.  Waiting
\* for a connection is part of executing: nothing tells the two apart, as the
\* interruption meant for the former does not work (see Answer).
Thread == [id: Ids, round: 0..MaxRetries, db: Dbs,
           at: {"executing", "committed"}, failures: 0..QuickRetries]

VARIABLES
  sent,       \* every command submitted; its id is its index
  state,      \* what has become of it
  attempts,   \* how many attempts at it have failed
  threads,    \* the busy threads of the broadcast pool
  results,    \* what the databases said in the current attempt
  data,       \* per database and key, timestamp of the data (0: none)
  client,     \* what its client was told ("none": nobody waits, or no more)
  closing,    \* is the broadcast pool shut down?
  commits,    \* history: <<id, database>> for every transaction committed
  troubles    \* history: acknowledgements that failed, and the shutdown

vars == <<sent, state, attempts, threads, results, data, client, closing,
          commits, troubles>>

States  == {"none", "queued", "starting", "running", "acking", "done", "dropped",
            "discarded"}
Clients == {"none", "waiting", "ok", "error"}

TypeOK ==
  /\ sent \in Seq(Command) /\ Len(sent) <= MaxSent
  /\ state \in [Ids -> States]
  /\ attempts \in [Ids -> 0..MaxRetries]
  /\ threads \subseteq Thread
  /\ results \in [Ids -> [Dbs -> {"none", "ok", "failed"}]]
  /\ data \in [Dbs -> [Keys -> 0..MaxTime]]
  /\ client \in [Ids -> Clients]
  /\ closing \in BOOLEAN
  /\ commits \subseteq Ids \X Dbs
  /\ troubles \in Nat

NoResults == [d \in Dbs |-> "none"]

Init ==
  /\ sent = <<>>
  /\ state = [i \in Ids |-> "none"]
  /\ attempts = [i \in Ids |-> 0]
  /\ threads = {}
  /\ results = [i \in Ids |-> NoResults]
  /\ data = [d \in Dbs |-> [k \in Keys |-> 0]]
  /\ client = [i \in Ids |-> "none"]
  /\ closing = FALSE
  /\ commits = {}
  /\ troubles = 0

-----------------------------------------------------------------------------
\* A command is submitted, and its client waits for the outcome or does not.
Submit(c) ==
  /\ Len(sent) < MaxSent
  /\ AllowTies \/ \A i \in DOMAIN sent : sent[i].key = c.key => sent[i].time # c.time
  /\ sent' = Append(sent, c)
  /\ state' = [state EXCEPT ![Len(sent')] = "queued"]
  /\ client' = [client EXCEPT ![Len(sent')] =
                               IF Len(sent') \in Blocking THEN "waiting" ELSE "none"]
  /\ UNCHANGED <<attempts, threads, results, data, closing, commits, troubles>>

\* The callback delivers the promise of blocking-submit-command: only once.
Tell(i, what) ==
  client' = IF client[i] = "waiting" THEN [client EXCEPT ![i] = what] ELSE client

TimeOut(i) ==
  /\ client[i] = "waiting"
  /\ client' = [client EXCEPT ![i] = "none"]
  /\ UNCHANGED <<sent, state, attempts, threads, results, data, closing, commits,
                 troubles>>

\* Faulty variant: the number of attempts is not limited.
RetryUnchecked(i) ==
  /\ attempts' = [attempts EXCEPT ![i] = @ + 1]
  /\ state' = [state EXCEPT ![i] = "queued"]

\* "retry" in process-message.
Retry(i) ==
  IF attempts[i] < MaxRetries
  THEN /\ attempts' = [attempts EXCEPT ![i] = @ + 1]
       /\ state' = [state EXCEPT ![i] = "queued"]
  ELSE /\ state' = [state EXCEPT ![i] = "discarded"]
       /\ UNCHANGED attempts

InHand == {i \in Ids : state[i] \in {"starting", "running", "acking"}}

\* In the current attempt at i, the database d has a busy thread, or has said
\* what became of it.
Busy(i, d)  == \E t \in threads : t.id = i /\ t.db = d /\ t.round = attempts[i]
Begun(i, d) == Busy(i, d) \/ results[i][d] # "none"

\* A worker takes the command; the results of this attempt go into an atom of
\* their own.
Begin(i) ==
  /\ state[i] = "queued"
  /\ ~closing
  /\ Cardinality(InHand) < Workers
  /\ state' = [state EXCEPT ![i] = "starting"]
  /\ results' = [results EXCEPT ![i] = NoResults]
  /\ UNCHANGED <<sent, attempts, threads, data, client, closing, commits, troubles>>

\* The command cannot be read, parsed or prepared: the exception passes by
\* the callback.
NotPrepared(i) ==
  /\ state[i] = "starting"
  /\ \A d \in Dbs : ~Begun(i, d)
  /\ \/ Retry(i)
     \/ state' = [state EXCEPT ![i] = "discarded"] /\ UNCHANGED attempts
  /\ UNCHANGED <<sent, threads, results, data, client, closing, commits, troubles>>

\* broadcast-cmd starts one thread after the other; the first may be done
\* before the last has begun.
Start(i, d) ==
  /\ state[i] = "starting"
  /\ ~closing
  /\ ~Begun(i, d)
  /\ threads' = threads \cup
       {[id |-> i, round |-> attempts[i], db |-> d, at |-> "executing", failures |-> 0]}
  /\ state' = IF \A e \in Dbs \ {d} : Begun(i, e)
              THEN [state EXCEPT ![i] = "running"] ELSE state
  /\ UNCHANGED <<sent, attempts, results, data, client, closing, commits, troubles>>

\* The pool is shut down meanwhile, and rejects one of the threads.  Those it
\* took go on; the client is told nothing.
Rejected(i) ==
  /\ state[i] = "starting"
  /\ closing
  /\ Retry(i)
  /\ UNCHANGED <<sent, threads, results, data, client, closing, commits, troubles>>

\* The worker's own pool is shut down, and interrupts it while it waits for
\* the results: again the threads go on, and the client is told nothing.
Interrupted(i) ==
  /\ state[i] = "running"
  /\ closing
  /\ Retry(i)
  /\ UNCHANGED <<sent, threads, results, data, client, closing, commits, troubles>>

\* The queue keeps another command of the same key that is as new, or newer.
Outdated(i) ==
  \E j \in DOMAIN sent \ {i} : sent[j].key = sent[i].key /\ sent[j].time >= sent[i].time

\* The removal of the queue file throws, say.
Trouble ==
  /\ troubles < MaxTroubles
  /\ troubles' = troubles + 1

\* Faulty variant: any command may be dropped.
DropAny(i) ==
  /\ state[i] = "starting"
  /\ Tell(i, "ok")
  /\ state' = [state EXCEPT ![i] = "dropped"]
  /\ UNCHANGED <<sent, attempts, threads, results, data, closing, commits, troubles>>

\* process-delete-cmd: which of those commands the queue marks is the concern
\* of CommandPipeline.  The client is told before the file goes.
Drop(i) ==
  /\ state[i] = "starting"
  /\ \A d \in Dbs : ~Begun(i, d)
  /\ Outdated(i)
  /\ Tell(i, "ok")
  /\ \/ state' = [state EXCEPT ![i] = "dropped"] /\ UNCHANGED <<attempts, troubles>>
     \/ Trouble /\ Retry(i)
  /\ UNCHANGED <<sent, threads, results, data, closing, commits>>

-----------------------------------------------------------------------------
Turns(t, u) == threads' = (threads \ {t}) \cup {u}

\* Faulty variant: the data is replaced however new what is stored.
CommitBlindly(t) ==
  /\ t.at = "executing"
  /\ data' = [data EXCEPT ![t.db][sent[t.id].key] = sent[t.id].time]
  /\ commits' = commits \cup {<<t.id, t.db>>}
  /\ Turns(t, [t EXCEPT !.at = "committed"])
  /\ UNCHANGED <<sent, state, attempts, results, client, closing, troubles>>

\* The transaction commits; storage keeps the newer of the two data.
Commit(t) ==
  /\ t.at = "executing"
  /\ LET c == sent[t.id] IN
       data' = IF data[t.db][c.key] < c.time
               THEN [data EXCEPT ![t.db][c.key] = c.time] ELSE data
  /\ commits' = commits \cup {<<t.id, t.db>>}
  /\ Turns(t, [t EXCEPT !.at = "committed"])
  /\ UNCHANGED <<sent, state, attempts, results, client, closing, troubles>>

\* Faulty variant: a failure leaves no result.
ReportSuccess(t, what) ==
  /\ threads' = threads \ {t}
  /\ results' = IF t.round = attempts[t.id] /\ what = "ok"
                THEN [results EXCEPT ![t.id][t.db] = what] ELSE results

\* The thread ends and adds its result to those of its attempt, which a later
\* attempt at the command does not see.
Report(t, what) ==
  /\ threads' = threads \ {t}
  /\ results' = IF t.round = attempts[t.id]
                THEN [results EXCEPT ![t.id][t.db] = what] ELSE results

Succeed(t) ==
  /\ t.at = "committed"
  /\ Report(t, "ok")
  /\ UNCHANGED <<sent, state, attempts, data, client, closing, commits, troubles>>

\* A try fails, perhaps after its transaction has committed: call-with-quick-
\* retry tries again, however bad the error, until its count is used up.
TryFails(t) ==
  /\ \/ /\ t.failures < QuickRetries
        /\ Turns(t, [t EXCEPT !.at = "executing", !.failures = @ + 1])
        /\ UNCHANGED results
     \/ /\ t.failures = QuickRetries
        /\ Report(t, "failed")
  /\ UNCHANGED <<sent, state, attempts, data, client, closing, commits, troubles>>

-----------------------------------------------------------------------------
\* Faulty variants: any result will do, or the threads that are still busy end
\* with the attempt.
AnswerToAny(i) ==
  /\ state[i] = "running"
  /\ \E d \in Dbs : results[i][d] # "none"
  /\ Tell(i, "ok")
  /\ state' = [state EXCEPT ![i] = "acking"]
  /\ UNCHANGED <<sent, attempts, threads, results, data, closing, commits, troubles>>

AnswerAndAbandon(i) ==
  /\ state[i] = "running"
  /\ \E d \in Dbs : results[i][d] = "ok"
  /\ Tell(i, "ok")
  /\ state' = [state EXCEPT ![i] = "acking"]
  /\ threads' = {t \in threads : t.id # i}
  /\ UNCHANGED <<sent, attempts, results, data, closing, commits, troubles>>

\* The worker wakes at the first success and tells the client.  What it calls
\* to interrupt the other threads finds none: it looks for :thread and
\* :connecting? in the atoms themselves, not in their values.
Answer(i) ==
  /\ state[i] = "running"
  /\ \E d \in Dbs : results[i][d] = "ok"
  /\ Tell(i, "ok")
  /\ state' = [state EXCEPT ![i] = "acking"]
  /\ UNCHANGED <<sent, attempts, threads, results, data, closing, commits, troubles>>

\* Faulty variant: one failure is enough.
GiveUpAtFirst(i) ==
  /\ state[i] = "running"
  /\ \E d \in Dbs : results[i][d] = "failed"
  /\ Tell(i, "error")
  /\ Retry(i)
  /\ UNCHANGED <<sent, threads, results, data, closing, commits, troubles>>

\* All databases have failed: the client gets an error, and the command
\* another attempt.
GiveUp(i) ==
  /\ state[i] = "running"
  /\ \A d \in Dbs : results[i][d] = "failed"
  /\ Tell(i, "error")
  /\ Retry(i)
  /\ UNCHANGED <<sent, threads, results, data, closing, commits, troubles>>

Ack(i) ==
  /\ state[i] = "acking"
  /\ state' = [state EXCEPT ![i] = "done"]
  /\ UNCHANGED <<sent, attempts, threads, results, data, client, closing, commits,
                 troubles>>

AckFails(i) ==
  /\ state[i] = "acking"
  /\ Trouble
  /\ Retry(i)
  /\ UNCHANGED <<sent, threads, results, data, client, closing, commits>>

\* stop-command-service ends the shovel and shuts the pools down.
Close ==
  /\ ~closing
  /\ Trouble
  /\ closing' = TRUE
  /\ UNCHANGED <<sent, state, attempts, threads, results, data, client, commits>>

-----------------------------------------------------------------------------
Run(t) == Commit(t) \/ Succeed(t) \/ TryFails(t)

Work(i) ==
  \/ NotPrepared(i) \/ Drop(i) \/ Rejected(i) \/ Interrupted(i)
  \/ Answer(i) \/ GiveUp(i) \/ Ack(i) \/ AckFails(i)

Next ==
  \/ \E c \in Command : Submit(c)
  \/ \E i \in Ids : Begin(i) \/ (\E d \in Dbs : Start(i, d)) \/ Work(i) \/ TimeOut(i)
  \/ \E t \in threads : Run(t)
  \/ Close

Spec == Init /\ [][Next]_vars

-----------------------------------------------------------------------------
\* The data of the command, or newer data, is in the database d.
In(i, d) == data[d][sent[i].key] >= sent[i].time

(***************************************************************************)
(* A command is acknowledged, and its file removed, only when a database   *)
(* has it: neither a late failure nor the result of another attempt can    *)
(* pass for a success (process-cmd acknowledges after broadcast-cmd).      *)
(***************************************************************************)
DoneIsStored ==
  \A i \in Ids : state[i] \in {"acking", "done"} =>
    \E d \in Dbs : <<i, d>> \in commits /\ In(i, d)

(***************************************************************************)
(* No database is left out of a command because another was faster: each   *)
(* has committed it, is still working on it, or has failed at it as often  *)
(* as call-with-quick-retry allows.                                        *)
(***************************************************************************)
EveryDbIsTried ==
  \A i \in Ids, d \in Dbs : state[i] \in {"acking", "done"} =>
    \/ <<i, d>> \in commits
    \/ results[i][d] = "failed"
    \/ \E t \in threads : t.id = i /\ t.db = d

(***************************************************************************)
(* Threads that outlive their attempt, by minutes perhaps, never put older *)
(* data in the place of newer on any database.                             *)
(***************************************************************************)
StragglersDoNotBash ==
  \A i \in Ids, d \in Dbs : <<i, d>> \in commits => In(i, d)

(***************************************************************************)
(* A client that is told of success can rely on it: a database has the     *)
(* data, or newer data, unless the command was dropped for a newer one.    *)
(* With equal timestamps two commands can be dropped for each other, and   *)
(* both clients be told of success, so those are left out.                 *)
(***************************************************************************)
Superseded(i) ==
  \E j \in DOMAIN sent : sent[j].key = sent[i].key /\ sent[j].time > sent[i].time

AnswerIsTrue ==
  ~AllowTies =>
    \A i \in Ids : client[i] = "ok" => Superseded(i) \/ \E d \in Dbs : In(i, d)

(***************************************************************************)
(* Until the pools are shut down, a worker gives an attempt up only when   *)
(* every thread of that attempt has ended, be it one that broadcast-cmd    *)
(* had only begun to start; so no failed attempt is still running when the *)
(* next begins (broadcast-cmd waits for n-dbs results).  A shutdown breaks *)
(* this: see Rejected and Interrupted.                                     *)
(***************************************************************************)
Waits(i) ==
  ~closing /\ state[i] \in {"starting", "running"} /\ state'[i] \in {"queued", "discarded"}
    => \A t \in threads : ~(t.id = i /\ t.round = attempts[i])

GivesUpLast == [][\A i \in Ids : Waits(i)]_vars

(***************************************************************************)
(* A worker waiting for an attempt never waits in vain: a thread of that   *)
(* attempt is still busy, or the results are in that let it go on.         *)
(***************************************************************************)
SomeoneWillAnswer ==
  \A i \in Ids : state[i] = "running" =>
    \/ \E d \in Dbs : results[i][d] = "ok"
    \/ \A d \in Dbs : results[i][d] = "failed"
    \/ \E d \in Dbs : Busy(i, d)

-----------------------------------------------------------------------------
\* The newest data any of the databases has for a key.
Newest(k) ==
  LET times == {data[d][k] : d \in Dbs} IN
    CHOOSE n \in times : \A m \in times : m <= n

(***************************************************************************)
(* With many databases the command path still keeps the promise of         *)
(* CommandDelivery, a command being applied when the first of them has it, *)
(* provided a client never repeats a timestamp for a key.                  *)
(***************************************************************************)
Promise == INSTANCE CommandDelivery WITH
  Commands <- Command,
  pending  <- {i \in Ids : state[i] \in {"queued", "starting", "running", "acking"}},
  applied  <- {i \in Ids : \E d \in Dbs : <<i, d>> \in commits},
  dead     <- {i \in Ids : state[i] = "discarded"},
  lost     <- {},
  data     <- [k \in Keys |-> Newest(k)]

KeepsPromise == Promise!Spec
=============================================================================
