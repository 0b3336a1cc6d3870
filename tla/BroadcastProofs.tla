---------------------------- MODULE BroadcastProofs ----------------------------
(***************************************************************************)
(* Theorems about Broadcast, for every number of databases, workers,       *)
(* commands and retries.                                                   *)
(***************************************************************************)
EXTENDS Broadcast, TLAPS

USE BroadcastAssumption DEF BroadcastAssumption

Handled == {"running", "acking", "done"}

\* Whatever is known of a command is known of one that was submitted.
Known ==
  /\ \A i \in Ids : state[i] # "none" <=> i \in DOMAIN sent
  /\ \A t \in threads : t.id \in DOMAIN sent
  /\ \A i \in Ids, d \in Dbs : <<i, d>> \in commits => i \in DOMAIN sent
  /\ \A i \in Ids : client[i] # "none" => i \in DOMAIN sent

\* What passes for a success is one.
Truthful ==
  /\ \A t \in threads : t.at = "committed" => <<t.id, t.db>> \in commits
  /\ \A i \in Ids, d \in Dbs : results[i][d] = "ok" => <<i, d>> \in commits
  /\ \A i \in Ids : state[i] \in {"acking", "done"} => \E d \in Dbs : <<i, d>> \in commits
  /\ \A i \in Ids : client[i] = "ok" =>
       Outdated(i) \/ \E d \in Dbs : <<i, d>> \in commits

\* Threads of earlier attempts may still be busy, but none of later ones; and
\* an attempt has one thread per database.
Rounds ==
  /\ \A t \in threads : t.round <= attempts[t.id]
  /\ \A t \in threads : state[t.id] = "queued" => t.round < attempts[t.id]
  /\ \A t, u \in threads : t.id = u.id /\ t.round = u.round /\ t.db = u.db => t = u

\* In the current attempt, a database has a busy thread or a result, once the
\* worker waits; before that it may have neither.
Complete ==
  \A i \in Ids, d \in Dbs :
    /\ state[i] \in Handled => (results[i][d] = "none" <=> Busy(i, d))
    /\ state[i] = "starting" /\ Busy(i, d) => results[i][d] = "none"

\* Without ties, no two commands of a key are equally new.
DistinctTimes ==
  ~AllowTies =>
    \A i, j \in DOMAIN sent : i # j /\ sent[i].key = sent[j].key =>
      sent[i].time # sent[j].time

Typed == TypeOK /\ Known

IInv == Typed /\ Truthful /\ Rounds /\ Complete /\ DistinctTimes /\ StragglersDoNotBash

-----------------------------------------------------------------------------
\* The steps that leave the threads, the results and the history alone.
Quiet == UNCHANGED <<sent, threads, results, data, commits>>

LEMMA RetryTyped ==
  ASSUME Typed, NEW i \in Ids, state[i] # "none", Retry(i)
  PROVE  /\ state' \in [Ids -> States] /\ attempts' \in [Ids -> 0..MaxRetries]
         /\ \A k \in Ids : k # i => state'[k] = state[k] /\ attempts'[k] = attempts[k]
         /\ \/ state'[i] = "queued" /\ attempts'[i] = attempts[i] + 1
            \/ state'[i] = "discarded" /\ attempts'[i] = attempts[i]
<1>1. attempts[i] \in 0..MaxRetries /\ state \in [Ids -> States]
      /\ attempts \in [Ids -> 0..MaxRetries]
  BY DEF Typed, TypeOK
<1>2. CASE attempts[i] < MaxRetries
  <2>1. attempts' = [attempts EXCEPT ![i] = @ + 1] /\ state' = [state EXCEPT ![i] = "queued"]
    BY <1>2 DEF Retry
  <2>2. attempts[i] + 1 \in 0..MaxRetries
    BY <1>1, <1>2
  <2> QED
    BY <1>1, <2>1, <2>2 DEF States
<1>3. CASE ~(attempts[i] < MaxRetries)
  <2>1. UNCHANGED attempts /\ state' = [state EXCEPT ![i] = "discarded"]
    BY <1>3 DEF Retry
  <2> QED
    BY <1>1, <2>1 DEF States
<1> QED
  BY <1>2, <1>3

LEMMA TellTyped ==
  ASSUME Typed, NEW i \in Ids, NEW what \in {"ok", "error"}, Tell(i, what)
  PROVE  /\ client' \in [Ids -> Clients]
         /\ \A k \in Ids : client'[k] # "none" => client[k] # "none"
         /\ \A k \in Ids : client'[k] = "ok" => client[k] = "ok" \/ (k = i /\ what = "ok")
BY DEF Tell, Typed, TypeOK, Clients

\* The outcome of a step that moves one command on, for the invariant.
LEMMA MovesOn ==
  ASSUME IInv, NEW i \in Ids, state[i] # "none", Quiet,
         state' \in [Ids -> States], attempts' \in [Ids -> 0..MaxRetries],
         client' \in [Ids -> Clients], closing' \in BOOLEAN, troubles' \in Nat,
         \A k \in Ids : k # i => state'[k] = state[k] /\ attempts'[k] = attempts[k],
         \/ state'[i] = "queued" /\ attempts'[i] = attempts[i] + 1
         \/ state'[i] \in {"discarded", "dropped"} /\ attempts'[i] = attempts[i]
         \/ state'[i] = "acking" /\ attempts'[i] = attempts[i] /\ state[i] = "running"
            /\ \E d \in Dbs : results[i][d] = "ok"
         \/ state'[i] = "done" /\ attempts'[i] = attempts[i] /\ state[i] = "acking",
         \A k \in Ids : client'[k] # "none" => client[k] # "none",
         \A k \in Ids : client'[k] = "ok" =>
           client[k] = "ok" \/ Outdated(k) \/ \E d \in Dbs : <<k, d>> \in commits
  PROVE  IInv'
<1> USE DEF Quiet
<1>1. Typed'
  BY DEF IInv, Typed, TypeOK, Known
<1>2. /\ \A k \in Ids : Outdated(k)' <=> Outdated(k)
      /\ DistinctTimes'
  BY DEF Outdated, IInv, DistinctTimes
<1>3. Truthful'
  BY <1>2 DEF IInv, Truthful
<1>4. \A t \in threads : t.id \in Ids /\ t.round \in Int /\ attempts[t.id] \in Int
  BY DEF IInv, Typed, TypeOK, Thread
<1>5. Rounds'
  BY <1>4 DEF IInv, Rounds
<1>6. Complete'
  <2> SUFFICES ASSUME NEW k \in Ids, NEW d \in Dbs
               PROVE  /\ state'[k] \in Handled => (results'[k][d] = "none" <=> Busy(k, d)')
                      /\ state'[k] = "starting" /\ Busy(k, d)' => results'[k][d] = "none"
    BY DEF Complete
  <2>1. /\ state'[k] \in Handled => state[k] \in Handled /\ attempts'[k] = attempts[k]
        /\ state'[k] = "starting" => state[k] = "starting" /\ attempts'[k] = attempts[k]
    BY DEF Handled
  <2> QED
    BY <2>1 DEF IInv, Complete, Busy
<1>7. StragglersDoNotBash'
  BY DEF IInv, StragglersDoNotBash, In
<1> QED
  BY <1>1, <1>2, <1>3, <1>5, <1>6, <1>7 DEF IInv

-----------------------------------------------------------------------------
LEMMA InitInv == Init => IInv
<1> SUFFICES ASSUME Init PROVE IInv
  OBVIOUS
<1>1. TypeOK
  <2>1. sent \in Seq(Command) /\ Len(sent) <= MaxSent /\ troubles \in Nat
    BY DEF Init
  <2>2. /\ state \in [Ids -> States] /\ client \in [Ids -> Clients]
        /\ attempts \in [Ids -> 0..MaxRetries]
    BY DEF Init, States, Clients
  <2>3. /\ results \in [Ids -> [Dbs -> {"none", "ok", "failed"}]]
        /\ data \in [Dbs -> [Keys -> 0..MaxTime]]
    BY DEF Init, NoResults
  <2>4. threads \subseteq Thread /\ closing \in BOOLEAN /\ commits \subseteq Ids \X Dbs
    BY DEF Init
  <2> QED
    BY <2>1, <2>2, <2>3, <2>4 DEF TypeOK
<1>2. Known
  BY DEF Init, Known
<1>3. Truthful
  BY DEF Init, Truthful, NoResults
<1>4. Rounds /\ Complete /\ DistinctTimes /\ StragglersDoNotBash
  BY DEF Init, Rounds, Complete, DistinctTimes, StragglersDoNotBash, Handled
<1> QED
  BY <1>1, <1>2, <1>3, <1>4 DEF IInv, Typed

LEMMA SubmitInv ==
  ASSUME IInv, NEW c \in Command, Submit(c)
  PROVE  IInv'
<1> DEFINE n == Len(sent) + 1
<1>1. /\ n \in Ids /\ n \notin DOMAIN sent /\ DOMAIN sent' = DOMAIN sent \cup {n}
      /\ sent' \in Seq(Command) /\ Len(sent') = n /\ Len(sent') <= MaxSent
      /\ sent'[n] = c /\ \A i \in DOMAIN sent : sent'[i] = sent[i]
  BY DEF Submit, IInv, Typed, TypeOK, Ids
<1>2. /\ state' = [state EXCEPT ![n] = "queued"]
      /\ client' = [client EXCEPT ![n] = IF n \in Blocking THEN "waiting" ELSE "none"]
      /\ UNCHANGED <<attempts, threads, results, data, closing, commits, troubles>>
  BY <1>1 DEF Submit
<1> HIDE DEF n
<1>3. state' \in [Ids -> States] /\ client' \in [Ids -> Clients]
  BY <1>1, <1>2 DEF IInv, Typed, TypeOK, States, Clients
<1>4. TypeOK'
  BY <1>1, <1>2, <1>3 DEF IInv, Typed, TypeOK
<1>5. \A i \in Ids : i # n => state'[i] = state[i] /\ client'[i] = client[i]
  BY <1>1, <1>2 DEF IInv, Typed, TypeOK
<1>6. state'[n] = "queued" /\ client'[n] \in {"waiting", "none"}
  BY <1>1, <1>2 DEF IInv, Typed, TypeOK
<1>7. Known'
  BY <1>1, <1>2, <1>5, <1>6 DEF IInv, Typed, Known
<1>8. \A i \in DOMAIN sent : Outdated(i) => Outdated(i)'
  BY <1>1 DEF Outdated
<1>9. Truthful'
  BY <1>1, <1>2, <1>5, <1>6, <1>8 DEF IInv, Typed, Known, Truthful
<1>10. Rounds'
  BY <1>1, <1>2, <1>5 DEF IInv, Typed, Known, Rounds, TypeOK, Thread
<1>11. Complete'
  BY <1>1, <1>2, <1>5, <1>6 DEF IInv, Complete, Busy, Handled
<1>12. StragglersDoNotBash'
  BY <1>1, <1>2 DEF IInv, Typed, Known, StragglersDoNotBash, In
<1>13. DistinctTimes'
  <2>1. AllowTies \/ \A i \in DOMAIN sent : sent[i].key = c.key => sent[i].time # c.time
    BY DEF Submit
  <2> QED
    BY <1>1, <2>1 DEF IInv, DistinctTimes
<1> QED
  BY <1>4, <1>7, <1>9, <1>10, <1>11, <1>12, <1>13 DEF IInv, Typed

-----------------------------------------------------------------------------
LEMMA TimeOutInv == ASSUME IInv, NEW i \in Ids, TimeOut(i) PROVE IInv'
<1>1. /\ client' \in [Ids -> Clients]
      /\ \A k \in Ids : client'[k] # "none" => client[k] # "none"
      /\ \A k \in Ids : client'[k] = "ok" => client[k] = "ok"
  BY DEF TimeOut, IInv, Typed, TypeOK, Clients
<1>2. UNCHANGED <<sent, state, attempts, threads, results, data, closing, commits,
                  troubles>>
  BY DEF TimeOut
<1>3. Typed'
  BY <1>1, <1>2 DEF IInv, Typed, TypeOK, Known
<1>4. Truthful'
  BY <1>1, <1>2 DEF IInv, Truthful, Outdated
<1>5. Rounds' /\ Complete' /\ DistinctTimes' /\ StragglersDoNotBash'
  BY <1>2 DEF IInv, Rounds, Complete, Busy, DistinctTimes, StragglersDoNotBash, In
<1> QED
  BY <1>3, <1>4, <1>5 DEF IInv

LEMMA CloseInv == ASSUME IInv, Close PROVE IInv'
<1>1. /\ closing' \in BOOLEAN /\ troubles' \in Nat
      /\ UNCHANGED <<sent, state, attempts, threads, results, data, client, commits>>
  BY DEF Close, Trouble, IInv, Typed, TypeOK
<1>2. Typed' /\ Truthful'
  BY <1>1 DEF IInv, Typed, TypeOK, Known, Truthful, Outdated
<1>3. Rounds' /\ Complete' /\ DistinctTimes' /\ StragglersDoNotBash'
  BY <1>1 DEF IInv, Rounds, Complete, Busy, DistinctTimes, StragglersDoNotBash, In
<1> QED
  BY <1>2, <1>3 DEF IInv

\* The steps of a worker that start no thread.
LEMMA QuietInv ==
  ASSUME IInv, NEW i \in Ids, Work(i)
  PROVE  IInv'
<1> USE DEF Quiet
<1>1. state \in [Ids -> States] /\ client \in [Ids -> Clients]
      /\ attempts \in [Ids -> 0..MaxRetries] /\ closing \in BOOLEAN /\ troubles \in Nat
      /\ Typed
  BY DEF IInv, Typed, TypeOK
<1>2. CASE NotPrepared(i)
  <2>1. /\ Quiet /\ UNCHANGED <<client, closing, troubles>> /\ state[i] # "none"
        /\ Retry(i) \/ (state' = [state EXCEPT ![i] = "discarded"] /\ UNCHANGED attempts)
    BY <1>2 DEF NotPrepared
  <2>2. CASE Retry(i)
    BY <1>1, <2>1, <2>2, RetryTyped, MovesOn
  <2>3. CASE state' = [state EXCEPT ![i] = "discarded"] /\ UNCHANGED attempts
    <3>1. state' \in [Ids -> States] /\ state'[i] = "discarded"
          /\ \A k \in Ids : k # i => state'[k] = state[k]
      BY <1>1, <2>3 DEF States
    <3> QED
      BY <1>1, <2>1, <2>3, <3>1, MovesOn
  <2> QED
    BY <2>1, <2>2, <2>3
<1>3. CASE Drop(i)
  <2>1. /\ Quiet /\ UNCHANGED closing /\ state[i] # "none" /\ Outdated(i)
        /\ Tell(i, "ok") /\ troubles' \in Nat
        /\ Retry(i) \/ (state' = [state EXCEPT ![i] = "dropped"] /\ UNCHANGED attempts)
    BY <1>1, <1>3 DEF Drop, Trouble
  <2>2. CASE Retry(i)
    BY <1>1, <2>1, <2>2, RetryTyped, TellTyped, MovesOn
  <2>3. CASE state' = [state EXCEPT ![i] = "dropped"] /\ UNCHANGED attempts
    <3>1. state' \in [Ids -> States] /\ state'[i] = "dropped"
          /\ \A k \in Ids : k # i => state'[k] = state[k]
      BY <1>1, <2>3 DEF States
    <3> QED
      BY <1>1, <2>1, <2>3, <3>1, TellTyped, MovesOn
  <2> QED
    BY <2>1, <2>2, <2>3
<1>4. CASE Answer(i)
  <2>1. /\ Quiet /\ UNCHANGED <<attempts, closing, troubles>> /\ state[i] = "running"
        /\ Tell(i, "ok") /\ \E d \in Dbs : results[i][d] = "ok"
        /\ state' = [state EXCEPT ![i] = "acking"]
    BY <1>4 DEF Answer
  <2>2. state' \in [Ids -> States] /\ state'[i] = "acking"
        /\ \A k \in Ids : k # i => state'[k] = state[k]
    BY <1>1, <2>1 DEF States
  <2>3. \E d \in Dbs : <<i, d>> \in commits
    BY <2>1 DEF IInv, Truthful
  <2> QED
    BY <1>1, <2>1, <2>2, <2>3, TellTyped, MovesOn
<1>5. CASE GiveUp(i)
  <2>1. Quiet /\ UNCHANGED <<closing, troubles>> /\ state[i] = "running"
        /\ Tell(i, "error") /\ Retry(i)
    BY <1>5 DEF GiveUp
  <2> QED
    BY <1>1, <2>1, RetryTyped, TellTyped, MovesOn
<1>6. CASE Ack(i)
  <2>1. Quiet /\ UNCHANGED <<attempts, client, closing, troubles>> /\ state[i] = "acking"
        /\ state' = [state EXCEPT ![i] = "done"]
    BY <1>6 DEF Ack
  <2>2. state' \in [Ids -> States] /\ state'[i] = "done"
        /\ \A k \in Ids : k # i => state'[k] = state[k]
    BY <1>1, <2>1 DEF States
  <2> QED
    BY <1>1, <2>1, <2>2, MovesOn
<1>7. CASE AckFails(i)
  <2>1. Quiet /\ UNCHANGED <<client, closing>> /\ state[i] = "acking"
        /\ Retry(i) /\ troubles' \in Nat
    BY <1>1, <1>7 DEF AckFails, Trouble
  <2> QED
    BY <1>1, <2>1, RetryTyped, MovesOn
<1>8. CASE Rejected(i) \/ Interrupted(i)
  <2>1. Quiet /\ UNCHANGED <<client, closing, troubles>> /\ state[i] # "none" /\ Retry(i)
    BY <1>8 DEF Rejected, Interrupted
  <2> QED
    BY <1>1, <2>1, RetryTyped, MovesOn
<1> QED
  BY <1>2, <1>3, <1>4, <1>5, <1>6, <1>7, <1>8 DEF Work

-----------------------------------------------------------------------------
LEMMA BeginInv == ASSUME IInv, NEW i \in Ids, Begin(i) PROVE IInv'
<1>1. /\ state' = [state EXCEPT ![i] = "starting"]
      /\ results' = [results EXCEPT ![i] = NoResults]
      /\ UNCHANGED <<sent, attempts, threads, data, client, closing, commits, troubles>>
      /\ state[i] = "queued"
  BY DEF Begin
<1>2. /\ state' \in [Ids -> States] /\ state'[i] = "starting"
      /\ \A k \in Ids : k # i => state'[k] = state[k] /\ results'[k] = results[k]
      /\ \A d \in Dbs : results'[i][d] = "none"
      /\ results' \in [Ids -> [Dbs -> {"none", "ok", "failed"}]]
  BY <1>1 DEF IInv, Typed, TypeOK, States, NoResults
<1>3. Typed'
  BY <1>1, <1>2 DEF IInv, Typed, TypeOK, Known
<1>4. Truthful'
  BY <1>1, <1>2 DEF IInv, Truthful, Outdated
<1>5. Rounds' /\ DistinctTimes' /\ StragglersDoNotBash'
  BY <1>1, <1>2 DEF IInv, Rounds, DistinctTimes, StragglersDoNotBash, In, Typed, TypeOK, Thread
<1>6. Complete'
  BY <1>1, <1>2 DEF IInv, Complete, Busy, Handled
<1> QED
  BY <1>3, <1>4, <1>5, <1>6 DEF IInv

\* A database that has not begun gets the only thread of its attempt.
LEMMA StartInv == ASSUME IInv, NEW i \in Ids, NEW d \in Dbs, Start(i, d) PROVE IInv'
<1> DEFINE t == [id |-> i, round |-> attempts[i], db |-> d, at |-> "executing",
                 failures |-> 0]
           last == \A e \in Dbs \ {d} : Begun(i, e)
<1>1. /\ state[i] = "starting" /\ i \in DOMAIN sent /\ ~Begun(i, d)
      /\ threads' = threads \cup {t}
      /\ state' = IF last THEN [state EXCEPT ![i] = "running"] ELSE state
      /\ UNCHANGED <<sent, attempts, results, data, client, closing, commits, troubles>>
  BY DEF Start, IInv, Typed, Known
<1>2. t \in Thread
  <2>1. attempts[i] \in 0..MaxRetries /\ 0 \in 0..QuickRetries
    BY DEF IInv, Typed, TypeOK
  <2> QED
    BY <2>1 DEF Thread
<1>3. t.id = i /\ t.round = attempts[i] /\ t.db = d /\ t.at = "executing"
  OBVIOUS
<1> HIDE DEF t, last
<1>4. /\ state' \in [Ids -> States] /\ state'[i] \in {"starting", "running"}
      /\ state'[i] = "running" => last
      /\ \A k \in Ids : k # i => state'[k] = state[k]
  BY <1>1 DEF IInv, Typed, TypeOK, States
<1>5. TypeOK'
  BY <1>1, <1>2, <1>4 DEF IInv, Typed, TypeOK
<1>6. Known'
  BY <1>1, <1>3, <1>4 DEF IInv, Typed, Known
<1>7. Truthful'
  BY <1>1, <1>3, <1>4 DEF IInv, Truthful, Outdated
<1>8. \A u \in threads : ~(u.id = i /\ u.db = d /\ u.round = attempts[i])
  BY <1>1 DEF Begun, Busy
<1>9. Rounds'
  <2>1. attempts[i] \in Int /\ \A u \in threads : u.id \in Ids
    BY DEF IInv, Typed, TypeOK, Thread
  <2> QED
    BY <1>1, <1>3, <1>4, <1>8, <2>1 DEF IInv, Rounds
<1>10. Complete'
  <2> SUFFICES ASSUME NEW k \in Ids, NEW e \in Dbs
               PROVE  /\ state'[k] \in Handled => (results'[k][e] = "none" <=> Busy(k, e)')
                      /\ state'[k] = "starting" /\ Busy(k, e)' => results'[k][e] = "none"
    BY DEF Complete
  <2>1. CASE k # i
    <3>1. Busy(k, e)' <=> Busy(k, e)
      BY <1>1, <1>3, <2>1 DEF Busy
    <3> QED
      BY <1>1, <1>4, <2>1, <3>1 DEF IInv, Complete
  <2>2. CASE k = i /\ e # d
    <3>1. Busy(k, e)' <=> Busy(k, e)
      BY <1>1, <1>3, <2>2 DEF Busy
    <3>2. Busy(i, e) => results[i][e] = "none"
      BY <1>1 DEF IInv, Complete
    <3>3. state'[i] = "running" => Busy(i, e) \/ results[i][e] # "none"
      BY <1>4, <2>2 DEF last, Begun
    <3> QED
      BY <1>1, <1>4, <2>2, <3>1, <3>2, <3>3 DEF Handled
  <2>3. CASE k = i /\ e = d
    <3>1. results'[i][d] = "none" /\ Busy(i, d)'
      BY <1>1, <1>3 DEF Begun, Busy
    <3> QED
      BY <2>3, <3>1
  <2> QED
    BY <2>1, <2>2, <2>3
<1>11. DistinctTimes' /\ StragglersDoNotBash'
  BY <1>1 DEF IInv, DistinctTimes, StragglersDoNotBash, In
<1> QED
  BY <1>5, <1>6, <1>7, <1>9, <1>10, <1>11 DEF IInv, Typed

-----------------------------------------------------------------------------
\* A thread that stays in the pool keeps what identifies it.
LEMMA TurnsInv ==
  ASSUME IInv, NEW t \in threads, NEW u \in Thread, Turns(t, u),
         u.id = t.id, u.round = t.round, u.db = t.db,
         u.at = "committed" => <<t.id, t.db>> \in commits',
         UNCHANGED <<sent, state, attempts, results, client, closing, troubles>>,
         commits \subseteq commits', commits' \subseteq commits \cup {<<t.id, t.db>>},
         data' \in [Dbs -> [Keys -> 0..MaxTime]],
         StragglersDoNotBash'
  PROVE  IInv'
<1>1. threads' = (threads \ {t}) \cup {u}
  BY DEF Turns
<1>2. t \in Thread /\ t.id \in Ids /\ t.db \in Dbs /\ t.id \in DOMAIN sent
  BY DEF IInv, Typed, TypeOK, Known, Thread
<1>3. commits' \subseteq Ids \X Dbs
  BY <1>2 DEF IInv, Typed, TypeOK
<1>4. TypeOK'
  BY <1>1, <1>3 DEF IInv, Typed, TypeOK
<1>5. Known'
  <2>1. \A i \in Ids, d \in Dbs : <<i, d>> \in commits' => i \in DOMAIN sent
    BY <1>2 DEF IInv, Typed, Known
  <2> QED
    BY <1>1, <1>2, <2>1 DEF IInv, Typed, Known
<1>6. Truthful'
  BY <1>1, <1>2 DEF IInv, Truthful, Outdated
<1>7. Rounds' /\ DistinctTimes'
  BY <1>1 DEF IInv, Rounds, DistinctTimes
<1>8. \A i \in Ids, d \in Dbs : Busy(i, d)' <=> Busy(i, d)
  BY <1>1 DEF Busy
<1>9. Complete'
  BY <1>8 DEF IInv, Complete
<1> QED
  BY <1>4, <1>5, <1>6, <1>7, <1>9 DEF IInv, Typed

LEMMA CommitInv == ASSUME IInv, NEW t \in threads, Commit(t) PROVE IInv'
<1> DEFINE k == sent[t.id].key
           n == sent[t.id].time
           u == [t EXCEPT !.at = "committed"]
<1>1. /\ t \in Thread /\ t.id \in Ids /\ t.db \in Dbs /\ t.id \in DOMAIN sent
      /\ k \in Keys /\ n \in 1..MaxTime
  <2>1. t \in Thread /\ t.id \in DOMAIN sent /\ sent \in Seq(Command)
    BY DEF IInv, Typed, TypeOK, Known
  <2>2. sent[t.id] \in Command
    BY <2>1
  <2> QED
    BY <2>1, <2>2 DEF Thread, Command
<1>2. /\ data' = IF data[t.db][k] < n THEN [data EXCEPT ![t.db][k] = n] ELSE data
      /\ commits' = commits \cup {<<t.id, t.db>>} /\ Turns(t, u)
      /\ UNCHANGED <<sent, state, attempts, results, client, closing, troubles>>
  BY DEF Commit
<1>3. u \in Thread /\ u.id = t.id /\ u.round = t.round /\ u.db = t.db
  BY <1>1 DEF Thread
<1> HIDE DEF u, k, n
<1>4. data \in [Dbs -> [Keys -> 0..MaxTime]]
  BY DEF IInv, Typed, TypeOK
<1>5. /\ data' \in [Dbs -> [Keys -> 0..MaxTime]]
      /\ \A d \in Dbs, j \in Keys : data'[d][j] >= data[d][j]
      /\ data'[t.db][k] >= n
  <2>1. CASE data[t.db][k] < n
    <3>1. data' = [data EXCEPT ![t.db] = [data[t.db] EXCEPT ![k] = n]]
      BY <1>2, <2>1
    <3> DEFINE row == [data[t.db] EXCEPT ![k] = n]
    <3>2. /\ row \in [Keys -> 0..MaxTime] /\ row[k] = n
          /\ \A j \in Keys : row[j] >= data[t.db][j]
      BY <1>1, <1>4, <2>1
    <3> HIDE DEF row
    <3>3. data' = [data EXCEPT ![t.db] = row]
      BY <3>1 DEF row
    <3> QED
      BY <1>1, <1>4, <3>2, <3>3
  <2>2. CASE ~(data[t.db][k] < n)
    BY <1>1, <1>2, <1>4, <2>2
  <2> QED
    BY <2>1, <2>2
<1>6. StragglersDoNotBash'
  <2> SUFFICES ASSUME NEW i \in Ids, NEW d \in Dbs, <<i, d>> \in commits'
               PROVE  data'[d][sent[i].key] >= sent[i].time
    BY <1>2 DEF StragglersDoNotBash, In
  <2>1. CASE <<i, d>> = <<t.id, t.db>>
    BY <1>5, <2>1 DEF k, n
  <2>2. CASE <<i, d>> \in commits
    <3>1. i \in DOMAIN sent /\ data[d][sent[i].key] >= sent[i].time
      BY <2>2 DEF IInv, Typed, Known, StragglersDoNotBash, In
    <3>2. sent[i] \in Command
      BY <3>1 DEF IInv, Typed, TypeOK
    <3>3. sent[i].key \in Keys /\ sent[i].time \in Int
      BY <3>2 DEF Command
    <3> QED
      BY <1>4, <1>5, <3>1, <3>3
  <2> QED
    BY <1>2, <2>1, <2>2
<1> QED
  BY <1>2, <1>3, <1>5, <1>6, TurnsInv

\* A thread that ends leaves a result, if its attempt is still the current one.
LEMMA ReportInv ==
  ASSUME IInv, NEW t \in threads, NEW what \in {"ok", "failed"}, Report(t, what),
         what = "ok" => t.at = "committed",
         UNCHANGED <<sent, state, attempts, data, client, closing, commits, troubles>>
  PROVE  IInv'
<1>1. /\ threads' = threads \ {t}
      /\ results' = IF t.round = attempts[t.id]
                    THEN [results EXCEPT ![t.id][t.db] = what] ELSE results
  BY DEF Report
<1>2. t \in Thread /\ t.id \in Ids /\ t.db \in Dbs
  BY DEF IInv, Typed, TypeOK, Thread
<1>3. results \in [Ids -> [Dbs -> {"none", "ok", "failed"}]]
  BY DEF IInv, Typed, TypeOK
<1>4. /\ results' \in [Ids -> [Dbs -> {"none", "ok", "failed"}]]
      /\ \A i \in Ids, d \in Dbs :
           results'[i][d] = IF i = t.id /\ d = t.db /\ t.round = attempts[t.id]
                            THEN what ELSE results[i][d]
  <2>1. CASE t.round = attempts[t.id]
    <3> DEFINE row == [results[t.id] EXCEPT ![t.db] = what]
    <3>1. /\ row \in [Dbs -> {"none", "ok", "failed"}] /\ row[t.db] = what
          /\ \A d \in Dbs : d # t.db => row[d] = results[t.id][d]
      BY <1>2, <1>3
    <3>2. results' = [results EXCEPT ![t.id] = row]
      BY <1>1, <2>1
    <3> HIDE DEF row
    <3> QED
      BY <1>2, <1>3, <2>1, <3>1, <3>2
  <2>2. CASE t.round # attempts[t.id]
    BY <1>1, <1>3, <2>2
  <2> QED
    BY <2>1, <2>2
<1>5. TypeOK'
  BY <1>1, <1>4 DEF IInv, Typed, TypeOK
<1>6. Known'
  BY <1>1 DEF IInv, Typed, Known
<1>7. Truthful'
  BY <1>1, <1>2, <1>4 DEF IInv, Truthful, Outdated
<1>8. Rounds' /\ DistinctTimes'
  BY <1>1 DEF IInv, Rounds, DistinctTimes
<1>9. Complete'
  <2> SUFFICES ASSUME NEW i \in Ids, NEW d \in Dbs
               PROVE  /\ state[i] \in Handled => (results'[i][d] = "none" <=> Busy(i, d)')
                      /\ state[i] = "starting" /\ Busy(i, d)' => results'[i][d] = "none"
    BY DEF Complete
  <2>1. /\ state[i] \in Handled => (results[i][d] = "none" <=> Busy(i, d))
        /\ state[i] = "starting" /\ Busy(i, d) => results[i][d] = "none"
    BY DEF IInv, Complete
  <2>2. CASE i = t.id /\ d = t.db /\ t.round = attempts[t.id]
    <3>1. results'[i][d] # "none"
      BY <1>4, <2>2
    <3>2. ~Busy(i, d)'
      BY <1>1, <2>2 DEF Busy, IInv, Rounds
    <3> QED
      BY <3>1, <3>2
  <2>3. CASE ~(i = t.id /\ d = t.db /\ t.round = attempts[t.id])
    <3>1. results'[i][d] = results[i][d]
      BY <1>4, <2>3
    <3>2. Busy(i, d)' <=> Busy(i, d)
      BY <1>1, <2>3 DEF Busy
    <3> QED
      BY <2>1, <3>1, <3>2
  <2> QED
    BY <2>2, <2>3
<1>10. StragglersDoNotBash'
  BY DEF IInv, StragglersDoNotBash, In
<1> QED
  BY <1>5, <1>6, <1>7, <1>8, <1>9, <1>10 DEF IInv, Typed

LEMMA RunInv == ASSUME IInv, NEW t \in threads, Run(t) PROVE IInv'
<1>1. CASE Succeed(t)
  BY <1>1, ReportInv DEF Succeed
<1>2. CASE TryFails(t)
  <2>1. UNCHANGED <<sent, state, attempts, data, client, closing, commits, troubles>>
    BY <1>2 DEF TryFails
  <2>2. CASE Report(t, "failed")
    BY <2>1, <2>2, ReportInv
  <2>3. CASE /\ t.failures < QuickRetries /\ UNCHANGED results
             /\ Turns(t, [t EXCEPT !.at = "executing", !.failures = @ + 1])
    <3> DEFINE u == [t EXCEPT !.at = "executing", !.failures = @ + 1]
    <3>1. t \in Thread
      BY DEF IInv, Typed, TypeOK
    <3>9. t.failures + 1 \in 0..QuickRetries
      BY <2>3, <3>1 DEF Thread
    <3>2. /\ u \in Thread /\ u.id = t.id /\ u.round = t.round /\ u.db = t.db
          /\ u.at = "executing"
      BY <3>1, <3>9 DEF Thread
    <3> HIDE DEF u
    <3>3. StragglersDoNotBash'
      BY <2>1 DEF IInv, StragglersDoNotBash, In
    <3>4. data' \in [Dbs -> [Keys -> 0..MaxTime]]
      BY <2>1 DEF IInv, Typed, TypeOK
    <3>5. Turns(t, u)
      BY <2>3 DEF u
    <3> QED
      BY <2>1, <2>3, <3>2, <3>3, <3>4, <3>5, TurnsInv
  <2> QED
    BY <1>2, <2>2, <2>3 DEF TryFails
<1> QED
  BY <1>1, <1>2, CommitInv DEF Run

LEMMA NextInv == ASSUME IInv, [Next]_vars PROVE IInv'
<1>1. CASE UNCHANGED vars
  <2>1. Typed'
    BY <1>1 DEF vars, IInv, Typed, TypeOK, Known
  <2>2. Truthful' /\ Rounds'
    BY <1>1 DEF vars, IInv, Truthful, Outdated, Rounds
  <2>3. Complete' /\ DistinctTimes' /\ StragglersDoNotBash'
    BY <1>1 DEF vars, IInv, Complete, Busy, DistinctTimes, StragglersDoNotBash, In
  <2> QED
    BY <2>1, <2>2, <2>3 DEF IInv
<1> QED
  BY <1>1, SubmitInv, BeginInv, StartInv, QuietInv, TimeOutInv, RunInv, CloseInv
     DEF Next

\* Without ties, the queue drops a command only for a newer one.
LEMMA OutdatedIsSuperseded ==
  ASSUME IInv, ~AllowTies, NEW i \in DOMAIN sent, Outdated(i)
  PROVE  Superseded(i)
<1>1. PICK j \in DOMAIN sent \ {i} :
        sent[j].key = sent[i].key /\ sent[j].time >= sent[i].time
  BY DEF Outdated
<1>2. sent[i].time # sent[j].time
  BY <1>1 DEF IInv, DistinctTimes
<1>3. sent[i] \in Command /\ sent[j] \in Command
  BY <1>1 DEF IInv, Typed, TypeOK
<1>4. sent[i].time \in Int /\ sent[j].time \in Int
  BY <1>3 DEF Command
<1>5. sent[j].time > sent[i].time
  BY <1>1, <1>2, <1>4
<1> QED
  BY <1>1, <1>5 DEF Superseded

LEMMA AlwaysInv == Spec => []IInv
BY InitInv, NextInv, PTL DEF Spec

-----------------------------------------------------------------------------
\* Every variable keeps its type; in particular attempts stay limited by
\* maximum-allowable-retries.
THEOREM TypeCorrect == Spec => []TypeOK
<1>1. IInv => TypeOK
  BY DEF IInv, Typed
<1> QED
  BY <1>1, AlwaysInv, PTL

\* However late other threads report, an older command never replaces newer
\* data on any database (broadcast threads outliving their attempt).
THEOREM NoneIsBashed == Spec => []StragglersDoNotBash
<1>1. IInv => StragglersDoNotBash
  BY DEF IInv
<1> QED
  BY <1>1, AlwaysInv, PTL

\* process-cmd acknowledges only what a database has committed.
THEOREM DoneMeansStored == Spec => []DoneIsStored
<1>1. IInv => DoneIsStored
  BY DEF IInv, Truthful, StragglersDoNotBash, DoneIsStored
<1> QED
  BY <1>1, AlwaysInv, PTL

\* broadcast-cmd leaves no database out.
THEOREM NoDbIsLeftOut == Spec => []EveryDbIsTried
<1> SUFFICES ASSUME IInv, NEW i \in Ids, NEW d \in Dbs, state[i] \in {"acking", "done"}
             PROVE  \/ <<i, d>> \in commits
                    \/ results[i][d] = "failed"
                    \/ \E t \in threads : t.id = i /\ t.db = d
  <2>1. IInv => EveryDbIsTried
    BY DEF EveryDbIsTried
  <2> QED
    BY <2>1, AlwaysInv, PTL
<1>1. results[i][d] \in {"none", "ok", "failed"}
  BY DEF IInv, Typed, TypeOK
<1>2. results[i][d] = "none" => Busy(i, d)
  BY DEF IInv, Complete, Handled
<1>3. results[i][d] = "ok" => <<i, d>> \in commits
  BY DEF IInv, Truthful
<1> QED
  BY <1>1, <1>2, <1>3 DEF Busy

\* A client told of success can rely on it (make-cmd-processed-message and the
\* callback of blocking-submit-command).
THEOREM AnswersAreTrue == Spec => []AnswerIsTrue
<1>1. ASSUME IInv, ~AllowTies, NEW i \in Ids, client[i] = "ok"
      PROVE  Superseded(i) \/ \E d \in Dbs : In(i, d)
  <2>1. i \in DOMAIN sent /\ (Outdated(i) \/ \E d \in Dbs : <<i, d>> \in commits)
    BY <1>1 DEF IInv, Typed, Known, Truthful
  <2> QED
    BY <1>1, <2>1, OutdatedIsSuperseded DEF IInv, StragglersDoNotBash
<1>2. IInv => AnswerIsTrue
  BY <1>1 DEF AnswerIsTrue
<1> QED
  BY <1>2, AlwaysInv, PTL

\* A worker in broadcast-cmd is never left without anybody to wake it.
THEOREM WorkersAreWoken == Spec => []SomeoneWillAnswer
<1>1. ASSUME IInv, NEW i \in Ids, state[i] = "running"
      PROVE  \/ \E d \in Dbs : results[i][d] = "ok"
             \/ \A d \in Dbs : results[i][d] = "failed"
             \/ \E d \in Dbs : Busy(i, d)
  <2>1. \A d \in Dbs : results[i][d] \in {"none", "ok", "failed"}
    BY <1>1 DEF IInv, Typed, TypeOK
  <2>2. \A d \in Dbs : results[i][d] = "none" => Busy(i, d)
    BY <1>1 DEF IInv, Complete, Handled
  <2> QED
    BY <2>1, <2>2
<1>2. IInv => SomeoneWillAnswer
  BY <1>1 DEF SomeoneWillAnswer
<1> QED
  BY <1>2, AlwaysInv, PTL

\* Until the pools are shut down, an attempt is given up only when all its
\* threads have ended, without a success among them (broadcast-cmd waits for
\* every result).
THEOREM GivenUpLast == Spec => GivesUpLast
<1>1. ASSUME IInv, [Next]_vars, NEW i \in Ids, NEW t \in threads, ~closing,
             state[i] \in {"starting", "running"}, state'[i] \in {"queued", "discarded"},
             t.id = i, t.round = attempts[i]
      PROVE  FALSE
  <2>1. t.db \in Dbs /\ Busy(i, t.db) /\ results[i][t.db] = "none"
    BY <1>1 DEF IInv, Typed, TypeOK, Thread, Complete, Handled, Busy
  <2>2. state \in [Ids -> States]
    BY <1>1 DEF IInv, Typed, TypeOK
  <2>3. ~GiveUp(i) /\ ~NotPrepared(i) /\ ~Drop(i) /\ ~Rejected(i) /\ ~Interrupted(i)
    BY <1>1, <2>1 DEF GiveUp, NotPrepared, Drop, Rejected, Interrupted, Begun
  <2>4. ASSUME NEW k \in Ids, k # i, Retry(k) PROVE FALSE
    BY <1>1, <2>2, <2>4 DEF Retry
  <2>5. ASSUME NEW k \in Ids, NEW d \in Dbs, Start(k, d) PROVE FALSE
    BY <1>1, <2>2, <2>5 DEF Start
  <2>6. ASSUME NEW k \in Ids, Begin(k) \/ Work(k) PROVE FALSE
    <3>1. CASE NotPrepared(k) \/ Drop(k)
      BY <1>1, <2>2, <2>3, <2>4, <3>1 DEF NotPrepared, Drop
    <3>2. CASE Rejected(k) \/ Interrupted(k)
      BY <1>1, <3>2 DEF Rejected, Interrupted
    <3>3. CASE Begin(k) \/ Answer(k) \/ Ack(k)
      BY <1>1, <2>2, <3>3 DEF Begin, Answer, Ack
    <3>4. CASE GiveUp(k) \/ AckFails(k)
      BY <1>1, <2>3, <2>4, <3>4 DEF GiveUp, AckFails
    <3> QED
      BY <2>6, <3>1, <3>2, <3>3, <3>4 DEF Work
  <2>7. ASSUME NEW c \in Command, Submit(c) PROVE FALSE
    <3>1. Len(sent') \notin DOMAIN sent /\ i \in DOMAIN sent
      BY <1>1, <2>7 DEF Submit, IInv, Typed, TypeOK, Known
    <3> QED
      BY <1>1, <2>2, <2>7, <3>1 DEF Submit
  <2>8. CASE UNCHANGED state
    BY <1>1, <2>8
  <2> QED
    BY <1>1, <2>5, <2>6, <2>7, <2>8
       DEF Next, TimeOut, Run, Commit, Succeed, TryFails, Close, vars
<1>2. IInv /\ [Next]_vars => [\A i \in Ids : Waits(i)]_vars
  BY <1>1 DEF Waits
<1> QED
  BY <1>2, AlwaysInv, PTL DEF Spec, GivesUpLast

-----------------------------------------------------------------------------
(***************************************************************************)
(* The refinement.  What the promise calls the data of a key is the newest *)
(* that any database has.  The databases may be infinitely many as far as  *)
(* the proof is concerned, so that there is a newest is an invariant too.  *)
(***************************************************************************)
TimesOf(k) == {data[d][k] : d \in Dbs}

HasNewest == \A k \in Keys : \E n \in TimesOf(k) : \A m \in TimesOf(k) : m <= n

LEMMA Greatest ==
  ASSUME NEW S \in SUBSET Int, NEW n \in S, \A m \in S : m <= n
  PROVE  (CHOOSE x \in S : \A m \in S : m <= x) = n
<1> DEFINE g == CHOOSE x \in S : \A m \in S : m <= x
<1>1. g \in S /\ \A m \in S : m <= g
  OBVIOUS
<1> HIDE DEF g
<1>2. g <= n /\ n <= g /\ g \in Int /\ n \in Int
  BY <1>1
<1>3. g = n
  BY <1>2
<1> QED
  BY <1>3 DEF g

LEMMA NewestIs ==
  ASSUME Typed, NEW k \in Keys, NEW n \in TimesOf(k), \A m \in TimesOf(k) : m <= n
  PROVE  Newest(k) = n
<1>1. TimesOf(k) \subseteq Int
  BY DEF Typed, TypeOK, TimesOf
<1> QED
  BY <1>1, Greatest DEF Newest, TimesOf

\* A transaction raises the newest data of its key, or leaves it as it was.
LEMMA CommitNewest ==
  ASSUME IInv, HasNewest, NEW t \in threads, Commit(t), NEW k \in Keys
  PROVE  LET c == sent[t.id]
             n == IF k = c.key /\ Newest(k) < c.time THEN c.time ELSE Newest(k)
         IN  /\ Newest(k)' = n
             /\ n \in TimesOf(k)' /\ \A m \in TimesOf(k)' : m <= n
<1> DEFINE c == sent[t.id]
           old == Newest(k)
           n == IF k = c.key /\ old < c.time THEN c.time ELSE old
<1>1. t.id \in DOMAIN sent /\ t.db \in Dbs
  BY DEF IInv, Typed, TypeOK, Known, Thread
<1>2. c.key \in Keys /\ c.time \in Int
  <2>1. c \in Command
    BY <1>1 DEF IInv, Typed, TypeOK
  <2> HIDE DEF c
  <2> QED
    BY <2>1 DEF Command
<1>3. /\ data \in [Dbs -> [Keys -> 0..MaxTime]]
      /\ data' = IF data[t.db][c.key] < c.time
                 THEN [data EXCEPT ![t.db][c.key] = c.time] ELSE data
  BY DEF Commit, IInv, Typed, TypeOK
<1>4. \A d \in Dbs : data[d][k] \in Int
  BY <1>3
<1>5. PICK o \in TimesOf(k) : \A m \in TimesOf(k) : m <= o
  BY DEF HasNewest
<1>6. old = o
  BY <1>5, NewestIs DEF IInv
<1>7. PICK e \in Dbs : data[e][k] = old
  BY <1>5, <1>6 DEF TimesOf
<1>8. old \in Int /\ \A d \in Dbs : data[d][k] <= old
  BY <1>4, <1>5, <1>6, <1>7 DEF TimesOf
<1>9. \A d \in Dbs : data'[d][k] =
        IF d = t.db /\ k = c.key /\ data[d][k] < c.time THEN c.time ELSE data[d][k]
  BY <1>1, <1>2, <1>3
<1> HIDE DEF c, old
<1>10. \A d \in Dbs : data'[d][k] <= n
  BY <1>2, <1>4, <1>8, <1>9
<1>11. \E d \in Dbs : data'[d][k] = n
  <2>1. CASE k = c.key /\ old < c.time
    BY <1>1, <1>2, <1>4, <1>8, <1>9, <2>1
  <2>2. CASE ~(k = c.key /\ old < c.time)
    BY <1>2, <1>4, <1>7, <1>8, <1>9, <2>2
  <2> QED
    BY <2>1, <2>2
<1>12. n \in TimesOf(k)' /\ \A m \in TimesOf(k)' : m <= n
  BY <1>10, <1>11 DEF TimesOf
<1>13. TimesOf(k)' \in SUBSET Int
  <2>1. \A d \in Dbs : data'[d][k] \in Int
    BY <1>2, <1>4, <1>9
  <2> QED
    BY <2>1 DEF TimesOf
<1> HIDE DEF n
<1>14. Newest(k)' = n
  BY <1>12, <1>13, Greatest DEF Newest, TimesOf
<1> QED
  BY <1>12, <1>14 DEF n, c, old

LEMMA NextHasNewest ==
  ASSUME IInv, HasNewest, [Next]_vars PROVE HasNewest'
<1>1. ASSUME NEW t \in threads, Commit(t) PROVE HasNewest'
  BY <1>1, CommitNewest DEF HasNewest
<1>2. CASE UNCHANGED data
  BY <1>2 DEF HasNewest, TimesOf
<1> QED
  BY <1>1, <1>2 DEF Next, Submit, Begin, Start, Rejected, Interrupted, NotPrepared,
     Drop, Work, Answer, GiveUp, Ack, AckFails, TimeOut, Run, Succeed, TryFails, Close, vars

LEMMA AlwaysNewest == Spec => [](IInv /\ HasNewest)
<1>1. Init => HasNewest
  <2> SUFFICES ASSUME Init, NEW k \in Keys
               PROVE  \E n \in TimesOf(k) : \A m \in TimesOf(k) : m <= n
    BY DEF HasNewest
  <2>1. \A d \in Dbs : data[d][k] = 0
    BY DEF Init
  <2>2. TimesOf(k) = {0}
    BY <2>1 DEF TimesOf
  <2> QED
    BY <2>2
<1>2. IInv /\ HasNewest /\ [Next]_vars => HasNewest'
  BY NextHasNewest
<1> QED
  BY <1>1, <1>2, AlwaysInv, PTL DEF Spec

\* What the promise knows of the state, when the data stays as it is.
Owed    == {i \in Ids : state[i] \in {"queued", "starting", "running", "acking"}}
Applied == {i \in Ids : \E d \in Dbs : <<i, d>> \in commits}
SetDown == {i \in Ids : state[i] = "discarded"}

LEMMA SameNewest ==
  ASSUME UNCHANGED data
  PROVE  [k \in Keys |-> Newest(k)]' = [k \in Keys |-> Newest(k)]
BY DEF Newest

LEMMA Stutters ==
  ASSUME UNCHANGED <<sent, data>>, UNCHANGED <<Owed, Applied, SetDown>>
  PROVE  UNCHANGED Promise!vars
BY SameNewest DEF Promise!vars, Owed, Applied, SetDown

LEMMA SubmitKeeps ==
  ASSUME IInv, NEW c \in Command, Submit(c)
  PROVE  Promise!Next
<1>1. /\ Len(sent') \in Ids /\ Len(sent') \notin DOMAIN sent
      /\ state \in [Ids -> States]
  BY DEF Submit, IInv, Typed, TypeOK, Ids
<1>2. state[Len(sent')] = "none"
  BY <1>1 DEF IInv, Typed, Known
<1>3. Owed' = Owed \cup {Len(sent')} /\ UNCHANGED <<Applied, SetDown>>
  BY <1>1, <1>2 DEF Submit, Owed, Applied, SetDown
<1>4. sent' = Append(sent, c) /\ UNCHANGED data
  BY DEF Submit
<1>5. Promise!Accept(c)
  BY <1>3, <1>4, SameNewest DEF Promise!Accept, Owed, Applied, SetDown
<1> QED
  BY <1>5 DEF Promise!Next

LEMMA CommitKeeps ==
  ASSUME IInv, HasNewest, NEW t \in threads, Commit(t)
  PROVE  Promise!Next
<1>1. t.id \in DOMAIN sent /\ t.id \in Ids /\ t.db \in Dbs
  BY DEF IInv, Typed, TypeOK, Known, Thread
<1>2. UNCHANGED <<Owed, SetDown>> /\ Applied' = Applied \cup {t.id}
  BY <1>1 DEF Commit, Owed, Applied, SetDown
<1>3. [k \in Keys |-> Newest(k)]' =
        IF sent[t.id].key \in Keys
           /\ [k \in Keys |-> Newest(k)][sent[t.id].key] < sent[t.id].time
        THEN [[k \in Keys |-> Newest(k)] EXCEPT ![sent[t.id].key] = sent[t.id].time]
        ELSE [k \in Keys |-> Newest(k)]
  <2> DEFINE c == sent[t.id]
             was(k) == Newest(k)
             is(k) == Newest(k)'
  <2>1. \A k \in Keys : is(k) = IF k = c.key /\ was(k) < c.time THEN c.time ELSE was(k)
    BY CommitNewest
  <2> HIDE DEF c, was, is
  <2>2. [k \in Keys |-> is(k)] =
          IF c.key \in Keys /\ [k \in Keys |-> was(k)][c.key] < c.time
          THEN [[k \in Keys |-> was(k)] EXCEPT ![c.key] = c.time]
          ELSE [k \in Keys |-> was(k)]
    BY <2>1
  <2> QED
    BY <2>2 DEF c, was, is
<1>4. UNCHANGED sent
  BY DEF Commit
<1>5. Promise!Apply(t.id)
  BY <1>1, <1>2, <1>3, <1>4 DEF Promise!Apply, Owed, Applied, SetDown
<1> QED
  BY <1>1, <1>5 DEF Promise!Next

\* A command leaves the promise for one of three reasons, or is still owed.
LEMMA LeavesKeep ==
  ASSUME NEW i \in Owed, UNCHANGED <<sent, commits, data>>,
         \A k \in Ids : k # i => state'[k] = state[k],
         \/ state'[i] \in {"queued", "starting", "running", "acking", "discarded"}
         \/ state'[i] = "done" /\ i \in Applied
         \/ state'[i] = "dropped" /\ Superseded(i)
  PROVE  Promise!Next \/ UNCHANGED Promise!vars
<1>1. i \in Ids /\ UNCHANGED Applied
  BY DEF Owed, Applied
<1>2. CASE state'[i] \in {"queued", "starting", "running", "acking"}
  <2>1. UNCHANGED <<Owed, SetDown>>
    BY <1>2 DEF Owed, SetDown
  <2> QED
    BY <1>1, <2>1, Stutters
<1>3. CASE state'[i] = "discarded"
  <2>1. Owed' = Owed \ {i} /\ SetDown' = SetDown \cup {i}
    BY <1>1, <1>3 DEF Owed, SetDown
  <2>2. Promise!SetAside(i)
    BY <1>1, <2>1, SameNewest
       DEF Promise!SetAside, Promise!Leave, Owed, Applied, SetDown
  <2> QED
    BY <2>2 DEF Promise!Next, Owed
<1>4. CASE state'[i] \in {"done", "dropped"}
  <2>1. Owed' = Owed \ {i} /\ UNCHANGED SetDown
    BY <1>1, <1>4 DEF Owed, SetDown
  <2>2. CASE i \in Applied
    <3>1. Promise!Settle(i)
      BY <1>1, <2>1, <2>2, SameNewest
         DEF Promise!Settle, Promise!Leave, Owed, Applied, SetDown
    <3> QED
      BY <3>1 DEF Promise!Next, Owed
  <2>3. CASE Superseded(i)
    <3>1. Promise!Supersede(i)
      BY <1>1, <2>1, <2>3, SameNewest
         DEF Promise!Supersede, Promise!Leave, Owed, Applied, SetDown, Superseded
    <3> QED
      BY <3>1 DEF Promise!Next, Owed
  <2> QED
    BY <1>4, <2>2, <2>3
<1> QED
  BY <1>2, <1>3, <1>4

LEMMA RetryKeeps ==
  ASSUME IInv, NEW i \in Owed, Retry(i), UNCHANGED <<sent, commits, data>>
  PROVE  Promise!Next \/ UNCHANGED Promise!vars
<1>1. i \in Ids /\ state[i] # "none"
  BY DEF Owed
<1>2. /\ \A k \in Ids : k # i => state'[k] = state[k]
      /\ state'[i] \in {"queued", "discarded"}
  BY <1>1, RetryTyped DEF IInv
<1> QED
  BY <1>2, LeavesKeep

LEMMA WorkerKeeps ==
  ASSUME IInv, ~AllowTies, NEW i \in Ids,
         Begin(i) \/ (\E d \in Dbs : Start(i, d)) \/ Work(i) \/ TimeOut(i)
  PROVE  Promise!Next \/ UNCHANGED Promise!vars
<1>1. state \in [Ids -> States]
  BY DEF IInv, Typed, TypeOK
<1>2. CASE TimeOut(i)
  <2>1. UNCHANGED <<sent, data>> /\ UNCHANGED <<Owed, Applied, SetDown>>
    BY <1>2 DEF TimeOut, Owed, Applied, SetDown
  <2> QED
    BY <2>1, Stutters
<1>3. CASE NotPrepared(i) \/ Rejected(i) \/ Interrupted(i) \/ GiveUp(i) \/ AckFails(i)
  <2>1. i \in Owed /\ UNCHANGED <<sent, commits, data>>
    BY <1>3 DEF NotPrepared, Rejected, Interrupted, GiveUp, AckFails, Owed
  <2>2. CASE Retry(i)
    BY <2>1, <2>2, RetryKeeps
  <2>3. CASE state' = [state EXCEPT ![i] = "discarded"]
    BY <1>1, <2>1, <2>3, LeavesKeep
  <2> QED
    BY <1>3, <2>2, <2>3 DEF NotPrepared, Rejected, Interrupted, GiveUp, AckFails
<1>4. CASE Drop(i)
  <2>1. i \in Owed /\ UNCHANGED <<sent, commits, data>> /\ Outdated(i)
    BY <1>4 DEF Drop, Owed
  <2>2. i \in DOMAIN sent
    BY <2>1 DEF Owed, IInv, Typed, Known
  <2>3. Superseded(i)
    BY <2>1, <2>2, OutdatedIsSuperseded
  <2>4. CASE Retry(i)
    BY <2>1, <2>4, RetryKeeps
  <2>5. CASE state' = [state EXCEPT ![i] = "dropped"]
    BY <1>1, <2>1, <2>3, <2>5, LeavesKeep
  <2> QED
    BY <1>4, <2>4, <2>5 DEF Drop
<1>5. CASE Begin(i) \/ Answer(i)
  <2>1. /\ i \in Owed /\ UNCHANGED <<sent, commits, data>>
        /\ state' = [state EXCEPT ![i] = "starting"] \/ state' = [state EXCEPT ![i] = "acking"]
    BY <1>5 DEF Begin, Answer, Owed
  <2> QED
    BY <1>1, <2>1, LeavesKeep
<1>6. ASSUME NEW d \in Dbs, Start(i, d) PROVE Promise!Next \/ UNCHANGED Promise!vars
  <2>1. /\ i \in Owed /\ UNCHANGED <<sent, commits, data>>
        /\ state' = [state EXCEPT ![i] = "running"] \/ UNCHANGED state
    BY <1>6 DEF Start, Owed
  <2>2. /\ \A k \in Ids : k # i => state'[k] = state[k]
        /\ state'[i] \in {"queued", "starting", "running", "acking"}
    BY <1>1, <2>1 DEF Owed
  <2> QED
    BY <2>1, <2>2, LeavesKeep
<1>7. CASE Ack(i)
  <2>1. /\ i \in Owed /\ UNCHANGED <<sent, commits, data>>
        /\ state' = [state EXCEPT ![i] = "done"]
    BY <1>7 DEF Ack, Owed
  <2>2. i \in Applied
    BY <1>7 DEF Ack, IInv, Truthful, Applied
  <2> QED
    BY <1>1, <2>1, <2>2, LeavesKeep
<1> QED
  BY <1>2, <1>3, <1>4, <1>5, <1>6, <1>7 DEF Work

\* A command path of many databases, whose threads outlive their attempts,
\* keeps the promise made to clients (broadcast-cmd and process-message),
\* provided they never repeat a timestamp for a key.
THEOREM PromiseIsKept ==
  ASSUME ~AllowTies
  PROVE  Spec => KeepsPromise
<1>1. Init => Promise!Init
  <2> SUFFICES ASSUME Init PROVE Promise!Init
    OBVIOUS
  <2>1. IInv
    BY InitInv
  <2>2. ASSUME NEW k \in Keys PROVE Newest(k) = 0
    <3>1. \A d \in Dbs : data[d][k] = 0
      BY DEF Init
    <3>2. TimesOf(k) = {0}
      BY <3>1 DEF TimesOf
    <3> QED
      BY <2>1, <3>2, NewestIs DEF IInv
  <2>3. Owed = {} /\ Applied = {} /\ SetDown = {} /\ sent = <<>>
    BY DEF Init, Owed, Applied, SetDown
  <2> QED
    BY <2>2, <2>3 DEF Promise!Init, Owed, Applied, SetDown
<1>2. IInv /\ HasNewest /\ [Next]_vars => [Promise!Next]_Promise!vars
  <2> SUFFICES ASSUME IInv, HasNewest, [Next]_vars
               PROVE  Promise!Next \/ UNCHANGED Promise!vars
    OBVIOUS
  <2>1. CASE (\E t \in threads : Succeed(t) \/ TryFails(t)) \/ Close \/ UNCHANGED vars
    <3>1. UNCHANGED <<sent, data>> /\ UNCHANGED <<Owed, Applied, SetDown>>
      BY <2>1 DEF Succeed, TryFails, Close, vars, Owed, Applied, SetDown
    <3> QED
      BY <3>1, Stutters
  <2> QED
    BY <2>1, SubmitKeeps, CommitKeeps, WorkerKeeps DEF Next, Run
<1> QED
  BY <1>1, <1>2, AlwaysNewest, PTL DEF Spec, KeepsPromise, Promise!Spec
=============================================================================
