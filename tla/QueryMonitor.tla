---------------------------- MODULE QueryMonitor ----------------------------
(***************************************************************************)
(* The query monitor (query/monitor.clj) and the query threads that use it *)
(* (http/query.clj, query_eng.clj).  One thread, in a select loop, watches *)
(* every running query: when the deadline of a query passes, or its client *)
(* disconnects, it asks PostgreSQL to terminate the backend that serves    *)
(* the query.  Backends belong to pooled connections, so the one it means  *)
(* may soon serve another query; forget and the :terminated promise are    *)
(* there to prevent that.                                                  *)
(*                                                                         *)
(* Time is counted in ticks up to MaxTime; a deadline after that is one    *)
(* that never passes (##Inf).  Not represented: logging, and unexpected    *)
(* bytes from a client, which the monitor reads and drops.                 *)
(***************************************************************************)
EXTENDS Integers, FiniteSets

CONSTANTS
  Queries,      \* requests; each also names the SelectionKey made for it
  Channels,     \* client sockets, used by one request after another
  Pids,         \* PostgreSQL backends behind the connection pool
  NoKey, NoPid, NoChannel, \* nil
  MaxTime,      \* bound: the clock stops there
  LongestSleep, \* the largest select timeout that fits an int
  MaxGone,      \* bound: clients that disconnect
  MaxTimeouts,  \* bound: calls of forget that give up after two seconds
  MayFail,      \* may a termination throw (no connection to be had, say)?
  MayStop       \* may the service be stopped?

ASSUME MonitorAssumption ==
  /\ NoKey \notin Queries
  /\ NoPid \notin Pids
  /\ NoChannel \notin Channels
  /\ MaxTime \in Nat
  /\ LongestSleep \in Nat
  /\ MaxGone \in Nat
  /\ MaxTimeouts \in Nat
  /\ MayFail \in BOOLEAN
  /\ MayStop \in BOOLEAN

Forever   == MaxTime + 1
Deadlines == 0..Forever

VARIABLES
  now,          \* the clock
  at,           \* what the thread of each request is doing
  chan,         \* the channel of each request
  deadline,     \* its deadline
  skey,         \* the selection key its registration returned
  pid,          \* the backend of the connection it holds
  waits,        \* did forget find a :terminated promise?
  gone,         \* channels whose client has disconnected
  killed,       \* backends terminated
  selectorKeys, \* the keys of :selector-keys
  deadlines,    \* the keys of :deadlines, pairs of a deadline and a key
  pgPid,        \* the :pg-pid atom of each key's info
  terminated,   \* the :terminated promise of each key's info
  chanKey,      \* the key under which the selector has each channel
  cancelled,    \* cancelled keys the selector has not removed yet
  watched,      \* the keys the current select watches
  wakeup,       \* Selector.wakeup called since the last select returned?
  mon,          \* what the monitor thread is doing
  clock,        \* the time it read at the top of the loop
  wakeAt,       \* when the current select times out
  doomed,       \* disconnected keys found by the last select
  todo,         \* those of them still to be dealt with
  victim, why, target, \* the termination in progress
  failing,      \* is an exception on its way out of the loop?
  stop,         \* how far a call of stop has come
  attempted,    \* history: keys whose backend was to be terminated
  timedOut      \* history: keys whose forget timed out

clientVars  == <<chan, deadline, skey>>
queryVars   == <<selectorKeys, deadlines, pgPid, terminated>>
selectVars  == <<chanKey, cancelled, watched, wakeup>>
monitorVars == <<mon, clock, wakeAt, doomed, todo, victim, why, target, failing>>
vars == <<now, at, clientVars, pid, waits, gone, killed, queryVars, selectVars,
          monitorVars, stop, attempted, timedOut>>

RequestStates ==
  {"idle", "arrived", "keyed", "enrolled", "connect", "connected", "running",
   "ending", "forgetting", "unkeyed", "awaiting", "releasing", "done"}

MonitorStates ==
  {"top", "enforce", "select", "asleep", "scan", "kill", "send", "deliver",
   "drop", "closing", "closed", "dead"}

RequestTypeOK ==
  /\ now \in 0..MaxTime
  /\ at \in [Queries -> RequestStates]
  /\ chan \in [Queries -> Channels \cup {NoChannel}]
  /\ deadline \in [Queries -> Deadlines]
  /\ skey \in [Queries -> Queries \cup {NoKey}]
  /\ pid \in [Queries -> Pids \cup {NoPid}]
  /\ waits \in [Queries -> BOOLEAN]
  /\ gone \subseteq Channels
  /\ killed \subseteq Pids
  /\ timedOut \subseteq Queries
  /\ attempted \subseteq Queries
  /\ stop \in {"no", "asked", "woken"}

QueriesTypeOK ==
  /\ selectorKeys \subseteq Queries
  /\ deadlines \subseteq Deadlines \X Queries
  /\ pgPid \in [Queries -> Pids \cup {NoPid}]
  /\ terminated \in [Queries -> {"none", "pending", "delivered"}]

SelectTypeOK ==
  /\ chanKey \in [Channels -> Queries \cup {NoKey}]
  /\ cancelled \subseteq Queries
  /\ watched \subseteq Queries
  /\ wakeup \in BOOLEAN

MonitorTypeOK ==
  /\ mon \in MonitorStates
  /\ clock \in 0..MaxTime
  /\ wakeAt \in Deadlines
  /\ doomed \subseteq Queries
  /\ todo \subseteq doomed
  /\ victim \in Queries \cup {NoKey}
  /\ why \in {"none", "expired", "abandoned"}
  /\ target \in Pids \cup {NoPid}
  /\ failing \in BOOLEAN

TypeOK == RequestTypeOK /\ QueriesTypeOK /\ SelectTypeOK /\ MonitorTypeOK

Init ==
  /\ now = 0
  /\ at = [q \in Queries |-> "idle"]
  /\ chan = [q \in Queries |-> NoChannel]
  /\ deadline = [q \in Queries |-> 0]
  /\ skey = [q \in Queries |-> NoKey]
  /\ pid = [q \in Queries |-> NoPid]
  /\ waits = [q \in Queries |-> FALSE]
  /\ gone = {} /\ killed = {}
  /\ selectorKeys = {} /\ deadlines = {}
  /\ pgPid = [k \in Queries |-> NoPid]
  /\ terminated = [k \in Queries |-> "none"]
  /\ chanKey = [c \in Channels |-> NoKey]
  /\ cancelled = {} /\ watched = {} /\ wakeup = FALSE
  /\ mon = "top" /\ clock = 0 /\ wakeAt = 0
  /\ doomed = {} /\ todo = {}
  /\ victim = NoKey /\ why = "none" /\ target = NoPid /\ failing = FALSE
  /\ stop = "no"
  /\ attempted = {} /\ timedOut = {}

-----------------------------------------------------------------------------
Alive == mon # "dead"          \* (.isAlive thread)
Closed == mon \in {"closed", "dead"}

Goes(q, state) == at' = [at EXCEPT ![q] = state]

EndRequest(q) ==
  /\ Goes(q, "done")
  /\ chan' = [chan EXCEPT ![q] = NoChannel]
  /\ deadline' = [deadline EXCEPT ![q] = 0]
  /\ skey' = [skey EXCEPT ![q] = NoKey]

\* Faulty variant: only the deadline is dropped.
DropDeadline(keys) ==
  /\ deadlines' = {e \in deadlines : e[2] \notin keys}
  /\ UNCHANGED selectorKeys

\* Both maps lose the key: drop-query.
DropQuery(keys) ==
  /\ selectorKeys' = selectorKeys \ keys
  /\ deadlines' = {e \in deadlines : e[2] \notin keys}

\* A request comes in on a channel whose last request has been answered.
\* Without a monitor thread it is not monitored.
Arrive(q) ==
  /\ at[q] = "idle"
  /\ \E c \in Channels \ gone, d \in now + 1..Forever :
       /\ \A r \in Queries : chan[r] # c
       /\ chan' = [chan EXCEPT ![q] = c]
       /\ deadline' = [deadline EXCEPT ![q] = d]
  /\ Goes(q, IF Alive THEN "arrived" ELSE "connect")
  /\ UNCHANGED <<now, skey, pid, waits, gone, killed, queryVars, selectVars,
                 monitorVars, stop, attempted, timedOut>>

\* register-selector: a channel registered already keeps its key; while that
\* key is cancelled but not removed, registration is tried again.
RegisterKey(q) ==
  /\ at[q] = "arrived"
  /\ ~Closed
  /\ chanKey[chan[q]] \notin cancelled
  /\ IF chanKey[chan[q]] = NoKey
     THEN /\ chanKey' = [chanKey EXCEPT ![chan[q]] = q]
          /\ skey' = [skey EXCEPT ![q] = q]
     ELSE /\ skey' = [skey EXCEPT ![q] = chanKey[chan[q]]]
          /\ UNCHANGED chanKey
  /\ Goes(q, "keyed")
  /\ UNCHANGED <<now, chan, deadline, pid, waits, gone, killed, queryVars,
                 cancelled, watched, wakeup, monitorVars, stop, attempted, timedOut>>

\* The selector has been closed meanwhile: the request fails.
RegisterFails(q) ==
  /\ at[q] = "arrived"
  /\ Closed
  /\ EndRequest(q)
  /\ UNCHANGED <<now, pid, waits, gone, killed, queryVars, selectVars,
                 monitorVars, stop, attempted, timedOut>>

\* The swap! of stop-query-at-deadline-or-disconnect, which throws if the
\* key is taken ...
Enrol(q) ==
  /\ at[q] = "keyed"
  /\ IF skey[q] \in selectorKeys
     THEN EndRequest(q) /\ UNCHANGED queryVars
     ELSE /\ selectorKeys' = selectorKeys \cup {skey[q]}
          /\ deadlines' = deadlines \cup {<<deadline[q], skey[q]>>}
          /\ pgPid' = [pgPid EXCEPT ![skey[q]] = NoPid]
          /\ terminated' = [terminated EXCEPT ![skey[q]] = "none"]
          /\ Goes(q, "enrolled") /\ UNCHANGED clientVars
  /\ UNCHANGED <<now, pid, waits, gone, killed, selectVars,
                 monitorVars, stop, attempted, timedOut>>

\* Faulty variant: the selector is not woken.
ProceedAsleep(q) ==
  /\ at[q] = "enrolled"
  /\ Goes(q, "connect")
  /\ UNCHANGED <<now, clientVars, pid, waits, gone, killed, queryVars, selectVars,
                 monitorVars, stop, attempted, timedOut>>

\* ... and its call of .wakeup.
WakeForQuery(q) ==
  /\ at[q] = "enrolled"
  /\ wakeup' = TRUE
  /\ Goes(q, "connect")
  /\ UNCHANGED <<now, clientVars, pid, waits, gone, killed, queryVars, chanKey,
                 cancelled, watched, monitorVars, stop, attempted, timedOut>>

Held == {pid[q] : q \in Queries}

\* with-db-connection takes a connection from the pool ...
Connect(q) ==
  /\ at[q] = "connect"
  /\ \E p \in Pids \ (killed \cup Held) : pid' = [pid EXCEPT ![q] = p]
  /\ Goes(q, "connected")
  /\ UNCHANGED <<now, clientVars, waits, gone, killed, queryVars, selectVars,
                 monitorVars, stop, attempted, timedOut>>

\* ... or fails, or the request needs none.
NoConnection(q) ==
  /\ at[q] = "connect"
  /\ Goes(q, "ending")
  /\ UNCHANGED <<now, clientVars, pid, waits, gone, killed, queryVars, selectVars,
                 monitorVars, stop, attempted, timedOut>>

\* register-pg-pid, which does nothing once the monitor has dropped the query.
RegisterPid(q) ==
  /\ at[q] = "connected"
  /\ pgPid' = IF Alive /\ skey[q] \in selectorKeys
              THEN [pgPid EXCEPT ![skey[q]] = pid[q]] ELSE pgPid
  /\ Goes(q, "running")
  /\ UNCHANGED <<now, clientVars, pid, waits, gone, killed, selectorKeys, deadlines,
                 terminated, selectVars, monitorVars, stop, attempted, timedOut>>

\* The query ends: it is done, or fails, or has been terminated.
Finish(q) ==
  /\ at[q] = "running"
  /\ Goes(q, "ending")
  /\ UNCHANGED <<now, clientVars, pid, waits, gone, killed, queryVars, selectVars,
                 monitorVars, stop, attempted, timedOut>>

\* forget: the swap!, which fetches the promise and drops the query ...
Forget(q) ==
  /\ at[q] = "ending"
  /\ IF Alive /\ skey[q] # NoKey
     THEN /\ waits' = [waits EXCEPT ![q] = /\ skey[q] \in selectorKeys
                                           /\ terminated[skey[q]] # "none"]
          /\ DropQuery({skey[q]})
          /\ Goes(q, "forgetting")
     ELSE /\ Goes(q, "releasing")
          /\ UNCHANGED <<waits, selectorKeys, deadlines>>
  /\ UNCHANGED <<now, clientVars, pid, gone, killed, pgPid, terminated, selectVars,
                 monitorVars, stop, attempted, timedOut>>

\* Faulty variant: the key is left registered.
KeepKey(q) ==
  /\ at[q] = "forgetting"
  /\ Goes(q, "unkeyed")
  /\ UNCHANGED <<now, clientVars, pid, waits, gone, killed, queryVars, selectVars,
                 monitorVars, stop, attempted, timedOut>>

\* ... the cancellation of the key ...
CancelKey(q) ==
  /\ at[q] = "forgetting"
  /\ cancelled' = cancelled \cup {skey[q]}
  /\ Goes(q, "unkeyed")
  /\ UNCHANGED <<now, clientVars, pid, waits, gone, killed, queryVars, chanKey, watched,
                 wakeup, monitorVars, stop, attempted, timedOut>>

\* ... the wakeup for its removal ...
WakeToRemove(q) ==
  /\ at[q] = "unkeyed"
  /\ wakeup' = TRUE
  /\ Goes(q, IF waits[q] THEN "awaiting" ELSE "releasing")
  /\ UNCHANGED <<now, clientVars, pid, waits, gone, killed, queryVars, chanKey,
                 cancelled, watched, monitorVars, stop, attempted, timedOut>>

\* ... and the wait for the promise, of two seconds at most.
Awaited(q) ==
  /\ at[q] = "awaiting"
  /\ terminated[skey[q]] = "delivered"
  /\ Goes(q, "releasing")
  /\ UNCHANGED <<now, clientVars, pid, waits, gone, killed, queryVars, selectVars,
                 monitorVars, stop, attempted, timedOut>>

ForgetTimesOut(q) ==
  /\ at[q] = "awaiting"
  /\ terminated[skey[q]] # "delivered"
  /\ Cardinality(timedOut) < MaxTimeouts
  /\ timedOut' = timedOut \cup {skey[q]}
  /\ Goes(q, "releasing")
  /\ UNCHANGED <<now, clientVars, pid, waits, gone, killed, queryVars, selectVars,
                 monitorVars, stop, attempted>>

\* The connection goes back to the pool, and the request is over.
Release(q) ==
  /\ at[q] = "releasing"
  /\ pid' = [pid EXCEPT ![q] = NoPid]
  /\ EndRequest(q)
  /\ UNCHANGED <<now, waits, gone, killed, queryVars, selectVars, monitorVars, stop,
                 attempted, timedOut>>

Request(q) ==
  \/ Arrive(q) \/ RegisterKey(q) \/ RegisterFails(q) \/ Enrol(q) \/ WakeForQuery(q)
  \/ Connect(q) \/ NoConnection(q) \/ RegisterPid(q) \/ Finish(q)
  \/ Forget(q) \/ CancelKey(q) \/ WakeToRemove(q) \/ Awaited(q) \/ ForgetTimesOut(q)
  \/ Release(q)

-----------------------------------------------------------------------------
requestVars == <<at, clientVars, pid, waits, timedOut>>

Gone(k) == \E c \in gone : chanKey[c] = k

\* The top of the loop in monitor-queries.
Loop ==
  /\ mon = "top"
  /\ IF stop # "no" THEN mon' = "closing" /\ UNCHANGED clock
                    ELSE mon' = "enforce" /\ clock' = now
  /\ UNCHANGED <<now, requestVars, gone, killed, queryVars, selectVars, wakeAt,
                 doomed, todo, victim, why, target, failing, stop, attempted>>

Earliest(e) == e \in deadlines /\ \A f \in deadlines : e[1] <= f[1]

\* Faulty variant: the query gets no promise.
ExpireUnannounced ==
  /\ mon = "enforce"
  /\ \E e \in deadlines : Earliest(e) /\ e[1] <= clock /\ victim' = e[2]
  /\ why' = "expired"
  /\ mon' = "kill"
  /\ UNCHANGED <<now, requestVars, gone, killed, queryVars, selectVars, clock,
                 wakeAt, doomed, todo, target, failing, stop, attempted>>

\* next-expired-query!: the earliest deadline has passed.  The query gets a
\* promise, by compare-and-set!, and then its backend is terminated.
NextExpired ==
  /\ mon = "enforce"
  /\ \E e \in deadlines :
       /\ Earliest(e)
       /\ e[1] <= clock
       /\ selectorKeys' = selectorKeys \cup {e[2]}
       /\ terminated' = [terminated EXCEPT ![e[2]] = "pending"]
       /\ victim' = e[2]
  /\ why' = "expired"
  /\ mon' = "kill"
  /\ UNCHANGED <<now, requestVars, gone, killed, deadlines, pgPid, selectVars, clock,
                 wakeAt, doomed, todo, target, failing, stop, attempted>>

\* Faulty variant: the select waits for the last deadline.
SleepForLast ==
  /\ mon = "enforce"
  /\ \A e \in deadlines : e[1] > clock
  /\ \/ deadlines = {} /\ wakeAt' = Forever
     \/ \E e \in deadlines : wakeAt' = e[1] /\ \A f \in deadlines : f[1] <= e[1]
  /\ mon' = "select"
  /\ clock' = 0
  /\ UNCHANGED <<now, requestVars, gone, killed, queryVars, selectVars,
                 doomed, todo, victim, why, target, failing, stop, attempted>>

\* It has not, or there is none: deadline->select-timeout, by the clock as it
\* is by now.  A timeout too long for an int throws.
NoneExpired ==
  /\ mon = "enforce"
  /\ \A e \in deadlines : e[1] > clock
  /\ \/ deadlines = {} /\ wakeAt' = Forever
     \/ \E e \in deadlines : Earliest(e) /\ wakeAt' = e[1]
  /\ IF wakeAt' # Forever /\ wakeAt' - now > LongestSleep
     THEN mon' = "closing" /\ failing' = TRUE
     ELSE mon' = "select" /\ UNCHANGED failing
  /\ clock' = 0
  /\ UNCHANGED <<now, requestVars, gone, killed, queryVars, selectVars,
                 doomed, todo, victim, why, target, stop, attempted>>

\* A select begins and ends with the removal of cancelled keys.
RemoveCancelled ==
  /\ chanKey' = [c \in Channels |->
                   IF chanKey[c] \in cancelled THEN NoKey ELSE chanKey[c]]
  /\ cancelled' = {}

Select ==
  /\ mon = "select"
  /\ RemoveCancelled
  /\ watched' = {chanKey'[c] : c \in Channels} \ {NoKey}
  /\ mon' = "asleep"
  /\ UNCHANGED <<now, requestVars, gone, killed, queryVars, wakeup, clock, wakeAt,
                 doomed, todo, victim, why, target, failing, stop, attempted>>

Ready == {k \in watched \ cancelled : Gone(k)}

SelectReturns ==
  /\ mon = "asleep"
  /\ wakeup \/ wakeAt <= now \/ Ready # {}
  /\ RemoveCancelled
  /\ watched' = {}
  /\ wakeup' = FALSE
  /\ wakeAt' = 0

\* It returns, and disconnected? reads from every channel selected: each read
\* ends at once, with -1 where the client is gone ...
Wake ==
  /\ SelectReturns
  /\ doomed' = Ready
  /\ todo' = Ready
  /\ mon' = "scan"
  /\ UNCHANGED <<now, requestVars, gone, killed, queryVars, clock, victim,
                 why, target, failing, stop, attempted>>

\* ... or one of them throws, the connection having been reset or the channel
\* closed (:closed is no long): the exception leaves the loop before any of the
\* disconnected queries has been dealt with.
WakeFails ==
  /\ SelectReturns
  /\ Ready # {}
  /\ failing' = TRUE
  /\ mon' = "closing"
  /\ UNCHANGED <<now, requestVars, gone, killed, queryVars, clock, doomed, todo,
                 victim, why, target, stop, attempted>>

\* stop-abandoned!: the next disconnected key is cancelled, and if its query
\* is still known, its backend is terminated.
NextAbandoned ==
  /\ mon = "scan"
  /\ \E k \in todo :
       /\ todo' = todo \ {k}
       /\ cancelled' = cancelled \cup {k}
       /\ IF k \in selectorKeys
          THEN victim' = k /\ why' = "abandoned" /\ mon' = "kill"
          ELSE UNCHANGED <<victim, why, mon>>
  /\ UNCHANGED <<now, requestVars, gone, killed, queryVars, chanKey, watched, wakeup,
                 clock, wakeAt, doomed, target, failing, stop, attempted>>

\* Faulty variant: the disconnected queries are dropped while some are left.
DropTooSoon ==
  /\ mon = "scan"
  /\ DropQuery(doomed)
  /\ doomed' = {} /\ todo' = {}
  /\ mon' = "top"
  /\ UNCHANGED <<now, requestVars, gone, killed, pgPid, terminated, selectVars, clock,
                 wakeAt, victim, why, target, failing, stop, attempted>>

\* No key is left: all of them are dropped, and the loop starts again.
DropAbandoned ==
  /\ mon = "scan"
  /\ todo = {}
  /\ DropQuery(doomed)
  /\ doomed' = {}
  /\ mon' = "top"
  /\ UNCHANGED <<now, requestVars, gone, killed, pgPid, terminated, selectVars, clock,
                 wakeAt, todo, victim, why, target, failing, stop, attempted>>

\* Faulty variant: a query that has no backend is not passed over.
ReadPidUnchecked ==
  /\ mon = "kill"
  /\ target' = pgPid[victim]
  /\ mon' = "send"
  /\ UNCHANGED <<now, requestVars, gone, killed, queryVars, selectVars, clock, wakeAt,
                 doomed, todo, victim, why, failing, stop, attempted>>

\* terminate-query: it reads the pid, if there is one yet ...
ReadPid ==
  /\ mon = "kill"
  /\ target' = pgPid[victim]
  /\ mon' = IF pgPid[victim] = NoPid THEN "deliver" ELSE "send"
  /\ UNCHANGED <<now, requestVars, gone, killed, queryVars, selectVars, clock, wakeAt,
                 doomed, todo, victim, why, failing, stop, attempted>>

\* ... calls pg_terminate_backend, which may be to no avail, or throws for
\* want of a connection ...
Terminate ==
  /\ mon = "send"
  /\ attempted' = attempted \cup {victim}
  /\ \/ killed' = killed \cup {target} /\ UNCHANGED failing
     \/ UNCHANGED <<killed, failing>>
     \/ MayFail /\ failing' = TRUE /\ UNCHANGED killed
  /\ mon' = "deliver"
  /\ UNCHANGED <<now, requestVars, gone, queryVars, selectVars, clock, wakeAt, doomed,
                 todo, victim, why, target, stop>>

\* Faulty variant: no promise is delivered after an exception.
DeliverUnlessFailing ==
  /\ mon = "deliver"
  /\ IF why = "expired"
     THEN /\ terminated' = IF failing THEN terminated
                           ELSE [terminated EXCEPT ![victim] = "delivered"]
          /\ mon' = "drop"
          /\ UNCHANGED <<victim, why>>
     ELSE /\ mon' = IF failing THEN "closing" ELSE "scan"
          /\ victim' = NoKey /\ why' = "none"
          /\ UNCHANGED terminated
  /\ target' = NoPid
  /\ UNCHANGED <<now, requestVars, gone, killed, selectorKeys, deadlines, pgPid,
                 selectVars, clock, wakeAt, doomed, todo, failing, stop, attempted>>

\* ... and in any case delivers the promise, which only an expired query has.
\* An exception then leaves the loop.
Deliver ==
  /\ mon = "deliver"
  /\ IF why = "expired"
     THEN /\ terminated' = [terminated EXCEPT ![victim] = "delivered"]
          /\ mon' = "drop"
          /\ UNCHANGED <<victim, why>>
     ELSE /\ mon' = IF failing THEN "closing" ELSE "scan"
          /\ victim' = NoKey /\ why' = "none"
          /\ UNCHANGED terminated
  /\ target' = NoPid
  /\ UNCHANGED <<now, requestVars, gone, killed, selectorKeys, deadlines, pgPid,
                 selectVars, clock, wakeAt, doomed, todo, failing, stop, attempted>>

\* enforce-deadlines!: the expired query is dropped and its key cancelled.
DropExpired ==
  /\ mon = "drop"
  /\ DropQuery({victim})
  /\ cancelled' = cancelled \cup {victim}
  /\ victim' = NoKey /\ why' = "none"
  /\ mon' = IF failing THEN "closing" ELSE "enforce"
  /\ UNCHANGED <<now, requestVars, gone, killed, pgPid, terminated, chanKey, watched,
                 wakeup, clock, wakeAt, doomed, todo, target, failing, stop, attempted>>

\* The way out of the loop: no promise is left open, the selector is closed.
Close ==
  /\ mon = "closing"
  /\ terminated' = [k \in Queries |->
                      IF k \in selectorKeys /\ terminated[k] = "pending"
                      THEN "delivered" ELSE terminated[k]]
  /\ chanKey' = [c \in Channels |-> NoKey]
  /\ cancelled' = {}
  /\ mon' = "closed"
  /\ UNCHANGED <<now, requestVars, gone, killed, selectorKeys, deadlines, pgPid, watched,
                 wakeup, clock, wakeAt, doomed, todo, victim, why, target, failing, stop,
                 attempted>>

Die ==
  /\ mon = "closed"
  /\ mon' = "dead"
  /\ UNCHANGED <<now, requestVars, gone, killed, queryVars, selectVars, clock, wakeAt,
                 doomed, todo, victim, why, target, failing, stop, attempted>>

Monitor ==
  \/ Loop \/ NextExpired \/ NoneExpired \/ Select \/ Wake \/ WakeFails
  \/ NextAbandoned \/ DropAbandoned \/ ReadPid \/ Terminate \/ Deliver \/ DropExpired \/ Close \/ Die

-----------------------------------------------------------------------------
\* stop: the flag, then the wakeup.
AskToStop ==
  /\ MayStop
  /\ stop = "no"
  /\ stop' = "asked"
  /\ UNCHANGED <<now, requestVars, gone, killed, queryVars, selectVars, monitorVars,
                 attempted>>

WakeToStop ==
  /\ stop = "asked"
  /\ stop' = "woken"
  /\ wakeup' = TRUE
  /\ UNCHANGED <<now, requestVars, gone, killed, queryVars, chanKey, cancelled, watched,
                 monitorVars, attempted>>

Disconnect(c) ==
  /\ Cardinality(gone) < MaxGone
  /\ \E q \in Queries : chan[q] = c
  /\ gone' = gone \cup {c}
  /\ UNCHANGED <<now, requestVars, killed, queryVars, selectVars, monitorVars, stop,
                 attempted>>

Tick ==
  /\ now < MaxTime
  /\ now' = now + 1
  /\ UNCHANGED <<requestVars, gone, killed, queryVars, selectVars, monitorVars, stop,
                 attempted>>

Next ==
  \/ \E q \in Queries : Request(q)
  \/ Monitor
  \/ AskToStop \/ WakeToStop
  \/ \E c \in Channels \ gone : Disconnect(c)
  \/ Tick

Spec == Init /\ [][Next]_vars

(***************************************************************************)
(* Threads that can run do run.  Nothing is assumed of clients, of how     *)
(* long a query takes, of the pool, or of the clock; and no call of forget *)
(* need give up waiting.                                                   *)
(***************************************************************************)
Fairness ==
  /\ WF_vars(Monitor)
  /\ WF_vars(WakeToStop)
  /\ \A q \in Queries :
       /\ WF_vars(RegisterKey(q) \/ RegisterFails(q))
       /\ WF_vars(Enrol(q) \/ WakeForQuery(q) \/ RegisterPid(q))
       /\ WF_vars(Forget(q) \/ CancelKey(q) \/ WakeToRemove(q) \/ Awaited(q) \/ Release(q))

FairSpec == Spec /\ Fairness

-----------------------------------------------------------------------------
(***************************************************************************)
(* The termination of an expired query hits the backend that serves that   *)
(* query and no other, not one that has gone on to another: forget keeps   *)
(* the connection until the monitor is done, unless it gives up waiting.   *)
(***************************************************************************)
OwnBackend ==
  \/ victim \in timedOut
  \/ \E q \in Queries : skey[q] = victim /\ {r \in Queries : pid[r] = target} = {q}

ExpiredHitsItsOwn == mon = "send" /\ why = "expired" => OwnBackend

(***************************************************************************)
(* monitor.clj:56-62 says that forget does not return until "any competing *)
(* termination attempt has finished": otherwise it "could kill a pg worker *)
(* that's no longer associated with the original query, i.e. it's handling *)
(* a new query".  It is not so: an abandoned query has no promise.         *)
(***************************************************************************)
NoForeignBackend ==
  mon = "send" => ~ \E q \in Queries : pid[q] = target /\ skey[q] # victim

(***************************************************************************)
(* The monitor never sleeps past what it should notice: an earlier         *)
(* deadline, a channel to watch, a cancelled key that blocks the next      *)
(* request, a call of stop.  Whoever brings one up has woken the selector, *)
(* or is about to (the order of swap!, cancel, reset! and .wakeup).        *)
(***************************************************************************)
NoOversleep ==
  mon = "asleep" /\ ~wakeup =>
    /\ (\A q \in Queries : at[q] # "enrolled") => \A e \in deadlines : wakeAt <= e[1]
    /\ (\A q \in Queries : at[q] \notin {"keyed", "enrolled"}) =>
         \A c \in Channels : chanKey[c] # NoKey => chanKey[c] \in watched
    /\ (\A q \in Queries : at[q] # "unkeyed") => cancelled = {}
    /\ stop # "woken"

(***************************************************************************)
(* A query that has been forgotten, by a living monitor, stays so: no      *)
(* stale entry is left behind or put back (the compare-and-set! of         *)
(* next-expired-query!), and its info is not used for a later query.       *)
(***************************************************************************)
ForgottenForGood ==
  Alive => \A q \in Queries :
    at[q] \in {"forgetting", "unkeyed", "awaiting", "releasing"} =>
      skey[q] \notin selectorKeys /\ \A e \in deadlines : e[2] # skey[q]

(***************************************************************************)
(* A request never meets the registration of an earlier one on its         *)
(* channel: the earlier key is gone, or about to be removed.  Otherwise    *)
(* stop-query-at-deadline-or-disconnect throws "Existing query ... has     *)
(* same channel", or adopts a key that is soon cancelled.                  *)
(***************************************************************************)
ChannelIsFree ==
  \A q \in Queries : at[q] = "arrived" =>
    chanKey[chan[q]] \in cancelled \cup {NoKey}

\* Nobody stops the monitor and no exception ends its loop.
Unharmed == stop = "no" /\ ~failing

\* The monitor knows its backend and has not dealt with it yet.
Watched(q) ==
  /\ at[q] = "running"
  /\ skey[q] \in selectorKeys
  /\ pgPid[skey[q]] = pid[q]
  /\ skey[q] # victim
  /\ skey[q] \notin doomed \ todo

Overdue(q)    == deadline[q] <= now
Deserted(q)   == chan[q] \in gone
KeyIsValid(q) == chanKey[chan[q]] = skey[q] /\ skey[q] \notin cancelled

Attempted(q) == at[q] # "running" \/ skey[q] \in attempted

(***************************************************************************)
(* As long as no exception ends its loop, the monitor tries to terminate   *)
(* the backend of each query it knows to have one once the deadline has    *)
(* passed, unless the query ends first: one slow termination does not lose *)
(* another's turn.                                                         *)
(***************************************************************************)
ExpiredAttempted ==
  []Unharmed => \A q \in Queries : Watched(q) /\ Overdue(q) ~> Attempted(q)

(***************************************************************************)
(* Likewise once the client is gone, while the key is valid: the select in *)
(* progress or the next one notices, even while it deals with others.  The *)
(* premise is needed although monitor.clj:4-8 makes the promise without    *)
(* one: the exception that one client's departure may raise ends the       *)
(* monitor (WakeFails), and no query is watched from then on.              *)
(***************************************************************************)
AbandonedAttempted ==
  []Unharmed => \A q \in Queries :
    Watched(q) /\ Deserted(q) /\ KeyIsValid(q) ~> Attempted(q)

(***************************************************************************)
(* "No operations should block forever" (monitor.clj:37), even if forget   *)
(* had no timeout: registration, forget and stop all return.               *)
(***************************************************************************)
NothingBlocks ==
  /\ \A q \in Queries : at[q] = "arrived" ~> at[q] # "arrived"
  /\ \A q \in Queries : at[q] = "awaiting" ~> at[q] # "awaiting"
  /\ stop = "woken" ~> mon = "dead"
=============================================================================
