------------------------- MODULE QueryMonitorProofs -------------------------
(***************************************************************************)
(* Proofs about QueryMonitor, for any number of requests, channels and     *)
(* backends: every key belongs to one request, and so the safety           *)
(* invariants hold.                                                        *)
(***************************************************************************)
EXTENDS QueryMonitor, TLAPS


\* What the request of a key is doing while the maps hold the key.
Enrolled == {"enrolled", "connect", "connected", "running", "ending"}

\* A request only ever has its own key.
OwnKey ==
  \A q \in Queries :
    /\ skey[q] \in {NoKey, q}
    /\ at[q] \in {"idle", "arrived", "done"} => skey[q] = NoKey
    /\ at[q] \in {"keyed", "enrolled", "forgetting", "unkeyed", "awaiting"} => skey[q] = q

\* A request under way has a channel, and has it to itself.
OwnChannel ==
  \A q \in Queries :
    /\ at[q] \in {"idle", "done"} <=> chan[q] = NoChannel
    /\ \A r \in Queries : r # q /\ chan[r] = chan[q] => chan[q] = NoChannel

\* A closed selector has no keys.
NoneWhenClosed == Closed => \A c \in Channels : chanKey[c] = NoKey

\* A key that is not cancelled is that of a request on this very channel.
ValidKey ==
  \A c \in Channels, k \in Queries :
    chanKey[c] = k /\ k \notin cancelled =>
      /\ skey[k] = k
      /\ chan[k] = c
      /\ at[k] \in Enrolled \cup {"keyed", "forgetting"}

\* The two maps have the same keys, those of enrolled requests.
Entries ==
  \A k \in Queries :
    /\ k \in selectorKeys <=> \E e \in deadlines : e[2] = k
    /\ k \in selectorKeys => at[k] \notin {"idle", "arrived", "keyed"}
    /\ Alive /\ k \in selectorKeys => skey[k] = k /\ at[k] \in Enrolled

\* The backend of an info is that of its request, as long as it lasts.
OwnPid ==
  \A q \in Queries : skey[q] = q =>
    /\ at[q] \in {"enrolled", "connect", "connected"} => pgPid[q] = NoPid
    /\ at[q] \in {"running", "ending", "forgetting", "unkeyed", "awaiting", "releasing"} =>
         pgPid[q] \in {NoPid, pid[q]}

\* The pool gives a connection to one request at a time.
OneHolder ==
  \A q, r \in Queries : pid[q] = pid[r] /\ pid[q] # NoPid => q = r

\* There is something to terminate when a termination is in progress.
HasVictim ==
  /\ mon \in {"kill", "send", "deliver", "drop"} =>
       victim \in Queries /\ why \in {"expired", "abandoned"}
  /\ mon = "send" => target \in Pids

\* The request of an expired query cannot pass its forget.
Pinned(q) ==
  /\ skey[q] = q
  /\ terminated[q] = "pending"
  /\ \/ at[q] \in Enrolled /\ q \in selectorKeys
     \/ at[q] \in {"forgetting", "unkeyed", "awaiting"} /\ waits[q]

VictimIsPinned ==
  mon \in {"kill", "send", "deliver"} /\ why = "expired" =>
    victim \in timedOut \/ Pinned(victim)

\* Between the read of the pid and the termination the request keeps it.
VictimKeepsPid ==
  mon = "send" /\ why = "expired" =>
    \/ victim \in timedOut
    \/ at[victim] \notin {"enrolled", "connect", "connected"} /\ pid[victim] = target

\* Whoever must not be slept past has woken the selector.
SleepsInTime ==
  mon \in {"select", "asleep"} /\ ~wakeup /\ (\A q \in Queries : at[q] # "enrolled") =>
    \A e \in deadlines : wakeAt <= e[1]

WatchesAll ==
  mon = "asleep" /\ ~wakeup =>
    /\ (\A q \in Queries : at[q] # "unkeyed") => cancelled = {}
    /\ (\A q \in Queries : at[q] \notin {"keyed", "enrolled"}) =>
         \A c \in Channels : chanKey[c] # NoKey => chanKey[c] \in watched

SeesStop ==
  stop = "woken" /\ ~wakeup =>
    \/ mon \in {"scan", "top", "closing", "closed", "dead"}
    \/ mon \in {"kill", "send", "deliver"} /\ why # "expired"

IInv ==
  /\ TypeOK /\ OwnKey /\ OwnChannel /\ NoneWhenClosed /\ ValidKey /\ Entries /\ OwnPid
  /\ OneHolder
  /\ HasVictim /\ VictimIsPinned /\ VictimKeepsPid
  /\ SleepsInTime /\ WatchesAll /\ SeesStop

USE MonitorAssumption
    DEF MonitorAssumption, clientVars, queryVars, selectVars, monitorVars,
        requestVars, vars,
        Forever, Deadlines, Goes, EndRequest

\* The steps of neither a request nor the monitor.
Outside == AskToStop \/ WakeToStop \/ (\E c \in Channels \ gone : Disconnect(c)) \/ Tick

-----------------------------------------------------------------------------
\* Who changes what.

\* Only requests change the variables of requests.
LEMMA RequestsAreLeftAlone ==
  ASSUME Monitor \/ Outside \/ UNCHANGED vars PROVE UNCHANGED requestVars
BY DEF Monitor, Loop, NextExpired, NoneExpired, Select, Wake, SelectReturns,
    WakeFails, NextAbandoned, DropAbandoned,
       ReadPid, Terminate, Deliver, DropExpired, Close, Die,
       Outside, AskToStop, WakeToStop, Disconnect, Tick

\* Requests do not change the variables of the monitor's thread.
LEMMA MonitorIsLeftAlone ==
  ASSUME NEW q \in Queries, Request(q)
  PROVE  UNCHANGED <<now, gone, killed, watched, monitorVars, stop, attempted>>
BY DEF Request, Arrive, RegisterKey, RegisterFails, Enrol, WakeForQuery, Connect,
       NoConnection, RegisterPid, Finish, Forget, CancelKey, WakeToRemove, Awaited,
         ForgetTimesOut, Release

\* A request only changes what is its own.
LEMMA OthersAreLeftAlone ==
  ASSUME TypeOK, NEW q \in Queries, Request(q), NEW r \in Queries, r # q
  PROVE  /\ at'[r] = at[r] /\ chan'[r] = chan[r] /\ skey'[r] = skey[r]
         /\ pid'[r] = pid[r] /\ waits'[r] = waits[r] /\ deadline'[r] = deadline[r]
BY DEF TypeOK, RequestTypeOK,
       Request, Arrive, RegisterKey, RegisterFails, Enrol, WakeForQuery, Connect,
       NoConnection, RegisterPid, Finish, Forget, CancelKey, WakeToRemove, Awaited,
         ForgetTimesOut, Release

-----------------------------------------------------------------------------
\* Types.

LEMMA RequestKeepsTypes ==
  ASSUME TypeOK, OwnKey, OwnChannel, NEW q \in Queries, Request(q)
  PROVE  RequestTypeOK' /\ QueriesTypeOK' /\ SelectTypeOK'
<1> USE DEF TypeOK, RequestTypeOK, QueriesTypeOK, SelectTypeOK, RequestStates
<1>1. CASE Arrive(q)
  BY <1>1 DEF Arrive
<1>2. CASE RegisterKey(q)
  BY <1>2 DEF RegisterKey, OwnKey, OwnChannel
<1>3. CASE RegisterFails(q)
  BY <1>3 DEF RegisterFails
<1>4. CASE Enrol(q)
  BY <1>4 DEF Enrol, OwnKey
<1>5. CASE WakeForQuery(q)
  BY <1>5 DEF WakeForQuery
<1>6. CASE Connect(q) \/ NoConnection(q)
  BY <1>6 DEF Connect, NoConnection
<1>7. CASE RegisterPid(q)
  BY <1>7 DEF RegisterPid
<1>8. CASE Finish(q)
  BY <1>8 DEF Finish
<1>9. CASE Forget(q)
  BY <1>9 DEF Forget, DropQuery
<1>10. CASE CancelKey(q)
  BY <1>10 DEF CancelKey, OwnKey
<1>11. CASE WakeToRemove(q) \/ Awaited(q)
  BY <1>11 DEF WakeToRemove, Awaited
<1>12. CASE ForgetTimesOut(q)
  BY <1>12 DEF ForgetTimesOut, OwnKey
<1>13. CASE Release(q)
  BY <1>13 DEF Release
<1>14. QED
  BY <1>1, <1>2, <1>3, <1>4, <1>5, <1>6, <1>7, <1>8, <1>9, <1>10, <1>11, <1>12, <1>13
  DEF Request

LEMMA MonitorKeepsTypes ==
  ASSUME TypeOK, HasVictim, Monitor
  PROVE  TypeOK'
<1> USE DEF TypeOK, RequestTypeOK, QueriesTypeOK, SelectTypeOK, MonitorTypeOK, MonitorStates
<1>1. CASE Loop
  BY <1>1 DEF Loop
<1>2. CASE NextExpired
  BY <1>2 DEF NextExpired
<1>3. CASE NoneExpired
  <2>1. wakeAt' \in Deadlines
    BY <1>3 DEF NoneExpired, Forever, Deadlines
  <2>2. clock' = 0
        /\ UNCHANGED <<now, requestVars, gone, killed, queryVars, selectVars, doomed,
                       todo, victim, why, target, stop, attempted>>
    BY <1>3 DEF NoneExpired
  <2>3. \/ mon' = "closing" /\ failing' = TRUE
        \/ mon' = "select" /\ failing' = failing
    BY <1>3 DEF NoneExpired
  <2>4. failing' \in BOOLEAN /\ mon' \in MonitorStates
    BY <2>3
  <2>5. QED
    BY <2>1, <2>2, <2>4
<1>4. CASE Select
  BY <1>4 DEF Select, RemoveCancelled
<1>5. CASE Wake \/ WakeFails
  <2>1. chanKey' \in [Channels -> Queries \cup {NoKey}]
    BY <1>5 DEF Wake, SelectReturns, WakeFails, RemoveCancelled
  <2>2. doomed' \subseteq Queries /\ todo' \subseteq doomed'
    BY <1>5 DEF Wake, SelectReturns, WakeFails, Ready
  <2>3. /\ cancelled' = {} /\ watched' = {} /\ wakeup' = FALSE
        /\ mon' \in {"scan", "closing"} /\ wakeAt' = 0 /\ failing' \in {failing, TRUE}
        /\ UNCHANGED <<now, requestVars, gone, killed, queryVars, clock, victim, why, target,
                       stop, attempted>>
    BY <1>5 DEF Wake, SelectReturns, WakeFails, RemoveCancelled
  <2>4. RequestTypeOK' /\ QueriesTypeOK'
    BY <2>3
  <2>5. SelectTypeOK'
    BY <2>1, <2>3
  <2>6. failing' \in BOOLEAN /\ mon' \in MonitorStates
    BY <2>3
  <2>7. wakeAt' \in Deadlines
    BY <2>3 DEF Deadlines, Forever
  <2>8. MonitorTypeOK'
    BY <2>2, <2>3, <2>6, <2>7
  <2>9. QED
    BY <2>4, <2>5, <2>8
<1>6. CASE NextAbandoned
  BY <1>6 DEF NextAbandoned
<1>7. CASE DropAbandoned
  BY <1>7 DEF DropAbandoned, DropQuery
<1>8. CASE ReadPid
  BY <1>8 DEF ReadPid, HasVictim
<1>9. CASE Terminate
  BY <1>9 DEF Terminate, HasVictim
<1>10. CASE Deliver
  BY <1>10 DEF Deliver
<1>11. CASE DropExpired
  BY <1>11 DEF DropExpired, DropQuery, HasVictim
<1>12. CASE Close
  BY <1>12 DEF Close
<1>13. CASE Die
  BY <1>13 DEF Die
<1>14. QED
  BY <1>1, <1>2, <1>3, <1>4, <1>5, <1>6, <1>7, <1>8, <1>9, <1>10, <1>11, <1>12, <1>13
  DEF Monitor

LEMMA TypesAreKept ==
  ASSUME TypeOK, OwnKey, OwnChannel, HasVictim, [Next]_vars
  PROVE  TypeOK'
<1>1. CASE \E q \in Queries : Request(q)
  <2>1. PICK q \in Queries : Request(q)
    BY <1>1
  <2>2. UNCHANGED monitorVars
    BY <2>1, MonitorIsLeftAlone
  <2>3. QED
    BY <2>1, <2>2, RequestKeepsTypes DEF TypeOK, MonitorTypeOK
<1>2. CASE Monitor
  BY <1>2, MonitorKeepsTypes
<1>3. CASE Outside
  <2> USE DEF TypeOK, RequestTypeOK, QueriesTypeOK, SelectTypeOK, MonitorTypeOK
  <2>1. CASE AskToStop \/ WakeToStop
    BY <2>1 DEF AskToStop, WakeToStop
  <2>2. CASE \E c \in Channels \ gone : Disconnect(c)
    BY <2>2 DEF Disconnect
  <2>3. CASE Tick
    BY <2>3 DEF Tick
  <2>4. QED
    BY <1>3, <2>1, <2>2, <2>3 DEF Outside
<1>4. CASE UNCHANGED vars
  BY <1>4 DEF TypeOK, RequestTypeOK, QueriesTypeOK, SelectTypeOK, MonitorTypeOK
<1>5. QED
  BY <1>1, <1>2, <1>3, <1>4 DEF Next, Outside

-----------------------------------------------------------------------------
\* Keys and channels.

LEMMA OwnKeyKept ==
  ASSUME TypeOK, OwnKey, OwnChannel, ValidKey, Entries, [Next]_vars
  PROVE  OwnKey'
<1>1. CASE \E q \in Queries : Request(q)
  <2>1. PICK q \in Queries : Request(q)
    BY <1>1
  <2>2. \A r \in Queries : r # q => at'[r] = at[r] /\ skey'[r] = skey[r]
    BY <2>1, OthersAreLeftAlone
  <2>3. /\ skey'[q] \in {NoKey, q}
        /\ at'[q] \in {"idle", "arrived", "done"} => skey'[q] = NoKey
        /\ at'[q] \in {"keyed", "enrolled", "forgetting", "unkeyed", "awaiting"} => skey'[q] = q
    <3> USE DEF OwnKey, TypeOK, RequestTypeOK, Enrolled
    <3>1. CASE RegisterKey(q)
      <4>1. chan[q] \in Channels
        BY <3>1 DEF RegisterKey, OwnChannel
      <4>2. chanKey[chan[q]] = NoKey
        BY <3>1, <4>1 DEF RegisterKey, ValidKey, OwnChannel, SelectTypeOK
      <4>3. QED
        BY <3>1, <4>2 DEF RegisterKey
    <3>2. CASE Arrive(q) \/ RegisterFails(q) \/ Enrol(q) \/ WakeForQuery(q) \/ Release(q)
      BY <3>2 DEF Arrive, RegisterFails, Enrol, WakeForQuery, Release
    <3>3. CASE Connect(q) \/ NoConnection(q) \/ RegisterPid(q) \/ Finish(q)
      BY <3>3 DEF Connect, NoConnection, RegisterPid, Finish
    <3>4. CASE Forget(q) \/ CancelKey(q) \/ WakeToRemove(q) \/ Awaited(q) \/ ForgetTimesOut(q)
      BY <3>4 DEF Forget, CancelKey, WakeToRemove, Awaited, ForgetTimesOut
    <3>5. QED
      BY <2>1, <3>1, <3>2, <3>3, <3>4 DEF Request
  <2>4. QED
    BY <2>2, <2>3 DEF OwnKey
<1>2. CASE Monitor \/ Outside \/ UNCHANGED vars
  BY <1>2, RequestsAreLeftAlone DEF OwnKey
<1>3. QED
  BY <1>1, <1>2 DEF Next, Outside

LEMMA OwnChannelKept ==
  ASSUME TypeOK, OwnChannel, [Next]_vars
  PROVE  OwnChannel'
<1>1. CASE \E q \in Queries : Request(q)
  <2>1. PICK q \in Queries : Request(q)
    BY <1>1
  <2>2. \A r \in Queries : r # q => at'[r] = at[r] /\ chan'[r] = chan[r]
    BY <2>1, OthersAreLeftAlone
  <2>3. CASE Arrive(q)
    <3>1. PICK c \in Channels : /\ \A r \in Queries : chan[r] # c
                                /\ chan' = [chan EXCEPT ![q] = c]
      BY <2>3 DEF Arrive
    <3>2. chan'[q] = c /\ at'[q] \notin {"idle", "done"}
      BY <2>3, <3>1 DEF Arrive, TypeOK, RequestTypeOK
    <3>3. QED
      BY <2>2, <3>1, <3>2 DEF OwnChannel
  <2>4. CASE ~Arrive(q)
    <3>1. \/ /\ chan'[q] = chan[q]
             /\ at[q] \notin {"idle", "done"} /\ at'[q] \notin {"idle", "done"}
          \/ chan'[q] = NoChannel /\ at'[q] = "done"
      BY <2>1, <2>4 DEF TypeOK, RequestTypeOK, Request, RegisterKey, RegisterFails,
          Enrol,
           WakeForQuery, Connect, NoConnection, RegisterPid, Finish, Forget, CancelKey,
           WakeToRemove, Awaited,
           ForgetTimesOut, Release
    <3>2. QED
      BY <2>2, <3>1 DEF OwnChannel
  <2>5. QED
    BY <2>3, <2>4
<1>2. CASE Monitor \/ Outside \/ UNCHANGED vars
  BY <1>2, RequestsAreLeftAlone DEF OwnChannel
<1>3. QED
  BY <1>1, <1>2 DEF Next, Outside

LEMMA NoneWhenClosedKept ==
  ASSUME TypeOK, NoneWhenClosed, [Next]_vars
  PROVE  NoneWhenClosed'
<1> USE DEF NoneWhenClosed, Closed
<1>1. CASE \E q \in Queries : Request(q)
  <2>1. PICK q \in Queries : Request(q)
    BY <1>1
  <2>2. mon' = mon
    BY <2>1, MonitorIsLeftAlone
  <2>3. ~Closed \/ chanKey' = chanKey
    BY <2>1 DEF Request, Arrive, RegisterKey, RegisterFails, Enrol, WakeForQuery,
        Connect,
         NoConnection, RegisterPid, Finish, Forget, CancelKey, WakeToRemove, Awaited,
         ForgetTimesOut, Release
  <2>4. QED
    BY <2>2, <2>3
<1>2. CASE Monitor
  BY <1>2 DEF Monitor, Loop, NextExpired, NoneExpired, Select, Wake, SelectReturns,
      WakeFails, NextAbandoned,
       DropAbandoned, ReadPid, Terminate, Deliver, DropExpired, Close, Die
<1>3. CASE Outside \/ UNCHANGED vars
  BY <1>3 DEF Outside, AskToStop, WakeToStop, Disconnect, Tick
<1>4. QED
  BY <1>1, <1>2, <1>3 DEF Next, Outside

LEMMA ValidKeyKept ==
  ASSUME TypeOK, OwnKey, OwnChannel, NoneWhenClosed, ValidKey, Entries, [Next]_vars
  PROVE  ValidKey'
<1>1. CASE \E q \in Queries : Request(q)
  <2>1. PICK q \in Queries : Request(q)
    BY <1>1
  <2>2. \A r \in Queries : r # q => at'[r] = at[r] /\ chan'[r] = chan[r] /\ skey'[r] = skey[r]
    BY <2>1, OthersAreLeftAlone
  <2> USE DEF TypeOK, RequestTypeOK, Enrolled
  <2>3. CASE RegisterKey(q)
    <3>1. chan[q] \in Channels
      BY <2>3 DEF RegisterKey, OwnChannel
    <3>2. chanKey[chan[q]] = NoKey
      BY <2>3, <3>1 DEF RegisterKey, ValidKey, OwnChannel, SelectTypeOK
    <3>3. /\ chanKey' = [chanKey EXCEPT ![chan[q]] = q] /\ skey'[q] = q
          /\ at'[q] = "keyed" /\ chan'[q] = chan[q] /\ cancelled' = cancelled
      BY <2>3, <3>2 DEF RegisterKey
    <3>4. \A c \in Channels : c # chan[q] => chanKey'[c] = chanKey[c]
      BY <3>3 DEF SelectTypeOK
    <3>5. chanKey'[chan[q]] = q
      BY <3>1, <3>3 DEF SelectTypeOK
    <3>6. \A c \in Channels : chanKey[c] = q => q \in cancelled
      BY <2>3 DEF RegisterKey, ValidKey
    <3>7. QED
      BY <2>2, <3>3, <3>4, <3>5, <3>6 DEF ValidKey
  <2>4. CASE CancelKey(q)
    <3>1. chanKey' = chanKey /\ cancelled' = cancelled \cup {q}
      BY <2>4 DEF CancelKey, OwnKey
    <3>2. QED
      BY <2>2, <3>1 DEF ValidKey
  <2>5. CASE ~RegisterKey(q) /\ ~CancelKey(q)
    <3>1. chanKey' = chanKey /\ cancelled' = cancelled
      BY <2>1, <2>5 DEF Request, Arrive, RegisterFails, Enrol, WakeForQuery, Connect,
           NoConnection, RegisterPid, Finish, Forget, WakeToRemove, Awaited,
          ForgetTimesOut,
           Release
    <3>2. ASSUME ~Closed, skey[q] = q, at[q] \in Enrolled \cup {"keyed", "forgetting"}
          PROVE  /\ skey'[q] = q /\ chan'[q] = chan[q]
                 /\ at'[q] \in Enrolled \cup {"keyed", "forgetting"}
      <4>1. Enrol(q) => skey[q] \notin selectorKeys
        BY DEF Enrol, OwnKey, Entries
      <4>2. Forget(q) => at'[q] = "forgetting"
        BY <3>2 DEF Forget, Closed, Alive
      <4>3. QED
        BY <2>1, <2>5, <3>2, <4>1, <4>2 DEF Request, Arrive, RegisterFails, Enrol,
            WakeForQuery,
           Connect, NoConnection, RegisterPid, Finish, Forget, WakeToRemove, Awaited,
           ForgetTimesOut, Release
    <3>3. QED
      BY <2>2, <3>1, <3>2 DEF ValidKey, NoneWhenClosed
  <2>6. QED
    BY <2>3, <2>4, <2>5
<1>2. CASE Monitor \/ Outside \/ UNCHANGED vars
  <2>1. UNCHANGED <<at, chan, skey>>
    BY <1>2, RequestsAreLeftAlone
  <2>2. \A c \in Channels, k \in Queries :
          chanKey'[c] = k /\ k \notin cancelled' => chanKey[c] = k /\ k \notin cancelled
    <3>1. CASE Monitor
      BY <3>1 DEF Monitor, Loop, NextExpired, NoneExpired, Select, Wake,
          SelectReturns, WakeFails, NextAbandoned,
           DropAbandoned, ReadPid, Terminate, Deliver, DropExpired, Close, Die,
          RemoveCancelled
    <3>2. CASE Outside \/ UNCHANGED vars
      BY <3>2 DEF Outside, AskToStop, WakeToStop, Disconnect, Tick
    <3>3. QED
      BY <1>2, <3>1, <3>2
  <2>3. QED
    BY <2>1, <2>2 DEF ValidKey
<1>3. QED
  BY <1>1, <1>2 DEF Next, Outside

-----------------------------------------------------------------------------
\* The maps.

LEMMA EntriesKept ==
  ASSUME TypeOK, OwnKey, Entries, [Next]_vars
  PROVE  Entries'
<1> USE DEF TypeOK, RequestTypeOK, QueriesTypeOK, Enrolled, Alive
<1>1. CASE \E q \in Queries : Request(q)
  <2>1. PICK q \in Queries : Request(q)
    BY <1>1
  <2>2. \A r \in Queries : r # q => at'[r] = at[r] /\ skey'[r] = skey[r]
    BY <2>1, OthersAreLeftAlone
  <2>3. mon' = mon
    BY <2>1, MonitorIsLeftAlone
  <2>4. CASE Enrol(q)
    <3>1. skey[q] = q /\ q \notin selectorKeys
      BY <2>4 DEF Enrol, OwnKey, Entries
    <3>2. /\ selectorKeys' = selectorKeys \cup {q}
          /\ deadlines' = deadlines \cup {<<deadline[q], q>>}
          /\ at'[q] = "enrolled" /\ skey'[q] = q
      BY <2>4, <3>1 DEF Enrol
    <3>3. \A k \in Queries :
            (\E e \in deadlines' : e[2] = k) <=> k = q \/ \E e \in deadlines : e[2] = k
      <4> DEFINE new == <<deadline[q], q>>
      <4>1. new[2] = q /\ deadlines' = deadlines \cup {new}
        BY <3>2
      <4> HIDE DEF new
      <4>2. QED
        BY <4>1
    <3>4. \A k \in Queries : k \in selectorKeys' <=> k = q \/ k \in selectorKeys
      BY <3>2
    <3>5. at'[q] \notin {"idle", "arrived", "keyed"} /\ skey'[q] = q /\ at'[q] \in Enrolled
      BY <3>2
    <3>6. QED
      BY <2>2, <2>3, <3>3, <3>4, <3>5 DEF Entries
  <2>5. CASE Forget(q) /\ Alive /\ skey[q] # NoKey
    <3>1. skey[q] = q
      BY <2>5 DEF OwnKey
    <3>2. /\ selectorKeys' = selectorKeys \ {q}
          /\ deadlines' = {e \in deadlines : e[2] # q}
      BY <2>5, <3>1 DEF Forget, DropQuery
    <3>3. QED
      BY <2>2, <2>3, <3>2 DEF Entries
  <2>6. CASE ~Enrol(q) /\ ~(Forget(q) /\ Alive /\ skey[q] # NoKey)
    <3>1. UNCHANGED <<selectorKeys, deadlines>>
      BY <2>1, <2>6 DEF Request, Arrive, RegisterKey, RegisterFails, WakeForQuery,
          Connect,
           NoConnection, RegisterPid, Finish, Forget, CancelKey, WakeToRemove, Awaited,
           ForgetTimesOut, Release
    <3>2. q \in selectorKeys => at'[q] \notin {"idle", "arrived", "keyed"}
      BY <2>1, <2>6 DEF Entries, Request, Arrive, RegisterKey, RegisterFails,
          WakeForQuery,
           Connect, NoConnection, RegisterPid, Finish, Forget, CancelKey,
          WakeToRemove, Awaited,
           ForgetTimesOut, Release
    <3>3. Alive /\ q \in selectorKeys => skey'[q] = q /\ at'[q] \in Enrolled
      BY <2>1, <2>6 DEF Entries, Request, Arrive, RegisterKey, RegisterFails,
          WakeForQuery,
           Connect, NoConnection, RegisterPid, Finish, Forget, CancelKey,
          WakeToRemove, Awaited,
           ForgetTimesOut, Release
    <3>4. QED
      BY <2>2, <2>3, <3>1, <3>2, <3>3 DEF Entries
  <2>7. QED
    BY <2>4, <2>5, <2>6
<1>2. CASE Monitor
  <2>1. UNCHANGED <<at, skey>>
    BY <1>2, RequestsAreLeftAlone
  <2>2. Alive
    BY <1>2 DEF Monitor, Loop, NextExpired, NoneExpired, Select, Wake, SelectReturns,
        WakeFails, NextAbandoned,
         DropAbandoned, ReadPid, Terminate, Deliver, DropExpired, Close, Die
  <2>3. CASE NextExpired
    <3>1. selectorKeys' = selectorKeys /\ deadlines' = deadlines
      BY <2>3 DEF NextExpired, Entries
    <3>2. QED
      BY <2>1, <2>2, <3>1 DEF Entries
  <2>4. CASE ~NextExpired
    <3>1. UNCHANGED <<selectorKeys, deadlines>> \/ \E keys : DropQuery(keys)
      BY <1>2, <2>4 DEF Monitor, Loop, NoneExpired, Select, Wake, SelectReturns,
          WakeFails, NextAbandoned,
           DropAbandoned, ReadPid, Terminate, Deliver, DropExpired, Close, Die
    <3>2. QED
      BY <2>1, <2>2, <3>1 DEF Entries, DropQuery
  <2>5. QED
    BY <2>3, <2>4
<1>3. CASE Outside \/ UNCHANGED vars
  BY <1>3 DEF Outside, AskToStop, WakeToStop, Disconnect, Tick, Entries
<1>4. QED
  BY <1>1, <1>2, <1>3 DEF Next, Outside

-----------------------------------------------------------------------------
\* Backends, and the termination in progress.

LEMMA OwnPidKept ==
  ASSUME TypeOK, OwnKey, Entries, OwnPid, [Next]_vars
  PROVE  OwnPid'
<1> USE DEF TypeOK, RequestTypeOK, QueriesTypeOK
<1>1. CASE \E q \in Queries : Request(q)
  <2>1. PICK q \in Queries : Request(q)
    BY <1>1
  <2>2. \A r \in Queries :
          r # q => at'[r] = at[r] /\ skey'[r] = skey[r] /\ pid'[r] = pid[r]
    BY <2>1, OthersAreLeftAlone
  <2>3. \A r \in Queries : r # q => pgPid'[r] = pgPid[r]
    BY <2>1 DEF OwnKey, Request, Arrive, RegisterKey, RegisterFails, Enrol,
        WakeForQuery, Connect,
         NoConnection, RegisterPid, Finish, Forget, CancelKey, WakeToRemove, Awaited,
         ForgetTimesOut, Release
  <2>4. skey'[q] = q =>
          /\ at'[q] \in {"enrolled", "connect", "connected"} => pgPid'[q] = NoPid
          /\ at'[q] \in {"running", "ending", "forgetting", "unkeyed", "awaiting", "releasing"} =>
               pgPid'[q] \in {NoPid, pid'[q]}
    <3> USE DEF OwnPid, OwnKey
    <3>1. CASE Arrive(q) \/ RegisterKey(q) \/ RegisterFails(q) \/ Release(q)
      BY <3>1 DEF Arrive, RegisterKey, RegisterFails, Release
    <3>2. CASE Enrol(q)
      BY <3>2 DEF Enrol
    <3>3. CASE Connect(q) \/ NoConnection(q) \/ WakeForQuery(q)
      BY <3>3 DEF Connect, NoConnection, WakeForQuery
    <3>4. CASE RegisterPid(q)
      BY <3>4 DEF RegisterPid
    <3>5. CASE Finish(q) \/ Forget(q) \/ CancelKey(q) \/ WakeToRemove(q) \/ Awaited(q)
              \/ ForgetTimesOut(q)
      BY <3>5 DEF Finish, Forget, CancelKey, WakeToRemove, Awaited, ForgetTimesOut
    <3>6. QED
      BY <2>1, <3>1, <3>2, <3>3, <3>4, <3>5 DEF Request
  <2>5. QED
    BY <2>2, <2>3, <2>4 DEF OwnPid
<1>2. CASE Monitor \/ Outside \/ UNCHANGED vars
  <2>1. UNCHANGED <<at, skey, pid>>
    BY <1>2, RequestsAreLeftAlone
  <2>2. pgPid' = pgPid
    BY <1>2 DEF Monitor, Loop, NextExpired, NoneExpired, Select, Wake, SelectReturns,
        WakeFails, NextAbandoned,
         DropAbandoned, ReadPid, Terminate, Deliver, DropExpired, Close, Die,
         Outside, AskToStop, WakeToStop, Disconnect, Tick
  <2>3. QED
    BY <2>1, <2>2 DEF OwnPid
<1>3. QED
  BY <1>1, <1>2 DEF Next, Outside

LEMMA OneHolderKept ==
  ASSUME TypeOK, OneHolder, [Next]_vars
  PROVE  OneHolder'
<1>1. ASSUME NEW q \in Queries, Request(q)
      PROVE  OneHolder'
  <2>1. \A r \in Queries : r # q => pid'[r] = pid[r]
    BY <1>1, OthersAreLeftAlone
  <2>2. pid'[q] \in {pid[q], NoPid} \/ pid'[q] \notin Held
    BY <1>1 DEF Request, Arrive, RegisterKey, RegisterFails, Enrol, WakeForQuery,
        Connect,
       NoConnection, RegisterPid, Finish, Forget, CancelKey, WakeToRemove, Awaited,
         ForgetTimesOut, Release, TypeOK, RequestTypeOK
  <2>3. QED
    BY <2>1, <2>2 DEF OneHolder, Held
<1>2. CASE Monitor \/ Outside \/ UNCHANGED vars
  BY <1>2, RequestsAreLeftAlone DEF OneHolder
<1>3. QED
  BY <1>1, <1>2 DEF Next, Outside

LEMMA HasVictimKept ==
  ASSUME TypeOK, HasVictim, [Next]_vars
  PROVE  HasVictim'
<1> USE DEF HasVictim
<1>1. CASE \E q \in Queries : Request(q)
  BY <1>1, MonitorIsLeftAlone
<1>2. CASE Monitor
  <2>1. CASE NextExpired
    BY <2>1 DEF NextExpired, TypeOK, QueriesTypeOK
  <2>2. CASE NextAbandoned
    BY <2>2 DEF NextAbandoned, TypeOK, MonitorTypeOK
  <2>3. CASE ReadPid
    BY <2>3 DEF ReadPid, TypeOK, QueriesTypeOK
  <2>4. CASE Terminate \/ Deliver
    BY <2>4 DEF Terminate, Deliver
  <2>5. CASE Loop \/ NoneExpired \/ Select \/ Wake \/ WakeFails \/ DropAbandoned
             \/ DropExpired \/ Close \/ Die
    BY <2>5 DEF Loop, NoneExpired, Select, Wake, SelectReturns, WakeFails,
        DropAbandoned, DropExpired, Close, Die
  <2>6. QED
    BY <1>2, <2>1, <2>2, <2>3, <2>4, <2>5 DEF Monitor
<1>3. CASE Outside \/ UNCHANGED vars
  BY <1>3 DEF Outside, AskToStop, WakeToStop, Disconnect, Tick
<1>4. QED
  BY <1>1, <1>2, <1>3 DEF Next, Outside

\* A pinned request stays so, or gives up waiting.
LEMMA PinnedStays ==
  ASSUME TypeOK, OwnKey, NEW k \in Queries, Pinned(k), mon \in {"kill", "send", "deliver"},
         NEW q \in Queries, Request(q)
  PROVE  k \in timedOut' \/ Pinned(k)'
<1> USE DEF TypeOK, RequestTypeOK, QueriesTypeOK, Pinned, Enrolled
<1>1. CASE q # k
  <2>1. /\ at'[k] = at[k] /\ skey'[k] = skey[k] /\ waits'[k] = waits[k]
    BY <1>1, OthersAreLeftAlone
  <2>2. terminated'[k] = terminated[k] /\ (k \in selectorKeys => k \in selectorKeys')
    BY <1>1 DEF OwnKey, Request, Arrive, RegisterKey, RegisterFails, Enrol,
        WakeForQuery, Connect,
         NoConnection, RegisterPid, Finish, Forget, CancelKey, WakeToRemove, Awaited,
         ForgetTimesOut, Release,
         DropQuery
  <2>3. QED
    BY <2>1, <2>2
<1>2. CASE q = k
  <2>1. CASE Forget(k)
    BY <2>1 DEF Forget, Alive
  <2>2. CASE CancelKey(k) \/ WakeToRemove(k) \/ Awaited(k) \/ ForgetTimesOut(k)
    BY <2>2 DEF CancelKey, WakeToRemove, Awaited, ForgetTimesOut
  <2>3. CASE WakeForQuery(k) \/ Connect(k) \/ NoConnection(k) \/ RegisterPid(k) \/ Finish(k)
    BY <2>3 DEF WakeForQuery, Connect, NoConnection, RegisterPid, Finish
  <2>4. ~(Arrive(k) \/ RegisterKey(k) \/ RegisterFails(k) \/ Enrol(k) \/ Release(k))
    BY DEF Arrive, RegisterKey, RegisterFails, Enrol, Release
  <2>5. QED
    BY <1>2, <2>1, <2>2, <2>3, <2>4 DEF Request
<1>3. QED
  BY <1>1, <1>2

LEMMA VictimIsPinnedKept ==
  ASSUME TypeOK, OwnKey, Entries, HasVictim, VictimIsPinned, [Next]_vars
  PROVE  VictimIsPinned'
<1>1. CASE \E q \in Queries : Request(q)
  <2>1. PICK q \in Queries : Request(q)
    BY <1>1
  <2>2. UNCHANGED <<mon, why, victim>> /\ timedOut \subseteq timedOut'
    <3>1. timedOut \subseteq timedOut'
      BY <2>1 DEF Request, Arrive, RegisterKey, RegisterFails, Enrol, WakeForQuery,
          Connect,
         NoConnection, RegisterPid, Finish, Forget, CancelKey, WakeToRemove, Awaited,
         ForgetTimesOut, Release
    <3>2. QED
      BY <2>1, <3>1, MonitorIsLeftAlone
  <2>3. ASSUME mon \in {"kill", "send", "deliver"}, why = "expired"
        PROVE  victim \in timedOut' \/ Pinned(victim)'
    <3>1. victim \in Queries
      BY <2>3 DEF HasVictim
    <3>2. victim \in timedOut \/ Pinned(victim)
      BY <2>3 DEF VictimIsPinned
    <3>3. Pinned(victim) => victim \in timedOut' \/ Pinned(victim)'
      <4>1. SUFFICES ASSUME NEW k \in Queries, Pinned(k) PROVE k \in timedOut' \/ Pinned(k)'
        BY <2>2, <3>1 DEF Pinned
      <4>2. QED
        BY <2>1, <2>3, <4>1, PinnedStays
    <3>4. QED
      BY <2>2, <3>2, <3>3
  <2>4. QED
    BY <2>2, <2>3 DEF VictimIsPinned, Pinned
<1>2. CASE Monitor
  <2>1. UNCHANGED <<at, skey, waits, timedOut>>
    BY <1>2, RequestsAreLeftAlone
  <2>2. CASE NextExpired
    <3>1. PICK e \in deadlines : /\ selectorKeys' = selectorKeys \cup {e[2]}
                                 /\ terminated' = [terminated EXCEPT ![e[2]] = "pending"]
                                 /\ victim' = e[2]
      BY <2>2 DEF NextExpired
    <3>2. e[2] \in Queries /\ e[2] \in selectorKeys
      BY DEF TypeOK, QueriesTypeOK, Entries
    <3>3. skey[e[2]] = e[2] /\ at[e[2]] \in Enrolled
      BY <2>2, <3>2 DEF NextExpired, Entries, Alive
    <3>4. terminated'[e[2]] = "pending"
      BY <3>1, <3>2 DEF TypeOK, QueriesTypeOK
    <3>5. QED
      BY <2>1, <3>1, <3>2, <3>3, <3>4 DEF VictimIsPinned, Pinned
  <2>3. CASE ReadPid \/ Terminate
    BY <2>1, <2>3 DEF ReadPid, Terminate, VictimIsPinned, Pinned
  <2>4. CASE ~(NextExpired \/ ReadPid \/ Terminate)
    BY <1>2, <2>4 DEF VictimIsPinned, Monitor, Loop, NoneExpired, Select, Wake,
        SelectReturns, WakeFails, NextAbandoned,
         DropAbandoned, Deliver, DropExpired, Close, Die
  <2>5. QED
    BY <2>2, <2>3, <2>4
<1>3. CASE Outside \/ UNCHANGED vars
  BY <1>3 DEF Outside, AskToStop, WakeToStop, Disconnect, Tick, VictimIsPinned, Pinned
<1>4. QED
  BY <1>1, <1>2, <1>3 DEF Next, Outside

LEMMA VictimKeepsPidKept ==
  ASSUME TypeOK, OwnKey, OwnPid, HasVictim, VictimIsPinned, VictimKeepsPid, [Next]_vars
  PROVE  VictimKeepsPid'
<1> USE DEF TypeOK, RequestTypeOK, QueriesTypeOK
<1>1. CASE \E q \in Queries : Request(q)
  <2>1. PICK q \in Queries : Request(q)
    BY <1>1
  <2>2. UNCHANGED <<mon, why, victim, target>>
    BY <2>1, MonitorIsLeftAlone
  <2>3. ASSUME mon = "send", why = "expired", victim \notin timedOut'
        PROVE  at'[victim] \notin {"enrolled", "connect", "connected"} /\ pid'[victim] = target
    <3>1. victim \in Queries
      BY <2>3 DEF HasVictim
    <3>2. victim \notin timedOut
      BY <2>1, <2>3 DEF Request, Arrive, RegisterKey, RegisterFails, Enrol,
          WakeForQuery, Connect,
         NoConnection, RegisterPid, Finish, Forget, CancelKey, WakeToRemove, Awaited,
         ForgetTimesOut, Release
    <3>3. /\ at[victim] \notin {"enrolled", "connect", "connected"} /\ pid[victim] = target
          /\ Pinned(victim)
      BY <2>3, <3>2 DEF VictimKeepsPid, VictimIsPinned
    <3>4. CASE q # victim
      <4>1. at'[victim] = at[victim] /\ pid'[victim] = pid[victim]
        BY <2>1, <3>1, <3>4, OthersAreLeftAlone
      <4>2. QED
        BY <3>3, <4>1
    <3>5. CASE q = victim
      <4> USE <3>1, <3>3, <3>5 DEF Pinned, Enrolled
      <4>1. CASE Finish(q) \/ Forget(q) \/ CancelKey(q) \/ WakeToRemove(q) \/ Awaited(q)
              \/ ForgetTimesOut(q)
        BY <4>1 DEF Finish, Forget, CancelKey, WakeToRemove, Awaited, ForgetTimesOut
      <4>2. CASE WakeForQuery(q) \/ NoConnection(q) \/ Connect(q) \/ RegisterPid(q)
        BY <4>2 DEF WakeForQuery, NoConnection, Connect, RegisterPid
      <4>3. ~(Arrive(q) \/ RegisterKey(q) \/ RegisterFails(q) \/ Enrol(q) \/ Release(q))
        BY DEF Arrive, RegisterKey, RegisterFails, Enrol, Release
      <4>4. QED
        BY <2>1, <4>1, <4>2, <4>3 DEF Request
    <3>6. QED
      BY <3>4, <3>5
  <2>4. QED
    BY <2>2, <2>3 DEF VictimKeepsPid
<1>2. CASE Monitor
  <2>1. UNCHANGED <<at, pid, timedOut>>
    BY <1>2, RequestsAreLeftAlone
  <2>2. CASE ReadPid
    <3>1. SUFFICES ASSUME pgPid[victim] # NoPid, why = "expired", victim \notin timedOut
                   PROVE  /\ at[victim] \notin {"enrolled", "connect", "connected"}
                          /\ pid[victim] = pgPid[victim]
      BY <2>1, <2>2 DEF ReadPid, VictimKeepsPid
    <3>2. victim \in Queries /\ Pinned(victim)
      BY <2>2, <3>1 DEF ReadPid, HasVictim, VictimIsPinned
    <3>3. QED
      BY <3>1, <3>2 DEF OwnPid, Pinned, Enrolled
  <2>3. CASE ~ReadPid
    BY <1>2, <2>3 DEF VictimKeepsPid, Monitor, Loop, NextExpired, NoneExpired, Select,
        Wake, SelectReturns, WakeFails,
         NextAbandoned, DropAbandoned, Terminate, Deliver, DropExpired, Close, Die
  <2>4. QED
    BY <2>2, <2>3
<1>3. CASE Outside \/ UNCHANGED vars
  BY <1>3 DEF Outside, AskToStop, WakeToStop, Disconnect, Tick, VictimKeepsPid
<1>4. QED
  BY <1>1, <1>2, <1>3 DEF Next, Outside

-----------------------------------------------------------------------------
\* Sleep.

LEMMA SleepsInTimeKept ==
  ASSUME TypeOK, OwnKey, Entries, SleepsInTime, [Next]_vars
  PROVE  SleepsInTime'
<1>1. CASE \E q \in Queries : Request(q)
  <2>1. PICK q \in Queries : Request(q)
    BY <1>1
  <2>2. UNCHANGED <<mon, wakeAt>>
    BY <2>1, MonitorIsLeftAlone
  <2>3. CASE Enrol(q)
    <3>1. skey[q] = q /\ q \notin selectorKeys
      BY <2>3 DEF Enrol, OwnKey, Entries
    <3>2. at'[q] = "enrolled"
      BY <2>3, <3>1 DEF Enrol, TypeOK, RequestTypeOK
    <3>3. QED
      BY <3>2 DEF SleepsInTime
  <2>4. CASE WakeForQuery(q)
    BY <2>4 DEF WakeForQuery, SleepsInTime
  <2>5. CASE ~Enrol(q) /\ ~WakeForQuery(q)
    <3>1. deadlines' \subseteq deadlines /\ (wakeup => wakeup')
      BY <2>1, <2>5 DEF Request, Arrive, RegisterKey, RegisterFails, Connect,
          NoConnection,
         RegisterPid, Finish, Forget, CancelKey, WakeToRemove, Awaited,
          ForgetTimesOut, Release,
         DropQuery
    <3>2. \A r \in Queries : at[r] = "enrolled" => at'[r] = "enrolled"
      <4>1. at[q] # "enrolled"
        BY <2>1, <2>5 DEF Request, Arrive, RegisterKey, RegisterFails, Connect,
            NoConnection,
           RegisterPid, Finish, Forget, CancelKey, WakeToRemove, Awaited,
            ForgetTimesOut, Release
      <4>2. QED
        BY <2>1, <4>1, OthersAreLeftAlone
    <3>3. QED
      BY <2>2, <3>1, <3>2 DEF SleepsInTime
  <2>6. QED
    BY <2>3, <2>4, <2>5
<1>2. CASE Monitor
  <2>1. CASE NoneExpired
    <3>1. CASE deadlines = {}
      BY <2>1, <3>1 DEF NoneExpired, SleepsInTime
    <3>2. CASE \E e \in deadlines : Earliest(e) /\ wakeAt' = e[1]
      BY <2>1, <3>2 DEF NoneExpired, SleepsInTime, Earliest
    <3>3. QED
      BY <2>1, <3>1, <3>2 DEF NoneExpired
  <2>2. CASE Select
    BY <2>2 DEF Select, SleepsInTime
  <2>3. CASE ~NoneExpired /\ ~Select
    <3>1. mon' \notin {"select", "asleep"}
      BY <1>2, <2>3 DEF Monitor, Loop, NextExpired, Wake, SelectReturns, WakeFails,
          NextAbandoned, DropAbandoned,
           ReadPid, Terminate, Deliver, DropExpired, Close, Die
    <3>2. QED
      BY <3>1 DEF SleepsInTime
  <2>4. QED
    BY <2>1, <2>2, <2>3
<1>3. CASE Outside \/ UNCHANGED vars
  BY <1>3 DEF Outside, AskToStop, WakeToStop, Disconnect, Tick, SleepsInTime
<1>4. QED
  BY <1>1, <1>2, <1>3 DEF Next, Outside

LEMMA WatchesAllKept ==
  ASSUME TypeOK, OwnKey, Entries, WatchesAll, [Next]_vars
  PROVE  WatchesAll'
<1>1. CASE \E q \in Queries : Request(q)
  <2>1. PICK q \in Queries : Request(q)
    BY <1>1
  <2>2. UNCHANGED <<mon, watched>>
    BY <2>1, MonitorIsLeftAlone
  <2>3. CASE RegisterKey(q)
    <3>1. /\ at[q] = "arrived" /\ at'[q] = "keyed"
          /\ cancelled' = cancelled /\ wakeup' = wakeup
      BY <2>3 DEF RegisterKey, TypeOK, RequestTypeOK
    <3>2. \A r \in Queries : at[r] = "unkeyed" => at'[r] = "unkeyed"
      BY <2>1, <3>1, OthersAreLeftAlone
    <3>3. QED
      BY <2>2, <3>1, <3>2 DEF WatchesAll
  <2>4. CASE Enrol(q)
    <3>1. skey[q] = q /\ q \notin selectorKeys
      BY <2>4 DEF Enrol, OwnKey, Entries
    <3>2. /\ at[q] = "keyed" /\ at'[q] = "enrolled"
          /\ cancelled' = cancelled /\ wakeup' = wakeup
      BY <2>4, <3>1 DEF Enrol, TypeOK, RequestTypeOK
    <3>3. \A r \in Queries : at[r] = "unkeyed" => at'[r] = "unkeyed"
      BY <2>1, <3>2, OthersAreLeftAlone
    <3>4. QED
      BY <2>2, <3>2, <3>3 DEF WatchesAll
  <2>5. CASE WakeForQuery(q) \/ WakeToRemove(q)
    BY <2>5 DEF WakeForQuery, WakeToRemove, WatchesAll
  <2>6. CASE CancelKey(q)
    <3>1. at[q] = "forgetting" /\ at'[q] = "unkeyed" /\ chanKey' = chanKey /\ wakeup' = wakeup
      BY <2>6 DEF CancelKey, TypeOK, RequestTypeOK
    <3>2. \A r \in Queries : at[r] \in {"keyed", "enrolled"} => at'[r] \in {"keyed", "enrolled"}
      BY <2>1, <3>1, OthersAreLeftAlone
    <3>3. QED
      BY <2>2, <3>1, <3>2 DEF WatchesAll
  <2>7. CASE ~(RegisterKey(q) \/ Enrol(q) \/ WakeForQuery(q) \/ CancelKey(q) \/ WakeToRemove(q))
    <3>1. UNCHANGED <<chanKey, cancelled, wakeup>>
      BY <2>1, <2>7 DEF Request, Arrive, RegisterFails, Connect, NoConnection,
         RegisterPid, Finish, Forget, Awaited, ForgetTimesOut, Release
    <3>2. at[q] \notin {"keyed", "enrolled", "unkeyed"}
      BY <2>1, <2>7 DEF Request, Arrive, RegisterFails, Connect, NoConnection,
         RegisterPid, Finish, Forget, Awaited, ForgetTimesOut, Release
    <3>3. \A r \in Queries :
            at[r] \in {"keyed", "enrolled", "unkeyed"} => at'[r] = at[r]
      BY <2>1, <3>2, OthersAreLeftAlone
    <3>4. QED
      BY <2>2, <3>1, <3>3 DEF WatchesAll
  <2>8. QED
    BY <2>3, <2>4, <2>5, <2>6, <2>7
<1>2. CASE Monitor
  <2>1. CASE Select
    BY <2>1 DEF Select, RemoveCancelled, WatchesAll
  <2>2. CASE ~Select
    <3>1. mon' # "asleep"
      BY <1>2, <2>2 DEF Monitor, Loop, NextExpired, NoneExpired, Wake, SelectReturns,
          WakeFails, NextAbandoned,
           DropAbandoned, ReadPid, Terminate, Deliver, DropExpired, Close, Die
    <3>2. QED
      BY <3>1 DEF WatchesAll
  <2>3. QED
    BY <2>1, <2>2
<1>3. CASE Outside \/ UNCHANGED vars
  BY <1>3 DEF Outside, AskToStop, WakeToStop, Disconnect, Tick, WatchesAll
<1>4. QED
  BY <1>1, <1>2, <1>3 DEF Next, Outside

LEMMA SeesStopKept ==
  ASSUME TypeOK, SeesStop, [Next]_vars
  PROVE  SeesStop'
<1> USE DEF SeesStop
<1>1. CASE \E q \in Queries : Request(q)
  <2>1. PICK q \in Queries : Request(q)
    BY <1>1
  <2>2. wakeup => wakeup'
    BY <2>1 DEF Request, Arrive, RegisterKey, RegisterFails, Enrol, WakeForQuery,
        Connect,
         NoConnection, RegisterPid, Finish, Forget, CancelKey, WakeToRemove, Awaited,
         ForgetTimesOut, Release
  <2>3. UNCHANGED <<mon, why, stop>>
    BY <2>1, MonitorIsLeftAlone
  <2>4. QED
    BY <2>2, <2>3
<1>2. CASE Monitor
  BY <1>2 DEF Monitor, Loop, NextExpired, NoneExpired, Select, Wake, SelectReturns,
      WakeFails, NextAbandoned,
       DropAbandoned, ReadPid, Terminate, Deliver, DropExpired, Close, Die
<1>3. CASE Outside \/ UNCHANGED vars
  BY <1>3 DEF Outside, AskToStop, WakeToStop, Disconnect, Tick
<1>4. QED
  BY <1>1, <1>2, <1>3 DEF Next, Outside

-----------------------------------------------------------------------------
\* The inductive invariant.

LEMMA IInvInit == Init => IInv
<1> SUFFICES ASSUME Init PROVE IInv
  OBVIOUS
<1> USE DEF Init
<1>1. TypeOK
  <2>1. RequestTypeOK
    BY DEF RequestTypeOK, RequestStates
  <2>2. QueriesTypeOK /\ SelectTypeOK
    BY DEF QueriesTypeOK, SelectTypeOK
  <2>3. MonitorTypeOK
    <3>1. clock \in 0..MaxTime /\ wakeAt \in Deadlines
      OBVIOUS
    <3>2. failing \in BOOLEAN
      OBVIOUS
    <3>3. mon \in MonitorStates /\ why \in {"none", "expired", "abandoned"}
      BY DEF MonitorStates
    <3>4. /\ doomed \subseteq Queries /\ todo \subseteq doomed
          /\ victim \in Queries \cup {NoKey} /\ target \in Pids \cup {NoPid}
      OBVIOUS
    <3>5. QED
      BY <3>1, <3>2, <3>3, <3>4 DEF MonitorTypeOK
  <2>4. QED
    BY <2>1, <2>2, <2>3 DEF TypeOK
<1>2. OwnKey /\ OwnChannel /\ NoneWhenClosed /\ Entries /\ OwnPid /\ OneHolder
  BY DEF OwnKey, OwnChannel, NoneWhenClosed, Entries, OwnPid, OneHolder
<1>3. ValidKey
  BY DEF ValidKey
<1>4. HasVictim /\ VictimIsPinned /\ VictimKeepsPid /\ SleepsInTime /\ WatchesAll /\ SeesStop
  BY DEF HasVictim, VictimIsPinned, VictimKeepsPid, SleepsInTime, WatchesAll, SeesStop
<1>5. QED
  BY <1>1, <1>2, <1>3, <1>4 DEF IInv

LEMMA IInvStep == IInv /\ [Next]_vars => IInv'
<1> SUFFICES ASSUME IInv, [Next]_vars PROVE IInv'
  OBVIOUS
<1>1. /\ TypeOK /\ OwnKey /\ OwnChannel /\ NoneWhenClosed /\ ValidKey /\ Entries /\ OwnPid
      /\ OneHolder /\ HasVictim /\ VictimIsPinned /\ VictimKeepsPid
      /\ SleepsInTime /\ WatchesAll /\ SeesStop
  BY DEF IInv
<1>2. TypeOK' /\ OwnKey' /\ OwnChannel'
  BY <1>1, TypesAreKept, OwnKeyKept, OwnChannelKept
<1>3. NoneWhenClosed' /\ ValidKey' /\ Entries' /\ OwnPid'
  BY <1>1, NoneWhenClosedKept, ValidKeyKept, EntriesKept, OwnPidKept
<1>4. OneHolder'
  BY <1>1, OneHolderKept
<1>5. HasVictim' /\ VictimIsPinned' /\ VictimKeepsPid'
  BY <1>1, HasVictimKept, VictimIsPinnedKept, VictimKeepsPidKept
<1>6. SleepsInTime' /\ WatchesAll' /\ SeesStop'
  BY <1>1, SleepsInTimeKept, WatchesAllKept, SeesStopKept
<1>7. QED
  BY <1>2, <1>3, <1>4, <1>5, <1>6 DEF IInv

LEMMA IInvAlways == Spec => []IInv
BY IInvInit, IInvStep, PTL DEF Spec

-----------------------------------------------------------------------------
\* Every variable of the monitor and of the query threads keeps its type;
\* in particular there is always a backend to terminate in a call of
\* pg_terminate_backend.
THEOREM TypeCorrect == Spec => []TypeOK
<1>1. IInv => TypeOK
  BY DEF IInv
<1>2. QED
  BY <1>1, IInvAlways, PTL

\* An expired query is terminated on its own backend: forget keeps the
\* connection until then, unless it gives up waiting.
THEOREM ExpiryHitsItsOwn == Spec => []ExpiredHitsItsOwn
<1>1. IInv => ExpiredHitsItsOwn
  <2> SUFFICES ASSUME IInv, mon = "send", why = "expired", victim \notin timedOut
               PROVE  OwnBackend
    BY DEF ExpiredHitsItsOwn, OwnBackend
  <2>1. /\ victim \in Queries /\ skey[victim] = victim
        /\ pid[victim] = target /\ target \in Pids
    BY DEF IInv, HasVictim, VictimIsPinned, VictimKeepsPid, Pinned
  <2>2. {r \in Queries : pid[r] = target} = {victim}
    BY <2>1 DEF IInv, OneHolder
  <2>3. QED
    BY <2>1, <2>2 DEF OwnBackend
<1>2. QED
  BY <1>1, IInvAlways, PTL

\* Only an abandoned query's termination, or one whose forget has given up
\* waiting, can hit another query: the promise rules out all other ways.
THEOREM OnlyAbandonedHitOthers ==
  Spec => [](NoForeignBackend \/ why = "abandoned" \/ victim \in timedOut)
<1>1. IInv => NoForeignBackend \/ why = "abandoned" \/ victim \in timedOut
  <2> SUFFICES ASSUME IInv, mon = "send", why # "abandoned", victim \notin timedOut,
                      NEW q \in Queries, pid[q] = target
               PROVE  skey[q] = victim
    BY DEF NoForeignBackend
  <2>1. why = "expired"
    BY DEF IInv, HasVictim
  <2>2. skey[victim] = victim /\ pid[victim] = target /\ target \in Pids /\ victim \in Queries
    BY <2>1 DEF IInv, HasVictim, VictimIsPinned, VictimKeepsPid, Pinned
  <2>3. q = victim
    BY <2>2 DEF IInv, OneHolder
  <2>4. QED
    BY <2>2, <2>3
<1>2. QED
  BY <1>1, IInvAlways, PTL

\* A query that a living monitor has forgotten is in neither of its maps.
THEOREM ForgottenStaysForgotten == Spec => []ForgottenForGood
<1>1. IInv => ForgottenForGood
  BY DEF IInv, TypeOK, QueriesTypeOK, OwnKey, Entries, Enrolled, ForgottenForGood
<1>2. QED
  BY <1>1, IInvAlways, PTL

\* A request finds its channel free, or about to be: no "same channel" error.
THEOREM ChannelStaysFree == Spec => []ChannelIsFree
<1>1. IInv => ChannelIsFree
  BY DEF IInv, TypeOK, RequestTypeOK, SelectTypeOK, OwnChannel, ValidKey, Enrolled,
      ChannelIsFree
<1>2. QED
  BY <1>1, IInvAlways, PTL

\* The monitor does not sleep past a deadline, a channel, a cancelled key or
\* a call of stop.
THEOREM MonitorWakesInTime == Spec => []NoOversleep
<1>1. IInv => NoOversleep
  BY DEF IInv, SleepsInTime, WatchesAll, SeesStop, NoOversleep
<1>2. QED
  BY <1>1, IInvAlways, PTL
=============================================================================
