---------------------------- MODULE CommandBuffer ----------------------------
(***************************************************************************)
(* The buffer of the command channel: deftype SortedCommandBuffer in       *)
(* queue.clj.  It hands out the stored commands in the order of their      *)
(* stockpile ids, and marks as obsolete (:delete? true) a catalog or fact  *)
(* set that a later one for the same node makes useless.                   *)
(*                                                                         *)
(* core.async runs every buffer operation under the mutex of the channel,  *)
(* so each operation is one atomic step of whoever takes it: Add and       *)
(* Remove are actions for the modules that extend this one.                *)
(***************************************************************************)
EXTENDS Integers, FiniteSets

CONSTANTS
  Keys,         \* the [command-type certname] pairs of catalogs and facts
  NoKey,        \* the key of every other command (reports, deactivations)
  NoTime,       \* producer-ts of a command submitted without one
  NoCmd,        \* nil, where a command reference is expected
  MaxId,        \* bound: how many commands the stockpile ever stores
  MaxTime,      \* bound: the largest producer timestamp
  MaxRetries,   \* maximum-allowable-retries (command.clj)
  MaxEnqueued   \* max-entries, from the developer setting max-enqueued

ASSUME BufferAssumption ==
  /\ NoKey \notin Keys
  /\ NoTime \notin Int
  /\ MaxId \in Nat
  /\ MaxTime \in Nat
  /\ MaxRetries \in Nat
  /\ MaxEnqueued \in Nat \ {0}

Ids   == 1..MaxId
Times == 1..MaxTime

(***************************************************************************)
(* A CommandRef: what the program keeps in memory of a stored command.     *)
(* "attempts" is the number of failures recorded by cons-attempt.          *)
(***************************************************************************)
Ref == [id: Ids, key: Keys \cup {NoKey}, stamp: Times \cup {NoTime},
        delete: BOOLEAN, attempts: 0..MaxRetries]

ASSUME NoCmdAssumption == NoCmd \notin Ref

VARIABLES
  fifo,         \* fifo-queue: the TreeMap, as the set of its values
  certnames,    \* certnames-map: for each key, the newest command known
  invalidated   \* the :invalidated counter, fed by delete-update-fn

bufferVars == <<fifo, certnames, invalidated>>

EmptyBuffer ==
  /\ fifo = {}
  /\ certnames = [k \in Keys |-> NoCmd]

BufferTypeOK ==
  /\ fifo \subseteq Ref
  /\ certnames \in [Keys -> Ref \cup {NoCmd}]
  /\ invalidated \in Int

-----------------------------------------------------------------------------

Full == Cardinality(fifo) >= MaxEnqueued

\* TreeMap.put: the entry of the same id, if any, is replaced.
PutIn(queue, r) == {q \in queue : q.id # r.id} \cup {r}

Marked(r) == [r EXCEPT !.delete = TRUE]

\* Only catalogs and facts that carry a producer timestamp are compared.
Indexed(r) == r.key \in Keys /\ r.stamp # NoTime

AddUnindexed(r) ==
  /\ ~Indexed(r)
  /\ fifo' = PutIn(fifo, r)
  /\ UNCHANGED <<certnames, invalidated>>

AddFirst(r) ==
  /\ Indexed(r)
  /\ certnames[r.key] = NoCmd
  /\ certnames' = [certnames EXCEPT ![r.key] = r]
  /\ fifo' = PutIn(fifo, r)
  /\ UNCHANGED invalidated

\* Faulty variant: the comparison the wrong way round.
AddNewerReversed(r) ==
  /\ Indexed(r)
  /\ certnames[r.key] # NoCmd
  /\ r.stamp < certnames[r.key].stamp
  /\ certnames' = [certnames EXCEPT ![r.key] = r]
  /\ fifo' = PutIn(PutIn(fifo, Marked(certnames[r.key])), r)
  /\ invalidated' = invalidated + 1

\* The newcomer is strictly newer: the old entry is put back, marked.
AddNewer(r) ==
  /\ Indexed(r)
  /\ certnames[r.key] # NoCmd
  /\ r.stamp > certnames[r.key].stamp
  /\ certnames' = [certnames EXCEPT ![r.key] = r]
  /\ fifo' = PutIn(PutIn(fifo, Marked(certnames[r.key])), r)
  /\ invalidated' = invalidated + 1

\* The newcomer is older or as old: it is the one that is marked.
AddStale(r) ==
  /\ Indexed(r)
  /\ certnames[r.key] # NoCmd
  /\ ~(r.stamp > certnames[r.key].stamp)
  /\ fifo' = PutIn(fifo, Marked(r))
  /\ invalidated' = invalidated + 1
  /\ UNCHANGED certnames

Add(r) == AddUnindexed(r) \/ AddFirst(r) \/ AddNewer(r) \/ AddStale(r)

\* The entry pollFirstEntry takes out.
IsFirst(r) == r \in fifo /\ \A q \in fifo : r.id <= q.id

\* Faulty variant: certnames-map is left alone.
RemoveKeepsIndex(r) ==
  /\ IsFirst(r)
  /\ fifo' = fifo \ {r}
  /\ UNCHANGED <<certnames, invalidated>>

\* The node's entry in certnames-map goes whichever command it holds.
Remove(r) ==
  /\ IsFirst(r)
  /\ fifo' = fifo \ {r}
  /\ certnames' = IF r.key \in Keys THEN [certnames EXCEPT ![r.key] = NoCmd]
                  ELSE certnames
  /\ UNCHANGED invalidated

-----------------------------------------------------------------------------

\* No two entries of the TreeMap share an id.
UniqueIds == \A q, r \in fifo : q.id = r.id => q = r

(***************************************************************************)
(* certnames-map never points at a command that has left the queue.        *)
(* add!* puts the mapped command back into the TreeMap to mark it: were it *)
(* already handed to a worker, that would bring it back for a second,      *)
(* deleting, run of a command being processed.                             *)
(***************************************************************************)
IndexInQueue ==
  \A k \in Keys : certnames[k] # NoCmd =>
    /\ certnames[k] \in fifo
    /\ certnames[k].key = k
    /\ certnames[k].stamp # NoTime
=============================================================================
