------------------------ MODULE CommandCounterProofs ------------------------
(***************************************************************************)
(* The counters of the command path, proved from where its commands are.   *)
(* As a command is in one place only, a set of references has as many      *)
(* members as it has ids, and a step that moves a reference from one place *)
(* to another, or marks it, leaves the ids in memory as they are.          *)
(***************************************************************************)
EXTENDS CommandSafetyProofs

USE BufferAssumption, NoCmdAssumption, PipelineAssumption
    DEF BufferAssumption, NoCmdAssumption, PipelineAssumption, bufferVars, diskVars,
        submitVars, loadVars, workVars, history, countVars

-----------------------------------------------------------------------------
\* No reference outlives its file.

LEMMA HeldOnItsWay == HeldOnDisk <=> OnTheWay \subseteq disk \cup lost
BY InMemoryIds DEF HeldOnDisk, OnTheWay

\* A worker that has finished with a command was the only one to hold it.
LEMMA FinishClears ==
  ASSUME Typed, Placed, NEW j \in running, Finish(j),
         UNCHANGED <<submitter, loadVars, fifo, shovel, delayed>>
  PROVE  OnTheWay' \subseteq OnTheWay \ {j.ref.id}
<1>1. j.ref.id \in IdsOf(InWorkers)
  BY DEF IdsOf, InWorkers
<1>2. j.ref.id \notin Putting \cup Unloaded \cup IdsOf(fifo) \cup IdsOf(InShovel)
                        \cup IdsOf(delayed)
  BY <1>1 DEF Placed, Apart
<1>3. IdsOf(InWorkers)' \subseteq IdsOf(InWorkers) /\ j.ref.id \notin IdsOf(InWorkers)'
  BY WorkersKept, FinishLeaves
<1>4. QED
  BY <1>2, <1>3, PlacesKept DEF OnTheWay

LEMMA SubmissionOnDisk ==
  ASSUME Typed, Placed, OnTheWay \subseteq disk \cup lost,
         NEW s \in Submitters, Arrive(s) \/ Submission(s)
  PROVE  OnTheWay' \subseteq disk' \cup lost'
<1> USE DEF Typed, TypeOK, SubmitTypeOK, SubmitState
<1>1. CASE \/ Arrive(s) \/ Acquire(s) \/ AcquireInterrupted(s) \/ StoreFails(s)
           \/ PutInterrupted(s) \/ Count(s)
  <2>1. \A t \in Submitters : submitter'[t].at = "put" => submitter'[t] = submitter[t]
    BY <1>1 DEF Arrive, Acquire, AcquireInterrupted, StoreFails, PutInterrupted, Count
  <2>2. Putting' \subseteq Putting
    BY <2>1 DEF Putting
  <2>3. UNCHANGED <<loadVars, fifo, shovel, running, delayed, disk, lost>>
    BY <1>1 DEF Arrive, Acquire, AcquireInterrupted, StoreFails, PutInterrupted, Count
  <2>4. QED
    BY <2>2, <2>3, PlacesKept DEF OnTheWay
<1>2. CASE Store(s)
  <2> DEFINE n == Len(stored')
  <2>1. /\ submitter' = [submitter EXCEPT ![s] = [at |-> "put", id |-> n]]
        /\ disk' = disk \cup {n}
        /\ loader' \subseteq loader \cup {n}
        /\ UNCHANGED <<ceiling, fifo, shovel, running, delayed, lost>>
    BY <1>2 DEF Store
  <2> HIDE DEF n
  <2>2. Putting' \subseteq Putting \cup {n}
    BY <2>1 DEF Putting
  <2>3. Unloaded' \subseteq Unloaded \cup {n}
    BY <2>1 DEF Unloaded
  <2>4. QED
    BY <2>1, <2>2, <2>3, PlacesKept DEF OnTheWay
<1>3. CASE Put(s)
  <2> DEFINE n == submitter[s].id
  <2>1. n \in Putting /\ RefOf(n).id = n
    BY <1>3 DEF Put, Putting, RefOf
  <2>2. RefOf(n) \in Ref
    BY <2>1, RefOfTyped, PlacesStored
  <2>3. IdsOf(fifo)' \subseteq IdsOf(fifo) \cup {n}
    BY <1>3, <2>1, <2>2, PutOnChannelPlaced DEF Put, Placed, Apart
  <2>4. \A t \in Submitters : submitter'[t].at = "put" => submitter'[t] = submitter[t]
    BY <1>3 DEF Put
  <2>5. Putting' \subseteq Putting
    BY <2>4 DEF Putting
  <2>6. UNCHANGED <<loadVars, shovel, running, delayed, disk, lost>>
    BY <1>3 DEF Put
  <2>7. QED
    BY <2>1, <2>3, <2>5, <2>6, PlacesKept DEF OnTheWay
<1>4. QED
  BY <1>1, <1>2, <1>3 DEF Submission

LEMMA LoadingOnDisk ==
  ASSUME Typed, Placed, OnTheWay \subseteq disk \cup lost, Loading
  PROVE  OnTheWay' \subseteq disk' \cup lost'
<1>1. ASSUME NEW i \in loader, Load(i) PROVE OnTheWay' \subseteq disk' \cup lost'
  <2>1. i \in Unloaded /\ RefOf(i).id = i
    BY <1>1 DEF Load, Unloaded, RefOf
  <2>2. RefOf(i) \in Ref
    BY <2>1, RefOfTyped, PlacesStored DEF Typed, TypeOK
  <2>3. IdsOf(fifo)' \subseteq IdsOf(fifo) \cup {i}
    BY <1>1, <2>1, <2>2, PutOnChannelPlaced DEF Load, Placed, Apart
  <2>4. Unloaded' \subseteq Unloaded
    BY <1>1 DEF Load, Unloaded
  <2>5. UNCHANGED <<submitter, shovel, running, delayed, disk, lost>>
    BY <1>1 DEF Load
  <2>6. QED
    BY <2>1, <2>3, <2>4, <2>5, PlacesKept DEF OnTheWay
<1>2. CASE (\E i \in loader : LoadSkips(i)) \/ LoadCounts
  <2>1. Unloaded' \subseteq Unloaded
    BY <1>2 DEF LoadSkips, LoadCounts, Unloaded
  <2>2. UNCHANGED <<submitter, fifo, shovel, running, delayed, disk, lost>>
    BY <1>2 DEF LoadSkips, LoadCounts
  <2>3. QED
    BY <2>1, <2>2, PlacesKept DEF OnTheWay
<1>3. QED
  BY <1>1, <1>2 DEF Loading

LEMMA HandingOnDisk ==
  ASSUME Typed, Placed, OnTheWay \subseteq disk \cup lost,
         Shoveling \/ \E r \in delayed : Revive(r)
  PROVE  OnTheWay' \subseteq disk' \cup lost'
<1>1. ASSUME NEW r \in fifo, Take(r) PROVE OnTheWay' \subseteq disk' \cup lost'
  <2>1. IdsOf(fifo)' \subseteq IdsOf(fifo) /\ r.id \in IdsOf(fifo)
    BY <1>1 DEF Take, Remove, IdsOf
  <2>2. IdsOf(InShovel)' \subseteq {r.id}
    BY <1>1 DEF Take, InShovel, IdsOf
  <2>3. UNCHANGED <<submitter, loadVars, running, delayed, disk, lost>>
    BY <1>1 DEF Take
  <2>4. QED
    BY <2>1, <2>2, <2>3, PlacesKept DEF OnTheWay
<1>2. CASE Dispatch
  <2> DEFINE j == [ref |-> shovel, at |-> "start"]
  <2>1. /\ shovel # NoCmd /\ shovel' = NoCmd
        /\ running' = running \cup {j} /\ j.ref = shovel
    BY <1>2 DEF Dispatch
  <2>2. IdsOf(InShovel) = {shovel.id} /\ IdsOf(InShovel)' = {}
    BY <2>1 DEF InShovel, IdsOf
  <2>3. IdsOf(InWorkers)' \subseteq IdsOf(InWorkers) \cup {shovel.id}
    <3> HIDE DEF j
    <3> QED
      BY <2>1 DEF InWorkers, IdsOf
  <2>4. UNCHANGED <<submitter, loadVars, fifo, delayed, disk, lost>>
    BY <1>2 DEF Dispatch
  <2>5. QED
    BY <2>2, <2>3, <2>4, PlacesKept DEF OnTheWay
<1>3. ASSUME NEW r \in delayed, Revive(r) PROVE OnTheWay' \subseteq disk' \cup lost'
  <2>1. r \in Ref /\ r.id \in IdsOf(delayed)
    BY DEF Typed, TypeOK, OtherTypeOK, IdsOf
  <2>2. IdsOf(fifo)' \subseteq IdsOf(fifo) \cup {r.id}
    BY <1>3, <2>1, PutOnChannelPlaced DEF Placed, Apart, Revive
  <2>3. IdsOf(delayed)' \subseteq IdsOf(delayed)
    BY <1>3 DEF Revive, IdsOf
  <2>4. UNCHANGED <<submitter, loadVars, shovel, running, disk, lost>>
    BY <1>3 DEF Revive
  <2>5. QED
    BY <2>1, <2>2, <2>3, <2>4, PlacesKept DEF OnTheWay
<1>4. CASE PassPause \/ Grant
  BY <1>4, PlacesKept DEF PassPause, Grant, OnTheWay
<1>5. CASE Rejected
  <2>1. UNCHANGED <<submitter, loadVars, fifo, running, delayed, disk, lost>>
        /\ shovel' = NoCmd
    BY <1>5 DEF Rejected
  <2>2. IdsOf(InShovel)' = {}
    BY <2>1 DEF IdsOf, InShovel
  <2>3. QED
    BY <2>1, <2>2, PlacesKept DEF OnTheWay
<1>6. QED
  BY <1>1, <1>2, <1>3, <1>4, <1>5 DEF Shoveling

LEMMA WorkOnDisk ==
  ASSUME Typed, Placed, OnTheWay \subseteq disk \cup lost, NEW j \in running, Work(j)
  PROVE  OnTheWay' \subseteq disk' \cup lost'
<1>1. UNCHANGED <<submitter, loadVars, fifo, shovel, lost>>
  BY DEF Work, Missing, DropObsolete, Execute, Ack, FailTransiently, AckFails,
         FailForGood, Discard, DiscardFails, Retry
<1>2. CASE Missing(j) \/ DropObsolete(j) \/ Ack(j) \/ Discard(j) \/ DiscardFails(j)
  <2>1. Finish(j) /\ UNCHANGED delayed /\ disk \ {j.ref.id} \subseteq disk'
    BY <1>2 DEF Missing, DropObsolete, Ack, Discard, DiscardFails, MoveToDlo
  <2>2. OnTheWay' \subseteq OnTheWay \ {j.ref.id}
    BY <1>1, <2>1, FinishClears
  <2>3. QED
    BY <1>1, <2>1, <2>2
<1>3. CASE Execute(j) \/ FailForGood(j) \/ FailTransiently(j) \/ AckFails(j)
  <2>1. UNCHANGED disk
    BY <1>3 DEF Execute, FailForGood, FailTransiently, AckFails, Retry
  <2>2. /\ \/ Finish(j)
           \/ \E at \in {"executed", "exhausted", "fatal"} : Steps(j, at)
        /\ UNCHANGED delayed \/ Delay(j)
    BY <1>3 DEF Execute, FailForGood, FailTransiently, AckFails, Retry, Delay
  <2>3. IdsOf(InWorkers)' \subseteq IdsOf(InWorkers) /\ j.ref.id \in IdsOf(InWorkers)
    BY <2>2, WorkersKept DEF IdsOf, InWorkers
  <2>4. IdsOf(delayed)' \subseteq IdsOf(delayed) \cup {j.ref.id}
    <3> DEFINE r == [j.ref EXCEPT !.attempts = @ + 1]
    <3>1. r.id = j.ref.id
      BY DEF Typed, TypeOK, WorkTypeOK, Job, Ref
    <3>2. delayed' = delayed \/ delayed' = delayed \cup {r}
      BY <2>2 DEF Delay
    <3> HIDE DEF r
    <3>3. QED
      BY <3>1, <3>2 DEF IdsOf
  <2>5. QED
    BY <1>1, <2>1, <2>3, <2>4, PlacesKept DEF OnTheWay
<1>4. QED
  BY <1>2, <1>3 DEF Work

LEMMA NextOnDisk == ASSUME Typed, Placed, HeldOnDisk, [Next]_vars PROVE HeldOnDisk'
<1>1. OnTheWay \subseteq disk \cup lost
  BY HeldOnItsWay
<1> SUFFICES OnTheWay' \subseteq disk' \cup lost'
  BY DEF HeldOnDisk, OnTheWay, InMemory, IdsOf
<1>2. CASE Crash \/ Reload
  <2>1. Restart
    BY <1>2 DEF Crash, Reload
  <2>2. Unloaded' \subseteq disk' /\ Putting' = {} /\ fifo' = {} /\ shovel' = NoCmd
        /\ running' = {} /\ delayed' = {}
    BY <2>1 DEF Restart, Unloaded, Putting
  <2>3. IdsOf(fifo)' = {} /\ IdsOf(InShovel)' = {} /\ IdsOf(InWorkers)' = {}
        /\ IdsOf(delayed)' = {}
    BY <2>2 DEF IdsOf, InShovel, InWorkers
  <2>4. QED
    BY <2>2, <2>3 DEF OnTheWay
<1>3. CASE Stop
  <2>1. UNCHANGED <<submitter, loadVars, fifo, running, delayed, disk, lost>>
        /\ shovel' \in {shovel, NoCmd}
    BY <1>3 DEF Stop
  <2>2. IdsOf(InShovel)' \subseteq IdsOf(InShovel)
    BY <2>1 DEF IdsOf, InShovel
  <2>3. QED
    BY <1>1, <2>1, <2>2, PlacesKept DEF OnTheWay
<1>4. CASE PauseOrResume \/ CountRevival \/ UNCHANGED vars
  BY <1>1, <1>4, PlacesKept DEF PauseOrResume, CountRevival, vars, OnTheWay
<1>5. ASSUME NEW i \in disk, LoseFile(i) PROVE OnTheWay' \subseteq disk' \cup lost'
  BY <1>1, <1>5, PlacesKept DEF LoseFile, OnTheWay
<1>6. QED
  BY <1>1, <1>2, <1>3, <1>4, <1>5, SubmissionOnDisk, LoadingOnDisk, HandingOnDisk,
     WorkOnDisk DEF Next

LEMMA AlwaysOnDisk == Spec => [](Typed /\ Placed /\ HeldOnDisk)
<1>1. Init => HeldOnDisk
  BY DEF Init, EmptyBuffer, HeldOnDisk, Putting, Unloaded, InMemory, InShovel,
         InWorkers, IdsOf
<1>2. Typed /\ Placed /\ HeldOnDisk /\ [Next]_vars => HeldOnDisk'
  BY NextOnDisk
<1>3. QED
  BY <1>1, <1>2, AlwaysPlaced, PTL DEF Spec

(***************************************************************************)
(* Whoever holds a command (a submission about to put it, the loader, the  *)
(* channel, the shovel, a worker, a scheduled retry) finds its file, but   *)
(* for files removed behind the program's back.                            *)
(***************************************************************************)
THEOREM FilesAreThere == Spec => []HeldOnDisk
BY AlwaysOnDisk, PTL

-----------------------------------------------------------------------------
\* How many.  Sets of references are counted by their ids.

Single(refs) == \A q, r \in refs : q.id = r.id => q = r

LEMMA CountedByIds ==
  ASSUME NEW refs \in SUBSET Ref, Single(refs)
  PROVE  /\ IsFiniteSet(refs) /\ IsFiniteSet(IdsOf(refs))
         /\ Cardinality(refs) = Cardinality(IdsOf(refs))
         /\ Cardinality(refs) \in Nat
<1> DEFINE id == [r \in refs |-> r.id]
<1>1. IdsOf(refs) \subseteq Ids
  BY DEF IdsOf, Ref
<1>2. IsFiniteSet(Ids)
  BY FS_Interval DEF Ids
<1>3. IsFiniteSet(IdsOf(refs))
  BY <1>1, <1>2, FS_Subset
<1>4. id \in Injection(refs, IdsOf(refs))
  BY DEF Injection, IsInjective, IdsOf, Single
<1>5. id \in Surjection(refs, IdsOf(refs))
  BY DEF Surjection, IdsOf
<1> HIDE DEF id
<1>6. IsFiniteSet(refs) /\ Cardinality(refs) = Cardinality(IdsOf(refs))
  BY <1>3, <1>4, <1>5, FS_Injection
<1>7. QED
  BY <1>3, <1>6, FS_CardinalityType

\* One member more or less, at most.
LEMMA GrowsByOne ==
  ASSUME NEW S, IsFiniteSet(S), NEW x, NEW T \in SUBSET (S \cup {x})
  PROVE  IsFiniteSet(T) /\ Cardinality(T) <= Cardinality(S) + 1
<1>1. /\ IsFiniteSet(S \cup {x}) /\ Cardinality(S) \in Nat
      /\ Cardinality(S \cup {x}) = IF x \in S THEN Cardinality(S) ELSE Cardinality(S) + 1
  BY FS_AddElement, FS_CardinalityType
<1>2. IsFiniteSet(T) /\ Cardinality(T) <= Cardinality(S \cup {x})
  BY <1>1, FS_Subset
<1>3. /\ Cardinality(S) \in Nat /\ Cardinality(T) \in Nat
      /\ Cardinality(S \cup {x}) \in Nat
  BY <1>1, <1>2, FS_CardinalityType
<1>4. QED
  BY <1>1, <1>2, <1>3

LEMMA ShrinksByOne ==
  ASSUME NEW S, IsFiniteSet(S), NEW x \in S
  PROVE  IsFiniteSet(S \ {x}) /\ Cardinality(S \ {x}) = Cardinality(S) - 1
BY FS_RemoveElement

MarkedIn(refs) == {r \in refs : r.delete}

LEMMA MemorySingle ==
  ASSUME Typed, Placed
  PROVE  /\ InMemory \subseteq Ref /\ Single(InMemory)
         /\ delayed \subseteq Ref /\ Single(delayed)
         /\ MarkedIn(InMemory) \subseteq Ref /\ Single(MarkedIn(InMemory))
<1>1. InMemory \subseteq Ref
  BY DEF Typed, TypeOK, BufferTypeOK, OtherTypeOK, WorkTypeOK, Job, InMemory,
         InShovel, InWorkers
<1>2. Single(fifo) /\ Single(delayed) /\ Single(InShovel) /\ Single(InWorkers)
  BY DEF Placed, OneEach, UniqueIds, Single, InShovel, InWorkers
<1>3. /\ IdsOf(fifo) \cap (IdsOf(InShovel) \cup IdsOf(InWorkers) \cup IdsOf(delayed)) = {}
      /\ IdsOf(InShovel) \cap (IdsOf(InWorkers) \cup IdsOf(delayed)) = {}
      /\ IdsOf(InWorkers) \cap IdsOf(delayed) = {}
  BY DEF Placed, Apart
<1>4. ASSUME NEW A, NEW B, Single(A), Single(B), IdsOf(A) \cap IdsOf(B) = {}
      PROVE  Single(A \cup B) /\ IdsOf(A \cup B) = IdsOf(A) \cup IdsOf(B)
  BY <1>4 DEF Single, IdsOf
<1>5. Single(fifo \cup InShovel) /\ IdsOf(fifo \cup InShovel) = IdsOf(fifo) \cup IdsOf(InShovel)
  BY <1>2, <1>3, <1>4
<1>6. /\ Single(InWorkers \cup delayed)
      /\ IdsOf(InWorkers \cup delayed) = IdsOf(InWorkers) \cup IdsOf(delayed)
  BY <1>2, <1>3, <1>4
<1>7. Single((fifo \cup InShovel) \cup (InWorkers \cup delayed))
  BY <1>3, <1>4, <1>5, <1>6
<1>8. InMemory = (fifo \cup InShovel) \cup (InWorkers \cup delayed)
  BY DEF InMemory
<1>9. QED
  BY <1>1, <1>2, <1>7, <1>8 DEF InMemory, MarkedIn, Single

\* What the steps do to the references in memory.
LEMMA HandedOver ==
  ASSUME Typed, (\E r \in fifo : Take(r)) \/ Dispatch
  PROVE  InMemory' = InMemory
<1>1. ASSUME NEW r \in fifo, Take(r) PROVE InMemory' = InMemory
  <2>1. r # NoCmd
    BY DEF Typed, TypeOK, BufferTypeOK
  <2>2. InShovel = {} /\ InShovel' = {r} /\ fifo' = fifo \ {r}
        /\ UNCHANGED <<running, delayed>>
    BY <1>1, <2>1 DEF Take, Remove, InShovel
  <2>3. QED
    BY <2>2 DEF InMemory, InWorkers
<1>2. CASE Dispatch
  <2> DEFINE j == [ref |-> shovel, at |-> "start"]
  <2>1. InShovel = {shovel} /\ InShovel' = {} /\ UNCHANGED <<fifo, delayed>>
    BY <1>2 DEF Dispatch, InShovel
  <2>2. running' = running \cup {j} /\ j.ref = shovel
    BY <1>2 DEF Dispatch
  <2> HIDE DEF j
  <2>3. InWorkers' = InWorkers \cup {shovel}
    BY <2>2 DEF InWorkers
  <2>4. QED
    BY <2>1, <2>3 DEF InMemory
<1>3. QED
  BY <1>1, <1>2

LEMMA Proceeded ==
  ASSUME Typed, NEW j \in running, UNCHANGED <<fifo, shovel, delayed>>,
         \E at \in {"executed", "exhausted", "fatal"} : Steps(j, at)
  PROVE  InMemory' = InMemory
<1>1. PICK at \in {"executed", "exhausted", "fatal"} : Steps(j, at)
  OBVIOUS
<1> DEFINE n == [j EXCEPT !.at = at]
<1>2. n.ref = j.ref /\ running' = (running \ {j}) \cup {n}
  BY <1>1 DEF Steps, Typed, TypeOK, WorkTypeOK, Job
<1> HIDE DEF n
<1>3. InWorkers' = InWorkers
  BY <1>2 DEF InWorkers
<1>4. QED
  BY <1>3 DEF InMemory, InShovel

LEMMA Finished ==
  ASSUME Typed, Placed, NEW j \in running, Finish(j), UNCHANGED <<fifo, shovel>>
  PROVE  /\ InWorkers' = InWorkers \ {j.ref}
         /\ j.ref \in InMemory /\ j.ref \notin fifo \cup InShovel \cup delayed
         /\ j.ref.id \notin IdsOf(delayed)
         /\ UNCHANGED delayed => InMemory' = InMemory \ {j.ref}
<1>1. running' = running \ {j} /\ \A k \in running : k.ref = j.ref => k = j
  BY DEF Finish, Placed, OneEach
<1>2. InWorkers' = InWorkers \ {j.ref} /\ j.ref \in InWorkers
  BY <1>1 DEF InWorkers
<1>3. j.ref.id \in IdsOf(InWorkers)
  BY <1>2 DEF IdsOf
<1>4. j.ref.id \notin IdsOf(fifo) \cup IdsOf(InShovel) \cup IdsOf(delayed)
  BY <1>3 DEF Placed, Apart
<1>5. j.ref \notin fifo \cup InShovel \cup delayed
  BY <1>4 DEF IdsOf
<1>6. QED
  BY <1>2, <1>4, <1>5 DEF InMemory, InShovel

LEMMA Rescheduled ==
  ASSUME Typed, Placed, NEW j \in running, Delay(j), UNCHANGED <<fifo, shovel>>
  PROVE  /\ IdsOf(InMemory)' = IdsOf(InMemory)
         /\ IdsOf(MarkedIn(InMemory))' = IdsOf(MarkedIn(InMemory))
         /\ j.ref.id \notin IdsOf(delayed)
         /\ IdsOf(delayed)' = IdsOf(delayed) \cup {j.ref.id}
<1> DEFINE r == [j.ref EXCEPT !.attempts = @ + 1]
<1>1. r.id = j.ref.id /\ r.delete = j.ref.delete
  BY DEF Typed, TypeOK, WorkTypeOK, Job, Ref
<1>2. Finish(j) /\ delayed' = delayed \cup {r}
  BY DEF Delay
<1> HIDE DEF r
<1>3. /\ InWorkers' = InWorkers \ {j.ref}
      /\ j.ref \in InMemory /\ j.ref \notin fifo \cup InShovel \cup delayed
      /\ j.ref.id \notin IdsOf(delayed)
  BY <1>2, Finished
<1>4. InMemory' = (InMemory \ {j.ref}) \cup {r}
  BY <1>2, <1>3 DEF InMemory, InShovel
<1>5. IdsOf(InMemory)' = IdsOf(InMemory)
  BY <1>1, <1>3, <1>4 DEF IdsOf
<1>6. IdsOf(MarkedIn(InMemory))' = IdsOf(MarkedIn(InMemory))
  BY <1>1, <1>3, <1>4 DEF IdsOf, MarkedIn
<1>7. IdsOf(delayed)' = IdsOf(delayed) \cup {j.ref.id}
  BY <1>1, <1>2 DEF IdsOf
<1>8. QED
  BY <1>3, <1>5, <1>6, <1>7

\* A place that keeps its references, or the union of all, at the next state.
LEMMA MemoryIdsNext ==
  /\ IdsOf(InMemory)' = IdsOf(fifo)' \cup IdsOf(InShovel)' \cup IdsOf(InWorkers)'
                          \cup IdsOf(delayed)'
  /\ UNCHANGED <<fifo, shovel, running, delayed>> => InMemory' = InMemory
BY DEF IdsOf, InMemory, InShovel, InWorkers

-----------------------------------------------------------------------------
\* The :awaiting-retry counter.

RetryBalance ==
  /\ revived >= 0
  /\ awaiting >= Cardinality(IdsOf(delayed)) + revived
  /\ reloads = 0 => awaiting = Cardinality(IdsOf(delayed)) + revived

LEMMA NextRetryBalance ==
  ASSUME Typed, Placed, RetryBalance, [Next]_vars PROVE RetryBalance'
<1>1. IsFiniteSet(IdsOf(delayed)) /\ Cardinality(IdsOf(delayed)) \in Nat
  BY MemorySingle, CountedByIds, FS_CardinalityType
<1>2. awaiting \in Int /\ revived \in Int /\ reloads \in Nat
  BY DEF Typed, TypeOK, OtherTypeOK, HistoryTypeOK
<1>3. CASE UNCHANGED <<delayed, revived, awaiting, reloads>>
  BY <1>3 DEF RetryBalance, IdsOf
<1>4. ASSUME NEW j \in running, Delay(j), UNCHANGED <<fifo, shovel, revived, reloads>>
      PROVE  RetryBalance'
  <2>1. /\ j.ref.id \notin IdsOf(delayed)
        /\ IdsOf(delayed)' = IdsOf(delayed) \cup {j.ref.id}
    BY <1>4, Rescheduled
  <2>2. Cardinality(IdsOf(delayed)') = Cardinality(IdsOf(delayed)) + 1
    BY <1>1, <2>1, FS_AddElement
  <2>3. awaiting' = awaiting + 1
    BY <1>4 DEF Delay
  <2>4. QED
    BY <1>1, <1>2, <1>4, <2>2, <2>3 DEF RetryBalance
<1>5. ASSUME NEW j \in running, Work(j) PROVE RetryBalance'
  BY <1>3, <1>4, <1>5 DEF Work, Missing, DropObsolete, Execute, Ack, FailTransiently,
     AckFails, FailForGood, Discard, DiscardFails, Retry
<1>6. ASSUME NEW r \in delayed, Revive(r) PROVE RetryBalance'
  <2>1. \A q \in delayed : q.id = r.id => q = r
    BY DEF Placed, OneEach
  <2>2. /\ delayed' = delayed \ {r} /\ revived' = revived + 1
        /\ UNCHANGED <<awaiting, reloads>>
    BY <1>6 DEF Revive
  <2>3. IdsOf(delayed)' = IdsOf(delayed) \ {r.id} /\ r.id \in IdsOf(delayed)
    BY <2>1, <2>2 DEF IdsOf
  <2>4. Cardinality(IdsOf(delayed) \ {r.id}) = Cardinality(IdsOf(delayed)) - 1
    BY <1>1, <2>3, ShrinksByOne
  <2>5. Cardinality(IdsOf(delayed)') = Cardinality(IdsOf(delayed)) - 1
    BY <2>3, <2>4
  <2>6. QED
    BY <1>1, <1>2, <2>2, <2>5 DEF RetryBalance
<1>7. CASE Crash \/ Reload
  <2>1. IdsOf(delayed)' = {}
    BY <1>7 DEF Crash, Reload, Restart, IdsOf
  <2>2. Cardinality(IdsOf(delayed)') = 0
    BY <2>1, FS_EmptySet
  <2>3. /\ awaiting' = 0 \/ (awaiting' = awaiting /\ revived = 0 /\ reloads' = reloads + 1)
        /\ revived' = 0
    BY <1>7 DEF Crash, Reload, Restart
  <2>4. QED
    BY <1>1, <1>2, <2>2, <2>3 DEF RetryBalance
<1>8. CASE CountRevival
  <2>1. /\ revived > 0 /\ revived' = revived - 1 /\ awaiting' = awaiting - 1
        /\ UNCHANGED <<delayed, reloads>>
    BY <1>8 DEF CountRevival
  <2>2. IdsOf(delayed)' = IdsOf(delayed)
    BY <2>1 DEF IdsOf
  <2>3. QED
    BY <1>1, <1>2, <2>1, <2>2 DEF RetryBalance
<1>9. QED
  BY <1>3, <1>5, <1>6, <1>7, <1>8
     DEF Next, Submission, Arrive, Acquire, AcquireInterrupted, Store, StoreFails,
         Put, PutInterrupted, Count, Loading, Load, LoadSkips, LoadCounts,
         Shoveling, Take, PassPause, Grant, Dispatch, Rejected, PauseOrResume,
         Stop, LoseFile, vars

-----------------------------------------------------------------------------
\* The :invalidated counter: every mark was counted when it was made.

MarkBalance == invalidated >= Cardinality(IdsOf(MarkedIn(InMemory)))

LEMMA MarkedCounted ==
  ASSUME Typed, Placed
  PROVE  /\ IsFiniteSet(IdsOf(MarkedIn(InMemory)))
         /\ Cardinality(IdsOf(MarkedIn(InMemory))) \in Nat
         /\ invalidated \in Int
BY MemorySingle, CountedByIds, FS_CardinalityType DEF Typed, TypeOK, BufferTypeOK

LEMMA FewerMarks ==
  ASSUME Typed, Placed, MarkBalance,
         IdsOf(MarkedIn(InMemory))' \subseteq IdsOf(MarkedIn(InMemory)),
         UNCHANGED invalidated
  PROVE  MarkBalance'
<1> DEFINE S == IdsOf(MarkedIn(InMemory))
           T == IdsOf(MarkedIn(InMemory))'
<1>1. IsFiniteSet(S) /\ Cardinality(S) \in Nat /\ invalidated \in Int /\ T \in SUBSET S
  BY MarkedCounted
<1>2. invalidated >= Cardinality(S)
  BY DEF MarkBalance
<1> HIDE DEF S, T
<1>3. Cardinality(T) <= Cardinality(S) /\ Cardinality(T) \in Nat
  BY <1>1, FS_Subset, FS_CardinalityType
<1>4. invalidated' >= Cardinality(T)
  BY <1>1, <1>2, <1>3
<1>5. QED
  BY <1>4 DEF MarkBalance, T

\* A put marks the newcomer, or an entry it outdates, and counts it.
LEMMA AddMarksOne ==
  ASSUME Typed, Placed, NEW r \in Ref, r.id \notin IdsOf(fifo), PutOnChannel(r)
  PROVE  \/ /\ invalidated' = invalidated
            /\ IdsOf(MarkedIn(fifo))' \subseteq IdsOf(MarkedIn(fifo)) \cup IdsOf(MarkedIn({r}))
         \/ /\ invalidated' = invalidated + 1
            /\ \E i : IdsOf(MarkedIn(fifo))'
                        \subseteq IdsOf(MarkedIn(fifo)) \cup IdsOf(MarkedIn({r})) \cup {i}
<1>1. fifo \subseteq Ref /\ \A q \in fifo : q.id # r.id
  BY DEF Typed, TypeOK, BufferTypeOK, IdsOf
<1>2. CASE stopping /\ UNCHANGED bufferVars
  BY <1>2 DEF IdsOf, MarkedIn
<1>3. CASE AddUnindexed(r) \/ AddFirst(r)
  <2>1. fifo' = fifo \cup {r} /\ invalidated' = invalidated
    BY <1>1, <1>3 DEF AddUnindexed, AddFirst, PutIn
  <2>2. QED
    BY <2>1 DEF IdsOf, MarkedIn
<1>4. CASE AddNewer(r)
  <2> DEFINE m == Marked(certnames[r.key])
  <2>1. fifo' = PutIn(PutIn(fifo, m), r) /\ invalidated' = invalidated + 1
    BY <1>4 DEF AddNewer
  <2> HIDE DEF m
  <2>2. fifo' \subseteq fifo \cup {m, r}
    BY <2>1 DEF PutIn
  <2>3. IdsOf(MarkedIn(fifo))' \subseteq IdsOf(MarkedIn(fifo)) \cup IdsOf(MarkedIn({r})) \cup {m.id}
    BY <2>2 DEF IdsOf, MarkedIn
  <2>4. QED
    BY <2>1, <2>3
<1>5. CASE AddStale(r)
  <2> DEFINE m == Marked(r)
  <2>1. fifo' = PutIn(fifo, m) /\ invalidated' = invalidated + 1
    BY <1>5 DEF AddStale
  <2> HIDE DEF m
  <2>2. fifo' \subseteq fifo \cup {m}
    BY <2>1 DEF PutIn
  <2>3. IdsOf(MarkedIn(fifo))' \subseteq IdsOf(MarkedIn(fifo)) \cup IdsOf(MarkedIn({r})) \cup {m.id}
    BY <2>2 DEF IdsOf, MarkedIn
  <2>4. QED
    BY <2>1, <2>3
<1>6. QED
  BY <1>2, <1>3, <1>4, <1>5 DEF PutOnChannel, Add

LEMMA PutMarks ==
  ASSUME Typed, Placed, MarkBalance, NEW r \in Ref, r.id \notin IdsOf(fifo),
         PutOnChannel(r), UNCHANGED <<shovel, running>>, delayed' \subseteq delayed,
         ~r.delete \/ r \in InMemory
  PROVE  MarkBalance'
<1> DEFINE rest == InShovel \cup InWorkers \cup delayed
           S == IdsOf(MarkedIn(InMemory))
           T == IdsOf(MarkedIn(InMemory))'
<1>1. /\ S = IdsOf(MarkedIn(fifo)) \cup IdsOf(MarkedIn(rest))
      /\ T = IdsOf(MarkedIn(fifo))' \cup IdsOf(MarkedIn(rest))'
  BY DEF IdsOf, MarkedIn, InMemory
<1>2. rest' \subseteq rest
  BY DEF InShovel, InWorkers
<1>3. IdsOf(MarkedIn(rest))' \subseteq IdsOf(MarkedIn(rest))
  BY <1>2 DEF IdsOf, MarkedIn
<1>4. IdsOf(MarkedIn({r})) \subseteq S
  BY DEF IdsOf, MarkedIn
<1>5. IsFiniteSet(S) /\ Cardinality(S) \in Nat /\ invalidated \in Int
  BY MarkedCounted
<1>6. invalidated >= Cardinality(S)
  BY DEF MarkBalance
<1>7. CASE /\ invalidated' = invalidated
           /\ IdsOf(MarkedIn(fifo))' \subseteq IdsOf(MarkedIn(fifo)) \cup IdsOf(MarkedIn({r}))
  <2>1. T \subseteq S
    BY <1>1, <1>3, <1>4, <1>7
  <2>2. QED
    BY <1>7, <2>1, FewerMarks
<1>8. CASE /\ invalidated' = invalidated + 1
           /\ \E i : IdsOf(MarkedIn(fifo))'
                       \subseteq IdsOf(MarkedIn(fifo)) \cup IdsOf(MarkedIn({r})) \cup {i}
  <2>1. PICK i : T \subseteq S \cup {i}
    BY <1>1, <1>3, <1>4, <1>8
  <2> HIDE DEF S, T
  <2>2. IsFiniteSet(T) /\ Cardinality(T) <= Cardinality(S) + 1
    BY <1>5, <2>1, GrowsByOne
  <2>3. invalidated' >= Cardinality(T)
    BY <1>5, <1>6, <1>8, <2>2, FS_CardinalityType
  <2>4. QED
    BY <2>3 DEF MarkBalance, T
<1>9. QED
  BY <1>7, <1>8, AddMarksOne

LEMMA SubmissionMarks ==
  ASSUME Typed, Placed, MarkBalance, NEW s \in Submitters, Put(s) PROVE MarkBalance'
<1> DEFINE n == submitter[s].id
<1>1. n \in Putting /\ RefOf(n).id = n /\ ~RefOf(n).delete
  BY DEF Put, Putting, RefOf
<1>2. RefOf(n) \in Ref
  BY <1>1, RefOfTyped, PlacesStored DEF Typed, TypeOK
<1>3. n \notin IdsOf(fifo)
  BY <1>1 DEF Placed, Apart
<1>4. PutOnChannel(RefOf(n)) /\ UNCHANGED <<shovel, running, delayed>>
  BY DEF Put
<1> HIDE DEF n
<1>5. QED
  BY <1>1, <1>2, <1>3, <1>4, PutMarks

LEMMA LoadMarks ==
  ASSUME Typed, Placed, MarkBalance, NEW i \in loader, Load(i) PROVE MarkBalance'
<1>1. i \in Unloaded /\ RefOf(i).id = i /\ ~RefOf(i).delete
  BY DEF Load, Unloaded, RefOf
<1>2. RefOf(i) \in Ref
  BY <1>1, RefOfTyped, PlacesStored DEF Typed, TypeOK
<1>3. i \notin IdsOf(fifo)
  BY <1>1 DEF Placed, Apart
<1>4. PutOnChannel(RefOf(i)) /\ UNCHANGED <<shovel, running, delayed>>
  BY DEF Load
<1>5. QED
  BY <1>1, <1>2, <1>3, <1>4, PutMarks

LEMMA WorkMarks ==
  ASSUME Typed, Placed, MarkBalance, NEW j \in running, Work(j) PROVE MarkBalance'
<1>1. UNCHANGED <<fifo, shovel>>
  BY DEF Work, Missing, DropObsolete, Execute, Ack, FailTransiently, AckFails,
         FailForGood, Discard, DiscardFails, Retry
<1>2. CASE DropObsolete(j)
  <2> DEFINE S == IdsOf(MarkedIn(InMemory))
             T == IdsOf(MarkedIn(InMemory))'
  <2>1. Finish(j) /\ j.ref.delete /\ UNCHANGED delayed /\ invalidated' = invalidated - 1
    BY <1>2 DEF DropObsolete
  <2>2. InMemory' = InMemory \ {j.ref} /\ j.ref \in InMemory
    BY <1>1, <2>1, Finished
  <2>3. \A r \in InMemory : r.id = j.ref.id => r = j.ref
    BY <2>2, MemorySingle DEF Single
  <2>4. T = S \ {j.ref.id} /\ j.ref.id \in S
    BY <2>1, <2>2, <2>3 DEF IdsOf, MarkedIn
  <2>5. IsFiniteSet(S) /\ Cardinality(S) \in Nat /\ invalidated \in Int
        /\ invalidated >= Cardinality(S)
    BY MarkedCounted DEF MarkBalance
  <2> HIDE DEF S, T
  <2>6. Cardinality(S \ {j.ref.id}) = Cardinality(S) - 1
    BY <2>4, <2>5, ShrinksByOne
  <2>7. invalidated' >= Cardinality(T)
    BY <2>1, <2>4, <2>5, <2>6
  <2>8. QED
    BY <2>7 DEF MarkBalance, T
<1>3. CASE Missing(j) \/ Ack(j) \/ Discard(j) \/ DiscardFails(j)
  <2>1. Finish(j) /\ UNCHANGED <<delayed, invalidated>>
    BY <1>3 DEF Missing, Ack, Discard, DiscardFails
  <2>2. InMemory' = InMemory \ {j.ref}
    BY <1>1, <2>1, Finished
  <2>3. QED
    BY <2>1, <2>2, FewerMarks DEF IdsOf, MarkedIn
<1>4. CASE Execute(j) \/ FailForGood(j) \/ FailTransiently(j) \/ AckFails(j)
  <2>1. UNCHANGED invalidated
    BY <1>4 DEF Execute, FailForGood, FailTransiently, AckFails, Retry
  <2>2. CASE Delay(j)
    BY <1>1, <2>1, <2>2, Rescheduled, FewerMarks
  <2>3. CASE ~Delay(j)
    <3>1. UNCHANGED delayed /\ \E at \in {"executed", "exhausted", "fatal"} : Steps(j, at)
      BY <1>4, <2>3 DEF Execute, FailForGood, FailTransiently, AckFails, Retry
    <3>2. InMemory' = InMemory
      BY <1>1, <3>1, Proceeded
    <3>3. QED
      BY <2>1, <3>2, FewerMarks DEF IdsOf, MarkedIn
  <2>4. QED
    BY <2>2, <2>3
<1>5. QED
  BY <1>2, <1>3, <1>4 DEF Work

LEMMA NextMarkBalance ==
  ASSUME Typed, Placed, MarkBalance, [Next]_vars PROVE MarkBalance'
<1>1. CASE UNCHANGED <<invalidated, fifo, shovel, running, delayed>>
  <2>1. InMemory' = InMemory
    BY <1>1, MemoryIdsNext
  <2>2. QED
    BY <1>1, <2>1 DEF MarkBalance, IdsOf, MarkedIn
<1>2. CASE (\E r \in fifo : Take(r)) \/ Dispatch
  <2>1. InMemory' = InMemory
    BY <1>2, HandedOver
  <2>2. UNCHANGED invalidated
    BY <1>2 DEF Take, Remove, Dispatch
  <2>3. QED
    BY <2>1, <2>2 DEF MarkBalance, IdsOf, MarkedIn
<1>3. ASSUME NEW r \in delayed, Revive(r) PROVE MarkBalance'
  <2>1. r \in Ref /\ r.id \in IdsOf(delayed) /\ r \in InMemory
    BY DEF Typed, TypeOK, OtherTypeOK, IdsOf, InMemory
  <2>2. r.id \notin IdsOf(fifo)
    BY <2>1 DEF Placed, Apart
  <2>3. PutOnChannel(r) /\ UNCHANGED <<shovel, running>> /\ delayed' \subseteq delayed
    BY <1>3 DEF Revive
  <2>4. QED
    BY <2>1, <2>2, <2>3, PutMarks
<1>4. CASE Stop \/ Rejected
  <2>1. UNCHANGED <<invalidated, fifo, running, delayed>>
        /\ shovel' \in {shovel, NoCmd}
    BY <1>4 DEF Stop, Rejected
  <2>2. InMemory' \subseteq InMemory
    BY <2>1 DEF InMemory, InShovel, InWorkers
  <2>3. QED
    BY <2>1, <2>2, FewerMarks DEF IdsOf, MarkedIn
<1>5. CASE Crash \/ Reload
  <2>1. fifo' = {} /\ shovel' = NoCmd /\ running' = {} /\ delayed' = {}
    BY <1>5 DEF Crash, Reload, Restart
  <2>2. IdsOf(MarkedIn(InMemory))' = {}
    BY <2>1 DEF InMemory, InShovel, InWorkers, IdsOf, MarkedIn
  <2>3. CASE Crash
    BY <2>2, <2>3, FS_EmptySet DEF MarkBalance, Crash
  <2>4. CASE Reload
    BY <2>2, <2>4, FewerMarks DEF Reload
  <2>5. QED
    BY <1>5, <2>3, <2>4
<1>6. QED
  BY <1>1, <1>2, <1>3, <1>4, <1>5, SubmissionMarks, LoadMarks, WorkMarks
     DEF Next, Submission, Arrive, Acquire, AcquireInterrupted, Store, StoreFails,
         PutInterrupted, Count, Loading, LoadSkips, LoadCounts, Shoveling, PassPause,
         Grant, PauseOrResume, CountRevival, LoseFile, vars

-----------------------------------------------------------------------------
(***************************************************************************)
(* The :depth counter.  In its books a command put and not counted yet     *)
(* stands beside the count; they balance while nothing went wrong (Calm),  *)
(* and otherwise err on the side of too many.                              *)
(***************************************************************************)
Counting == {s \in Submitters : submitter[s].at = "count"}

Calm == ~stopping /\ reloads = 0 /\ ioFailures = 0 /\ lost = {}

DepthBalance ==
  /\ IsFiniteSet(Counting)
  /\ depth + Uncounted >= Cardinality(IdsOf(InMemory))
  /\ Calm => depth + Uncounted = Cardinality(IdsOf(InMemory))

LEMMA MemoryCounted ==
  ASSUME Typed, Placed
  PROVE  /\ IsFiniteSet(IdsOf(InMemory)) /\ Cardinality(IdsOf(InMemory)) \in Nat
         /\ depth \in Int
BY MemorySingle, CountedByIds, FS_CardinalityType DEF Typed, TypeOK, OtherTypeOK

LEMMA UncountedTyped ==
  ASSUME IsFiniteSet(Counting)
  PROVE  Uncounted \in Nat /\ Uncounted = Cardinality(Counting) + (IF loaderOwes THEN 1 ELSE 0)
BY FS_CardinalityType DEF Uncounted, Counting

\* Entries on both sides of the books.
LEMMA BooksKept ==
  ASSUME Typed, Placed, DepthBalance, Calm' => Calm,
         NEW d \in Int,
         IsFiniteSet(Counting'),
         depth' + Uncounted' = depth + Uncounted + d,
         Cardinality(IdsOf(InMemory)') = Cardinality(IdsOf(InMemory)) + d
  PROVE  DepthBalance'
<1>1. Cardinality(IdsOf(InMemory)) \in Nat /\ depth \in Int /\ Uncounted \in Nat
  BY MemoryCounted, UncountedTyped DEF DepthBalance
<1>2. depth' + Uncounted' >= Cardinality(IdsOf(InMemory)')
  BY <1>1 DEF DepthBalance
<1>3. Calm' => depth' + Uncounted' = Cardinality(IdsOf(InMemory)')
  BY <1>1 DEF DepthBalance
<1>4. QED
  BY <1>2, <1>3 DEF DepthBalance

\* A put enters the command, on both sides unless the channel is closed.
LEMMA EnteredOnce ==
  ASSUME Typed, Placed, DepthBalance, NEW r \in Ref, r.id \notin IdsOf(InMemory),
         PutOnChannel(r),
         UNCHANGED <<shovel, running, delayed, stopping, depth, reloads, ioFailures, lost>>,
         IsFiniteSet(Counting'), Uncounted' = Uncounted + 1
  PROVE  DepthBalance'
<1>1. /\ Cardinality(IdsOf(InMemory)) \in Nat /\ depth \in Int /\ Uncounted \in Nat
      /\ IsFiniteSet(IdsOf(InMemory))
  BY MemoryCounted, UncountedTyped DEF DepthBalance
<1>2. r.id \notin IdsOf(fifo)
  BY InMemoryIds
<1>3. CASE ~stopping
  <2>1. IdsOf(fifo)' = IdsOf(fifo) \cup {r.id}
    BY <1>2, <1>3, PutOnChannelPlaced
  <2>2. IdsOf(InMemory)' = IdsOf(InMemory) \cup {r.id}
    BY <2>1, InMemoryIds, MemoryIdsNext, PlacesKept
  <2>3. Cardinality(IdsOf(InMemory)') = Cardinality(IdsOf(InMemory)) + 1
    BY <1>1, <2>2, FS_AddElement
  <2>4. QED
    BY <1>1, <2>3, BooksKept DEF Calm
<1>4. CASE stopping
  <2>1. UNCHANGED fifo /\ stopping'
    BY <1>4 DEF PutOnChannel
  <2>2. IdsOf(InMemory)' = IdsOf(InMemory)
    BY <2>1, InMemoryIds, MemoryIdsNext, PlacesKept
  <2>3. depth' + Uncounted' >= Cardinality(IdsOf(InMemory)')
    BY <1>1, <2>2 DEF DepthBalance
  <2>4. QED
    BY <2>1, <2>3 DEF DepthBalance, Calm
<1>5. QED
  BY <1>3, <1>4

LEMMA SubmissionBooks ==
  ASSUME Typed, Placed, DepthBalance, NEW s \in Submitters,
         Arrive(s) \/ Submission(s)
  PROVE  DepthBalance'
<1> USE DEF Typed, TypeOK, SubmitTypeOK, SubmitState
<1>1. IsFiniteSet(Counting) /\ Cardinality(Counting) \in Nat
  BY FS_CardinalityType DEF DepthBalance
<1>2. \A t \in Submitters : t # s => submitter'[t] = submitter[t]
  BY DEF Submission, Arrive, Acquire, AcquireInterrupted, Store, StoreFails, Put,
         PutInterrupted, Count
<1>3. CASE \/ Arrive(s) \/ Acquire(s) \/ AcquireInterrupted(s) \/ Store(s)
           \/ StoreFails(s) \/ PutInterrupted(s)
  <2>1. submitter[s].at # "count" /\ submitter'[s].at # "count"
    BY <1>3 DEF Arrive, Acquire, AcquireInterrupted, Store, StoreFails, PutInterrupted
  <2>2. Counting' = Counting
    BY <1>2, <2>1 DEF Counting
  <2>3. UNCHANGED <<loaderOwes, depth, fifo, shovel, running, delayed, stopping,
                    reloads, ioFailures, lost>>
    BY <1>3 DEF Arrive, Acquire, AcquireInterrupted, Store, StoreFails, PutInterrupted
  <2>4. Uncounted' = Uncounted /\ InMemory' = InMemory /\ Calm' = Calm
    BY <2>2, <2>3, MemoryIdsNext DEF Uncounted, Counting, Calm
  <2>5. QED
    BY <1>1, <2>2, <2>3, <2>4 DEF DepthBalance, IdsOf
<1>4. CASE Put(s)
  <2> DEFINE n == submitter[s].id
  <2>1. n \in Putting /\ RefOf(n).id = n
    BY <1>4 DEF Put, Putting, RefOf
  <2>2. RefOf(n) \in Ref
    BY <2>1, RefOfTyped, PlacesStored DEF Typed, TypeOK
  <2>3. n \notin IdsOf(InMemory)
    BY <2>1, InMemoryIds DEF Placed, Apart
  <2>4. submitter[s].at # "count" /\ submitter'[s].at = "count"
    BY <1>4 DEF Put
  <2>5. s \notin Counting /\ Counting' = Counting \cup {s}
    BY <1>2, <2>4 DEF Counting
  <2>6. IsFiniteSet(Counting') /\ Cardinality(Counting') = Cardinality(Counting) + 1
    BY <1>1, <2>5, FS_AddElement
  <2>7. /\ PutOnChannel(RefOf(n)) /\ UNCHANGED loaderOwes
        /\ UNCHANGED <<shovel, running, delayed, stopping, depth, reloads, ioFailures, lost>>
    BY <1>4 DEF Put
  <2>8. Uncounted' = Uncounted + 1
    BY <1>1, <2>6, <2>7 DEF Uncounted, Counting
  <2> HIDE DEF n
  <2>9. QED
    BY <2>1, <2>2, <2>3, <2>6, <2>7, <2>8, EnteredOnce
<1>5. CASE Count(s)
  <2>1. submitter[s].at = "count" /\ submitter'[s].at # "count"
    BY <1>5 DEF Count
  <2>2. s \in Counting /\ Counting' = Counting \ {s}
    BY <1>2, <2>1 DEF Counting
  <2>3. IsFiniteSet(Counting') /\ Cardinality(Counting') = Cardinality(Counting) - 1
    BY <1>1, <2>2, ShrinksByOne
  <2>4. /\ depth' = depth + 1
        /\ UNCHANGED <<loaderOwes, fifo, shovel, running, delayed, stopping, reloads,
                       ioFailures, lost>>
    BY <1>5 DEF Count
  <2>5. Uncounted' = Uncounted - 1
    BY <1>1, <2>3, <2>4 DEF Uncounted, Counting
  <2>6. IdsOf(InMemory)' = IdsOf(InMemory)
    BY <2>4, MemoryIdsNext DEF IdsOf
  <2>7. QED
    BY <2>3, <2>4, <2>5, <2>6, BooksKept, MemoryCounted, UncountedTyped
       DEF Calm, DepthBalance
<1>6. QED
  BY <1>3, <1>4, <1>5 DEF Submission

LEMMA LoadingBooks ==
  ASSUME Typed, Placed, DepthBalance, Loading PROVE DepthBalance'
<1>1. IsFiniteSet(Counting) /\ Cardinality(Counting) \in Nat
  BY FS_CardinalityType DEF DepthBalance
<1>2. Counting' = Counting
  BY DEF Counting, Loading, Load, LoadSkips, LoadCounts
<1>3. /\ Uncounted = Cardinality(Counting) + (IF loaderOwes THEN 1 ELSE 0)
      /\ Uncounted' = Cardinality(Counting') + (IF loaderOwes' THEN 1 ELSE 0)
  BY DEF Uncounted, Counting
<1>4. ASSUME NEW i \in loader, Load(i) PROVE DepthBalance'
  <2>1. i \in Unloaded /\ RefOf(i).id = i
    BY <1>4 DEF Load, Unloaded, RefOf
  <2>2. RefOf(i) \in Ref
    BY <2>1, RefOfTyped, PlacesStored DEF Typed, TypeOK
  <2>3. i \notin IdsOf(InMemory)
    BY <2>1, InMemoryIds DEF Placed, Apart
  <2>4. /\ PutOnChannel(RefOf(i)) /\ ~loaderOwes /\ loaderOwes'
        /\ UNCHANGED <<shovel, running, delayed, stopping, depth, reloads, ioFailures, lost>>
    BY <1>4 DEF Load
  <2>5. Uncounted' = Uncounted + 1
    BY <1>1, <1>2, <1>3, <2>4
  <2>6. QED
    BY <1>1, <1>2, <2>1, <2>2, <2>3, <2>4, <2>5, EnteredOnce
<1>5. ASSUME NEW i \in loader, LoadSkips(i) PROVE DepthBalance'
  <2>1. UNCHANGED <<loaderOwes, depth, fifo, shovel, running, delayed, stopping,
                    reloads, ioFailures, lost>>
    BY <1>5 DEF LoadSkips
  <2>2. Uncounted' = Uncounted /\ InMemory' = InMemory /\ Calm' = Calm
    BY <1>2, <2>1, MemoryIdsNext DEF Uncounted, Counting, Calm
  <2>3. QED
    BY <1>1, <1>2, <2>1, <2>2 DEF DepthBalance, IdsOf
<1>6. CASE LoadCounts
  <2>1. /\ loaderOwes /\ ~loaderOwes' /\ depth' = depth + 1
        /\ UNCHANGED <<fifo, shovel, running, delayed, stopping, reloads, ioFailures, lost>>
    BY <1>6 DEF LoadCounts
  <2>2. Uncounted' = Uncounted - 1
    BY <1>1, <1>2, <1>3, <2>1
  <2>3. IdsOf(InMemory)' = IdsOf(InMemory)
    BY <2>1, MemoryIdsNext DEF IdsOf
  <2>4. QED
    BY <1>1, <1>2, <2>1, <2>2, <2>3, BooksKept, MemoryCounted, UncountedTyped
       DEF Calm, DepthBalance
<1>7. QED
  BY <1>4, <1>5, <1>6 DEF Loading

\* A discard that fails drops the command without counting it, but never calmly.
LEMMA WorkBooks ==
  ASSUME Typed, Placed, HeldOnDisk, DepthBalance, NEW j \in running, Work(j)
  PROVE  DepthBalance'
<1> USE DEF Typed, TypeOK, HistoryTypeOK
<1>1. UNCHANGED <<submitter, loaderOwes, fifo, shovel, stopping, reloads, lost>>
  BY DEF Work, Missing, DropObsolete, Execute, Ack, FailTransiently, AckFails,
         FailForGood, Discard, DiscardFails, Retry
<1>2. /\ Counting' = Counting /\ Uncounted' = Uncounted
      /\ IsFiniteSet(Counting) /\ Uncounted \in Nat
  BY <1>1, UncountedTyped DEF Counting, Uncounted, DepthBalance
<1>3. /\ IsFiniteSet(IdsOf(InMemory)) /\ Cardinality(IdsOf(InMemory)) \in Nat
      /\ depth \in Int
  BY MemoryCounted
<1>4. ioFailures' \in {ioFailures, ioFailures + 1} /\ (Calm' => Calm)
  BY <1>1 DEF Work, Missing, DropObsolete, Execute, Ack, FailTransiently, AckFails,
         FailForGood, Discard, DiscardFails, Retry, FailIO, Calm
<1>5. ASSUME Finish(j), UNCHANGED delayed
      PROVE  Cardinality(IdsOf(InMemory)') = Cardinality(IdsOf(InMemory)) - 1
  <2>1. InMemory' = InMemory \ {j.ref} /\ j.ref \in InMemory
    BY <1>1, <1>5, Finished
  <2>2. \A r \in InMemory : r.id = j.ref.id => r = j.ref
    BY <2>1, MemorySingle DEF Single
  <2>3. IdsOf(InMemory)' = IdsOf(InMemory) \ {j.ref.id} /\ j.ref.id \in IdsOf(InMemory)
    BY <2>1, <2>2 DEF IdsOf
  <2>4. Cardinality(IdsOf(InMemory) \ {j.ref.id}) = Cardinality(IdsOf(InMemory)) - 1
    BY <1>3, <2>3, ShrinksByOne
  <2>5. QED
    BY <2>3, <2>4
<1>6. CASE Missing(j) \/ DropObsolete(j) \/ Ack(j) \/ Discard(j)
  <2>1. Finish(j) /\ UNCHANGED delayed /\ depth' = depth - 1
    BY <1>6 DEF Missing, DropObsolete, Ack, Discard
  <2>2. Cardinality(IdsOf(InMemory)') = Cardinality(IdsOf(InMemory)) - 1
    BY <1>5, <2>1
  <2>3. QED
    BY <1>2, <1>3, <1>4, <2>1, <2>2, BooksKept
<1>7. CASE DiscardFails(j)
  <2>1. Finish(j) /\ UNCHANGED <<delayed, depth>>
    BY <1>7 DEF DiscardFails
  <2>2. Cardinality(IdsOf(InMemory)') = Cardinality(IdsOf(InMemory)) - 1
    BY <1>5, <2>1
  <2>3. j.ref.id \in disk \cup lost
    BY DEF HeldOnDisk, IdsOf, InMemory, InWorkers
  <2>4. ~Calm'
    BY <1>1, <1>7, <2>3 DEF DiscardFails, FailIO, Calm
  <2>5. QED
    BY <1>2, <1>3, <2>1, <2>2, <2>4 DEF DepthBalance
<1>8. CASE Execute(j) \/ FailForGood(j) \/ FailTransiently(j) \/ AckFails(j)
  <2>1. UNCHANGED depth
    BY <1>8 DEF Execute, FailForGood, FailTransiently, AckFails, Retry
  <2>2. IdsOf(InMemory)' = IdsOf(InMemory)
    <3>1. CASE Delay(j)
      BY <1>1, <3>1, Rescheduled
    <3>2. CASE ~Delay(j)
      <4>1. UNCHANGED delayed /\ \E at \in {"executed", "exhausted", "fatal"} : Steps(j, at)
        BY <1>8, <3>2 DEF Execute, FailForGood, FailTransiently, AckFails, Retry
      <4>2. InMemory' = InMemory
        BY <1>1, <4>1, Proceeded
      <4>3. QED
        BY <4>2 DEF IdsOf
    <3>3. QED
      BY <3>1, <3>2
  <2>3. QED
    BY <1>2, <1>3, <1>4, <2>1, <2>2 DEF DepthBalance
<1>9. QED
  BY <1>6, <1>7, <1>8 DEF Work

LEMMA NextDepthBalance ==
  ASSUME Typed, Placed, HeldOnDisk, DepthBalance, [Next]_vars PROVE DepthBalance'
<1>1. /\ IsFiniteSet(Counting) /\ Uncounted \in Nat /\ depth \in Int
      /\ IsFiniteSet(IdsOf(InMemory)) /\ Cardinality(IdsOf(InMemory)) \in Nat
  BY UncountedTyped, MemoryCounted DEF DepthBalance
\* References change hands, or nothing happens to them at all.
<1>2. ASSUME InMemory' = InMemory, Calm' => Calm, UNCHANGED <<submitter, loaderOwes, depth>>
      PROVE  DepthBalance'
  <2>1. Counting' = Counting /\ Uncounted' = Uncounted /\ IdsOf(InMemory)' = IdsOf(InMemory)
    BY <1>2 DEF Counting, Uncounted, IdsOf
  <2>2. QED
    BY <1>1, <1>2, <2>1 DEF DepthBalance
<1>3. CASE PassPause \/ Grant \/ PauseOrResume \/ CountRevival \/ UNCHANGED vars
  <2>1. InMemory' = InMemory
    BY <1>3, MemoryIdsNext DEF PassPause, Grant, PauseOrResume, CountRevival, vars
  <2>2. QED
    BY <1>2, <1>3, <2>1 DEF PassPause, Grant, PauseOrResume, CountRevival, vars, Calm
<1>4. CASE (\E r \in fifo : Take(r)) \/ Dispatch
  <2>1. InMemory' = InMemory
    BY <1>4, HandedOver
  <2>2. QED
    BY <1>2, <1>4, <2>1 DEF Take, Dispatch, Calm
<1>5. ASSUME NEW i \in disk, LoseFile(i) PROVE DepthBalance'
  <2>1. InMemory' = InMemory
    BY <1>5, MemoryIdsNext DEF LoseFile
  <2>2. QED
    BY <1>2, <1>5, <2>1 DEF LoseFile, Calm
<1>6. ASSUME NEW r \in delayed, Revive(r) PROVE DepthBalance'
  <2>1. r \in Ref /\ r.id \in IdsOf(delayed)
    BY DEF Typed, TypeOK, OtherTypeOK, IdsOf
  <2>2. r.id \notin IdsOf(fifo)
    BY <2>1 DEF Placed, Apart
  <2>3. /\ PutOnChannel(r) /\ delayed' = delayed \ {r}
        /\ UNCHANGED <<submitter, loaderOwes, shovel, running, depth, stopping, reloads,
                       ioFailures, lost>>
    BY <1>6 DEF Revive
  <2>4. IdsOf(delayed)' = IdsOf(delayed) \ {r.id}
    BY <2>3 DEF IdsOf, Placed, OneEach
  <2>5. Counting' = Counting /\ Uncounted' = Uncounted /\ Calm' = Calm
    BY <2>3 DEF Counting, Uncounted, Calm
  <2>6. CASE ~stopping
    <3>1. IdsOf(fifo)' = IdsOf(fifo) \cup {r.id}
      BY <2>1, <2>2, <2>3, <2>6, PutOnChannelPlaced
    <3>2. IdsOf(InMemory)' = IdsOf(InMemory)
      BY <2>1, <2>3, <2>4, <3>1, InMemoryIds, MemoryIdsNext, PlacesKept
    <3>3. QED
      BY <1>1, <2>3, <2>5, <3>2 DEF DepthBalance
  <2>7. CASE stopping
    <3>1. UNCHANGED fifo /\ ~Calm'
      BY <2>3, <2>7 DEF PutOnChannel, Calm
    <3>2. IdsOf(InMemory)' \subseteq IdsOf(InMemory)
      BY <2>3, <2>4, <3>1, InMemoryIds, MemoryIdsNext, PlacesKept
    <3>3. Cardinality(IdsOf(InMemory)') <= Cardinality(IdsOf(InMemory))
          /\ Cardinality(IdsOf(InMemory)') \in Nat
      BY <1>1, <3>2, FS_Subset, FS_CardinalityType
    <3>4. QED
      BY <1>1, <2>3, <2>5, <3>1, <3>3 DEF DepthBalance
  <2>8. QED
    BY <2>6, <2>7
<1>7. CASE Stop \/ Rejected
  <2>1. /\ UNCHANGED <<submitter, loaderOwes, fifo, running, delayed, depth>>
        /\ shovel' \in {shovel, NoCmd} /\ stopping'
    BY <1>7 DEF Stop, Rejected
  <2>2. Counting' = Counting /\ Uncounted' = Uncounted /\ ~Calm'
    BY <2>1 DEF Counting, Uncounted, Calm
  <2>3. IdsOf(InMemory)' \subseteq IdsOf(InMemory)
    BY <2>1 DEF IdsOf, InMemory, InShovel, InWorkers
  <2>4. Cardinality(IdsOf(InMemory)') <= Cardinality(IdsOf(InMemory))
        /\ Cardinality(IdsOf(InMemory)') \in Nat
    BY <1>1, <2>3, FS_Subset, FS_CardinalityType
  <2>5. QED
    BY <1>1, <2>1, <2>2, <2>4 DEF DepthBalance
<1>8. CASE Crash \/ Reload
  <2>1. /\ fifo' = {} /\ shovel' = NoCmd /\ running' = {} /\ delayed' = {}
        /\ ~loaderOwes' /\ submitter' = [s \in Submitters |-> [at |-> "idle", id |-> 0]]
    BY <1>8 DEF Crash, Reload, Restart
  <2>2. IdsOf(InMemory)' = {} /\ Counting' = {}
    BY <2>1 DEF InMemory, InShovel, InWorkers, IdsOf, Counting
  <2>3. /\ Cardinality(IdsOf(InMemory)') = 0 /\ Cardinality(Counting') = 0
        /\ IsFiniteSet(Counting')
    BY <2>2, FS_EmptySet
  <2>4. Uncounted' = Cardinality(Counting') + (IF loaderOwes' THEN 1 ELSE 0)
    BY DEF Uncounted, Counting
  <2>5. Uncounted' = 0
    BY <2>1, <2>3, <2>4
  <2>6. CASE Crash
    BY <2>3, <2>5, <2>6 DEF Crash, DepthBalance
  <2>7. CASE Reload
    <3>1. ~loaderOwes /\ Counting = {} /\ depth' = depth
      BY <2>7 DEF Reload, Counting
    <3>2. Cardinality(Counting) = 0
      BY <3>1, FS_EmptySet
    <3>3. Uncounted = 0
      BY <1>1, <3>1, <3>2, UncountedTyped
    <3>4. depth' >= 0
      BY <1>1, <3>1, <3>3 DEF DepthBalance
    <3>5. ~Calm'
      BY <2>7 DEF Reload, Calm, Typed, TypeOK, HistoryTypeOK
    <3>6. QED
      BY <1>1, <2>3, <2>5, <3>1, <3>4, <3>5 DEF DepthBalance
  <2>8. QED
    BY <1>8, <2>6, <2>7
<1>9. QED
  BY <1>3, <1>4, <1>5, <1>6, <1>7, <1>8, SubmissionBooks, LoadingBooks, WorkBooks
     DEF Next, Shoveling

LEMMA AlwaysBalanced ==
  Spec => [](Typed /\ Placed /\ RetryBalance /\ MarkBalance /\ DepthBalance)
<1>1. Init => RetryBalance /\ MarkBalance /\ DepthBalance
  <2> SUFFICES ASSUME Init PROVE RetryBalance /\ MarkBalance /\ DepthBalance
    OBVIOUS
  <2>1. /\ fifo = {} /\ shovel = NoCmd /\ running = {} /\ delayed = {} /\ ~loaderOwes
        /\ depth = 0 /\ awaiting = 0 /\ revived = 0 /\ invalidated = 0
    BY DEF Init, EmptyBuffer
  <2>2. /\ IdsOf(delayed) = {} /\ IdsOf(InMemory) = {}
        /\ IdsOf(MarkedIn(InMemory)) = {}
    BY <2>1 DEF IdsOf, InMemory, InShovel, InWorkers, MarkedIn
  <2>3. Counting = {}
    BY DEF Init, Counting
  <2>4. Uncounted = 0 /\ IsFiniteSet(Counting)
    BY <2>1, <2>3, FS_EmptySet, UncountedTyped
  <2>5. RetryBalance
    <3>1. Cardinality(IdsOf(delayed)) = 0
      BY <2>2, FS_EmptySet
    <3>2. QED
      BY <2>1, <3>1 DEF RetryBalance
  <2>6. MarkBalance /\ DepthBalance
    BY <2>1, <2>2, <2>4, FS_EmptySet DEF MarkBalance, DepthBalance
  <2>7. QED
    BY <2>5, <2>6
<1>2. Typed /\ Placed /\ HeldOnDisk /\ RetryBalance /\ MarkBalance /\ DepthBalance
      /\ [Next]_vars => (RetryBalance /\ MarkBalance /\ DepthBalance)'
  BY NextRetryBalance, NextMarkBalance, NextDepthBalance
<1>3. QED
  BY <1>1, <1>2, AlwaysOnDisk, PTL DEF Spec

(***************************************************************************)
(* The counters an operator watches are right: depth is never too low by   *)
(* more than the commands put and not counted yet, and exact while nothing *)
(* went wrong; until a reload, awaiting-retry is ahead by the revivals put *)
(* and not counted yet, and by nothing else; and every mark still in       *)
(* memory has been counted, whatever fails or restarts.                    *)
(***************************************************************************)
THEOREM CountersAreTrue == Spec => []CountersTrack
<1>1. Typed /\ Placed /\ RetryBalance /\ MarkBalance /\ DepthBalance => CountersTrack
  <2> SUFFICES ASSUME Typed, Placed, RetryBalance, MarkBalance, DepthBalance
               PROVE  CountersTrack
    OBVIOUS
  <2>1. /\ Cardinality(InMemory) = Cardinality(IdsOf(InMemory))
        /\ Cardinality(delayed) = Cardinality(IdsOf(delayed))
        /\ Cardinality(MarkedIn(InMemory)) = Cardinality(IdsOf(MarkedIn(InMemory)))
        /\ Cardinality(InMemory) \in Nat
    BY MemorySingle, CountedByIds
  <2>2. depth \in Int /\ Uncounted \in Nat
    BY MemoryCounted, UncountedTyped DEF DepthBalance
  <2>3. MarkedIn(InMemory) = {r \in InMemory : r.delete}
    BY DEF MarkedIn
  <2>4. QED
    BY <2>1, <2>2, <2>3 DEF RetryBalance, MarkBalance, DepthBalance, Calm, CountersTrack
<1>2. QED
  BY <1>1, AlwaysBalanced, PTL
=============================================================================
