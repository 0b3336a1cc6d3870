------------------------- MODULE CommandSafetyProofs -------------------------
(***************************************************************************)
(* The safety properties of CommandPipeline, proved from one inductive     *)
(* invariant.  Its foundation is that each command is in one place only:   *)
(* the index of the buffer, the fate of a file and the number of times a   *)
(* command runs all depend on it.                                          *)
(***************************************************************************)
EXTENDS CommandPipelineProofs, FiniteSetTheorems, WellFoundedInduction

USE BufferAssumption, NoCmdAssumption, PipelineAssumption
    DEF BufferAssumption, NoCmdAssumption, PipelineAssumption, bufferVars, diskVars,
        submitVars, loadVars, workVars, history, countVars

-----------------------------------------------------------------------------
\* The buffer on its own.  A newcomer has an id the queue does not know.

LEMMA AddNewcomer ==
  ASSUME BufferTypeOK, UniqueIds, IndexInQueue,
         NEW r \in Ref, r.id \notin IdsOf(fifo), Add(r)
  PROVE  /\ UniqueIds' /\ IndexInQueue'
         /\ IdsOf(fifo') = IdsOf(fifo) \cup {r.id}
<1> USE DEF BufferTypeOK
<1>1. \A q \in Ref : /\ Marked(q) \in Ref
                     /\ Marked(q).id = q.id /\ Marked(q).key = q.key
                     /\ Marked(q).stamp = q.stamp
  BY MarkedTyped
<1>2. \A q \in fifo : q \in Ref /\ q.id # r.id
  BY DEF IdsOf
<1>3. CASE AddUnindexed(r)
  <2>1. fifo' = fifo \cup {r} /\ certnames' = certnames
    BY <1>2, <1>3 DEF AddUnindexed, PutIn
  <2>2. QED
    BY <1>2, <2>1 DEF UniqueIds, IndexInQueue, IdsOf
<1>4. CASE AddFirst(r)
  <2>1. fifo' = fifo \cup {r} /\ certnames' = [certnames EXCEPT ![r.key] = r]
        /\ Indexed(r)
    BY <1>2, <1>4 DEF AddFirst, PutIn
  <2>2. QED
    BY <1>2, <2>1 DEF UniqueIds, IndexInQueue, IdsOf, Indexed
<1>5. CASE AddNewer(r)
  <2> DEFINE old == certnames[r.key]
             m == Marked(old)
  <2>1. /\ Indexed(r) /\ certnames' = [certnames EXCEPT ![r.key] = r]
        /\ fifo' = PutIn(PutIn(fifo, m), r)
    BY <1>5 DEF AddNewer
  <2>2. old \in fifo /\ old.key = r.key /\ r.key \in Keys
    BY <1>5 DEF AddNewer, Indexed, IndexInQueue
  <2>3. m \in Ref /\ m.id = old.id
    BY <1>1, <1>2, <2>2
  <2>4. fifo' = {q \in fifo : q.id # old.id} \cup {m, r}
    BY <1>2, <2>1, <2>2, <2>3 DEF PutIn
  <2>5. UniqueIds'
    BY <1>2, <2>2, <2>3, <2>4 DEF UniqueIds
  <2>6. IdsOf(fifo') = IdsOf(fifo) \cup {r.id}
    BY <2>2, <2>3, <2>4 DEF IdsOf
  <2>7. ASSUME NEW k \in Keys, certnames'[k] # NoCmd
        PROVE  certnames'[k] \in fifo' /\ certnames'[k].key = k /\ certnames'[k].stamp # NoTime
    <3>1. CASE k = r.key
      BY <2>1, <2>4, <3>1 DEF Indexed
    <3>2. CASE k # r.key
      <4>1. certnames'[k] = certnames[k] /\ certnames[k] # NoCmd
        BY <2>1, <2>7, <3>2
      <4>2. certnames[k] \in fifo /\ certnames[k].key = k /\ certnames[k].stamp # NoTime
        BY <4>1 DEF IndexInQueue
      <4>3. certnames[k].id # old.id
        BY <2>2, <3>2, <4>2 DEF UniqueIds
      <4>4. QED
        BY <2>4, <4>1, <4>2, <4>3
    <3>3. QED
      BY <3>1, <3>2
  <2>8. QED
    BY <2>5, <2>6, <2>7 DEF IndexInQueue
<1>6. CASE AddStale(r)
  <2>1. fifo' = fifo \cup {Marked(r)} /\ certnames' = certnames
    BY <1>1, <1>2, <1>6 DEF AddStale, PutIn
  <2>2. QED
    BY <1>1, <1>2, <2>1 DEF UniqueIds, IndexInQueue, IdsOf
<1>7. QED
  BY <1>3, <1>4, <1>5, <1>6 DEF Add

LEMMA RemoveFirst ==
  ASSUME BufferTypeOK, UniqueIds, IndexInQueue, NEW r \in fifo, Remove(r)
  PROVE  /\ UniqueIds' /\ IndexInQueue'
         /\ IdsOf(fifo') = IdsOf(fifo) \ {r.id}
<1>1. fifo' = fifo \ {r} /\ r \in Ref
  BY DEF Remove, BufferTypeOK
<1>2. UniqueIds' /\ IdsOf(fifo') = IdsOf(fifo) \ {r.id}
  BY <1>1 DEF UniqueIds, IdsOf
<1>3. \A k \in Keys : certnames'[k] # NoCmd => certnames'[k] = certnames[k] /\ k # r.key
  BY DEF Remove, BufferTypeOK
<1>4. IndexInQueue'
  BY <1>1, <1>3 DEF IndexInQueue
<1>5. QED
  BY <1>2, <1>4

-----------------------------------------------------------------------------
(***************************************************************************)
(* SinglePlace with its families of sets spelled out, together with what   *)
(* the buffer needs to tell a newcomer from what it holds.                 *)
(***************************************************************************)
OneEach ==
  /\ UniqueIds
  /\ \A q, r \in delayed : q.id = r.id => q = r
  /\ \A j, k \in running : j.ref.id = k.ref.id => j = k
  /\ \A s, t \in Submitters :
       /\ submitter[s].at = "put" /\ submitter[t].at = "put"
       /\ submitter[s].id = submitter[t].id
       => s = t

Apart ==
  /\ Putting \cap (Unloaded \cup IdsOf(fifo) \cup IdsOf(InShovel)
                     \cup IdsOf(InWorkers) \cup IdsOf(delayed)) = {}
  /\ Unloaded \cap (IdsOf(fifo) \cup IdsOf(InShovel)
                      \cup IdsOf(InWorkers) \cup IdsOf(delayed)) = {}
  /\ IdsOf(fifo) \cap (IdsOf(InShovel) \cup IdsOf(InWorkers) \cup IdsOf(delayed)) = {}
  /\ IdsOf(InShovel) \cap (IdsOf(InWorkers) \cup IdsOf(delayed)) = {}
  /\ IdsOf(InWorkers) \cap IdsOf(delayed) = {}

Placed == OneEach /\ Apart /\ IndexInQueue

LEMMA PlacedSingle == Placed => SinglePlace
<1> SUFFICES ASSUME Placed PROVE SinglePlace
  OBVIOUS
<1>1. \A m \in DOMAIN Places : m \in {1, 2, 3, 4, 5, 6}
  BY DEF Places
<1>2. /\ Places[1] = Putting /\ Places[2] = Unloaded /\ Places[3] = IdsOf(fifo)
      /\ Places[4] = IdsOf(InShovel) /\ Places[5] = IdsOf(InWorkers)
      /\ Places[6] = IdsOf(delayed)
  BY DEF Places
<1>3. \A m, n \in {1, 2, 3, 4, 5, 6} : m # n => Places[m] \cap Places[n] = {}
  BY <1>2 DEF Placed, Apart
<1>4. \A m, n \in DOMAIN Places : m # n => Places[m] \cap Places[n] = {}
  BY <1>1, <1>3
<1>5. QED
  BY <1>4 DEF Placed, OneEach, SinglePlace

\* What a step leaves alone stays where it is.
LEMMA PlacesKept ==
  /\ UNCHANGED submitter => Putting' = Putting
  /\ UNCHANGED loadVars => Unloaded' = Unloaded
  /\ UNCHANGED fifo => IdsOf(fifo)' = IdsOf(fifo)
  /\ UNCHANGED shovel => IdsOf(InShovel)' = IdsOf(InShovel)
  /\ UNCHANGED running => IdsOf(InWorkers)' = IdsOf(InWorkers)
  /\ UNCHANGED delayed => IdsOf(delayed)' = IdsOf(delayed)
BY DEF Putting, Unloaded, InShovel, InWorkers, IdsOf

\* Nothing is held that was not stored.
LEMMA PlacesStored ==
  ASSUME Typed
  PROVE  /\ Putting \subseteq StoredIds /\ Unloaded \subseteq StoredIds
         /\ IdsOf(InMemory) \subseteq StoredIds
<1>1. Putting \subseteq StoredIds /\ Unloaded \subseteq StoredIds
  BY DEF Typed, HeldStored, Putting, Unloaded
<1>2. \A r \in InMemory : r.id \in StoredIds
  BY DEF Typed, HeldStored, InMemory, InShovel, InWorkers, Matches
<1>3. QED
  BY <1>1, <1>2 DEF IdsOf

LEMMA InMemoryIds ==
  IdsOf(InMemory) = IdsOf(fifo) \cup IdsOf(InShovel) \cup IdsOf(InWorkers) \cup IdsOf(delayed)
BY DEF IdsOf, InMemory

LEMMA InitPlaced == Init => Placed
<1> SUFFICES ASSUME Init PROVE Placed
  OBVIOUS
<1>1. fifo = {} /\ shovel = NoCmd /\ running = {} /\ delayed = {} /\ loader = {}
  BY DEF Init, EmptyBuffer
<1>2. \A s \in Submitters : submitter[s].at # "put"
  BY DEF Init
<1>3. OneEach
  BY <1>1, <1>2 DEF OneEach, UniqueIds
<1>4. Apart
  BY <1>1, <1>2 DEF Apart, Putting, Unloaded, InShovel, InWorkers, IdsOf
<1>5. IndexInQueue
  BY DEF IndexInQueue, Init, EmptyBuffer
<1>6. QED
  BY <1>3, <1>4, <1>5 DEF Placed

\* Putting a command on the channel, wherever else it is held.
LEMMA PutOnChannelPlaced ==
  ASSUME Typed, Placed, NEW r \in Ref, r.id \notin IdsOf(fifo), PutOnChannel(r)
  PROVE  /\ UniqueIds' /\ IndexInQueue'
         /\ IdsOf(fifo)' \subseteq IdsOf(fifo) \cup {r.id}
         /\ ~stopping => IdsOf(fifo)' = IdsOf(fifo) \cup {r.id}
<1>1. CASE ~stopping /\ Add(r)
  BY <1>1, AddNewcomer DEF Typed, TypeOK, Placed, OneEach
<1>2. CASE stopping /\ UNCHANGED bufferVars
  BY <1>2, PlacesKept DEF Placed, OneEach, UniqueIds, IndexInQueue
<1>3. QED
  BY <1>1, <1>2 DEF PutOnChannel

\* A worker that ends a job, or takes it a step further, holds nothing new.
LEMMA WorkersKept ==
  ASSUME Typed, Placed, NEW j \in running,
         Finish(j) \/ \E at \in {"executed", "exhausted", "fatal"} : Steps(j, at)
  PROVE  /\ \A k, m \in running' : k.ref.id = m.ref.id => k = m
         /\ IdsOf(InWorkers)' \subseteq IdsOf(InWorkers)
<1>1. \A k, m \in running : k.ref.id = m.ref.id => k = m
  BY DEF Placed, OneEach
<1>2. CASE Finish(j)
  <2>1. running' = running \ {j}
    BY <1>2 DEF Finish
  <2>2. QED
    BY <1>1, <2>1 DEF IdsOf, InWorkers
<1>3. ASSUME NEW at \in {"executed", "exhausted", "fatal"}, Steps(j, at)
      PROVE  /\ \A k, m \in running' : k.ref.id = m.ref.id => k = m
             /\ IdsOf(InWorkers)' \subseteq IdsOf(InWorkers)
  <2> DEFINE n == [j EXCEPT !.at = at]
  <2>1. n.ref = j.ref
    BY DEF Typed, TypeOK, WorkTypeOK, Job
  <2>2. running' = (running \ {j}) \cup {n}
    BY <1>3 DEF Steps
  <2>3. \A k, m \in running' : k.ref.id = m.ref.id => k = m
    <3> HIDE DEF n
    <3> QED
      BY <1>1, <2>1, <2>2
  <2>4. IdsOf(InWorkers)' \subseteq IdsOf(InWorkers)
    BY <2>1, <2>2 DEF IdsOf, InWorkers
  <2>5. QED
    BY <2>3, <2>4
<1>4. QED
  BY <1>2, <1>3

LEMMA FinishLeaves ==
  ASSUME Placed, NEW j \in running, Finish(j)
  PROVE  j.ref.id \notin IdsOf(InWorkers)'
BY DEF Placed, OneEach, Finish, IdsOf, InWorkers

\* Most steps hand nothing over: what they hold, they held before.
LEMMA PlacedKept ==
  ASSUME Typed, Placed, UNCHANGED <<fifo, certnames, ceiling>>,
         \A t \in Submitters : submitter'[t].at = "put" => submitter'[t] = submitter[t],
         loader' \subseteq loader,
         shovel' \in {shovel, NoCmd},
         delayed' \subseteq delayed,
         \/ UNCHANGED running
         \/ \E j \in running :
              Finish(j) \/ \E at \in {"executed", "exhausted", "fatal"} : Steps(j, at)
  PROVE  Placed'
<1>1. /\ \A k, m \in running' : k.ref.id = m.ref.id => k = m
      /\ IdsOf(InWorkers)' \subseteq IdsOf(InWorkers)
  <2>1. CASE UNCHANGED running
    BY <2>1, PlacesKept DEF Placed, OneEach
  <2>2. QED
    BY <2>1, WorkersKept
<1>2. UniqueIds' /\ IndexInQueue' /\ IdsOf(fifo)' = IdsOf(fifo)
  BY PlacesKept DEF Placed, OneEach, UniqueIds, IndexInQueue
<1>3. Putting' \subseteq Putting /\ Unloaded' \subseteq Unloaded
  BY DEF Putting, Unloaded
<1>4. IdsOf(InShovel)' \subseteq IdsOf(InShovel)
  BY DEF IdsOf, InShovel
<1>5. IdsOf(delayed)' \subseteq IdsOf(delayed)
  BY DEF IdsOf
<1>6. OneEach'
  BY <1>1, <1>2 DEF Placed, OneEach
<1>7. Apart'
  BY <1>1, <1>2, <1>3, <1>4, <1>5 DEF Placed, Apart
<1>8. QED
  BY <1>2, <1>6, <1>7 DEF Placed

LEMMA StorePlaced == ASSUME Typed, Placed, NEW s \in Submitters, Store(s) PROVE Placed'
<1> DEFINE n == Len(stored')
<1>1. n = Len(stored) + 1 /\ n \in Nat /\ n \notin StoredIds
  BY DEF Typed, TypeOK, DiskTypeOK, StoredIds, Store
<1>2. submitter' = [submitter EXCEPT ![s] = [at |-> "put", id |-> n]]
  BY DEF Store
<1>3. submitter \in [Submitters -> SubmitState]
  BY DEF Typed, TypeOK, SubmitTypeOK
<1>4. \A t \in Submitters : t # s => submitter'[t] = submitter[t]
  BY <1>2
<1>5. submitter'[s].at = "put" /\ submitter'[s].id = n
  BY <1>2, <1>3
<1>6. Putting' \subseteq Putting \cup {n}
  BY <1>4, <1>5 DEF Putting
<1>7. \A t \in Submitters : submitter[t].at = "put" => submitter[t].id # n
  BY <1>1 DEF Typed, HeldStored
<1>8. ceiling <= n /\ ceiling \in Int
  BY <1>1 DEF Typed, TypeOK, HeldStored, LoadTypeOK
<1>9. Unloaded' = Unloaded
  BY <1>1, <1>8 DEF Unloaded, Store
<1>10. /\ IdsOf(fifo)' = IdsOf(fifo) /\ IdsOf(InShovel)' = IdsOf(InShovel)
       /\ IdsOf(InWorkers)' = IdsOf(InWorkers) /\ IdsOf(delayed)' = IdsOf(delayed)
  BY PlacesKept DEF Store
<1>11. n \notin Unloaded \cup IdsOf(fifo) \cup IdsOf(InShovel)
                         \cup IdsOf(InWorkers) \cup IdsOf(delayed)
  BY <1>1, PlacesStored, InMemoryIds
<1>12. OneEach'
  BY <1>4, <1>5, <1>7 DEF Placed, OneEach, UniqueIds, Store
<1>13. Apart'
  BY <1>6, <1>9, <1>10, <1>11 DEF Placed, Apart
<1>14. QED
  BY <1>12, <1>13 DEF Placed, IndexInQueue, Store

LEMMA PutPlaced == ASSUME Typed, Placed, NEW s \in Submitters, Put(s) PROVE Placed'
<1> DEFINE n == submitter[s].id
           r == RefOf(n)
<1>1. submitter[s].at = "put" /\ n \in Putting /\ r.id = n
  BY DEF Put, Putting, RefOf
<1>2. r \in Ref
  BY <1>1, RefOfTyped, PlacesStored DEF Typed, TypeOK
<1>3. UniqueIds' /\ IndexInQueue' /\ IdsOf(fifo)' \subseteq IdsOf(fifo) \cup {n}
  BY <1>1, <1>2, PutOnChannelPlaced DEF Placed, Apart, Put
<1>4. \A t \in Submitters : submitter'[t].at = "put" =>
         submitter'[t] = submitter[t] /\ t # s
  BY DEF Typed, TypeOK, SubmitTypeOK, SubmitState, Put
<1>5. Putting' \subseteq Putting \ {n}
  BY <1>1, <1>4 DEF Putting, Placed, OneEach
<1>6. /\ Unloaded' = Unloaded /\ IdsOf(InShovel)' = IdsOf(InShovel)
      /\ IdsOf(InWorkers)' = IdsOf(InWorkers) /\ IdsOf(delayed)' = IdsOf(delayed)
  BY PlacesKept DEF Put
<1>7. OneEach'
  BY <1>3, <1>4 DEF Placed, OneEach, Put
<1>8. Apart'
  BY <1>1, <1>3, <1>5, <1>6 DEF Placed, Apart
<1>9. QED
  BY <1>3, <1>7, <1>8 DEF Placed

LEMMA LoadPlaced == ASSUME Typed, Placed, NEW i \in loader, Load(i) PROVE Placed'
<1>1. i \in Unloaded /\ RefOf(i).id = i
  BY DEF Load, Unloaded, RefOf
<1>2. RefOf(i) \in Ref
  BY <1>1, RefOfTyped, PlacesStored DEF Typed, TypeOK
<1>3. UniqueIds' /\ IndexInQueue' /\ IdsOf(fifo)' \subseteq IdsOf(fifo) \cup {i}
  BY <1>1, <1>2, PutOnChannelPlaced DEF Placed, Apart, Load
<1>4. Unloaded' = Unloaded \ {i}
  BY DEF Unloaded, Load
<1>5. /\ Putting' = Putting /\ IdsOf(InShovel)' = IdsOf(InShovel)
      /\ IdsOf(InWorkers)' = IdsOf(InWorkers) /\ IdsOf(delayed)' = IdsOf(delayed)
  BY PlacesKept DEF Load
<1>6. OneEach'
  BY <1>3 DEF Placed, OneEach, Load
<1>7. Apart'
  BY <1>1, <1>3, <1>4, <1>5 DEF Placed, Apart
<1>8. QED
  BY <1>3, <1>6, <1>7 DEF Placed

LEMMA TakePlaced == ASSUME Typed, Placed, NEW r \in fifo, Take(r) PROVE Placed'
<1>1. UniqueIds' /\ IndexInQueue' /\ IdsOf(fifo)' = IdsOf(fifo) \ {r.id}
  BY RemoveFirst DEF Typed, TypeOK, Placed, OneEach, Take
<1>2. r.id \in IdsOf(fifo) /\ r # NoCmd
  BY DEF Typed, TypeOK, BufferTypeOK, IdsOf
<1>3. IdsOf(InShovel)' \subseteq {r.id}
  BY DEF Take, InShovel, IdsOf
<1>4. /\ Putting' = Putting /\ Unloaded' = Unloaded
      /\ IdsOf(InWorkers)' = IdsOf(InWorkers) /\ IdsOf(delayed)' = IdsOf(delayed)
  BY PlacesKept DEF Take
<1>5. OneEach'
  BY <1>1 DEF Placed, OneEach, Take
<1>6. Apart'
  BY <1>1, <1>2, <1>3, <1>4 DEF Placed, Apart
<1>7. QED
  BY <1>1, <1>5, <1>6 DEF Placed

LEMMA DispatchPlaced == ASSUME Typed, Placed, Dispatch PROVE Placed'
<1> DEFINE j == [ref |-> shovel, at |-> "start"]
<1>1. shovel # NoCmd /\ shovel' = NoCmd /\ running' = running \cup {j} /\ j.ref = shovel
  BY DEF Dispatch
<1>2. shovel.id \in IdsOf(InShovel) /\ IdsOf(InShovel)' = {}
  BY <1>1 DEF IdsOf, InShovel
<1>3. IdsOf(InWorkers)' \subseteq IdsOf(InWorkers) \cup {shovel.id}
  BY <1>1 DEF IdsOf, InWorkers
<1>4. \A k \in running : k.ref.id # shovel.id
  BY <1>2 DEF Placed, Apart, IdsOf, InWorkers
<1>5. /\ Putting' = Putting /\ Unloaded' = Unloaded
      /\ IdsOf(fifo)' = IdsOf(fifo) /\ IdsOf(delayed)' = IdsOf(delayed)
  BY PlacesKept DEF Dispatch
<1>6. \A k, m \in running' : k.ref.id = m.ref.id => k = m
  <2> HIDE DEF j
  <2> QED
    BY <1>1, <1>4 DEF Placed, OneEach
<1>7. OneEach'
  BY <1>6 DEF Placed, OneEach, UniqueIds, Dispatch
<1>8. Apart'
  BY <1>2, <1>3, <1>5 DEF Placed, Apart
<1>9. QED
  BY <1>7, <1>8 DEF Placed, IndexInQueue, Dispatch

\* A scheduled retry moves the reference from the worker to the scheduler.
LEMMA RetryPlaced == ASSUME Typed, Placed, NEW j \in running, Retry(j) PROVE Placed'
<1>1. CASE Delay(j)
  <2> DEFINE r == [j.ref EXCEPT !.attempts = @ + 1]
  <2>1. r.id = j.ref.id
    BY DEF Typed, TypeOK, WorkTypeOK, Job, Ref
  <2>2. delayed' = delayed \cup {r} /\ Finish(j)
    BY <1>1 DEF Delay
  <2>3. /\ \A k, m \in running' : k.ref.id = m.ref.id => k = m
        /\ IdsOf(InWorkers)' \subseteq IdsOf(InWorkers)
        /\ j.ref.id \notin IdsOf(InWorkers)'
    BY <2>2, WorkersKept, FinishLeaves
  <2>4. j.ref.id \in IdsOf(InWorkers)
    BY DEF IdsOf, InWorkers
  <2>5. IdsOf(delayed)' = IdsOf(delayed) \cup {j.ref.id}
    BY <2>1, <2>2 DEF IdsOf
  <2>6. /\ Putting' = Putting /\ Unloaded' = Unloaded
        /\ IdsOf(fifo)' = IdsOf(fifo) /\ IdsOf(InShovel)' = IdsOf(InShovel)
    BY PlacesKept DEF Retry
  <2>7. \A q \in delayed : q.id # j.ref.id
    BY <2>4 DEF Placed, Apart, IdsOf
  <2>8. \A p, q \in delayed' : p.id = q.id => p = q
    <3> HIDE DEF r
    <3> QED
      BY <2>1, <2>2, <2>7 DEF Placed, OneEach
  <2>9. OneEach'
    BY <2>3, <2>8 DEF Placed, OneEach, UniqueIds, Retry
  <2>10. Apart'
    BY <2>3, <2>4, <2>5, <2>6 DEF Placed, Apart
  <2>11. QED
    BY <2>9, <2>10 DEF Placed, IndexInQueue, Retry
<1>2. CASE Steps(j, "exhausted") /\ UNCHANGED <<gate, delayed, awaiting>>
  BY <1>2, PlacedKept DEF Retry
<1>3. QED
  BY <1>1, <1>2 DEF Retry

LEMMA RevivePlaced == ASSUME Typed, Placed, NEW r \in delayed, Revive(r) PROVE Placed'
<1>1. r \in Ref /\ r.id \in IdsOf(delayed)
  BY DEF Typed, TypeOK, OtherTypeOK, IdsOf
<1>2. UniqueIds' /\ IndexInQueue' /\ IdsOf(fifo)' \subseteq IdsOf(fifo) \cup {r.id}
  BY <1>1, PutOnChannelPlaced DEF Placed, Apart, Revive
<1>3. IdsOf(delayed)' = IdsOf(delayed) \ {r.id}
  BY DEF Revive, IdsOf, Placed, OneEach
<1>4. /\ Putting' = Putting /\ Unloaded' = Unloaded
      /\ IdsOf(InShovel)' = IdsOf(InShovel) /\ IdsOf(InWorkers)' = IdsOf(InWorkers)
  BY PlacesKept DEF Revive
<1>5. OneEach'
  BY <1>2 DEF Placed, OneEach, Revive
<1>6. Apart'
  BY <1>1, <1>2, <1>3, <1>4 DEF Placed, Apart
<1>7. QED
  BY <1>2, <1>5, <1>6 DEF Placed

LEMMA RestartPlaced == ASSUME Typed, Restart PROVE Placed'
<1>1. fifo' = {} /\ shovel' = NoCmd /\ running' = {} /\ delayed' = {}
  BY DEF Restart
<1>2. \A s \in Submitters : submitter'[s].at # "put"
  BY DEF Restart
<1>3. OneEach'
  BY <1>1, <1>2 DEF OneEach, UniqueIds
<1>4. /\ Putting' = {} /\ IdsOf(fifo)' = {} /\ IdsOf(InShovel)' = {}
      /\ IdsOf(InWorkers)' = {} /\ IdsOf(delayed)' = {}
  BY <1>1, <1>2 DEF Putting, InShovel, InWorkers, IdsOf
<1>5. Apart'
  BY <1>4 DEF Apart
<1>6. IndexInQueue'
  BY DEF IndexInQueue, Restart
<1>7. QED
  BY <1>3, <1>5, <1>6 DEF Placed

LEMMA SubmissionPlaced ==
  ASSUME Typed, Placed, NEW s \in Submitters, Arrive(s) \/ Submission(s) PROVE Placed'
<1>1. CASE Arrive(s) \/ Acquire(s) \/ AcquireInterrupted(s)
  BY <1>1, PlacedKept DEF Arrive, Acquire, AcquireInterrupted, Typed, TypeOK,
      SubmitTypeOK, SubmitState
<1>2. CASE StoreFails(s)
  BY <1>2, PlacedKept DEF StoreFails, Typed, TypeOK, SubmitTypeOK, SubmitState
<1>3. CASE PutInterrupted(s)
  BY <1>3, PlacedKept DEF PutInterrupted, Typed, TypeOK, SubmitTypeOK, SubmitState
<1>4. CASE Count(s)
  BY <1>4, PlacedKept DEF Count, Typed, TypeOK, SubmitTypeOK, SubmitState
<1>5. QED
  BY <1>1, <1>2, <1>3, <1>4, StorePlaced, PutPlaced DEF Submission

LEMMA WorkPlaced == ASSUME Typed, Placed, NEW j \in running, Work(j) PROVE Placed'
<1>1. CASE Missing(j)
  BY <1>1, PlacedKept DEF Missing
<1>2. CASE DropObsolete(j)
  BY <1>2, PlacedKept DEF DropObsolete
<1>3. CASE Execute(j)
  BY <1>3, PlacedKept DEF Execute
<1>4. CASE Ack(j)
  BY <1>4, PlacedKept DEF Ack
<1>5. CASE FailTransiently(j) \/ AckFails(j)
  BY <1>5, RetryPlaced DEF FailTransiently, AckFails
<1>6. CASE FailForGood(j)
  BY <1>6, PlacedKept DEF FailForGood
<1>7. CASE Discard(j)
  BY <1>7, PlacedKept DEF Discard
<1>8. CASE DiscardFails(j)
  BY <1>8, PlacedKept DEF DiscardFails
<1>9. QED
  BY <1>1, <1>2, <1>3, <1>4, <1>5, <1>6, <1>7, <1>8 DEF Work

LEMMA NextPlaced == ASSUME Typed, Placed, [Next]_vars PROVE Placed'
<1>1. CASE Loading
  <2>1. ASSUME NEW i \in loader, LoadSkips(i) PROVE Placed'
    BY <2>1, PlacedKept DEF LoadSkips
  <2>2. CASE LoadCounts
    BY <2>2, PlacedKept DEF LoadCounts
  <2>3. QED
    BY <1>1, <2>1, <2>2, LoadPlaced DEF Loading
<1>2. CASE PassPause \/ Grant \/ Rejected \/ PauseOrResume \/ CountRevival
  BY <1>2, PlacedKept DEF PassPause, Grant, Rejected, PauseOrResume, CountRevival
<1>3. CASE Crash \/ Reload
  BY <1>3, RestartPlaced DEF Crash, Reload
<1>4. CASE Stop
  BY <1>4, PlacedKept DEF Stop
<1>5. ASSUME NEW i \in disk, LoseFile(i) PROVE Placed'
  BY <1>5, PlacedKept DEF LoseFile
<1>6. CASE UNCHANGED vars
  BY <1>6, PlacedKept DEF vars
<1>7. QED
  BY <1>1, <1>2, <1>3, <1>4, <1>5, <1>6, SubmissionPlaced, TakePlaced, DispatchPlaced,
     WorkPlaced, RevivePlaced DEF Next, Shoveling

LEMMA AlwaysPlaced == Spec => [](Typed /\ Placed)
<1>1. Init => Typed /\ Placed
  BY InitTyped, InitPlaced
<1>2. Typed /\ Placed /\ [Next]_vars => (Typed /\ Placed)'
  BY NextTyped, NextPlaced
<1>3. QED
  BY <1>1, <1>2, PTL DEF Spec

(***************************************************************************)
(* No command is in two places of the program at once, so that no two      *)
(* threads work on it: HTTP threads, the loader under its ceiling, the     *)
(* channel, the shovel, the workers and the scheduled retries hand the one *)
(* reference on.                                                           *)
(***************************************************************************)
THEOREM OnePlaceOnly == Spec => []SinglePlace
<1>1. Typed /\ Placed => SinglePlace
  BY PlacedSingle
<1>2. QED
  BY <1>1, AlwaysPlaced, PTL

(***************************************************************************)
(* certnames-map only points at commands that are in the queue: when add!* *)
(* marks one, it never brings a command back that a worker already has.    *)
(***************************************************************************)
THEOREM IndexStaysInQueue == Spec => []IndexInQueue
<1>1. Typed /\ Placed => IndexInQueue
  BY DEF Placed
<1>2. QED
  BY <1>1, AlwaysPlaced, PTL

-----------------------------------------------------------------------------
\* Where the commands on disk are: on their way to a worker, or stranded.

OnTheWay == Putting \cup Unloaded \cup IdsOf(fifo) \cup IdsOf(InShovel)
              \cup IdsOf(InWorkers) \cup IdsOf(delayed)

LEMMA ForgottenPlaces ==
  NoneForgotten <=> (~stopping => disk \subseteq OnTheWay \cup stranded)
BY InMemoryIds DEF NoneForgotten, OnTheWay

\* A worker that is done with a command lets go of that one only.
LEMMA WorkerLetsGo ==
  ASSUME Typed, NEW j \in running
  PROVE  /\ Finish(j) => IdsOf(InWorkers) \ {j.ref.id} \subseteq IdsOf(InWorkers)'
         /\ \A at \in {"executed", "exhausted", "fatal"} :
              Steps(j, at) => IdsOf(InWorkers) \subseteq IdsOf(InWorkers)'
<1>1. Finish(j) => IdsOf(InWorkers) \ {j.ref.id} \subseteq IdsOf(InWorkers)'
  BY DEF Finish, IdsOf, InWorkers
<1>2. ASSUME NEW at \in {"executed", "exhausted", "fatal"}, Steps(j, at)
      PROVE  IdsOf(InWorkers) \subseteq IdsOf(InWorkers)'
  <2> DEFINE n == [j EXCEPT !.at = at]
  <2>1. n.ref = j.ref
    BY DEF Typed, TypeOK, WorkTypeOK, Job
  <2>2. running' = (running \ {j}) \cup {n}
    BY <1>2 DEF Steps
  <2> HIDE DEF n
  <2>3. QED
    BY <2>1, <2>2 DEF IdsOf, InWorkers
<1>3. QED
  BY <1>1, <1>2

LEMMA SubmissionForgetsNone ==
  ASSUME Typed, Placed, ~stopping, disk \subseteq OnTheWay \cup stranded,
         NEW s \in Submitters, Arrive(s) \/ Submission(s)
  PROVE  ~stopping' => disk' \subseteq OnTheWay' \cup stranded'
<1> USE DEF Typed, TypeOK, SubmitTypeOK, SubmitState
<1>1. CASE Arrive(s) \/ Acquire(s) \/ StoreFails(s) \/ Count(s)
  <2>1. \A t \in Submitters : submitter[t].at = "put" => submitter'[t] = submitter[t]
    BY <1>1 DEF Arrive, Acquire, StoreFails, Count
  <2>2. Putting \subseteq Putting'
    BY <2>1 DEF Putting
  <2>3. UNCHANGED <<loadVars, fifo, shovel, running, delayed, disk, stranded>>
    BY <1>1 DEF Arrive, Acquire, StoreFails, Count
  <2>4. QED
    BY <2>2, <2>3, PlacesKept DEF OnTheWay
<1>2. CASE Store(s)
  <2> DEFINE n == Len(stored')
  <2>1. submitter' = [submitter EXCEPT ![s] = [at |-> "put", id |-> n]]
        /\ submitter[s].at = "store" /\ disk' = disk \cup {n}
    BY <1>2 DEF Store
  <2> HIDE DEF n
  <2>2. submitter'[s].at = "put" /\ submitter'[s].id = n
    BY <2>1
  <2>3. \A t \in Submitters : submitter[t].at = "put" => submitter'[t] = submitter[t]
    BY <2>1
  <2>4. Putting \cup {n} \subseteq Putting'
    BY <2>2, <2>3 DEF Putting
  <2>5. Unloaded \subseteq Unloaded'
    BY <1>2 DEF Store, Unloaded
  <2>6. UNCHANGED <<fifo, shovel, running, delayed, stranded>>
    BY <1>2 DEF Store
  <2>7. QED
    BY <2>1, <2>4, <2>5, <2>6, PlacesKept DEF OnTheWay
<1>3. CASE Put(s)
  <2> DEFINE n == submitter[s].id
  <2>1. n \in Putting /\ RefOf(n).id = n
    BY <1>3 DEF Put, Putting, RefOf
  <2>2. RefOf(n) \in Ref
    BY <2>1, RefOfTyped, PlacesStored
  <2>3. IdsOf(fifo)' = IdsOf(fifo) \cup {n}
    BY <1>3, <2>1, <2>2, PutOnChannelPlaced DEF Put, Placed, Apart
  <2>4. \A t \in Submitters : t # s => submitter'[t] = submitter[t]
    BY <1>3 DEF Put
  <2>5. Putting \ {n} \subseteq Putting'
    BY <2>4 DEF Putting
  <2>6. UNCHANGED <<loadVars, shovel, running, delayed, disk, stranded>>
    BY <1>3 DEF Put
  <2>7. QED
    BY <2>3, <2>5, <2>6, PlacesKept DEF OnTheWay
<1>4. CASE PutInterrupted(s) \/ AcquireInterrupted(s)
  BY <1>4 DEF PutInterrupted, AcquireInterrupted
<1>5. QED
  BY <1>1, <1>2, <1>3, <1>4 DEF Submission

LEMMA LoadingForgetsNone ==
  ASSUME Typed, Placed, ~stopping, disk \subseteq OnTheWay \cup stranded, Loading
  PROVE  disk' \subseteq OnTheWay' \cup stranded'
<1>1. ASSUME NEW i \in loader, Load(i)
      PROVE  disk' \subseteq OnTheWay' \cup stranded'
  <2>1. i \in Unloaded /\ RefOf(i).id = i
    BY <1>1 DEF Load, Unloaded, RefOf
  <2>2. RefOf(i) \in Ref
    BY <2>1, RefOfTyped, PlacesStored DEF Typed, TypeOK
  <2>3. IdsOf(fifo)' = IdsOf(fifo) \cup {i}
    BY <1>1, <2>1, <2>2, PutOnChannelPlaced DEF Load, Placed, Apart
  <2>4. Unloaded \ {i} \subseteq Unloaded'
    BY <1>1 DEF Load, Unloaded
  <2>5. UNCHANGED <<submitter, shovel, running, delayed, disk, stranded>>
    BY <1>1 DEF Load
  <2>6. QED
    BY <2>3, <2>4, <2>5, PlacesKept DEF OnTheWay
<1>2. ASSUME NEW i \in loader, LoadSkips(i)
      PROVE  disk' \subseteq OnTheWay' \cup stranded'
  <2>1. i \in Ids /\ ceiling \in Int
    BY DEF Typed, TypeOK, LoadTypeOK
  <2>2. i \in Unloaded => i \notin disk
    BY <1>2, <2>1 DEF LoadSkips, Unloaded, Ids
  <2>3. Unloaded \ {i} \subseteq Unloaded'
    BY <1>2 DEF LoadSkips, Unloaded
  <2>4. UNCHANGED <<submitter, fifo, shovel, running, delayed, disk, stranded>>
    BY <1>2 DEF LoadSkips
  <2>5. QED
    BY <2>2, <2>3, <2>4, PlacesKept DEF OnTheWay
<1>3. CASE LoadCounts
  <2>1. UNCHANGED <<submitter, fifo, shovel, running, delayed, disk, stranded>>
    BY <1>3 DEF LoadCounts
  <2>2. Unloaded' = Unloaded
    BY <1>3 DEF LoadCounts, Unloaded
  <2>3. QED
    BY <2>1, <2>2, PlacesKept DEF OnTheWay
<1>4. QED
  BY <1>1, <1>2, <1>3 DEF Loading

LEMMA HandingForgetsNone ==
  ASSUME Typed, Placed, ~stopping, disk \subseteq OnTheWay \cup stranded,
         Shoveling \/ \E r \in delayed : Revive(r)
  PROVE  disk' \subseteq OnTheWay' \cup stranded'
<1>1. ASSUME NEW r \in fifo, Take(r)
      PROVE  disk' \subseteq OnTheWay' \cup stranded'
  <2>1. IdsOf(fifo)' = IdsOf(fifo) \ {r.id}
    BY <1>1, RemoveFirst DEF Take, Placed, OneEach, Typed, TypeOK
  <2>2. r # NoCmd
    BY DEF Typed, TypeOK, BufferTypeOK
  <2>3. shovel = NoCmd /\ shovel' = r
    BY <1>1 DEF Take
  <2>4. IdsOf(InShovel) = {} /\ r.id \in IdsOf(InShovel)'
    BY <2>2, <2>3 DEF InShovel, IdsOf
  <2>5. UNCHANGED <<submitter, loadVars, running, delayed, disk, stranded>>
    BY <1>1 DEF Take
  <2>6. QED
    BY <2>1, <2>4, <2>5, PlacesKept DEF OnTheWay
<1>2. CASE Dispatch
  <2> DEFINE j == [ref |-> shovel, at |-> "start"]
  <2>1. shovel # NoCmd /\ running' = running \cup {j} /\ j.ref = shovel
    BY <1>2 DEF Dispatch
  <2>2. IdsOf(InShovel) = {shovel.id}
    BY <2>1 DEF InShovel, IdsOf
  <2>3. IdsOf(InWorkers) \cup {shovel.id} \subseteq IdsOf(InWorkers)'
    <3> HIDE DEF j
    <3> QED
      BY <2>1 DEF InWorkers, IdsOf
  <2>4. UNCHANGED <<submitter, loadVars, fifo, delayed, disk, stranded>>
    BY <1>2 DEF Dispatch
  <2>5. QED
    BY <2>2, <2>3, <2>4, PlacesKept DEF OnTheWay
<1>3. ASSUME NEW r \in delayed, Revive(r)
      PROVE  disk' \subseteq OnTheWay' \cup stranded'
  <2>1. r \in Ref /\ r.id \in IdsOf(delayed)
    BY DEF Typed, TypeOK, OtherTypeOK, IdsOf
  <2>2. IdsOf(fifo)' = IdsOf(fifo) \cup {r.id}
    BY <1>3, <2>1, PutOnChannelPlaced DEF Placed, Apart, Revive
  <2>3. IdsOf(delayed) \ {r.id} \subseteq IdsOf(delayed)'
    BY <1>3 DEF Revive, IdsOf
  <2>4. UNCHANGED <<submitter, loadVars, shovel, running, disk, stranded>>
    BY <1>3 DEF Revive
  <2>5. QED
    BY <2>2, <2>3, <2>4, PlacesKept DEF OnTheWay
<1>4. CASE PassPause \/ Grant
  BY <1>4, PlacesKept DEF PassPause, Grant, OnTheWay
<1>5. CASE Rejected
  BY <1>5 DEF Rejected
<1>6. QED
  BY <1>1, <1>2, <1>3, <1>4, <1>5 DEF Shoveling

LEMMA WorkForgetsNone ==
  ASSUME Typed, Placed, disk \subseteq OnTheWay \cup stranded,
         NEW j \in running, Work(j)
  PROVE  disk' \subseteq OnTheWay' \cup stranded'
<1>1. UNCHANGED <<submitter, loadVars, fifo, shovel>> /\ stranded \subseteq stranded'
  BY DEF Work, Missing, DropObsolete, Execute, Ack, FailTransiently, AckFails,
         FailForGood, Discard, DiscardFails, Retry
<1>2. /\ Putting' = Putting /\ Unloaded' = Unloaded /\ IdsOf(fifo)' = IdsOf(fifo)
      /\ IdsOf(InShovel)' = IdsOf(InShovel)
      /\ UNCHANGED delayed => IdsOf(delayed)' = IdsOf(delayed)
  BY <1>1, PlacesKept
<1>3. CASE Missing(j) \/ DropObsolete(j) \/ Ack(j) \/ Discard(j)
  <2>1. Finish(j) /\ UNCHANGED delayed /\ j.ref.id \notin disk' /\ disk' \subseteq disk
    BY <1>3 DEF Missing, DropObsolete, Ack, Discard, MoveToDlo
  <2>2. IdsOf(InWorkers) \ {j.ref.id} \subseteq IdsOf(InWorkers)'
    BY <2>1, WorkerLetsGo
  <2>3. QED
    BY <1>1, <1>2, <2>1, <2>2 DEF OnTheWay
<1>4. CASE DiscardFails(j)
  <2>1. Finish(j) /\ UNCHANGED delayed /\ disk' \subseteq disk
    BY <1>4 DEF DiscardFails, MoveToDlo
  <2>2. j.ref.id \in disk' => j.ref.id \in stranded'
    BY <1>4 DEF DiscardFails, MoveToDlo
  <2>3. IdsOf(InWorkers) \ {j.ref.id} \subseteq IdsOf(InWorkers)'
    BY <2>1, WorkerLetsGo
  <2>4. QED
    BY <1>1, <1>2, <2>1, <2>2, <2>3 DEF OnTheWay
<1>5. CASE Execute(j) \/ FailForGood(j)
  <2>1. UNCHANGED <<delayed, disk>> /\ (Steps(j, "executed") \/ Steps(j, "fatal"))
    BY <1>5 DEF Execute, FailForGood
  <2>2. IdsOf(InWorkers) \subseteq IdsOf(InWorkers)'
    BY <2>1, WorkerLetsGo
  <2>3. QED
    BY <1>1, <1>2, <2>1, <2>2 DEF OnTheWay
<1>6. CASE FailTransiently(j) \/ AckFails(j)
  <2>1. UNCHANGED disk /\ Retry(j)
    BY <1>6 DEF FailTransiently, AckFails, Retry
  <2>2. CASE Delay(j)
    <3> DEFINE r == [j.ref EXCEPT !.attempts = @ + 1]
    <3>1. r.id = j.ref.id
      BY DEF Typed, TypeOK, WorkTypeOK, Job, Ref
    <3>2. delayed' = delayed \cup {r} /\ Finish(j)
      BY <2>2 DEF Delay
    <3>3. IdsOf(delayed)' = IdsOf(delayed) \cup {j.ref.id}
      BY <3>1, <3>2 DEF IdsOf
    <3>4. IdsOf(InWorkers) \ {j.ref.id} \subseteq IdsOf(InWorkers)'
      BY <3>2, WorkerLetsGo
    <3>5. QED
      BY <1>1, <1>2, <2>1, <3>3, <3>4 DEF OnTheWay
  <2>3. CASE Steps(j, "exhausted") /\ UNCHANGED <<gate, delayed, awaiting>>
    <3>1. IdsOf(InWorkers) \subseteq IdsOf(InWorkers)'
      BY <2>3, WorkerLetsGo
    <3>2. QED
      BY <1>1, <1>2, <2>1, <2>3, <3>1 DEF OnTheWay
  <2>4. QED
    BY <2>1, <2>2, <2>3 DEF Retry
<1>7. QED
  BY <1>3, <1>4, <1>5, <1>6 DEF Work

\* After a restart the loader still has everything on disk before it.
LEMMA RestartForgetsNone == ASSUME Typed, Restart PROVE disk' \subseteq Unloaded'
<1>1. disk \subseteq 1..Len(stored)
  BY DEF Typed, TypeOK, DiskTypeOK, HeldStored, StoredIds
<1>2. loader' = disk /\ disk' = disk /\ ceiling' = Len(stored) + 1
  BY DEF Restart
<1>3. Len(stored) \in Nat
  BY DEF Typed, TypeOK, DiskTypeOK
<1>4. QED
  BY <1>1, <1>2, <1>3 DEF Unloaded

LEMMA NextForgetsNone ==
  ASSUME Typed, Placed, NoneForgotten, [Next]_vars PROVE NoneForgotten'
<1> SUFFICES ASSUME ~stopping' PROVE disk' \subseteq OnTheWay' \cup stranded'
  BY ForgottenPlaces DEF NoneForgotten, InMemory, IdsOf, OnTheWay
<1>1. CASE Crash \/ Reload
  BY <1>1, RestartForgetsNone DEF Crash, Reload, OnTheWay
<1>2. CASE ~Crash /\ ~Reload
  <2>1. ~stopping
    BY <1>2 DEF Next, Shoveling, Submission, Arrive, Acquire, AcquireInterrupted,
        Store, StoreFails, Put, PutInterrupted,
       Count, Loading, Load, LoadSkips, LoadCounts, Take, PassPause, Grant, Dispatch,
        Rejected, PauseOrResume,
       Work, Missing, DropObsolete, Execute, Ack, FailTransiently, AckFails,
       FailForGood, Discard, DiscardFails, Retry, Revive, CountRevival, Stop,
        LoseFile, vars
  <2>2. disk \subseteq OnTheWay \cup stranded
    BY <2>1, ForgottenPlaces
  <2>3. CASE PauseOrResume \/ CountRevival \/ UNCHANGED vars
    BY <2>2, <2>3, PlacesKept DEF PauseOrResume, CountRevival, vars, OnTheWay
  <2>4. ASSUME NEW i \in disk, LoseFile(i)
        PROVE  disk' \subseteq OnTheWay' \cup stranded'
    BY <2>2, <2>4, PlacesKept DEF LoseFile, OnTheWay
  <2>5. ~Stop
    BY DEF Stop
  <2>6. QED
    BY <1>2, <2>1, <2>2, <2>3, <2>4, <2>5, SubmissionForgetsNone, LoadingForgetsNone,
       HandingForgetsNone, WorkForgetsNone DEF Next
<1>3. QED
  BY <1>1, <1>2

(***************************************************************************)
(* No file waits for a restart because some thread let its reference go:   *)
(* while the program runs, what is on disk is on its way to a worker or    *)
(* was stranded by a failed discard-message.                               *)
(***************************************************************************)
THEOREM NoneIsForgotten == Spec => []NoneForgotten
<1>1. Init => NoneForgotten
  BY DEF Init, NoneForgotten
<1>2. Typed /\ Placed /\ NoneForgotten /\ [Next]_vars => NoneForgotten'
  BY NextForgetsNone
<1>3. QED
  BY <1>1, <1>2, AlwaysPlaced, PTL DEF Spec

-----------------------------------------------------------------------------
(***************************************************************************)
(* The fate of a command.  A file is removed only by a worker that has run *)
(* the command, found it obsolete, or moved it to the dead letter office;  *)
(* so a worker about to acknowledge must have run it.                      *)
(***************************************************************************)
RanFirst == \A j \in running : j.at = "executed" => executed[j.ref.id] > 0

\* The ways a worker's step changes what it is doing.
LEMMA WorkerStages ==
  ASSUME Typed, NEW j \in running, Work(j)
  PROVE  /\ \A k \in running' : k \in running \/ k.ref = j.ref
         /\ \A k \in running' : k.at = "executed" => k \in running \/ Execute(j)
<1>1. CASE Finish(j)
  BY <1>1 DEF Finish
<1>2. ASSUME NEW at \in {"executed", "exhausted", "fatal"}, Steps(j, at),
             at = "executed" => Execute(j)
      PROVE  /\ \A k \in running' : k \in running \/ k.ref = j.ref
             /\ \A k \in running' : k.at = "executed" => k \in running \/ Execute(j)
  <2> DEFINE n == [j EXCEPT !.at = at]
  <2>1. n.ref = j.ref /\ n.at = at
    BY DEF Typed, TypeOK, WorkTypeOK, Job
  <2>2. running' = (running \ {j}) \cup {n}
    BY <1>2 DEF Steps
  <2> HIDE DEF n
  <2>3. QED
    BY <1>2, <2>1, <2>2
<1>3. \/ Finish(j) \/ Steps(j, "exhausted") \/ Steps(j, "fatal")
      \/ Steps(j, "executed") /\ Execute(j)
  BY DEF Work, Missing, DropObsolete, Execute, Ack, FailTransiently, AckFails,
         FailForGood, Discard, DiscardFails, Retry, Delay
<1>4. QED
  BY <1>1, <1>2, <1>3

\* A command, once run, has been run; its counter changes in no other way.
LEMMA ExecutedGrows ==
  ASSUME Typed, [Next]_vars
  PROVE  /\ \A i \in Ids : executed'[i] >= executed[i]
         /\ \A j \in running : Execute(j) => executed'[j.ref.id] > 0
<1>1. executed \in [Ids -> Nat] /\ \A j \in running : j.ref.id \in Ids
  BY DEF Typed, TypeOK, HistoryTypeOK, WorkTypeOK, Job, Ref
<1>2. \A j \in running : Execute(j) =>
        /\ executed' = [executed EXCEPT ![j.ref.id] = @ + 1]
  BY DEF Execute
<1>3. UNCHANGED executed \/ \E j \in running : Execute(j)
  BY DEF Next, Shoveling, Submission, Arrive, Acquire, AcquireInterrupted, Store,
      StoreFails, Put, PutInterrupted,
       Count, Loading, Load, LoadSkips, LoadCounts, Take, PassPause, Grant, Dispatch,
      Rejected, PauseOrResume,
       Work, Missing, DropObsolete, Ack, FailTransiently, AckFails,
       FailForGood, Discard, DiscardFails, Retry, Revive, CountRevival, Crash, Stop,
      Reload,
       Restart, LoseFile, vars
<1>4. QED
  BY <1>1, <1>2, <1>3

LEMMA NextRanFirst == ASSUME Typed, RanFirst, [Next]_vars PROVE RanFirst'
<1>1. \A j \in running : j.ref.id \in Ids
  BY DEF Typed, TypeOK, WorkTypeOK, Job, Ref
<1>2. \A i \in Ids : executed[i] \in Nat /\ executed'[i] \in Nat
  BY NextTyped DEF Typed, TypeOK, HistoryTypeOK
<1>3. ASSUME NEW k \in running, k.at = "executed"
      PROVE  executed'[k.ref.id] > 0
  BY <1>1, <1>2, <1>3, ExecutedGrows DEF RanFirst
<1>4. ASSUME NEW j \in running, Work(j)
      PROVE  RanFirst'
  BY <1>3, <1>4, WorkerStages, ExecutedGrows DEF RanFirst
<1>5. CASE running' \subseteq running
  BY <1>3, <1>5 DEF RanFirst
<1>6. CASE Dispatch
  <2> DEFINE n == [ref |-> shovel, at |-> "start"]
  <2>1. n.at # "executed"
    OBVIOUS
  <2>2. running' = running \cup {n}
    BY <1>6 DEF Dispatch
  <2> HIDE DEF n
  <2>3. QED
    BY <1>3, <2>1, <2>2 DEF RanFirst
<1>7. \/ running' \subseteq running \/ Dispatch \/ \E j \in running : Work(j)
  BY DEF Next, Shoveling, Submission, Arrive, Acquire, AcquireInterrupted, Store,
      StoreFails, Put, PutInterrupted,
       Count, Loading, Load, LoadSkips, LoadCounts, Take, PassPause, Grant, Rejected,
      PauseOrResume,
       Revive, CountRevival, Crash, Stop, Reload, Restart, LoseFile, vars
<1>8. QED
  BY <1>4, <1>5, <1>6, <1>7

LEMMA WorkLosesNothing ==
  ASSUME Typed, RanFirst, NEW j \in running, Work(j)
  PROVE  /\ stored' = stored /\ lost' = lost
         /\ DloIds \subseteq DloIds' /\ obsolete \subseteq obsolete'
         /\ \A i \in disk : i \in disk' \cup DloIds' \cup obsolete' \/ executed[i] > 0
<1>1. CASE Discard(j) \/ DiscardFails(j)
  <2>1. UNCHANGED <<stored, obsolete, lost>>
    BY <1>1 DEF Discard, DiscardFails, MoveToDlo
  <2>2. CASE UNCHANGED diskVars
    BY <2>1, <2>2 DEF DloIds
  <2>3. CASE MoveToDlo(j)
    <3> DEFINE d == [id |-> j.ref.id, attempts |-> j.ref.attempts + 1, why |-> j.at]
    <3>1. d.id = j.ref.id
      OBVIOUS
    <3>2. dlo' = dlo \cup {d} /\ disk' = disk \ {j.ref.id}
      BY <2>3 DEF MoveToDlo
    <3> HIDE DEF d
    <3>3. DloIds' = DloIds \cup {j.ref.id}
      BY <3>1, <3>2 DEF DloIds
    <3>4. QED
      BY <2>1, <3>2, <3>3
  <2>4. QED
    BY <1>1, <2>2, <2>3 DEF Discard, DiscardFails
<1>2. CASE DropObsolete(j)
  BY <1>2 DEF DropObsolete, DloIds
<1>3. CASE Ack(j)
  BY <1>3 DEF Ack, RanFirst, DloIds
<1>4. CASE UNCHANGED <<diskVars, obsolete, lost>>
  BY <1>4 DEF DloIds
<1>5. QED
  BY <1>1, <1>2, <1>3, <1>4 DEF Work, Missing, Execute, FailTransiently, AckFails,
     FailForGood, Retry

LEMMA NextLosesNothing ==
  ASSUME Typed, RanFirst, NothingLost, [Next]_vars PROVE NothingLost'
<1>1. \A i \in StoredIds : i \in Ids
  BY DEF Typed, TypeOK, DiskTypeOK, StoredIds, Ids
<1>2. \A i \in Ids : executed[i] \in Nat /\ executed'[i] \in Nat /\ executed'[i] >= executed[i]
  BY NextTyped, ExecutedGrows DEF Typed, TypeOK, HistoryTypeOK
<1>3. CASE /\ StoredIds' = StoredIds /\ DloIds \subseteq DloIds'
           /\ obsolete \subseteq obsolete' /\ lost \subseteq lost'
           /\ \A i \in disk : \/ i \in disk' \cup DloIds' \cup obsolete' \cup lost'
                              \/ executed[i] > 0
  BY <1>1, <1>2, <1>3 DEF NothingLost
<1>4. ASSUME NEW s \in Submitters, Store(s) PROVE NothingLost'
  <2> DEFINE n == Len(stored')
  <2>1. PICK c \in Command : stored' = Append(stored, c)
    BY <1>4 DEF Store
  <2>2. StoredIds' = StoredIds \cup {n} /\ disk' = disk \cup {n}
    BY <1>4, <2>1 DEF Store, StoredIds, Typed, TypeOK, DiskTypeOK
  <2>3. UNCHANGED <<dlo, obsolete, lost, executed>> /\ DloIds' = DloIds
    BY <1>4 DEF Store, DloIds
  <2> HIDE DEF n
  <2>4. QED
    BY <2>2, <2>3 DEF NothingLost
<1>5. ASSUME NEW j \in running, Work(j) PROVE NothingLost'
  BY <1>3, <1>5, WorkLosesNothing DEF StoredIds
<1>6. ASSUME NEW i \in disk, LoseFile(i) PROVE NothingLost'
  BY <1>3, <1>6 DEF LoseFile, StoredIds, DloIds
<1>7. CASE UNCHANGED <<diskVars, obsolete, lost>>
  BY <1>3, <1>7 DEF StoredIds, DloIds
<1>8. QED
  BY <1>4, <1>5, <1>6, <1>7 DEF Next, Shoveling, Submission, Arrive, Acquire,
      AcquireInterrupted, StoreFails, Put,
     PutInterrupted, Count, Loading, Load, LoadSkips, LoadCounts, Take, PassPause,
      Grant, Dispatch, Rejected,
     PauseOrResume, Revive, CountRevival, Crash, Stop, Reload, Restart, vars

LEMMA AlwaysAccounted == Spec => [](Typed /\ RanFirst /\ NothingLost)
<1>1. Init => Typed /\ RanFirst /\ NothingLost
  BY InitTyped DEF Init, RanFirst, NothingLost, StoredIds
<1>2. Typed /\ RanFirst /\ NothingLost /\ [Next]_vars => (Typed /\ RanFirst /\ NothingLost)'
  BY NextTyped, NextRanFirst, NextLosesNothing
<1>3. QED
  BY <1>1, <1>2, PTL DEF Spec

(***************************************************************************)
(* No stored command disappears: when its file is gone it has run, was     *)
(* dropped as obsolete, or is in the dead letter office (or somebody else  *)
(* removed the file).  Crashes between any two steps are included.         *)
(***************************************************************************)
THEOREM NothingIsLost == Spec => []NothingLost
BY AlwaysAccounted, PTL

-----------------------------------------------------------------------------
(***************************************************************************)
(* Which commands are marked obsolete.  Provided a client never repeats a  *)
(* timestamp, the comparison in add!* can be trusted whatever the order in *)
(* which commands, retries and reloaded files reach the buffer.            *)
(***************************************************************************)
DistinctTimes ==
  \A i, j \in StoredIds :
    /\ stored[i].key \in Keys /\ stored[j].key = stored[i].key
    /\ stored[j].time = stored[i].time
    => i = j

MarksInMemory ==
  /\ \A r \in InMemory : r.delete => Superseded(r.id)
  /\ \A k \in Keys : certnames[k] # NoCmd /\ certnames[k].delete
                       => Superseded(certnames[k].id)

Marks == MarksInMemory /\ \A i \in obsolete : i \in StoredIds /\ Superseded(i)

\* What is stored stays as it is, so what is superseded stays superseded.
LEMMA StoredStays ==
  ASSUME Typed, [Next]_vars
  PROVE  /\ StoredIds \subseteq StoredIds' /\ \A i \in StoredIds : stored'[i] = stored[i]
         /\ \A i \in StoredIds : Superseded(i) => Superseded(i)'
<1>1. StoredIds \subseteq StoredIds' /\ \A i \in StoredIds : stored'[i] = stored[i]
  <2>1. CASE UNCHANGED stored
    BY <2>1 DEF StoredIds
  <2>2. ASSUME NEW c \in Command, stored' = Append(stored, c)
        PROVE  StoredIds \subseteq StoredIds' /\ \A i \in StoredIds : stored'[i] = stored[i]
    BY <2>2 DEF Typed, TypeOK, DiskTypeOK, StoredIds
  <2>3. UNCHANGED stored \/ \E c \in Command : stored' = Append(stored, c)
    BY DEF Next, Shoveling, Submission, Arrive, Acquire, AcquireInterrupted, Store,
        StoreFails, Put, PutInterrupted,
       Count, Loading, Load, LoadSkips, LoadCounts, Take, PassPause, Grant, Dispatch,
        Rejected, PauseOrResume,
       Work, Missing, DropObsolete, Execute, Ack, FailTransiently, AckFails,
       FailForGood, Discard, DiscardFails, MoveToDlo, Retry, Revive, CountRevival,
        Crash, Stop,
       Reload, Restart, LoseFile, vars
  <2>4. QED
    BY <2>1, <2>2, <2>3
<1>2. QED
  BY <1>1 DEF Superseded

LEMMA NextDistinct ==
  ASSUME Typed, ~AllowTies, DistinctTimes, [Next]_vars PROVE DistinctTimes'
<1>1. CASE UNCHANGED stored
  BY <1>1 DEF DistinctTimes, StoredIds
<1>2. ASSUME NEW c \in Command, Admissible(c), stored' = Append(stored, c)
      PROVE  DistinctTimes'
  <2> DEFINE n == Len(stored) + 1
  <2>1. /\ StoredIds' = StoredIds \cup {n} /\ stored'[n] = c /\ n \notin StoredIds
        /\ \A i \in StoredIds : stored'[i] = stored[i]
    BY <1>2 DEF Typed, TypeOK, DiskTypeOK, StoredIds
  <2> HIDE DEF n
  <2>2. c.key \in Keys =>
          \A i \in StoredIds : stored[i].key = c.key => stored[i].time # c.time
    BY <1>2 DEF Admissible, StoredIds
  <2>3. QED
    BY <2>1, <2>2 DEF DistinctTimes
<1>3. UNCHANGED stored \/ \E c \in Command : Admissible(c) /\ stored' = Append(stored, c)
  BY DEF Next, Shoveling, Submission, Arrive, Acquire, AcquireInterrupted, Store,
      StoreFails, Put, PutInterrupted,
     Count, Loading, Load, LoadSkips, LoadCounts, Take, PassPause, Grant, Dispatch,
      Rejected, PauseOrResume,
     Work, Missing, DropObsolete, Execute, Ack, FailTransiently, AckFails,
     FailForGood, Discard, DiscardFails, MoveToDlo, Retry, Revive, CountRevival,
      Crash, Stop,
     Reload, Restart, LoseFile, vars
<1>4. QED
  BY <1>1, <1>2, <1>3

\* The comparison itself: add!* marks only what has a newer rival.
LEMMA AddMarks ==
  ASSUME Typed, Placed, DistinctTimes, MarksInMemory,
         NEW r \in Ref, Matches(r), r.id \notin IdsOf(fifo),
         r.delete => Superseded(r.id), Add(r)
  PROVE  /\ \A q \in fifo' : q.delete => Superseded(q.id)
         /\ \A k \in Keys : certnames'[k] # NoCmd /\ certnames'[k].delete
                              => Superseded(certnames'[k].id)
<1> DEFINE old == certnames[r.key]
<1>1. \A q \in Ref : Marked(q).id = q.id
  BY MarkedTyped
<1>2. \A q \in fifo : q.delete => Superseded(q.id)
  BY DEF MarksInMemory, InMemory
<1>3. certnames \in [Keys -> Ref \cup {NoCmd}] /\ fifo \subseteq Ref
  BY DEF Typed, TypeOK, BufferTypeOK
<1>4. \A k \in Keys : certnames[k] # NoCmd /\ certnames[k].delete
                        => Superseded(certnames[k].id)
  BY DEF MarksInMemory
<1>5. CASE AddUnindexed(r)
  BY <1>2, <1>4, <1>5 DEF AddUnindexed, PutIn
<1>6. CASE AddFirst(r)
  BY <1>2, <1>3, <1>4, <1>6 DEF AddFirst, PutIn, Indexed
<1>7. ASSUME Indexed(r), old # NoCmd
      PROVE  /\ old \in fifo /\ old \in Ref /\ old.id # r.id
             /\ old.id \in StoredIds /\ r.id \in StoredIds
             /\ stored[old.id].key = r.key /\ stored[r.id].key = r.key
             /\ old.stamp = stored[old.id].time /\ r.stamp = stored[r.id].time
             /\ old.stamp \in Times /\ r.stamp \in Times
  <2>1. old \in fifo /\ old.key = r.key /\ old.stamp # NoTime
    BY <1>7 DEF Placed, IndexInQueue, Indexed
  <2>2. Matches(old)
    BY <2>1 DEF Typed, HeldStored
  <2>3. old.id # r.id
    BY <2>1 DEF IdsOf
  <2>4. old.stamp \in Times /\ r.stamp \in Times
    BY <1>3, <1>7, <2>1 DEF Ref, Indexed
  <2>5. QED
    BY <1>3, <1>7, <2>1, <2>2, <2>3, <2>4 DEF Matches, Indexed
<1>8. CASE AddNewer(r)
  <2>1. Indexed(r) /\ old # NoCmd /\ r.stamp > old.stamp
    BY <1>8 DEF AddNewer
  <2>2. Superseded(old.id)
    BY <1>7, <2>1 DEF Superseded
  <2>3. Marked(old).id = old.id
    BY <1>1, <1>7, <2>1
  <2>4. fifo' = PutIn(PutIn(fifo, Marked(old)), r)
        /\ certnames' = [certnames EXCEPT ![r.key] = r]
    BY <1>8 DEF AddNewer
  <2>5. \A q \in fifo' : q \in fifo \/ q = r \/ q = Marked(old)
    BY <2>4 DEF PutIn
  <2>6. \A k \in Keys : certnames'[k] \in {certnames[k], r}
    BY <1>3, <2>4
  <2>7. QED
    BY <1>2, <1>4, <2>2, <2>3, <2>5, <2>6
<1>9. CASE AddStale(r)
  <2>1. Indexed(r) /\ old # NoCmd /\ ~(r.stamp > old.stamp)
    BY <1>9 DEF AddStale
  <2>2. r.stamp # old.stamp
    BY <1>7, <2>1 DEF DistinctTimes, Indexed
  <2>3. Superseded(r.id)
    BY <1>7, <2>1, <2>2 DEF Superseded, Times
  <2>4. \A q \in fifo' : q \in fifo \/ q = Marked(r)
    BY <1>9 DEF AddStale, PutIn
  <2>5. certnames' = certnames
    BY <1>9 DEF AddStale
  <2>6. QED
    BY <1>1, <1>2, <1>4, <2>3, <2>4, <2>5
<1>10. QED
  BY <1>5, <1>6, <1>8, <1>9 DEF Add

LEMMA PutOnChannelMarks ==
  ASSUME Typed, Placed, DistinctTimes, MarksInMemory,
         NEW r \in Ref, Matches(r), r.id \notin IdsOf(fifo),
         r.delete => Superseded(r.id), PutOnChannel(r)
  PROVE  /\ \A q \in fifo' : q.delete => Superseded(q.id)
         /\ \A k \in Keys : certnames'[k] # NoCmd /\ certnames'[k].delete
                              => Superseded(certnames'[k].id)
<1>1. CASE Add(r)
  BY <1>1, AddMarks
<1>2. CASE UNCHANGED bufferVars
  BY <1>2 DEF MarksInMemory, InMemory
<1>3. QED
  BY <1>1, <1>2 DEF PutOnChannel

LEMMA MarksKept ==
  ASSUME Typed, [Next]_vars,
         \A r \in InMemory' : r.id \in StoredIds /\ (r.delete => Superseded(r.id)),
         \A k \in Keys : certnames'[k] # NoCmd =>
           certnames'[k].id \in StoredIds /\ (certnames'[k].delete => Superseded(certnames'[k].id)),
         \A i \in obsolete' : i \in StoredIds /\ Superseded(i)
  PROVE  Marks'
<1>1. \A i \in StoredIds : Superseded(i) => Superseded(i)'
  BY StoredStays
<1>2. StoredIds \subseteq StoredIds'
  BY StoredStays
<1>3. MarksInMemory'
  BY <1>1 DEF MarksInMemory, Superseded
<1>4. \A i \in obsolete' : i \in StoredIds' /\ Superseded(i)'
  BY <1>1, <1>2
<1>5. QED
  BY <1>3, <1>4 DEF Marks

LEMMA NextMarks ==
  ASSUME Typed, Placed, ~AllowTies, DistinctTimes, Marks, [Next]_vars PROVE Marks'
<1>1. /\ \A r \in InMemory : r.id \in StoredIds /\ (r.delete => Superseded(r.id))
      /\ \A k \in Keys : certnames[k] # NoCmd =>
           certnames[k].id \in StoredIds /\ (certnames[k].delete => Superseded(certnames[k].id))
      /\ \A i \in obsolete : i \in StoredIds /\ Superseded(i)
  BY PlacesStored DEF Marks, MarksInMemory, Typed, HeldStored, Matches, IdsOf
\* A reference r reaches the channel from elsewhere.
<1>2. ASSUME NEW r \in Ref, Matches(r), r.id \notin IdsOf(fifo),
             r.delete => Superseded(r.id), PutOnChannel(r),
             UNCHANGED <<shovel, running, obsolete>>, delayed' \subseteq delayed
      PROVE  Marks'
  <2>1. /\ \A q \in fifo' : q.delete => Superseded(q.id)
        /\ \A k \in Keys : certnames'[k] # NoCmd /\ certnames'[k].delete
                             => Superseded(certnames'[k].id)
    BY <1>2, PutOnChannelMarks DEF Marks
  <2>2. /\ \A q \in fifo' : q.id \in StoredIds
        /\ \A k \in Keys : certnames'[k] # NoCmd => certnames'[k].id \in StoredIds
    BY <1>2, PutOnChannelTyped DEF Typed, TypeOK, Matches
  <2>3. \A q \in InMemory' : q \in fifo' \/ q \in InMemory
    BY <1>2 DEF InMemory, InShovel, InWorkers
  <2>4. \A q \in InMemory' : q.id \in StoredIds /\ (q.delete => Superseded(q.id))
    BY <1>1, <2>1, <2>2, <2>3
  <2>5. \A k \in Keys : certnames'[k] # NoCmd =>
          certnames'[k].id \in StoredIds /\ (certnames'[k].delete => Superseded(certnames'[k].id))
    BY <2>1, <2>2
  <2>6. QED
    BY <1>1, <1>2, <2>4, <2>5, MarksKept
<1>3. ASSUME NEW s \in Submitters, Put(s) PROVE Marks'
  <2> DEFINE n == submitter[s].id
  <2>1. n \in Putting /\ RefOf(n).id = n /\ ~RefOf(n).delete
    BY <1>3 DEF Put, Putting, RefOf
  <2>2. RefOf(n) \in Ref /\ Matches(RefOf(n))
    BY <2>1, RefOfTyped, PlacesStored DEF Typed, TypeOK
  <2>3. n \notin IdsOf(fifo)
    BY <2>1 DEF Placed, Apart
  <2>4. PutOnChannel(RefOf(n)) /\ UNCHANGED <<shovel, running, obsolete, delayed>>
    BY <1>3 DEF Put
  <2>5. QED
    BY <1>2, <2>1, <2>2, <2>3, <2>4
<1>4. ASSUME NEW i \in loader, Load(i) PROVE Marks'
  <2>1. i \in Unloaded /\ RefOf(i).id = i /\ ~RefOf(i).delete
    BY <1>4 DEF Load, Unloaded, RefOf
  <2>2. RefOf(i) \in Ref /\ Matches(RefOf(i))
    BY <2>1, RefOfTyped, PlacesStored DEF Typed, TypeOK
  <2>3. i \notin IdsOf(fifo)
    BY <2>1 DEF Placed, Apart
  <2>4. PutOnChannel(RefOf(i)) /\ UNCHANGED <<shovel, running, obsolete, delayed>>
    BY <1>4 DEF Load
  <2>5. QED
    BY <1>2, <2>1, <2>2, <2>3, <2>4
<1>5. ASSUME NEW r \in delayed, Revive(r) PROVE Marks'
  <2>1. r \in Ref /\ Matches(r) /\ r.id \in IdsOf(delayed)
    BY DEF Typed, TypeOK, OtherTypeOK, HeldStored, IdsOf
  <2>2. r.id \notin IdsOf(fifo)
    BY <2>1 DEF Placed, Apart
  <2>3. r.delete => Superseded(r.id)
    BY <1>1 DEF InMemory
  <2>4. PutOnChannel(r) /\ UNCHANGED <<shovel, running, obsolete>> /\ delayed' \subseteq delayed
    BY <1>5 DEF Revive
  <2>5. QED
    BY <1>2, <2>1, <2>2, <2>3, <2>4
\* Nothing new is held, marked or dropped.
<1>6. CASE /\ InMemory' \subseteq InMemory /\ obsolete' = obsolete
           /\ \A k \in Keys : certnames'[k] \in {certnames[k], NoCmd}
  BY <1>1, <1>6, MarksKept
<1>7. ASSUME NEW r \in fifo, Take(r) PROVE Marks'
  <2>1. InMemory' \subseteq InMemory /\ obsolete' = obsolete
    BY <1>7 DEF Take, Remove, InMemory, InShovel, InWorkers
  <2>2. \A k \in Keys : certnames'[k] \in {certnames[k], NoCmd}
    BY <1>7 DEF Take, Remove, Typed, TypeOK, BufferTypeOK
  <2>3. QED
    BY <1>6, <2>1, <2>2
<1>8. CASE Dispatch
  <2> DEFINE j == [ref |-> shovel, at |-> "start"]
  <2>1. shovel # NoCmd /\ running' = running \cup {j} /\ j.ref = shovel
        /\ shovel' = NoCmd
    BY <1>8 DEF Dispatch
  <2>2. UNCHANGED <<fifo, certnames, delayed, obsolete>>
    BY <1>8 DEF Dispatch
  <2> HIDE DEF j
  <2>3. InMemory' \subseteq InMemory
    BY <2>1, <2>2 DEF InMemory, InShovel, InWorkers
  <2>4. QED
    BY <1>6, <2>2, <2>3
<1>9. ASSUME NEW j \in running, Work(j) PROVE Marks'
  <2>1. UNCHANGED <<fifo, certnames, shovel>>
    BY <1>9 DEF Work, Missing, DropObsolete, Execute, Ack, FailTransiently, AckFails,
           FailForGood, Discard, DiscardFails, Retry
  <2>2. j.ref \in InMemory /\ j.ref \in Ref
    BY DEF InMemory, InWorkers, Typed, TypeOK, WorkTypeOK, Job
  <2>3. \A i \in obsolete' : i \in StoredIds /\ Superseded(i)
    BY <1>1, <1>9, <2>2 DEF Work, Missing, DropObsolete, Execute, Ack, FailTransiently,
       AckFails, FailForGood, Discard, DiscardFails, Retry
  <2>4. \A r \in InWorkers' : r \in InMemory
    BY <1>9, <2>2, WorkerStages DEF InWorkers, InMemory
  <2>5. \A r \in delayed' : r \in delayed \/ (r.id = j.ref.id /\ r.delete = j.ref.delete)
    BY <1>9, <2>2 DEF Ref, Work, Missing, DropObsolete, Execute, Ack, FailTransiently,
       AckFails, FailForGood, Discard, DiscardFails, Retry, Delay
  <2>6. \A r \in InMemory' :
          r \in InMemory \/ (r.id = j.ref.id /\ r.delete = j.ref.delete)
    BY <2>1, <2>4, <2>5 DEF InMemory, InShovel
  <2>7. \A r \in InMemory' : r.id \in StoredIds /\ (r.delete => Superseded(r.id))
    BY <1>1, <2>2, <2>6
  <2>8. QED
    BY <1>1, <2>1, <2>3, <2>7, MarksKept
<1>10. CASE Restart
  <2>1. InMemory' = {} /\ obsolete' = obsolete /\ \A k \in Keys : certnames'[k] = NoCmd
    BY <1>10 DEF Restart, InMemory, InShovel, InWorkers
  <2>2. QED
    BY <1>6, <2>1
<1>11. CASE UNCHANGED <<fifo, certnames, running, delayed, obsolete>>
            /\ shovel' \in {shovel, NoCmd}
  <2>1. InMemory' \subseteq InMemory
    BY <1>11 DEF InMemory, InShovel, InWorkers
  <2>2. QED
    BY <1>6, <1>11, <2>1
<1>12. QED
  BY <1>3, <1>4, <1>5, <1>7, <1>8, <1>9, <1>10, <1>11 DEF Next, Shoveling, Submission,
      Arrive, Acquire, AcquireInterrupted,
     Store, StoreFails, PutInterrupted, Count, Loading, LoadSkips, LoadCounts,
      PassPause,
     Grant, Rejected, PauseOrResume, CountRevival, Crash, Stop, Reload, LoseFile, vars

LEMMA AlwaysMarked ==
  Spec => [](Typed /\ Placed /\ (~AllowTies => DistinctTimes /\ Marks))
<1>1. Init => Typed /\ Placed /\ (~AllowTies => DistinctTimes /\ Marks)
  <2>1. Init => DistinctTimes
    BY DEF Init, DistinctTimes, StoredIds
  <2>2. Init => Marks
    BY DEF Init, EmptyBuffer, Marks, MarksInMemory, InMemory, InShovel, InWorkers
  <2>3. QED
    BY <2>1, <2>2, InitTyped, InitPlaced
<1>2. Typed /\ Placed /\ (~AllowTies => DistinctTimes /\ Marks) /\ [Next]_vars
      => (Typed /\ Placed /\ (~AllowTies => DistinctTimes /\ Marks))'
  BY NextTyped, NextPlaced, NextDistinct, NextMarks
<1>3. QED
  BY <1>1, <1>2, PTL DEF Spec

(***************************************************************************)
(* What add!* marks as obsolete, and what process-delete-cmd then drops,   *)
(* always has a strictly newer rival for the same node, provided a client  *)
(* never repeats a timestamp.                                              *)
(***************************************************************************)
THEOREM MarkedAreSuperseded == Spec => []MarkedSuperseded
<1>1. (~AllowTies => DistinctTimes /\ Marks) => MarkedSuperseded
  BY DEF Marks, MarksInMemory, MarkedSuperseded
<1>2. QED
  BY <1>1, AlwaysMarked, PTL

-----------------------------------------------------------------------------
\* What has run is in the database: storage only ever replaces older data.

Unborn == \A i \in Ids : i \notin StoredIds => executed[i] = 0

Applied ==
  \A i \in StoredIds :
    executed[i] > 0 /\ stored[i].key \in Keys => db[stored[i].key] >= stored[i].time

\* Either a step is the run of some command, or it leaves the data alone.
LEMMA RunOrNot ==
  ASSUME [Next]_vars
  PROVE  UNCHANGED <<executed, db>> \/ \E j \in running : Execute(j)
BY DEF Next, Shoveling, Submission, Arrive, Acquire, AcquireInterrupted, Store,
    StoreFails, Put, PutInterrupted,
   Count, Loading, Load, LoadSkips, LoadCounts, Take, PassPause, Grant, Dispatch,
    Rejected, PauseOrResume,
   Work, Missing, DropObsolete, Ack, FailTransiently, AckFails, FailForGood,
   Discard, DiscardFails, Retry, Revive, CountRevival, Crash, Stop, Reload, Restart,
    LoseFile, vars

LEMMA NextUnborn == ASSUME Typed, Unborn, [Next]_vars PROVE Unborn'
<1>1. StoredIds \subseteq StoredIds'
  BY StoredStays
<1>2. ASSUME NEW j \in running, Execute(j) PROVE Unborn'
  <2>1. j.ref.id \in StoredIds /\ executed' = [executed EXCEPT ![j.ref.id] = @ + 1]
    BY <1>2 DEF Execute, Typed, HeldStored, Matches
  <2>2. QED
    BY <1>1, <2>1 DEF Unborn, Typed, TypeOK, HistoryTypeOK
<1>3. CASE UNCHANGED executed
  BY <1>1, <1>3 DEF Unborn
<1>4. QED
  BY <1>2, <1>3, RunOrNot

LEMMA NextApplied == ASSUME Typed, Unborn, Applied, [Next]_vars PROVE Applied'
<1>1. \A i \in StoredIds : i \in Ids /\ stored[i] \in Command
  BY RefOfTyped DEF Typed, TypeOK, DiskTypeOK, StoredIds
<1>2. /\ \A i \in StoredIds : stored'[i] = stored[i]
      /\ StoredIds \subseteq StoredIds' /\ \A i \in StoredIds' : i \in Ids
  BY StoredStays, NextTyped DEF Typed, TypeOK, DiskTypeOK, StoredIds, Ids
<1>3. \A i \in Ids : i \notin StoredIds => executed'[i] = 0
  <2>1. ASSUME NEW j \in running, Execute(j), NEW i \in Ids, i \notin StoredIds
        PROVE  executed'[i] = 0
    <3>1. j.ref.id \in StoredIds /\ executed' = [executed EXCEPT ![j.ref.id] = @ + 1]
      BY <2>1 DEF Execute, Typed, HeldStored, Matches
    <3>2. QED
      BY <2>1, <3>1 DEF Unborn, Typed, TypeOK, HistoryTypeOK
  <2>2. QED
    BY <2>1, RunOrNot DEF Unborn
<1>4. db \in [Keys -> Times \cup {0}]
  BY DEF Typed, TypeOK, OtherTypeOK
<1>5. ASSUME NEW j \in running, Execute(j) PROVE Applied'
  <2> DEFINE c == stored[j.ref.id]
  <2>1. j.ref.id \in StoredIds /\ c \in Command
    BY <1>1 DEF Typed, HeldStored, Matches
  <2>2. c.time \in Times /\ \A k \in Keys : db[k] \in Int
    BY <1>4, <2>1 DEF Command, Times
  <2>3. /\ executed' = [executed EXCEPT ![j.ref.id] = @ + 1]
        /\ db' = IF c.key \in Keys /\ db[c.key] < c.time
                 THEN [db EXCEPT ![c.key] = c.time] ELSE db
    BY <1>5 DEF Execute
  <2>4. c.key \in Keys => db'[c.key] >= c.time
    BY <1>4, <2>2, <2>3 DEF Times
  <2>5. \A k \in Keys : db'[k] >= db[k] /\ db'[k] \in Int
    BY <1>4, <2>2, <2>3 DEF Times
  <2>6. ASSUME NEW i \in StoredIds, i # j.ref.id, executed'[i] > 0, stored[i].key \in Keys
        PROVE  db'[stored[i].key] >= stored[i].time
    <3>1. executed[i] > 0
      BY <1>1, <2>3, <2>6 DEF Typed, TypeOK, HistoryTypeOK
    <3>2. db[stored[i].key] >= stored[i].time /\ stored[i].time \in Int
      BY <1>1, <2>6, <3>1 DEF Applied, Command, Times
    <3>3. QED
      BY <2>2, <2>5, <2>6, <3>2
  <2>7. \A i \in StoredIds : executed'[i] > 0 /\ stored[i].key \in Keys
          => db'[stored[i].key] >= stored[i].time
    BY <2>4, <2>6
  <2>8. QED
    BY <1>2, <1>3, <2>7 DEF Applied
<1>6. CASE UNCHANGED <<executed, db>>
  BY <1>2, <1>3, <1>6 DEF Applied
<1>7. QED
  BY <1>5, <1>6, RunOrNot

LEMMA AlwaysApplied == Spec => [](Typed /\ Unborn /\ Applied)
<1>1. Init => Typed /\ Unborn /\ Applied
  BY InitTyped DEF Init, Unborn, Applied, StoredIds
<1>2. Typed /\ Unborn /\ Applied /\ [Next]_vars => (Typed /\ Unborn /\ Applied)'
  BY NextTyped, NextUnborn, NextApplied
<1>3. QED
  BY <1>1, <1>2, PTL DEF Spec

(***************************************************************************)
(* The newest data of a node reaches the database, or is still queued or   *)
(* in the dead letter office.  Nothing is lost, so it could only have been *)
(* dropped as obsolete; but then something newer would have been stored.   *)
(***************************************************************************)
THEOREM TheNewestSurvives == Spec => []NewestSurvives
<1>1. ASSUME Typed, NothingLost, Applied, ~AllowTies => Marks
      PROVE  NewestSurvives
  <2> SUFFICES ASSUME ~AllowTies, NEW i \in StoredIds, Newest(i)
               PROVE  \/ db[stored[i].key] >= stored[i].time
                      \/ i \in disk \cup DloIds \cup lost
    BY DEF NewestSurvives
  <2>1. i \in disk \cup DloIds \cup obsolete \cup lost \/ executed[i] > 0
    BY <1>1 DEF NothingLost
  <2>2. i \notin obsolete
    <3>1. \A j \in StoredIds : stored[j] \in Command
      BY <1>1 DEF Typed, TypeOK, DiskTypeOK, StoredIds
    <3>2. \A j \in StoredIds : stored[j].time \in Int
      BY <3>1 DEF Command, Times
    <3>3. ~Superseded(i)
      BY <3>2 DEF Newest, Superseded
    <3>4. QED
      BY <1>1, <3>3 DEF Marks
  <2>3. QED
    BY <1>1, <2>1, <2>2 DEF Applied, Newest
<1>2. Typed /\ NothingLost /\ Applied /\ (~AllowTies => Marks) => NewestSurvives
  BY <1>1
<1>3. Spec => [](~AllowTies => Marks)
  BY AlwaysMarked, PTL
<1>4. QED
  BY <1>2, <1>3, AlwaysAccounted, AlwaysApplied, PTL

\* Numbers up to a bound have a greatest, for their distances to it have a least.
LEMMA HasGreatest ==
  ASSUME NEW m \in Nat, NEW T \in SUBSET (0..m), T # {}
  PROVE  \E x \in T : \A y \in T : y <= x
<1> DEFINE U == {m - x : x \in T}
<1>1. \A x \in T : m - x \in Nat
  OBVIOUS
<1>2. U \subseteq Nat
  BY <1>1
<1>3. PICK u \in U : \A v \in U : ~(<<v, u>> \in OpToRel(<, Nat))
  <2> HIDE DEF U
  <2>1. U # {}
    BY DEF U
  <2> QED
    BY <1>2, <2>1, NatLessThanWellFounded, WFMin
<1>4. \A v \in U : ~(v < u)
  BY <1>2, <1>3 DEF OpToRel
<1>5. PICK x \in T : u = m - x
  OBVIOUS
<1>6. \A y \in T : ~(m - y < m - x)
  BY <1>4, <1>5
<1>7. \A y \in T : y <= x
  BY <1>6
<1> QED
  BY <1>7

(***************************************************************************)
(* Equal timestamps are the only way in which all the commands of a node   *)
(* can be dropped in favour of each other: while a client never repeats    *)
(* one, the newest of its commands is not dropped, so it has run, or is    *)
(* still kept, whatever becomes of those it was to overwrite.              *)
(***************************************************************************)
THEOREM DroppedAreOverwritten == Spec => [](~AllowTies => DroppedIsOverwritten)
<1>1. ASSUME Typed, NothingLost, ~AllowTies, Marks
      PROVE  DroppedIsOverwritten
  <2> SUFFICES ASSUME NEW i \in obsolete
               PROVE  \E j \in StoredIds :
                        /\ stored[j].key = stored[i].key
                        /\ stored[j].time >= stored[i].time
                        /\ j \in disk \cup DloIds \cup lost \/ executed[j] > 0
    BY DEF DroppedIsOverwritten
  <2> DEFINE rivals == {j \in StoredIds : stored[j].key = stored[i].key}
             T == {stored[j].time : j \in rivals}
  <2>1. i \in rivals
    BY <1>1 DEF Marks
  <2>2. \A j \in StoredIds : stored[j].time \in Times
    <3>1. \A j \in StoredIds : stored[j] \in Command
      BY <1>1 DEF Typed, TypeOK, DiskTypeOK, StoredIds
    <3>2. QED
      BY <3>1 DEF Command
  <2>3. T \in SUBSET (0..MaxTime) /\ T # {}
    BY <2>1, <2>2 DEF Times
  <2>4. PICK x \in T : \A y \in T : y <= x
    <3> HIDE DEF T
    <3>1. MaxTime \in Nat
      OBVIOUS
    <3>2. QED
      BY <2>3, <3>1, HasGreatest
  <2>5. PICK j \in rivals : x = stored[j].time
    OBVIOUS
  <2>6. \A k \in rivals : stored[k].time <= stored[j].time
    BY <2>4, <2>5
  <2>7. j \notin obsolete
    <3>1. ~Superseded(j)
      BY <2>2, <2>5, <2>6 DEF Superseded, Times
    <3>2. QED
      BY <1>1, <3>1 DEF Marks
  <2>8. j \in disk \cup DloIds \cup lost \/ executed[j] > 0
    BY <1>1, <2>5, <2>7 DEF NothingLost
  <2>9. stored[j].time >= stored[i].time
    BY <2>1, <2>2, <2>5, <2>6 DEF Times
  <2>10. QED
    BY <2>5, <2>8, <2>9
<1>2. Typed /\ NothingLost /\ (~AllowTies => Marks)
      => (~AllowTies => DroppedIsOverwritten)
  BY <1>1
<1>3. Spec => [](~AllowTies => Marks)
  BY AlwaysMarked, PTL
<1>4. QED
  BY <1>2, <1>3, AlwaysAccounted, PTL

-----------------------------------------------------------------------------
\* How often a command has run, against the mishaps that let it run again.

Mishaps == crashes + reloads + ioFailures

\* A command may run, for the mishaps there were, as long as its file is there
\* and no worker is about to remove it.
Budget ==
  \A i \in Ids :
    executed[i] <= Mishaps + (IF i \notin disk \/ \E j \in running : j.ref.id = i /\ j.at = "executed"
                              THEN 1 ELSE 0)

LEMMA NextBudget ==
  ASSUME Typed, Placed, Unborn, Budget, [Next]_vars PROVE Budget'
<1> DEFINE Done(i) == \E j \in running : j.ref.id = i /\ j.at = "executed"
           Cap(i) == Mishaps + (IF i \notin disk \/ Done(i) THEN 1 ELSE 0)
<1>1. /\ \A i \in Ids : executed[i] \in Nat /\ executed[i] <= Cap(i)
      /\ Mishaps \in Nat /\ Mishaps' \in Nat
  BY NextTyped DEF Typed, TypeOK, HistoryTypeOK, Budget, Mishaps
\* With one mishap more, there is room for another run.
<1>2. CASE Mishaps' = Mishaps + 1 /\ executed' = executed
  BY <1>1, <1>2 DEF Budget
\* No command becomes runnable that was not.
<1>3. CASE /\ Mishaps' = Mishaps /\ executed' = executed
           /\ \A i \in Ids : i \notin disk \/ Done(i) => i \notin disk' \/ Done(i)'
  BY <1>1, <1>3 DEF Budget
<1>4. ASSUME NEW s \in Submitters, Store(s) PROVE Budget'
  <2> DEFINE n == Len(stored')
  <2>1. n \in Ids /\ n \notin StoredIds /\ disk' = disk \cup {n}
    BY <1>4 DEF Store, Typed, TypeOK, DiskTypeOK, StoredIds, Ids
  <2>2. executed[n] = 0
    BY <2>1 DEF Unborn
  <2>3. UNCHANGED <<executed, running, crashes, reloads, ioFailures>>
    BY <1>4 DEF Store
  <2> HIDE DEF n
  <2>4. Mishaps' = Mishaps /\ \A i \in Ids : Done(i)' <=> Done(i)
    BY <2>3 DEF Mishaps
  <2>5. QED
    BY <1>1, <2>1, <2>2, <2>3, <2>4 DEF Budget
<1>5. ASSUME NEW j \in running, Execute(j) PROVE Budget'
  <2> DEFINE e == [j EXCEPT !.at = "executed"]
  <2>1. /\ j.ref.id \in Ids /\ j.ref.id \in disk /\ j.at = "start"
        /\ executed' = [executed EXCEPT ![j.ref.id] = @ + 1]
        /\ running' = (running \ {j}) \cup {e}
        /\ UNCHANGED <<disk, crashes, reloads, ioFailures>>
    BY <1>5 DEF Execute, Steps, Typed, TypeOK, WorkTypeOK, Job, Ref
  <2>2. e.ref = j.ref /\ e.at = "executed"
    BY DEF Typed, TypeOK, WorkTypeOK, Job
  <2> HIDE DEF e
  <2>3. ~Done(j.ref.id)
    BY <2>1 DEF Placed, OneEach
  <2>4. executed[j.ref.id] <= Mishaps
    BY <1>1, <2>1, <2>3
  <2>5. Done(j.ref.id)' /\ \A i \in Ids : Done(i) => Done(i)'
    BY <2>1, <2>2, <2>3
  <2>6. /\ Mishaps' = Mishaps /\ executed'[j.ref.id] = executed[j.ref.id] + 1
        /\ \A i \in Ids : i # j.ref.id => executed'[i] = executed[i]
    BY <2>1 DEF Mishaps, Typed, TypeOK, HistoryTypeOK
  <2>7. QED
    BY <1>1, <2>1, <2>4, <2>5, <2>6 DEF Budget
\* A worker that has run a command lets go of it once its file is gone.
<1>6. ASSUME NEW j \in running, Work(j), ~Execute(j) PROVE Budget'
  <2>1. executed' = executed /\ UNCHANGED <<crashes, reloads>> /\ disk' \subseteq disk
    BY <1>6 DEF Work, Missing, DropObsolete, Ack, FailTransiently, AckFails,
       FailForGood, Discard, DiscardFails, MoveToDlo, Retry
  <2>2. CASE FailIO
    BY <1>2, <2>1, <2>2 DEF FailIO, Mishaps, Typed, TypeOK, HistoryTypeOK
  <2>3. CASE ~FailIO
    <3>1. ioFailures' = ioFailures
      BY <1>6, <2>3 DEF Work, Missing, DropObsolete, Ack, FailTransiently, AckFails,
         FailForGood, Discard, DiscardFails, Retry
    <3>2. j.at = "executed" => j.ref.id \notin disk'
      BY <1>6, <2>3 DEF Work, Missing, DropObsolete, Ack, FailTransiently, AckFails,
         FailForGood, Discard, DiscardFails, Retry
    <3>3. \A k \in running : k # j => k \in running'
      BY <1>6 DEF Work, Missing, DropObsolete, Ack, FailTransiently, AckFails,
         FailForGood, Discard, DiscardFails, Retry, Delay, Finish, Steps
    <3>4. \A i \in Ids : i \notin disk \/ Done(i) => i \notin disk' \/ Done(i)'
      BY <2>1, <3>2, <3>3
    <3>5. QED
      BY <1>3, <2>1, <3>1, <3>4 DEF Mishaps
  <2>4. QED
    BY <2>2, <2>3
<1>7. CASE Dispatch
  <2>1. running \subseteq running'
    BY <1>7 DEF Dispatch
  <2>2. UNCHANGED <<disk, executed, crashes, reloads, ioFailures>>
    BY <1>7 DEF Dispatch
  <2>3. QED
    BY <1>3, <2>1, <2>2 DEF Mishaps
<1>8. CASE Crash \/ Reload
  BY <1>2, <1>8 DEF Crash, Reload, Restart, Mishaps, Typed, TypeOK, HistoryTypeOK
<1>9. ASSUME NEW i \in disk, LoseFile(i) PROVE Budget'
  BY <1>3, <1>9 DEF LoseFile, Mishaps
<1>10. CASE UNCHANGED <<disk, executed, running, crashes, reloads, ioFailures>>
  BY <1>3, <1>10 DEF Mishaps
<1>11. QED
  BY <1>4, <1>5, <1>6, <1>7, <1>8, <1>9, <1>10 DEF Next, Shoveling, Submission,
      Arrive, Acquire, AcquireInterrupted,
     StoreFails, Put, PutInterrupted, Count, Loading, Load, LoadSkips, LoadCounts,
     Take, PassPause, Grant, Rejected, PauseOrResume, Revive, CountRevival, Stop, vars

LEMMA AlwaysInBudget == Spec => [](Typed /\ Placed /\ Unborn /\ Budget)
<1>1. Init => Typed /\ Placed /\ Unborn /\ Budget
  <2>1. Init => Unborn
    BY DEF Init, Unborn
  <2>2. Init => Budget
    BY DEF Init, Budget, Mishaps
  <2>3. QED
    BY <2>1, <2>2, InitTyped, InitPlaced
<1>2. Typed /\ Placed /\ Unborn /\ Budget /\ [Next]_vars
      => (Typed /\ Placed /\ Unborn /\ Budget)'
  BY NextTyped, NextPlaced, NextUnborn, NextBudget
<1>3. QED
  BY <1>1, <1>2, PTL DEF Spec

(***************************************************************************)
(* A command runs to success at most once, plus once for every crash,      *)
(* reload or failed file operation: neither a retry nor the loader repeats *)
(* what has succeeded, as no two workers ever hold the same command.       *)
(***************************************************************************)
THEOREM RunsAtMostOnce == Spec => []RunsOnce
<1>1. Typed /\ Budget => RunsOnce
  BY DEF Typed, TypeOK, HistoryTypeOK, Budget, Mishaps, RunsOnce
<1>2. QED
  BY <1>1, AlwaysInBudget, PTL

-----------------------------------------------------------------------------
\* The limits.  Every permit of the pool taken is returned once, so that what is
\* held and what is free add up, until a stop takes the free ones away.  Those of
\* the semaphore add up until a stop, when more may be returned than were taken.

BufferBound == IsFiniteSet(fifo) /\ Cardinality(fifo) <= MaxEnqueued

WorkerBound ==
  /\ IsFiniteSet(running) /\ gate \in Nat
  /\ gate + Cardinality(running) + Granted <= Threads
  /\ ~stopping => gate + Cardinality(running) + Granted = Threads

WriterBound ==
  /\ IsFiniteSet(Writing) /\ permits \in Nat
  /\ permits + Cardinality(Writing) >= ConcurrentWrites
  /\ ~stopping => permits + Cardinality(Writing) = ConcurrentWrites

\* Marking an entry of the queue, or putting it back, does not lengthen it.
LEMMA PutInBound ==
  ASSUME NEW queue, IsFiniteSet(queue), NEW r
  PROVE  /\ IsFiniteSet(PutIn(queue, r))
         /\ Cardinality(PutIn(queue, r)) <= Cardinality(queue) + 1
         /\ (\E q \in queue : q.id = r.id) => Cardinality(PutIn(queue, r)) <= Cardinality(queue)
<1> DEFINE rest == {q \in queue : q.id # r.id}
<1>1. rest \in SUBSET queue /\ PutIn(queue, r) = rest \cup {r}
  BY DEF PutIn
<1>2. IsFiniteSet(rest) /\ Cardinality(rest) <= Cardinality(queue)
  BY <1>1, FS_Subset
<1>3. (\E q \in queue : q.id = r.id) => rest # queue
  OBVIOUS
<1>4. Cardinality(rest) = Cardinality(queue) => queue = rest
  BY <1>1, FS_Subset
<1> HIDE DEF rest
<1>5. Cardinality(rest) \in Nat /\ Cardinality(queue) \in Nat
  BY <1>2, FS_CardinalityType
<1>6. /\ IsFiniteSet(rest \cup {r})
      /\ Cardinality(rest \cup {r}) = IF r \in rest THEN Cardinality(rest)
                                      ELSE Cardinality(rest) + 1
  BY <1>2, FS_AddElement
<1>7. Cardinality(rest \cup {r}) \in Nat
  BY <1>6, FS_CardinalityType
<1>8. QED
  BY <1>1, <1>2, <1>3, <1>4, <1>5, <1>6, <1>7

LEMMA AddBound ==
  ASSUME Typed, Placed, BufferBound, NEW r \in Ref, Add(r), ~Full
  PROVE  BufferBound'
<1>1. Cardinality(fifo) \in Nat /\ Cardinality(fifo) + 1 <= MaxEnqueued
  BY FS_CardinalityType DEF BufferBound, Full
<1>2. ASSUME NEW q, fifo' = PutIn(fifo, q) PROVE BufferBound'
  <2>1. IsFiniteSet(fifo') /\ Cardinality(fifo') <= Cardinality(fifo) + 1
    BY <1>2, PutInBound DEF BufferBound
  <2>2. Cardinality(fifo') \in Nat
    BY <2>1, FS_CardinalityType
  <2>3. QED
    BY <1>1, <2>1, <2>2 DEF BufferBound
<1>3. CASE AddNewer(r)
  <2> DEFINE old == certnames[r.key]
             queue == PutIn(fifo, Marked(old))
  <2>1. old \in fifo /\ old \in Ref
    BY <1>3 DEF AddNewer, Indexed, Placed, IndexInQueue, Typed, TypeOK, BufferTypeOK
  <2>2. Marked(old).id = old.id
    BY <2>1, MarkedTyped
  <2>3. fifo' = PutIn(queue, r)
    BY <1>3 DEF AddNewer
  <2>4. IsFiniteSet(queue) /\ Cardinality(queue) <= Cardinality(fifo)
    BY <2>1, <2>2, PutInBound DEF BufferBound
  <2> HIDE DEF queue
  <2>5. IsFiniteSet(fifo') /\ Cardinality(fifo') <= Cardinality(queue) + 1
    BY <2>3, <2>4, PutInBound
  <2>6. Cardinality(fifo') \in Nat /\ Cardinality(queue) \in Nat
    BY <2>4, <2>5, FS_CardinalityType
  <2>7. QED
    BY <1>1, <2>4, <2>5, <2>6 DEF BufferBound
<1>4. QED
  BY <1>2, <1>3 DEF Add, AddUnindexed, AddFirst, AddStale

LEMMA NextBufferBound ==
  ASSUME Typed, Placed, BufferBound, [Next]_vars PROVE BufferBound'
<1>1. CASE UNCHANGED fifo
  BY <1>1 DEF BufferBound
<1>2. ASSUME NEW r \in Ref, PutOnChannel(r) PROVE BufferBound'
  BY <1>1, <1>2, AddBound DEF PutOnChannel
<1>3. ASSUME NEW s \in Submitters, Put(s) PROVE BufferBound'
  <2>1. RefOf(submitter[s].id) \in Ref
    BY <1>3, RefOfTyped DEF Put, Typed, TypeOK, HeldStored
  <2>2. QED
    BY <1>2, <1>3, <2>1 DEF Put
<1>4. ASSUME NEW i \in loader, Load(i) PROVE BufferBound'
  <2>1. RefOf(i) \in Ref
    BY RefOfTyped DEF Typed, TypeOK, HeldStored
  <2>2. QED
    BY <1>2, <1>4, <2>1 DEF Load
<1>5. ASSUME NEW r \in delayed, Revive(r) PROVE BufferBound'
  BY <1>2, <1>5 DEF Revive, Typed, TypeOK, OtherTypeOK
<1>6. ASSUME NEW r \in fifo, Take(r) PROVE BufferBound'
  <2>1. fifo' = fifo \ {r}
    BY <1>6 DEF Take, Remove
  <2>2. IsFiniteSet(fifo') /\ Cardinality(fifo') = Cardinality(fifo) - 1
    BY <2>1, FS_RemoveElement DEF BufferBound
  <2>3. Cardinality(fifo) \in Nat
    BY FS_CardinalityType DEF BufferBound
  <2>4. QED
    BY <2>2, <2>3 DEF BufferBound
<1>7. CASE Restart
  BY <1>7, FS_EmptySet DEF Restart, BufferBound
<1>8. QED
  BY <1>1, <1>3, <1>4, <1>5, <1>6, <1>7 DEF Next, Shoveling, Submission, Arrive,
      Acquire, AcquireInterrupted, Store,
     StoreFails, PutInterrupted, Count, Loading, LoadSkips, LoadCounts, PassPause,
      Grant,
     Dispatch, Rejected, PauseOrResume, CountRevival, Work, Missing, DropObsolete,
      Execute, Ack, FailTransiently,
     AckFails, FailForGood, Discard, DiscardFails, Retry, Crash, Stop, Reload,
     LoseFile, vars

LEMMA NextWorkerBound ==
  ASSUME Typed, Placed, WorkerBound, [Next]_vars PROVE WorkerBound'
<1>1. /\ Cardinality(running) \in Nat /\ IsFiniteSet(running) /\ gate \in Nat
      /\ Granted \in {0, 1}
  BY FS_CardinalityType DEF WorkerBound, Granted
<1>2. CASE UNCHANGED <<gate, running, handing, stopping>>
  BY <1>2 DEF WorkerBound, Granted
<1>3. ASSUME NEW j \in running, Finish(j), UNCHANGED stopping PROVE WorkerBound'
  <2>1. running' = running \ {j} /\ gate' = gate + 1 /\ Granted' = Granted
    BY <1>3 DEF Finish, Granted
  <2>2. IsFiniteSet(running') /\ Cardinality(running') = Cardinality(running) - 1
    BY <1>1, <2>1, FS_RemoveElement
  <2>3. QED
    BY <1>1, <1>3, <2>1, <2>2 DEF WorkerBound
\* The worker goes on to its next step: the ids tell the workers apart.
<1>4. ASSUME NEW j \in running, NEW at \in {"executed", "exhausted", "fatal"},
             Steps(j, at), UNCHANGED <<gate, stopping>>
      PROVE  WorkerBound'
  <2> DEFINE n == [j EXCEPT !.at = at]
  <2>1. running' = (running \ {j}) \cup {n} /\ Granted' = Granted
    BY <1>4 DEF Steps, Granted
  <2>2. n.ref = j.ref
    BY DEF Typed, TypeOK, WorkTypeOK, Job
  <2> HIDE DEF n
  <2>3. n \notin running \ {j}
    BY <2>2 DEF Placed, OneEach
  <2>4. IsFiniteSet(running \ {j}) /\ Cardinality(running \ {j}) = Cardinality(running) - 1
    BY <1>1, FS_RemoveElement
  <2>7. IsFiniteSet(running') /\ Cardinality(running') = Cardinality(running \ {j}) + 1
    BY <2>1, <2>3, <2>4, FS_AddElement
  <2>5. IsFiniteSet(running') /\ Cardinality(running') = Cardinality(running)
    BY <1>1, <2>4, <2>7
  <2>6. QED
    BY <1>1, <1>4, <2>1, <2>5 DEF WorkerBound
<1>5. CASE Dispatch
  <2> DEFINE n == [ref |-> shovel, at |-> "start"]
  <2>1. /\ running' = running \cup {n} /\ n.ref = shovel /\ shovel # NoCmd
        /\ UNCHANGED <<gate, stopping>> /\ Granted = 1 /\ Granted' = 0
    BY <1>5 DEF Dispatch, Granted
  <2> HIDE DEF n
  <2>2. n \notin running
    BY <2>1 DEF Placed, Apart, IdsOf, InWorkers, InShovel
  <2>3. IsFiniteSet(running') /\ Cardinality(running') = Cardinality(running) + 1
    BY <1>1, <2>1, <2>2, FS_AddElement
  <2>4. QED
    BY <1>1, <2>1, <2>3 DEF WorkerBound
<1>6. CASE Restart
  <2>1. running' = {} /\ gate' = Threads /\ Granted' = 0
    BY <1>6 DEF Restart, Granted
  <2>2. QED
    BY <2>1, FS_EmptySet DEF WorkerBound
<1>7. CASE Stop
  <2>1. gate' = 0 /\ running' = running /\ stopping' /\ Granted' = Granted
    BY <1>7 DEF Stop, Granted
  <2>2. QED
    BY <1>1, <2>1 DEF WorkerBound
<1>8. ASSUME NEW j \in running, Work(j) PROVE WorkerBound'
  BY <1>3, <1>4, <1>8 DEF Work, Missing, DropObsolete, Execute, Ack, FailTransiently,
     AckFails, FailForGood, Discard, DiscardFails, Retry, Delay
<1>9. CASE PassPause \/ Grant \/ Rejected
  <2>1. CASE PassPause
    BY <1>1, <2>1 DEF PassPause, WorkerBound, Granted
  <2>2. CASE Grant
    <3>1. gate > 0 /\ gate' = gate - 1 /\ Granted = 0 /\ Granted' = 1
          /\ UNCHANGED <<running, stopping>>
      BY <2>2 DEF Grant, Granted
    <3>2. QED
      BY <1>1, <3>1 DEF WorkerBound
  <2>3. CASE Rejected
    <3>1. gate' = gate + 1 /\ Granted = 1 /\ Granted' = 0
          /\ UNCHANGED <<running, stopping>>
      BY <2>3 DEF Rejected, Granted
    <3>2. QED
      BY <1>1, <3>1 DEF WorkerBound
  <2>4. QED
    BY <1>9, <2>1, <2>2, <2>3
<1>10. QED
  BY <1>2, <1>5, <1>6, <1>7, <1>8, <1>9 DEF Next, Shoveling, Submission, Arrive,
      Acquire,
     AcquireInterrupted, Store, StoreFails, Put, PutInterrupted, Count, Loading, Load,
     LoadSkips, LoadCounts, Take, PauseOrResume, Revive, CountRevival, Crash, Reload,
     LoseFile, vars

LEMMA NextWriterBound == ASSUME Typed, WriterBound, [Next]_vars PROVE WriterBound'
<1>1. Cardinality(Writing) \in Nat /\ IsFiniteSet(Writing) /\ permits \in Nat
  BY FS_CardinalityType DEF WriterBound
<1>2. submitter \in [Submitters -> SubmitState]
  BY DEF Typed, TypeOK, SubmitTypeOK
<1>3. CASE Writing' = Writing /\ UNCHANGED <<permits, stopping>>
  BY <1>3 DEF WriterBound
<1>4. ASSUME NEW s \in Submitters, Acquire(s) PROVE WriterBound'
  <2>1. s \notin Writing /\ Writing' = Writing \cup {s}
    BY <1>2, <1>4 DEF Acquire, Writing
  <2>2. IsFiniteSet(Writing') /\ Cardinality(Writing') = Cardinality(Writing) + 1
    BY <1>1, <2>1, FS_AddElement
  <2>3. permits' = permits - 1 /\ permits > 0 /\ UNCHANGED stopping
    BY <1>4 DEF Acquire
  <2>4. QED
    BY <1>1, <2>2, <2>3 DEF WriterBound
<1>5. ASSUME NEW s \in Submitters, StoreFails(s) \/ Put(s) \/ PutInterrupted(s)
      PROVE  WriterBound'
  <2>1. submitter[s].at \in {"store", "put"} /\ submitter'[s].at \notin {"store", "put"}
    <3>1. CASE StoreFails(s)
      BY <1>2, <3>1 DEF StoreFails, SubmitState
    <3>2. CASE Put(s)
      BY <1>2, <3>2 DEF Put, SubmitState
    <3>3. CASE PutInterrupted(s)
      BY <1>2, <3>3 DEF PutInterrupted
    <3>4. QED
      BY <1>5, <3>1, <3>2, <3>3
  <2>2. \A t \in Submitters : t # s => submitter'[t] = submitter[t]
    BY <1>2, <1>5 DEF StoreFails, Put, PutInterrupted
  <2>3. s \in Writing /\ Writing' = Writing \ {s}
    BY <2>1, <2>2 DEF Writing
  <2>4. IsFiniteSet(Writing') /\ Cardinality(Writing') = Cardinality(Writing) - 1
    BY <1>1, <2>3, FS_RemoveElement
  <2>5. permits' = permits + 1 /\ UNCHANGED stopping
    BY <1>5 DEF StoreFails, Put, PutInterrupted
  <2>6. QED
    BY <1>1, <2>4, <2>5 DEF WriterBound
<1>6. ASSUME NEW s \in Submitters, Store(s) PROVE WriterBound'
  BY <1>2, <1>3, <1>6 DEF Store, Writing
<1>7. ASSUME NEW s \in Submitters, Count(s) PROVE WriterBound'
  BY <1>2, <1>3, <1>7 DEF Count, Writing
<1>8. CASE Restart
  <2>1. Writing' = {} /\ permits' = ConcurrentWrites
    BY <1>8 DEF Restart, Writing
  <2>2. QED
    BY <2>1, FS_EmptySet DEF WriterBound
<1>9. CASE UNCHANGED <<submitVars, stopping>>
  BY <1>3, <1>9 DEF Writing
<1>10. ASSUME NEW s \in Submitters, Arrive(s) PROVE WriterBound'
  BY <1>2, <1>3, <1>10 DEF Arrive, Writing
<1>11. ASSUME NEW s \in Submitters, AcquireInterrupted(s) PROVE WriterBound'
  <2>1. Writing' = Writing /\ permits' = permits + 1 /\ stopping'
    BY <1>2, <1>11 DEF AcquireInterrupted, Writing
  <2>2. QED
    BY <1>1, <2>1 DEF WriterBound
<1>12. CASE Stop
  BY <1>1, <1>12 DEF Stop, WriterBound, Writing
<1>13. QED
  BY <1>4, <1>5, <1>6, <1>7, <1>8, <1>9, <1>10, <1>11, <1>12 DEF Next, Shoveling,
      Submission, Loading, Load, LoadSkips,
     LoadCounts, Take, PassPause, Grant, Dispatch, Rejected, PauseOrResume, Work,
      Missing, DropObsolete, Execute,
     Ack, FailTransiently, AckFails, FailForGood, Discard, DiscardFails, Retry,
      Revive, CountRevival,
     Crash, Stop, Reload, LoseFile, vars

LEMMA AlwaysBounded ==
  Spec => [](Typed /\ Placed /\ BufferBound /\ WorkerBound /\ WriterBound)
<1>1. Init => Typed /\ Placed /\ BufferBound /\ WorkerBound /\ WriterBound
  <2> SUFFICES ASSUME Init PROVE Typed /\ Placed /\ BufferBound /\ WorkerBound /\ WriterBound
    OBVIOUS
  <2>1. /\ fifo = {} /\ running = {} /\ gate = Threads /\ permits = ConcurrentWrites
        /\ Granted = 0
    BY DEF Init, EmptyBuffer, Granted
  <2>2. Writing = {}
    BY DEF Init, Writing
  <2>3. BufferBound /\ WorkerBound /\ WriterBound
    BY <2>1, <2>2, FS_EmptySet DEF BufferBound, WorkerBound, WriterBound
  <2>4. QED
    BY <2>3, InitTyped, InitPlaced
<1>2. Typed /\ Placed /\ BufferBound /\ WorkerBound /\ WriterBound /\ [Next]_vars
      => (Typed /\ Placed /\ BufferBound /\ WorkerBound /\ WriterBound)'
  BY NextTyped, NextPlaced, NextBufferBound, NextWorkerBound, NextWriterBound
<1>3. QED
  BY <1>1, <1>2, PTL DEF Spec

(***************************************************************************)
(* The channel never holds more than max-enqueued commands; the permits of *)
(* the worker pool, free or held by a job or by the shovel, are Threads    *)
(* until a stop and never more, a job the pool rejects included; those of  *)
(* the writers are ConcurrentWrites until a stop, and then never fewer, as *)
(* an interrupted writer gives back a permit it need not have had.         *)
(***************************************************************************)
THEOREM LimitsHold == Spec => []WithinLimits
<1>1. BufferBound /\ WorkerBound /\ WriterBound => WithinLimits
  <2> SUFFICES ASSUME BufferBound, WorkerBound, WriterBound PROVE WithinLimits
    OBVIOUS
  <2>1. /\ Cardinality(running) \in Nat /\ Cardinality(Writing) \in Nat
        /\ Granted \in {0, 1}
    BY FS_CardinalityType DEF WorkerBound, WriterBound, Granted
  <2>2. QED
    BY <2>1 DEF BufferBound, WorkerBound, WriterBound, WithinLimits
<1>2. QED
  BY <1>1, AlwaysBounded, PTL
=============================================================================
