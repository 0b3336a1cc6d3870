------------------------ MODULE CommandPipelineProofs ------------------------
(***************************************************************************)
(* Theorems about CommandPipeline, for every number of nodes, threads,     *)
(* retries and failures.                                                   *)
(***************************************************************************)
EXTENDS CommandPipeline, TLAPS

\* What a reference has in common with the stored command it stands for.
Matches(r) ==
  /\ r.id \in StoredIds
  /\ r.key = stored[r.id].key
  /\ r.stamp \in {stored[r.id].time, NoTime}

(***************************************************************************)
(* Whatever the program holds refers to a command that was stored: without *)
(* it no reference built from the queue directory need be well typed.      *)
(***************************************************************************)
HeldStored ==
  /\ disk \subseteq StoredIds
  /\ loader \subseteq StoredIds
  /\ ceiling <= Len(stored) + 1
  /\ \A s \in Submitters : submitter[s].at = "put" => submitter[s].id \in StoredIds
  /\ \A r \in fifo : Matches(r)
  /\ shovel # NoCmd => Matches(shovel)
  /\ \A j \in running : Matches(j.ref)
  /\ \A r \in delayed : Matches(r)
  /\ \A k \in Keys : certnames[k] # NoCmd => Matches(certnames[k])

Typed == TypeOK /\ HeldStored

USE BufferAssumption, NoCmdAssumption, PipelineAssumption
    DEF BufferAssumption, NoCmdAssumption, PipelineAssumption, bufferVars, diskVars,
        submitVars, loadVars, workVars, history, countVars

LEMMA RefOfTyped ==
  ASSUME DiskTypeOK, NEW i \in StoredIds
  PROVE  i \in Ids /\ RefOf(i) \in Ref /\ Matches(RefOf(i))
<1>1. i \in 1..Len(stored) /\ i \in Ids /\ stored[i] \in Command
  BY DEF DiskTypeOK, StoredIds, Ids
<1>2. stored[i].key \in Keys \cup {NoKey} /\ stored[i].time \in Times
  BY <1>1 DEF Command
<1>3. QED
  BY <1>1, <1>2 DEF RefOf, Ref, Matches, StoredIds

LEMMA MarkedTyped ==
  ASSUME NEW q \in Ref
  PROVE  /\ Marked(q) \in Ref /\ Marked(q).delete
         /\ Marked(q).id = q.id /\ Marked(q).key = q.key
         /\ Marked(q).stamp = q.stamp
BY DEF Marked, Ref

\* The buffer only ever holds what it was given, marked or not.
LEMMA AddTyped ==
  ASSUME BufferTypeOK, HeldStored, NEW r \in Ref, Matches(r), Add(r)
  PROVE  /\ BufferTypeOK'
         /\ \A q \in fifo' : Matches(q)
         /\ \A k \in Keys : certnames'[k] # NoCmd => Matches(certnames'[k])
<1> USE DEF BufferTypeOK
<1>1. \A q \in Ref : /\ Marked(q) \in Ref
                     /\ Marked(q).id = q.id /\ Marked(q).key = q.key
                     /\ Marked(q).stamp = q.stamp
  BY MarkedTyped
<1>2. \A q \in fifo : q \in Ref /\ Matches(q)
  BY DEF HeldStored
<1>3. \A k \in Keys : certnames[k] # NoCmd =>
          certnames[k] \in Ref /\ Matches(certnames[k])
  BY DEF HeldStored
<1>4. CASE AddUnindexed(r)
  BY <1>1, <1>2, <1>3, <1>4 DEF AddUnindexed, PutIn, Matches
<1>5. CASE AddFirst(r)
  BY <1>1, <1>2, <1>3, <1>5 DEF AddFirst, PutIn, Matches, Indexed
<1>6. CASE AddNewer(r)
  BY <1>1, <1>2, <1>3, <1>6 DEF AddNewer, PutIn, Matches, Indexed
<1>7. CASE AddStale(r)
  BY <1>1, <1>2, <1>3, <1>7 DEF AddStale, PutIn, Matches, Indexed
<1>8. QED
  BY <1>4, <1>5, <1>6, <1>7 DEF Add

\* A put, on an open or a closed channel.
LEMMA PutOnChannelTyped ==
  ASSUME BufferTypeOK, HeldStored, NEW r \in Ref, Matches(r), PutOnChannel(r)
  PROVE  /\ BufferTypeOK'
         /\ \A q \in fifo' : Matches(q)
         /\ \A k \in Keys : certnames'[k] # NoCmd => Matches(certnames'[k])
<1>1. CASE Add(r)
  BY <1>1, AddTyped
<1>2. CASE UNCHANGED bufferVars
  BY <1>2 DEF BufferTypeOK, HeldStored, bufferVars
<1>3. QED
  BY <1>1, <1>2 DEF PutOnChannel

\* What a step leaves alone keeps its type.
LEMMA UnchangedTyped ==
  ASSUME TypeOK
  PROVE  /\ UNCHANGED bufferVars => BufferTypeOK'
         /\ UNCHANGED diskVars => DiskTypeOK'
         /\ UNCHANGED submitVars => SubmitTypeOK'
         /\ UNCHANGED loadVars => LoadTypeOK'
         /\ UNCHANGED workVars => WorkTypeOK'
         /\ UNCHANGED history => HistoryTypeOK'
         /\ UNCHANGED <<db, shovel, blocked, delayed, revived, countVars, stopping>> => OtherTypeOK'
<1> USE DEF TypeOK
<1>1. UNCHANGED bufferVars => BufferTypeOK'
  BY DEF BufferTypeOK, bufferVars
<1>2. UNCHANGED diskVars => DiskTypeOK'
  BY DEF DiskTypeOK, diskVars
<1>3. UNCHANGED submitVars => SubmitTypeOK'
  BY DEF SubmitTypeOK, submitVars
<1>4. UNCHANGED loadVars => LoadTypeOK'
  BY DEF LoadTypeOK, loadVars
<1>5. UNCHANGED workVars => WorkTypeOK'
  BY DEF WorkTypeOK, workVars
<1>6. UNCHANGED history => HistoryTypeOK'
  BY DEF HistoryTypeOK, history
<1>7. UNCHANGED <<db, shovel, blocked, delayed, revived, countVars, stopping>> => OtherTypeOK'
  BY DEF OtherTypeOK, countVars
<1>8. QED
  BY <1>1, <1>2, <1>3, <1>4, <1>5, <1>6, <1>7

LEMMA InitTyped == Init => Typed
<1> SUFFICES ASSUME Init PROVE Typed
  OBVIOUS
<1>1. BufferTypeOK
  BY DEF BufferTypeOK, Init, EmptyBuffer
<1>2. DiskTypeOK
  BY DEF DiskTypeOK, Init
<1>3. SubmitTypeOK
  BY DEF SubmitTypeOK, SubmitState, Init
<1>4. LoadTypeOK
  <2>1. loader \subseteq Ids
    BY DEF Init
  <2>2. ceiling \in 1..MaxId + 1
    BY DEF Init
  <2>3. loaderOwes \in BOOLEAN
    BY DEF Init
  <2>4. QED
    BY <2>1, <2>2, <2>3 DEF LoadTypeOK
<1>9. WorkTypeOK
  BY DEF WorkTypeOK, Init
<1>5. HistoryTypeOK
  BY DEF HistoryTypeOK, Init
<1>6. OtherTypeOK
  <2>1. db \in [Keys -> Times \cup {0}]
    BY DEF Init
  <2>2. shovel \in Ref \cup {NoCmd} /\ delayed \subseteq Ref
    BY DEF Init
  <2>3. depth \in Int /\ awaiting \in Int /\ revived \in Int
    BY DEF Init
  <2>4. blocked \in BOOLEAN /\ stopping \in BOOLEAN
    BY DEF Init
  <2>5. QED
    BY <2>1, <2>2, <2>3, <2>4 DEF OtherTypeOK
<1>7. HeldStored
  <2>1. disk \subseteq StoredIds /\ loader \subseteq StoredIds /\ ceiling <= Len(stored) + 1
    BY DEF Init
  <2>2. \A s \in Submitters : submitter[s].at = "put" => submitter[s].id \in StoredIds
    BY DEF Init
  <2>3. \A k \in Keys : certnames[k] # NoCmd => Matches(certnames[k])
    BY DEF Init, EmptyBuffer
  <2>4. fifo = {} /\ shovel = NoCmd /\ running = {} /\ delayed = {}
    BY DEF Init, EmptyBuffer
  <2>5. QED
    BY <2>1, <2>2, <2>3, <2>4 DEF HeldStored
<1>8. QED
  BY <1>1, <1>2, <1>3, <1>4, <1>5, <1>6, <1>7, <1>9 DEF Typed, TypeOK

LEMMA ArriveTyped == ASSUME Typed, NEW s \in Submitters, Arrive(s) PROVE Typed'
<1>1. SubmitTypeOK'
  BY DEF Typed, TypeOK, SubmitTypeOK, SubmitState, Arrive
<1>2. TypeOK'
  BY <1>1, UnchangedTyped DEF Typed, TypeOK, Arrive
<1>3. HeldStored'
  BY DEF Typed, TypeOK, SubmitTypeOK, HeldStored, Arrive, Matches, StoredIds
<1>4. QED
  BY <1>2, <1>3 DEF Typed

LEMMA AcquireInterruptedTyped ==
  ASSUME Typed, NEW s \in Submitters, AcquireInterrupted(s) PROVE Typed'
<1>1. SubmitTypeOK'
  BY DEF Typed, TypeOK, SubmitTypeOK, SubmitState, AcquireInterrupted
<1>2. TypeOK'
  BY <1>1, UnchangedTyped DEF Typed, TypeOK, AcquireInterrupted
<1>3. HeldStored'
  BY DEF Typed, TypeOK, SubmitTypeOK, HeldStored, AcquireInterrupted, Matches, StoredIds
<1>4. QED
  BY <1>2, <1>3 DEF Typed

LEMMA AcquireTyped == ASSUME Typed, NEW s \in Submitters, Acquire(s) PROVE Typed'
<1>1. SubmitTypeOK'
  BY DEF Typed, TypeOK, SubmitTypeOK, SubmitState, Acquire
<1>2. TypeOK'
  BY <1>1, UnchangedTyped DEF Typed, TypeOK, Acquire, countVars
<1>3. HeldStored'
  BY DEF Typed, TypeOK, SubmitTypeOK, HeldStored, Acquire, Matches, StoredIds
<1>4. QED
  BY <1>2, <1>3 DEF Typed

(***************************************************************************)
(* A step that stores nothing keeps HeldStored if what it makes the        *)
(* program hold was stored before.                                         *)
(***************************************************************************)
LEMMA HeldKept ==
  ASSUME HeldStored, UNCHANGED stored,
         disk' \subseteq StoredIds, loader' \subseteq StoredIds,
         ceiling' <= Len(stored) + 1,
         \A s \in Submitters : submitter'[s].at = "put" => submitter'[s].id \in StoredIds,
         \A r \in fifo' : Matches(r),
         shovel' # NoCmd => Matches(shovel'),
         \A j \in running' : Matches(j.ref),
         \A r \in delayed' : Matches(r),
         \A k \in Keys : certnames'[k] # NoCmd => Matches(certnames'[k])
  PROVE  HeldStored'
<1>1. StoredIds' = StoredIds /\ \A r : Matches(r)' <=> Matches(r)
  BY DEF StoredIds, Matches
<1>2. QED
  BY <1>1 DEF HeldStored

LEMMA StoreTyped == ASSUME Typed, NEW s \in Submitters, Store(s) PROVE Typed'
<1> DEFINE n == Len(stored')
<1>1. PICK c \in Command : stored' = Append(stored, c)
  BY DEF Store
<1>2. /\ stored \in Seq(Command) /\ Len(stored) < MaxId
      /\ disk \subseteq Ids /\ dlo \subseteq DloEntry
  BY DEF Typed, TypeOK, DiskTypeOK, Store
<1>3. /\ stored' \in Seq(Command) /\ n = Len(stored) + 1 /\ n \in Ids
      /\ StoredIds' = StoredIds \cup {n}
      /\ \A i \in StoredIds : stored'[i] = stored[i]
  BY <1>1, <1>2 DEF StoredIds, Ids
<1>4. DiskTypeOK'
  <2>1. disk' \subseteq Ids /\ dlo' = dlo
    BY <1>2, <1>3 DEF Store
  <2>2. n <= MaxId
    BY <1>3 DEF Ids
  <2>3. QED
    BY <2>1, <2>2, <1>2, <1>3 DEF DiskTypeOK
<1>5. SubmitTypeOK'
  <2>1. submitter' = [submitter EXCEPT ![s] = [at |-> "put", id |-> n]] /\ permits' = permits
    BY DEF Store
  <2>2. QED
    BY <2>1, <1>3 DEF Typed, TypeOK, SubmitTypeOK, SubmitState
<1>6. LoadTypeOK'
  <2>1. loader' \subseteq Ids /\ ceiling' = ceiling /\ loaderOwes' = loaderOwes
    BY <1>3 DEF Typed, TypeOK, LoadTypeOK, Store
  <2>2. QED
    BY <2>1 DEF Typed, TypeOK, LoadTypeOK
<1>7. TypeOK'
  BY <1>4, <1>5, <1>6, UnchangedTyped DEF Typed, TypeOK, Store
<1>8. \A r : Matches(r) => Matches(r)'
  BY <1>3 DEF Matches
<1>9. HeldStored'
  <2>1. disk' \subseteq StoredIds' /\ loader' \subseteq StoredIds' /\ ceiling' <= Len(stored') + 1
    BY <1>3, <1>2 DEF Typed, TypeOK, LoadTypeOK, HeldStored, Store
  <2>2. \A t \in Submitters : submitter'[t].at = "put" => submitter'[t].id \in StoredIds'
    BY <1>3 DEF Typed, TypeOK, SubmitTypeOK, HeldStored, Store
  <2>3. /\ fifo' = fifo /\ shovel' = shovel /\ running' = running
        /\ delayed' = delayed /\ certnames' = certnames
    BY DEF Store
  <2>4. QED
    BY <2>1, <2>2, <2>3, <1>8 DEF Typed, HeldStored
<1>10. QED
  BY <1>7, <1>9 DEF Typed

LEMMA StoreFailsTyped == ASSUME Typed, NEW s \in Submitters, StoreFails(s) PROVE Typed'
<1>1. SubmitTypeOK'
  BY DEF Typed, TypeOK, SubmitTypeOK, SubmitState, StoreFails
<1>2. TypeOK'
  BY <1>1, UnchangedTyped DEF Typed, TypeOK, StoreFails
<1>3. HeldStored'
  BY DEF Typed, TypeOK, SubmitTypeOK, HeldStored, StoreFails, Matches, StoredIds
<1>4. QED
  BY <1>2, <1>3 DEF Typed

LEMMA PutTyped == ASSUME Typed, NEW s \in Submitters, Put(s) PROVE Typed'
<1> DEFINE r == RefOf(submitter[s].id)
<1>1. r \in Ref /\ Matches(r)
  BY RefOfTyped DEF Typed, TypeOK, HeldStored, Put
<1>2. /\ BufferTypeOK'
      /\ \A q \in fifo' : Matches(q)
      /\ \A k \in Keys : certnames'[k] # NoCmd => Matches(certnames'[k])
  BY <1>1, PutOnChannelTyped DEF Typed, TypeOK, Put
<1>3. SubmitTypeOK'
  BY DEF Typed, TypeOK, SubmitTypeOK, SubmitState, Put
<1>4. TypeOK'
  BY <1>2, <1>3, UnchangedTyped DEF Typed, TypeOK, Put
<1>5. \A t \in Submitters : submitter'[t].at = "put" => submitter'[t].id \in StoredIds
  BY DEF Typed, TypeOK, SubmitTypeOK, HeldStored, Put
<1>6. HeldStored'
  BY <1>2, <1>5, HeldKept DEF Typed, HeldStored, Put
<1>7. QED
  BY <1>4, <1>6 DEF Typed

LEMMA PutInterruptedTyped ==
  ASSUME Typed, NEW s \in Submitters, PutInterrupted(s) PROVE Typed'
<1>1. SubmitTypeOK'
  BY DEF Typed, TypeOK, SubmitTypeOK, SubmitState, PutInterrupted
<1>2. TypeOK'
  BY <1>1, UnchangedTyped DEF Typed, TypeOK, PutInterrupted
<1>3. HeldStored'
  BY DEF Typed, TypeOK, SubmitTypeOK, HeldStored, PutInterrupted, Matches, StoredIds
<1>4. QED
  BY <1>2, <1>3 DEF Typed

LEMMA CountTyped == ASSUME Typed, NEW s \in Submitters, Count(s) PROVE Typed'
<1>1. SubmitTypeOK'
  BY DEF Typed, TypeOK, SubmitTypeOK, SubmitState, Count
<1>2. OtherTypeOK'
  BY DEF Typed, TypeOK, OtherTypeOK, Count
<1>3. TypeOK'
  BY <1>1, <1>2, UnchangedTyped DEF Typed, TypeOK, Count
<1>4. HeldStored'
  BY DEF Typed, TypeOK, SubmitTypeOK, HeldStored, Count, Matches, StoredIds
<1>5. QED
  BY <1>3, <1>4 DEF Typed

LEMMA LoadTyped == ASSUME Typed, NEW i \in loader, Load(i) PROVE Typed'
<1>1. RefOf(i) \in Ref /\ Matches(RefOf(i))
  BY RefOfTyped DEF Typed, TypeOK, HeldStored
<1>2. /\ BufferTypeOK'
      /\ \A q \in fifo' : Matches(q)
      /\ \A k \in Keys : certnames'[k] # NoCmd => Matches(certnames'[k])
  BY <1>1, PutOnChannelTyped DEF Typed, TypeOK, Load
<1>3. LoadTypeOK'
  BY DEF Typed, TypeOK, LoadTypeOK, Load
<1>4. TypeOK'
  BY <1>2, <1>3, UnchangedTyped DEF Typed, TypeOK, Load
<1>5. HeldStored'
  BY <1>2, HeldKept DEF Typed, HeldStored, Load
<1>6. QED
  BY <1>4, <1>5 DEF Typed

LEMMA LoadSkipsTyped == ASSUME Typed, NEW i \in loader, LoadSkips(i) PROVE Typed'
<1>1. LoadTypeOK'
  BY DEF Typed, TypeOK, LoadTypeOK, LoadSkips
<1>2. TypeOK'
  BY <1>1, UnchangedTyped DEF Typed, TypeOK, LoadSkips
<1>3. HeldStored'
  BY HeldKept DEF Typed, HeldStored, LoadSkips
<1>4. QED
  BY <1>2, <1>3 DEF Typed

LEMMA LoadCountsTyped == ASSUME Typed, LoadCounts PROVE Typed'
<1>1. LoadTypeOK'
  BY DEF Typed, TypeOK, LoadTypeOK, LoadCounts
<1>2. OtherTypeOK'
  BY DEF Typed, TypeOK, OtherTypeOK, LoadCounts
<1>3. TypeOK'
  BY <1>1, <1>2, UnchangedTyped DEF Typed, TypeOK, LoadCounts
<1>4. HeldStored'
  BY HeldKept DEF Typed, HeldStored, LoadCounts
<1>5. QED
  BY <1>3, <1>4 DEF Typed

LEMMA TakeTyped == ASSUME Typed, NEW r \in fifo, Take(r) PROVE Typed'
<1>1. r \in Ref /\ Matches(r)
  BY DEF Typed, TypeOK, BufferTypeOK, HeldStored
<1>2. /\ fifo' = fifo \ {r} /\ invalidated' = invalidated
      /\ certnames' = IF r.key \in Keys THEN [certnames EXCEPT ![r.key] = NoCmd]
                      ELSE certnames
  BY DEF Take, Remove
<1>3. BufferTypeOK'
  BY <1>2 DEF Typed, TypeOK, BufferTypeOK
<1>4. \A k \in Keys : certnames'[k] # NoCmd => certnames'[k] = certnames[k]
  BY <1>2 DEF Typed, TypeOK, BufferTypeOK
<1>5. OtherTypeOK'
  BY <1>1 DEF Typed, TypeOK, OtherTypeOK, Take
<1>6. TypeOK'
  BY <1>3, <1>5, UnchangedTyped DEF Typed, TypeOK, Take
<1>7. HeldStored'
  BY <1>1, <1>2, <1>4, HeldKept DEF Typed, HeldStored, Take
<1>8. QED
  BY <1>6, <1>7 DEF Typed

LEMMA PassPauseTyped == ASSUME Typed, PassPause PROVE Typed'
<1>1. WorkTypeOK'
  BY DEF Typed, TypeOK, WorkTypeOK, PassPause
<1>2. TypeOK'
  BY <1>1, UnchangedTyped DEF Typed, TypeOK, PassPause
<1>3. HeldStored'
  BY HeldKept DEF Typed, HeldStored, PassPause
<1>4. QED
  BY <1>2, <1>3 DEF Typed

LEMMA GrantTyped == ASSUME Typed, Grant PROVE Typed'
<1>1. WorkTypeOK'
  BY DEF Typed, TypeOK, WorkTypeOK, Grant
<1>2. TypeOK'
  BY <1>1, UnchangedTyped DEF Typed, TypeOK, Grant
<1>3. HeldStored'
  BY HeldKept DEF Typed, HeldStored, Grant
<1>4. QED
  BY <1>2, <1>3 DEF Typed

LEMMA RejectedTyped == ASSUME Typed, Rejected PROVE Typed'
<1>1. WorkTypeOK'
  BY DEF Typed, TypeOK, WorkTypeOK, Rejected
<1>2. OtherTypeOK'
  BY DEF Typed, TypeOK, OtherTypeOK, Rejected
<1>3. TypeOK'
  BY <1>1, <1>2, UnchangedTyped DEF Typed, TypeOK, Rejected
<1>4. HeldStored'
  BY HeldKept DEF Typed, HeldStored, Rejected
<1>5. QED
  BY <1>3, <1>4 DEF Typed

LEMMA DispatchTyped == ASSUME Typed, Dispatch PROVE Typed'
<1> DEFINE j == [ref |-> shovel, at |-> "start"]
<1>1. shovel \in Ref /\ Matches(shovel)
  BY DEF Typed, TypeOK, OtherTypeOK, HeldStored, Dispatch
<1>2. j \in Job /\ j.ref = shovel
  BY <1>1 DEF Job
<1>3. running' = running \cup {j} /\ gate' = gate /\ handing' = "held"
  BY DEF Dispatch
<1>4. WorkTypeOK'
  BY <1>2, <1>3 DEF Typed, TypeOK, WorkTypeOK
<1>5. OtherTypeOK'
  BY DEF Typed, TypeOK, OtherTypeOK, Dispatch
<1>6. TypeOK'
  BY <1>4, <1>5, UnchangedTyped DEF Typed, TypeOK, Dispatch
<1>7. \A k \in running' : Matches(k.ref)
  BY <1>1, <1>2, <1>3 DEF Typed, HeldStored
<1>8. HeldStored'
  BY <1>7, HeldKept DEF Typed, HeldStored, Dispatch
<1>9. QED
  BY <1>6, <1>8 DEF Typed

LEMMA PauseOrResumeTyped == ASSUME Typed, PauseOrResume PROVE Typed'
<1>1. OtherTypeOK'
  BY DEF Typed, TypeOK, OtherTypeOK, PauseOrResume
<1>2. TypeOK'
  BY <1>1, UnchangedTyped DEF Typed, TypeOK, PauseOrResume
<1>3. HeldStored'
  BY HeldKept DEF Typed, HeldStored, PauseOrResume
<1>4. QED
  BY <1>2, <1>3 DEF Typed

\* The two ways a worker's step leaves "running".
LEMMA FinishTyped ==
  ASSUME Typed, NEW j \in running, Finish(j)
  PROVE  WorkTypeOK' /\ \A k \in running' : Matches(k.ref)
BY DEF Typed, TypeOK, WorkTypeOK, HeldStored, Finish

LEMMA StepsTyped ==
  ASSUME Typed, NEW j \in running, NEW at \in {"executed", "exhausted", "fatal"},
         Steps(j, at), UNCHANGED gate
  PROVE  WorkTypeOK' /\ \A k \in running' : Matches(k.ref)
<1>1. j \in Job /\ Matches(j.ref)
  BY DEF Typed, TypeOK, WorkTypeOK, HeldStored
<1>2. [j EXCEPT !.at = at] \in Job /\ [j EXCEPT !.at = at].ref = j.ref
  BY <1>1 DEF Job
<1>3. QED
  BY <1>1, <1>2 DEF Typed, TypeOK, WorkTypeOK, HeldStored, Steps

LEMMA MissingTyped == ASSUME Typed, NEW j \in running, Missing(j) PROVE Typed'
<1>1. WorkTypeOK' /\ \A k \in running' : Matches(k.ref)
  BY FinishTyped DEF Missing
<1>2. OtherTypeOK'
  BY DEF Typed, TypeOK, OtherTypeOK, Missing
<1>3. TypeOK'
  BY <1>1, <1>2, UnchangedTyped DEF Typed, TypeOK, Missing
<1>4. HeldStored'
  BY <1>1, HeldKept DEF Typed, HeldStored, Missing
<1>5. QED
  BY <1>3, <1>4 DEF Typed

LEMMA DropObsoleteTyped == ASSUME Typed, NEW j \in running, DropObsolete(j) PROVE Typed'
<1>1. WorkTypeOK' /\ \A k \in running' : Matches(k.ref)
  BY FinishTyped DEF DropObsolete
<1>2. OtherTypeOK'
  BY DEF Typed, TypeOK, OtherTypeOK, DropObsolete
<1>3. DiskTypeOK'
  BY DEF Typed, TypeOK, DiskTypeOK, DropObsolete
<1>4. BufferTypeOK'
  BY DEF Typed, TypeOK, BufferTypeOK, DropObsolete
<1>5. HistoryTypeOK'
  BY DEF Typed, TypeOK, HistoryTypeOK, DiskTypeOK, DropObsolete
<1>6. TypeOK'
  BY <1>1, <1>2, <1>3, <1>4, <1>5, UnchangedTyped DEF Typed, TypeOK, DropObsolete
<1>7. HeldStored'
  BY <1>1, HeldKept DEF Typed, HeldStored, DropObsolete
<1>8. QED
  BY <1>6, <1>7 DEF Typed

LEMMA ExecuteTyped == ASSUME Typed, NEW j \in running, Execute(j) PROVE Typed'
<1>1. j.ref.id \in Ids /\ stored[j.ref.id] \in Command
  BY RefOfTyped DEF Typed, TypeOK, DiskTypeOK, HeldStored, Matches, StoredIds
<1>2. WorkTypeOK' /\ \A k \in running' : Matches(k.ref)
  BY StepsTyped DEF Execute
<1>3. db' \in [Keys -> Times \cup {0}]
  BY <1>1 DEF Typed, TypeOK, OtherTypeOK, Execute, Command
<1>4. OtherTypeOK'
  BY <1>3 DEF Typed, TypeOK, OtherTypeOK, Execute
<1>5. HistoryTypeOK'
  BY <1>1 DEF Typed, TypeOK, HistoryTypeOK, Execute
<1>6. TypeOK'
  BY <1>2, <1>4, <1>5, UnchangedTyped DEF Typed, TypeOK, Execute
<1>7. HeldStored'
  BY <1>2, HeldKept DEF Typed, HeldStored, Execute
<1>8. QED
  BY <1>6, <1>7 DEF Typed

LEMMA AckTyped == ASSUME Typed, NEW j \in running, Ack(j) PROVE Typed'
<1>1. WorkTypeOK' /\ \A k \in running' : Matches(k.ref)
  BY FinishTyped DEF Ack
<1>2. OtherTypeOK'
  BY DEF Typed, TypeOK, OtherTypeOK, Ack
<1>3. DiskTypeOK'
  BY DEF Typed, TypeOK, DiskTypeOK, Ack
<1>4. TypeOK'
  BY <1>1, <1>2, <1>3, UnchangedTyped DEF Typed, TypeOK, Ack
<1>5. HeldStored'
  BY <1>1, HeldKept DEF Typed, HeldStored, Ack
<1>6. QED
  BY <1>4, <1>5 DEF Typed

\* A retry schedules a reference with one more attempt, or gives up.
LEMMA RetryTyped ==
  ASSUME Typed, NEW j \in running, Retry(j)
  PROVE  /\ WorkTypeOK' /\ \A k \in running' : Matches(k.ref)
         /\ OtherTypeOK' /\ \A r \in delayed' : Matches(r)
<1> DEFINE r == [j.ref EXCEPT !.attempts = @ + 1]
<1>1. j.ref \in Ref /\ Matches(j.ref)
  BY DEF Typed, TypeOK, WorkTypeOK, Job, HeldStored
<1>2. CASE Delay(j)
  <2>1. WorkTypeOK' /\ \A k \in running' : Matches(k.ref)
    BY <1>2, FinishTyped DEF Delay
  <2>2. j.ref.attempts + 1 \in 0..MaxRetries
    BY <1>1, <1>2 DEF Delay, Ref
  <2>3. r \in Ref /\ Matches(r)
    BY <1>1, <2>2 DEF Ref, Matches
  <2>4. delayed' = delayed \cup {r} /\ awaiting' = awaiting + 1
    BY <1>2 DEF Delay
  <2>5. OtherTypeOK'
    BY <2>3, <2>4 DEF Typed, TypeOK, OtherTypeOK, Retry
  <2>6. QED
    BY <2>1, <2>3, <2>4, <2>5 DEF Typed, HeldStored
<1>3. CASE Steps(j, "exhausted") /\ UNCHANGED <<gate, delayed, awaiting>>
  <2>1. WorkTypeOK' /\ \A k \in running' : Matches(k.ref)
    BY <1>3, StepsTyped
  <2>2. OtherTypeOK'
    BY <1>3 DEF Typed, TypeOK, OtherTypeOK, Retry
  <2>3. QED
    BY <1>3, <2>1, <2>2 DEF Typed, HeldStored
<1>4. QED
  BY <1>2, <1>3 DEF Retry

LEMMA FailTransientlyTyped ==
  ASSUME Typed, NEW j \in running, FailTransiently(j) PROVE Typed'
<1>1. /\ WorkTypeOK' /\ \A k \in running' : Matches(k.ref)
      /\ OtherTypeOK' /\ \A r \in delayed' : Matches(r)
  BY RetryTyped DEF FailTransiently
<1>2. TypeOK'
  BY <1>1, UnchangedTyped DEF Typed, TypeOK, FailTransiently, Retry
<1>3. HeldStored'
  BY <1>1, HeldKept DEF Typed, HeldStored, FailTransiently, Retry
<1>4. QED
  BY <1>2, <1>3 DEF Typed

LEMMA AckFailsTyped == ASSUME Typed, NEW j \in running, AckFails(j) PROVE Typed'
<1>1. /\ WorkTypeOK' /\ \A k \in running' : Matches(k.ref)
      /\ OtherTypeOK' /\ \A r \in delayed' : Matches(r)
  BY RetryTyped DEF AckFails
<1>2. HistoryTypeOK'
  BY DEF Typed, TypeOK, HistoryTypeOK, AckFails, Retry, FailIO
<1>3. TypeOK'
  BY <1>1, <1>2, UnchangedTyped DEF Typed, TypeOK, AckFails, Retry
<1>4. HeldStored'
  BY <1>1, HeldKept DEF Typed, HeldStored, AckFails, Retry
<1>5. QED
  BY <1>3, <1>4 DEF Typed

LEMMA FailForGoodTyped ==
  ASSUME Typed, NEW j \in running, FailForGood(j) PROVE Typed'
<1>1. WorkTypeOK' /\ \A k \in running' : Matches(k.ref)
  BY StepsTyped DEF FailForGood
<1>2. TypeOK'
  BY <1>1, UnchangedTyped DEF Typed, TypeOK, FailForGood
<1>3. HeldStored'
  BY <1>1, HeldKept DEF Typed, HeldStored, FailForGood
<1>4. QED
  BY <1>2, <1>3 DEF Typed

LEMMA MoveToDloTyped ==
  ASSUME Typed, NEW j \in running, j.at \in {"exhausted", "fatal"}, MoveToDlo(j)
  PROVE  DiskTypeOK' /\ disk' \subseteq StoredIds
<1>1. j.ref.id \in Ids /\ j.ref.attempts + 1 \in Nat
  BY DEF Typed, TypeOK, WorkTypeOK, Job, Ref
<1>2. [id |-> j.ref.id, attempts |-> j.ref.attempts + 1, why |-> j.at] \in DloEntry
  BY <1>1 DEF DloEntry
<1>3. disk' \subseteq disk /\ dlo' \subseteq DloEntry /\ stored' = stored
  BY <1>2 DEF Typed, TypeOK, DiskTypeOK, MoveToDlo
<1>4. QED
  BY <1>3 DEF Typed, TypeOK, DiskTypeOK, HeldStored

LEMMA DiscardTyped == ASSUME Typed, NEW j \in running, Discard(j) PROVE Typed'
<1>1. WorkTypeOK' /\ \A k \in running' : Matches(k.ref)
  BY FinishTyped DEF Discard
<1>2. DiskTypeOK' /\ disk' \subseteq StoredIds
  BY MoveToDloTyped DEF Discard
<1>3. OtherTypeOK'
  BY DEF Typed, TypeOK, OtherTypeOK, Discard
<1>4. TypeOK'
  BY <1>1, <1>2, <1>3, UnchangedTyped DEF Typed, TypeOK, Discard
<1>5. HeldStored'
  BY <1>1, <1>2, HeldKept DEF Typed, HeldStored, Discard, MoveToDlo
<1>6. QED
  BY <1>4, <1>5 DEF Typed

LEMMA DiscardFailsTyped ==
  ASSUME Typed, NEW j \in running, DiscardFails(j) PROVE Typed'
<1>1. WorkTypeOK' /\ \A k \in running' : Matches(k.ref)
  BY FinishTyped DEF DiscardFails
<1>2. DiskTypeOK' /\ disk' \subseteq StoredIds /\ UNCHANGED stored
  <2>1. CASE UNCHANGED diskVars
    BY <2>1 DEF Typed, TypeOK, DiskTypeOK, HeldStored
  <2>2. CASE MoveToDlo(j)
    BY <2>2, MoveToDloTyped DEF DiscardFails, MoveToDlo
  <2>3. QED
    BY <2>1, <2>2 DEF DiscardFails
<1>3. j.ref.id \in Ids
  BY DEF Typed, TypeOK, WorkTypeOK, Job, Ref
<1>4. ioFailures' \in Nat /\ stranded' \subseteq Ids
  BY <1>3 DEF Typed, TypeOK, HistoryTypeOK, DiscardFails, FailIO
<1>5. HistoryTypeOK'
  BY <1>4 DEF Typed, TypeOK, HistoryTypeOK, DiscardFails
<1>6. TypeOK'
  BY <1>1, <1>2, <1>5, UnchangedTyped DEF Typed, TypeOK, DiscardFails
<1>7. HeldStored'
  BY <1>1, <1>2, HeldKept DEF Typed, HeldStored, DiscardFails
<1>8. QED
  BY <1>6, <1>7 DEF Typed

LEMMA ReviveTyped == ASSUME Typed, NEW r \in delayed, Revive(r) PROVE Typed'
<1>1. r \in Ref /\ Matches(r)
  BY DEF Typed, TypeOK, OtherTypeOK, HeldStored
<1>2. /\ BufferTypeOK'
      /\ \A q \in fifo' : Matches(q)
      /\ \A k \in Keys : certnames'[k] # NoCmd => Matches(certnames'[k])
  BY <1>1, PutOnChannelTyped DEF Typed, TypeOK, Revive
<1>3. OtherTypeOK'
  BY DEF Typed, TypeOK, OtherTypeOK, Revive
<1>4. TypeOK'
  BY <1>2, <1>3, UnchangedTyped DEF Typed, TypeOK, Revive
<1>5. HeldStored'
  BY <1>2, HeldKept DEF Typed, HeldStored, Revive
<1>6. QED
  BY <1>4, <1>5 DEF Typed

LEMMA CountRevivalTyped == ASSUME Typed, CountRevival PROVE Typed'
<1>1. OtherTypeOK'
  BY DEF Typed, TypeOK, OtherTypeOK, CountRevival
<1>2. TypeOK'
  BY <1>1, UnchangedTyped DEF Typed, TypeOK, CountRevival
<1>3. HeldStored'
  BY HeldKept DEF Typed, HeldStored, CountRevival
<1>4. QED
  BY <1>2, <1>3 DEF Typed

LEMMA RestartTyped ==
  ASSUME Typed, Restart, invalidated' \in Int, depth' \in Int, awaiting' \in Int,
         crashes' \in Nat, reloads' \in Nat
  PROVE  Typed'
<1>1. BufferTypeOK'
  BY DEF BufferTypeOK, Restart
<1>2. SubmitTypeOK'
  BY DEF SubmitTypeOK, SubmitState, Restart
<1>3. LoadTypeOK'
  <2>1. loader' \subseteq Ids
    BY DEF Typed, TypeOK, DiskTypeOK, Restart
  <2>2. ceiling' \in 1..MaxId + 1
    BY DEF Typed, TypeOK, DiskTypeOK, Restart
  <2>3. loaderOwes' \in BOOLEAN
    BY DEF Restart
  <2>4. QED
    BY <2>1, <2>2, <2>3 DEF LoadTypeOK
<1>4. WorkTypeOK'
  BY DEF WorkTypeOK, Restart
<1>5. HistoryTypeOK'
  <2>1. stranded' \subseteq Ids
    BY DEF Restart
  <2>2. QED
    BY <2>1 DEF Typed, TypeOK, HistoryTypeOK, Restart
<1>6. OtherTypeOK'
  <2>1. db' = db /\ shovel' \in Ref \cup {NoCmd} /\ delayed' \subseteq Ref
    BY DEF Restart
  <2>2. blocked' \in BOOLEAN /\ stopping' \in BOOLEAN
    BY DEF Restart
  <2>4. revived' \in Int
    BY DEF Restart
  <2>3. QED
    BY <2>1, <2>2, <2>4 DEF Typed, TypeOK, OtherTypeOK
<1>7. TypeOK'
  BY <1>1, <1>2, <1>3, <1>4, <1>5, <1>6, UnchangedTyped DEF Typed, TypeOK, Restart
<1>8. HeldStored'
  <2>1. /\ disk' \subseteq StoredIds /\ loader' \subseteq StoredIds
        /\ ceiling' <= Len(stored) + 1
    BY DEF Typed, TypeOK, DiskTypeOK, HeldStored, Restart
  <2>2. \A s \in Submitters : submitter'[s].at # "put"
    BY DEF Restart
  <2>3. \A k \in Keys : certnames'[k] = NoCmd
    BY DEF Restart
  <2>4. /\ fifo' = {} /\ shovel' = NoCmd /\ running' = {} /\ delayed' = {}
        /\ stored' = stored
    BY DEF Restart
  <2>5. QED
    BY <2>1, <2>2, <2>3, <2>4, HeldKept DEF Typed
<1>9. QED
  BY <1>7, <1>8 DEF Typed

LEMMA StopTyped == ASSUME Typed, Stop PROVE Typed'
<1>1. WorkTypeOK'
  BY DEF Typed, TypeOK, WorkTypeOK, Stop
<1>2. OtherTypeOK'
  BY DEF Typed, TypeOK, OtherTypeOK, Stop
<1>3. TypeOK'
  BY <1>1, <1>2, UnchangedTyped DEF Typed, TypeOK, Stop
<1>4. HeldStored'
  BY HeldKept DEF Typed, HeldStored, Stop
<1>5. QED
  BY <1>3, <1>4 DEF Typed

LEMMA LoseFileTyped == ASSUME Typed, NEW i \in disk, LoseFile(i) PROVE Typed'
<1>1. DiskTypeOK'
  BY DEF Typed, TypeOK, DiskTypeOK, LoseFile
<1>2. HistoryTypeOK'
  BY DEF Typed, TypeOK, DiskTypeOK, HistoryTypeOK, LoseFile
<1>3. TypeOK'
  BY <1>1, <1>2, UnchangedTyped DEF Typed, TypeOK, LoseFile
<1>4. HeldStored'
  BY HeldKept DEF Typed, HeldStored, LoseFile
<1>5. QED
  BY <1>3, <1>4 DEF Typed

LEMMA StutterTyped == ASSUME Typed, UNCHANGED vars PROVE Typed'
<1>1. TypeOK'
  BY UnchangedTyped DEF Typed, TypeOK, vars
<1>2. HeldStored'
  BY HeldKept DEF Typed, HeldStored, vars
<1>3. QED
  BY <1>1, <1>2 DEF Typed

\* One lemma per action, gathered.
LEMMA NextTyped == ASSUME Typed, [Next]_vars PROVE Typed'
<1>1. ASSUME NEW s \in Submitters, Arrive(s) \/ Submission(s) PROVE Typed'
  BY <1>1, ArriveTyped, AcquireTyped, AcquireInterruptedTyped, StoreTyped,
      StoreFailsTyped, PutTyped, PutInterruptedTyped,
     CountTyped DEF Submission
<1>2. CASE Loading
  BY <1>2, LoadTyped, LoadSkipsTyped, LoadCountsTyped DEF Loading
<1>3. CASE Shoveling
  BY <1>3, TakeTyped, PassPauseTyped, GrantTyped, DispatchTyped, RejectedTyped
     DEF Shoveling
<1>4. CASE PauseOrResume
  BY <1>4, PauseOrResumeTyped
<1>5. ASSUME NEW j \in running, Work(j) PROVE Typed'
  BY <1>5, MissingTyped, DropObsoleteTyped, ExecuteTyped, AckTyped,
     FailTransientlyTyped, AckFailsTyped, FailForGoodTyped, DiscardTyped,
     DiscardFailsTyped DEF Work
<1>6. ASSUME NEW r \in delayed, Revive(r) PROVE Typed'
  BY <1>6, ReviveTyped
<1>13. CASE CountRevival
  BY <1>13, CountRevivalTyped
<1>7. CASE Crash
  BY <1>7, RestartTyped DEF Crash, Typed, TypeOK, HistoryTypeOK
<1>8. CASE Stop
  BY <1>8, StopTyped
<1>9. CASE Reload
  BY <1>9, RestartTyped
     DEF Reload, Typed, TypeOK, HistoryTypeOK, BufferTypeOK, OtherTypeOK
<1>10. ASSUME NEW i \in disk, LoseFile(i) PROVE Typed'
  BY <1>10, LoseFileTyped
<1>11. CASE UNCHANGED vars
  BY <1>11, StutterTyped
<1>12. QED
  BY <1>1, <1>2, <1>3, <1>4, <1>5, <1>6, <1>7, <1>8, <1>9, <1>10, <1>11, <1>13
     DEF Next

LEMMA AlwaysTyped == Spec => []Typed
<1>1. Init => Typed
  BY InitTyped
<1>2. Typed /\ [Next]_vars => Typed'
  BY NextTyped
<1>3. QED
  BY <1>1, <1>2, PTL DEF Spec

(***************************************************************************)
(* The program's variables keep their types, whatever the number of        *)
(* threads, retries, crashes and failures: above all, every reference it   *)
(* holds has an id of the stockpile and at most MaxRetries attempts, so    *)
(* that no command is tried more often than process-message allows.        *)
(***************************************************************************)
THEOREM TypeCorrect == Spec => []TypeOK
<1>1. Typed => TypeOK
  BY DEF Typed
<1>2. QED
  BY <1>1, AlwaysTyped, PTL
=============================================================================
