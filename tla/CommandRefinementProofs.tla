----------------------- MODULE CommandRefinementProofs -----------------------
(***************************************************************************)
(* CommandPipeline implements CommandDelivery: each step of its threads,   *)
(* of a crash or of a restart is a step of the promise, or does not touch  *)
(* what the promise speaks of.                                             *)
(***************************************************************************)
EXTENDS CommandSafetyProofs

USE BufferAssumption, NoCmdAssumption, PipelineAssumption
    DEF BufferAssumption, NoCmdAssumption, PipelineAssumption, bufferVars, diskVars,
        submitVars, loadVars, workVars, history, countVars

Mapped == <<stored, disk, executed, dlo, lost, db>>

LEMMA StutterDelivers ==
  ASSUME UNCHANGED Mapped
  PROVE  UNCHANGED Delivery!vars
BY DEF Mapped, Delivery!vars, DloIds

\* Submission accepts: the command is on disk before the client has an answer.
LEMMA StoreDelivers ==
  ASSUME Typed, NEW s \in Submitters, Store(s)
  PROVE  Delivery!Next
<1>1. PICK c \in Command : stored' = Append(stored, c)
  BY DEF Store
<1>2. disk' = disk \cup {Len(stored')}
  BY DEF Store
<1>3. UNCHANGED <<executed, dlo, lost, db>>
  BY DEF Store
<1>4. Delivery!Accept(c)
  BY <1>1, <1>2, <1>3 DEF Delivery!Accept, DloIds
<1> QED
  BY <1>4 DEF Delivery!Next

\* The transaction applies.
LEMMA ExecuteDelivers ==
  ASSUME Typed, NEW j \in running, Execute(j)
  PROVE  Delivery!Next
<1> DEFINE i == j.ref.id
<1>1. i \in disk /\ i \in Ids
  BY DEF Execute, Typed, TypeOK, DiskTypeOK
<1>2. executed' = [executed EXCEPT ![i] = @ + 1]
  BY DEF Execute
<1>3. db' = IF stored[i].key \in Keys /\ db[stored[i].key] < stored[i].time
            THEN [db EXCEPT ![stored[i].key] = stored[i].time] ELSE db
  BY DEF Execute
<1>4. UNCHANGED <<stored, disk, dlo, lost>>
  BY DEF Execute
<1> HIDE DEF i
<1>5. executed'[i] > 0 /\ \A k \in Ids : k # i => executed'[k] = executed[k]
  BY <1>1, <1>2 DEF Typed, TypeOK, HistoryTypeOK
<1>6. {k \in Ids : executed'[k] > 0} = {k \in Ids : executed[k] > 0} \cup {i}
  BY <1>1, <1>5
<1>7. i \in StoredIds
  BY <1>1 DEF Typed, HeldStored
<1>8. Delivery!Apply(i)
  BY <1>1, <1>3, <1>4, <1>6, <1>7 DEF Delivery!Apply, DloIds, StoredIds
<1> QED
  BY <1>7, <1>8 DEF Delivery!Next, StoredIds

\* The acknowledgement settles what has run.
LEMMA AckDelivers ==
  ASSUME Typed, RanFirst, NEW j \in running, Ack(j)
  PROVE  Delivery!Next
<1> DEFINE i == j.ref.id
<1>1. i \in disk /\ i \in Ids /\ disk' = disk \ {i}
  BY DEF Ack, Typed, TypeOK, DiskTypeOK
<1>2. executed[i] > 0
  BY DEF Ack, RanFirst
<1>3. UNCHANGED <<stored, executed, dlo, lost, db>>
  BY DEF Ack
<1> HIDE DEF i
<1>4. Delivery!Settle(i)
  BY <1>1, <1>2, <1>3 DEF Delivery!Settle, Delivery!Leave, DloIds
<1> QED
  BY <1>1, <1>4 DEF Delivery!Next

\* What is dropped as obsolete has a strictly newer rival.
LEMMA DropDelivers ==
  ASSUME Typed, MarksInMemory, NEW j \in running, DropObsolete(j)
  PROVE  Delivery!Next
<1> DEFINE i == j.ref.id
<1>1. i \in disk /\ disk' = disk \ {i}
  BY DEF DropObsolete
<1>2. Superseded(i)
  BY DEF DropObsolete, MarksInMemory, InMemory, InWorkers
<1>3. UNCHANGED <<stored, executed, dlo, lost, db>>
  BY DEF DropObsolete
<1> HIDE DEF i
<1>4. Delivery!Supersede(i)
  BY <1>1, <1>2, <1>3 DEF Delivery!Supersede, Delivery!Leave, DloIds, Superseded,
     StoredIds
<1> QED
  BY <1>1, <1>4 DEF Delivery!Next

\* Discarding sets aside; a failing discard does so too, or does nothing.
LEMMA DiscardDelivers ==
  ASSUME Typed, NEW j \in running, Discard(j) \/ DiscardFails(j)
  PROVE  Delivery!Next \/ UNCHANGED Mapped
<1> DEFINE i == j.ref.id
<1>1. UNCHANGED <<stored, executed, lost, db>>
  BY DEF Discard, DiscardFails, MoveToDlo
<1>2. UNCHANGED <<disk, dlo>> \/ (i \in disk /\ MoveToDlo(j))
  BY DEF Discard, DiscardFails
<1>3. ASSUME i \in disk, MoveToDlo(j) PROVE Delivery!SetAside(i)
  <2> DEFINE entry == [id |-> i, attempts |-> j.ref.attempts + 1, why |-> j.at]
  <2>1. dlo' = dlo \cup {entry} /\ disk' = disk \ {i}
    BY <1>3 DEF MoveToDlo
  <2>2. entry.id = i
    OBVIOUS
  <2> HIDE DEF entry, i
  <2>3. DloIds' = DloIds \cup {i}
    BY <2>1, <2>2 DEF DloIds
  <2> QED
    BY <1>1, <1>3, <2>1, <2>3 DEF Delivery!SetAside, Delivery!Leave
<1>4. CASE UNCHANGED <<disk, dlo>>
  BY <1>1, <1>4 DEF Mapped
<1>5. CASE i \in disk /\ MoveToDlo(j)
  BY <1>3, <1>5 DEF Delivery!Next
<1> QED
  BY <1>2, <1>4, <1>5

LEMMA LoseDelivers ==
  ASSUME Typed, NEW i \in disk, LoseFile(i)
  PROVE  Delivery!Next
<1>1. Delivery!Lose(i)
  BY DEF LoseFile, Delivery!Lose, Delivery!Leave, DloIds
<1> QED
  BY <1>1 DEF Delivery!Next

LEMMA NextDelivers ==
  ASSUME Typed, RanFirst, MarksInMemory, [Next]_vars
  PROVE  [Delivery!Next]_Delivery!vars
<1>1. ASSUME NEW s \in Submitters, Arrive(s) \/ Submission(s)
      PROVE  Delivery!Next \/ UNCHANGED Mapped
  <2>1. Store(s) \/ UNCHANGED Mapped
    BY <1>1 DEF Submission, Arrive, Acquire, AcquireInterrupted, StoreFails, Put,
                PutInterrupted, Count, Mapped
  <2> QED
    BY <2>1, StoreDelivers
<1>2. ASSUME NEW j \in running, Work(j)
      PROVE  Delivery!Next \/ UNCHANGED Mapped
  <2>1. CASE Missing(j) \/ FailTransiently(j) \/ AckFails(j) \/ FailForGood(j)
    BY <2>1 DEF Missing, FailTransiently, AckFails, FailForGood, Retry, Mapped
  <2> QED
    BY <1>2, <2>1, ExecuteDelivers, AckDelivers, DropDelivers, DiscardDelivers
       DEF Work
<1>3. CASE \/ Loading \/ Shoveling \/ PauseOrResume
           \/ (\E r \in delayed : Revive(r)) \/ CountRevival
           \/ Crash \/ Stop \/ Reload \/ UNCHANGED vars
  <2>1. UNCHANGED Mapped
    BY <1>3 DEF Loading, Load, LoadSkips, LoadCounts, Shoveling, Take, PassPause,
       Grant, Dispatch, Rejected, PauseOrResume, Revive, CountRevival, Crash, Stop,
       Reload, Restart, Mapped, vars
  <2> QED
    BY <2>1, StutterDelivers
<1> QED
  BY <1>1, <1>2, <1>3, LoseDelivers, StutterDelivers DEF Next

\* The command path implements its promise to clients (process-message and all
\* that feeds it), provided a client never repeats a timestamp for a key.
THEOREM PipelineDelivers ==
  ASSUME ~AllowTies
  PROVE  Spec => Delivers
<1>1. Init => Delivery!Init
  <2>1. Init => DloIds = {} /\ {i \in Ids : executed[i] > 0} = {}
    BY DEF Init, DloIds
  <2> QED
    BY <2>1 DEF Init, Delivery!Init
<1>2. Typed /\ RanFirst /\ (~AllowTies => DistinctTimes /\ Marks) /\ [Next]_vars
      => [Delivery!Next]_Delivery!vars
  BY NextDelivers DEF Marks
<1> QED
  BY <1>1, <1>2, AlwaysAccounted, AlwaysMarked, PTL DEF Spec, Delivers, Delivery!Spec
=============================================================================
