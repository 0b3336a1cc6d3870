----------------------------- MODULE StorageProofs -----------------------------
(***************************************************************************)
(* Proofs about Storage, for any nodes, workers, commands and requests.    *)
(***************************************************************************)
EXTENDS Storage, TLAPS

USE StorageAssumption, ArrivingAssumption

(***************************************************************************)
(* What the types say of the values.                                       *)
(***************************************************************************)
LEMMA CommandFacts ==
  ASSUME NEW c \in Command
  PROVE  /\ c.kind \in Kinds /\ c.node \in Nodes /\ c.time \in 1..MaxTime
         /\ c.env \in Envs \cup {NoEnv} /\ c.paths \in SUBSET Paths
         /\ c.plan \in BOOLEAN
         /\ c.kind # "facts" => c.paths = {}
BY DEF Command

LEMMA DatabaseFacts ==
  ASSUME NEW d \in Database
  PROVE  /\ d.status \in [Nodes -> Status]
         /\ d.catalogs \in [Nodes -> Document] /\ d.factsets \in [Nodes -> Document]
         /\ d.reports \in SUBSET Report /\ d.envs \in SUBSET Envs
         /\ d.paths \in SUBSET Paths
BY DEF Database

LEMMA StatusFacts ==
  ASSUME NEW s \in Status
  PROVE  /\ s = [known |-> s.known, deactivated |-> s.deactivated, expired |-> s.expired]
         /\ s.known \in BOOLEAN /\ s.deactivated \in Times /\ s.expired \in Times
BY DEF Status

LEMMA Constants == /\ Unknown \in Status /\ Active \in Status /\ Absent \in Document
                   /\ Empty \in Database /\ Resting \in Cleaner
BY DEF Unknown, Active, Absent, Empty, Resting, Status, Document, Database, Cleaner, Times

LEMMA TxFacts ==
  ASSUME NEW t \in Tx
  PROVE  /\ t.at = "idle" <=> t = NoTx
         /\ t.at = "repeatable" => t.cmd \in Command /\ t.seen \in Database
         /\ t.at = "deactivating" =>
              t.cmd \in Command /\ t.upserts \in BOOLEAN /\ t.stale \in BOOLEAN
         /\ t.at \in {"activating", "checking", "looking", "placing", "storing"} =>
              t.cmd \in Command /\ t.upserts \in BOOLEAN /\ t.latest \in Times
              /\ t.env \in {"none", "found", "new"}
         /\ t.at \in {"idle", "repeatable", "deactivating", "activating", "checking",
                      "looking", "placing", "storing"}
BY DEF Tx, NoTx

LEMMA ReviveTypes ==
  ASSUME NEW s \in Status, NEW t \in 1..MaxTime
  PROVE  /\ Revived(s, t) \in Status /\ Deactivated(s, t) \in Status
         /\ MayRevive(s, t) \in BOOLEAN
BY StatusFacts, Constants DEF Revived, Deactivated, Status, MayRevive, Times, Inactive

LEMMA CleanerTypes ==
  ASSUME NEW k \in Cleaner, NEW o, NEW q \in BOOLEAN
  PROVE  /\ [k EXCEPT !.todo = k.todo \ {o}, !.chosen = FALSE, !.doomed = {}] \in Cleaner
         /\ [k EXCEPT !.quiet = q] \in Cleaner
         /\ [k EXCEPT !.todo = k.todo \ {o}, !.chosen = FALSE, !.doomed = {},
                      !.quiet = q] \in Cleaner
BY DEF Cleaner

LEMMA ReportTxTypes ==
  ASSUME NEW t \in Tx, t.at \in {"activating", "checking", "looking", "placing", "storing"},
         NEW l \in Times
  PROVE  /\ [t EXCEPT !.at = "checking", !.upserts = TRUE] \in Tx
         /\ [t EXCEPT !.at = "looking"] \in Tx
         /\ \A a \in {"placing", "storing"} : [t EXCEPT !.at = a, !.latest = l] \in Tx
         /\ \A e \in {"none", "found", "new"} :
              /\ [t EXCEPT !.at = "storing", !.env = e] \in Tx
              /\ [t EXCEPT !.env = e] \in Tx
<1> DEFINE R == [at: {"activating", "checking", "looking", "placing", "storing"},
                 cmd: Command, upserts: BOOLEAN, latest: Times,
                 env: {"none", "found", "new"}]
<1>1. t \in R
  BY DEF Tx, NoTx
<1>2. /\ [t EXCEPT !.at = "checking", !.upserts = TRUE] \in R
      /\ [t EXCEPT !.at = "looking"] \in R
      /\ \A a \in {"placing", "storing"} : [t EXCEPT !.at = a, !.latest = l] \in R
      /\ \A e \in {"none", "found", "new"} :
           /\ [t EXCEPT !.at = "storing", !.env = e] \in R
           /\ [t EXCEPT !.env = e] \in R
  BY <1>1
<1> QED BY <1>2 DEF Tx

\* A report whose environment is collected.
StrippedOf(r) == [r EXCEPT !.env = IF r.env \in cleaner.doomed THEN NoEnv ELSE r.env]

LEMMA CollectEnvsIs ==
  ASSUME TypeOK, CollectEnvs
  PROVE  db' = [db EXCEPT
           !.envs     = db.envs \ cleaner.doomed,
           !.catalogs = [n \in Nodes |->
              IF db.catalogs[n].env \in cleaner.doomed THEN Absent ELSE db.catalogs[n]],
           !.reports  = {StrippedOf(r) : r \in db.reports}]
<1>1. db \in Database
  BY DEF TypeOK
<1>2. db' = [db EXCEPT
           !.envs     = db.envs \ cleaner.doomed,
           !.catalogs = [n \in Nodes |->
              IF db.catalogs[n].env \in cleaner.doomed THEN Absent ELSE db.catalogs[n]],
           !.reports  = {[r EXCEPT !.env = IF @ \in cleaner.doomed THEN NoEnv ELSE @]
                         : r \in db.reports}]
  BY <1>1 DEF CollectEnvs, Database
<1> QED BY <1>2 DEF StrippedOf

LEMMA Typing == TypeOK /\ Next => TypeOK'
<1> SUFFICES ASSUME TypeOK, Next PROVE TypeOK'
  OBVIOUS
<1> USE DEF TypeOK
<1>d. db \in Database
  OBVIOUS
<1>f. /\ db.status \in [Nodes -> Status]
      /\ db.catalogs \in [Nodes -> Document] /\ db.factsets \in [Nodes -> Document]
      /\ db.reports \in SUBSET Report /\ db.envs \in SUBSET Envs
      /\ db.paths \in SUBSET Paths
  BY <1>d, DatabaseFacts
<1>q. cleaner \in Cleaner => [cleaner EXCEPT !.quiet = FALSE] \in Cleaner
  BY DEF Cleaner
<1>e. \A w \in Workers : Ends(w) => tx' \in [Workers -> Tx]
  BY DEF Ends, Tx
<1>p. ASSUME NEW gone, gone \subseteq Nodes, Erase(gone)
      PROVE  /\ db' \in Database /\ purged' \subseteq Nodes
  <2>1. /\ Without(db.status, Unknown, gone) \in [Nodes -> Status]
        /\ Without(db.catalogs, Absent, gone) \in [Nodes -> Document]
        /\ Without(db.factsets, Absent, gone) \in [Nodes -> Document]
    BY <1>f, Constants DEF Without
  <2>2. db' = [db EXCEPT !.status   = Without(db.status, Unknown, gone),
                      !.catalogs = Without(db.catalogs, Absent, gone),
                      !.factsets = Without(db.factsets, Absent, gone),
                      !.reports  = {r \in db.reports : r.node \notin gone}]
    BY <1>p DEF Erase, Database
  <2>3. db' \in Database
    BY <2>1, <2>2 DEF Database
  <2> QED BY <1>p, <2>3 DEF Erase
<1>1. CASE Tick
  BY <1>1, <1>q DEF Tick, Disturbs
<1>2. CASE Cleans
  <2>o. \A o \in Options : Done(o) => cleaner' \in Cleaner
    BY CleanerTypes DEF Done
  <2>r. \A o : Turn(o) => o \in Options
    BY DEF Turn, Cleaner
  <2>c. \A o, S : Choose(o, S) /\ S \subseteq Nodes \cup Envs \cup Paths => TypeOK'
    BY DEF Choose, Cleaner
  <2>1. CASE StartCleaning
    <3>1. PICK r \in Requests :
            cleaner' = [Resting EXCEPT !.busy = TRUE, !.asked = r, !.todo = r, !.quiet = TRUE]
      BY <2>1 DEF StartCleaning
    <3>2. r \subseteq Options
      OBVIOUS
    <3>3. cleaner' \in Cleaner
      BY <3>1, <3>2 DEF Resting, Cleaner
    <3>4. cleans' \in 0..MaxCleans
      BY <2>1 DEF StartCleaning
    <3> QED BY <2>1, <3>3, <3>4 DEF StartCleaning
  <2>2. CASE EndCleaning
    BY <2>2, Constants DEF EndCleaning
  <2>3. CASE GiveUpStep
    <3>1. PICK o \in Options :
            cleaner' = [cleaner EXCEPT !.todo = cleaner.todo \ {o},
                                       !.chosen = FALSE, !.doomed = {}, !.quiet = FALSE]
      BY <2>3 DEF GiveUpStep, Cleaner
    <3>2. cleaner' \in Cleaner
      BY <3>1 DEF Cleaner
    <3> QED BY <2>3, <3>2 DEF GiveUpStep
  <2>4. CASE Expire
    <3> DEFINE S == [n \in Nodes |-> IF Idle(n) THEN [db.status[n] EXCEPT !.expired = clock]
                                          ELSE db.status[n]]
    <3>1. S \in [Nodes -> Status]
      BY <1>f DEF Status, Times
    <3>2. db' = [db EXCEPT !.status = S]
      BY <2>4 DEF Expire
    <3> HIDE DEF S
    <3>3. db' \in Database
      BY <3>1, <3>2 DEF Database
    <3> QED BY <2>4, <3>3, <2>o DEF Expire, Options
  <2>5. CASE ChoosePurge
    <3>1. PICK batch \in SUBSET AllOverdue :
            cleaner' = [cleaner EXCEPT !.chosen = TRUE, !.doomed = batch,
                                       !.cut = batch # AllOverdue]
      BY <2>5 DEF ChoosePurge
    <3>2. batch \subseteq Nodes
      BY DEF AllOverdue
    <3> DEFINE q == batch # AllOverdue
    <3>3. q \in BOOLEAN
      OBVIOUS
    <3> HIDE DEF q
    <3>4. cleaner' = [cleaner EXCEPT !.chosen = TRUE, !.doomed = batch, !.cut = q]
      BY <3>1 DEF q
    <3>5. cleaner' \in Cleaner
      BY <3>2, <3>3, <3>4 DEF Cleaner
    <3> QED BY <2>5, <3>5 DEF ChoosePurge
  <2>6. CASE Purge
    <3>1. db' \in Database /\ purged' \subseteq Nodes
      BY <2>6, <1>p DEF Purge
    <3>2. UNCHANGED <<tx, clock, begun, cleans>>
      BY <2>6 DEF Purge, Erase
    <3>3. cleaner' \in Cleaner
      BY <2>6, <2>o DEF Purge, Options
    <3> QED BY <3>1, <3>2, <3>3
  <2>7. CASE SweepReports
    <3>1. db' \in Database
      BY <2>7 DEF SweepReports, Database
    <3> QED BY <2>7, <3>1, <2>o DEF SweepReports, Options
  <2>8. CASE ChooseEnvs
    BY <2>8, <2>c, <1>f DEF ChooseEnvs
  <2>9. CASE CollectEnvs
    <3> DEFINE C == [n \in Nodes |->
                 IF db.catalogs[n].env \in cleaner.doomed THEN Absent ELSE db.catalogs[n]]
               R == {StrippedOf(r) : r \in db.reports}
    <3>1. C \in [Nodes -> Document] /\ R \subseteq Report
      BY <1>f, Constants DEF StrippedOf, Report
    <3>2. db' = [db EXCEPT !.envs = db.envs \ cleaner.doomed, !.catalogs = C, !.reports = R]
      BY <2>9, CollectEnvsIs
    <3> HIDE DEF C, R
    <3>3. db' \in Database
      BY <3>1, <3>2 DEF Database
    <3>4. ASSUME NEW w \in Workers PROVE tx'[w] \in Tx
      <4>1. tx[w] \in Tx /\ 0 \in Times
        BY DEF Times
      <4>2. tx'[w] = tx[w] \/ (tx[w].at = "storing" /\ tx'[w] = [tx[w] EXCEPT !.env = "none"])
        BY <2>9 DEF CollectEnvs
      <4> QED BY <4>1, <4>2, ReportTxTypes
    <3>5. tx' \in [Workers -> Tx]
      <4>1. tx' = [w \in Workers |-> tx'[w]]
        BY <2>9 DEF CollectEnvs
      <4> QED BY <3>4, <4>1
    <3> QED BY <2>9, <3>3, <3>5, <2>o DEF CollectEnvs, Options
  <2>10. CASE ChoosePaths
    BY <2>10, <2>c, <1>f DEF ChoosePaths
  <2>11. CASE CollectPaths
    <3>1. db' \in Database
      BY <2>11 DEF CollectPaths, Database
    <3> QED BY <2>11, <3>1, <2>o DEF CollectPaths, Options
  <2> QED BY <1>2, <2>1, <2>2, <2>3, <2>4, <2>5, <2>6, <2>7, <2>8, <2>9, <2>10, <2>11
          DEF Cleans
<1>3. CASE \E w \in Workers : Stores(w)
  <2> SUFFICES ASSUME NEW w \in Workers, Stores(w) PROVE TypeOK'
    BY <1>3
  <2>t. tx[w] \in Tx
    OBVIOUS
  <2>b. \A t \in Tx : Begins(w, t) => /\ tx' \in [Workers -> Tx]
                                      /\ begun' \in 0..MaxBegun
    BY DEF Begins
  <2>1. CASE BeginReplace(w)
    <3> PICK c \in Arriving : Begins(w, [at |-> "repeatable", cmd |-> c, seen |-> db])
      BY <2>1 DEF BeginReplace
    <3>1. [at |-> "repeatable", cmd |-> c, seen |-> db] \in Tx
      BY DEF Tx
    <3> QED BY <2>1, <2>b, <3>1 DEF BeginReplace
  <2>2. CASE Commit(w)
    <3> DEFINE c == tx[w].cmd  seen == tx[w].seen
    <3>1. c \in Command /\ seen \in Database
      BY <2>2, <2>t, TxFacts DEF Commit
    <3> HIDE DEF c, seen
    <3>2. Replaced(c, seen) \in Database
      <4> DEFINE n == c.node
                 fresh == Stored(seen, c).time <= c.time
                 doc == [time |-> c.time, env |-> c.env, paths |-> c.paths]
                 s == IF MayRevive(seen.status[n], c.time)
                        THEN Revived(seen.status[n], c.time) ELSE db.status[n]
                 k == IF fresh /\ c.kind = "catalog" THEN doc ELSE db.catalogs[n]
                 f == IF fresh /\ c.kind = "facts" THEN doc ELSE db.factsets[n]
                 e == IF fresh THEN db.envs \cup ({c.env} \ {NoEnv}) ELSE db.envs
                 p == IF fresh THEN db.paths \cup Realized(seen, c) ELSE db.paths
      <4>1. c.node \in Nodes /\ c.time \in 1..MaxTime /\ c.paths \subseteq Paths
        BY <3>1, CommandFacts
      <4>2. doc \in Document
        BY <3>1, CommandFacts DEF Document, Times
      <4>3. seen.status[n] \in Status
        BY <4>1, <3>1, DatabaseFacts
      <4>4. s \in Status
        BY <4>1, <4>3, <1>f, ReviveTypes
      <4>5. k \in Document /\ f \in Document
        BY <4>1, <4>2, <1>f
      <4>6. e \subseteq Envs
        BY <1>f, <3>1, CommandFacts
      <4>7. p \subseteq Paths
        BY <1>f, <4>1 DEF Realized
      <4>8. Replaced(c, seen) = [db EXCEPT !.status[n] = s, !.catalogs[n] = k,
                                           !.factsets[n] = f, !.envs = e, !.paths = p]
        BY <1>d DEF Replaced, Database
      <4> HIDE DEF n, s, k, f, e, p
      <4>9. n \in Nodes
        BY <4>1 DEF n
      <4> DEFINE S == [db.status EXCEPT ![n] = s]
                 K == [db.catalogs EXCEPT ![n] = k]
                 F == [db.factsets EXCEPT ![n] = f]
      <4>10. S \in [Nodes -> Status] /\ K \in [Nodes -> Document] /\ F \in [Nodes -> Document]
        BY <4>4, <4>5, <4>9, <1>f
      <4>11. Replaced(c, seen) = [db EXCEPT !.status = S, !.catalogs = K, !.factsets = F,
                                            !.envs = e, !.paths = p]
        BY <4>8
      <4> HIDE DEF S, K, F
      <4> QED BY <4>6, <4>7, <4>10, <4>11, <1>d DEF Database
    <3>3. db' \in Database
      BY <2>2, <3>2 DEF Commit, c, seen
    <3> QED BY <2>2, <3>3, <1>q, <1>e DEF Commit, Disturbs
  <2>3. CASE BeginDeactivate(w)
    <3> PICK c \in Arriving :
          Begins(w, [at |-> "deactivating", cmd |-> c,
                     upserts |-> ~db.status[c.node].known,
                     stale |-> \E t \in Newest(db, c.node) : t > c.time])
      BY <2>3 DEF BeginDeactivate
    <3> DEFINE u == ~db.status[c.node].known
               o == \E t \in Newest(db, c.node) : t > c.time
    <3>1. u \in BOOLEAN /\ o \in BOOLEAN
      OBVIOUS
    <3> HIDE DEF u, o
    <3>2. [at |-> "deactivating", cmd |-> c, upserts |-> u, stale |-> o] \in Tx
      BY <3>1 DEF Tx
    <3> QED BY <2>3, <2>b, <3>2 DEF BeginDeactivate, u, o
  <2>4. CASE Deactivate(w)
    <3>1. tx[w].cmd \in Command
      BY <2>4, <2>t, TxFacts DEF Deactivate
    <3> DEFINE n == tx[w].cmd.node
               s == IF tx[w].upserts THEN Active ELSE db.status[n]
               x == IF tx[w].stale THEN s ELSE Deactivated(s, tx[w].cmd.time)
    <3>2. n \in Nodes /\ tx[w].cmd.time \in 1..MaxTime
      BY <3>1, CommandFacts
    <3>3. s \in Status
      BY <3>2, <1>f, Constants
    <3>4. x \in Status
      BY <3>2, <3>3, ReviveTypes
    <3>5. db' = [db EXCEPT !.status[n] = x]
      BY <2>4 DEF Deactivate
    <3> HIDE DEF n, x
    <3>6. db' \in Database
      BY <3>2, <3>4, <3>5, <1>f, <1>d DEF Database
    <3> QED BY <2>4, <3>6, <1>q, <1>e DEF Deactivate, Disturbs
  <2>5. CASE BeginReport(w)
    <3> PICK c \in Arriving :
          Begins(w, [at |-> IF MayRevive(db.status[c.node], c.time)
                            THEN "activating" ELSE "checking",
                     cmd |-> c, upserts |-> FALSE, latest |-> 0, env |-> "none"])
      BY <2>5 DEF BeginReport
    <3> DEFINE a == IF MayRevive(db.status[c.node], c.time)
                            THEN "activating" ELSE "checking"
    <3>1. a \in {"activating", "checking"}
      OBVIOUS
    <3> HIDE DEF a
    <3>2. [at |-> a, cmd |-> c, upserts |-> FALSE, latest |-> 0, env |-> "none"] \in Tx
      BY <3>1 DEF Tx, Times
    <3> QED BY <2>5, <2>b, <3>2 DEF BeginReport, a
  <2>6. CASE Activate(w)
    <3>0. 0 \in Times /\ tx[w].at = "activating"
      BY <2>6 DEF Activate, Times
    <3>1. [tx[w] EXCEPT !.at = "checking", !.upserts = TRUE] \in Tx
      BY <3>0, <2>t, ReportTxTypes
    <3> QED BY <2>6, <3>1 DEF Activate
  <2>7. CASE SkipReport(w)
    <3>1. tx[w].cmd.node \in Nodes /\ tx[w].cmd.time \in 1..MaxTime
      BY <2>7, <2>t, TxFacts, CommandFacts DEF SkipReport
    <3>2. StatusAfter(w) \in Status
      BY <3>1, <1>f, ReviveTypes DEF StatusAfter
    <3>3. db' \in Database
      BY <2>7, <3>1, <3>2, <1>f, <1>d DEF SkipReport, Database
    <3> QED BY <2>7, <3>3, <1>q, <1>e DEF SkipReport, Disturbs
  <2>8. CASE Check(w)
    <3>0. 0 \in Times /\ tx[w].at = "checking"
      BY <2>8 DEF Check, Times
    <3>1. [tx[w] EXCEPT !.at = "looking"] \in Tx
      BY <3>0, <2>t, ReportTxTypes
    <3> QED BY <2>8, <3>1 DEF Check
  <2>9. CASE Look(w)
    <3>1. PICK t : /\ t \in IF LatestTimes(db, tx[w].cmd.node) = {} THEN {0}
                               ELSE LatestTimes(db, tx[w].cmd.node)
                   /\ tx' = [tx EXCEPT ![w].at = IF tx[w].cmd.env = NoEnv THEN "storing"
                                                ELSE "placing",
                                       ![w].latest = t]
      BY <2>9 DEF Look
    <3>2. t \in Times
      BY <3>1, <1>f DEF LatestTimes, Latest, Report, Times
    <3>3. \A a \in {"placing", "storing"} : [tx[w] EXCEPT !.at = a, !.latest = t] \in Tx
      BY <2>9, <2>t, <3>2, ReportTxTypes DEF Look
    <3> QED BY <2>9, <3>1, <3>3 DEF Look
  <2>12. CASE Place(w)
    <3>1. PICK e \in {"none", "found", "new"} :
            tx' = [tx EXCEPT ![w].at = "storing", ![w].env = e]
      BY <2>12 DEF Place
    <3>2. [tx[w] EXCEPT !.at = "storing", !.env = e] \in Tx
      <4>1. 0 \in Times /\ tx[w].at = "placing"
        BY <2>12 DEF Times, Place
      <4> QED BY <4>1, <2>t, ReportTxTypes
    <3> QED BY <2>12, <3>1, <3>2 DEF Place
  <2>10. CASE StoreReport(w)
    <3>1. tx[w].cmd.node \in Nodes /\ tx[w].cmd.time \in 1..MaxTime
          /\ tx[w].cmd.plan \in BOOLEAN /\ tx[w].latest \in Times
          /\ tx[w].cmd.env \in Envs \cup {NoEnv}
      BY <2>10, <2>t, TxFacts, CommandFacts DEF StoreReport
    <3>2. StatusAfter(w) \in Status
      BY <3>1, <1>f, ReviveTypes DEF StatusAfter
    <3>3. Row(w) \in Report
      <4>1. IsLatest(w) \in BOOLEAN
        BY DEF IsLatest
      <4> QED BY <4>1, <3>1 DEF Row, Report
    <3>4. Historic(w) \subseteq Report
      BY <1>f DEF Historic, Marked, Latest, Report
    <3>6. {Row(w).env} \ {NoEnv} \subseteq Envs
      BY <3>3 DEF Report
    <3>5. db' \in Database
      BY <2>10, <3>1, <3>2, <3>3, <3>4, <3>6, <1>f, <1>d DEF StoreReport, Database
    <3> QED BY <2>10, <3>5, <1>q, <1>e DEF StoreReport, Disturbs
  <2>11. CASE Fail(w)
    BY <2>11, <1>e DEF Fail
  <2> QED BY <2>1, <2>2, <2>3, <2>4, <2>5, <2>6, <2>7, <2>8, <2>9, <2>10, <2>11, <2>12
          DEF Stores
<1>4. ASSUME NEW n \in Nodes, DeleteNode(n)
      PROVE  TypeOK'
  <2>1. db' \in Database /\ purged' \subseteq Nodes
    <3>1. {n} \subseteq Nodes /\ Erase({n})
      BY <1>4 DEF DeleteNode
    <3> HIDE DEF Erase
    <3> QED BY <3>1, <1>p
  <2>2. UNCHANGED <<tx, clock, begun>>
    BY <1>4 DEF DeleteNode, Erase
  <2>3. cleaner' \in Cleaner /\ cleans' \in 0..MaxCleans
    BY <1>4, <1>q DEF DeleteNode, Disturbs
  <2> QED BY <2>1, <2>2, <2>3
<1> QED BY <1>1, <1>2, <1>3, <1>4 DEF Next

--------------------------------------------------------------------------------
(***************************************************************************)
(* The inductive invariant: what makes the properties of reports and of    *)
(* statuses hold after every step.                                         *)
(***************************************************************************)
OneLatest == \A r, s \in db.reports : r.latest /\ s.latest /\ r.node = s.node => r = s

LatestIsAgent == \A r \in db.reports : r.latest => ~r.plan

\* A latest report that a transaction found is still there, or a newer one is.
FoundStands == \A w \in Workers :
  tx[w].at \in {"placing", "storing"} /\ tx[w].latest # 0
    /\ tx[w].cmd.node \notin purged =>
    \E r \in Latest(db, tx[w].cmd.node) : r.time >= tx[w].latest

UnknownIsBlank == \A n \in Nodes : ~db.status[n].known => db.status[n] = Unknown

Holds(w, n) == tx[w].at \notin {"idle", "repeatable"} /\ tx[w].upserts /\ tx[w].cmd.node = n

OneHolder == \A v, w \in Workers, n \in Nodes : Holds(v, n) /\ Holds(w, n) => v = w

\* Nobody adds a node that a deactivation is about to add.
StillToAdd == \A w \in Workers :
  tx[w].at = "deactivating" /\ tx[w].upserts => ~db.status[tx[w].cmd.node].known

\* The collection of environments is about environments.
Aimed == cleaner.chosen /\ Turn("gc_catalogs") => cleaner.doomed \subseteq Envs

IInv == /\ TypeOK
        /\ OneLatest /\ LatestIsAgent /\ FoundStands /\ LatestIsNewest
        /\ UnknownIsBlank /\ OneHolder /\ StillToAdd
        /\ NoDataWithoutNode /\ Aimed

(***************************************************************************)
(* What an action does to the parts of the database.                       *)
(***************************************************************************)
LEMMA StoreEffect ==
  ASSUME TypeOK, NEW w \in Workers, StoreReport(w)
  PROVE  /\ db'.reports = (db.reports \ Marked(w)) \cup Historic(w) \cup {Row(w)}
         /\ db'.status = [db.status EXCEPT ![tx[w].cmd.node] = StatusAfter(w)]
         /\ db'.catalogs = db.catalogs /\ db'.factsets = db.factsets
         /\ tx' = [tx EXCEPT ![w] = NoTx]
         /\ tx[w].cmd \in Command /\ tx[w].latest \in Times
         /\ tx[w].cmd.node \in Nodes
<1>1. tx[w] \in Tx /\ tx[w].at = "storing" /\ db \in Database
  BY DEF TypeOK, StoreReport
<1>2. tx[w].cmd \in Command /\ tx[w].latest \in Times /\ tx[w].cmd.node \in Nodes
  BY <1>1, TxFacts, CommandFacts
<1> QED BY <1>1, <1>2 DEF StoreReport, Ends, Database

Erases(gone) == gone \subseteq Nodes /\ Erase(gone)

LEMMA EraseEffect ==
  ASSUME TypeOK, NEW gone, Erases(gone)
  PROVE  /\ db'.reports = {r \in db.reports : r.node \notin gone}
         /\ db'.status = Without(db.status, Unknown, gone)
         /\ db'.catalogs = Without(db.catalogs, Absent, gone)
         /\ db'.factsets = Without(db.factsets, Absent, gone)
         /\ purged' = purged \cup gone
         /\ tx' = tx
BY DEF TypeOK, Erases, Erase, Database

LEMMA ErasedNode ==
  ASSUME TypeOK, NEW gone, Erases(gone), NEW n \in Nodes
  PROVE  /\ n \in gone => /\ db'.status[n] = Unknown
                          /\ db'.catalogs[n] = Absent /\ db'.factsets[n] = Absent
                          /\ Latest(db', n) = {}
         /\ n \notin gone => /\ db'.status[n] = db.status[n]
                             /\ db'.catalogs[n] = db.catalogs[n]
                             /\ db'.factsets[n] = db.factsets[n]
                             /\ Latest(db', n) = Latest(db, n)
<1>1. /\ db'.status = Without(db.status, Unknown, gone)
      /\ db'.catalogs = Without(db.catalogs, Absent, gone)
      /\ db'.factsets = Without(db.factsets, Absent, gone)
      /\ db'.reports = {r \in db.reports : r.node \notin gone}
  BY EraseEffect
<1>2. n \in gone => Latest(db', n) = {}
  BY <1>1 DEF Latest
<1>3. n \notin gone => Latest(db', n) = Latest(db, n)
  BY <1>1 DEF Latest
<1> QED BY <1>1, <1>2, <1>3 DEF Without

LEMMA ErasingActions ==
  Purge \/ (\E n \in Nodes : DeleteNode(n)) => \E gone : Erases(gone)
<1>1. CASE Purge
  BY <1>1 DEF Purge, Erases
<1>2. ASSUME NEW n \in Nodes, DeleteNode(n)
      PROVE  \E gone : Erases(gone)
  BY <1>2 DEF DeleteNode, Erases
<1> QED BY <1>1, <1>2

LEMMA SweepEffect ==
  ASSUME TypeOK, SweepReports
  PROVE  /\ db'.reports \subseteq db.reports
         /\ \A r \in db.reports : r.latest => r \in db'.reports
         /\ db'.status = db.status
         /\ db'.catalogs = db.catalogs /\ db'.factsets = db.factsets
         /\ tx' = tx /\ purged' = purged
BY DEF TypeOK, SweepReports, Database

\* The collection of environments changes no report but in its environment,
\* and of the transactions only what those that store a report hold of theirs.
LEMMA CollectEffect ==
  ASSUME TypeOK, CollectEnvs
  PROVE  /\ db'.status = db.status /\ db'.factsets = db.factsets /\ db'.paths = db.paths
         /\ db'.envs = db.envs \ cleaner.doomed
         /\ \A n \in Nodes : db'.catalogs[n] =
              IF db.catalogs[n].env \in cleaner.doomed THEN Absent ELSE db.catalogs[n]
         /\ db'.reports = {StrippedOf(r) : r \in db.reports}
         /\ purged' = purged /\ clock' = clock
<1>1. db \in Database
  BY DEF TypeOK
<1>2. db' = [db EXCEPT
           !.envs     = db.envs \ cleaner.doomed,
           !.catalogs = [n \in Nodes |->
              IF db.catalogs[n].env \in cleaner.doomed THEN Absent ELSE db.catalogs[n]],
           !.reports  = {StrippedOf(r) : r \in db.reports}]
  BY CollectEnvsIs
<1>3. purged' = purged /\ clock' = clock
  BY DEF CollectEnvs
<1> QED BY <1>1, <1>2, <1>3 DEF Database

Alike(r, s) == /\ r.node = s.node /\ r.time = s.time
               /\ r.plan = s.plan /\ r.latest = s.latest

LEMMA StrippedReports ==
  ASSUME TypeOK, CollectEnvs
  PROVE  /\ \A r \in db.reports : StrippedOf(r) \in db'.reports /\ Alike(r, StrippedOf(r))
         /\ \A s \in db'.reports : \E r \in db.reports : s = StrippedOf(r)
<1>1. db'.reports = {StrippedOf(r) : r \in db.reports}
  BY CollectEffect
<1>2. \A r \in db.reports : Alike(r, StrippedOf(r))
  <2>1. db.reports \subseteq Report
    BY DatabaseFacts DEF TypeOK
  <2> QED BY <2>1 DEF StrippedOf, Alike, Report
<1> QED BY <1>1, <1>2

SameButEnv(w) ==
  \/ tx'[w] = tx[w]
  \/ /\ tx[w].at = "storing" /\ tx'[w].at = "storing"
     /\ tx'[w].cmd = tx[w].cmd /\ tx'[w].upserts = tx[w].upserts
     /\ tx'[w].latest = tx[w].latest

LEMMA CollectedTx ==
  ASSUME TypeOK, CollectEnvs, NEW w \in Workers
  PROVE  SameButEnv(w)
<1>1. tx[w] \in Tx
  BY DEF TypeOK
<1>2. tx'[w] = tx[w] \/ (tx[w].at = "storing" /\ tx'[w] = [tx[w] EXCEPT !.env = "none"])
  BY DEF CollectEnvs
<1> QED BY <1>1, <1>2 DEF SameButEnv, Tx, NoTx

LEMMA ReportsKept ==
  ASSUME TypeOK, Next, \A gone : ~Erases(gone), ~SweepReports, ~CollectEnvs,
         \A w \in Workers : ~StoreReport(w)
  PROVE  db'.reports = db.reports /\ purged' = purged
<1>1. CASE Tick
  BY <1>1 DEF Tick
<1>2. CASE Cleans
  BY <1>2, ErasingActions DEF Cleans, StartCleaning, EndCleaning, GiveUpStep, Expire,
     ChoosePurge, Choose, ChooseEnvs, ChoosePaths, CollectPaths, TypeOK, Database
<1>3. ASSUME NEW w \in Workers, Stores(w)
      PROVE  db'.reports = db.reports /\ purged' = purged
  <2>1. CASE Commit(w)
    BY <2>1 DEF Commit, Replaced, TypeOK, Database
  <2>2. CASE Deactivate(w)
    BY <2>2 DEF Deactivate, TypeOK, Database
  <2>3. CASE SkipReport(w)
    BY <2>3 DEF SkipReport, TypeOK, Database
  <2>4. CASE \/ BeginReplace(w) \/ BeginDeactivate(w) \/ BeginReport(w) \/ Activate(w)
             \/ Check(w) \/ Look(w) \/ Place(w) \/ Fail(w)
    BY <2>4 DEF BeginReplace, BeginDeactivate, BeginReport, Activate, Check, Look, Place, Fail
  <2> QED BY <1>3, <2>1, <2>2, <2>3, <2>4 DEF Stores
<1> QED BY <1>1, <1>2, <1>3, ErasingActions DEF Next

\* A transaction comes to place and store a report by looking only.
LEMMA ComesByLooking ==
  ASSUME TypeOK, Next, NEW v \in Workers, tx'[v].at \in {"placing", "storing"}
  PROVE  \/ Look(v)
         \/ /\ tx[v].at \in {"placing", "storing"}
            /\ tx'[v].cmd = tx[v].cmd /\ tx'[v].latest = tx[v].latest
<1> DEFINE Goal == \/ Look(v)
                   \/ /\ tx[v].at \in {"placing", "storing"}
                      /\ tx'[v].cmd = tx[v].cmd /\ tx'[v].latest = tx[v].latest
<1> USE DEF TypeOK
<1>0. tx'[v] = tx[v] => Goal
  OBVIOUS
<1>1. CASE Tick
  BY <1>0, <1>1 DEF Tick
<1>2. CASE Cleans
  <2>1. CASE CollectEnvs
    BY <1>0, <2>1, CollectedTx DEF SameButEnv
  <2>2. CASE ~CollectEnvs
    BY <1>0, <1>2, <2>2 DEF Cleans, StartCleaning, EndCleaning, GiveUpStep, Expire, ChoosePurge,
       Choose, ChooseEnvs, ChoosePaths, CollectPaths, Purge, Erase, SweepReports
  <2> QED BY <2>1, <2>2
<1>3. ASSUME NEW w \in Workers, Stores(w)
      PROVE  Goal
  <2>1. CASE w # v
    <3>1. tx'[v] = tx[v]
      BY <1>3, <2>1 DEF Stores, BeginReplace, Commit, BeginDeactivate, Deactivate, BeginReport,
         Activate, SkipReport, Check, Look, Place, StoreReport, Fail, Begins, Ends
    <3> QED BY <1>0, <3>1
  <2>2. CASE w = v
    <3>1. CASE Ends(w)
      BY <2>2, <3>1 DEF Ends, NoTx
    <3>2. CASE BeginReplace(w) \/ BeginDeactivate(w) \/ BeginReport(w)
      BY <2>2, <3>2 DEF BeginReplace, BeginDeactivate, BeginReport, Begins
    <3>3. CASE Activate(w) \/ Check(w)
      <4>1. tx[w] \in Tx /\ tx[w].at \in {"activating", "checking"}
        BY <3>3 DEF Activate, Check
      <4>2. tx'[w].at \notin {"placing", "storing"}
        BY <2>2, <3>3, <4>1 DEF Activate, Check, Tx, NoTx
      <4> QED BY <2>2, <4>2
    <3>4. CASE Place(w)
      <4>1. tx[w] \in Tx /\ tx[w].at = "placing"
        BY <3>4 DEF Place
      <4>2. tx'[w].cmd = tx[w].cmd /\ tx'[w].latest = tx[w].latest
        BY <3>4, <4>1 DEF Place, Tx, NoTx
      <4> QED BY <2>2, <4>1, <4>2
    <3>5. CASE Look(w)
      BY <2>2, <3>5
    <3> QED BY <1>3, <3>1, <3>2, <3>3, <3>4, <3>5 DEF Stores, Commit, Deactivate,
               SkipReport, StoreReport, Fail
  <2> QED BY <2>1, <2>2
<1>4. CASE \E n \in Nodes : DeleteNode(n)
  BY <1>0, <1>4 DEF DeleteNode, Erase
<1> QED BY <1>1, <1>2, <1>3, <1>4 DEF Next

(***************************************************************************)
(* Reports.                                                                *)
(***************************************************************************)
LEMMA StoringReports ==
  ASSUME IInv, NEW w \in Workers, StoreReport(w)
  PROVE  /\ \A r \in db'.reports : r.latest => r \in db.reports \/ r = Row(w)
         /\ IsLatest(w) => Latest(db', tx[w].cmd.node) = {Row(w)}
         /\ ~IsLatest(w) => \A n \in Nodes : Latest(db', n) = Latest(db, n)
         /\ \A n \in Nodes : n # tx[w].cmd.node =>
              {r \in db'.reports : r.node = n} = {r \in db.reports : r.node = n}
<1> DEFINE n == tx[w].cmd.node
<1>1. /\ db'.reports = (db.reports \ Marked(w)) \cup Historic(w) \cup {Row(w)}
      /\ tx[w].cmd \in Command /\ n \in Nodes
  BY StoreEffect DEF IInv
<1>2. \A r \in Marked(w) : r \in db.reports /\ r.node = n /\ r.latest
  BY DEF Marked, Latest
<1>3. \A r \in Historic(w) : r.node = n /\ r.latest = FALSE
  <2>1. db.reports \subseteq Report
    BY DatabaseFacts DEF IInv, TypeOK
  <2> QED BY <2>1, <1>2 DEF Historic, Report
<1>4. Row(w).node = n /\ Row(w).latest = IsLatest(w)
  BY DEF Row
<1>5. IsLatest(w) => Latest(db, n) = Marked(w)
  BY DEF StoreReport
<1>6. ~IsLatest(w) => Marked(w) = {} /\ Historic(w) = {}
  BY DEF Marked, Historic
<1>7. IsLatest(w) => Latest(db', n) = {Row(w)}
  BY <1>1, <1>3, <1>4, <1>5 DEF Latest
<1>8. ~IsLatest(w) => \A m \in Nodes : Latest(db', m) = Latest(db, m)
  BY <1>1, <1>4, <1>6 DEF Latest
<1>9. \A m \in Nodes : m # n =>
              {r \in db'.reports : r.node = m} = {r \in db.reports : r.node = m}
  BY <1>1, <1>2, <1>3, <1>4
<1> QED BY <1>1, <1>3, <1>7, <1>8, <1>9

LEMMA LatestStep == IInv /\ Next => OneLatest' /\ LatestIsAgent'
<1> SUFFICES ASSUME IInv, Next PROVE OneLatest' /\ LatestIsAgent'
  OBVIOUS
<1>t. TypeOK
  BY DEF IInv
<1>i. OneLatest /\ LatestIsAgent
  BY DEF IInv
<1>1. CASE (\E gone : Erases(gone)) \/ SweepReports
  <2>1. db'.reports \subseteq db.reports
    BY <1>1, <1>t, EraseEffect, SweepEffect
  <2> QED BY <2>1, <1>i DEF OneLatest, LatestIsAgent
<1>2. ASSUME NEW w \in Workers, StoreReport(w)
      PROVE  OneLatest' /\ LatestIsAgent'
  <2>1. /\ \A r \in db'.reports : r.latest => r \in db.reports \/ r = Row(w)
        /\ IsLatest(w) => Latest(db', tx[w].cmd.node) = {Row(w)}
        /\ ~IsLatest(w) => \A n \in Nodes : Latest(db', n) = Latest(db, n)
        /\ \A n \in Nodes : n # tx[w].cmd.node =>
              {r \in db'.reports : r.node = n} = {r \in db.reports : r.node = n}
    BY <1>2, StoringReports
  <2>2. Row(w).latest => ~Row(w).plan
    BY DEF Row, IsLatest
  <2>3. LatestIsAgent'
    BY <2>1, <2>2, <1>i DEF LatestIsAgent
  <2>4. db'.reports \subseteq Report
    BY <1>t, Typing, DatabaseFacts DEF TypeOK
  <2>5. ASSUME NEW r \in db'.reports, NEW s \in db'.reports, r.latest, s.latest, r.node = s.node
        PROVE  r = s
    <3>1. r.node \in Nodes
      BY <2>4 DEF Report
    <3>2. r \in Latest(db', r.node) /\ s \in Latest(db', r.node)
      BY <2>5 DEF Latest
    <3>3. CASE r.node = tx[w].cmd.node /\ IsLatest(w)
      BY <3>2, <3>3, <2>1
    <3>4. CASE ~(r.node = tx[w].cmd.node /\ IsLatest(w))
      <4>1. r \in db.reports /\ s \in db.reports
        BY <3>1, <3>2, <3>4, <2>1 DEF Latest
      <4> QED BY <4>1, <2>5, <1>i DEF OneLatest
    <3> QED BY <3>3, <3>4
  <2> QED BY <2>3, <2>5 DEF OneLatest
<1>3. CASE db'.reports = db.reports
  BY <1>3, <1>i DEF OneLatest, LatestIsAgent
<1>4. CASE CollectEnvs
  <2>1. ASSUME NEW r \in db'.reports
        PROVE  \E x \in db.reports : r = StrippedOf(x) /\ Alike(x, r)
    BY <1>4, <1>t, StrippedReports
  <2>2. LatestIsAgent'
    BY <2>1, <1>i DEF LatestIsAgent, Alike
  <2>3. OneLatest'
    BY <2>1, <1>i DEF OneLatest, Alike
  <2> QED BY <2>2, <2>3
<1> QED BY <1>1, <1>2, <1>3, <1>4, <1>t, ReportsKept

\* Unless its node is purged, a latest report gives way to a newer one only.
LEMMA LatestGrows ==
  ASSUME IInv, Next, NEW n \in Nodes \ purged', NEW r \in Latest(db, n)
  PROVE  \E s \in Latest(db', n) : r.time <= s.time
<1>t. TypeOK
  BY DEF IInv
<1>r. r \in Report /\ r \in db.reports /\ r.node = n /\ r.latest /\ r.time \in Nat
  BY <1>t, DatabaseFacts DEF Latest, TypeOK, Report
<1>1. ASSUME NEW gone, Erases(gone)
      PROVE  \E s \in Latest(db', n) : r.time <= s.time
  <2>1. r.node \notin gone
    BY <1>1, <1>t, <1>r, EraseEffect
  <2>2. r \in Latest(db', n)
    BY <2>1, <1>1, <1>t, <1>r, EraseEffect DEF Latest
  <2> QED BY <2>2, <1>r
<1>2. CASE SweepReports
  BY <1>2, <1>t, <1>r, SweepEffect DEF Latest
<1>3. ASSUME NEW w \in Workers, StoreReport(w)
      PROVE  \E s \in Latest(db', n) : r.time <= s.time
  <2>1. CASE n = tx[w].cmd.node /\ IsLatest(w)
    <3>1. r \in Marked(w)
      BY <1>3, <2>1 DEF StoreReport
    <3>2. r.time = tx[w].latest /\ Row(w).time = tx[w].cmd.time
      BY <3>1 DEF Marked, Row
    <3>3. tx[w].cmd.time > tx[w].latest
      BY <2>1 DEF IsLatest
    <3>5. tx[w].cmd.time \in 1..MaxTime
      BY <1>3, <1>t, StoreEffect, CommandFacts
    <3>4. Row(w) \in Latest(db', n)
      BY <2>1, <1>3, StoringReports
    <3> QED BY <3>2, <3>3, <3>4, <3>5, <1>r
  <2>2. CASE n = tx[w].cmd.node /\ ~IsLatest(w)
    BY <2>2, <1>3, <1>r, StoringReports
  <2>3. CASE n # tx[w].cmd.node
    BY <2>3, <1>3, <1>r, StoringReports DEF Latest
  <2> QED BY <2>1, <2>2, <2>3
<1>4. CASE db'.reports = db.reports
  BY <1>4, <1>r DEF Latest
<1>5. CASE CollectEnvs
  <2>1. PICK s \in db'.reports : Alike(r, s)
    BY <1>5, <1>t, <1>r, StrippedReports
  <2>2. s \in Latest(db', n)
    BY <2>1, <1>r DEF Alike, Latest
  <2>3. r.time <= s.time
    BY <2>1, <1>r DEF Alike
  <2> QED BY <2>2, <2>3
<1> QED BY <1>1, <1>2, <1>3, <1>4, <1>5, <1>t, ReportsKept

LEMMA PurgedGrows == ASSUME TypeOK, Next PROVE purged \subseteq purged'
<1>1. CASE \E gone : Erases(gone)
  BY <1>1, EraseEffect
<1>2. CASE SweepReports
  BY <1>2, SweepEffect
<1>3. CASE (\E w \in Workers : StoreReport(w)) \/ CollectEnvs
  BY <1>3 DEF StoreReport, CollectEnvs
<1> QED BY <1>1, <1>2, <1>3, ReportsKept

LEMMA FoundStep == IInv /\ Next => FoundStands'
<1> SUFFICES ASSUME IInv, Next, NEW w \in Workers,
                    tx'[w].at \in {"placing", "storing"}, tx'[w].latest # 0,
                    tx'[w].cmd.node \notin purged'
             PROVE  \E r \in Latest(db', tx'[w].cmd.node) : r.time >= tx'[w].latest
  BY DEF FoundStands
<1>t. TypeOK /\ TypeOK'
  BY Typing DEF IInv
<1> DEFINE n == tx'[w].cmd.node
<1>n. n \in Nodes /\ tx'[w].latest \in Nat
  <2>1. tx'[w] \in Tx
    BY <1>t DEF TypeOK
  <2> QED BY <2>1, TxFacts, CommandFacts DEF Times
<1>1. \E r \in Latest(db, n) : r.time >= tx'[w].latest
  <2>1. CASE /\ tx[w].at \in {"placing", "storing"}
             /\ tx'[w].cmd = tx[w].cmd /\ tx'[w].latest = tx[w].latest
    <3>1. n \notin purged
      BY <1>t, PurgedGrows
    <3> QED BY <2>1, <3>1 DEF IInv, FoundStands
  <2>2. CASE Look(w)
    <3>1. PICK t \in IF LatestTimes(db, tx[w].cmd.node) = {} THEN {0}
                     ELSE LatestTimes(db, tx[w].cmd.node) :
            tx' = [tx EXCEPT ![w].at = IF tx[w].cmd.env = NoEnv THEN "storing"
                                       ELSE "placing",
                             ![w].latest = t]
      BY <2>2 DEF Look
    <3>2. tx[w] \in Tx /\ tx[w].at = "looking"
      BY <2>2, <1>t DEF Look, TypeOK
    <3>3. tx'[w].latest = t /\ n = tx[w].cmd.node
      BY <3>1, <3>2, <1>t DEF TypeOK, Tx, NoTx
    <3>4. t \in LatestTimes(db, n)
      BY <3>1, <3>3
    <3> QED BY <3>3, <3>4, <1>n DEF LatestTimes
  <2> QED BY <2>1, <2>2, <1>t, ComesByLooking
<1>2. PICK r \in Latest(db, n) : r.time >= tx'[w].latest
  BY <1>1
<1>3. PICK s \in Latest(db', n) : r.time <= s.time
  BY <1>n, LatestGrows
<1>4. r.time \in Nat /\ s.time \in Nat
  BY <1>t, DatabaseFacts DEF TypeOK, Latest, Report
<1> QED BY <1>2, <1>3, <1>4, <1>n

Agents(d, n) == {r \in d.reports : r.node = n /\ ~r.plan}

HasNewest(d, n) == Agents(d, n) # {} =>
  \E r \in Latest(d, n) : /\ r \in Agents(d, n)
                          /\ Latest(d, n) = {r}
                          /\ \A s \in Agents(d, n) : s.time <= r.time

LEMMA NewestStep == IInv /\ Next => LatestIsNewest'
<1> SUFFICES ASSUME IInv, Next, NEW n \in Nodes, n \notin purged'
             PROVE  HasNewest(db', n)
  BY DEF LatestIsNewest, HasNewest, Agents
<1>t. TypeOK /\ db \in Database
  BY DEF IInv, TypeOK
<1>p. n \notin purged
  BY <1>t, PurgedGrows
<1>i. HasNewest(db, n)
  BY <1>p DEF IInv, LatestIsNewest, HasNewest, Agents
<1>1. ASSUME NEW gone, Erases(gone)
      PROVE  HasNewest(db', n)
  <2>1. /\ n \notin gone
        /\ db'.reports = {r \in db.reports : r.node \notin gone}
    BY <1>1, <1>t, EraseEffect
  <2>2. Agents(db', n) = Agents(db, n) /\ Latest(db', n) = Latest(db, n)
    BY <2>1 DEF Agents, Latest
  <2> QED BY <2>2, <1>i DEF HasNewest
<1>2. CASE SweepReports
  <2>1. Agents(db', n) \subseteq Agents(db, n) /\ Latest(db', n) = Latest(db, n)
    BY <1>2, <1>t, SweepEffect DEF Agents, Latest
  <2>2. Latest(db', n) \cap Agents(db, n) = Latest(db', n) \cap Agents(db', n)
    BY <2>1 DEF Agents, Latest
  <2> QED BY <2>1, <2>2, <1>i DEF HasNewest
<1>3. ASSUME NEW w \in Workers, StoreReport(w)
      PROVE  HasNewest(db', n)
  <2> DEFINE c == tx[w].cmd  row == Row(w)
  <2>1. /\ db'.reports = (db.reports \ Marked(w)) \cup Historic(w) \cup {row}
        /\ c \in Command /\ tx[w].latest \in Times /\ tx[w].at = "storing"
    BY <1>3, <1>t, StoreEffect DEF StoreReport
  <2>2. c.time \in 1..MaxTime /\ c.plan \in BOOLEAN
    BY <2>1, CommandFacts
  <2>3. /\ IsLatest(w) => Latest(db', c.node) = {row}
        /\ ~IsLatest(w) => \A m \in Nodes : Latest(db', m) = Latest(db, m)
        /\ \A m \in Nodes : m # c.node =>
              {r \in db'.reports : r.node = m} = {r \in db.reports : r.node = m}
    BY <1>3, StoringReports
  <2>4. row.node = c.node /\ row.time = c.time /\ row.plan = c.plan /\ row.latest = IsLatest(w)
    BY DEF Row
  <2>5. \A r \in db.reports : r \in Report /\ r.time \in Nat
    BY <1>t, DatabaseFacts DEF Report
  <2>6. CASE n # c.node
    <3>1. Agents(db', n) = Agents(db, n) /\ Latest(db', n) = Latest(db, n)
      BY <2>6, <2>3 DEF Agents, Latest
    <3> QED BY <3>1, <1>i DEF HasNewest
  <2>7. CASE n = c.node /\ IsLatest(w)
    <3>1. ~c.plan /\ c.time > tx[w].latest /\ Latest(db, n) = Marked(w)
      BY <2>7, <1>3 DEF IsLatest, StoreReport
    <3>2. \A r \in Latest(db, n) : r.time = tx[w].latest
      BY <3>1 DEF Marked
    <3>3. \A s \in Agents(db, n) : s.time <= c.time
      <4>1. SUFFICES ASSUME NEW s \in Agents(db, n) PROVE s.time <= c.time
        OBVIOUS
      <4>2. PICK r \in Latest(db, n) : s.time <= r.time
        BY <1>i DEF HasNewest
      <4>3. r.time = tx[w].latest /\ s.time \in Nat
        BY <3>2, <2>5 DEF Agents
      <4> QED BY <4>2, <4>3, <3>1, <2>1, <2>2 DEF Times
    <3>4. \A s \in Historic(w) : s.time <= c.time
      <4>1. SUFFICES ASSUME NEW r \in Marked(w)
                     PROVE  [r EXCEPT !.latest = FALSE].time <= c.time
        BY DEF Historic
      <4>2. r \in Report /\ r.time = tx[w].latest
        BY <2>5 DEF Marked, Latest
      <4>3. [r EXCEPT !.latest = FALSE].time = r.time
        BY <4>2 DEF Report
      <4> QED BY <4>2, <4>3, <3>1, <2>1, <2>2 DEF Times
    <3>5. \A s \in Agents(db', n) : s \in Agents(db, n) \/ s \in Historic(w) \/ s = row
      BY <2>1 DEF Agents
    <3>6. \A s \in Agents(db', n) : s.time <= row.time
      BY <3>3, <3>4, <3>5, <2>4, <2>2
    <3>7. row \in Agents(db', n)
      BY <2>1, <2>4, <2>7, <3>1 DEF Agents
    <3> QED BY <3>6, <3>7, <2>3, <2>7 DEF HasNewest
  <2>8. CASE n = c.node /\ ~IsLatest(w)
    <3>1. db'.reports = db.reports \cup {row} /\ Latest(db', n) = Latest(db, n)
      BY <2>1, <2>3, <2>8 DEF Marked, Historic
    <3>2. CASE c.plan
      <4>1. Agents(db', n) = Agents(db, n)
        BY <3>1, <3>2, <2>4 DEF Agents
      <4> QED BY <4>1, <3>1, <1>i DEF HasNewest
    <3>3. CASE ~c.plan
      <4>1. c.time <= tx[w].latest /\ tx[w].latest # 0
        BY <3>3, <2>1, <2>2, <2>8 DEF IsLatest, Times
      <4>2. PICK r \in Latest(db, n) : r.time >= tx[w].latest
        BY <4>1, <2>1, <2>8, <1>p DEF IInv, FoundStands
      <4>3. r \in Agents(db, n) /\ r.time \in Nat
        BY <2>5 DEF IInv, LatestIsAgent, Latest, Agents
      <4>4. Latest(db, n) = {r} /\ \A s \in Agents(db, n) : s.time <= r.time
        BY <4>3, <1>i DEF HasNewest
      <4>5. row.time <= r.time
        BY <4>1, <4>2, <4>3, <2>1, <2>2, <2>4 DEF Times
      <4>6. Agents(db', n) = Agents(db, n) \cup {row}
        BY <3>1, <3>3, <2>4, <2>8 DEF Agents
      <4> QED BY <4>3, <4>4, <4>5, <4>6, <3>1 DEF HasNewest
    <3> QED BY <3>2, <3>3, <2>2
  <2> QED BY <2>6, <2>7, <2>8
<1>4. CASE db'.reports = db.reports
  BY <1>4, <1>i DEF HasNewest, Agents, Latest
<1>5. CASE CollectEnvs
  <2> SUFFICES ASSUME Agents(db', n) # {} PROVE HasNewest(db', n)
    BY DEF HasNewest
  <2>1. ASSUME NEW s \in db'.reports
        PROVE  \E r \in db.reports : s = StrippedOf(r) /\ Alike(r, s)
    BY <1>5, <1>t, StrippedReports
  <2>2. \A s \in Agents(db', n) : \E r \in Agents(db, n) : s = StrippedOf(r) /\ Alike(r, s)
    BY <2>1 DEF Agents, Alike
  <2>3. \A s \in Latest(db', n) : \E r \in Latest(db, n) : s = StrippedOf(r)
    BY <2>1 DEF Latest, Alike
  <2>4. PICK q \in Latest(db, n) : /\ q \in Agents(db, n)
                                   /\ Latest(db, n) = {q}
                                   /\ \A s \in Agents(db, n) : s.time <= q.time
    BY <2>2, <1>i DEF HasNewest
  <2>5. StrippedOf(q) \in db'.reports /\ Alike(q, StrippedOf(q))
    BY <1>5, <1>t, <2>4, StrippedReports DEF Agents
  <2>6. StrippedOf(q) \in Latest(db', n) /\ StrippedOf(q) \in Agents(db', n)
    BY <2>4, <2>5 DEF Alike, Latest, Agents
  <2>7. Latest(db', n) = {StrippedOf(q)}
    BY <2>3, <2>4, <2>6
  <2>8. \A s \in Agents(db', n) : s.time <= StrippedOf(q).time
    BY <2>2, <2>4, <2>5 DEF Alike
  <2> QED BY <2>6, <2>7, <2>8 DEF HasNewest
<1> QED BY <1>1, <1>2, <1>3, <1>4, <1>5, <1>t, ReportsKept

(***************************************************************************)
(* Statuses: who may change one, and how.                                  *)
(***************************************************************************)
Older(s, t) == s.deactivated \in 1..(t - 1) \/ s.expired \in 1..(t - 1)

\* A transaction that ends now, of whom the row is or to whom it is free.
MayWrite(w, n) == /\ tx[w].at # "idle" /\ tx[w].cmd.node = n
                  /\ Holds(w, n) \/ ~Locked(n)
                  /\ tx'[w] = NoTx

RevivedBy(w, n) == /\ MayWrite(w, n)
                   /\ ~db.status[n].known \/ Older(db.status[n], tx[w].cmd.time)
                   /\ db'.status[n] = Active

DeactivatedBy(w, n) == /\ MayWrite(w, n)
                       /\ db'.status[n].known
                       /\ db'.status[n].deactivated # 0

ExpiredNow(n) == /\ db.status[n].known /\ db'.status[n].known
                 /\ db'.status[n].expired # 0

LEMMA StatusChange ==
  ASSUME TypeOK, StillToAdd, Next, NEW n \in Nodes
  PROVE  \/ db'.status[n] = db.status[n]
         \/ (\E gone : Erases(gone)) /\ db'.status[n] = Unknown
         \/ \E w \in Workers : RevivedBy(w, n) \/ DeactivatedBy(w, n)
         \/ ExpiredNow(n)
<1> USE DEF TypeOK
<1>d. db \in Database /\ db.status \in [Nodes -> Status] /\ db.status[n] \in Status
  BY DatabaseFacts
<1>e. ASSUME NEW gone, Erases(gone)
      PROVE  db'.status[n] = db.status[n] \/ db'.status[n] = Unknown
  BY <1>e, ErasedNode
<1>1. CASE Tick
  BY <1>1 DEF Tick
<1>2. CASE Cleans
  <2>1. CASE Expire
    <3>1. db'.status[n] = IF Idle(n) THEN [db.status[n] EXCEPT !.expired = clock]
                                     ELSE db.status[n]
      BY <2>1, <1>d DEF Expire, Database
    <3>2. Idle(n) => /\ db.status[n].known
                     /\ [db.status[n] EXCEPT !.expired = clock].known = db.status[n].known
                     /\ [db.status[n] EXCEPT !.expired = clock].expired = clock
      BY <1>d DEF Idle, Status
    <3>3. clock # 0
      OBVIOUS
    <3> QED BY <3>1, <3>2, <3>3 DEF ExpiredNow
  <2>2. CASE Purge
    BY <2>2, <1>e, ErasingActions
  <2>3. CASE SweepReports
    BY <2>3, SweepEffect
  <2>4. CASE \/ StartCleaning \/ EndCleaning \/ GiveUpStep \/ ChoosePurge \/ ChooseEnvs
             \/ ChoosePaths \/ CollectPaths
    BY <2>4, <1>d DEF StartCleaning, EndCleaning, GiveUpStep, ChoosePurge, Choose, ChooseEnvs,
       ChoosePaths, CollectPaths, Database
  <2>5. CASE CollectEnvs
    BY <2>5, CollectEffect
  <2> QED BY <1>2, <2>1, <2>2, <2>3, <2>4, <2>5 DEF Cleans
<1>3. ASSUME NEW w \in Workers, Stores(w)
      PROVE  \/ db'.status[n] = db.status[n]
             \/ RevivedBy(w, n) \/ DeactivatedBy(w, n)
  <2>t. tx[w] \in Tx
    OBVIOUS
  <2>e. Ends(w) => tx'[w] = NoTx
    BY DEF Ends
  <2>1. CASE Commit(w)
    <3> DEFINE c == tx[w].cmd  seen == tx[w].seen
               s == IF MayRevive(seen.status[c.node], c.time)
                    THEN Revived(seen.status[c.node], c.time) ELSE db.status[c.node]
    <3>1. c \in Command /\ tx[w].at = "repeatable" /\ c.node \in Nodes
      BY <2>1, <2>t, TxFacts, CommandFacts DEF Commit
    <3>2. db'.status = [db.status EXCEPT ![c.node] = s]
      BY <2>1, <1>d DEF Commit, Replaced, Database
    <3>3. CASE c.node = n /\ MayRevive(seen.status[n], c.time)
      <4>1. ~Locked(n) /\ db.status[n] = seen.status[n]
        BY <2>1, <3>3 DEF Commit, AsSeen
      <4>2. db'.status[n] = Revived(db.status[n], c.time)
        BY <3>2, <3>3, <4>1, <1>d
      <4>3. MayWrite(w, n)
        BY <2>1, <3>1, <3>3, <4>1, <2>e DEF MayWrite, Commit
      <4> QED BY <4>2, <4>3 DEF Revived, RevivedBy, Older
    <3>4. CASE ~(c.node = n /\ MayRevive(seen.status[n], c.time))
      BY <3>1, <3>2, <3>4, <1>d
    <3> QED BY <3>3, <3>4
  <2>2. CASE Deactivate(w)
    <3> DEFINE c == tx[w].cmd
               s == IF tx[w].upserts THEN Active ELSE db.status[c.node]
               x == IF tx[w].stale THEN s ELSE Deactivated(s, c.time)
    <3>1. /\ c \in Command /\ tx[w].at = "deactivating" /\ c.node \in Nodes
          /\ c.time \in 1..MaxTime
      BY <2>2, <2>t, TxFacts, CommandFacts DEF Deactivate
    <3>2. db'.status = [db.status EXCEPT ![c.node] = x]
      BY <2>2, <1>d DEF Deactivate, Database
    <3>3. CASE c.node = n
      <4>1. MayWrite(w, n)
        BY <2>2, <3>1, <3>3, <2>e DEF MayWrite, Deactivate, Holds
      <4>2. db'.status[n] = x /\ s \in Status
        BY <3>2, <3>3, <1>d, Constants
      <4>3. CASE x = s /\ tx[w].upserts
        BY <3>1, <3>3, <4>1, <4>2, <4>3 DEF StillToAdd, RevivedBy
      <4>4. CASE x = s /\ ~tx[w].upserts
        BY <3>3, <4>2, <4>4
      <4>5. CASE x # s
        <5>1. x = [s EXCEPT !.deactivated = c.time] /\ s.known
          BY <4>5 DEF Deactivated
        <5>2. x.known /\ x.deactivated = c.time
          BY <5>1, <4>2 DEF Status
        <5> QED BY <5>2, <4>1, <4>2, <3>1 DEF DeactivatedBy
      <4> QED BY <4>3, <4>4, <4>5
    <3>4. CASE c.node # n
      BY <3>1, <3>2, <3>4, <1>d
    <3> QED BY <3>3, <3>4
  <2>3. CASE SkipReport(w) \/ StoreReport(w)
    <3>1. /\ tx[w].at \in {"checking", "storing"} /\ tx'[w] = NoTx
          /\ tx[w].cmd.node \in Nodes
      BY <2>3, <2>t, <2>e, TxFacts, CommandFacts DEF SkipReport, StoreReport
    <3>2. db'.status = [db.status EXCEPT ![tx[w].cmd.node] = StatusAfter(w)]
      BY <2>3, <1>d DEF SkipReport, StoreReport, Database
    <3>3. CASE tx[w].cmd.node = n /\ tx[w].upserts
      <4>1. MayWrite(w, n)
        BY <3>1, <3>3 DEF MayWrite, Holds
      <4>2. db'.status[n] = Revived(db.status[n], tx[w].cmd.time)
        BY <3>2, <3>3, <1>d DEF StatusAfter
      <4> QED BY <4>1, <4>2 DEF Revived, RevivedBy, Older
    <3>4. CASE ~(tx[w].cmd.node = n /\ tx[w].upserts)
      BY <3>1, <3>2, <3>4, <1>d DEF StatusAfter
    <3> QED BY <3>3, <3>4
  <2>4. CASE \/ BeginReplace(w) \/ BeginDeactivate(w) \/ BeginReport(w) \/ Activate(w)
             \/ Check(w) \/ Look(w) \/ Place(w) \/ Fail(w)
    BY <2>4 DEF BeginReplace, BeginDeactivate, BeginReport, Activate, Check, Look, Place, Fail
  <2> QED BY <1>3, <2>1, <2>2, <2>3, <2>4 DEF Stores
<1> QED BY <1>1, <1>2, <1>3, <1>e, ErasingActions DEF Next

\* A row is locked while nobody else has it, and one transaction moves at a time.
LEMMA BecomesHolder ==
  ASSUME TypeOK, Next, NEW w \in Workers, NEW n \in Nodes, Holds(w, n)', ~Holds(w, n)
  PROVE  /\ ~Locked(n)
         /\ \A v \in Workers : v # w => tx'[v] = tx[v]
         /\ tx'[w].at = "deactivating" => ~db'.status[n].known
<1> USE DEF TypeOK
<1>h. ~SameButEnv(w)
  BY DEF Holds, SameButEnv
<1>g. tx'[w] # tx[w]
  BY <1>h DEF SameButEnv
<1>1. ASSUME NEW v \in Workers, Stores(v)
      PROVE  v = w /\ \A u \in Workers : u # w => tx'[u] = tx[u]
  BY <1>1, <1>g DEF Stores, BeginReplace, Commit, BeginDeactivate, Deactivate, BeginReport,
     Activate, SkipReport, Check, Look, Place, StoreReport, Fail, Begins, Ends
<1>2. Stores(w)
  <2>1. ~Tick
    BY <1>g DEF Tick
  <2>2. ~Cleans
    BY <1>g, <1>h, CollectedTx DEF Cleans, StartCleaning, EndCleaning, GiveUpStep, Expire,
       ChoosePurge, Choose, ChooseEnvs, ChoosePaths, CollectPaths, Purge, Erase, SweepReports
  <2>3. \A m \in Nodes : ~DeleteNode(m)
    BY <1>g DEF DeleteNode, Erase
  <2> QED BY <2>1, <2>2, <2>3, <1>1 DEF Next
<1>3. ~Ends(w)
  BY DEF Ends, Holds, NoTx
<1>4. CASE BeginReplace(w) \/ BeginReport(w)
  BY <1>4 DEF BeginReplace, BeginReport, Begins, Holds
<1>5. CASE BeginDeactivate(w)
  <2>1. PICK c \in Arriving :
          /\ db.status[c.node].known \/ ~Locked(c.node)
          /\ tx' = [tx EXCEPT ![w] =
                      [at |-> "deactivating", cmd |-> c,
                       upserts |-> ~db.status[c.node].known,
                       stale |-> \E t \in Newest(db, c.node) : t > c.time]]
          /\ db' = db
    BY <1>5 DEF BeginDeactivate, Begins
  <2>2. tx'[w].cmd = c /\ tx'[w].upserts = ~db.status[c.node].known
    BY <2>1
  <2> QED BY <1>1, <1>2, <2>1, <2>2 DEF Holds
<1>6. CASE Activate(w)
  <2>1. tx[w] \in Tx /\ tx[w].at = "activating"
    BY <1>6 DEF Activate
  <2>2. tx'[w] = [tx[w] EXCEPT !.at = "checking", !.upserts = TRUE]
    BY <1>6 DEF Activate
  <2>3. tx'[w].at = "checking" /\ tx'[w].cmd = tx[w].cmd
    BY <2>1, <2>2 DEF Tx, NoTx
  <2> QED BY <1>6, <1>1, <1>2, <2>3 DEF Activate, Holds
<1>7. CASE Check(w) \/ Look(w) \/ Place(w)
  <2>1. tx[w] \in Tx /\ tx[w].at \in {"checking", "looking", "placing"}
    BY <1>7 DEF Check, Look, Place
  <2>2. /\ tx'[w].at \in {"looking", "placing", "storing"} /\ tx'[w].cmd = tx[w].cmd
        /\ tx'[w].upserts = tx[w].upserts
    BY <1>7, <2>1 DEF Check, Look, Place, Tx, NoTx
  <2> QED BY <2>1, <2>2 DEF Holds
<1> QED BY <1>2, <1>3, <1>4, <1>5, <1>6, <1>7 DEF Stores, Commit, Deactivate, SkipReport,
           StoreReport, Fail

LEMMA HolderStep == IInv /\ Next => OneHolder'
<1> SUFFICES ASSUME IInv, Next, NEW v \in Workers, NEW w \in Workers, NEW n \in Nodes,
                    Holds(v, n)', Holds(w, n)', v # w
             PROVE  FALSE
  BY DEF OneHolder
<1>t. TypeOK
  BY DEF IInv
<1>1. CASE Holds(v, n) /\ Holds(w, n)
  BY <1>1 DEF IInv, OneHolder
<1>2. CASE ~Holds(v, n)
  <2>1. ~Locked(n) /\ tx'[w] = tx[w]
    BY <1>2, <1>t, BecomesHolder
  <2> QED BY <2>1 DEF Holds, Locked
<1>3. CASE ~Holds(w, n)
  <2>1. ~Locked(n) /\ tx'[v] = tx[v]
    BY <1>3, <1>t, BecomesHolder
  <2> QED BY <2>1 DEF Holds, Locked
<1> QED BY <1>1, <1>2, <1>3

LEMMA BlankStep == IInv /\ Next => UnknownIsBlank'
<1> SUFFICES ASSUME IInv, Next, NEW n \in Nodes, ~db'.status[n].known
             PROVE  db'.status[n] = Unknown
  BY DEF UnknownIsBlank
<1> QED BY StatusChange DEF IInv, UnknownIsBlank, RevivedBy, DeactivatedBy, ExpiredNow, Active

\* A deactivation that is under way was so before, or it has just begun.
LEMMA AddStep == IInv /\ Next => StillToAdd'
<1> SUFFICES ASSUME IInv, Next, NEW w \in Workers, NEW n \in Nodes,
                    tx'[w].at = "deactivating", tx'[w].upserts, tx'[w].cmd.node = n
             PROVE  ~db'.status[n].known
  <2>1. ASSUME IInv, Next, NEW w \in Workers, tx'[w].at = "deactivating"
        PROVE  tx'[w].cmd.node \in Nodes
    <3>1. tx'[w] \in Tx
      BY <2>1, Typing DEF IInv, TypeOK
    <3> QED BY <2>1, <3>1, TxFacts, CommandFacts
  <2> QED BY <2>1 DEF StillToAdd
<1>t. TypeOK /\ tx'[w] \in Tx /\ StillToAdd
  BY Typing DEF IInv, TypeOK
<1>h. Holds(w, n)'
  BY DEF Holds
<1>1. CASE ~Holds(w, n)
  BY <1>1, <1>h, <1>t, BecomesHolder
<1>2. CASE Holds(w, n)
  <2>1. tx[w].at = "deactivating"
    <3> USE DEF TypeOK
    <3>1. ASSUME NEW v \in Workers, Stores(v) PROVE tx[w].at = "deactivating"
      <4>1. CASE v # w
        BY <3>1, <4>1, <1>t DEF Stores, BeginReplace, Commit, BeginDeactivate, Deactivate,
           BeginReport, Activate, SkipReport, Check, Look, Place, StoreReport, Fail, Begins, Ends
      <4>2. CASE v = w
        <5>1. tx[w] # NoTx /\ tx'[w] # NoTx
          BY <1>2 DEF Holds, NoTx
        <5>2. Activate(w) \/ Check(w) \/ Look(w) \/ Place(w)
          BY <3>1, <4>2, <5>1, <1>t DEF Stores, BeginReplace, Commit, BeginDeactivate,
             Deactivate, BeginReport, SkipReport, StoreReport, Fail, Begins, Ends
        <5>3. tx[w] \in Tx /\ tx[w].at \in {"activating", "checking", "looking", "placing"}
          BY <5>2, <1>t DEF Activate, Check, Look, Place
        <5>4. tx'[w].at \in {"checking", "looking", "placing", "storing"}
          BY <5>2, <5>3, <1>t DEF Activate, Check, Look, Place, Tx, NoTx
        <5> QED BY <5>4
      <4> QED BY <4>1, <4>2
    <3>2. CASE Tick \/ Cleans \/ \E m \in Nodes : DeleteNode(m)
      <4>1. CASE CollectEnvs
        BY <4>1, <1>t, CollectedTx DEF SameButEnv
      <4>2. CASE ~CollectEnvs
        BY <3>2, <4>2 DEF Tick, Cleans, StartCleaning, EndCleaning, GiveUpStep, Expire,
           ChoosePurge, Choose, ChooseEnvs, ChoosePaths, CollectPaths, Purge, SweepReports,
           DeleteNode, Erase
      <4> QED BY <4>1, <4>2
    <3> QED BY <3>1, <3>2 DEF Next
  <2>2. ~db.status[n].known
    BY <2>1, <1>2, <1>t DEF StillToAdd, Holds
  <2>3. ASSUME NEW v \in Workers, MayWrite(v, n) PROVE FALSE
    <3>1. v # w
      BY <2>3 DEF MayWrite, NoTx
    <3>2. Locked(n)
      BY <1>2 DEF Holds, Locked
    <3> QED BY <2>3, <3>1, <3>2, <1>2 DEF MayWrite, IInv, OneHolder
  <2> QED BY <2>2, <2>3, <1>t, StatusChange
          DEF RevivedBy, DeactivatedBy, ExpiredNow, Unknown
<1> QED BY <1>1, <1>2

(***************************************************************************)
(* Catalogs, facts and latest reports belong to nodes that exist.          *)
(***************************************************************************)
LEMMA CommitEffect ==
  ASSUME TypeOK, NEW w \in Workers, Commit(w), NEW n \in Nodes
  PROVE  \/ db'.catalogs[n] = db.catalogs[n] /\ db'.factsets[n] = db.factsets[n]
         \/ /\ n = tx[w].cmd.node /\ db'.status[n].known
            /\ db.catalogs[n].time <= db'.catalogs[n].time
            /\ db.factsets[n].time <= db'.factsets[n].time
<1> DEFINE c == tx[w].cmd  seen == tx[w].seen
<1> USE DEF TypeOK
<1>1. /\ c \in Command /\ seen \in Database /\ c.node \in Nodes /\ c.time \in 1..MaxTime
      /\ db \in Database
  <2>1. tx[w] \in Tx /\ tx[w].at = "repeatable"
    BY DEF Commit
  <2> QED BY <2>1, TxFacts, CommandFacts
<1>2. /\ AsSeen(c, seen) /\ db' = Replaced(c, seen)
  BY DEF Commit
<1> HIDE DEF c, seen
<1> DEFINE m == c.node
           fresh == Stored(seen, c).time <= c.time
           doc == [time |-> c.time, env |-> c.env, paths |-> c.paths]
           s == IF MayRevive(seen.status[m], c.time)
                THEN Revived(seen.status[m], c.time) ELSE db.status[m]
           k == IF fresh /\ c.kind = "catalog" THEN doc ELSE db.catalogs[m]
           f == IF fresh /\ c.kind = "facts" THEN doc ELSE db.factsets[m]
<1>3. /\ db'.status = [db.status EXCEPT ![m] = s]
      /\ db'.catalogs = [db.catalogs EXCEPT ![m] = k]
      /\ db'.factsets = [db.factsets EXCEPT ![m] = f]
  BY <1>1, <1>2 DEF Replaced, Database
<1>4. /\ db.status \in [Nodes -> Status] /\ db.catalogs \in [Nodes -> Document]
      /\ db.factsets \in [Nodes -> Document] /\ seen.status[m] \in Status
  BY <1>1, DatabaseFacts
<1>5. /\ db'.status[m] = s /\ db'.catalogs[m] = k /\ db'.factsets[m] = f
      /\ n # m => db'.catalogs[n] = db.catalogs[n] /\ db'.factsets[n] = db.factsets[n]
  BY <1>1, <1>3, <1>4
<1>6. CASE ~fresh
  BY <1>5, <1>6
<1>7. CASE fresh /\ n = m
  <2>1. /\ Stored(db, c) = Stored(seen, c)
        /\ db.status[m].known = seen.status[m].known
        /\ MayRevive(seen.status[m], c.time) => db.status[m] = seen.status[m]
    BY <1>2, <1>7 DEF AsSeen
  <2>2. s.known
    <3>1. CASE MayRevive(seen.status[m], c.time)
      BY <3>1, <1>4 DEF Revived, Active, Status
    <3>2. CASE ~MayRevive(seen.status[m], c.time)
      BY <3>2, <2>1, <1>4 DEF MayRevive, Status
    <3> QED BY <3>1, <3>2
  <2>3. db.catalogs[m].time \in Nat /\ db.factsets[m].time \in Nat
    BY <1>1, <1>4 DEF Document, Times
  <2>4. doc.time = c.time
    OBVIOUS
  <2>5. db.catalogs[m].time <= k.time
    BY <2>1, <2>3, <2>4, <1>7 DEF Stored
  <2>6. db.factsets[m].time <= f.time
    <3>1. CASE c.kind = "facts"
      BY <3>1, <2>1, <2>3, <2>4, <1>7 DEF Stored
    <3>2. CASE c.kind # "facts"
      BY <3>2, <2>3
    <3> QED BY <3>1, <3>2
  <2> QED BY <2>2, <2>5, <2>6, <1>5, <1>7 DEF c
<1> QED BY <1>5, <1>6, <1>7

LEMMA DocumentsKept ==
  ASSUME TypeOK, Next, \A gone : ~Erases(gone), \A w \in Workers : ~Commit(w), NEW n \in Nodes
  PROVE  /\ \/ db'.catalogs[n] = db.catalogs[n]
            \/ /\ db'.catalogs[n] = Absent /\ Turn("gc_catalogs") /\ cleaner.chosen
               /\ db.catalogs[n].env \in cleaner.doomed \ db'.envs
         /\ db'.factsets[n] = db.factsets[n]
<1> USE DEF TypeOK
<1>1. CASE Tick
  BY <1>1 DEF Tick
<1>2. CASE Cleans
  <2>1. CASE CollectEnvs
    BY <2>1, CollectEffect DEF CollectEnvs
  <2>2. CASE Expire
    BY <2>2 DEF Expire, Database
  <2>3. CASE SweepReports
    BY <2>3, SweepEffect
  <2>4. CASE CollectPaths
    BY <2>4 DEF CollectPaths, Database
  <2>5. CASE \/ StartCleaning \/ EndCleaning \/ GiveUpStep \/ ChoosePurge \/ ChooseEnvs
             \/ ChoosePaths
    BY <2>5 DEF StartCleaning, EndCleaning, GiveUpStep, ChoosePurge, Choose, ChooseEnvs,
       ChoosePaths
  <2> QED BY <1>2, <2>1, <2>2, <2>3, <2>4, <2>5, ErasingActions DEF Cleans
<1>3. ASSUME NEW w \in Workers, Stores(w)
      PROVE  db'.catalogs = db.catalogs /\ db'.factsets = db.factsets
  <2>1. CASE Deactivate(w)
    BY <2>1 DEF Deactivate, Database
  <2>2. CASE SkipReport(w)
    BY <2>2 DEF SkipReport, Database
  <2>3. CASE StoreReport(w)
    BY <2>3, StoreEffect
  <2>4. CASE \/ BeginReplace(w) \/ BeginDeactivate(w) \/ BeginReport(w) \/ Activate(w)
             \/ Check(w) \/ Look(w) \/ Place(w) \/ Fail(w)
    BY <2>4 DEF BeginReplace, BeginDeactivate, BeginReport, Activate, Check, Look, Place, Fail
  <2> QED BY <1>3, <2>1, <2>2, <2>3, <2>4 DEF Stores
<1> QED BY <1>1, <1>2, <1>3, ErasingActions DEF Next

LEMMA NoDataStep == IInv /\ Next => NoDataWithoutNode'
<1> SUFFICES ASSUME IInv, Next, NEW n \in Nodes, ~db'.status[n].known
             PROVE  /\ db'.catalogs[n] = Absent /\ db'.factsets[n] = Absent
                    /\ Latest(db', n) = {}
  BY DEF NoDataWithoutNode
<1>t. TypeOK
  BY DEF IInv
<1>i. ~db.status[n].known =>
        db.catalogs[n] = Absent /\ db.factsets[n] = Absent /\ Latest(db, n) = {}
  BY DEF IInv, NoDataWithoutNode
<1>1. ASSUME NEW gone, Erases(gone)
      PROVE  /\ db'.catalogs[n] = Absent /\ db'.factsets[n] = Absent
             /\ Latest(db', n) = {}
  <2>1. CASE n \in gone
    BY <1>1, <2>1, <1>t, ErasedNode
  <2>2. CASE n \notin gone
    BY <1>1, <2>2, <1>t, <1>i, ErasedNode
  <2> QED BY <2>1, <2>2
<1>2. CASE \A gone : ~Erases(gone)
  <2>1. ~db.status[n].known
    BY <1>2, <1>t, StatusChange
       DEF IInv, RevivedBy, DeactivatedBy, ExpiredNow, Active
  <2>2. db'.catalogs[n] = Absent /\ db'.factsets[n] = Absent
    BY <1>2, <2>1, <1>t, <1>i, CommitEffect, DocumentsKept
  <2>3. Latest(db', n) = {}
    <3>1. CASE SweepReports
      BY <3>1, <2>1, <1>t, <1>i, SweepEffect DEF Latest
    <3>2. ASSUME NEW w \in Workers, StoreReport(w)
          PROVE  Latest(db', n) = {}
      <4>1. CASE n = tx[w].cmd.node /\ IsLatest(w)
        <5>1. tx[w].upserts
          BY <3>2, <4>1, <2>1 DEF StoreReport
        <5>2. StatusAfter(w) = Active
          BY <4>1, <5>1, <2>1 DEF StatusAfter, Revived
        <5>3. db'.status[n] = Active
          <6>1. db'.status = [db.status EXCEPT ![n] = StatusAfter(w)]
            BY <3>2, <4>1, <1>t, StoreEffect
          <6>2. db.status \in [Nodes -> Status]
            BY <1>t, DatabaseFacts DEF TypeOK
          <6> QED BY <6>1, <6>2, <5>2
        <5> QED BY <5>3 DEF Active
      <4>2. CASE ~IsLatest(w)
        BY <3>2, <4>2, <2>1, <1>i, StoringReports
      <4>3. CASE n # tx[w].cmd.node
        BY <3>2, <4>3, <2>1, <1>i, StoringReports DEF Latest
      <4> QED BY <4>1, <4>2, <4>3
    <3>3. CASE db'.reports = db.reports
      BY <3>3, <2>1, <1>i DEF Latest
    <3>4. CASE CollectEnvs
      <4>1. \A s \in db'.reports : \E r \in db.reports : Alike(r, s)
        BY <3>4, <1>t, StrippedReports
      <4> QED BY <4>1, <2>1, <1>i DEF Latest, Alike
    <3> QED BY <3>1, <3>2, <3>3, <3>4, <1>2, <1>t, ReportsKept
  <2> QED BY <2>2, <2>3
<1> QED BY <1>1, <1>2

LEMMA Ranks ==
  ASSUME NEW o \in Options, NEW p \in Options
  PROVE  /\ Rank[o] \in 1..5
         /\ Rank[o] = Rank[p] => o = p
         /\ Rank["expire_nodes"] = 1 /\ Rank["purge_nodes"] = 2
         /\ Rank["purge_reports"] = 3 /\ Rank["gc_catalogs"] = 4
         /\ Rank["gc_fact_paths"] = 5
BY DEF Rank, Options

\* What the search of a purge chooses, and whether its limit cut it short.
LEMMA PurgeBatch ==
  ASSUME TypeOK, ChoosePurge
  PROVE  /\ UNCHANGED <<db, clock>> /\ Turn("purge_nodes")
         /\ cleaner'.quiet = cleaner.quiet /\ cleaner'.asked = cleaner.asked
         /\ cleaner'.todo = cleaner.todo
         /\ cleaner'.doomed \subseteq AllOverdue
         /\ cleaner'.doomed = AllOverdue \/ cleaner'.cut
<1>1. PICK batch \in SUBSET AllOverdue :
        cleaner' = [cleaner EXCEPT !.chosen = TRUE, !.doomed = batch, !.cut = batch # AllOverdue]
  BY DEF ChoosePurge
<1>2. cleaner \in Cleaner
  BY DEF TypeOK
<1>3. /\ cleaner'.quiet = cleaner.quiet /\ cleaner'.asked = cleaner.asked
      /\ cleaner'.todo = cleaner.todo /\ cleaner'.doomed = batch
      /\ cleaner'.cut = (batch # AllOverdue)
  BY <1>1, <1>2 DEF Cleaner
<1>4. UNCHANGED <<db, clock>> /\ Turn("purge_nodes")
  BY DEF ChoosePurge
<1>5. cleaner'.doomed = AllOverdue \/ cleaner'.cut
  BY <1>3
<1> QED BY <1>3, <1>4, <1>5

\* What is chosen is chosen for the option whose turn it is.
LEMMA AimStep == ASSUME TypeOK, Aimed, [Next]_vars PROVE Aimed'
<1>1. cleaner \in Cleaner /\ db.envs \subseteq Envs
  BY DatabaseFacts DEF TypeOK
<1>2. ASSUME UNCHANGED cleaner \/ Disturbs \/ ~cleaner'.chosen PROVE Aimed'
  BY <1>1, <1>2 DEF Disturbs, Aimed, Turn, Cleaner
<1>3. ASSUME NEW o \in Options, NEW set, Choose(o, set),
             o = "gc_catalogs" => set \subseteq Envs
      PROVE  Aimed'
  <2>1. cleaner'.todo = cleaner.todo /\ cleaner'.doomed = set /\ Turn(o)
        /\ cleaner.todo \subseteq Options
    BY <1>1, <1>3 DEF Choose, Cleaner
  <2>2. Turn("gc_catalogs")' => o = "gc_catalogs"
    <3>1. Turn("gc_catalogs")' => /\ Rank[o] <= Rank["gc_catalogs"]
                                  /\ Rank["gc_catalogs"] <= Rank[o]
      BY <2>1 DEF Turn
    <3> QED BY <3>1, Ranks DEF Options
  <2> QED BY <1>3, <2>1, <2>2 DEF Aimed
<1>4. CASE ChoosePaths \/ ChooseEnvs
  BY <1>1, <1>3, <1>4 DEF ChoosePaths, ChooseEnvs, Options
<1>11. CASE ChoosePurge
  <2>1. cleaner'.todo = cleaner.todo
    BY <1>1, <1>11, PurgeBatch
  <2>2. ~Turn("gc_catalogs")'
    <3>1. Turn("gc_catalogs")' => Rank["gc_catalogs"] <= Rank["purge_nodes"]
      BY <2>1, <1>11 DEF ChoosePurge, Turn
    <3> QED BY <3>1, Ranks DEF Options
  <2> QED BY <2>2 DEF Aimed
<1>5. ASSUME NEW o, Done(o) PROVE ~cleaner'.chosen
  BY <1>1, <1>5 DEF Done, Cleaner
<1>6. CASE GiveUpStep
  <2>1. PICK o \in Options :
          cleaner' = [cleaner EXCEPT !.todo = cleaner.todo \ {o},
                                     !.chosen = FALSE, !.doomed = {}, !.quiet = FALSE]
    BY <1>6 DEF GiveUpStep
  <2>2. ~cleaner'.chosen
    BY <1>1, <2>1 DEF Cleaner
  <2> QED BY <1>2, <2>2
<1>7. CASE StartCleaning \/ EndCleaning
  <2>1. CASE StartCleaning
    <3>1. ~Resting.chosen /\ Resting \in Cleaner
      BY Constants DEF Resting
    <3>2. PICK r \in Requests :
            cleaner' = [Resting EXCEPT !.busy = TRUE, !.asked = r, !.todo = r, !.quiet = TRUE]
      BY <2>1 DEF StartCleaning
    <3>3. ~cleaner'.chosen
      BY <3>1, <3>2 DEF Cleaner
    <3> QED BY <1>2, <3>3
  <2>2. CASE EndCleaning
    BY <1>2, <2>2 DEF EndCleaning, Resting
  <2> QED BY <1>7, <2>1, <2>2
<1>8. CASE Expire \/ Purge \/ SweepReports \/ CollectEnvs \/ CollectPaths
  BY <1>2, <1>5, <1>8 DEF Expire, Purge, SweepReports, CollectEnvs, CollectPaths
<1>9. ASSUME NEW w \in Workers, Stores(w) PROVE Aimed'
  BY <1>2, <1>9 DEF Stores, BeginReplace, Commit, BeginDeactivate, Deactivate, BeginReport,
     Activate, SkipReport, Check, Look, Place, StoreReport, Fail
<1>10. CASE Tick \/ (\E n \in Nodes : DeleteNode(n)) \/ UNCHANGED vars
  BY <1>2, <1>10 DEF Tick, DeleteNode, vars
<1> QED BY <1>4, <1>6, <1>7, <1>8, <1>9, <1>10, <1>11 DEF Next, Cleans

(***************************************************************************)
(* The invariant is inductive.                                             *)
(***************************************************************************)
LEMMA InitHolds == Init => IInv
<1> SUFFICES ASSUME Init PROVE IInv
  OBVIOUS
<1>1. /\ db = Empty /\ tx = [w \in Workers |-> NoTx] /\ cleaner = Resting
      /\ clock = 1 /\ begun = 0 /\ cleans = 0 /\ purged = {}
  BY DEF Init
<1>2. TypeOK
  <2>1. NoTx \in Tx
    BY DEF Tx
  <2> QED BY <1>1, <2>1, Constants DEF TypeOK
<1>3. db.reports = {} /\ \A n \in Nodes : Latest(db, n) = {}
  BY <1>1 DEF Empty, Latest
<1>4. \A n \in Nodes : /\ db.status[n] = Unknown /\ db.catalogs[n] = Absent
                       /\ db.factsets[n] = Absent
  BY <1>1 DEF Empty
<1>5. \A w \in Workers : tx[w].at = "idle"
  BY <1>1 DEF NoTx
<1>6. OneLatest /\ LatestIsAgent /\ LatestIsNewest
  BY <1>3 DEF OneLatest, LatestIsAgent, LatestIsNewest
<1>7. UnknownIsBlank /\ NoDataWithoutNode
  BY <1>3, <1>4 DEF UnknownIsBlank, NoDataWithoutNode
<1>8. FoundStands /\ OneHolder /\ StillToAdd
  BY <1>5 DEF FoundStands, OneHolder, Holds, StillToAdd
<1>9. Aimed
  BY <1>1 DEF Aimed, Resting
<1> QED BY <1>2, <1>6, <1>7, <1>8, <1>9 DEF IInv

LEMMA StepHolds == IInv /\ [Next]_vars => IInv'
<1>1. CASE Next
  BY <1>1, Typing, LatestStep, FoundStep, NewestStep, HolderStep, BlankStep, AddStep,
     NoDataStep, AimStep DEF IInv
<1>2. CASE UNCHANGED vars
  BY <1>2 DEF vars, IInv, TypeOK, OneLatest, LatestIsAgent, FoundStands, LatestIsNewest,
     UnknownIsBlank, OneHolder, Holds, StillToAdd, NoDataWithoutNode, Latest, Aimed, Turn
<1> QED BY <1>1, <1>2

LEMMA Invariance == Spec => []IInv
BY InitHolds, StepHolds, PTL DEF Spec

(***************************************************************************)
(* The rows keep their types, whatever transactions and cleanings do.      *)
(***************************************************************************)
THEOREM TypeCorrect == Spec => []TypeOK
<1>1. IInv => TypeOK
  BY DEF IInv
<1> QED BY <1>1, Invariance, PTL

(***************************************************************************)
(* A node's newest agent report is its latest one, and it alone, although  *)
(* add-report! reads and writes in statements that others come between.    *)
(***************************************************************************)
THEOREM NewestIsMarked == Spec => []LatestIsNewest
<1>1. IInv => LatestIsNewest
  BY DEF IInv
<1> QED BY <1>1, Invariance, PTL

(***************************************************************************)
(* No catalog, factset or latest report without its node, though           *)
(* delete-certnames! may run in the middle of replace-catalog!,            *)
(* replace-facts! or add-report!.                                          *)
(***************************************************************************)
THEOREM DataHasNode == Spec => []NoDataWithoutNode
<1>1. IInv => NoDataWithoutNode
  BY DEF IInv
<1> QED BY <1>1, Invariance, PTL

LEMMA LatestForwards ==
  ASSUME IInv, Next, NEW n \in Nodes, NEW r \in Latest(db, n), NEW s \in Latest(db', n)
  PROVE  r.time <= s.time
<1>t. TypeOK /\ TypeOK'
  BY Typing DEF IInv
<1>r. /\ r \in db.reports /\ r.node = n /\ r.latest /\ r.time \in Nat
      /\ s \in db'.reports /\ s.node = n /\ s.latest
  BY <1>t, DatabaseFacts DEF Latest, TypeOK, Report
<1>1. CASE s \in db.reports
  <2>1. r = s
    BY <1>1, <1>r DEF IInv, OneLatest
  <2> QED BY <2>1, <1>r
<1>2. ASSUME NEW w \in Workers, StoreReport(w), s \notin db.reports
      PROVE  r.time <= s.time
  <2>1. s = Row(w)
    BY <1>2, <1>r, StoringReports
  <2>2. n = tx[w].cmd.node /\ IsLatest(w) /\ s.time = tx[w].cmd.time
    BY <2>1, <1>r DEF Row
  <2>3. r \in Marked(w)
    BY <1>2, <2>2 DEF StoreReport
  <2>4. r.time = tx[w].latest /\ tx[w].cmd.time > tx[w].latest
    BY <2>2, <2>3 DEF Marked, IsLatest
  <2>5. tx[w].cmd.time \in 1..MaxTime
    BY <1>2, <1>t, StoreEffect, CommandFacts
  <2> QED BY <2>2, <2>4, <2>5, <1>r
<1>3. CASE CollectEnvs
  <2>1. PICK x \in db.reports : s = StrippedOf(x) /\ Alike(x, s)
    BY <1>3, <1>t, <1>r, StrippedReports
  <2>2. x = r
    BY <2>1, <1>r DEF Alike, IInv, OneLatest
  <2> QED BY <2>1, <2>2, <1>r DEF Alike
<1>4. \/ db'.reports \subseteq db.reports \/ CollectEnvs
      \/ \E w \in Workers : StoreReport(w)
  BY <1>t, EraseEffect, SweepEffect, ReportsKept
<1> QED BY <1>1, <1>2, <1>3, <1>4, <1>r

(***************************************************************************)
(* Newer data is never replaced by older: commands may come out of order   *)
(* and be stored by several workers at once, or again after retry-sql.     *)
(* What disappears does so with its node or, a catalog, its environment.   *)
(***************************************************************************)
THEOREM OnlyForwards == Spec => NeverGoesBack
<1> DEFINE Forwards ==
      \A n \in Nodes :
       /\ \/ db.catalogs[n].time <= db'.catalogs[n].time
          \/ /\ db'.catalogs[n] = Absent
             /\ ~db'.status[n].known \/ db.catalogs[n].env \in Envs \ db'.envs
       /\ \/ db.factsets[n].time <= db'.factsets[n].time
          \/ db'.factsets[n] = Absent /\ ~db'.status[n].known
       /\ \A t \in LatestTimes(db, n), u \in LatestTimes(db', n) : t <= u
<1>1. ASSUME IInv, Next PROVE Forwards
  <2> SUFFICES ASSUME NEW n \in Nodes
      PROVE /\ \/ db.catalogs[n].time <= db'.catalogs[n].time
               \/ /\ db'.catalogs[n] = Absent
                  /\ ~db'.status[n].known \/ db.catalogs[n].env \in Envs \ db'.envs
            /\ \/ db.factsets[n].time <= db'.factsets[n].time
               \/ db'.factsets[n] = Absent /\ ~db'.status[n].known
            /\ \A t \in LatestTimes(db, n), u \in LatestTimes(db', n) : t <= u
    OBVIOUS
  <2>t. TypeOK
    BY <1>1 DEF IInv
  <2>d. db.catalogs[n].time \in Nat /\ db.factsets[n].time \in Nat
    BY <2>t, DatabaseFacts DEF TypeOK, Document, Times
  <2>1. \A t \in LatestTimes(db, n), u \in LatestTimes(db', n) : t <= u
    BY <1>1, LatestForwards DEF LatestTimes
  <2>2. CASE \E gone : Erases(gone)
    BY <2>1, <2>2, <2>t, <2>d, ErasedNode DEF Unknown
  <2>3. CASE \E w \in Workers : Commit(w)
    BY <2>1, <2>3, <2>t, <2>d, CommitEffect
  <2>4. CASE (\A gone : ~Erases(gone)) /\ \A w \in Workers : ~Commit(w)
    BY <2>1, <2>4, <1>1, <2>t, <2>d, DocumentsKept DEF IInv, Aimed
  <2> QED BY <2>2, <2>3, <2>4
<1>2. IInv /\ [Next]_vars => [Forwards]_vars
  BY <1>1
<1> QED BY <1>2, Invariance, PTL DEF Spec, NeverGoesBack

(***************************************************************************)
(* A deactivated or expired node comes back by a newer command only: the   *)
(* upsert of maybe-activate-node! decides on the row it finds, and not on  *)
(* the one that was read before.                                           *)
(***************************************************************************)
THEOREM RevivedOnlyByNewer == Spec => RevivedByNewer
<1> DEFINE ByNewer ==
      \A n \in Nodes :
       Inactive(db.status[n]) /\ db'.status[n] = Active =>
         \E w \in Workers :
           /\ tx[w] # NoTx
           /\ tx[w].cmd.node = n
           /\ \/ db.status[n].deactivated \in 1..(tx[w].cmd.time - 1)
              \/ db.status[n].expired \in 1..(tx[w].cmd.time - 1)
<1>1. ASSUME IInv, Next PROVE ByNewer
  <2> SUFFICES ASSUME NEW n \in Nodes, Inactive(db.status[n]), db'.status[n] = Active
      PROVE \E w \in Workers :
              /\ tx[w] # NoTx
              /\ tx[w].cmd.node = n
              /\ \/ db.status[n].deactivated \in 1..(tx[w].cmd.time - 1)
                 \/ db.status[n].expired \in 1..(tx[w].cmd.time - 1)
    OBVIOUS
  <2>1. Active.known /\ Active.deactivated = 0 /\ Active.expired = 0 /\ Active # Unknown
    BY DEF Active, Unknown
  <2>2. db.status[n] # Active
    BY <2>1 DEF Inactive
  <2>3. db.status[n].known
    BY <1>1 DEF IInv, UnknownIsBlank, Unknown, Inactive
  <2>4. PICK w \in Workers : RevivedBy(w, n)
    BY <1>1, <2>1, <2>2, StatusChange DEF IInv, DeactivatedBy, ExpiredNow
  <2>5. tx[w] # NoTx
    BY <2>4 DEF RevivedBy, MayWrite, NoTx
  <2> QED BY <2>3, <2>4, <2>5 DEF RevivedBy, MayWrite, Older
<1>2. IInv /\ [Next]_vars => [ByNewer]_vars
  BY <1>1
<1> QED BY <1>2, Invariance, PTL DEF Spec, RevivedByNewer
--------------------------------------------------------------------------------
(***************************************************************************)
(* Thoroughness.  What an option of the cleaning has to delete, before it; *)
(* a cleaning that nothing disturbs has it chosen when it deletes, and     *)
(* none of it comes back by the options after it.                          *)
(***************************************************************************)
Remains(o) ==
  IF o = "purge_nodes" THEN AllOverdue
  ELSE IF o = "gc_catalogs" THEN {e \in db.envs : \A n \in Nodes : ~Uses(db, n, e)}
  ELSE IF o = "gc_fact_paths"
  THEN {p \in db.paths : \A n \in Nodes : p \notin db.factsets[n].paths}
  ELSE {}

\* A purge may stop at its batch limit.
Excused(o) == o = "purge_nodes" /\ cleaner.cut

Cleared(o) == Remains(o) = {} \/ Excused(o)

Chosen(o) == /\ cleaner.doomed \subseteq Remains(o)
             /\ cleaner.doomed = Remains(o) \/ Excused(o)

Thorough == cleaner.quiet =>
  /\ cleaner.todo \subseteq cleaner.asked
  /\ \A o \in cleaner.asked \ cleaner.todo :
       Cleared(o) /\ \A p \in cleaner.todo : Rank[o] < Rank[p]
  /\ \A o \in Options : cleaner.chosen /\ Turn(o) => Chosen(o)

\* What remains is a matter of these alone.
LEMMA RemainsSame ==
  ASSUME UNCHANGED <<db, clock>>
  PROVE  \A o : Remains(o)' = Remains(o)
BY DEF Remains, AllOverdue, Overdue, Uses

\* An option that has been seen to, and those before it.
LEMMA DoneThorough ==
  ASSUME TypeOK, Thorough, NEW o \in Options, Turn(o), Done(o),
         cleaner.quiet => Remains(o)' = {} \/ Excused(o),
         \A p \in Options : Rank[p] < Rank[o] /\ Remains(p) = {} => Remains(p)' = {}
  PROVE  Thorough'
<1> SUFFICES ASSUME cleaner'.quiet PROVE Thorough'
  BY DEF Thorough
<1>1. /\ cleaner.quiet /\ cleaner'.asked = cleaner.asked /\ ~cleaner'.chosen
      /\ cleaner'.todo = cleaner.todo \ {o} /\ cleaner'.cut = cleaner.cut
      /\ cleaner.todo \subseteq Options /\ cleaner.asked \subseteq Options
  BY DEF Done, TypeOK, Cleaner
<1>2. cleaner'.todo \subseteq cleaner'.asked
  BY <1>1 DEF Thorough
<1>3. o \in cleaner.todo /\ \A p \in cleaner.todo : Rank[o] <= Rank[p]
  BY DEF Turn
<1>c. \A p : Excused(p)' <=> Excused(p)
  BY <1>1 DEF Excused
<1>4. ASSUME NEW p \in cleaner'.asked \ cleaner'.todo
      PROVE  Cleared(p)' /\ \A q \in cleaner'.todo : Rank[p] < Rank[q]
  <2>1. CASE p = o
    <3>1. \A q \in cleaner'.todo : q \in Options /\ q # o /\ Rank[o] <= Rank[q]
      BY <1>1, <1>3
    <3>2. \A q \in cleaner'.todo : Rank[o] < Rank[q]
      BY <3>1, Ranks
    <3> QED BY <1>1, <1>c, <2>1, <3>2 DEF Cleared
  <2>2. CASE p # o
    <3>1. p \in Options /\ p \in cleaner.asked \ cleaner.todo
      BY <1>1, <2>2
    <3>2. Cleared(p) /\ \A q \in cleaner.todo : Rank[p] < Rank[q]
      BY <1>1, <3>1 DEF Thorough
    <3> QED BY <1>1, <1>3, <1>c, <3>1, <3>2 DEF Cleared
  <2> QED BY <2>1, <2>2
<1> QED BY <1>1, <1>2, <1>4 DEF Thorough

LEMMA ChooseThorough ==
  ASSUME TypeOK, Thorough, NEW o \in Options, Turn(o), UNCHANGED <<db, clock>>,
         cleaner'.quiet = cleaner.quiet, cleaner'.asked = cleaner.asked,
         cleaner'.todo = cleaner.todo,
         o # "purge_nodes" => cleaner'.cut = cleaner.cut,
         cleaner'.doomed \subseteq Remains(o),
         cleaner'.doomed = Remains(o) \/ Excused(o)'
  PROVE  Thorough'
<1>1. cleaner.todo \subseteq Options
  BY DEF TypeOK, Cleaner
<1>2. \A p : Remains(p)' = Remains(p)
  BY RemainsSame
<1>3. ASSUME NEW p \in Options, Turn(p)' PROVE p = o
  <2>1. o \in cleaner.todo /\ p \in cleaner.todo /\ Rank[p] <= Rank[o] /\ Rank[o] <= Rank[p]
    BY <1>3 DEF Turn
  <2> QED BY <2>1, Ranks
<1>4. \A p \in Options : Turn(p)' => Chosen(p)'
  BY <1>2, <1>3 DEF Chosen
<1>5. ASSUME NEW p \in cleaner.asked \ cleaner.todo, Cleared(p) PROVE Cleared(p)'
  <2>1. CASE o # "purge_nodes"
    BY <1>2, <1>5, <2>1 DEF Cleared, Excused
  <2>2. CASE o = "purge_nodes" /\ p = "purge_nodes"
    BY <1>5, <2>2 DEF Turn
  <2>3. CASE p # "purge_nodes"
    BY <1>2, <1>5, <2>3 DEF Cleared, Excused
  <2> QED BY <2>1, <2>2, <2>3
<1> QED BY <1>1, <1>4, <1>5 DEF Thorough

LEMMA ChosenThorough ==
  ASSUME TypeOK, Thorough, NEW o \in Options, Choose(o, Remains(o))
  PROVE  Thorough'
<1>1. /\ cleaner'.quiet = cleaner.quiet /\ cleaner'.asked = cleaner.asked
      /\ cleaner'.todo = cleaner.todo /\ cleaner'.doomed = Remains(o)
      /\ cleaner'.cut = cleaner.cut /\ UNCHANGED <<db, clock>> /\ Turn(o)
  BY DEF Choose, TypeOK, Cleaner
<1> QED BY <1>1, ChooseThorough

\* What is deleted is all that remains, and uncovers nothing that was done.
LEMMA CleansThorough == ASSUME TypeOK, Thorough, Cleans PROVE Thorough'
<1>1. cleaner \in Cleaner /\ db \in Database
  BY DEF TypeOK
<1>2. CASE StartCleaning
  BY <1>2 DEF StartCleaning, Resting, Thorough
<1>3. CASE EndCleaning \/ GiveUpStep
  <2>1. CASE EndCleaning
    BY <2>1 DEF EndCleaning, Resting, Thorough
  <2>2. CASE GiveUpStep
    <3>1. PICK o \in Options :
            cleaner' = [cleaner EXCEPT !.todo = cleaner.todo \ {o},
                                       !.chosen = FALSE, !.doomed = {}, !.quiet = FALSE]
      BY <2>2 DEF GiveUpStep
    <3>2. ~cleaner'.quiet
      BY <1>1, <3>1 DEF Cleaner
    <3> QED BY <3>2 DEF Thorough
  <2> QED BY <1>3, <2>1, <2>2
<1>4. CASE ChoosePurge
  <2>1. cleaner'.doomed = Remains("purge_nodes") \/ Excused("purge_nodes")'
    BY <1>4, PurgeBatch DEF Remains, Excused
  <2>2. cleaner'.doomed \subseteq Remains("purge_nodes") /\ "purge_nodes" \in Options
    BY <1>4, PurgeBatch DEF Remains, Options
  <2> QED BY <1>4, <2>1, <2>2, PurgeBatch, ChooseThorough
<1>5. CASE ChooseEnvs
  BY <1>5, ChosenThorough DEF ChooseEnvs, Remains, Options
<1>6. CASE ChoosePaths
  BY <1>6, ChosenThorough DEF ChoosePaths, Remains, Options
<1>7. CASE Expire
  <2>1. Remains("expire_nodes")' = {}
    BY DEF Remains
  <2>2. \A p \in Options : ~(Rank[p] < Rank["expire_nodes"])
    BY Ranks DEF Options
  <2> QED BY <1>7, <2>1, <2>2, DoneThorough DEF Expire, Options
<1>8. CASE SweepReports
  <2>1. Remains("purge_reports")' = {}
    BY DEF Remains
  <2>2. db'.status = db.status /\ clock' = clock
    BY <1>8, SweepEffect DEF SweepReports
  <2>3. \A p \in Options : Rank[p] < Rank["purge_reports"] => p \in {"expire_nodes", "purge_nodes"}
    BY Ranks DEF Options
  <2>4. \A p \in {"expire_nodes", "purge_nodes"} : Remains(p)' = Remains(p)
    BY <2>2 DEF Remains, AllOverdue, Overdue
  <2> QED BY <1>8, <2>1, <2>3, <2>4, DoneThorough DEF SweepReports, Options
<1>9. CASE Purge
  <2> DEFINE gone == cleaner.doomed \cap Nodes
  <2>1. Erases(gone) /\ UNCHANGED clock
    BY <1>9 DEF Purge, Erases, Erase
  <2>2. cleaner.quiet => gone = AllOverdue \/ Excused("purge_nodes")
    BY <1>9 DEF Purge, Thorough, Chosen, Remains, Options, AllOverdue
  <2>3. \A n \in Nodes : IF n \in gone THEN db'.status[n] = Unknown
                                       ELSE db'.status[n] = db.status[n]
    BY <2>1, ErasedNode
  <2>4. Unknown.deactivated = 0 /\ Unknown.expired = 0 /\ clock \in Int /\ PurgeTtl \in Int
    BY DEF Unknown, TypeOK, StorageAssumption
  <2>5. gone = AllOverdue => \A n \in Nodes : ~Overdue(n)'
    BY <2>1, <2>3, <2>4 DEF Overdue, AllOverdue
  <2>6. cleaner.quiet => Remains("purge_nodes")' = {} \/ Excused("purge_nodes")
    BY <2>2, <2>5 DEF Remains, AllOverdue
  <2>7. \A p \in Options : Rank[p] < Rank["purge_nodes"] => p = "expire_nodes"
    BY Ranks DEF Options
  <2>8. Remains("expire_nodes")' = {}
    BY DEF Remains
  <2> QED BY <1>9, <2>6, <2>7, <2>8, DoneThorough DEF Purge, Options
<1>10. CASE CollectEnvs
  <2>1. /\ db'.envs = db.envs \ cleaner.doomed /\ db'.factsets = db.factsets
        /\ db'.status = db.status /\ clock' = clock
        /\ \A n \in Nodes : db'.catalogs[n] =
             IF db.catalogs[n].env \in cleaner.doomed THEN Absent ELSE db.catalogs[n]
    BY <1>10, CollectEffect
  <2>2. cleaner.quiet =>
          cleaner.doomed = {e \in db.envs : \A n \in Nodes : ~Uses(db, n, e)}
    BY <1>10 DEF CollectEnvs, Thorough, Chosen, Excused, Remains, Options
  <2>3. cleaner.quiet => \A e \in db'.envs : \E n \in Nodes : Uses(db', n, e)
    <3> SUFFICES ASSUME cleaner.quiet, NEW e \in db'.envs
                 PROVE  \E n \in Nodes : Uses(db', n, e)
      OBVIOUS
    <3>1. e \notin cleaner.doomed
      BY <2>1
    <3>2. PICK n \in Nodes : Uses(db, n, e)
      BY <2>1, <2>2
    <3>3. CASE \E r \in db.reports : r.node = n /\ r.env = e
      <4>1. PICK r \in db.reports : r.node = n /\ r.env = e
        BY <3>3
      <4>2. StrippedOf(r) \in db'.reports /\ StrippedOf(r).node = n
        BY <1>10, <4>1, StrippedReports DEF Alike
      <4>3. r \in Report
        BY <1>1, DatabaseFacts
      <4>4. StrippedOf(r).env = e
        BY <3>1, <4>1, <4>3 DEF StrippedOf, Report
      <4> QED BY <4>2, <4>4 DEF Uses
    <3>4. CASE ~\E r \in db.reports : r.node = n /\ r.env = e
      BY <2>1, <3>1, <3>2, <3>4 DEF Uses
    <3> QED BY <3>3, <3>4
  <2>4. cleaner.quiet => Remains("gc_catalogs")' = {}
    BY <2>3 DEF Remains
  <2>5. \A p \in Options : Rank[p] < Rank["gc_catalogs"] =>
          p \in {"expire_nodes", "purge_nodes", "purge_reports"}
    BY Ranks DEF Options
  <2>6. \A p \in {"expire_nodes", "purge_nodes", "purge_reports"} : Remains(p)' = Remains(p)
    BY <2>1 DEF Remains, AllOverdue, Overdue
  <2> QED BY <1>10, <2>4, <2>5, <2>6, DoneThorough DEF CollectEnvs, Options
<1>11. CASE CollectPaths
  <2>1. /\ db'.paths = db.paths \ cleaner.doomed /\ db'.factsets = db.factsets
        /\ db'.catalogs = db.catalogs /\ db'.envs = db.envs /\ db'.reports = db.reports
        /\ db'.status = db.status /\ clock' = clock
    BY <1>1, <1>11 DEF CollectPaths, Database
  <2>2. cleaner.quiet =>
          cleaner.doomed = {p \in db.paths : \A n \in Nodes : p \notin db.factsets[n].paths}
    BY <1>11 DEF CollectPaths, Thorough, Chosen, Excused, Remains, Options
  <2>3. cleaner.quiet => Remains("gc_fact_paths")' = {}
    BY <2>1, <2>2 DEF Remains
  <2>4. \A p \in Options \ {"gc_fact_paths"} : Remains(p)' = Remains(p)
    BY <2>1 DEF Remains, AllOverdue, Overdue, Uses, Options
  <2> QED BY <1>11, <2>3, <2>4, DoneThorough, Ranks DEF CollectPaths, Options
<1> QED BY <1>2, <1>3, <1>4, <1>5, <1>6, <1>7, <1>8, <1>9, <1>10, <1>11 DEF Cleans

LEMMA NextThorough == ASSUME TypeOK, Thorough, [Next]_vars PROVE Thorough'
<1>1. ASSUME Disturbs PROVE Thorough'
  BY <1>1 DEF Disturbs, TypeOK, Cleaner, Thorough
<1>2. ASSUME UNCHANGED <<db, cleaner, clock>> PROVE Thorough'
  <2>1. \A o : Remains(o)' = Remains(o)
    BY <1>2, RemainsSame
  <2>2. \A o : Cleared(o)' = Cleared(o) /\ Chosen(o)' = Chosen(o) /\ Turn(o)' = Turn(o)
    BY <1>2, <2>1 DEF Cleared, Chosen, Excused, Turn
  <2> QED BY <1>2, <2>2 DEF Thorough
<1>3. CASE Tick \/ \E n \in Nodes : DeleteNode(n)
  BY <1>1, <1>3 DEF Tick, DeleteNode
<1>4. ASSUME NEW w \in Workers, Stores(w) PROVE Thorough'
  BY <1>1, <1>2, <1>4
     DEF Stores, BeginReplace, Commit, BeginDeactivate, Deactivate, BeginReport,
         Activate, SkipReport, Check, Look, Place, StoreReport, Fail
<1> QED BY <1>2, <1>3, <1>4, CleansThorough DEF Next, vars

LEMMA AlwaysThorough == Spec => [](IInv /\ Thorough)
<1>1. Init => Thorough
  BY DEF Init, Resting, Thorough
<1>2. TypeOK /\ Thorough /\ [Next]_vars => Thorough'
  BY NextThorough
<1> QED BY <1>1, <1>2, Invariance, TypeCorrect, PTL DEF Spec

\* An undisturbed cleaning leaves nothing that a later one would have to
\* delete: its jobs run in an order in which none undoes what another relied
\* on (clean-up, the order of its jobs).
THEOREM NothingIsLeftOver == Spec => []CleaningIsThorough
<1>1. Thorough => CleaningIsThorough
  <2> SUFFICES ASSUME Thorough, cleaner.quiet, cleaner.todo = {}, cleaner.asked = Options
               PROVE  /\ \A e \in db.envs : \E n \in Nodes : Uses(db, n, e)
                      /\ \A p \in db.paths : \E n \in Nodes : p \in db.factsets[n].paths
                      /\ cleaner.cut \/ \A n \in Nodes : ~Overdue(n)
    BY DEF CleaningIsThorough
  <2>1. \A o \in Options : Cleared(o)
    BY DEF Thorough
  <2>2. /\ Remains("purge_nodes") = {} \/ cleaner.cut
        /\ Remains("gc_catalogs") = {} /\ Remains("gc_fact_paths") = {}
    BY <2>1 DEF Options, Cleared, Excused
  <2> QED BY <2>2 DEF Remains, AllOverdue
<1> QED BY <1>1, AlwaysThorough, PTL

--------------------------------------------------------------------------------
(***************************************************************************)
(* How far the races of the cleaning go.                                   *)
(***************************************************************************)
\* A factset's paths are realized, or are those of the factset it replaces.
LEMMA CommitRealizes ==
  ASSUME TypeOK, EveryPathHasRow, NEW w \in Workers, Commit(w)
  PROVE  EveryPathHasRow'
<1> DEFINE c == tx[w].cmd  seen == tx[w].seen
<1>1. /\ c \in Command /\ seen \in Database /\ c.node \in Nodes /\ db \in Database
  <2>1. tx[w] \in Tx /\ tx[w].at = "repeatable"
    BY DEF Commit, TypeOK
  <2> QED BY <2>1, TxFacts, CommandFacts DEF TypeOK
<1>2. /\ AsSeen(c, seen) /\ db' = Replaced(c, seen)
  BY DEF Commit
<1> HIDE DEF c, seen
<1> DEFINE m == c.node
           fresh == Stored(seen, c).time <= c.time
           doc == [time |-> c.time, env |-> c.env, paths |-> c.paths]
           f == IF fresh /\ c.kind = "facts" THEN doc ELSE db.factsets[m]
<1>3. /\ db'.factsets = [db.factsets EXCEPT ![m] = f]
      /\ db'.paths = IF fresh THEN db.paths \cup Realized(seen, c) ELSE db.paths
      /\ db.factsets \in [Nodes -> Document]
  BY <1>1, <1>2, DatabaseFacts DEF Replaced, Database
<1>4. f.paths \subseteq db'.paths
  <2>1. CASE fresh /\ c.kind = "facts"
    <3>1. Stored(db, c) = Stored(seen, c) /\ Stored(db, c) = db.factsets[m]
      BY <1>2, <2>1 DEF AsSeen, Stored
    <3>2. c.paths = db.factsets[m].paths \/ Realized(seen, c) = c.paths
      BY <3>1 DEF Realized
    <3> QED BY <1>1, <1>3, <2>1, <3>2 DEF EveryPathHasRow
  <2>2. CASE ~(fresh /\ c.kind = "facts")
    BY <1>1, <1>3, <2>2 DEF EveryPathHasRow
  <2> QED BY <2>1, <2>2
<1> HIDE DEF f
<1> QED BY <1>1, <1>3, <1>4 DEF EveryPathHasRow

LEMMA PathsKept ==
  ASSUME TypeOK, Next, \A w \in Workers : ~Commit(w), ~CollectPaths
  PROVE  db'.paths = db.paths
<1> USE DEF TypeOK
<1>1. CASE Tick
  BY <1>1 DEF Tick
<1>2. CASE Cleans
  <2>1. CASE CollectEnvs
    BY <2>1, CollectEffect
  <2>2. CASE Expire
    BY <2>2 DEF Expire, Database
  <2>3. CASE SweepReports
    BY <2>3 DEF SweepReports, Database
  <2>4. CASE Purge
    BY <2>4 DEF Purge, Erase, Database
  <2>5. CASE \/ StartCleaning \/ EndCleaning \/ GiveUpStep \/ ChoosePurge \/ ChooseEnvs
             \/ ChoosePaths
    BY <2>5 DEF StartCleaning, EndCleaning, GiveUpStep, ChoosePurge, Choose, ChooseEnvs,
       ChoosePaths
  <2> QED BY <1>2, <2>1, <2>2, <2>3, <2>4, <2>5 DEF Cleans
<1>3. ASSUME NEW w \in Workers, Stores(w)
      PROVE  db'.paths = db.paths
  <2>1. CASE Deactivate(w)
    BY <2>1 DEF Deactivate, Database
  <2>2. CASE SkipReport(w)
    BY <2>2 DEF SkipReport, Database
  <2>3. CASE StoreReport(w)
    BY <2>3 DEF StoreReport, Database
  <2>4. CASE \/ BeginReplace(w) \/ BeginDeactivate(w) \/ BeginReport(w) \/ Activate(w)
             \/ Check(w) \/ Look(w) \/ Place(w) \/ Fail(w)
    BY <2>4 DEF BeginReplace, BeginDeactivate, BeginReport, Activate, Check, Look, Place, Fail
  <2> QED BY <1>3, <2>1, <2>2, <2>3, <2>4 DEF Stores
<1>4. ASSUME NEW n \in Nodes, DeleteNode(n) PROVE db'.paths = db.paths
  BY <1>4 DEF DeleteNode, Erase, Database
<1> QED BY <1>1, <1>2, <1>3, <1>4 DEF Next

\* A path in use loses its row only when something was stored while
\* delete-unused-fact-paths was at work: not by a node that is purged, nor by
\* facts that replace others, nor by a collection left to itself.
THEOREM OnlyDisturbedCollectionsLosePaths ==
  Spec => [][EveryPathHasRow => EveryPathHasRow' \/ (CollectPaths /\ ~cleaner.quiet)]_vars
<1>1. ASSUME IInv, Thorough, Next, EveryPathHasRow, ~(CollectPaths /\ ~cleaner.quiet)
      PROVE  EveryPathHasRow'
  <2>t. TypeOK /\ db \in Database
    BY <1>1 DEF IInv, TypeOK
  <2>1. CASE \E w \in Workers : Commit(w)
    BY <1>1, <2>1, <2>t, CommitRealizes
  <2>2. CASE CollectPaths
    <3>1. cleaner.doomed = {p \in db.paths : \A n \in Nodes : p \notin db.factsets[n].paths}
      BY <1>1, <2>2 DEF CollectPaths, Thorough, Chosen, Excused, Remains, Options
    <3>2. db'.paths = db.paths \ cleaner.doomed /\ db'.factsets = db.factsets
      BY <2>2, <2>t DEF CollectPaths, Database
    <3> QED BY <1>1, <3>1, <3>2 DEF EveryPathHasRow
  <2>3. CASE ~CollectPaths /\ \A w \in Workers : ~Commit(w)
    <3>1. db'.paths = db.paths
      BY <1>1, <2>3, <2>t, PathsKept
    <3>2. \A n \in Nodes : db'.factsets[n] \in {db.factsets[n], Absent}
      <4>1. CASE \E gone : Erases(gone)
        BY <4>1, <2>t, ErasedNode
      <4>2. CASE \A gone : ~Erases(gone)
        BY <4>2, <1>1, <2>3, <2>t, DocumentsKept
      <4> QED BY <4>1, <4>2
    <3> QED BY <1>1, <3>1, <3>2 DEF EveryPathHasRow, Absent
  <2> QED BY <2>1, <2>2, <2>3
<1>2. IInv /\ Thorough /\ [Next]_vars =>
        [EveryPathHasRow => EveryPathHasRow' \/ (CollectPaths /\ ~cleaner.quiet)]_vars
  BY <1>1
<1> QED BY <1>2, AlwaysThorough, PTL DEF Spec

\* A purge that nothing disturbs deletes only nodes that are inactive: for
\* purge-deactivated-and-expired-nodes! to delete an active one, another
\* transaction must have written since the cleaning began, or time gone on.
THEOREM OnlyComebacksArePurged ==
  Spec => [][Purge /\ cleaner.quiet =>
               \A n \in cleaner.doomed : n \in Nodes /\ Inactive(db.status[n])]_vars
<1>1. ASSUME IInv, Thorough, Purge, cleaner.quiet, NEW n \in cleaner.doomed
      PROVE  n \in Nodes /\ Inactive(db.status[n])
  <2>1. cleaner.doomed \subseteq {m \in Nodes : Overdue(m)}
    BY <1>1 DEF Purge, Thorough, Chosen, Remains, AllOverdue, Options
  <2>2. db.status[n] \in Status /\ clock \in Int /\ PurgeTtl \in Int
    BY <1>1, <2>1, DatabaseFacts DEF IInv, TypeOK, StorageAssumption
  <2> QED BY <2>1, <2>2, StatusFacts DEF Overdue, Inactive, Times
<1>2. IInv /\ Thorough /\ [Next]_vars =>
        [Purge /\ cleaner.quiet =>
           \A n \in cleaner.doomed : n \in Nodes /\ Inactive(db.status[n])]_vars
  BY <1>1
<1> QED BY <1>2, AlwaysThorough, PTL DEF Spec
=============================================================================
