-------------------------------- MODULE Storage --------------------------------
(***************************************************************************)
(* One write database as its concurrent users see it: transactions that    *)
(* store catalogs, facts and reports and deactivate nodes (the exec-       *)
(* functions of command.clj, scf/storage.clj), and the cleaning that runs  *)
(* under the clean lock (clean-up in cli/services.clj).                    *)
(*                                                                         *)
(* A repeatable read transaction reads what was committed when it began;   *)
(* it fails if a row it writes or refers to has changed by the time it     *)
(* commits.  A read committed one sees, at every statement, what is        *)
(* committed by then; a statement is a step here.  What a transaction      *)
(* writes shows when it commits.  The database itself is not part of the   *)
(* program: what is modelled of it is in Commit and in the guards that     *)
(* stand for its constraints.                                              *)
(***************************************************************************)
EXTENDS Integers, FiniteSets

CONSTANTS
  Nodes,        \* certnames
  Envs, NoEnv,  \* environments; a catalog, a factset or a report may have none
  Paths,        \* fact paths, whatever the types of their values
  Arriving,     \* the commands that arrive
  Workers,      \* connections that store commands
  NodeTtl,      \* node-ttl
  PurgeTtl,     \* node-purge-ttl
  ReportTtl,    \* report-ttl
  Requests,     \* what cleanings may be asked for, each a set of options
  BatchLimits,  \* batch_limit of their purges; a large one is none at all
  MaxTime,      \* bound: the last time on the clock
  MaxBegun,     \* bound: how many transactions store commands
  MaxCleans     \* bound: how many cleanings run and how many nodes are deleted

\* clean-options; "other" is gc_catalogs and gc_fact_paths once more.
Options == {"expire_nodes", "purge_nodes", "purge_reports", "gc_catalogs",
            "gc_fact_paths"}

ASSUME StorageAssumption ==
  /\ NoEnv \notin Envs
  /\ NodeTtl \in Nat /\ PurgeTtl \in Nat /\ ReportTtl \in Nat
  /\ Requests \subseteq SUBSET Options
  /\ BatchLimits \subseteq Nat
  /\ MaxTime \in Nat \ {0} /\ MaxBegun \in Nat /\ MaxCleans \in Nat

Times == 0..MaxTime    \* 0 is SQL's null

Document == [time: Times, env: Envs \cup {NoEnv}, paths: SUBSET Paths]
Absent   == [time |-> 0, env |-> NoEnv, paths |-> {}]

Status  == [known: BOOLEAN, deactivated: Times, expired: Times]
Unknown == [known |-> FALSE, deactivated |-> 0, expired |-> 0]
Active  == [known |-> TRUE, deactivated |-> 0, expired |-> 0]

\* Node, producer timestamp and type tell one report (one hash) from another.
\* The environment does not, and nor does it tell the constraints anything.
Report == [node: Nodes, time: 1..MaxTime, plan: BOOLEAN, latest: BOOLEAN,
           env: Envs \cup {NoEnv}]

Kinds   == {"catalog", "facts", "report", "deactivate"}
Command == {c \in [kind: Kinds, node: Nodes, time: 1..MaxTime,
                   env: Envs \cup {NoEnv}, paths: SUBSET Paths, plan: BOOLEAN] :
              /\ c.kind = "deactivate" => c.env = NoEnv
              /\ c.kind # "facts" => c.paths = {}
              /\ c.kind # "report" => ~c.plan}

ASSUME ArrivingAssumption == Arriving \subseteq Command

Database == [status:   [Nodes -> Status],
             catalogs: [Nodes -> Document],
             factsets: [Nodes -> Document],
             reports:  SUBSET Report,
             envs:     SUBSET Envs,
             paths:    SUBSET Paths]

VARIABLES
  db,       \* what is committed
  tx,       \* per worker, its transaction
  cleaner,  \* the cleaning that holds the clean lock
  clock,    \* the time of the server, which no producer's clock is ahead of
  begun,    \* history: how many transactions began
  cleans,   \* history: how many cleanings began, and deletions
  purged    \* history: the nodes that were purged or deleted at some time

vars == <<db, tx, cleaner, clock, begun, cleans, purged>>

NoTx == [at |-> "idle"]

Tx == {NoTx}
      \cup [at: {"repeatable"}, cmd: Command, seen: Database]
      \cup [at: {"deactivating"}, cmd: Command, upserts: BOOLEAN, stale: BOOLEAN]
      \cup [at: {"activating", "checking", "looking", "placing", "storing"},
            cmd: Command, upserts: BOOLEAN, latest: Times,
            env: {"none", "found", "new"}]

Cleaner == [busy: BOOLEAN, asked: SUBSET Options, todo: SUBSET Options,
            chosen: BOOLEAN, doomed: SUBSET (Nodes \cup Envs \cup Paths),
            cut: BOOLEAN, quiet: BOOLEAN]

Resting == [busy |-> FALSE, asked |-> {}, todo |-> {}, chosen |-> FALSE,
            doomed |-> {}, cut |-> FALSE, quiet |-> FALSE]

Empty == [status   |-> [n \in Nodes |-> Unknown],
          catalogs |-> [n \in Nodes |-> Absent],
          factsets |-> [n \in Nodes |-> Absent],
          reports  |-> {}, envs |-> {}, paths |-> {}]

Init == /\ db = Empty
        /\ tx = [w \in Workers |-> NoTx]
        /\ cleaner = Resting
        /\ clock = 1 /\ begun = 0 /\ cleans = 0 /\ purged = {}

Inactive(s) == s.deactivated # 0 \/ s.expired # 0

\* The rows of reports_latest.
Latest(d, n)     == {r \in d.reports : r.node = n /\ r.latest}
LatestTimes(d, n) == {r.time : r \in Latest(d, n)}

(***************************************************************************)
(* maybe-activate-node!: a status that was read, and one that an upsert    *)
(* finds.  The upsert clears both times if either is older than the        *)
(* command.                                                                *)
(***************************************************************************)
MayRevive(s, t) == \/ ~s.known
                   \/ Inactive(s) /\ ~(s.deactivated > t \/ s.expired > t)

\* An upsert without its condition.
RevivedAnyway(s, t) == [s EXCEPT !.known = TRUE, !.deactivated = 0, !.expired = 0]

Revived(s, t) == IF \/ ~s.known
                    \/ s.deactivated \in 1..(t - 1)
                    \/ s.expired \in 1..(t - 1)
                 THEN Active ELSE s

\* An upsert of a node's status locks that row up to the commit.
Locked(n) == \E w \in Workers : /\ tx[w].at \notin {"idle", "repeatable"}
                                /\ tx[w].upserts
                                /\ tx[w].cmd.node = n

\* History, for CleaningIsThorough: the cleaning is not alone.
Disturbs == cleaner' = [cleaner EXCEPT !.quiet = FALSE]

Ends(w) == tx' = [tx EXCEPT ![w] = NoTx]

Tick == /\ clock < MaxTime
        /\ clock' = clock + 1
        /\ Disturbs
        /\ UNCHANGED <<db, tx, begun, cleans, purged>>

Begins(w, t) == /\ tx[w] = NoTx
                /\ begun < MaxBegun
                /\ begun' = begun + 1
                /\ tx' = [tx EXCEPT ![w] = t]

(***************************************************************************)
(* Catalogs and facts (do-replace-catalog, do-replace-facts).              *)
(***************************************************************************)
BeginReplace(w) ==
  /\ \E c \in Arriving :
       /\ c.kind \in {"catalog", "facts"}
       /\ c.time <= clock
       /\ Begins(w, [at |-> "repeatable", cmd |-> c, seen |-> db])
  /\ UNCHANGED <<db, cleaner, clock, cleans, purged>>

Stored(d, c) == IF c.kind = "catalog" THEN d.catalogs[c.node] ELSE d.factsets[c.node]

\* realize-paths is called only for paths other than those stored before.
Realized(d, c) == IF Stored(d, c).time # 0 /\ Stored(d, c).paths = c.paths
                  THEN {} ELSE c.paths

\* The rows the transaction writes or refers to are as it saw them.  The
\* names it adds were not there, and those it found are still there.
AsSeen(c, seen) ==
  /\ MayRevive(seen.status[c.node], c.time) =>
       /\ ~Locked(c.node)
       /\ db.status[c.node] = seen.status[c.node]
  /\ Stored(seen, c).time <= c.time =>
       /\ Stored(db, c) = Stored(seen, c)
       /\ db.status[c.node].known = seen.status[c.node].known
       /\ c.env \in db.envs <=> c.env \in seen.envs
       /\ Realized(seen, c) \cap db.paths \subseteq seen.paths

Replaced(c, seen) ==
  LET n     == c.node
      fresh == Stored(seen, c).time <= c.time
      doc   == [time |-> c.time, env |-> c.env, paths |-> c.paths]
  IN  [db EXCEPT
        !.status[n]   = IF MayRevive(seen.status[n], c.time)
                        THEN Revived(seen.status[n], c.time) ELSE @,
        !.catalogs[n] = IF fresh /\ c.kind = "catalog" THEN doc ELSE @,
        !.factsets[n] = IF fresh /\ c.kind = "facts" THEN doc ELSE @,
        !.envs        = IF fresh THEN @ \cup ({c.env} \ {NoEnv}) ELSE @,
        !.paths       = IF fresh THEN @ \cup Realized(seen, c) ELSE @]

\* As if the transaction were read committed and had read it all just now,
\* except what it compared its timestamp with.
CommitBlindly(w) ==
  /\ tx[w].at = "repeatable"
  /\ db' = Replaced(tx[w].cmd, tx[w].seen)
  /\ Ends(w)
  /\ Disturbs
  /\ UNCHANGED <<clock, begun, cleans, purged>>

Commit(w) ==
  /\ tx[w].at = "repeatable"
  /\ AsSeen(tx[w].cmd, tx[w].seen)
  /\ db' = Replaced(tx[w].cmd, tx[w].seen)
  /\ Ends(w)
  /\ Disturbs
  /\ UNCHANGED <<clock, begun, cleans, purged>>

(***************************************************************************)
(* A serialization failure, a constraint that does not hold, a lost        *)
(* connection or a timeout: nothing is stored, and the command comes back. *)
(***************************************************************************)
Fail(w) ==
  /\ tx[w] # NoTx
  /\ Ends(w)
  /\ UNCHANGED <<db, cleaner, clock, begun, cleans, purged>>
(***************************************************************************)
(* Deactivation (exec-deactivate-node): ensure-certname and the search for *)
(* a newer record first, then the update.                                  *)
(***************************************************************************)
Newest(d, n) == {d.catalogs[n].time, d.factsets[n].time} \cup LatestTimes(d, n)

BeginDeactivate(w) ==
  /\ \E c \in Arriving :
       /\ c.kind = "deactivate"
       /\ c.time <= clock
       /\ db.status[c.node].known \/ ~Locked(c.node)
       /\ Begins(w, [at |-> "deactivating", cmd |-> c,
                     upserts |-> ~db.status[c.node].known,
                     stale |-> \E t \in Newest(db, c.node) : t > c.time])
  /\ UNCHANGED <<db, cleaner, clock, cleans, purged>>

Deactivated(s, t) == IF s.known /\ s.deactivated < t
                     THEN [s EXCEPT !.deactivated = t] ELSE s

Deactivate(w) ==
  LET n == tx[w].cmd.node
      s == IF tx[w].upserts THEN Active ELSE db.status[n]
  IN  /\ tx[w].at = "deactivating"
      /\ tx[w].upserts \/ ~Locked(n)
      /\ db' = [db EXCEPT !.status[n] =
                  IF tx[w].stale THEN s ELSE Deactivated(s, tx[w].cmd.time)]
      /\ Ends(w)
      /\ Disturbs
      /\ UNCHANGED <<clock, begun, cleans, purged>>

(***************************************************************************)
(* Reports (add-report!): every statement that reads is a step of its own. *)
(* The partitions a report needs are taken to exist.                       *)
(***************************************************************************)
BeginReport(w) ==
  /\ \E c \in Arriving :
       /\ c.kind = "report"
       /\ c.time <= clock
       /\ Begins(w, [at |-> IF MayRevive(db.status[c.node], c.time)
                            THEN "activating" ELSE "checking",
                     cmd |-> c, upserts |-> FALSE, latest |-> 0, env |-> "none"])
  /\ UNCHANGED <<db, cleaner, clock, cleans, purged>>

Activate(w) ==
  /\ tx[w].at = "activating"
  /\ ~Locked(tx[w].cmd.node)
  /\ tx' = [tx EXCEPT ![w].at = "checking", ![w].upserts = TRUE]
  /\ UNCHANGED <<db, cleaner, clock, begun, cleans, purged>>

StatusAfter(w) == LET s == db.status[tx[w].cmd.node]
                  IN  IF tx[w].upserts THEN Revived(s, tx[w].cmd.time) ELSE s

IsStored(c) == \E r \in db.reports :
                 r.node = c.node /\ r.time = c.time /\ r.plan = c.plan

\* A duplicate: the transaction ends here, with what it did for the status.
SkipReport(w) ==
  /\ tx[w].at = "checking"
  /\ IsStored(tx[w].cmd)
  /\ db' = [db EXCEPT !.status[tx[w].cmd.node] = StatusAfter(w)]
  /\ Ends(w)
  /\ Disturbs
  /\ UNCHANGED <<clock, begun, cleans, purged>>

Check(w) ==
  /\ tx[w].at = "checking"
  /\ ~IsStored(tx[w].cmd)
  /\ tx' = [tx EXCEPT ![w].at = "looking"]
  /\ UNCHANGED <<db, cleaner, clock, begun, cleans, purged>>

\* latest-report-metadata
Look(w) ==
  LET found == LatestTimes(db, tx[w].cmd.node)
  IN  /\ tx[w].at = "looking"
      /\ \E t \in IF found = {} THEN {0} ELSE found :
           tx' = [tx EXCEPT ![w].at = IF tx[w].cmd.env = NoEnv THEN "storing" ELSE "placing",
                            ![w].latest = t]
      /\ UNCHANGED <<db, cleaner, clock, begun, cleans, purged>>

\* ensure-environment: no constraint keeps a row that it finds.
Place(w) ==
  /\ tx[w].at = "placing"
  /\ tx' = [tx EXCEPT ![w].at  = "storing",
                      ![w].env = IF tx[w].cmd.env \in db.envs THEN "found" ELSE "new"]
  /\ UNCHANGED <<db, cleaner, clock, begun, cleans, purged>>

IsLatestOfAnyType(w) == tx[w].cmd.time > tx[w].latest

IsLatest(w) == ~tx[w].cmd.plan /\ tx[w].cmd.time > tx[w].latest

\* The report it found is no longer the latest, if it is the latest still.
Marked(w)   == {r \in Latest(db, tx[w].cmd.node) : IsLatest(w) /\ r.time = tx[w].latest}
Historic(w) == {[r EXCEPT !.latest = FALSE] : r \in Marked(w)}
Row(w)      == [node |-> tx[w].cmd.node, time |-> tx[w].cmd.time,
                plan |-> tx[w].cmd.plan, latest |-> IsLatest(w),
                env  |-> IF tx[w].env = "none" THEN NoEnv ELSE tx[w].cmd.env]

SameHash(r, s) == r.node = s.node /\ r.time = s.time /\ r.plan = s.plan

\* The constraints of the tables: at most one latest report per node, of a
\* node that exists; no report twice among either kind of rows; and no
\* environment twice.
StoreReport(w) ==
  LET n == tx[w].cmd.node
  IN  /\ tx[w].at = "storing"
      /\ IsLatest(w) => /\ Latest(db, n) = Marked(w)
                        /\ db.status[n].known \/ tx[w].upserts
      /\ \A r \in db.reports, s \in Historic(w) \cup {Row(w)} :
           SameHash(r, s) => r.latest # s.latest
      /\ tx[w].env = "new" => Row(w).env \notin db.envs
      /\ db' = [db EXCEPT !.status[n] = StatusAfter(w),
                          !.reports   = (@ \ Marked(w)) \cup Historic(w) \cup {Row(w)},
                          !.envs      = IF tx[w].env = "new" THEN @ \cup ({Row(w).env} \ {NoEnv})
                                                     ELSE @]
      /\ Ends(w)
      /\ Disturbs
      /\ UNCHANGED <<clock, begun, cleans, purged>>
(***************************************************************************)
(* Cleaning (clean-up), by whoever holds the clean lock: the options asked *)
(* for, in this order.                                                     *)
(***************************************************************************)
Rank == [expire_nodes |-> 1, purge_nodes |-> 2, purge_reports |-> 3,
         gc_catalogs |-> 4, gc_fact_paths |-> 5]

\* What is unassociated goes before the nodes that it was associated with.
TurnReversed(o) == /\ o \in cleaner.todo
                   /\ \A p \in cleaner.todo : Rank[o] >= Rank[p]

Turn(o) == /\ o \in cleaner.todo
           /\ \A p \in cleaner.todo : Rank[o] <= Rank[p]

StartCleaning ==
  /\ ~cleaner.busy
  /\ cleans < MaxCleans
  /\ \E r \in Requests :
       cleaner' = [Resting EXCEPT !.busy = TRUE, !.asked = r, !.todo = r, !.quiet = TRUE]
  /\ cleans' = cleans + 1
  /\ UNCHANGED <<db, tx, clock, begun, purged>>

EndCleaning ==
  /\ cleaner.busy
  /\ cleaner.todo = {}
  /\ cleaner' = Resting
  /\ UNCHANGED <<db, tx, clock, begun, cleans, purged>>

Done(o) == cleaner' = [cleaner EXCEPT !.todo = @ \ {o}, !.chosen = FALSE, !.doomed = {}]

\* Each step catches and logs its exceptions, and the cleaning goes on.
GiveUpStep ==
  /\ \E o \in Options :
       /\ Turn(o)
       /\ cleaner' = [cleaner EXCEPT !.todo = @ \ {o}, !.chosen = FALSE, !.doomed = {},
                                     !.quiet = FALSE]
  /\ UNCHANGED <<db, tx, clock, begun, cleans, purged>>

\* A step's first statement, or the rows that its only statement selects.
Choose(o, set) ==
  /\ Turn(o)
  /\ ~cleaner.chosen
  /\ cleaner' = [cleaner EXCEPT !.chosen = TRUE, !.doomed = set]
  /\ UNCHANGED <<db, tx, clock, begun, cleans, purged>>

\* expire-stale-nodes
Idle(n) == /\ db.status[n].known
           /\ ~Inactive(db.status[n])
           /\ \A t \in Newest(db, n) : t = 0 \/ t < clock - NodeTtl

\* The end of the node's next lease instead of the time of its expiry.
ExpireAhead ==
  /\ Turn("expire_nodes")
  /\ \A n \in Nodes : Idle(n) => ~Locked(n)
  /\ db' = [db EXCEPT !.status =
              [n \in Nodes |-> IF Idle(n) THEN [db.status[n] EXCEPT !.expired = clock + NodeTtl + 1]
                                          ELSE db.status[n]]]
  /\ Done("expire_nodes")
  /\ UNCHANGED <<tx, clock, begun, cleans, purged>>

Expire ==
  /\ Turn("expire_nodes")
  /\ \A n \in Nodes : Idle(n) => ~Locked(n)
  /\ db' = [db EXCEPT !.status =
              [n \in Nodes |-> IF Idle(n) THEN [db.status[n] EXCEPT !.expired = clock]
                                          ELSE db.status[n]]]
  /\ Done("expire_nodes")
  /\ UNCHANGED <<tx, clock, begun, cleans, purged>>

\* purge-deactivated-and-expired-nodes!: the search and, by name, the deletes
Overdue(n) == \/ db.status[n].deactivated \in 1..(clock - PurgeTtl - 1)
              \/ db.status[n].expired \in 1..(clock - PurgeTtl - 1)

AllOverdue == {n \in Nodes : Overdue(n)}

\* As many as the batch limit allows, in no particular order.
ChoosePurge ==
  /\ Turn("purge_nodes")
  /\ ~cleaner.chosen
  /\ \E limit \in BatchLimits, batch \in SUBSET AllOverdue :
       /\ Cardinality(batch) <= limit
       /\ batch = AllOverdue \/ Cardinality(batch) = limit
       /\ cleaner' = [cleaner EXCEPT !.chosen = TRUE, !.doomed = batch,
                                     !.cut = batch # AllOverdue]
  /\ UNCHANGED <<db, tx, clock, begun, cleans, purged>>

Without(rows, nothing, gone) == [n \in Nodes |-> IF n \in gone THEN nothing ELSE rows[n]]

\* The tables that name a node are cleared by hand or by a cascade.
Erase(gone) ==
  /\ \A n \in gone : ~Locked(n)
  /\ db' = [db EXCEPT !.status   = Without(@, Unknown, gone),
                      !.catalogs = Without(@, Absent, gone),
                      !.factsets = Without(@, Absent, gone),
                      !.reports  = {r \in @ : r.node \notin gone}]
  /\ purged' = purged \cup gone
  /\ UNCHANGED <<tx, clock, begun>>

Purge ==
  /\ Turn("purge_nodes")
  /\ cleaner.chosen
  /\ Erase(cleaner.doomed \cap Nodes)
  /\ Done("purge_nodes")
  /\ UNCHANGED cleans

\* delete-node, an administrator's request, does not wait for the clean lock.
DeleteNode(n) ==
  /\ cleans < MaxCleans
  /\ cleans' = cleans + 1
  /\ Erase({n})
  /\ Disturbs

\* sweep-reports!: partitions of reports that are not the latest, all those
\* that are old enough or, if incremental, the oldest of them
SweepReports ==
  /\ Turn("purge_reports")
  /\ \E t \in Times :
       /\ t <= clock - ReportTtl
       /\ db' = [db EXCEPT !.reports = {r \in @ : r.latest \/ r.time >= t}]
  /\ Done("purge_reports")
  /\ UNCHANGED <<tx, clock, begun, cleans, purged>>

\* delete-unassociated-environments!: the rows that the statement finds are
\* deleted, with the catalogs that refer to them by then; a factset that does
\* is in the way of the whole statement, and a report loses its environment
Uses(d, n, e) == \/ d.catalogs[n].env = e
                 \/ d.factsets[n].env = e
                 \/ \E r \in d.reports : r.node = n /\ r.env = e

ChooseEnvs == Choose("gc_catalogs", {e \in db.envs : \A n \in Nodes : ~Uses(db, n, e)})

CollectEnvs ==
  LET gone == cleaner.doomed
  IN  /\ Turn("gc_catalogs")
      /\ cleaner.chosen
      /\ \A n \in Nodes : db.factsets[n].env \notin gone
      /\ db' = [db EXCEPT
           !.envs     = @ \ gone,
           !.catalogs = [n \in Nodes |-> IF @[n].env \in gone THEN Absent ELSE @[n]],
           !.reports  = {[r EXCEPT !.env = IF @ \in gone THEN NoEnv ELSE @] : r \in @}]
      /\ tx' = [w \in Workers |->
                  IF tx[w].at = "storing" /\ tx[w].env = "found" /\ tx[w].cmd.env \in gone
                  THEN [tx[w] EXCEPT !.env = "none"] ELSE tx[w]]
      /\ Done("gc_catalogs")
      /\ UNCHANGED <<clock, begun, cleans, purged>>

\* fact-path-gc, a repeatable read transaction
ChoosePaths ==
  Choose("gc_fact_paths", {p \in db.paths : \A n \in Nodes : p \notin db.factsets[n].paths})

CollectPaths ==
  /\ Turn("gc_fact_paths")
  /\ cleaner.chosen
  /\ db' = [db EXCEPT !.paths = @ \ cleaner.doomed]
  /\ Done("gc_fact_paths")
  /\ UNCHANGED <<tx, clock, begun, cleans, purged>>

Stores(w) == \/ BeginReplace(w) \/ Commit(w)
             \/ BeginDeactivate(w) \/ Deactivate(w)
             \/ BeginReport(w) \/ Activate(w) \/ SkipReport(w) \/ Check(w)
             \/ Look(w) \/ Place(w) \/ StoreReport(w)
             \/ Fail(w)

Cleans == \/ StartCleaning \/ EndCleaning \/ GiveUpStep
          \/ Expire \/ ChoosePurge \/ Purge \/ SweepReports
          \/ ChooseEnvs \/ CollectEnvs \/ ChoosePaths \/ CollectPaths

Next == \/ Tick \/ Cleans
        \/ \E n \in Nodes : DeleteNode(n)
        \/ \E w \in Workers : Stores(w)

Spec == Init /\ [][Next]_vars

--------------------------------------------------------------------------------
(***************************************************************************)
(* Types.                                                                  *)
(***************************************************************************)
TypeOK == /\ db \in Database
          /\ tx \in [Workers -> Tx]
          /\ cleaner \in Cleaner
          /\ clock \in 1..MaxTime
          /\ begun \in 0..MaxBegun
          /\ cleans \in 0..MaxCleans
          /\ purged \subseteq Nodes

(***************************************************************************)
(* Whatever transactions run side by side, a node's newest agent report is *)
(* the one marked as the latest, and it alone, as long as the node is not  *)
(* purged (add-report!*, with the constraints of reports_latest).  After a *)
(* purge a report may be left, or come in, that was compared with one that *)
(* is gone.                                                                *)
(***************************************************************************)
LatestIsNewest ==
  \A n \in Nodes \ purged :
    LET agent == {r \in db.reports : r.node = n /\ ~r.plan}
    IN  agent # {} => \E r \in Latest(db, n) :
                        /\ r \in agent
                        /\ Latest(db, n) = {r}
                        /\ \A s \in agent : s.time <= r.time

(***************************************************************************)
(* A node's catalog, its facts and its latest report are replaced by newer *)
(* ones only, in whatever order the commands come and however their        *)
(* transactions overlap (replace-catalog!, replace-facts!, add-report!*,   *)
(* at the isolation their callers chose).  They disappear with their node, *)
(* and a catalog with its environment, which may be deleted although a     *)
(* catalog that uses it was stored just before; nothing else takes one.    *)
(***************************************************************************)
NeverGoesBack ==
  [][\A n \in Nodes :
       /\ \/ db.catalogs[n].time <= db'.catalogs[n].time
          \/ /\ db'.catalogs[n] = Absent
             /\ ~db'.status[n].known \/ db.catalogs[n].env \in Envs \ db'.envs
       /\ \/ db.factsets[n].time <= db'.factsets[n].time
          \/ db'.factsets[n] = Absent /\ ~db'.status[n].known
       /\ \A t \in LatestTimes(db, n), u \in LatestTimes(db', n) : t <= u]_vars

(***************************************************************************)
(* "Reactivate the given host, only if it was deactivated or expired       *)
(* before `time`": a node is never revived but by a command newer than its *)
(* deactivation or its expiry (maybe-activate-node!, storage.clj).  The    *)
(* status read first may be out of date when the upsert runs.              *)
(***************************************************************************)
RevivedByNewer ==
  [][\A n \in Nodes :
       Inactive(db.status[n]) /\ db'.status[n] = Active =>
         \E w \in Workers :
           /\ tx[w] # NoTx
           /\ tx[w].cmd.node = n
           /\ \/ db.status[n].deactivated \in 1..(tx[w].cmd.time - 1)
              \/ db.status[n].expired \in 1..(tx[w].cmd.time - 1)]_vars

(***************************************************************************)
(* "It is important that these jobs go after any jobs that may remove      *)
(* references": when everything was asked for, nothing was stored          *)
(* meanwhile and no step failed, no environment that no catalog, factset   *)
(* or report has is left, no fact path that no factset has, and, if the    *)
(* purge did not stop at its batch limit, no node whose time is up         *)
(* (clean-up, services.clj).  Of a path in use, a row for a former type of *)
(* its values may be left: "In the unusual case where a path changes type, *)
(* the previous version will linger" (delete-unused-fact-paths).           *)
(***************************************************************************)
CleaningIsThorough ==
  cleaner.busy /\ cleaner.quiet /\ cleaner.todo = {} /\ cleaner.asked = Options =>
    /\ \A e \in db.envs : \E n \in Nodes : Uses(db, n, e)
    /\ \A p \in db.paths : \E n \in Nodes : p \in db.factsets[n].paths
    /\ cleaner.cut \/ \A n \in Nodes : ~Overdue(n)

(***************************************************************************)
(* Nothing is stored for a node that is not there, although the node may   *)
(* be purged while a transaction stores something for it (delete-certnames!*)
(* deletes table after table, the activation comes first in a transaction).*)
(* Historical reports have no such constraint, and may be left.            *)
(***************************************************************************)
NoDataWithoutNode ==
  \A n \in Nodes : ~db.status[n].known =>
    db.catalogs[n] = Absent /\ db.factsets[n] = Absent /\ Latest(db, n) = {}

(***************************************************************************)
(* "Deletes nodes which have been *deactivated or expired* longer than     *)
(* node-purge-ttl" (services.clj, purge-nodes!): a node that is deleted is *)
(* not active.                                                             *)
(***************************************************************************)
PurgesOnlyInactive ==
  [][Purge => \A n \in cleaner.doomed : db.status[n].known
                                          => Inactive(db.status[n])]_vars

(***************************************************************************)
(* "Ensures that every path in the pathmaps has a corresponding row in     *)
(* fact_paths" (storage.clj, realize-paths).                               *)
(***************************************************************************)
EveryPathHasRow == \A n \in Nodes : db.factsets[n].paths \subseteq db.paths
=============================================================================
