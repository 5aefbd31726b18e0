---------------------------- MODULE ContentStore ----------------------------
(***************************************************************************)
(* The PostgreSQL side of several service instances: schema migration,     *)
(* registration of the export target, and the content transactions of      *)
(* their scrape tasks (src/internal/storage/postgres_store.go, called by   *)
(* bootstrap.Run and by Executor.Execute).                                 *)
(*                                                                         *)
(* Transactions are READ COMMITTED: a statement sees what was committed    *)
(* when it began, and waits for the transaction that holds a key it        *)
(* inserts.  A row of a multi-row INSERT is a step, as another transaction *)
(* can come between two of them.  There is one export target, "notion".    *)
(*                                                                         *)
(* An operator whose name starts with Bug is a plausible mistake in the    *)
(* definition that follows it; no specification uses it.                   *)
(***************************************************************************)
EXTENDS Integers, Sequences

CONSTANTS
  Sessions,  \* service instances, each with one scrape worker
  Contents,  \* content IDs, as numbers in the order of their text
  Feeds,     \* what a fetch can yield, after the quality filter
  Legacy,    \* the contents of a version 1 database
  NoRow,     \* of a content that has no row
  MaxClock,  \* bound: the database's clock
  MaxFaults  \* bound: failed statements, lost replies and process ends

SchemaVersion == 2

ASSUME ContentStoreAssumption ==
  /\ Contents \subseteq Nat
  /\ Legacy \subseteq Contents
  /\ Feeds \subseteq Seq(Contents) \ {<<>>}
  /\ \A f \in Feeds : \A i, j \in DOMAIN f : f[i] = f[j] => i = j
  /\ NoRow \notin [by : Sessions \cup {"legacy"}, at : Nat]
  /\ "legacy" \notin Sessions
  /\ MaxClock \in Nat \ {0}
  /\ MaxFaults \in Nat

VARIABLES
  version, \* MAX(version) of schema_migrations, 0 for an empty database
  rows,    \* contents: who stored each content, and created_at
  columns, \* the export state in the contents table of version 1
  exports, \* content_exports: the export state of each content
  enabled, \* export_targets.enabled
  clock,   \* NOW()
  pc,      \* where each instance is
  tx,      \* its open transaction
  job,     \* the feed it has fetched and the contents it knew already
  answer,  \* what Execute has returned (history variable)
  missed,  \* contents one of two overlapping transactions has missed (history)
  faults   \* faults so far

database == <<version, rows, columns, exports, enabled>>
vars == <<database, clock, pc, tx, job, answer, missed, faults>>

-----------------------------------------------------------------------------
Records == [by : Sessions \cup {"legacy"}, at : 0 .. MaxClock]
States == {"none", "pending", "synced"}

(* A transaction: NOW() of its start, the version it has read, the rows it *)
(* has inserted, the positions of its batch still to insert, its upsert of *)
(* the target, and what its current statement saw.                         *)
NoTx == [at |-> 0, found |-> 0, todo |-> {}, rows |-> {}, exports |-> {},
         target |-> "none", sees |-> {}]
NoJob == [feed |-> <<>>, known |-> {}]

Ids(feed) == {feed[i] : i \in DOMAIN feed}
Stored == {c \in Contents : rows[c] # NoRow}
BatchOf(s) == Ids(job[s].feed) \ job[s].known

(* A database that is new, of version 1 with some of its contents already  *)
(* exported, current, or of a later version than this program's.           *)
Init ==
  /\ version \in 0 .. SchemaVersion + 1
  /\ LET old == IF version = 1 THEN Legacy ELSE {} IN
     /\ rows = [c \in Contents |-> IF c \in old THEN [by |-> "legacy", at |-> 0] ELSE NoRow]
     /\ columns \in {f \in [Contents -> States] : \A c \in Contents : f[c] = "none" <=> c \notin old}
  /\ exports = [c \in Contents |-> "none"]
  /\ enabled = "none"
  /\ clock = 1
  /\ pc = [s \in Sessions |-> "down"]
  /\ tx = [s \in Sessions |-> NoTx]
  /\ job = [s \in Sessions |-> NoJob]
  /\ answer = [s \in Sessions |-> "none"]
  /\ missed = {}
  /\ faults = 0

-----------------------------------------------------------------------------
Goto(s, where) == pc' = [pc EXCEPT ![s] = where]
Fault == faults < MaxFaults /\ faults' = faults + 1

Startup == {"locking", "reading", "changing", "recording", "upserting", "viewing", "backfilling", "registering"}
Storing == {"inserting", "selecting", "linking", "committing"}
Executing(s) == pc[s] \in Storing \cup {"processing"}

Released(s) == [tx EXCEPT ![s] = NoTx]

(* Initialize or RegisterTarget fails: Run returns and the process ends.   *)
Exits(s) ==
  /\ Goto(s, "down")
  /\ tx' = Released(s)
  /\ UNCHANGED <<database, clock, job, answer, missed>>

(* Execute returns, and the worker is free.                                *)
Returns(s, a) ==
  /\ Goto(s, "ready")
  /\ tx' = Released(s)
  /\ job' = [job EXCEPT ![s] = NoJob]
  /\ answer' = [answer EXCEPT ![s] = a]

-----------------------------------------------------------------------------
(* Initialize: pg_advisory_xact_lock is held until its transaction ends.   *)
Start(s) ==
  /\ pc[s] = "down"
  /\ Goto(s, "locking")
  /\ UNCHANGED <<database, clock, tx, job, answer, missed, faults>>

BugNoLock(s) == TRUE
BugSessionLock(s) == \A o \in Sessions \ {s} : pc[o] \in {"down", "locking"}
LockIsFree(s) == \A o \in Sessions \ {s} : pc[o] \notin {"reading", "changing", "recording"}

AcquireLock(s) ==
  /\ pc[s] = "locking"
  /\ LockIsFree(s)
  /\ Goto(s, "reading")
  /\ UNCHANGED <<database, clock, tx, job, answer, missed, faults>>

ReadVersion(s) ==
  /\ pc[s] = "reading"
  /\ IF version > SchemaVersion
     THEN Exits(s)
     ELSE /\ tx' = [tx EXCEPT ![s].found = version]
          /\ Goto(s, "changing")
          /\ UNCHANGED <<database, clock, job, answer, missed>>
  /\ UNCHANGED faults

(* The statements of version 2 say IF NOT EXISTS; the migration reads and  *)
(* drops columns and fails if they are gone.                               *)
ChangeSchema(s) ==
  /\ pc[s] = "changing"
  /\ IF tx[s].found = 1 /\ version # 1
     THEN Exits(s)
     ELSE /\ Goto(s, "recording")
          /\ UNCHANGED <<database, clock, tx, job, answer, missed>>
  /\ UNCHANGED faults

Migrated(c) == columns[c]

CommitSchema(s) ==
  /\ pc[s] = "recording"
  /\ version' = SchemaVersion
  /\ IF tx[s].found = 1
     THEN /\ exports' = [c \in Contents |-> Migrated(c)]
          /\ columns' = [c \in Contents |-> "none"]
          /\ enabled' = "TRUE"
     ELSE UNCHANGED <<exports, columns, enabled>>
  /\ tx' = Released(s)
  /\ Goto(s, "upserting")
  /\ UNCHANGED <<rows, clock, job, answer, missed, faults>>

-----------------------------------------------------------------------------
(* RegisterTarget, with the instance's NOTION_SYNC_ENABLED.  The upsert    *)
(* waits for another instance's.                                           *)
HoldsTarget(o) == tx[o].target # "none"

UpsertTarget(s) ==
  /\ pc[s] = "upserting"
  /\ \A o \in Sessions \ {s} : ~HoldsTarget(o)
  /\ \/ tx' = [tx EXCEPT ![s].target = "TRUE"] /\ Goto(s, "viewing")
     \/ tx' = [tx EXCEPT ![s].target = "FALSE"] /\ Goto(s, "registering")
  /\ UNCHANGED <<database, clock, job, answer, missed, faults>>

(* The contents that the backfill's SELECT sees.                           *)
BeginBackfill(s) ==
  /\ pc[s] = "viewing"
  /\ tx' = [tx EXCEPT ![s].sees = Stored]
  /\ Goto(s, "backfilling")
  /\ UNCHANGED <<database, clock, job, answer, missed, faults>>

(* An export row another transaction has inserted is waited for.           *)
Unlinked(S) == {c \in S : exports[c] = "none"}
LinkedElsewhere(s, S) ==
  {o \in Sessions \ {s} : Unlinked(S) \cap tx[o].exports # {}}

BugOnlyNewTarget(s) == IF enabled = "none" THEN Unlinked(tx[s].sees) ELSE {}
Backfilled(s) == Unlinked(tx[s].sees)

FinishBackfill(s) ==
  /\ pc[s] = "backfilling"
  /\ LinkedElsewhere(s, tx[s].sees) = {}
  /\ tx' = [tx EXCEPT ![s].exports = Backfilled(s)]
  /\ Goto(s, "registering")
  /\ UNCHANGED <<database, clock, job, answer, missed, faults>>

BugResetsState(c, s) == IF c \in tx[s].sees \cup tx[s].exports THEN "pending" ELSE exports[c]
LinkedBy(c, s) == IF c \in tx[s].exports THEN "pending" ELSE exports[c]

(* A content that was committed after the backfill's SELECT began was      *)
(* stored by a transaction that could not see the target enabled, unless   *)
(* it was enabled before.                                                  *)
MissedBySelect(s) ==
  CASE tx[s].target = "FALSE" -> missed
    [] tx[s].target # "FALSE" /\ enabled = "TRUE" -> missed \ tx[s].sees
    [] OTHER -> Stored \ tx[s].sees

CommitTarget(s) ==
  /\ pc[s] = "registering"
  /\ enabled' = tx[s].target
  /\ exports' = [c \in Contents |-> LinkedBy(c, s)]
  /\ missed' = MissedBySelect(s)
  /\ tx' = Released(s)
  /\ Goto(s, "ready")
  /\ UNCHANGED <<version, rows, columns, clock, job, answer, faults>>

-----------------------------------------------------------------------------
(* Execute up to ExistingContentIDs: what is known is dropped.             *)
Lookup(s) ==
  /\ pc[s] = "ready"
  /\ \E f \in Feeds : job' = [job EXCEPT ![s] = [feed |-> f, known |-> Ids(f) \cap Stored]]
  /\ answer' = [answer EXCEPT ![s] = "none"]
  /\ Goto(s, "processing")
  /\ UNCHANGED <<database, clock, tx, missed, faults>>

(* A processor fails: nothing is stored.                                   *)
ProcessingFails(s) ==
  /\ pc[s] = "processing"
  /\ Returns(s, "failed")
  /\ UNCHANGED <<database, clock, missed, faults>>

(* StoreContents begins; a batch without contents needs no transaction.    *)
BeginBatch(s) ==
  /\ pc[s] = "processing"
  /\ IF BatchOf(s) = {}
     THEN Returns(s, "stored")
     ELSE /\ tx' = [tx EXCEPT ![s].at = clock,
                              ![s].todo = {i \in DOMAIN job[s].feed : job[s].feed[i] \in BatchOf(s)}]
          /\ Goto(s, "inserting")
          /\ UNCHANGED <<job, answer>>
  /\ UNCHANGED <<database, clock, missed, faults>>

NextRow(s) == CHOOSE i \in tx[s].todo : \A j \in tx[s].todo : i <= j
Wanted(s) == job[s].feed[NextRow(s)]

BugSkipsHeld(s) == {}
HolderOf(s) == {o \in Sessions \ {s} : Wanted(s) \in tx[o].rows}

(* ON CONFLICT DO NOTHING, which is decided when the holder of the key has *)
(* committed or rolled back.                                               *)
InsertRow(s) ==
  /\ pc[s] = "inserting"
  /\ tx[s].todo # {}
  /\ HolderOf(s) = {}
  /\ tx' = [tx EXCEPT ![s].todo = @ \ {NextRow(s)},
                      ![s].rows = @ \cup ({Wanted(s)} \ Stored)]
  /\ UNCHANGED <<database, clock, pc, job, answer, missed, faults>>

(* The statement for the export rows begins: it sees the target as it is   *)
(* committed now.                                                          *)
BeginExports(s) ==
  /\ pc[s] = "inserting"
  /\ tx[s].todo = {}
  /\ tx' = [tx EXCEPT ![s].sees = IF enabled = "TRUE" THEN BatchOf(s) ELSE {}]
  /\ Goto(s, "linking")
  /\ UNCHANGED <<database, clock, job, answer, missed, faults>>

FinishExports(s) ==
  /\ pc[s] = "linking"
  /\ LinkedElsewhere(s, tx[s].sees) = {}
  /\ tx' = [tx EXCEPT ![s].exports = Unlinked(tx[s].sees)]
  /\ Goto(s, "committing")
  /\ UNCHANGED <<database, clock, job, answer, missed, faults>>

StoredBy(c, s) == IF c \in tx[s].rows THEN [by |-> s, at |-> tx[s].at] ELSE rows[c]

(* The commit, whose reply may get lost.                                   *)
CommitBatch(s) ==
  /\ pc[s] = "committing"
  /\ rows' = [c \in Contents |-> StoredBy(c, s)]
  /\ exports' = [c \in Contents |-> LinkedBy(c, s)]
  /\ missed' = IF enabled = "TRUE" THEN missed \cup (tx[s].rows \ tx[s].sees) ELSE missed
  /\ \/ Returns(s, "stored") /\ UNCHANGED faults
     \/ Returns(s, "failed") /\ Fault
  /\ UNCHANGED <<version, columns, enabled, clock>>

-----------------------------------------------------------------------------
(* Whose transaction the statement of s waits for.                         *)
WaitsFor(s) ==
  CASE pc[s] = "upserting" -> {o \in Sessions \ {s} : HoldsTarget(o)}
    [] pc[s] = "backfilling" \/ pc[s] = "linking" -> LinkedElsewhere(s, tx[s].sees)
    [] pc[s] = "inserting" /\ tx[s].todo # {} -> HolderOf(s)
    [] OTHER -> {}

(* PostgreSQL aborts one of a set of transactions that wait for each       *)
(* other: two batches with the same contents in different orders.          *)
AbortDeadlock(s) ==
  /\ pc[s] = "inserting"
  /\ \E D \in SUBSET Sessions :
       s \in D /\ \A d \in D : WaitsFor(d) \cap D # {}
  /\ Returns(s, "failed")
  /\ UNCHANGED <<database, clock, missed, faults>>

(* A statement or a commit fails, or the task is cancelled: the deferred   *)
(* Rollback releases what the transaction holds.                           *)
StatementFails(s) ==
  /\ Fault
  /\ \/ pc[s] \in Startup /\ Exits(s)
     \/ /\ pc[s] \in Storing
        /\ Returns(s, "failed")
        /\ UNCHANGED <<database, clock, missed>>

(* The process ends, and PostgreSQL rolls its transaction back.            *)
Crash(s) ==
  /\ pc[s] # "down"
  /\ Fault
  /\ Goto(s, "down")
  /\ tx' = [tx EXCEPT ![s] = NoTx]
  /\ job' = [job EXCEPT ![s] = NoJob]
  /\ answer' = [answer EXCEPT ![s] = "none"]
  /\ UNCHANGED <<database, clock, missed>>

(* An export is claimed, delivered and completed, as in ExportQueue.       *)
Export(c) ==
  /\ \E s \in Sessions : pc[s] \notin Startup \cup {"down"}
  /\ exports[c] = "pending"
  /\ exports' = [exports EXCEPT ![c] = "synced"]
  /\ UNCHANGED <<version, rows, columns, enabled, clock, pc, tx, job, answer, missed, faults>>

Tick ==
  /\ clock < MaxClock
  /\ clock' = clock + 1
  /\ UNCHANGED <<database, pc, tx, job, answer, missed, faults>>

-----------------------------------------------------------------------------
Initialize(s) == AcquireLock(s) \/ ReadVersion(s) \/ ChangeSchema(s) \/ CommitSchema(s)
RegisterTarget(s) == UpsertTarget(s) \/ BeginBackfill(s) \/ FinishBackfill(s) \/ CommitTarget(s)
StoreContents(s) ==
  BeginBatch(s) \/ InsertRow(s) \/ BeginExports(s) \/ FinishExports(s) \/ CommitBatch(s)

Next ==
  \/ \E s \in Sessions :
       \/ Start(s) \/ Initialize(s) \/ RegisterTarget(s) \/ StoreContents(s)
       \/ Lookup(s) \/ ProcessingFails(s)
       \/ AbortDeadlock(s) \/ StatementFails(s) \/ Crash(s)
  \/ \E c \in Contents : Export(c)
  \/ Tick

Spec == Init /\ [][Next]_vars

(* Statements are executed and deadlocks detected.  A transaction whose    *)
(* wait is over is woken at once, long before another one of an instance   *)
(* that has failed and begins anew can overtake it for ever.               *)
Fairness ==
  \A s \in Sessions :
    /\ SF_vars(Initialize(s) \/ RegisterTarget(s) \/ StoreContents(s))
    /\ WF_vars(AbortDeadlock(s))

FairSpec == Spec /\ Fairness

-----------------------------------------------------------------------------
Where == Startup \cup Storing \cup {"down", "ready", "processing"}

(* The shape of the state.                                                 *)
TypeOK ==
  /\ version \in 0 .. SchemaVersion + 1
  /\ rows \in [Contents -> Records \cup {NoRow}]
  /\ columns \in [Contents -> States]
  /\ exports \in [Contents -> States]
  /\ enabled \in {"none", "TRUE", "FALSE"}
  /\ clock \in 1 .. MaxClock
  /\ pc \in [Sessions -> Where]
  /\ tx \in [Sessions -> [at : 0 .. MaxClock, found : 0 .. SchemaVersion, todo : SUBSET Nat,
                          rows : SUBSET Contents, exports : SUBSET Contents,
                          target : {"none", "TRUE", "FALSE"}, sees : SUBSET Contents]]
  /\ job \in [Sessions -> [feed : Feeds \cup {<<>>}, known : SUBSET Contents]]
  /\ answer \in [Sessions -> {"none", "stored", "failed"}]
  /\ missed \subseteq Contents
  /\ faults \in 0 .. MaxFaults

(* Instances that start at the same time on one database upgrade it once,  *)
(* and none of them fails to start for it: an Initialize that begins on a  *)
(* database of this program or an older one ends only for a fault.         *)
StartupSucceeds ==
  [][\A s \in Sessions :
       pc[s] \in Startup /\ pc'[s] = "down" => faults' > faults \/ version > SchemaVersion]_vars

(* While the target is enabled every stored content has its export row,    *)
(* whatever instances register, disable and store at the same time; the    *)
(* one exception are contents whose transaction overlapped with the one    *)
(* that enabled the target, until an instance registers it again.          *)
ExportsFollow ==
  enabled = "TRUE" => \A c \in Stored : exports[c] # "none" \/ c \in missed

(* The state of an export, in whichever table the schema keeps it, is      *)
(* never lost: no migration, backfill or second batch makes a content that *)
(* was delivered one that is still to be delivered.                        *)
StateOf(c) == IF version = 1 THEN columns[c] ELSE exports[c]
ExportStateIsKept ==
  [][\A c \in Contents :
       /\ StateOf(c) = "synced" => StateOf(c)' = "synced"
       /\ StateOf(c) = "pending" => StateOf(c)' # "none"]_vars

(* No Initialize, registration or task waits for ever on what another      *)
(* instance holds: not in a deadlock of two batches, and not on the locks  *)
(* of one that has failed or crashed.                                      *)
EveryTransactionEnds ==
  \A s \in Sessions : pc[s] \notin {"down", "ready"} ~> pc[s] \in {"down", "ready"}

(* What the scrape tasks see is ContentCatalog: a task that is told its    *)
(* contents are stored finds all of them, one that fails has stored all    *)
(* or none, and the first stored record of a content stays.                *)
Catalog == INSTANCE ContentCatalog WITH
  catalog <- rows,
  asked <- [s \in Sessions |-> IF Executing(s) THEN Ids(job[s].feed) ELSE {}]
CatalogSpec == Catalog!Spec
=============================================================================
