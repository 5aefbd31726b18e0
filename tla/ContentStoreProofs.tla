------------------------- MODULE ContentStoreProofs -------------------------
(***************************************************************************)
(* Proofs about ContentStore, for every number of instances, contents and  *)
(* faults, every set of feeds and every content of an old database, and    *)
(* about ContentListing, for every page size as well.                      *)
(***************************************************************************)
EXTENDS ContentListing, FiniteSetTheorems, WellFoundedInduction, TLAPS

-----------------------------------------------------------------------------
Transaction ==
  [at : 0 .. MaxClock, found : 0 .. SchemaVersion, todo : SUBSET Nat,
   rows : SUBSET Contents, exports : SUBSET Contents,
   target : {"none", "TRUE", "FALSE"}, sees : SUBSET Contents]
Job == [feed : Feeds \cup {<<>>}, known : SUBSET Contents]

(* A worker's transaction goes through its batch, and only while it stores.*)
BatchIsLeft ==
  \A s \in Sessions :
    /\ Executing(s) => job[s].feed \in Feeds
    /\ tx[s].todo \subseteq DOMAIN job[s].feed
    /\ pc[s] # "inserting" => tx[s].todo = {}

Shape == TypeOK /\ BatchIsLeft

(* A batch that is not empty has a first element.                          *)
LEMMA FirstOfBatch ==
  ASSUME NEW S \in SUBSET Nat, S # {}
  PROVE  \E i \in S : \A j \in S : i <= j
<1>1. IsWellFoundedOn(OpToRel(<, Nat), Nat)
  BY NatLessThanWellFounded
<1>2. PICK i \in S : \A j \in S : ~(<<j, i>> \in OpToRel(<, Nat))
  BY <1>1, WFMin
<1>3. \A j \in S : ~(j < i)
  BY <1>2 DEF OpToRel
<1> QED
  BY <1>3

LEMMA Ids0 ==
  /\ Ids(<<>>) = {}
  /\ \A f \in Feeds : Ids(f) \subseteq Contents /\ Ids(f) # {} /\ DOMAIN f \subseteq Nat
<1>1. ASSUME NEW f \in Feeds PROVE Ids(f) \subseteq Contents /\ Ids(f) # {} /\ DOMAIN f \subseteq Nat
  <2>1. f \in Seq(Contents) /\ f # <<>>
    BY ContentStoreAssumption
  <2>2. DOMAIN f = 1 .. Len(f) /\ Len(f) \in Nat /\ f \in [1 .. Len(f) -> Contents]
    BY <2>1
  <2>3. Len(f) # 0
    BY <2>1
  <2>4. 1 \in DOMAIN f
    BY <2>2, <2>3
  <2> QED
    BY <2>2, <2>4 DEF Ids
<1>2. Ids(<<>>) = {}
  BY DEF Ids
<1> QED
  BY <1>1, <1>2

(* The next row to insert is one of the batch.                             *)
LEMMA WantedIsInBatch ==
  ASSUME Shape, NEW s \in Sessions, tx[s].todo # {}
  PROVE  /\ NextRow(s) \in tx[s].todo
         /\ Wanted(s) = job[s].feed[NextRow(s)]
         /\ Wanted(s) \in Ids(job[s].feed) /\ Wanted(s) \in Contents
<1>1. tx[s].todo \in SUBSET Nat /\ tx[s].todo \subseteq DOMAIN job[s].feed
  BY DEF Shape, TypeOK, BatchIsLeft
<1>2. NextRow(s) \in tx[s].todo
  BY <1>1, FirstOfBatch DEF NextRow
<1>3. job[s].feed \in Feeds \cup {<<>>}
  BY DEF Shape, TypeOK
<1> QED
  BY <1>1, <1>2, <1>3, Ids0 DEF Wanted, Ids

(* The next state of a session that has left its transaction.              *)
LEMMA NoTxShape == NoTx \in Transaction /\ NoJob \in Job
BY ContentStoreAssumption DEF NoTx, NoJob, Transaction, Job, SchemaVersion

LEMMA InitShape == Init => Shape
<1> SUFFICES ASSUME Init PROVE Shape
  OBVIOUS
<1> USE ContentStoreAssumption DEF Init, SchemaVersion
<1>1. TypeOK
  <2>1. [by |-> "legacy", at |-> 0] \in Records
    BY DEF Records
  <2>2. /\ tx \in [Sessions -> Transaction]
        /\ job \in [Sessions -> Job]
    BY NoTxShape
  <2>3. rows \in [Contents -> Records \cup {NoRow}]
    BY <2>1
  <2>4. columns \in [Contents -> States]
    OBVIOUS
  <2> QED
    BY <2>2, <2>3, <2>4 DEF TypeOK, Transaction, Job, States, Where
<1>2. BatchIsLeft
  BY DEF BatchIsLeft, Executing, Storing, NoTx
<1> QED
  BY <1>1, <1>2 DEF Shape

-----------------------------------------------------------------------------
(* The sessions other than s go on as they were.                           *)
OthersStay(s) ==
  \A o \in Sessions \ {s} :
    pc'[o] = pc[o] /\ tx'[o] = tx[o] /\ job'[o] = job[o] /\ answer'[o] = answer[o]

(* A step of s within its transaction.                                     *)
Within(s, where, t) ==
  /\ pc' = [pc EXCEPT ![s] = where]
  /\ tx' = [tx EXCEPT ![s] = t]
  /\ UNCHANGED <<job, answer>>

(* The end of what s does, with its transaction rolled back or committed.  *)
Ends(s, where) ==
  /\ pc' = [pc EXCEPT ![s] = where]
  /\ tx' = [tx EXCEPT ![s] = NoTx]
  /\ \/ UNCHANGED <<job, answer>>
     \/ \E a \in {"none", "stored", "failed"} :
          job' = [job EXCEPT ![s] = NoJob] /\ answer' = [answer EXCEPT ![s] = a]

(* Both keep the shape of what instances have.                             *)
SessionsHaveShape ==
  /\ pc' \in [Sessions -> Where]
  /\ tx' \in [Sessions -> Transaction]
  /\ job' \in [Sessions -> Job]
  /\ answer' \in [Sessions -> {"none", "stored", "failed"}]
  /\ BatchIsLeft'

LEMMA WithinHasShape ==
  ASSUME Shape, NEW s \in Sessions, NEW where \in Where, NEW t \in Transaction,
         Within(s, where, t), t.todo \subseteq DOMAIN job[s].feed,
         where # "inserting" => t.todo = {},
         where \in Storing \cup {"processing"} => job[s].feed \in Feeds
  PROVE  SessionsHaveShape
<1>1. tx \in [Sessions -> Transaction] /\ job \in [Sessions -> Job]
  BY DEF Shape, TypeOK, Transaction, Job
<1>2. BatchIsLeft'
  BY <1>1 DEF Within, Shape, TypeOK, BatchIsLeft, Executing
<1> QED
  BY <1>1, <1>2 DEF Within, SessionsHaveShape, Shape, TypeOK

LEMMA EndsHasShape ==
  ASSUME Shape, NEW s \in Sessions, NEW where \in {"down", "ready", "upserting"}, Ends(s, where)
  PROVE  SessionsHaveShape
<1>1. /\ tx \in [Sessions -> Transaction] /\ job \in [Sessions -> Job]
      /\ NoTx \in Transaction /\ NoJob \in Job /\ NoTx.todo = {}
  BY NoTxShape DEF Shape, TypeOK, Transaction, Job, NoTx
<1>2. BatchIsLeft'
  BY <1>1 DEF Ends, Shape, TypeOK, BatchIsLeft, Executing, Storing, NoTx
<1>3. where \in Where
  BY DEF Where, Startup
<1> QED
  BY <1>1, <1>2, <1>3 DEF Ends, SessionsHaveShape, Shape, TypeOK

(* Sessions and database of the next state make its shape.                 *)
LEMMA ShapeFromParts ==
  ASSUME SessionsHaveShape,
         version' \in 0 .. SchemaVersion + 1, rows' \in [Contents -> Records \cup {NoRow}],
         columns' \in [Contents -> States], exports' \in [Contents -> States],
         enabled' \in {"none", "TRUE", "FALSE"}, clock' \in 1 .. MaxClock,
         missed' \subseteq Contents, faults' \in 0 .. MaxFaults
  PROVE  Shape'
BY DEF SessionsHaveShape, Shape, TypeOK, Transaction, Job

(* What each action is, in these terms.                                    *)
LEMMA StartupSteps ==
  ASSUME Shape, NEW s \in Sessions
  PROVE  /\ Start(s) => Within(s, "locking", tx[s])
         /\ AcquireLock(s) => Within(s, "reading", tx[s])
         /\ ReadVersion(s) => \/ Ends(s, "down")
                              \/ /\ version \in 0 .. SchemaVersion
                                 /\ Within(s, "changing", [tx[s] EXCEPT !.found = version])
         /\ ChangeSchema(s) => Ends(s, "down") \/ Within(s, "recording", tx[s])
         /\ CommitSchema(s) => Ends(s, "upserting")
         /\ UpsertTarget(s) => \/ Within(s, "viewing", [tx[s] EXCEPT !.target = "TRUE"])
                               \/ Within(s, "registering", [tx[s] EXCEPT !.target = "FALSE"])
         /\ BeginBackfill(s) => Within(s, "backfilling", [tx[s] EXCEPT !.sees = Stored])
         /\ FinishBackfill(s) =>
              Within(s, "registering", [tx[s] EXCEPT !.exports = Unlinked(tx[s].sees)])
         /\ CommitTarget(s) => Ends(s, "ready")
<1> USE DEF Within, Ends, Goto, Released, Exits
<1>1. tx = [tx EXCEPT ![s] = tx[s]]
  BY DEF Shape, TypeOK
<1>2. Start(s) => Within(s, "locking", tx[s])
  BY <1>1 DEF Start
<1>3. AcquireLock(s) => Within(s, "reading", tx[s])
  BY <1>1 DEF AcquireLock
<1>4. ReadVersion(s) => \/ Ends(s, "down")
                       \/ /\ version \in 0 .. SchemaVersion
                          /\ Within(s, "changing", [tx[s] EXCEPT !.found = version])
  BY DEF ReadVersion, Shape, TypeOK, SchemaVersion
<1>5. ChangeSchema(s) => Ends(s, "down") \/ Within(s, "recording", tx[s])
  BY <1>1 DEF ChangeSchema
<1>6. CommitSchema(s) => Ends(s, "upserting")
  BY DEF CommitSchema
<1>7. UpsertTarget(s) => \/ Within(s, "viewing", [tx[s] EXCEPT !.target = "TRUE"])
                        \/ Within(s, "registering", [tx[s] EXCEPT !.target = "FALSE"])
  BY DEF UpsertTarget
<1>8. BeginBackfill(s) => Within(s, "backfilling", [tx[s] EXCEPT !.sees = Stored])
  BY DEF BeginBackfill
<1>9. FinishBackfill(s) =>
        Within(s, "registering", [tx[s] EXCEPT !.exports = Unlinked(tx[s].sees)])
  BY DEF FinishBackfill, Backfilled
<1>10. CommitTarget(s) => Ends(s, "ready")
  BY DEF CommitTarget
<1> QED
  BY <1>2, <1>3, <1>4, <1>5, <1>6, <1>7, <1>8, <1>9, <1>10

BeginsBatch(s) ==
  Within(s, "inserting", [tx[s] EXCEPT !.at = clock,
                            !.todo = {i \in DOMAIN job[s].feed : job[s].feed[i] \in BatchOf(s)}])

LEMMA TaskSteps ==
  ASSUME Shape, NEW s \in Sessions
  PROVE  /\ ProcessingFails(s) \/ AbortDeadlock(s) \/ CommitBatch(s) => Ends(s, "ready")
         /\ BeginBatch(s) => Ends(s, "ready") \/ BeginsBatch(s)
         /\ InsertRow(s) =>
              Within(s, "inserting", [tx[s] EXCEPT !.todo = @ \ {NextRow(s)},
                                                   !.rows = @ \cup ({Wanted(s)} \ Stored)])
         /\ BeginExports(s) =>
              Within(s, "linking", [tx[s] EXCEPT !.sees = IF enabled = "TRUE" THEN BatchOf(s) ELSE {}])
         /\ FinishExports(s) =>
              Within(s, "committing", [tx[s] EXCEPT !.exports = Unlinked(tx[s].sees)])
         /\ StatementFails(s) => Ends(s, "down") \/ Ends(s, "ready")
         /\ Crash(s) => Ends(s, "down")
<1> USE DEF Within, Ends, Goto, Released, Exits, Returns
<1>1. pc = [pc EXCEPT ![s] = pc[s]]
  BY DEF Shape, TypeOK
<1>2. ProcessingFails(s) => Ends(s, "ready")
  BY DEF ProcessingFails
<1>3. AbortDeadlock(s) => Ends(s, "ready")
  BY DEF AbortDeadlock
<1>4. CommitBatch(s) => Ends(s, "ready")
  BY DEF CommitBatch
<1>5. BeginBatch(s) => Ends(s, "ready") \/ BeginsBatch(s)
  BY DEF BeginBatch, BeginsBatch
<1>6. InsertRow(s) =>
        Within(s, "inserting", [tx[s] EXCEPT !.todo = @ \ {NextRow(s)},
                                             !.rows = @ \cup ({Wanted(s)} \ Stored)])
  BY <1>1 DEF InsertRow
<1>7. BeginExports(s) =>
        Within(s, "linking", [tx[s] EXCEPT !.sees = IF enabled = "TRUE" THEN BatchOf(s) ELSE {}])
  BY DEF BeginExports
<1>8. FinishExports(s) =>
        Within(s, "committing", [tx[s] EXCEPT !.exports = Unlinked(tx[s].sees)])
  BY DEF FinishExports
<1>9. StatementFails(s) => Ends(s, "down") \/ Ends(s, "ready")
  BY DEF StatementFails
<1>10. Crash(s) => Ends(s, "down")
  BY DEF Crash
<1> QED
  BY <1>2, <1>3, <1>4, <1>5, <1>6, <1>7, <1>8, <1>9, <1>10

(* A transaction's next state is one, whatever the step changes in it.     *)
LEMMA TransactionUpdates ==
  ASSUME NEW t \in Transaction
  PROVE  /\ \A v \in 0 .. SchemaVersion : [t EXCEPT !.found = v] \in Transaction
         /\ \A v \in {"TRUE", "FALSE"} : [t EXCEPT !.target = v] \in Transaction
         /\ \A S \in SUBSET Contents :
              [t EXCEPT !.sees = S] \in Transaction /\ [t EXCEPT !.exports = S] \in Transaction
         /\ \A n \in 0 .. MaxClock, D \in SUBSET Nat :
              [t EXCEPT !.at = n, !.todo = D] \in Transaction
         /\ \A D \in SUBSET Nat, S \in SUBSET Contents :
              [t EXCEPT !.todo = D, !.rows = S] \in Transaction
<1> USE DEF Transaction
<1>1. \A v \in 0 .. SchemaVersion : [t EXCEPT !.found = v] \in Transaction
  OBVIOUS
<1>2. \A v \in {"TRUE", "FALSE"} : [t EXCEPT !.target = v] \in Transaction
  OBVIOUS
<1>3. \A S \in SUBSET Contents :
        [t EXCEPT !.sees = S] \in Transaction /\ [t EXCEPT !.exports = S] \in Transaction
  OBVIOUS
<1>4. \A n \in 0 .. MaxClock, D \in SUBSET Nat : [t EXCEPT !.at = n, !.todo = D] \in Transaction
  OBVIOUS
<1>5. \A D \in SUBSET Nat, S \in SUBSET Contents : [t EXCEPT !.todo = D, !.rows = S] \in Transaction
  OBVIOUS
<1> QED
  BY <1>1, <1>2, <1>3, <1>4, <1>5

(* The shape a step of one session leaves.                                 *)
LEMMA StartupHasShape ==
  ASSUME Shape, NEW s \in Sessions, Start(s) \/ Initialize(s) \/ RegisterTarget(s)
  PROVE  SessionsHaveShape
<1>1. /\ tx[s] \in Transaction /\ tx[s].todo \subseteq DOMAIN job[s].feed
      /\ tx[s].sees \subseteq Contents /\ Stored \subseteq Contents
      /\ Unlinked(tx[s].sees) \subseteq Contents
  BY DEF Shape, TypeOK, BatchIsLeft, Transaction, Stored, Unlinked
<1>2. tx[s].todo = {}
  BY DEF Start, Initialize, RegisterTarget, AcquireLock, ReadVersion, ChangeSchema, CommitSchema,
     UpsertTarget, BeginBackfill, FinishBackfill, CommitTarget, Shape, BatchIsLeft
<1> DEFINE Places == {"locking", "reading", "changing", "recording", "viewing", "registering", "backfilling"}
           Fits(where, t) == t \in Transaction /\ t.todo = {} /\ Within(s, where, t)
<1>3. Places \subseteq Where \ (Storing \cup {"processing", "inserting"})
  BY DEF Where, Startup, Storing
<1>4. ASSUME NEW where \in Places, NEW t, Fits(where, t)
      PROVE  SessionsHaveShape
  BY <1>3, <1>4, WithinHasShape
<1>5. CASE Start(s) \/ AcquireLock(s) \/ ChangeSchema(s) \/ CommitSchema(s) \/ CommitTarget(s)
  BY <1>1, <1>2, <1>4, <1>5, StartupSteps, EndsHasShape
<1>6. CASE ReadVersion(s)
  <2>1. CASE Ends(s, "down")
    BY <2>1, EndsHasShape
  <2>2. CASE version \in 0 .. SchemaVersion /\ Within(s, "changing", [tx[s] EXCEPT !.found = version])
    <3>1. Fits("changing", [tx[s] EXCEPT !.found = version])
      BY <1>1, <1>2, <2>2, TransactionUpdates DEF Transaction
    <3> QED
      BY <3>1, <1>4
  <2> QED
    BY <1>6, <2>1, <2>2, StartupSteps
<1>7. CASE UpsertTarget(s)
  <2>1. PICK where \in {"viewing", "registering"}, v \in {"TRUE", "FALSE"} :
          Within(s, where, [tx[s] EXCEPT !.target = v])
    BY <1>7, StartupSteps
  <2>2. Fits(where, [tx[s] EXCEPT !.target = v])
    BY <1>1, <1>2, <2>1, TransactionUpdates DEF Transaction
  <2> QED
    BY <1>4, <2>2
<1>8. CASE BeginBackfill(s)
  <2>1. Fits("backfilling", [tx[s] EXCEPT !.sees = Stored])
    BY <1>1, <1>2, <1>8, StartupSteps, TransactionUpdates DEF Transaction
  <2> QED
    BY <1>4, <2>1
<1>9. CASE FinishBackfill(s)
  <2>1. Fits("registering", [tx[s] EXCEPT !.exports = Unlinked(tx[s].sees)])
    BY <1>1, <1>2, <1>9, StartupSteps, TransactionUpdates DEF Transaction
  <2> QED
    BY <1>4, <2>1
<1> QED
  BY <1>5, <1>6, <1>7, <1>8, <1>9 DEF Initialize, RegisterTarget

LEMMA TaskHasShape ==
  ASSUME Shape, NEW s \in Sessions,
         ProcessingFails(s) \/ StoreContents(s) \/ AbortDeadlock(s) \/ StatementFails(s) \/ Crash(s)
  PROVE  SessionsHaveShape
<1>1. CASE Ends(s, "ready") \/ Ends(s, "down")
  BY <1>1, EndsHasShape
<1>2. CASE \/ BeginBatch(s) /\ BeginsBatch(s)
           \/ InsertRow(s) \/ BeginExports(s) \/ FinishExports(s)
  <2>1. Executing(s) /\ job[s].feed \in Feeds /\ DOMAIN job[s].feed \subseteq Nat
    BY <1>2, Ids0 DEF BeginBatch, InsertRow, BeginExports, FinishExports, Executing, Storing, Shape, BatchIsLeft
  <2>2. /\ tx[s] \in Transaction /\ tx[s].todo \subseteq DOMAIN job[s].feed
        /\ tx[s].sees \subseteq Contents /\ tx[s].rows \subseteq Contents /\ clock \in 0 .. MaxClock
    BY DEF Shape, TypeOK, BatchIsLeft, Transaction
  <2>3. BatchOf(s) \subseteq Contents /\ Unlinked(tx[s].sees) \subseteq Contents
    BY <2>1, <2>2, Ids0 DEF BatchOf, Unlinked
  <2>4. \E where \in {"inserting", "linking", "committing"}, t \in Transaction :
          /\ Within(s, where, t) /\ t.todo \subseteq DOMAIN job[s].feed
          /\ where # "inserting" => t.todo = {}
    <3>1. CASE BeginBatch(s) /\ BeginsBatch(s)
      <4> DEFINE D == {i \in DOMAIN job[s].feed : job[s].feed[i] \in BatchOf(s)}
                 t == [tx[s] EXCEPT !.at = clock, !.todo = D]
      <4>1. D \in SUBSET Nat /\ D \subseteq DOMAIN job[s].feed
        BY <2>1
      <4>2. t \in Transaction /\ t.todo = D
        <5> HIDE DEF D
        <5> QED
          BY <2>2, <4>1, TransactionUpdates DEF Transaction
      <4> QED
        BY <3>1, <4>1, <4>2 DEF BeginsBatch
    <3>2. CASE InsertRow(s)
      <4> DEFINE D == tx[s].todo \ {NextRow(s)}
                 S == tx[s].rows \cup ({Wanted(s)} \ Stored)
                 t == [tx[s] EXCEPT !.todo = D, !.rows = S]
      <4>1. D \in SUBSET Nat /\ D \subseteq DOMAIN job[s].feed /\ S \in SUBSET Contents
        BY <2>1, <2>2, <3>2, WantedIsInBatch DEF InsertRow
      <4>2. t \in Transaction /\ t.todo = D
        <5> HIDE DEF D, S
        <5> QED
          BY <2>2, <4>1, TransactionUpdates DEF Transaction
      <4>3. Within(s, "inserting", t)
        BY <3>2, TaskSteps
      <4> QED
        BY <4>1, <4>2, <4>3
    <3>3. CASE BeginExports(s)
      <4> DEFINE S == IF enabled = "TRUE" THEN BatchOf(s) ELSE {}
                 t == [tx[s] EXCEPT !.sees = S]
      <4>1. S \in SUBSET Contents
        BY <2>3
      <4>2. t \in Transaction /\ t.todo = tx[s].todo
        <5> HIDE DEF S
        <5> QED
          BY <2>2, <4>1, TransactionUpdates DEF Transaction
      <4>3. Within(s, "linking", t)
        BY <3>3, TaskSteps
      <4>4. tx[s].todo = {}
        BY <3>3 DEF BeginExports
      <4> QED
        BY <2>2, <4>2, <4>3, <4>4
    <3>4. CASE FinishExports(s)
      <4> DEFINE t == [tx[s] EXCEPT !.exports = Unlinked(tx[s].sees)]
      <4>1. t \in Transaction /\ t.todo = tx[s].todo
        BY <2>2, <2>3, TransactionUpdates DEF Transaction
      <4>2. Within(s, "committing", t)
        BY <3>4, TaskSteps
      <4>3. tx[s].todo = {}
        BY <3>4 DEF FinishExports, Shape, BatchIsLeft
      <4> QED
        BY <2>2, <4>1, <4>2, <4>3
    <3> QED
      BY <1>2, <3>1, <3>2, <3>3, <3>4
  <2>5. {"inserting", "linking", "committing"} \subseteq Where
    BY DEF Where, Storing
  <2> QED
    BY <2>1, <2>4, <2>5, WithinHasShape
<1> QED
  BY <1>1, <1>2, TaskSteps DEF StoreContents

LEMMA LookupHasShape ==
  ASSUME Shape, NEW s \in Sessions, Lookup(s)
  PROVE  SessionsHaveShape
<1>1. PICK f \in Feeds : job' = [job EXCEPT ![s] = [feed |-> f, known |-> Ids(f) \cap Stored]]
  BY DEF Lookup
<1>2. [feed |-> f, known |-> Ids(f) \cap Stored] \in Job
  BY DEF Job, Stored
<1>3. /\ tx \in [Sessions -> Transaction] /\ job \in [Sessions -> Job]
      /\ tx' = tx /\ pc' = [pc EXCEPT ![s] = "processing"] /\ pc[s] = "ready"
      /\ answer' = [answer EXCEPT ![s] = "none"]
  BY DEF Lookup, Goto, Shape, TypeOK, Transaction, Job
<1>4. BatchIsLeft'
  BY <1>1, <1>3 DEF Shape, TypeOK, BatchIsLeft, Executing, Storing
<1> QED
  BY <1>1, <1>2, <1>3, <1>4 DEF SessionsHaveShape, Shape, TypeOK, Where

(* What commits leave in the database.                                     *)
LEMMA NextShape ==
  ASSUME Shape, [Next]_vars
  PROVE  Shape'
<1> USE ContentStoreAssumption
<1>1. /\ version \in 0 .. SchemaVersion + 1 /\ rows \in [Contents -> Records \cup {NoRow}]
      /\ columns \in [Contents -> States] /\ exports \in [Contents -> States]
      /\ enabled \in {"none", "TRUE", "FALSE"} /\ clock \in 1 .. MaxClock
      /\ missed \subseteq Contents /\ faults \in 0 .. MaxFaults
  BY DEF Shape, TypeOK
<1>2. CASE UNCHANGED vars
  BY <1>2 DEF vars, database, Shape, TypeOK, BatchIsLeft, Executing
<1>3. \A S \in SUBSET Contents : Stored \ S \subseteq Contents
  BY DEF Stored
<1>4. ASSUME Fault PROVE faults' \in 0 .. MaxFaults
  BY <1>1, <1>4 DEF Fault
<1>5. ASSUME NEW s \in Sessions, CommitSchema(s) PROVE Shape'
  <2>1. /\ version' = SchemaVersion /\ exports' \in [Contents -> States]
        /\ columns' \in [Contents -> States] /\ enabled' \in {"none", "TRUE", "FALSE"}
        /\ UNCHANGED <<rows, clock, missed, faults>>
    BY <1>1, <1>5 DEF CommitSchema, Migrated, States
  <2> QED
    BY <1>1, <1>5, <2>1, StartupHasShape, ShapeFromParts DEF Initialize, SchemaVersion
<1>6. ASSUME NEW s \in Sessions, CommitTarget(s) PROVE Shape'
  <2>1. tx[s].target \in {"none", "TRUE", "FALSE"}
    BY DEF Shape, TypeOK
  <2>2. /\ enabled' \in {"none", "TRUE", "FALSE"} /\ exports' \in [Contents -> States]
        /\ missed' \subseteq Contents /\ UNCHANGED <<version, rows, columns, clock, faults>>
    BY <1>1, <1>3, <1>6, <2>1 DEF CommitTarget, LinkedBy, MissedBySelect, States, Stored
  <2> QED
    BY <1>1, <1>6, <2>2, StartupHasShape, ShapeFromParts DEF RegisterTarget
<1>7. ASSUME NEW s \in Sessions, CommitBatch(s) PROVE Shape'
  <2>1. /\ tx[s].at \in 0 .. MaxClock /\ tx[s].rows \subseteq Contents
    BY DEF Shape, TypeOK
  <2>2. [by |-> s, at |-> tx[s].at] \in Records
    BY <2>1 DEF Records
  <2>3. rows' \in [Contents -> Records \cup {NoRow}]
    BY <1>1, <1>7, <2>2 DEF CommitBatch, StoredBy
  <2>4. /\ exports' \in [Contents -> States] /\ missed' \subseteq Contents
        /\ faults' \in 0 .. MaxFaults /\ UNCHANGED <<version, columns, enabled, clock>>
    BY <1>1, <1>4, <1>7, <2>1 DEF CommitBatch, LinkedBy, States
  <2> QED
    BY <1>1, <1>7, <2>3, <2>4, TaskHasShape, ShapeFromParts DEF StoreContents
<1>8. ASSUME NEW s \in Sessions,
             Start(s) \/ AcquireLock(s) \/ ReadVersion(s) \/ ChangeSchema(s) \/ UpsertTarget(s)
               \/ BeginBackfill(s) \/ FinishBackfill(s)
      PROVE  Shape'
  <2>1. UNCHANGED <<database, clock, missed, faults>>
    BY <1>8 DEF Start, AcquireLock, ReadVersion, ChangeSchema, UpsertTarget, BeginBackfill,
                FinishBackfill, Exits
  <2> QED
    BY <1>1, <1>8, <2>1, StartupHasShape, ShapeFromParts DEF Initialize, RegisterTarget, database
<1>9. ASSUME NEW s \in Sessions,
             ProcessingFails(s) \/ BeginBatch(s) \/ InsertRow(s) \/ BeginExports(s)
               \/ FinishExports(s) \/ AbortDeadlock(s) \/ StatementFails(s) \/ Crash(s)
      PROVE  Shape'
  <2>1. UNCHANGED <<database, clock, missed>>
    BY <1>9 DEF ProcessingFails, BeginBatch, InsertRow, BeginExports, FinishExports, AbortDeadlock,
                StatementFails, Crash, Exits
  <2>2. faults' \in 0 .. MaxFaults
    BY <1>1, <1>4, <1>9 DEF ProcessingFails, BeginBatch, InsertRow, BeginExports, FinishExports,
                AbortDeadlock, StatementFails, Crash
  <2> QED
    BY <1>1, <1>9, <2>1, <2>2, TaskHasShape, ShapeFromParts DEF StoreContents, database
<1>10. ASSUME NEW s \in Sessions, Lookup(s) PROVE Shape'
  <2>1. UNCHANGED <<database, clock, missed, faults>>
    BY <1>10 DEF Lookup
  <2> QED
    BY <1>1, <1>10, <2>1, LookupHasShape, ShapeFromParts DEF database
<1>11. ASSUME (\E c \in Contents : Export(c)) \/ Tick PROVE Shape'
  <2>1. UNCHANGED <<pc, tx, job, answer>>
    BY <1>11 DEF Export, Tick
  <2>2. SessionsHaveShape
    BY <2>1 DEF SessionsHaveShape, Shape, TypeOK, Transaction, Job, BatchIsLeft, Executing
  <2>3. /\ exports' \in [Contents -> States] /\ clock' \in 1 .. MaxClock
        /\ UNCHANGED <<version, rows, columns, enabled, missed, faults>>
    BY <1>1, <1>11 DEF Export, Tick, database, States
  <2> QED
    BY <1>1, <2>2, <2>3, ShapeFromParts
<1> QED
  BY <1>2, <1>5, <1>6, <1>7, <1>8, <1>9, <1>10, <1>11
     DEF Next, Initialize, RegisterTarget, StoreContents

(* The shape of the state is kept (a transaction's batch is part of it).   *)
THEOREM TypeCorrect == Spec => []TypeOK
<1>1. Shape /\ [Next]_vars => Shape'
  BY NextShape
<1>2. Shape => TypeOK
  BY DEF Shape
<1> QED
  BY InitShape, <1>1, <1>2, PTL DEF Spec

-----------------------------------------------------------------------------
(* Migrations exclude each other: nobody else is between its lock and its  *)
(* commit, so what a migration has read of the version is still true, and  *)
(* whoever is past it has the current schema.                              *)
Locked == {"reading", "changing", "recording"}
Migrations ==
  /\ \A s, o \in Sessions : pc[s] \in Locked /\ pc[o] \in Locked => s = o
  /\ \A s \in Sessions : pc[s] \in {"changing", "recording"} =>
       tx[s].found = version /\ version <= SchemaVersion
  /\ \A s \in Sessions : pc[s] \notin Locked \cup {"down", "locking"} => version = SchemaVersion
  /\ version = 1 => \A c \in Contents : rows[c] = NoRow <=> columns[c] = "none"

LEMMA InitMigrations == Init => Migrations
<1> SUFFICES ASSUME Init PROVE Migrations
  OBVIOUS
<1>1. \A r \in Records : r # NoRow
  BY ContentStoreAssumption DEF Records
<1>2. [by |-> "legacy", at |-> 0] # NoRow
  BY ContentStoreAssumption
<1> QED
  BY <1>2 DEF Init, Migrations, Locked

LEMMA NextMigrations ==
  ASSUME Shape, Migrations, [Next]_vars
  PROVE  Migrations'
<1> USE DEF Migrations, Locked
<1>0. /\ pc \in [Sessions -> Where] /\ tx \in [Sessions -> Transaction]
      /\ version \in 0 .. SchemaVersion + 1
  BY DEF Shape, TypeOK, Transaction
<1>1. CASE UNCHANGED vars
  BY <1>1 DEF vars, database
<1>2. ASSUME NEW s \in Sessions, Start(s) PROVE Migrations'
  BY <1>0, <1>2 DEF Start, Goto, database
<1>3. ASSUME NEW s \in Sessions, AcquireLock(s) PROVE Migrations'
  BY <1>0, <1>3 DEF AcquireLock, LockIsFree, Goto, database
<1>4. ASSUME NEW s \in Sessions, ReadVersion(s) PROVE Migrations'
  <2>1. UNCHANGED database /\ pc[s] = "reading"
    BY <1>4 DEF ReadVersion, Exits
  <2>2. CASE Ends(s, "down")
    BY <1>0, <2>1, <2>2 DEF Ends, database
  <2>3. CASE version \in 0 .. SchemaVersion /\ Within(s, "changing", [tx[s] EXCEPT !.found = version])
    <3>1. [tx[s] EXCEPT !.found = version].found = version
      BY <1>0 DEF Transaction
    <3> QED
      BY <1>0, <2>1, <2>3, <3>1 DEF Within, database, SchemaVersion
  <2> QED
    BY <1>4, <2>2, <2>3, StartupSteps
<1>5. ASSUME NEW s \in Sessions, ChangeSchema(s) PROVE Migrations'
  <2>1. UNCHANGED database /\ pc[s] = "changing"
    BY <1>5 DEF ChangeSchema, Exits
  <2> QED
    BY <1>0, <1>5, <2>1, StartupSteps DEF Ends, Within, database
<1>6. ASSUME NEW s \in Sessions, CommitSchema(s) PROVE Migrations'
  BY <1>0, <1>6 DEF CommitSchema, Released, Goto, SchemaVersion
<1>7. ASSUME NEW s \in Sessions, UpsertTarget(s) \/ BeginBackfill(s) \/ FinishBackfill(s)
      PROVE  Migrations'
  BY <1>0, <1>7 DEF UpsertTarget, BeginBackfill, FinishBackfill, Goto, database
<1>8. ASSUME NEW s \in Sessions, CommitTarget(s) PROVE Migrations'
  BY <1>0, <1>8 DEF CommitTarget, Released, Goto, SchemaVersion
<1>9. ASSUME NEW s \in Sessions, Lookup(s) PROVE Migrations'
  BY <1>0, <1>9 DEF Lookup, Goto, database
<1>10. ASSUME NEW s \in Sessions, NEW where \in {"down", "ready"}, Ends(s, where), UNCHANGED database,
              where = "ready" => version = SchemaVersion
       PROVE  Migrations'
  BY <1>0, <1>10 DEF Ends, database
<1>11. ASSUME NEW s \in Sessions, ProcessingFails(s) \/ AbortDeadlock(s) PROVE Migrations'
  <2>1. UNCHANGED database /\ version = SchemaVersion
    BY <1>11 DEF ProcessingFails, AbortDeadlock
  <2> QED
    BY <1>10, <1>11, <2>1, TaskSteps
<1>12. ASSUME NEW s \in Sessions, StatementFails(s) \/ Crash(s) PROVE Migrations'
  <2>1. UNCHANGED database
    BY <1>12 DEF StatementFails, Crash, Exits
  <2>2. \/ Ends(s, "down")
        \/ Ends(s, "ready") /\ version = SchemaVersion
    BY <1>12, TaskSteps DEF StatementFails, Storing, Exits, Ends, Goto, Released
  <2> QED
    BY <1>10, <2>1, <2>2
<1>13. ASSUME NEW s \in Sessions, BeginBatch(s) PROVE Migrations'
  <2>1. UNCHANGED database /\ version = SchemaVersion /\ pc[s] = "processing"
    BY <1>13 DEF BeginBatch
  <2>2. CASE Ends(s, "ready")
    BY <1>10, <2>1, <2>2
  <2>3. CASE BeginsBatch(s)
    BY <1>0, <2>1, <2>3 DEF BeginsBatch, Within, database
  <2> QED
    BY <1>13, <2>2, <2>3, TaskSteps
<1>14. ASSUME NEW s \in Sessions, InsertRow(s) \/ BeginExports(s) \/ FinishExports(s) PROVE Migrations'
  BY <1>0, <1>14 DEF InsertRow, BeginExports, FinishExports, Goto, database
<1>15. ASSUME NEW s \in Sessions, CommitBatch(s) PROVE Migrations'
  <2>1. Ends(s, "ready") /\ version = SchemaVersion /\ version' = version
    BY <1>15, TaskSteps DEF CommitBatch
  <2> QED
    BY <1>0, <2>1 DEF Ends, SchemaVersion
<1>16. ASSUME (\E c \in Contents : Export(c)) \/ Tick PROVE Migrations'
  BY <1>16 DEF Export, Tick, database
<1> QED
  BY <1>1, <1>2, <1>3, <1>4, <1>5, <1>6, <1>7, <1>8, <1>9, <1>11, <1>12, <1>13, <1>14, <1>15, <1>16
     DEF Next, Initialize, RegisterTarget, StoreContents

LEMMA MigrationsHold == Spec => [](Shape /\ Migrations)
<1>1. Shape /\ Migrations /\ [Next]_vars => (Shape /\ Migrations)'
  BY NextShape, NextMigrations
<1> QED
  BY InitShape, InitMigrations, <1>1, PTL DEF Spec

(* Only a fault, or the database of a later program, ends a start-up, for  *)
(* every number of instances that start at the same time.                  *)
THEOREM StartupSucceedsHolds == Spec => StartupSucceeds
<1>1. ASSUME Shape, Migrations, Next, NEW s \in Sessions, pc[s] \in Startup, pc'[s] = "down"
      PROVE  faults' > faults \/ version > SchemaVersion
  <2>1. ASSUME NEW o \in Sessions, StatementFails(o) \/ Crash(o) PROVE faults' > faults
    BY <1>1, <2>1, ContentStoreAssumption DEF StatementFails, Crash, Fault, Shape, TypeOK
  <2>2. ASSUME NEW o \in Sessions, ReadVersion(o), o = s PROVE version > SchemaVersion
    BY <1>1, <2>2 DEF ReadVersion, Goto, Shape, TypeOK
  <2>3. ASSUME NEW o \in Sessions, ChangeSchema(o), o = s PROVE FALSE
    BY <1>1, <2>3 DEF ChangeSchema, Goto, Migrations, Shape, TypeOK
  <2>4. /\ "down" \notin Startup /\ pc \in [Sessions -> Where]
    BY <1>1 DEF Startup, Shape, TypeOK
  <2>5. ASSUME NEW o \in Sessions, o # s, ReadVersion(o) \/ ChangeSchema(o) PROVE FALSE
    BY <1>1, <2>4, <2>5, StartupSteps DEF Ends, Within
  <2>6. ASSUME NEW o \in Sessions,
               Start(o) \/ AcquireLock(o) \/ CommitSchema(o) \/ RegisterTarget(o)
        PROVE  FALSE
    BY <1>1, <2>4, <2>6, StartupSteps DEF RegisterTarget, Ends, Within
  <2>7. ASSUME NEW o \in Sessions,
               StoreContents(o) \/ ProcessingFails(o) \/ AbortDeadlock(o)
        PROVE  FALSE
    BY <1>1, <2>4, <2>7, TaskSteps DEF StoreContents, BeginsBatch, Ends, Within
  <2>8. ASSUME NEW o \in Sessions, Lookup(o) PROVE FALSE
    BY <1>1, <2>4, <2>8 DEF Lookup, Goto
  <2>9. ASSUME (\E c \in Contents : Export(c)) \/ Tick PROVE FALSE
    BY <1>1, <2>4, <2>9 DEF Export, Tick
  <2> QED
    BY <1>1, <2>1, <2>2, <2>3, <2>5, <2>6, <2>7, <2>8, <2>9 DEF Next, Initialize
<1>2. Shape /\ Migrations /\ [Next]_vars =>
        [\A s \in Sessions :
           pc[s] \in Startup /\ pc'[s] = "down" => faults' > faults \/ version > SchemaVersion]_vars
  BY <1>1
<1> QED
  BY MigrationsHold, <1>2, PTL DEF Spec, StartupSucceeds

-----------------------------------------------------------------------------
(* What transactions hold: a row or an export one of them has inserted is  *)
(* in no other and not yet in its table, whatever was committed meanwhile. *)
Linking(s) == pc[s] \in {"committing", "registering"}
RowsAreHeld ==
  /\ \A s \in Sessions : \A c \in tx[s].rows : rows[c] = NoRow
  /\ \A s, o \in Sessions : s # o => tx[s].rows \cap tx[o].rows = {}
  /\ \A s \in Sessions : tx[s].rows # {} => pc[s] \in {"inserting", "linking", "committing"}
ExportsAreHeld ==
  /\ \A s \in Sessions : \A c \in tx[s].exports : exports[c] = "none"
  /\ \A s, o \in Sessions : s # o => tx[s].exports \cap tx[o].exports = {}
  /\ \A s \in Sessions : tx[s].exports # {} => Linking(s)

LEMMA InitHeld == Init => RowsAreHeld /\ ExportsAreHeld
BY DEF Init, RowsAreHeld, ExportsAreHeld, NoTx

(* A step that inserts nothing, and commits nothing it does not drop.      *)
LEMMA NothingInserted ==
  ASSUME NEW s \in Sessions, Shape,
         \A o \in Sessions \ {s} : pc'[o] = pc[o] /\ tx'[o] = tx[o],
         \/ tx'[s].rows = {}
         \/ /\ tx'[s].rows = tx[s].rows
            /\ pc[s] = pc'[s] \/ pc'[s] \in {"inserting", "linking", "committing"},
         \/ tx'[s].exports = {}
         \/ tx'[s].exports = tx[s].exports /\ (pc[s] = pc'[s] \/ Linking(s)'),
         \A c \in Contents :
           /\ rows'[c] # rows[c] => c \in tx[s].rows /\ tx'[s].rows = {}
           /\ exports[c] = "none" /\ exports'[c] # "none" =>
                \/ c \in tx[s].exports /\ tx'[s].exports = {}
                \/ \A o \in Sessions : ~Linking(o)
  PROVE  (RowsAreHeld => RowsAreHeld') /\ (ExportsAreHeld => ExportsAreHeld')
<1>1. \A o \in Sessions : tx[o].rows \subseteq Contents /\ tx[o].exports \subseteq Contents
  BY DEF Shape, TypeOK
<1>2. RowsAreHeld => RowsAreHeld'
  BY <1>1 DEF RowsAreHeld
<1>3. ExportsAreHeld => ExportsAreHeld'
  BY <1>1 DEF ExportsAreHeld, Linking
<1> QED
  BY <1>2, <1>3

Held == RowsAreHeld /\ ExportsAreHeld

LEMMA NextHeld ==
  ASSUME Shape, Migrations, Held, [Next]_vars
  PROVE  Held'
<1> USE DEF Held
<1>0. /\ pc \in [Sessions -> Where] /\ tx \in [Sessions -> Transaction]
      /\ exports \in [Contents -> States] /\ rows \in [Contents -> Records \cup {NoRow}]
  BY DEF Shape, TypeOK, Transaction
<1>1. CASE UNCHANGED vars
  BY <1>1 DEF vars, database, RowsAreHeld, ExportsAreHeld, Linking
<1>2. ASSUME NEW s \in Sessions, NEW where, Ends(s, where),
             \A c \in Contents :
               /\ rows'[c] # rows[c] => c \in tx[s].rows
               /\ exports[c] = "none" /\ exports'[c] # "none" =>
                    c \in tx[s].exports \/ \A o \in Sessions : ~Linking(o)
      PROVE  Held'
  <2>1. tx'[s].rows = {} /\ tx'[s].exports = {}
    BY <1>0, <1>2 DEF Ends, NoTx
  <2>2. \A o \in Sessions \ {s} : pc'[o] = pc[o] /\ tx'[o] = tx[o]
    BY <1>0, <1>2 DEF Ends
  <2> QED
    BY <1>2, <2>1, <2>2, NothingInserted
<1>3. ASSUME NEW s \in Sessions, NEW where, NEW t, Within(s, where, t), UNCHANGED database,
             t.rows = tx[s].rows, t.exports = tx[s].exports,
             pc[s] = where \/ tx[s].rows = {} \/ where \in {"inserting", "linking", "committing"},
             tx[s].exports = {}
      PROVE  Held'
  <2>1. /\ tx'[s] = t /\ pc'[s] = where
        /\ \A o \in Sessions \ {s} : pc'[o] = pc[o] /\ tx'[o] = tx[o]
    BY <1>0, <1>3 DEF Within
  <2> QED
    BY <1>3, <2>1, NothingInserted DEF database
<1>4. \A s \in Sessions :
        /\ pc[s] \notin {"inserting", "linking", "committing"} => tx[s].rows = {}
        /\ ~Linking(s) => tx[s].exports = {}
  BY DEF RowsAreHeld, ExportsAreHeld
<1>5. ASSUME NEW s \in Sessions, Start(s) \/ AcquireLock(s) \/ ReadVersion(s) \/ ChangeSchema(s)
                                   \/ UpsertTarget(s) \/ BeginBackfill(s)
      PROVE  Held'
  <2>1. UNCHANGED database /\ tx[s].rows = {} /\ tx[s].exports = {}
    BY <1>4, <1>5 DEF Start, AcquireLock, ReadVersion, ChangeSchema, UpsertTarget, BeginBackfill, Exits, Linking
  <2>2. \/ Ends(s, "down")
        \/ \E where : \/ Within(s, where, tx[s])
                      \/ \E v : \/ Within(s, where, [tx[s] EXCEPT !.found = v])
                                \/ Within(s, where, [tx[s] EXCEPT !.target = v])
                                \/ Within(s, where, [tx[s] EXCEPT !.sees = v])
    BY <1>5, StartupSteps
  <2>3. CASE Ends(s, "down")
    BY <1>2, <2>1, <2>3 DEF database
  <2>4. ASSUME NEW where, Within(s, where, tx[s]) PROVE Held'
    BY <1>3, <2>1, <2>4
  <2>5. tx[s] \in Transaction
    BY <1>0
  <2>6. ASSUME NEW where, NEW v, Within(s, where, [tx[s] EXCEPT !.found = v])
        PROVE  Held'
    <3>1. [tx[s] EXCEPT !.found = v].rows = tx[s].rows /\ [tx[s] EXCEPT !.found = v].exports = tx[s].exports
      BY <2>5 DEF Transaction
    <3> QED
      BY <1>3, <2>1, <2>6, <3>1
  <2>7. ASSUME NEW where, NEW v, Within(s, where, [tx[s] EXCEPT !.target = v])
        PROVE  Held'
    <3>1. [tx[s] EXCEPT !.target = v].rows = tx[s].rows /\ [tx[s] EXCEPT !.target = v].exports = tx[s].exports
      BY <2>5 DEF Transaction
    <3> QED
      BY <1>3, <2>1, <2>7, <3>1
  <2>8. ASSUME NEW where, NEW v, Within(s, where, [tx[s] EXCEPT !.sees = v])
        PROVE  Held'
    <3>1. [tx[s] EXCEPT !.sees = v].rows = tx[s].rows /\ [tx[s] EXCEPT !.sees = v].exports = tx[s].exports
      BY <2>5 DEF Transaction
    <3> QED
      BY <1>3, <2>1, <2>8, <3>1
  <2> QED
    BY <2>2, <2>3, <2>4, <2>6, <2>7, <2>8
<1>6. ASSUME NEW s \in Sessions, CommitSchema(s) PROVE Held'
  <2>1. Ends(s, "upserting") /\ UNCHANGED rows
    BY <1>6, StartupSteps DEF CommitSchema
  <2>2. tx[s].found = version
    BY <1>6 DEF CommitSchema, Migrations
  <2>3. UNCHANGED exports \/ \A o \in Sessions : ~Linking(o)
    BY <1>6, <2>2 DEF CommitSchema, Migrations, Linking, Locked, SchemaVersion
  <2> QED
    BY <1>2, <2>1, <2>3
<1>7. ASSUME NEW s \in Sessions, CommitTarget(s) \/ CommitBatch(s) PROVE Held'
  <2>1. Ends(s, "ready")
    BY <1>7, StartupSteps, TaskSteps
  <2>2. \A c \in Contents :
          /\ rows'[c] # rows[c] => c \in tx[s].rows
          /\ exports'[c] # exports[c] => c \in tx[s].exports
    BY <1>0, <1>7 DEF CommitTarget, CommitBatch, StoredBy, LinkedBy
  <2> QED
    BY <1>2, <2>1, <2>2
<1>8. ASSUME NEW s \in Sessions, FinishBackfill(s) \/ FinishExports(s) PROVE Held'
  <2>1. PICK where \in {"registering", "committing"} :
          /\ Within(s, where, [tx[s] EXCEPT !.exports = Unlinked(tx[s].sees)])
          /\ where = "registering" => tx[s].rows = {}
    BY <1>4, <1>8, StartupSteps, TaskSteps DEF FinishBackfill
  <2>2. /\ pc'[s] = where /\ tx'[s].rows = tx[s].rows /\ tx'[s].exports = Unlinked(tx[s].sees)
        /\ \A o \in Sessions \ {s} : pc'[o] = pc[o] /\ tx'[o] = tx[o]
    BY <1>0, <2>1 DEF Within, Transaction
  <2>3. /\ UNCHANGED database /\ LinkedElsewhere(s, tx[s].sees) = {}
    BY <1>8 DEF FinishBackfill, FinishExports
  <2>4. RowsAreHeld'
    BY <2>1, <2>2, <2>3 DEF RowsAreHeld, database
  <2>5. ExportsAreHeld'
    BY <2>2, <2>3 DEF ExportsAreHeld, LinkedElsewhere, Unlinked, Linking, database
  <2> QED
    BY <2>4, <2>5
<1>9. ASSUME NEW s \in Sessions, InsertRow(s) PROVE Held'
  <2>1. /\ pc'[s] = "inserting" /\ tx'[s].rows = tx[s].rows \cup ({Wanted(s)} \ Stored)
        /\ tx'[s].exports = tx[s].exports /\ pc[s] = "inserting"
        /\ \A o \in Sessions \ {s} : pc'[o] = pc[o] /\ tx'[o] = tx[o]
    <3> DEFINE t == [tx[s] EXCEPT !.todo = @ \ {NextRow(s)}, !.rows = @ \cup ({Wanted(s)} \ Stored)]
    <3>1. Within(s, "inserting", t) /\ pc[s] = "inserting"
      BY <1>9, TaskSteps DEF InsertRow
    <3>2. t.rows = tx[s].rows \cup ({Wanted(s)} \ Stored) /\ t.exports = tx[s].exports
      BY <1>0 DEF Transaction
    <3> HIDE DEF t
    <3> QED
      BY <1>0, <3>1, <3>2 DEF Within
  <2>2. UNCHANGED database /\ HolderOf(s) = {} /\ Wanted(s) \in Contents
    BY <1>9, WantedIsInBatch DEF InsertRow
  <2>3. RowsAreHeld'
    BY <2>1, <2>2 DEF RowsAreHeld, HolderOf, Stored, database
  <2>4. ExportsAreHeld'
    BY <2>1, <2>2 DEF ExportsAreHeld, Linking, database
  <2> QED
    BY <2>3, <2>4
<1>10. ASSUME NEW s \in Sessions, ProcessingFails(s) \/ AbortDeadlock(s) \/ StatementFails(s) \/ Crash(s)
       PROVE  Held'
  <2>1. UNCHANGED database
    BY <1>10 DEF ProcessingFails, AbortDeadlock, StatementFails, Crash, Exits
  <2> QED
    BY <1>2, <1>10, <2>1, TaskSteps DEF database
<1>11. ASSUME NEW s \in Sessions, BeginBatch(s) PROVE Held'
  <2>1. UNCHANGED database /\ tx[s].rows = {} /\ tx[s].exports = {}
    BY <1>4, <1>11 DEF BeginBatch, Linking
  <2>2. CASE Ends(s, "ready")
    BY <1>2, <2>1, <2>2 DEF database
  <2>3. CASE BeginsBatch(s)
    <3> DEFINE D == {i \in DOMAIN job[s].feed : job[s].feed[i] \in BatchOf(s)}
               t == [tx[s] EXCEPT !.at = clock, !.todo = D]
    <3>1. Within(s, "inserting", t)
      BY <2>3 DEF BeginsBatch
    <3>2. t.rows = tx[s].rows /\ t.exports = tx[s].exports
      <4> HIDE DEF D
      <4> QED
        BY <1>0 DEF Transaction
    <3> HIDE DEF t
    <3> QED
      BY <1>3, <2>1, <3>1, <3>2
  <2> QED
    BY <1>11, <2>2, <2>3, TaskSteps
<1>12. ASSUME NEW s \in Sessions, BeginExports(s) PROVE Held'
  <2>1. UNCHANGED database /\ tx[s].exports = {}
    BY <1>4, <1>12 DEF BeginExports, Linking
  <2> DEFINE t == [tx[s] EXCEPT !.sees = IF enabled = "TRUE" THEN BatchOf(s) ELSE {}]
  <2>2. Within(s, "linking", t)
    BY <1>12, TaskSteps
  <2>3. t.rows = tx[s].rows /\ t.exports = tx[s].exports
    BY <1>0 DEF Transaction
  <2> HIDE DEF t
  <2> QED
    BY <1>3, <2>1, <2>2, <2>3
<1>13. ASSUME NEW s \in Sessions, Lookup(s) PROVE Held'
  BY <1>0, <1>4, <1>13 DEF Lookup, Goto, database, RowsAreHeld, ExportsAreHeld, Linking
<1>14. ASSUME NEW c \in Contents, Export(c) PROVE Held'
  BY <1>0, <1>14 DEF Export, RowsAreHeld, ExportsAreHeld, Linking
<1>15. CASE Tick
  BY <1>15 DEF Tick, database, RowsAreHeld, ExportsAreHeld, Linking
<1> QED
  BY <1>1, <1>5, <1>6, <1>7, <1>8, <1>9, <1>10, <1>11, <1>12, <1>13, <1>14, <1>15
     DEF Next, Initialize, RegisterTarget, StoreContents

LEMMA HeldHolds == Spec => [](Shape /\ Migrations /\ Held)
<1>1. Shape /\ Migrations /\ Held /\ [Next]_vars => Held'
  BY NextHeld
<1>2. Init => Held
  BY InitHeld DEF Held
<1> QED
  BY MigrationsHold, <1>1, <1>2, PTL DEF Spec

(* The export state of a content only moves forward (an action property),  *)
(* for every number of instances that migrate, register and store at once. *)
THEOREM ExportStateIsKeptHolds == Spec => ExportStateIsKept
<1> DEFINE Forward == \A c \in Contents :
             /\ StateOf(c) = "synced" => StateOf(c)' = "synced"
             /\ StateOf(c) = "pending" => StateOf(c)' # "none"
<1>1. ASSUME Shape, Migrations, Held, Next PROVE Forward
  <2>1. ASSUME UNCHANGED <<version, columns, exports>> PROVE Forward
    BY <2>1 DEF StateOf
  <2>2. ASSUME NEW s \in Sessions, CommitSchema(s) PROVE Forward
    BY <1>1, <2>2 DEF CommitSchema, Migrated, Migrations, StateOf, SchemaVersion, Shape, TypeOK, States
  <2>3. ASSUME NEW s \in Sessions, CommitTarget(s) \/ CommitBatch(s) PROVE Forward
    <3>1. UNCHANGED version /\ version = SchemaVersion
      BY <1>1, <2>3 DEF CommitTarget, CommitBatch, Migrations, Locked
    <3>2. \A c \in Contents : exports'[c] = exports[c] \/ exports[c] = "none"
      BY <1>1, <2>3 DEF CommitTarget, CommitBatch, LinkedBy, Held, ExportsAreHeld
    <3> QED
      BY <3>1, <3>2 DEF StateOf, SchemaVersion
  <2>4. ASSUME NEW c \in Contents, Export(c) PROVE Forward
    <3>1. UNCHANGED version /\ version = SchemaVersion
      BY <1>1, <2>4 DEF Export, Migrations, Locked, Startup
    <3> QED
      BY <1>1, <2>4, <3>1 DEF Export, StateOf, SchemaVersion, Shape, TypeOK
  <2>5. ASSUME NEW s \in Sessions,
               \/ Start(s) \/ AcquireLock(s) \/ ReadVersion(s) \/ ChangeSchema(s) \/ UpsertTarget(s)
               \/ BeginBackfill(s) \/ FinishBackfill(s) \/ Lookup(s) \/ ProcessingFails(s) \/ BeginBatch(s)
               \/ InsertRow(s) \/ BeginExports(s) \/ FinishExports(s) \/ AbortDeadlock(s)
               \/ StatementFails(s) \/ Crash(s)
        PROVE  UNCHANGED database
    BY <2>5 DEF Start, AcquireLock, ReadVersion, ChangeSchema, UpsertTarget, BeginBackfill, FinishBackfill,
                Lookup, ProcessingFails, BeginBatch, InsertRow, BeginExports, FinishExports, AbortDeadlock,
                StatementFails, Crash, Exits
  <2> HIDE DEF Forward
  <2> QED
    BY <1>1, <2>1, <2>2, <2>3, <2>4, <2>5
       DEF Next, Initialize, RegisterTarget, StoreContents, Tick, database
<1>2. Shape /\ Migrations /\ Held /\ [Next]_vars => [Forward]_vars
  BY <1>1
<1> QED
  BY HeldHolds, <1>2, PTL DEF Spec, ExportStateIsKept

-----------------------------------------------------------------------------
(* While the target is enabled, what the current transactions have linked  *)
(* is enough for their commits to keep ExportsFollow.                      *)
LinksAreMade ==
  \A s \in Sessions :
    pc[s] = "committing" \/ (pc[s] = "registering" /\ tx[s].target = "TRUE") =>
      \A c \in tx[s].sees : exports[c] # "none" \/ c \in tx[s].exports
Follows == LinksAreMade /\ ExportsFollow

LEMMA NextFollows ==
  ASSUME Shape, Shape', Migrations, Held, Follows, [Next]_vars
  PROVE  Follows'
<1> USE DEF Follows
<1>0. /\ pc \in [Sessions -> Where] /\ tx \in [Sessions -> Transaction]
      /\ exports \in [Contents -> States] /\ rows \in [Contents -> Records \cup {NoRow}]
  BY DEF Shape, TypeOK, Transaction
<1>1. CASE UNCHANGED vars
  BY <1>1 DEF vars, database, LinksAreMade, ExportsFollow, Stored
<1>2. ASSUME UNCHANGED <<database, missed>> PROVE ExportsFollow'
  BY <1>2 DEF database, ExportsFollow, Stored
<1>3. ASSUME NEW s \in Sessions, OthersStay(s),
             \/ pc'[s] \notin {"committing", "registering"}
             \/ pc'[s] = "registering" /\ tx'[s].target = "FALSE",
             \A c \in Contents : exports[c] # "none" => exports'[c] # "none"
      PROVE  LinksAreMade'
  <2>1. \A o \in Sessions : tx[o].sees \subseteq Contents
    BY <1>0 DEF Transaction
  <2> QED
    BY <1>3, <2>1 DEF OthersStay, LinksAreMade
<1>4. ASSUME NEW s \in Sessions, NEW where, Ends(s, where) \/ \E t : Within(s, where, t)
      PROVE  OthersStay(s) /\ pc'[s] = where
  BY <1>0, <1>4 DEF Ends, Within, OthersStay, Shape, TypeOK
<1>5. ASSUME NEW s \in Sessions,
             \/ Start(s) \/ AcquireLock(s) \/ ReadVersion(s) \/ ChangeSchema(s)
             \/ BeginBackfill(s) \/ ProcessingFails(s) \/ BeginBatch(s)
             \/ InsertRow(s) \/ BeginExports(s) \/ AbortDeadlock(s) \/ StatementFails(s) \/ Crash(s)
      PROVE  Follows'
  <2>1. UNCHANGED <<database, missed>>
    BY <1>5 DEF Start, AcquireLock, ReadVersion, ChangeSchema, BeginBackfill, ProcessingFails,
                BeginBatch, InsertRow, BeginExports, AbortDeadlock, StatementFails, Crash, Exits
  <2>2. \E where \in {"down", "ready", "locking", "reading", "changing", "recording", "backfilling",
                      "inserting", "linking"} :
          Ends(s, where) \/ \E t : Within(s, where, t)
    BY <1>5, StartupSteps, TaskSteps DEF BeginsBatch
  <2>3. OthersStay(s) /\ pc'[s] \notin {"committing", "registering"}
    BY <1>4, <2>2
  <2> QED
    BY <1>2, <1>3, <2>1, <2>3 DEF database
<1>6. ASSUME NEW s \in Sessions, UpsertTarget(s) PROVE Follows'
  <2>1. UNCHANGED <<database, missed>>
    BY <1>6 DEF UpsertTarget
  <2>2. /\ \/ pc'[s] = "viewing"
           \/ pc'[s] = "registering" /\ tx'[s].target = "FALSE"
        /\ OthersStay(s)
    <3>1. CASE Within(s, "viewing", [tx[s] EXCEPT !.target = "TRUE"])
      BY <1>4, <3>1
    <3>2. CASE Within(s, "registering", [tx[s] EXCEPT !.target = "FALSE"])
      <4>1. [tx[s] EXCEPT !.target = "FALSE"].target = "FALSE"
        BY <1>0 DEF Transaction
      <4> QED
        BY <1>0, <1>4, <3>2, <4>1 DEF Within
    <3> QED
      BY <1>6, <3>1, <3>2, StartupSteps
  <2> QED
    BY <1>2, <1>3, <2>1, <2>2 DEF database
<1>7. ASSUME NEW s \in Sessions, FinishBackfill(s) \/ FinishExports(s) PROVE Follows'
  <2>1. UNCHANGED <<database, missed>>
    BY <1>7 DEF FinishBackfill, FinishExports
  <2>2. PICK where : Within(s, where, [tx[s] EXCEPT !.exports = Unlinked(tx[s].sees)])
    BY <1>7, StartupSteps, TaskSteps
  <2>3. OthersStay(s) /\ tx'[s].sees = tx[s].sees /\ tx'[s].exports = Unlinked(tx[s].sees)
    <3> DEFINE t == [tx[s] EXCEPT !.exports = Unlinked(tx[s].sees)]
    <3>1. t.sees = tx[s].sees /\ t.exports = Unlinked(tx[s].sees)
      BY <1>0 DEF Transaction
    <3>2. Within(s, where, t)
      BY <2>2
    <3> HIDE DEF t
    <3>3. tx'[s] = t
      BY <1>0, <3>2 DEF Within
    <3> QED
      BY <1>4, <3>1, <3>2, <3>3
  <2>4. LinksAreMade'
    BY <2>1, <2>3 DEF LinksAreMade, OthersStay, Unlinked, database
  <2> QED
    BY <1>2, <2>1, <2>4
<1>8. ASSUME NEW s \in Sessions, Lookup(s) PROVE Follows'
  <2>1. UNCHANGED <<database, missed>> /\ OthersStay(s) /\ pc'[s] = "processing"
    BY <1>0, <1>8 DEF Lookup, Goto, OthersStay, Shape, TypeOK
  <2> QED
    BY <1>2, <1>3, <2>1 DEF database
<1>9. ASSUME NEW s \in Sessions, CommitSchema(s) PROVE Follows'
  <2>1. OthersStay(s) /\ pc'[s] = "upserting" /\ tx[s].found = version
    BY <1>4, <1>9, StartupSteps DEF CommitSchema, Migrations
  <2>2. CASE version = 1
    <3>1. \A o \in Sessions : pc[o] \notin {"committing", "registering"}
      BY <2>2 DEF Migrations, Locked, SchemaVersion
    <3>2. \A o \in Sessions : pc'[o] \notin {"committing", "registering"}
      BY <2>1, <3>1 DEF OthersStay
    <3>3. ExportsFollow'
      BY <1>9, <2>1, <2>2 DEF CommitSchema, Migrated, Migrations, ExportsFollow, Stored
    <3> QED
      BY <3>2, <3>3 DEF LinksAreMade
  <2>3. CASE version # 1
    <3>1. UNCHANGED <<exports, rows, enabled, missed>>
      BY <1>9, <2>1, <2>3 DEF CommitSchema
    <3>2. ExportsFollow'
      BY <3>1 DEF ExportsFollow, Stored
    <3> QED
      BY <1>3, <2>1, <3>1, <3>2
  <2> QED
    BY <2>2, <2>3
<1>10. ASSUME NEW s \in Sessions, CommitTarget(s) PROVE Follows'
  <2>1. OthersStay(s) /\ pc'[s] = "ready"
    BY <1>4, <1>10, StartupSteps
  <2>2. /\ exports' = [c \in Contents |-> LinkedBy(c, s)] /\ enabled' = tx[s].target
        /\ missed' = MissedBySelect(s) /\ UNCHANGED rows /\ pc[s] = "registering"
    BY <1>10 DEF CommitTarget
  <2>3. \A c \in Contents : exports[c] # "none" => exports'[c] # "none"
    BY <2>2 DEF LinkedBy
  <2>4. ExportsFollow'
    <3> SUFFICES ASSUME tx[s].target = "TRUE", NEW c \in Stored
                 PROVE  exports'[c] # "none" \/ c \in missed'
      BY <2>2 DEF ExportsFollow, Stored
    <3>1. c \in tx[s].sees => exports'[c] # "none"
      BY <2>2 DEF LinksAreMade, LinkedBy, Stored
    <3>2. c \notin tx[s].sees /\ enabled # "TRUE" => c \in missed'
      BY <2>2 DEF MissedBySelect
    <3>3. c \notin tx[s].sees /\ enabled = "TRUE" => exports'[c] # "none" \/ c \in missed'
      BY <2>2, <2>3 DEF MissedBySelect, ExportsFollow, Stored
    <3> QED
      BY <3>1, <3>2, <3>3
  <2> QED
    BY <1>3, <2>1, <2>3, <2>4
<1>11. ASSUME NEW s \in Sessions, CommitBatch(s) PROVE Follows'
  <2>1. OthersStay(s) /\ pc'[s] = "ready"
    BY <1>4, <1>11, TaskSteps
  <2>2. /\ exports' = [c \in Contents |-> LinkedBy(c, s)] /\ UNCHANGED enabled
        /\ rows' = [c \in Contents |-> StoredBy(c, s)] /\ pc[s] = "committing"
        /\ missed' = IF enabled = "TRUE" THEN missed \cup (tx[s].rows \ tx[s].sees) ELSE missed
    BY <1>11 DEF CommitBatch
  <2>3. \A c \in Contents : exports[c] # "none" => exports'[c] # "none"
    BY <2>2 DEF LinkedBy
  <2>4. ExportsFollow'
    <3> SUFFICES ASSUME enabled = "TRUE", NEW c \in Contents, rows'[c] # NoRow
                 PROVE  exports'[c] # "none" \/ c \in missed'
      BY <2>2 DEF ExportsFollow, Stored
    <3>1. CASE c \in tx[s].rows
      <4>1. c \in tx[s].sees => exports'[c] # "none"
        BY <2>2 DEF LinksAreMade, LinkedBy
      <4> QED
        BY <2>2, <3>1, <4>1
    <3>2. CASE c \notin tx[s].rows
      BY <2>2, <2>3, <3>2 DEF StoredBy, ExportsFollow, Stored
    <3> QED
      BY <3>1, <3>2
  <2> QED
    BY <1>3, <2>1, <2>3, <2>4
<1>12. ASSUME NEW c \in Contents, Export(c) PROVE Follows'
  BY <1>0, <1>12 DEF Export, LinksAreMade, ExportsFollow, Stored
<1>13. CASE Tick
  BY <1>13 DEF Tick, database, LinksAreMade, ExportsFollow, Stored
<1> QED
  BY <1>1, <1>5, <1>6, <1>7, <1>8, <1>9, <1>10, <1>11, <1>12, <1>13
     DEF Next, Initialize, RegisterTarget, StoreContents

(* While the target is enabled every stored content has its export, or has *)
(* been missed by one of two overlapping transactions.                     *)
THEOREM ExportsFollowHolds == Spec => []ExportsFollow
<1>1. Init => Follows
  BY DEF Init, Follows, LinksAreMade, ExportsFollow
<1>2. (Shape /\ Migrations /\ Held) /\ Follows /\ [Next]_vars => Follows'
  BY NextFollows, NextShape
<1>3. Follows => ExportsFollow
  BY DEF Follows
<1> QED
  BY HeldHolds, <1>1, <1>2, <1>3, PTL DEF Spec

-----------------------------------------------------------------------------
(* How far a task has come: each of its contents is stored, among the rows *)
(* of its transaction, or still to be inserted.                            *)
Inserting(s) == pc[s] \in {"inserting", "linking", "committing"}
Placed(s, c) == c \in tx[s].rows \/ c \in Stored
BatchIsPlaced ==
  \A s \in Sessions :
    /\ Executing(s) => job[s].known \subseteq Stored
    /\ Inserting(s) =>
         /\ tx[s].rows \subseteq Ids(job[s].feed)
         /\ \A i \in DOMAIN job[s].feed : i \in tx[s].todo \/ Placed(s, job[s].feed[i])

(* No stored content is removed or replaced.                               *)
LEMMA StoredStays ==
  ASSUME Shape, Held, [Next]_vars
  PROVE  \A c \in Contents : rows[c] # NoRow => rows'[c] = rows[c]
<1>1. ASSUME NEW s \in Sessions, CommitBatch(s), NEW c \in Contents, rows[c] # NoRow
      PROVE  rows'[c] = rows[c]
  BY <1>1 DEF CommitBatch, StoredBy, Held, RowsAreHeld
<1>2. UNCHANGED rows \/ \E s \in Sessions : CommitBatch(s)
  BY DEF Next, vars, database, Initialize, RegisterTarget, StoreContents, Start, AcquireLock, ReadVersion,
     ChangeSchema, CommitSchema, UpsertTarget, BeginBackfill, FinishBackfill, CommitTarget, Lookup,
     ProcessingFails, BeginBatch, InsertRow, BeginExports, FinishExports, AbortDeadlock, StatementFails,
     Crash, Exits, Export, Tick
<1> QED
  BY <1>1, <1>2

LEMMA NextPlaced ==
  ASSUME Shape, Held, BatchIsPlaced, [Next]_vars
  PROVE  BatchIsPlaced'
<1>0. /\ pc \in [Sessions -> Where] /\ tx \in [Sessions -> Transaction] /\ job \in [Sessions -> Job]
  BY DEF Shape, TypeOK, Transaction, Job
<1>1. Stored \subseteq Stored'
  BY StoredStays DEF Stored
<1>2. ASSUME NEW s \in Sessions,
             pc'[s] = pc[s] /\ tx'[s] = tx[s] /\ job'[s] = job[s]
      PROVE  /\ Executing(s)' => job'[s].known \subseteq Stored'
             /\ Inserting(s)' =>
                  /\ tx'[s].rows \subseteq Ids(job'[s].feed)
                  /\ \A i \in DOMAIN job'[s].feed : i \in tx'[s].todo \/ Placed(s, job[s].feed[i])'
  BY <1>1, <1>2 DEF BatchIsPlaced, Executing, Inserting, Placed
<1>3. ASSUME NEW s \in Sessions, OthersStay(s),
             Executing(s)' => job'[s].known \subseteq Stored',
             Inserting(s)' =>
               /\ tx'[s].rows \subseteq Ids(job'[s].feed)
               /\ \A i \in DOMAIN job'[s].feed :
                    i \in tx'[s].todo \/ job'[s].feed[i] \in tx'[s].rows \/ job'[s].feed[i] \in Stored'
      PROVE  BatchIsPlaced'
  BY <1>1, <1>3 DEF OthersStay, BatchIsPlaced, Executing, Inserting, Placed
<1>4. ASSUME NEW s \in Sessions, NEW where, Ends(s, where), where \in {"down", "ready", "upserting"}
      PROVE  BatchIsPlaced'
  <2>1. OthersStay(s) /\ pc'[s] = where
    BY <1>0, <1>4 DEF Ends, OthersStay, Shape, TypeOK
  <2> QED
    BY <1>3, <1>4, <2>1 DEF Executing, Storing, Inserting
<1>5. ASSUME NEW s \in Sessions, NEW where, NEW t, Within(s, where, t),
             where \notin Storing \cup {"processing"}
      PROVE  BatchIsPlaced'
  <2>1. OthersStay(s) /\ pc'[s] = where
    BY <1>0, <1>5 DEF Within, OthersStay, Shape, TypeOK
  <2> QED
    BY <1>3, <1>5, <2>1 DEF Executing, Storing, Inserting
<1>6. ASSUME NEW s \in Sessions, NEW where, NEW t, Within(s, where, t), Executing(s),
             t.rows \subseteq Ids(job[s].feed),
             \A i \in DOMAIN job[s].feed :
                 i \in t.todo \/ job[s].feed[i] \in t.rows \/ job[s].feed[i] \in Stored
      PROVE  BatchIsPlaced'
  <2>1. OthersStay(s) /\ tx'[s] = t /\ job' = job
    BY <1>0, <1>6 DEF Within, OthersStay, Shape, TypeOK
  <2>2. job[s].known \subseteq Stored'
    BY <1>1, <1>6 DEF BatchIsPlaced
  <2> QED
    BY <1>1, <1>3, <1>6, <2>1, <2>2
<1>7. CASE UNCHANGED <<pc, tx, job>>
  BY <1>1, <1>7 DEF BatchIsPlaced, Executing, Inserting, Placed
<1>8. ASSUME NEW s \in Sessions, Start(s) \/ Initialize(s) \/ RegisterTarget(s) PROVE BatchIsPlaced'
  <2>1. \/ \E where \in {"down", "ready", "upserting"} : Ends(s, where)
        \/ \E where \in {"locking", "reading", "changing", "recording", "viewing", "registering", "backfilling"} :
             \E t : Within(s, where, t)
    BY <1>8, StartupSteps DEF Initialize, RegisterTarget
  <2> QED
    BY <1>4, <1>5, <2>1 DEF Storing
<1>9. ASSUME NEW s \in Sessions,
             ProcessingFails(s) \/ AbortDeadlock(s) \/ CommitBatch(s) \/ StatementFails(s) \/ Crash(s)
      PROVE  BatchIsPlaced'
  BY <1>4, <1>9, TaskSteps
<1>10. ASSUME NEW s \in Sessions, BeginBatch(s) PROVE BatchIsPlaced'
  <2>1. CASE Ends(s, "ready")
    BY <1>4, <2>1
  <2>2. CASE BeginsBatch(s)
    <3> DEFINE D == {i \in DOMAIN job[s].feed : job[s].feed[i] \in BatchOf(s)}
               t == [tx[s] EXCEPT !.at = clock, !.todo = D]
    <3>1. Within(s, "inserting", t)
      BY <2>2 DEF BeginsBatch
    <3>2. t.rows = tx[s].rows /\ t.todo = D
      <4> HIDE DEF D
      <4> QED
        BY <1>0 DEF Transaction
    <3>3. Executing(s) /\ tx[s].rows = {}
      BY <1>10 DEF BeginBatch, Executing, Held, RowsAreHeld
    <3>4. \A i \in DOMAIN job[s].feed : i \in D \/ job[s].feed[i] \in Stored
      BY <3>3 DEF BatchOf, Ids, BatchIsPlaced
    <3> HIDE DEF D, t
    <3> QED
      BY <1>6, <3>1, <3>2, <3>3, <3>4
  <2> QED
    BY <1>10, <2>1, <2>2, TaskSteps
<1>11. ASSUME NEW s \in Sessions, InsertRow(s) PROVE BatchIsPlaced'
  <2> DEFINE t == [tx[s] EXCEPT !.todo = @ \ {NextRow(s)}, !.rows = @ \cup ({Wanted(s)} \ Stored)]
  <2>1. Within(s, "inserting", t) /\ Executing(s) /\ Inserting(s)
    BY <1>11, TaskSteps DEF InsertRow, Executing, Storing, Inserting
  <2>2. t.rows = tx[s].rows \cup ({Wanted(s)} \ Stored) /\ t.todo = tx[s].todo \ {NextRow(s)}
    BY <1>0 DEF Transaction
  <2>3. Wanted(s) = job[s].feed[NextRow(s)] /\ Wanted(s) \in Ids(job[s].feed)
    BY <1>11, WantedIsInBatch DEF InsertRow
  <2> HIDE DEF t
  <2>4. t.rows \subseteq Ids(job[s].feed)
    BY <2>1, <2>2, <2>3 DEF BatchIsPlaced
  <2>5. \A i \in DOMAIN job[s].feed :
          i \in t.todo \/ job[s].feed[i] \in t.rows \/ job[s].feed[i] \in Stored
    BY <2>1, <2>2, <2>3 DEF BatchIsPlaced, Placed
  <2> QED
    BY <1>6, <2>1, <2>4, <2>5
<1>12. ASSUME NEW s \in Sessions, BeginExports(s) \/ FinishExports(s) PROVE BatchIsPlaced'
  <2>1. PICK where, v : \/ Within(s, where, [tx[s] EXCEPT !.sees = v])
                        \/ Within(s, where, [tx[s] EXCEPT !.exports = v])
    BY <1>12, TaskSteps
  <2>2. Executing(s) /\ Inserting(s)
    BY <1>12 DEF BeginExports, FinishExports, Executing, Storing, Inserting
  <2>3. PICK t : Within(s, where, t) /\ t.rows = tx[s].rows /\ t.todo = tx[s].todo
    <3>1. /\ [tx[s] EXCEPT !.sees = v].rows = tx[s].rows /\ [tx[s] EXCEPT !.sees = v].todo = tx[s].todo
          /\ [tx[s] EXCEPT !.exports = v].rows = tx[s].rows /\ [tx[s] EXCEPT !.exports = v].todo = tx[s].todo
      BY <1>0 DEF Transaction
    <3> QED
      BY <2>1, <3>1
  <2> QED
    BY <1>6, <2>2, <2>3 DEF BatchIsPlaced, Placed
<1>13. ASSUME NEW s \in Sessions, Lookup(s) PROVE BatchIsPlaced'
  <2>1. PICK f \in Feeds : job' = [job EXCEPT ![s] = [feed |-> f, known |-> Ids(f) \cap Stored]]
    BY <1>13 DEF Lookup
  <2>2. OthersStay(s) /\ pc'[s] = "processing" /\ job'[s].known \subseteq Stored
    BY <1>0, <1>13, <2>1 DEF Lookup, Goto, OthersStay, Shape, TypeOK
  <2> QED
    BY <1>1, <1>3, <2>2 DEF Inserting
<1> QED
  BY <1>7, <1>8, <1>9, <1>10, <1>11, <1>12, <1>13
     DEF Next, StoreContents, vars, Export, Tick

-----------------------------------------------------------------------------
(* The refinement of ContentCatalog.                                       *)
Asked == [s \in Sessions |-> IF Executing(s) THEN Ids(job[s].feed) ELSE {}]

LEMMA AskedIsWanted ==
  ASSUME Shape
  PROVE  \A s \in Sessions : /\ Executing(s) => Asked[s] # {} /\ Asked[s] = Ids(job[s].feed)
                             /\ ~Executing(s) => Asked[s] = {}
BY Ids0 DEF Asked, Shape, BatchIsLeft

(* A step of s on what the others' tasks ask for.                          *)
LEMMA AskedMoves ==
  ASSUME Shape, NEW s \in Sessions, OthersStay(s)
  PROVE  Asked' = [Asked EXCEPT ![s] = IF Executing(s)' THEN Ids(job'[s].feed) ELSE {}]
<1> DEFINE N == [Asked EXCEPT ![s] = IF Executing(s)' THEN Ids(job'[s].feed) ELSE {}]
<1>1. /\ Asked' = [o \in Sessions |-> IF Executing(o)' THEN Ids(job'[o].feed) ELSE {}]
      /\ N = [o \in Sessions |-> IF o = s THEN IF Executing(s)' THEN Ids(job'[s].feed) ELSE {}
                                          ELSE Asked[o]]
  BY DEF Asked, Ids
<1>2. ASSUME NEW o \in Sessions \ {s}
      PROVE  (IF Executing(o)' THEN Ids(job'[o].feed) ELSE {}) = Asked[o]
  BY <1>2 DEF OthersStay, Asked, Executing
<1> QED
  BY <1>1, <1>2

LEMMA InitMaps == Init => Catalog!Init
<1> SUFFICES ASSUME Init PROVE Catalog!Init
  OBVIOUS
<1>1. rows \in [Contents -> Records \cup {NoRow}]
  BY InitShape DEF Shape, TypeOK
<1>2. Asked = [s \in Sessions |-> {}]
  BY DEF Init, Asked, Executing, Storing
<1> QED
  BY <1>1, <1>2 DEF Init, Catalog!Init, Asked

(* The task of s is over, and the catalog is as it was.                    *)
LEMMA EndMaps ==
  ASSUME Shape, NEW s \in Sessions, UNCHANGED rows, OthersStay(s),
         Executing(s), ~Executing(s)', answer' = [answer EXCEPT ![s] = answer'[s]],
         answer'[s] \in {"none", "failed"}
  PROVE  Catalog!Next
<1>1. Asked[s] # {} /\ Asked' = [Asked EXCEPT ![s] = {}]
  BY AskedIsWanted, AskedMoves
<1>2. Catalog!GiveUp(s)
  BY <1>1 DEF Catalog!GiveUp, Catalog!Told, Asked
<1> QED
  BY <1>2 DEF Catalog!Next

(* Its contents are all there from now on.                                 *)
LEMMA StoreMaps ==
  ASSUME Shape, NEW s \in Sessions, OthersStay(s),
         Executing(s), ~Executing(s)', answer' = [answer EXCEPT ![s] = answer'[s]],
         answer'[s] \in {"none", "stored", "failed"},
         rows' \in [Contents -> Records \cup {NoRow}],
         \A c \in Contents : IF rows[c] = NoRow /\ c \in Ids(job[s].feed)
                             THEN rows'[c] \in {r \in Records : r.by = s}
                             ELSE rows'[c] = rows[c]
  PROVE  Catalog!Next
<1>1. Asked[s] # {} /\ Asked[s] = Ids(job[s].feed) /\ Asked' = [Asked EXCEPT ![s] = {}]
  BY AskedIsWanted, AskedMoves
<1>2. Catalog!Store(s)
  BY <1>1 DEF Catalog!Store, Catalog!Told, Asked
<1> QED
  BY <1>2 DEF Catalog!Next

(* Nothing that the catalog shows.                                         *)
LEMMA StutterMaps ==
  ASSUME Shape, NEW s \in Sessions, OthersStay(s), UNCHANGED <<rows, answer>>,
         Executing(s)' <=> Executing(s), Executing(s) => UNCHANGED job
  PROVE  UNCHANGED Catalog!vars
<1>1. Asked \in [Sessions -> SUBSET Contents]
  BY Ids0 DEF Asked, Shape, BatchIsLeft
<1>2. Asked' = Asked
  BY <1>1, AskedMoves, AskedIsWanted
<1> QED
  BY <1>2 DEF Catalog!vars, Asked

LEMMA NextMaps ==
  ASSUME Shape, Shape', Held, BatchIsPlaced, [Next]_vars
  PROVE  [Catalog!Next]_(Catalog!vars)
<1>0. /\ pc \in [Sessions -> Where] /\ tx \in [Sessions -> Transaction] /\ job \in [Sessions -> Job]
      /\ rows \in [Contents -> Records \cup {NoRow}]
      /\ answer \in [Sessions -> {"none", "stored", "failed"}]
  BY DEF Shape, TypeOK, Transaction, Job
<1>1. CASE UNCHANGED <<rows, pc, job, answer>>
  BY <1>1 DEF Catalog!vars, Executing, Ids
<1>2. ASSUME NEW s \in Sessions, NEW where, Ends(s, where) \/ \E t : Within(s, where, t)
      PROVE  OthersStay(s) /\ pc'[s] = where
  BY <1>0, <1>2 DEF Ends, Within, OthersStay
<1>3. ASSUME NEW s \in Sessions, Start(s) \/ Initialize(s) \/ RegisterTarget(s)
      PROVE  UNCHANGED Catalog!vars
  <2>1. PICK where \in Startup \cup {"down", "ready"} : Ends(s, where) \/ \E t : Within(s, where, t)
    BY <1>3, StartupSteps DEF Initialize, RegisterTarget, Startup
  <2>2. UNCHANGED <<rows, answer>> /\ ~Executing(s)
    BY <1>3 DEF Start, Initialize, RegisterTarget, AcquireLock, ReadVersion, ChangeSchema, CommitSchema,
       UpsertTarget, BeginBackfill, FinishBackfill, CommitTarget, Exits, database, Executing, Storing
  <2>3. OthersStay(s) /\ ~Executing(s)'
    BY <1>2, <2>1 DEF Executing, Startup, Storing
  <2> QED
    BY <2>2, <2>3, StutterMaps
<1>4. ASSUME NEW s \in Sessions, InsertRow(s) \/ BeginExports(s) \/ FinishExports(s)
      PROVE  UNCHANGED Catalog!vars
  <2>1. PICK where \in Storing : \E t : Within(s, where, t)
    BY <1>4, TaskSteps DEF Storing
  <2>2. UNCHANGED <<rows, answer, job>> /\ Executing(s)
    BY <1>4 DEF InsertRow, BeginExports, FinishExports, database, Executing, Storing
  <2>3. OthersStay(s) /\ Executing(s)'
    BY <1>2, <2>1 DEF Executing
  <2> QED
    BY <2>2, <2>3, StutterMaps
<1>5. ASSUME NEW s \in Sessions, Lookup(s) PROVE Catalog!Next
  <2>1. PICK f \in Feeds : job' = [job EXCEPT ![s] = [feed |-> f, known |-> Ids(f) \cap Stored]]
    BY <1>5 DEF Lookup
  <2>2. OthersStay(s) /\ ~Executing(s) /\ Executing(s)' /\ job'[s].feed = f /\ UNCHANGED rows
    BY <1>0, <1>5, <2>1 DEF Lookup, Goto, OthersStay, Executing, Storing, database
  <2>3. Asked[s] = {} /\ Asked' = [Asked EXCEPT ![s] = Ids(f)] /\ Ids(f) \in SUBSET Contents
    BY <2>2, AskedIsWanted, AskedMoves, Ids0
  <2>4. Catalog!Ask(s, Ids(f))
    BY <1>5, <2>2, <2>3 DEF Lookup, Catalog!Ask, Asked
  <2> QED
    BY <2>3, <2>4 DEF Catalog!Next
<1>6. ASSUME NEW s \in Sessions,
             ProcessingFails(s) \/ AbortDeadlock(s) \/ (StatementFails(s) /\ pc[s] \in Storing)
      PROVE  Catalog!Next
  <2>1. /\ UNCHANGED rows /\ Executing(s) /\ pc' = [pc EXCEPT ![s] = "ready"]
        /\ job' = [job EXCEPT ![s] = NoJob] /\ tx' = [tx EXCEPT ![s] = NoTx]
        /\ answer' = [answer EXCEPT ![s] = "failed"]
    BY <1>6 DEF ProcessingFails, AbortDeadlock, StatementFails, Returns, Goto, Released, database,
       Executing, Storing, Startup
  <2>2. OthersStay(s) /\ ~Executing(s)' /\ answer'[s] = "failed"
    BY <1>0, <2>1 DEF OthersStay, Executing, Storing
  <2> QED
    BY <2>1, <2>2, EndMaps
<1>7. ASSUME NEW s \in Sessions, StatementFails(s), pc[s] \notin Storing
      PROVE  UNCHANGED Catalog!vars
  <2>1. /\ UNCHANGED <<rows, answer, job>> /\ pc[s] \in Startup
        /\ pc' = [pc EXCEPT ![s] = "down"] /\ tx' = [tx EXCEPT ![s] = NoTx]
    BY <1>7 DEF StatementFails, Exits, Goto, Released, database
  <2>2. OthersStay(s) /\ ~Executing(s) /\ ~Executing(s)'
    BY <1>0, <2>1 DEF OthersStay, Executing, Storing, Startup
  <2> QED
    BY <2>1, <2>2, StutterMaps
<1>8. ASSUME NEW s \in Sessions, Crash(s) PROVE Catalog!Next
  <2>1. /\ UNCHANGED rows /\ pc' = [pc EXCEPT ![s] = "down"] /\ tx' = [tx EXCEPT ![s] = NoTx]
        /\ job' = [job EXCEPT ![s] = NoJob] /\ answer' = [answer EXCEPT ![s] = "none"]
    BY <1>8 DEF Crash, Goto, database
  <2>2. OthersStay(s) /\ ~Executing(s)' /\ answer'[s] = "none"
    BY <1>0, <2>1 DEF OthersStay, Executing, Storing
  <2>3. CASE Executing(s)
    BY <2>1, <2>2, <2>3, EndMaps
  <2>4. CASE ~Executing(s)
    <3>1. Asked[s] = {} /\ Asked' = [Asked EXCEPT ![s] = {}]
      BY <2>2, <2>4, AskedIsWanted, AskedMoves
    <3>2. Catalog!Ask(s, {})
      BY <2>1, <3>1 DEF Catalog!Ask, Asked
    <3> QED
      BY <3>2 DEF Catalog!Next
  <2> QED
    BY <2>3, <2>4
<1>9. ASSUME NEW s \in Sessions, BeginBatch(s) PROVE [Catalog!Next]_(Catalog!vars)
  <2>1. UNCHANGED rows /\ Executing(s) /\ job[s].known \subseteq Stored
    BY <1>9 DEF BeginBatch, database, Executing, BatchIsPlaced
  <2>2. CASE BatchOf(s) = {}
    <3>1. /\ pc' = [pc EXCEPT ![s] = "ready"] /\ job' = [job EXCEPT ![s] = NoJob]
          /\ tx' = [tx EXCEPT ![s] = NoTx] /\ answer' = [answer EXCEPT ![s] = "stored"]
      BY <1>9, <2>2 DEF BeginBatch, Returns, Goto, Released
    <3>2. OthersStay(s) /\ ~Executing(s)' /\ answer'[s] = "stored"
      BY <1>0, <3>1 DEF OthersStay, Executing, Storing
    <3>3. \A c \in Contents : ~(rows[c] = NoRow /\ c \in Ids(job[s].feed))
      BY <2>1, <2>2 DEF BatchOf, Stored
    <3> QED
      BY <1>0, <2>1, <3>1, <3>2, <3>3, StoreMaps
  <2>3. CASE BatchOf(s) # {}
    <3>1. UNCHANGED <<job, answer>> /\ pc' = [pc EXCEPT ![s] = "inserting"]
      BY <1>9, <2>3 DEF BeginBatch, Goto
    <3>2. OthersStay(s) /\ Executing(s)'
      BY <1>0, <1>9, <2>3, <3>1 DEF BeginBatch, OthersStay, Executing, Storing
    <3> QED
      BY <2>1, <3>1, <3>2, StutterMaps
  <2> QED
    BY <2>2, <2>3
<1>10. ASSUME NEW s \in Sessions, CommitBatch(s) PROVE Catalog!Next
  <2>1. /\ rows' = [c \in Contents |-> StoredBy(c, s)] /\ Executing(s) /\ Inserting(s)
        /\ pc[s] = "committing"
        /\ pc' = [pc EXCEPT ![s] = "ready"] /\ job' = [job EXCEPT ![s] = NoJob]
        /\ tx' = [tx EXCEPT ![s] = NoTx]
    BY <1>10 DEF CommitBatch, Returns, Goto, Released, Executing, Storing, Inserting
  <2>2. PICK a \in {"stored", "failed"} : answer' = [answer EXCEPT ![s] = a]
    BY <1>10 DEF CommitBatch, Returns
  <2>3. OthersStay(s) /\ ~Executing(s)' /\ answer'[s] = a
    BY <1>0, <2>1, <2>2 DEF OthersStay, Executing, Storing
  <2>4. tx[s].todo = {} /\ tx[s].rows \subseteq Ids(job[s].feed)
    BY <2>1 DEF Shape, BatchIsLeft, BatchIsPlaced
  <2>5. \A c \in Ids(job[s].feed) : c \in tx[s].rows \/ c \in Stored
    BY <2>1, <2>4 DEF BatchIsPlaced, Placed, Ids
  <2>6. tx[s].rows \cap Stored = {}
    BY DEF Held, RowsAreHeld, Stored
  <2>7. [by |-> s, at |-> tx[s].at] \in {r \in Records : r.by = s}
    BY <1>0 DEF Transaction, Records
  <2>8. \A c \in Contents : IF rows[c] = NoRow /\ c \in Ids(job[s].feed)
                            THEN rows'[c] \in {r \in Records : r.by = s}
                            ELSE rows'[c] = rows[c]
    BY <2>1, <2>4, <2>5, <2>6, <2>7 DEF StoredBy, Stored
  <2>9. rows' \in [Contents -> Records \cup {NoRow}]
    BY DEF Shape, TypeOK
  <2> QED
    BY <2>1, <2>2, <2>3, <2>8, <2>9, StoreMaps
<1> QED
  BY <1>1, <1>3, <1>4, <1>5, <1>6, <1>7, <1>8, <1>9, <1>10
     DEF Next, StoreContents, vars, database, Export, Tick

(* What the scrape tasks see of the store, with its transactions, locks,   *)
(* conflicts and crashes, is ContentCatalog: a task that was told its      *)
(* contents are stored finds all of them, one that failed has stored all   *)
(* or none, and the first stored record of a content stays.                *)
THEOREM CatalogHolds == Spec => CatalogSpec
<1>1. Init => BatchIsPlaced
  BY DEF Init, BatchIsPlaced, Executing, Inserting, Storing
<1>2. (Shape /\ Migrations /\ Held) /\ BatchIsPlaced /\ [Next]_vars => BatchIsPlaced'
  BY NextPlaced
<1>3. (Shape /\ Migrations /\ Held) /\ (Shape /\ Migrations /\ Held)' /\ BatchIsPlaced /\ [Next]_vars
        => [Catalog!Next]_(Catalog!vars)
  BY NextMaps
<1> QED
  BY HeldHolds, InitMaps, <1>1, <1>2, <1>3, PTL DEF Spec, CatalogSpec, Catalog!Spec

-----------------------------------------------------------------------------
(* The proof of ListingIsComplete rests on two things: keys are totally    *)
(* ordered, so that a page cuts what remains in two, and what is stored    *)
(* keeps its key.                                                          *)
Keys == [at : 0 .. MaxClock + 1, id : Nat]

(* The order of keys is total and strict.                                  *)
LEMMA KeysAreOrdered ==
  ASSUME NEW k \in Keys, NEW l \in Keys
  PROVE  /\ ~Before(k, k)
         /\ Before(k, l) => ~Before(l, k)
         /\ k # l => Before(k, l) \/ Before(l, k)
         /\ \A m \in Keys : Before(k, l) /\ Before(l, m) => Before(k, m)
<1>1. MaxClock \in Nat
  BY ContentStoreAssumption
<1>2. k # l => k.at # l.at \/ k.id # l.id
  BY DEF Keys
<1> QED
  BY <1>1, <1>2 DEF Keys, Before

(* The keys of stored contents are below the top, and all different.       *)
LEMMA StoredHasKey ==
  ASSUME Shape
  PROVE  /\ \A c \in Stored : KeyOf(c) \in Keys /\ KeyOf(c).at <= MaxClock
         /\ \A c, d \in Stored : KeyOf(c) = KeyOf(d) => c = d
         /\ FromTop \in Keys /\ AtEnd \in Keys /\ FromTop # AtEnd
         /\ \A c \in Stored : Before(KeyOf(c), FromTop) /\ KeyOf(c) # FromTop
         /\ \A c \in Stored : ~Before(KeyOf(c), AtEnd)
<1>1. MaxClock \in Nat /\ Contents \subseteq Nat
  BY ContentStoreAssumption
<1>2. \A c \in Stored : c \in Contents /\ rows[c] \in Records
  BY DEF Shape, TypeOK, Stored
<1>3. \A c \in Stored : c \in Nat /\ rows[c].at \in 0 .. MaxClock
  BY <1>1, <1>2 DEF Records
<1>4. \A c \in Stored : KeyOf(c).at = rows[c].at /\ KeyOf(c).id = c
  BY DEF KeyOf
<1>5. FromTop.at = MaxClock + 1 /\ AtEnd.at = 0 /\ AtEnd.id = 0
  BY DEF FromTop, AtEnd
<1>6. \A c \in Stored : KeyOf(c) \in Keys
  BY <1>1, <1>3 DEF Keys, KeyOf
<1>7. FromTop \in Keys /\ AtEnd \in Keys
  BY <1>1 DEF FromTop, AtEnd, Keys
<1>8. \A c \in Stored : Before(KeyOf(c), FromTop) /\ KeyOf(c).at # FromTop.at
  BY <1>1, <1>3, <1>4, <1>5 DEF Before
<1>9. \A c \in Stored : ~Before(KeyOf(c), AtEnd)
  BY <1>3, <1>4, <1>5 DEF Before
<1> QED
  BY <1>1, <1>3, <1>4, <1>5, <1>6, <1>7, <1>8, <1>9

-----------------------------------------------------------------------------
(* One page.  What remains of the listing above a content.                 *)
Above(c) == {d \in Remaining : Before(KeyOf(c), KeyOf(d))}

(* Finitely many contents remain, so that those above one can be counted,  *)
(* and there are fewer of them above any of these.                         *)
LEMMA AboveCounts ==
  ASSUME Shape, IsFiniteSet(Stored), NEW c \in Remaining
  PROVE  /\ IsFiniteSet(Above(c)) /\ Cardinality(Above(c)) \in Nat
         /\ c \notin Above(c)
         /\ \A d \in Above(c) :
              /\ Above(d) \subseteq Above(c)
              /\ Cardinality(Above(d)) < Cardinality(Above(c))
<1>1. Remaining \subseteq Stored
  BY DEF Remaining
<1>2. ASSUME NEW e \in Remaining
      PROVE  IsFiniteSet(Above(e)) /\ Cardinality(Above(e)) \in Nat /\ e \notin Above(e)
  <2>1. Above(e) \in SUBSET Stored
    BY <1>1 DEF Above
  <2>2. e \notin Above(e)
    BY <1>1, StoredHasKey, KeysAreOrdered DEF Above
  <2> QED
    BY <2>1, <2>2, FS_Subset, FS_CardinalityType
<1>3. ASSUME NEW d \in Above(c)
      PROVE  Above(d) \subseteq Above(c) /\ Cardinality(Above(d)) < Cardinality(Above(c))
  <2>1. d \in Remaining /\ Before(KeyOf(c), KeyOf(d))
    BY DEF Above
  <2>2. Above(d) \subseteq Above(c)
    <3> SUFFICES ASSUME NEW e \in Above(d) PROVE e \in Above(c)
      OBVIOUS
    <3>1. e \in Remaining /\ Before(KeyOf(d), KeyOf(e))
      BY DEF Above
    <3>2. Before(KeyOf(c), KeyOf(e))
      BY <1>1, <2>1, <3>1, StoredHasKey, KeysAreOrdered
    <3> QED
      BY <3>1, <3>2 DEF Above
  <2>3. Above(d) \in SUBSET Above(c) /\ Above(d) # Above(c)
    BY <1>2, <2>1, <2>2
  <2>4. /\ Cardinality(Above(d)) <= Cardinality(Above(c))
        /\ Cardinality(Above(c)) = Cardinality(Above(d)) => Above(c) = Above(d)
    BY <1>2, <2>3, FS_Subset
  <2> QED
    BY <1>2, <2>1, <2>2, <2>3, <2>4
<1> QED
  BY <1>2, <1>3

(* Any contents that remain have a last one in the order of the listing    *)
(* that no other of them is above ...                                      *)
LEMMA SomeAreFirst ==
  ASSUME Shape, IsFiniteSet(Stored), NEW S, S \subseteq Remaining, S # {}
  PROVE  \E c \in S : Above(c) \cap S = {}
<1> DEFINE counts == {Cardinality(Above(c)) : c \in S}
<1>1. counts \in SUBSET Nat /\ counts # {}
  BY AboveCounts
<1>2. PICK n \in counts : \A m \in counts : n <= m
  <2> HIDE DEF counts
  <2> QED BY <1>1, FirstOfBatch
<1>3. PICK c \in S : n = Cardinality(Above(c))
  BY <1>2
<1>4. ASSUME NEW d \in Above(c), d \in S PROVE FALSE
  <2>1. Cardinality(Above(d)) \in counts /\ Cardinality(Above(d)) < Cardinality(Above(c))
    BY <1>4, AboveCounts
  <2>2. Cardinality(Above(d)) \in Nat /\ Cardinality(Above(c)) \in Nat
    BY <1>4, AboveCounts
  <2> HIDE DEF counts
  <2> QED
    BY <1>2, <1>3, <2>1, <2>2
<1> QED
  BY <1>4

(* ... and one that is below all others.                                   *)
LEMMA SomeAreLast ==
  ASSUME Shape, NEW S, S \subseteq Remaining, S # {}
  PROVE  \E c \in S : \A d \in S \ {c} : Before(KeyOf(c), KeyOf(d))
<1>1. S \subseteq Stored
  BY DEF Remaining
<1>2. \A c \in S : KeyOf(c) \in Keys /\ KeyOf(c).at \in Nat /\ KeyOf(c).id \in Nat
  BY <1>1, StoredHasKey, ContentStoreAssumption DEF Keys
<1> DEFINE times == {KeyOf(c).at : c \in S}
<1>3. PICK t \in times : \A u \in times : t <= u
  <2>1. times \in SUBSET Nat /\ times # {}
    BY <1>2
  <2> HIDE DEF times
  <2> QED BY <2>1, FirstOfBatch
<1> DEFINE ids == {KeyOf(c).id : c \in {d \in S : KeyOf(d).at = t}}
<1>4. PICK i \in ids : \A j \in ids : i <= j
  <2>1. ids \in SUBSET Nat /\ ids # {}
    BY <1>2
  <2> HIDE DEF ids
  <2> QED BY <2>1, FirstOfBatch
<1>5. PICK c \in S : KeyOf(c).at = t /\ KeyOf(c).id = i
  BY <1>4
<1>6. ASSUME NEW d \in S \ {c} PROVE Before(KeyOf(c), KeyOf(d))
  <2>1. KeyOf(d) # KeyOf(c)
    BY <1>1, StoredHasKey
  <2>2. t <= KeyOf(d).at
    BY <1>3
  <2>3. KeyOf(d).at = t => i <= KeyOf(d).id
    BY <1>4
  <2>4. KeyOf(d).at # KeyOf(c).at \/ KeyOf(d).id # KeyOf(c).id
    BY <1>2, <2>1 DEF Keys
  <2> HIDE DEF times, ids
  <2> QED
    BY <1>2, <1>5, <2>2, <2>3, <2>4 DEF Before
<1> QED
  BY <1>6

Page == Newest(PageSize)

LEMMA NewestIsAbove ==
  /\ \A n : Newest(n) = {c \in Remaining : Cardinality(Above(c)) < n}
  /\ Page = {c \in Remaining : Cardinality(Above(c)) < PageSize}
BY DEF Newest, Above, Page

(* What is above a content of the page is on the page too.                 *)
LEMMA PageIsFilledFromAbove ==
  ASSUME Shape, IsFiniteSet(Stored), NEW c \in Page, NEW d \in Above(c)
  PROVE  d \in Page
<1>1. c \in Remaining /\ Cardinality(Above(c)) < PageSize
  BY NewestIsAbove
<1>2. d \in Remaining
  BY DEF Above
<1>3. /\ Cardinality(Above(d)) < Cardinality(Above(c))
      /\ Cardinality(Above(c)) \in Nat /\ Cardinality(Above(d)) \in Nat
  BY <1>1, <1>2, AboveCounts
<1>4. Cardinality(Above(d)) < PageSize
  BY <1>1, <1>3, ContentListingAssumption
<1> QED
  BY <1>2, <1>4, NewestIsAbove

(* A page has something as long as something remains.                      *)
LEMMA PageIsNotEmpty ==
  ASSUME Shape, IsFiniteSet(Stored), Remaining # {}
  PROVE  Page # {}
<1>1. PICK c \in Remaining : Above(c) \cap Remaining = {}
  BY SomeAreFirst
<1>2. Above(c) = {}
  BY <1>1 DEF Above
<1>3. Cardinality(Above(c)) < PageSize
  BY <1>2, FS_EmptySet, ContentListingAssumption
<1> QED
  BY <1>3, NewestIsAbove

(* What remains below a page is below each of its contents.                *)
LEMMA RestIsBelow ==
  ASSUME Shape, IsFiniteSet(Stored), NEW c \in Remaining \ Page, NEW p \in Page
  PROVE  Before(KeyOf(c), KeyOf(p))
<1>1. p \in Remaining /\ c \in Stored /\ p \in Stored /\ c # p
  BY NewestIsAbove DEF Remaining
<1>2. ~Before(KeyOf(p), KeyOf(c))
  <2>1. c \notin Above(p)
    BY PageIsFilledFromAbove
  <2> QED
    BY <2>1 DEF Above
<1>3. KeyOf(c) \in Keys /\ KeyOf(p) \in Keys /\ KeyOf(c) # KeyOf(p)
  BY <1>1, StoredHasKey
<1> QED
  BY <1>2, <1>3, KeysAreOrdered

(* One row more than the page tells whether there is a next one: if a      *)
(* content is left behind, the next one to come is that row.               *)
LEMMA RestIsSeen ==
  ASSUME Shape, IsFiniteSet(Stored), Remaining \ Page # {}
  PROVE  HasNext
<1> USE ContentListingAssumption
<1>1. PICK c \in Remaining \ Page : Above(c) \cap (Remaining \ Page) = {}
  <2>1. Remaining \ Page \subseteq Remaining
    OBVIOUS
  <2> QED
    BY <2>1, SomeAreFirst
<1>2. Above(c) = Page
  <2>1. Above(c) \subseteq Page
    BY <1>1 DEF Above
  <2>2. ASSUME NEW p \in Page PROVE p \in Above(c)
    BY <1>1, RestIsBelow, NewestIsAbove DEF Above
  <2> QED
    BY <2>1, <2>2
<1>3. IsFiniteSet(Page) /\ Cardinality(Page) \in Nat /\ Cardinality(Page) >= PageSize
  <2>1. IsFiniteSet(Above(c)) /\ Cardinality(Above(c)) \in Nat
    BY <1>1, AboveCounts
  <2>2. ~(Cardinality(Above(c)) < PageSize)
    BY <1>1, NewestIsAbove
  <2> QED
    BY <1>2, <2>1, <2>2
<1>4. PICK m \in Page : \A d \in Page \ {m} : Before(KeyOf(m), KeyOf(d))
  <2>1. Page \subseteq Remaining /\ Page # {}
    BY PageIsNotEmpty, NewestIsAbove
  <2> QED
    BY <2>1, SomeAreLast
<1>5. Cardinality(Page) <= PageSize
  <2>1. m \in Remaining /\ Cardinality(Above(m)) < PageSize
    BY NewestIsAbove
  <2>2. IsFiniteSet(Above(m)) /\ Cardinality(Above(m)) \in Nat
    BY <2>1, AboveCounts
  <2>3. Page \subseteq Above(m) \cup {m}
    BY <1>4, NewestIsAbove DEF Above
  <2>4. /\ IsFiniteSet(Above(m) \cup {m})
        /\ Cardinality(Above(m) \cup {m}) \in Nat
        /\ Cardinality(Above(m) \cup {m}) <= Cardinality(Above(m)) + 1
    <3>1. /\ IsFiniteSet(Above(m) \cup {m})
          /\ \/ Cardinality(Above(m) \cup {m}) = Cardinality(Above(m))
             \/ Cardinality(Above(m) \cup {m}) = Cardinality(Above(m)) + 1
      BY <2>2, FS_AddElement
    <3> QED
      BY <2>2, <3>1
  <2>5. Cardinality(Page) <= Cardinality(Above(m) \cup {m})
    BY <2>3, <2>4, FS_Subset
  <2> QED
    BY <1>3, <2>1, <2>2, <2>4, <2>5
<1>6. Page \cup {c} \subseteq Newest(PageSize + 1)
  <2>1. c \in Newest(PageSize + 1)
    BY <1>1, <1>2, <1>3, <1>5, NewestIsAbove
  <2>2. ASSUME NEW p \in Page PROVE p \in Newest(PageSize + 1)
    <3>1. p \in Remaining /\ Cardinality(Above(p)) < PageSize
      BY NewestIsAbove
    <3>2. Cardinality(Above(p)) \in Nat
      BY <3>1, AboveCounts
    <3> QED
      BY <3>1, <3>2, NewestIsAbove
  <2> QED
    BY <2>1, <2>2
<1>7. IsFiniteSet(Newest(PageSize + 1)) /\ Cardinality(Newest(PageSize + 1)) \in Nat
  <2>1. Newest(PageSize + 1) \in SUBSET Stored
    BY NewestIsAbove DEF Remaining
  <2> QED
    BY <2>1, FS_Subset, FS_CardinalityType
<1>8. Cardinality(Page \cup {c}) = Cardinality(Page) + 1
  BY <1>1, <1>3, FS_AddElement
<1>9. Cardinality(Page \cup {c}) <= Cardinality(Newest(PageSize + 1))
  BY <1>6, <1>7, FS_Subset
<1> QED
  BY <1>3, <1>7, <1>8, <1>9 DEF HasNext

(* The next cursor: the key of the last content of the page, or the end.   *)
NextCursor == IF HasNext THEN KeyOf(Last(Page)) ELSE AtEnd

(* The cursor cuts what remains in two: the page, and what is still after  *)
(* the next cursor.                                                        *)
LEMMA PageCuts ==
  ASSUME Shape, IsFiniteSet(Stored)
  PROVE  /\ NextCursor \in Keys
         /\ NextCursor = AtEnd \/ \E c \in Remaining : NextCursor = KeyOf(c)
         /\ \A c \in Remaining : c \in Page <=> ~Before(KeyOf(c), NextCursor)
<1>1. Page \subseteq Remaining /\ Remaining \subseteq Stored
  BY NewestIsAbove DEF Remaining
<1>2. CASE HasNext
  <2>1. Remaining # {}
    <3>1. Remaining = {} => Newest(PageSize + 1) = {}
      BY NewestIsAbove
    <3> QED
      BY <1>2, <3>1, FS_EmptySet, ContentListingAssumption DEF HasNext
  <2>2. \E c \in Page : \A d \in Page \ {c} : Before(KeyOf(c), KeyOf(d))
    BY <1>1, <2>1, PageIsNotEmpty, SomeAreLast
  <2>3. Last(Page) \in Page /\ \A d \in Page \ {Last(Page)} : Before(KeyOf(Last(Page)), KeyOf(d))
    BY <2>2 DEF Last
  <2>4. NextCursor = KeyOf(Last(Page))
    BY <1>2 DEF NextCursor
  <2>5. ASSUME NEW c \in Page PROVE ~Before(KeyOf(c), NextCursor)
    <3>1. KeyOf(c) \in Keys /\ KeyOf(Last(Page)) \in Keys
      BY <1>1, <2>3, StoredHasKey
    <3> QED
      BY <2>3, <2>4, <3>1, KeysAreOrdered
  <2>6. ASSUME NEW c \in Remaining \ Page PROVE Before(KeyOf(c), NextCursor)
    BY <2>3, <2>4, RestIsBelow
  <2> QED
    BY <1>1, <2>3, <2>4, <2>5, <2>6, StoredHasKey
<1>3. CASE ~HasNext
  <2>1. Remaining \subseteq Page /\ NextCursor = AtEnd
    BY <1>3, RestIsSeen DEF NextCursor
  <2> QED
    BY <1>1, <2>1, StoredHasKey
<1> QED
  BY <1>2, <1>3

-----------------------------------------------------------------------------
(* What the store does meanwhile: transactions are finite, and a stored    *)
(* content keeps its key.                                                  *)
FiniteStore == IsFiniteSet(Stored) /\ \A s \in Sessions : IsFiniteSet(tx[s].rows)

(* Where a listing is: what it has shown is what was stored and is not     *)
(* after its cursor, and each content of its beginning was shown in its    *)
(* turn.                                                                   *)
Progress ==
  /\ cursor \in Keys
  /\ listed \in [Contents -> {0, 1}]
  /\ expected \subseteq Stored
  /\ \A c \in Contents : listed[c] = 1 => c \in Stored /\ ~AfterCursor(c)
  /\ cursor # FromTop => \A c \in expected : AfterCursor(c) \/ listed[c] = 1

LInv == Shape /\ Migrations /\ Held /\ FiniteStore /\ Progress

LEMMA InitFinite == Init => FiniteStore
<1> SUFFICES ASSUME Init PROVE FiniteStore
  OBVIOUS
<1>1. Stored \in SUBSET Legacy
  BY DEF Init, Stored
<1>2. IsFiniteSet(Stored)
  BY <1>1, FS_Subset, ContentListingAssumption
<1>3. \A s \in Sessions : tx[s].rows = {}
  BY DEF Init, NoTx
<1> QED
  BY <1>2, <1>3, FS_EmptySet DEF FiniteStore

(* A transaction has inserted finitely many rows: one for each InsertRow.  *)
LEMMA TransactionsStayFinite ==
  ASSUME Shape, \A s \in Sessions : IsFiniteSet(tx[s].rows), [Next]_vars
  PROVE  \A s \in Sessions : IsFiniteSet(tx'[s].rows)
<1>0. tx \in [Sessions -> Transaction]
  BY DEF Shape, TypeOK, Transaction
<1>1. ASSUME NEW s \in Sessions, NEW where, NEW t, IsFiniteSet(t.rows), Within(s, where, t)
      PROVE  \A o \in Sessions : IsFiniteSet(tx'[o].rows)
  BY <1>0, <1>1 DEF Within
<1>2. ASSUME NEW s \in Sessions, NEW where, Ends(s, where)
      PROVE  \A o \in Sessions : IsFiniteSet(tx'[o].rows)
  BY <1>0, <1>2, FS_EmptySet DEF Ends, NoTx
<1>3. ASSUME NEW s \in Sessions, Start(s) \/ Initialize(s) \/ RegisterTarget(s)
      PROVE  \A o \in Sessions : IsFiniteSet(tx'[o].rows)
  <2>1. \/ \E where : Ends(s, where)
        \/ \E where, v : \/ Within(s, where, tx[s])
                         \/ Within(s, where, [tx[s] EXCEPT !.found = v])
                         \/ Within(s, where, [tx[s] EXCEPT !.target = v])
                         \/ Within(s, where, [tx[s] EXCEPT !.sees = v])
                         \/ Within(s, where, [tx[s] EXCEPT !.exports = v])
    BY <1>3, StartupSteps DEF Initialize, RegisterTarget
  <2>2. \A v : /\ [tx[s] EXCEPT !.found = v].rows = tx[s].rows
               /\ [tx[s] EXCEPT !.target = v].rows = tx[s].rows
               /\ [tx[s] EXCEPT !.sees = v].rows = tx[s].rows
               /\ [tx[s] EXCEPT !.exports = v].rows = tx[s].rows
    BY <1>0 DEF Transaction
  <2> QED
    BY <1>1, <1>2, <2>1, <2>2
<1>4. ASSUME NEW s \in Sessions, InsertRow(s) PROVE \A o \in Sessions : IsFiniteSet(tx'[o].rows)
  <2> DEFINE t == [tx[s] EXCEPT !.todo = @ \ {NextRow(s)}, !.rows = @ \cup ({Wanted(s)} \ Stored)]
  <2>1. Within(s, "inserting", t)
    BY <1>4, TaskSteps
  <2>2. t.rows = tx[s].rows \cup ({Wanted(s)} \ Stored)
    BY <1>0 DEF Transaction
  <2>3. t.rows = tx[s].rows \/ t.rows = tx[s].rows \cup {Wanted(s)}
    <3> HIDE DEF t
    <3> QED BY <2>2
  <2>4. IsFiniteSet(tx[s].rows \cup {Wanted(s)})
    BY FS_AddElement
  <2> HIDE DEF t
  <2> QED
    BY <1>1, <2>1, <2>3, <2>4
<1>5. ASSUME NEW s \in Sessions,
             StoreContents(s) \/ ProcessingFails(s) \/ AbortDeadlock(s) \/ StatementFails(s) \/ Crash(s)
      PROVE  \A o \in Sessions : IsFiniteSet(tx'[o].rows)
  <2>1. \/ InsertRow(s)
        \/ \E where : Ends(s, where)
        \/ BeginsBatch(s)
        \/ \E where, v : \/ Within(s, where, [tx[s] EXCEPT !.sees = v])
                         \/ Within(s, where, [tx[s] EXCEPT !.exports = v])
    BY <1>5, TaskSteps DEF StoreContents
  <2>2. \A v, w : /\ [tx[s] EXCEPT !.at = v, !.todo = w].rows = tx[s].rows
                  /\ [tx[s] EXCEPT !.sees = v].rows = tx[s].rows
                  /\ [tx[s] EXCEPT !.exports = v].rows = tx[s].rows
    BY <1>0 DEF Transaction
  <2>3. IsFiniteSet(tx[s].rows)
    OBVIOUS
  <2>4. CASE BeginsBatch(s)
    <3>1. PICK v, w : Within(s, "inserting", [tx[s] EXCEPT !.at = v, !.todo = w])
      BY <2>4 DEF BeginsBatch
    <3>2. IsFiniteSet([tx[s] EXCEPT !.at = v, !.todo = w].rows)
      BY <2>2, <2>3
    <3> QED
      BY <1>1, <3>1, <3>2
  <2>5. ASSUME NEW where, NEW v, \/ Within(s, where, [tx[s] EXCEPT !.sees = v])
                                \/ Within(s, where, [tx[s] EXCEPT !.exports = v])
        PROVE  \A o \in Sessions : IsFiniteSet(tx'[o].rows)
    <3>1. /\ IsFiniteSet([tx[s] EXCEPT !.sees = v].rows)
          /\ IsFiniteSet([tx[s] EXCEPT !.exports = v].rows)
      BY <2>2, <2>3
    <3> QED
      BY <1>1, <2>5, <3>1
  <2> QED
    BY <1>2, <1>4, <2>1, <2>4, <2>5
<1>6. UNCHANGED tx => \A o \in Sessions : IsFiniteSet(tx'[o].rows)
  OBVIOUS
<1> QED
  BY <1>3, <1>5, <1>6 DEF Next, Lookup, Export, Tick, vars

LEMMA NextFinite ==
  ASSUME Shape, Held, FiniteStore, [Next]_vars
  PROVE  FiniteStore'
<1>1. \A s \in Sessions : IsFiniteSet(tx'[s].rows)
  BY TransactionsStayFinite DEF FiniteStore
<1>2. ASSUME NEW s \in Sessions, CommitBatch(s) PROVE IsFiniteSet(Stored')
  <2>1. Stored' \in SUBSET (Stored \cup tx[s].rows)
    BY <1>2 DEF CommitBatch, StoredBy, Stored
  <2>2. IsFiniteSet(Stored \cup tx[s].rows)
    BY FS_Union DEF FiniteStore
  <2> QED
    BY <2>1, <2>2, FS_Subset
<1>3. UNCHANGED rows => IsFiniteSet(Stored')
  BY DEF FiniteStore, Stored
<1>4. UNCHANGED rows \/ \E s \in Sessions : CommitBatch(s)
  BY DEF Next, vars, database, Initialize, RegisterTarget, StoreContents, Start, AcquireLock, ReadVersion,
     ChangeSchema, CommitSchema, UpsertTarget, BeginBackfill, FinishBackfill, CommitTarget, Lookup,
     ProcessingFails, BeginBatch, InsertRow, BeginExports, FinishExports, AbortDeadlock, StatementFails,
     Crash, Exits, Export, Tick
<1>5. IsFiniteSet(Stored')
  BY <1>2, <1>3, <1>4
<1> QED
  BY <1>1, <1>5 DEF FiniteStore

-----------------------------------------------------------------------------
(* A step of the store disturbs no listing.                                *)
LEMMA StoringKeepsProgress ==
  ASSUME Shape, Held, Progress, [Next]_vars, UNCHANGED listVars
  PROVE  Progress'
<1>1. UNCHANGED <<cursor, listed, expected>>
  BY DEF listVars
<1>2. \A c \in Stored : c \in Stored' /\ (AfterCursor(c)' <=> AfterCursor(c))
  BY <1>1, StoredStays DEF Stored, AfterCursor, KeyOf, Before
<1>3. \A c \in Contents : listed'[c] = 1 => c \in Stored' /\ ~AfterCursor(c)'
  BY <1>1, <1>2 DEF Progress
<1>4. cursor' # FromTop => \A c \in expected' : AfterCursor(c)' \/ listed'[c] = 1
  BY <1>1, <1>2 DEF Progress
<1>5. cursor' \in Keys /\ listed' \in [Contents -> {0, 1}] /\ expected' \subseteq Stored'
  BY <1>1, <1>2 DEF Progress
<1> QED
  BY <1>3, <1>4, <1>5 DEF Progress, Keys, FromTop

(* A page is what comes next, once.                                        *)
LEMMA PageKeepsProgress ==
  ASSUME Shape, FiniteStore, Progress, ListContents
  PROVE  Progress'
<1>1. /\ cursor' = NextCursor
      /\ listed' = [c \in Contents |-> listed[c] + IF c \in Page THEN 1 ELSE 0]
      /\ expected' = IF cursor = FromTop THEN Stored ELSE expected
      /\ UNCHANGED rows
  BY DEF ListContents, NextCursor, Page, vars, database
<1>2. /\ NextCursor \in Keys
      /\ NextCursor = AtEnd \/ \E c \in Remaining : NextCursor = KeyOf(c)
      /\ \A c \in Remaining : c \in Page <=> ~Before(KeyOf(c), NextCursor)
  BY PageCuts DEF FiniteStore
<1>3. /\ Stored' = Stored /\ \A c \in Contents : AfterCursor(c)' <=> Before(KeyOf(c), NextCursor)
  BY <1>1 DEF Stored, AfterCursor, KeyOf, Before
<1>4. Page \subseteq Remaining /\ Remaining \subseteq Stored /\ Stored \subseteq Contents
  BY NewestIsAbove DEF Remaining, Stored
<1>5. \A c \in Page : listed[c] = 0 /\ listed'[c] = 1
  <2>1. \A c \in Page : c \in Contents /\ AfterCursor(c)
    BY <1>4 DEF Remaining
  <2>2. \A c \in Page : listed[c] \in {0, 1} /\ listed[c] # 1
    BY <2>1 DEF Progress
  <2> QED
    BY <1>1, <2>1, <2>2
<1>6. \A c \in Contents \ Page : listed'[c] = listed[c]
  <2>1. \A c \in Contents : listed[c] \in {0, 1}
    BY DEF Progress
  <2> QED
    BY <1>1, <2>1
<1>7. \A c \in Stored : Before(KeyOf(c), NextCursor) => AfterCursor(c)
  <2> SUFFICES ASSUME NEW c \in Stored, Before(KeyOf(c), NextCursor) PROVE AfterCursor(c)
    OBVIOUS
  <2>1. PICK d \in Remaining : NextCursor = KeyOf(d)
    BY <1>2, StoredHasKey
  <2>2. Before(KeyOf(d), cursor) /\ KeyOf(c) \in Keys /\ KeyOf(d) \in Keys /\ cursor \in Keys
    BY <1>4, StoredHasKey DEF Remaining, AfterCursor, Progress
  <2> QED
    BY <2>1, <2>2, KeysAreOrdered DEF AfterCursor
<1>8. listed' \in [Contents -> {0, 1}]
  <2>1. \A c \in Contents : listed'[c] \in {0, 1}
    BY <1>5, <1>6 DEF Progress
  <2> QED
    BY <1>1, <2>1
<1>9. ASSUME NEW c \in Contents, listed'[c] = 1
      PROVE  c \in Stored /\ ~Before(KeyOf(c), NextCursor)
  <2>1. CASE c \in Page
    BY <1>2, <1>4, <2>1
  <2>2. CASE c \notin Page
    <3>1. listed[c] = 1
      BY <1>6, <1>9, <2>2
    <3>2. c \in Stored /\ ~AfterCursor(c)
      BY <3>1 DEF Progress
    <3> QED
      BY <1>7, <3>2
  <2> QED
    BY <2>1, <2>2
<1>10. ASSUME NEW c \in expected' PROVE Before(KeyOf(c), NextCursor) \/ listed'[c] = 1
  <2>1. c \in Stored /\ (AfterCursor(c) \/ listed[c] = 1)
    <3>1. CASE cursor = FromTop
      BY <1>1, <1>10, <3>1, StoredHasKey DEF AfterCursor
    <3>2. CASE cursor # FromTop
      BY <1>1, <1>10, <3>2 DEF Progress
    <3> QED
      BY <3>1, <3>2
  <2>2. CASE AfterCursor(c)
    <3>1. c \in Remaining
      BY <2>1, <2>2 DEF Remaining
    <3> QED
      BY <1>2, <1>5, <3>1
  <2>3. CASE listed[c] = 1
    BY <1>4, <1>5, <1>6, <2>1, <2>3
  <2> QED
    BY <2>1, <2>2, <2>3
<1>11. expected' \subseteq Stored
  BY <1>1 DEF Progress
<1>12. \A c \in Contents : listed'[c] = 1 => c \in Stored' /\ ~AfterCursor(c)'
  BY <1>3, <1>9
<1>13. \A c \in expected' : AfterCursor(c)' \/ listed'[c] = 1
  BY <1>3, <1>4, <1>10, <1>11
<1> QED
  BY <1>1, <1>2, <1>3, <1>8, <1>11, <1>12, <1>13 DEF Progress, Keys, FromTop

LEMMA NewListingKeepsProgress ==
  ASSUME Shape, NewListing
  PROVE  Progress'
<1>1. cursor' = FromTop /\ listed' = [c \in Contents |-> 0] /\ expected' = {}
  BY DEF NewListing
<1>2. FromTop \in Keys
  BY StoredHasKey
<1> QED
  BY <1>1, <1>2 DEF Progress, Keys, FromTop

LEMMA InitListing == ListingInit => LInv
<1> SUFFICES ASSUME ListingInit PROVE LInv
  OBVIOUS
<1>1. Shape /\ Migrations /\ Held /\ FiniteStore
  BY InitShape, InitMigrations, InitHeld, InitFinite DEF ListingInit, Held
<1>2. FromTop \in Keys
  BY <1>1, StoredHasKey
<1>3. Progress
  BY <1>2 DEF ListingInit, Progress
<1> QED
  BY <1>1, <1>3 DEF LInv

LEMMA NextListing == LInv /\ [ListingNext]_allVars => LInv'
<1> SUFFICES ASSUME LInv, [ListingNext]_allVars PROVE LInv'
  OBVIOUS
<1> USE DEF LInv
<1>1. [Next]_vars
  BY DEF ListingNext, allVars, ListContents, NewListing
<1>2. Shape' /\ Migrations' /\ Held' /\ FiniteStore'
  BY <1>1, NextShape, NextMigrations, NextHeld, NextFinite
<1>3. CASE UNCHANGED listVars
  BY <1>1, <1>2, <1>3, StoringKeepsProgress
<1>4. CASE ListContents
  BY <1>2, <1>4, PageKeepsProgress
<1>5. CASE NewListing
  BY <1>2, <1>5, NewListingKeepsProgress
<1> QED
  BY <1>3, <1>4, <1>5 DEF ListingNext, allVars

(* A listing that is at its end has had every content that was there when  *)
(* it began, and no content twice, however many pages it took and whatever *)
(* was committed between them, with a created_at of its past included.     *)
THEOREM ListingIsCompleteHolds == ListingSpec => []ListingIsComplete
<1>1. LInv => ListingIsComplete
  <2> SUFFICES ASSUME LInv PROVE ListingIsComplete
    OBVIOUS
  <2>1. \A c \in Contents : listed[c] \in {0, 1}
    BY DEF LInv, Progress
  <2>2. ASSUME cursor = AtEnd, NEW c \in expected PROVE listed[c] = 1
    <3>1. c \in Stored /\ (AfterCursor(c) \/ listed[c] = 1)
      BY <2>2, StoredHasKey DEF LInv, Progress
    <3>2. ~AfterCursor(c)
      BY <2>2, <3>1, StoredHasKey DEF LInv, AfterCursor
    <3> QED
      BY <3>1, <3>2
  <2> QED
    BY <2>1, <2>2 DEF ListingIsComplete
<1> QED
  BY InitListing, NextListing, <1>1, PTL DEF ListingSpec
=============================================================================
