---------------------------- MODULE TaskHistory ----------------------------
(***************************************************************************)
(* The task manager with its SQLite history: every change of a result is   *)
(* saved inside the critical section that makes it (persistLocked), a      *)
(* failed save is only logged, the process may die at any moment, and      *)
(* NewManager rebuilds the results from the rows it finds                  *)
(* (src/internal/task/manager.go and result_store.go).                     *)
(*                                                                         *)
(* An operator whose name starts with Bug is a plausible mistake in the    *)
(* definition that follows it; no specification uses it.                   *)
(***************************************************************************)
EXTENDS TaskManager

CONSTANTS
  Expiring,   \* tasks whose timestamps may fall behind the retention cutoff
  Fragile,    \* bound: tasks whose saves may fail
  MaxCrashes  \* bound: how often the process ends

ASSUME TaskHistoryAssumption ==
  Expiring \subseteq Tasks /\ Fragile \subseteq Tasks /\ MaxCrashes \in Nat

VARIABLES
  rows,     \* task_results.status, "none" without a row
  age,      \* 1: start_time is behind the cutoff; 2: end_time is too
  up,       \* the process runs
  storeUp,  \* Manager.store # nil
  purge,    \* what ended before the cutoff of the running cleanup
  lost,     \* attempts whose last save failed (history variable)
  crashes

hvars == <<vars, rows, age, up, storeUp, purge, lost, crashes>>

Interrupted == {"pending", "running"}

HInit ==
  /\ Init
  /\ rows = [id \in Ids |-> "none"]
  /\ age = [id \in Ids |-> 0]
  /\ up = TRUE
  /\ storeUp = TRUE
  /\ purge = {}
  /\ lost = {}
  /\ crashes = 0

-----------------------------------------------------------------------------
(* What ResultStore.Save may have written when it was called for every     *)
(* result of S.                                                            *)
SavesOf(S) ==
  {{id \in S : id[1] \notin Fragile} \cup kept :
     kept \in SUBSET {id \in S : id[1] \in Fragile}}

BugPersistUntilStop(changed) ==
  \E saved \in IF storeUp /\ ~Stopping THEN SavesOf(changed) ELSE {{}} :
    /\ rows' = [id \in Ids |-> IF id \in saved THEN results'[id] ELSE rows[id]]
    /\ lost' = (IF Stopping THEN lost ELSE lost \cup changed) \ saved
(* persistLocked of every result that a critical section has changed.      *)
Persist(changed) ==
  \E saved \in IF storeUp /\ stopPhase # "closed" THEN SavesOf(changed) ELSE {{}} :
    /\ rows' = [id \in Ids |-> IF id \in saved THEN results'[id] ELSE rows[id]]
    /\ lost' = (lost \cup changed) \ saved

BugMarksCancelled(status) == IF status = "completed" THEN status ELSE "failed"
BugMarksOnlyRunning(status) == IF status = "running" THEN "failed" ELSE status
(* markInterruptedResult.                                                  *)
Recover(status) == IF status \in Interrupted THEN "failed" ELSE status

BugRepairsOnlyRunning(loaded) == {id \in loaded : rows[id] = "running"}
(* The loaded results NewManager saves again.                              *)
Repaired(loaded) == {id \in loaded : Recover(rows[id]) # rows[id]}

BugInWindowByStart(id) == rows[id] # "none" /\ age[id] = 0
(* LoadRecent: COALESCE(end_time, start_time) >= cutoff.                   *)
InWindow(id) ==
  /\ rows[id] # "none"
  /\ age[id] < (IF rows[id] \in Terminal THEN 2 ELSE 1)

-----------------------------------------------------------------------------
(* A step of the running manager, with the saves of its critical section.  *)
ManagerStep ==
  /\ up
  /\ \/ SubmitBatch
     \/ \E id \in Ids : CancelRunning(id) \/ CancelPending(id) \/ RetrySteps(id)
     \/ \E w \in Workers : WorkerSteps(w) \/ Returns(w)
     \/ StopBegins \/ StopExpires \/ StopJoins \/ StopAbandons \/ StopCloses
     \/ CleanupExits
  /\ Persist({id \in Ids : results'[id] # results[id]})
  /\ UNCHANGED <<age, up, storeUp, purge, crashes>>

(* The cleanup tick forgets what ended before the cutoff ...               *)
Tick ==
  /\ up
  /\ CleanupTick
  /\ \A id \in Ids : results[id] \in Terminal => (results'[id] = "none" <=> age[id] = 2)
  /\ purge' = {id \in Ids : age[id] = 2}
  /\ UNCHANGED <<rows, age, up, storeUp, lost, crashes>>

(* ... and DeleteOlderThan, without the lock, deletes the rows that did,   *)
(* unless it fails.                                                        *)
Purge ==
  /\ up
  /\ CleanupPurged
  /\ \E deleted \in {{}, {id \in purge : rows[id] \in Terminal}} :
       rows' = [id \in Ids |-> IF storeUp /\ id \in deleted THEN "none" ELSE rows[id]]
  /\ purge' = {}
  /\ UNCHANGED <<age, up, storeUp, lost, crashes>>

(* Time passes, whether or not the process runs.                           *)
GrowOld(id) ==
  /\ id[1] \in Expiring
  /\ \/ age[id] = 0 /\ (results[id] # "none" \/ rows[id] # "none")
     \/ age[id] = 1 /\ (results[id] \in Terminal \/ rows[id] \in Terminal)
  /\ age' = [age EXCEPT ![id] = @ + 1]
  /\ UNCHANGED <<vars, rows, up, storeUp, purge, lost, crashes>>

(* A new manager takes the place of the old one (Boot, as a step).         *)
Reboot(loaded) ==
  /\ queue' = {} /\ sequence' = 0
  /\ results' = loaded
  /\ running' = {} /\ cancelled' = {} /\ retryTimers' = {} /\ fired' = {}
  /\ counters' = ZeroCounters
  /\ pc' = [w \in Workers |-> "ready"] /\ job' = [w \in Workers |-> Idle]
  /\ stopPhase' = "no" /\ cleaner' = "waiting"

(* The process ends, by a crash or after Stop has returned: what is in     *)
(* memory is gone, armed retries included.                                 *)
Crash ==
  /\ up
  /\ crashes < MaxCrashes
  /\ up' = FALSE
  /\ crashes' = crashes + 1
  /\ Reboot([id \in Ids |-> "none"])
  /\ purge' = {}
  /\ UNCHANGED <<fresh, rows, age, storeUp, lost>>

(* NewManager over an existing store.  An unreadable history is given up;  *)
(* one failed repair turns persistence off for the life of the process.    *)
Restart ==
  /\ ~up
  /\ up' = TRUE
  /\ \E readable \in BOOLEAN :
       LET loaded == {id \in Ids : readable /\ InWindow(id)}
           repaired == Repaired(loaded)
           memory == [id \in Ids |-> IF id \in loaded THEN Recover(rows[id]) ELSE "none"]
       IN \E saved \in SavesOf(repaired) :
            /\ rows' = [id \in Ids |-> IF id \in saved THEN memory[id] ELSE rows[id]]
            /\ Reboot(memory)
            /\ storeUp' = (readable /\ saved = repaired)
            /\ lost' = (lost \cup repaired) \ saved
  /\ UNCHANGED <<fresh, age, purge, crashes>>

HNext ==
  \/ ManagerStep \/ Tick \/ Purge \/ Crash \/ Restart
  \/ \E id \in Ids : GrowOld(id)

HSpec == HInit /\ [][HNext]_hvars

-----------------------------------------------------------------------------
(* Memory and disk tell the same story: a remembered result differs from   *)
(* its row only where a save has failed.                                   *)
RowsTrackResults ==
  \A id \in Ids : up /\ results[id] # "none" /\ id \notin lost
                    => rows[id] = results[id]

(* "Task results survive restarts": an outcome on disk that has not        *)
(* reached the retention age is served from memory, unaltered, for as long *)
(* as the process has its store.                                           *)
HistoryIsServed ==
  \A id \in Ids : up /\ storeUp /\ rows[id] \in Terminal /\ age[id] < 2
                    => results[id] = rows[id]

(* A process that has its store leaves no row of an interrupted process    *)
(* pending or running, as far as the row is inside the retention window    *)
(* and its save did not fail.                                              *)
InterruptedIsFinalized ==
  \A id \in Ids : up /\ storeUp /\ rows[id] \in Interrupted
                    => results[id] \in Interrupted \/ id \in lost \/ age[id] > 0

(* The documented form of the same: any such row is finalized.             *)
AnyInterruptedIsFinalized ==
  \A id \in Ids : up /\ storeUp /\ rows[id] \in Interrupted
                    => results[id] \in Interrupted \/ id \in lost

(* No process reports work that nobody executes: after any restart every   *)
(* running result has its worker and every pending one its queue entry.    *)
NoPhantomWork == RunningAgrees /\ QueueIsPending

(* An outcome on disk is never rewritten, by no manager of any later       *)
(* process, only deleted with age.                                         *)
OutcomeIsDurable ==
  [][\A id \in Ids : rows[id] \in Terminal => rows'[id] \in {rows[id], "none"}]_hvars
=============================================================================
