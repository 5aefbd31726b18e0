------------------------- MODULE TaskHistoryProofs -------------------------
(***************************************************************************)
(* Proofs about TaskHistory, for every number of tasks, workers, retries   *)
(* and crashes, whichever saves fail and whatever falls behind the         *)
(* retention cutoff.  A manager with history takes the steps of            *)
(* TaskManager between a restart and the next crash, so that the core      *)
(* invariant of TaskManagerProofs carries over.                            *)
(***************************************************************************)
EXTENDS TaskHistory, TaskManagerProofs

-----------------------------------------------------------------------------
(* The shape of the state that TaskHistory adds.                           *)
HTypeOK ==
  /\ rows \in [Ids -> Status \cup {"none"}]
  /\ age \in [Ids -> 0 .. 2]
  /\ up \in BOOLEAN
  /\ storeUp \in BOOLEAN
  /\ purge \subseteq Ids
  /\ lost \subseteq Ids
  /\ crashes \in Nat

(* An attempt that may still come into being: of a task nobody has         *)
(* submitted, armed for its retry, or a later one of a live task.          *)
Unborn(id) ==
  \/ id[1] \in fresh
  \/ id \in retryTimers \cup fired
  \/ \E i \in Live : i[1] = id[1] /\ i[2] < id[2]
UnbornHasNoHistory == \A id \in Ids : Unborn(id) => rows[id] = "none" /\ age[id] = 0

(* An outcome on disk is that of memory, or memory has forgotten it.       *)
OutcomesAgree ==
  \A id \in Ids : rows[id] \in Terminal => results[id] \in {rows[id], "none"}

(* What is old is over, and what a purge is about to delete is forgotten.  *)
OldIsOver ==
  /\ \A id \in Ids :
       /\ age[id] = 2 => results[id] \notin Interrupted
       /\ id \in purge => age[id] = 2 /\ results[id] = "none"
  /\ up \/ purge = {}

History ==
  /\ UnbornHasNoHistory
  /\ OutcomesAgree
  /\ OldIsOver
  /\ RowsTrackResults
  /\ HistoryIsServed
  /\ InterruptedIsFinalized

HInv == TypeInv /\ Core /\ HTypeOK /\ History

-----------------------------------------------------------------------------
(* Steps of the manager as the history sees them.                          *)
(* No step brings back a task or arms a retry of an attempt that could not *)
(* come into being before.                                                 *)
LEMMA NothingIsUnbornAgain ==
  ASSUME TypeInv, Core, [Next]_vars, NEW id \in Ids, Unborn(id)'
  PROVE  Unborn(id)
<1> DEFINE Follows(i) == \E k \in Live : k[1] = i[1] /\ k[2] < i[2]
           Armed == retryTimers \cup fired
           NoneArmed == fresh' \subseteq fresh /\ Armed' \subseteq Armed
<1>1. fresh' \subseteq fresh /\ \A i \in Armed' : i \in Armed \/ Follows(i)
  <2>1. CASE SubmitBatch
    BY <2>1 DEF SubmitBatch
  <2>2. ASSUME NEW i \in Ids, CancelRunning(i) \/ CancelPending(i) PROVE NoneArmed
    BY <2>2 DEF CancelRunning, CancelPending
  <2>3. ASSUME NEW i \in Ids, RetrySteps(i) PROVE NoneArmed
    <3>1. fired \subseteq Armed
      OBVIOUS
    <3> QED
      BY <2>3, <3>1 DEF RetrySteps, TimerFires, RetryAdmitted, RetryDeferred,
         RetryDropped, Disarmed, TimersWhenFull
  <2>4. ASSUME NEW w \in Workers, WorkerSteps(w) PROVE NoneArmed
    BY <2>4 DEF WorkerSteps, WorkerExits, WorkerSleeps, WorkerTakes
  <2>5. ASSUME NEW w \in Workers, NEW err \in BOOLEAN, Finish(w, err)
        PROVE  fresh' \subseteq fresh /\ \A i \in Armed' : i \in Armed \/ Follows(i)
    <3>1. job[w] \in Ids /\ results[job[w]] = "running"
      BY <2>5 DEF Finish, TypeInv, TypeOK, HoldsJob, Core, RunningAgrees, WithStatus
    <3>2. job[w] \in Live
      BY <3>1 DEF Live, WithStatus
    <3>3. Follows(RetryOf(job[w]))
      BY <3>1, <3>2, TaskManagerAssumption DEF RetryOf, Ids
    <3>4. fresh' = fresh /\ fired' = fired
          /\ retryTimers' \subseteq retryTimers \cup {RetryOf(job[w])}
      BY <2>5 DEF Finish
    <3> HIDE DEF Follows
    <3> QED
      BY <3>3, <3>4
  <2>6. CASE StopBegins \/ StopExpires \/ StopJoins \/ StopAbandons \/ StopCloses
    BY <2>6 DEF StopBegins, StopExpires, StopJoins, StopAbandons, StopCloses
  <2>7. CASE CleanupTick \/ CleanupPurged \/ CleanupExits
    BY <2>7 DEF CleanupTick, CleanupPurged, CleanupExits
  <2>8. CASE UNCHANGED vars
    BY <2>8 DEF vars
  <2> HIDE DEF Follows
  <2> QED
    BY <2>1, <2>2, <2>3, <2>4, <2>5, <2>6, <2>7, <2>8 DEF Next, Returns
<1>2. \A i \in Live' : i \in Ids /\ (i \in Live \/ i[1] \in fresh \/ Follows(i))
  <2> SUFFICES ASSUME NEW i \in Live' PROVE i \in Ids /\ (i \in Live \/ i[1] \in fresh \/ Follows(i))
    OBVIOUS
  <2> HIDE DEF Follows
  <2>1. CASE i \in Armed'
    <3>1. i \in Ids
      BY <2>1, NextTypes DEF TypeInv, TypeOK
    <3> QED
      BY <1>1, <2>1, <3>1 DEF Live
  <2>2. CASE i \in Ids /\ results'[i] \in {"pending", "running"}
    <3>1. results[i] \notin Terminal
      BY <2>2, NextSettled DEF FinalStep, Terminal
    <3>2. CASE results[i] = "none"
      BY <2>2, <3>2, NextSettled DEF FinalStep, Live
    <3> QED
      BY <2>2, <3>1, <3>2 DEF TypeInv, TypeOK, Status, Live, WithStatus
  <2> QED
    BY <2>1, <2>2 DEF Live, WithStatus
<1>3. CASE id[1] \in fresh' \/ id \in Armed'
  BY <1>1, <1>3 DEF Unborn
<1>4. ASSUME NEW i \in Live', i[1] = id[1], i[2] < id[2] PROVE Unborn(id)
  <2>1. i \in Ids
    BY <1>2
  <2>2. CASE i \in Live
    BY <1>4, <2>2 DEF Unborn
  <2>3. CASE i[1] \in fresh
    BY <1>4, <2>3 DEF Unborn
  <2>4. ASSUME NEW k \in Live, k[1] = i[1], k[2] < i[2] PROVE Unborn(id)
    <3>1. k \in Ids
      BY DEF Live, WithStatus, TypeInv, TypeOK
    <3>2. k[2] < id[2] /\ k[1] = id[1]
      BY <1>4, <2>1, <2>4, <3>1, TaskManagerAssumption DEF Ids
    <3> QED
      BY <3>2 DEF Unborn
  <2> QED
    BY <1>2, <2>2, <2>3, <2>4
<1> QED
  BY <1>3, <1>4 DEF Unborn

(* What may still come into being has no result.                           *)
LEMMA UnbornHasNoResult ==
  ASSUME Core, NEW id \in Ids, Unborn(id)
  PROVE  results[id] = "none"
BY DEF Core, Unborn, FreshIsUnused, OneLiveAttempt, SuccessorsUnborn

(* Only the cleanup forgets.                                               *)
LEMMA ManagerRemembers ==
  ASSUME TypeInv, Core, ManagerStep, NEW id \in Ids, results[id] # "none"
  PROVE  results'[id] # "none"
<1>1. CASE SubmitBatch
  BY <1>1 DEF SubmitBatch, Enqueue
<1>2. ASSUME NEW i \in Ids, CancelPending(i) PROVE results'[id] # "none"
  BY <1>2 DEF CancelPending, TypeInv, TypeOK
<1>3. ASSUME NEW i \in Ids, RetryAdmitted(i) PROVE results'[id] # "none"
  BY <1>3 DEF RetryAdmitted, Enqueue
<1>4. ASSUME NEW w \in Workers, WorkerTakes(w) PROVE results'[id] # "none"
  BY <1>4 DEF WorkerTakes, TypeInv, TypeOK
<1>5. ASSUME NEW w \in Workers, NEW err \in BOOLEAN, Finish(w, err)
      PROVE  results'[id] # "none"
  <2>1. Outcome(job[w], err) # "none"
    BY DEF Outcome
  <2> QED
    BY <1>5, <2>1 DEF Finish, TypeInv, TypeOK
<1>6. CASE StopBegins
  BY <1>6 DEF StopBegins
<1>7. CASE UNCHANGED results
  BY <1>7
<1> QED
  BY <1>1, <1>2, <1>3, <1>4, <1>5, <1>6, <1>7
     DEF ManagerStep, RetrySteps, WorkerSteps, Returns, CancelRunning, TimerFires,
         RetryDeferred, RetryDropped, WorkerExits, WorkerSleeps, StopExpires,
         StopJoins, StopAbandons, StopCloses, CleanupExits

(* What one step of a manager may do to a result.                          *)
LEMMA ManagerResults ==
  ASSUME TypeInv, Core, ManagerStep, NEW id \in Ids
  PROVE  /\ [Next]_vars
         /\ results'[id] \in Status \cup {"none"}
         /\ results[id] # "none" => results'[id] # "none"
         /\ results[id] \in Terminal => results'[id] = results[id]
         /\ results[id] = "none" /\ results'[id] # "none" => Unborn(id)
<1>1. [Next]_vars
  BY DEF ManagerStep, Next
<1>2. results'[id] \in Status \cup {"none"}
  BY <1>1, NextTypes DEF TypeInv, TypeOK
<1>3. results[id] # "none" => results'[id] # "none"
  BY ManagerRemembers
<1>4. FinalStep
  BY <1>1, NextSettled
<1> QED
  BY <1>1, <1>2, <1>3, <1>4 DEF FinalStep, Unborn, Terminal

(* What the saves of a critical section do to a row: it gets the result,   *)
(* or keeps what it has, and then the save has failed if there was one.    *)
LEMMA PersistedRows ==
  ASSUME HTypeOK, NEW changed, changed \subseteq Ids, Persist(changed), NEW id \in Ids
  PROVE  /\ \/ id \in changed /\ rows'[id] = results'[id] /\ id \notin lost'
            \/ id \in changed /\ rows'[id] = rows[id] /\ id \in lost'
            \/ id \notin changed /\ rows'[id] = rows[id] /\ (id \in lost' <=> id \in lost)
         /\ lost' \subseteq Ids
<1>1. PICK saved \in SUBSET changed :
        /\ rows' = [i \in Ids |-> IF i \in saved THEN results'[i] ELSE rows[i]]
        /\ lost' = (lost \cup changed) \ saved
  BY DEF Persist, SavesOf
<1> QED
  BY <1>1 DEF HTypeOK

-----------------------------------------------------------------------------
(* The history is inductive.                                               *)
LEMMA InitHistory == HInit => HInv
<1> SUFFICES ASSUME HInit PROVE HInv
  OBVIOUS
<1>1. TypeInv /\ Core
  BY InitTypes, InitCore DEF HInit
<1>2. HTypeOK
  BY TaskHistoryAssumption DEF HInit, HTypeOK, Status
<1>3. History
  BY DEF HInit, Init, Boot, History, UnbornHasNoHistory, OutcomesAgree, OldIsOver,
         RowsTrackResults, HistoryIsServed, InterruptedIsFinalized, Terminal,
         Interrupted
<1> QED
  BY <1>1, <1>2, <1>3 DEF HInv

(* A step of the running manager, saves included.                          *)
LEMMA ManagerKeepsHistory ==
  ASSUME HInv, ManagerStep
  PROVE  HInv'
<1> DEFINE changed == {id \in Ids : results'[id] # results[id]}
<1>1. TypeInv /\ Core /\ HTypeOK /\ History /\ up
  BY DEF HInv, ManagerStep
<1>2. TypeInv' /\ Core' /\ [Next]_vars
  BY <1>1, ManagerResults, NextTypes, NextCore DEF ManagerStep, Next
<1>3. Persist(changed) /\ UNCHANGED <<age, up, storeUp, purge, crashes>>
  BY DEF ManagerStep
<1>4. HTypeOK'
  <2>1. PICK saved \in SUBSET changed :
          /\ rows' = [i \in Ids |-> IF i \in saved THEN results'[i] ELSE rows[i]]
          /\ lost' = (lost \cup changed) \ saved
    BY <1>3 DEF Persist, SavesOf
  <2>2. results' \in [Ids -> Status \cup {"none"}]
    BY <1>2 DEF TypeInv, TypeOK
  <2> QED
    BY <1>1, <1>3, <2>1, <2>2 DEF HTypeOK
<1>5. ASSUME NEW id \in Ids
      PROVE  /\ Unborn(id)' => rows'[id] = "none" /\ age'[id] = 0
             /\ rows'[id] \in Terminal => results'[id] \in {rows'[id], "none"}
             /\ age'[id] = 2 => results'[id] \notin Interrupted
             /\ id \in purge' => age'[id] = 2 /\ results'[id] = "none"
             /\ results'[id] # "none" /\ id \notin lost' => rows'[id] = results'[id]
             /\ storeUp' /\ rows'[id] \in Terminal /\ age'[id] < 2
                  => results'[id] = rows'[id]
             /\ storeUp' /\ rows'[id] \in Interrupted
                  => results'[id] \in Interrupted \/ id \in lost' \/ age'[id] > 0
  <2>1. /\ \/ id \in changed /\ rows'[id] = results'[id] /\ id \notin lost'
           \/ id \in changed /\ rows'[id] = rows[id] /\ id \in lost'
           \/ id \notin changed /\ rows'[id] = rows[id] /\ (id \in lost' <=> id \in lost)
    BY <1>1, <1>3, PersistedRows
  <2>2. /\ results'[id] \in Status \cup {"none"}
        /\ results[id] # "none" => results'[id] # "none"
        /\ results[id] \in Terminal => results'[id] = results[id]
        /\ results[id] = "none" /\ results'[id] # "none" => Unborn(id)
    BY <1>1, ManagerResults
  <2>3. /\ Unborn(id) => rows[id] = "none" /\ age[id] = 0
        /\ rows[id] \in Terminal => results[id] \in {rows[id], "none"}
        /\ age[id] = 2 => results[id] \notin Interrupted
        /\ id \in purge => age[id] = 2 /\ results[id] = "none"
        /\ results[id] # "none" /\ id \notin lost => rows[id] = results[id]
        /\ storeUp /\ rows[id] \in Terminal /\ age[id] < 2 => results[id] = rows[id]
        /\ storeUp /\ rows[id] \in Interrupted
             => results[id] \in Interrupted \/ id \in lost \/ age[id] > 0
    BY <1>1 DEF History, UnbornHasNoHistory, OutcomesAgree, OldIsOver,
       RowsTrackResults, HistoryIsServed, InterruptedIsFinalized
  <2>4. /\ results[id] \in Status \cup {"none"} /\ rows[id] \in Status \cup {"none"}
        /\ age[id] \in 0 .. 2
    BY <1>1 DEF TypeInv, TypeOK, HTypeOK
  <2>5. age'[id] = age[id] /\ (id \in purge' <=> id \in purge) /\ storeUp' = storeUp
    BY <1>3
  <2>6. Unborn(id)' => Unborn(id) /\ results[id] = "none" /\ results'[id] = "none"
    <3>1. Unborn(id)' => Unborn(id)
      BY <1>1, <1>2, NothingIsUnbornAgain
    <3>2. Unborn(id) => results[id] = "none"
      BY <1>1, UnbornHasNoResult
    <3>3. Unborn(id)' => results'[id] = "none"
      BY <1>2 DEF Core, Unborn, FreshIsUnused, OneLiveAttempt, SuccessorsUnborn
    <3> QED
      BY <3>1, <3>2, <3>3
  <2>7. CASE results'[id] = results[id]
    <3>1. rows'[id] = rows[id] /\ (id \in lost' <=> id \in lost)
      BY <2>1, <2>7
    <3> QED
      BY <2>3, <2>4, <2>5, <2>6, <2>7, <3>1
  <2>8. CASE results'[id] # results[id] /\ results[id] = "none"
    <3>1. Unborn(id) /\ rows[id] = "none" /\ age[id] = 0
      BY <2>2, <2>3, <2>8
    <3>2. id \in changed /\ results'[id] \in Status
      BY <2>2, <2>8
    <3> HIDE DEF changed
    <3> QED
      BY <2>1, <2>3, <2>5, <2>6, <2>8, <3>1, <3>2 DEF Status, Terminal, Interrupted
  <2>9. CASE results'[id] # results[id] /\ results[id] # "none"
    <3>1. rows[id] \notin Terminal /\ results[id] \in Interrupted
      BY <2>2, <2>3, <2>4, <2>9 DEF Status, Terminal, Interrupted
    <3>2. id \in changed /\ results'[id] \in Status
      BY <2>2, <2>9
    <3> HIDE DEF changed
    <3> QED
      BY <2>1, <2>3, <2>4, <2>5, <2>6, <2>9, <3>1, <3>2 DEF Status, Terminal, Interrupted
  <2> QED
    BY <2>7, <2>8, <2>9
<1>6. History'
  BY <1>1, <1>3, <1>5 DEF History, UnbornHasNoHistory, OutcomesAgree, OldIsOver,
     RowsTrackResults, HistoryIsServed, InterruptedIsFinalized
<1> QED
  BY <1>2, <1>4, <1>6 DEF HInv

(* The cleanup tick keeps the story: it forgets exactly what may be purged.*)
LEMMA TickKeepsHistory ==
  ASSUME HInv, Tick
  PROVE  HInv'
<1>1. TypeInv /\ Core /\ HTypeOK /\ History /\ up
  BY DEF HInv, Tick
<1>2. TypeInv' /\ Core' /\ [Next]_vars
  BY <1>1, NextTypes, NextCore DEF Tick, Next
<1>3. HTypeOK'
  BY <1>1 DEF Tick, HTypeOK
<1>4. ASSUME NEW id \in Ids
      PROVE  /\ results'[id] \in {results[id], "none"}
             /\ results'[id] # results[id] => results[id] \in Terminal
             /\ results[id] \in Terminal => (results'[id] = "none" <=> age[id] = 2)
  BY <1>1 DEF Tick, CleanupTick, WithStatus, TypeInv, TypeOK
<1>5. UNCHANGED <<rows, age, up, storeUp, lost>> /\ purge' = {id \in Ids : age[id] = 2}
  BY DEF Tick
<1>6. UnbornHasNoHistory'
  BY <1>1, <1>2, <1>5, NothingIsUnbornAgain DEF History, UnbornHasNoHistory
<1>7. OutcomesAgree' /\ RowsTrackResults'
  BY <1>1, <1>4, <1>5 DEF History, OutcomesAgree, RowsTrackResults
<1>8. OldIsOver'
  <2> SUFFICES ASSUME NEW id \in Ids, age[id] = 2
               PROVE  results'[id] = "none"
    BY <1>1, <1>5 DEF OldIsOver, Interrupted
  <2>1. results[id] \notin Interrupted
    BY <1>1 DEF History, OldIsOver
  <2>2. results[id] \in Terminal \/ results[id] = "none"
    BY <1>1, <2>1 DEF TypeInv, TypeOK, Status, Interrupted
  <2> QED
    BY <1>4, <2>2
<1>9. HistoryIsServed'
  BY <1>1, <1>4, <1>5 DEF History, HistoryIsServed, HTypeOK
<1>10. InterruptedIsFinalized'
  BY <1>1, <1>4, <1>5 DEF History, InterruptedIsFinalized, Terminal, Interrupted
<1> QED
  BY <1>2, <1>3, <1>6, <1>7, <1>8, <1>9, <1>10 DEF HInv, History

(* A purge deletes rows of results that memory has forgotten.              *)
LEMMA PurgeKeepsHistory ==
  ASSUME HInv, Purge
  PROVE  HInv'
<1>1. TypeInv /\ Core /\ HTypeOK /\ History /\ up
  BY DEF HInv, Purge
<1>2. TypeInv' /\ Core' /\ [Next]_vars
  BY <1>1, NextTypes, NextCore DEF Purge, Next
<1>3. PICK deleted \in SUBSET purge :
        rows' = [id \in Ids |-> IF storeUp /\ id \in deleted THEN "none" ELSE rows[id]]
  BY DEF Purge
<1>4. purge' = {} /\ UNCHANGED <<age, up, storeUp, lost, crashes>>
  BY DEF Purge
<1>5. HTypeOK'
  BY <1>1, <1>3, <1>4 DEF HTypeOK
<1>6. UNCHANGED results
  BY DEF Purge, CleanupPurged
<1>7. \A id \in Ids : rows'[id] = rows[id] \/ (rows'[id] = "none" /\ results[id] = "none")
  <2>1. \A id \in Ids : id \in purge => results[id] = "none"
    BY <1>1 DEF History, OldIsOver
  <2>2. ASSUME NEW id \in Ids, rows'[id] # rows[id]
        PROVE  rows'[id] = "none" /\ id \in deleted
    BY <1>3, <2>2
  <2> QED
    BY <2>1, <2>2
<1>8. UnbornHasNoHistory'
  BY <1>1, <1>2, <1>4, <1>7, NothingIsUnbornAgain DEF History, UnbornHasNoHistory
<1>9. OutcomesAgree' /\ OldIsOver' /\ RowsTrackResults'
  BY <1>1, <1>4, <1>6, <1>7
     DEF History, OutcomesAgree, OldIsOver, RowsTrackResults, Terminal
<1>10. HistoryIsServed' /\ InterruptedIsFinalized'
  BY <1>1, <1>4, <1>6, <1>7
     DEF History, HistoryIsServed, InterruptedIsFinalized, Terminal, Interrupted
<1> QED
  BY <1>2, <1>5, <1>8, <1>9, <1>10 DEF HInv, History

(* Only what is over grows old enough to be forgotten.                     *)
LEMMA AgeKeepsHistory ==
  ASSUME HInv, NEW id \in Ids, GrowOld(id)
  PROVE  HInv'
<1>1. TypeInv /\ Core /\ HTypeOK /\ History
  BY DEF HInv
<1>2. UNCHANGED <<vars, rows, up, storeUp, purge, lost, crashes>>
      /\ age' = [age EXCEPT ![id] = @ + 1]
  BY DEF GrowOld
<1>3. TypeInv' /\ Core'
  BY <1>1, <1>2, NextTypes, NextCore
<1>4. \/ age[id] = 0 /\ (results[id] # "none" \/ rows[id] # "none")
      \/ age[id] = 1 /\ (results[id] \in Terminal \/ rows[id] \in Terminal)
  BY DEF GrowOld
<1>5. HTypeOK'
  BY <1>1, <1>2, <1>4 DEF HTypeOK
<1>6. /\ \A i \in Ids : i # id => age'[i] = age[i]
      /\ age'[id] = age[id] + 1 /\ age[id] \in {0, 1}
  BY <1>1, <1>2, <1>4 DEF HTypeOK
<1>7. UnbornHasNoHistory'
  <2>1. ~Unborn(id)
    BY <1>1, <1>4, UnbornHasNoResult DEF History, UnbornHasNoHistory, Terminal
  <2>2. \A i \in Ids : Unborn(i)' <=> Unborn(i)
    BY <1>2 DEF vars, Unborn, Live, WithStatus
  <2> QED
    BY <1>1, <1>2, <1>6, <2>1, <2>2 DEF History, UnbornHasNoHistory
<1>8. UNCHANGED <<results, rows, up, storeUp, purge, lost>>
  BY <1>2 DEF vars
<1>9. OutcomesAgree' /\ RowsTrackResults'
  BY <1>1, <1>8 DEF History, OutcomesAgree, RowsTrackResults
<1>10. OldIsOver'
  BY <1>1, <1>4, <1>6, <1>8
     DEF History, OldIsOver, OutcomesAgree, Terminal, Interrupted
<1>11. HistoryIsServed' /\ InterruptedIsFinalized'
  BY <1>1, <1>6, <1>8 DEF History, HistoryIsServed, InterruptedIsFinalized, HTypeOK
<1> QED
  BY <1>3, <1>5, <1>7, <1>9, <1>10, <1>11 DEF HInv, History

(* A manager that begins anew has nothing queued, running or armed.        *)
LEMMA RebootIsOrderly ==
  ASSUME TypeInv, NEW loaded \in [Ids -> Terminal \cup {"none"}], Reboot(loaded), UNCHANGED fresh,
         \A id \in Ids : id[1] \in fresh => loaded[id] = "none"
  PROVE  TypeInv' /\ Core' /\ Live' = {}
<1>1. TypeOK'
  BY DEF Reboot, TypeInv, TypeOK, ZeroCounters, Status, Terminal
<1>2. IsFiniteSet(queue)' /\ HoldsJob'
  BY FS_EmptySet, TaskManagerAssumption DEF Reboot, HoldsJob
<1>3. WithStatus({"pending"})' = {} /\ WithStatus({"running"})' = {} /\ Live' = {}
  BY DEF Reboot, WithStatus, Live, Terminal
<1>4. QueueIsPending'
  BY <1>3, FS_EmptySet, TaskManagerAssumption DEF Reboot, QueueIsPending, Queued
<1>5. RunningAgrees'
  BY <1>3 DEF Reboot, RunningAgrees
<1>6. OneLiveAttempt' /\ FreshIsUnused' /\ SuccessorsUnborn'
  BY <1>3 DEF Reboot, OneLiveAttempt, FreshIsUnused, SuccessorsUnborn
<1> QED
  BY <1>1, <1>2, <1>3, <1>4, <1>5, <1>6 DEF TypeInv, Core

(* The process ends: memory is gone, the rows stay.                        *)
LEMMA CrashKeepsHistory ==
  ASSUME HInv, Crash
  PROVE  HInv'
<1>1. TypeInv /\ HTypeOK /\ History
  BY DEF HInv
<1> DEFINE empty == [id \in Ids |-> "none"]
<1>2. Reboot(empty) /\ UNCHANGED <<fresh, rows, age, storeUp, lost>>
  BY DEF Crash
<1>3. TypeInv' /\ Core' /\ Live' = {}
  BY <1>1, <1>2, RebootIsOrderly
<1>4. up' = FALSE /\ purge' = {} /\ \A id \in Ids : results'[id] = "none"
  BY <1>2 DEF Crash, Reboot
<1>5. HTypeOK'
  <2>1. crashes' = crashes + 1 /\ UNCHANGED <<rows, age, storeUp, lost>>
    BY DEF Crash
  <2>2. crashes' \in Nat
    BY <1>1, <2>1 DEF HTypeOK
  <2> QED
    BY <1>1, <1>4, <2>1, <2>2 DEF HTypeOK
<1>6. UnbornHasNoHistory'
  BY <1>1, <1>2, <1>3 DEF History, UnbornHasNoHistory, Unborn, Reboot
<1>7. OutcomesAgree' /\ OldIsOver'
  BY <1>4 DEF OutcomesAgree, OldIsOver, Interrupted
<1>8. RowsTrackResults' /\ HistoryIsServed' /\ InterruptedIsFinalized'
  BY <1>4 DEF RowsTrackResults, HistoryIsServed, InterruptedIsFinalized
<1> QED
  BY <1>3, <1>5, <1>6, <1>7, <1>8 DEF HInv, History

(* A new process: what the recovery of a row yields.                       *)
LEMMA RecoverSettles ==
  ASSUME NEW status \in Status \cup {"none"}
  PROVE  /\ Recover(status) \in Terminal \cup {"none"}
         /\ Recover(status) = "none" <=> status = "none"
         /\ status \in Terminal => Recover(status) = status
         /\ Recover(status) # status <=> status \in Interrupted
BY DEF Recover, Status, Terminal, Interrupted

(* What a restart does to memory and disk, attempt by attempt.             *)
Restarted(id, readable) ==
  LET kept == readable /\ InWindow(id)
  IN /\ results'[id] = IF kept THEN Recover(rows[id]) ELSE "none"
     /\ \/ rows'[id] = rows[id]
        \/ kept /\ rows[id] \in Interrupted /\ rows'[id] = Recover(rows[id])
     /\ id \in lost' \/ (kept /\ rows[id] \in Interrupted => rows'[id] = Recover(rows[id]))
     /\ storeUp' => readable /\ (kept /\ rows[id] \in Interrupted => rows'[id] = Recover(rows[id]))

LEMMA RestartDoes ==
  ASSUME TypeInv, HTypeOK, Restart
  PROVE  /\ up' /\ UNCHANGED <<fresh, age, purge, crashes>>
         /\ \E memory : Reboot(memory)
         /\ results' \in [Ids -> Terminal \cup {"none"}]
         /\ HTypeOK'
         /\ \E readable \in BOOLEAN : \A id \in Ids : Restarted(id, readable)
<1>1. PICK readable \in BOOLEAN :
        LET loaded == {id \in Ids : readable /\ InWindow(id)}
            repaired == Repaired(loaded)
            memory == [id \in Ids |-> IF id \in loaded THEN Recover(rows[id]) ELSE "none"]
        IN \E saved \in SavesOf(repaired) :
             /\ rows' = [id \in Ids |-> IF id \in saved THEN memory[id] ELSE rows[id]]
             /\ Reboot(memory)
             /\ storeUp' = (readable /\ saved = repaired)
             /\ lost' = (lost \cup repaired) \ saved
  BY DEF Restart
<1> DEFINE loaded == {id \in Ids : readable /\ InWindow(id)}
           repaired == Repaired(loaded)
           memory == [id \in Ids |-> IF id \in loaded THEN Recover(rows[id]) ELSE "none"]
<1>2. PICK saved \in SavesOf(repaired) :
        /\ rows' = [id \in Ids |-> IF id \in saved THEN memory[id] ELSE rows[id]]
        /\ Reboot(memory)
        /\ storeUp' = (readable /\ saved = repaired)
        /\ lost' = (lost \cup repaired) \ saved
  BY <1>1
<1>3. saved \subseteq repaired
  BY DEF SavesOf
<1>4. repaired = {id \in loaded : rows[id] \in Interrupted}
  BY RecoverSettles DEF Repaired, HTypeOK
<1>5. up' /\ UNCHANGED <<fresh, age, purge, crashes>>
  BY DEF Restart
<1>6. memory \in [Ids -> Terminal \cup {"none"}] /\ results' = memory
  BY <1>2, RecoverSettles DEF HTypeOK, Reboot
<1>7. HTypeOK'
  BY <1>2, <1>3, <1>4, <1>5, <1>6 DEF HTypeOK, Status
<1>8. \A id \in Ids : Restarted(id, readable)
  <2> SUFFICES ASSUME NEW id \in Ids PROVE Restarted(id, readable)
    OBVIOUS
  <2>1. id \in loaded <=> readable /\ InWindow(id)
    OBVIOUS
  <2>2. id \in repaired <=> id \in loaded /\ rows[id] \in Interrupted
    BY <1>4
  <2>3. results'[id] = (IF id \in loaded THEN Recover(rows[id]) ELSE "none")
    BY <1>6
  <2>4. rows'[id] = (IF id \in saved THEN memory[id] ELSE rows[id])
    BY <1>2
  <2>5. memory[id] = (IF id \in loaded THEN Recover(rows[id]) ELSE "none")
    OBVIOUS
  <2> HIDE DEF loaded, repaired, memory
  <2> QED
    BY <1>2, <1>3, <2>1, <2>2, <2>3, <2>4, <2>5 DEF Restarted
<1> QED
  BY <1>2, <1>5, <1>6, <1>7, <1>8

(* A restart finalizes what it finds interrupted, and serves the rest.     *)
LEMMA RestartKeepsHistory ==
  ASSUME HInv, Restart
  PROVE  HInv'
<1>1. TypeInv /\ HTypeOK /\ History
  BY DEF HInv
<1>2. /\ up' /\ UNCHANGED <<fresh, age, purge, crashes>>
      /\ \E memory : Reboot(memory)
      /\ results' \in [Ids -> Terminal \cup {"none"}]
      /\ HTypeOK'
  BY <1>1, RestartDoes
<1>3. PICK readable \in BOOLEAN : \A id \in Ids : Restarted(id, readable)
  BY <1>1, RestartDoes
<1>4. ASSUME NEW id \in Ids
      PROVE  /\ rows[id] \in Status \cup {"none"}
             /\ Recover(rows[id]) \in Terminal \cup {"none"}
             /\ Recover(rows[id]) = "none" <=> rows[id] = "none"
             /\ rows[id] \in Terminal => Recover(rows[id]) = rows[id]
             /\ Recover(rows[id]) # rows[id] <=> rows[id] \in Interrupted
  BY <1>1, RecoverSettles DEF HTypeOK
<1>5. Reboot(results')
  BY <1>2 DEF Reboot
<1>6. \A id \in Ids : id[1] \in fresh => rows[id] = "none"
  BY <1>1 DEF History, UnbornHasNoHistory, Unborn
<1>7. \A id \in Ids : id[1] \in fresh => results'[id] = "none"
  BY <1>3, <1>4, <1>6 DEF Restarted
<1>8. TypeInv' /\ Core' /\ Live' = {}
  BY <1>1, <1>2, <1>5, <1>7, RebootIsOrderly
<1>9. UnbornHasNoHistory'
  <2>1. \A id \in Ids : Unborn(id)' => id[1] \in fresh
    BY <1>2, <1>5, <1>8 DEF Unborn, Reboot
  <2>2. \A id \in Ids : rows[id] = "none" => rows'[id] = "none"
    BY <1>3 DEF Restarted, InWindow
  <2>3. \A id \in Ids : id[1] \in fresh => age[id] = 0
    BY <1>1 DEF History, UnbornHasNoHistory, Unborn
  <2> QED
    BY <1>2, <1>6, <2>1, <2>2, <2>3 DEF UnbornHasNoHistory
<1>10. OutcomesAgree'
  BY <1>3, <1>4 DEF OutcomesAgree, Restarted
<1>11. OldIsOver'
  <2>1. purge' = {}
    BY <1>1, <1>2 DEF Restart, History, OldIsOver
  <2>2. \A id \in Ids : results'[id] \notin Interrupted
    BY <1>2 DEF Terminal, Interrupted
  <2> QED
    BY <1>2, <2>1, <2>2 DEF OldIsOver
<1>12. RowsTrackResults'
  BY <1>3, <1>4 DEF RowsTrackResults, Restarted
<1>13. HistoryIsServed'
  BY <1>2, <1>3, <1>4 DEF HistoryIsServed, Restarted, InWindow, Terminal, Interrupted, HTypeOK
<1>14. InterruptedIsFinalized'
  BY <1>2, <1>3, <1>4 DEF InterruptedIsFinalized, Restarted, InWindow, Terminal, Interrupted, HTypeOK
<1> QED
  BY <1>2, <1>8, <1>9, <1>10, <1>11, <1>12, <1>13, <1>14 DEF HInv, History

-----------------------------------------------------------------------------
(* The invariant of the manager with its history, across restarts.         *)
LEMMA NextHistory == HInv /\ [HNext]_hvars => HInv'
<1> SUFFICES ASSUME HInv, [HNext]_hvars PROVE HInv'
  OBVIOUS
<1>1. CASE UNCHANGED hvars
  <2>1. TypeInv' /\ Core'
    BY <1>1, NextTypes, NextCore DEF HInv, hvars
  <2>2. HTypeOK'
    BY <1>1 DEF HInv, HTypeOK, hvars
  <2>3. History'
    <3>1. \A id \in Ids : Unborn(id)' <=> Unborn(id)
      BY <1>1 DEF hvars, vars, Unborn, Live, WithStatus
    <3> QED
      BY <1>1, <3>1 DEF HInv, History, hvars, vars, UnbornHasNoHistory, OutcomesAgree, OldIsOver,
         RowsTrackResults, HistoryIsServed, InterruptedIsFinalized
  <2> QED
    BY <2>1, <2>2, <2>3 DEF HInv
<1> QED
  BY <1>1, ManagerKeepsHistory, TickKeepsHistory, PurgeKeepsHistory, AgeKeepsHistory,
     CrashKeepsHistory, RestartKeepsHistory DEF HNext

(* The inductive invariant holds in every execution.                       *)
THEOREM HistoryInvariant == HSpec => []HInv
BY InitHistory, NextHistory, PTL DEF HSpec

(* Memory and disk tell the same story, except where a save has failed.    *)
THEOREM RowsTrackResultsHolds == HSpec => []RowsTrackResults
<1>1. HInv => RowsTrackResults
  BY DEF HInv, History
<1> QED
  BY HistoryInvariant, <1>1, PTL

(* Outcomes on disk survive every restart that can read them.              *)
THEOREM HistoryIsServedHolds == HSpec => []HistoryIsServed
<1>1. HInv => HistoryIsServed
  BY DEF HInv, History
<1> QED
  BY HistoryInvariant, <1>1, PTL

(* No row of an interrupted process stays pending or running.              *)
THEOREM InterruptedIsFinalizedHolds == HSpec => []InterruptedIsFinalized
<1>1. HInv => InterruptedIsFinalized
  BY DEF HInv, History
<1> QED
  BY HistoryInvariant, <1>1, PTL

(* No process reports work that nobody executes, after any restart.        *)
THEOREM NoPhantomWorkHolds == HSpec => []NoPhantomWork
<1>1. HInv => NoPhantomWork
  BY DEF HInv, Core, NoPhantomWork
<1> QED
  BY HistoryInvariant, <1>1, PTL

(* Outcomes on disk.                                                       *)
DurableStep == \A id \in Ids : rows[id] \in Terminal => rows'[id] \in {rows[id], "none"}

(* No step of any process rewrites an outcome on disk.                     *)
LEMMA NextDurable == HInv /\ [HNext]_hvars => DurableStep
<1> SUFFICES ASSUME HInv, [HNext]_hvars, NEW id \in Ids, rows[id] \in Terminal
             PROVE  rows'[id] \in {rows[id], "none"}
  BY DEF DurableStep
<1>1. TypeInv /\ Core /\ HTypeOK /\ results[id] \in {rows[id], "none"} /\ ~Unborn(id)
  BY DEF HInv, History, OutcomesAgree, UnbornHasNoHistory, Terminal
<1>2. CASE ManagerStep
  <2>1. results'[id] = results[id]
    BY <1>1, <1>2, ManagerResults
  <2>2. Persist({i \in Ids : results'[i] # results[i]})
    BY <1>2 DEF ManagerStep
  <2> QED
    BY <1>1, <2>1, <2>2, PersistedRows
<1>3. CASE Purge
  BY <1>3 DEF Purge
<1>4. CASE Restart
  <2>1. PICK readable \in BOOLEAN : Restarted(id, readable)
    BY <1>1, <1>4, RestartDoes
  <2> QED
    BY <2>1 DEF Restarted, Terminal, Interrupted
<1>5. CASE UNCHANGED rows
  BY <1>5
<1> QED
  BY <1>2, <1>3, <1>4, <1>5 DEF HNext, Tick, Crash, GrowOld, hvars

(* An outcome on disk is never rewritten, only deleted with age.           *)
THEOREM OutcomeIsDurableHolds == HSpec => OutcomeIsDurable
<1>1. HInv /\ [HNext]_hvars => [DurableStep]_hvars
  BY NextDurable
<1>2. HSpec => [][DurableStep]_hvars
  BY <1>1, HistoryInvariant, PTL DEF HSpec
<1> QED
  BY <1>2, PTL DEF OutcomeIsDurable, DurableStep
=============================================================================
