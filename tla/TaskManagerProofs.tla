------------------------- MODULE TaskManagerProofs -------------------------
(***************************************************************************)
(* Proofs about TaskManager, for every number of tasks, workers, queue     *)
(* slots and retries, and that it implements TaskLifecycle.                *)
(***************************************************************************)
EXTENDS TaskManager, FiniteSetTheorems, SequenceTheorems, TLAPS

-----------------------------------------------------------------------------
(* Type correctness is inductive together with two facts about workers and *)
(* one about the heap.                                                     *)
PcStates == {"ready", "asleep", "executing", "exited"}
HoldsJob == \A w \in Workers : pc[w] = "executing" <=> job[w] \in Ids
TypeInv == TypeOK /\ IsFiniteSet(queue) /\ HoldsJob

(* An admitted batch: as many distinct attempts as it is long.             *)
Batch(batch) ==
  \E n \in Nat \ {0} :
    /\ batch \in [1 .. n -> Ids]
    /\ Len(batch) = n
    /\ DOMAIN batch = 1 .. n

(* Every batch a client can send is one, and so is a single retry.         *)
LEMMA ClientBatch ==
  ASSUME NEW batch \in Batches, fresh \subseteq Tasks
  PROVE  /\ Batch(batch)
         /\ \A i \in DOMAIN batch : batch[i] \in fresh \X {0}
         /\ \A i, j \in DOMAIN batch : batch[i] = batch[j] => i = j
<1>1. PICK n \in 1 .. MaxQueue : batch \in [1 .. n -> fresh \X {0}]
  BY DEF Batches
<1>2. n \in Nat \ {0} /\ 0 \in 0 .. MaxRetries
  BY TaskManagerAssumption
<1>3. batch \in [1 .. n -> Ids]
  BY <1>1, <1>2 DEF Ids
<1>4. Len(batch) = n /\ DOMAIN batch = 1 .. n
  BY <1>2, <1>3, LenProperties
<1> QED
  BY <1>1, <1>2, <1>3, <1>4 DEF Batch, Batches

(* A single retry whose timer has fired is a batch of one.                 *)
LEMMA RetryBatch ==
  ASSUME NEW id \in Ids
  PROVE  Batch(<<id>>) /\ DOMAIN <<id>> = {1} /\ Len(<<id>>) = 1
BY DEF Batch

(* What a submission does to the heap: it grows by at most the batch.      *)
LEMMA EnqueueGrowsHeap ==
  ASSUME TypeInv, NEW batch, Batch(batch), Enqueue(batch)
  PROVE  /\ queue' \subseteq [id : Ids, seq : Nat]
         /\ IsFiniteSet(queue')
         /\ Cardinality(queue') \in Nat
         /\ Cardinality(queue') <= Cardinality(queue) + Len(batch)
<1>1. PICK n \in Nat \ {0} :
        batch \in [1 .. n -> Ids] /\ Len(batch) = n /\ DOMAIN batch = 1 .. n
  BY DEF Batch
<1> DEFINE items == {[id |-> batch[i], seq |-> sequence + i] : i \in 1 .. n}
           item == [i \in 1 .. n |-> [id |-> batch[i], seq |-> sequence + i]]
<1>2. queue' = queue \cup items
  BY <1>1 DEF Enqueue
<1>3. items \subseteq [id : Ids, seq : Nat]
  BY <1>1 DEF TypeInv, TypeOK
<1>4. item \in Surjection(1 .. n, items)
  BY DEF Surjection
<1>5. IsFiniteSet(1 .. n) /\ Cardinality(1 .. n) = n
  BY FS_Interval, <1>1
<1>6. IsFiniteSet(items) /\ Cardinality(items) <= n
  <2> HIDE DEF items, item
  <2> QED BY <1>4, <1>5, FS_Surjection
<1>7. /\ IsFiniteSet(queue \cup items)
      /\ Cardinality(queue \cup items) =
           Cardinality(queue) + Cardinality(items) - Cardinality(queue \cap items)
  <2> HIDE DEF items, item
  <2> QED BY <1>6, FS_Union DEF TypeInv
<1>8. /\ Cardinality(queue) \in Nat
      /\ Cardinality(items) \in Nat
      /\ Cardinality(queue \cap items) \in Nat
      /\ Cardinality(queue \cup items) \in Nat
  <2> HIDE DEF items, item
  <2>1. IsFiniteSet(queue \cap items)
    BY FS_Intersection DEF TypeInv
  <2> QED BY <1>6, <1>7, <2>1, FS_CardinalityType DEF TypeInv
<1> HIDE DEF items, item
<1> QED
  BY <1>1, <1>2, <1>3, <1>6, <1>7, <1>8 DEF TypeInv, TypeOK

(* A submission keeps the types, and puts no worker to work.               *)
LEMMA EnqueueKeepsTypes ==
  ASSUME TypeInv, NEW batch, Batch(batch), Enqueue(batch), UNCHANGED job
  PROVE  /\ sequence' \in Nat
         /\ results' \in [Ids -> Status \cup {"none"}]
         /\ counters' \in [{"total", "completed", "failed", "cancelled"} -> Nat]
         /\ pc' \in [Workers -> PcStates]
         /\ HoldsJob'
<1>1. Len(batch) \in Nat
  BY DEF Batch
<1>2. sequence' \in Nat /\ results' \in [Ids -> Status \cup {"none"}]
  BY <1>1 DEF Enqueue, TypeInv, TypeOK, Status
<1>3. counters' \in [{"total", "completed", "failed", "cancelled"} -> Nat]
  BY <1>1 DEF Enqueue, TypeInv, TypeOK
<1>4. PICK woken \in SUBSET Asleep :
        pc' = [w \in Workers |-> IF w \in woken THEN "ready" ELSE pc[w]]
  BY DEF Enqueue, Signal
<1>5. pc' \in [Workers -> PcStates]
  BY <1>4 DEF TypeInv, TypeOK, PcStates
<1>6. HoldsJob'
  BY <1>4 DEF TypeInv, HoldsJob, Asleep
<1> QED
  BY <1>2, <1>3, <1>5, <1>6

(* A new manager has the shape the proofs rely on.                         *)
LEMMA InitTypes == Init => TypeInv
<1> SUFFICES ASSUME Init PROVE TypeInv
  OBVIOUS
<1>1. TypeOK
  BY DEF Init, Boot, TypeOK, ZeroCounters, Status, Terminal
<1>2. IsFiniteSet(queue)
  BY FS_EmptySet DEF Init, Boot
<1>3. HoldsJob
  BY TaskManagerAssumption DEF Init, Boot, HoldsJob
<1> QED
  BY <1>1, <1>2, <1>3 DEF TypeInv

(* No step of the manager leaves that shape.                               *)
LEMMA NextTypes == TypeInv /\ [Next]_vars => TypeInv'
<1> SUFFICES ASSUME TypeInv, [Next]_vars PROVE TypeInv'
  OBVIOUS
<1> USE DEF TypeInv
<1>1. CASE SubmitBatch
  <2>1. PICK batch \in Batches :
          Enqueue(batch) /\ fresh' = fresh \ {batch[i][1] : i \in DOMAIN batch}
    BY <1>1 DEF SubmitBatch
  <2>2. Batch(batch)
    BY ClientBatch DEF TypeOK
  <2>3. UNCHANGED <<running, cancelled, retryTimers, fired, job, stopPhase, cleaner>>
    BY <1>1 DEF SubmitBatch
  <2> QED
    BY <2>1, <2>2, <2>3, EnqueueGrowsHeap, EnqueueKeepsTypes DEF TypeOK, PcStates
<1>2. ASSUME NEW id \in Ids, CancelRunning(id) PROVE TypeInv'
  BY <1>2 DEF CancelRunning, TypeOK, HoldsJob
<1>3. ASSUME NEW id \in Ids, CancelPending(id) PROVE TypeInv'
  <2>1. IsFiniteSet(queue')
    BY <1>3, FS_Subset DEF CancelPending, Removed
  <2>2. TypeOK'
    BY <1>3 DEF CancelPending, Removed, TypeOK, Status, Terminal
  <2> QED
    BY <1>3, <2>1, <2>2 DEF CancelPending, HoldsJob
<1>4. ASSUME NEW id \in Ids, TimerFires(id) PROVE TypeInv'
  BY <1>4 DEF TimerFires, TypeOK, HoldsJob
<1>5. ASSUME NEW id \in Ids, RetryAdmitted(id) PROVE TypeInv'
  <2>1. Enqueue(<<id>>) /\ Batch(<<id>>)
    BY <1>5, RetryBatch DEF RetryAdmitted
  <2> QED
    BY <1>5, <2>1, EnqueueGrowsHeap, EnqueueKeepsTypes
       DEF RetryAdmitted, Disarmed, TypeOK, PcStates
<1>6. ASSUME NEW id \in Ids, RetryDeferred(id) PROVE TypeInv'
  BY <1>6 DEF RetryDeferred, TimersWhenFull, TypeOK, HoldsJob
<1>7. ASSUME NEW id \in Ids, RetryDropped(id) PROVE TypeInv'
  BY <1>7 DEF RetryDropped, Disarmed, TypeOK, HoldsJob
<1>8. ASSUME NEW w \in Workers, WorkerExits(w) PROVE TypeInv'
  BY <1>8 DEF WorkerExits, TypeOK, HoldsJob
<1>9. ASSUME NEW w \in Workers, WorkerSleeps(w) PROVE TypeInv'
  BY <1>9 DEF WorkerSleeps, TypeOK, HoldsJob
<1>10. ASSUME NEW w \in Workers, WorkerTakes(w) PROVE TypeInv'
  <2>1. PICK item \in queue :
          /\ queue' = queue \ {item}
          /\ \/ UNCHANGED <<results, running, pc, job>>
             \/ /\ results' = [results EXCEPT ![item.id] = "running"]
                /\ running' = running \cup {item.id}
                /\ pc' = [pc EXCEPT ![w] = "executing"]
                /\ job' = [job EXCEPT ![w] = item.id]
    BY <1>10 DEF WorkerTakes
  <2>2. IsFiniteSet(queue')
    BY <2>1, FS_Subset
  <2>3. item.id \in Ids
    BY DEF TypeOK
  <2>4. UNCHANGED <<fresh, sequence, cancelled, retryTimers, fired, counters,
                    stopPhase, cleaner>>
    BY <1>10 DEF WorkerTakes
  <2> QED
    BY <2>1, <2>2, <2>3, <2>4 DEF TypeOK, HoldsJob, Status
<1>11. ASSUME NEW w \in Workers, NEW err \in BOOLEAN, Finish(w, err) PROVE TypeInv'
  <2>1. job[w] \in Ids /\ Idle \notin Ids
    BY <1>11, TaskManagerAssumption DEF Finish, HoldsJob
  <2>2. Outcome(job[w], err) \in {"completed", "failed", "cancelled"}
    BY DEF Outcome
  <2>3. MayRetry(job[w]) => RetryOf(job[w]) \in Ids
    BY <2>1, TaskManagerAssumption DEF MayRetry, RetryOf, Ids
  <2>4. /\ pc' = [pc EXCEPT ![w] = "ready"]
        /\ job' = [job EXCEPT ![w] = Idle]
        /\ running' = running \ {job[w]}
        /\ cancelled' = cancelled \ {job[w]}
        /\ UNCHANGED <<fresh, queue, sequence, fired, stopPhase, cleaner>>
    BY <1>11 DEF Finish, FlagsAfter
  <2>5. /\ results' \in [Ids -> Status \cup {"none"}]
        /\ counters' \in [{"total", "completed", "failed", "cancelled"} -> Nat]
        /\ retryTimers' \subseteq Ids
    <3>1. CASE results[job[w]] = "none"
      BY <1>11, <3>1 DEF Finish, TypeOK
    <3>2. CASE results[job[w]] # "none"
      BY <1>11, <2>1, <2>2, <2>3, <3>2 DEF Finish, TypeOK, Status, Terminal
    <3> QED
      BY <3>1, <3>2
  <2> QED
    BY <2>1, <2>4, <2>5 DEF TypeOK, HoldsJob
<1>12. CASE StopBegins
  <2>1. IsFiniteSet(Queued \cap Ids)
    <3> DEFINE idOf == [item \in queue |-> item.id]
    <3>1. idOf \in Surjection(queue, Queued)
      BY DEF Surjection, Queued
    <3> HIDE DEF idOf
    <3>2. IsFiniteSet(Queued)
      BY <3>1, FS_Surjection
    <3> QED
      BY <3>2, FS_Intersection
  <2> DEFINE drained == {id \in Queued : results[id] = "pending"}
  <2>2. drained \subseteq Queued \cap Ids
    BY DEF Queued, TypeOK
  <2>3. Cardinality(drained) \in Nat
    <3> HIDE DEF drained
    <3> QED BY <2>1, <2>2, FS_Subset, FS_CardinalityType
  <2>4. counters' = [counters EXCEPT !.cancelled = @ + Cardinality(drained)]
    BY <1>12 DEF StopBegins
  <2>5. counters' \in [{"total", "completed", "failed", "cancelled"} -> Nat]
    <3> HIDE DEF drained
    <3> QED BY <2>3, <2>4 DEF TypeOK
  <2>6. IsFiniteSet(queue')
    BY <1>12, FS_EmptySet DEF StopBegins
  <2>7. results' \in [Ids -> Status \cup {"none"}]
    BY <1>12 DEF StopBegins, TypeOK, Status, Terminal
  <2>8. pc' \in [Workers -> PcStates] /\ HoldsJob'
    BY <1>12 DEF StopBegins, Broadcast, Asleep, TypeOK, HoldsJob, PcStates
  <2> QED
    BY <1>12, <2>5, <2>6, <2>7, <2>8 DEF StopBegins, TypeOK, PcStates
<1>13. CASE StopExpires
  BY <1>13 DEF StopExpires, TypeOK, HoldsJob
<1>14. CASE StopJoins \/ StopAbandons
  BY <1>14 DEF StopJoins, StopAbandons, TypeOK, HoldsJob
<1>15. CASE StopCloses
  BY <1>15 DEF StopCloses, TypeOK, HoldsJob
<1>16. CASE CleanupTick
  BY <1>16 DEF CleanupTick, TypeOK, HoldsJob
<1>17. CASE CleanupPurged
  BY <1>17 DEF CleanupPurged, TypeOK, HoldsJob
<1>18. CASE CleanupExits
  BY <1>18 DEF CleanupExits, TypeOK, HoldsJob
<1>19. CASE UNCHANGED vars
  BY <1>19 DEF vars, TypeOK, HoldsJob
<1> QED
  BY <1>1, <1>2, <1>3, <1>4, <1>5, <1>6, <1>7, <1>8, <1>9, <1>10, <1>11, <1>12,
     <1>13, <1>14, <1>15, <1>16, <1>17, <1>18, <1>19
     DEF Next, RetrySteps, WorkerSteps, Returns

(* Every state of every execution has the shape TypeOK describes.          *)
THEOREM TypeCorrect == Spec => []TypeOK
<1>1. TypeInv => TypeOK
  BY DEF TypeInv
<1> QED
  BY InitTypes, NextTypes, <1>1, PTL DEF Spec

-----------------------------------------------------------------------------
(* The core invariant.  What QueueIsPending, RunningAgrees and             *)
(* OneLiveAttempt need to be inductive: a task nobody has submitted has    *)
(* left no trace, and the attempts that would follow a live one do not     *)
(* exist yet, so that a failed attempt can always arm the next.            *)
FreshIsUnused ==
  \A id \in Ids :
    id[1] \in fresh => results[id] = "none" /\ id \notin retryTimers \cup fired
SuccessorsUnborn ==
  \A i \in Live, j \in Ids : j[1] = i[1] /\ j[2] > i[2] => results[j] = "none"
Core ==
  /\ QueueIsPending
  /\ RunningAgrees
  /\ OneLiveAttempt
  /\ FreshIsUnused
  /\ SuccessorsUnborn

(* A new manager, with empty heap and maps, satisfies the core invariant.  *)
LEMMA InitCore == Init => Core
<1> SUFFICES ASSUME Init PROVE Core
  OBVIOUS
<1> USE DEF Init, Boot, WithStatus
<1>1. QueueIsPending
  BY FS_EmptySet, TaskManagerAssumption DEF QueueIsPending, Queued
<1>2. RunningAgrees
  BY DEF RunningAgrees
<1>3. OneLiveAttempt /\ FreshIsUnused /\ SuccessorsUnborn
  BY DEF OneLiveAttempt, FreshIsUnused, SuccessorsUnborn, Live
<1> QED
  BY <1>1, <1>2, <1>3 DEF Core

(* A submission of attempts without a result keeps heap and results in     *)
(* step, within capacity.                                                  *)
LEMMA EnqueueKeepsHeap ==
  ASSUME TypeInv, QueueIsPending, NEW batch, Batch(batch), Enqueue(batch),
         HasRoom(Len(batch)),
         \A i \in DOMAIN batch : results[batch[i]] = "none",
         \A i, j \in DOMAIN batch : batch[i] = batch[j] => i = j
  PROVE  QueueIsPending'
<1>1. PICK n \in Nat \ {0} :
        batch \in [1 .. n -> Ids] /\ Len(batch) = n /\ DOMAIN batch = 1 .. n
  BY DEF Batch
<1>2. Cardinality(queue') <= MaxQueue
  <2>1. /\ Cardinality(queue') \in Nat
        /\ Cardinality(queue') <= Cardinality(queue) + Len(batch)
    BY EnqueueGrowsHeap
  <2>2. Cardinality(queue) \in Nat
    BY FS_CardinalityType DEF TypeInv
  <2> QED
    BY <1>1, <2>1, <2>2, TaskManagerAssumption DEF HasRoom
<1>3. queue' = queue \cup {[id |-> batch[i], seq |-> sequence + i] : i \in 1 .. n}
  BY <1>1 DEF Enqueue
<1>4. results' = [id \in Ids |-> IF \E i \in 1 .. n : batch[i] = id
                                 THEN "pending" ELSE results[id]]
  BY <1>1 DEF Enqueue
<1>5. Queued' = WithStatus({"pending"})'
  <2>1. Queued' = Queued \cup {batch[i] : i \in 1 .. n}
    <3>1. Queued' \subseteq Queued \cup {batch[i] : i \in 1 .. n}
      BY <1>3 DEF Queued
    <3>2. Queued \subseteq Queued'
      BY <1>3 DEF Queued
    <3>3. ASSUME NEW i \in 1 .. n PROVE batch[i] \in Queued'
      <4>1. [id |-> batch[i], seq |-> sequence + i] \in queue'
        BY <1>3
      <4>2. [id |-> batch[i], seq |-> sequence + i].id \in Queued'
        BY <4>1 DEF Queued
      <4> QED
        BY <4>2
    <3> QED
      BY <3>1, <3>2, <3>3
  <2>2. WithStatus({"pending"})' = WithStatus({"pending"}) \cup {batch[i] : i \in 1 .. n}
    BY <1>1, <1>4 DEF WithStatus
  <2> QED
    BY <2>1, <2>2 DEF QueueIsPending
<1>6. ASSUME NEW x \in queue', NEW y \in queue', x.id = y.id PROVE x = y
  <2>1. ASSUME NEW z \in queue, NEW i \in 1 .. n PROVE z.id # batch[i]
    <3>1. z.id \in Queued
      BY DEF Queued
    <3> QED
      BY <1>1, <2>1, <3>1 DEF QueueIsPending, WithStatus
  <2>2. CASE x \in queue /\ y \in queue
    BY <1>6, <2>2 DEF QueueIsPending
  <2>3. CASE x \notin queue /\ y \notin queue
    <3>1. PICK i \in 1 .. n : x = [id |-> batch[i], seq |-> sequence + i]
      BY <1>3, <2>3
    <3>2. PICK j \in 1 .. n : y = [id |-> batch[j], seq |-> sequence + j]
      BY <1>3, <2>3
    <3>3. i = j
      BY <1>1, <1>6, <3>1, <3>2
    <3> QED
      BY <3>1, <3>2, <3>3
  <2>4. CASE x \in queue /\ y \notin queue
    BY <1>3, <1>6, <2>1, <2>4
  <2>5. CASE x \notin queue /\ y \in queue
    BY <1>3, <1>6, <2>1, <2>5
  <2> QED
    BY <2>2, <2>3, <2>4, <2>5
<1> QED
  BY <1>2, <1>5, <1>6 DEF QueueIsPending

(* A submission leaves the running attempts alone.                         *)
LEMMA EnqueueKeepsRunning ==
  ASSUME TypeInv, RunningAgrees, NEW batch, Batch(batch), Enqueue(batch),
         UNCHANGED <<running, cancelled, job>>,
         \A i \in DOMAIN batch : results[batch[i]] = "none"
  PROVE  RunningAgrees'
<1>1. PICK n \in Nat \ {0} : batch \in [1 .. n -> Ids] /\ DOMAIN batch = 1 .. n
  BY DEF Batch
<1>2. WithStatus({"running"})' = WithStatus({"running"})
  BY <1>1 DEF Enqueue, WithStatus
<1>3. PICK woken \in SUBSET Asleep :
        pc' = [w \in Workers |-> IF w \in woken THEN "ready" ELSE pc[w]]
  BY DEF Enqueue, Signal
<1>4. \A w \in Workers : pc'[w] = "executing" <=> pc[w] = "executing"
  BY <1>3 DEF Asleep
<1> QED
  BY <1>2, <1>4 DEF RunningAgrees

-----------------------------------------------------------------------------
(* Submit and SubmitBatch keep the core invariant: the IDs of a batch are  *)
(* new, so its entries are the only ones for their results.                *)
LEMMA SubmitBatchCore ==
  ASSUME TypeInv, Core, SubmitBatch PROVE Core'
<1>1. PICK batch \in Batches :
        /\ HasRoom(Len(batch))
        /\ Enqueue(batch)
        /\ fresh' = fresh \ {batch[i][1] : i \in DOMAIN batch}
  BY DEF SubmitBatch
<1>2. /\ Batch(batch)
      /\ \A i \in DOMAIN batch : batch[i] \in fresh \X {0}
      /\ \A i, j \in DOMAIN batch : batch[i] = batch[j] => i = j
  BY ClientBatch DEF TypeInv, TypeOK
<1>3. UNCHANGED <<running, cancelled, retryTimers, fired, job, stopPhase, cleaner>>
  BY DEF SubmitBatch
<1>4. PICK n \in Nat \ {0} : batch \in [1 .. n -> Ids] /\ DOMAIN batch = 1 .. n
  BY <1>2 DEF Batch
<1> DEFINE new == {batch[i] : i \in 1 .. n}
<1>5. /\ new \subseteq Ids
      /\ \A id \in new : id[1] \in fresh /\ id[2] = 0 /\ results[id] = "none"
      /\ \A i, j \in new : i[1] = j[1] => i = j
  <2>1. \A id \in new : id \in Ids /\ id \in fresh \X {0}
    BY <1>2, <1>4
  <2> QED
    BY <2>1 DEF Core, FreshIsUnused
<1>6. results' = [id \in Ids |-> IF id \in new THEN "pending" ELSE results[id]]
  BY <1>1, <1>4 DEF Enqueue
<1>7. fresh' = fresh \ {id[1] : id \in new}
  BY <1>1, <1>4
<1>8. QueueIsPending'
  <2>1. \A i \in DOMAIN batch : results[batch[i]] = "none"
    BY <1>4, <1>5
  <2> HIDE DEF new
  <2> QED
    BY <1>1, <1>2, <2>1, EnqueueKeepsHeap DEF Core
<1>9. RunningAgrees'
  BY <1>1, <1>2, <1>3, <1>4, <1>5, EnqueueKeepsRunning DEF Core
<1> HIDE DEF new
<1>10. Live' = Live \cup new
  BY <1>3, <1>5, <1>6 DEF Live, WithStatus
<1>11. \A id \in Live : id \in Ids /\ id[1] \notin fresh
  BY DEF Core, FreshIsUnused, Live, WithStatus, TypeInv, TypeOK
<1>12. OneLiveAttempt'
  <2>1. \A i, j \in Live' : i[1] = j[1] => i = j
    BY <1>5, <1>10, <1>11 DEF Core, OneLiveAttempt
  <2>2. \A id \in retryTimers \cup fired : id \notin new
    BY <1>5, <1>11 DEF Live
  <2>3. retryTimers \cup fired \subseteq Ids
    BY DEF TypeInv, TypeOK
  <2>4. \A id \in retryTimers \cup fired : results'[id] = "none"
    BY <1>6, <2>2, <2>3 DEF Core, OneLiveAttempt
  <2> QED
    BY <1>3, <2>1, <2>4 DEF OneLiveAttempt
<1>13. FreshIsUnused'
  BY <1>3, <1>6, <1>7 DEF Core, FreshIsUnused
<1>14. SuccessorsUnborn'
  <2> SUFFICES ASSUME NEW i \in Live', NEW j \in Ids, j[1] = i[1], j[2] > i[2]
               PROVE  results'[j] = "none"
    BY DEF SuccessorsUnborn
  <2>1. CASE i \in new
    BY <1>5, <1>6, <2>1 DEF Core, FreshIsUnused
  <2>2. CASE i \in Live
    BY <1>5, <1>6, <1>11, <2>2 DEF Core, SuccessorsUnborn
  <2> QED
    BY <1>10, <2>1, <2>2
<1> QED
  BY <1>8, <1>9, <1>12, <1>13, <1>14 DEF Core

(* submitScheduledRetry keeps the core invariant: the attempt was armed, so*)
(* it has no result yet, and no attempt of its task is live.               *)
LEMMA RetryAdmittedCore ==
  ASSUME TypeInv, Core, NEW id \in Ids, RetryAdmitted(id) PROVE Core'
<1>1. /\ id \in fired
      /\ HasRoom(1)
      /\ fired' = fired \ {id}
      /\ retryTimers' = retryTimers \ {id}
      /\ Enqueue(<<id>>)
      /\ UNCHANGED <<fresh, running, cancelled, job, stopPhase, cleaner>>
  BY DEF RetryAdmitted, Disarmed
<1>2. Batch(<<id>>) /\ DOMAIN <<id>> = {1} /\ Len(<<id>>) = 1 /\ <<id>>[1] = id
  BY RetryBatch
<1>3. results[id] = "none" /\ id \in Live
  BY <1>1 DEF Core, OneLiveAttempt, Live
<1>4. results' = [results EXCEPT ![id] = "pending"]
  BY <1>1, <1>2 DEF Enqueue, TypeInv, TypeOK
<1>5. QueueIsPending'
  BY <1>1, <1>2, <1>3, EnqueueKeepsHeap DEF Core
<1>6. RunningAgrees'
  BY <1>1, <1>2, <1>3, EnqueueKeepsRunning DEF Core
<1>7. Live' = Live
  BY <1>1, <1>3, <1>4 DEF Live, WithStatus, TypeInv, TypeOK
<1>8. OneLiveAttempt'
  BY <1>1, <1>4, <1>7 DEF Core, OneLiveAttempt, TypeInv, TypeOK
<1>9. FreshIsUnused'
  BY <1>1, <1>4 DEF Core, FreshIsUnused, TypeInv, TypeOK
<1>10. SuccessorsUnborn'
  <2>1. \A i \in Live : i[1] = id[1] => i = id
    BY <1>3 DEF Core, OneLiveAttempt
  <2>2. \A i \in Live : i \in Ids
    BY DEF Live, WithStatus, TypeInv, TypeOK
  <2> QED
    BY <1>4, <1>7, <2>1, <2>2 DEF Core, SuccessorsUnborn, Ids, TypeInv, TypeOK
<1> QED
  BY <1>5, <1>6, <1>8, <1>9, <1>10 DEF Core

(* The steps that change nothing the core invariant reads, or only a flag  *)
(* or a timer.                                                             *)
LEMMA BystandersKeepCore ==
  ASSUME TypeInv, Core,
         UNCHANGED <<fresh, queue, results, running, job>>,
         retryTimers' \cup fired' \subseteq retryTimers \cup fired,
         cancelled' \subseteq running,
         \A w \in Workers : pc'[w] = "executing" <=> pc[w] = "executing"
  PROVE  Core'
<1>1. QueueIsPending'
  BY DEF Core, QueueIsPending, Queued, WithStatus
<1>2. RunningAgrees'
  BY DEF Core, RunningAgrees, WithStatus
<1>3. Live' \subseteq Live
  BY DEF Live, WithStatus
<1>4. OneLiveAttempt'
  BY <1>3 DEF Core, OneLiveAttempt
<1>5. FreshIsUnused' /\ SuccessorsUnborn'
  BY <1>3 DEF Core, FreshIsUnused, SuccessorsUnborn
<1> QED
  BY <1>1, <1>2, <1>4, <1>5 DEF Core

(* Cancel of a queued attempt removes its only heap entry and its only     *)
(* pending result together.                                                *)
LEMMA CancelPendingCore ==
  ASSUME TypeInv, Core, NEW id \in Ids, CancelPending(id) PROVE Core'
<1>1. /\ results[id] = "pending"
      /\ queue' = {item \in queue : item.id # id}
      /\ results' = [results EXCEPT ![id] = "cancelled"]
      /\ UNCHANGED <<fresh, sequence, running, cancelled, retryTimers, fired, pc,
                     job, stopPhase, cleaner>>
  BY DEF CancelPending, Cancellable, Removed
<1>3. QueueIsPending'
  <2>1. Queued' = Queued \ {id}
    BY <1>1 DEF Queued
  <2>2. WithStatus({"pending"})' = WithStatus({"pending"}) \ {id}
    BY <1>1 DEF WithStatus, TypeInv, TypeOK
  <2>3. queue' \subseteq queue
    BY <1>1
  <2>4. Cardinality(queue') <= MaxQueue
    <3>1. /\ Cardinality(queue') <= Cardinality(queue)
          /\ Cardinality(queue') \in Nat
          /\ Cardinality(queue) \in Nat
      BY <2>3, FS_Subset, FS_CardinalityType DEF TypeInv
    <3> QED
      BY <3>1, TaskManagerAssumption DEF Core, QueueIsPending
  <2> QED
    BY <2>1, <2>2, <2>3, <2>4 DEF Core, QueueIsPending
<1>4. RunningAgrees'
  <2>1. WithStatus({"running"})' = WithStatus({"running"})
    BY <1>1 DEF WithStatus, TypeInv, TypeOK
  <2> QED
    BY <1>1, <2>1 DEF Core, RunningAgrees
<1>5. Live' \subseteq Live
  BY <1>1 DEF Live, WithStatus, TypeInv, TypeOK
<1>6. \A j \in Ids : results[j] = "none" => results'[j] = "none"
  BY <1>1 DEF TypeInv, TypeOK
<1>7. retryTimers \cup fired \subseteq Ids
  BY DEF TypeInv, TypeOK
<1>8. OneLiveAttempt'
  BY <1>1, <1>5, <1>6, <1>7 DEF Core, OneLiveAttempt
<1>9. FreshIsUnused' /\ SuccessorsUnborn'
  BY <1>1, <1>5, <1>6 DEF Core, FreshIsUnused, SuccessorsUnborn
<1> QED
  BY <1>3, <1>4, <1>8, <1>9 DEF Core

(* A worker never meets an entry that has to be dropped.                   *)
LEMMA WorkerTakesPending ==
  ASSUME TypeInv, Core, NEW w \in Workers, WorkerTakes(w)
  PROVE  \E item \in queue :
           /\ item.id \in Ids
           /\ results[item.id] = "pending"
           /\ queue' = queue \ {item}
           /\ results' = [results EXCEPT ![item.id] = "running"]
           /\ running' = running \cup {item.id}
           /\ pc' = [pc EXCEPT ![w] = "executing"]
           /\ job' = [job EXCEPT ![w] = item.id]
<1>1. PICK item \in queue :
        /\ queue' = queue \ {item}
        /\ IF results[item.id] \in {"none", "cancelled"}
           THEN UNCHANGED <<results, running, pc, job>>
           ELSE /\ results' = [results EXCEPT ![item.id] = "running"]
                /\ running' = running \cup {item.id}
                /\ pc' = [pc EXCEPT ![w] = "executing"]
                /\ job' = [job EXCEPT ![w] = item.id]
  BY DEF WorkerTakes
<1>2. item.id \in Queued
  BY DEF Queued
<1>3. item.id \in Ids /\ results[item.id] = "pending"
  BY <1>2 DEF Core, QueueIsPending, WithStatus
<1> QED
  BY <1>1, <1>3

(* A worker moves one attempt from the heap to Manager.running.            *)
LEMMA WorkerTakesCore ==
  ASSUME TypeInv, Core, NEW w \in Workers, WorkerTakes(w) PROVE Core'
<1>1. PICK item \in queue :
        /\ item.id \in Ids
        /\ results[item.id] = "pending"
        /\ queue' = queue \ {item}
        /\ results' = [results EXCEPT ![item.id] = "running"]
        /\ running' = running \cup {item.id}
        /\ pc' = [pc EXCEPT ![w] = "executing"]
        /\ job' = [job EXCEPT ![w] = item.id]
  BY WorkerTakesPending
<1>2. UNCHANGED <<fresh, cancelled, retryTimers, fired>> /\ pc[w] = "ready"
  BY DEF WorkerTakes
<1> DEFINE id == item.id
<1>3. QueueIsPending'
  <2>1. \A other \in queue : other.id = id => other = item
    BY DEF Core, QueueIsPending
  <2>2. Queued' = Queued \ {id}
    BY <1>1, <2>1 DEF Queued
  <2>3. WithStatus({"pending"})' = WithStatus({"pending"}) \ {id}
    BY <1>1 DEF WithStatus, TypeInv, TypeOK
  <2>4. queue' \subseteq queue
    BY <1>1
  <2>5. Cardinality(queue') <= MaxQueue
    <3>1. /\ Cardinality(queue') <= Cardinality(queue)
          /\ Cardinality(queue') \in Nat
          /\ Cardinality(queue) \in Nat
      BY <2>4, FS_Subset, FS_CardinalityType DEF TypeInv
    <3> QED
      BY <3>1, TaskManagerAssumption DEF Core, QueueIsPending
  <2> QED
    BY <2>2, <2>3, <2>4, <2>5 DEF Core, QueueIsPending
<1>4. RunningAgrees'
  <2>1. id \notin running
    BY <1>1 DEF Core, RunningAgrees, WithStatus
  <2>2. \A v \in Workers : job[v] \in Ids => job[v] \in running
    BY DEF TypeInv, HoldsJob, Core, RunningAgrees
  <2>3. \A v \in Workers : job[v] # id
    BY <1>1, <2>1, <2>2
  <2>4. running' = WithStatus({"running"})'
    BY <1>1 DEF Core, RunningAgrees, WithStatus, TypeInv, TypeOK
  <2>5. running' = {job'[v] : v \in {u \in Workers : pc'[u] = "executing"}}
    <3>1. \A v \in Workers \ {w} : pc'[v] = pc[v] /\ job'[v] = job[v]
      BY <1>1 DEF TypeInv, TypeOK
    <3>2. pc'[w] = "executing" /\ job'[w] = id
      BY <1>1 DEF TypeInv, TypeOK
    <3> QED
      BY <1>1, <1>2, <3>1, <3>2 DEF Core, RunningAgrees
  <2>6. \A u, v \in Workers : job'[u] = job'[v] /\ job'[u] # Idle => u = v
    BY <1>1, <2>3 DEF Core, RunningAgrees, TypeInv, TypeOK
  <2>7. cancelled' \subseteq running'
    BY <1>1, <1>2 DEF Core, RunningAgrees
  <2> QED
    BY <2>4, <2>5, <2>6, <2>7 DEF RunningAgrees
<1>5. Live' = Live
  BY <1>1, <1>2 DEF Live, WithStatus, TypeInv, TypeOK
<1>6. \A j \in Ids : results[j] = "none" => results'[j] = "none"
  BY <1>1 DEF TypeInv, TypeOK
<1>7. retryTimers \cup fired \subseteq Ids
  BY DEF TypeInv, TypeOK
<1>8. OneLiveAttempt'
  BY <1>2, <1>5, <1>6, <1>7 DEF Core, OneLiveAttempt
<1>9. FreshIsUnused' /\ SuccessorsUnborn'
  BY <1>2, <1>5, <1>6 DEF Core, FreshIsUnused, SuccessorsUnborn
<1> QED
  BY <1>3, <1>4, <1>8, <1>9 DEF Core

(* finish settles the attempt its worker holds, drops its flag and arms at *)
(* most the successor nobody has seen before.                              *)
LEMMA FinishCore ==
  ASSUME TypeInv, Core, NEW w \in Workers, NEW err \in BOOLEAN, Finish(w, err)
  PROVE  Core'
<1> DEFINE id == job[w]
<1>1. /\ pc[w] = "executing"
      /\ pc' = [pc EXCEPT ![w] = "ready"]
      /\ job' = [job EXCEPT ![w] = Idle]
      /\ running' = running \ {id}
      /\ cancelled' = cancelled \ {id}
      /\ UNCHANGED <<fresh, queue, sequence, fired, stopPhase, cleaner>>
  BY DEF Finish, FlagsAfter
<1>2. id \in Ids /\ id \in running /\ results[id] = "running" /\ id \in Live
  BY <1>1 DEF TypeInv, TypeOK, HoldsJob, Core, RunningAgrees, WithStatus, Live
<1>3. PICK status \in {"completed", "failed", "cancelled"} :
        /\ results' = [results EXCEPT ![id] = status]
        /\ retryTimers' = IF status = "failed" /\ MayRetry(id)
                          THEN retryTimers \cup {RetryOf(id)} ELSE retryTimers
  BY <1>2 DEF Finish, Outcome
<1>4. QueueIsPending'
  <2>1. WithStatus({"pending"})' = WithStatus({"pending"})
    BY <1>2, <1>3 DEF WithStatus, TypeInv, TypeOK
  <2> QED
    BY <1>1, <2>1 DEF Core, QueueIsPending, Queued
<1>5. RunningAgrees'
  <2>1. running' = WithStatus({"running"})'
    BY <1>1, <1>2, <1>3 DEF Core, RunningAgrees, WithStatus, TypeInv, TypeOK
  <2>2. \A v \in Workers \ {w} : pc'[v] = pc[v] /\ job'[v] = job[v] /\ job[v] # id
    BY <1>1, <1>2, TaskManagerAssumption DEF Core, RunningAgrees, TypeInv, TypeOK
  <2>3. pc'[w] = "ready" /\ job'[w] = Idle
    BY <1>1 DEF TypeInv, TypeOK
  <2>4. running' = {job'[v] : v \in {u \in Workers : pc'[u] = "executing"}}
    BY <1>1, <1>2, <2>2, <2>3 DEF Core, RunningAgrees
  <2>5. \A u, v \in Workers : job'[u] = job'[v] /\ job'[u] # Idle => u = v
    BY <2>2, <2>3 DEF Core, RunningAgrees
  <2>6. cancelled' \subseteq running'
    BY <1>1 DEF Core, RunningAgrees
  <2> QED
    BY <2>1, <2>4, <2>5, <2>6 DEF RunningAgrees
<1>6. retryTimers' \subseteq retryTimers \cup {RetryOf(id)}
      /\ (RetryOf(id) \in retryTimers' => RetryOf(id) \in Ids)
  <2>1. MayRetry(id) => RetryOf(id) \in Ids
    BY <1>2, TaskManagerAssumption DEF MayRetry, RetryOf, Ids
  <2>2. retryTimers \subseteq Ids
    BY DEF TypeInv, TypeOK
  <2> QED
    BY <1>3, <2>1, <2>2
<1>7. Live' \subseteq (Live \ {id}) \cup (retryTimers' \cap {RetryOf(id)})
  <2>1. id \notin WithStatus({"pending", "running"})'
    BY <1>2, <1>3 DEF WithStatus, TypeInv, TypeOK
  <2>2. WithStatus({"pending", "running"})' \subseteq WithStatus({"pending", "running"})
    BY <1>2, <1>3 DEF WithStatus, TypeInv, TypeOK
  <2>3. id \notin retryTimers \cup fired
    BY <1>2 DEF Core, OneLiveAttempt
  <2>4. RetryOf(id) # id
    BY <1>2 DEF RetryOf, Ids
  <2> QED
    BY <1>1, <1>6, <2>1, <2>2, <2>3, <2>4 DEF Live
<1>8. \A i \in Live : i[1] = id[1] => i = id
  BY <1>2 DEF Core, OneLiveAttempt
<1>9. RetryOf(id)[1] = id[1] /\ RetryOf(id)[2] = id[2] + 1 /\ id[2] \in Nat
      /\ id[1] \notin fresh
  BY <1>2 DEF RetryOf, Ids, Core, FreshIsUnused
<1>10. \A j \in Ids : j[1] = id[1] /\ j[2] > id[2] => results'[j] = "none"
  BY <1>2, <1>3 DEF Core, SuccessorsUnborn, TypeInv, TypeOK
<1>11. \A j \in Ids : results[j] = "none" => results'[j] = "none"
  BY <1>2, <1>3 DEF TypeInv, TypeOK
<1>12. retryTimers \cup fired \subseteq Ids
  BY DEF TypeInv, TypeOK
<1> HIDE DEF id
<1>13. OneLiveAttempt'
  <2>1. \A i, j \in Live' : i[1] = j[1] => i = j
    BY <1>7, <1>8, <1>9 DEF Core, OneLiveAttempt
  <2>2. \A i \in retryTimers' \cup fired' : results'[i] = "none"
    <3>1. \A i \in retryTimers \cup fired : results'[i] = "none"
      BY <1>11, <1>12 DEF Core, OneLiveAttempt
    <3>2. RetryOf(id) \in retryTimers' => results'[RetryOf(id)] = "none"
      BY <1>6, <1>9, <1>10
    <3> QED
      BY <1>1, <1>6, <3>1, <3>2
  <2> QED
    BY <2>1, <2>2 DEF OneLiveAttempt
<1>14. FreshIsUnused'
  BY <1>1, <1>6, <1>9, <1>11 DEF Core, FreshIsUnused
<1>15. SuccessorsUnborn'
  <2> SUFFICES ASSUME NEW i \in Live', NEW j \in Ids, j[1] = i[1], j[2] > i[2]
               PROVE  results'[j] = "none"
    BY DEF SuccessorsUnborn
  <2>1. CASE i \in Live
    BY <1>11, <2>1 DEF Core, SuccessorsUnborn
  <2>2. CASE i = RetryOf(id)
    <3>1. j[2] \in Int /\ j[2] > id[2] /\ j[1] = id[1]
      BY <1>9, <2>2 DEF Ids
    <3> QED
      BY <1>10, <3>1
  <2> QED
    BY <1>7, <2>1, <2>2
<1> QED
  BY <1>4, <1>5, <1>13, <1>14, <1>15 DEF Core

(* Stop cancels every queued attempt and disarms every retry at once.      *)
LEMMA StopBeginsCore ==
  ASSUME TypeInv, Core, StopBegins PROVE Core'
<1>1. /\ retryTimers' = {}
      /\ queue' = {}
      /\ results' = [id \in Ids |-> IF id \in Queued /\ results[id] = "pending"
                                    THEN "cancelled" ELSE results[id]]
      /\ pc' = [w \in Workers |-> IF w \in Asleep THEN "ready" ELSE pc[w]]
      /\ UNCHANGED <<fresh, sequence, running, cancelled, fired, job, cleaner>>
  BY DEF StopBegins, Broadcast
<1>2. WithStatus({"pending"})' = {} /\ WithStatus({"running"})' = WithStatus({"running"})
  BY <1>1 DEF Core, QueueIsPending, WithStatus
<1>3. QueueIsPending'
  BY <1>1, <1>2, FS_EmptySet, TaskManagerAssumption DEF QueueIsPending, Queued
<1>4. RunningAgrees'
  <2>1. \A w \in Workers : pc'[w] = "executing" <=> pc[w] = "executing"
    BY <1>1 DEF Asleep
  <2> QED
    BY <1>1, <1>2, <2>1 DEF Core, RunningAgrees
<1>5. Live' \subseteq Live
  BY <1>1, <1>2 DEF Live, WithStatus
<1>6. \A j \in Ids : results[j] = "none" => results'[j] = "none"
  BY <1>1
<1>7. fired \subseteq Ids
  BY DEF TypeInv, TypeOK
<1>8. OneLiveAttempt'
  BY <1>1, <1>5, <1>6, <1>7 DEF Core, OneLiveAttempt
<1>9. FreshIsUnused' /\ SuccessorsUnborn'
  BY <1>1, <1>5, <1>6 DEF Core, FreshIsUnused, SuccessorsUnborn
<1> QED
  BY <1>3, <1>4, <1>8, <1>9 DEF Core

(* Cleanup forgets only results that have ended, which neither the heap nor*)
(* Manager.running refers to.                                              *)
LEMMA CleanupTickCore ==
  ASSUME TypeInv, Core, CleanupTick PROVE Core'
<1>1. PICK old \in SUBSET WithStatus(Terminal) :
        results' = [id \in Ids |-> IF id \in old THEN "none" ELSE results[id]]
  BY DEF CleanupTick
<1>2. UNCHANGED <<fresh, queue, sequence, running, cancelled, retryTimers, fired,
                  counters, pc, job, stopPhase>>
  BY DEF CleanupTick
<1>3. \A S \in SUBSET {"pending", "running"} : WithStatus(S)' = WithStatus(S)
  BY <1>1 DEF WithStatus, Terminal
<1>4. QueueIsPending' /\ RunningAgrees'
  <2>1. /\ WithStatus({"pending"})' = WithStatus({"pending"})
        /\ WithStatus({"running"})' = WithStatus({"running"})
    BY <1>3
  <2> QED
    BY <1>2, <2>1 DEF Core, QueueIsPending, Queued, RunningAgrees
<1>5. Live' = Live
  <2>1. WithStatus({"pending", "running"})' = WithStatus({"pending", "running"})
    BY <1>3
  <2> QED
    BY <1>2, <2>1 DEF Live
<1>6. \A j \in Ids : results[j] = "none" => results'[j] = "none"
  BY <1>1
<1>7. retryTimers \cup fired \subseteq Ids
  BY DEF TypeInv, TypeOK
<1>8. OneLiveAttempt' /\ FreshIsUnused' /\ SuccessorsUnborn'
  BY <1>2, <1>5, <1>6, <1>7 DEF Core, OneLiveAttempt, FreshIsUnused, SuccessorsUnborn
<1> QED
  BY <1>4, <1>8 DEF Core

(* The core invariant is inductive, given the shape of the state.          *)
LEMMA NextCore == TypeInv /\ Core /\ [Next]_vars => Core'
<1> SUFFICES ASSUME TypeInv, Core, [Next]_vars PROVE Core'
  OBVIOUS
<1>1. cancelled \subseteq running
  BY DEF Core, RunningAgrees
<1>2. ASSUME NEW id \in Ids, CancelRunning(id) PROVE Core'
  BY <1>1, <1>2, BystandersKeepCore DEF CancelRunning
<1>3. ASSUME NEW id \in Ids, TimerFires(id) PROVE Core'
  BY <1>1, <1>3, BystandersKeepCore DEF TimerFires
<1>4. ASSUME NEW id \in Ids, RetryDeferred(id) PROVE Core'
  BY <1>1, <1>4, BystandersKeepCore DEF RetryDeferred, TimersWhenFull
<1>5. ASSUME NEW id \in Ids, RetryDropped(id) PROVE Core'
  BY <1>1, <1>5, BystandersKeepCore DEF RetryDropped, Disarmed
<1>6. ASSUME NEW w \in Workers, WorkerExits(w) \/ WorkerSleeps(w) PROVE Core'
  <2>1. \A v \in Workers : pc'[v] = "executing" <=> pc[v] = "executing"
    BY <1>6 DEF WorkerExits, WorkerSleeps, TypeInv, TypeOK
  <2> QED
    BY <1>1, <1>6, <2>1, BystandersKeepCore DEF WorkerExits, WorkerSleeps
<1>7. CASE StopExpires
  BY <1>1, <1>7, BystandersKeepCore DEF StopExpires
<1>8. CASE StopJoins \/ StopAbandons \/ StopCloses
  BY <1>1, <1>8, BystandersKeepCore DEF StopJoins, StopAbandons, StopCloses
<1>9. CASE CleanupPurged \/ CleanupExits
  BY <1>1, <1>9, BystandersKeepCore DEF CleanupPurged, CleanupExits
<1>10. CASE UNCHANGED vars
  BY <1>1, <1>10, BystandersKeepCore DEF vars
<1> QED
  BY <1>2, <1>3, <1>4, <1>5, <1>6, <1>7, <1>8, <1>9, <1>10, SubmitBatchCore,
     CancelPendingCore, RetryAdmittedCore, WorkerTakesCore, FinishCore,
     StopBeginsCore, CleanupTickCore
     DEF Next, RetrySteps, WorkerSteps, Returns

(* The core invariant holds in every execution.                            *)
THEOREM CoreInvariant == Spec => [](TypeInv /\ Core)
BY InitTypes, NextTypes, InitCore, NextCore, PTL DEF Spec

(* Heap and results agree and the capacity holds, in every execution.      *)
THEOREM QueueIsPendingHolds == Spec => []QueueIsPending
<1>1. Core => QueueIsPending
  BY DEF Core
<1> QED
  BY CoreInvariant, <1>1, PTL

(* Manager.running, the results, the workers and the cancellation flags    *)
(* agree in every execution.                                               *)
THEOREM RunningAgreesHolds == Spec => []RunningAgrees
<1>1. Core => RunningAgrees
  BY DEF Core
<1> QED
  BY CoreInvariant, <1>1, PTL

(* No task ever has two live attempts, and no attempt is scheduled twice.  *)
THEOREM OneLiveAttemptHolds == Spec => []OneLiveAttempt
<1>1. Core => OneLiveAttempt
  BY DEF Core
<1> QED
  BY CoreInvariant, <1>1, PTL

-----------------------------------------------------------------------------
(* Shutdown.  A manager that has joined its workers never has one again,   *)
(* and a closed one has no cleanup loop either.                            *)
Quiet ==
  /\ Stopping => queue = {} /\ retryTimers = {}
  /\ stopPhase \in {"joined", "closed"} => \A w \in Workers : pc[w] = "exited"
  /\ stopPhase = "closed" => cleaner = "done"

(* What Stop left behind stays quiet: no step of a stopping manager queues,*)
(* arms or starts anything.                                                *)
LEMMA NextQuiet == TypeInv /\ Core /\ Quiet /\ [Next]_vars => Quiet'
<1> SUFFICES ASSUME TypeInv, Core, Quiet, [Next]_vars PROVE Quiet'
  OBVIOUS
<1> USE DEF Quiet, Stopping
<1>1. CASE SubmitBatch
  BY <1>1 DEF SubmitBatch
<1>2. ASSUME NEW id \in Ids, CancelRunning(id) \/ CancelPending(id) PROVE Quiet'
  BY <1>2 DEF CancelRunning, CancelPending, Removed
<1>3. ASSUME NEW id \in Ids, RetrySteps(id) PROVE Quiet'
  BY <1>3 DEF RetrySteps, TimerFires, RetryAdmitted, RetryDeferred, RetryDropped,
              Disarmed
<1>4. ASSUME NEW w \in Workers, WorkerSteps(w) PROVE Quiet'
  BY <1>4 DEF WorkerSteps, WorkerExits, WorkerSleeps, WorkerTakes, TypeInv, TypeOK
<1>5. ASSUME NEW w \in Workers, NEW err \in BOOLEAN, Finish(w, err) PROVE Quiet'
  <2>1. Stopping => retryTimers' = retryTimers
    BY <1>5 DEF Finish, MayRetry
  <2> QED
    BY <1>5, <2>1 DEF Finish
<1>6. CASE StopBegins \/ StopExpires \/ StopAbandons
  BY <1>6 DEF StopBegins, StopExpires, StopAbandons
<1>7. CASE StopJoins \/ StopCloses
  BY <1>7 DEF StopJoins, StopCloses, WorkersRemain
<1>8. CASE CleanupTick \/ CleanupPurged \/ CleanupExits
  BY <1>8 DEF CleanupTick, CleanupPurged, CleanupExits
<1>9. CASE UNCHANGED vars
  BY <1>9 DEF vars
<1> QED
  BY <1>1, <1>2, <1>3, <1>4, <1>5, <1>6, <1>7, <1>8, <1>9 DEF Next, Returns

(* Nothing is queued or armed behind the back of Stop, and the store is    *)
(* only closed when nobody is left that would write to it.                 *)
THEOREM StoppedIsQuietHolds == Spec => []StoppedIsQuiet
<1>1. Init => Quiet
  BY DEF Init, Boot, Quiet, Stopping
<1>2. TypeInv /\ Core /\ Quiet => StoppedIsQuiet
  <2> SUFFICES ASSUME TypeInv, Core, Quiet, stopPhase = "closed"
               PROVE  WithStatus({"pending", "running"}) = {}
    BY DEF Quiet, StoppedIsQuiet
  <2>1. queue = {} /\ \A w \in Workers : pc[w] = "exited"
    BY DEF Quiet, Stopping
  <2>2. WithStatus({"pending"}) = {}
    BY <2>1 DEF Core, QueueIsPending, Queued
  <2>3. WithStatus({"running"}) = {}
    BY <2>1 DEF Core, RunningAgrees
  <2> QED
    BY <2>2, <2>3 DEF WithStatus
<1> QED
  BY <1>1, <1>2, CoreInvariant, NextQuiet, PTL DEF Spec

-----------------------------------------------------------------------------
(* Wake-ups.                                                               *)
(* The sets of sleeping and of awake workers can be counted.               *)
LEMMA WorkerSetsFinite ==
  \A S \in SUBSET Workers : IsFiniteSet(S) /\ Cardinality(S) \in Nat
BY TaskManagerAssumption, FS_Subset, FS_CardinalityType

(* n signals wake n workers, unless that is more than there are asleep.    *)
LEMMA SignalWakes ==
  ASSUME pc \in [Workers -> PcStates], NEW n \in Nat, Signal(n)
  PROVE  Asleep' # {} =>
           Asleep # {} /\ Cardinality(Ready') = Cardinality(Ready) + n
<1>1. PICK woken \in SUBSET Asleep :
        /\ IF n <= Cardinality(Asleep) THEN Cardinality(woken) = n ELSE woken = Asleep
        /\ pc' = [w \in Workers |-> IF w \in woken THEN "ready" ELSE pc[w]]
  BY DEF Signal
<1>2. Asleep' = Asleep \ woken /\ Ready' = Ready \cup woken /\ Ready \cap woken = {}
  BY <1>1 DEF Asleep, Ready
<1>3. Ready \in SUBSET Workers /\ woken \in SUBSET Workers
  BY DEF Asleep, Ready
<1>4. /\ IsFiniteSet(Ready) /\ IsFiniteSet(woken)
      /\ Cardinality(Ready) \in Nat /\ Cardinality(woken) \in Nat
  BY <1>3, WorkerSetsFinite
<1>5. Cardinality(Ready \cup woken) = Cardinality(Ready) + Cardinality(woken)
  <2>1. Cardinality(Ready \cap woken) = 0
    BY <1>2, FS_EmptySet
  <2> QED
    BY <1>4, <2>1, FS_Union
<1> QED
  BY <1>1, <1>2, <1>5

(* A submission that signals once per entry keeps every entry covered.     *)
LEMMA EnqueueKeepsWakeups ==
  ASSUME TypeInv, WakeupsCoverQueue, NEW batch, Batch(batch), Enqueue(batch),
         UNCHANGED stopPhase
  PROVE  WakeupsCoverQueue'
<1>1. Len(batch) \in Nat /\ Signal(Len(batch))
  BY DEF Batch, Enqueue
<1>2. /\ Cardinality(queue') \in Nat
      /\ Cardinality(queue') <= Cardinality(queue) + Len(batch)
  BY EnqueueGrowsHeap
<1>3. Asleep' # {} =>
        Asleep # {} /\ Cardinality(Ready') = Cardinality(Ready) + Len(batch)
  BY <1>1, SignalWakes DEF TypeInv, TypeOK, PcStates
<1>4. Cardinality(queue) \in Nat /\ Cardinality(Ready) \in Nat
  BY WorkerSetsFinite, FS_CardinalityType DEF TypeInv, Ready
<1> QED
  BY <1>1, <1>2, <1>3, <1>4 DEF WakeupsCoverQueue, Stopping

(* Steps that add no work and take no awake worker from it.                *)
LEMMA WakeupsMonotonic ==
  ASSUME TypeInv, WakeupsCoverQueue, UNCHANGED stopPhase,
         queue' \subseteq queue, Asleep' \subseteq Asleep, Ready \subseteq Ready',
         Ready' \subseteq Workers
  PROVE  WakeupsCoverQueue'
<1>1. /\ Cardinality(queue') <= Cardinality(queue)
      /\ Cardinality(queue) \in Nat /\ Cardinality(queue') \in Nat
  BY FS_Subset, FS_CardinalityType DEF TypeInv
<1>2. IsFiniteSet(Ready') /\ Cardinality(Ready') \in Nat /\ Cardinality(Ready) \in Nat
  BY WorkerSetsFinite
<1>3. Cardinality(Ready) <= Cardinality(Ready')
  BY <1>2, FS_Subset
<1> QED
  BY <1>1, <1>2, <1>3 DEF WakeupsCoverQueue, Stopping

(* No step of the manager loses a wake-up.                                 *)
LEMMA NextWakeups ==
  TypeInv /\ Core /\ WakeupsCoverQueue /\ [Next]_vars => WakeupsCoverQueue'
<1> SUFFICES ASSUME TypeInv, Core, WakeupsCoverQueue, [Next]_vars
             PROVE  WakeupsCoverQueue'
  OBVIOUS
<1> USE DEF Asleep, Ready
<1>1. CASE SubmitBatch
  <2>1. PICK batch \in Batches : Enqueue(batch)
    BY <1>1 DEF SubmitBatch
  <2>2. Batch(batch)
    BY ClientBatch DEF TypeInv, TypeOK
  <2> QED
    BY <1>1, <2>1, <2>2, EnqueueKeepsWakeups DEF SubmitBatch
<1>2. ASSUME NEW id \in Ids, CancelRunning(id) \/ CancelPending(id)
      PROVE  WakeupsCoverQueue'
  BY <1>2, WakeupsMonotonic DEF CancelRunning, CancelPending, Removed
<1>3. ASSUME NEW id \in Ids, RetryAdmitted(id) PROVE WakeupsCoverQueue'
  BY <1>3, RetryBatch, EnqueueKeepsWakeups DEF RetryAdmitted
<1>4. ASSUME NEW id \in Ids, TimerFires(id) \/ RetryDeferred(id) \/ RetryDropped(id)
      PROVE  WakeupsCoverQueue'
  BY <1>4, WakeupsMonotonic DEF TimerFires, RetryDeferred, RetryDropped
<1>5. ASSUME NEW w \in Workers, WorkerExits(w) PROVE WakeupsCoverQueue'
  <2>1. Asleep = {} /\ Asleep' = {}
    BY <1>5 DEF WorkerExits, WakeupsCoverQueue, TypeInv, TypeOK
  <2> QED
    BY <2>1 DEF WakeupsCoverQueue
<1>6. ASSUME NEW w \in Workers, WorkerSleeps(w) PROVE WakeupsCoverQueue'
  <2>1. Cardinality(queue') = 0 /\ ~Stopping'
    BY <1>6, FS_EmptySet DEF WorkerSleeps, Stopping
  <2>2. Cardinality(Ready') \in Nat
    BY WorkerSetsFinite
  <2> QED
    BY <2>1, <2>2 DEF WakeupsCoverQueue
<1>7. ASSUME NEW w \in Workers, WorkerTakes(w) PROVE WakeupsCoverQueue'
  <2>1. PICK item \in queue :
          queue' = queue \ {item} /\ pc' = [pc EXCEPT ![w] = "executing"]
    BY <1>7, WorkerTakesPending
  <2>2. w \in Ready /\ UNCHANGED stopPhase
    BY <1>7 DEF WorkerTakes
  <2>3. Ready' = Ready \ {w} /\ Asleep' = Asleep
    BY <2>1, <2>2 DEF TypeInv, TypeOK
  <2>4. Cardinality(queue') = Cardinality(queue) - 1
    BY <2>1, FS_RemoveElement DEF TypeInv
  <2>5. Cardinality(Ready') = Cardinality(Ready) - 1
    <3>1. IsFiniteSet(Ready)
      BY WorkerSetsFinite
    <3> QED
      BY <2>2, <2>3, <3>1, FS_RemoveElement
  <2>6. Cardinality(queue) \in Nat /\ Cardinality(Ready) \in Nat
    BY WorkerSetsFinite, FS_CardinalityType DEF TypeInv
  <2> HIDE DEF Ready, Asleep
  <2> QED
    BY <2>2, <2>3, <2>4, <2>5, <2>6 DEF WakeupsCoverQueue, Stopping
<1>8. ASSUME NEW w \in Workers, NEW err \in BOOLEAN, Finish(w, err)
      PROVE  WakeupsCoverQueue'
  <2>1. /\ pc[w] = "executing"
        /\ pc' = [pc EXCEPT ![w] = "ready"]
        /\ UNCHANGED <<queue, stopPhase>>
    BY <1>8 DEF Finish
  <2>2. Asleep' \subseteq Asleep /\ Ready \subseteq Ready' /\ Ready' \subseteq Workers
    BY <2>1 DEF TypeInv, TypeOK
  <2> QED
    BY <2>1, <2>2, WakeupsMonotonic
<1>9. CASE StopBegins
  BY <1>9 DEF StopBegins, Broadcast, WakeupsCoverQueue
<1>10. CASE StopExpires \/ StopJoins \/ StopAbandons \/ StopCloses
  <2>1. Stopping /\ UNCHANGED <<queue, pc>>
    BY <1>10 DEF StopExpires, StopJoins, StopAbandons, StopCloses, Stopping
  <2> QED
    BY <2>1 DEF WakeupsCoverQueue
<1>11. CASE CleanupTick \/ CleanupPurged \/ CleanupExits
  BY <1>11, WakeupsMonotonic DEF CleanupTick, CleanupPurged, CleanupExits
<1>12. CASE UNCHANGED vars
  BY <1>12, WakeupsMonotonic DEF vars
<1> QED
  BY <1>1, <1>2, <1>3, <1>4, <1>5, <1>6, <1>7, <1>8, <1>9, <1>10, <1>11, <1>12
     DEF Next, RetrySteps, WorkerSteps, Returns

(* No wake-up is ever lost, whatever the batches, timers and workers do.   *)
THEOREM WakeupsCoverQueueHolds == Spec => []WakeupsCoverQueue
<1>1. Init => WakeupsCoverQueue
  BY DEF Init, Boot, WakeupsCoverQueue, Asleep
<1> QED
  BY <1>1, CoreInvariant, NextWakeups, PTL DEF Spec

-----------------------------------------------------------------------------
(* Settled results.                                                        *)
FinalStep ==
  \A id \in Ids :
    /\ results[id] \in Terminal => results'[id] \in {results[id], "none"}
    /\ results[id] = "none" /\ id[1] \notin fresh /\ results'[id] # "none"
         => id \in fired

(* No step rewrites a settled result or revives a forgotten one.           *)
LEMMA NextSettled == TypeInv /\ Core /\ [Next]_vars => FinalStep
<1> SUFFICES ASSUME TypeInv, Core, [Next]_vars PROVE FinalStep
  OBVIOUS
<1> USE DEF FinalStep, Terminal
<1>1. CASE SubmitBatch
  <2>1. PICK batch \in Batches : Enqueue(batch)
    BY <1>1 DEF SubmitBatch
  <2>2. \A i \in DOMAIN batch : batch[i] \in fresh \X {0}
    BY ClientBatch DEF TypeInv, TypeOK
  <2>3. \A i \in DOMAIN batch : batch[i] \in Ids => results[batch[i]] = "none"
    BY <2>2 DEF Core, FreshIsUnused
  <2> QED
    BY <2>1, <2>2, <2>3 DEF Enqueue
<1>2. ASSUME NEW id \in Ids, CancelPending(id) PROVE FinalStep
  BY <1>2 DEF CancelPending, Cancellable, TypeInv, TypeOK
<1>3. ASSUME NEW id \in Ids, RetryAdmitted(id) PROVE FinalStep
  <2>1. id \in fired /\ results[id] = "none"
    BY <1>3 DEF RetryAdmitted, Core, OneLiveAttempt
  <2>2. \A j \in Ids : j # id => results'[j] = results[j]
    BY <1>3, RetryBatch DEF RetryAdmitted, Enqueue
  <2> QED
    BY <2>1, <2>2
<1>4. ASSUME NEW w \in Workers, WorkerTakes(w) PROVE FinalStep
  BY <1>4, WorkerTakesPending DEF TypeInv, TypeOK
<1>5. ASSUME NEW w \in Workers, NEW err \in BOOLEAN, Finish(w, err) PROVE FinalStep
  <2>1. job[w] \in Ids /\ results[job[w]] = "running"
    BY <1>5 DEF Finish, TypeInv, TypeOK, HoldsJob, Core, RunningAgrees, WithStatus
  <2>2. \A j \in Ids : j # job[w] => results'[j] = results[j]
    BY <1>5, <2>1 DEF Finish, TypeInv, TypeOK
  <2> QED
    BY <2>1, <2>2
<1>6. CASE StopBegins
  BY <1>6 DEF StopBegins
<1>7. CASE CleanupTick
  BY <1>7 DEF CleanupTick, WithStatus
<1>8. CASE UNCHANGED results
  BY <1>8
<1> QED
  BY <1>1, <1>2, <1>3, <1>4, <1>5, <1>6, <1>7, <1>8
     DEF Next, RetrySteps, WorkerSteps, Returns, CancelRunning, TimerFires,
         RetryDeferred, RetryDropped, WorkerExits, WorkerSleeps, StopExpires,
         StopJoins, StopAbandons, StopCloses, CleanupPurged, CleanupExits, vars

(* A settled result is never rewritten, only forgotten, and what has been  *)
(* forgotten does not come back.                                           *)
THEOREM SettledIsFinalHolds == Spec => SettledIsFinal
<1>1. TypeInv /\ Core /\ [Next]_vars => [FinalStep]_vars
  BY NextSettled
<1>2. Spec => [][FinalStep]_vars
  BY <1>1, CoreInvariant, PTL DEF Spec
<1> QED
  BY <1>2, PTL DEF SettledIsFinal, FinalStep

-----------------------------------------------------------------------------
(* Statistics.                                                             *)
(* No more attempts run than there are workers, so they can be counted.    *)
LEMMA RunningFinite ==
  ASSUME RunningAgrees
  PROVE  IsFiniteSet(running) /\ Cardinality(running) \in Nat
<1> DEFINE busy == {w \in Workers : pc[w] = "executing"}
           jobOf == [w \in busy |-> job[w]]
<1>1. IsFiniteSet(busy)
  BY TaskManagerAssumption, FS_Subset
<1>2. jobOf \in Surjection(busy, running)
  BY DEF RunningAgrees, Surjection
<1> HIDE DEF busy, jobOf
<1> QED
  BY <1>1, <1>2, FS_Surjection, FS_CardinalityType

(* A submission of new attempts counts each of them once.                  *)
LEMMA EnqueueCounts ==
  ASSUME TypeInv, QueueIsPending, NEW batch, Batch(batch), Enqueue(batch),
         \A i \in DOMAIN batch : results[batch[i]] = "none"
  PROVE  Cardinality(queue') = Cardinality(queue) + Len(batch)
<1>1. PICK n \in Nat \ {0} :
        batch \in [1 .. n -> Ids] /\ Len(batch) = n /\ DOMAIN batch = 1 .. n
  BY DEF Batch
<1> DEFINE items == {[id |-> batch[i], seq |-> sequence + i] : i \in 1 .. n}
           item == [i \in 1 .. n |-> [id |-> batch[i], seq |-> sequence + i]]
<1>2. queue' = queue \cup items
  BY <1>1 DEF Enqueue
<1>3. item \in Surjection(1 .. n, items)
  BY DEF Surjection
<1>4. item \in Injection(1 .. n, items)
  <2>1. ASSUME NEW i \in 1 .. n, NEW j \in 1 .. n, item[i] = item[j] PROVE i = j
    <3>1. item[i].seq = sequence + i /\ item[j].seq = sequence + j
      OBVIOUS
    <3> QED
      BY <2>1, <3>1 DEF TypeInv, TypeOK
  <2>2. item \in [1 .. n -> items]
    OBVIOUS
  <2> QED
    BY <2>1, <2>2 DEF Injection, IsInjective
<1>5. queue \cap items = {}
  <2> SUFFICES ASSUME NEW i \in 1 .. n,
                      [id |-> batch[i], seq |-> sequence + i] \in queue
               PROVE  FALSE
    OBVIOUS
  <2>1. [id |-> batch[i], seq |-> sequence + i].id \in Queued
    BY DEF Queued
  <2>2. batch[i] \in Queued
    BY <2>1
  <2> QED
    BY <1>1, <2>2 DEF QueueIsPending, WithStatus
<1> HIDE DEF items, item
<1>6. IsFiniteSet(1 .. n) /\ Cardinality(1 .. n) = n
  BY FS_Interval, <1>1
<1>7. IsFiniteSet(items) /\ Cardinality(items) = n
  BY <1>3, <1>4, <1>6, FS_Surjection
<1>8. Cardinality(queue \cap items) = 0
  BY <1>5, FS_EmptySet
<1>9. /\ Cardinality(queue) \in Nat
      /\ Cardinality(queue \cup items) =
           Cardinality(queue) + Cardinality(items) - Cardinality(queue \cap items)
  BY <1>7, FS_Union, FS_CardinalityType DEF TypeInv
<1> QED
  BY <1>1, <1>2, <1>7, <1>8, <1>9

(* Steps that settle, start or submit nothing.                             *)
LEMMA UncountedSteps ==
  ASSUME Conservation, UNCHANGED <<queue, running, counters>>
  PROVE  Conservation'
BY DEF Conservation

(* Every step of the manager keeps the statistics balanced.                *)
LEMMA NextConservation ==
  TypeInv /\ Core /\ Conservation /\ [Next]_vars => Conservation'
<1> SUFFICES ASSUME TypeInv, Core, Conservation, [Next]_vars PROVE Conservation'
  OBVIOUS
<1> DEFINE q == Cardinality(queue)
           r == Cardinality(running)
<1>1. /\ IsFiniteSet(queue) /\ q \in Nat
      /\ IsFiniteSet(running) /\ r \in Nat
  BY RunningFinite, FS_CardinalityType DEF TypeInv, Core
<1>2. counters \in [{"total", "completed", "failed", "cancelled"} -> Nat]
  BY DEF TypeInv, TypeOK
<1>3. CASE SubmitBatch
  <2>1. PICK batch \in Batches : Enqueue(batch)
    BY <1>3 DEF SubmitBatch
  <2>2. Batch(batch) /\ \A i \in DOMAIN batch : batch[i] \in fresh \X {0}
    BY ClientBatch DEF TypeInv, TypeOK
  <2>3. \A i \in DOMAIN batch : batch[i] \in Ids
    BY <2>2 DEF Batch
  <2>4. \A i \in DOMAIN batch : results[batch[i]] = "none"
    BY <2>2, <2>3 DEF Core, FreshIsUnused
  <2>5. Cardinality(queue') = q + Len(batch)
    BY <2>1, <2>2, <2>4, EnqueueCounts DEF Core
  <2>6. /\ counters' = [counters EXCEPT !.total = @ + Len(batch)]
        /\ Len(batch) \in Nat
        /\ UNCHANGED running
    BY <1>3, <2>1, <2>2 DEF Enqueue, SubmitBatch, Batch
  <2> QED
    BY <1>1, <1>2, <2>5, <2>6 DEF Conservation
<1>4. ASSUME NEW id \in Ids, RetryAdmitted(id) PROVE Conservation'
  <2>1. /\ Enqueue(<<id>>)
        /\ results[id] = "none"
        /\ UNCHANGED running
    BY <1>4 DEF RetryAdmitted, Core, OneLiveAttempt
  <2>2. Batch(<<id>>) /\ DOMAIN <<id>> = {1} /\ Len(<<id>>) = 1 /\ <<id>>[1] = id
    BY RetryBatch
  <2>3. Cardinality(queue') = q + 1
    BY <2>1, <2>2, EnqueueCounts DEF Core
  <2>4. counters' = [counters EXCEPT !.total = @ + 1]
    BY <2>1, <2>2 DEF Enqueue
  <2> QED
    BY <1>1, <1>2, <2>1, <2>3, <2>4 DEF Conservation
<1>5. ASSUME NEW id \in Ids, CancelPending(id) PROVE Conservation'
  <2>1. /\ results[id] = "pending"
        /\ queue' = {item \in queue : item.id # id}
        /\ counters' = [counters EXCEPT !.cancelled = @ + 1]
        /\ UNCHANGED running
    BY <1>5 DEF CancelPending, Cancellable, Removed
  <2>2. PICK item \in queue : item.id = id
    BY <2>1 DEF Core, QueueIsPending, WithStatus, Queued
  <2>3. queue' = queue \ {item}
    BY <2>1, <2>2 DEF Core, QueueIsPending
  <2>4. Cardinality(queue') = q - 1
    BY <1>1, <2>3, FS_RemoveElement
  <2> QED
    BY <1>1, <1>2, <2>1, <2>4 DEF Conservation
<1>6. ASSUME NEW w \in Workers, WorkerTakes(w) PROVE Conservation'
  <2>1. PICK item \in queue :
          /\ results[item.id] = "pending"
          /\ queue' = queue \ {item}
          /\ running' = running \cup {item.id}
    BY <1>6, WorkerTakesPending
  <2>2. item.id \notin running
    BY <2>1 DEF Core, RunningAgrees, WithStatus
  <2>3. Cardinality(queue') = q - 1
    BY <1>1, <2>1, FS_RemoveElement
  <2>4. Cardinality(running') = r + 1
    BY <1>1, <2>1, <2>2, FS_AddElement
  <2>5. UNCHANGED counters
    BY <1>6 DEF WorkerTakes
  <2> QED
    BY <1>1, <1>2, <2>3, <2>4, <2>5 DEF Conservation
<1>7. ASSUME NEW w \in Workers, NEW err \in BOOLEAN, Finish(w, err)
      PROVE  Conservation'
  <2>1. job[w] \in running /\ results[job[w]] = "running"
    BY <1>7 DEF Finish, Core, RunningAgrees, WithStatus
  <2>2. PICK status \in {"completed", "failed", "cancelled"} :
          /\ counters' = [counters EXCEPT ![status] = @ + 1]
          /\ running' = running \ {job[w]}
          /\ UNCHANGED queue
    BY <1>7, <2>1 DEF Finish, Outcome
  <2>3. Cardinality(running') = r - 1
    BY <1>1, <2>1, <2>2, FS_RemoveElement
  <2> QED
    BY <1>1, <1>2, <2>2, <2>3 DEF Conservation
<1>8. CASE StopBegins
  <2> DEFINE drained == {id \in Queued : results[id] = "pending"}
             idOf == [item \in queue |-> item.id]
  <2>1. drained = Queued
    BY DEF Core, QueueIsPending, WithStatus
  <2>2. idOf \in Surjection(queue, Queued) /\ idOf \in Injection(queue, Queued)
    <3>1. idOf \in Surjection(queue, Queued)
      BY DEF Surjection, Queued
    <3>2. ASSUME NEW i \in queue, NEW j \in queue, idOf[i] = idOf[j] PROVE i = j
      BY <3>2 DEF Core, QueueIsPending
    <3>3. idOf \in [queue -> Queued]
      BY DEF Queued
    <3> QED
      BY <3>1, <3>2, <3>3 DEF Injection, IsInjective
  <2>3. Cardinality(Queued) = q
    <3> HIDE DEF idOf
    <3> QED BY <1>1, <2>2, FS_Surjection
  <2>4. /\ counters' = [counters EXCEPT !.cancelled = @ + Cardinality(drained)]
        /\ queue' = {}
        /\ UNCHANGED running
    BY <1>8 DEF StopBegins
  <2>5. counters' = [counters EXCEPT !.cancelled = @ + q]
    BY <2>1, <2>3, <2>4
  <2>6. Cardinality(queue') = 0
    BY <2>4, FS_EmptySet
  <2> QED
    BY <1>1, <1>2, <2>4, <2>5, <2>6 DEF Conservation
<1>9. CASE UNCHANGED <<queue, running, counters>>
  BY <1>9, UncountedSteps
<1> QED
  BY <1>3, <1>4, <1>5, <1>6, <1>7, <1>8, <1>9
     DEF Next, RetrySteps, WorkerSteps, Returns, CancelRunning, TimerFires,
         RetryDeferred, RetryDropped, WorkerExits, WorkerSleeps, StopExpires,
         StopJoins, StopAbandons, StopCloses, CleanupTick, CleanupPurged, CleanupExits, vars

(* The statistics add up in every execution: no attempt is lost or counted *)
(* twice.                                                                  *)
THEOREM ConservationHolds == Spec => []Conservation
<1>1. Init => Conservation
  BY FS_EmptySet DEF Init, Boot, ZeroCounters, Conservation
<1> QED
  BY <1>1, CoreInvariant, NextConservation, PTL DEF Spec

-----------------------------------------------------------------------------
(* TaskManager implements TaskLifecycle: under the refinement mapping of   *)
(* Promise every step of the manager is one step of the lifecycle or none. *)
(* Heap, counters, workers, condition variable and the phases of Stop are  *)
(* what the lifecycle does not show.                                       *)

(* What a state of the manager shows of its lifecycle.                     *)
Owed == IF Stopping THEN {} ELSE retryTimers \cup fired
Shown == <<fresh, results, Owed, cancelled, ~Stopping>>

(* Both levels count alike: the instance has a Cardinality of its own.     *)
LEMMA SameCount == \A S : Promise!Cardinality(S) = Cardinality(S)
BY DEF Promise!Cardinality, Cardinality, Promise!IsFiniteSet, IsFiniteSet

(* Attempts and statuses have the same names on both levels.               *)
LEMMA SameNames ==
  /\ Promise!Ids = Ids
  /\ Promise!Outcomes = Terminal
  /\ \A s : Promise!Having(s) = WithStatus({s})
BY DEF Promise!Ids, Ids, Promise!Outcomes, Terminal, Promise!Having, WithStatus

(* A new manager shows the initial state of the lifecycle.                 *)
LEMMA PromiseInit == Init => Promise!Init
BY SameNames DEF Init, Boot, Stopping, Promise!Init

(* The lifecycle counts pending attempts where the manager counts heap     *)
(* entries: there are no more of them.                                     *)
LEMMA PendingFit ==
  ASSUME TypeInv, Core
  PROVE  /\ IsFiniteSet(WithStatus({"pending"}))
         /\ Cardinality(WithStatus({"pending"})) \in Nat
         /\ Cardinality(queue) \in Nat
         /\ Cardinality(WithStatus({"pending"})) <= Cardinality(queue)
<1> DEFINE idOf == [item \in queue |-> item.id]
<1>1. IsFiniteSet(queue)
  BY DEF TypeInv
<1>2. idOf \in Surjection(queue, Queued)
  BY DEF Queued, Surjection
<1>3. Queued = WithStatus({"pending"})
  BY DEF Core, QueueIsPending
<1> HIDE DEF idOf
<1>4. IsFiniteSet(Queued) /\ Cardinality(Queued) <= Cardinality(queue)
  BY <1>1, <1>2, FS_Surjection
<1> QED
  BY <1>1, <1>3, <1>4, FS_CardinalityType

(* A worker that is about to take an attempt leaves room for it: there are *)
(* fewer running attempts than workers.                                    *)
LEMMA RoomToRun ==
  ASSUME TypeInv, Core, NEW w \in Workers, pc[w] # "executing"
  PROVE  Cardinality(WithStatus({"running"})) < Cardinality(Workers)
<1> DEFINE busy == {v \in Workers : pc[v] = "executing"}
           jobOf == [v \in busy |-> job[v]]
<1>1. running = WithStatus({"running"}) /\ running = {job[v] : v \in busy}
  BY DEF Core, RunningAgrees
<1>2. jobOf \in Surjection(busy, running)
  BY <1>1 DEF Surjection
<1>3. busy \subseteq Workers \ {w}
  OBVIOUS
<1>4. IsFiniteSet(Workers)
  BY TaskManagerAssumption
<1> HIDE DEF busy, jobOf
<1>5. /\ IsFiniteSet(Workers \ {w})
      /\ Cardinality(Workers \ {w}) = Cardinality(Workers) - 1
  BY <1>4, FS_RemoveElement
<1>6. IsFiniteSet(busy) /\ Cardinality(busy) <= Cardinality(Workers \ {w})
  BY <1>3, <1>5, FS_Subset
<1>7. IsFiniteSet(running) /\ Cardinality(running) <= Cardinality(busy)
  BY <1>2, <1>6, FS_Surjection
<1>8. /\ Cardinality(Workers) \in Nat
      /\ Cardinality(busy) \in Nat
      /\ Cardinality(running) \in Nat
  BY <1>4, <1>6, <1>7, FS_CardinalityType
<1> QED
  BY <1>1, <1>5, <1>6, <1>7, <1>8

-----------------------------------------------------------------------------
(* Submit and SubmitBatch accept their tasks.                              *)
LEMMA SubmitBatchAccepts ==
  ASSUME TypeInv, Core, SubmitBatch PROVE Promise!Next
<1>1. PICK batch \in Batches :
        /\ HasRoom(Len(batch))
        /\ Enqueue(batch)
        /\ fresh' = fresh \ {batch[i][1] : i \in DOMAIN batch}
  BY DEF SubmitBatch
<1>2. /\ ~Stopping
      /\ UNCHANGED <<running, cancelled, retryTimers, fired, stopPhase>>
  BY DEF SubmitBatch
<1>3. /\ Batch(batch)
      /\ \A i \in DOMAIN batch : batch[i] \in fresh \X {0}
  BY ClientBatch DEF TypeInv, TypeOK
<1>4. PICK n \in Nat \ {0} :
        batch \in [1 .. n -> Ids] /\ Len(batch) = n /\ DOMAIN batch = 1 .. n
  BY <1>3 DEF Batch
<1> DEFINE S == {batch[i][1] : i \in 1 .. n}
           taskOf == [i \in 1 .. n |-> batch[i][1]]
<1>5. S \subseteq fresh /\ S # {} /\ S \subseteq Tasks
  <2>1. \A i \in 1 .. n : batch[i][1] \in fresh
    BY <1>3, <1>4
  <2>2. 1 \in 1 .. n
    BY <1>4
  <2> QED
    BY <2>1, <2>2 DEF TypeInv, TypeOK
<1>6. Cardinality(WithStatus({"pending"})) + Cardinality(S) <= MaxQueue
  <2>1. taskOf \in Surjection(1 .. n, S)
    BY DEF Surjection
  <2>2. IsFiniteSet(1 .. n) /\ Cardinality(1 .. n) = n
    BY FS_Interval, <1>4
  <2>3. IsFiniteSet(S) /\ Cardinality(S) <= n /\ Cardinality(S) \in Nat
    <3> HIDE DEF S, taskOf
    <3> QED BY <2>1, <2>2, FS_Surjection, FS_CardinalityType
  <2> HIDE DEF S
  <2> QED
    BY <1>1, <1>4, <2>3, PendingFit, TaskManagerAssumption DEF HasRoom
<1>7. results' = [id \in Ids |-> IF id \in {<<t, 0>> : t \in S}
                                 THEN "pending" ELSE results[id]]
  <2>1. \A i \in 1 .. n : batch[i] = <<batch[i][1], 0>>
    BY <1>3, <1>4
  <2>2. \A id : (\E i \in 1 .. n : batch[i] = id) <=> id \in {<<t, 0>> : t \in S}
    BY <2>1
  <2>3. results' = [id \in Ids |-> IF \E i \in 1 .. n : batch[i] = id
                                   THEN "pending" ELSE results[id]]
    BY <1>1, <1>4 DEF Enqueue
  <2> HIDE DEF S
  <2> QED
    BY <2>2, <2>3
<1>8. fresh' = fresh \ S
  BY <1>1, <1>4
<1>9. Stopping' = Stopping
  BY <1>2 DEF Stopping
<1> HIDE DEF S
<1>10. Promise!Accept(S)
  BY <1>2, <1>5, <1>6, <1>7, <1>8, <1>9, SameNames, SameCount
     DEF Promise!Accept, Promise!Becomes
<1> QED
  BY <1>5, <1>10 DEF Promise!Next

(* A cancellation dooms a running attempt or withdraws a pending one.      *)
LEMMA CancelPromised ==
  ASSUME TypeInv, Core, NEW id \in Ids, CancelRunning(id) \/ CancelPending(id)
  PROVE  Promise!Next
<1>1. CASE CancelRunning(id)
  <2>1. {id} \subseteq WithStatus({"running"}) /\ {id} # {}
    BY <1>1 DEF CancelRunning, Core, RunningAgrees
  <2>2. Promise!Doom({id})
    BY <1>1, <2>1, SameNames DEF CancelRunning, Stopping, Promise!Doom
  <2>3. {id} \in SUBSET Promise!Ids
    BY SameNames
  <2> QED
    BY <2>2, <2>3 DEF Promise!Next
<1>2. CASE CancelPending(id)
  <2>1. results[id] = "pending"
    BY <1>2 DEF CancelPending, Cancellable
  <2>2. results' = [i \in Ids |-> IF i \in {id} THEN "cancelled" ELSE results[i]]
    BY <1>2 DEF CancelPending, TypeInv, TypeOK
  <2>3. UNCHANGED <<fresh, cancelled, retryTimers, fired, stopPhase>>
    BY <1>2 DEF CancelPending
  <2>4. Promise!Withdraw(id)
    BY <2>1, <2>2, <2>3, SameNames DEF Stopping, Promise!Withdraw, Promise!Becomes
  <2> QED
    BY <2>4, SameNames DEF Promise!Next
<1> QED
  BY <1>1, <1>2

(* A retry that finds room is admitted; whatever else its timer and        *)
(* callback do is not to be seen.                                          *)
LEMMA RetryPromised ==
  ASSUME TypeInv, Core, Quiet, NEW id \in Ids, RetrySteps(id)
  PROVE  Promise!Next \/ Shown' = Shown
<1>1. CASE TimerFires(id)
  BY <1>1 DEF TimerFires, Shown, Owed, Stopping
<1>2. CASE RetryAdmitted(id)
  <2>1. /\ id \in fired /\ ~Stopping /\ HasRoom(1) /\ Enqueue(<<id>>)
        /\ fired' = fired \ {id}
        /\ retryTimers' = retryTimers \ {id}
        /\ UNCHANGED <<fresh, cancelled, stopPhase>>
    BY <1>2 DEF RetryAdmitted, Disarmed
  <2>2. Stopping' = Stopping
    BY <2>1 DEF Stopping
  <2>3. results' = [i \in Ids |-> IF i \in {id} THEN "pending" ELSE results[i]]
    <3>1. DOMAIN <<id>> = {1} /\ <<id>>[1] = id
      BY RetryBatch
    <3> QED
      BY <2>1, <3>1 DEF Enqueue
  <2>4. Cardinality(WithStatus({"pending"})) < MaxQueue
    BY <2>1, PendingFit, TaskManagerAssumption DEF HasRoom
  <2>5. Owed' = Owed \ {id} /\ id \in Owed
    BY <2>1, <2>2 DEF Owed
  <2>6. Promise!Admit(id)
    BY <2>1, <2>2, <2>3, <2>4, <2>5, SameNames, SameCount
       DEF Owed, Promise!Admit, Promise!Becomes
  <2> QED
    BY <2>6, SameNames DEF Promise!Next
<1>3. CASE RetryDeferred(id)
  <2>1. /\ id \in fired
        /\ fired' = fired \ {id}
        /\ retryTimers' = retryTimers \cup {id}
        /\ UNCHANGED <<fresh, results, cancelled, stopPhase>>
    BY <1>3 DEF RetryDeferred, TimersWhenFull
  <2>2. (retryTimers \cup fired)' = retryTimers \cup fired
    BY <2>1
  <2> QED
    BY <2>1, <2>2 DEF Shown, Owed, Stopping
<1>4. CASE RetryDropped(id)
  BY <1>4 DEF RetryDropped, Shown, Owed, Stopping
<1> QED
  BY <1>1, <1>2, <1>3, <1>4 DEF RetrySteps

(* A worker that takes an attempt starts it; going to sleep and leaving    *)
(* are not to be seen.                                                     *)
LEMMA WorkerPromised ==
  ASSUME TypeInv, Core, NEW w \in Workers, WorkerSteps(w)
  PROVE  Promise!Next \/ Shown' = Shown
<1>1. CASE WorkerExits(w)
  BY <1>1 DEF WorkerExits, Shown, Owed, Stopping
<1>2. CASE WorkerSleeps(w)
  BY <1>2 DEF WorkerSleeps, Shown, Owed, Stopping
<1>3. CASE WorkerTakes(w)
  <2>1. PICK item \in queue :
          /\ item.id \in Ids
          /\ results[item.id] = "pending"
          /\ results' = [results EXCEPT ![item.id] = "running"]
    BY <1>3, WorkerTakesPending
  <2>2. /\ pc[w] = "ready" /\ ~Stopping
        /\ UNCHANGED <<fresh, cancelled, retryTimers, fired, stopPhase>>
    BY <1>3 DEF WorkerTakes
  <2>3. results' = [i \in Ids |-> IF i \in {item.id} THEN "running" ELSE results[i]]
    BY <2>1 DEF TypeInv, TypeOK
  <2>4. Cardinality(WithStatus({"running"})) < Cardinality(Workers)
    BY <2>2, RoomToRun
  <2>5. Promise!Start(item.id)
    BY <2>1, <2>2, <2>3, <2>4, SameNames, SameCount
       DEF Stopping, Promise!Start, Promise!Becomes
  <2> QED
    BY <2>1, <2>5, SameNames DEF Promise!Next
<1> QED
  BY <1>1, <1>2, <1>3 DEF WorkerSteps

(* finish settles the attempt, as cancelled exactly if a cancellation was  *)
(* accepted, and owes a failed one its successor.                          *)
LEMMA FinishSettles ==
  ASSUME TypeInv, Core, Quiet, NEW w \in Workers, NEW err \in BOOLEAN, Finish(w, err)
  PROVE  Promise!Next
<1> DEFINE id == job[w]
           status == Outcome(id, err)
<1>1. pc[w] = "executing"
  BY DEF Finish
<1>2. id \in Ids /\ results[id] = "running"
  BY <1>1 DEF TypeInv, TypeOK, HoldsJob, Core, RunningAgrees, WithStatus
<1>3. /\ results' = [results EXCEPT ![id] = status]
      /\ cancelled' = cancelled \ {id}
      /\ retryTimers' = IF status = "failed" /\ MayRetry(id)
                        THEN retryTimers \cup {RetryOf(id)} ELSE retryTimers
      /\ UNCHANGED <<fresh, fired, stopPhase>>
  BY <1>2 DEF Finish, FlagsAfter
<1>4. status \in Terminal /\ (status = "cancelled" <=> id \in cancelled)
  BY DEF Outcome, Terminal
<1> HIDE DEF status
<1>5. results' = [i \in Ids |-> IF i \in {id} THEN status ELSE results[i]]
  BY <1>2, <1>3 DEF TypeInv, TypeOK
<1>6. Stopping' = Stopping
  BY <1>3 DEF Stopping
<1>7. Owed' = IF status = "failed" /\ id[2] < MaxRetries /\ ~Stopping
              THEN Owed \cup {<<id[1], id[2] + 1>>} ELSE Owed
  BY <1>3, <1>6 DEF Owed, MayRetry, RetryOf
<1>8. Promise!Settle(id, status)
  BY <1>2, <1>3, <1>4, <1>5, <1>6, <1>7 DEF Owed, Promise!Settle, Promise!Becomes, Promise!Ids, Ids
<1> QED
  BY <1>2, <1>4, <1>8, SameNames DEF Promise!Next

(* Stop closes the lifecycle; when its deadline passes it dooms whatever   *)
(* still runs.                                                             *)
LEMMA StopPromised ==
  ASSUME TypeInv, Core, StopBegins \/ StopExpires
  PROVE  Promise!Next \/ Shown' = Shown
<1>1. CASE StopBegins
  <2>1. /\ ~Stopping /\ Stopping'
        /\ UNCHANGED <<fresh, cancelled>>
    BY <1>1 DEF StopBegins, Stopping
  <2>2. {i \in Queued : results[i] = "pending"} = WithStatus({"pending"})
    BY DEF Core, QueueIsPending, WithStatus
  <2>3. results' = [i \in Ids |-> IF i \in WithStatus({"pending"})
                                  THEN "cancelled" ELSE results[i]]
    BY <1>1, <2>2 DEF StopBegins
  <2>4. Promise!Close
    BY <2>1, <2>3, SameNames DEF Promise!Close, Promise!Becomes
  <2> QED
    BY <2>4 DEF Promise!Next
<1>2. CASE StopExpires
  <2>1. /\ cancelled' = cancelled \cup running
        /\ Stopping /\ Stopping'
        /\ UNCHANGED <<fresh, results, retryTimers, fired>>
    BY <1>2 DEF StopExpires, Stopping
  <2>2. CASE running = {}
    BY <2>1, <2>2 DEF Shown, Owed
  <2>3. CASE running # {}
    <3>1. running \subseteq WithStatus({"running"}) /\ running \subseteq Ids
      BY DEF Core, RunningAgrees, TypeInv, TypeOK
    <3>2. Promise!Doom(running)
      BY <2>1, <2>3, <3>1, SameNames DEF Promise!Doom
    <3> QED
      BY <3>1, <3>2, SameNames DEF Promise!Next
  <2> QED
    BY <2>2, <2>3
<1> QED
  BY <1>1, <1>2

(* A cleanup tick forgets outcomes, or nothing.                            *)
LEMMA CleanupPromised ==
  ASSUME TypeInv, CleanupTick
  PROVE  Promise!Next \/ Shown' = Shown
<1>1. PICK old \in SUBSET WithStatus(Terminal) :
        results' = [i \in Ids |-> IF i \in old THEN "none" ELSE results[i]]
  BY DEF CleanupTick
<1>2. UNCHANGED <<fresh, cancelled, retryTimers, fired, stopPhase>>
  BY DEF CleanupTick
<1>3. CASE old = {}
  <2>1. results' = results
    BY <1>1, <1>3 DEF TypeInv, TypeOK
  <2> QED
    BY <1>2, <2>1 DEF Shown, Owed, Stopping
<1>4. CASE old # {}
  <2>1. \A i \in old : i \in Ids /\ results[i] \in Terminal
    BY DEF WithStatus
  <2>2. Promise!Forget(old)
    BY <1>1, <1>2, <1>4, <2>1, SameNames
       DEF Stopping, Promise!Forget, Promise!Becomes
  <2> QED
    BY <2>1, <2>2, SameNames DEF Promise!Next
<1> QED
  BY <1>3, <1>4

-----------------------------------------------------------------------------
(* Every step of the manager is a step of the lifecycle, or is not seen.   *)
LEMMA PromiseNext ==
  TypeInv /\ Core /\ Quiet /\ [Next]_vars => [Promise!Next]_(Promise!vars)
<1> SUFFICES ASSUME TypeInv, Core, Quiet, [Next]_vars
             PROVE  Promise!Next \/ Shown' = Shown
  BY DEF Promise!vars, Shown, Owed
<1>1. CASE SubmitBatch
  BY <1>1, SubmitBatchAccepts
<1>2. ASSUME NEW id \in Ids, CancelRunning(id) \/ CancelPending(id)
      PROVE  Promise!Next
  BY <1>2, CancelPromised
<1>3. ASSUME NEW id \in Ids, RetrySteps(id) PROVE Promise!Next \/ Shown' = Shown
  BY <1>3, RetryPromised
<1>4. ASSUME NEW w \in Workers, WorkerSteps(w)
      PROVE  Promise!Next \/ Shown' = Shown
  BY <1>4, WorkerPromised
<1>5. ASSUME NEW w \in Workers, Returns(w) PROVE Promise!Next
  BY <1>5, FinishSettles DEF Returns
<1>6. CASE StopBegins \/ StopExpires
  BY <1>6, StopPromised
<1>7. CASE StopJoins \/ StopAbandons \/ StopCloses
  BY <1>7 DEF StopJoins, StopAbandons, StopCloses, Shown, Owed, Stopping
<1>8. CASE CleanupTick
  BY <1>8, CleanupPromised
<1>9. CASE CleanupPurged \/ CleanupExits
  BY <1>9 DEF CleanupPurged, CleanupExits, Shown, Owed, Stopping
<1>10. CASE UNCHANGED vars
  BY <1>10 DEF vars, Shown, Owed, Stopping
<1> QED
  BY <1>1, <1>2, <1>3, <1>4, <1>5, <1>6, <1>7, <1>8, <1>9, <1>10 DEF Next

(* The manager keeps the promise of TaskLifecycle, for every number of     *)
(* tasks, workers, queue slots and retries.                                *)
THEOREM KeepsPromiseHolds == Spec => KeepsPromise
<1>1. Spec => [](TypeInv /\ Core)
  BY CoreInvariant
<1>2. Init => Quiet
  BY DEF Init, Boot, Quiet, Stopping
<1> QED
  BY <1>1, <1>2, NextQuiet, PromiseInit, PromiseNext, PTL
     DEF Spec, KeepsPromise, Promise!Spec

=============================================================================
