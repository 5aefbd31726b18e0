---------------------------- MODULE TaskManager ----------------------------
(***************************************************************************)
(* The scrape-task manager: a bounded priority queue, a pool of worker     *)
(* goroutines that sleep on a condition variable, retries started by       *)
(* timers, cancellation, hourly cleanup and graceful shutdown              *)
(* (src/internal/task/manager.go and queue.go).                            *)
(*                                                                         *)
(* Every action is one critical section of Manager.mu, or one event the    *)
(* code cannot prevent (a timer firing, a deadline passing).  The SQLite   *)
(* history and process restarts are added by module TaskHistory.           *)
(*                                                                         *)
(* An operator whose name starts with Bug is a plausible mistake in the    *)
(* definition that follows it; no specification uses it.                   *)
(***************************************************************************)
EXTENDS Integers, Sequences, FiniteSets

CONSTANTS
  Tasks,       \* tasks clients may submit, one per UUID
  Priority,    \* the priority of each task
  Workers,     \* worker goroutines (maxConcurrentTasks of them)
  MaxQueue,    \* maxQueueSize
  MaxRetries,  \* ScraperTask.MaxRetries
  Idle         \* what a worker without a task holds

(* The ID of an attempt: <<t, 0>> is the submitted task itself and         *)
(* <<t, n>> the ID that carries its n-th "_retry_" suffix.                 *)
Ids == Tasks \X (0 .. MaxRetries)
RetryOf(id) == <<id[1], id[2] + 1>>

ASSUME TaskManagerAssumption ==
  /\ Priority \in [Tasks -> Int]
  /\ IsFiniteSet(Workers)
  /\ Workers # {}
  /\ MaxQueue \in Nat \ {0}
  /\ MaxRetries \in Nat
  /\ Idle \notin Ids

VARIABLES
  fresh,        \* tasks whose UUID has not been drawn yet
  queue,        \* the heap: queueItems [id, seq]
  sequence,     \* Manager.sequence
  results,      \* status of each entry of Manager.results, "none" without one
  running,      \* keys of Manager.running
  cancelled,    \* keys of Manager.cancelled
  retryTimers,  \* keys of Manager.retryTimers
  fired,        \* timer callbacks that run and wait for Manager.mu
  counters,     \* Manager.counters
  pc,           \* where each worker goroutine is
  job,          \* the attempt a worker executes
  stopPhase,    \* how far Stop has come; Manager.stopping iff it is not "no"
  cleaner       \* where cleanupLoop is

vars == <<fresh, queue, sequence, results, running, cancelled, retryTimers,
          fired, counters, pc, job, stopPhase, cleaner>>

-----------------------------------------------------------------------------
Terminal == {"completed", "failed", "cancelled"}
Status == Terminal \cup {"pending", "running"}

Stopping == stopPhase # "no"
WithStatus(S) == {id \in Ids : results[id] \in S}
Asleep == {w \in Workers : pc[w] = "asleep"}
Ready == {w \in Workers : pc[w] = "ready"}

ZeroCounters == [total |-> 0, completed |-> 0, failed |-> 0, cancelled |-> 0]

(* A manager as NewManager returns it, with the given results in memory.   *)
Boot(loaded) ==
  /\ queue = {}
  /\ sequence = 0
  /\ results = loaded
  /\ running = {}
  /\ cancelled = {}
  /\ retryTimers = {}
  /\ fired = {}
  /\ counters = ZeroCounters
  /\ pc = [w \in Workers |-> "ready"]
  /\ job = [w \in Workers |-> Idle]
  /\ stopPhase = "no"
  /\ cleaner = "waiting"

(* A first start, without history.                                         *)
Init ==
  /\ fresh = Tasks
  /\ Boot([id \in Ids |-> "none"])

-----------------------------------------------------------------------------
(* The heap's order: higher priority first, then first come first served.  *)
Before(i, j) ==
  \/ Priority[i.id[1]] > Priority[j.id[1]]
  \/ Priority[i.id[1]] = Priority[j.id[1]] /\ i.seq < j.seq

BugHasRoomIgnoresBatch(n) == Cardinality(queue) < MaxQueue
HasRoom(n) == n <= MaxQueue - Cardinality(queue)

(* cond.Signal wakes one sleeping worker, if there is one; n submissions   *)
(* signal n times.                                                         *)
BugSignalNobody(n) == UNCHANGED pc
BugSignalOnce(n) ==
  \E woken \in SUBSET Asleep :
    /\ Cardinality(woken) = (IF Asleep = {} THEN 0 ELSE 1)
    /\ pc' = [w \in Workers |-> IF w \in woken THEN "ready" ELSE pc[w]]
Signal(n) ==
  \E woken \in SUBSET Asleep :
    /\ IF n <= Cardinality(Asleep) THEN Cardinality(woken) = n ELSE woken = Asleep
    /\ pc' = [w \in Workers |-> IF w \in woken THEN "ready" ELSE pc[w]]

(* submitLocked for every element of batch, in order, in one critical      *)
(* section.                                                                *)
Enqueue(batch) ==
  /\ results' = [id \in Ids |-> IF \E i \in DOMAIN batch : batch[i] = id
                                THEN "pending" ELSE results[id]]
  /\ queue' = queue \cup
       {[id |-> batch[i], seq |-> sequence + i] : i \in DOMAIN batch}
  /\ sequence' = sequence + Len(batch)
  /\ counters' = [counters EXCEPT !.total = @ + Len(batch)]
  /\ Signal(Len(batch))

(* The orders in which a batch of distinct new tasks can arrive.           *)
Batches ==
  {b \in UNION {[1 .. n -> fresh \X {0}] : n \in 1 .. MaxQueue} :
     \A i, j \in DOMAIN b : b[i] = b[j] => i = j}

(* Submit (a batch of one) and SubmitBatch: all of the batch or none.      *)
(* A refused submission changes nothing.                                   *)
SubmitBatch ==
  /\ ~Stopping
  /\ \E batch \in Batches :
       /\ HasRoom(Len(batch))
       /\ Enqueue(batch)
       /\ fresh' = fresh \ {batch[i][1] : i \in DOMAIN batch}
  /\ UNCHANGED <<running, cancelled, retryTimers, fired, job, stopPhase, cleaner>>

-----------------------------------------------------------------------------
(* Cancel of a running attempt only raises its flag and cancels its        *)
(* context; finish settles it.                                             *)
CancelRunning(id) ==
  /\ id \in running
  /\ cancelled' = cancelled \cup {id}
  /\ UNCHANGED <<fresh, queue, sequence, results, running, retryTimers, fired,
                 counters, pc, job, stopPhase, cleaner>>

BugKeepInQueue(id) == queue
Removed(id) == {item \in queue : item.id # id}

BugCancellableWhenKnown(id) == id \notin running /\ results[id] # "none"
Cancellable(id) == id \notin running /\ results[id] = "pending"

(* Cancel of a queued attempt.                                             *)
CancelPending(id) ==
  /\ Cancellable(id)
  /\ queue' = Removed(id)
  /\ results' = [results EXCEPT ![id] = "cancelled"]
  /\ counters' = [counters EXCEPT !.cancelled = @ + 1]
  /\ UNCHANGED <<fresh, sequence, running, cancelled, retryTimers, fired, pc,
                 job, stopPhase, cleaner>>

-----------------------------------------------------------------------------
(* A worker that holds the lock: it leaves when the manager stops, ...     *)
WorkerExits(w) ==
  /\ pc[w] = "ready"
  /\ Stopping
  /\ pc' = [pc EXCEPT ![w] = "exited"]
  /\ UNCHANGED <<fresh, queue, sequence, results, running, cancelled,
                 retryTimers, fired, counters, job, stopPhase, cleaner>>

(* ... waits on the condition variable while there is nothing to do, ...   *)
WorkerSleeps(w) ==
  /\ pc[w] = "ready"
  /\ ~Stopping
  /\ queue = {}
  /\ pc' = [pc EXCEPT ![w] = "asleep"]
  /\ UNCHANGED <<fresh, queue, sequence, results, running, cancelled,
                 retryTimers, fired, counters, job, stopPhase, cleaner>>

(* ... or takes the first task; an entry without a live result is dropped. *)
WorkerTakes(w) ==
  /\ pc[w] = "ready"
  /\ ~Stopping
  /\ \E item \in queue :
       /\ \A other \in queue \ {item} : Before(item, other)
       /\ queue' = queue \ {item}
       /\ IF results[item.id] \in {"none", "cancelled"}
          THEN UNCHANGED <<results, running, pc, job>>
          ELSE /\ results' = [results EXCEPT ![item.id] = "running"]
               /\ running' = running \cup {item.id}
               /\ pc' = [pc EXCEPT ![w] = "executing"]
               /\ job' = [job EXCEPT ![w] = item.id]
  /\ UNCHANGED <<fresh, sequence, cancelled, retryTimers, fired, counters,
                 stopPhase, cleaner>>

(* The status finish gives an attempt: an accepted cancellation wins over  *)
(* whatever Execute returned.                                              *)
BugOutcomeSuccessWins(id, err) ==
  IF ~err THEN "completed" ELSE IF id \in cancelled THEN "cancelled" ELSE "failed"
Outcome(id, err) ==
  IF id \in cancelled THEN "cancelled" ELSE IF err THEN "failed" ELSE "completed"

BugRetryWhileStopping(id) == id[2] < MaxRetries
MayRetry(id) == id[2] < MaxRetries /\ ~Stopping

BugFlagsKept(id) == cancelled
FlagsAfter(id) == cancelled \ {id}

(* Execute returns (err: with an error) and finish settles the attempt.    *)
Finish(w, err) ==
  LET id == job[w]
      status == Outcome(id, err)
  IN
  /\ pc[w] = "executing"
  /\ pc' = [pc EXCEPT ![w] = "ready"]
  /\ job' = [job EXCEPT ![w] = Idle]
  /\ running' = running \ {id}
  /\ cancelled' = FlagsAfter(id)
  /\ IF results[id] = "none"
     THEN UNCHANGED <<results, counters, retryTimers>>
     ELSE /\ results' = [results EXCEPT ![id] = status]
          /\ counters' = [counters EXCEPT ![status] = @ + 1]
          /\ retryTimers' = IF status = "failed" /\ MayRetry(id)
                            THEN retryTimers \cup {RetryOf(id)}
                            ELSE retryTimers
  /\ UNCHANGED <<fresh, queue, sequence, fired, stopPhase, cleaner>>

-----------------------------------------------------------------------------
(* The runtime starts a timer's callback; its map entry stays until the    *)
(* callback holds the lock.                                                *)
TimerFires(id) ==
  /\ id \in retryTimers \ fired
  /\ fired' = fired \cup {id}
  /\ UNCHANGED <<fresh, queue, sequence, results, running, cancelled,
                 retryTimers, counters, pc, job, stopPhase, cleaner>>

BugDropWhenFull(id) == retryTimers \ {id}
TimersWhenFull(id) == retryTimers \cup {id}

BugStillArmed(id) == retryTimers
Disarmed(id) == retryTimers \ {id}

(* submitScheduledRetry: the retry is admitted, waits for another          *)
(* retryAdmissionDelay when the queue is full, or is dropped by a manager  *)
(* that stops.                                                             *)
RetryAdmitted(id) ==
  /\ id \in fired
  /\ ~Stopping
  /\ HasRoom(1)
  /\ fired' = fired \ {id}
  /\ retryTimers' = Disarmed(id)
  /\ Enqueue(<<id>>)
  /\ UNCHANGED <<fresh, running, cancelled, job, stopPhase, cleaner>>

RetryDeferred(id) ==
  /\ id \in fired
  /\ ~Stopping
  /\ ~HasRoom(1)
  /\ fired' = fired \ {id}
  /\ retryTimers' = TimersWhenFull(id)
  /\ UNCHANGED <<fresh, queue, sequence, results, running, cancelled, counters,
                 pc, job, stopPhase, cleaner>>

RetryDropped(id) ==
  /\ id \in fired
  /\ Stopping
  /\ fired' = fired \ {id}
  /\ retryTimers' = Disarmed(id)
  /\ UNCHANGED <<fresh, queue, sequence, results, running, cancelled, counters,
                 pc, job, stopPhase, cleaner>>

-----------------------------------------------------------------------------
Queued == {item.id : item \in queue}

Broadcast == [w \in Workers |-> IF w \in Asleep THEN "ready" ELSE pc[w]]

(* Stop, first critical section: no timer and no queued task survives.     *)
StopBegins ==
  LET drained == {id \in Queued : results[id] = "pending"} IN
  /\ ~Stopping
  /\ stopPhase' = "draining"
  /\ retryTimers' = {}
  /\ queue' = {}
  /\ results' = [id \in Ids |-> IF id \in drained THEN "cancelled" ELSE results[id]]
  /\ counters' = [counters EXCEPT !.cancelled = @ + Cardinality(drained)]
  /\ pc' = Broadcast
  /\ UNCHANGED <<fresh, sequence, running, cancelled, fired, job, cleaner>>

(* The context of Stop expires: every running attempt is cancelled.        *)
StopExpires ==
  /\ stopPhase = "draining"
  /\ stopPhase' = "forced"
  /\ cancelled' = cancelled \cup running
  /\ UNCHANGED <<fresh, queue, sequence, results, running, retryTimers, fired,
                 counters, pc, job, cleaner>>

WorkersRemain == \E w \in Workers : pc[w] # "exited"

(* Stop has waited for its workers, before or after they were cancelled;   *)
(* from here on it no longer looks at its deadline.                        *)
StopJoins ==
  /\ stopPhase \in {"draining", "forced"}
  /\ ~WorkersRemain
  /\ stopPhase' = "joined"
  /\ UNCHANGED <<fresh, queue, sequence, results, running, cancelled,
                 retryTimers, fired, counters, pc, job, cleaner>>

(* forcedShutdownWait has passed: Stop returns and leaves the store open.  *)
StopAbandons ==
  /\ stopPhase = "forced"
  /\ stopPhase' = "abandoned"
  /\ UNCHANGED <<fresh, queue, sequence, results, running, cancelled,
                 retryTimers, fired, counters, pc, job, cleaner>>

(* The cleanup loop is gone too: the store is closed.                      *)
StopCloses ==
  /\ stopPhase = "joined"
  /\ cleaner = "done"
  /\ stopPhase' = "closed"
  /\ UNCHANGED <<fresh, queue, sequence, results, running, cancelled,
                 retryTimers, fired, counters, pc, job, cleaner>>

-----------------------------------------------------------------------------
(* cleanupLoop: an hourly tick forgets results that ended before the       *)
(* retention cutoff (any of the ended ones, here), then purges the store.  *)
CleanupTick ==
  /\ cleaner = "waiting"
  /\ ~Stopping
  /\ \E old \in SUBSET WithStatus(Terminal) :
       results' = [id \in Ids |-> IF id \in old THEN "none" ELSE results[id]]
  /\ cleaner' = "purging"
  /\ UNCHANGED <<fresh, queue, sequence, running, cancelled, retryTimers, fired,
                 counters, pc, job, stopPhase>>

CleanupPurged ==
  /\ cleaner = "purging"
  /\ cleaner' = "waiting"
  /\ UNCHANGED <<fresh, queue, sequence, results, running, cancelled,
                 retryTimers, fired, counters, pc, job, stopPhase>>

(* stopCleanup, which Stop closes first of all.                            *)
BugStopCleanup == stopPhase = "closed"
StopCleanup == Stopping
CleanupExits ==
  /\ cleaner = "waiting"
  /\ StopCleanup
  /\ cleaner' = "done"
  /\ UNCHANGED <<fresh, queue, sequence, results, running, cancelled,
                 retryTimers, fired, counters, pc, job, stopPhase>>

-----------------------------------------------------------------------------
WorkerSteps(w) == WorkerExits(w) \/ WorkerSleeps(w) \/ WorkerTakes(w)
Returns(w) == Finish(w, TRUE) \/ Finish(w, FALSE)
RetrySteps(id) ==
  TimerFires(id) \/ RetryAdmitted(id) \/ RetryDeferred(id) \/ RetryDropped(id)

Next ==
  \/ SubmitBatch
  \/ \E id \in Ids : CancelRunning(id) \/ CancelPending(id) \/ RetrySteps(id)
  \/ \E w \in Workers : WorkerSteps(w) \/ Returns(w)
  \/ StopBegins \/ StopExpires \/ StopJoins \/ StopAbandons \/ StopCloses
  \/ CleanupTick \/ CleanupPurged \/ CleanupExits

Spec == Init /\ [][Next]_vars

(* What the Go runtime grants: goroutines run, the mutex is not held       *)
(* forever, timers fire, contexts expire.  Nothing is granted about        *)
(* clients, and nothing about Execute.                                     *)
RuntimeFairness ==
  /\ \A w \in Workers : WF_vars(WorkerSteps(w))
  /\ \A id \in Ids : WF_vars(RetrySteps(id))
  /\ WF_vars(StopExpires) /\ WF_vars(StopJoins) /\ WF_vars(StopAbandons)
  /\ WF_vars(StopCloses)
  /\ WF_vars(CleanupPurged) /\ WF_vars(CleanupExits)

(* Execute returns, because every attempt runs under its task's timeout.   *)
ExecuteReturns == \A w \in Workers : WF_vars(Returns(w))

FairSpec == Spec /\ RuntimeFairness

-----------------------------------------------------------------------------
(* The shape of the state.                                                 *)
TypeOK ==
  /\ fresh \subseteq Tasks
  /\ queue \subseteq [id : Ids, seq : Nat]
  /\ sequence \in Nat
  /\ results \in [Ids -> Status \cup {"none"}]
  /\ running \subseteq Ids
  /\ cancelled \subseteq Ids
  /\ retryTimers \subseteq Ids
  /\ fired \subseteq Ids
  /\ counters \in [{"total", "completed", "failed", "cancelled"} -> Nat]
  /\ pc \in [Workers -> {"ready", "asleep", "executing", "exited"}]
  /\ job \in [Workers -> Ids \cup {Idle}]
  /\ stopPhase \in {"no", "draining", "forced", "joined", "abandoned", "closed"}
  /\ cleaner \in {"waiting", "purging", "done"}

(* GetStatistics adds up: every accepted attempt is queued, running or in  *)
(* exactly one of the outcome counters, through cancellation, retry and    *)
(* shutdown, whatever cleanup has forgotten (submitLocked, Cancel, finish, *)
(* cancelPendingLocked).                                                   *)
Conservation ==
  counters.total = Cardinality(queue) + Cardinality(running)
    + counters.completed + counters.failed + counters.cancelled

(* The heap and the result map never disagree: one heap entry for every    *)
(* pending result and no other, within capacity.  So a worker never drops  *)
(* a queue entry, and Cancel always finds the entry it removes.            *)
QueueIsPending ==
  /\ Queued = WithStatus({"pending"})
  /\ \A i, j \in queue : i.id = j.id => i = j
  /\ Cardinality(queue) <= MaxQueue

(* Manager.running, the results and the workers agree, and a cancellation  *)
(* flag never outlives the attempt it was raised for.                      *)
RunningAgrees ==
  /\ running = WithStatus({"running"})
  /\ running = {job[w] : w \in {v \in Workers : pc[v] = "executing"}}
  /\ \A v, w \in Workers : job[v] = job[w] /\ job[v] # Idle => v = w
  /\ cancelled \subseteq running

(* No wake-up is lost: while any worker sleeps, every queued task has a    *)
(* worker that is awake and on its way to the queue (cond.Signal once per  *)
(* submission, Broadcast in Stop).                                         *)
WakeupsCoverQueue ==
  Asleep # {} => Cardinality(queue) <= Cardinality(Ready) /\ ~Stopping

(* A task has at most one live attempt: a retry is armed, queued or        *)
(* running only after the attempt before it has failed, and an attempt is  *)
(* never scheduled twice (finish, submitScheduledRetry).                   *)
Live == retryTimers \cup fired \cup WithStatus({"pending", "running"})
OneLiveAttempt ==
  /\ \A i, j \in Live : i[1] = j[1] => i = j
  /\ \A id \in retryTimers \cup fired : results[id] = "none"

(* Stop is final: nothing is queued and no retry is armed behind its back, *)
(* and once the store is closed no attempt is left that would write to it. *)
StoppedIsQuiet ==
  /\ Stopping => queue = {} /\ retryTimers = {}
  /\ stopPhase = "closed" =>
       /\ WithStatus({"pending", "running"}) = {}
       /\ cleaner = "done"

(* A settled result is never rewritten in the life of a manager, only      *)
(* forgotten by cleanup, and a forgotten one never comes back.             *)
SettledIsFinal ==
  [][\A id \in Ids :
       /\ results[id] \in Terminal => results'[id] \in {results[id], "none"}
       /\ results[id] = "none" /\ id[1] \notin fresh /\ results'[id] # "none"
            => id \in fired]_vars

(* The manager implements the lifecycle it promises: whatever the heap,    *)
(* the workers, the timers and Stop do, an observer sees only steps of     *)
(* TaskLifecycle.  Callbacks that a stopping manager is about to drop owe  *)
(* nothing.                                                                *)
Promise == INSTANCE TaskLifecycle WITH
  Parallel <- Cardinality(Workers),
  unused <- fresh,
  status <- results,
  owed <- IF Stopping THEN {} ELSE retryTimers \cup fired,
  doomed <- cancelled,
  open <- ~Stopping
KeepsPromise == Promise!Spec

(* Stop returns even if Execute ignores its context: after the deadline    *)
(* and forcedShutdownWait it gives up on the workers, and a cleanup that   *)
(* is under way when it has joined them comes to its end.                  *)
StopReturns == Stopping ~> stopPhase \in {"closed", "abandoned"}

(* Every accepted attempt is settled, given that Execute returns.  The     *)
(* heap is not fair: this relies on Tasks being finite, so that higher     *)
(* priorities run out.                                                     *)
EveryAttemptSettles ==
  ExecuteReturns =>
    \A id \in Ids :
      results[id] = "pending" ~> results[id] \notin {"pending", "running"}

(* An armed retry is submitted in the end, also when the queue is full     *)
(* each time its timer fires, unless the manager stops.                    *)
RetryIsHonoured ==
  ExecuteReturns =>
    \A id \in Ids : id \in retryTimers ~> results[id] # "none" \/ Stopping
=============================================================================
