--------------------------- MODULE ServiceRuntime ----------------------------
(***************************************************************************)
(* The process: bootstrap.Run from its start to its return, with all that  *)
(* runs meanwhile, the HTTP and MCP handlers, the sync service's loop and  *)
(* the worker that executes a task, and the order in which they are        *)
(* stopped (src/internal/bootstrap/run.go, app/runtime.go,                 *)
(* app/instrumentation.go, httpapi/server.go, mcpapi/server.go and         *)
(* exporter/manager.go).                                                   *)
(*                                                                         *)
(* A database statement or a delivery may take forever as long as its      *)
(* context lives: only a done context, or a timeout of its own, ends it.   *)
(* Every statement takes a connection of the pool and gives it back.       *)
(***************************************************************************)
EXTENDS ScrapeExecution

CONSTANTS
  Requests,   \* the HTTP requests (a bound)
  Loop,       \* the sync service's goroutine
  MaxQueries, \* MCP queries that may run at once
  Alone       \* the jobs during which nothing else happens (a bound)

ASSUME ServiceRuntimeAssumption ==
  /\ Loop \notin Requests
  /\ MaxQueries \in Nat \ {0}
  /\ Alone \subseteq DOMAIN Jobs

VARIABLES
  main,        \* where Run is, or "crashed"
  pool,        \* the store's connections: "none", "open" or "closed"
  cancelled,   \* runtimeCtx is done
  place,         \* where each request and the loop are
  ended,       \* the requests whose own context is done
  syncStop,    \* the sync service's Stop: "none", "begun", "ok" or "failed"
  managerStop, \* the task manager's, which may also be "forced"
  queued       \* a task waits for a worker

mainVars == <<main, pool, syncStop, managerStop>>
serviceVars == <<mainVars, cancelled, place, ended, queued>>
vars == <<execVars, serviceVars>>

Processes == Requests \cup {Loop}
Booting == {"loading", "opening", "registering", "managing"}
Up == main \notin {"returned", "crashed"}
Disturbed == job \notin Alone

Init ==
  /\ ExecInit
  /\ main = "loading" /\ pool = "none" /\ cancelled = FALSE
  /\ place = [p \in Processes |-> "none"]
  /\ ended = {}
  /\ syncStop = "none" /\ managerStop = "none"
  /\ queued = FALSE

-----------------------------------------------------------------------------
(* Run up to its select.  A failure closes the store that is open.         *)
BootFails ==
  /\ main \in Booting
  /\ main' = "returned"
  /\ pool' = IF pool = "open" THEN "closed" ELSE pool
  /\ UNCHANGED <<execVars, cancelled, place, ended, syncStop, managerStop, queued>>

(* LoadInitial and Validate.                                               *)
LoadConfiguration ==
  /\ main = "loading"
  /\ main' = "opening"
  /\ UNCHANGED <<execVars, pool, cancelled, place, ended, syncStop, managerStop, queued>>

(* NewPostgresStore and Initialize.                                        *)
OpenStore ==
  /\ main = "opening"
  /\ main' = "registering" /\ pool' = "open"
  /\ UNCHANGED <<execVars, cancelled, place, ended, syncStop, managerStop, queued>>

(* RegisterTarget runs on a context of its own, without a timeout.          *)
BuildSyncService ==
  /\ main = "registering"
  /\ main' = "managing"
  /\ UNCHANGED <<execVars, pool, cancelled, place, ended, syncStop, managerStop, queued>>

(* NewManager, then the sync service, the watcher and the server start.    *)
Serve ==
  /\ main = "managing"
  /\ main' = "serving"
  /\ place' = [place EXCEPT ![Loop] = "starting"]
  /\ UNCHANGED <<execVars, pool, cancelled, ended, syncStop, managerStop, queued>>

Boot == BootFails \/ LoadConfiguration \/ OpenStore \/ BuildSyncService \/ Serve

(* SIGINT or SIGTERM.                                                      *)
Signal ==
  /\ Up /\ Disturbed
  /\ ~cancelled
  /\ cancelled' = TRUE
  /\ UNCHANGED <<execVars, mainVars, place, ended, queued>>

-----------------------------------------------------------------------------
Alive(p) ==
  IF p = Loop THEN ~cancelled /\ syncStop = "none"
  ELSE p \notin ended /\ (place[p] = "querying" => ~cancelled)

Working(p) ==
  place[p] \in {"claiming", "claimed", "renewing", "renewed", "delivering", "completing"}
Active == {r \in Requests : place[r] \notin {"none", "answered"}}

(* A statement is under way.  Fail's two are one place: the operation that *)
(* they end counts until the second has ended.                             *)
Holding(p) ==
  place[p] \in {"pinging", "counting", "querying", "claiming", "renewing", "completing"}

(* The pool's Close refuses new statements as soon as it begins.           *)
Accepts == pool = "open" /\ main # "closing"

Step(p, where) ==
  /\ place' = [place EXCEPT ![p] = where]
  /\ UNCHANGED <<execVars, mainVars, cancelled, ended, queued>>

Receives(r) == main = "serving" /\ place[r] = "none"

(* POST /trigger_scraper: SubmitBatch refuses once Stop has begun.         *)
TriggerScraper(r) ==
  /\ Receives(r)
  /\ place' = [place EXCEPT ![r] = "answered"]
  /\ queued' = (queued \/ (outcome = "none" /\ ~Executing))
  /\ UNCHANGED <<execVars, mainVars, cancelled, ended>>

(* POST /trigger_upload: RunOnce, unless a batch runs.                     *)
TriggerUpload(r) ==
  /\ Receives(r) /\ Disturbed
  /\ Step(r, IF \E p \in Processes : Working(p) THEN "answered" ELSE "claiming")

(* GET /health pings the store and then counts the exports; readiness only *)
(* pings, and GET /system/info only counts.                                *)
HealthCheck(r) ==
  /\ Receives(r) /\ Disturbed
  /\ \E where \in {"pinging", "counting"} : Step(r, where)

Pinged(r) ==
  /\ Up
  /\ place[r] = "pinging"
  /\ Step(r, "pinged")

CountExports(r) ==
  /\ Up
  /\ place[r] = "pinged"
  /\ Step(r, IF Accepts THEN "counting" ELSE "answered")

(* POST /mcp: list_contents and get_content, behind limitConcurrency.      *)
MCPQuery(r) ==
  /\ Receives(r) /\ Disturbed
  /\ Step(r, IF Cardinality({q \in Requests : place[q] = "querying"}) < MaxQueries
             THEN "querying" ELSE "answered")

Answer(r) ==
  /\ Up
  /\ place[r] \in {"pinging", "counting", "querying"}
  /\ Step(r, "answered")

(* The client leaves, or the query's own timeout passes.                   *)
RequestEnds(r) ==
  /\ Up
  /\ r \in Active \ ended
  /\ ended' = ended \cup {r}
  /\ UNCHANGED <<execVars, mainVars, cancelled, place, queued>>

-----------------------------------------------------------------------------
(* A batch of the exporter, in the loop or in a handler.                   *)
AfterBatch(p) ==
  CASE p # Loop -> "answered"
    [] p = Loop /\ Alive(Loop) -> "idle"
    [] OTHER -> "exited"

(* The goroutine reads the done field only now: Stop may have cleared it,  *)
(* and then the deferred close(s.done) panics.                             *)
LoopStarts ==
  /\ Up /\ Disturbed
  /\ place[Loop] = "starting"
  /\ IF syncStop = "none"
     THEN main' = main /\ place' = [place EXCEPT ![Loop] = "idle"]
     ELSE main' = "crashed" /\ place' = [place EXCEPT ![Loop] = "exited"]
  /\ UNCHANGED <<execVars, pool, syncStop, managerStop, cancelled, ended, queued>>

LoopRuns ==
  /\ Up
  /\ place[Loop] = "idle" /\ Alive(Loop)
  /\ ~\E p \in Processes : Working(p)
  /\ Step(Loop, "claiming")

LoopExits ==
  /\ Up
  /\ place[Loop] = "idle" /\ ~Alive(Loop)
  /\ Step(Loop, "exited")

(* The batch's next claim, or its end.                                     *)
NextClaim(p) ==
  \/ Alive(p) /\ Accepts /\ Step(p, "claiming")
  \/ Step(p, AfterBatch(p))

(* Claim: a content of the queue, or nothing is due, or an error.          *)
ClaimEnds(p) ==
  /\ Up
  /\ place[p] = "claiming"
  /\ \/ Step(p, "claimed")
     \/ Step(p, AfterBatch(p))

(* Renew, a statement of its own with a timeout of its own.                *)
RenewBegins(p) ==
  /\ Up
  /\ place[p] = "claimed"
  /\ IF Accepts THEN Step(p, "renewing") ELSE Step(p, AfterBatch(p))

RenewEnds(p) ==
  /\ Up
  /\ place[p] = "renewing"
  /\ Step(p, "renewed") \/ NextClaim(p)

(* beginClaimOperation refuses once the exporter is stopping.              *)
MayDeliver == syncStop = "none"

BeginOperation(p) ==
  /\ Up
  /\ place[p] = "renewed"
  /\ IF MayDeliver THEN Step(p, "delivering") ELSE Step(p, AfterBatch(p))

(* A delivery whose claim was lost has nothing to complete.                *)
DeliverEnds(p) ==
  /\ Up
  /\ place[p] = "delivering"
  /\ Step(p, "completing") \/ NextClaim(p)

(* Complete or Fail.                                                       *)
CompleteEnds(p) ==
  /\ Up
  /\ place[p] = "completing"
  /\ NextClaim(p)

-----------------------------------------------------------------------------
(* The worker.  Its steps are Execute's, while the process lives.          *)
Worker ==
  /\ Up
  /\ \/ /\ queued /\ managerStop = "none"
        /\ Begin
        /\ queued' = FALSE
     \/ (ExecStep \/ ContextEnds) /\ UNCHANGED queued
  /\ UNCHANGED <<mainVars, cancelled, place, ended>>

-----------------------------------------------------------------------------
(* Run's select: a signal, a failure of the server or of the watcher.      *)
WakeUp ==
  /\ main = "serving" /\ Disturbed
  /\ main' = "draining" /\ cancelled' = TRUE
  /\ UNCHANGED <<execVars, pool, place, ended, syncStop, managerStop, queued>>

(* httpServer.Shutdown: all connections are idle, or 30 seconds pass, and  *)
(* then Close cancels the contexts of the requests.                        *)
Drained ==
  /\ main = "draining" /\ Active = {}
  /\ main' = "stopping"
  /\ UNCHANGED <<execVars, pool, cancelled, place, ended, syncStop, managerStop, queued>>

BugAfterClose == ended
AfterClose == ended \cup Active

DrainTimesOut ==
  /\ main = "draining" /\ Active # {}
  /\ main' = "stopping"
  /\ ended' = AfterClose
  /\ UNCHANGED <<execVars, pool, cancelled, place, syncStop, managerStop, queued>>

(* Runtime.Stop: two goroutines, and 30 seconds for both.                  *)
StopSync ==
  /\ main = "stopping" /\ syncStop = "none"
  /\ syncStop' = "begun"
  /\ UNCHANGED <<execVars, main, pool, managerStop, cancelled, place, ended, queued>>

(* The exporter's operations and the loop have ended, or the time is up.   *)
SyncStops ==
  /\ main = "stopping" /\ syncStop = "begun"
  /\ \/ /\ place[Loop] = "exited"
        /\ \A p \in Processes : place[p] \notin {"delivering", "completing"}
        /\ syncStop' = "ok"
     \/ syncStop' = "failed"
  /\ UNCHANGED <<execVars, main, pool, managerStop, cancelled, place, ended, queued>>

StopManager ==
  /\ main = "stopping" /\ managerStop = "none"
  /\ managerStop' = "begun"
  /\ queued' = FALSE
  /\ UNCHANGED <<execVars, main, pool, syncStop, cancelled, place, ended>>

ManagerStops ==
  /\ main = "stopping" /\ managerStop = "begun" /\ ~Executing
  /\ managerStop' = "ok"
  /\ UNCHANGED <<execVars, main, pool, syncStop, cancelled, place, ended, queued>>

(* The time is up: the running task's context is cancelled, and Stop       *)
(* reports the deadline whether or not the worker ends in five seconds.    *)
ManagerForces ==
  /\ main = "stopping" /\ managerStop = "begun" /\ Executing
  /\ managerStop' = "forced"
  /\ ctx' = IF ctx # "live" THEN ctx ELSE IF stage = "committing" THEN "late" ELSE "done"
  /\ UNCHANGED <<job, stage, at, out, contents, outcome, stored>>
  /\ UNCHANGED <<main, pool, syncStop, cancelled, place, ended, queued>>

ManagerGivesUp ==
  /\ main = "stopping" /\ managerStop = "forced"
  /\ managerStop' = "failed"
  /\ UNCHANGED <<execVars, main, pool, syncStop, cancelled, place, ended, queued>>

BugMayClose == TRUE
MayClose == syncStop = "ok" /\ managerStop = "ok"

Stopped ==
  /\ main = "stopping"
  /\ {syncStop, managerStop} \subseteq {"ok", "failed"}
  /\ main' = IF MayClose THEN "closing" ELSE "returned"
  /\ UNCHANGED <<execVars, pool, cancelled, place, ended, syncStop, managerStop, queued>>

(* The pool's Close waits for the statements under way, without a timeout. *)
CloseStore ==
  /\ main = "closing"
  /\ ~\E p \in Processes : Holding(p)
  /\ main' = "returned" /\ pool' = "closed"
  /\ UNCHANGED <<execVars, cancelled, place, ended, syncStop, managerStop, queued>>

Shutdown ==
  \/ Drained \/ DrainTimesOut
  \/ StopSync \/ SyncStops \/ StopManager \/ ManagerStops \/ ManagerForces \/ ManagerGivesUp
  \/ Stopped \/ CloseStore

-----------------------------------------------------------------------------
Handler(r) ==
  \/ TriggerScraper(r) \/ TriggerUpload(r) \/ HealthCheck(r) \/ MCPQuery(r)
  \/ Pinged(r) \/ CountExports(r) \/ Answer(r) \/ RequestEnds(r)

Batch(p) ==
  \/ ClaimEnds(p) \/ RenewBegins(p) \/ RenewEnds(p)
  \/ BeginOperation(p) \/ DeliverEnds(p) \/ CompleteEnds(p)

Next ==
  \/ Boot \/ Signal \/ WakeUp \/ Shutdown
  \/ \E r \in Requests : Handler(r)
  \/ \E p \in Processes : Batch(p)
  \/ LoopStarts \/ LoopRuns \/ LoopExits
  \/ Worker

Spec == Init /\ [][Next]_vars

(* Run goes on, but for a registration, which nothing ends.  A statement   *)
(* ends once its context is done, and what has a timeout of its own ends.  *)
(* Nothing is assumed of the tasks, of the deliveries, or of statements    *)
(* whose context lives.                                                    *)
FairSpec ==
  /\ Spec
  /\ WF_vars((cancelled /\ ((main # "registering" /\ Boot) \/ WakeUp)) \/ Shutdown)
  /\ \A r \in Requests : WF_vars(~Alive(r) /\ Answer(r))
  /\ \A p \in Processes :
       WF_vars(~Alive(p) /\ ClaimEnds(p)) /\ WF_vars(RenewEnds(p)) /\ WF_vars(CompleteEnds(p))

-----------------------------------------------------------------------------
(* The store is closed under nobody's feet, although a handler may survive *)
(* the server's Shutdown and a worker the manager's Stop.  From the        *)
(* beginning of its Close no task is executing, the loop has ended, and    *)
(* no content is being delivered or its delivery recorded; at its end no   *)
(* statement is under way.  A surviving handler may have claimed a content *)
(* and find the store closed before it renews its claim or begins its      *)
(* delivery: then it delivers nothing and leaves the claim to its lease.   *)
StoreOutlivesItsUsers ==
  /\ main = "closing" \/ pool = "closed" =>
       /\ ~Executing
       /\ place[Loop] \in {"none", "exited"}
       /\ \A p \in Processes : place[p] \notin {"delivering", "completing"}
  /\ pool = "closed" => \A p \in Processes : ~Holding(p)

(* A service that is told to stop ends, whatever hangs: a task, a          *)
(* delivery, or a statement of a client that waits for its answer.  The    *)
(* exception is the registration of the export targets at start: it runs   *)
(* on a context that no signal ends and has no timeout, and while another  *)
(* transaction keeps the target's row the process cannot be stopped.       *)
ShutdownEnds == cancelled ~> (~Up \/ [](main = "registering"))
=============================================================================
