------------------------ MODULE ServiceRuntimeProofs -------------------------
(***************************************************************************)
(* Proofs about the process and the task it executes, for every number of  *)
(* requests and queries and every set of jobs, whatever their definitions, *)
(* feeds and replies are: that the store outlives its users, and that the  *)
(* task does what ScrapeExecution promises, in whatever way it is stopped. *)
(***************************************************************************)
EXTENDS ServiceRuntime, ScrapeExecutionProofs, TLAPS

-----------------------------------------------------------------------------
Places == {"none", "answered", "pinging", "pinged", "counting", "querying", "claiming", "claimed",
           "renewing", "renewed", "delivering", "completing", "starting", "idle", "exited"}
Mains == Booting \cup {"serving", "draining", "stopping", "closing", "returned", "crashed"}

Shape ==
  /\ main \in Mains
  /\ place \in [Processes -> Places]
  /\ Loop \notin Requests

(* Nothing runs before Run has reached its select.                         *)
NothingYet == ~Executing /\ ~queued /\ \A p \in Processes : place[p] = "none"
BootIsQuiet == main \in Booting => NothingYet

(* What Runtime.Stop has been told stays true: with the sync service       *)
(* stopped the loop is over and nothing is delivered any more, and with    *)
(* the manager stopped no task runs.                                       *)
StopsComeLast ==
  main \in Booting \cup {"serving", "draining"} => syncStop = "none" /\ managerStop = "none"
SyncIsOver ==
  syncStop = "ok" =>
    place[Loop] = "exited" /\ \A p \in Processes : place[p] \notin {"delivering", "completing"}
TasksAreOver == managerStop = "ok" => ~Executing

ClosingIsLast == main = "closing" => syncStop = "ok" /\ managerStop = "ok"
ClosedIsLast == pool = "closed" => main = "returned" /\ StoreOutlivesItsUsers

Orderly ==
  /\ Shape /\ BootIsQuiet
  /\ StopsComeLast /\ SyncIsOver /\ TasksAreOver
  /\ ClosingIsLast /\ ClosedIsLast

LEMMA InitOrderly == Init => Orderly
BY ServiceRuntimeAssumption
   DEF Init, ExecInit, Orderly, Shape, Places, Mains, Booting, BootIsQuiet, NothingYet, Executing,
       StopsComeLast, SyncIsOver, TasksAreOver, ClosingIsLast, ClosedIsLast

-----------------------------------------------------------------------------
(* Execute's steps are those of a task that is being executed.             *)
LEMMA StepsExecute == ExecStep \/ ContextEnds => Executing
BY DEF ExecStep, FetchIsRefused, FetchFails, Fetch, LookupFails, Lookup, CreatePipeline, ProcessItem, NextProcessor,
       Merge, BeginStore, StoreFails, Commit, ContextEnds, Executing

(* A step of one process on its way, after Run has reached its select.     *)
Moves(p, where) ==
  /\ place' = [place EXCEPT ![p] = where]
  /\ UNCHANGED <<mainVars, stage>>

LEMMA MovesOrderly ==
  ASSUME Orderly, NEW p \in Processes, NEW where \in Places, Moves(p, where),
         Up, place[p] # "none" \/ main = "serving", place[p] # "exited",
         where \in {"delivering", "completing"} => syncStop # "ok"
  PROVE  Orderly'
<1> USE DEF Moves, mainVars
<1>1. main \notin Booting /\ pool # "closed"
  BY DEF Orderly, BootIsQuiet, NothingYet, Booting, ClosedIsLast, Up
<1>2. Shape' /\ BootIsQuiet'
  BY <1>1 DEF Orderly, Shape, BootIsQuiet
<1>3. StopsComeLast' /\ TasksAreOver' /\ ClosingIsLast' /\ ClosedIsLast'
  BY <1>1 DEF Orderly, StopsComeLast, TasksAreOver, Executing, ClosingIsLast, ClosedIsLast
<1>4. SyncIsOver'
  BY DEF Orderly, Shape, SyncIsOver
<1> QED
  BY <1>2, <1>3, <1>4 DEF Orderly

(* A step of Run, or of Stop, which moves no process and begins no task.   *)
LEMMA MainOrderly ==
  ASSUME Orderly, UNCHANGED <<place, stage, pool>>, pool # "closed",
         main' \in Mains, main' \in Booting => queued' = queued /\ main \in Booting,
         StopsComeLast', ClosingIsLast', SyncIsOver', TasksAreOver'
  PROVE  Orderly'
BY DEF Orderly, Shape, BootIsQuiet, NothingYet, Executing, ClosedIsLast

LEMMA NextOrderly == Orderly /\ [Next]_vars => Orderly'
<1> SUFFICES ASSUME Orderly, [Next]_vars PROVE Orderly'
  OBVIOUS
<1>0. Shape /\ (Up => pool # "closed")
  BY DEF Orderly, ClosedIsLast, Up
<1>1. CASE UNCHANGED vars
  BY <1>1 DEF vars, execVars, serviceVars, mainVars, Orderly, Shape, BootIsQuiet, NothingYet,
     Executing, StopsComeLast, SyncIsOver, TasksAreOver, ClosingIsLast, ClosedIsLast,
     StoreOutlivesItsUsers, Holding
<1>2. CASE BootFails
  <2>1. NothingYet
    BY <1>2 DEF BootFails, Orderly, BootIsQuiet
  <2>2. NothingYet' /\ main' = "returned" /\ UNCHANGED <<syncStop, managerStop, place>>
    BY <1>2, <2>1 DEF BootFails, NothingYet, Executing, execVars
  <2>3. syncStop # "ok" /\ managerStop # "ok"
    BY <1>2 DEF BootFails, Orderly, StopsComeLast
  <2>4. ClosedIsLast'
    BY <2>2 DEF NothingYet, ClosedIsLast, StoreOutlivesItsUsers, Holding, Processes
  <2> QED
    BY <1>0, <2>2, <2>3, <2>4 DEF Orderly, Shape, Mains, Booting, BootIsQuiet, StopsComeLast,
       SyncIsOver, TasksAreOver, ClosingIsLast
<1>3. CASE LoadConfiguration \/ OpenStore \/ BuildSyncService
  <2>1. /\ NothingYet /\ main \in Booting /\ main' \in Booting
        /\ syncStop = "none" /\ managerStop = "none" /\ pool # "closed"
    BY <1>0, <1>3 DEF LoadConfiguration, OpenStore, BuildSyncService, Booting, Up, Orderly,
       BootIsQuiet, StopsComeLast
  <2>2. NothingYet' /\ UNCHANGED <<syncStop, managerStop, place>> /\ pool' # "closed"
    BY <1>3, <2>1 DEF LoadConfiguration, OpenStore, BuildSyncService, NothingYet, Executing, execVars
  <2> QED
    BY <1>0, <2>1, <2>2 DEF Orderly, Shape, Mains, Booting, BootIsQuiet, StopsComeLast,
       SyncIsOver, TasksAreOver, ClosingIsLast, ClosedIsLast
<1>4. CASE Serve
  <2>1. /\ main' = "serving" /\ syncStop = "none" /\ managerStop = "none" /\ pool # "closed"
        /\ UNCHANGED <<syncStop, managerStop, pool>>
    BY <1>0, <1>4 DEF Serve, Booting, Up, Orderly, StopsComeLast
  <2>2. Shape'
    BY <1>0, <1>4 DEF Serve, Shape, Mains, Places
  <2> QED
    BY <2>1, <2>2 DEF Orderly, Booting, BootIsQuiet, StopsComeLast, SyncIsOver, TasksAreOver,
       ClosingIsLast, ClosedIsLast
<1>5. CASE Signal
  BY <1>0, <1>5, MainOrderly DEF Signal, Up, mainVars, execVars, Orderly, Shape, Mains, StopsComeLast,
     ClosingIsLast, SyncIsOver, TasksAreOver, Executing
<1>6. CASE WakeUp
  BY <1>0, <1>6, MainOrderly DEF WakeUp, Up, execVars, Orderly, Mains, Booting, StopsComeLast,
     ClosingIsLast, SyncIsOver, TasksAreOver, Executing
<1>7. CASE Drained \/ DrainTimesOut
  BY <1>0, <1>7, MainOrderly DEF Drained, DrainTimesOut, Up, execVars, Orderly, Mains, Booting,
     StopsComeLast, ClosingIsLast, SyncIsOver, TasksAreOver, Executing
<1>8. CASE StopSync \/ SyncStops
  BY <1>0, <1>8, MainOrderly DEF StopSync, SyncStops, Up, execVars, Orderly, Mains, Booting,
     StopsComeLast, ClosingIsLast, SyncIsOver, TasksAreOver, Executing
<1>9. CASE StopManager \/ ManagerStops \/ ManagerForces \/ ManagerGivesUp
  BY <1>0, <1>9, MainOrderly DEF StopManager, ManagerStops, ManagerForces, ManagerGivesUp, Up, execVars,
     Orderly, Mains, Booting, StopsComeLast, ClosingIsLast, SyncIsOver, TasksAreOver, Executing
<1>10. CASE Stopped
  BY <1>0, <1>10, MainOrderly DEF Stopped, MayClose, Up, execVars, Orderly, Mains, Booting, StopsComeLast,
     ClosingIsLast, SyncIsOver, TasksAreOver, Executing
<1>11. CASE CloseStore
  <2>1. /\ main' = "returned" /\ UNCHANGED <<place, stage, syncStop, managerStop>>
        /\ \A p \in Processes : ~Holding(p)
    BY <1>11 DEF CloseStore, execVars
  <2>2. ~Executing /\ place[Loop] = "exited"
        /\ \A p \in Processes : place[p] \notin {"delivering", "completing"}
    BY <1>11 DEF CloseStore, Orderly, ClosingIsLast, SyncIsOver, TasksAreOver
  <2>3. StoreOutlivesItsUsers'
    BY <2>1, <2>2 DEF StoreOutlivesItsUsers, Holding, Executing, Processes
  <2> QED
    BY <1>0, <2>1, <2>2, <2>3 DEF Orderly, Shape, Mains, Booting, BootIsQuiet, StopsComeLast,
       SyncIsOver, TasksAreOver, Executing, ClosingIsLast, ClosedIsLast
<1>12. ASSUME NEW r \in Requests, TriggerScraper(r) PROVE Orderly'
  <2>1. r \in Processes /\ "answered" \in Places /\ Moves(r, "answered") /\ main = "serving" /\ place[r] = "none"
    BY <1>12 DEF TriggerScraper, Receives, Moves, mainVars, execVars, Processes, Places
  <2> QED
    BY <2>1, MovesOrderly DEF Up
<1>13. ASSUME NEW r \in Requests, TriggerUpload(r) \/ HealthCheck(r) \/ MCPQuery(r) \/ Pinged(r)
                            \/ CountExports(r) \/ Answer(r)
       PROVE  Orderly'
  <2>1. PICK where \in {"answered", "claiming", "pinging", "pinged", "counting", "querying"} :
          Step(r, where)
    BY <1>13 DEF TriggerUpload, HealthCheck, MCPQuery, Pinged, CountExports, Answer
  <2>2. r \in Processes /\ where \in Places /\ Moves(r, where)
    BY <2>1 DEF Step, Moves, mainVars, execVars, Processes, Places
  <2>3. Up /\ (place[r] # "none" \/ main = "serving") /\ place[r] # "exited"
    BY <1>13 DEF TriggerUpload, HealthCheck, MCPQuery, Pinged, CountExports, Answer, Receives, Up
  <2> QED
    BY <2>1, <2>2, <2>3, MovesOrderly
<1>14. ASSUME NEW r \in Requests, RequestEnds(r) PROVE Orderly'
  BY <1>0, <1>14, MainOrderly DEF RequestEnds, mainVars, execVars, Up, Orderly, Shape, StopsComeLast,
     ClosingIsLast, SyncIsOver, TasksAreOver, Executing
<1>15. ASSUME NEW p \in Processes, Batch(p) PROVE Orderly'
  <2>1. AfterBatch(p) \in {"answered", "idle", "exited"}
    BY DEF AfterBatch
  <2> DEFINE Leads == \E where \in Places :
                        /\ Step(p, where)
                        /\ where \in {"delivering", "completing"} =>
                             syncStop = "none" \/ place[p] = "delivering"
  <2>2. NextClaim(p) => Leads
    BY <2>1 DEF NextClaim, Places
  <2>3. ClaimEnds(p) \/ RenewBegins(p) \/ RenewEnds(p) \/ BeginOperation(p) \/ DeliverEnds(p)
          \/ CompleteEnds(p) => Leads
    BY <2>1, <2>2 DEF ClaimEnds, RenewBegins, RenewEnds, BeginOperation, MayDeliver, DeliverEnds,
       CompleteEnds, Places
  <2>4. PICK where \in Places :
          /\ Step(p, where)
          /\ where \in {"delivering", "completing"} => syncStop = "none" \/ place[p] = "delivering"
    BY <1>15, <2>3 DEF Batch
  <2>5. Moves(p, where)
    BY <2>4 DEF Step, Moves, mainVars, execVars
  <2>6. Up /\ place[p] \notin {"none", "exited"}
    BY <1>15 DEF Batch, ClaimEnds, RenewBegins, RenewEnds, BeginOperation, DeliverEnds, CompleteEnds
  <2>7. where \in {"delivering", "completing"} => syncStop # "ok"
    BY <2>4 DEF Orderly, SyncIsOver
  <2> QED
    BY <2>5, <2>6, <2>7, MovesOrderly
<1>16. CASE LoopStarts
  <2>1. place[Loop] = "starting" /\ Up /\ Loop \in Processes
    BY <1>16 DEF LoopStarts, Processes
  <2>2. CASE syncStop = "none"
    BY <1>16, <2>1, <2>2, MovesOrderly DEF LoopStarts, Moves, mainVars, execVars, Places
  <2>3. CASE syncStop # "none"
    <3>1. main' = "crashed" /\ place' = [place EXCEPT ![Loop] = "exited"]
          /\ UNCHANGED <<stage, pool, syncStop, managerStop>>
      BY <1>16, <2>3 DEF LoopStarts, execVars
    <3>2. Shape'
      BY <1>0, <3>1 DEF Shape, Mains, Places
    <3> QED
      BY <1>0, <2>1, <3>1, <3>2 DEF Orderly, Shape, Booting, BootIsQuiet, StopsComeLast, SyncIsOver,
         TasksAreOver, Executing, ClosingIsLast, ClosedIsLast
  <2> QED
    BY <2>2, <2>3
<1>17. CASE LoopRuns \/ LoopExits
  <2>1. PICK where \in {"claiming", "exited"} : Step(Loop, where)
    BY <1>17 DEF LoopRuns, LoopExits
  <2>2. Loop \in Processes /\ where \in Places /\ Moves(Loop, where)
    BY <2>1 DEF Step, Moves, mainVars, execVars, Processes, Places
  <2>3. Up /\ place[Loop] = "idle"
    BY <1>17 DEF LoopRuns, LoopExits
  <2> QED
    BY <2>1, <2>2, <2>3, MovesOrderly
<1>18. CASE Worker
  <2>1. Up /\ UNCHANGED <<mainVars, place>>
    BY <1>18 DEF Worker
  <2>2. Executing \/ (queued /\ managerStop = "none")
    BY <1>18, StepsExecute DEF Worker
  <2>3. main \notin Booting /\ managerStop # "ok" /\ pool # "closed"
    BY <1>0, <2>1, <2>2 DEF Orderly, BootIsQuiet, NothingYet, TasksAreOver
  <2> QED
    BY <2>1, <2>3 DEF mainVars, Orderly, Shape, BootIsQuiet, StopsComeLast, SyncIsOver, TasksAreOver,
       ClosingIsLast, ClosedIsLast
<1> QED
  BY <1>1, <1>2, <1>3, <1>4, <1>5, <1>6, <1>7, <1>8, <1>9, <1>10, <1>11, <1>12, <1>13, <1>14, <1>15,
     <1>16, <1>17, <1>18
     DEF Next, Boot, Shutdown, Handler

(* The store begins to close only when no task executes, the sync loop has *)
(* ended and nothing is being delivered or completed, and its closing ends *)
(* only when no statement is under way, in whatever order Runtime.Stop's   *)
(* two goroutines, the server's shutdown and their timeouts come.          *)
THEOREM StoreOutlivesItsUsersHolds == Spec => []StoreOutlivesItsUsers
<1>1. Orderly => StoreOutlivesItsUsers
  BY DEF Orderly, Shape, ClosingIsLast, SyncIsOver, TasksAreOver, ClosedIsLast, StoreOutlivesItsUsers
<1> QED
  BY InitOrderly, NextOrderly, <1>1, PTL DEF Spec

-----------------------------------------------------------------------------
(* Only the worker's steps, and the end of Stop, touch the task.           *)
LEMMA TouchesTheTask ==
  ASSUME [Next]_vars
  PROVE  ExecStep \/ ContextEnds \/ Begin \/ ManagerForces \/ UNCHANGED execVars
<1>1. CASE UNCHANGED vars
  BY <1>1 DEF vars
<1>2. CASE Boot \/ Signal \/ WakeUp
  BY <1>2 DEF Boot, BootFails, LoadConfiguration, OpenStore, BuildSyncService, Serve, Signal, WakeUp
<1>3. CASE Shutdown
  BY <1>3 DEF Shutdown, Drained, DrainTimesOut, StopSync, SyncStops, StopManager, ManagerStops,
     ManagerGivesUp, Stopped, CloseStore
<1>4. CASE \E r \in Requests : Handler(r)
  BY <1>4 DEF Handler, TriggerScraper, TriggerUpload, HealthCheck, MCPQuery, Pinged, CountExports,
     Answer, RequestEnds, Step
<1>5. CASE \E p \in Processes : Batch(p)
  BY <1>5 DEF Batch, ClaimEnds, RenewBegins, RenewEnds, BeginOperation, DeliverEnds, CompleteEnds,
     NextClaim, Step
<1>6. CASE LoopStarts \/ LoopRuns \/ LoopExits
  BY <1>6 DEF LoopStarts, LoopRuns, LoopExits, Step
<1>7. CASE Worker
  BY <1>7 DEF Worker
<1> QED
  BY <1>1, <1>2, <1>3, <1>4, <1>5, <1>6, <1>7 DEF Next

LEMMA NextExecInv == ExecInv /\ [Next]_vars => ExecInv'
<1> SUFFICES ASSUME ExecInv, [Next]_vars PROVE ExecInv'
  OBVIOUS
<1>1. CASE ContextEnds
  BY <1>1, ContextKeeps DEF ContextEnds
<1>2. CASE ManagerForces
  <2>1. Executing /\ UNCHANGED <<job, stage, at, out, contents, outcome, stored>>
    BY <1>2 DEF ManagerForces
  <2>2. CASE ctx = "live"
    <3>1. ctx' = IF stage = "committing" THEN "late" ELSE "done"
      BY <1>2, <2>2 DEF ManagerForces
    <3> QED
      BY <2>1, <3>1, ContextKeeps
  <2>3. CASE ctx # "live"
    <3>1. UNCHANGED execVars
      BY <1>2, <2>1, <2>3 DEF ManagerForces, execVars
    <3> QED
      BY <3>1, StutterKeeps
  <2> QED
    BY <2>2, <2>3
<1> QED
  BY <1>1, <1>2, TouchesTheTask, ExecStepKeeps, BeginKeeps, StutterKeeps

LEMMA ExecInvHolds == Spec => []ExecInv
<1>1. Init => ExecInv
  BY ExecInvInit DEF Init
<1> QED
  BY <1>1, NextExecInv, PTL DEF Spec

(* Execute's result is true of the database: a success has lost none of    *)
(* the feed's contents that pass the filters, whatever processors, servers *)
(* and models have answered, and a context that ended before the           *)
(* transaction began leaves nothing behind.                                *)
THEOREM ResultIsTrueHolds == Spec => []ResultIsTrue
BY ExecInvHolds, ResultFollows, PTL

(* Whatever a model replies, and whichever fallback is taken, a content is *)
(* stored with tags and keywords within the scraper's options, and with a  *)
(* summary within max_summary_length if it is a model's, within the bounds *)
(* of the fallback if it is one, which three bullets may exceed, and       *)
(* within the fetcher's if it is the feed's, in every order of processors. *)
THEOREM StoredIsNormalizedHolds == Spec => []StoredIsNormalized
BY ExecInvHolds, NormalizedFollows, PTL

(* A task of a definition that has been accepted fails for its             *)
(* configuration only where nobody validates it, the route and             *)
(* filter_time; and each of its processors has a time that is positive,    *)
(* for any width of a duration, at least one attempt and limits above zero.*)
THEOREM AcceptedRunsHolds == Spec => []AcceptedRuns
BY ExecInvHolds, AcceptedFollows, PTL
=============================================================================
