---------------------------- MODULE ExportQueue ----------------------------
(***************************************************************************)
(* Synchronization of stored contents with one export target: the          *)
(* content_exports rows in PostgreSQL, claimed under leases by service     *)
(* instances that deliver them one at a time while a heartbeat renews the  *)
(* lease (src/internal/storage/postgres_store.go,                          *)
(* src/internal/exporter/manager.go).                                      *)
(*                                                                         *)
(* A statement is atomic, as it is in PostgreSQL.  Its reply may be lost,  *)
(* with the statement executed, not executed, or executed later.  Time is  *)
(* counted in units of which a lease has Lease.                            *)
(*                                                                         *)
(* An operator whose name starts with Bug is a plausible mistake in the    *)
(* definition that follows it; no specification uses it.                   *)
(***************************************************************************)
EXTENDS Integers, FiniteSets

CONSTANTS
  Contents,     \* content IDs
  Instances,    \* service instances; each runs one batch at a time
  Prompt,       \* instances that never stall for as long as a heartbeat
  Tokens,       \* claim tokens (a bound: a claim needs an unused one)
  Nobody,       \* owner of an unclaimed row, claim of an idle instance
  Lease,        \* lease duration
  MaxAttempts,  \* NOTION_SYNC_MAX_ATTEMPTS
  MaxFaults,    \* bound: lost replies and process ends
  MaxStopping   \* bound: instances that are being stopped at a time

ASSUME ExportQueueAssumption ==
  /\ Prompt \subseteq Instances
  /\ Nobody \notin Tokens \cup Contents \cup Instances
  /\ Lease \in Nat \ {0}
  /\ MaxAttempts \in Nat \ {0}
  /\ MaxFaults \in Nat
  /\ MaxStopping \in Nat

VARIABLES
  rows,      \* content_exports, per content
  pc,        \* where each instance is in runBatch
  claim,     \* the content and token of its current claim
  seen,      \* the attempts that Fail has read
  beat,      \* time to its next heartbeat
  stopping,  \* targetWorker.stopping
  stopped,   \* whether its stop has returned, "done", or "late" at its deadline
  limbo,     \* statements sent by an instance that gave up waiting
  delivered, \* contents some delivery of which succeeded (history variable)
  faults     \* faults so far

vars == <<rows, pc, claim, seen, beat, stopping, stopped, limbo, delivered, faults>>
instanceVars == <<pc, claim, seen, beat, stopping, stopped>>

-----------------------------------------------------------------------------
(* The statements, as functions of one row.                                *)
Absent == [status |-> "none", attempts |-> 0, owner |-> Nobody, ttl |-> 0, due |-> FALSE]
Stored == [Absent EXCEPT !.status = "pending", !.due = TRUE]

BugClaimableForgotten(r) ==
  r.status \in {"pending", "retry"} /\ r.attempts < MaxAttempts /\ r.due
Claimable(r) ==
  \/ r.status \in {"pending", "retry"} /\ r.attempts < MaxAttempts /\ r.due
  \/ r.status = "processing" /\ r.ttl = 0
ClaimBy(r, token) == [r EXCEPT !.status = "processing", !.owner = token, !.ttl = Lease]

BugOwnedIfClaimed(r, token) == r.owner = token \/ r.status = "synced"
Owned(r, token) == r.owner = token /\ r.status = "processing"

RenewBy(r, token) == IF Owned(r, token) THEN [r EXCEPT !.ttl = Lease] ELSE r
CompleteBy(r, token) ==
  IF Owned(r, token)
  THEN [r EXCEPT !.status = "synced", !.owner = Nobody, !.ttl = 0] ELSE r

BugExhaustedLate(attempts) == attempts > MaxAttempts
Exhausted(attempts) == attempts >= MaxAttempts

(* The UPDATE of Fail, after its SELECT has read the attempts.             *)
FailBy(r, token, attempts) ==
  IF Owned(r, token) /\ r.attempts = attempts
  THEN [r EXCEPT !.attempts = attempts + 1,
                 !.status = IF Exhausted(attempts + 1) THEN "failed" ELSE "retry",
                 !.due = FALSE, !.owner = Nobody, !.ttl = 0]
  ELSE r

(* A statement an instance may have sent for a claim.                      *)
Statement == [kind : {"renew", "complete", "fail"}, content : Contents,
              token : Tokens, attempts : 0 .. MaxAttempts]
Effect(s, r) ==
  CASE s.kind = "renew" -> RenewBy(r, s.token)
    [] s.kind = "complete" -> CompleteBy(r, s.token)
    [] s.kind = "fail" -> FailBy(r, s.token, s.attempts)
Execute(s) == rows' = [rows EXCEPT ![s.content] = Effect(s, @)]

-----------------------------------------------------------------------------
NoClaim == [content |-> Nobody, token |-> Nobody]

Init ==
  /\ rows = [c \in Contents |-> Absent]
  /\ pc = [i \in Instances |-> "idle"]
  /\ claim = [i \in Instances |-> NoClaim]
  /\ seen = [i \in Instances |-> 0]
  /\ beat = [i \in Instances |-> 0]
  /\ stopping = [i \in Instances |-> FALSE]
  /\ stopped = [i \in Instances |-> "no"]
  /\ limbo = {}
  /\ delivered = {}
  /\ faults = 0

Row(i) == rows[claim[i].content]
UsedTokens ==
  {rows[c].owner : c \in Contents} \cup {claim[i].token : i \in Instances}
    \cup {s.token : s \in limbo}

(* newToken("claim"): random, so different from every token still around.  *)
FreshTokens(i) == Tokens \ UsedTokens

Fault == faults < MaxFaults /\ faults' = faults + 1

Goto(i, where) == pc' = [pc EXCEPT ![i] = where]
Leave(i, where) ==
  /\ Goto(i, where)
  /\ claim' = [claim EXCEPT ![i] = NoClaim]
  /\ seen' = [seen EXCEPT ![i] = 0]
  /\ beat' = [beat EXCEPT ![i] = 0]
(* The batch of i goes on without its claim.                               *)
Idle(i) == Leave(i, "idle")

-----------------------------------------------------------------------------
(* StoreContents gives a new content its row in the transaction that       *)
(* stores it.                                                              *)
StoreContents(c) ==
  /\ rows[c] = Absent
  /\ rows' = [rows EXCEPT ![c] = Stored]
  /\ UNCHANGED <<instanceVars, limbo, delivered, faults>>

(* Claim of one row that is due (the order among due rows is left open).   *)
(* With its reply lost the batch ends and the claim is orphaned.  A batch  *)
(* that runs when its instance is stopped may claim until it is halted.    *)
Claim(i) ==
  /\ pc[i] = "idle"
  /\ FreshTokens(i) # {}
  /\ \E c \in Contents :
       /\ Claimable(rows[c])
       /\ LET token == CHOOSE t \in FreshTokens(i) : TRUE IN
          /\ rows' = [rows EXCEPT ![c] = ClaimBy(@, token)]
          /\ \/ /\ claim' = [claim EXCEPT ![i] = [content |-> c, token |-> token]]
                /\ Goto(i, "claimed")
                /\ UNCHANGED faults
             \/ Fault /\ UNCHANGED <<claim, pc>>
  /\ UNCHANGED <<seen, beat, stopping, stopped, limbo, delivered>>

(* The statement i sends for its claim.                                    *)
Sent(i, kind) ==
  [kind |-> kind, content |-> claim[i].content, token |-> claim[i].token,
   attempts |-> seen[i]]
(* Its reply does not arrive: it was executed, is still to be, or is lost. *)
Unanswered(s) == Fault /\ limbo' = limbo \cup {s} /\ UNCHANGED rows

(* The Renew that precedes the delivery.                                   *)
RenewClaim(i) ==
  /\ pc[i] = "claimed"
  /\ \/ /\ Owned(Row(i), claim[i].token)
        /\ Execute(Sent(i, "renew"))
        /\ Goto(i, "renewed")
        /\ UNCHANGED <<claim, seen, beat, limbo, faults>>
     \/ /\ ~Owned(Row(i), claim[i].token)
        /\ Idle(i)
        /\ UNCHANGED <<rows, limbo, faults>>
     \/ Unanswered(Sent(i, "renew")) /\ Idle(i)
  /\ UNCHANGED <<stopping, stopped, delivered>>

BugAdmitsAlways(i) == TRUE
MayBegin(i) == ~stopping[i]

BugWholeLease == Lease
HeartbeatInterval == Lease \div 3

(* beginClaimOperation: the delivery and its heartbeat start, unless the   *)
(* worker stops; then the claim is left to its lease and the batch, the    *)
(* last one of this process, is halted.                                    *)
BeginOperation(i) ==
  /\ pc[i] = "renewed"
  /\ \/ /\ MayBegin(i)
        /\ Goto(i, "delivering")
        /\ beat' = [beat EXCEPT ![i] = HeartbeatInterval]
        /\ UNCHANGED <<claim, seen>>
     \/ ~MayBegin(i) /\ Leave(i, "halted")
  /\ UNCHANGED <<rows, stopping, stopped, limbo, delivered, faults>>

(* heartbeatClaim: a lost claim or a failed Renew cancels the delivery.    *)
Heartbeat(i) ==
  /\ pc[i] = "delivering"
  /\ beat[i] = 0
  /\ \/ /\ Owned(Row(i), claim[i].token)
        /\ Execute(Sent(i, "renew"))
        /\ beat' = [beat EXCEPT ![i] = HeartbeatInterval]
        /\ UNCHANGED <<pc, limbo, faults>>
     \/ /\ ~Owned(Row(i), claim[i].token)
        /\ Goto(i, "lost")
        /\ UNCHANGED <<rows, beat, limbo, faults>>
     \/ Unanswered(Sent(i, "renew")) /\ Goto(i, "lost") /\ UNCHANGED beat
  /\ UNCHANGED <<claim, seen, stopping, stopped, delivered>>

(* A renewal that is due when its delivery ends or is cancelled may have   *)
(* been sent: it is cancelled too, and its reply no longer waited for.     *)
MayCutRenewal(i) ==
  \/ UNCHANGED <<rows, limbo, faults>>
  \/ pc[i] = "delivering" /\ beat[i] = 0 /\ Unanswered(Sent(i, "renew"))

(* Deliver returns.  A lost claim is dropped whatever it returned.         *)
BugIgnoresCancel(ok, where) ==
  IF ok \/ where = "cancelled" THEN "delivered" ELSE "undelivered"
Verdict(ok, where) == IF ok THEN "delivered" ELSE "undelivered"
DeliverReturns(i, ok) ==
  /\ pc[i] \in {"delivering", "cancelled", "lost"}
  /\ delivered' = IF ok THEN delivered \cup {claim[i].content} ELSE delivered
  /\ IF pc[i] = "lost"
     THEN Idle(i)
     ELSE /\ Goto(i, Verdict(ok, pc[i]))
          /\ beat' = [beat EXCEPT ![i] = 0]
          /\ UNCHANGED <<claim, seen>>
  /\ MayCutRenewal(i)
  /\ UNCHANGED <<stopping, stopped>>

(* Fail reads the attempts of a claim it still owns.                       *)
FailReads(i) ==
  /\ pc[i] = "undelivered"
  /\ \/ /\ Owned(Row(i), claim[i].token)
        /\ seen' = [seen EXCEPT ![i] = Row(i).attempts]
        /\ Goto(i, "failing")
        /\ UNCHANGED <<claim, beat, faults>>
     \/ ~Owned(Row(i), claim[i].token) /\ Idle(i) /\ UNCHANGED faults
     \/ Fault /\ Idle(i)
  /\ UNCHANGED <<rows, stopping, stopped, limbo, delivered>>

(* Complete, or the UPDATE of Fail, under claimUpdateTimeout.              *)
Settle(i) ==
  LET s == Sent(i, IF pc[i] = "delivered" THEN "complete" ELSE "fail") IN
  /\ pc[i] \in {"delivered", "failing"}
  /\ Idle(i)
  /\ \/ Execute(s) /\ UNCHANGED <<limbo, faults>>
     \/ Unanswered(s)
  /\ UNCHANGED <<stopping, stopped, delivered>>

LateStatement(s) ==
  /\ s \in limbo
  /\ limbo' = limbo \ {s}
  /\ Execute(s)
  /\ UNCHANGED <<instanceVars, delivered, faults>>

-----------------------------------------------------------------------------
Operating(i) ==
  pc[i] \in {"delivering", "cancelled", "lost", "delivered", "undelivered", "failing"}

(* stop: no operation may begin any more and the current one is cancelled. *)
Stop(i) ==
  /\ pc[i] # "down"
  /\ Cardinality({j \in Instances : stopping[j]}) < MaxStopping
  /\ ~stopping[i]
  /\ stopping' = [stopping EXCEPT ![i] = TRUE]
  /\ Goto(i, IF pc[i] = "delivering" THEN "cancelled" ELSE pc[i])
  /\ beat' = [beat EXCEPT ![i] = 0]
  /\ MayCutRenewal(i)
  /\ UNCHANGED <<claim, seen, stopped, delivered>>

(* stop returns when operationWG is at zero, or with its deadline, which   *)
(* may pass while the operation still runs.                                *)
StopReturns(i) ==
  /\ pc[i] # "down"
  /\ stopping[i] /\ stopped[i] = "no"
  /\ \/ ~Operating(i) /\ stopped' = [stopped EXCEPT ![i] = "done"]
     \/ stopped' = [stopped EXCEPT ![i] = "late"]
  /\ UNCHANGED <<rows, pc, claim, seen, beat, stopping, limbo, delivered, faults>>

(* The process ends: a crash, or the end of a shutdown.                    *)
End(i) ==
  /\ pc[i] # "down"
  /\ Fault
  /\ Leave(i, "down")
  /\ stopping' = [stopping EXCEPT ![i] = FALSE]
  /\ stopped' = [stopped EXCEPT ![i] = "no"]
  /\ UNCHANGED <<rows, limbo, delivered>>

Restart(i) ==
  /\ pc[i] = "down"
  /\ Goto(i, "idle")
  /\ UNCHANGED <<rows, claim, seen, beat, stopping, stopped, limbo, delivered, faults>>

(* next_attempt_at passes.                                                 *)
RetryFallsDue(c) ==
  /\ rows[c].status = "retry" /\ ~rows[c].due
  /\ rows' = [rows EXCEPT ![c].due = TRUE]
  /\ UNCHANGED <<instanceVars, limbo, delivered, faults>>

(* Time passes, but not past an instance that does not stall: its          *)
(* heartbeats are on time, and it pauses neither between claim and         *)
(* delivery nor between delivery and settlement.                           *)
OnTime(i) ==
  /\ pc[i] \notin {"claimed", "renewed", "delivered", "undelivered", "failing"}
  /\ pc[i] = "delivering" => beat[i] > 0
Earlier(n) == IF n > 0 THEN n - 1 ELSE 0
Tick ==
  /\ \A i \in Prompt : OnTime(i)
  /\ rows' = [c \in Contents |-> [rows[c] EXCEPT !.ttl = Earlier(@)]]
  /\ beat' = [i \in Instances |-> Earlier(beat[i])]
  /\ UNCHANGED <<pc, claim, seen, stopping, stopped, limbo, delivered, faults>>

-----------------------------------------------------------------------------
Batch(i) == Claim(i) \/ RenewClaim(i) \/ BeginOperation(i) \/ FailReads(i) \/ Settle(i)
Delivery(i) == DeliverReturns(i, TRUE) \/ DeliverReturns(i, FALSE)

Next ==
  \/ \E c \in Contents : StoreContents(c) \/ RetryFallsDue(c)
  \/ \E i \in Instances :
       \/ Batch(i) \/ Heartbeat(i) \/ Delivery(i)
       \/ Stop(i) \/ StopReturns(i) \/ End(i) \/ Restart(i)
  \/ \E s \in limbo : LateStatement(s)
  \/ Tick

Spec == Init /\ [][Next]_vars

(* Goroutines run, deliveries return (the client's requests have           *)
(* timeouts), time passes, and an ended process is started again.          *)
Fairness ==
  /\ \A i \in Instances :
       WF_vars(Batch(i)) /\ WF_vars(Heartbeat(i)) /\ WF_vars(Delivery(i)) /\ WF_vars(Restart(i))
  /\ \A c \in Contents : WF_vars(RetryFallsDue(c))
  /\ WF_vars(Tick)

FairSpec == Spec /\ Fairness

-----------------------------------------------------------------------------
Row0 == [status : {"none", "pending", "processing", "retry", "synced", "failed"},
         attempts : 0 .. MaxAttempts, owner : Tokens \cup {Nobody},
         ttl : 0 .. Lease, due : BOOLEAN]
Where == {"idle", "claimed", "renewed", "delivering", "cancelled", "lost",
          "delivered", "undelivered", "failing", "halted", "down"}

(* The shape of the state.                                                 *)
TypeOK ==
  /\ rows \in [Contents -> Row0]
  /\ pc \in [Instances -> Where]
  /\ claim \in [Instances -> {NoClaim} \cup [content : Contents, token : Tokens]]
  /\ seen \in [Instances -> 0 .. MaxAttempts]
  /\ beat \in [Instances -> 0 .. Lease]
  /\ stopping \in [Instances -> BOOLEAN]
  /\ stopped \in [Instances -> {"no", "done", "late"}]
  /\ limbo \subseteq Statement
  /\ delivered \subseteq Contents
  /\ faults \in 0 .. MaxFaults

(* A heartbeat that is on time keeps the claim: an instance that delivers  *)
(* and does not stall still owns its row, whatever the others do, however  *)
(* long the delivery takes, and whatever statements arrive late.           *)
PromptKeepsClaim ==
  \A i \in Prompt : pc[i] = "delivering" => Owned(Row(i), claim[i].token)

(* "Concurrent service instances do not process the same export at the     *)
(* same time", as documented.                                              *)
NeverTwice ==
  \A i, j \in Instances :
    pc[i] = "delivering" /\ pc[j] = "delivering"
      /\ claim[i].content = claim[j].content => i = j

(* A row gives up exactly when its attempts are used up, and is never      *)
(* claimed after that.                                                     *)
FailedIffExhausted ==
  \A c \in Contents : rows[c].status = "failed" <=> rows[c].attempts = MaxAttempts

(* Only what the target has accepted is reported as synced.                *)
SyncedWasDelivered ==
  \A c \in Contents : rows[c].status = "synced" => c \in delivered

(* From stop on, the only operation is the one that it has cancelled, and  *)
(* after a stop that returned without an error there is none, until the    *)
(* process is started again.  After one that returned at its deadline the  *)
(* cancelled operation may go on, but no other begins, although the batch  *)
(* goes on to its next claims.                                             *)
StoppedIsQuiet ==
  \A i \in Instances :
    /\ stopping[i] => pc[i] # "delivering"
    /\ stopped[i] = "done" => ~Operating(i)

(* Every stored content is settled in the end, through lost replies,       *)
(* orphaned claims, failed deliveries and process ends, unless every       *)
(* instance has been told to stop.                                         *)
EveryExportSettles ==
  \A c \in Contents :
    rows[c].status = "pending" ~>
      \/ rows[c].status \in {"synced", "failed"}
      \/ \A i \in Instances : stopping[i]

-----------------------------------------------------------------------------
(* The outcomes that are on their way: of deliveries that an instance has  *)
(* yet to settle, and of statements that were not answered.                *)
Reporting(i) == pc[i] \in {"delivered", "undelivered", "failing"}
ReportOf(i) ==
  [content |-> claim[i].content, token |-> claim[i].token, ok |-> pc[i] = "delivered"]
LateReport(s) == [content |-> s.content, token |-> s.token, ok |-> s.kind = "complete"]
Reports ==
  {ReportOf(i) : i \in {j \in Instances : Reporting(j)}}
    \cup {LateReport(s) : s \in {l \in limbo : l.kind # "renew"}}

ExportOf(r) ==
  [state |-> IF r.status \in {"pending", "processing", "retry"} THEN "open" ELSE r.status,
   attempts |-> r.attempts,
   holder |-> r.owner]

(* The queue keeps its promise: an outcome is recorded once, by the claim  *)
(* that is current, is true and final, and every failed delivery costs at  *)
(* most one attempt, though statements arrive late, leases expire in the   *)
(* middle of a delivery and processes end.                                 *)
Promise == INSTANCE ExportPromise WITH
  exports <- [c \in Contents |-> ExportOf(rows[c])], reports <- Reports
ExportsAsPromised == Promise!Spec
=============================================================================
