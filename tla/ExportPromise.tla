---------------------------- MODULE ExportPromise ----------------------------
(***************************************************************************)
(* What the export queue promises, without leases, heartbeats, instances   *)
(* or statements: an export is open until its content is delivered or its  *)
(* attempts are used up, and stays as it is from then on.  The outcome of  *)
(* a delivery is reported at most once, and counts only if the claim it    *)
(* was made under is still the current one.  A delivered content is        *)
(* synced by such a report alone, and an attempt is charged for a failed   *)
(* delivery alone.                                                         *)
(***************************************************************************)
EXTENDS Naturals

CONSTANTS Contents, Tokens, Nobody, MaxAttempts

VARIABLES
  exports,  \* the state, attempts and current claim of each content's export
  reports,  \* outcomes of deliveries that are on their way
  delivered \* contents some delivery of which succeeded

vars == <<exports, reports, delivered>>

Init ==
  /\ exports = [c \in Contents |-> [state |-> "none", attempts |-> 0, holder |-> Nobody]]
  /\ reports = {}
  /\ delivered = {}

Store(c) ==
  /\ exports[c].state = "none"
  /\ exports' = [exports EXCEPT ![c].state = "open"]
  /\ UNCHANGED <<reports, delivered>>

(* A claim under a new token, which takes over from one before.            *)
Take(c, token) ==
  /\ exports[c].state = "open"
  /\ exports' = [exports EXCEPT ![c].holder = token]
  /\ \A d \in Contents : exports[d].holder # token
  /\ \A r \in reports : r.token # token
  /\ UNCHANGED <<reports, delivered>>

(* A delivery ends.  Its outcome is not reported if its claim is known to  *)
(* be lost.                                                                *)
Deliver(c, ok) ==
  /\ exports[c].state # "none"
  /\ delivered' = IF ok THEN delivered \cup {c} ELSE delivered
  /\ UNCHANGED exports
  /\ \/ UNCHANGED reports
     \/ \E token \in Tokens :
          /\ reports' = reports \cup {[content |-> c, token |-> token, ok |-> ok]}
          /\ \A r \in reports : r.token # token

(* A report arrives.                                                       *)
Outcome(e, ok) ==
  [state |-> IF ok THEN "synced" ELSE IF e.attempts + 1 < MaxAttempts THEN "open" ELSE "failed",
   attempts |-> IF ok THEN e.attempts ELSE e.attempts + 1,
   holder |-> Nobody]

Settle(r) ==
  /\ exports[r.content].state = "open" /\ exports[r.content].holder = r.token
  /\ exports' = [exports EXCEPT ![r.content] = Outcome(@, r.ok)]
  /\ reports' = reports \ {r}
  /\ UNCHANGED delivered

(* It is lost, or its claim is no longer the current one.                  *)
Drop(r) == reports' = reports \ {r} /\ UNCHANGED <<exports, delivered>>

Next ==
  \/ \E c \in Contents :
       \/ \E ok \in BOOLEAN : Deliver(c, ok)
       \/ \E token \in Tokens : Take(c, token)
       \/ Store(c)
  \/ \E r \in reports : Settle(r) \/ Drop(r)

Spec == Init /\ [][Next]_vars
=============================================================================
