--------------------------- MODULE TaskLifecycle ---------------------------
(***************************************************************************)
(* What the task manager promises its clients, without heap, workers,      *)
(* timers or condition variable: an accepted attempt moves from pending    *)
(* through running to exactly one outcome, a failed attempt owes its task  *)
(* the next one until the service closes, an accepted cancellation is      *)
(* kept, and capacity is never exceeded.                                   *)
(***************************************************************************)
EXTENDS Integers, FiniteSets

CONSTANTS Tasks, Parallel, MaxQueue, MaxRetries

Ids == Tasks \X (0 .. MaxRetries)
Outcomes == {"completed", "failed", "cancelled"}

VARIABLES
  unused,  \* tasks nobody has submitted
  status,  \* of every attempt the service remembers
  owed,    \* retries that are promised and not yet admitted
  doomed,  \* running attempts whose cancellation was accepted
  open     \* whether the service admits and starts work

vars == <<unused, status, owed, doomed, open>>

Having(s) == {id \in Ids : status[id] = s}
Becomes(S, s) == status' = [id \in Ids |-> IF id \in S THEN s ELSE status[id]]

Init ==
  /\ unused = Tasks
  /\ status = [id \in Ids |-> "none"]
  /\ owed = {}
  /\ doomed = {}
  /\ open = TRUE

(* A batch is admitted as a whole or not at all.                           *)
Accept(S) ==
  /\ open
  /\ S # {}
  /\ S \subseteq unused
  /\ Cardinality(Having("pending")) + Cardinality(S) <= MaxQueue
  /\ unused' = unused \ S
  /\ Becomes({<<t, 0>> : t \in S}, "pending")
  /\ UNCHANGED <<owed, doomed, open>>

Admit(id) ==
  /\ open
  /\ id \in owed
  /\ Cardinality(Having("pending")) < MaxQueue
  /\ owed' = owed \ {id}
  /\ Becomes({id}, "pending")
  /\ UNCHANGED <<unused, doomed, open>>

Start(id) ==
  /\ open
  /\ status[id] = "pending"
  /\ Cardinality(Having("running")) < Parallel
  /\ Becomes({id}, "running")
  /\ UNCHANGED <<unused, owed, doomed, open>>

Doom(S) ==
  /\ S # {}
  /\ S \subseteq Having("running")
  /\ doomed' = doomed \cup S
  /\ UNCHANGED <<unused, status, owed, open>>

Settle(id, outcome) ==
  /\ status[id] = "running"
  /\ outcome = "cancelled" <=> id \in doomed
  /\ Becomes({id}, outcome)
  /\ doomed' = doomed \ {id}
  /\ owed' = IF outcome = "failed" /\ id[2] < MaxRetries /\ open
             THEN owed \cup {<<id[1], id[2] + 1>>} ELSE owed
  /\ UNCHANGED <<unused, open>>

Withdraw(id) ==
  /\ status[id] = "pending"
  /\ Becomes({id}, "cancelled")
  /\ UNCHANGED <<unused, owed, doomed, open>>

(* Closing withdraws what has not started and cancels the promises.        *)
Close ==
  /\ open
  /\ open' = FALSE
  /\ Becomes(Having("pending"), "cancelled")
  /\ owed' = {}
  /\ UNCHANGED <<unused, doomed>>

(* Old outcomes may be forgotten, never changed.                           *)
Forget(S) ==
  /\ S # {}
  /\ \A id \in S : status[id] \in Outcomes
  /\ Becomes(S, "none")
  /\ UNCHANGED <<unused, owed, doomed, open>>

Next ==
  \/ \E S \in SUBSET Tasks : Accept(S)
  \/ \E id \in Ids :
       \/ Admit(id) \/ Start(id) \/ Withdraw(id)
       \/ \E outcome \in Outcomes : Settle(id, outcome)
  \/ \E S \in SUBSET Ids : Doom(S) \/ Forget(S)
  \/ Close

Spec == Init /\ [][Next]_vars
=============================================================================
