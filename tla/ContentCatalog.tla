--------------------------- MODULE ContentCatalog ---------------------------
(***************************************************************************)
(* What the content store promises the scrape tasks of all instances,      *)
(* without transactions, row locks or statements: a task asks for a set of *)
(* contents to be stored; either all of them are there from one moment on, *)
(* and those that were there before are left as they are, or the task      *)
(* changes nothing.  Only a task whose contents are all there is told so.  *)
(***************************************************************************)
CONSTANTS Sessions, Contents, Records, NoRow

VARIABLES
  catalog, \* the record of every content, or NoRow
  asked,   \* the contents each session's task is storing; none: no task
  answer   \* what its last task was told

vars == <<catalog, asked, answer>>

Init ==
  /\ catalog \in [Contents -> Records \cup {NoRow}]
  /\ asked = [s \in Sessions |-> {}]
  /\ answer = [s \in Sessions |-> "none"]

Ask(s, S) ==
  /\ asked[s] = {}
  /\ asked' = [asked EXCEPT ![s] = S]
  /\ answer' = [answer EXCEPT ![s] = "none"]
  /\ UNCHANGED catalog

Told(s, a) ==
  /\ asked[s] # {}
  /\ asked' = [asked EXCEPT ![s] = {}]
  /\ answer' = [answer EXCEPT ![s] = a]

(* The answer may be lost with the contents stored: the task has failed    *)
(* then, and a retry finds them.                                           *)
Store(s) ==
  /\ \E a \in {"none", "stored", "failed"} : Told(s, a)
  /\ catalog' \in [Contents -> Records \cup {NoRow}]
  /\ \A c \in Contents :
       IF catalog[c] = NoRow /\ c \in asked[s]
       THEN catalog'[c] \in {r \in Records : r.by = s}
       ELSE catalog'[c] = catalog[c]

GiveUp(s) ==
  /\ \E a \in {"none", "failed"} : Told(s, a)
  /\ UNCHANGED catalog

Next ==
  \E s \in Sessions :
    (\E S \in SUBSET Contents : Ask(s, S)) \/ Store(s) \/ GiveUp(s)

Spec == Init /\ [][Next]_vars
=============================================================================
