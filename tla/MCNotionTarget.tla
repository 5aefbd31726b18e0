--------------------------- MODULE MCNotionTarget ---------------------------
(***************************************************************************)
(* TLC instance of NotionTarget.                                           *)
(***************************************************************************)
EXTENDS NotionTarget, TLC

CONSTANTS c1, c2, i1, i2, g1, g2, g3

TwoContents == {c1, c2}
TwoInstances == {i1, i2}
TwoPages == {g1, g2}
ThreePages == {g1, g2, g3}

(* Bound: two contents meet as long as no request is late and nothing has  *)
(* disturbed either; one content alone suffers whatever may happen to it.  *)
Untouched(c) ==
  /\ PagesOf(c) = {} /\ c \notin delivered /\ disturbed[c] = {}
  /\ \A i \in Clients : Content(i) # c /\ {<<c, "pending">>, <<c, "final">>} \cap cache[i].ids = {}
Undisturbed == limbo = {} /\ \A c \in Contents : disturbed[c] = {}
Confined == Undisturbed \/ \E c \in Contents : \A d \in Contents \ {c} : Untouched(d)

Symmetric ==
  Permutations(Pages) \cup Permutations(Clients) \cup Permutations(Contents)
=============================================================================
