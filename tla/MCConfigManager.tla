-------------------------- MODULE MCConfigManager --------------------------
(***************************************************************************)
(* TLC instance of ConfigManager.                                          *)
(***************************************************************************)
EXTENDS ConfigManager, TLC

CONSTANTS p1, p2, p3

TwoPaths == {p1, p2}
ThreePaths == {p1, p2, p3}

Def(i, n) == [id |-> i, name |-> n]

(* Definitions that collide in their ID, in their name or in both.         *)
Colliding == {Def("a", "A"), Def("b", "B"), Def("c", "B"), Def("a", "C")}
NoneRefused == {}

(* One of them is refused by the validator.                                *)
Few == {Def("a", "A"), Def("b", "B"), Def("a", "B")}
RefusedFew == {Def("a", "B")}
=============================================================================
