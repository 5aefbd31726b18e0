--------------------------- MODULE MCExportQueue ---------------------------
(***************************************************************************)
(* TLC instance of ExportQueue.                                            *)
(***************************************************************************)
EXTENDS ExportQueue, TLC

CONSTANTS c1, i1, i2, k1, k2, k3, k4

OneContent == {c1}
TwoInstances == {i1, i2}
OneInstance == {i1}
FourTokens == {k1, k2, k3, k4}
=============================================================================
