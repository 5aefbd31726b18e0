--------------------------- MODULE MCContentStore ---------------------------
(***************************************************************************)
(* TLC instance of ContentListing.                                         *)
(***************************************************************************)
EXTENDS ContentListing

CONSTANTS s1, s2

TwoSessions == {s1, s2}
TwoContents == {1, 2}
TheFirst == {1}

(* The same contents in both orders, so that batches can deadlock.         *)
BothOrders == {<<1, 2>>, <<2, 1>>}
=============================================================================
