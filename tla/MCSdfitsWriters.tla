--------------------------- MODULE MCSdfitsWriters ---------------------------
(***************************************************************************)
(* SdfitsWriters with three Writers and four bands: b1 and b2, whose names *)
(* round to one file, on the first Writer, b3 and b4 on one each.  A flush *)
(* every second row lets two results of a band be flushed and a third not. *)
(***************************************************************************)
EXTENDS SdfitsWriters, TLC

CONSTANTS w1, w2, w3, b1, b2, b3, b4, f1, f2, f3

MCWriterOf == b1 :> w1 @@ b2 :> w1 @@ b3 :> w2 @@ b4 :> w3
MCFileOf == b1 :> f1 @@ b2 :> f1 @@ b3 :> f2 @@ b4 :> f3

\* Without the clash of names.
MCOneBandEach == b1 :> w1 @@ b3 :> w2
MCOneFileEach == b1 :> f1 @@ b3 :> f2

\* b1 gets a row on each side of a flush; a crash may come between any two results.
MCMaxResults == b1 :> 3 @@ b2 :> 1 @@ b3 :> 1 @@ b4 :> 1

MCTwoEach == b1 :> 2 @@ b3 :> 2

=============================================================================
