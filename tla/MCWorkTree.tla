----------------------------- MODULE MCWorkTree -----------------------------
(***************************************************************************)
(* Instances of WorkTree: two paths, two branches whose trees differ, one  *)
(* branch yet to be made, one content the user types.                      *)
(***************************************************************************)
EXTENDS WorkTree, TLC

CONSTANTS p, q, a, b, t, main, side

Pair(x, y) == p :> x @@ q :> y

\* The other branch differs in both paths, or is yet to be made.
OtherTips == {main :> Pair(a, None) @@ side :> t2 : t2 \in {Pair(b, a), None}}
=============================================================================
