------------------------------ MODULE MCRemote ------------------------------
(***************************************************************************)
(* Instances of Remote: two clients, a branch and a tag, and a history in  *)
(* which bob's commit parts from alice's two.                              *)
(***************************************************************************)
EXTENDS Remote, TLC

CONSTANTS alice, bob, main, v, r, a1, a2, b1

MCParents == r :> {} @@ a1 :> {r} @@ a2 :> {a1} @@ b1 :> {r}
MCAuthor  == r :> None @@ a1 :> alice @@ a2 :> alice @@ b1 :> bob

Spec1(src, dst, force) == [src |-> src, dst |-> dst, force |-> force]

\* A branch, forced or not, a branch and a tag at once, and a deletion.
MCPushes ==
  {<<Spec1(main, main, FALSE)>>, <<Spec1(main, main, TRUE)>>,
   <<Spec1(main, main, FALSE), Spec1(v, v, TRUE)>>, <<Spec1(None, main, FALSE)>>}

\* The walks of this history, of which there are few, as TLC evaluates them once.
ASSUME WalkType == Walk \in [SUBSET Commit -> [SUBSET Commit -> SUBSET Commit]]
=============================================================================
