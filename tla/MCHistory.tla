----------------------------- MODULE MCHistory -----------------------------
(***************************************************************************)
(* An instance of Bisect and History: every history of four commits, and   *)
(* for the bug hunts one of six, a criss-cross of merges.                  *)
(***************************************************************************)
EXTENDS Bisect

MCIds == <<3, 6, 1, 5, 4, 2>>

CrissCross == << <<>>, <<1>>, <<1>>, <<2, 3>>, <<3, 2>>, <<5, 4>> >>

MCGiven == {<<>>, CrissCross}
MCOne   == {<<>>}
=============================================================================
