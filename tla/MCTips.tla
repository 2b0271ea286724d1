------------------------------ MODULE MCTips ------------------------------
(***************************************************************************)
(* An instance of Tips: the histories of MCHistory and, for the tables,    *)
(* HEAD on main, a branch topic, and a base table as `git init             *)
(* --ref-format=reftable` and a first commit leave it.                     *)
(***************************************************************************)
EXTENDS MCHistory, Tips, TLC

CONSTANTS head, main, topic, o1, o2, o3

MCName == {head, main, topic}
MCOid  == {o1, o2, o3}

MCBase == [index |-> 1,
           refs  |-> head :> main @@ main :> o1 @@ topic :> NoRecord,
           log   |-> head :> <<Absent, o1>> @@ main :> <<Absent, o1>> @@ topic :> NoRecord]

\* A push of two branches, a compare-and-swap, the deletion of one branch and the
\* creation of another, a switch, a detached checkout, a commit, nothing.
MCCommands ==
  {Batch(<<Update(main, o1, o3, TRUE), Update(topic, Absent, o1, TRUE)>>),
   Batch(<<Update(topic, AnyOld, o2, TRUE)>>),
   Batch(<<Delete(main, o1), Update(topic, Absent, o1, FALSE)>>),
   Batch(<<Update(head, AnyOld, topic, TRUE)>>),
   Batch(<<Update(head, AnyOld, o2, TRUE)>>),
   Commit(o2), Batch(<<>>)}
=============================================================================
