---------------------------- MODULE MCRefFiles ----------------------------
(* Small instances of RefFiles: HEAD on branch main, a second branch, and   *)
(* commands chosen so that they meet on the same refs.                      *)
EXTENDS RefFiles, FiniteSets, TLC

CONSTANTS head, main, topic, o1, o2, o3

Symmetry == Permutations(Proc)

MCName == {head, main, topic}
MCOid  == {o1, o2, o3}

BothRefs == head :> main @@ main :> o1 @@ topic :> o1
Nowhere  == [n \in MCName |-> Absent]

\* Writers of loose refs: compare-and-swap, create, blind update and delete in
\* one transaction, delete, re-pointing HEAD, commit.
Writers ==
  {Tx(<<Update(main, o1, o2, TRUE)>>), Tx(<<Update(topic, Absent, o1, TRUE)>>),
   Tx(<<Update(main, AnyOld, o3, TRUE), Delete(topic, AnyOld)>>),
   Tx(<<Delete(main, o1)>>), Tx(<<Update(head, AnyOld, topic, TRUE)>>), Commit(o3)}

\* Writers that never delete, a rewriter of the reflog, and a packer that does
\* not prune.
Keepers ==
  {Tx(<<Update(main, o1, o2, TRUE)>>), Tx(<<Update(main, AnyOld, o3, TRUE)>>),
   Commit(o2), Pack(FALSE), DropLog(main)}

MCCommands == Writers \cup Keepers \cup {Pack(TRUE)}

AtMostOnePacker(f) == Cardinality({p \in Proc : f[p].kind = "pack"}) <= 1

Scenario(l, k, f) == [loose |-> l, packed |-> k, cmd |-> f]

\* Packing is mixed only with what it is safe beside: see the README.
MCScenarios ==
  {Scenario(BothRefs, Nowhere, f) : f \in [Proc -> Writers]} \cup
  {Scenario(BothRefs, Nowhere, f) : f \in {g \in [Proc -> Keepers] : AtMostOnePacker(g)}} \cup
  {Scenario(head :> main @@ main :> a @@ topic :> b,
            head :> Absent @@ main :> x @@ topic :> y,
            [p \in Proc |-> IF p = q THEN Pack(TRUE) ELSE DropLog(main)]) :
     a, b, x, y \in {Absent, o1, o2}, q \in Proc}

\* One process packs and prunes while another updates a branch.
PruneBesideWriter ==
  {Scenario(BothRefs, Nowhere, f) :
     f \in {g \in [Proc -> {Pack(TRUE), Tx(<<Update(main, o1, o2, TRUE)>>)}] : AtMostOnePacker(g)}}
=============================================================================
