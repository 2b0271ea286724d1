---------------------------- MODULE MCSequencer ----------------------------
(* Small instances of Sequencer: two files, a main line that changes one   *)
(* and a topic of two commits that changes both.                           *)
EXTENDS Sequencer, TLC

CONSTANTS p, q, o, m, t, x

T(a, b) == p :> a @@ q :> b

Root   == <<Entry(T(o, o), <<"root">>)>>
Main   == Append(Root, Entry(T(m, o), <<"main">>))
Topic1 == Append(Root, Entry(T(o, x), <<"topic 1">>))
Topic2 == Append(Topic1, Entry(T(t, t), <<"topic 2">>))

Picking(commits)   == [revert |-> FALSE, todo |-> commits]
Reverting(commits) == [revert |-> TRUE, todo |-> commits]

MCTips  == {Root, Main, Topic2}
MCPicks == {Picking(<<Topic1, Topic2>>), Reverting(<<Topic2, Topic1>>), Reverting(<<Main>>)}
MCOntos == {Root, Main, Topic2}
=============================================================================
