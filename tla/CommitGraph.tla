---------------------------- MODULE CommitGraph ----------------------------
(***************************************************************************)
(* The commit-graph file (commit_graph.rs): what `commit-graph write` lays *)
(* out for a set of commits and what the reader takes out of it again.  A  *)
(* file is a record of its chunks; the bytes of a chunk are the sequence   *)
(* of its entries, a position is an index into the sorted object ids, and  *)
(* the flag bits of an edge word are fields of their own.  The generation  *)
(* cap of 2^30 and the 34-bit commit time are beyond the histories here.   *)
(***************************************************************************)
EXTENDS Naturals, Sequences, FiniteSetsExt, SequencesExt

CONSTANTS
  Id,        \* Id[c] is the object id of commit c, a number: its byte order
  BucketSize  \* how many object ids share a first byte

FirstByte(oid) == oid \div BucketSize

NoParent      == [kind |-> "none",  at |-> 0]
ParentAt(i)   == [kind |-> "at",    at |-> i]
EdgesFrom(i)  == [kind |-> "edges", at |-> i]

Position(S, c) == Cardinality({d \in S : Id[d] <= Id[c]})
OidOrder(S)    == [i \in 1..Cardinality(S) |-> CHOOSE c \in S : Position(S, c) = i]

\* 1 + the largest generation of the parents in the graph.
Generation(S, parents) ==
  LET gen[c \in S] == 1 + Max({0} \cup {gen[p] : p \in ToSet(parents[c]) \cap S})
  IN  [c \in S |-> gen[c]]

EdgeRunEndsEarly(pos, ps) ==
  [i \in 1..(Len(ps) - 1) |-> [pos |-> pos[ps[i + 1]], last |-> i + 1 = Len(ps) - 1]]

\* The run of EDGE words of one commit: every parent after the first, the
\* last one flagged.
EdgeRun(pos, ps) ==
  [i \in 1..(Len(ps) - 1) |-> [pos |-> pos[ps[i + 1]], last |-> i = Len(ps) - 1]]

Octopus(ps) == Len(ps) > 2

\* The chunks `write` emits for the reachable commits S.
WriteGraph(S, parents) ==
  LET order   == OidOrder(S)
      pos     == [c \in S |-> Position(S, c)]
      runs    == [i \in 1..Len(order) |->
                    IF Octopus(parents[order[i]])
                    THEN EdgeRun(pos, parents[order[i]]) ELSE <<>>]
      edgesAt(i) == 1 + Len(FlattenSeq(SubSeq(runs, 1, i - 1)))
      slot2(i, ps) == IF Octopus(ps) THEN EdgesFrom(edgesAt(i))
                      ELSE IF Len(ps) = 2 THEN ParentAt(pos[ps[2]]) ELSE NoParent
      gen     == Generation(S, parents)
  IN  [fanout |-> [b \in 0..Max({0} \cup {FirstByte(Id[c]) : c \in S}) |->
                     Cardinality({c \in S : FirstByte(Id[c]) <= b})],
       oidl   |-> [i \in 1..Len(order) |-> Id[order[i]]],
       cdat   |-> [i \in 1..Len(order) |->
                     LET ps == parents[order[i]] IN
                     [p1  |-> IF ps = <<>> THEN NoParent ELSE ParentAt(pos[ps[1]]),
                      p2  |-> slot2(i, ps),
                      gen |-> gen[order[i]]]],
       edge   |-> FlattenSeq(runs)]

-----------------------------------------------------------------------------
(* The reader. *)

\* A fanout entry; the last one stands for every larger first byte.
Fan(g, b) == IF b \in DOMAIN g.fanout THEN g.fanout[b] ELSE Len(g.oidl)

RECURSIVE BinarySearch(_, _, _, _)
BinarySearch(g, oid, lo, hi) ==        \* in positions lo + 1 .. hi
  IF lo >= hi THEN 0
  ELSE LET mid == lo + ((hi - lo) \div 2) + 1 IN
       IF g.oidl[mid] = oid THEN mid
       ELSE IF oid < g.oidl[mid] THEN BinarySearch(g, oid, lo, mid - 1)
       ELSE BinarySearch(g, oid, mid, hi)

\* The position of an object id, 0 when the graph has it not.
PositionOf(g, oid) ==
  LET b == FirstByte(oid)
  IN  BinarySearch(g, oid, IF b = 0 THEN 0 ELSE Fan(g, b - 1), Fan(g, b))

RECURSIVE EdgesAt(_, _)
EdgesAt(g, k) ==
  IF g.edge[k].last THEN <<g.oidl[g.edge[k].pos]>>
  ELSE <<g.oidl[g.edge[k].pos]>> \o EdgesAt(g, k + 1)

\* The object ids of the parents of the entry at position i.
ParentsAt(g, i) ==
  LET e == g.cdat[i]
      one(slot) == IF slot.kind = "at" THEN <<g.oidl[slot.at]>> ELSE <<>>
  IN  one(e.p1) \o (IF e.p2.kind = "edges" THEN EdgesAt(g, e.p2.at) ELSE one(e.p2))

\* What `commit-graph verify` checks beside the trailing hash.
Verifies(g) ==
  /\ \A b \in DOMAIN g.fanout : b > 0 => g.fanout[b - 1] <= g.fanout[b]
  /\ \A i \in 2..Len(g.oidl) : g.oidl[i - 1] < g.oidl[i]
  /\ \A i \in 1..Len(g.oidl) : i - 1 < Fan(g, FirstByte(g.oidl[i]))
=============================================================================
