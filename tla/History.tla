------------------------------ MODULE History ------------------------------
(***************************************************************************)
(* The commit history and everything that walks it.  Commits are numbered  *)
(* in the order they are written, so a parent is smaller than its child;   *)
(* committer times are free, because clocks differ between machines.       *)
(* Commits come from `commit-tree`, `commit` and `merge`; the walks are    *)
(* those of merge/base.rs, revparse.rs, rev-list, log, describe, name-rev, *)
(* show-branch, branch and push, each as an operator on the history.       *)
(***************************************************************************)
EXTENDS Naturals, Sequences, FiniteSets, FiniteSetsExt, SequencesExt

CONSTANTS
  MaxCommits,   \* bound: commits written
  MaxParents,   \* bound: parents of a commit
  MaxConflict,  \* bound: commits of a history in which a merge may conflict
  Times,        \* committer times, a set of numbers
  Id,          \* Id[c]: the object id of commit c, a number (its byte order)
  BucketSize,   \* object ids that share a first byte (see CommitGraph)
  Given,        \* histories to start from: a set of sequences of parents
  Tagged        \* the commits that carry a tag

VARIABLES
  parents,      \* parents[c]: the parents of commit c, in order
  time,         \* time[c]: its committer time
  tip,          \* what HEAD's branch points at, 0 when unborn
  mergeHead,    \* .git/MERGE_HEAD, 0 when there is none
  index,        \* "clean", "unmerged" (stages 1-3), "resolved" (all added)
  concluded     \* history: <<commit, theirs>> of the conflicted merges committed

historyVars == <<parents, time, tip, mergeHead, index, concluded>>

None    == 0
Commits == DOMAIN parents

Graph == INSTANCE CommitGraph

\* The reference: every commit reachable from c, c included.
Ancestors ==
  LET anc[c \in Commits] == {c} \cup UNION {anc[p] : p \in ToSet(parents[c])}
  IN  [c \in Commits |-> anc[c]]

-----------------------------------------------------------------------------
(* Merge bases: merge/base.rs. *)

\* The heap's order: time, then object id.
Older(c, d) == time[c] < time[d] \/ (time[c] = time[d] /\ Id[c] < Id[d])
Newest(q)   == CHOOSE c \in q : \A d \in q \ {c} : Older(d, c)

\* paint[c] is the flag set of a commit.  Whatever is popped hands its flags
\* down; a commit with both colours hands STALE down as well, not to itself.
SettledUnfiltered(paint, result) == result
Settled(paint, result) == {c \in result : "STALE" \notin paint[c]}

RECURSIVE PaintDown(_, _, _)
PaintDown(paint, queue, result) ==
  IF queue = {} THEN Settled(paint, result)
  ELSE LET c      == Newest(queue)
           found  == paint[c] = {"PARENT1", "PARENT2"}
           flags  == paint[c] \cup IF found THEN {"STALE"} ELSE {}
           learns == {p \in ToSet(parents[c]) : ~ flags \subseteq paint[p]}
       IN  PaintDown([p \in Commits |-> IF p \in learns THEN paint[p] \cup flags
                                        ELSE paint[p]],
                     (queue \ {c}) \cup learns,
                     IF found THEN result \cup {c} ELSE result)

MergeBases(a, b) ==
  IF a = b THEN {a}
  ELSE PaintDown([c \in Commits |-> IF c = a THEN {"PARENT1"}
                                    ELSE IF c = b THEN {"PARENT2"} ELSE {}],
                 {a, b}, {})

\* The earliest of the bases.
MergeBase(a, b) ==
  LET bases == MergeBases(a, b) IN
  IF bases = {} THEN None
  ELSE CHOOSE c \in bases : \A d \in bases \ {c} : Older(c, d)

\* Newest first from the descendant; a commit older than the ancestor is not
\* walked past.
PrunedTooEarly(c, ancestor) == time[c] <= time[ancestor]
Pruned(c, ancestor) == time[c] < time[ancestor]

RECURSIVE SearchBack(_, _, _)
SearchBack(ancestor, queue, visited) ==
  IF queue = {} THEN FALSE
  ELSE LET c  == Newest(queue)
           ps == IF Pruned(c, ancestor) THEN {} ELSE ToSet(parents[c])
       IN  \/ ancestor \in ps
           \/ SearchBack(ancestor, (queue \ {c}) \cup (ps \ visited), visited \cup ps)

IsAncestor(ancestor, descendant) ==
  ancestor = descendant \/ SearchBack(ancestor, {descendant}, {descendant})

-----------------------------------------------------------------------------
(* The plain walks. *)

\* A stack of commits to visit: the top is taken, skipped when already seen,
\* and its parents are pushed in the order `push` gives them.
RECURSIVE DepthFirst(_, _, _)
DepthFirst(stack, seen, push) ==
  IF stack = <<>> THEN <<>>
  ELSE LET c == Last(stack) IN
       IF c \in seen THEN DepthFirst(Front(stack), seen, push)
       ELSE <<c>> \o DepthFirst(Front(stack) \o push[c], seen \cup {c}, push)

InOrder  == parents
Reversed == [c \in Commits |-> Reverse(parents[c])]

\* revparse::collect_ancestors, rev-list's walk_into_set, bisect's.
CollectAncestors(c) == ToSet(DepthFirst(<<c>>, {}, InOrder))

\* revparse::resolve_range: what A..B (and A...B) stands for, in order.
ResolveRange(a, b) == DepthFirst(<<b>>, CollectAncestors(a), Reversed)

\* `rev-list`: the starts, less what `^x` excludes.
RevList(starts, excludes) ==
  DepthFirst(starts, UNION {CollectAncestors(x) : x \in excludes}, InOrder)

\* `rev-list A..B`: the commits of the range are starts, and nothing is excluded;
\* without a start it begins at HEAD.
RevListRange(a, b) ==
  LET range == ResolveRange(a, b)
  IN  RevList(IF range = <<>> THEN <<tip>> ELSE range, {})

\* `branch --contains/--merged`, and the fast-forward test of both pushes.
WalkIsAncestor(ancestor, c) == ancestor = c \/ ancestor \in CollectAncestors(c)

\* `branch --contains w --no-contains n --merged m`: whether a branch at t is listed.
BranchListed(t, w, n, m) ==
  WalkIsAncestor(w, t) /\ ~ WalkIsAncestor(n, t) /\ WalkIsAncestor(t, m)

\* ^n and ~n, None where the expression does not resolve.
Parent(c, n) ==
  IF c = None \/ n = 0 THEN c
  ELSE IF n <= Len(parents[c]) THEN parents[c][n] ELSE None
NthAncestor(c, n) ==
  LET back[i \in 0..n] == IF i = 0 THEN c ELSE Parent(back[i - 1], 1)
  IN  back[n]

\* `log`: the chain of first parents, up to a limit.
RECURSIVE Log(_, _)
Log(c, limit) ==
  IF c = None \/ limit = 0 THEN <<>> ELSE <<c>> \o Log(Parent(c, 1), limit - 1)

\* `describe`: breadth first, the first tagged commit at the smallest distance.
RECURSIVE Describe(_, _, _, _)
Describe(queue, dist, best, tags) ==
  IF queue = <<>> THEN best
  ELSE LET c   == Head(queue)
           new == SelectSeq(parents[c], LAMBDA p : p \notin DOMAIN dist)
       IN  Describe(Tail(queue) \o new,
                    [p \in DOMAIN dist \cup ToSet(new) |->
                       IF p \in DOMAIN dist THEN dist[p] ELSE dist[c] + 1],
                    IF c \in tags /\ (best = <<>> \/ dist[c] < best[2])
                    THEN <<c, dist[c]>> ELSE best,
                    tags)

DescribeFrom(c) == Describe(<<c>>, [x \in {c} |-> 0], <<>>, Tagged)

\* `name-rev`: every tip labels what it reaches with its distance, and a label
\* gives way to a shorter one.
RECURSIVE WalkAndLabel(_, _, _)
WalkAndLabel(queue, labels, t) ==
  IF queue = <<>> THEN labels
  ELSE LET c == Head(queue)[1]
           d == Head(queue)[2]
       IN  IF c \in DOMAIN labels /\ labels[c].dist <= d
           THEN WalkAndLabel(Tail(queue), labels, t)
           ELSE WalkAndLabel(
                  Tail(queue) \o [i \in 1..Len(parents[c]) |-> <<parents[c][i], d + 1>>],
                  [x \in DOMAIN labels \cup {c} |->
                     IF x = c THEN [tip |-> t, dist |-> d] ELSE labels[x]],
                  t)

RECURSIVE BuildLabelMap(_, _)
BuildLabelMap(tips, labels) ==
  IF tips = <<>> THEN labels
  ELSE BuildLabelMap(Tail(tips), WalkAndLabel(<<<<Head(tips), 0>>>>, labels, Head(tips)))

NameRev(tips) == BuildLabelMap(tips, [x \in {} |-> None])

\* `show-branch`: rows breadth first from all tips, each commit once, with the
\* tips that reach it.
RECURSIVE Rows(_, _)
Rows(frontier, visited) ==
  IF frontier = <<>> THEN <<>>
  ELSE IF Head(frontier) \in visited THEN Rows(Tail(frontier), visited)
  ELSE <<Head(frontier)>> \o Rows(Tail(frontier) \o parents[Head(frontier)],
                                  visited \cup {Head(frontier)})

ShowBranch(tips, count) ==
  LET rows == Rows(tips, {}) IN
  [i \in 1..Min({count, Len(rows)}) |->
     [commit |-> rows[i],
      marks  |-> {t \in ToSet(tips) : rows[i] \in CollectAncestors(t)}]]

-----------------------------------------------------------------------------
(* The commands that write history. *)

HistoryInit ==
  /\ parents \in Given
  /\ time = [c \in Commits |-> Min(Times)]
  /\ tip = Len(parents)
  /\ mergeHead = None /\ index = "clean" /\ concluded = {}

Room == Len(parents) < MaxCommits

\* create_commit: an object with these parents, committed at time t.
CreateCommit(ps, t) ==
  /\ parents' = Append(parents, ps)
  /\ time' = Append(time, t)

NewCommit == Len(parents) + 1
TipParent == IF tip = None THEN <<>> ELSE <<tip>>

\* `commit-tree -p ...`: any parents, and no ref moves.
CommitTree(ps, t) ==
  /\ Room
  /\ CreateCommit(ps, t)
  /\ UNCHANGED <<tip, mergeHead, index, concluded>>

\* The parents `commit` gives a commit: the tip of the branch, nothing else.
CommitParents == TipParent

\* `commit`: refused while the index holds stages 1-3.  MERGE_HEAD is neither
\* read nor removed.
CommitTip(t) ==
  /\ Room
  /\ index # "unmerged"
  /\ CreateCommit(CommitParents, t)
  /\ tip' = NewCommit
  /\ index' = "clean"
  /\ concluded' = IF index = "resolved" THEN concluded \cup {<<NewCommit, mergeHead>>}
                  ELSE concluded
  /\ UNCHANGED mergeHead

\* `merge theirs`.  Up to date and a base-equals-ours fast-forward come first;
\* otherwise a conflict writes the index and MERGE_HEAD, and a clean result
\* makes a commit of two parents.  The checkout or the pre-merge-commit hook
\* may stop it: then nothing here changes.
FastForwards(theirs) == tip # theirs /\ MergeBase(tip, theirs) = tip
UpToDate(theirs)     == tip = theirs \/ MergeBase(tip, theirs) = theirs

Merge(theirs, t) ==
  /\ Room
  /\ tip # None
  /\ ~ UpToDate(theirs)
  /\ IF FastForwards(theirs)
     THEN /\ tip' = theirs
          /\ index' = "clean"
          /\ UNCHANGED <<parents, time, mergeHead, concluded>>
     ELSE \/ /\ Len(parents) <= MaxConflict
             /\ index' = "unmerged"
             /\ mergeHead' = theirs
             /\ UNCHANGED <<parents, time, tip, concluded>>
          \/ /\ CreateCommit(<<tip, theirs>>, t)
             /\ tip' = NewCommit
             /\ index' = "clean"
             /\ UNCHANGED <<mergeHead, concluded>>

\* `rm --cached` and `add` of the last conflicted path: rm takes all the stages
\* away, add alone would leave stages 1-3 beside its own.
Resolve ==
  /\ index = "unmerged"
  /\ index' = "resolved"
  /\ UNCHANGED <<parents, time, tip, mergeHead, concluded>>

\* `reset`: the branch and the index; MERGE_HEAD stays.  (Bound: not in the
\* larger of the given histories.)
Reset(c) ==
  /\ tip # None /\ Len(parents) <= MaxCommits
  /\ tip' = c
  /\ index' = "clean"
  /\ UNCHANGED <<parents, time, mergeHead, concluded>>

ParentLists ==
  {ps \in BoundedSeq(Commits, MaxParents) : IsInjective(ps)}

HistoryNext ==
  \/ Room /\ \E ps \in ParentLists, t \in Times : CommitTree(ps, t)
  \/ \E t \in Times : CommitTip(t)
  \/ \E theirs \in Commits, t \in Times : Merge(theirs, t)
  \/ Resolve
  \/ \E c \in Commits : Reset(c)

-----------------------------------------------------------------------------
(* What the walks promise. *)

\* The common ancestors that no other common ancestor descends from.
BestCommon(anc, a, b) ==
  LET common == anc[a] \cap anc[b]
  IN  {c \in common : \A d \in common \ {c} : c \notin anc[d]}

\* merge_bases returns exactly the best common ancestors of two commits, however
\* skewed the committer times are, and merge_base one of them, the same from
\* either side (base.rs:22-28, 260-266): what every merge, rebase and pick rests on.
BasesAreBest ==
  LET anc == Ancestors IN
  \A c \in Commits : tip # None =>
    LET best == BestCommon(anc, tip, c) IN
    /\ MergeBases(tip, c) = best
    /\ MergeBase(tip, c) \in best \cup (IF best = {} THEN {None} ELSE {})
    /\ MergeBase(tip, c) = MergeBase(c, tip)

Linear    == \A c \in Commits : Len(parents[c]) <= 1
Monotone  == \A c \in Commits : \A p \in ToSet(parents[c]) : time[p] <= time[c]

\* The fewest parent links from c down to each ancestor.
Distance(anc, c) ==
  LET far[k \in 0..Len(parents)] ==
        IF k = 0 THEN {c} ELSE UNION {ToSet(parents[x]) : x \in far[k - 1]}
      at == [k \in 0..Len(parents) |-> far[k]]
  IN  [x \in anc[c] |-> Min({k \in DOMAIN at : x \in at[k]})]

\* The ways the program asks whether one commit is in another's history agree
\* with the history: is_ancestor never says yes wrongly, and says no wrongly
\* only when a parent is dated after its child (base.rs:300-306).
AncestryTold(anc, a, c) ==
  /\ WalkIsAncestor(a, c) <=> a \in anc[c]
  /\ \A n \in Commits :
       BranchListed(c, a, n, c) <=> a \in anc[c] /\ n \notin anc[c]
  /\ IsAncestor(a, c) => a \in anc[c]
  /\ Monotone /\ a \in anc[c] => IsAncestor(a, c)

\* A range holds what one end reaches and the other does not, each once, and
\* on a line of commits newest first; `rev-list c ^a` prints the same set.
RangesTold(anc, a, c) ==
  LET range == ResolveRange(a, c) IN
  /\ ToSet(range) = anc[c] \ anc[a]
  /\ IsInjective(range)
  /\ Linear => \A i, j \in DOMAIN range : i < j => range[j] \in anc[range[i]]
  /\ ToSet(RevList(<<c>>, {a})) = ToSet(range)

\* describe names a nearest tag at its true distance; name-rev's shortest labels
\* on a line resolve back to the commit they name; show-branch marks every
\* commit of the tips once and right, to the row limit.
NamesTold(anc, a, c) ==
  LET d     == Distance(anc, c)
      tags  == Tagged \cap anc[c]
      names == NameRev(<<a, c>>)
      rows  == ShowBranch(<<a, c>>, 3)
      near  == DescribeFrom(c)
  IN  /\ IF tags = {} THEN near = <<>>
         ELSE /\ near[1] \in tags
              /\ near[2] = d[near[1]]
              /\ near[2] = Min({d[x] : x \in tags})
      /\ DOMAIN names = anc[a] \cup anc[c]
      /\ Linear => \A x \in DOMAIN names :
                     NthAncestor(names[x].tip, names[x].dist) = x
      /\ Len(rows) = Min({3, Cardinality(DOMAIN names)})
      /\ IsInjective([i \in DOMAIN rows |-> rows[i].commit])
      /\ \A i \in DOMAIN rows :
           rows[i].marks = {t \in {a, c} : rows[i].commit \in anc[t]}

\* Every walk of the program tells the truth about the history it walks, from
\* the branch's tip and any other commit.
WalksTruthful ==
  LET anc == Ancestors IN
  \A c \in Commits : tip # None =>
    /\ AncestryTold(anc, tip, c) /\ AncestryTold(anc, c, tip)
    /\ RangesTold(anc, tip, c) /\ RangesTold(anc, c, tip)
    /\ NamesTold(anc, tip, c)
    /\ Log(c, MaxCommits + Len(parents)) =
         [n \in 1..Cardinality({k \in 0..Len(parents) : NthAncestor(c, k) # None})
            |-> NthAncestor(c, n - 1)]

\* `rev-list A..B` prints the "commit oids reachable from B but not from A"
\* (revparse.rs:48-50; cli/rev_list.rs:4 offers ranges), where there are any.
RangePrinted ==
  \A a, c \in Commits : c \notin Ancestors[a] =>
    ToSet(RevListRange(a, c)) = Ancestors[c] \ Ancestors[a]

\* A commit-graph file written for any reachable set verifies, gives back every
\* commit's parents in order (an octopus's through the EDGE chunk), finds every
\* commit and no other, and its generation exceeds every parent's.
GraphTruthful ==
  LET S == IF tip = None THEN {} ELSE Ancestors[tip]
      g == Graph!WriteGraph(S, parents)
  IN  /\ Graph!Verifies(g)
      /\ \A c \in Commits :
           LET at == Graph!PositionOf(g, Id[c]) IN
           IF c \notin S THEN at = 0
           ELSE /\ at # 0 /\ g.oidl[at] = Id[c]
                /\ Graph!ParentsAt(g, at) = [i \in DOMAIN parents[c] |-> Id[parents[c][i]]]
                /\ \A p \in ToSet(parents[c]) :
                     g.cdat[Graph!PositionOf(g, Id[p])].gen < g.cdat[at].gen

\* A commit that concludes a conflicted merge has the merged commit in its
\* history: MERGE_HEAD is written "so a follow-up commit knows about the
\* in-progress merge" (cli/merge.rs:14-15).
MergeRecorded == \A m \in concluded : m[2] \in Ancestors[m[1]]
=============================================================================
