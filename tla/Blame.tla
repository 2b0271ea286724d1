------------------------------- MODULE Blame --------------------------------
(***************************************************************************)
(* blame (src/blame.rs): for every line of a file the commit that brought  *)
(* it.  A history is the sequence of the trees of first parents, the root  *)
(* first; a walk from its last commit back keeps, for every line of the    *)
(* file, its place in the version the walk has come to, 0 once it is told  *)
(* where the line is from.                                                 *)
(***************************************************************************)
EXTENDS TreeMerge

Unknown == [commit |-> 0, path |-> Absent, line |-> 0]

\* compute_line_mapping: for each line of b its place in a, or 0.
LineMap(a, b) ==
  LET kept == SelectSeq(Edits(a, b), LAMBDA e : e.op = "equal")
  IN  [j \in DOMAIN b |-> LET at == {e \in Range(kept) : e.bi = j - 1}
                          IN  IF at = {} THEN 0 ELSE (CHOOSE e \in at : TRUE).ai + 1]

\* The lines that are new in a version, and where the others are in the one before.
StepBack(walk, commit, map) ==
  LET new(i) == walk.suspects[i] # 0 /\ map[walk.suspects[i]] = 0
  IN  [walk EXCEPT
         !.suspects = [i \in DOMAIN @ |-> IF @[i] = 0 THEN 0 ELSE map[@[i]]],
         !.blamed = [i \in DOMAIN @ |->
                       IF new(i) THEN [commit |-> commit, path |-> walk.path, line |-> walk.suspects[i]]
                       ELSE @[i]]]

\* attribute_remaining, which leaves the path of a line as it was given.
Remaining(walk, commit, path) ==
  [i \in DOMAIN walk.blamed |->
     IF walk.suspects[i] = 0 THEN walk.blamed[i]
     ELSE [commit |-> commit, path |-> path, line |-> walk.suspects[i]]]

\* try_find_rename_source, with the one path that is new to look for.
RenameSource(parent, tree, path) ==
  LET only  == [p \in Path |-> IF p = path \/ parent[p] # Absent THEN tree[p] ELSE Absent]
      from  == {p \in Path : <<p, path>> \in Renames(parent, only)}
  IN  IF from = {} THEN Absent ELSE CHOOSE p \in from : TRUE

\* The path in the parent whose file is compared.
Source(parent, tree, path, follow) ==
  IF parent[path] # Absent THEN path
  ELSE IF follow THEN RenameSource(parent, tree, path) ELSE Absent

Fails == <<Unknown>>

\* The loop of blame.  The commit of a submodule cannot be read, and ends it.
RECURSIVE WalkBack(_, _, _, _)
WalkTo(source, history, walk, asked, follow) ==
  LET commit == Len(history)
      old    == history[commit - 1][source]
      map    == LineMap(old.data, history[commit][walk.path].data)
  IN  IF source = Absent THEN Remaining(walk, commit, asked)
      ELSE IF old.mode = "gitlink" THEN Fails
      ELSE WalkBack(Front(history), [StepBack(walk, commit, map) EXCEPT !.path = source], asked, follow)
WalkBack(history, walk, asked, follow) ==
  LET commit == Len(history) IN
  IF commit = 1 THEN Remaining(walk, commit, asked)
  ELSE WalkTo(Source(history[commit - 1], history[commit], walk.path, follow), history, walk, asked, follow)

BlameFile(history, path, follow) ==
  LET file == Last(history)[path] IN
  IF file = Absent \/ file.mode = "gitlink" THEN Fails
  ELSE WalkBack(history,
                [path |-> path, suspects |-> UpTo(Len(file.data)), blamed |-> [i \in DOMAIN file.data |-> Unknown]],
                path, follow)

-----------------------------------------------------------------------------
(* What it promises. *)

LinesOf(tree, path) == IF tree[path] = Absent THEN <<>> ELSE tree[path].data

\* A line is at its place in the commit it is blamed on, under the path told or,
\* where the walk has followed a rename, another one; no two lines of a commit are
\* told apart in another order than they are in; and the last commit is blamed for
\* the lines its file does not share with its source, no more.
Placed(blamed, history, path, follow, source) ==
  LET lines == LinesOf(Last(history), path)
      last  == Len(history)
  IN  blamed # Fails =>
        /\ \A i \in DOMAIN lines : \E p \in IF follow THEN Path ELSE {path} :
             /\ blamed[i].line \in DOMAIN LinesOf(history[blamed[i].commit], p)
             /\ LinesOf(history[blamed[i].commit], p)[blamed[i].line] = lines[i]
        /\ \A i, j \in DOMAIN lines : i < j /\ blamed[i].commit = blamed[j].commit
             => blamed[i].line < blamed[j].line
        /\ Cardinality({i \in DOMAIN lines : blamed[i].commit < last})
             = IF source = Absent THEN 0 ELSE Lcs(history[last - 1][source].data, lines)

LinesPlaced(history, path, follow) ==
  LET last == Len(history)
  IN  Placed(BlameFile(history, path, follow), history, path, follow,
             Source(history[last - 1], history[last], path, follow))

\* src/diff/rename.rs:89-93 and src/blame.rs:1-22: what is told of the past of a
\* file.  Renames are stable pairs, and every line is blamed on a commit that has
\* it, the last commit only for what is new in it.
PastTruthful ==
  /\ RenamesStable
  /\ doing = "merge" /\ todo = 0 =>
       \A p \in Path, follow \in BOOLEAN :
         theirs[p] # Absent => LinesPlaced(<<base, ours, theirs>>, p, follow)
=============================================================================
