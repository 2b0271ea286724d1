----------------------------- MODULE TreeMerge ------------------------------
(***************************************************************************)
(* The three-way merge of trees (src/merge/tree.rs), what `merge` and the  *)
(* sequencer make of it in the index and the working tree, the status of   *)
(* the result (src/worktree/status.rs), and the renames between two trees  *)
(* (src/diff/mod.rs, src/diff/rename.rs).  A tree is flat, from path to    *)
(* [mode, data]; a blob is its lines, so an object id is the lines too.    *)
(***************************************************************************)
EXTENDS FileMerge

CONSTANTS
  Paths,      \* the paths in their order, a sequence
  Absent,     \* no entry, no file
  Merges,     \* what may be merged: [base, ours, theirs : set of trees]
  Retyped,    \* the entries the user may put in the place of a file
  Threshold,  \* the similarity from which two files are a rename, in percent
  Limit       \* pairs of files above which only exact renames are found

VARIABLES
  base, ours, theirs,   \* path -> entry or Absent
  todo,       \* how many paths are merged
  state,      \* path -> what became of it (PathMergeState)
  stages,     \* path -> [0..3 -> entry or Absent], the index
  blobs,      \* path -> entry or Absent, the tree being built
  merged,     \* the tree written, or Absent
  worktree,   \* path -> entry or Absent, the working tree; Absent when not written yet
  doing

treeVars == <<base, ours, theirs, todo, state, stages, blobs, merged, worktree, doing>>

Path     == Range(Paths)
NoTree   == [p \in Path |-> Absent]
NoStages == [s \in 0..3 |-> Absent]

\* The paths of any side, in their order.
Union == SelectSeq(Paths, LAMBDA p : \E tree \in {base, ours, theirs} : tree[p] # Absent)

Regular == {"regular", "executable"}
\* mode_kind: regular and executable files are of one kind.
Kind(mode) == IF mode \in Regular THEN "blob" ELSE mode

-----------------------------------------------------------------------------
(* merge_tree. *)

FirstOf(o, t, b) == IF o # Absent THEN o.mode ELSE IF t # Absent THEN t.mode ELSE b.mode

\* merge_blob_contents, with the empty file for a base that is absent.
Resolved(blocks, from, o, t) ==
  [state |-> IF Conflicted(blocks) THEN "content conflict" ELSE "merged",
   data  |-> Body(blocks, from, o.data, t.data)]
Contents(b, o, t) ==
  LET from == IF b = Absent THEN <<>> ELSE b.data IN
  Resolved(MergeFile(from, o.data, t.data), from, o, t)

Just(s) == [state |-> s, data |-> Absent]

BothHaveNaive(b, o, t) == IF o = t THEN Just("took ours") ELSE Just("took theirs")

\* Both sides have the path: the add/add arm of decide_path, and merge_all_three,
\* whose arm for symlinks comes after the one that all but regular files take.
BothHave(b, o, t) ==
  IF o = t THEN Just(IF b # Absent /\ o = b THEN "unchanged" ELSE "took ours")
  ELSE IF o = b THEN Just("took theirs")
  ELSE IF t = b THEN Just("took ours")
  ELSE IF Kind(o.mode) # Kind(t.mode) THEN Just("type mismatch")
  ELSE IF o.mode \in Regular THEN Contents(b, o, t)
  ELSE Just(IF b = Absent THEN "add/add" ELSE "type mismatch")

Decide(b, o, t) ==
  CASE o = Absent /\ t = Absent -> Just("deleted")
    [] o # Absent /\ t = Absent ->
         Just(IF b = Absent THEN "took ours" ELSE IF b = o THEN "deleted" ELSE "modify/delete")
    [] o = Absent /\ t # Absent ->
         Just(IF b = Absent THEN "took theirs" ELSE IF b = t THEN "deleted" ELSE "modify/delete")
    [] o # Absent /\ t # Absent -> BothHave(b, o, t)

Conflicts == {"content conflict", "modify/delete", "add/add", "type mismatch"}

Taken(d, b, o, t) ==
  CASE d.state = "unchanged" -> b [] d.state = "took ours" -> o [] d.state = "took theirs" -> t
    [] d.state = "merged" -> [mode |-> FirstOf(o, t, b), data |-> d.data]
    [] d.state = "deleted" -> Absent

\* The index entries and the tree entry of a path.
MergePath ==
  /\ doing = "merge" /\ todo < Len(Union) /\ todo' = todo + 1
  /\ LET p == Union[todo + 1]
         b == base[p]
         o == ours[p]
         t == theirs[p]
     IN  \E d \in {Decide(b, o, t)} :
         /\ state' = [state EXCEPT ![p] = d]
         /\ IF d.state \in Conflicts
            THEN /\ stages' = [stages EXCEPT ![p] = <<b, o, t>> @@ (0 :> Absent)]
                 /\ blobs' = IF d.data # Absent
                             THEN [blobs EXCEPT ![p] = [mode |-> FirstOf(o, t, b), data |-> d.data]]
                             ELSE blobs
            ELSE /\ stages' = [stages EXCEPT ![p][0] = Taken(d, b, o, t)]
                 /\ blobs'  = [blobs EXCEPT ![p] = Taken(d, b, o, t)]
  /\ UNCHANGED <<base, ours, theirs, merged, worktree, doing>>

HasConflicts == \E p \in Path : state[p].state \in Conflicts

\* What a checkout makes of an entry: nothing, for a submodule.
OnDisk(e) == IF e # Absent /\ e.mode = "gitlink" THEN Absent ELSE e

\* A submodule at a new commit.  Its commit is in its own repository, and the
\* checkout fails at it before it moves a file.
NewModule(p) == blobs[p] \notin {ours[p], Absent} /\ blobs[p].mode = "gitlink"

\* The index and the files are those of HEAD, as long as neither is written.
StagesOfHead == [p \in Path |-> [NoStages EXCEPT ![0] = ours[p]]]

\* A merge without conflicts: the tree is written and checked out, over a working
\* tree that is the one of HEAD.
MergeClean ==
  /\ doing = "merge" /\ todo = Len(Union) /\ ~HasConflicts
  /\ \A p \in Path : ~NewModule(p)
  /\ merged' = blobs /\ doing' = "merged"
  /\ worktree' = [p \in Path |-> OnDisk(blobs[p])]
  /\ stages' = [p \in Path |-> [NoStages EXCEPT ![0] = blobs[p]]]
  /\ UNCHANGED <<base, ours, theirs, todo, state, blobs>>

CheckoutFails ==
  /\ doing = "merge" /\ todo = Len(Union) /\ ~HasConflicts
  /\ \E p \in Path : NewModule(p)
  /\ stages' = StagesOfHead /\ doing' = "failed"
  /\ UNCHANGED <<base, ours, theirs, todo, state, blobs, merged, worktree>>

\* What the file of a path gets: the merge with its markers, or ours.  fs::write
\* keeps the mode of a file that is there, and follows a symlink.
Written(p) ==
  LET d == state[p]
      mode == IF worktree[p] = Absent THEN "regular" ELSE worktree[p].mode
  IN  CASE worktree[p] # Absent /\ worktree[p].mode = "symlink" -> worktree[p]
        [] d.state \in {"content conflict", "merged"} -> [mode |-> mode, data |-> d.data]
        [] d.state = "add/add" -> [mode |-> mode, data |-> ours[p].data]
        [] OTHER -> worktree[p]

\* A submodule both have added: its commit would be written as a file.
Unwritable(p) == state[p].state = "add/add" /\ ours[p].mode = "gitlink"
Unreached(p) ==
  \E i, j \in DOMAIN Paths : i <= j /\ Paths[j] = p /\ Unwritable(Paths[i])

\* materialize_conflicted_workdir: only files merged line by line are written.
MergeConflicted ==
  /\ doing = "merge" /\ todo = Len(Union) /\ HasConflicts
  /\ \A p \in Path : ~Unwritable(p)
  /\ worktree' = [p \in Path |-> Written(p)] /\ doing' = "conflicted"
  /\ UNCHANGED <<base, ours, theirs, todo, state, stages, blobs, merged>>

\* It fails at the commit of a submodule, before the index is written.
MergeFails ==
  /\ doing = "merge" /\ todo = Len(Union) /\ \E p \in Path : Unwritable(p)
  /\ worktree' = [p \in Path |-> IF Unreached(p) THEN worktree[p] ELSE Written(p)]
  /\ stages' = StagesOfHead /\ doing' = "failed"
  /\ UNCHANGED <<base, ours, theirs, todo, state, blobs, merged>>

\* The user gives a file another content or type, or removes it.
Edit ==
  /\ doing \in {"merged", "conflicted", "failed"} /\ doing' = "edited"
  /\ \E p \in Range(Union), e \in Retyped \cup {Absent} : worktree' = [worktree EXCEPT ![p] = e]
  /\ UNCHANGED <<base, ours, theirs, todo, state, stages, blobs, merged>>

TreeInit ==
  /\ \E m \in Merges : base \in m.base /\ ours \in m.ours /\ theirs \in m.theirs
  /\ todo = 0 /\ state = [p \in Path |-> Just("none")] /\ stages = [p \in Path |-> NoStages]
  /\ blobs = NoTree /\ merged = Absent /\ doing = "merge"
  /\ worktree = [p \in Path |-> OnDisk(ours[p])]

TreeNext == MergePath \/ MergeClean \/ CheckoutFails \/ MergeConflicted \/ MergeFails \/ Edit

-----------------------------------------------------------------------------
(* status. *)

HeadEntry(p) == IF merged # Absent THEN merged[p] ELSE ours[p]
Staged(p)   == stages[p][0]
Unmerged(p) == \E n \in 1..3 : stages[p][n] # Absent

\* compute_index_state.
IndexState(h, e) ==
  CASE h = e -> "unchanged"
    [] h = Absent /\ e # Absent -> "added"
    [] h # Absent /\ e = Absent -> "deleted"
    [] h # e /\ Absent \notin {h, e} ->
         IF {Kind(h.mode), Kind(e.mode)} = {"blob", "symlink"} THEN "type changed" ELSE "modified"

\* compute_worktree_state, of a file whose stat is not the one in the index.  A
\* submodule that is there is a directory, and a change of type.
WorktreeState(e, w) ==
  CASE w = Absent -> "deleted"
    [] w # Absent /\ w.mode = "directory" -> "type changed"
    [] w # Absent /\ w.mode # "directory" ->
         IF (w.mode \in Regular) # (e.mode \in Regular) THEN "type changed"
         ELSE IF w = e THEN "unchanged" ELSE "modified"

\* The row of a path that HEAD or stage 0 has: the conflict, or both columns.
TrackedRow(p) ==
  IF Unmerged(p) THEN <<"unchanged", "conflicted">>
  ELSE <<IndexState(HeadEntry(p), Staged(p)),
         IF Staged(p) = Absent THEN "unchanged" ELSE WorktreeState(Staged(p), worktree[p])>>

\* walk_untracked knows stage 0 only, and lists files.
UntrackedRow(p) == worktree[p] # Absent /\ worktree[p].mode # "directory" /\ Staged(p) = Absent

OnlyStaged(p) == Staged(p) # Absent
InUnion(p) == HeadEntry(p) # Absent \/ Staged(p) # Absent

Rows(p) ==
  (IF InUnion(p) THEN {TrackedRow(p)} \ {<<"unchanged", "unchanged">>} ELSE {})
    \cup IF UntrackedRow(p) THEN {<<"unchanged", "untracked">>} ELSE {}

-----------------------------------------------------------------------------
(* Renames. *)

\* diff_entries: what became of a path from one tree to another.
DiffStatus(a, b) ==
  CASE a = b -> "same"
    [] a # Absent /\ b = Absent -> "deleted"
    [] a = Absent /\ b # Absent -> "added"
    [] a # b /\ Absent \notin {a, b} ->
         IF a.data = b.data THEN "mode changed"
         ELSE IF Kind(a.mode) = Kind(b.mode) THEN "modified" ELSE "type changed"

\* What `diff` compares: the entries of stage 0, and the files at their paths; a
\* directory is as good as none.
FlatIndex   == [p \in Path |-> Staged(p)]
FlatWorkdir == [p \in Path |->
                  IF Staged(p) = Absent \/ worktree[p] = Absent \/ worktree[p].mode = "directory"
                  THEN Absent ELSE worktree[p]]
Differ(a, b) == {p \in Path : DiffStatus(a[p], b[p]) # "same"}
DiffTreeIndex    == Differ([p \in Path |-> HeadEntry(p)], FlatIndex)
DiffIndexWorkdir == Differ(FlatIndex, FlatWorkdir)
DiffTreeWorkdir  == Differ([p \in Path |-> HeadEntry(p)], FlatWorkdir)

WithStatus(a, b, status) == SelectSeq(Paths, LAMBDA p : DiffStatus(a[p], b[p]) = status)

\* Bound: the text of a line is one byte.
Size(l) == IF l[2] THEN 2 ELSE 1
Bytes(lines) == FoldLeft(LAMBDA sum, l : sum + Size(l), 0, lines)
Count(lines, l) == Cardinality({i \in DOMAIN lines : lines[i] = l})

\* similarity_percent: the bytes of the lines both have.
Similarity(a, b) ==
  LET shared == FoldSet(LAMBDA l, sum : sum + Size(l) * Min({Count(a, l), Count(b, l)}), 0, Range(a)) IN
  IF a = <<>> /\ b = <<>> THEN 100
  ELSE IF a = <<>> \/ b = <<>> THEN 0
  ELSE (200 * shared) \div (Bytes(a) + Bytes(b))

Renameable(e) == e.mode # "gitlink"

\* The first pass: for each deleted path, the first added one of the same content.
ExactPairs(a, b, gone, new) ==
  FoldLeft(LAMBDA pairs, d :
             LET free == SelectSeq(new, LAMBDA n : /\ Renameable(b[n]) /\ b[n].data = a[d].data
                                                   /\ \A x \in pairs : x[2] # n)
             IN  IF Renameable(a[d]) /\ free # <<>> THEN pairs \cup {<<d, free[1]>>} ELSE pairs,
           {}, gone)

\* The second: the most similar pair that is left, in the order of paths among equals.
BestAnyScore(pairs, a, b, gone, new) ==
  CHOOSE x \in pairs : TRUE
Best(pairs, a, b, gone, new) ==
  LET score(x) == Similarity(a[x[1]].data, b[x[2]].data)
      rank(x)  == <<IndexFirstSubSeq(<<x[1]>>, gone), IndexFirstSubSeq(<<x[2]>>, new)>>
  IN  CHOOSE x \in pairs : \A y \in pairs \ {x} :
        \/ score(x) > score(y)
        \/ score(x) = score(y) /\ (rank(x)[1] < rank(y)[1] \/ (rank(x)[1] = rank(y)[1] /\ rank(x)[2] < rank(y)[2]))

RECURSIVE SimilarPairs(_, _, _, _, _)
SimilarPairs(left, a, b, gone, new) ==
  IF left = {} THEN {}
  ELSE LET x == Best(left, a, b, gone, new)
       IN  {x} \cup SimilarPairs({y \in left : y[1] # x[1] /\ y[2] # x[2]}, a, b, gone, new)

\* detect_renames.
Renames(a, b) ==
  LET gone  == WithStatus(a, b, "deleted")
      new   == WithStatus(a, b, "added")
      exact == ExactPairs(a, b, gone, new)
      ds    == {d \in Range(gone) : \A x \in exact : x[1] # d}
      ns    == {n \in Range(new) : \A x \in exact : x[2] # n}
      pairs == {x \in ds \X ns : /\ Renameable(a[x[1]]) /\ Renameable(b[x[2]])
                                 /\ Similarity(a[x[1]].data, b[x[2]].data) >= Threshold}
  IN  IF Threshold = 0 \/ Cardinality(ds) * Cardinality(ns) > Limit THEN exact
      ELSE exact \cup SimilarPairs(pairs, a, b, gone, new)

-----------------------------------------------------------------------------
(* What they promise. *)

Only(e) == [NoStages EXCEPT ![0] = e]

\* The three-way rule for one path: what one side alone changed is taken, what
\* both changed alike is taken once, and anything else is a conflict with its
\* three versions, or one file with the changes of both.
PathMerged(p) ==
  LET b == base[p]
      o == ours[p]
      t == theirs[p]
      r == stages[p]
  IN  IF o = t \/ t = b THEN r = Only(o)
      ELSE IF o = b THEN r = Only(t)
      ELSE \/ r = <<b, o, t>> @@ (0 :> Absent)
           \/ /\ Absent \notin {o, t, r[0]} /\ {o.mode, t.mode} \subseteq Regular
              /\ r = Only(r[0]) /\ r[0].mode = o.mode
              /\ \A l \in Range(r[0].data) : l \in Range(o.data) \cup Range(t.data)

\* A path's state, and the one it has with the sides exchanged: both are conflicts
\* or none is, and no change is lost where lines were merged.
EvenHanded(s, swapped, p) ==
  /\ s \in Conflicts <=> swapped \in Conflicts
  /\ Absent \notin {ours[p], theirs[p]} /\ ours[p].mode \in Regular /\ s \in {"merged", "content conflict"}
       => BothPreserved(IF base[p] = Absent THEN <<>> ELSE base[p].data, ours[p].data, theirs[p].data)

\* src/merge/tree.rs:3-40, src/merge/file.rs:3-30: no side's change is lost, in a
\* line, a file or a tree; which side is ours does not decide what conflicts; and
\* a tree comes of it exactly when nothing is left unmerged, the one in the index.
\* A mode that theirs alone changed is lost where both changed the content.
MergeSound ==
  /\ doing = "merge" /\ todo = 0 => \A p \in Path :
       EvenHanded(Decide(base[p], ours[p], theirs[p]).state, Decide(base[p], theirs[p], ours[p]).state, p)
  /\ doing \in {"merged", "conflicted"} =>
       /\ \A p \in Path : PathMerged(p)
       /\ doing = "merged" <=> \A p \in Path : ~Unmerged(p)
       /\ doing = "merged" => merged = [p \in Path |-> Staged(p)]

\* The file at a path; an empty directory is none, unless the index has the path.
FileAt(p) == IF worktree[p] # Absent /\ worktree[p].mode = "directory" /\ Staged(p) = Absent THEN Absent ELSE worktree[p]

\* src/worktree/status.rs:125-150: a path with nothing to report is the same in
\* HEAD, index and working tree; an unmerged path is reported as such and a file
\* the index does not have as untracked.  status and diff, which read the three by
\* code of their own (src/diff/mod.rs:179-469), agree on what has changed.  Excepted is an unmerged path that HEAD
\* does not have: it is reported as untracked, or not at all.
StatusTruthful ==
  doing \in {"merged", "conflicted", "failed", "edited"} => \A p \in Path :
    /\ Rows(p) = {} => \/ HeadEntry(p) = Staged(p) /\ ~Unmerged(p) /\ FileAt(p) = Staged(p)
                       \/ HeadEntry(p) = Absent /\ Unmerged(p) /\ FileAt(p) = Absent
    /\ Unmerged(p) /\ HeadEntry(p) # Absent => <<"unchanged", "conflicted">> \in Rows(p)
    /\ ~Unmerged(p) => Cardinality(Rows(p)) <= IF HeadEntry(p) # Absent /\ Staged(p) = Absent THEN 2 ELSE 1
    /\ ~Unmerged(p) /\ FileAt(p) # Absent
         => ((\E r \in Rows(p) : r[2] = "untracked") <=> Staged(p) = Absent)
    /\ ~Unmerged(p) => /\ p \in DiffTreeIndex <=> IndexState(HeadEntry(p), Staged(p)) # "unchanged"
                       /\ p \in DiffIndexWorkdir <=> \E r \in Rows(p) : r[2] \notin {"unchanged", "untracked"}
                       /\ p \in DiffTreeWorkdir => p \in DiffTreeIndex \cup DiffIndexWorkdir

\* src/diff/rename.rs:89-93: no file is renamed twice, and no two files are left
\* that are more like each other than what they were paired with.
RenamesStable ==
  doing = "merge" /\ todo = 0 =>
    LET pairs == Renames(base, ours)
        alike(d, n) == IF base[d].data = ours[n].data THEN 101
                       ELSE Similarity(base[d].data, ours[n].data)
    IN  /\ \A x, y \in pairs : x # y => x[1] # y[1] /\ x[2] # y[2]
        /\ \A x \in pairs : alike(x[1], x[2]) >= Threshold
        /\ \A d, n \in Path :
             /\ DiffStatus(base[d], ours[d]) = "deleted" /\ Renameable(base[d])
             /\ DiffStatus(base[n], ours[n]) = "added" /\ Renameable(ours[n])
             /\ alike(d, n) >= Threshold
             => \E x \in pairs : (x[1] = d \/ x[2] = n) /\ alike(x[1], x[2]) >= alike(d, n)
=============================================================================
