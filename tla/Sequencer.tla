----------------------------- MODULE Sequencer -----------------------------
(***************************************************************************)
(* The sequencer (src/sequencer.rs) under cherry-pick, revert and rebase:  *)
(* a list of picks worked through by commands that stop at a conflict, are *)
(* continued or aborted, and may die at any step; all that one command     *)
(* tells the next is in files.  HEAD stays on one branch.                  *)
(*                                                                         *)
(* A commit is its history, root first: the entries <<tree, message>> that *)
(* its hash covers, so its parent is its front.  A tree gives every path a *)
(* content; lines within a file are not told apart.                        *)
(***************************************************************************)
EXTENDS Naturals, Sequences, FiniteSets, SequencesExt

CONSTANTS
  Path, Content,
  Unmerged,       \* the merge of a path in conflict, and a file with its markers
  None,
  Tips,           \* where the branch may be at first
  Picks,          \* what cherry-pick and revert are asked for: [revert, todo]
  Ontos,          \* what rebase is asked for
  Resolution,     \* what the user may settle a conflict with
  CommitsFirst,   \* the user commits a resolution before --continue
  Word,           \* what messages are made of
  MaxSequences, MaxCrashes, MaxEdits

\* What a commit may be; a root is not picked here (its parent would be the empty tree).
Message  == Seq(Word)
Entries  == [tree : [Path -> Content], msg : Message]
Commit   == Seq(Entries) \ {<<>>}
Pickable == {c \in Commit : Len(c) > 1}

ASSUME SequencerAssumption ==
  /\ Tips \cup Ontos \subseteq Commit
  /\ \A c, d \in Tips \cup Ontos : c[1] = d[1]
  /\ Picks \subseteq [revert : BOOLEAN, todo : Seq(Pickable)]
  /\ None \notin Commit \cup {"start", "continue", "abort"}
  /\ {"Revert", "user"} \subseteq Word
  /\ Unmerged \notin Content /\ None \notin Content
  /\ Resolution \subseteq Content
  /\ CommitsFirst \in BOOLEAN
  /\ MaxSequences \in Nat /\ MaxCrashes \in Nat /\ MaxEdits \in Nat

VARIABLES
  tip,      \* the branch HEAD points at
  index,    \* Path -> content of stage 0, or Unmerged where there is none
  stages,   \* the paths that have stages 1 to 3
  work,     \* Path -> content or Unmerged
  seen,     \* the paths whose stat in the index is that of their file
  marker,   \* CHERRY_PICK_HEAD or REVERT_HEAD (with MERGE_MSG): a commit
  exists,   \* whether .git/sequencer exists
  file,     \* the files in it: name -> content
  pc,
  cmd,      \* the command that runs
  mem,      \* its State
  head,     \* the tip it read
  target,   \* the tree it makes or checks out
  saved,    \* how many state files its save has written
  sofar,    \* ghost: where the sequence began, what it is to do, what it has dealt with
  count     \* [sequences, crashes, edits], and torn: a crash left half the state files

repo  == <<tip, index, stages, work, seen, marker>>
state == <<exists, file>>
proc  == <<cmd, mem, head, target, saved>>
vars  == <<repo, state, pc, proc, sofar, count>>

Tree(c)   == Last(c).tree
Parent(c) == Front(c)
Entry(tree, msg) == [tree |-> tree, msg |-> msg]

\* The two directions a commit is applied in, and the message each gives.
Base(c, revert)   == IF revert THEN Tree(c) ELSE Tree(Parent(c))
Theirs(c, revert) == IF revert THEN Tree(Parent(c)) ELSE Tree(c)
Msg(c, revert)    == IF revert THEN <<"Revert">> \o Last(c).msg ELSE Last(c).msg

\* merge_tree at the grain of files.
Merge(base, ours, theirs) ==
  [p \in Path |->
     IF ours[p] = theirs[p] \/ theirs[p] = base[p] THEN ours[p]
     ELSE IF ours[p] = base[p] THEN theirs[p] ELSE Unmerged]

MergeBase(c, d)   == SubSeq(c, 1, Cardinality({i \in DOMAIN c : IsPrefix(SubSeq(c, 1, i), d)}))
ToReplay(c, base) == [i \in 1..(Len(c) - Len(base)) |-> SubSeq(c, 1, Len(base) + i)]

\* plan_inner: paths that would change and whose file has another stat and other
\* bytes than the index; an unmerged path counts as untracked.
Blocked(tree) ==
  {p \in Path : index[p] # tree[p]
                   /\ (index[p] = Unmerged \/ (p \notin seen /\ work[p] # index[p]))}

EmptyState == [orig |-> None, onto |-> None, todo |-> <<>>, done |-> <<>>,
               current |-> None, revert |-> FALSE]

-----------------------------------------------------------------------------
(* State::save and State::load.                                            *)

Files == <<"head-name", "orig-head", "onto", "todo", "done", "current", "mode">>

Value(m, f) ==
  CASE f = "head-name" -> "branch"
    [] f = "orig-head" -> m.orig
    [] f = "onto"      -> m.onto
    [] f = "todo"      -> m.todo
    [] f = "done"      -> m.done
    [] f = "current"   -> m.current
    [] f = "mode"      -> m.revert

\* No current commit, or a sequence that does not revert, is an absent file.
Absent(m, f) == \/ f = "current" /\ m.current = None
                \/ f = "mode" /\ ~m.revert

Saved(m, f) ==
  IF Absent(m, f) THEN [g \in DOMAIN file \ {f} |-> file[g]]
  ELSE [g \in DOMAIN file \cup {f} |-> IF g = f THEN Value(m, f) ELSE file[g]]

FileOr(f, default) == IF f \in DOMAIN file THEN file[f] ELSE default

Loadable == exists /\ {"head-name", "orig-head", "onto"} \subseteq DOMAIN file

Loaded == [orig |-> file["orig-head"], onto |-> file["onto"],
           todo |-> FileOr("todo", <<>>), done |-> FileOr("done", <<>>),
           current |-> FileOr("current", None), revert |-> FileOr("mode", FALSE)]

-----------------------------------------------------------------------------
Init ==
  /\ tip \in Tips
  /\ index = Tree(tip) /\ stages = {} /\ work = Tree(tip) /\ marker = None
  /\ seen = Path
  /\ exists = FALSE /\ file = [f \in {} |-> ""]
  /\ pc = "idle" /\ cmd = None /\ mem = EmptyState /\ head = <<>>
  /\ target = None /\ saved = 0
  /\ sofar = [from |-> tip, base |-> tip, goal |-> <<>>, revert |-> FALSE, dealt |-> {}]
  /\ count = [sequences |-> 0, crashes |-> 0, edits |-> 0, torn |-> FALSE]

At(phase)   == pc = phase
GoTo(phase) == pc' = phase
Pick        == mem.todo[1]

\* The command ends.
End ==
  /\ GoTo("idle")
  /\ cmd' = None /\ mem' = EmptyState /\ head' = <<>> /\ target' = None /\ saved' = 0

Deal(c) == sofar' = [sofar EXCEPT !.dealt = @ \cup {c}]
Bump(n) == count' = [count EXCEPT ![n] = @ + 1]

-----------------------------------------------------------------------------
(* Plausible bugs.  Not part of the specification: actions as a slip in    *)
(* the code would have them, kept to show that the properties tell the two *)
(* apart.                                                                  *)

\* A pick that changes nothing is committed all the same.
OutcomeNeverEmpty(c, revert) ==
  LET merged == Merge(Base(c, revert), Tree(tip), Theirs(c, revert))
  IN  IF \E p \in Path : merged[p] = Unmerged THEN "conflict" ELSE "clean"

\* The pick is off the todo list on disk before its commit is made.
ApplyPopFirst ==
  /\ At("loop") /\ mem.todo # <<>>
  /\ file' = [file EXCEPT !["todo"] = Tail(mem.todo)]
  /\ head' = tip
  /\ GoTo("merge")
  /\ UNCHANGED <<repo, exists, cmd, mem, target, saved, sofar, count>>

\* --abort goes back to where the picks were applied.
AbortToOnto ==
  /\ At("abort")
  /\ tip' = mem.onto
  /\ target' = Tree(mem.onto)
  /\ GoTo("forcework")
  /\ UNCHANGED <<index, stages, work, seen, marker, state, cmd, mem, head, saved, sofar, count>>

-----------------------------------------------------------------------------
(* cherry-pick, revert and rebase start.                                   *)

\* run_fresh of cherry-pick and of revert.  A sequence under way is a refusal.
StartPicks ==
  /\ At("idle") /\ ~exists
  /\ count.sequences < MaxSequences
  /\ \E s \in Picks :
       /\ mem' = [EmptyState EXCEPT !.orig = tip, !.onto = tip,
                                    !.todo = s.todo, !.revert = s.revert]
       /\ sofar' = [from |-> tip, base |-> tip, goal |-> s.todo, revert |-> s.revert, dealt |-> {}]
  /\ cmd' = "start" /\ Bump("sequences")
  /\ GoTo("save")
  /\ UNCHANGED <<repo, state, head, target, saved>>

\* rebase: nothing to do on its own base, a fast-forward on a descendant, and
\* otherwise the branch moves first, then the files, and the state is saved last.
StartRebase ==
  /\ At("idle") /\ ~exists
  /\ count.sequences < MaxSequences
  /\ \E onto \in Ontos :
       LET base == MergeBase(tip, onto) IN
       /\ onto # tip
       /\ target' = Tree(onto)
       /\ mem' = [EmptyState EXCEPT !.orig = tip, !.onto = onto, !.todo = ToReplay(tip, base)]
       /\ GoTo(IF base = tip THEN "ffcheck" ELSE "rewind")
       /\ sofar' = [from |-> tip, base |-> onto, goal |-> ToReplay(tip, base),
                    revert |-> FALSE, dealt |-> {}]
  /\ cmd' = "start" /\ Bump("sequences")
  /\ UNCHANGED <<repo, state, head, saved>>

FastForwardCheck ==
  /\ At("ffcheck")
  /\ IF Blocked(target) = {} THEN GoTo("ffwork") /\ UNCHANGED proc ELSE End
  /\ UNCHANGED <<repo, state, sofar, count>>

FastForward ==
  /\ At("ffref")
  /\ tip' = mem.onto
  /\ End
  /\ UNCHANGED <<index, stages, work, seen, marker, state, sofar, count>>

Rewind ==
  /\ At("rewind")
  /\ tip' = mem.onto
  /\ GoTo("rewindcheck")
  /\ UNCHANGED <<index, stages, work, seen, marker, state, proc, sofar, count>>

RewindCheck ==
  /\ At("rewindcheck")
  /\ IF Blocked(target) = {} THEN GoTo("rewindwork") /\ UNCHANGED proc ELSE End
  /\ UNCHANGED <<repo, state, sofar, count>>

-----------------------------------------------------------------------------
(* The loop over todo, the same in run_fresh, drive_loop and cont.         *)

\* One file after the other; the directory is made first.
SaveFile ==
  /\ At("save") /\ saved < Len(Files)
  /\ exists' = TRUE
  /\ file' = Saved(mem, Files[saved + 1])
  /\ saved' = saved + 1
  /\ UNCHANGED <<repo, pc, cmd, mem, head, target, sofar, count>>

\* A conflict, now recorded, ends the command; otherwise it goes on.
SaveDone ==
  /\ At("save") /\ saved = Len(Files)
  /\ IF mem.current # None
       THEN End
       ELSE GoTo("loop") /\ saved' = 0 /\ UNCHANGED <<cmd, mem, head, target>>
  /\ UNCHANGED <<repo, state, sofar, count>>

LoopDone ==
  /\ At("loop") /\ mem.todo = <<>>
  /\ GoTo("cleanup")
  /\ UNCHANGED <<repo, state, proc, sofar, count>>

\* apply_commit reads HEAD and its branch ...
Apply ==
  /\ At("loop") /\ mem.todo # <<>>
  /\ head' = tip
  /\ GoTo("merge")
  /\ UNCHANGED <<repo, state, cmd, mem, target, saved, sofar, count>>

\* ... and merges: the pick is empty, conflicts, or gives a tree.
Outcome(c, revert) ==
  LET merged == Merge(Base(c, revert), Tree(head), Theirs(c, revert)) IN
  IF Theirs(c, revert) = Tree(head) THEN "empty"
  ELSE IF \E p \in Path : merged[p] = Unmerged THEN "conflict"
  ELSE IF merged = Tree(head) THEN "empty" ELSE "clean"

MergeEmpty ==
  /\ At("merge") /\ Outcome(Pick, mem.revert) = "empty"
  /\ mem' = [mem EXCEPT !.todo = Tail(@)]
  /\ Deal(Msg(Pick, mem.revert))
  /\ GoTo("save")
  /\ UNCHANGED <<repo, state, cmd, head, target, saved, count>>

\* A clean merge is checked out, unless that would lose a local change: then the
\* command ends, and the state stays.
MergeClean ==
  /\ At("merge") /\ Outcome(Pick, mem.revert) = "clean"
  /\ LET tree == Merge(Base(Pick, mem.revert), Tree(head), Theirs(Pick, mem.revert)) IN
       IF Blocked(tree) = {}
         THEN /\ target' = tree
              /\ GoTo("pickwork")
              /\ UNCHANGED <<cmd, mem, head, saved>>
         ELSE End
  /\ UNCHANGED <<repo, state, sofar, count>>

\* A conflict is written into its files, whatever they hold; a file that only
\* theirs changed is not written ...
MergeConflict ==
  /\ At("merge") /\ Outcome(Pick, mem.revert) = "conflict"
  /\ target' = Merge(Base(Pick, mem.revert), Tree(head), Theirs(Pick, mem.revert))
  /\ work' = [p \in Path |-> IF target'[p] = Unmerged THEN Unmerged ELSE work[p]]
  /\ seen' = {p \in seen : target'[p] # Unmerged}
  /\ GoTo("conflictindex")
  /\ UNCHANGED <<tip, index, stages, marker, state, cmd, mem, head, saved, sofar, count>>

\* ... then the index, then CHERRY_PICK_HEAD and MERGE_MSG, then the state.
ConflictIndex ==
  /\ At("conflictindex")
  /\ index' = target /\ stages' = {p \in Path : target[p] = Unmerged} /\ seen' = {}
  /\ GoTo("conflictmarker")
  /\ UNCHANGED <<tip, work, marker, state, proc, sofar, count>>

ConflictMarker ==
  /\ At("conflictmarker")
  /\ marker' = Pick
  /\ mem' = [mem EXCEPT !.todo = Tail(@), !.current = Pick]
  /\ GoTo("save")
  /\ UNCHANGED <<tip, index, stages, work, seen, state, cmd, head, target, saved, sofar, count>>

\* checkout_tree: first the files, then the index, from the plan made before.
After == [pickwork |-> "pickindex", rewindwork |-> "rewindindex", ffwork |-> "ffindex",
          forcework |-> "forceindex", pickindex |-> "pickref", rewindindex |-> "save",
          ffindex |-> "ffref", forceindex |-> "cleanup"]

CheckoutWork ==
  /\ pc \in {"pickwork", "rewindwork", "ffwork", "forcework"}
  /\ work' = [p \in Path |-> IF index[p] # target[p] THEN target[p] ELSE work[p]]
  /\ seen' = {p \in seen : index[p] = target[p]}
  /\ GoTo(After[pc])
  /\ UNCHANGED <<tip, index, stages, marker, state, proc, sofar, count>>

\* The new index takes the stat of every file, written or not.
CheckoutIndex ==
  /\ pc \in {"pickindex", "rewindindex", "ffindex", "forceindex"}
  /\ index' = target /\ stages' = {} /\ seen' = Path
  /\ GoTo(After[pc])
  /\ UNCHANGED <<tip, work, marker, state, proc, sofar, count>>

\* The branch moves from the tip that was read to the new commit.
MoveBranch ==
  /\ At("pickref")
  /\ IF tip = head
       THEN /\ tip' = Append(head, Entry(target, Msg(Pick, mem.revert)))
            /\ GoTo("unmark")
            /\ Deal(Msg(Pick, mem.revert))
            /\ UNCHANGED proc
       ELSE End /\ UNCHANGED <<tip, sofar>>
  /\ UNCHANGED <<index, stages, work, seen, marker, state, count>>

Unmark ==
  /\ At("unmark")
  /\ marker' = None
  /\ mem' = [mem EXCEPT !.todo = Tail(@), !.done = Append(@, Pick)]
  /\ GoTo("save")
  /\ UNCHANGED <<tip, index, stages, work, seen, state, cmd, head, target, saved, sofar, count>>

-----------------------------------------------------------------------------
(* --continue and --abort.                                                 *)

\* The pick that conflicted is taken to be committed; that its conflicts are
\* resolved is the user's part.
Continue ==
  /\ At("idle") /\ Loadable
  /\ Loaded.current # None =>
       /\ \A p \in Path : index[p] # Unmerged
       /\ CommitsFirst => /\ index = Tree(tip)
                          /\ Msg(Loaded.current, sofar.revert) \in sofar.dealt
  /\ mem' = [Loaded EXCEPT !.current = None,
                           !.done = @ \o IF Loaded.current = None THEN <<>>
                                         ELSE <<Loaded.current>>]
  /\ cmd' = "continue"
  /\ GoTo(IF Loaded.current = None THEN "loop" ELSE "save")
  /\ UNCHANGED <<repo, state, head, target, saved, sofar, count>>

StartAbort ==
  /\ At("idle") /\ Loadable
  /\ mem' = Loaded
  /\ sofar' = [sofar EXCEPT !.goal = <<>>]
  /\ cmd' = "abort"
  /\ GoTo("abort")
  /\ UNCHANGED <<repo, state, head, target, saved, count>>

\* The branch goes back whatever it points at, then files and index by force.
Abort ==
  /\ At("abort")
  /\ tip' = mem.orig
  /\ target' = Tree(mem.orig)
  /\ GoTo("forcework")
  /\ UNCHANGED <<index, stages, work, seen, marker, state, cmd, mem, head, saved, sofar, count>>

\* State::cleanup: remove_dir_all takes the files in any order, then the markers go.
RemoveFile ==
  /\ At("cleanup") /\ exists
  /\ IF DOMAIN file = {}
       THEN exists' = FALSE /\ UNCHANGED file
       ELSE /\ \E f \in DOMAIN file : file' = [g \in DOMAIN file \ {f} |-> file[g]]
            /\ UNCHANGED exists
  /\ UNCHANGED <<repo, pc, proc, sofar, count>>

Finish ==
  /\ At("cleanup") /\ ~exists
  /\ marker' = None
  /\ End
  /\ UNCHANGED <<tip, index, stages, work, seen, state, sofar, count>>

-----------------------------------------------------------------------------
(* The user between two commands, and what may kill a command.             *)

\* A conflicted file is edited and added: add writes stage 0 and leaves stages 1
\* to 3 where they are; the user may clear them with rm --cached or git's own add.
Resolve ==
  /\ At("idle")
  /\ \E p \in Path, c \in Resolution :
       /\ p \in stages \/ work[p] = Unmerged
       /\ work' = [work EXCEPT ![p] = c] /\ index' = [index EXCEPT ![p] = c]
       /\ stages' \in {stages, stages \ {p}}
       /\ seen' = seen \cup {p}
  /\ UNCHANGED <<tip, marker, state, pc, proc, sofar, count>>

\* The commits of the user in different sequences are told apart.
UserMsg == [i \in 1 .. (count.sequences + 1) |-> "user"]

\* commit: no stages; nothing to commit where the tree is the tip's, and then the
\* user takes the conflict to be settled all the same.
UserCommit ==
  /\ At("idle")
  /\ stages = {} /\ marker # None
  /\ index # Tree(tip) \/ Msg(marker, sofar.revert) \notin sofar.dealt
  /\ tip' = IF index = Tree(tip) THEN tip ELSE Append(tip, Entry(index, UserMsg))
  /\ Deal(Msg(marker, sofar.revert))
  /\ UNCHANGED <<index, stages, work, seen, marker, state, pc, proc, count>>

\* A file is edited and not added.
Edit ==
  /\ At("idle") /\ ~exists
  /\ count.edits < MaxEdits /\ Bump("edits")
  /\ \E p \in Path, c \in Resolution :
       /\ work[p] = index[p] /\ c # work[p]
       /\ work' = [work EXCEPT ![p] = c] /\ seen' = seen \ {p}
  /\ UNCHANGED <<tip, index, stages, marker, state, pc, proc, sofar>>

Tearing == \/ At("save") /\ saved \in 1..(Len(Files) - 1)
           \/ At("cleanup")

\* SIGKILL, SIGINT or power loss.
Crash ==
  /\ ~At("idle")
  /\ count.crashes < MaxCrashes
  /\ count' = [count EXCEPT !.crashes = @ + 1, !.torn = @ \/ Tearing]
  /\ End
  /\ UNCHANGED <<repo, state, sofar>>

Loop ==
  \/ SaveFile   \/ SaveDone   \/ LoopDone      \/ Apply         \/ MergeEmpty
  \/ MergeClean \/ MergeConflict \/ ConflictIndex \/ ConflictMarker
  \/ CheckoutWork \/ CheckoutIndex \/ MoveBranch \/ Unmark

Next ==
  \/ StartPicks \/ StartRebase \/ FastForwardCheck \/ FastForward \/ Rewind \/ RewindCheck
  \/ Loop
  \/ Continue \/ StartAbort \/ Abort \/ RemoveFile \/ Finish
  \/ Resolve \/ UserCommit \/ Edit \/ Crash

Spec == Init /\ [][Next]_vars

-----------------------------------------------------------------------------
(* Properties.                                                             *)

Goal == [i \in 1..Len(sofar.goal) |-> Msg(sofar.goal[i], sofar.revert)]

\* A sequence that ends well has dealt with every commit it was asked for, over
\* any number of conflicts, crashes and continuations: each was committed by a
\* pick, found to change nothing, or settled in a commit of the user's.  A crash that
\* leaves half of the state files is excepted, here and in WrittenAhead.
FinishedApplied ==
  [][Finish /\ cmd # "abort" /\ ~count.torn
       => Range(Goal) \subseteq sofar.dealt]_vars

\* The commits a sequence put on the branch are the ones asked for, in their order
\* and none twice, however often a command died and was continued: a pick whose
\* commit was made before the crash is found to be empty when it is run again.
PicksOnceInOrder ==
  IsPrefix(sofar.base, tip) /\ IsInjective(Goal) =>
    \A i, j \in DOMAIN tip, k, l \in DOMAIN Goal :
      /\ Len(sofar.base) < i /\ i < j
      /\ tip[i].msg = Goal[k] /\ tip[j].msg = Goal[l]
      => k < l

\* Before a pick moves the branch the state on disk can undo it and resume at it:
\* it names where the branch was, and the pick is still to do.
WrittenAhead ==
  At("pickref") /\ ~count.torn =>
    /\ Loadable
    /\ Loaded.orig = sofar.from /\ Loaded.revert = sofar.revert
    /\ Loaded.todo # <<>> /\ Loaded.todo[1] = Pick

\* Both: a sequence is neither run twice nor out of order, nor beyond what can be
\* undone (sequencer.rs:1-20).
PicksSafe == PicksOnceInOrder /\ WrittenAhead

\* --abort puts branch and index back where the sequence began, whatever picks,
\* conflicts, crashes and commits came between, and leaves no state.
AbortRestores ==
  [][cmd = "abort" /\ pc' = "idle" /\ count'.crashes = count.crashes
       => /\ tip' = sofar.from /\ index' = Tree(sofar.from) /\ stages' = {}
          /\ ~exists' /\ marker' = None]_vars

=============================================================================
