------------------------------ MODULE WorkTree ------------------------------
(***************************************************************************)
(* The working tree, the index and HEAD under the commands that change     *)
(* them: the checkout engine (src/unpack_trees.rs) with its shadow         *)
(* directory, and switch, checkout, reset, restore, read-tree, stash, add, *)
(* rm, mv, clean and commit on top of it.  One command runs at a time,     *)
(* the user edits between commands, a command may die or a system call     *)
(* fail at any step.                                                       *)
(*                                                                         *)
(* A blob is its content, a commit its tree.  A file carries a flag: the   *)
(* size and mtime the index has for its path were taken from this very     *)
(* file (stat_matches_index), and the flag moves with a rename.            *)
(***************************************************************************)
EXTENDS Naturals, Sequences, FiniteSets, SequencesExt, Functions

CONSTANTS
  Path, Content,
  Typed,          \* the contents the user may type, each new
  Dir,            \* a directory where a file is expected
  Branch,
  None,
  Tips,           \* where the branches may be at first; None: no such branch
  Commands,       \* the commands the user may run
  MaxCommands, MaxEdits,
  MaxFaults       \* system calls that fail, and crashes

Tree == [Path -> Content \cup {None}]
File == [data : Content \cup {Dir}, stat : BOOLEAN]

ASSUME WorkTreeAssumption ==
  /\ Typed \subseteq Content /\ Dir \notin Content
  /\ None \notin Content \cup Branch \cup Tree \cup File
  /\ \A b \in Branch : b \notin Tree
  /\ Tips \subseteq [Branch -> Tree \cup {None}]
  /\ {MaxCommands, MaxEdits, MaxFaults} \subseteq Nat

VARIABLES
  work,     \* Path -> File or None
  index,    \* Path -> content or None
  head,     \* the branch HEAD names, or the tree it is detached at
  tip,      \* Branch -> tree or None
  stored,   \* the blobs in the object store
  stash,    \* the reflog of refs/stash, oldest first: [w, i, u], and what was there
  pc, cmd,  \* the command that runs and the checkouts it has left
  plan,     \* [create, update, delete], and the paths left in this phase
  shadow,   \* Path -> the original moved to checkout.tmp
  placed,   \* the new files moved in
  restored, \* whether every step of a rollback worked
  stranded, \* contents in the checkout.tmp of dead commands
  recovered,\* contents in checkout.recover
  ghost     \* what was typed, given up or hidden; the start of the command; counts

disk   == <<index, head, tip, stored, stash>>
engine == <<plan, shadow, placed, restored>>
vars   == <<work, disk, pc, cmd, engine, stranded, recovered, ghost>>

NoTree  == [p \in Path |-> None]
NoFiles == [p \in Path |-> None]
NoPlan  == [create |-> {}, update |-> {}, delete |-> {}, todo |-> {}]
Idle    == [op |-> "none", passes |-> <<>>]

Data(files)   == {files[p].data : p \in {q \in Path : files[q] # None}}
New(c)        == [data |-> c, stat |-> FALSE]
IsDir(p)      == work[p] # None /\ work[p].data = Dir
SameData(f, g) == IF f = None \/ g = None THEN f = g ELSE f.data = g.data
IsFile(p)     == work[p] # None /\ ~IsDir(p)
HeadTree      == IF head \in Branch THEN tip[head] ELSE head

\* One checkout: tree, the options, and the paths of the filter.
Pass(tree, force, keep, wd, ix) ==
  [tree |-> tree, force |-> force, keep |-> keep, wd |-> wd, ix |-> ix, paths |-> Path]
Checkout(tree, force) == Pass(tree, force, FALSE, TRUE, TRUE)
Mixed(tree)           == Pass(tree, TRUE, FALSE, FALSE, TRUE)

-----------------------------------------------------------------------------
(* The engine: plan_inner and apply_inner.                                 *)

\* workdir_state: a file counts as unchanged when its size and mtime are those
\* in the index, and is hashed only otherwise.
CleanMatch(p) == work[p].stat \/ work[p].data = index[p]

\* What status shows of a file, by the same rule.
WorktreeState(p) ==
  CASE index[p] = None -> IF IsFile(p) THEN "untracked" ELSE "unchanged"
    [] index[p] # None /\ work[p] = None -> "deleted"
    [] index[p] # None /\ IsDir(p)  -> "type changed"
    [] index[p] # None /\ IsFile(p) -> IF CleanMatch(p) THEN "unchanged" ELSE "modified"

Untracked == {p \in Path : WorktreeState(p) = "untracked"}

PlanOf(k) ==
  [create |-> {p \in k.paths : k.tree[p] # None /\ index[p] = None},
   update |-> {p \in k.paths : k.tree[p] # None /\ index[p] \notin {None, k.tree[p]}},
   delete |-> {p \in k.paths : ~k.keep /\ k.tree[p] = None /\ index[p] # None},
   todo   |-> {}]

Conflicts(k) ==
  LET here == {p \in Path : k.wd /\ work[p] # None} IN
  (PlanOf(k).create \cap here)
    \cup {p \in (PlanOf(k).update \cup PlanOf(k).delete) \cap here :
            IsDir(p) \/ ~CleanMatch(p)}

Forgets  == [ghost EXCEPT !.result = "none", !.op = "none", !.arg = None, !.before = None,
                          !.pushed = None]

\* No property looks back on the other commands.
Remembered(result) ==
  IF \/ result \in {"refused", "failed", "recovered"}
     \/ result = "done" /\ cmd.op \in {"switch", "switch -c", "detach", "pop"}
  THEN [ghost EXCEPT !.result = result]
  ELSE IF result = "done" /\ cmd.op = "push"
  THEN [ghost EXCEPT !.result = result, !.before = None, !.arg = None]
  ELSE Forgets

\* The command is over: exit code and message only.
Exit(result) ==
  /\ pc' = "idle" /\ cmd' = Idle
  /\ plan' = NoPlan /\ shadow' = NoFiles /\ placed' = {} /\ restored' = TRUE
  /\ ghost' = Remembered(result)

Lost ==
  /\ ghost.faults < MaxFaults
  /\ pc' = "idle" /\ cmd' = Idle
  /\ plan' = NoPlan /\ shadow' = NoFiles /\ placed' = {} /\ restored' = TRUE
  /\ ghost' = [Forgets EXCEPT !.faults = @ + 1]

\* A plausible bug: a plan that conflicts is carried out all the same.
GoesAhead(k) == TRUE

Allowed(k) == k.force \/ Conflicts(k) = {}

Refuse ==
  /\ pc = "plan" /\ ~Allowed(Head(cmd.passes))
  /\ Exit("refused")
  /\ UNCHANGED <<work, disk, stranded, recovered>>

\* What the plan displaces is given up when forced.  A stash push has stored it,
\* save an untracked file where HEAD has one.  What is displaced unforced is
\* taken for clean: hidden, when the stat alone says so.
Displaced(k) ==
  LET due == PlanOf(k)
      gone == {q \in due.create \cup due.update \cup due.delete : k.wd /\ IsFile(q)}
  IN  IF ~k.force THEN [released |-> {}, hidden |-> gone]
      ELSE IF cmd.op = "push" THEN [released |-> gone \cap due.create, hidden |-> {}]
      ELSE [released |-> gone, hidden |-> {}]

Plan ==
  LET k == Head(cmd.passes) IN
  /\ pc = "plan" /\ Allowed(k)
  /\ plan' = [PlanOf(k) EXCEPT !.todo = IF k.wd THEN PlanOf(k).update \cup PlanOf(k).delete ELSE {}]
  /\ pc' = IF k.wd THEN "aside" ELSE "index"
  /\ ghost' = [ghost EXCEPT
       !.released = @ \cup {work[q].data : q \in Displaced(k).released},
       !.hidden   = @ \cup {work[q].data : q \in {r \in Displaced(k).hidden : work[r].stat /\ work[r].data # index[r]}}]
  /\ UNCHANGED <<work, disk, cmd, shadow, placed, restored, stranded, recovered>>

Todo(p) == plan' = [plan EXCEPT !.todo = @ \ {p}]

Fault == /\ ghost.faults < MaxFaults
         /\ ghost' = [ghost EXCEPT !.faults = @ + 1]

\* Phase A: the originals of updated and deleted paths are renamed aside.
MoveAside ==
  /\ pc = "aside"
  /\ \E p \in plan.todo :
       /\ Todo(p)
       /\ shadow' = [shadow EXCEPT ![p] = work[p]]
       /\ work' = [work EXCEPT ![p] = None]
  /\ UNCHANGED <<disk, pc, cmd, placed, restored, stranded, recovered, ghost>>

AsideDone ==
  /\ pc = "aside" /\ plan.todo = {}
  /\ pc' = "place" /\ plan' = [plan EXCEPT !.todo = plan.create \cup plan.update]
  /\ UNCHANGED <<work, disk, cmd, shadow, placed, restored, stranded, recovered, ghost>>

\* Phase B: the new files are renamed in; over a directory a rename fails.
Place ==
  /\ pc = "place"
  /\ \E p \in plan.todo :
       /\ ~IsDir(p)
       /\ Todo(p)
       /\ work' = [work EXCEPT ![p] = New(Head(cmd.passes).tree[p])]
       /\ placed' = placed \cup {p}
  /\ UNCHANGED <<disk, pc, cmd, shadow, restored, stranded, recovered, ghost>>

RenameFails ==
  /\ \/ pc = "aside" /\ (\E p \in plan.todo : work[p] # None) /\ Fault
     \/ pc = "place" /\ plan.todo # {} /\ Fault
     \/ pc = "place" /\ (\E p \in plan.todo : IsDir(p)) /\ UNCHANGED ghost
  /\ pc' = "rollback" /\ plan' = [plan EXCEPT !.todo = {p \in Path : shadow[p] # None}]
  /\ UNCHANGED <<work, disk, cmd, shadow, placed, restored, stranded, recovered>>

\* After a checkout: the next one, or what the command does last.
NextPass == /\ cmd' = [cmd EXCEPT !.passes = Tail(@)]
            /\ pc' = IF Len(cmd.passes) > 1 THEN "plan" ELSE "finish"

\* Drop sweeps the shadow directory with the originals in it.
PlaceDone ==
  /\ pc = "place" /\ plan.todo = {}
  /\ shadow' = NoFiles /\ placed' = {}
  /\ IF Head(cmd.passes).ix THEN pc' = "index" /\ UNCHANGED cmd ELSE NextPass
  /\ UNCHANGED <<work, disk, plan, restored, stranded, recovered, ghost>>

-----------------------------------------------------------------------------
(* rollback and handle_rollback: new files removed, then originals renamed *)
(* back; any step may fail, and the others go on.                          *)

RemovePlaced ==
  /\ pc = "rollback"
  /\ \E p \in placed :
       /\ placed' = placed \ {p}
       /\ \/ work' = [work EXCEPT ![p] = None] /\ UNCHANGED <<restored, ghost>>
          \/ Fault /\ restored' = FALSE /\ UNCHANGED work
  /\ UNCHANGED <<disk, pc, cmd, plan, shadow, stranded, recovered>>

\* A plausible bug: originals come back while new files are yet to be removed.
MoveBackFirst ==
  /\ pc = "rollback"
  /\ \E p \in plan.todo :
       /\ Todo(p)
       /\ work' = [work EXCEPT ![p] = shadow[p]]
       /\ shadow' = [shadow EXCEPT ![p] = None]
  /\ UNCHANGED <<disk, pc, cmd, placed, restored, stranded, recovered, ghost>>

MoveBack ==
  /\ pc = "rollback" /\ placed = {}
  /\ \E p \in plan.todo :
       /\ Todo(p)
       /\ \/ work' = [work EXCEPT ![p] = shadow[p]]
             /\ shadow' = [shadow EXCEPT ![p] = None] /\ UNCHANGED <<restored, ghost>>
          \/ Fault /\ restored' = FALSE /\ UNCHANGED <<work, shadow>>
  /\ UNCHANGED <<disk, pc, cmd, placed, stranded, recovered>>

\* What could not be moved back is kept in checkout.recover.
UndoDone ==
  /\ pc = "rollback" /\ placed = {} /\ plan.todo = {}
  /\ recovered' = IF restored THEN recovered ELSE recovered \cup Data(shadow)
  /\ Exit(IF restored THEN "failed" ELSE "recovered")
  /\ UNCHANGED <<work, disk, stranded>>

-----------------------------------------------------------------------------
(* The index is rebuilt from the target tree.  An entry takes the size and *)
(* mtime of whatever file stands at its path, written by this checkout or  *)
(* not.                                                                    *)

Stamped(files, here, gone) ==
  [p \in Path |-> IF files[p] = None THEN None
                  ELSE [files[p] EXCEPT !.stat = p \in here \/ (@ /\ p \notin gone)]]

NewIndex(k) ==
  [p \in Path |-> IF p \notin k.paths \/ (k.keep /\ k.tree[p] = None) THEN index[p] ELSE k.tree[p]]

WriteIndex ==
  LET k == Head(cmd.passes)
      written == {p \in k.paths : k.tree[p] # None}
  IN
  /\ pc = "index"
  /\ index' = NewIndex(k)
  /\ work' = Stamped(work, written, {p \in Path : NewIndex(k)[p] = None})
  /\ NextPass
  /\ UNCHANGED <<head, tip, stored, stash, engine, stranded, recovered, ghost>>

\* index.lock is held by another process, at any step that writes the index.
IndexBusy ==
  /\ pc \in {"index", "stamp", "entry"}
  /\ Lost
  /\ UNCHANGED <<work, disk, stranded, recovered>>

-----------------------------------------------------------------------------
(* The commands built on checkouts.                                        *)

Ready(op) == /\ pc = "idle" /\ op \in Commands /\ ghost.commands < MaxCommands

\* What a checkout starts from, for the properties.
Counted(op, arg) ==
  [ghost EXCEPT !.commands = @ + 1, !.result = "none", !.op = op, !.arg = arg,
                !.before = [work |-> work, index |-> index, head |-> head],
                !.pushed = IF op = "push" THEN [work |-> work, index |-> index]
                           ELSE IF op = "pop" /\ ghost.op = "push" /\ ghost.result = "done" THEN @
                           ELSE None]

OneMore  == [Forgets EXCEPT !.commands = @ + 1]

Start(op, arg, passes) ==
  /\ Ready(op)
  /\ cmd' = [op |-> op, arg |-> arg, passes |-> passes]
  /\ pc' = IF passes = <<>> THEN "finish" ELSE "plan"
  /\ ghost' = Counted(op, arg)
  /\ UNCHANGED <<work, index, head, engine, stranded, recovered>>

Commits == {tip[b] : b \in Branch} \ {None}
Forces  == IF "force" \in Commands THEN BOOLEAN ELSE {FALSE}

Switch == \E b \in Branch, force \in Forces :
  /\ tip[b] # None
  /\ Start("switch", b, <<Checkout(tip[b], force)>>)
  /\ UNCHANGED <<tip, stored, stash>>

\* -c makes the branch before the checkout, which may be refused.
SwitchCreate == \E b \in Branch, t \in Commits, force \in Forces :
  /\ tip[b] = None
  /\ tip' = [tip EXCEPT ![b] = t]
  /\ Start("switch -c", b, <<Checkout(t, force)>>)
  /\ UNCHANGED <<stored, stash>>

Detach == \E t \in Commits, force \in Forces :
  /\ Start("detach", t, <<Checkout(t, force)>>)
  /\ UNCHANGED <<tip, stored, stash>>

\* The branch, or a detached HEAD, moves after the trees.
Reset == \E t \in Commits, mode \in {"soft", "mixed", "hard"} :
  /\ Start("reset", t, CASE mode = "soft"  -> <<>>
                         [] mode = "mixed" -> <<Mixed(t)>>
                         [] mode = "hard"  -> <<Checkout(t, TRUE)>>)
  /\ mode \in Commands
  /\ UNCHANGED <<tip, stored, stash>>

ReadTree == \E t \in Commits, u \in BOOLEAN, force \in Forces :
  /\ Start("read-tree", t, <<Pass(t, force, FALSE, u, TRUE)>>)
  /\ UNCHANGED <<tip, stored, stash>>

\* restore --source writes files only, restore --staged the index only.
RestoreFrom == \E p \in Path, t \in Commits, staged \in BOOLEAN :
  /\ Start("restore --source", p,
           <<[Pass(t, FALSE, FALSE, ~staged, staged) EXCEPT !.paths = {p}]>>)
  /\ UNCHANGED <<tip, stored, stash>>

Finish ==
  /\ pc = "finish" /\ cmd.op \notin {"push", "apply", "pop"}
  /\ head' = IF cmd.op \in {"switch", "switch -c", "detach"} THEN cmd.arg
             ELSE IF cmd.op = "reset" /\ head \notin Branch THEN cmd.arg ELSE head
  /\ tip' = IF cmd.op = "reset" /\ head \in Branch THEN [tip EXCEPT ![head] = cmd.arg] ELSE tip
  /\ Exit("done")
  /\ UNCHANGED <<work, index, stored, stash, stranded, recovered>>

-----------------------------------------------------------------------------
(* stash                                                                   *)

\* refresh_index_from_workdir: a tracked file that is missing counts as staged.
Snapshot == [p \in Path |-> IF index[p] # None /\ IsFile(p) THEN work[p].data ELSE index[p]]

\* collect_untracked, with -u.
Loose == [p \in Path |-> IF p \in Untracked THEN work[p].data ELSE None]

\* The stash is written and recorded, then HEAD's tree is forced over all.
StashPush == \E u \in {NoTree} \cup (IF "push -u" \in Commands THEN {Loose} ELSE {}) :
  LET s == [w |-> Snapshot, i |-> index, u |-> u] IN
  /\ head \in Branch /\ index # NoTree
  /\ \A p \in Path : index[p] # None => ~IsDir(p)
  /\ index # HeadTree \/ Snapshot # HeadTree \/ u # NoTree
  /\ stash' = Append(stash, s)
  /\ stored' = stored \cup ((Range(s.w) \cup Range(u)) \ {None})
  /\ Start("push", s, <<Checkout(HeadTree, TRUE)>>)
  /\ UNCHANGED tip

\* materialize_index_to_workdir, and restore from the index: one file at a time.
FilesFirst ==
  /\ pc = "finish" /\ cmd.op = "push"
  /\ pc' = "files" /\ plan' = [plan EXCEPT !.todo = {p \in Path : index[p] # None}]
  /\ UNCHANGED <<work, disk, cmd, shadow, placed, restored, stranded, recovered, ghost>>

Restore == \E P \in SUBSET {p \in Path : index[p] # None} \ {{}} :
  /\ Ready("restore")
  /\ cmd' = [op |-> "restore", arg |-> P, passes |-> <<>>]
  /\ pc' = "files" /\ plan' = [NoPlan EXCEPT !.todo = P]
  /\ ghost' = [OneMore EXCEPT
       !.released = @ \cup {work[p].data : p \in {q \in P : IsFile(q)}}]
  /\ UNCHANGED <<work, disk, shadow, placed, restored, stranded, recovered>>

WriteFile ==
  /\ pc = "files"
  /\ \E p \in plan.todo : ~IsDir(p) /\ Todo(p) /\ work' = [work EXCEPT ![p] = New(index[p])]
  /\ UNCHANGED <<disk, pc, cmd, shadow, placed, restored, stranded, recovered, ghost>>

FileFails ==
  /\ pc = "files" /\ \E p \in plan.todo : IsDir(p)
  /\ Exit("partly")
  /\ UNCHANGED <<work, disk, stranded, recovered>>

FilesDone ==
  /\ pc = "files" /\ plan.todo = {}
  /\ IF cmd.op = "push" THEN pc' = "stamp" /\ UNCHANGED <<cmd, engine, ghost>> ELSE Exit("done")
  /\ UNCHANGED <<work, disk, stranded, recovered>>

\* The index takes the stat of the written files; then what -u stashed is removed.
StampIndex ==
  /\ pc = "stamp"
  /\ work' = Stamped(work, {p \in Path : index[p] # None}, {})
  /\ pc' = "unlink" /\ plan' = [plan EXCEPT !.todo = {p \in Path : cmd.arg.u[p] # None}]
  /\ UNCHANGED <<disk, cmd, shadow, placed, restored, stranded, recovered, ghost>>

Unlink ==
  /\ pc = "unlink"
  /\ \E p \in plan.todo : Todo(p) /\ work' = [work EXCEPT ![p] = None]
  /\ UNCHANGED <<disk, pc, cmd, shadow, placed, restored, stranded, recovered, ghost>>

UnlinkDone ==
  /\ pc = "unlink" /\ plan.todo = {}
  /\ Exit("done")
  /\ UNCHANGED <<work, disk, stranded, recovered>>

\* apply and pop: the files, then the index, both forced, then the untracked.
\* A plausible bug: the index is restored from the files' snapshot.
SnapshotTwice(s) == <<Pass(s.w, TRUE, TRUE, TRUE, FALSE), Pass(s.w, TRUE, TRUE, FALSE, TRUE)>>

ApplyPasses(s) == <<Pass(s.w, TRUE, TRUE, TRUE, FALSE), Pass(s.i, TRUE, TRUE, FALSE, TRUE)>>

StashApply == \E n \in DOMAIN stash, op \in {"apply", "pop"} :
  /\ Start(op, n, ApplyPasses(stash[n]))
  /\ UNCHANGED <<tip, stored, stash>>

UntrackedFirst ==
  /\ pc = "finish" /\ cmd.op \in {"apply", "pop"}
  /\ pc' = "untracked" /\ plan' = [NoPlan EXCEPT !.todo = {p \in Path : stash[cmd.arg].u[p] # None}]
  /\ UNCHANGED <<work, disk, cmd, shadow, placed, restored, stranded, recovered, ghost>>

RestoreUntracked ==
  /\ pc = "untracked"
  /\ \E p \in plan.todo :
       IF work[p] = None
       THEN /\ Todo(p) /\ work' = [work EXCEPT ![p] = New(stash[cmd.arg].u[p])]
            /\ UNCHANGED <<pc, cmd, shadow, placed, restored, ghost>>
       ELSE Exit("partly") /\ UNCHANGED work
  /\ UNCHANGED <<disk, stranded, recovered>>

ApplyDone ==
  /\ pc = "untracked" /\ plan.todo = {}
  /\ stash' = IF cmd.op = "pop" THEN RemoveAt(stash, cmd.arg) ELSE stash
  /\ Exit("done")
  /\ UNCHANGED <<work, index, head, tip, stored, stranded, recovered>>

StashDrop ==
  /\ Ready("drop")
  /\ \E n \in DOMAIN stash : stash' \in {RemoveAt(stash, n), <<>>}   \* drop, clear
  /\ ghost' = OneMore
  /\ UNCHANGED <<work, index, head, tip, stored, pc, cmd, engine, stranded, recovered>>

-----------------------------------------------------------------------------
(* Commands on single files.                                               *)

\* add hashes the file and stores it with its stat; update-index --cacheinfo
\* gives an entry no file was read for.
Add == \E p \in Path :
  /\ Ready("add") /\ IsFile(p)
  /\ stored' = stored \cup {work[p].data}
  /\ index' = [index EXCEPT ![p] = work[p].data]
  /\ work' = [work EXCEPT ![p].stat = TRUE]
  /\ ghost' = OneMore
  /\ UNCHANGED <<head, tip, stash, pc, cmd, engine, stranded, recovered>>

CacheInfo == \E p \in Path, c \in stored :
  /\ Ready("cacheinfo")
  /\ index' = [index EXCEPT ![p] = c]
  /\ work' = Stamped(work, {}, {p})
  /\ ghost' = OneMore
  /\ UNCHANGED <<head, tip, stored, stash, pc, cmd, engine, stranded, recovered>>

\* rm hashes the file; the file goes first, then the entry.
Rm == \E p \in Path, cached \in BOOLEAN, force \in Forces :
  /\ Ready("rm") /\ index[p] # None /\ (cached \/ ~IsDir(p))
  /\ ~cached /\ ~force /\ work[p] # None => work[p].data = index[p]
  /\ work' = IF cached THEN work ELSE [work EXCEPT ![p] = None]
  /\ cmd' = [op |-> "rm", arg |-> [index |-> [index EXCEPT ![p] = None], same |-> {}],
             passes |-> <<>>]
  /\ pc' = "entry"
  /\ ghost' = [OneMore EXCEPT
       !.released = @ \cup (IF ~cached /\ force /\ IsFile(p) THEN {work[p].data} ELSE {})]
  /\ UNCHANGED <<disk, engine, stranded, recovered>>

\* mv: the file is renamed, then the entry, which keeps its stat.
Move == \E p, q \in Path, force \in Forces :
  /\ Ready("mv") /\ p # q /\ IsFile(p) /\ index[p] # None
  /\ ~IsDir(q) /\ (work[q] = None \/ force)
  /\ work' = [work EXCEPT ![p] = None, ![q] = New(work[p].data)]
  /\ cmd' = [op |-> "mv", passes |-> <<>>,
             arg |-> [index |-> [index EXCEPT ![p] = None, ![q] = index[p]],
                      same  |-> IF work[p].stat THEN {q} ELSE {}]]
  /\ pc' = "entry"
  /\ ghost' = [OneMore EXCEPT
       !.released = @ \cup (IF IsFile(q) THEN {work[q].data} ELSE {})]
  /\ UNCHANGED <<disk, engine, stranded, recovered>>

WriteEntry ==
  /\ pc = "entry"
  /\ index' = cmd.arg.index
  /\ work' = Stamped(work, cmd.arg.same, {p \in Path : cmd.arg.index[p] = None})
  /\ Exit("done")
  /\ UNCHANGED <<head, tip, stored, stash, stranded, recovered>>

\* clean -f removes the files status calls untracked.
Clean ==
  /\ Ready("clean")
  /\ work' = [p \in Path |-> IF p \in Untracked THEN None ELSE work[p]]
  /\ ghost' = [OneMore EXCEPT !.released = @ \cup {work[p].data : p \in Untracked}]
  /\ UNCHANGED <<disk, pc, cmd, engine, stranded, recovered>>

\* commit wants a branch, entries and a change.
Commit ==
  /\ Ready("commit") /\ head \in Branch /\ index \notin {NoTree, HeadTree}
  /\ tip' = [tip EXCEPT ![head] = index]
  /\ ghost' = OneMore
  /\ UNCHANGED <<work, index, head, stored, stash, pc, cmd, engine, stranded, recovered>>

PruneLocks ==
  /\ Ready("prune-locks") /\ stranded # {}
  /\ stranded' = {}
  /\ ghost' = OneMore
  /\ UNCHANGED <<work, disk, pc, cmd, engine, recovered>>

-----------------------------------------------------------------------------
(* The user, between commands, and crashes.                                *)

Edit == \E p \in Path, f \in {None} \cup {New(c) : c \in {Dir} \cup (Typed \ ghost.typed)} :
  /\ pc = "idle" /\ ghost.edits < MaxEdits
  /\ f # work[p]
  /\ work' = [work EXCEPT ![p] = f]
  /\ ghost' = [Forgets EXCEPT !.edits = @ + 1,
       !.typed = IF f = None THEN @ ELSE @ \cup ({f.data} \ {Dir}),
       !.released = @ \cup (IF IsFile(p) THEN {work[p].data} ELSE {})]
  /\ UNCHANGED <<disk, pc, cmd, engine, stranded, recovered>>

\* What was moved aside stays in the shadow directory.
Crash ==
  /\ pc # "idle"
  /\ Lost
  /\ stranded' = stranded \cup Data(shadow)
  /\ UNCHANGED <<work, disk, recovered>>

Init ==
  /\ tip \in Tips
  /\ head \in {b \in Branch : tip[b] # None}
  /\ index = tip[head]
  /\ work = [p \in Path |-> IF index[p] = None THEN None ELSE [data |-> index[p], stat |-> TRUE]]
  /\ stored = (UNION {Range(t) : t \in {tip[b] : b \in Branch} \ {None}}) \ {None}
  /\ stash = <<>>
  /\ pc = "idle" /\ cmd = Idle
  /\ plan = NoPlan /\ shadow = NoFiles /\ placed = {} /\ restored = TRUE
  /\ stranded = {} /\ recovered = {}
  /\ ghost = [typed |-> {}, released |-> {}, hidden |-> {}, result |-> "none", op |-> "none",
              arg |-> None, pushed |-> None, before |-> None,
              commands |-> 0, edits |-> 0, faults |-> 0]

Next ==
  \/ Switch \/ SwitchCreate \/ Detach \/ Reset \/ ReadTree \/ RestoreFrom \/ Restore
  \/ StashPush \/ StashApply \/ StashDrop
  \/ Add \/ CacheInfo \/ Rm \/ Move \/ Clean \/ Commit \/ PruneLocks
  \/ Plan \/ Refuse \/ MoveAside \/ AsideDone \/ Place \/ PlaceDone \/ RenameFails
  \/ RemovePlaced \/ MoveBack \/ UndoDone \/ WriteIndex \/ IndexBusy \/ Finish
  \/ FilesFirst \/ WriteFile \/ FileFails \/ FilesDone \/ StampIndex \/ Unlink \/ UnlinkDone
  \/ UntrackedFirst \/ RestoreUntracked \/ ApplyDone \/ WriteEntry
  \/ Edit \/ Crash

Spec == Init /\ [][Next]_vars

-----------------------------------------------------------------------------
(* Properties                                                              *)

\* What the user typed stands in a file or in a blob, save what was given up:
\* overwritten or deleted by the user, or displaced by a forced command.  What
\* the index's stat hides is set apart.  (unpack_trees.rs, stash.rs, rm.rs)
EditsKept ==
  ghost.typed \ (ghost.released \cup ghost.hidden) \subseteq Data(work) \cup Data(shadow) \cup stored

Before  == ghost.before
Ended(results, ops) == ghost.result \in results /\ ghost.op \in ops

\* A checkout that fails and rolls back leaves every file, the index and HEAD as
\* they were; one whose rollback fails keeps each original in its place or in
\* checkout.recover.  A file that a forced creation replaces is not among the
\* originals.  (StagedCheckout::commit and handle_rollback)
FailureKeeps ==
  Ended({"refused", "failed", "recovered"}, {"switch", "detach", "reset", "read-tree", "pop"}) =>
    /\ index = Before.index /\ head = Before.head
    /\ \A p \in Path :
         \/ work[p] = Before.work[p]
         \/ Before.index[p] = None /\ Before.work[p] # None
         \/ ghost.result = "recovered" /\ (Before.work[p] = None \/ Before.work[p].data \in recovered)

\* A switch that succeeds leaves HEAD, the index and every file whose entry it
\* changed at the target, and every other file as the user left it.
SwitchDone ==
  Ended({"done"}, {"switch", "switch -c", "detach"}) =>
    /\ head = ghost.arg /\ index = HeadTree
    /\ \A p \in Path :
         IF Before.index[p] = index[p] THEN SameData(work[p], Before.work[p])
         ELSE IF index[p] = None THEN work[p] = None
         ELSE IsFile(p) /\ work[p].data = index[p]

\* A pop right after the push gives every tracked file and its entry back, a
\* file that was staged and then edited included.
PopRestores ==
  Ended({"done"}, {"pop"}) /\ ghost.pushed # None /\ ghost.arg = Len(stash) + 1 =>
    \A p \in Path : ghost.pushed.index[p] # None /\ ghost.pushed.work[p] # None =>
      index[p] = ghost.pushed.index[p] /\ SameData(work[p], ghost.pushed.work[p])

\* Commands arrive where they say (switch.rs, stash.rs).
CommandsArrive == SwitchDone /\ PopRestores
=============================================================================
