--------------------------- MODULE WorkTreeProofs ---------------------------
(***************************************************************************)
(* What the commands on a working tree may be trusted with, for any paths, *)
(* contents, branches and stashes, any number of commands, failing system  *)
(* calls and crashes: nothing the user typed is lost unasked (EditsKept),  *)
(* a checkout that fails leaves what it found (FailureKeeps), and one that *)
(* succeeds has arrived (CommandsArrive).                                  *)
(*                                                                         *)
(* Sound is inductive: what index, branches and stashes list is in the     *)
(* object store (DiskOK), and whatever the next steps of a command may     *)
(* overwrite is stored, given up or hidden (Harmless).  Traced, inductive  *)
(* given Sound, follows one command from the state it began in.            *)
(***************************************************************************)
EXTENDS WorkTree, SequenceTheorems, TLAPS

-----------------------------------------------------------------------------
(* Types, with the trees restricted to contents in S.                      *)

Trees(S)   == [Path -> S \cup {None}]
Stashes(S) == [w : Trees(S), i : Trees(S), u : Trees(S)]
Passes(S)  == [tree : Trees(S), force : BOOLEAN, keep : BOOLEAN, wd : BOOLEAN, ix : BOOLEAN,
               paths : SUBSET Path]
Plans      == [create : SUBSET Path, update : SUBSET Path, delete : SUBSET Path,
               todo : SUBSET Path]
Files      == [Path -> File \cup {None}]

Staged == {"aside", "place", "rollback"}
Phases == {"idle", "plan", "index", "finish", "files", "stamp", "unlink", "untracked", "entry"}
            \cup Staged

\* Every entry of the index, a branch or a stash is a blob that is stored.
DiskOK ==
  /\ stored \subseteq Content
  /\ index \in Trees(stored)
  /\ tip \in [Branch -> Trees(stored) \cup {None}]
  /\ head \in Branch => tip[head] # None
  /\ stash \in Seq(Stashes(stored))

\* What a command was called with.
CmdOK ==
  /\ pc \in Phases
  /\ cmd = Idle \/ DOMAIN cmd = {"op", "arg", "passes"}
  /\ cmd.passes \in Seq(Passes(stored))
  /\ cmd.op \in {"switch", "switch -c"} => cmd.arg \in Branch /\ tip[cmd.arg] # None
  /\ cmd.op \in {"detach", "reset"} => cmd.arg \in Trees(stored)
  /\ cmd.op \in {"apply", "pop"} => cmd.arg \in DOMAIN stash
  /\ pc = "idle" => cmd = Idle
  /\ pc \in {"plan", "index"} \cup Staged => cmd.passes # <<>>
  /\ pc \in {"stamp", "unlink"} => cmd.op = "push"
  /\ pc = "untracked" => cmd.op \in {"apply", "pop"}
  /\ pc = "entry" => cmd.arg.index \in Trees(stored)

FilesOK == work \in Files /\ shadow \in Files /\ placed \subseteq Path /\ plan \in Plans

GhostOK ==
  /\ DOMAIN ghost = {"typed", "released", "hidden", "result", "op", "arg", "pushed", "before",
                     "commands", "edits", "faults"}
  /\ ghost.typed \subseteq Typed

\* What may go: it is in a blob, given up by the user, or hidden by a stat.
Safe == stored \cup ghost.released \cup ghost.hidden \cup {Dir}
Harmless(p) == work[p] # None => work[p].data \in Safe

\* The paths a checkout touches.
Touched == plan.create \cup plan.update \cup plan.delete

\* A checkout overwrites and moves nothing but what is harmless.
EngineOK ==
  /\ pc \in Staged =>
       /\ plan.todo \subseteq Touched /\ placed \subseteq Touched
       /\ \A p \in Touched : Harmless(p)
       /\ \A p \in Path : shadow[p] # None => p \in Touched /\ shadow[p].data \in Safe
  /\ pc \notin Staged => shadow = NoFiles /\ placed = {}
  /\ pc \in {"aside", "place"} =>
       \A p \in plan.create \cup plan.update : Head(cmd.passes).tree[p] # None
  /\ pc = "place" => plan.todo \subseteq plan.create \cup plan.update
  /\ pc = "files" => \A p \in plan.todo : Harmless(p) /\ index[p] # None
  /\ pc = "untracked" => \A p \in plan.todo : stash[cmd.arg].u[p] # None

\* A stash push has stored what is tracked, and what it is to remove.
PushOK ==
  cmd.op = "push" =>
    /\ cmd.arg.u \in Trees(stored)
    /\ pc \in {"plan", "aside", "place", "index"} =>
         cmd.passes = <<Checkout(Head(cmd.passes).tree, TRUE)>>
    /\ \A p \in Path : index[p] # None \/ cmd.arg.u[p] # None => Harmless(p)
    /\ pc \in {"aside", "place", "index"} =>
         \A p \in Path : Head(cmd.passes).tree[p] # None => Harmless(p)
    /\ pc = "unlink" => plan.todo \subseteq {p \in Path : cmd.arg.u[p] # None}

TypedKept ==
  \A c \in ghost.typed : c \in Safe \/ \E p \in Path : work[p] # None /\ work[p].data = c

Sound == DiskOK /\ CmdOK /\ FilesOK /\ GhostOK /\ EngineOK /\ PushOK /\ TypedKept

-----------------------------------------------------------------------------
(* What follows from the definitions alone.                                *)

LEMMA MoreTrees ==
  ASSUME NEW S, NEW T, S \subseteq T
  PROVE  /\ Trees(S) \subseteq Trees(T)
         /\ Seq(Stashes(S)) \subseteq Seq(Stashes(T))
         /\ Seq(Passes(S)) \subseteq Seq(Passes(T))
<1>1. Trees(S) \subseteq Trees(T)
  BY DEF Trees
<1>2. Stashes(S) \subseteq Stashes(T) /\ Passes(S) \subseteq Passes(T)
  BY <1>1 DEF Stashes, Passes
<1> QED
  BY <1>1, <1>2

LEMMA FirstPass ==
  ASSUME NEW S, NEW s \in Seq(S), s # <<>>
  PROVE  Head(s) \in S /\ Tail(s) \in Seq(S) /\ Len(s) \in Nat \ {0} /\ Len(Tail(s)) = Len(s) - 1
<1>1. Head(s) \in S /\ Tail(s) \in Seq(S) /\ Len(Tail(s)) = Len(s) - 1
  BY HeadTailProperties
<1>2. Len(s) \in Nat \ {0}
  OBVIOUS
<1> QED
  BY <1>1, <1>2

\* A file of contents that may stand in the working tree.
LEMMA NewFile ==
  ASSUME NEW c \in Content \cup {Dir}
  PROVE  New(c) \in File /\ New(c) # None /\ New(c).data = c /\ ~New(c).stat
<1>1. New(c) \in File
  BY DEF New, File
<1>2. New(c) # None
  BY <1>1, WorkTreeAssumption
<1> QED
  BY <1>1, <1>2 DEF New

LEMMA FileFacts ==
  ASSUME NEW files \in Files, NEW p \in Path, files[p] # None
  PROVE  files[p] \in File /\ files[p].data \in Content \cup {Dir}
  BY DEF Files, File

\* Stamping a file changes nothing but its flag.
LEMMA StampedFiles ==
  ASSUME NEW files \in Files, NEW here, NEW gone
  PROVE  /\ Stamped(files, here, gone) \in Files
         /\ \A p \in Path : /\ (Stamped(files, here, gone)[p] = None) = (files[p] = None)
                            /\ files[p] # None => Stamped(files, here, gone)[p].data = files[p].data
<1>1. ASSUME NEW p \in Path, files[p] # None
      PROVE  /\ Stamped(files, here, gone)[p] \in File
             /\ Stamped(files, here, gone)[p] # None
             /\ Stamped(files, here, gone)[p].data = files[p].data
  <2>1. PICK b \in BOOLEAN : b = (p \in here \/ (files[p].stat /\ p \notin gone))
    BY Zenon
  <2>2. Stamped(files, here, gone)[p] = [files[p] EXCEPT !.stat = b]
    BY <1>1, <2>1, Zenon DEF Stamped
  <2>3. files[p] \in [data : Content \cup {Dir}, stat : BOOLEAN]
    BY <1>1 DEF Files, File
  <2>4. [files[p] EXCEPT !.stat = b] \in File /\ [files[p] EXCEPT !.stat = b].data = files[p].data
    BY <2>1, <2>3 DEF File
  <2> QED
    BY <2>2, <2>4, WorkTreeAssumption
<1>2. ASSUME NEW p \in Path, files[p] = None PROVE Stamped(files, here, gone)[p] = None
  BY <1>2 DEF Stamped
<1>3. Stamped(files, here, gone) = [p \in Path |-> Stamped(files, here, gone)[p]]
  BY DEF Stamped
<1>4. Stamped(files, here, gone) \in Files
  BY <1>1, <1>2, <1>3 DEF Files
<1> QED
  BY <1>1, <1>2, <1>4

-----------------------------------------------------------------------------
(* What every step does to the history variable.                           *)

\* Nothing typed is forgotten, and nothing given up or hidden comes back.
GhostGrows ==
  /\ GhostOK' /\ ghost'.typed = ghost.typed
  /\ ghost.released \subseteq ghost'.released /\ ghost.hidden \subseteq ghost'.hidden

LEMMA ForgetsFacts ==
  ASSUME GhostOK
  PROVE  /\ DOMAIN Forgets = DOMAIN ghost
         /\ Forgets.typed = ghost.typed /\ Forgets.released = ghost.released
         /\ Forgets.hidden = ghost.hidden
         /\ Forgets.result = "none" /\ Forgets.op = "none" /\ Forgets.pushed = None
  BY DEF GhostOK, Forgets

LEMMA OneMoreFacts ==
  ASSUME GhostOK
  PROVE  /\ DOMAIN OneMore = DOMAIN ghost
         /\ OneMore.typed = ghost.typed /\ OneMore.released = ghost.released
         /\ OneMore.hidden = ghost.hidden
         /\ OneMore.result = "none" /\ OneMore.op = "none" /\ OneMore.pushed = None
  BY ForgetsFacts DEF GhostOK, OneMore

LEMMA RememberedGrows ==
  ASSUME GhostOK, NEW result, ghost' = Remembered(result)
  PROVE  GhostGrows
<1>1. CASE ghost' = Forgets
  BY <1>1, ForgetsFacts DEF GhostOK, GhostGrows
<1>2. CASE ghost' = [ghost EXCEPT !.result = result]
  BY <1>2 DEF GhostOK, GhostGrows
<1>3. CASE ghost' = [ghost EXCEPT !.result = result, !.before = None, !.arg = None]
  BY <1>3 DEF GhostOK, GhostGrows
<1> QED
  BY <1>1, <1>2, <1>3 DEF Remembered

LEMMA CountedGrows ==
  ASSUME GhostOK, NEW op, NEW arg, ghost' = Counted(op, arg)
  PROVE  /\ GhostGrows
         /\ ghost'.released = ghost.released /\ ghost'.hidden = ghost.hidden
         /\ ghost'.result = "none" /\ ghost'.op = op /\ ghost'.arg = arg
         /\ ghost'.before = [work |-> work, index |-> index, head |-> head]
  BY DEF GhostOK, GhostGrows, Counted

LEMMA SameGrows == GhostOK /\ UNCHANGED ghost => GhostGrows
  BY DEF GhostOK, GhostGrows

LEMMA FaultGrows == GhostOK /\ Fault => GhostGrows
  BY DEF GhostOK, GhostGrows, Fault

LEMMA OneMoreGrows == GhostOK /\ ghost' = OneMore => GhostGrows
  BY OneMoreFacts DEF GhostOK, GhostGrows

LEMMA ReleaseGrows ==
  ASSUME GhostOK, NEW R, ghost' = [OneMore EXCEPT !.released = @ \cup R]
  PROVE  GhostGrows /\ R \subseteq ghost'.released
  BY OneMoreFacts DEF GhostOK, GhostGrows

LEMMA Removed ==
  ASSUME NEW S, NEW s \in Seq(S), NEW n \in DOMAIN s
  PROVE  RemoveAt(s, n) \in Seq(S) /\ Len(RemoveAt(s, n)) = Len(s) - 1
<1>1. Len(s) \in Nat /\ n \in 1..Len(s) /\ \A i \in 1..Len(s) : s[i] \in S
  BY LenProperties, ElementOfSeq
<1>2. SubSeq(s, 1, n - 1) \in Seq(S) /\ Len(SubSeq(s, 1, n - 1)) = n - 1
  BY <1>1, SubSeqProperties
<1>3. SubSeq(s, n + 1, Len(s)) \in Seq(S) /\ Len(SubSeq(s, n + 1, Len(s))) = Len(s) - n
  BY <1>1, SubSeqProperties
<1>4. ASSUME NEW a \in Seq(S), NEW b \in Seq(S)
      PROVE  a \o b \in Seq(S) /\ Len(a \o b) = Len(a) + Len(b)
  BY ConcatProperties
<1>5. /\ RemoveAt(s, n) \in Seq(S)
      /\ Len(RemoveAt(s, n)) = Len(SubSeq(s, 1, n - 1)) + Len(SubSeq(s, n + 1, Len(s)))
  BY <1>2, <1>3, <1>4 DEF RemoveAt
<1> DEFINE l == Len(SubSeq(s, 1, n - 1))
           r == Len(SubSeq(s, n + 1, Len(s)))
           rest == RemoveAt(s, n)
<1>6. rest \in Seq(S) /\ Len(rest) = l + r /\ l = n - 1 /\ r = Len(s) - n
  BY <1>2, <1>3, <1>5
<1> HIDE DEF l, r, rest
<1>7. rest \in Seq(S) /\ Len(rest) = Len(s) - 1
  BY <1>1, <1>6
<1> QED
  BY <1>7 DEF rest

-----------------------------------------------------------------------------
(* The parts of Sound that most steps leave alone.                         *)

LEMMA DiskSame == DiskOK /\ UNCHANGED disk => DiskOK'
  BY DEF DiskOK, disk

\* What the index held is stored, and the contents of HEAD's branch too.
LEMMA HeadStored ==
  ASSUME DiskOK, head \in Branch
  PROVE  HeadTree \in Trees(stored)
  BY DEF DiskOK, HeadTree

LEMMA TreesAreTrees ==
  ASSUME DiskOK
  PROVE  Trees(stored) \subseteq Tree /\ None \notin Trees(stored)
  BY WorkTreeAssumption DEF DiskOK, Trees, Tree

LEMMA SafeGrows ==
  ASSUME GhostGrows, stored \subseteq stored'
  PROVE  Safe \subseteq Safe'
  BY DEF GhostGrows, Safe

\* The lemma for every step but an edit: contents move, or were safe to go.
LEMMA TypedMoves ==
  ASSUME TypedKept, GhostGrows, stored \subseteq stored',
         \A p \in Path : work[p] # None =>
           \/ work[p].data \in Safe'
           \/ \E q \in Path : work'[q] # None /\ work'[q].data = work[p].data
  PROVE  TypedKept'
<1> SUFFICES ASSUME NEW c \in ghost.typed
             PROVE  c \in Safe' \/ \E q \in Path : work'[q] # None /\ work'[q].data = c
  BY DEF TypedKept, GhostGrows
<1>1. CASE c \in Safe
  BY <1>1, SafeGrows
<1>2. CASE \E p \in Path : work[p] # None /\ work[p].data = c
  BY <1>2
<1> QED
  BY <1>1, <1>2 DEF TypedKept

\* Stamping moves nothing.
LEMMA StampMoves ==
  ASSUME Sound, GhostGrows, stored \subseteq stored', NEW here, NEW gone,
         work' = Stamped(work, here, gone)
  PROVE  /\ work' \in Files /\ TypedKept'
         /\ \A p \in Path : Harmless(p) => Harmless(p)'
<1>1. /\ work' \in Files
      /\ \A p \in Path : /\ (work'[p] = None) = (work[p] = None)
                         /\ work[p] # None => work'[p].data = work[p].data
  BY StampedFiles DEF Sound, FilesOK
<1>2. TypedKept'
  BY <1>1, TypedMoves DEF Sound
<1>3. ASSUME NEW p \in Path, Harmless(p) PROVE Harmless(p)'
  BY <1>1, <1>3, SafeGrows DEF Harmless
<1> QED
  BY <1>1, <1>2, <1>3

\* What every end of a command leaves.
Over ==
  /\ pc' = "idle" /\ cmd' = Idle
  /\ plan' = NoPlan /\ shadow' = NoFiles /\ placed' = {} /\ restored' = TRUE

LEMMA OverSound ==
  ASSUME Sound, Over, DiskOK', work' \in Files, GhostGrows, stored \subseteq stored',
         \A p \in Path : work[p] # None =>
           \/ work[p].data \in Safe'
           \/ \E q \in Path : work'[q] # None /\ work'[q].data = work[p].data
  PROVE  Sound'
<1>1. CmdOK'
  BY EmptySeq DEF Over, CmdOK, Idle, Phases, Staged
<1>2. FilesOK'
  BY DEF Over, FilesOK, NoPlan, NoFiles, Files, Plans
<1>3. EngineOK' /\ PushOK'
  BY DEF Over, EngineOK, PushOK, Staged, Idle
<1>4. TypedKept'
  BY TypedMoves DEF Sound
<1> QED
  BY <1>1, <1>2, <1>3, <1>4 DEF Sound, GhostGrows

LEMMA ExitOver ==
  ASSUME GhostOK, NEW result, Exit(result)
  PROVE  Over /\ GhostGrows
  BY RememberedGrows DEF Exit, Over

LEMMA LostOver ==
  ASSUME GhostOK, Lost
  PROVE  Over /\ GhostGrows
  BY ForgetsFacts DEF Lost, Over, GhostOK, GhostGrows

-----------------------------------------------------------------------------
(* A command built on checkouts begins.                                    *)

LEMMA PassTyped ==
  ASSUME NEW S, NEW tree \in Trees(S), NEW force \in BOOLEAN, NEW keep \in BOOLEAN,
         NEW wd \in BOOLEAN, NEW ix \in BOOLEAN
  PROVE  /\ Pass(tree, force, keep, wd, ix) \in Passes(S)
         /\ <<Pass(tree, force, keep, wd, ix)>> \in Seq(Passes(S))
<1>1. Pass(tree, force, keep, wd, ix) \in Passes(S)
  BY DEF Pass, Passes
<1>2. ASSUME NEW x \in Passes(S) PROVE <<x>> \in Seq(Passes(S))
  OBVIOUS
<1> QED
  BY <1>1, <1>2

LEMMA StartSound ==
  ASSUME Sound, NEW op, NEW arg, NEW passes \in Seq(Passes(stored')), Start(op, arg, passes),
         stored \subseteq stored', DiskOK',
         op \in {"switch", "switch -c"} => arg \in Branch /\ tip'[arg] # None,
         op \in {"detach", "reset"} => arg \in Trees(stored'),
         op \in {"apply", "pop"} => arg \in DOMAIN stash',
         op = "push" =>
           /\ arg.u \in Trees(stored')
           /\ passes = <<Checkout(Head(passes).tree, TRUE)>>
           /\ \A p \in Path : (index[p] # None \/ arg.u[p] # None) /\ work[p] # None =>
                work[p].data \in Safe'
  PROVE  Sound'
<1>1. /\ pc = "idle" /\ cmd' = [op |-> op, arg |-> arg, passes |-> passes]
      /\ pc' = (IF passes = <<>> THEN "finish" ELSE "plan")
      /\ ghost' = Counted(op, arg)
      /\ UNCHANGED <<work, index, head, engine>>
  BY DEF Start, Ready
<1>2. /\ DOMAIN cmd' = {"op", "arg", "passes"}
      /\ cmd'.op = op /\ cmd'.arg = arg /\ cmd'.passes = passes
  BY <1>1
<1>3. GhostGrows
  BY <1>1, CountedGrows DEF Sound
<1>4. CmdOK'
  BY <1>1, <1>2 DEF CmdOK, Phases, Staged
<1>5. FilesOK'
  BY <1>1 DEF Sound, FilesOK, engine
<1>6. EngineOK'
  BY <1>1 DEF Sound, EngineOK, engine, Staged
<1>7. PushOK'
  BY <1>1, <1>2 DEF PushOK, Harmless
<1>8. TypedKept'
  BY <1>1, <1>3, TypedMoves DEF Sound
<1> QED
  BY <1>3, <1>4, <1>5, <1>6, <1>7, <1>8 DEF Sound, GhostGrows

LEMMA CommitsStored ==
  ASSUME DiskOK, NEW t \in Commits
  PROVE  t \in Trees(stored) /\ t # None
  BY DEF DiskOK, Commits

LEMMA ForcesAre == Forces \subseteq BOOLEAN
  BY DEF Forces

LEMMA SwitchesSound ==
  ASSUME Sound, Switch \/ SwitchCreate \/ Detach \/ Reset \/ ReadTree \/ RestoreFrom \/ StashApply
  PROVE  Sound'
<1>1. CASE Switch
  <2>1. PICK b \in Branch, force \in Forces :
          tip[b] # None /\ Start("switch", b, <<Checkout(tip[b], force)>>)
    BY <1>1 DEF Switch
  <2>2. UNCHANGED disk
    BY <1>1 DEF Switch, Start, disk
  <2>3. tip[b] \in Trees(stored)
    BY <2>1 DEF Sound, DiskOK
  <2>4. <<Checkout(tip[b], force)>> \in Seq(Passes(stored))
    BY <2>3, PassTyped, ForcesAre DEF Checkout
  <2> QED
    BY <2>1, <2>2, <2>4, DiskSame, StartSound DEF Sound, disk
<1>2. CASE SwitchCreate
  <2>1. PICK b \in Branch, t \in Commits, force \in Forces :
          /\ tip[b] = None /\ tip' = [tip EXCEPT ![b] = t]
          /\ Start("switch -c", b, <<Checkout(t, force)>>)
    BY <1>2 DEF SwitchCreate
  <2>2. UNCHANGED <<index, head, stored, stash>>
    BY <1>2 DEF SwitchCreate, Start
  <2>3. t \in Trees(stored) /\ t # None
    BY CommitsStored DEF Sound
  <2>4. <<Checkout(t, force)>> \in Seq(Passes(stored))
    BY <2>3, PassTyped, ForcesAre DEF Checkout
  <2>5. DiskOK' /\ tip'[b] # None
    BY <2>1, <2>2, <2>3 DEF Sound, DiskOK
  <2> QED
    BY <2>1, <2>2, <2>4, <2>5, StartSound
<1>3. CASE Detach
  <2>1. PICK t \in Commits, force \in Forces : Start("detach", t, <<Checkout(t, force)>>)
    BY <1>3 DEF Detach
  <2>2. UNCHANGED disk
    BY <1>3 DEF Detach, Start, disk
  <2>3. t \in Trees(stored)
    BY CommitsStored DEF Sound
  <2>4. <<Checkout(t, force)>> \in Seq(Passes(stored))
    BY <2>3, PassTyped, ForcesAre DEF Checkout
  <2> QED
    BY <2>1, <2>2, <2>3, <2>4, DiskSame, StartSound DEF Sound, disk
<1>4. CASE Reset
  <2> DEFINE passes(t, mode) == CASE mode = "soft"  -> <<>>
                                  [] mode = "mixed" -> <<Mixed(t)>>
                                  [] mode = "hard"  -> <<Checkout(t, TRUE)>>
  <2>1. PICK t \in Commits, mode \in {"soft", "mixed", "hard"} : Start("reset", t, passes(t, mode))
    BY <1>4 DEF Reset
  <2>2. UNCHANGED disk
    BY <1>4 DEF Reset, Start, disk
  <2>3. t \in Trees(stored)
    BY CommitsStored DEF Sound
  <2>4. /\ <<Mixed(t)>> \in Seq(Passes(stored)) /\ <<Checkout(t, TRUE)>> \in Seq(Passes(stored))
        /\ <<>> \in Seq(Passes(stored))
    <3>1. <<>> \in Seq(Passes(stored))
      BY EmptySeq
    <3> QED
      BY <2>3, <3>1, PassTyped DEF Checkout, Mixed
  <2>5. passes(t, mode) \in Seq(Passes(stored))
    BY <2>4
  <2> HIDE DEF passes
  <2> QED
    BY <2>1, <2>2, <2>3, <2>5, DiskSame, StartSound DEF Sound, disk
<1>5. CASE ReadTree
  <2>1. PICK t \in Commits, u \in BOOLEAN, force \in Forces :
          Start("read-tree", t, <<Pass(t, force, FALSE, u, TRUE)>>)
    BY <1>5 DEF ReadTree
  <2>2. UNCHANGED disk
    BY <1>5 DEF ReadTree, Start, disk
  <2>3. t \in Trees(stored)
    BY CommitsStored DEF Sound
  <2>4. <<Pass(t, force, FALSE, u, TRUE)>> \in Seq(Passes(stored))
    BY <2>3, PassTyped, ForcesAre
  <2> QED
    BY <2>1, <2>2, <2>4, DiskSame, StartSound DEF Sound, disk
<1>6. CASE RestoreFrom
  <2> DEFINE pass(p, t, staged) == [Pass(t, FALSE, FALSE, ~staged, staged) EXCEPT !.paths = {p}]
  <2>1. PICK p \in Path, t \in Commits, staged \in BOOLEAN :
          Start("restore --source", p, <<pass(p, t, staged)>>)
    BY <1>6 DEF RestoreFrom
  <2>2. UNCHANGED disk
    BY <1>6 DEF RestoreFrom, Start, disk
  <2>3. t \in Trees(stored)
    BY CommitsStored DEF Sound
  <2>4. Pass(t, FALSE, FALSE, ~staged, staged) \in Passes(stored)
    <3>1. PICK wd \in BOOLEAN : wd = ~staged
      BY Zenon
    <3> QED
      BY <2>3, <3>1, PassTyped
  <2>5. ASSUME NEW x \in Passes(stored) PROVE <<[x EXCEPT !.paths = {p}]>> \in Seq(Passes(stored))
    <3>1. [x EXCEPT !.paths = {p}] \in Passes(stored)
      BY DEF Passes
    <3> QED
      BY <3>1
  <2>6. <<pass(p, t, staged)>> \in Seq(Passes(stored))
    BY <2>4, <2>5
  <2> HIDE DEF pass
  <2> QED
    BY <2>1, <2>2, <2>6, DiskSame, StartSound DEF Sound, disk
<1>7. CASE StashApply
  <2>1. PICK n \in DOMAIN stash, op \in {"apply", "pop"} : Start(op, n, ApplyPasses(stash[n]))
    BY <1>7 DEF StashApply
  <2>2. UNCHANGED disk
    BY <1>7 DEF StashApply, Start, disk
  <2>3. stash[n] \in Stashes(stored)
    BY LenProperties, ElementOfSeq DEF Sound, DiskOK
  <2>4. /\ Pass(stash[n].w, TRUE, TRUE, TRUE, FALSE) \in Passes(stored)
        /\ Pass(stash[n].i, TRUE, TRUE, FALSE, TRUE) \in Passes(stored)
    BY <2>3, PassTyped DEF Stashes
  <2>5. ApplyPasses(stash[n]) \in Seq(Passes(stored))
    <3>1. ASSUME NEW x \in Passes(stored), NEW y \in Passes(stored)
          PROVE  <<x, y>> \in Seq(Passes(stored))
      OBVIOUS
    <3> QED
      BY <2>4, <3>1 DEF ApplyPasses
  <2> QED
    BY <2>1, <2>2, <2>5, DiskSame, StartSound DEF Sound, disk
<1> QED
  BY <1>1, <1>2, <1>3, <1>4, <1>5, <1>6, <1>7

LEMMA RangeTrees ==
  ASSUME NEW f \in Tree, NEW X, Range(f) \ {None} \subseteq X
  PROVE  f \in Trees(X)
  BY DEF Tree, Trees, Range

LEMMA InRange ==
  ASSUME NEW f \in Tree
  PROVE  Range(f) \subseteq Content \cup {None} /\ \A p \in Path : f[p] \in Range(f)
  BY DEF Tree, Range

LEMMA UntrackedAre ==
  Untracked = {p \in Path : index[p] = None /\ IsFile(p)}
<1>1. ASSUME NEW p \in Path
      PROVE  WorktreeState(p) = "untracked" <=> index[p] = None /\ IsFile(p)
  BY DEF WorktreeState, IsFile, IsDir
<1> QED
  BY <1>1 DEF Untracked

LEMMA TreesOfFiles ==
  ASSUME DiskOK, FilesOK
  PROVE  Snapshot \in Tree /\ Loose \in Tree /\ NoTree \in Tree
<1>1. ASSUME NEW p \in Path, IsFile(p) PROVE work[p].data \in Content
  BY <1>1 DEF FilesOK, Files, File, IsFile, IsDir
<1>2. index \in Tree
  BY TreesAreTrees DEF DiskOK
<1>3. Snapshot \in Tree
  BY <1>1, <1>2 DEF Snapshot, Tree
<1>4. Loose \in Tree
  BY <1>1, UntrackedAre DEF Loose, Tree
<1> QED
  BY <1>3, <1>4 DEF NoTree, Tree

\* What stash push is about to displace or remove it has stored first.
LEMMA PushSound ==
  ASSUME Sound, StashPush
  PROVE  Sound'
<1> DEFINE s(u) == [w |-> Snapshot, i |-> index, u |-> u]
<1>1. PICK u \in {NoTree} \cup {Loose} :
        /\ head \in Branch /\ stash' = Append(stash, s(u))
        /\ stored' = stored \cup ((Range(Snapshot) \cup Range(u)) \ {None})
        /\ Start("push", s(u), <<Checkout(HeadTree, TRUE)>>)
        /\ UNCHANGED tip
  BY DEF StashPush
<1>2. UNCHANGED <<index, head, work>> /\ ghost' = Counted("push", s(u))
  BY <1>1 DEF Start
<1>3. Snapshot \in Tree /\ u \in Tree
  BY <1>1, TreesOfFiles DEF Sound
<1>4. stored \subseteq stored' /\ stored' \subseteq Content
  BY <1>1, <1>3, InRange DEF Sound, DiskOK
<1>5. Snapshot \in Trees(stored') /\ u \in Trees(stored')
  BY <1>1, <1>3, RangeTrees
<1>6. index \in Trees(stored') /\ s(u) \in Stashes(stored')
  BY <1>4, <1>5, MoreTrees DEF Sound, DiskOK, Stashes
<1>7. stash' \in Seq(Stashes(stored'))
  <2>1. stash \in Seq(Stashes(stored'))
    BY <1>4, MoreTrees DEF Sound, DiskOK
  <2> QED
    BY <1>1, <1>6, <2>1, AppendProperties
<1>8. DiskOK'
  <2>1. tip \in [Branch -> Trees(stored') \cup {None}]
    BY <1>4, MoreTrees DEF Sound, DiskOK
  <2> QED
    BY <1>1, <1>2, <1>4, <1>6, <1>7, <2>1 DEF Sound, DiskOK
<1>9. <<Checkout(HeadTree, TRUE)>> \in Seq(Passes(stored'))
  <2>1. HeadTree \in Trees(stored')
    BY <1>1, <1>4, HeadStored, MoreTrees DEF Sound
  <2> QED
    BY <2>1, PassTyped DEF Checkout
<1>10. s(u).u = u /\ Head(<<Checkout(HeadTree, TRUE)>>).tree = HeadTree
  BY DEF Checkout, Pass
<1>11. ASSUME NEW p \in Path, index[p] # None \/ u[p] # None, work[p] # None
       PROVE  work[p].data \in Safe'
  <2>1. CASE IsFile(p) /\ index[p] # None
    <3>1. Snapshot[p] = work[p].data /\ work[p].data # None
      BY <2>1, WorkTreeAssumption DEF Snapshot, Sound, FilesOK, Files, File, IsFile, IsDir
    <3> QED
      BY <1>1, <1>3, <3>1, InRange DEF Safe
  <2>2. CASE IsFile(p) /\ index[p] = None
    <3>1. u[p] = work[p].data
      BY <1>1, <1>11, <2>2, UntrackedAre DEF Loose, NoTree
    <3> QED
      BY <1>1, <1>3, <1>11, <2>2, <3>1, InRange DEF Safe
  <2>3. CASE ~IsFile(p)
    BY <1>11, <2>3 DEF Safe, IsFile, IsDir
  <2> QED
    BY <2>1, <2>2, <2>3
<1> HIDE DEF s
<1> QED
  BY <1>1, <1>4, <1>5, <1>8, <1>9, <1>10, <1>11, StartSound

-----------------------------------------------------------------------------
(* Commands of one step, and those that write an entry in a second one.    *)

LEMMA IdleSound ==
  ASSUME Sound, pc = "idle", UNCHANGED <<pc, cmd, engine>>,
         DiskOK', work' \in Files, GhostOK', TypedKept'
  PROVE  Sound'
<1>1. cmd = Idle /\ cmd' = Idle /\ pc' = "idle"
  BY DEF Sound, CmdOK
<1>2. CmdOK'
  BY <1>1, EmptySeq DEF CmdOK, Idle, Phases, Staged
<1>3. FilesOK' /\ EngineOK' /\ PushOK'
  BY <1>1 DEF Sound, FilesOK, EngineOK, PushOK, engine, Staged, Idle
<1> QED
  BY <1>2, <1>3 DEF Sound

LEMMA EntryStarts ==
  ASSUME Sound, pc = "idle", pc' = "entry",
         NEW op \in {"rm", "mv"}, NEW entries \in Trees(stored), NEW same,
         cmd' = [op |-> op, arg |-> [index |-> entries, same |-> same], passes |-> <<>>],
         UNCHANGED <<disk, engine>>, work' \in Files, GhostGrows, TypedKept'
  PROVE  Sound'
<1>1. /\ DOMAIN cmd' = {"op", "arg", "passes"} /\ cmd'.op = op /\ cmd'.passes = <<>>
      /\ cmd'.arg.index = entries /\ stored' = stored
  BY DEF disk
<1>2. CmdOK'
  BY <1>1, EmptySeq DEF CmdOK, Phases, Staged
<1>3. FilesOK' /\ EngineOK' /\ PushOK'
  BY <1>1 DEF Sound, FilesOK, EngineOK, PushOK, engine, Staged
<1> QED
  BY <1>2, <1>3, DiskSame DEF Sound, GhostGrows

LEMMA FileData ==
  ASSUME FilesOK, NEW p \in Path, IsFile(p)
  PROVE  work[p] # None /\ work[p] \in File /\ work[p].data \in Content
  BY DEF FilesOK, Files, File, IsFile, IsDir

LEMMA SinglesSound ==
  ASSUME Sound, Add \/ CacheInfo \/ Clean \/ Commit \/ PruneLocks \/ StashDrop
  PROVE  Sound'
<1>1. CASE Add
  <2>1. PICK p \in Path :
          /\ pc = "idle" /\ IsFile(p) /\ stored' = stored \cup {work[p].data}
          /\ index' = [index EXCEPT ![p] = work[p].data]
          /\ work' = [work EXCEPT ![p].stat = TRUE]
          /\ ghost' = OneMore /\ UNCHANGED <<head, tip, stash, pc, cmd, engine>>
    BY <1>1 DEF Add, Ready
  <2>2. work[p] # None /\ work[p] \in File /\ work[p].data \in Content
    BY <2>1, FileData DEF Sound
  <2>3. /\ [work[p] EXCEPT !.stat = TRUE] \in File
        /\ [work[p] EXCEPT !.stat = TRUE].data = work[p].data
    BY <2>2 DEF File
  <2>4. /\ work' \in Files
        /\ \A q \in Path : /\ (work'[q] = None) = (work[q] = None)
                           /\ work[q] # None => work'[q].data = work[q].data
    BY <2>1, <2>2, <2>3, WorkTreeAssumption DEF Sound, FilesOK, Files
  <2>5. stored \subseteq stored' /\ stored' \subseteq Content
    BY <2>1, <2>2 DEF Sound, DiskOK
  <2>6. DiskOK'
    <3>1. index' \in Trees(stored')
      BY <2>1, <2>5 DEF Sound, DiskOK, Trees
    <3>2. tip \in [Branch -> Trees(stored') \cup {None}] /\ stash \in Seq(Stashes(stored'))
      BY <2>5, MoreTrees DEF Sound, DiskOK
    <3> QED
      BY <2>1, <2>5, <3>1, <3>2 DEF Sound, DiskOK
  <2>7. GhostGrows
    BY <2>1, OneMoreGrows DEF Sound
  <2>8. TypedKept'
    BY <2>4, <2>5, <2>7, TypedMoves DEF Sound
  <2> QED
    BY <2>1, <2>4, <2>6, <2>7, <2>8, IdleSound DEF GhostGrows
<1>2. CASE CacheInfo
  <2>1. PICK p \in Path, c \in stored :
          /\ pc = "idle" /\ index' = [index EXCEPT ![p] = c]
          /\ work' = Stamped(work, {}, {p})
          /\ ghost' = OneMore /\ UNCHANGED <<head, tip, stored, stash, pc, cmd, engine>>
    BY <1>2 DEF CacheInfo, Ready
  <2>2. GhostGrows
    BY <2>1, OneMoreGrows DEF Sound
  <2>3. work' \in Files /\ TypedKept'
    BY <2>1, <2>2, StampMoves
  <2>4. DiskOK'
    BY <2>1 DEF Sound, DiskOK, Trees
  <2> QED
    BY <2>1, <2>2, <2>3, <2>4, IdleSound DEF GhostGrows
<1>3. CASE Clean
  <2> DEFINE R == {work[p].data : p \in Untracked}
  <2>1. /\ pc = "idle" /\ work' = [p \in Path |-> IF p \in Untracked THEN None ELSE work[p]]
        /\ ghost' = [OneMore EXCEPT !.released = @ \cup R]
        /\ UNCHANGED <<disk, pc, cmd, engine>>
    BY <1>3 DEF Clean, Ready
  <2>2. GhostGrows /\ R \subseteq ghost'.released
    <3> HIDE DEF R
    <3> QED
      BY <2>1, ReleaseGrows DEF Sound
  <2>3. work' \in Files
    BY <2>1 DEF Sound, FilesOK, Files
  <2>4. TypedKept'
    <3>1. ASSUME NEW p \in Path, work[p] # None
          PROVE  work[p].data \in Safe' \/ (work'[p] # None /\ work'[p].data = work[p].data)
      BY <2>1, <2>2, <3>1 DEF Safe
    <3> QED
      BY <2>1, <2>2, <3>1, TypedMoves DEF Sound, disk
  <2> QED
    BY <2>1, <2>2, <2>3, <2>4, DiskSame, IdleSound DEF Sound, GhostGrows
<1>4. CASE Commit
  <2>1. /\ pc = "idle" /\ head \in Branch /\ tip' = [tip EXCEPT ![head] = index]
        /\ ghost' = OneMore /\ UNCHANGED <<work, index, head, stored, stash, pc, cmd, engine>>
    BY <1>4 DEF Commit, Ready
  <2>2. GhostGrows
    BY <2>1, OneMoreGrows DEF Sound
  <2>3. DiskOK'
    BY <2>1, TreesAreTrees DEF Sound, DiskOK
  <2>4. work' \in Files /\ TypedKept'
    BY <2>1, <2>2, TypedMoves DEF Sound, FilesOK
  <2> QED
    BY <2>1, <2>2, <2>3, <2>4, IdleSound DEF GhostGrows
<1>5. CASE PruneLocks
  <2>1. pc = "idle" /\ ghost' = OneMore /\ UNCHANGED <<work, disk, pc, cmd, engine>>
    BY <1>5 DEF PruneLocks, Ready
  <2>2. GhostGrows
    BY <2>1, OneMoreGrows DEF Sound
  <2>3. work' \in Files /\ TypedKept'
    BY <2>1, <2>2, TypedMoves DEF Sound, FilesOK, disk
  <2> QED
    BY <2>1, <2>2, <2>3, DiskSame, IdleSound DEF Sound, GhostGrows
<1>6. CASE StashDrop
  <2>1. PICK n \in DOMAIN stash :
          /\ pc = "idle" /\ stash' \in {RemoveAt(stash, n), <<>>}
          /\ ghost' = OneMore /\ UNCHANGED <<work, index, head, tip, stored, pc, cmd, engine>>
    BY <1>6 DEF StashDrop, Ready
  <2>2. GhostGrows
    BY <2>1, OneMoreGrows DEF Sound
  <2>3. stash' \in Seq(Stashes(stored))
    <3>1. stash \in Seq(Stashes(stored))
      BY DEF Sound, DiskOK
    <3>2. RemoveAt(stash, n) \in Seq(Stashes(stored)) /\ <<>> \in Seq(Stashes(stored))
      BY <3>1, Removed, EmptySeq
    <3> QED
      BY <2>1, <3>2
  <2>4. DiskOK'
    BY <2>1, <2>3 DEF Sound, DiskOK
  <2>5. work' \in Files /\ TypedKept'
    BY <2>1, <2>2, TypedMoves DEF Sound, FilesOK
  <2> QED
    BY <2>1, <2>2, <2>4, <2>5, IdleSound DEF GhostGrows
<1> QED
  BY <1>1, <1>2, <1>3, <1>4, <1>5, <1>6

\* What an edit types stands in the file that it wrote.
LEMMA EditSound ==
  ASSUME Sound, Edit
  PROVE  Sound'
<1>1. PICK p \in Path, f \in {None} \cup {New(c) : c \in {Dir} \cup (Typed \ ghost.typed)} :
        /\ pc = "idle" /\ work' = [work EXCEPT ![p] = f]
        /\ ghost' = [Forgets EXCEPT !.edits = @ + 1,
             !.typed = IF f = None THEN @ ELSE @ \cup ({f.data} \ {Dir}),
             !.released = @ \cup (IF IsFile(p) THEN {work[p].data} ELSE {})]
        /\ UNCHANGED <<disk, pc, cmd, engine>>
  BY DEF Edit
<1>2. f # None => f \in File /\ f.data \in Typed \cup {Dir}
  BY NewFile, WorkTreeAssumption
<1>3. work' \in Files
  BY <1>1, <1>2 DEF Sound, FilesOK, Files
<1>4. /\ DOMAIN ghost' = DOMAIN ghost
      /\ ghost'.typed = ghost.typed \cup (IF f = None THEN {} ELSE {f.data} \ {Dir})
      /\ ghost'.released = ghost.released \cup (IF IsFile(p) THEN {work[p].data} ELSE {})
      /\ ghost'.hidden = ghost.hidden
  BY <1>1, ForgetsFacts DEF Sound, GhostOK
<1>5. GhostOK'
  BY <1>2, <1>4 DEF Sound, GhostOK
<1>6. Safe \subseteq Safe' /\ (work[p] # None => work[p].data \in Safe')
  BY <1>1, <1>4 DEF Safe, disk, IsFile, IsDir
<1>7. ASSUME NEW c \in ghost'.typed
      PROVE  c \in Safe' \/ \E q \in Path : work'[q] # None /\ work'[q].data = c
  <2>1. CASE c \in ghost.typed
    <3>1. c \in Safe \/ \E q \in Path : work[q] # None /\ work[q].data = c
      BY <2>1 DEF Sound, TypedKept
    <3> QED
      BY <1>1, <1>6, <3>1 DEF Sound, FilesOK, Files
  <2>2. CASE c \notin ghost.typed
    BY <1>1, <1>4, <1>7, <2>2 DEF Sound, FilesOK, Files
  <2> QED
    BY <2>1, <2>2
<1>8. TypedKept'
  BY <1>7 DEF TypedKept
<1> QED
  BY <1>1, <1>3, <1>5, <1>8, DiskSame, IdleSound DEF Sound

LEMMA RestoreSound ==
  ASSUME Sound, Restore
  PROVE  Sound'
<1>1. PICK P \in SUBSET {p \in Path : index[p] # None} \ {{}} :
        /\ pc = "idle" /\ pc' = "files" /\ plan' = [NoPlan EXCEPT !.todo = P]
        /\ cmd' = [op |-> "restore", arg |-> P, passes |-> <<>>]
        /\ ghost' = [OneMore EXCEPT
             !.released = @ \cup {work[p].data : p \in {q \in P : IsFile(q)}}]
        /\ UNCHANGED <<work, disk, shadow, placed, restored>>
  BY DEF Restore, Ready
<1> DEFINE R == {work[p].data : p \in {q \in P : IsFile(q)}}
<1>2. GhostGrows /\ R \subseteq ghost'.released
  <2> HIDE DEF R
  <2>1. ghost' = [OneMore EXCEPT !.released = @ \cup R]
    BY <1>1 DEF R
  <2> QED
    BY <2>1, ReleaseGrows DEF Sound
<1>3. ASSUME NEW p \in P PROVE Harmless(p)' /\ index'[p] # None
  BY <1>1, <1>2 DEF Harmless, Safe, disk, IsFile, IsDir
<1>4. CmdOK'
  BY <1>1, EmptySeq DEF CmdOK, Phases, Staged
<1>5. plan'.todo = P /\ plan' \in Plans
  BY <1>1 DEF NoPlan, Plans
<1>6. FilesOK' /\ EngineOK' /\ PushOK'
  BY <1>1, <1>3, <1>5 DEF Sound, FilesOK, EngineOK, PushOK, Staged
<1>7. TypedKept'
  BY <1>1, <1>2, TypedMoves DEF Sound, disk
<1> QED
  BY <1>1, <1>2, <1>4, <1>6, <1>7, DiskSame DEF Sound, GhostGrows

\* What rm deletes unforced is the blob of the entry.
LEMMA RmSound ==
  ASSUME Sound, Rm
  PROVE  Sound'
<1> DEFINE R(p, cached, force) == IF ~cached /\ force /\ IsFile(p) THEN {work[p].data} ELSE {}
<1>1. PICK p \in Path, cached \in BOOLEAN, force \in Forces :
        /\ pc = "idle" /\ index[p] # None /\ (cached \/ ~IsDir(p))
        /\ (~cached /\ ~force /\ work[p] # None) => work[p].data = index[p]
        /\ work' = IF cached THEN work ELSE [work EXCEPT ![p] = None]
        /\ cmd' = [op |-> "rm", arg |-> [index |-> [index EXCEPT ![p] = None], same |-> {}],
                   passes |-> <<>>]
        /\ pc' = "entry"
        /\ ghost' = [OneMore EXCEPT !.released = @ \cup R(p, cached, force)]
        /\ UNCHANGED <<disk, engine>>
  BY DEF Rm, Ready
<1>2. GhostGrows /\ R(p, cached, force) \subseteq ghost'.released
  <2> HIDE DEF R
  <2> QED
    BY <1>1, ReleaseGrows DEF Sound
<1>3. [index EXCEPT ![p] = None] \in Trees(stored)
  BY DEF Sound, DiskOK, Trees
<1>4. work' \in Files
  BY <1>1 DEF Sound, FilesOK, Files
<1>5. ASSUME NEW q \in Path, work[q] # None
      PROVE  work[q].data \in Safe' \/ (work'[q] # None /\ work'[q].data = work[q].data)
  <2>1. CASE cached \/ q # p
    BY <1>1, <1>5, <2>1 DEF Sound, FilesOK, Files
  <2>2. CASE ~cached /\ q = p /\ ~force
    <3>1. work[q].data = index[p] /\ index[p] \in stored
      BY <1>1, <1>5, <2>2 DEF Sound, DiskOK, Trees
    <3> QED
      BY <1>1, <3>1 DEF Safe, disk
  <2>3. CASE ~cached /\ q = p /\ force
    <3>1. work[q].data \in R(p, cached, force)
      BY <1>1, <1>5, <2>3 DEF IsFile
    <3> QED
      BY <1>2, <3>1 DEF Safe
  <2> QED
    BY <2>1, <2>2, <2>3
<1>6. TypedKept'
  BY <1>1, <1>2, <1>5, TypedMoves DEF Sound, disk
<1> HIDE DEF R
<1> QED
  BY <1>1, <1>2, <1>3, <1>4, <1>6, EntryStarts

LEMMA MoveSound ==
  ASSUME Sound, Move
  PROVE  Sound'
<1> DEFINE R(q) == IF IsFile(q) THEN {work[q].data} ELSE {}
           same(p, q) == IF work[p].stat THEN {q} ELSE {}
<1>1. PICK p \in Path, q \in Path :
        /\ pc = "idle" /\ p # q /\ IsFile(p) /\ index[p] # None /\ ~IsDir(q)
        /\ work' = [work EXCEPT ![p] = None, ![q] = New(work[p].data)]
        /\ cmd' = [op |-> "mv", passes |-> <<>>,
                   arg |-> [index |-> [index EXCEPT ![p] = None, ![q] = index[p]],
                            same  |-> same(p, q)]]
        /\ pc' = "entry"
        /\ ghost' = [OneMore EXCEPT !.released = @ \cup R(q)]
        /\ UNCHANGED <<disk, engine>>
  BY DEF Move, Ready
<1>2. GhostGrows /\ R(q) \subseteq ghost'.released
  <2> HIDE DEF R, same
  <2> QED
    BY <1>1, ReleaseGrows DEF Sound
<1>3. [index EXCEPT ![p] = None, ![q] = index[p]] \in Trees(stored)
  BY DEF Sound, DiskOK, Trees
<1>4. work[p].data \in Content
  BY <1>1, FileData DEF Sound
<1>5. New(work[p].data) \in File /\ New(work[p].data) # None /\ New(work[p].data).data = work[p].data
  BY <1>4, NewFile
<1>6. work' \in Files
  BY <1>1, <1>5 DEF Sound, FilesOK, Files
<1>7. work'[q] # None /\ work'[q].data = work[p].data
  BY <1>1, <1>5 DEF Sound, FilesOK, Files
<1>8. ASSUME NEW r \in Path, work[r] # None
      PROVE  \/ work[r].data \in Safe'
             \/ \E t \in Path : work'[t] # None /\ work'[t].data = work[r].data
  <2>1. CASE r = p
    BY <1>7, <2>1
  <2>2. CASE r = q
    BY <1>1, <1>2, <1>8, <2>2 DEF Safe, IsFile
  <2>3. CASE r # p /\ r # q
    BY <1>1, <1>8, <2>3 DEF Sound, FilesOK, Files
  <2> QED
    BY <2>1, <2>2, <2>3
<1>9. TypedKept'
  BY <1>1, <1>2, <1>8, TypedMoves DEF Sound, disk
<1> HIDE DEF R, same
<1>10. cmd' = [op |-> "mv", arg |-> [index |-> [index EXCEPT ![p] = None, ![q] = index[p]],
                                     same |-> same(p, q)], passes |-> <<>>]
  BY <1>1
<1> QED
  BY <1>1, <1>2, <1>3, <1>6, <1>9, <1>10, EntryStarts

LEMMA WriteEntrySound ==
  ASSUME Sound, WriteEntry
  PROVE  Sound'
<1>1. /\ pc = "entry" /\ index' = cmd.arg.index
      /\ work' = Stamped(work, cmd.arg.same, {p \in Path : cmd.arg.index[p] = None})
      /\ Exit("done") /\ UNCHANGED <<head, tip, stored, stash>>
  BY DEF WriteEntry
<1>2. Over /\ GhostGrows
  BY <1>1, ExitOver DEF Sound
<1>3. DiskOK'
  BY <1>1 DEF Sound, DiskOK, CmdOK
<1>4. /\ work' \in Files
      /\ \A p \in Path : /\ (work'[p] = None) = (work[p] = None)
                         /\ work[p] # None => work'[p].data = work[p].data
  BY <1>1, StampedFiles DEF Sound, FilesOK
<1> QED
  BY <1>1, <1>2, <1>3, <1>4, OverSound

-----------------------------------------------------------------------------
(* The engine.                                                             *)

LEMMA FirstIs ==
  ASSUME Sound, pc \in {"plan", "index"} \cup Staged
  PROVE  /\ cmd.passes \in Seq(Passes(stored)) /\ cmd.passes # <<>> /\ cmd # Idle
         /\ Head(cmd.passes) \in Passes(stored)
<1>1. cmd.passes \in Seq(Passes(stored)) /\ cmd.passes # <<>>
  BY DEF Sound, CmdOK
<1>2. cmd # Idle
  BY <1>1 DEF Idle
<1> QED
  BY <1>1, <1>2, FirstPass

\* A stash push has one checkout, forced and of everything.
LEMMA PushFirst ==
  ASSUME Sound, cmd.op = "push", pc \in {"plan", "aside", "place", "index"}
  PROVE  /\ Head(cmd.passes).wd /\ Head(cmd.passes).force /\ Head(cmd.passes).ix
         /\ ~Head(cmd.passes).keep /\ Head(cmd.passes).paths = Path
         /\ Len(cmd.passes) = 1
<1> DEFINE c == Checkout(Head(cmd.passes).tree, TRUE)
<1>1. cmd.passes = <<c>>
  BY DEF Sound, PushOK
<1>2. c.wd /\ c.force /\ c.ix /\ ~c.keep /\ c.paths = Path
  BY DEF Checkout, Pass
<1> HIDE DEF c
<1>3. Head(cmd.passes) = c /\ Len(cmd.passes) = 1
  BY <1>1
<1> QED
  BY <1>2, <1>3

LEMMA PlanIs ==
  ASSUME NEW k \in Passes(stored)
  PROVE  /\ \A p \in Path :
              /\ p \in PlanOf(k).create <=> p \in k.paths /\ k.tree[p] # None /\ index[p] = None
              /\ p \in PlanOf(k).update <=>
                   p \in k.paths /\ k.tree[p] # None /\ index[p] \notin {None, k.tree[p]}
              /\ p \in PlanOf(k).delete <=>
                   p \in k.paths /\ ~k.keep /\ k.tree[p] = None /\ index[p] # None
         /\ PlanOf(k) \in Plans
  BY DEF PlanOf, Plans, Passes

\* A checkout that goes ahead displaces only what is stored, given up, or
\* taken for clean.
LEMMA PlanSound ==
  ASSUME Sound, Plan
  PROVE  Sound'
<1> DEFINE k == Head(cmd.passes)
           due == PlanOf(k).create \cup PlanOf(k).update \cup PlanOf(k).delete
           R == {work[q].data : q \in Displaced(k).released}
           H == {work[q].data : q \in {r \in Displaced(k).hidden : work[r].stat /\ work[r].data # index[r]}}
           first == IF k.wd THEN PlanOf(k).update \cup PlanOf(k).delete ELSE {}
<1>1. /\ pc = "plan" /\ Allowed(k)
      /\ plan' = [PlanOf(k) EXCEPT !.todo = first]
      /\ pc' = IF k.wd THEN "aside" ELSE "index"
      /\ ghost' = [ghost EXCEPT !.released = @ \cup R, !.hidden = @ \cup H]
      /\ UNCHANGED <<work, disk, cmd, shadow, placed, restored>>
  BY DEF Plan
<1>2. /\ cmd.passes \in Seq(Passes(stored)) /\ cmd.passes # <<>>
      /\ k \in Passes(stored)
  BY <1>1, FirstIs
<1>3. /\ GhostGrows /\ ghost'.released = ghost.released \cup R
      /\ ghost'.hidden = ghost.hidden \cup H
  <2> HIDE DEF R, H
  <2> QED
    BY <1>1 DEF Sound, GhostOK, GhostGrows
<1>4. /\ plan' \in Plans /\ plan'.create = PlanOf(k).create /\ plan'.update = PlanOf(k).update
      /\ plan'.delete = PlanOf(k).delete /\ plan'.todo = first
  <2>1. PlanOf(k) \in Plans
    BY <1>2, PlanIs
  <2>2. first \in SUBSET Path
    BY <2>1 DEF Plans
  <2> HIDE DEF first
  <2> QED
    BY <1>1, <2>1, <2>2 DEF Plans
<1>5. Touched' = due
  BY <1>4 DEF Touched
<1>6. k.wd \in BOOLEAN /\ k.force \in BOOLEAN
  BY <1>2 DEF Passes
<1>7. cmd.op = "push" => k.wd /\ k.force /\ k.paths = Path
  BY <1>1, PushFirst
<1> HIDE DEF k
<1>8. ASSUME NEW p \in due, k.wd, IsFile(p)
      PROVE  work[p].data \in Safe'
  <2>1. p \in Path
    BY <1>2, PlanIs DEF Plans
  <2>2. CASE k.force /\ cmd.op # "push"
    <3>1. p \in Displaced(k).released
      BY <1>8, <2>2 DEF Displaced
    <3> QED
      BY <1>3, <3>1 DEF Safe
  <2>3. CASE k.force /\ cmd.op = "push"
    <3>1. CASE p \in PlanOf(k).create
      <4>1. p \in Displaced(k).released
        BY <1>8, <2>3, <3>1 DEF Displaced
      <4> QED
        BY <1>3, <4>1 DEF Safe
    <3>2. CASE p \notin PlanOf(k).create
      <4>1. index[p] # None
        BY <1>2, <1>8, <2>1, <3>2, PlanIs
      <4>2. work[p].data \in Safe
        BY <1>8, <2>1, <2>3, <4>1 DEF Sound, PushOK, Harmless, IsFile
      <4> QED
        BY <1>1, <1>3, <4>2, SafeGrows DEF disk
    <3> QED
      BY <3>1, <3>2
  <2>4. CASE ~k.force
    <3>1. Conflicts(k) = {}
      BY <1>1, <2>4 DEF Allowed
    <3>2. p \notin PlanOf(k).create /\ CleanMatch(p)
      BY <1>8, <2>1, <3>1 DEF Conflicts, IsFile
    <3>3. index[p] # None /\ index[p] \in stored
      <4>1. index[p] # None
        BY <1>2, <1>8, <2>1, <3>2, PlanIs
      <4> QED
        BY <2>1, <4>1 DEF Sound, DiskOK, Trees
    <3>4. CASE work[p].data = index[p]
      BY <1>1, <3>3, <3>4 DEF Safe, disk
    <3>5. CASE work[p].data # index[p]
      <4>1. p \in Displaced(k).hidden
        BY <1>8, <2>4 DEF Displaced
      <4>2. work[p].data \in H
        BY <3>2, <3>5, <4>1 DEF CleanMatch
      <4> QED
        BY <1>3, <4>2 DEF Safe
    <3> QED
      BY <3>4, <3>5
  <2> QED
    BY <1>6, <2>2, <2>3, <2>4
<1>9. ASSUME NEW p \in due, k.wd PROVE Harmless(p)'
  <2>1. CASE IsFile(p)
    BY <1>1, <1>8, <1>9, <2>1 DEF Harmless
  <2>2. CASE ~IsFile(p)
    BY <1>1, <2>2 DEF Harmless, Safe, IsFile, IsDir
  <2> QED
    BY <2>1, <2>2
<1>10. \A p \in Path : Harmless(p) => Harmless(p)'
  BY <1>1, <1>3, SafeGrows DEF Harmless, disk
<1>11. CmdOK'
  BY <1>1 DEF Sound, CmdOK, Phases, Staged, disk
<1>12. FilesOK'
  BY <1>1, <1>4 DEF Sound, FilesOK
<1>13. shadow = NoFiles /\ placed = {} /\ \A p \in Path : shadow[p] = None
  BY <1>1 DEF Sound, EngineOK, Staged, NoFiles
<1>14. EngineOK'
  <2>1. pc' \in Staged => k.wd /\ pc' = "aside"
    BY <1>1, <1>6 DEF Staged
  <2>2. ASSUME pc' \in Staged
        PROVE  /\ plan'.todo \subseteq Touched' /\ placed' \subseteq Touched'
               /\ \A p \in Touched' : Harmless(p)'
               /\ \A p \in Path : shadow'[p] = None
               /\ \A p \in plan'.create \cup plan'.update : Head(cmd'.passes).tree[p] # None
    <3>1. \A p \in plan'.create \cup plan'.update : p \in Path /\ k.tree[p] # None
      <4>1. PlanOf(k).create \subseteq Path /\ PlanOf(k).update \subseteq Path
        BY <1>2, PlanIs DEF Plans
      <4> QED
        BY <1>2, <1>4, <4>1, PlanIs
    <3> QED
      BY <1>1, <1>4, <1>5, <1>9, <1>13, <2>1, <2>2, <3>1 DEF k
  <2> QED
    BY <1>1, <1>13, <2>1, <2>2 DEF EngineOK, Staged
<1>15. PushOK'
  <2>1. SUFFICES ASSUME cmd.op = "push", NEW p \in Path, k.tree[p] # None
                 PROVE  Harmless(p)'
    BY <1>1, <1>10, <2>1 DEF Sound, PushOK, disk, k
  <2>2. CASE index[p] = None
    BY <1>2, <1>7, <1>9, <2>1, <2>2, PlanIs
  <2>3. CASE index[p] # None
    BY <1>10, <2>1, <2>3 DEF Sound, PushOK
  <2> QED
    BY <2>2, <2>3
<1>16. TypedKept'
  BY <1>1, <1>3, TypedMoves DEF Sound, disk
<1> QED
  BY <1>1, <1>3, <1>11, <1>12, <1>14, <1>15, <1>16, DiskSame DEF Sound, GhostGrows

\* A step within the three phases: whatever it overwrites is touched.
LEMMA StagedSound ==
  ASSUME Sound, pc \in Staged, pc' \in Staged, UNCHANGED <<disk, cmd>>, GhostGrows, FilesOK',
         plan'.create = plan.create, plan'.update = plan.update, plan'.delete = plan.delete,
         plan'.todo \subseteq Touched, placed' \subseteq Touched,
         \A p \in Path : work'[p] # None => work'[p] = work[p] \/ work'[p].data \in Safe,
         \A p \in Path \ Touched : work'[p] = work[p],
         \A p \in Path : shadow'[p] # None => p \in Touched /\ shadow'[p].data \in Safe,
         pc' \in {"aside", "place"} => pc \in {"aside", "place"},
         pc' = "place" => plan'.todo \subseteq plan.create \cup plan.update
  PROVE  Sound'
<1>1. Safe \subseteq Safe'
  BY SafeGrows DEF disk
<1>2. Touched' = Touched
  BY DEF Touched
<1>3. \A p \in Path : Harmless(p) => Harmless(p)'
  BY <1>1 DEF Harmless
<1>4. CmdOK'
  BY DEF Sound, CmdOK, Phases, Staged, disk
<1>5. Touched \subseteq Path /\ \A p \in Touched : Harmless(p)
  BY DEF Sound, EngineOK, FilesOK, Plans, Touched
<1>6. EngineOK'
  BY <1>1, <1>2, <1>3, <1>5 DEF Sound, EngineOK, Staged
<1>7. PushOK'
  BY <1>3 DEF Sound, PushOK, Staged, disk
<1>8. TypedKept'
  <2>1. ASSUME NEW p \in Path, work[p] # None
        PROVE  work[p].data \in Safe' \/ (work'[p] # None /\ work'[p].data = work[p].data)
    <3>1. CASE p \in Touched
      BY <1>1, <1>5, <2>1, <3>1 DEF Harmless
    <3>2. CASE p \notin Touched
      BY <2>1, <3>2
    <3> QED
      BY <3>1, <3>2
  <2> QED
    BY <2>1, TypedMoves DEF Sound, disk
<1> QED
  BY <1>4, <1>6, <1>7, <1>8, DiskSame DEF Sound, GhostGrows

LEMMA TodoIs ==
  ASSUME FilesOK, NEW p \in plan.todo, Todo(p)
  PROVE  /\ p \in Path /\ plan' \in Plans /\ plan'.todo = plan.todo \ {p}
         /\ plan'.create = plan.create /\ plan'.update = plan.update /\ plan'.delete = plan.delete
  BY DEF FilesOK, Plans, Todo

LEMMA StagedStepsSound ==
  ASSUME Sound, MoveAside \/ AsideDone \/ Place \/ RenameFails \/ RemovePlaced \/ MoveBack
  PROVE  Sound'
<1>1. pc \in Staged => /\ plan.todo \subseteq Touched /\ placed \subseteq Touched
                       /\ \A p \in Touched : Harmless(p)
                       /\ \A p \in Path : shadow[p] # None => p \in Touched /\ shadow[p].data \in Safe
  BY DEF Sound, EngineOK
<1>2. /\ work \in Files /\ shadow \in Files /\ placed \subseteq Path /\ plan \in Plans
      /\ Touched \subseteq Path
  BY DEF Sound, FilesOK, Plans, Touched
<1>3. UNCHANGED ghost => GhostGrows
  BY SameGrows DEF Sound
<1>4. Fault => GhostGrows
  BY FaultGrows DEF Sound
<1>5. CASE MoveAside
  <2>1. PICK p \in plan.todo :
          /\ pc = "aside" /\ Todo(p)
          /\ shadow' = [shadow EXCEPT ![p] = work[p]] /\ work' = [work EXCEPT ![p] = None]
          /\ UNCHANGED <<disk, pc, cmd, placed, restored, ghost>>
    BY <1>5 DEF MoveAside
  <2>2. /\ p \in Path /\ plan' \in Plans /\ plan'.todo = plan.todo \ {p}
        /\ plan'.create = plan.create /\ plan'.update = plan.update /\ plan'.delete = plan.delete
    BY <2>1, TodoIs DEF Sound
  <2>3. p \in Touched /\ Harmless(p)
    BY <1>1, <2>1 DEF Staged
  <2>4. FilesOK'
    BY <1>2, <2>1, <2>2 DEF FilesOK, Files
  <2>5. \A q \in Path : shadow'[q] # None => q \in Touched /\ shadow'[q].data \in Safe
    BY <1>1, <1>2, <2>1, <2>2, <2>3 DEF Files, Harmless, Staged
  <2>6. /\ \A q \in Path : work'[q] # None => work'[q] = work[q]
        /\ \A q \in Path \ Touched : work'[q] = work[q]
    BY <1>2, <2>1, <2>2, <2>3 DEF Files
  <2> QED
    BY <1>1, <1>3, <2>1, <2>2, <2>4, <2>5, <2>6, StagedSound DEF Staged
<1>6. CASE AsideDone
  <2>1. /\ pc = "aside" /\ pc' = "place"
        /\ plan' = [plan EXCEPT !.todo = plan.create \cup plan.update]
        /\ UNCHANGED <<work, disk, cmd, shadow, placed, restored, ghost>>
    BY <1>6 DEF AsideDone
  <2>2. /\ plan' \in Plans /\ plan'.todo = plan.create \cup plan.update
        /\ plan'.create = plan.create /\ plan'.update = plan.update /\ plan'.delete = plan.delete
        /\ plan'.todo \subseteq Touched
    BY <1>2, <2>1 DEF Plans, Touched
  <2>3. FilesOK'
    BY <1>2, <2>1, <2>2 DEF FilesOK
  <2> QED
    BY <1>1, <1>3, <2>1, <2>2, <2>3, StagedSound DEF Staged
<1>7. CASE Place
  <2>1. PICK p \in plan.todo :
          /\ pc = "place" /\ Todo(p)
          /\ work' = [work EXCEPT ![p] = New(Head(cmd.passes).tree[p])]
          /\ placed' = placed \cup {p}
          /\ UNCHANGED <<disk, pc, cmd, shadow, restored, ghost>>
    BY <1>7 DEF Place
  <2>2. /\ p \in Path /\ plan' \in Plans /\ plan'.todo = plan.todo \ {p}
        /\ plan'.create = plan.create /\ plan'.update = plan.update /\ plan'.delete = plan.delete
    BY <2>1, TodoIs DEF Sound
  <2>3. p \in Touched /\ plan.todo \subseteq plan.create \cup plan.update
    BY <1>1, <2>1 DEF Staged, Sound, EngineOK
  <2>4. Head(cmd.passes).tree[p] \in stored
    <3>1. Head(cmd.passes).tree \in Trees(stored)
      BY <2>1, FirstIs DEF Staged, Passes
    <3>2. Head(cmd.passes).tree[p] # None
      BY <2>1, <2>3 DEF Sound, EngineOK
    <3> QED
      BY <2>2, <3>1, <3>2 DEF Trees
  <2> DEFINE n == New(Head(cmd.passes).tree[p])
  <2>5. n \in File /\ n # None /\ n.data \in stored
    BY <2>4, NewFile DEF Sound, DiskOK
  <2> HIDE DEF n
  <2>6. work' = [work EXCEPT ![p] = n]
    BY <2>1 DEF n
  <2>7. FilesOK'
    BY <1>2, <2>1, <2>2, <2>5, <2>6 DEF FilesOK, Files
  <2>8. /\ \A q \in Path : work'[q] # None => work'[q] = work[q] \/ work'[q].data \in Safe
        /\ \A q \in Path \ Touched : work'[q] = work[q]
    BY <1>2, <2>2, <2>3, <2>5, <2>6 DEF Files, Safe
  <2> QED
    BY <1>1, <1>3, <2>1, <2>2, <2>3, <2>7, <2>8, StagedSound DEF Staged
<1>8. CASE RenameFails
  <2>1. /\ pc \in {"aside", "place"} /\ (Fault \/ UNCHANGED ghost) /\ pc' = "rollback"
        /\ plan' = [plan EXCEPT !.todo = {p \in Path : shadow[p] # None}]
        /\ UNCHANGED <<work, disk, cmd, shadow, placed, restored>>
    BY <1>8 DEF RenameFails
  <2>2. /\ plan' \in Plans /\ plan'.todo = {p \in Path : shadow[p] # None}
        /\ plan'.create = plan.create /\ plan'.update = plan.update /\ plan'.delete = plan.delete
    BY <1>2, <2>1 DEF Plans
  <2>3. FilesOK'
    BY <1>2, <2>1, <2>2 DEF FilesOK
  <2> QED
    BY <1>1, <1>3, <1>4, <2>1, <2>2, <2>3, StagedSound DEF Staged
<1>9. CASE RemovePlaced
  <2>1. PICK p \in placed :
          /\ pc = "rollback" /\ placed' = placed \ {p}
          /\ (work' = [work EXCEPT ![p] = None] /\ UNCHANGED ghost) \/ (Fault /\ UNCHANGED work)
          /\ UNCHANGED <<disk, pc, cmd, plan, shadow>>
    BY <1>9 DEF RemovePlaced
  <2>2. p \in Touched
    BY <1>1, <2>1 DEF Staged
  <2>3. FilesOK'
    BY <1>2, <2>1 DEF FilesOK, Files
  <2>4. /\ \A q \in Path : work'[q] # None => work'[q] = work[q]
        /\ \A q \in Path \ Touched : work'[q] = work[q]
    BY <1>2, <2>1, <2>2 DEF Files
  <2> QED
    BY <1>1, <1>3, <1>4, <2>1, <2>3, <2>4, StagedSound DEF Staged
<1>10. CASE MoveBack
  <2>1. PICK p \in plan.todo :
          /\ pc = "rollback" /\ Todo(p)
          /\ \/ /\ work' = [work EXCEPT ![p] = shadow[p]]
                /\ shadow' = [shadow EXCEPT ![p] = None] /\ UNCHANGED ghost
             \/ Fault /\ UNCHANGED <<work, shadow>>
          /\ UNCHANGED <<disk, pc, cmd, placed>>
    BY <1>10 DEF MoveBack
  <2>2. /\ p \in Path /\ plan' \in Plans /\ plan'.todo = plan.todo \ {p}
        /\ plan'.create = plan.create /\ plan'.update = plan.update /\ plan'.delete = plan.delete
    BY <2>1, TodoIs DEF Sound
  <2>3. p \in Touched
    BY <1>1, <2>1 DEF Staged
  <2>4. FilesOK'
    BY <1>2, <2>1, <2>2 DEF FilesOK, Files
  <2>5. /\ \A q \in Path : work'[q] # None => work'[q] = work[q] \/ work'[q].data \in Safe
        /\ \A q \in Path \ Touched : work'[q] = work[q]
        /\ \A q \in Path : shadow'[q] # None => q \in Touched /\ shadow'[q].data \in Safe
    BY <1>1, <1>2, <2>1, <2>2, <2>3 DEF Files, Staged
  <2> QED
    BY <1>1, <1>3, <1>4, <2>1, <2>2, <2>4, <2>5, StagedSound DEF Staged
<1> QED
  BY <1>5, <1>6, <1>7, <1>8, <1>9, <1>10

\* A command that ends and moves no file.
LEMMA EndSound ==
  ASSUME Sound, Over, GhostGrows, DiskOK', stored' = stored, UNCHANGED work
  PROVE  Sound'
  BY OverSound DEF Sound, FilesOK

LEMMA EndsSound ==
  ASSUME Sound, Refuse \/ UndoDone \/ IndexBusy \/ FileFails \/ UnlinkDone \/ Crash
  PROVE  Sound'
<1>1. /\ UNCHANGED <<work, disk>>
      /\ Lost \/ \E result \in {"refused", "failed", "recovered", "partly", "done"} : Exit(result)
  BY DEF Refuse, UndoDone, IndexBusy, FileFails, UnlinkDone, Crash
<1>2. Over /\ GhostGrows
  BY <1>1, ExitOver, LostOver DEF Sound
<1> QED
  BY <1>1, <1>2, DiskSame, EndSound DEF Sound, disk

\* The command goes on to its next checkout, or to its end.
LEMMA NextPassOK ==
  ASSUME Sound, pc \in {"place", "index"}, NextPass, UNCHANGED <<tip, stored, stash>>
  PROVE  /\ CmdOK' /\ pc' \in {"plan", "finish"}
         /\ cmd'.op = cmd.op /\ cmd'.arg = cmd.arg /\ cmd'.passes = Tail(cmd.passes)
         /\ cmd.op = "push" => pc' = "finish"
<1>1. /\ cmd.passes \in Seq(Passes(stored)) /\ cmd.passes # <<>> /\ cmd # Idle
  BY FirstIs DEF Staged
<1>2. /\ Tail(cmd.passes) \in Seq(Passes(stored)) /\ Len(cmd.passes) \in Nat
      /\ Len(Tail(cmd.passes)) = Len(cmd.passes) - 1
  BY <1>1, FirstPass
<1>3. DOMAIN cmd = {"op", "arg", "passes"}
  BY <1>1 DEF Sound, CmdOK
<1>4. /\ DOMAIN cmd' = {"op", "arg", "passes"} /\ cmd'.op = cmd.op /\ cmd'.arg = cmd.arg
      /\ cmd'.passes = Tail(cmd.passes)
      /\ pc' = IF Len(cmd.passes) > 1 THEN "plan" ELSE "finish"
  BY <1>3 DEF NextPass
<1>5. pc' = "plan" => cmd'.passes # <<>>
  <2>1. Len(<<>>) = 0
    OBVIOUS
  <2> DEFINE n == Len(cmd.passes)
             rest == Tail(cmd.passes)
  <2>2. n \in Nat /\ Len(rest) = n - 1 /\ (pc' = "plan" => n > 1) /\ cmd'.passes = rest
    BY <1>2, <1>4
  <2> HIDE DEF n, rest
  <2> QED
    BY <2>1, <2>2
<1>6. CmdOK'
  BY <1>2, <1>4, <1>5 DEF Sound, CmdOK, Phases, Staged
<1>7. cmd.op = "push" => pc' = "finish"
  <2>1. cmd.op = "push" => Len(cmd.passes) = 1
    BY PushFirst
  <2>2. ~(1 > 1)
    OBVIOUS
  <2> QED
    BY <1>4, <2>1, <2>2
<1> QED
  BY <1>4, <1>6, <1>7

LEMMA PlaceDoneSound ==
  ASSUME Sound, PlaceDone
  PROVE  Sound'
<1>1. /\ pc = "place" /\ shadow' = NoFiles /\ placed' = {}
      /\ UNCHANGED <<work, disk, plan, ghost>>
      /\ (Head(cmd.passes).ix /\ pc' = "index" /\ UNCHANGED cmd) \/ (~Head(cmd.passes).ix /\ NextPass)
  BY DEF PlaceDone
<1>2. /\ GhostGrows /\ TypedKept' /\ \A p \in Path : Harmless(p)' <=> Harmless(p)
  BY <1>1, SameGrows, TypedMoves DEF Sound, disk, Harmless, Safe
<1>3. FilesOK'
  BY <1>1 DEF Sound, FilesOK, NoFiles, Files
<1>4. CASE Head(cmd.passes).ix /\ pc' = "index" /\ UNCHANGED cmd
  <2>1. CmdOK'
    BY <1>1, <1>4 DEF Sound, CmdOK, Phases, Staged, disk
  <2>2. EngineOK' /\ PushOK'
    BY <1>1, <1>2, <1>4 DEF Sound, EngineOK, PushOK, Staged, disk
  <2> QED
    BY <1>1, <1>2, <1>3, <2>1, <2>2, DiskSame DEF Sound, GhostGrows
<1>5. CASE ~Head(cmd.passes).ix /\ NextPass
  <2>1. CmdOK' /\ pc' \in {"plan", "finish"} /\ cmd'.op = cmd.op
    BY <1>1, <1>5, NextPassOK DEF disk
  <2>2. cmd.op # "push"
    BY <1>1, <1>5, PushFirst
  <2>3. EngineOK' /\ PushOK'
    BY <1>1, <2>1, <2>2 DEF EngineOK, PushOK, Staged
  <2> QED
    BY <1>1, <1>2, <1>3, <2>1, <2>3, DiskSame DEF Sound, GhostGrows
<1> QED
  BY <1>1, <1>4, <1>5

LEMMA WriteIndexSound ==
  ASSUME Sound, WriteIndex
  PROVE  Sound'
<1> DEFINE k == Head(cmd.passes)
<1>1. /\ pc = "index" /\ index' = NewIndex(k) /\ NextPass
      /\ UNCHANGED <<head, tip, stored, stash, engine, ghost>>
      /\ \E here, gone : work' = Stamped(work, here, gone)
  BY Zenon DEF WriteIndex
<1>2. k \in Passes(stored)
  BY <1>1, FirstIs
<1>3. k.tree \in Trees(stored)
  BY <1>2 DEF Passes
<1> HIDE DEF k
<1>4. NewIndex(k) \in Trees(stored)
  BY <1>3 DEF NewIndex, Trees, Sound, DiskOK
<1>5. DiskOK'
  BY <1>1, <1>4 DEF Sound, DiskOK
<1>6. GhostGrows
  BY <1>1, SameGrows DEF Sound
<1>7. work' \in Files /\ TypedKept' /\ \A p \in Path : Harmless(p) => Harmless(p)'
  BY <1>1, <1>6, StampMoves
<1>8. /\ CmdOK' /\ pc' \in {"plan", "finish"} /\ cmd'.op = cmd.op /\ cmd'.arg = cmd.arg
      /\ cmd.op = "push" => pc' = "finish"
  BY <1>1, NextPassOK
<1>9. FilesOK' /\ EngineOK'
  BY <1>1, <1>7, <1>8 DEF Sound, FilesOK, EngineOK, engine, Staged
<1>10. PushOK'
  <2> SUFFICES ASSUME cmd.op = "push"
               PROVE  /\ cmd.arg.u \in Trees(stored)
                      /\ \A p \in Path : index'[p] # None \/ cmd.arg.u[p] # None => Harmless(p)'
    BY <1>1, <1>8 DEF PushOK
  <2>1. ~k.keep /\ k.paths = Path
    BY <1>1, PushFirst DEF k
  <2>2. \A p \in Path : index'[p] = k.tree[p]
    BY <1>1, <2>1 DEF NewIndex
  <2>3. \A p \in Path : k.tree[p] # None \/ cmd.arg.u[p] # None => Harmless(p)
    BY <1>1 DEF Sound, PushOK, k
  <2> QED
    BY <1>7, <2>2, <2>3 DEF Sound, PushOK
<1> QED
  BY <1>5, <1>6, <1>7, <1>8, <1>9, <1>10 DEF Sound, GhostGrows

\* HEAD moves to a branch that exists or to a tree, a branch to a tree.
LEMMA FinishSound ==
  ASSUME Sound, Finish
  PROVE  Sound'
<1>1. /\ Exit("done") /\ UNCHANGED <<work, index, stored, stash>>
      /\ head' = IF cmd.op \in {"switch", "switch -c", "detach"} THEN cmd.arg
                 ELSE IF cmd.op = "reset" /\ head \notin Branch THEN cmd.arg ELSE head
      /\ tip' = IF cmd.op = "reset" /\ head \in Branch THEN [tip EXCEPT ![head] = cmd.arg] ELSE tip
  BY DEF Finish
<1>2. \A t \in Trees(stored) : t \notin Branch /\ t # None
  BY TreesAreTrees, WorkTreeAssumption DEF Sound
<1>3. DiskOK'
  <2>1. CASE cmd.op \in {"switch", "switch -c"}
    BY <1>1, <2>1 DEF Sound, DiskOK, CmdOK
  <2>2. CASE cmd.op = "detach"
    BY <1>1, <1>2, <2>2 DEF Sound, DiskOK, CmdOK
  <2>3. CASE cmd.op = "reset"
    BY <1>1, <1>2, <2>3 DEF Sound, DiskOK, CmdOK
  <2>4. CASE cmd.op \notin {"switch", "switch -c", "detach", "reset"}
    BY <1>1, <2>4 DEF Sound, DiskOK
  <2> QED
    BY <2>1, <2>2, <2>3, <2>4
<1> QED
  BY <1>1, <1>3, ExitOver, EndSound DEF Sound

-----------------------------------------------------------------------------
(* The files that stash writes and removes, and the theorem.               *)

LEMMA FilesFirstSound ==
  ASSUME Sound, FilesFirst \/ UntrackedFirst
  PROVE  Sound'
<1>1. /\ pc = "finish" /\ UNCHANGED <<work, disk, cmd, shadow, placed, ghost>>
      /\ shadow = NoFiles /\ placed = {}
  BY DEF FilesFirst, UntrackedFirst, Sound, EngineOK, Staged
<1>2. /\ GhostGrows /\ TypedKept' /\ \A p \in Path : Harmless(p)' <=> Harmless(p)
  BY <1>1, SameGrows, TypedMoves DEF Sound, disk, Harmless, Safe
<1>3. CASE FilesFirst
  <2>1. /\ cmd.op = "push" /\ pc' = "files"
        /\ plan' = [plan EXCEPT !.todo = {p \in Path : index[p] # None}]
    BY <1>3 DEF FilesFirst
  <2>2. plan' \in Plans /\ plan'.todo = {p \in Path : index[p] # None}
    BY <2>1 DEF Sound, FilesOK, Plans
  <2>3. CmdOK' /\ FilesOK'
    BY <1>1, <2>1, <2>2 DEF Sound, CmdOK, FilesOK, Phases, Staged, disk
  <2>4. EngineOK' /\ PushOK'
    BY <1>1, <1>2, <2>1, <2>2 DEF Sound, EngineOK, PushOK, Staged, disk
  <2> QED
    BY <1>1, <1>2, <2>3, <2>4, DiskSame DEF Sound, GhostGrows
<1>4. CASE UntrackedFirst
  <2>1. /\ cmd.op \in {"apply", "pop"} /\ pc' = "untracked"
        /\ plan' = [NoPlan EXCEPT !.todo = {p \in Path : stash[cmd.arg].u[p] # None}]
    BY <1>4 DEF UntrackedFirst
  <2>2. plan' \in Plans /\ plan'.todo = {p \in Path : stash[cmd.arg].u[p] # None}
    BY <2>1 DEF NoPlan, Plans
  <2>3. CmdOK' /\ FilesOK'
    BY <1>1, <2>1, <2>2 DEF Sound, CmdOK, FilesOK, Phases, Staged, disk
  <2>4. EngineOK' /\ PushOK'
    BY <1>1, <2>1, <2>2 DEF Sound, EngineOK, PushOK, Staged, disk
  <2> QED
    BY <1>1, <1>2, <2>3, <2>4, DiskSame DEF Sound, GhostGrows
<1> QED
  BY <1>3, <1>4

\* A step on one file, in the loops after the checkouts.
LEMMA LoopSound ==
  ASSUME Sound, pc \in {"files", "unlink", "untracked"},
         UNCHANGED <<disk, pc, cmd, shadow, placed, ghost>>,
         NEW p \in plan.todo, Todo(p), NEW f, work' = [work EXCEPT ![p] = f],
         f = None \/ (f \in File /\ f # None /\ f.data \in stored),
         Harmless(p)
  PROVE  Sound'
<1>1. /\ p \in Path /\ plan' \in Plans /\ plan'.todo = plan.todo \ {p}
  BY TodoIs DEF Sound
<1>2. GhostGrows /\ Safe' = Safe
  BY SameGrows DEF Sound, Safe, disk
<1>3. \A q \in Path : work'[q] = IF q = p THEN f ELSE work[q]
  BY DEF Sound, FilesOK, Files
<1>4. \A q \in Path : Harmless(q) => Harmless(q)'
  BY <1>2, <1>3 DEF Harmless, Safe
<1>5. \A q \in Path : work[q] # None =>
        work[q].data \in Safe' \/ (work'[q] # None /\ work'[q].data = work[q].data)
  BY <1>2, <1>3 DEF Harmless
<1>6. TypedKept'
  BY <1>2, <1>5, TypedMoves DEF Sound, disk
<1>7. FilesOK'
  BY <1>1 DEF Sound, FilesOK, Files
<1>8. CmdOK'
  BY DEF Sound, CmdOK, disk
<1>9. EngineOK'
  <2>1. pc' \notin Staged /\ shadow' = NoFiles /\ placed' = {}
    BY DEF Sound, EngineOK, Staged
  <2>2. pc' = "files" => \A q \in plan'.todo : Harmless(q)' /\ index'[q] # None
    <3>1. \A q \in plan'.todo : q \in Path /\ q \in plan.todo
      BY <1>1 DEF Sound, FilesOK, Plans
    <3> QED
      BY <1>4, <3>1 DEF Sound, EngineOK, disk
  <2>3. pc' = "untracked" => \A q \in plan'.todo : stash'[cmd'.arg].u[q] # None
    BY <1>1 DEF Sound, EngineOK, disk
  <2> QED
    BY <2>1, <2>2, <2>3 DEF EngineOK, Staged
<1>10. PushOK'
  BY <1>1, <1>4 DEF Sound, PushOK, disk
<1> QED
  BY <1>2, <1>6, <1>7, <1>8, <1>9, <1>10, DiskSame DEF Sound, GhostGrows

LEMMA LoopsSound ==
  ASSUME Sound, WriteFile \/ Unlink \/ RestoreUntracked
  PROVE  Sound'
<1>1. CASE WriteFile
  <2>1. PICK p \in plan.todo : /\ pc = "files" /\ Todo(p) /\ work' = [work EXCEPT ![p] = New(index[p])]
                               /\ UNCHANGED <<disk, pc, cmd, shadow, placed, ghost>>
    BY <1>1 DEF WriteFile
  <2>2. Harmless(p) /\ index[p] # None /\ p \in Path
    BY <2>1, TodoIs DEF Sound, EngineOK
  <2>3. index[p] \in stored
    BY <2>2 DEF Sound, DiskOK, Trees
  <2>4. New(index[p]) \in File /\ New(index[p]) # None /\ New(index[p]).data \in stored
    BY <2>3, NewFile DEF Sound, DiskOK
  <2> QED
    BY <2>1, <2>2, <2>4, LoopSound
<1>2. CASE Unlink
  <2>1. PICK p \in plan.todo : /\ pc = "unlink" /\ Todo(p) /\ work' = [work EXCEPT ![p] = None]
                               /\ UNCHANGED <<disk, pc, cmd, shadow, placed, ghost>>
    BY <1>2 DEF Unlink
  <2>2. Harmless(p)
    BY <2>1 DEF Sound, CmdOK, PushOK
  <2> QED
    BY <2>1, <2>2, LoopSound
<1>3. CASE RestoreUntracked
  <2>1. PICK p \in plan.todo :
          IF work[p] = None
          THEN /\ Todo(p) /\ work' = [work EXCEPT ![p] = New(stash[cmd.arg].u[p])]
               /\ UNCHANGED <<pc, cmd, shadow, placed, restored, ghost>>
          ELSE Exit("partly") /\ UNCHANGED work
    BY <1>3 DEF RestoreUntracked
  <2>2. pc = "untracked" /\ UNCHANGED disk
    BY <1>3 DEF RestoreUntracked
  <2>3. CASE work[p] = None
    <3>1. p \in Path /\ cmd.arg \in DOMAIN stash
      BY <2>2 DEF Sound, FilesOK, Plans, CmdOK
    <3>2. stash[cmd.arg] \in Stashes(stored)
      BY <3>1, LenProperties, ElementOfSeq DEF Sound, DiskOK
    <3>3. stash[cmd.arg].u \in Trees(stored) /\ stash[cmd.arg].u[p] # None
      BY <2>2, <3>2 DEF Stashes, Sound, EngineOK
    <3>4. stash[cmd.arg].u[p] \in stored
      BY <3>1, <3>3 DEF Trees
    <3> DEFINE f == New(stash[cmd.arg].u[p])
    <3>5. f \in File /\ f # None /\ f.data \in stored
      BY <3>4, NewFile DEF Sound, DiskOK
    <3>6. work' = [work EXCEPT ![p] = f] /\ Todo(p)
      BY <2>1, <2>3
    <3>7. Harmless(p)
      BY <2>3 DEF Harmless
    <3> HIDE DEF f
    <3> QED
      BY <2>1, <2>2, <2>3, <3>5, <3>6, <3>7, LoopSound
  <2>4. CASE work[p] # None
    BY <2>1, <2>2, <2>4, ExitOver, EndSound, DiskSame DEF Sound, disk
  <2> QED
    BY <2>3, <2>4
<1> QED
  BY <1>1, <1>2, <1>3

LEMMA TailSound ==
  ASSUME Sound, FilesDone \/ StampIndex \/ ApplyDone
  PROVE  Sound'
<1>1. CASE FilesDone
  <2>1. pc = "files" /\ UNCHANGED <<work, disk>>
    BY <1>1 DEF FilesDone
  <2>2. CASE cmd.op = "push"
    <3>1. pc' = "stamp" /\ UNCHANGED <<cmd, engine, ghost>>
      BY <1>1, <2>2 DEF FilesDone
    <3>2. /\ GhostGrows /\ TypedKept' /\ \A p \in Path : Harmless(p)' <=> Harmless(p)
      BY <2>1, <3>1, SameGrows, TypedMoves DEF Sound, disk, Harmless, Safe
    <3>3. CmdOK' /\ FilesOK' /\ EngineOK' /\ PushOK'
      BY <2>1, <2>2, <3>1, <3>2
      DEF Sound, CmdOK, FilesOK, EngineOK, PushOK, engine, disk, Staged, Phases
    <3> QED
      BY <2>1, <3>2, <3>3, DiskSame DEF Sound, GhostGrows
  <2>3. CASE cmd.op # "push"
    <3>1. Exit("done")
      BY <1>1, <2>3 DEF FilesDone
    <3> QED
      BY <2>1, <3>1, ExitOver, EndSound, DiskSame DEF Sound, disk
  <2> QED
    BY <2>2, <2>3
<1>2. CASE StampIndex
  <2>1. /\ pc = "stamp" /\ work' = Stamped(work, {p \in Path : index[p] # None}, {})
        /\ pc' = "unlink" /\ plan' = [plan EXCEPT !.todo = {p \in Path : cmd.arg.u[p] # None}]
        /\ UNCHANGED <<disk, cmd, shadow, placed, ghost>>
    BY <1>2 DEF StampIndex
  <2>2. plan' \in Plans /\ plan'.todo = {p \in Path : cmd.arg.u[p] # None}
    BY <2>1 DEF Sound, FilesOK, Plans
  <2>3. GhostGrows
    BY <2>1, SameGrows DEF Sound
  <2>4. work' \in Files /\ TypedKept' /\ \A p \in Path : Harmless(p) => Harmless(p)'
    BY <2>1, <2>3, StampMoves DEF disk
  <2>5. CmdOK' /\ FilesOK'
    BY <2>1, <2>2, <2>4 DEF Sound, CmdOK, FilesOK, Phases, Staged, disk
  <2>6. EngineOK' /\ PushOK'
    BY <2>1, <2>2, <2>4 DEF Sound, EngineOK, PushOK, Staged, disk
  <2> QED
    BY <2>1, <2>3, <2>4, <2>5, <2>6, DiskSame DEF Sound, GhostGrows
<1>3. CASE ApplyDone
  <2>1. /\ pc = "untracked" /\ Exit("done") /\ UNCHANGED <<work, index, head, tip, stored>>
        /\ stash' = IF cmd.op = "pop" THEN RemoveAt(stash, cmd.arg) ELSE stash
    BY <1>3 DEF ApplyDone
  <2>2. stash \in Seq(Stashes(stored)) /\ cmd.arg \in DOMAIN stash
    BY <2>1 DEF Sound, DiskOK, CmdOK
  <2>3. RemoveAt(stash, cmd.arg) \in Seq(Stashes(stored))
    BY <2>2, Removed
  <2>4. DiskOK'
    BY <2>1, <2>2, <2>3 DEF Sound, DiskOK
  <2> QED
    BY <2>1, <2>4, ExitOver, EndSound DEF Sound
<1> QED
  BY <1>1, <1>2, <1>3

LEMMA StaysSound ==
  ASSUME Sound, UNCHANGED vars
  PROVE  Sound'
<1>1. /\ UNCHANGED <<work, disk, pc, cmd, plan, shadow, placed, ghost>>
  BY DEF vars, engine
<1>2. DiskOK' /\ CmdOK' /\ FilesOK' /\ GhostOK'
  BY <1>1 DEF Sound, DiskOK, CmdOK, FilesOK, GhostOK, disk
<1>3. \A p \in Path : Harmless(p)' <=> Harmless(p)
  BY <1>1 DEF disk, Harmless, Safe
<1>4. Touched' = Touched /\ Safe' = Safe
  BY <1>1 DEF Touched, Safe, disk
<1>5. EngineOK'
  <2>1. Touched \subseteq Path /\ plan.todo \subseteq Path
    BY DEF Sound, FilesOK, Plans, Touched
  <2>2. pc' \in Staged =>
          /\ plan'.todo \subseteq Touched' /\ placed' \subseteq Touched'
          /\ \A p \in Touched' : Harmless(p)'
          /\ \A p \in Path : shadow'[p] # None => p \in Touched' /\ shadow'[p].data \in Safe'
    BY <1>1, <1>3, <1>4, <2>1 DEF Sound, EngineOK
  <2>3. pc' = "files" => \A p \in plan'.todo : Harmless(p)' /\ index'[p] # None
    BY <1>1, <1>3, <2>1 DEF Sound, EngineOK, disk
  <2> QED
    BY <1>1, <2>2, <2>3 DEF Sound, EngineOK, disk
<1>6. PushOK'
  BY <1>1, <1>3 DEF Sound, PushOK, disk
<1>7. TypedKept'
  BY <1>1, <1>4 DEF Sound, TypedKept
<1> QED
  BY <1>2, <1>5, <1>6, <1>7 DEF Sound

LEMMA InitSound ==
  ASSUME Init
  PROVE  Sound
<1>1. /\ tip \in Tips /\ head \in {b \in Branch : tip[b] # None} /\ index = tip[head]
      /\ work = [p \in Path |-> IF index[p] = None THEN None ELSE [data |-> index[p], stat |-> TRUE]]
      /\ stored = (UNION {Range(t) : t \in {tip[b] : b \in Branch} \ {None}}) \ {None}
      /\ stash = <<>> /\ pc = "idle" /\ cmd = Idle /\ plan = NoPlan /\ shadow = NoFiles
      /\ placed = {} /\ ghost.typed = {}
      /\ DOMAIN ghost = {"typed", "released", "hidden", "result", "op", "arg", "pushed", "before",
                         "commands", "edits", "faults"}
  BY DEF Init
<1>2. tip \in [Branch -> Tree \cup {None}]
  BY <1>1, WorkTreeAssumption
<1>3. ASSUME NEW b \in Branch, tip[b] # None
      PROVE  tip[b] \in Trees(stored) /\ Range(tip[b]) \subseteq Content \cup {None}
  <2>1. tip[b] \in Tree
    BY <1>2, <1>3
  <2>2. Range(tip[b]) \ {None} \subseteq stored
    BY <1>1, <1>3
  <2> QED
    BY <2>1, <2>2, RangeTrees, InRange
<1>4. stored \subseteq Content
  <2>1. SUFFICES ASSUME NEW c \in stored PROVE c \in Content
    OBVIOUS
  <2>2. PICK b \in Branch : tip[b] # None /\ c \in Range(tip[b]) /\ c # None
    BY <1>1, <2>1
  <2> QED
    BY <1>3, <2>2
<1>5. index \in Trees(stored)
  BY <1>1, <1>3
<1>6. DiskOK
  BY <1>1, <1>2, <1>3, <1>4, <1>5, EmptySeq DEF DiskOK
<1>7. CmdOK
  BY <1>1, EmptySeq DEF CmdOK, Idle, Phases, Staged
<1>8. work \in Files
  <2>1. \A p \in Path : index[p] # None => [data |-> index[p], stat |-> TRUE] \in File
    BY <1>4, <1>5 DEF Trees, File
  <2> QED
    BY <1>1, <2>1 DEF Files
<1>9. FilesOK /\ EngineOK /\ PushOK
  BY <1>1, <1>8 DEF FilesOK, EngineOK, PushOK, NoPlan, NoFiles, Files, Plans, Staged, Idle
<1>10. GhostOK /\ TypedKept
  BY <1>1 DEF GhostOK, TypedKept
<1> QED
  BY <1>6, <1>7, <1>9, <1>10 DEF Sound

LEMMA NextSound ==
  ASSUME Sound, [Next]_vars
  PROVE  Sound'
<1>1. CASE Switch \/ SwitchCreate \/ Detach \/ Reset \/ ReadTree \/ RestoreFrom \/ StashApply
  BY <1>1, SwitchesSound
<1>2. CASE Add \/ CacheInfo \/ Clean \/ Commit \/ PruneLocks \/ StashDrop
  BY <1>2, SinglesSound
<1>3. CASE Restore \/ StashPush \/ Rm \/ Move \/ WriteEntry \/ Edit
  BY <1>3, RestoreSound, PushSound, RmSound, MoveSound, WriteEntrySound, EditSound
<1>4. CASE MoveAside \/ AsideDone \/ Place \/ RenameFails \/ RemovePlaced \/ MoveBack
  BY <1>4, StagedStepsSound
<1>5. CASE Plan \/ PlaceDone \/ WriteIndex \/ Finish
  BY <1>5, PlanSound, PlaceDoneSound, WriteIndexSound, FinishSound
<1>6. CASE Refuse \/ UndoDone \/ IndexBusy \/ FileFails \/ UnlinkDone \/ Crash
  BY <1>6, EndsSound
<1>7. CASE FilesFirst \/ UntrackedFirst
  BY <1>7, FilesFirstSound
<1>8. CASE WriteFile \/ Unlink \/ RestoreUntracked
  BY <1>8, LoopsSound
<1>9. CASE FilesDone \/ StampIndex \/ ApplyDone
  BY <1>9, TailSound
<1>10. CASE UNCHANGED vars
  BY <1>10, StaysSound
<1> QED
  BY ONLY [Next]_vars, <1>1, <1>2, <1>3, <1>4, <1>5, <1>6, <1>7, <1>8, <1>9, <1>10 DEF Next

LEMMA SoundAlways == Spec => []Sound
<1>1. Init => Sound
  BY InitSound
<1>2. Sound /\ [Next]_vars => Sound'
  BY NextSound
<1> QED
  BY <1>1, <1>2, PTL DEF Spec

\* Whatever the user typed stands in a file or in a blob, save what was given
\* up or hidden by a stat, however the commands, the failures and the crashes
\* fall.  (unpack_trees.rs, stash.rs, rm.rs)
THEOREM TypedStays == Spec => []EditsKept
<1>1. Sound => EditsKept
  <2> SUFFICES ASSUME Sound, NEW c \in ghost.typed \ (ghost.released \cup ghost.hidden)
               PROVE  c \in Data(work) \cup Data(shadow) \cup stored
    BY DEF EditsKept
  <2>1. c # Dir
    BY WorkTreeAssumption DEF Sound, GhostOK
  <2>2. c \in stored \/ \E p \in Path : work[p] # None /\ work[p].data = c
    BY <2>1 DEF Sound, TypedKept, Safe
  <2> QED
    BY <2>2 DEF Data
<1> QED
  BY <1>1, SoundAlways, PTL

-----------------------------------------------------------------------------
(* One command from its start to its end.                                  *)

Switches == {"switch", "switch -c", "detach"}
Applies  == {"apply", "pop"}
Started  == Switches \cup Applies \cup {"reset", "read-tree", "restore --source", "push"}
Checking == {"plan"} \cup Staged

\* The second checkout of apply and pop writes the index only.
SecondPass == cmd.op \in Applies /\ Len(cmd.passes) = 1

\* Until the index is written, HEAD and it are as the command found them.
Begun ==
  /\ ghost.result = "none" /\ ghost.op \in {"none", cmd.op}
  /\ pc \in Checking \cup {"index"} => cmd.op \in Started
  /\ cmd.op \in Started => ghost.op = cmd.op /\ ghost.arg = cmd.arg
  /\ pc \in Checking => head = Before.head /\ index = Before.index
  /\ pc = "plan" /\ ~SecondPass => work = Before.work /\ restored
  /\ cmd.op \notin Applies => cmd.passes = <<>> \/ Len(cmd.passes) = 1

\* A forced creation gives the file at its path up.
GivenUp(p) == Before.index[p] = None /\ Before.work[p] # None

\* The original of p is in its place, or in the shadow directory.
InPlace(p) == shadow[p] = None /\ work[p] = Before.work[p]
Aside(p)   == shadow[p] = Before.work[p]

\* Where the originals are, and what a rollback has yet to move back.
Originals ==
  /\ \A p \in Path \ placed :
       GivenUp(p) \/ InPlace(p) \/ (Aside(p) /\ (work[p] = None \/ ~restored))
  /\ \A p \in placed : GivenUp(p) \/ Aside(p)
  /\ pc = "rollback" =>
       /\ \A p \in plan.todo : shadow[p] # None
       /\ restored => \A p \in Path : shadow[p] # None => p \in plan.todo

\* How far the two phases that go forward have come.
Forward ==
  LET k == Head(cmd.passes) IN
  /\ restored
  /\ plan.create = PlanOf(k).create /\ plan.update = PlanOf(k).update
  /\ plan.delete = PlanOf(k).delete
  /\ \A p \in Path \ Touched : InPlace(p)
  /\ pc = "aside" =>
       /\ placed = {} /\ plan.todo \subseteq plan.update \cup plan.delete
       /\ \A p \in plan.todo \cup plan.create : InPlace(p)
       /\ \A p \in (plan.update \cup plan.delete) \ plan.todo : Aside(p) /\ work[p] = None
  /\ pc = "place" =>
       /\ \A p \in plan.todo : p \notin placed /\ (GivenUp(p) \/ Aside(p))
       /\ \A p \in (plan.create \cup plan.update) \ plan.todo : work[p] = New(k.tree[p])
       /\ \A p \in plan.delete : work[p] = None

StagedTrace ==
  /\ pc \in Staged => Head(cmd.passes).wd /\ ~SecondPass /\ Originals
  /\ pc \in {"aside", "place"} => Forward

\* After the files of a checkout of tree are switched.
Switched(tree) ==
  \A p \in Path :
    IF Before.index[p] = tree[p] THEN SameData(work[p], Before.work[p])
    ELSE IF tree[p] = None THEN work[p] = None
    ELSE IsFile(p) /\ work[p].data = tree[p]

Goal == IF cmd.op = "detach" THEN cmd.arg ELSE tip[cmd.arg]

SwitchTrace ==
  cmd.op \in Switches =>
    /\ pc \in Checking \cup {"index", "finish"}
    /\ pc # "finish" => \E force \in BOOLEAN : cmd.passes = <<Checkout(Goal, force)>>
    /\ pc = "index" => Switched(Goal)
    /\ pc = "finish" => Switched(index) /\ index = Goal

\* A stash that was made of the work and index in ghost.pushed.
MadeOf(s) ==
  \A p \in Path : ghost.pushed.index[p] # None =>
    /\ s.i[p] = ghost.pushed.index[p] /\ s.u[p] = None
    /\ ghost.pushed.work[p] # None => s.w[p] = ghost.pushed.work[p].data /\ s.w[p] # None

\* The files of the paths that were pushed are as listed, where P and listed say so.
As(files, listed, P) ==
  \A p \in P : ghost.pushed.index[p] # None /\ listed[p] # None =>
    files[p] # None /\ files[p].data = listed[p]

PopTrace ==
  cmd.op \in Applies =>
    LET s == stash[cmd.arg] IN
    /\ pc \in Checking \cup {"index", "finish", "untracked"}
    /\ pc \in Checking \cup {"index"} =>
         cmd.passes = IF SecondPass THEN Tail(ApplyPasses(s)) ELSE ApplyPasses(s)
    /\ pc = "index" => SecondPass
    /\ ghost.pushed # None /\ cmd.arg = Len(stash) =>
         /\ MadeOf(s)
         /\ pc \in Checking /\ ~SecondPass => As(Before.work, Before.index, Path)
         /\ SecondPass \/ pc \in {"finish", "untracked"} => As(work, s.w, Path)
         /\ pc \in {"finish", "untracked"} =>
              \A p \in Path : ghost.pushed.index[p] # None => index[p] = s.i[p]

PushTrace ==
  cmd.op = "push" =>
    /\ pc # "entry"
    /\ ghost.pushed # None =>
         /\ stash # <<>> /\ cmd.arg = stash[Len(stash)] /\ MadeOf(cmd.arg)
         /\ pc = "files" => As(work, index, {p \in Path : index[p] # None} \ plan.todo)
         /\ pc \in {"stamp", "unlink"} => As(work, index, Path)

Running == Begun /\ StagedTrace /\ SwitchTrace /\ PopTrace /\ PushTrace

Stopped ==
  /\ restored /\ FailureKeeps /\ CommandsArrive
  /\ ghost.op = "push" /\ ghost.result = "done" /\ ghost.pushed # None =>
       stash # <<>> /\ MadeOf(stash[Len(stash)]) /\ As(work, index, Path)

Traced == IF pc = "idle" THEN Stopped ELSE Running

-----------------------------------------------------------------------------
(* Ends that no property looks back on, and commands of one or two steps.  *)

LEMMA NothingToSay ==
  ASSUME ghost'.result = "none", restored', pc' = "idle"
  PROVE  Traced'
  BY DEF Traced, Stopped, FailureKeeps, CommandsArrive, SwitchDone, PopRestores, Ended

LEMMA ExitForgets ==
  ASSUME GhostOK, NEW result, Exit(result), result \notin {"refused", "failed", "recovered"},
         result = "done" => cmd.op \notin Switches \cup {"pop", "push"}
  PROVE  Traced'
<1>1. ghost' = Forgets /\ pc' = "idle" /\ restored'
  BY DEF Exit, Remembered, Switches
<1> QED
  BY <1>1, ForgetsFacts, NothingToSay

LEMMA LostForgets ==
  ASSUME GhostOK, Lost
  PROVE  Traced'
<1>1. ghost'.result = "none" /\ pc' = "idle" /\ restored'
  BY ForgetsFacts DEF Lost, GhostOK
<1> QED
  BY <1>1, NothingToSay

LEMMA SinglesTraced ==
  ASSUME Sound, Traced,
         Add \/ CacheInfo \/ Clean \/ Commit \/ PruneLocks \/ StashDrop \/ Edit
  PROVE  Traced'
<1>1. pc = "idle" /\ UNCHANGED <<pc, cmd, engine>>
  BY DEF Add, CacheInfo, Clean, Commit, PruneLocks, StashDrop, Edit, Ready
<1>2. restored'
  BY <1>1 DEF Traced, Stopped, engine
<1>3. OneMore.result = "none" /\ Forgets.result = "none"
      /\ DOMAIN OneMore = DOMAIN ghost /\ DOMAIN Forgets = DOMAIN ghost
  BY ForgetsFacts, OneMoreFacts DEF Sound
<1>4. CASE Add \/ CacheInfo \/ Commit \/ PruneLocks \/ StashDrop
  <2>1. ghost' = OneMore
    BY <1>4 DEF Add, CacheInfo, Commit, PruneLocks, StashDrop
  <2> QED
    BY <1>1, <1>2, <1>3, <2>1, NothingToSay
<1>5. CASE Clean
  <2> DEFINE R == {work[p].data : p \in Untracked}
  <2>1. ghost' = [OneMore EXCEPT !.released = @ \cup R]
    BY <1>5 DEF Clean
  <2> HIDE DEF R
  <2>2. ghost'.result = "none"
    BY <1>3, <2>1 DEF Sound, GhostOK
  <2> QED
    BY <1>1, <1>2, <2>2, NothingToSay
<1>6. CASE Edit
  <2>1. \E f, R : ghost' = [Forgets EXCEPT !.edits = @ + 1,
            !.typed = IF f = None THEN @ ELSE @ \cup ({f.data} \ {Dir}), !.released = @ \cup R]
    BY <1>6, Zenon DEF Edit
  <2>2. ghost'.result = "none"
    BY <1>3, <2>1 DEF Sound, GhostOK
  <2> QED
    BY <1>1, <1>2, <2>2, NothingToSay
<1> QED
  BY <1>4, <1>5, <1>6

\* The commands that write files or entries without a checkout.
LEMMA OtherStarts ==
  ASSUME NEW op \in {"restore", "rm", "mv"}, NEW arg, pc' \in {"files", "entry"},
         cmd' = [op |-> op, arg |-> arg, passes |-> <<>>],
         ghost'.result = "none", ghost'.op = "none"
  PROVE  Traced'
<1>1. cmd'.op = op /\ cmd'.passes = <<>>
  OBVIOUS
<1>2. op \notin Started
  BY DEF Started, Switches, Applies
<1>3. Begun'
  BY <1>1, <1>2 DEF Begun, Checking, Staged
<1>4. StagedTrace' /\ SwitchTrace' /\ PopTrace' /\ PushTrace'
  BY <1>1, <1>2 DEF StagedTrace, SwitchTrace, PopTrace, PushTrace, Staged, Started, Switches, Applies
<1> QED
  BY <1>3, <1>4 DEF Traced, Running

LEMMA OthersTraced ==
  ASSUME Sound, Restore \/ Rm \/ Move
  PROVE  Traced'
<1>1. \E op \in {"restore", "rm", "mv"} : \E arg, R :
        /\ pc' \in {"files", "entry"} /\ cmd' = [op |-> op, arg |-> arg, passes |-> <<>>]
        /\ ghost' = [OneMore EXCEPT !.released = @ \cup R]
  <2>1. CASE Restore
    BY <2>1, Zenon DEF Restore
  <2>2. CASE Rm
    BY <2>2, Zenon DEF Rm
  <2>3. CASE Move
    <3>1. \E arg, R :
            /\ pc' = "entry" /\ cmd' = [op |-> "mv", passes |-> <<>>, arg |-> arg]
            /\ ghost' = [OneMore EXCEPT !.released = @ \cup R]
      BY <2>3, Zenon DEF Move
    <3> QED
      BY <3>1
  <2> QED
    BY <2>1, <2>2, <2>3
<1>2. ghost'.result = "none" /\ ghost'.op = "none"
  BY <1>1, OneMoreFacts DEF Sound, GhostOK
<1> QED
  BY <1>1, <1>2, OtherStarts

LEMMA InitTraced ==
  ASSUME Init
  PROVE  Traced
  BY DEF Init, Traced, Stopped, FailureKeeps, CommandsArrive, SwitchDone, PopRestores, Ended

-----------------------------------------------------------------------------
(* A command built on checkouts begins.                                    *)

LEMMA OnePass == ASSUME NEW x PROVE /\ <<x>> # <<>> /\ Len(<<x>>) = 1 /\ Head(<<x>>) = x
                                    /\ Tail(<<x>>) = <<>>
  OBVIOUS

LEMMA TwoPasses ==
  ASSUME NEW s
  PROVE  LET k1 == Pass(s.w, TRUE, TRUE, TRUE, FALSE)
             k2 == Pass(s.i, TRUE, TRUE, FALSE, TRUE)
         IN /\ ApplyPasses(s) = <<k1, k2>> /\ ApplyPasses(s) # <<>> /\ Len(ApplyPasses(s)) = 2
            /\ Head(ApplyPasses(s)) = k1 /\ Tail(ApplyPasses(s)) = <<k2>>
            /\ Len(Tail(ApplyPasses(s))) = 1 /\ Head(Tail(ApplyPasses(s))) = k2
            /\ Tail(Tail(ApplyPasses(s))) = <<>>
<1>1. ASSUME NEW a, NEW b
      PROVE  /\ <<a, b>> # <<>> /\ Len(<<a, b>>) = 2 /\ Head(<<a, b>>) = a /\ Tail(<<a, b>>) = <<b>>
             /\ Len(<<b>>) = 1 /\ Head(<<b>>) = b /\ Tail(<<b>>) = <<>>
  OBVIOUS
<1> DEFINE k1 == Pass(s.w, TRUE, TRUE, TRUE, FALSE)
           k2 == Pass(s.i, TRUE, TRUE, FALSE, TRUE)
           two == ApplyPasses(s)
<1>2. two = <<k1, k2>>
  BY DEF ApplyPasses
<1> HIDE DEF k1, k2, two
<1>3. /\ two = <<k1, k2>> /\ two # <<>> /\ Len(two) = 2
      /\ Head(two) = k1 /\ Tail(two) = <<k2>>
      /\ Len(Tail(two)) = 1 /\ Head(Tail(two)) = k2 /\ Tail(Tail(two)) = <<>>
  BY <1>1, <1>2
<1> QED
  BY <1>3 DEF k1, k2, two

LEMMA StartTraced ==
  ASSUME Sound, Traced, NEW op \in Started, NEW arg, NEW passes, Start(op, arg, passes),
         op \notin Applies => passes = <<>> \/ Len(passes) = 1,
         SwitchTrace', PopTrace', PushTrace'
  PROVE  Traced'
<1>1. /\ pc = "idle" /\ cmd' = [op |-> op, arg |-> arg, passes |-> passes]
      /\ pc' \in {"finish", "plan"}
      /\ ghost' = Counted(op, arg)
      /\ UNCHANGED <<work, index, head, restored>>
  BY DEF Start, Ready, engine
<1>2. /\ cmd'.op = op /\ cmd'.arg = arg /\ cmd'.passes = passes
  BY <1>1
<1>3. restored
  BY <1>1 DEF Traced, Stopped
<1>4. /\ ghost'.result = "none" /\ ghost'.op = op /\ ghost'.arg = arg
      /\ ghost'.before.work = work /\ ghost'.before.index = index /\ ghost'.before.head = head
  BY <1>1, CountedGrows DEF Sound
<1>5. Begun'
  BY <1>1, <1>2, <1>3, <1>4 DEF Begun, Before
<1>6. StagedTrace'
  BY <1>1 DEF StagedTrace, Staged
<1> QED
  BY <1>1, <1>5, <1>6 DEF Traced, Running

\* Commands that switch trees: what they are to arrive at.
LEMMA SwitchStarts ==
  ASSUME Sound, Traced, Switch \/ SwitchCreate \/ Detach
  PROVE  Traced'
<1>1. PICK op, arg, tree, force :
        /\ op \in Switches /\ force \in BOOLEAN
        /\ Start(op, arg, <<Checkout(tree, force)>>)
        /\ tree = IF op = "detach" THEN arg ELSE tip'[arg]
  <2>1. CASE Switch
    <3>1. PICK b \in Branch, force \in BOOLEAN :
            Start("switch", b, <<Checkout(tip[b], force)>>) /\ UNCHANGED tip
      BY <2>1, ForcesAre DEF Switch
    <3> QED
      BY <3>1 DEF Switches
  <2>2. CASE SwitchCreate
    <3>1. PICK b \in Branch, t \in Commits, force \in BOOLEAN :
            Start("switch -c", b, <<Checkout(t, force)>>) /\ tip' = [tip EXCEPT ![b] = t]
      BY <2>2, ForcesAre DEF SwitchCreate
    <3>2. tip'[b] = t
      BY <3>1 DEF Sound, DiskOK
    <3> QED
      BY <3>1, <3>2 DEF Switches
  <2>3. CASE Detach
    <3>1. PICK t \in Commits, force \in BOOLEAN : Start("detach", t, <<Checkout(t, force)>>)
      BY <2>3, ForcesAre DEF Detach
    <3> QED
      BY <3>1 DEF Switches
  <2> QED
    BY <2>1, <2>2, <2>3
<1>2. /\ cmd'.op = op /\ cmd'.arg = arg /\ cmd'.passes = <<Checkout(tree, force)>>
      /\ pc' = "plan"
  BY <1>1, OnePass DEF Start
<1>3. Goal' = tree
  BY <1>1, <1>2 DEF Goal
<1>4. SwitchTrace'
  <2>1. cmd'.passes = <<Checkout(Goal', force)>>
    BY <1>2, <1>3
  <2>2. \E f \in BOOLEAN : cmd'.passes = <<Checkout(Goal', f)>>
    BY <1>1, <2>1
  <2> QED
    BY <1>2, <2>2 DEF SwitchTrace, Checking
<1>5. PopTrace' /\ PushTrace' /\ op \in Started /\ op \notin Applies
  BY <1>1, <1>2 DEF PopTrace, PushTrace, Started, Switches, Applies
<1> QED
  BY <1>1, <1>4, <1>5, OnePass, StartTraced

LEMMA PlainStart ==
  ASSUME Sound, Traced, NEW op \in {"reset", "read-tree", "restore --source"}, NEW arg,
         NEW passes, passes = <<>> \/ Len(passes) = 1, Start(op, arg, passes)
  PROVE  Traced'
<1>1. cmd'.op = op
  BY DEF Start
<1>2. SwitchTrace' /\ PopTrace' /\ PushTrace' /\ op \in Started /\ op \notin Applies
  BY <1>1 DEF SwitchTrace, PopTrace, PushTrace, Started, Switches, Applies
<1> QED
  BY <1>2, StartTraced

LEMMA OtherCheckoutsStart ==
  ASSUME Sound, Traced, Reset \/ ReadTree \/ RestoreFrom
  PROVE  Traced'
<1>1. ASSUME NEW op \in {"reset", "read-tree", "restore --source"}, NEW arg, NEW k,
             Start(op, arg, <<>>) \/ Start(op, arg, <<k>>)
      PROVE  Traced'
  BY <1>1, OnePass, PlainStart
<1>2. CASE Reset
  <2>1. PICK t \in Commits, mode \in {"soft", "mixed", "hard"} :
          Start("reset", t, CASE mode = "soft"  -> <<>>
                              [] mode = "mixed" -> <<Mixed(t)>>
                              [] mode = "hard"  -> <<Checkout(t, TRUE)>>)
    BY <1>2 DEF Reset
  <2>2. Start("reset", t, <<>>) \/ \E k : Start("reset", t, <<k>>)
    BY <2>1, Zenon
  <2> QED
    BY <1>1, <2>2
<1>3. CASE ReadTree
  <2>1. \E t, k : Start("read-tree", t, <<k>>)
    BY <1>3, Zenon DEF ReadTree
  <2> QED
    BY <1>1, <2>1
<1>4. CASE RestoreFrom
  <2>1. \E p, k : Start("restore --source", p, <<k>>)
    BY <1>4, Zenon DEF RestoreFrom
  <2> QED
    BY <1>1, <2>1
<1> QED
  BY <1>2, <1>3, <1>4

\* The stash is made of the files and the entries there are.
LEMMA PushStarts ==
  ASSUME Sound, Traced, StashPush
  PROVE  Traced'
<1> DEFINE s(u) == [w |-> Snapshot, i |-> index, u |-> u]
<1>1. PICK u \in {NoTree} \cup {Loose} :
        /\ \A p \in Path : index[p] # None => ~IsDir(p)
        /\ stash' = Append(stash, s(u))
        /\ Start("push", s(u), <<Checkout(HeadTree, TRUE)>>)
  BY DEF StashPush
<1>2. /\ cmd'.op = "push" /\ cmd'.arg = s(u) /\ cmd'.passes = <<Checkout(HeadTree, TRUE)>>
      /\ pc' = "plan" /\ ghost' = Counted("push", s(u))
  BY <1>1, OnePass DEF Start
<1>3. ghost'.pushed = [work |-> work, index |-> index]
  BY <1>2 DEF Counted, Sound, GhostOK
<1>4. stash' # <<>> /\ stash'[Len(stash')] = s(u)
  <2>1. stash \in Seq(Stashes(stored))
    BY DEF Sound, DiskOK
  <2>2. ASSUME NEW S, NEW q \in Seq(S), NEW x
        PROVE  Append(q, x) # <<>> /\ Append(q, x)[Len(Append(q, x))] = x
    OBVIOUS
  <2> HIDE DEF s
  <2> QED
    BY <1>1, <2>1, <2>2
<1>5. ASSUME NEW p \in Path, index[p] # None
      PROVE  u[p] = None /\ (work[p] # None => Snapshot[p] = work[p].data /\ Snapshot[p] # None)
  <2>1. u[p] = None
    BY <1>1, <1>5, UntrackedAre DEF NoTree, Loose
  <2>2. work[p] # None => IsFile(p)
    BY <1>1, <1>5 DEF IsFile
  <2>3. work[p] # None => Snapshot[p] = work[p].data
    BY <1>5, <2>2 DEF Snapshot
  <2> QED
    BY <2>1, <2>2, <2>3, FileData, WorkTreeAssumption DEF Sound
<1>6. MadeOf(cmd.arg)'
  BY <1>2, <1>3, <1>5 DEF MadeOf
<1> HIDE DEF s
<1>7. PushTrace'
  BY <1>2, <1>3, <1>4, <1>6 DEF PushTrace
<1>8. SwitchTrace' /\ PopTrace' /\ "push" \in Started /\ "push" \notin Applies
  BY <1>2 DEF SwitchTrace, PopTrace, Started, Switches, Applies
<1> QED
  BY <1>1, <1>7, <1>8, OnePass, StartTraced

LEMMA ApplyStarts ==
  ASSUME Sound, Traced, StashApply
  PROVE  Traced'
<1>1. PICK n \in DOMAIN stash, op \in Applies : Start(op, n, ApplyPasses(stash[n]))
  BY DEF StashApply, Applies
<1>2. /\ pc = "idle" /\ pc' = "plan" /\ cmd' = [op |-> op, arg |-> n, passes |-> ApplyPasses(stash[n])]
      /\ ghost' = Counted(op, n) /\ UNCHANGED <<work, index, stash>>
  <2>1. ApplyPasses(stash[n]) # <<>>
    BY TwoPasses
  <2>2. UNCHANGED stash
    BY DEF StashApply
  <2> QED
    BY <1>1, <2>1, <2>2 DEF Start, Ready
<1>3. /\ cmd'.op = op /\ cmd'.arg = n /\ cmd'.passes = ApplyPasses(stash[n])
  BY <1>2
<1>4. /\ ghost'.before.work = work /\ ghost'.before.index = index
      /\ ghost'.pushed # None =>
           ghost.op = "push" /\ ghost.result = "done" /\ ghost'.pushed = ghost.pushed
  BY <1>1, <1>2 DEF Counted, Sound, GhostOK, Applies
<1>5. ~SecondPass'
  <2>1. Len(cmd'.passes) = 2
    BY <1>3, TwoPasses
  <2> QED
    BY <2>1 DEF SecondPass
<1>6. ghost'.pushed # None /\ n = Len(stash) =>
        MadeOf(stash[n])' /\ As(Before.work, Before.index, Path)'
  <2> SUFFICES ASSUME ghost'.pushed # None, n = Len(stash)
               PROVE  MadeOf(stash[n])' /\ As(Before.work, Before.index, Path)'
    OBVIOUS
  <2>1. MadeOf(stash[n]) /\ As(work, index, Path)
    BY <1>2, <1>4 DEF Traced, Stopped
  <2> QED
    BY <1>2, <1>4, <2>1 DEF MadeOf, As, Before
<1>7. PopTrace'
  BY <1>2, <1>3, <1>5, <1>6 DEF PopTrace, Checking, Staged
<1>8. SwitchTrace' /\ PushTrace' /\ op \in Started
  BY <1>1, <1>3 DEF SwitchTrace, PushTrace, Started, Switches, Applies
<1> QED
  BY <1>1, <1>7, <1>8, StartTraced

-----------------------------------------------------------------------------
(* The engine, from the plan to its end or its rollback.                   *)

\* A step of a running command that keeps what the properties look back on.
Kept ==
  /\ ghost'.result = ghost.result /\ ghost'.op = ghost.op /\ ghost'.arg = ghost.arg
  /\ ghost'.before = ghost.before /\ ghost'.pushed = ghost.pushed

LEMMA KeptIs ==
  ASSUME GhostOK, UNCHANGED ghost \/ Fault
  PROVE  Kept
  BY DEF GhostOK, Fault, Kept

LEMMA RunningIs ==
  ASSUME Traced, pc # "idle"
  PROVE  Running
  BY DEF Traced

\* What a command is after does not change with its files.
LEMMA TracesStay ==
  ASSUME Running, Kept, UNCHANGED <<disk, cmd>>, pc \in Checking, pc' \in Staged, ~SecondPass
  PROVE  SwitchTrace' /\ PopTrace' /\ PushTrace'
<1>1. Goal' = Goal /\ SecondPass' = SecondPass
  BY DEF Goal, SecondPass, disk
<1>2. SwitchTrace'
  BY <1>1 DEF Running, SwitchTrace, Checking, Staged
<1>3. ASSUME NEW s PROVE MadeOf(s) => MadeOf(s)'
  BY DEF MadeOf, Kept
<1>4. As(Before.work, Before.index, Path) => As(Before.work, Before.index, Path)'
  BY DEF As, Kept, Before
<1>5. PushTrace'
  BY <1>3 DEF Running, PushTrace, Checking, Staged, Kept, disk
<1>6. PopTrace'
  <2> SUFFICES ASSUME cmd.op \in Applies
               PROVE  PopTrace'
    BY DEF PopTrace
  <2>1. pc' \in Checking \cup {"index", "finish", "untracked"} /\ pc' # "index"
        /\ pc' \notin {"finish", "untracked"}
    BY DEF Checking, Staged
  <2>2. cmd.passes = ApplyPasses(stash[cmd.arg])
    BY DEF Running, PopTrace
  <2>3. ghost'.pushed # None /\ cmd.arg = Len(stash) =>
          MadeOf(stash[cmd.arg])' /\ As(Before.work, Before.index, Path)'
    BY <1>3, <1>4 DEF Running, PopTrace, Kept, disk
  <2> QED
    BY <1>1, <2>1, <2>2, <2>3 DEF PopTrace, disk
<1> QED
  BY <1>2, <1>5, <1>6

\* Each checkout of a command that stashes or switches, with what it writes.
LEMMA PassesOf ==
  ASSUME Sound, Running, pc \in Checking \cup {"index"}, NEW k, k = Head(cmd.passes)
  PROVE  /\ cmd.op \in Switches =>
              /\ k.tree = Goal /\ ~k.keep /\ k.wd /\ k.ix /\ k.paths = Path
              /\ Len(cmd.passes) = 1
         /\ cmd.op \in Applies /\ ~SecondPass =>
              /\ k.tree = stash[cmd.arg].w /\ k.force /\ k.keep /\ k.wd /\ ~k.ix /\ k.paths = Path
              /\ Len(cmd.passes) = 2 /\ Tail(cmd.passes) = Tail(ApplyPasses(stash[cmd.arg]))
              /\ Len(Tail(cmd.passes)) = 1
         /\ SecondPass =>
              /\ k.tree = stash[cmd.arg].i /\ k.force /\ k.keep /\ ~k.wd /\ k.ix /\ k.paths = Path
              /\ Len(cmd.passes) = 1
         /\ cmd.op \notin Applies => Len(cmd.passes) = 1
<1>1. CASE cmd.op \in Switches
  <2>1. PICK force \in BOOLEAN : cmd.passes = <<Checkout(Goal, force)>>
    BY <1>1 DEF Running, SwitchTrace, Checking, Staged
  <2> DEFINE c == Checkout(Goal, force)
  <2>2. c.tree = Goal /\ ~c.keep /\ c.wd /\ c.ix /\ c.paths = Path
    BY DEF Checkout, Pass
  <2> HIDE DEF c
  <2>3. k = c /\ Len(cmd.passes) = 1
    BY <2>1, OnePass DEF c
  <2>4. cmd.op \notin Applies
    BY <1>1 DEF Switches, Applies
  <2> QED
    BY <1>1, <2>2, <2>3, <2>4 DEF SecondPass
<1>2. CASE cmd.op \in Applies
  <2> DEFINE s == stash[cmd.arg]
             k1 == Pass(s.w, TRUE, TRUE, TRUE, FALSE)
             k2 == Pass(s.i, TRUE, TRUE, FALSE, TRUE)
  <2>1. cmd.passes = IF SecondPass THEN Tail(ApplyPasses(s)) ELSE ApplyPasses(s)
    BY <1>2 DEF Running, PopTrace
  <2>2. /\ k1.tree = s.w /\ k1.force /\ k1.keep /\ k1.wd /\ ~k1.ix /\ k1.paths = Path
        /\ k2.tree = s.i /\ k2.force /\ k2.keep /\ ~k2.wd /\ k2.ix /\ k2.paths = Path
    BY DEF Pass
  <2>3. /\ Len(ApplyPasses(s)) = 2 /\ Head(ApplyPasses(s)) = k1
        /\ Len(Tail(ApplyPasses(s))) = 1 /\ Head(Tail(ApplyPasses(s))) = k2
    BY TwoPasses
  <2>4. cmd.op \notin Switches
    BY <1>2 DEF Switches, Applies
  <2> HIDE DEF k1, k2, s
  <2>5. CASE SecondPass
    <3>1. k = k2 /\ Len(cmd.passes) = 1
      BY <2>1, <2>3, <2>5
    <3> QED
      BY <1>2, <2>2, <2>4, <2>5, <3>1 DEF s
  <2>6. CASE ~SecondPass
    <3>1. k = k1 /\ Len(cmd.passes) = 2 /\ Tail(cmd.passes) = Tail(ApplyPasses(s))
          /\ Len(Tail(cmd.passes)) = 1
      BY <2>1, <2>3, <2>6
    <3> QED
      BY <1>2, <2>2, <2>4, <2>6, <3>1 DEF s
  <2> QED
    BY <2>5, <2>6
<1>3. CASE cmd.op \notin Switches \cup Applies
  <2>1. cmd.passes # <<>>
    BY FirstIs DEF Checking
  <2> QED
    BY <1>3, <2>1 DEF Running, Begun, SecondPass
<1> QED
  BY <1>1, <1>2, <1>3

LEMMA RefuseTraced ==
  ASSUME Sound, Traced, Refuse
  PROVE  Traced'
<1>1. /\ pc = "plan" /\ ~Head(cmd.passes).force /\ pc' = "idle" /\ restored'
      /\ ghost' = [ghost EXCEPT !.result = "refused"] /\ UNCHANGED <<work, disk>>
  BY DEF Refuse, Allowed, Exit, Remembered
<1>2. Running
  BY <1>1, RunningIs
<1>3. ghost'.result = "refused" /\ ghost'.before = ghost.before /\ ghost'.op = ghost.op
  BY <1>1 DEF Sound, GhostOK
<1>4. ~SecondPass
  BY <1>1, <1>2, PassesOf DEF Checking
<1>5. work = Before.work /\ head = Before.head /\ index = Before.index
  BY <1>1, <1>2, <1>4 DEF Running, Begun, Checking
<1>6. FailureKeeps'
  BY <1>1, <1>3, <1>5 DEF FailureKeeps, Before, disk
<1>7. CommandsArrive'
  BY <1>3 DEF CommandsArrive, SwitchDone, PopRestores, Ended
<1> QED
  BY <1>1, <1>3, <1>6, <1>7 DEF Traced, Stopped

\* The plan of a checkout that touches files starts with every original in place.
LEMMA PlanTraced ==
  ASSUME Sound, Traced, Plan
  PROVE  Traced'
<1> DEFINE k == Head(cmd.passes)
           R == {work[q].data : q \in Displaced(k).released}
           H == {work[q].data : q \in {r \in Displaced(k).hidden : work[r].stat /\ work[r].data # index[r]}}
           first == IF k.wd THEN PlanOf(k).update \cup PlanOf(k).delete ELSE {}
<1>1. /\ pc = "plan" /\ plan' = [PlanOf(k) EXCEPT !.todo = first]
      /\ pc' = IF k.wd THEN "aside" ELSE "index"
      /\ ghost' = [ghost EXCEPT !.released = @ \cup R, !.hidden = @ \cup H]
      /\ UNCHANGED <<work, disk, cmd, shadow, placed, restored>>
  BY DEF Plan
<1>2. Kept
  <2> HIDE DEF R, H
  <2> QED
    BY <1>1 DEF Kept, Sound, GhostOK
<1>3. Running /\ k \in Passes(stored)
  BY <1>1, RunningIs, FirstIs
<1>4. PlanOf(k) \in Plans /\ k.wd \in BOOLEAN
  BY <1>3, PlanIs DEF Passes
<1>5. /\ plan'.create = PlanOf(k).create /\ plan'.update = PlanOf(k).update
      /\ plan'.delete = PlanOf(k).delete /\ plan'.todo = first
  <2> HIDE DEF first
  <2> QED
    BY <1>1, <1>4 DEF Plans
<1> HIDE DEF k, first
<1>6. Begun'
  BY <1>1, <1>2, <1>3 DEF Running, Begun, Kept, Checking, Staged, disk, Before
<1>7. CASE k.wd
  <2>1. ~SecondPass
    BY <1>1, <1>3, <1>7, PassesOf DEF Checking, k
  <2>2. /\ SwitchTrace' /\ PopTrace' /\ PushTrace'
    BY <1>1, <1>2, <1>3, <1>7, <2>1, TracesStay DEF Checking, Staged
  <2>3. work = Before.work /\ restored /\ placed = {} /\ \A p \in Path : shadow[p] = None
    BY <1>1, <1>3, <2>1 DEF Running, Begun, Sound, EngineOK, Staged, NoFiles
  <2>4. \A p \in Path : InPlace(p)'
    BY <1>1, <1>2, <2>3 DEF InPlace, Kept, Before
  <2>5. Originals'
    BY <1>1, <1>7, <2>3, <2>4 DEF Originals
  <2>6. PlanOf(k)' = PlanOf(k) /\ k' = k
    BY <1>1 DEF PlanOf, disk, k
  <2>7. Forward'
    <3>1. plan'.create \subseteq Path
      BY <1>4, <1>5 DEF Plans
    <3>2. plan'.todo = plan'.update \cup plan'.delete /\ plan'.todo \subseteq Path
      BY <1>4, <1>5, <1>7 DEF first, Plans
    <3>3. /\ plan'.create = PlanOf(Head(cmd.passes))'.create
          /\ plan'.update = PlanOf(Head(cmd.passes))'.update
          /\ plan'.delete = PlanOf(Head(cmd.passes))'.delete
      BY <1>1, <1>5, <2>6 DEF k
    <3> QED
      BY <1>1, <1>7, <2>3, <2>4, <3>1, <3>2, <3>3 DEF Forward
  <2>8. StagedTrace'
    BY <1>1, <1>7, <2>1, <2>5, <2>7 DEF StagedTrace, SecondPass, k
  <2> QED
    BY <1>1, <1>6, <1>7, <2>2, <2>8 DEF Traced, Running
<1>8. CASE ~k.wd
  <2>1. cmd.op \notin Switches /\ (cmd.op \in Applies => SecondPass) /\ cmd.op # "push"
    BY <1>1, <1>3, <1>8, PassesOf, PushFirst DEF Checking, k
  <2>2. SwitchTrace' /\ PushTrace' /\ StagedTrace'
    BY <1>1, <1>8, <2>1 DEF SwitchTrace, PushTrace, StagedTrace, Staged
  <2>3. PopTrace'
    <3> SUFFICES ASSUME cmd.op \in Applies
                 PROVE  PopTrace'
      BY <1>1 DEF PopTrace
    <3>1. SecondPass /\ SecondPass' /\ pc' = "index"
      BY <1>1, <1>8, <2>1 DEF SecondPass
    <3>2. cmd.passes = Tail(ApplyPasses(stash[cmd.arg]))
      BY <1>1, <1>3, <3>1 DEF Running, PopTrace, Checking
    <3>3. ghost.pushed # None /\ cmd.arg = Len(stash) =>
            MadeOf(stash[cmd.arg]) /\ As(work, stash[cmd.arg].w, Path)
      BY <1>3, <3>1 DEF Running, PopTrace
    <3>4. ghost'.pushed # None /\ cmd.arg = Len(stash) =>
            MadeOf(stash[cmd.arg])' /\ As(work, stash[cmd.arg].w, Path)'
      BY <1>1, <1>2, <3>3 DEF MadeOf, As, Kept, disk
    <3> QED
      BY <1>1, <3>1, <3>2, <3>4 DEF PopTrace, Checking, Staged, disk
  <2> QED
    BY <1>1, <1>6, <1>8, <2>2, <2>3 DEF Traced, Running
<1> QED
  BY <1>7, <1>8

\* Within the phases only the tale of the files is new.
LEMMA StagedTraced ==
  ASSUME Sound, Traced, pc \in Staged, pc' \in Staged, UNCHANGED <<disk, cmd>>,
         UNCHANGED ghost \/ Fault,
         Originals', pc' \in {"aside", "place"} => Forward'
  PROVE  Traced'
<1>1. Kept /\ Running
  BY KeptIs, RunningIs DEF Sound, Staged
<1>2. ~SecondPass /\ ~SecondPass' /\ Head(cmd.passes).wd
  BY <1>1 DEF Running, StagedTrace, SecondPass
<1>3. SwitchTrace' /\ PopTrace' /\ PushTrace'
  BY <1>1, <1>2, TracesStay DEF Checking
<1>4. Begun'
  BY <1>1 DEF Running, Begun, Kept, Checking, Staged, disk, Before
<1>5. StagedTrace'
  BY <1>2 DEF StagedTrace
<1> QED
  BY <1>3, <1>4, <1>5 DEF Traced, Running, Staged

LEMMA StagedIs ==
  ASSUME Sound, Traced, pc \in Staged
  PROVE  /\ Originals
         /\ pc \in {"aside", "place"} => Forward
         /\ Running /\ index = Before.index /\ head = Before.head
         /\ work \in Files /\ shadow \in Files /\ placed \subseteq Path /\ plan \in Plans
         /\ plan.todo \subseteq Touched /\ Touched \subseteq Path
<1>1. Running
  BY RunningIs DEF Staged
<1> QED
  BY <1>1 DEF Running, StagedTrace, Begun, Checking, Sound, FilesOK, EngineOK, Plans, Touched

LEMMA PlanStays ==
  ASSUME Forward, UNCHANGED <<disk, cmd, restored>>,
         plan'.create = plan.create, plan'.update = plan.update, plan'.delete = plan.delete
  PROVE  /\ restored' /\ Touched' = Touched
         /\ plan'.create = PlanOf(Head(cmd.passes))'.create
         /\ plan'.update = PlanOf(Head(cmd.passes))'.update
         /\ plan'.delete = PlanOf(Head(cmd.passes))'.delete
<1>1. PlanOf(Head(cmd.passes))' = PlanOf(Head(cmd.passes))
  BY DEF PlanOf, disk
<1> QED
  BY <1>1 DEF Forward, Touched

LEMMA PlanParts ==
  ASSUME Sound, Forward, pc \in Staged, NEW p \in Path, NEW k, k = Head(cmd.passes)
  PROVE  /\ p \in plan.create <=> p \in k.paths /\ k.tree[p] # None /\ index[p] = None
         /\ p \in plan.update <=>
              p \in k.paths /\ k.tree[p] # None /\ index[p] \notin {None, k.tree[p]}
         /\ p \in plan.delete <=>
              p \in k.paths /\ ~k.keep /\ k.tree[p] = None /\ index[p] # None
  BY FirstIs, PlanIs DEF Forward

LEMMA ForwardTraced ==
  ASSUME Sound, Traced, MoveAside \/ AsideDone \/ Place
  PROVE  Traced'
<1>1. CASE MoveAside
  <2>1. PICK p \in plan.todo :
          /\ pc = "aside" /\ Todo(p)
          /\ shadow' = [shadow EXCEPT ![p] = work[p]] /\ work' = [work EXCEPT ![p] = None]
          /\ UNCHANGED <<disk, pc, cmd, placed, restored, ghost>>
    BY <1>1 DEF MoveAside
  <2>2. /\ p \in Path /\ plan'.todo = plan.todo \ {p}
        /\ plan'.create = plan.create /\ plan'.update = plan.update /\ plan'.delete = plan.delete
    BY <2>1, TodoIs DEF Sound
  <2>3. Originals /\ Forward /\ work \in Files /\ shadow \in Files /\ plan \in Plans
    BY <2>1, StagedIs DEF Staged
  <2>4. /\ p \in Touched /\ p \notin plan.create /\ InPlace(p)
        /\ p \in plan.update \cup plan.delete
    <3>1. p \in plan.update \cup plan.delete /\ InPlace(p)
      BY <2>1, <2>3 DEF Forward
    <3>2. p \notin plan.create
      BY <2>1, <2>2, <2>3, <3>1, PlanParts DEF Staged
    <3> QED
      BY <3>1, <3>2 DEF Touched
  <2>5. ASSUME NEW q \in Path, q # p
        PROVE  work'[q] = work[q] /\ shadow'[q] = shadow[q] /\ (InPlace(q) => InPlace(q)')
               /\ (Aside(q) => Aside(q)')
    BY <2>1, <2>2, <2>3, <2>5 DEF Files, InPlace, Aside, Before
  <2>6. Aside(p)' /\ work'[p] = None
    BY <2>1, <2>2, <2>3, <2>4 DEF Files, InPlace, Aside, Before
  <2>7. ASSUME NEW q \in Path PROVE GivenUp(q)' <=> GivenUp(q)
    BY <2>1 DEF GivenUp, Before
  <2>8. Originals'
    BY <2>1, <2>3, <2>5, <2>6, <2>7 DEF Originals, Forward
  <2>9. Forward'
    <3>1. ASSUME NEW q \in (plan.update \cup plan.delete) \ (plan.todo \ {p})
          PROVE  Aside(q)' /\ work'[q] = None
      <4>1. q \in Path
        BY <2>3 DEF Plans
      <4> QED
        BY <2>1, <2>3, <2>5, <2>6, <3>1, <4>1 DEF Forward
    <3>2. ASSUME NEW q \in (plan.todo \ {p}) \cup plan.create
          PROVE  InPlace(q)'
      <4>1. q \in Path /\ q # p
        BY <2>3, <2>4 DEF Plans
      <4> QED
        BY <2>1, <2>3, <2>5, <3>2, <4>1 DEF Forward
    <3>3. ASSUME NEW q \in Path \ Touched PROVE InPlace(q)'
      BY <2>3, <2>4, <2>5, <3>3 DEF Forward
    <3>4. plan.todo \ {p} \subseteq plan.update \cup plan.delete /\ placed = {}
      BY <2>1, <2>3 DEF Forward
    <3> QED
      BY <2>1, <2>2, <2>3, <3>1, <3>2, <3>3, <3>4, PlanStays DEF Forward
  <2> QED
    BY <2>1, <2>8, <2>9, StagedTraced DEF Staged
<1>2. CASE AsideDone
  <2>1. /\ pc = "aside" /\ pc' = "place" /\ plan.todo = {}
        /\ plan' = [plan EXCEPT !.todo = plan.create \cup plan.update]
        /\ UNCHANGED <<work, disk, cmd, shadow, placed, restored, ghost>>
    BY <1>2 DEF AsideDone
  <2>2. Originals /\ Forward /\ plan \in Plans /\ index = Before.index
    BY <2>1, StagedIs DEF Staged
  <2>3. /\ plan'.todo = plan.create \cup plan.update
        /\ plan'.create = plan.create /\ plan'.update = plan.update /\ plan'.delete = plan.delete
    BY <2>1, <2>2 DEF Plans
  <2>4. ASSUME NEW q \in Path
        PROVE  (InPlace(q)' <=> InPlace(q)) /\ (Aside(q)' <=> Aside(q)) /\ (GivenUp(q)' <=> GivenUp(q))
    BY <2>1 DEF InPlace, Aside, GivenUp, Before
  <2>5. Originals'
    BY <2>1, <2>2, <2>4 DEF Originals, Forward
  <2>6. ASSUME NEW q \in plan.create \cup plan.update
        PROVE  q \notin placed /\ (GivenUp(q)' \/ Aside(q)')
    <3>1. q \in Path /\ placed = {}
      BY <2>1, <2>2 DEF Plans, Forward
    <3>2. CASE q \in plan.update
      BY <2>1, <2>2, <2>4, <3>1, <3>2 DEF Forward
    <3>3. CASE q \in plan.create
      <4>1. InPlace(q) /\ Before.index[q] = None
        BY <2>1, <2>2, <3>1, <3>3, PlanParts DEF Forward, Staged
      <4>2. GivenUp(q) \/ Aside(q)
        BY <4>1 DEF InPlace, GivenUp, Aside
      <4> QED
        BY <2>4, <3>1, <4>2
    <3> QED
      BY <3>2, <3>3
  <2>7. \A q \in plan.delete : work[q] = None
    BY <2>1, <2>2 DEF Forward
  <2>8. \A q \in Path \ Touched : InPlace(q)'
    BY <2>2, <2>4 DEF Forward
  <2>9. Forward'
    BY <2>1, <2>2, <2>3, <2>6, <2>7, <2>8, PlanStays DEF Forward
  <2> QED
    BY <2>1, <2>5, <2>9, StagedTraced DEF Staged
<1>3. CASE Place
  <2> DEFINE n(q) == New(Head(cmd.passes).tree[q])
  <2>1. PICK p \in plan.todo :
          /\ pc = "place" /\ Todo(p) /\ work' = [work EXCEPT ![p] = n(p)]
          /\ placed' = placed \cup {p}
          /\ UNCHANGED <<disk, pc, cmd, shadow, restored, ghost>>
    BY <1>3 DEF Place
  <2>2. /\ p \in Path /\ plan'.todo = plan.todo \ {p}
        /\ plan'.create = plan.create /\ plan'.update = plan.update /\ plan'.delete = plan.delete
    BY <2>1, TodoIs DEF Sound
  <2>3. Originals /\ Forward /\ work \in Files /\ plan \in Plans
    BY <2>1, StagedIs DEF Staged
  <2>4. p \in plan.create \cup plan.update /\ p \notin plan.delete /\ p \in Touched
        /\ (GivenUp(p) \/ Aside(p))
    <3>1. p \in plan.create \cup plan.update
      BY <2>1 DEF Sound, EngineOK
    <3>2. p \notin plan.delete
      BY <2>1, <2>2, <2>3, <3>1, PlanParts DEF Staged
    <3>3. GivenUp(p) \/ Aside(p)
      BY <2>1, <2>3 DEF Forward
    <3> QED
      BY <3>1, <3>2, <3>3 DEF Touched
  <2>5. ASSUME NEW q \in Path
        PROVE  (Aside(q)' <=> Aside(q)) /\ (GivenUp(q)' <=> GivenUp(q))
               /\ (q # p => work'[q] = work[q] /\ (InPlace(q) => InPlace(q)'))
    BY <2>1, <2>2, <2>3 DEF Files, InPlace, Aside, GivenUp, Before
  <2>6. work'[p] = n(p)
    BY <2>1, <2>2, <2>3 DEF Files
  <2>7. Originals'
    <3>1. \A q \in placed' : q \in Path
      BY <2>1, <2>2 DEF Sound, FilesOK
    <3> QED
      BY <2>1, <2>3, <2>4, <2>5, <3>1 DEF Originals
  <2>8. Forward'
    <3>1. ASSUME NEW q \in plan.todo \ {p}
          PROVE  q \notin placed' /\ (GivenUp(q)' \/ Aside(q)')
      <4>1. q \in Path
        BY <2>3 DEF Plans
      <4> QED
        BY <2>1, <2>3, <2>5, <3>1, <4>1 DEF Forward
    <3>2. ASSUME NEW q \in (plan.create \cup plan.update) \ (plan.todo \ {p})
          PROVE  work'[q] = n(q)
      <4>1. q \in Path
        BY <2>3 DEF Plans
      <4> QED
        BY <2>1, <2>3, <2>5, <2>6, <3>2, <4>1 DEF Forward
    <3>3. ASSUME NEW q \in plan.delete PROVE work'[q] = None
      <4>1. q \in Path /\ q # p
        BY <2>3, <2>4 DEF Plans
      <4> QED
        BY <2>1, <2>3, <2>5, <3>3, <4>1 DEF Forward
    <3>4. ASSUME NEW q \in Path \ Touched PROVE InPlace(q)'
      BY <2>3, <2>4, <2>5, <3>4 DEF Forward
    <3> QED
      BY <2>1, <2>2, <2>3, <3>1, <3>2, <3>3, <3>4, PlanStays DEF Forward
  <2> HIDE DEF n
  <2> QED
    BY <2>1, <2>7, <2>8, StagedTraced DEF Staged
<1> QED
  BY <1>1, <1>2, <1>3

\* A rollback moves back what is aside, or leaves it where it can be found.
LEMMA RollbackTraced ==
  ASSUME Sound, Traced, RenameFails \/ RemovePlaced \/ MoveBack
  PROVE  Traced'
<1>1. CASE RenameFails
  <2>1. /\ pc \in {"aside", "place"} /\ (Fault \/ UNCHANGED ghost) /\ pc' = "rollback"
        /\ plan' = [plan EXCEPT !.todo = {p \in Path : shadow[p] # None}]
        /\ UNCHANGED <<work, disk, cmd, shadow, placed, restored>>
    BY <1>1 DEF RenameFails
  <2>2. Originals /\ plan \in Plans /\ Kept
    BY <2>1, StagedIs, KeptIs DEF Staged, Sound
  <2>3. plan'.todo = {p \in Path : shadow[p] # None}
    BY <2>1, <2>2 DEF Plans
  <2>4. ASSUME NEW q \in Path
        PROVE  (InPlace(q)' <=> InPlace(q)) /\ (Aside(q)' <=> Aside(q)) /\ (GivenUp(q)' <=> GivenUp(q))
    BY <2>1, <2>2 DEF InPlace, Aside, GivenUp, Before, Kept
  <2>5. placed \subseteq Path
    BY DEF Sound, FilesOK
  <2>6. Originals'
    BY <2>1, <2>2, <2>3, <2>4, <2>5 DEF Originals
  <2> QED
    BY <2>1, <2>6, StagedTraced DEF Staged
<1>2. CASE RemovePlaced
  <2>1. PICK p \in placed :
          /\ pc = "rollback" /\ placed' = placed \ {p}
          /\ \/ work' = [work EXCEPT ![p] = None] /\ UNCHANGED <<restored, ghost>>
             \/ Fault /\ restored' = FALSE /\ UNCHANGED work
          /\ UNCHANGED <<disk, pc, cmd, plan, shadow>>
    BY <1>2 DEF RemovePlaced
  <2>2. Originals /\ work \in Files /\ placed \subseteq Path /\ Kept
    BY <2>1, StagedIs, KeptIs DEF Staged, Sound
  <2>3. p \in Path /\ (GivenUp(p) \/ Aside(p)) /\ (work'[p] = None \/ ~restored')
    BY <2>1, <2>2 DEF Originals, Files
  <2>4. ASSUME NEW q \in Path
        PROVE  /\ (Aside(q)' <=> Aside(q)) /\ (GivenUp(q)' <=> GivenUp(q))
               /\ q # p => work'[q] = work[q] /\ (InPlace(q) => InPlace(q)')
    BY <2>1, <2>2, <2>3 DEF InPlace, Aside, GivenUp, Before, Kept, Files
  <2>5. (restored' => restored) /\ (~restored => ~restored')
    BY <2>1
  <2>6. ASSUME NEW q \in Path \ placed'
        PROVE  GivenUp(q)' \/ InPlace(q)' \/ (Aside(q)' /\ (work'[q] = None \/ ~restored'))
    <3>1. CASE q = p
      BY <2>3, <2>4, <3>1
    <3>2. CASE q # p
      BY <2>1, <2>2, <2>4, <2>5, <2>6, <3>2 DEF Originals
    <3> QED
      BY <3>1, <3>2
  <2>7. Originals'
    BY <2>1, <2>2, <2>4, <2>5, <2>6 DEF Originals
  <2> QED
    BY <2>1, <2>7, StagedTraced DEF Staged
<1>3. CASE MoveBack
  <2>1. PICK p \in plan.todo :
          /\ pc = "rollback" /\ placed = {} /\ Todo(p)
          /\ \/ /\ work' = [work EXCEPT ![p] = shadow[p]]
                /\ shadow' = [shadow EXCEPT ![p] = None] /\ UNCHANGED <<restored, ghost>>
             \/ Fault /\ restored' = FALSE /\ UNCHANGED <<work, shadow>>
          /\ UNCHANGED <<disk, pc, cmd, placed>>
    BY <1>3 DEF MoveBack
  <2>2. p \in Path /\ plan'.todo = plan.todo \ {p}
    BY <2>1, TodoIs DEF Sound
  <2>3. Originals /\ work \in Files /\ shadow \in Files /\ plan \in Plans /\ Kept
    BY <2>1, StagedIs, KeptIs DEF Staged, Sound
  <2>4. ASSUME NEW q \in Path, q # p
        PROVE  /\ work'[q] = work[q] /\ shadow'[q] = shadow[q]
               /\ (Aside(q)' <=> Aside(q)) /\ (InPlace(q)' <=> InPlace(q))
    BY <2>1, <2>2, <2>3, <2>4 DEF InPlace, Aside, Before, Kept, Files
  <2>5. \A q \in Path : GivenUp(q)' <=> GivenUp(q)
    BY <2>3 DEF GivenUp, Before, Kept
  <2>6. (restored' => restored) /\ (~restored => ~restored')
    BY <2>1
  <2>7. GivenUp(p) \/ Aside(p)
    BY <2>1, <2>2, <2>3 DEF Originals, InPlace
  <2>8. GivenUp(p)' \/ InPlace(p)' \/ (Aside(p)' /\ ~restored')
    BY <2>1, <2>2, <2>3, <2>5, <2>7 DEF InPlace, Aside, Before, Kept, Files
  <2>9. ASSUME NEW q \in Path
        PROVE  GivenUp(q)' \/ InPlace(q)' \/ (Aside(q)' /\ (work'[q] = None \/ ~restored'))
    <3>1. CASE q = p
      BY <2>8, <3>1
    <3>2. CASE q # p
      BY <2>1, <2>3, <2>4, <2>5, <2>6, <3>2 DEF Originals
    <3> QED
      BY <3>1, <3>2
  <2>10. ASSUME NEW q \in plan.todo \ {p} PROVE shadow'[q] # None
    <3>1. q \in Path
      BY <2>3 DEF Plans
    <3> QED
      BY <2>1, <2>3, <2>4, <2>10, <3>1 DEF Originals
  <2>11. ASSUME restored', NEW q \in Path, shadow'[q] # None PROVE q \in plan.todo \ {p}
    <3>1. q # p
      BY <2>1, <2>2, <2>3, <2>11 DEF Files
    <3> QED
      BY <2>1, <2>3, <2>4, <2>6, <2>11, <3>1 DEF Originals
  <2>12. Originals'
    BY <2>1, <2>2, <2>9, <2>10, <2>11 DEF Originals
  <2> QED
    BY <2>1, <2>12, StagedTraced DEF Staged
<1> QED
  BY <1>1, <1>2, <1>3

LEMMA UndoTraced ==
  ASSUME Sound, Traced, UndoDone
  PROVE  Traced'
<1> DEFINE result == IF restored THEN "failed" ELSE "recovered"
<1>1. /\ pc = "rollback" /\ placed = {} /\ plan.todo = {} /\ pc' = "idle" /\ restored'
      /\ recovered' = IF restored THEN recovered ELSE recovered \cup Data(shadow)
      /\ ghost' = [ghost EXCEPT !.result = result] /\ UNCHANGED <<work, disk>>
  BY DEF UndoDone, Exit, Remembered
<1>2. Originals /\ index = Before.index /\ head = Before.head
  BY <1>1, StagedIs DEF Staged
<1>3. ghost'.result = result /\ ghost'.before = ghost.before
  BY <1>1 DEF Sound, GhostOK
<1>4. ASSUME NEW p \in Path
      PROVE  \/ work[p] = Before.work[p]
             \/ Before.index[p] = None /\ Before.work[p] # None
             \/ ~restored /\ (Before.work[p] = None \/ Before.work[p].data \in recovered')
  <2>1. CASE GivenUp(p) \/ InPlace(p)
    BY <2>1 DEF GivenUp, InPlace
  <2>2. CASE Aside(p) /\ restored
    <3>1. shadow[p] = None
      BY <1>1, <1>2, <2>2 DEF Originals
    <3> QED
      BY <1>1, <1>2, <2>1, <2>2, <3>1 DEF Originals, Aside
  <2>3. CASE Aside(p) /\ ~restored
    <3>1. shadow[p] = Before.work[p] /\ (shadow[p] # None => shadow[p].data \in Data(shadow))
      BY <2>3 DEF Aside, Data
    <3> QED
      BY <1>1, <2>3, <3>1
  <2> QED
    BY <1>1, <1>2, <2>1, <2>2, <2>3 DEF Originals
<1>5. FailureKeeps'
  BY <1>1, <1>2, <1>3, <1>4 DEF FailureKeeps, Before, disk
<1>6. CommandsArrive'
  BY <1>3 DEF CommandsArrive, SwitchDone, PopRestores, Ended
<1> QED
  BY <1>1, <1>3, <1>5, <1>6 DEF Traced, Stopped

\* What the two phases leave of each path.
LEMMA PlacedIs ==
  ASSUME Sound, Traced, pc = "place", plan.todo = {}, NEW k, k = Head(cmd.passes),
         NEW p \in k.paths
  PROVE  /\ p \in Path
         /\ index[p] = k.tree[p] => work[p] = Before.work[p]
         /\ index[p] # k.tree[p] /\ k.tree[p] = None /\ ~k.keep => work[p] = None
         /\ index[p] # k.tree[p] /\ k.tree[p] # None =>
              work[p] = New(k.tree[p]) /\ IsFile(p) /\ work[p].data = k.tree[p]
<1>1. k \in Passes(stored) /\ pc \in Staged
  BY FirstIs DEF Staged
<1>2. p \in Path /\ (k.tree[p] # None => k.tree[p] \in stored)
  BY <1>1 DEF Passes, Trees
<1>3. Forward
  BY <1>1, StagedIs
<1>4. CASE index[p] = k.tree[p]
  <2>1. p \notin Touched
    BY <1>1, <1>2, <1>3, <1>4, PlanParts DEF Touched
  <2>2. InPlace(p)
    BY <1>2, <1>3, <2>1 DEF Forward
  <2> QED
    BY <1>2, <1>4, <2>2 DEF InPlace
<1>5. CASE index[p] # k.tree[p] /\ k.tree[p] = None
  <2>1. ~k.keep => p \in plan.delete
    BY <1>1, <1>2, <1>3, <1>5, PlanParts
  <2> QED
    BY <1>2, <1>3, <1>5, <2>1 DEF Forward
<1>6. CASE index[p] # k.tree[p] /\ k.tree[p] # None
  <2>1. p \in plan.create \cup plan.update
    BY <1>1, <1>2, <1>3, <1>6, PlanParts
  <2>2. work[p] = New(k.tree[p])
    BY <1>3, <2>1 DEF Forward
  <2>3. k.tree[p] \in Content
    BY <1>2, <1>6 DEF Sound, DiskOK
  <2> QED
    BY <1>2, <1>6, <2>2, <2>3, NewFile, WorkTreeAssumption DEF IsFile, IsDir
<1> QED
  BY <1>2, <1>4, <1>5, <1>6

LEMMA NextPassIs ==
  ASSUME Sound, pc \in {"place", "index"}, NextPass, UNCHANGED <<tip, stored, stash>>
  PROVE  /\ cmd'.op = cmd.op /\ cmd'.arg = cmd.arg /\ cmd'.passes = Tail(cmd.passes)
         /\ Len(cmd.passes) = 1 => pc' = "finish" /\ cmd'.passes = <<>>
         /\ Len(cmd.passes) = 2 => pc' = "plan"
<1>1. /\ cmd'.op = cmd.op /\ cmd'.arg = cmd.arg /\ cmd'.passes = Tail(cmd.passes)
  BY NextPassOK
<1>2. pc' = IF Len(cmd.passes) > 1 THEN "plan" ELSE "finish"
  BY DEF NextPass
<1>3. ~(1 > 1) /\ 2 > 1
  OBVIOUS
<1>4. ASSUME NEW S, NEW q \in Seq(S), q # <<>>, Len(q) = 1
      PROVE  Tail(q) = <<>>
  <2>1. Tail(q) \in Seq(S) /\ Len(Tail(q)) = Len(q) - 1
    BY <1>4, FirstPass
  <2>2. Tail(q) \in Seq(S) /\ Len(Tail(q)) = 0
    BY <1>4, <2>1
  <2> QED
    BY <2>2, EmptySeq
<1>5. cmd.passes \in Seq(Passes(stored)) /\ cmd.passes # <<>>
  BY FirstIs DEF Staged
<1> QED
  BY <1>1, <1>2, <1>3, <1>4, <1>5

LEMMA PlaceDoneTraced ==
  ASSUME Sound, Traced, PlaceDone
  PROVE  Traced'
<1> DEFINE k == Head(cmd.passes)
<1>1. /\ pc = "place" /\ plan.todo = {} /\ UNCHANGED <<work, disk, plan, restored, ghost>>
      /\ (k.ix /\ pc' = "index" /\ UNCHANGED cmd) \/ (~k.ix /\ NextPass)
  BY DEF PlaceDone
<1>2. Running /\ Kept /\ ~SecondPass /\ restored
  BY <1>1, StagedIs, KeptIs DEF Sound, Staged, Running, StagedTrace, Forward
<1>3. index = Before.index /\ head = Before.head
  BY <1>1, StagedIs DEF Staged
<1> HIDE DEF k
<1>4. CASE k.ix /\ pc' = "index" /\ UNCHANGED cmd
  <2>1. Begun'
    BY <1>1, <1>2, <1>4 DEF Running, Begun, Kept, Checking, Staged
  <2>2. StagedTrace'
    BY <1>4 DEF StagedTrace, Staged
  <2>3. SwitchTrace'
    <3> SUFFICES ASSUME cmd.op \in Switches
                 PROVE  SwitchTrace'
      BY <1>4 DEF SwitchTrace
    <3>1. Goal' = Goal
      BY <1>1, <1>4 DEF Goal, disk
    <3>2. k.tree = Goal /\ ~k.keep /\ k.paths = Path
      BY <1>1, <1>2, PassesOf DEF Checking, Staged, k
    <3>3. ASSUME NEW p \in Path
          PROVE  IF Before.index[p] = Goal[p] THEN SameData(work[p], Before.work[p])
                 ELSE IF Goal[p] = None THEN work[p] = None
                 ELSE IsFile(p) /\ work[p].data = Goal[p]
      BY <1>1, <1>3, <3>2, PlacedIs DEF k, SameData
    <3>4. Switched(Goal)
      BY <3>3 DEF Switched
    <3>5. Switched(Goal)'
      BY <1>1, <1>2, <3>1, <3>4 DEF Switched, Before, Kept, IsFile, IsDir
    <3>6. \E force \in BOOLEAN : cmd.passes = <<Checkout(Goal, force)>>
      BY <1>1, <1>2 DEF Running, SwitchTrace
    <3> QED
      BY <1>4, <3>1, <3>5, <3>6 DEF SwitchTrace
  <2>4. PopTrace'
    BY <1>1, <1>2, <1>4, PassesOf DEF PopTrace, Checking, Staged, k
  <2>5. PushTrace'
    BY <1>1, <1>2, <1>4 DEF Running, PushTrace, MadeOf, As, Kept, disk
  <2> QED
    BY <1>4, <2>1, <2>2, <2>3, <2>4, <2>5 DEF Traced, Running
<1>5. CASE ~k.ix /\ NextPass
  <2>1. cmd.op \notin Switches /\ cmd.op # "push"
    BY <1>1, <1>2, <1>5, PassesOf, PushFirst DEF Checking, Staged, k
  <2>2. /\ cmd'.op = cmd.op /\ cmd'.arg = cmd.arg /\ cmd'.passes = Tail(cmd.passes)
        /\ Len(cmd.passes) = 1 => pc' = "finish" /\ cmd'.passes = <<>>
        /\ Len(cmd.passes) = 2 => pc' = "plan"
    BY <1>1, <1>5, NextPassIs DEF disk
  <2>3. SwitchTrace' /\ PushTrace'
    BY <2>1, <2>2 DEF SwitchTrace, PushTrace
  <2>4. CASE cmd.op \notin Applies
    <3>1. Len(cmd.passes) = 1
      BY <1>1, <1>2, <2>4, PassesOf DEF Checking, Staged
    <3>2. Begun' /\ StagedTrace' /\ PopTrace'
      BY <1>1, <1>2, <2>2, <2>4, <3>1
      DEF Running, Begun, StagedTrace, PopTrace, Kept, Checking, Staged
    <3> QED
      BY <2>2, <2>3, <3>1, <3>2 DEF Traced, Running
  <2>5. CASE cmd.op \in Applies
    <3> DEFINE s == stash[cmd.arg]
    <3>1. /\ k.tree = s.w /\ k.paths = Path /\ Len(cmd.passes) = 2
          /\ Tail(cmd.passes) = Tail(ApplyPasses(s)) /\ Len(Tail(cmd.passes)) = 1
      BY <1>1, <1>2, <2>5, PassesOf DEF Checking, Staged, k
    <3>2. pc' = "plan" /\ SecondPass'
      BY <2>2, <2>5, <3>1 DEF SecondPass
    <3>3. Begun'
      BY <1>1, <1>2, <1>3, <2>2, <2>5, <3>2 DEF Running, Begun, Kept, Checking, Staged, Before, disk
    <3>4. ASSUME ghost.pushed # None, cmd.arg = Len(stash)
          PROVE  MadeOf(s) /\ As(work, s.w, Path)
      <4>1. MadeOf(s) /\ As(Before.work, Before.index, Path)
        BY <1>1, <1>2, <2>5, <3>4 DEF Running, PopTrace, Checking, Staged
      <4>2. ASSUME NEW p \in Path, ghost.pushed.index[p] # None, s.w[p] # None
            PROVE  work[p] # None /\ work[p].data = s.w[p]
        <5>1. CASE index[p] = s.w[p]
          <6>1. work[p] = Before.work[p]
            BY <1>1, <3>1, <5>1, PlacedIs DEF k
          <6> QED
            BY <1>3, <4>1, <4>2, <5>1, <6>1 DEF As
        <5>2. CASE index[p] # s.w[p]
          BY <1>1, <3>1, <4>2, <5>2, PlacedIs DEF k, IsFile
        <5> QED
          BY <5>1, <5>2
      <4> HIDE DEF s
      <4> QED
        BY <4>1, <4>2 DEF As
    <3> HIDE DEF s
    <3>5. ghost'.pushed # None /\ cmd.arg = Len(stash) => MadeOf(s)' /\ As(work, s.w, Path)'
      BY <1>1, <1>2, <2>2, <3>4 DEF MadeOf, As, Kept, disk, s
    <3>6. stash'[cmd'.arg] = s /\ s' = s
      BY <1>1, <2>2 DEF disk, s
    <3>7. PopTrace'
      BY <1>1, <2>2, <2>5, <3>1, <3>2, <3>5, <3>6 DEF PopTrace, Checking, Staged, disk
    <3>8. StagedTrace'
      BY <3>2 DEF StagedTrace, Staged
    <3> QED
      BY <2>3, <3>2, <3>3, <3>7, <3>8 DEF Traced, Running
  <2> QED
    BY <2>4, <2>5
<1> QED
  BY <1>1, <1>4, <1>5

\* The index arrives at the tree, and the stat of the files with it.
LEMMA WriteIndexTraced ==
  ASSUME Sound, Traced, WriteIndex
  PROVE  Traced'
<1> DEFINE k == Head(cmd.passes)
<1>1. /\ pc = "index" /\ index' = NewIndex(k) /\ NextPass
      /\ UNCHANGED <<head, tip, stored, stash, engine, ghost>>
      /\ \E here, gone : work' = Stamped(work, here, gone)
  BY Zenon DEF WriteIndex
<1>2. Running /\ Kept /\ k \in Passes(stored)
  BY <1>1, RunningIs, KeptIs, FirstIs DEF Sound
<1>3. /\ Len(cmd.passes) = 1
      /\ cmd.op \in Switches => k.tree = Goal /\ ~k.keep /\ k.paths = Path
      /\ cmd.op \in Applies => SecondPass /\ k.tree = stash[cmd.arg].i /\ k.paths = Path
  <2>1. cmd.op \in Applies => SecondPass
    BY <1>1, <1>2 DEF Running, PopTrace
  <2> QED
    BY <1>1, <1>2, <2>1, PassesOf
<1>4. /\ cmd'.op = cmd.op /\ cmd'.arg = cmd.arg /\ pc' = "finish" /\ cmd'.passes = <<>>
  BY <1>1, <1>3, NextPassIs
<1>5. k.tree \in Trees(stored)
  BY <1>2 DEF Passes
<1> HIDE DEF k
<1>6. \A p \in Path : /\ (work'[p] = None) = (work[p] = None)
                      /\ work[p] # None => work'[p].data = work[p].data
  BY <1>1, StampedFiles DEF Sound, FilesOK
<1>7. Begun'
  BY <1>2, <1>4 DEF Running, Begun, Kept, Checking, Staged
<1>8. StagedTrace'
  BY <1>4 DEF StagedTrace, Staged
<1>9. SwitchTrace'
  <2> SUFFICES ASSUME cmd.op \in Switches
               PROVE  SwitchTrace'
    BY <1>4 DEF SwitchTrace
  <2>1. Goal' = Goal
    BY <1>1, <1>4 DEF Goal
  <2>2. index' = Goal
    BY <1>1, <1>3, <1>5 DEF NewIndex, Trees
  <2>3. Switched(Goal)
    BY <1>1, <1>2 DEF Running, SwitchTrace
  <2>4. ASSUME NEW p \in Path
        PROVE  IF Before.index[p] = Goal[p] THEN SameData(work'[p], Before.work[p])
               ELSE IF Goal[p] = None THEN work'[p] = None
               ELSE work'[p] # None /\ work'[p].data # Dir /\ work'[p].data = Goal[p]
    BY <1>6, <2>3 DEF Switched, SameData, IsFile, IsDir
  <2>5. Switched(index)'
    BY <1>2, <2>2, <2>4 DEF Switched, Kept, Before, IsFile, IsDir
  <2> QED
    BY <1>4, <2>1, <2>2, <2>5 DEF SwitchTrace
<1>10. PopTrace'
  <2> SUFFICES ASSUME cmd.op \in Applies
               PROVE  PopTrace'
    BY <1>4 DEF PopTrace
  <2> DEFINE s == stash[cmd.arg]
  <2>1. ASSUME ghost.pushed # None, cmd.arg = Len(stash)
        PROVE  /\ MadeOf(s)
               /\ \A p \in Path : ghost.pushed.index[p] # None /\ s.w[p] # None =>
                    work'[p] # None /\ work'[p].data = s.w[p]
               /\ \A p \in Path : ghost.pushed.index[p] # None => index'[p] = s.i[p]
    <3>1. MadeOf(s) /\ As(work, s.w, Path)
      BY <1>2, <1>3, <2>1 DEF Running, PopTrace
    <3>2. \A p \in Path : s.i[p] # None => index'[p] = s.i[p]
      BY <1>1, <1>3 DEF NewIndex
    <3> HIDE DEF s
    <3> QED
      BY <1>6, <3>1, <3>2 DEF MadeOf, As
  <2> HIDE DEF s
  <2>2. ghost'.pushed # None /\ cmd.arg = Len(stash) =>
          /\ MadeOf(s)' /\ As(work, s.w, Path)'
          /\ \A p \in Path : ghost'.pushed.index[p] # None => index'[p] = s.i[p]
    <3>1. s' = s
      BY <1>1, <1>4 DEF s
    <3> QED
      BY <1>2, <2>1, <3>1 DEF MadeOf, As, Kept
  <2>3. stash'[cmd'.arg] = s /\ s' = s
    BY <1>1, <1>4 DEF s
  <2> QED
    BY <1>1, <1>4, <2>2, <2>3 DEF PopTrace, Checking, Staged
<1>11. PushTrace'
  BY <1>1, <1>2, <1>4 DEF Running, PushTrace, MadeOf, Kept
<1> QED
  BY <1>4, <1>7, <1>8, <1>9, <1>10, <1>11 DEF Traced, Running

LEMMA FinishTraced ==
  ASSUME Sound, Traced, Finish
  PROVE  Traced'
<1>1. /\ pc = "finish" /\ cmd.op \notin {"push", "apply", "pop"} /\ Exit("done")
      /\ UNCHANGED <<work, index, stored, stash>>
      /\ head' = IF cmd.op \in {"switch", "switch -c", "detach"} THEN cmd.arg
                 ELSE IF cmd.op = "reset" /\ head \notin Branch THEN cmd.arg ELSE head
      /\ tip' = IF cmd.op = "reset" /\ head \in Branch THEN [tip EXCEPT ![head] = cmd.arg] ELSE tip
  BY DEF Finish
<1>2. CASE cmd.op \notin Switches
  BY <1>1, <1>2, ExitForgets DEF Sound
<1>3. CASE cmd.op \in Switches
  <2>1. /\ ghost' = [ghost EXCEPT !.result = "done"] /\ pc' = "idle" /\ restored'
        /\ head' = cmd.arg /\ tip' = tip
    BY <1>1, <1>3 DEF Exit, Remembered, Switches
  <2>2. Running
    BY <1>1, RunningIs
  <2>3. /\ ghost.op = cmd.op /\ ghost.arg = cmd.arg /\ Switched(index) /\ index = Goal
    BY <1>1, <1>3, <2>2 DEF Running, Begun, SwitchTrace, Started
  <2>4. /\ ghost'.result = "done" /\ ghost'.op = cmd.op /\ ghost'.arg = cmd.arg
        /\ ghost'.before = ghost.before
    BY <2>1, <2>3 DEF Sound, GhostOK
  <2>5. HeadTree' = Goal
    <3>1. CASE cmd.op = "detach"
      <4>1. cmd.arg \notin Branch
        BY <3>1, TreesAreTrees, WorkTreeAssumption DEF Sound, CmdOK
      <4> QED
        BY <2>1, <3>1, <4>1 DEF HeadTree, Goal
    <3>2. CASE cmd.op # "detach"
      <4>1. cmd.arg \in Branch
        BY <1>3, <3>2 DEF Sound, CmdOK, Switches
      <4> QED
        BY <2>1, <3>2, <4>1 DEF HeadTree, Goal
    <3> QED
      BY <3>1, <3>2
  <2>6. SwitchDone'
    BY <1>1, <2>1, <2>3, <2>4, <2>5 DEF SwitchDone, Switched, Before, IsFile, IsDir
  <2>7. FailureKeeps' /\ PopRestores' /\ cmd.op # "push"
    BY <1>3, <2>4 DEF FailureKeeps, PopRestores, Ended, Switches
  <2> QED
    BY <2>1, <2>4, <2>6, <2>7 DEF Traced, Stopped, CommandsArrive
<1> QED
  BY <1>2, <1>3

-----------------------------------------------------------------------------
(* The files that stash writes and removes.                                *)

\* Ends that nothing looks back on, by the commands that come to them.
LEMMA EndsTraced ==
  ASSUME Sound, Traced, IndexBusy \/ Crash \/ FileFails \/ WriteEntry
  PROVE  Traced'
<1>1. CASE IndexBusy \/ Crash
  BY <1>1, LostForgets DEF IndexBusy, Crash, Sound
<1>2. CASE FileFails
  <2>1. Exit("partly")
    BY <1>2 DEF FileFails
  <2> QED
    BY <2>1, ExitForgets DEF Sound
<1>3. CASE WriteEntry
  <2>1. pc = "entry" /\ Exit("done")
    BY <1>3 DEF WriteEntry
  <2>2. Running
    BY <2>1, RunningIs
  <2>3. cmd.op \notin Switches \cup {"pop", "push"}
    BY <2>1, <2>2 DEF Running, SwitchTrace, PopTrace, PushTrace, Applies, Checking, Staged
  <2> QED
    BY <2>1, <2>3, ExitForgets DEF Sound
<1> QED
  BY <1>1, <1>2, <1>3

\* A step of the loops after the checkouts.
LEMMA LoopTraced ==
  ASSUME Sound, Running, Kept, pc \notin Checking \cup {"idle", "index"},
         pc' \notin Checking \cup {"idle", "index"}, UNCHANGED <<disk, cmd>>,
         cmd.op \notin Switches, PopTrace', PushTrace'
  PROVE  Traced'
<1>1. Begun'
  BY DEF Running, Begun, Kept, Checking
<1>2. StagedTrace' /\ SwitchTrace'
  BY DEF StagedTrace, SwitchTrace, Checking, Staged
<1> QED
  BY <1>1, <1>2 DEF Traced, Running

LEMMA PushLoopsTraced ==
  ASSUME Sound, Traced, FilesFirst \/ WriteFile \/ StampIndex \/ Unlink
  PROVE  Traced'
<1>1. /\ pc \notin Checking \cup {"idle", "index"} /\ pc' \notin Checking \cup {"idle", "index"}
      /\ pc' # "entry" /\ UNCHANGED <<disk, cmd, ghost>> /\ Kept
  BY KeptIs
  DEF FilesFirst, WriteFile, StampIndex, Unlink, Checking, Staged, Sound
<1>2. Running
  BY <1>1, RunningIs
<1>3. cmd.op \notin Switches \cup Applies
  <2>1. CASE FilesFirst
    BY <2>1 DEF FilesFirst, Switches, Applies
  <2>2. CASE WriteFile \/ StampIndex \/ Unlink
    <3>1. pc \in {"files", "stamp", "unlink"}
      BY <2>2 DEF WriteFile, StampIndex, Unlink
    <3> QED
      BY <1>2, <3>1 DEF Running, SwitchTrace, PopTrace, Checking, Staged
  <2> QED
    BY <2>1, <2>2
<1>4. PopTrace'
  BY <1>1, <1>3 DEF PopTrace
<1>5. ASSUME cmd.op = "push", ghost.pushed # None
      PROVE  /\ MadeOf(cmd.arg)' /\ MadeOf(cmd.arg)
             /\ stash # <<>> /\ cmd.arg = stash[Len(stash)]
  BY <1>1, <1>2, <1>5 DEF Running, PushTrace, MadeOf, Kept
<1>6. PushTrace'
  <2> SUFFICES ASSUME cmd.op = "push", ghost.pushed # None
               PROVE  /\ pc' = "files" => As(work, index, {p \in Path : index[p] # None} \ plan.todo)'
                      /\ pc' \in {"stamp", "unlink"} => As(work, index, Path)'
    BY <1>1, <1>5 DEF PushTrace, disk
  <2>1. CASE FilesFirst
    <3>1. pc' = "files" /\ plan' = [plan EXCEPT !.todo = {p \in Path : index[p] # None}]
      BY <2>1 DEF FilesFirst
    <3>2. plan'.todo = {p \in Path : index[p] # None}
      BY <3>1 DEF Sound, FilesOK, Plans
    <3> QED
      BY <1>1, <3>1, <3>2 DEF As, disk
  <2>2. CASE WriteFile
    <3>1. PICK p \in plan.todo : /\ pc = "files" /\ pc' = "files" /\ Todo(p)
                                 /\ work' = [work EXCEPT ![p] = New(index[p])]
      BY <2>2 DEF WriteFile
    <3>2. p \in Path /\ plan'.todo = plan.todo \ {p} /\ work \in Files
      BY <3>1, TodoIs DEF Sound, FilesOK
    <3>3. index[p] \in stored
      BY <3>1, <3>2 DEF Sound, EngineOK, DiskOK, Trees
    <3> DEFINE n == New(index[p])
    <3>4. n # None /\ n.data = index[p]
      BY <3>3, NewFile DEF Sound, DiskOK
    <3> HIDE DEF n
    <3>5. work' = [work EXCEPT ![p] = n]
      BY <3>1 DEF n
    <3>6. As(work, index, {q \in Path : index[q] # None} \ plan.todo)
      BY <1>2, <3>1 DEF Running, PushTrace
    <3>7. As(work, index, {q \in Path : index[q] # None} \ plan.todo)'
      BY <1>1, <3>2, <3>4, <3>5, <3>6 DEF As, Files, disk
    <3> QED
      BY <3>1, <3>7
  <2>3. CASE StampIndex
    <3>1. pc = "stamp" /\ pc' = "unlink" /\ \E here, gone : work' = Stamped(work, here, gone)
      BY <2>3, Zenon DEF StampIndex
    <3>2. As(work, index, Path)
      BY <1>2, <3>1 DEF Running, PushTrace
    <3>3. \A p \in Path : /\ (work'[p] = None) = (work[p] = None)
                          /\ work[p] # None => work'[p].data = work[p].data
      BY <3>1, StampedFiles DEF Sound, FilesOK
    <3>4. As(work, index, Path)'
      BY <1>1, <3>2, <3>3 DEF As, disk
    <3> QED
      BY <3>1, <3>4
  <2>4. CASE Unlink
    <3>1. PICK p \in plan.todo : /\ pc = "unlink" /\ pc' = "unlink"
                                 /\ work' = [work EXCEPT ![p] = None]
      BY <2>4 DEF Unlink
    <3>2. p \in Path /\ cmd.arg.u[p] # None
      BY <3>1 DEF Sound, PushOK
    <3>3. As(work, index, Path) /\ ghost.pushed.index[p] = None
      BY <1>2, <1>5, <3>1, <3>2 DEF Running, PushTrace, MadeOf
    <3>4. As(work, index, Path)'
      BY <1>1, <3>1, <3>2, <3>3 DEF As, disk, Sound, FilesOK, Files
    <3> QED
      BY <3>1, <3>4
  <2> QED
    BY <2>1, <2>2, <2>3, <2>4
<1> QED
  BY <1>1, <1>2, <1>3, <1>4, <1>6, LoopTraced

LEMMA FilesDoneTraced ==
  ASSUME Sound, Traced, FilesDone
  PROVE  Traced'
<1>1. pc = "files" /\ plan.todo = {} /\ UNCHANGED <<work, disk>>
  BY DEF FilesDone
<1>2. Running
  BY <1>1, RunningIs
<1>3. cmd.op \notin Switches \cup Applies
  BY <1>1, <1>2 DEF Running, SwitchTrace, PopTrace, Checking, Staged
<1>4. CASE cmd.op # "push"
  <2>1. Exit("done")
    BY <1>4 DEF FilesDone
  <2> QED
    BY <1>3, <1>4, <2>1, ExitForgets DEF Sound, Applies
<1>5. CASE cmd.op = "push"
  <2>1. pc' = "stamp" /\ UNCHANGED <<cmd, engine, ghost>> /\ Kept
    BY <1>5, KeptIs DEF FilesDone, Sound
  <2>2. PopTrace'
    BY <1>3, <2>1 DEF PopTrace
  <2>3. ghost.pushed # None => As(work, index, Path)
    BY <1>1, <1>2, <1>5 DEF Running, PushTrace, As
  <2>4. PushTrace'
    BY <1>1, <1>2, <1>5, <2>1, <2>3 DEF Running, PushTrace, MadeOf, As, Kept, disk
  <2> QED
    BY <1>1, <1>2, <1>3, <2>1, <2>2, <2>4, LoopTraced DEF Checking, Staged
<1> QED
  BY <1>4, <1>5

LEMMA UnlinkDoneTraced ==
  ASSUME Sound, Traced, UnlinkDone
  PROVE  Traced'
<1>1. /\ pc = "unlink" /\ cmd.op = "push" /\ pc' = "idle" /\ restored' /\ UNCHANGED <<work, disk>>
      /\ ghost' = [ghost EXCEPT !.result = "done", !.before = None, !.arg = None]
  BY DEF UnlinkDone, Exit, Remembered, Sound, CmdOK
<1>2. Running
  BY <1>1, RunningIs
<1>3. ghost'.result = "done" /\ ghost'.op = "push" /\ ghost'.pushed = ghost.pushed
  BY <1>1, <1>2 DEF Running, Begun, Started, Sound, GhostOK
<1>4. ghost.pushed # None => stash # <<>> /\ MadeOf(stash[Len(stash)]) /\ As(work, index, Path)
  BY <1>1, <1>2 DEF Running, PushTrace
<1>5. ghost'.pushed # None =>
        stash' # <<>> /\ MadeOf(stash[Len(stash)])' /\ As(work, index, Path)'
  BY <1>1, <1>3, <1>4 DEF MadeOf, As, disk
<1>6. FailureKeeps' /\ CommandsArrive'
  BY <1>3 DEF FailureKeeps, CommandsArrive, SwitchDone, PopRestores, Ended
<1> QED
  BY <1>1, <1>3, <1>5, <1>6 DEF Traced, Stopped

LEMMA UntrackedTraced ==
  ASSUME Sound, Traced, UntrackedFirst \/ RestoreUntracked
  PROVE  Traced'
<1>1. pc \in {"finish", "untracked"} /\ cmd.op \in Applies /\ UNCHANGED disk
  BY DEF UntrackedFirst, RestoreUntracked, Applies, Sound, CmdOK
<1>2. Running
  BY <1>1, RunningIs
<1> DEFINE s == stash[cmd.arg]
<1>3. ghost.pushed # None /\ cmd.arg = Len(stash) =>
        /\ MadeOf(s) /\ As(work, s.w, Path)
        /\ \A p \in Path : ghost.pushed.index[p] # None => index[p] = s.i[p]
  BY <1>1, <1>2 DEF Running, PopTrace
<1>4. CASE RestoreUntracked /\ Exit("partly")
  BY <1>4, ExitForgets DEF Sound
<1>5. CASE UntrackedFirst \/ (RestoreUntracked /\ ~Exit("partly"))
  <2>1. /\ pc' = "untracked" /\ UNCHANGED <<cmd, ghost>> /\ Kept
        /\ UNCHANGED work \/ \E p \in Path : \E f : work[p] = None /\ work' = [work EXCEPT ![p] = f]
    <3>1. CASE UntrackedFirst
      BY <3>1, KeptIs DEF UntrackedFirst, Sound
    <3>2. CASE RestoreUntracked /\ ~Exit("partly")
      <4>1. PICK p \in plan.todo :
              /\ work[p] = None /\ work' = [work EXCEPT ![p] = New(stash[cmd.arg].u[p])]
              /\ UNCHANGED <<pc, cmd, ghost>> /\ pc = "untracked"
        BY <3>2 DEF RestoreUntracked
      <4>2. p \in Path
        BY DEF Sound, FilesOK, Plans
      <4> QED
        BY <4>1, <4>2, KeptIs DEF Sound
    <3> QED
      BY <1>5, <3>1, <3>2
  <2>2. \A q \in Path : work[q] # None => work'[q] = work[q]
    BY <2>1 DEF Sound, FilesOK, Files
  <2> HIDE DEF s
  <2>3. ghost'.pushed # None /\ cmd.arg = Len(stash) =>
          /\ MadeOf(s)' /\ As(work, s.w, Path)'
          /\ \A p \in Path : ghost'.pushed.index[p] # None => index'[p] = s.i[p]
    <3>1. s' = s
      BY <1>1, <2>1 DEF s, disk
    <3> QED
      BY <1>1, <1>3, <2>1, <2>2, <3>1 DEF MadeOf, As, disk
  <2>4. PopTrace'
    BY <1>1, <2>1, <2>3 DEF PopTrace, Checking, Staged, disk, s
  <2>5. PushTrace' /\ cmd.op \notin Switches
    BY <1>1, <2>1 DEF PushTrace, Applies, Switches
  <2> QED
    BY <1>1, <1>2, <2>1, <2>4, <2>5, LoopTraced DEF Checking, Staged
<1> QED
  BY <1>4, <1>5 

\* A pop of the stash just pushed leaves what was pushed.
LEMMA ApplyDoneTraced ==
  ASSUME Sound, Traced, ApplyDone
  PROVE  Traced'
<1>1. /\ pc = "untracked" /\ Exit("done") /\ UNCHANGED <<work, index, head, tip, stored>>
      /\ stash' = IF cmd.op = "pop" THEN RemoveAt(stash, cmd.arg) ELSE stash
  BY DEF ApplyDone
<1>2. Running
  BY <1>1, RunningIs
<1>3. cmd.op \in Applies
  BY <1>1 DEF Sound, CmdOK, Applies
<1>4. CASE cmd.op = "apply"
  BY <1>1, <1>4, ExitForgets DEF Sound, Switches
<1>5. CASE cmd.op = "pop"
  <2>1. ghost' = [ghost EXCEPT !.result = "done"] /\ pc' = "idle" /\ restored'
    BY <1>1, <1>5 DEF Exit, Remembered
  <2>2. ghost.op = "pop" /\ ghost.arg = cmd.arg
    BY <1>2, <1>5 DEF Running, Begun, Started, Applies
  <2>3. /\ ghost'.result = "done" /\ ghost'.op = "pop" /\ ghost'.arg = cmd.arg
        /\ ghost'.pushed = ghost.pushed
    BY <2>1, <2>2 DEF Sound, GhostOK
  <2>4. cmd.arg = Len(stash') + 1 => cmd.arg = Len(stash)
    <3>1. stash \in Seq(Stashes(stored)) /\ cmd.arg \in DOMAIN stash
      BY <1>3 DEF Sound, DiskOK, CmdOK, Applies
    <3>2. Len(stash') = Len(stash) - 1 /\ Len(stash) \in Nat
      BY <1>1, <1>5, <3>1, Removed, LenProperties
    <3> DEFINE n == Len(stash)
               n2 == Len(stash')
    <3>3. n2 = n - 1 /\ n \in Nat
      BY <3>2
    <3> HIDE DEF n, n2
    <3>4. n2 + 1 = n
      BY <3>3
    <3> QED
      BY <3>4 DEF n, n2
  <2>5. ASSUME ghost.pushed # None, cmd.arg = Len(stash), NEW p \in Path,
               ghost.pushed.index[p] # None, ghost.pushed.work[p] # None
        PROVE  index[p] = ghost.pushed.index[p] /\ SameData(work[p], ghost.pushed.work[p])
    <3> DEFINE s == stash[cmd.arg]
    <3>1. MadeOf(s) /\ As(work, s.w, Path) /\ index[p] = s.i[p]
      BY <1>1, <1>2, <1>3, <2>5 DEF Running, PopTrace
    <3> HIDE DEF s
    <3> QED
      BY <2>5, <3>1 DEF MadeOf, As, SameData
  <2>6. PopRestores'
    BY <1>1, <2>3, <2>4, <2>5 DEF PopRestores
  <2>7. FailureKeeps' /\ SwitchDone'
    BY <2>3 DEF FailureKeeps, SwitchDone, Ended
  <2> QED
    BY <2>1, <2>3, <2>6, <2>7 DEF Traced, Stopped, CommandsArrive
<1> QED
  BY <1>3, <1>4, <1>5 DEF Applies

-----------------------------------------------------------------------------
(* The theorems.                                                           *)

LEMMA StaysTraced ==
  ASSUME Traced, UNCHANGED vars
  PROVE  Traced'
<1>1. UNCHANGED <<work, index, head, tip, stash, pc, cmd, plan, shadow, placed, restored,
                  recovered, ghost>>
  BY DEF vars, engine, disk
<1>2. CASE pc = "idle"
  <2>1. Stopped
    BY <1>2 DEF Traced
  <2>2. FailureKeeps' /\ SwitchDone' /\ PopRestores'
    BY <1>1, <2>1
    DEF Stopped, CommandsArrive, FailureKeeps, SwitchDone, PopRestores, Ended, Before,
        HeadTree, IsFile, IsDir
  <2>3. Stopped'
    BY <1>1, <2>1, <2>2 DEF Stopped, CommandsArrive, MadeOf, As
  <2> QED
    BY <1>1, <1>2, <2>3 DEF Traced
<1>3. CASE pc # "idle"
  <2>1. Running
    BY <1>3 DEF Traced
  <2>2. Begun'
    BY <1>1, <2>1 DEF Running, Begun, SecondPass, Before
  <2>3. /\ Originals => Originals'
        /\ Forward => Forward'
    BY <1>1 DEF Originals, Forward, InPlace, Aside, GivenUp, Before, Touched, PlanOf
  <2>4. StagedTrace'
    BY <1>1, <2>1, <2>3 DEF Running, StagedTrace, SecondPass
  <2>5. SwitchTrace'
    BY <1>1, <2>1 DEF Running, SwitchTrace, Switched, Goal, Before, IsFile, IsDir
  <2>6. PopTrace'
    BY <1>1, <2>1 DEF Running, PopTrace, SecondPass, MadeOf, As, Before
  <2>7. PushTrace'
    BY <1>1, <2>1 DEF Running, PushTrace, MadeOf, As
  <2> QED
    BY <1>1, <1>3, <2>2, <2>4, <2>5, <2>6, <2>7 DEF Traced, Running
<1> QED
  BY <1>2, <1>3

LEMMA NextTraced ==
  ASSUME Sound, Traced, [Next]_vars
  PROVE  Traced'
<1>1. CASE Add \/ CacheInfo \/ Clean \/ Commit \/ PruneLocks \/ StashDrop \/ Edit
  BY <1>1, SinglesTraced
<1>2. CASE Restore \/ Rm \/ Move
  BY <1>2, OthersTraced
<1>3. CASE Switch \/ SwitchCreate \/ Detach
  BY <1>3, SwitchStarts
<1>4. CASE Reset \/ ReadTree \/ RestoreFrom
  BY <1>4, OtherCheckoutsStart
<1>5. CASE StashPush \/ StashApply
  BY <1>5, PushStarts, ApplyStarts
<1>6. CASE Plan \/ Refuse \/ PlaceDone \/ UndoDone
  BY <1>6, PlanTraced, RefuseTraced, PlaceDoneTraced, UndoTraced
<1>7. CASE MoveAside \/ AsideDone \/ Place
  BY <1>7, ForwardTraced
<1>8. CASE RenameFails \/ RemovePlaced \/ MoveBack
  BY <1>8, RollbackTraced
<1>9. CASE WriteIndex \/ Finish
  BY <1>9, WriteIndexTraced, FinishTraced
<1>10. CASE IndexBusy \/ Crash \/ FileFails \/ WriteEntry
  BY <1>10, EndsTraced
<1>11. CASE FilesFirst \/ WriteFile \/ StampIndex \/ Unlink
  BY <1>11, PushLoopsTraced
<1>12. CASE FilesDone \/ UnlinkDone
  BY <1>12, FilesDoneTraced, UnlinkDoneTraced
<1>13. CASE UntrackedFirst \/ RestoreUntracked
  BY <1>13, UntrackedTraced
<1>14. CASE ApplyDone
  BY <1>14, ApplyDoneTraced
<1>15. CASE UNCHANGED vars
  BY <1>15, StaysTraced
<1> QED
  BY ONLY [Next]_vars, <1>1, <1>2, <1>3, <1>4, <1>5, <1>6, <1>7, <1>8, <1>9, <1>10, <1>11,
          <1>12, <1>13, <1>14, <1>15 DEF Next

LEMMA TracedAlways == Spec => []Traced
<1>1. Init => Traced
  BY InitTraced
<1>2. Sound /\ Traced /\ [Next]_vars => Traced'
  BY NextTraced
<1> QED
  BY <1>1, <1>2, SoundAlways, PTL DEF Spec

\* Once a command is over its result is what it says; while one runs there is
\* no result to look at.
LEMMA NoResultYet ==
  ASSUME Traced
  PROVE  FailureKeeps /\ CommandsArrive
<1>1. CASE pc = "idle"
  BY <1>1 DEF Traced, Stopped
<1>2. CASE pc # "idle"
  BY <1>2 DEF Traced, Running, Begun, FailureKeeps, CommandsArrive, SwitchDone, PopRestores, Ended
<1> QED
  BY <1>1, <1>2

\* A checkout that is refused or rolled back leaves the files, the index and
\* HEAD as it found them, and one that cannot roll back keeps each original in
\* its place or in checkout.recover.  (StagedCheckout::commit, handle_rollback)
THEOREM FailuresKeep == Spec => []FailureKeeps
<1>1. Traced => FailureKeeps
  BY NoResultYet
<1> QED
  BY <1>1, TracedAlways, PTL

\* A switch arrives at its target and leaves the other files alone, and a pop
\* right after the push gives back what was pushed.  (switch.rs, stash.rs)
THEOREM CommandsDo == Spec => []CommandsArrive
<1>1. Traced => CommandsArrive
  BY NoResultYet
<1> QED
  BY <1>1, TracedAlways, PTL
=============================================================================
