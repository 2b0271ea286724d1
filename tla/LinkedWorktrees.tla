-------------------------- MODULE LinkedWorktrees --------------------------
(***************************************************************************)
(* Linked worktrees: how a command finds its repository, and the commands   *)
(* that add, move, remove, prune, lock and repair worktrees.  A path is a   *)
(* sequence of names; a written path is absolute, or relative to the        *)
(* directory its reader stands in.  A command writes its files one by one   *)
(* and may be killed between two; the user may move or delete directories   *)
(* by hand.                                                                 *)
(***************************************************************************)
EXTENDS Integers, Sequences, SequencesExt, FiniteSetsExt, Functions

CONSTANTS
  MainDir,       \* the main worktree
  FirstDirs,     \* the directories there are at first, none of them empty, MainDir among them
  GivenPaths,    \* the paths given to commands: [abs |-> BOOLEAN, path |-> names]
  WorkBranches,  \* the names of branches, the first commit's first
  MaxTips,       \* the number of commits
  MaxCommands,   \* the number of commands run
  MaxMeddles,    \* kills, and moves and deletions by hand
  NoEntry        \* no pointer, no HEAD, no branch: not there

ASSUME MainIsThere == MainDir \in FirstDirs

VARIABLES
  dirs,          \* for each directory, the commit whose files lie in it; 0 for none
  dotGit,        \* for each directory with a .git file, the entry it names
  admins,        \* .git/worktrees: for each entry its files, see Entry
  heads,         \* for each branch there is, its commit
  mainHead,      \* HEAD of the main repository: a branch or a commit
  todo,          \* what the running command has still to write
  meddled,       \* the directories whose links a kill or a hand has disturbed, or are relative
  meddles,       \* how often that happened
  commands       \* the number of commands run

worktreeVars == <<dirs, dotGit, admins, heads, mainHead, todo, meddled, meddles, commands>>

Entry == [gitdir |-> NoEntry, head |-> NoEntry, common |-> FALSE, index |-> 0, locked |-> FALSE]
AdminRoot == MainDir \o <<".git", "worktrees">>
OnBranch(b) == [branch |-> b, at |-> 0]
OnCommit(c) == [branch |-> NoEntry, at |-> c]
Tip(h) == IF h.branch = NoEntry THEN h.at ELSE heads[h.branch]
Newest == Max({heads[b] : b \in DOMAIN heads} \cup {mainHead.at})

----------------------------------------------------------------------------
(* Paths and the way to the repository.                                     *)

Resolved(cwd, w) ==
  IF w.abs THEN w.path
  ELSE FoldLeft(LAMBDA at, name : IF name = ".." THEN Front(at) ELSE Append(at, name), cwd, w.path)
There(cwd, w) == Resolved(cwd, w) \in DOMAIN dirs
Absolute(p) == [abs |-> TRUE, path |-> p]
Canonical(cwd, w) == IF There(cwd, w) THEN Absolute(Resolved(cwd, w)) ELSE w
Beneath(d) == {e \in DOMAIN dirs : IsPrefix(d, e)}

\* The repository of a directory: the main one's gitdir is NoEntry, a linked one's its entry.
\* The pointer of an entry names the .git file of its worktree; when the directory it is in is
\* not found from here, the directory that holds the entry passes for the worktree.
OpenAt(cwd, entry) ==
  [gitdir |-> entry,
   linked |-> entry # NoEntry /\ admins[entry].common,
   workdir |-> IF entry = NoEntry THEN MainDir
               ELSE IF admins[entry].gitdir # NoEntry /\ There(cwd, admins[entry].gitdir)
                    THEN Resolved(cwd, admins[entry].gitdir)
               ELSE AdminRoot]

\* From a directory upwards, the first with a .git; a pointer to an entry that is gone fails.
Rooted(cwd) == {d \in DOMAIN dotGit \cup {MainDir} : IsPrefix(d, cwd)}
DiscoverFrom(cwd) ==
  LET root == CHOOSE d \in Rooted(cwd) : \A e \in Rooted(cwd) : Len(e) <= Len(d)
  IN  IF Rooted(cwd) = {} THEN {}
      ELSE IF root = MainDir THEN {OpenAt(cwd, NoEntry)}
      ELSE IF dotGit[root] \in DOMAIN admins THEN {OpenAt(cwd, dotGit[root])} ELSE {}

\* HEAD is read and written among the refs, which are the main repository's.
HeadRead(r) == mainHead

\* The entries whose pointer is for the given path: compared as written, and resolved when the
\* .git file is there.
EntriesFor(cwd, w) ==
  {a \in DOMAIN admins :
     LET g == admins[a].gitdir IN
     /\ g # NoEntry
     /\ \/ g = Canonical(cwd, w)
        \/ /\ There(cwd, g) /\ Resolved(cwd, g) \in DOMAIN dotGit
           /\ Absolute(Resolved(cwd, g)) = Canonical(cwd, w)}
EntriesToRemove(cwd, w) ==
  {a \in DOMAIN admins : admins[a].gitdir # NoEntry /\ Canonical(cwd, admins[a].gitdir) = Canonical(cwd, w)}

----------------------------------------------------------------------------
(* The commands.                                                            *)

Ready == todo = <<>> /\ commands < MaxCommands
Begin(writes) == todo' = writes /\ commands' = commands + 1

WriteOf(what, dir, entry, value) == [what |-> what, dir |-> dir, entry |-> entry, value |-> value]

\* What HEAD of the new worktree will be.  A branch given by name is taken even when another
\* worktree has it checked out; only HEAD's own branch is refused, when nothing was given.
HeadFor(rev, newBranch, detach) ==
  LET at == IF rev = NoEntry THEN Tip(mainHead) ELSE heads[rev]
  IN  IF detach THEN {OnCommit(at)}
      ELSE IF newBranch # NoEntry THEN {OnBranch(newBranch)}
      ELSE IF rev # NoEntry THEN {OnBranch(rev)}
      ELSE IF mainHead.branch # NoEntry THEN {} ELSE {OnCommit(at)}

Add ==
  Ready /\ \E cwd \in DOMAIN dirs, w \in GivenPaths, rev \in DOMAIN heads \cup {NoEntry},
     newBranch \in (Range(WorkBranches) \ DOMAIN heads) \cup {NoEntry}, detach \in BOOLEAN :
    LET at == IF rev = NoEntry THEN Tip(mainHead) ELSE heads[rev]
        entry == Last(w.path)
        dir == Resolved(cwd, w)
        branch == IF newBranch = NoEntry \/ detach THEN <<>> ELSE <<WriteOf("branch", dir, newBranch, at)>>
    IN  /\ \E r \in DiscoverFrom(cwd) : ~r.linked
        /\ ~There(cwd, w) /\ Len(dir) > 0
        /\ \E h \in HeadFor(rev, newBranch, detach) :
             Begin(branch \o IF entry \in DOMAIN admins THEN <<>>
                   ELSE <<WriteOf("entry", dir, entry, Entry), WriteOf("head", dir, entry, h),
                          WriteOf("common", dir, entry, TRUE), WriteOf("mkdir", dir, entry, 0),
                          WriteOf("gitdir", dir, entry, w), WriteOf("dotGit", dir, entry, entry),
                          WriteOf("checkout", dir, entry, [from |-> cwd, tree |-> at])>>)
        /\ UNCHANGED <<dirs, dotGit, admins, heads, mainHead, meddled, meddles>>

\* The new pointer is absolute, whatever the old one was.
MoveWritesDotGit(from, to, a) == <<WriteOf("rename", from, a, to), WriteOf("dotGit", to, a, a)>>
MoveWrites(from, to, a) ==
  <<WriteOf("rename", from, a, to), WriteOf("gitdir", to, a, Absolute(to)), WriteOf("dotGit", to, a, a)>>
Empty(d) == Beneath(d) = {d} /\ dirs[d] = 0 /\ d \notin DOMAIN dotGit \cup FirstDirs
Move ==
  Ready /\ \E cwd \in DOMAIN dirs, old, new \in GivenPaths :
    LET from == Resolved(cwd, old)
        to == Resolved(cwd, new)
    IN  /\ DiscoverFrom(cwd) # {} /\ There(cwd, old) /\ ~IsPrefix(from, to)
        /\ to \in DOMAIN dirs => Empty(to)
        /\ Front(to) \in DOMAIN dirs
        /\ \E a \in EntriesFor(cwd, old) : Begin(MoveWrites(from, to, a))
        /\ UNCHANGED <<dirs, dotGit, admins, heads, mainHead, meddled, meddles>>

\* Neither a lock nor edits in the worktree keep it; the force flag is not looked at.
RemoveWorktree ==
  Ready /\ \E cwd \in DOMAIN dirs, w \in GivenPaths :
    /\ \E r \in DiscoverFrom(cwd) : ~r.linked
    /\ \E a \in EntriesToRemove(cwd, w) :
         Begin((IF There(cwd, w) THEN <<WriteOf("rmdir", Resolved(cwd, w), a, 0)>> ELSE <<>>)
                \o <<WriteOf("drop", Resolved(cwd, w), a, 0)>>)
    /\ UNCHANGED <<dirs, dotGit, admins, heads, mainHead, meddled, meddles>>

\* Entries without a pointer, or whose worktree is not found from here; locks are not looked at.
Lost(cwd) == {a \in DOMAIN admins : admins[a].gitdir = NoEntry \/ ~There(cwd, admins[a].gitdir)}
Claimed(entries) == {admins[a].gitdir.path : a \in {b \in entries : admins[b].gitdir # NoEntry}}
Prune ==
  Ready /\ \E cwd \in DOMAIN dirs :
    LET kept == DOMAIN admins \ Lost(cwd) IN
    /\ \E r \in DiscoverFrom(cwd) : ~r.linked
    /\ Begin(<<>>)
    /\ admins' = [a \in kept |-> admins[a]]
    /\ meddled' = {d \in meddled : d \in DOMAIN dirs \/ d \in Claimed(kept)}
    /\ UNCHANGED <<dirs, dotGit, heads, mainHead, meddles>>

SetLock ==
  Ready /\ \E cwd \in DOMAIN dirs, w \in GivenPaths, on \in BOOLEAN :
    /\ DiscoverFrom(cwd) # {}
    /\ \E a \in EntriesFor(cwd, w) : admins' = [admins EXCEPT ![a].locked = on]
    /\ Begin(<<>>)
    /\ UNCHANGED <<dirs, dotGit, heads, mainHead, meddled, meddles>>

\* Every entry's worktree is given a .git file that names the entry, where the pointer finds it.
RepairableFrom(cwd) == {a \in DOMAIN admins : admins[a].gitdir # NoEntry /\ There(cwd, admins[a].gitdir)}
Repair ==
  Ready /\ \E cwd \in DOMAIN dirs :
    LET dirOf(a) == Resolved(cwd, admins[a].gitdir)
        found == {dirOf(a) : a \in RepairableFrom(cwd)}
    IN  /\ DiscoverFrom(cwd) # {}
        /\ \E named \in [found -> DOMAIN admins] :
             /\ \A d \in found : named[d] \in RepairableFrom(cwd) /\ dirOf(named[d]) = d
             /\ dotGit' = named @@ dotGit
        /\ Begin(<<>>)
        /\ UNCHANGED <<dirs, admins, heads, mainHead, meddled, meddles>>

----------------------------------------------------------------------------
(* What a command writes, one file or directory at a time.                  *)

Moved(from, to, d) == to \o SubSeq(d, Len(from) + 1, Len(d))
Renamed(f, from, to) ==
  LET moved == {d \in DOMAIN f : IsPrefix(from, d)}
      back(d) == IF IsPrefix(to, d) /\ Moved(to, from, d) \in moved THEN Moved(to, from, d) ELSE d
  IN  [d \in (DOMAIN f \ moved) \cup {Moved(from, to, e) : e \in moved} |-> f[back(d)]]
Without(f, S) == [x \in DOMAIN f \ S |-> f[x]]
WithParents(d) == {SubSeq(d, 1, k) : k \in 1..Len(d)}

Effect(s) ==
  /\ dirs' = CASE s.what = "mkdir" -> dirs @@ [d \in WithParents(s.dir) |-> 0]
               [] s.what = "checkout" -> (OpenAt(s.value.from, s.entry).workdir :> s.value.tree) @@ dirs
               [] s.what = "rename" -> Renamed(dirs, s.dir, s.value)
               [] s.what = "rmdir" -> Without(dirs, Beneath(s.dir))
               [] OTHER -> dirs
  /\ dotGit' = CASE s.what = "dotGit" -> (s.dir :> s.value) @@ dotGit
                 [] s.what = "rename" -> Renamed(dotGit, s.dir, s.value)
                 [] s.what = "rmdir" -> Without(dotGit, Beneath(s.dir))
                 [] OTHER -> dotGit
  /\ admins' = CASE s.what = "entry" -> (s.entry :> s.value) @@ admins
                 [] s.what \in {"head", "common", "gitdir"} -> [admins EXCEPT ![s.entry][s.what] = s.value]
                 [] s.what = "checkout" -> [admins EXCEPT ![s.entry].index = s.value.tree]
                 [] s.what = "drop" -> Without(admins, {s.entry})
                 [] OTHER -> admins
  /\ heads' = IF s.what = "branch" THEN (s.entry :> s.value) @@ heads ELSE heads

\* A pointer written relative holds only for commands in the directory add was run in; from
\* another it may mean a directory of somebody else.
Standings == DOMAIN dirs \cup {w.path : w \in {v \in GivenPaths : v.abs}}
Astray(s) ==
  IF s.what = "gitdir" /\ ~s.value.abs THEN {Resolved(cwd, s.value) : cwd \in Standings} ELSE {}
WriteNext ==
  /\ todo # <<>> /\ Effect(Head(todo)) /\ todo' = Tail(todo)
  /\ LET s == Head(todo) IN
     meddled' = meddled \cup Astray(s)
       \cup {Moved(s.dir, s.value, d) : d \in {e \in meddled : s.what = "rename" /\ IsPrefix(s.dir, e)}}
  /\ UNCHANGED <<mainHead, meddles, commands>>

----------------------------------------------------------------------------
(* Other commands in a worktree, kills, and the user's hands.               *)

\* The branch is the one HEAD names among the shared refs, and a detached HEAD is refused; index
\* and files are the worktree's, changed by the user before, so that there is something to commit.
CommitIn ==
  Ready /\ \E cwd \in DOMAIN dirs : \E r \in DiscoverFrom(cwd) :
    /\ Newest < MaxTips /\ (r.gitdir = NoEntry \/ r.linked) /\ HeadRead(r).branch # NoEntry
    /\ Begin(<<>>)
    /\ heads' = [heads EXCEPT ![HeadRead(r).branch] = Newest + 1]
    /\ admins' = IF r.gitdir = NoEntry THEN admins ELSE [admins EXCEPT ![r.gitdir].index = Newest + 1]
    /\ dirs' = (r.workdir :> Newest + 1) @@ dirs
    /\ UNCHANGED <<dotGit, mainHead, meddled, meddles>>

SwitchIn ==
  Ready /\ \E cwd \in DOMAIN dirs, b \in DOMAIN heads, detach \in BOOLEAN : \E r \in DiscoverFrom(cwd) :
    /\ r.gitdir = NoEntry \/ r.linked
    /\ Begin(<<>>)
    /\ mainHead' = IF detach THEN OnCommit(heads[b]) ELSE OnBranch(b)
    /\ admins' = IF r.gitdir = NoEntry THEN admins ELSE [admins EXCEPT ![r.gitdir].index = heads[b]]
    /\ dirs' = (r.workdir :> heads[b]) @@ dirs
    /\ UNCHANGED <<dotGit, heads, meddled, meddles>>

\* The directories a command was at, and those that entry is for.
Touched(s) ==
  {s.dir} \cup {d \in {s.value} : s.what = "rename"} \cup Claimed({s.entry} \cap DOMAIN admins)
Meddle(S) == meddles' = meddles + 1 /\ meddled' = meddled \cup S
Kill ==
  /\ meddles < MaxMeddles /\ todo # <<>> /\ Meddle(Touched(Head(todo))) /\ todo' = <<>>
  /\ UNCHANGED <<dirs, dotGit, admins, heads, mainHead, commands>>
HandDelete ==
  meddles < MaxMeddles /\ todo = <<>> /\ \E d \in DOMAIN dirs :
    /\ ~IsPrefix(d, AdminRoot)
    /\ Meddle(Beneath(d)) /\ dirs' = Without(dirs, Beneath(d)) /\ dotGit' = Without(dotGit, Beneath(d))
    /\ UNCHANGED <<admins, heads, mainHead, todo, commands>>
HandMove ==
  meddles < MaxMeddles /\ todo = <<>> /\ \E d \in DOMAIN dirs, w \in GivenPaths :
    /\ ~IsPrefix(d, AdminRoot)
    /\ w.abs /\ w.path \notin DOMAIN dirs /\ Front(w.path) \in DOMAIN dirs /\ ~IsPrefix(d, w.path)
    /\ Meddle(Beneath(d) \cup {Moved(d, w.path, e) : e \in Beneath(d)})
    /\ dirs' = Renamed(dirs, d, w.path) /\ dotGit' = Renamed(dotGit, d, w.path)
    /\ UNCHANGED <<admins, heads, mainHead, todo, commands>>

WorktreeInit ==
  /\ dirs = [d \in FirstDirs |-> IF d = MainDir THEN 1 ELSE 0]
  /\ dotGit = <<>> /\ admins = <<>> /\ todo = <<>>
  /\ heads = Head(WorkBranches) :> 1 /\ mainHead = OnBranch(Head(WorkBranches))
  /\ meddled = {} /\ meddles = 0 /\ commands = 0

WorktreeNext ==
  \/ Add \/ Move \/ RemoveWorktree \/ Prune \/ SetLock \/ Repair \/ WriteNext
  \/ CommitIn \/ SwitchIn \/ Kill \/ HandDelete \/ HandMove

----------------------------------------------------------------------------
(* What holds.                                                              *)

\* list shows a worktree for each entry with a pointer, with the HEAD of its own.
ListedWorktrees ==
  {[path |-> admins[a].gitdir.path, head |-> admins[a].head] :
     a \in {b \in DOMAIN admins : admins[b].gitdir # NoEntry}}

\* A worktree whose links neither a kill nor a hand has disturbed stays whole, whatever is added,
\* moved, removed, pruned, locked or repaired around it: its .git file names an entry, from every
\* directory in it a command finds that entry and the worktree itself, its index is the one of the
\* files in it, and list shows it.
WorktreesWhole ==
  todo = <<>> => \A d \in DOMAIN dotGit \ meddled :
    /\ dotGit[d] \in DOMAIN admins
    /\ LET a == admins[dotGit[d]] IN
         /\ \A cwd \in Beneath(d) : (\A e \in Rooted(cwd) : Len(e) <= Len(d)) =>
              DiscoverFrom(cwd) = {[gitdir |-> dotGit[d], linked |-> TRUE, workdir |-> d]}
         /\ a.index = dirs[d] /\ a.index # 0
         /\ [path |-> d, head |-> a.head] \in ListedWorktrees

\* In a linked worktree HEAD is the one of its own (repo.rs:248, "HEAD is per-worktree").
OwnHead ==
  todo = <<>> => \A d \in DOMAIN dotGit \ meddled : \A r \in DiscoverFrom(d) :
    HeadRead(r) = admins[r.gitdir].head
=============================================================================
