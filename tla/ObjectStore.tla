---------------------------- MODULE ObjectStore ----------------------------
(***************************************************************************)
(* The object store (src/odb, src/pack) under the commands that fill it    *)
(* (add, commit, reset) and those that clean it (repack and gc, prune,     *)
(* prune-packed), run by processes that each work through a script of      *)
(* commands and may die at any step.  One repository with one tracked path *)
(* and one branch: an object is a blob, the tree of one blob, or a commit. *)
(* Commits of one tree on one parent are one object, as when they are made *)
(* in one second.  Packs are built by one process at a time, since all of  *)
(* them are written to one .tmp-pack.pack (pack/build.rs:100).             *)
(***************************************************************************)
EXTENDS Naturals, Sequences, FiniteSets, SequencesExt

CONSTANTS
  Proc,
  Blob,
  Initial,    \* the blob of the first commit
  None,
  Scripts     \* functions from Proc to sequences of commands

\* A commit is told by the blobs of its history, its own last.
Tree(b)      == [kind |-> "tree", blob |-> b]
Commit(line) == [kind |-> "commit", line |-> line]
Root         == Commit(<<Initial>>)
On(c, b)     == Commit(Append(c.line, b))
TreeOf(c)    == Tree(Last(c.line))
HasParent(c) == Len(c.line) > 1
Ancestor(c, k) == Commit([i \in 1..k |-> c.line[i]])    \* the k-th from the root on
Parent(c)    == Ancestor(c, Len(c.line) - 1)

AddCmd(b)    == [kind |-> "add", blob |-> b]
CommitCmd    == [kind |-> "commit"]
ResetCmd     == [kind |-> "reset"]            \* reset --mixed HEAD^
GcCmd        == [kind |-> "gc"]               \* gc, repack -a -d
PruneCmd     == [kind |-> "prune"]
PrunePackCmd == [kind |-> "prune-packed"]

Commits  == [kind : {"commit"}, line : Seq(Blob) \ {<<>>}]
Trees    == [kind : {"tree"}, blob : Blob]
Object   == Blob \cup Trees \cup Commits
Commands == [kind : {"add"}, blob : Blob]
              \cup [kind : {"commit", "reset", "gc", "prune", "prune-packed"}]

ASSUME ObjectStoreAssumption ==
  /\ Initial \in Blob
  /\ \A b \in Blob \cup {None} : b \notin Commits \cup Trees
  /\ None \notin Blob
  /\ \A s \in Scripts :
       /\ s \in [Proc -> Seq(Commands)]
       /\ \A p, q \in Proc : GcCmd \in ToSet(s[p]) \cap ToSet(s[q]) => p = q

VARIABLES
  tip,      \* the branch: a commit
  index,    \* the blob the index lists
  loose,    \* objects whose loose file exists
  torn,     \* those among them whose file is incomplete
  tmp,      \* <oid>.tmp of each object being written: object -> "torn" or "whole"
  packs,    \* packs with a .pack file; a pack is the set of its objects
  idxs,     \* packs with an .idx file
  pruned,   \* whether prune has run since the index was written
  script,   \* Proc -> commands still to run, the current one first
  pc,
  old,      \* Proc -> the tip it read
  blob,     \* Proc -> the blob it adds, or read in the index
  towrite,  \* Proc -> the objects it has yet to write
  fd,       \* Proc -> where the temporary file it has open is now
  known,    \* Proc -> the packs it found when it opened the repository
  marked,   \* Proc -> roots, then objects found reachable; prune-packed: packed
  victims   \* Proc -> files it has yet to delete

user  == <<tip, index, pruned>>
store == <<loose, torn, tmp>>
packDir == <<packs, idxs>>
maint == <<known, marked, victims>>
writing  == <<old, blob, towrite, fd>>
vars  == <<user, store, packDir, script, pc, writing, maint>>

\* What a commit leads to: the commits before it, their trees and blobs.
History(c) ==
  UNION {{Ancestor(c, k), Tree(c.line[k]), c.line[k]} : k \in DOMAIN c.line}

\* What drain_walk has seen at its end, from commits and blobs, if all could be read.
Reach(roots) == (roots \cap Blob) \cup UNION {History(c) : c \in roots \ Blob}

\* What a walk from a commit sees that goes no further where it cannot read.
Seen(c, readable) ==
  LET come == {k \in DOMAIN c.line : \A j \in k+1..Len(c.line) : Ancestor(c, j) \in readable}
      read == {k \in come : Ancestor(c, k) \in readable}
  IN  {Ancestor(c, k) : k \in come} \cup {Tree(c.line[k]) : k \in read}
        \cup {c.line[k] : k \in {j \in read : Tree(c.line[j]) \in readable}}

\* What a process can read: whole loose files now, and the packs it mapped when
\* it opened the repository, deleted since or not.
Readable(p) == (loose \ torn) \cup UNION known[p]

\* What a process that opens the repository now can read.
Available == (loose \ torn) \cup UNION (packs \cap idxs)

Init ==
  /\ tip = Root /\ index = Initial
  /\ loose = {Root, Tree(Initial), Initial} /\ torn = {} /\ tmp = [o \in {} |-> ""]
  /\ packs = {} /\ idxs = {} /\ pruned = FALSE
  /\ script \in Scripts
  /\ pc = [p \in Proc |-> "idle"]
  /\ old = [p \in Proc |-> None] /\ blob = [p \in Proc |-> None]
  /\ towrite = [p \in Proc |-> <<>>] /\ fd = [p \in Proc |-> "none"]
  /\ known = [p \in Proc |-> {}] /\ marked = [p \in Proc |-> {}]
  /\ victims = [p \in Proc |-> {}]

At(p, phase)   == pc[p] = phase
GoTo(p, phase) == pc' = [pc EXCEPT ![p] = phase]
Set(f, x, v)   == [f EXCEPT ![x] = v]

StartsWith(p, kind) == At(p, "idle") /\ script[p] # <<>> /\ Head(script[p]).kind = kind

\* The command ends, and what it held in memory is forgotten.
End(p) ==
  /\ GoTo(p, "idle")
  /\ script' = Set(script, p, Tail(script[p]))
  /\ old' = Set(old, p, None) /\ blob' = Set(blob, p, None)
  /\ towrite' = Set(towrite, p, <<>>) /\ fd' = Set(fd, p, "none")
  /\ known' = Set(known, p, {}) /\ marked' = Set(marked, p, {})
  /\ victims' = Set(victims, p, {})

\* remove_file of a loose object that may be gone; a writer may have it open.
Unlink(o) ==
  /\ loose' = loose \ {o} /\ torn' = torn \ {o}
  /\ fd' = [q \in Proc |-> IF fd[q] = "loose" /\ Head(towrite[q]) = o THEN "gone" ELSE fd[q]]

-----------------------------------------------------------------------------
(* Plausible bugs.  Not part of the specification: actions as a slip in    *)
(* the code would have them, kept to show that the properties tell the two *)
(* apart.                                                                  *)

\* Old packs are listed, and deleted, before the new one has its index.
RenamePackThenList(p) ==
  /\ At(p, "pack")
  /\ packs' = packs \cup {marked[p]}
  /\ GoTo(p, "list")
  /\ UNCHANGED <<user, store, idxs, script, writing, maint>>

-----------------------------------------------------------------------------
(* LooseStore::write, for the objects in towrite one after the other.      *)

\* The object is there already if its path exists.
SkipWrite(p) ==
  /\ At(p, "write") /\ towrite[p] # <<>> /\ Head(towrite[p]) \in loose
  /\ towrite' = Set(towrite, p, Tail(towrite[p]))
  /\ UNCHANGED <<user, store, packDir, script, pc, old, blob, fd, maint>>

\* fs::write opens and truncates the temporary file, whoever made it.
OpenTmp(p) ==
  /\ At(p, "write") /\ towrite[p] # <<>> /\ Head(towrite[p]) \notin loose
  /\ tmp' = [o \in DOMAIN tmp \cup {Head(towrite[p])} |->
               IF o = Head(towrite[p]) THEN "torn" ELSE tmp[o]]
  /\ fd' = Set(fd, p, "tmp")
  /\ GoTo(p, "fill")
  /\ UNCHANGED <<user, loose, torn, packDir, script, old, blob, towrite, maint>>

FillTmp(p) ==
  /\ At(p, "fill")
  /\ LET o == Head(towrite[p]) IN
       /\ tmp'  = IF fd[p] = "tmp" THEN Set(tmp, o, "whole") ELSE tmp
       /\ torn' = IF fd[p] = "loose" THEN torn \ {o} ELSE torn
  /\ GoTo(p, "rename")
  /\ UNCHANGED <<user, loose, packDir, script, writing, maint>>

RenameTmp(p) ==
  /\ At(p, "rename")
  /\ LET o == Head(towrite[p]) IN
       IF o \in DOMAIN tmp
         THEN /\ loose' = loose \cup {o}
              /\ torn' = IF tmp[o] = "torn" THEN torn \cup {o} ELSE torn \ {o}
              /\ tmp' = [x \in DOMAIN tmp \ {o} |-> tmp[x]]
              /\ fd' = [q \in Proc |->
                          IF q = p THEN "none"
                          ELSE IF fd[q] = "none" \/ Head(towrite[q]) # o THEN fd[q]
                          ELSE IF fd[q] = "tmp" THEN "loose" ELSE "gone"]
              /\ towrite' = Set(towrite, p, Tail(towrite[p]))
              /\ GoTo(p, "write")
              /\ UNCHANGED <<script, old, blob, maint>>
         ELSE End(p) /\ UNCHANGED store
  /\ UNCHANGED <<user, packDir>>

-----------------------------------------------------------------------------
(* add, commit, reset.                                                     *)

StartAdd(p) ==
  /\ StartsWith(p, "add")
  /\ blob' = Set(blob, p, Head(script[p]).blob)
  /\ towrite' = Set(towrite, p, <<Head(script[p]).blob>>)
  /\ GoTo(p, "write")
  /\ UNCHANGED <<user, store, packDir, script, old, fd, maint>>

\* Index::write, after the blob is in the store.
FinishAdd(p) ==
  /\ At(p, "write") /\ towrite[p] = <<>> /\ Head(script[p]).kind = "add"
  /\ index' = blob[p] /\ pruned' = FALSE
  /\ End(p)
  /\ UNCHANGED <<tip, store, packDir>>

\* commit reads the branch, then the index; the tree is written before it is
\* compared and before the editor and the hooks run, the commit after them.
StartCommit(p) ==
  /\ StartsWith(p, "commit")
  /\ old' = Set(old, p, tip)
  /\ GoTo(p, "index")
  /\ UNCHANGED <<user, store, packDir, script, blob, towrite, fd, maint>>

Rewrites(p, b) == Tree(b) # TreeOf(old[p])

CommitIndex(p) ==
  /\ At(p, "index")
  /\ blob' = Set(blob, p, index)
  /\ towrite' = Set(towrite, p, <<Tree(index)>> \o IF Rewrites(p, index)
                                  THEN <<On(old[p], index)>> ELSE <<>>)
  /\ GoTo(p, "write")
  /\ UNCHANGED <<user, store, packDir, script, old, fd, maint>>

\* The branch moves from the tip that was read to the new commit, or not at all.
FinishCommit(p) ==
  /\ At(p, "write") /\ towrite[p] = <<>> /\ Head(script[p]).kind = "commit"
  /\ tip' = IF tip = old[p] /\ Rewrites(p, blob[p]) THEN On(old[p], blob[p]) ELSE tip
  /\ End(p)
  /\ UNCHANGED <<index, pruned, store, packDir>>

\* reset --mixed HEAD^ reads both commits, writes the index, then moves the branch.
StartReset(p) ==
  /\ StartsWith(p, "reset")
  /\ IF ~HasParent(tip)
       THEN End(p)
       ELSE /\ old' = Set(old, p, tip)
            /\ GoTo(p, "resetindex")
            /\ UNCHANGED <<script, blob, towrite, fd, maint>>
  /\ UNCHANGED <<user, store, packDir>>

ResetIndex(p) ==
  /\ At(p, "resetindex")
  /\ index' = TreeOf(Parent(old[p])).blob /\ pruned' = FALSE
  /\ GoTo(p, "reset")
  /\ UNCHANGED <<tip, store, packDir, script, writing, maint>>

FinishReset(p) ==
  /\ At(p, "reset")
  /\ tip' = IF tip = old[p] THEN Parent(old[p]) ELSE tip
  /\ End(p)
  /\ UNCHANGED <<index, pruned, store, packDir>>

-----------------------------------------------------------------------------
(* gc: everything reachable goes into one pack, the rest is tidied up.     *)

StartGc(p) ==
  /\ StartsWith(p, "gc")
  /\ known' = Set(known, p, packs \cap idxs)
  /\ GoTo(p, "refs")
  /\ UNCHANGED <<user, store, packDir, script, writing, marked, victims>>

\* ReachableSet::mark_all: first the refs, then the index, then the walk.
MarkRefs(p) ==
  /\ At(p, "refs")
  /\ marked' = Set(marked, p, {tip})
  /\ GoTo(p, "stage")
  /\ UNCHANGED <<user, store, packDir, script, writing, known, victims>>

MarkIndex(p) ==
  /\ At(p, "stage")
  /\ marked' = Set(marked, p, marked[p] \cup {index})
  /\ GoTo(p, "walk")
  /\ UNCHANGED <<user, store, packDir, script, writing, known, victims>>

\* An object that cannot be read ends gc.  write_pack reads them all again; the
\* two reads are one here.
Walk(p) ==
  /\ At(p, "walk")
  /\ LET all == Reach(marked[p]) IN
       IF all \subseteq Readable(p)
         THEN /\ marked' = Set(marked, p, all)
              /\ GoTo(p, "pack")
              /\ UNCHANGED <<script, writing, known, victims>>
         ELSE End(p)
  /\ UNCHANGED <<user, store, packDir>>

\* The pack is renamed into place before its index is written.
RenamePack(p) ==
  /\ At(p, "pack")
  /\ packs' = packs \cup {marked[p]}
  /\ GoTo(p, "idx")
  /\ UNCHANGED <<user, store, idxs, script, writing, maint>>

RenameIdx(p) ==
  /\ At(p, "idx")
  /\ idxs' = idxs \cup {marked[p]}
  /\ GoTo(p, "list")
  /\ UNCHANGED <<user, store, packs, script, writing, maint>>

\* prune_redundant: every other .pack and .idx in the directory ...
ListPacks(p) ==
  /\ At(p, "list")
  /\ victims' = Set(victims, p, ({"pack"} \X packs \cup {"idx"} \X idxs)
                                 \ ({"pack", "idx"} \X {marked[p]}))
  /\ GoTo(p, "drop")
  /\ UNCHANGED <<user, store, packDir, script, writing, known, marked>>

DropPackFile(p) ==
  /\ At(p, "drop")
  /\ \E v \in victims[p] :
       /\ packs' = IF v[1] = "pack" THEN packs \ {v[2]} ELSE packs
       /\ idxs'  = IF v[1] = "idx" THEN idxs \ {v[2]} ELSE idxs
       /\ victims' = Set(victims, p, victims[p] \ {v})
  /\ UNCHANGED <<user, store, script, pc, writing, known, marked>>

\* ... then the loose file of every object in the new pack, one at a time.
PacksDropped(p) ==
  /\ At(p, "drop") /\ victims[p] = {}
  /\ victims' = Set(victims, p, marked[p])
  /\ GoTo(p, "clean")
  /\ UNCHANGED <<user, store, packDir, script, writing, known, marked>>

DropLoose(p) ==
  /\ At(p, "clean") /\ Head(script[p]).kind = "gc"
  /\ \E o \in victims[p] :
       /\ Unlink(o)
       /\ victims' = Set(victims, p, victims[p] \ {o})
  /\ UNCHANGED <<user, tmp, packDir, script, pc, old, blob, towrite, known, marked>>

-----------------------------------------------------------------------------
(* prune and prune-packed: no lock, no grace period.                       *)

\* prune marks from the refs alone and walks past what it cannot read.
StartPrune(p) ==
  /\ StartsWith(p, "prune")
  /\ LET reach == Seen(tip, Available) IN
       /\ marked' = Set(marked, p, reach)
       /\ victims' = Set(victims, p, loose \ reach)
  /\ pruned' = TRUE
  /\ GoTo(p, "clean")
  /\ UNCHANGED <<tip, index, store, packDir, script, writing, known>>

\* prune-packed believes every .idx file, with or without its pack.
StartPrunePacked(p) ==
  /\ StartsWith(p, "prune-packed")
  /\ marked' = Set(marked, p, UNION idxs)
  /\ victims' = Set(victims, p, UNION idxs)
  /\ GoTo(p, "clean")
  /\ UNCHANGED <<user, store, packDir, script, writing, known>>

Condemned(p, o) == IF Head(script[p]).kind = "prune" THEN o \notin marked[p] ELSE o \in marked[p]

\* Every condemned file as the directories are listed, one made meanwhile too.
DeleteLoose(p) ==
  /\ At(p, "clean") /\ Head(script[p]).kind # "gc"
  /\ \E o \in loose :
       /\ Condemned(p, o)
       /\ Unlink(o)
       /\ victims' = Set(victims, p, victims[p] \ {o})
  /\ UNCHANGED <<user, tmp, packDir, script, pc, old, blob, towrite, known, marked>>

FinishClean(p) ==
  /\ At(p, "clean")
  /\ IF Head(script[p]).kind = "gc" THEN victims[p] = {} ELSE victims[p] \cap loose = {}
  /\ End(p)
  /\ UNCHANGED <<user, store, packDir>>

\* SIGKILL, SIGINT or power loss at any step; the next command comes after it.
Crash(p) ==
  /\ ~At(p, "idle")
  /\ End(p)
  /\ UNCHANGED <<user, store, packDir>>

-----------------------------------------------------------------------------
Write(p) == SkipWrite(p) \/ OpenTmp(p) \/ FillTmp(p) \/ RenameTmp(p)

User(p) ==
  \/ StartAdd(p)     \/ FinishAdd(p)  \/ StartCommit(p) \/ CommitIndex(p)
  \/ FinishCommit(p) \/ StartReset(p) \/ ResetIndex(p) \/ FinishReset(p)

Gc(p) ==
  \/ StartGc(p)   \/ MarkRefs(p)  \/ MarkIndex(p)    \/ Walk(p)         \/ RenamePack(p)
  \/ RenameIdx(p) \/ ListPacks(p) \/ DropPackFile(p) \/ PacksDropped(p)
  \/ DropLoose(p)

Cleanup(p) == StartPrune(p) \/ StartPrunePacked(p) \/ DeleteLoose(p) \/ FinishClean(p)

Next == \E p \in Proc : Write(p) \/ User(p) \/ Gc(p) \/ Cleanup(p) \/ Crash(p)

Spec == Init /\ [][Next]_vars

-----------------------------------------------------------------------------

\* Whatever the branch leads to, and the index unless prune, which looks at the refs
\* only, has run since it was written, can be read by the next command, at every moment and
\* after any crash (reachable.rs:3-5: what is reachable is live;
\* repack.rs:129-130: the repository stays correct).
ReachableAvailable ==
  Reach(IF pruned THEN {tip} ELSE {tip, index}) \subseteq Available

=============================================================================
