------------------------------- MODULE Remote -------------------------------
(***************************************************************************)
(* Push, fetch and clone (src/push, src/clone, src/transport) between the  *)
(* repositories of several clients and one they share, the hub.  The hub   *)
(* is reached by path, where rustygit reads and writes its files, or over  *)
(* the network, where a git server answers; a client runs one command at a *)
(* time.  A commit stands for itself, its tree and its blobs.  The server  *)
(* is outside this code: it takes a pack whole, and a ref's new value if   *)
(* the ref has the old one and it can reach everything the new one needs.  *)
(***************************************************************************)
EXTENDS Naturals, Sequences, FiniteSets, SequencesExt

CONSTANTS
  Client,
  Hub,
  Branch,     \* short names; the hub's HEAD is a symbolic ref to Main
  Tag,
  Main,
  Commit,
  Parents,    \* Commit -> the parents of each commit
  Author,     \* Commit -> the client who makes it, None for the first one
  None,
  Dead,       \* who holds a lock file that outlived its process
  Pushes,     \* the sequences of refspecs a push is given
  Commands,   \* which commands are given, and over what
  MaxWork,    \* how many commands that work on one repository
  MaxRemote,  \* how many pushes, fetches and clones
  MaxFaults   \* crashes, lost requests and answers, rejections

Repo == Client \cup {Hub}
Name == Branch \cup Tag

ASSUME RemoteAssumption ==
  /\ Main \in Branch /\ Branch \cap Tag = {} /\ Hub \notin Client
  /\ {None, Dead} \cap (Client \cup Commit \cup Name) = {} /\ None # Dead
  /\ Parents \in [Commit -> SUBSET Commit] /\ Author \in [Commit -> Client \cup {None}]
  /\ \E x \in Commit : Author[x] = None
  /\ \A x \in Commit : Author[x] = None => Parents[x] = {}
  /\ \A specs \in Pushes :
       /\ specs \in Seq([src : Name \cup {None}, dst : Name, force : BOOLEAN])
       /\ \A i, j \in DOMAIN specs : specs[i].dst = specs[j].dst => i = j
  /\ {MaxWork, MaxRemote, MaxFaults} \subseteq Nat

VARIABLES
  state,     \* Client -> "none", "partial" (a clone that is not done) or "ready"
  refs,      \* Repo -> Name -> commit
  tracking,  \* Client -> Branch -> commit: refs/remotes/origin
  loose,     \* Repo -> commits in loose files
  packed,    \* Repo -> commits in packs
  lock,      \* Name -> who holds the hub's lock file of that ref
  tmp,       \* "pack", "idx" -> who has the hub's .tmp-pack file of that kind open
  sweep,     \* the hub's gc: the step it is at, and the commits it goes on with
  pc,        \* Client -> the step its command is at
  cmd,       \* Client -> the refspecs of its push, and how the hub is reached
  seen,      \* Client -> the hub's refs as the command read them
  plan,      \* Client -> what the push decided, a sequence of ref updates
  pack,      \* Client -> commits on their way, None for no pack at all
             \*   (to a clone by path: those whose files it cannot miss)
  reply,     \* Client -> names the server refused, None before it has answered
  outcome,   \* Client -> how its last command ended
  ghost      \* what the properties remember: see Init

built  == <<tmp, sweep>>
repos  == <<state, refs, tracking, loose, packed, lock, built>>
moving == <<pc, cmd, seen, plan, pack, reply, outcome>>
vars   == <<repos, moving, ghost>>

NoRefs == [n \in Name |-> None]
NoHeads == [b \in Branch |-> None]
NoCmd  == [specs |-> <<>>, over |-> "none"]

Obj(r) == loose[r] \cup packed[r]

\* What a walk from these commits meets, through those that can be read: the
\* least set that has them and the parents of what it can read.
Closed(objs, readable) == \A x \in objs \cap readable : Parents[x] \subseteq objs

Walk[starts \in SUBSET Commit] ==
  [readable \in SUBSET Commit |->
     {x \in Commit : \A objs \in SUBSET Commit :
                      starts \subseteq objs /\ Closed(objs, readable) => x \in objs}]

Reach(starts, readable) == Walk[starts \ {None}][readable]

\* Whether every commit has its parents.
WholeHistory(objs) == \A x \in objs : Parents[x] \subseteq objs

At(c, step)   == pc[c] = step
GoTo(c, step) == pc' = [pc EXCEPT ![c] = step]
Set(f, x, v)  == [f EXCEPT ![x] = v]

Spend(kind) == ghost' = [ghost EXCEPT ![kind] = @ + 1]
May(kind)   == ghost[kind] < [work |-> MaxWork, remote |-> MaxRemote, faults |-> MaxFaults][kind]

\* The command ends, and what it held in memory is forgotten.
End(c, how) ==
  /\ GoTo(c, "idle") /\ outcome' = Set(outcome, c, how)
  /\ cmd' = Set(cmd, c, NoCmd) /\ seen' = Set(seen, c, NoRefs)
  /\ plan' = Set(plan, c, <<>>) /\ pack' = Set(pack, c, None) /\ reply' = Set(reply, c, None)

\* Who is in the middle of a clone by path; a push by path that has not ended.
Copying == {c \in Client : pc[c] \in {"copying", "headed"}}
Path    == {"planned", "packing", "indexing", "written", "locked"}

\* The hub's refs take these values; the properties remember each, and who was
\* copying the hub or cleaning it up meanwhile.
SetHub(new, faults) ==
  /\ refs' = Set(refs, Hub, new)
  /\ ghost' = [ghost EXCEPT !.held = [n \in Name |-> @[n] \cup {new[n]}],
                            !.excused = @ \cup Copying \cup IF sweep.at = "idle" THEN {} ELSE {Hub},
                            !.faults = @ + faults]

\* The refs after these updates, of different refs.
Applied(old, plans) ==
  [n \in Name |-> IF \E p \in plans : p.dst = n THEN (CHOOSE p \in plans : p.dst = n).new
                  ELSE old[n]]

-----------------------------------------------------------------------------
(* Building a pack (write_pack_from_objects).  Whoever builds one in the   *)
(* hub does so under the same two names, first .tmp-pack.pack and then     *)
(* .tmp-pack.idx, and renames each into place.                             *)

Kind    == {"pack", "idx"}
Builder == Client \cup {Hub}   \* Hub stands for its gc

\* File::create: a new file, or the one others are still writing, cut to nothing
\* and now written by all of them.
Open(files, kind, w) ==
  Set(files, kind, IF files[kind] \subseteq {Dead} THEN {w} ELSE files[kind] \cup {w})

\* rename takes what the name stands for then, and fails if it stands for nothing.
Gone(kind) == tmp[kind] = {}
Renamed(kind) == Set(tmp, kind, {})

\* Whether what is renamed is what its builder wrote: surely if nobody else had
\* the file open.
Whole(kind, w) == IF tmp[kind] = {w} THEN {TRUE} ELSE BOOLEAN

\* The builder is killed, and the others go on.
Abandoned(w) ==
  [kind \in Kind |-> IF w \in tmp[kind] THEN (tmp[kind] \ {w}) \cup {Dead} ELSE tmp[kind]]

\* What the packs of the hub hold when a torn file is put in place: it may take the
\* place of a good one of its name, whose commits are then lost.
Torn(commits) == {packed[Hub], packed[Hub] \ commits}

\* The properties remember a torn file, and who was copying it.
Tear(whole) ==
  ghost' = [ghost EXCEPT !.excused = @ \cup IF whole THEN {} ELSE {Hub} \cup Copying]

\* The .pack goes into place, where nobody reads it before its .idx is there, and
\* the .idx is opened.
PutPack(w, commits, whole) ==
  /\ tmp' = Open(Renamed("pack"), "idx", w)
  /\ \E now \in (IF whole THEN {packed[Hub]} ELSE Torn(commits)) : packed' = Set(packed, Hub, now)
  /\ Tear(whole)

-----------------------------------------------------------------------------
(* push: the decision about one refspec (plan_refspec, the same for both). *)

IsAncestor(c, old, new) == old \in Reach({new}, Obj(c))

RefPlan(c, spec, theirs) ==
  LET old == theirs[spec.dst]
      new == IF spec.src = None THEN None ELSE refs[c][spec.src]
  IN  [dst |-> spec.dst, old |-> old, new |-> new,
       action |-> IF spec.src = None THEN "delete"
                  ELSE IF old = None THEN "create"
                  ELSE IF old = new THEN "up to date"
                  ELSE IF IsAncestor(c, old, new) THEN "update" ELSE "force"]

\* DeleteMissing, SourceMissing, NonFastForward: the whole push stops.
Refused(spec, p) ==
  \/ p.action = "delete" /\ p.old = None
  \/ p.action # "delete" /\ p.new = None
  \/ p.action = "force" /\ ~spec.force

News(plans) == {p.new : p \in {q \in ToSet(plans) : q.action \in {"create", "update", "force"}}}
Olds(plans) == {p.old : p \in {q \in ToSet(plans) : q.action \in {"update", "force"}}}
Moves(plans) == {p \in ToSet(plans) : p.action # "up to date"}

\* From the first update on that moves something.
Rest(plans) ==
  LET moves == {i \in DOMAIN plans : plans[i].action # "up to date"}
  IN  IF moves = {} THEN <<>> ELSE SubSeq(plans, Min(moves), Len(plans))

-----------------------------------------------------------------------------
(* Plausible bugs.  Not part of the specification: definitions as a slip   *)
(* in the code would have them, kept to show that the properties tell the  *)
(* two apart.                                                              *)

\* Only the branches' tips are asked for, though tags are written too.
WantsHeads(c) == {seen[c][b] : b \in Branch} \ (Obj(c) \cup {None})

\* The old value is compared when it is read, not under the lock.
LockAny(c) ==
  /\ At(c, "written") /\ plan[c] # <<>>
  /\ lock[Head(plan[c]).dst] = None
  /\ lock' = Set(lock, Head(plan[c]).dst, c)
  /\ GoTo(c, "locked")
  /\ UNCHANGED <<state, refs, tracking, loose, packed, built, cmd, seen, plan, pack, reply, outcome,
                  ghost>>

\* A report counts as a success if the pack was unpacked.
Unpacked(c) == reply[c] # Name

-----------------------------------------------------------------------------
(* push by path: push_local.                                               *)

MayPush(c, over) == state[c] = "ready" /\ At(c, "idle") /\ over \in Commands /\ May("remote")

Planned(c, specs, theirs) == [i \in DOMAIN specs |-> RefPlan(c, specs[i], theirs)]
Fails(c, specs, theirs) == \E i \in DOMAIN specs : Refused(specs[i], RefPlan(c, specs[i], theirs))

\* The destination's refs are read, and every refspec is decided.
PathPlan(c) ==
  /\ MayPush(c, "push path")
  /\ \E specs \in Pushes :
       IF Fails(c, specs, refs[Hub])
         THEN End(c, "error")
         ELSE /\ plan' = Set(plan, c, Rest(Planned(c, specs, refs[Hub])))
              /\ cmd' = Set(cmd, c, [specs |-> specs, over |-> "path"])
              /\ outcome' = Set(outcome, c, "none")
              /\ GoTo(c, "planned")
              /\ UNCHANGED <<seen, pack, reply>>
  /\ Spend("remote")
  /\ UNCHANGED repos

\* compute_objects_to_send: what the new tips reach, without what the old tips
\* reach and without each object the destination has.
ToSend(c, plans) ==
  (Reach(News(plans), Obj(c)) \ Reach(Olds(plans) \cap Obj(c), Obj(c))) \ Obj(Hub)

CanSend(c, plans) == Reach(News(plans) \cup (Olds(plans) \cap Obj(c)), Obj(c)) \subseteq Obj(c)

\* The commits are read before the first file is opened; with none to send
\* there is no pack.
PathOpen(c) ==
  /\ At(c, "planned")
  /\ IF ~CanSend(c, plan[c])
       THEN End(c, "error") /\ UNCHANGED tmp
     ELSE IF ToSend(c, plan[c]) = {}
       THEN GoTo(c, "written") /\ UNCHANGED <<tmp, cmd, seen, plan, pack, reply, outcome>>
       ELSE /\ tmp' = Open(tmp, "pack", c)
            /\ pack' = Set(pack, c, ToSend(c, plan[c]))
            /\ GoTo(c, "packing")
            /\ UNCHANGED <<cmd, seen, plan, reply, outcome>>
  /\ UNCHANGED <<state, refs, tracking, loose, packed, lock, sweep, ghost>>

PathPack(c) ==
  /\ At(c, "packing")
  /\ IF Gone("pack")
       THEN End(c, "error") /\ UNCHANGED <<packed, tmp, ghost>>
       ELSE \E whole \in Whole("pack", c) :
              /\ PutPack(c, pack[c], whole)
              /\ pack' = Set(pack, c, IF whole THEN pack[c] ELSE {})
              /\ GoTo(c, "indexing")
              /\ UNCHANGED <<cmd, seen, plan, reply, outcome>>
  /\ UNCHANGED <<state, refs, tracking, loose, lock, sweep>>

PathIdx(c) ==
  /\ At(c, "indexing")
  /\ IF Gone("idx")
       THEN End(c, "error") /\ UNCHANGED <<packed, tmp, ghost>>
       ELSE \E whole \in Whole("idx", c) :
              /\ \E now \in (IF whole THEN {packed[Hub] \cup pack[c]} ELSE Torn(pack[c])) :
                   packed' = Set(packed, Hub, now)
              /\ tmp' = Renamed("idx")
              /\ Tear(whole)
              /\ pack' = Set(pack, c, None)
              /\ GoTo(c, "written")
              /\ UNCHANGED <<cmd, seen, plan, reply, outcome>>
  /\ UNCHANGED <<state, refs, tracking, loose, lock, sweep>>

\* The transaction goes through the refs one after the other: the lock is taken
\* and the old value compared, and an error leaves what is done done.
PathLock(c) ==
  /\ At(c, "written") /\ plan[c] # <<>>
  /\ LET p == Head(plan[c]) IN
       IF lock[p.dst] = None /\ refs[Hub][p.dst] = p.old
         THEN /\ lock' = Set(lock, p.dst, c)
              /\ GoTo(c, "locked")
              /\ UNCHANGED <<cmd, seen, plan, pack, reply, outcome>>
         ELSE End(c, "error") /\ UNCHANGED lock
  /\ UNCHANGED <<state, refs, tracking, loose, packed, built, ghost>>

\* Then the ref is renamed into place, or removed.
PathRename(c) ==
  /\ At(c, "locked")
  /\ LET p == Head(plan[c]) IN
       /\ SetHub(Applied(refs[Hub], {p}), 0)
       /\ lock' = Set(lock, p.dst, None)
  /\ plan' = Set(plan, c, Rest(Tail(plan[c])))
  /\ GoTo(c, "written")
  /\ UNCHANGED <<state, tracking, loose, packed, built, cmd, seen, pack, reply, outcome>>

PathDone(c) ==
  /\ At(c, "written") /\ plan[c] = <<>>
  /\ End(c, "ok")
  /\ UNCHANGED <<repos, ghost>>

-----------------------------------------------------------------------------
(* push over the network: push_network.                                    *)

Discover(c) ==
  /\ MayPush(c, "push net")
  /\ \E specs \in Pushes : cmd' = Set(cmd, c, [specs |-> specs, over |-> "net"])
  /\ seen' = Set(seen, c, refs[Hub])
  /\ outcome' = Set(outcome, c, "none")
  /\ GoTo(c, "discovered")
  /\ Spend("remote")
  /\ UNCHANGED <<repos, plan, pack, reply>>

\* build_pack_bytes stops at the old tips, whether it has them or not, and at
\* everything advertised that it has.
Stops(c, plans) == Olds(plans) \cup ({seen[c][n] : n \in Name} \cap Obj(c))

\* With nothing to send there are no bytes, not an empty pack.
PackBytes(c, plans) ==
  LET out == Reach(News(plans), Obj(c)) \ Reach(Stops(c, plans), Obj(c))
  IN  IF News(plans) = {} \/ out = {} THEN None ELSE out

NetPlan(c) ==
  /\ At(c, "discovered")
  /\ LET specs == cmd[c].specs
         plans == Planned(c, specs, seen[c])
         starts == News(plans) \cup Stops(c, plans)
         walked == News(plans) = {} \/ Reach(starts, Obj(c)) \subseteq Obj(c)
     IN  IF Fails(c, specs, seen[c]) \/ ~walked
           THEN End(c, "error")
         ELSE IF Moves(plans) = {}
           THEN End(c, "ok")
         ELSE /\ plan' = Set(plan, c, plans)
              /\ pack' = Set(pack, c, PackBytes(c, plans))
              /\ GoTo(c, "sent")
              /\ UNCHANGED <<cmd, seen, reply, outcome>>
  /\ UNCHANGED <<repos, ghost>>

\* The server's side of the request: without a pack it can only delete.  It may
\* refuse for reasons of its own.
Serve(c) ==
  /\ At(c, "sent") /\ reply[c] = None
  /\ LET all   == Moves(plan[c])
         whole == News(plan[c]) = {} \/ pack[c] # None
         have  == Obj(Hub) \cup (IF pack[c] = None THEN {} ELSE pack[c])
         good  == {p \in all : /\ whole /\ refs[Hub][p.dst] = p.old /\ lock[p.dst] = None
                               /\ Reach({p.new}, have) \subseteq have}
     IN  /\ packed' = IF whole THEN Set(packed, Hub, have \ loose[Hub]) ELSE packed
         /\ \E done \in {good, {}} :
              /\ done # good => May("faults")
              /\ reply' = Set(reply, c, IF whole THEN {p.dst : p \in all \ done} ELSE Name)
              /\ SetHub(Applied(refs[Hub], done), IF done = good THEN 0 ELSE 1)
  /\ UNCHANGED <<state, tracking, loose, lock, built, pc, cmd, seen, plan, pack, outcome>>

\* A report without a refusal.
Accepted(c) == reply[c] = {}

\* update_remote_tracking follows every branch that was pushed.
Report(c) ==
  /\ At(c, "sent") /\ reply[c] # None
  /\ IF Accepted(c)
       THEN /\ tracking' = Set(tracking, c, [b \in Branch |->
                 Applied([n \in Name |-> IF n \in Branch THEN tracking[c][n] ELSE None],
                         Moves(plan[c]))[b]])
            /\ End(c, "ok")
       ELSE End(c, "error") /\ UNCHANGED tracking
  /\ UNCHANGED <<state, refs, loose, packed, lock, built, ghost>>

-----------------------------------------------------------------------------
(* fetch (fetch_into_repo): no refspec, no haves.                          *)

\* ls-refs and fetch, two requests: the hub may change between them.
Advertised == refs[Hub]
Sent(wants) == Reach(wants, Obj(Hub))
CanServe(wants) == Sent(wants) \subseteq Obj(Hub)

LsRefs(c) ==
  /\ state[c] = "ready" /\ At(c, "idle") /\ "fetch" \in Commands /\ May("remote")
  /\ IF Advertised = NoRefs
       THEN End(c, "error")
       ELSE /\ seen' = Set(seen, c, Advertised)
            /\ outcome' = Set(outcome, c, "none")
            /\ GoTo(c, "listed")
            /\ UNCHANGED <<cmd, plan, pack, reply>>
  /\ Spend("remote")
  /\ UNCHANGED repos

\* Every advertised object that is not there; nobody looks at what it needs.
Wants(c) == {seen[c][n] : n \in Name} \ (Obj(c) \cup {None})

\* The server sends all that the wants reach, or fails if it has them no more.
FetchPack(c) ==
  /\ At(c, "listed")
  /\ IF CanServe(Wants(c))
       THEN /\ packed' = Set(packed, c, packed[c] \cup (Sent(Wants(c)) \ loose[c]))
            /\ GoTo(c, "fetched")
            /\ UNCHANGED <<cmd, seen, plan, pack, reply, outcome>>
       ELSE End(c, "error") /\ UNCHANGED packed
  /\ UNCHANGED <<state, refs, tracking, loose, lock, built, ghost>>

\* Branches go to refs/remotes/origin and tags over the client's own; a branch
\* the hub no longer has keeps its tracking ref.
Follow(c) == [b \in Branch |-> IF seen[c][b] = None THEN tracking[c][b] ELSE seen[c][b]]
TakeTags(c) == [n \in Name |-> IF n \in Tag /\ seen[c][n] # None THEN seen[c][n] ELSE refs[c][n]]

FetchRefs(c) ==
  /\ At(c, "fetched")
  /\ tracking' = Set(tracking, c, Follow(c))
  /\ refs' = Set(refs, c, TakeTags(c))
  /\ End(c, "ok")
  /\ UNCHANGED <<state, loose, packed, lock, built, ghost>>

-----------------------------------------------------------------------------
(* clone over the network (clone/network.rs) and by path (clone/local.rs). *)

MayClone(c, over) == state[c] = "none" /\ At(c, "idle") /\ over \in Commands /\ May("remote")

\* create_layout, then ls-refs.
CloneList(c) ==
  /\ MayClone(c, "clone net") /\ Advertised # NoRefs
  /\ state' = Set(state, c, "partial")
  /\ seen' = Set(seen, c, Advertised)
  /\ outcome' = Set(outcome, c, "none")
  /\ GoTo(c, "clone listed")
  /\ Spend("remote")
  /\ UNCHANGED <<refs, tracking, loose, packed, lock, built, cmd, plan, pack, reply>>

\* What was written is removed, the directory with it.
CleanUp(c) ==
  /\ state' = Set(state, c, "none")
  /\ refs' = Set(refs, c, NoRefs) /\ tracking' = Set(tracking, c, NoHeads)
  /\ loose' = Set(loose, c, {}) /\ packed' = Set(packed, c, {})
  /\ End(c, "error")
  /\ UNCHANGED <<lock, built, ghost>>

ClonePack(c) ==
  /\ At(c, "clone listed")
  /\ IF CanServe(Wants(c))
       THEN /\ packed' = Set(packed, c, Sent(Wants(c)))
            /\ GoTo(c, "clone fetched")
            /\ UNCHANGED <<state, refs, tracking, loose, lock, built, cmd, seen, plan, pack, reply,
                            outcome, ghost>>
       ELSE CleanUp(c)

\* write_refs: remote-tracking refs, tags, and the branch of HEAD.
CloneRefs(c) ==
  /\ At(c, "clone fetched")
  /\ tracking' = Set(tracking, c, Follow(c))
  /\ refs' = Set(refs, c, [TakeTags(c) EXCEPT ![Main] = seen[c][Main]])
  /\ GoTo(c, "checkout")
  /\ UNCHANGED <<state, loose, packed, lock, built, cmd, seen, plan, pack, reply, outcome, ghost>>

\* copy_objects goes through the directories of the hub's store ...
CopyStart(c) ==
  /\ MayClone(c, "clone path")
  /\ state' = Set(state, c, "partial")
  /\ pack' = Set(pack, c, Obj(Hub))
  /\ outcome' = Set(outcome, c, "none")
  /\ GoTo(c, "copying")
  /\ ghost' = [ghost EXCEPT !.remote = @ + 1,
                            !.excused = @ \cup IF Hub \in @ \/ ~WholeHistory(Obj(Hub))
                                              THEN {c} ELSE {}]
  /\ UNCHANGED <<refs, tracking, loose, packed, lock, built, cmd, seen, plan, reply>>

\* ... file by file, in any order: what comes while it is at it is copied or not ...
CopyFiles(c) ==
  /\ At(c, "copying")
  /\ \E files \in SUBSET (Obj(Hub) \ Obj(c)) :
       /\ files # {}
       /\ loose' = Set(loose, c, loose[c] \cup (files \cap loose[Hub]))
       /\ packed' = Set(packed, c, packed[c] \cup (files \ loose[Hub]))
  /\ UNCHANGED <<state, refs, tracking, lock, built, moving, ghost>>

\* ... and a file that is gone when its turn comes ends the clone.  What was there
\* all the time has been copied when it reads what HEAD points at ...
CopyFails(c) == At(c, "copying") /\ CleanUp(c)

CopyHead(c) ==
  /\ At(c, "copying") /\ pack[c] \subseteq Obj(c)
  /\ seen' = Set(seen, c, [NoRefs EXCEPT ![Main] = refs[Hub][Main]])
  /\ pack' = Set(pack, c, None)
  /\ GoTo(c, "headed")
  /\ ghost' = [ghost EXCEPT !.excused = @ \cup IF WholeHistory(Obj(c)) THEN {} ELSE {c}]
  /\ UNCHANGED <<repos, cmd, plan, reply, outcome>>

\* ... then the branches, no tags.
CopyRefs(c) ==
  /\ At(c, "headed")
  /\ tracking' = Set(tracking, c, [b \in Branch |-> refs[Hub][b]])
  /\ refs' = Set(refs, c, [NoRefs EXCEPT ![Main] = seen[c][Main]])
  /\ GoTo(c, "checkout")
  /\ UNCHANGED <<state, loose, packed, lock, built, cmd, seen, plan, pack, reply, outcome, ghost>>

\* peel_to_tree and checkout_tree read the commit of HEAD, not its history.
CloneCheckout(c) ==
  /\ At(c, "checkout")
  /\ IF {refs[c][Main]} \subseteq Obj(c) \cup {None}
       THEN /\ state' = Set(state, c, "ready")
            /\ End(c, "ok")
            /\ UNCHANGED <<refs, tracking, loose, packed, lock, built, ghost>>
       ELSE CleanUp(c)

-----------------------------------------------------------------------------
(* What the clients do in between, and what goes wrong.                    *)

MayWork(c) == state[c] = "ready" /\ At(c, "idle") /\ May("work")

\* What some ref leads to.
Known(c) ==
  Reach({refs[c][n] : n \in Name} \cup {tracking[c][b] : b \in Branch}, Obj(c)) \cap Obj(c)

\* commit on a branch, of a merge or not.
MakeCommit(c) ==
  /\ MayWork(c) /\ "commit" \in Commands
  /\ \E x \in Commit, b \in Branch :
       /\ Author[x] = c /\ \A r \in Repo : x \notin Obj(r)
       /\ refs[c][b] \in Parents[x] /\ Parents[x] \subseteq Known(c)
       /\ loose' = Set(loose, c, loose[c] \cup {x})
       /\ refs' = Set(refs, c, [refs[c] EXCEPT ![b] = x])
  /\ Spend("work")
  /\ UNCHANGED <<state, tracking, packed, lock, built, moving>>

\* A branch or a tag is put on a commit some ref leads to.
MoveRef(c) ==
  /\ MayWork(c) /\ "move" \in Commands
  /\ \E n \in Name, x \in Known(c) :
       refs[c][n] # x /\ refs' = Set(refs, c, [refs[c] EXCEPT ![n] = x])
  /\ Spend("work")
  /\ UNCHANGED <<state, tracking, loose, packed, lock, built, moving>>

Roots(r) == {refs[r][n] : n \in Name} \cup IF r = Hub THEN {} ELSE {tracking[r][b] : b \in Branch}

\* gc in a client's repository, where nothing else runs: what refs reach goes into
\* one pack and the other packs go; a loose commit that no ref reaches stays, its
\* packed history does not, and the properties remember when that happens.
Gc(c) ==
  /\ MayWork(c) /\ "gc" \in Commands
  /\ LET reach == Reach(Roots(c), Obj(c)) IN
       /\ reach # {} /\ reach \subseteq Obj(c)
       /\ packed' = Set(packed, c, reach) /\ loose' = Set(loose, c, loose[c] \ reach)
       /\ ghost' = [ghost EXCEPT !.work = @ + 1,
                     !.excused = @ \cup IF WholeHistory(loose[c] \cup reach) THEN {} ELSE {c}]
  /\ UNCHANGED <<state, refs, tracking, lock, built, moving>>

\* gc in the hub, beside pushes and clones.  The mark, and the pack is opened ...
Sweep(step, marked) == sweep' = [at |-> step, marked |-> marked]

SweepMark ==
  /\ "gc" \in Commands /\ May("work") /\ sweep.at = "idle"
  /\ LET reach == Reach(Roots(Hub), Obj(Hub)) IN
       /\ reach # {} /\ reach \subseteq Obj(Hub)
       /\ Sweep("packing", reach)
  /\ tmp' = Open(tmp, "pack", Hub)
  /\ Spend("work")
  /\ UNCHANGED <<state, refs, tracking, loose, packed, lock, moving>>

SweepPack ==
  /\ sweep.at = "packing"
  /\ IF Gone("pack")
       THEN Sweep("idle", {}) /\ UNCHANGED <<packed, tmp, ghost>>
       ELSE \E whole \in Whole("pack", Hub) :
              /\ PutPack(Hub, sweep.marked, whole)
              /\ Sweep("indexing", IF whole THEN sweep.marked ELSE {})
  /\ UNCHANGED <<state, refs, tracking, loose, lock, moving>>

\* ... and when the .idx is in place too, every other .pack and .idx of the directory
\* goes, those of a push that is under way and the temporary ones with them.  The
\* properties remember when history goes, when a push was under way, and who was
\* copying.
SweepOld ==
  /\ sweep.at = "indexing"
  /\ IF Gone("idx")
       THEN UNCHANGED <<loose, packed, tmp, pack, ghost>>
       ELSE \E whole \in Whole("idx", Hub) :
              LET left == IF whole THEN sweep.marked ELSE {}
                  hurt == \/ ~whole \/ ~WholeHistory(left \cup loose[Hub])
                          \/ \E c \in Client : pc[c] \in Path
              IN  /\ packed' = Set(packed, Hub, left)
                  /\ loose' = Set(loose, Hub, loose[Hub] \ sweep.marked)
                  /\ tmp' = [kind \in Kind |-> {}]
                  /\ pack' = [c \in Client |-> IF pc[c] \in {"indexing", "copying"} THEN {}
                                               ELSE pack[c]]
                  /\ ghost' = [ghost EXCEPT !.excused = @ \cup Copying
                                                          \cup IF hurt THEN {Hub} ELSE {}]
  /\ Sweep("idle", {})
  /\ UNCHANGED <<state, refs, tracking, lock, pc, cmd, seen, plan, reply, outcome>>

SweepKilled ==
  /\ sweep.at # "idle" /\ May("faults") /\ Spend("faults")
  /\ tmp' = Abandoned(Hub)
  /\ Sweep("idle", {})
  /\ UNCHANGED <<state, refs, tracking, loose, packed, lock, moving>>

\* A request or an answer is lost: the command ends with an error.
ConnectionLost(c) ==
  /\ May("faults") /\ Spend("faults")
  /\ \/ pc[c] \in {"sent", "listed"} /\ End(c, "error")
        /\ UNCHANGED repos
     \/ /\ At(c, "clone listed")
        /\ state' = Set(state, c, "none")
        /\ End(c, "error")
        /\ UNCHANGED <<refs, tracking, loose, packed, lock, built>>

\* A kill: locks, the temporary files of a pack and a half-made clone stay.
Crash(c) ==
  /\ ~At(c, "idle") /\ May("faults")
  /\ End(c, "error")
  /\ lock' = [n \in Name |-> IF lock[n] = c THEN Dead ELSE lock[n]]
  /\ tmp' = Abandoned(c)
  /\ Spend("faults")
  /\ UNCHANGED <<state, refs, tracking, loose, packed, sweep>>

\* prune-locks in the hub.
PruneLocks ==
  /\ \E n \in Name : lock[n] = Dead
  /\ lock' = [n \in Name |-> IF lock[n] = Dead THEN None ELSE lock[n]]
  /\ UNCHANGED <<state, refs, tracking, loose, packed, built, moving, ghost>>

-----------------------------------------------------------------------------
First == CHOOSE x \in Commit : Author[x] = None   \* made before this begins

\* The hub has one commit, and each client a fresh clone of it or nothing.
Init ==
  /\ state \in [Client -> {"none", "ready"}]
  /\ LET start == [NoRefs EXCEPT ![Main] = First]
         ready(r) == r = Hub \/ state[r] = "ready"
     IN  /\ refs = [r \in Repo |-> IF ready(r) THEN start ELSE NoRefs]
         /\ packed = [r \in Repo |-> IF ready(r) THEN {First} ELSE {}]
         /\ tracking = [c \in Client |-> IF ready(c) THEN [NoHeads EXCEPT ![Main] = First]
                                         ELSE NoHeads]
         /\ ghost = [held |-> [n \in Name |-> {start[n]}], excused |-> {},
                     work |-> 0, remote |-> 0, faults |-> 0]
  /\ loose = [r \in Repo |-> {}]
  /\ lock = [n \in Name |-> None]
  /\ tmp = [kind \in Kind |-> {}] /\ sweep = [at |-> "idle", marked |-> {}]
  /\ pc = [c \in Client |-> "idle"] /\ cmd = [c \in Client |-> NoCmd]
  /\ seen = [c \in Client |-> NoRefs] /\ plan = [c \in Client |-> <<>>]
  /\ pack = [c \in Client |-> None] /\ reply = [c \in Client |-> None]
  /\ outcome = [c \in Client |-> "none"]

Push(c) ==
  \/ PathPlan(c) \/ PathOpen(c) \/ PathPack(c) \/ PathIdx(c)
  \/ PathLock(c) \/ PathRename(c) \/ PathDone(c)
  \/ Discover(c) \/ NetPlan(c) \/ Serve(c) \/ Report(c)
Fetch(c) == LsRefs(c) \/ FetchPack(c) \/ FetchRefs(c)
Clone(c) ==
  \/ CloneList(c) \/ ClonePack(c) \/ CloneRefs(c)
  \/ CopyStart(c) \/ CopyFiles(c) \/ CopyFails(c) \/ CopyHead(c) \/ CopyRefs(c) \/ CloneCheckout(c)

Next ==
  \/ \E c \in Client : Push(c) \/ Fetch(c) \/ Clone(c) \/ MakeCommit(c) \/ MoveRef(c) \/ Gc(c)
                        \/ ConnectionLost(c) \/ Crash(c)
  \/ SweepMark \/ SweepPack \/ SweepOld \/ SweepKilled
  \/ PruneLocks

Spec == Init /\ [][Next]_vars

-----------------------------------------------------------------------------
(* Properties                                                              *)

\* Whatever a ref of a repository leads to is there, at every step and after any
\* crash: objects arrive before the refs that need them.  Apart from a repository
\* whose gc left a loose commit without its history; a hub where a torn temporary
\* file was put in place, or whose gc overlapped a push; and a clone by path that
\* copied from such a hub, or while a torn file came, gc removed files or a ref moved.
\* (push_local, repack, fetch_into_repo, clone_inner)
RefsWhole ==
  \A r \in Repo \ ghost.excused : Reach(Roots(r), Obj(r)) \subseteq Obj(r)

\* When a push by path has put its pack in place, what the refs it goes on to move
\* lead to can be read there: a file in objects/pack is what its builder wrote.
\* (write_objects_to_dst, PackFile::open)
PushedIsThere ==
  \A c \in Client :
    pc[c] \in {"written", "locked"} => Reach(News(plan[c]), Obj(Hub)) \subseteq Obj(Hub)

\* Work others have pushed is dropped from a hub ref only by a push that was told
\* to force or delete: two pushes decided on one old value cannot both land.
\* (plan_refspec, apply_ref_updates)
NothingDropped ==
  [][\A n \in Name :
       refs'[Hub][n] # refs[Hub][n] /\ refs[Hub][n] # None =>
         \/ refs'[Hub][n] # None /\ refs[Hub][n] \in Reach({refs'[Hub][n]}, Commit)
         \/ \E c \in Client : pc[c] \in {"locked", "sent"} /\
              \E i \in DOMAIN cmd[c].specs :
                /\ cmd[c].specs[i].dst = n
                /\ cmd[c].specs[i].force \/ cmd[c].specs[i].src = None]_vars

\* A remote-tracking ref shows only what the hub's branch has been, and a push
\* that ends well has had every ref where it was told to put it: a lost, a late
\* or a partly negative report shows nothing that did not happen.
\* (update_remote_tracking, push_network)
ToldTheTruth ==
  /\ \A c \in Client, b \in Branch : tracking[c][b] \in ghost.held[b] \cup {None}
  /\ \A c \in Client : At(c, "sent") /\ reply[c] # None /\ Accepted(c) =>
       \A p \in ToSet(plan[c]) : p.new \in ghost.held[p.dst]

=============================================================================
