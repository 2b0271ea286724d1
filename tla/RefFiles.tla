------------------------------ MODULE RefFiles ------------------------------
(***************************************************************************)
(* The files backend of refs: loose files under .git/refs, packed-refs,    *)
(* per-ref transactions (src/refs/transaction.rs), the commands that read  *)
(* refs and submit them (update-ref, symbolic-ref, commit), pack-refs and  *)
(* reflog deletion, run by concurrent processes that may die at any step.  *)
(*                                                                         *)
(* One value of `lock` stands for a .lock file and its creator; module     *)
(* Lockfile looks inside acquire, commit and drop.                         *)
(***************************************************************************)
EXTENDS Naturals, Sequences, SequencesExt

CONSTANTS
  Proc, NoProc,
  Name,          \* full ref names
  HEAD,          \* the pseudo-ref that names the current branch
  Oid,           \* object ids
  Absent, AnyOld,   \* see AtomicRefs
  Commands,      \* the command lines that may be run, see below
  Scenarios      \* initial loose refs, packed refs and each process's command

Value == Oid \cup Name \cup {Absent}

\* A command line, by what it does to refs.
Tx(ops)      == [kind |-> "tx", ops |-> ops]          \* update-ref, symbolic-ref, branch, tag
Commit(oid)  == [kind |-> "commit", oid |-> oid]      \* commit: the new commit is oid
Pack(prune)  == [kind |-> "pack", prune |-> prune]
DropLog(n)   == [kind |-> "droplog", name |-> n]      \* reflog delete n@{0}

Update(n, e, v, l) == [name |-> n, expected |-> e, new |-> v, log |-> l]
Delete(n, e)       == [name |-> n, expected |-> e, new |-> Absent, log |-> FALSE]

Ops   == [name : Name, expected : Oid \cup {AnyOld, Absent}, new : Value, log : BOOLEAN]
Entry == (Oid \cup {Absent}) \X Oid      \* a reflog line: old and new value

ASSUME RefFilesAssumption ==
  /\ HEAD \in Name
  /\ NoProc \notin Proc
  /\ Absent \notin Oid \cup Name /\ AnyOld \notin Oid \cup {Absent}
  /\ Oid \cap Name = {}
  /\ \A s \in Scenarios :
       /\ s.loose \in [Name -> Value] /\ s.packed \in [Name -> Oid \cup {Absent}]
       /\ s.cmd \in [Proc -> Commands]
  /\ \A c \in Commands :
       \/ c.kind = "tx" /\ c.ops \in Seq(Ops)
       \/ c.kind = "commit" /\ c.oid \in Oid
       \/ c.kind = "pack" /\ c.prune \in BOOLEAN
       \/ c.kind = "droplog" /\ c.name \in Name

VARIABLES
  loose,    \* Name -> what the loose file holds
  packed,   \* Name -> what packed-refs lists
  plock,    \* packed-refs.lock: the map in it, or NoFile
  lock,     \* Name -> creator of <ref>.lock, or NoProc
  log,      \* Name -> reflog, a sequence of <<old, new>>
  hist,     \* Name -> the logged updates in the order they took effect (history)
  pc, cmd,  \* Proc -> control point, command line
  todo,     \* Proc -> operations still to apply, the current one first
  op,       \* Proc -> the operation being applied
  seen,     \* Proc -> the value it read: HEAD's branch, then the old value
  text,     \* Proc -> the reflog as reflog-delete read it
  map,      \* Proc -> pack-refs: the names to pack, then the merged map
  prune,    \* Proc -> loose files it will unlink
  fd,       \* Proc -> where the file it opened as packed-refs.lock is now
  outcome   \* Proc -> how its transaction ended ("idle" for commands without one)

tvars == <<todo, op, seen>>
pvars == <<packed, plock, map, prune, fd>>
vars  == <<loose, lock, log, hist, pc, cmd, text, outcome, tvars, pvars>>

NoMap  == [n \in Name |-> Absent]
NoFile == [n \in Name |-> AnyOld]      \* no packed-refs.lock
NoOp   == Delete(HEAD, AnyOld)

\* CompositeRefStore::read: loose wins, then packed.
View == [n \in Name |-> IF loose[n] # Absent THEN loose[n] ELSE packed[n]]

\* The operation sequences the commands submit.
Transactions ==
  {c.ops : c \in {d \in Commands : d.kind = "tx"}} \cup
  {<<u>> : u \in {v \in Ops : /\ v.log /\ v.expected # AnyOld
                              /\ \E c \in Commands : c.kind = "commit" /\ c.oid = v.new}}

Atomic == INSTANCE AtomicRefs WITH ref <- View

TypeOK ==
  /\ loose \in [Name -> Value] /\ packed \in [Name -> Oid \cup {Absent}]
  /\ plock \in [Name -> Oid \cup {Absent}] \cup {NoFile}
  /\ lock \in [Name -> Proc \cup {NoProc}]
  /\ log \in [Name -> Seq(Entry)] /\ hist \in [Name -> Seq(Entry)]
  /\ pc \in [Proc -> {"start", "tip", "tip2", "next", "locked", "checked", "logging",
                      "headlog", "dropping", "packed", "prior", "create", "write",
                      "rename", "prune", "rewrite", "done", "dead"}]
  /\ cmd \in [Proc -> Commands]
  /\ todo \in [Proc -> Seq(Ops)] /\ op \in [Proc -> Ops]
  /\ seen \in [Proc -> Value]
  /\ text \in [Proc -> Seq(Entry)]
  /\ map \in [Proc -> [Name -> Value]]
  /\ prune \in [Proc -> SUBSET Name]
  /\ fd \in [Proc -> {"none", "lock", "live", "gone"}]
  /\ outcome \in [Proc -> Atomic!Outcomes]

Init ==
  /\ \E s \in Scenarios : loose = s.loose /\ packed = s.packed /\ cmd = s.cmd
  /\ plock = NoFile
  /\ lock = [n \in Name |-> NoProc]
  /\ log = [n \in Name |-> <<>>] /\ hist = [n \in Name |-> <<>>]
  /\ pc = [p \in Proc |-> "start"]
  /\ todo = [p \in Proc |-> <<>>] /\ op = [p \in Proc |-> NoOp]
  /\ seen = [p \in Proc |-> Absent] /\ text = [p \in Proc |-> <<>>]
  /\ map = [p \in Proc |-> NoMap] /\ prune = [p \in Proc |-> {}]
  /\ fd = [p \in Proc |-> "none"]
  /\ outcome = [p \in Proc |-> "idle"]

At(p, phase)   == pc[p] = phase
GoTo(p, phase) == pc' = [pc EXCEPT ![p] = phase]
Set(f, x, v)   == [f EXCEPT ![x] = v]

\* The transaction ends here and reports r.
Finish(p, r) == GoTo(p, "done") /\ outcome' = Set(outcome, p, r)

\* The command has its transaction and calls commit on it.
Submit(p, ops) ==
  /\ todo' = Set(todo, p, ops)
  /\ outcome' = Set(outcome, p, Atomic!Running)
  /\ GoTo(p, "next")

LooseDeref(n) == Atomic!Deref(loose, n)

-----------------------------------------------------------------------------
(* Plausible bugs.  Not part of the specification: each is an action below *)
(* as a slip in the code would have it, kept to show that the properties   *)
(* tell the two apart.                                                     *)

\* A blind update does not bother to take the lock.
AcquireUnlessAny(p) ==
  /\ At(p, "next") /\ todo[p] # <<>>
  /\ LET n == Head(todo[p]).name IN
       /\ lock[n] = NoProc \/ Head(todo[p]).expected = AnyOld
       /\ lock' = Set(lock, n, p)
  /\ op' = Set(op, p, Head(todo[p]))
  /\ GoTo(p, "locked")
  /\ UNCHANGED <<loose, log, hist, cmd, text, todo, seen, outcome, pvars>>

\* The reflog is rewritten as a whole with the line at its end, from a copy read
\* before the update, instead of being appended to.
AppendLogStale(p) ==
  /\ At(p, "logging")
  /\ log' = Set(log, op[p].name, <<<<seen[p], op[p].new>>>>)
  /\ GoTo(p, "headlog")
  /\ UNCHANGED <<loose, lock, hist, cmd, text, tvars, outcome, pvars>>

\* The old packed-refs wins over the loose refs in the merge.
ReadPriorWins(p) ==
  /\ At(p, "prior")
  /\ map' = Set(map, p, [n \in Name |-> IF packed[n] # Absent THEN packed[n] ELSE map[p][n]])
  /\ GoTo(p, "create")
  /\ UNCHANGED <<loose, lock, log, hist, cmd, text, tvars, outcome, packed, plock, prune, fd>>

\* Symbolic updates are logged like direct ones.
PublishLogsAll(p) ==
  /\ At(p, "checked") /\ op[p].new # Absent
  /\ loose' = Set(loose, op[p].name, op[p].new)
  /\ lock' = Set(lock, op[p].name, NoProc)
  /\ todo' = Set(todo, p, Tail(todo[p]))
  /\ GoTo(p, "logging")
  /\ hist' = Set(hist, op[p].name, Append(hist[op[p].name], <<seen[p], op[p].new>>))
  /\ UNCHANGED <<log, cmd, text, op, seen, outcome, pvars>>

\* --no-prune is ignored.
CollectPackedPrunes(p) ==
  /\ At(p, "packed")
  /\ LET all == [n \in Name |-> IF map[p][n] = Absent THEN packed[n] ELSE map[p][n]]
         direct == {n \in Name : all[n] \in Oid}
     IN  /\ map' = Set(map, p, [n \in Name |-> IF n \in direct THEN all[n] ELSE Absent])
         /\ prune' = Set(prune, p, direct)
         /\ GoTo(p, IF direct = {} THEN "done" ELSE "prior")
  /\ UNCHANGED <<loose, lock, log, hist, cmd, text, tvars, outcome, packed, plock, fd>>

-----------------------------------------------------------------------------
(* Commands: what they read before they submit a transaction.              *)

StartTx(p) ==
  /\ At(p, "start") /\ cmd[p].kind = "tx"
  /\ Submit(p, cmd[p].ops)
  /\ UNCHANGED <<loose, lock, log, hist, cmd, text, op, seen, pvars>>

\* commit reads HEAD; a detached or missing HEAD is refused.
ReadHead(p) ==
  /\ At(p, "start") /\ cmd[p].kind = "commit"
  /\ IF View[HEAD] \in Name
       THEN /\ seen' = Set(seen, p, View[HEAD])
            /\ GoTo(p, "tip") /\ UNCHANGED outcome
       ELSE Finish(p, "error") /\ UNCHANGED seen
  /\ UNCHANGED <<loose, lock, log, hist, cmd, text, todo, op, pvars>>

\* The branch tip becomes the parent and the expected old value.  The composite
\* store reads the loose file and, only if it is not there, packed-refs.
ReadTipLoose(p) ==
  /\ At(p, "tip")
  /\ \/ /\ loose[seen[p]] \in Oid
        /\ Submit(p, <<Update(seen[p], loose[seen[p]], cmd[p].oid, TRUE)>>)
     \/ /\ loose[seen[p]] \in Name
        /\ Finish(p, "error") /\ UNCHANGED todo
     \/ /\ loose[seen[p]] = Absent
        /\ GoTo(p, "tip2") /\ UNCHANGED <<todo, outcome>>
  /\ UNCHANGED <<loose, lock, log, hist, cmd, text, op, seen, pvars>>

ReadTipPacked(p) ==
  /\ At(p, "tip2")
  /\ Submit(p, <<Update(seen[p], packed[seen[p]], cmd[p].oid, TRUE)>>)
  /\ UNCHANGED <<loose, lock, log, hist, cmd, text, op, seen, pvars>>

-----------------------------------------------------------------------------
(* LooseTransaction::commit: the operations one by one.                    *)

Acquire(p) ==
  /\ At(p, "next") /\ todo[p] # <<>>
  /\ LET n == Head(todo[p]).name IN
       /\ lock[n] = NoProc
       /\ lock' = Set(lock, n, p)
  /\ op' = Set(op, p, Head(todo[p]))
  /\ GoTo(p, "locked")
  /\ UNCHANGED <<loose, log, hist, cmd, text, todo, seen, outcome, pvars>>

AlreadyLocked(p) ==
  /\ At(p, "next") /\ todo[p] # <<>>
  /\ lock[Head(todo[p]).name] # NoProc
  /\ Finish(p, "error")
  /\ UNCHANGED <<loose, lock, log, hist, cmd, text, tvars, pvars>>

\* current_direct_through_lock and the match on the expected value.
Check(p) ==
  /\ At(p, "locked")
  /\ LET current == LooseDeref(op[p].name) IN
       \/ /\ current \notin Name /\ Atomic!Met(op[p].expected, current)
          /\ seen' = Set(seen, p, current)
          /\ GoTo(p, "checked") /\ UNCHANGED outcome
       \/ /\ current \notin Name /\ ~Atomic!Met(op[p].expected, current)
          /\ GoTo(p, "dropping") /\ outcome' = Set(outcome, p, "mismatch")
          /\ UNCHANGED seen
       \/ /\ current \in Name
          /\ GoTo(p, "dropping") /\ outcome' = Set(outcome, p, "error")
          /\ UNCHANGED seen
  /\ UNCHANGED <<loose, lock, log, hist, cmd, text, todo, op, pvars>>

\* apply_update: the new file is renamed into place, which also ends the lock.
Publish(p) ==
  /\ At(p, "checked") /\ op[p].new # Absent
  /\ loose' = Set(loose, op[p].name, op[p].new)
  /\ lock' = Set(lock, op[p].name, NoProc)
  /\ todo' = Set(todo, p, Tail(todo[p]))
  /\ IF op[p].log /\ op[p].new \in Oid
       THEN /\ GoTo(p, "logging")
            /\ hist' = Set(hist, op[p].name, Append(hist[op[p].name], <<seen[p], op[p].new>>))
       ELSE GoTo(p, "next") /\ UNCHANGED hist
  /\ UNCHANGED <<log, cmd, text, op, seen, outcome, pvars>>

\* The reflog line is appended after the lock is gone, through no lock.
AppendLog(p) ==
  /\ At(p, "logging")
  /\ log' = Set(log, op[p].name, Append(log[op[p].name], <<seen[p], op[p].new>>))
  /\ GoTo(p, "headlog")
  /\ UNCHANGED <<loose, lock, hist, cmd, text, tvars, outcome, pvars>>

\* HEAD's reflog gets the line too if HEAD points here by now.
AppendHeadLog(p) ==
  /\ At(p, "headlog")
  /\ log' = IF op[p].name # HEAD /\ loose[HEAD] = op[p].name
              THEN Set(log, HEAD, Append(log[HEAD], <<seen[p], op[p].new>>))
              ELSE log
  /\ GoTo(p, "next")
  /\ UNCHANGED <<loose, lock, hist, cmd, text, tvars, outcome, pvars>>

\* apply_delete: the loose file goes; packed-refs is not touched.
RemoveLoose(p) ==
  /\ At(p, "checked") /\ op[p].new = Absent
  /\ loose' = Set(loose, op[p].name, Absent)
  /\ todo' = Set(todo, p, Tail(todo[p]))
  /\ GoTo(p, "dropping")
  /\ UNCHANGED <<lock, log, hist, cmd, text, op, seen, outcome, pvars>>

\* The Lockfile is dropped uncommitted: after a delete and on every error.
Drop(p) ==
  /\ At(p, "dropping")
  /\ lock' = Set(lock, op[p].name, NoProc)
  /\ GoTo(p, IF outcome[p] = Atomic!Running THEN "next" ELSE "done")
  /\ UNCHANGED <<loose, log, hist, cmd, text, tvars, outcome, pvars>>

Return(p) ==
  /\ At(p, "next") /\ todo[p] = <<>>
  /\ Finish(p, "ok")
  /\ UNCHANGED <<loose, lock, log, hist, cmd, text, tvars, pvars>>

Transaction(p) ==
  \/ Acquire(p)   \/ AlreadyLocked(p) \/ Check(p)  \/ Publish(p) \/ AppendLog(p)
  \/ AppendHeadLog(p) \/ RemoveLoose(p)   \/ Drop(p)   \/ Return(p)

-----------------------------------------------------------------------------
(* pack-refs.                                                              *)

\* The composite iterator: first every loose ref but HEAD ...
CollectLoose(p) ==
  /\ At(p, "start") /\ cmd[p].kind = "pack"
  /\ map' = Set(map, p, [n \in Name |-> IF n = HEAD THEN HEAD ELSE loose[n]])
  /\ GoTo(p, "packed")
  /\ UNCHANGED <<loose, lock, log, hist, cmd, text, tvars, outcome, packed, plock, prune, fd>>

\* ... then the packed refs no loose file covers.  Symbolic refs are skipped.
CollectPacked(p) ==
  /\ At(p, "packed")
  /\ LET all == [n \in Name |-> IF map[p][n] = Absent THEN packed[n] ELSE map[p][n]]
         direct == {n \in Name : all[n] \in Oid}
     IN  /\ map' = Set(map, p, [n \in Name |-> IF n \in direct THEN all[n] ELSE Absent])
         /\ prune' = Set(prune, p, IF cmd[p].prune THEN direct ELSE {})
         /\ GoTo(p, IF direct = {} THEN "done" ELSE "prior")
  /\ UNCHANGED <<loose, lock, log, hist, cmd, text, tvars, outcome, packed, plock, fd>>

\* The existing packed-refs, overwritten by what was collected.
ReadPrior(p) ==
  /\ At(p, "prior")
  /\ map' = Set(map, p, [n \in Name |-> IF map[p][n] # Absent THEN map[p][n] ELSE packed[n]])
  /\ GoTo(p, "create")
  /\ UNCHANGED <<loose, lock, log, hist, cmd, text, tvars, outcome, packed, plock, prune, fd>>

\* File::create: opens and truncates packed-refs.lock, also a peer's.
CreatePlock(p) ==
  /\ At(p, "create")
  /\ plock' = NoMap
  /\ fd' = Set(fd, p, "lock")
  /\ GoTo(p, "write")
  /\ UNCHANGED <<loose, lock, log, hist, cmd, text, tvars, outcome, packed, map, prune>>

\* The write lands in whatever file the descriptor refers to by now.
WritePlock(p) ==
  /\ At(p, "write")
  /\ plock'  = IF fd[p] = "lock" THEN map[p] ELSE plock
  /\ packed' = IF fd[p] = "live" THEN map[p] ELSE packed
  /\ GoTo(p, "rename")
  /\ UNCHANGED <<loose, lock, log, hist, cmd, text, tvars, outcome, map, prune, fd>>

\* rename(packed-refs.lock, packed-refs): fails if a peer renamed it first.
RenamePlock(p) ==
  /\ At(p, "rename")
  /\ IF plock = NoFile
       THEN GoTo(p, "done") /\ UNCHANGED <<packed, plock, fd>>
       ELSE /\ packed' = plock
            /\ plock' = NoFile
            /\ fd' = [q \in Proc |-> CASE fd[q] = "lock" -> "live"
                                       [] fd[q] = "live" -> "gone"
                                       [] OTHER -> fd[q]]
            /\ GoTo(p, "prune")
  /\ UNCHANGED <<loose, lock, log, hist, cmd, text, tvars, outcome, map, prune>>

\* The loose file of every collected name is unlinked: no lock, no second look.
PruneLoose(p) ==
  /\ At(p, "prune")
  /\ \E n \in prune[p] :
       /\ loose' = Set(loose, n, Absent)
       /\ prune' = Set(prune, p, prune[p] \ {n})
  /\ UNCHANGED <<lock, log, hist, pc, cmd, text, tvars, outcome, packed, plock, map, fd>>

PackDone(p) ==
  /\ At(p, "prune") /\ prune[p] = {}
  /\ GoTo(p, "done")
  /\ UNCHANGED <<loose, lock, log, hist, cmd, text, tvars, outcome, pvars>>

PackRefs(p) ==
  \/ CollectLoose(p) \/ CollectPacked(p) \/ ReadPrior(p)  \/ CreatePlock(p)
  \/ WritePlock(p)   \/ RenamePlock(p)   \/ PruneLoose(p) \/ PackDone(p)

-----------------------------------------------------------------------------
(* reflog delete <ref>@{0}: read the file, write it back without a line.   *)

ReadLog(p) ==
  /\ At(p, "start") /\ cmd[p].kind = "droplog"
  /\ text' = Set(text, p, log[cmd[p].name])
  /\ GoTo(p, IF log[cmd[p].name] = <<>> THEN "done" ELSE "rewrite")
  /\ UNCHANGED <<loose, lock, log, hist, cmd, tvars, outcome, pvars>>

RewriteLog(p) ==
  /\ At(p, "rewrite")
  /\ log' = Set(log, cmd[p].name, Front(text[p]))
  /\ GoTo(p, "done")
  /\ UNCHANGED <<loose, lock, hist, cmd, text, tvars, outcome, pvars>>

\* SIGKILL or power loss at any point; lock files stay behind.
Crash(p) ==
  /\ pc[p] \notin {"done", "dead"}
  /\ GoTo(p, "dead")
  /\ UNCHANGED <<loose, lock, log, hist, cmd, text, tvars, outcome, pvars>>

Step(p) ==
  \/ StartTx(p) \/ ReadHead(p) \/ ReadTipLoose(p) \/ ReadTipPacked(p)
  \/ Transaction(p) \/ PackRefs(p) \/ ReadLog(p) \/ RewriteLog(p)
  \/ Crash(p)

Next == \E p \in Proc : Step(p)

Spec == Init /\ [][Next]_vars

-----------------------------------------------------------------------------
\* The files backend keeps the promise of AtomicRefs, for the composite view:
\* every change of a ref is one operation whose expectation holds at that very
\* moment, and a mismatch is reported only when there is one.
ImplementsAtomicRefs == Atomic!Spec

\* A process between its acquire and its rename or drop owns the lock of the ref
\* it works on, and a lock nobody works under was left by a crash.
LockDiscipline ==
  /\ \A p \in Proc :
       pc[p] \in {"locked", "checked", "dropping"} => lock[op[p].name] = p
  /\ \A n \in Name : lock[n] # NoProc =>
       /\ op[lock[n]].name = n
       /\ pc[lock[n]] \in {"locked", "checked", "dropping", "dead"}

\* When all commands have ended, none died and none rewrote a reflog, a ref's
\* reflog holds every logged update of it and nothing else (the order may differ:
\* lines are appended after the lock is released).
LogComplete ==
  (\A p \in Proc : At(p, "done") /\ cmd[p].kind # "droplog") =>
    \A n \in Name \ {HEAD} :
      \E order \in SetToSeqs(DOMAIN hist[n]) :
        log[n] = [i \in DOMAIN order |-> hist[n][order[i]]]

\* pack-refs only changes where a ref is stored, never what it resolves to,
\* wherever it dies (pack_refs.rs:8, 72-73: the loose value is the truth).
PackPreservesView == [][pvars' # pvars => View' = View]_vars

=============================================================================
