------------------------------ MODULE Lockfile ------------------------------
(***************************************************************************)
(* The RAII lockfile of src/lockfile.rs, the SIGINT clean-up of            *)
(* src/main.rs and the recovery command of src/cli/prune_locks.rs.         *)
(*                                                                         *)
(* Several rustygit processes share a .git directory.  Each runs one       *)
(* read-modify-write of one target file: acquire `target.lock` with        *)
(* O_EXCL, write the new contents into it, rename it over the target.  The *)
(* contents of a file are the set of processes whose edit it carries, so   *)
(* "an edit was lost" can be said of a state.                              *)
(*                                                                         *)
(* A lock file belongs to the process that created it (lockBy), but every  *)
(* system call after the creation names it by PATH: a rename or an unlink  *)
(* acts on whatever file is there, the caller's or a peer's.               *)
(***************************************************************************)
EXTENDS Naturals, FiniteSets

CONSTANTS
  Proc,           \* rustygit processes
  Path,           \* target files (a ref, the index)
  ReadFirst,      \* targets whose writers read them BEFORE locking (the index)
  Interruptible,  \* processes that may receive SIGINT
  NoProc          \* "no lock file"

ASSUME LockfileAssumption ==
  /\ NoProc \notin Proc
  /\ ReadFirst \subseteq Path
  /\ Interruptible \subseteq Proc

VARIABLES
  lockBy,    \* Path -> the process that created target.lock, or NoProc
  lockData,  \* Path -> what target.lock holds
  file,      \* Path -> what the target holds
  pc,        \* Proc -> where its main thread stands
  path,      \* Proc -> the target it works on
  snap,      \* Proc -> the target's contents as it last read them
  live,      \* Proc -> LIVE_LOCKS, its registry of .lock paths
  drained,   \* Proc -> paths the SIGINT handler has drained and not yet unlinked
  sig,       \* Proc -> the SIGINT handler thread is running
  aged       \* lock paths prune-locks has judged stale and not yet unlinked

vars == <<lockBy, lockData, file, pc, path, snap, live, drained, sig, aged>>

\* A file created and not yet written carries no set of edits at all.
Torn == {NoProc}

Content == (SUBSET Proc) \cup {Torn}

Holding == {"created", "held", "ready", "written"}
Ended   == {"done", "failed", "dead"}
Phase   == {"start", "open", "renamed", "dropping", "removed"} \cup Holding \cup Ended

TypeOK ==
  /\ lockBy   \in [Path -> Proc \cup {NoProc}]
  /\ lockData \in [Path -> Content]
  /\ file     \in [Path -> Content]
  /\ pc       \in [Proc -> Phase]
  /\ path     \in [Proc -> Path]
  /\ snap     \in [Proc -> Content]
  /\ live     \in [Proc -> SUBSET Path]
  /\ drained  \in [Proc -> SUBSET Path]
  /\ sig      \in [Proc -> BOOLEAN]
  /\ aged     \subseteq Path

Init ==
  /\ lockBy = [t \in Path |-> NoProc]
  /\ lockData = [t \in Path |-> Torn]
  /\ file = [t \in Path |-> {}]
  /\ pc = [p \in Proc |-> "start"]
  /\ path \in [Proc -> Path]
  /\ snap = [p \in Proc |-> {}]
  /\ live = [p \in Proc |-> {}]
  /\ drained = [p \in Proc |-> {}]
  /\ sig = [p \in Proc |-> FALSE]
  /\ aged = {}

GoTo(p, phase) == pc' = [pc EXCEPT ![p] = phase]

-----------------------------------------------------------------------------
(* Plausible bugs.  Not part of the specification: each is an action below *)
(* as a slip in the code would have it, kept to show that the properties   *)
(* tell the two apart.                                                     *)

\* create(true) in place of create_new(true).
AcquireNotExclusive(p) ==
  /\ pc[p] = "open"
  /\ lockBy' = [lockBy EXCEPT ![path[p]] = p]
  /\ lockData' = [lockData EXCEPT ![path[p]] = Torn]
  /\ GoTo(p, "created")
  /\ UNCHANGED <<file, path, snap, live, drained, sig, aged>>

\* The client does not read the ref again under the lock.
ReadLockedSkips(p) ==
  /\ pc[p] = "held"
  /\ GoTo(p, "ready")
  /\ UNCHANGED <<lockBy, lockData, file, path, snap, live, drained, sig, aged>>

\* commit renames before the contents are written.
WriteAllNothing(p) ==
  /\ pc[p] = "ready"
  /\ GoTo(p, "written")
  /\ UNCHANGED <<lockBy, lockData, file, path, snap, live, drained, sig, aged>>

\* prune-locks misses one directory of locks.
PruneJudgeSome(t) ==
  /\ t = CHOOSE u \in Path : TRUE
  /\ lockBy[t] # NoProc
  /\ pc[lockBy[t]] = "dead"
  /\ aged' = aged \cup {t}
  /\ UNCHANGED <<lockBy, lockData, file, pc, path, snap, live, drained, sig>>
-----------------------------------------------------------------------------
(* The main thread.                                                        *)

\* Index::read runs long before Index::write takes index.lock; a ref is read
\* only under its lock (see ReadLocked).
Start(p) ==
  /\ pc[p] = "start"
  /\ snap' = [snap EXCEPT ![p] = IF path[p] \in ReadFirst THEN file[path[p]] ELSE @]
  /\ GoTo(p, "open")
  /\ UNCHANGED <<lockBy, lockData, file, path, live, drained, sig, aged>>

\* open(O_CREAT | O_EXCL) succeeds: an empty lock file, not yet registered.
Acquire(p) ==
  /\ pc[p] = "open"
  /\ lockBy[path[p]] = NoProc
  /\ lockBy' = [lockBy EXCEPT ![path[p]] = p]
  /\ lockData' = [lockData EXCEPT ![path[p]] = Torn]
  /\ GoTo(p, "created")
  /\ UNCHANGED <<file, path, snap, live, drained, sig, aged>>

\* AlreadyLocked: no waiting, no retry, no clean-up of the lock found there.
AcquireFails(p) ==
  /\ pc[p] = "open"
  /\ lockBy[path[p]] # NoProc
  /\ GoTo(p, "failed")
  /\ UNCHANGED <<lockBy, lockData, file, path, snap, live, drained, sig, aged>>

\* register_live, a step after the file exists.
Register(p) ==
  /\ pc[p] = "created"
  /\ live' = [live EXCEPT ![p] = @ \cup {path[p]}]
  /\ GoTo(p, "held")
  /\ UNCHANGED <<lockBy, lockData, file, path, snap, drained, sig, aged>>

\* The client reads the target under the lock, unless it read it before.
ReadLocked(p) ==
  /\ pc[p] = "held"
  /\ snap' = [snap EXCEPT ![p] = IF path[p] \in ReadFirst THEN @ ELSE file[path[p]]]
  /\ GoTo(p, "ready")
  /\ UNCHANGED <<lockBy, lockData, file, path, live, drained, sig, aged>>

\* write_all goes to the inode the process created: to nothing anyone will
\* read if that inode has been unlinked.
WriteAll(p) ==
  /\ pc[p] = "ready"
  /\ lockData' = IF lockBy[path[p]] = p
                   THEN [lockData EXCEPT ![path[p]] =
                           (IF snap[p] = Torn THEN {} ELSE snap[p]) \cup {p}]
                   ELSE lockData
  /\ GoTo(p, "written")
  /\ UNCHANGED <<lockBy, file, path, snap, live, drained, sig, aged>>

\* commit, first half: rename whatever lies at target.lock over the target.
Rename(p) ==
  /\ pc[p] = "written"
  /\ lockBy[path[p]] # NoProc
  /\ file' = [file EXCEPT ![path[p]] = lockData[path[p]]]
  /\ lockBy' = [lockBy EXCEPT ![path[p]] = NoProc]
  /\ GoTo(p, "renamed")
  /\ UNCHANGED <<lockData, path, snap, live, drained, sig, aged>>

\* rename(2) fails when the lock file is gone; the error drops the Lockfile.
RenameFails(p) ==
  /\ pc[p] = "written"
  /\ lockBy[path[p]] = NoProc
  /\ GoTo(p, "dropping")
  /\ UNCHANGED <<lockBy, lockData, file, path, snap, live, drained, sig, aged>>

\* A failed check or write returns early: the Lockfile is dropped uncommitted.
Abandon(p) ==
  /\ pc[p] \in {"held", "ready"}
  /\ GoTo(p, "dropping")
  /\ UNCHANGED <<lockBy, lockData, file, path, snap, live, drained, sig, aged>>

\* Drop, first half: unlink whatever lies at target.lock.
DropRemove(p) ==
  /\ pc[p] = "dropping"
  /\ lockBy' = [lockBy EXCEPT ![path[p]] = NoProc]
  /\ GoTo(p, "removed")
  /\ UNCHANGED <<lockData, file, path, snap, live, drained, sig, aged>>

\* unregister_live, a step after the rename or the unlink.
Unregister(p) ==
  /\ pc[p] \in {"renamed", "removed"}
  /\ live' = [live EXCEPT ![p] = @ \ {path[p]}]
  /\ GoTo(p, IF pc[p] = "renamed" THEN "done" ELSE "failed")
  /\ UNCHANGED <<lockBy, lockData, file, path, snap, drained, sig, aged>>

-----------------------------------------------------------------------------
(* The signal handler thread, which runs while the main thread goes on.    *)

HandlerDrain(p) ==
  /\ p \in Interruptible
  /\ pc[p] \notin Ended
  /\ ~sig[p]
  /\ sig' = [sig EXCEPT ![p] = TRUE]
  /\ drained' = [drained EXCEPT ![p] = live[p]]
  /\ live' = [live EXCEPT ![p] = {}]
  /\ UNCHANGED <<lockBy, lockData, file, pc, path, snap, aged>>

HandlerUnlink(p, t) ==
  /\ pc[p] \notin Ended
  /\ t \in drained[p]
  /\ drained' = [drained EXCEPT ![p] = @ \ {t}]
  /\ lockBy' = [lockBy EXCEPT ![t] = NoProc]
  /\ UNCHANGED <<lockData, file, pc, path, snap, live, sig, aged>>

\* process::exit(130)
HandlerExit(p) ==
  /\ pc[p] \notin Ended
  /\ sig[p]
  /\ drained[p] = {}
  /\ GoTo(p, "dead")
  /\ UNCHANGED <<lockBy, lockData, file, path, snap, live, drained, sig, aged>>

\* SIGKILL or a power cut: no destructor and no handler runs.
Crash(p) ==
  /\ pc[p] \notin Ended
  /\ GoTo(p, "dead")
  /\ drained' = [drained EXCEPT ![p] = {}]
  /\ UNCHANGED <<lockBy, lockData, file, path, snap, live, sig, aged>>

-----------------------------------------------------------------------------
(* prune-locks, run by the user.  A lock is older than the threshold (one  *)
(* hour) only when the process that made it is gone: the age of a lock     *)
(* whose holder is alive is assumed to stay below it.                      *)

PruneJudge(t) ==
  /\ lockBy[t] # NoProc
  /\ pc[lockBy[t]] = "dead"
  /\ aged' = aged \cup {t}
  /\ UNCHANGED <<lockBy, lockData, file, pc, path, snap, live, drained, sig>>

PruneUnlink(t) ==
  /\ t \in aged
  /\ aged' = aged \ {t}
  /\ lockBy' = [lockBy EXCEPT ![t] = NoProc]
  /\ UNCHANGED <<lockData, file, pc, path, snap, live, drained, sig>>

-----------------------------------------------------------------------------
Main(p) ==
  \/ Start(p)      \/ Acquire(p)    \/ AcquireFails(p) \/ Register(p)
  \/ ReadLocked(p) \/ WriteAll(p)   \/ Rename(p)       \/ RenameFails(p)
  \/ Abandon(p)    \/ DropRemove(p) \/ Unregister(p)

Handler(p) ==
  \/ HandlerDrain(p)
  \/ \E t \in Path : HandlerUnlink(p, t)
  \/ HandlerExit(p)

PruneLocks == \E t \in Path : PruneJudge(t) \/ PruneUnlink(t)

Next ==
  \/ \E p \in Proc : Main(p) \/ Handler(p) \/ Crash(p)
  \/ PruneLocks

Spec == Init /\ [][Next]_vars

\* The user runs prune-locks again and again while a stale lock is in the way.
PruneFairness == \A t \in Path : WF_vars(PruneJudge(t)) /\ WF_vars(PruneUnlink(t))

-----------------------------------------------------------------------------
\* No process has been interrupted so far: the SIGINT handler unlinks by path after
\* it has drained the registry, and may then hit a lock that is a peer's by now.
Undisturbed == \A p \in Proc : ~sig[p]

\* The process whose Lockfile value is alive owns the file at its lock path (what
\* every unlink and rename by path in lockfile.rs relies on), and therefore no two
\* processes hold the same target.
HolderOwnsLock ==
  Undisturbed => \A p \in Proc : pc[p] \in Holding => lockBy[path[p]] = p

MutualExclusion ==
  Undisturbed =>
    \A p, q \in Proc :
      pc[p] \in Holding /\ pc[q] \in Holding /\ path[p] = path[q] => p = q

\* A reader never sees a target that was created and not yet written: the
\* rename publishes whole contents only (lockfile.rs, module comment).
TargetNeverTorn == Undisturbed => \A t \in Path : file[t] # Torn

\* A process told that its commit succeeded finds its edit in the target ever
\* after, whatever its peers do: for targets that are read under their lock.
NoLostEdit ==
  Undisturbed =>
    \A p \in Proc :
      pc[p] \in {"renamed", "done"} /\ path[p] \notin ReadFirst => p \in file[path[p]]

\* A lock left by a dead process, killed or interrupted, does not block its
\* target for ever.
StaleLockCleared ==
  \A t \in Path : (lockBy[t] # NoProc /\ pc[lockBy[t]] = "dead") ~> (lockBy[t] = NoProc)

=============================================================================
