--------------------------- MODULE LockfileProofs ---------------------------
(***************************************************************************)
(* What the lockfile guarantees until somebody presses Ctrl-C, for any set *)
(* of processes and targets: crashes, failed operations and prune-locks    *)
(* included.  The condition Undisturbed cannot be dropped: see the README. *)
(*                                                                         *)
(* LockInv is inductive by itself; DataInv is inductive given LockInv.     *)
(***************************************************************************)
EXTENDS Lockfile, TLAPS

\* A Lockfile value owns the file at its path until its rename or its unlink.
Owning == Holding \cup {"dropping"}

OwnerOwnsLock ==
  \A p \in Proc : pc[p] \in Owning => lockBy[path[p]] = p

\* Every lock file was made by a process that still owns it or died owning it.
LockHasMaker ==
  \A t \in Path : lockBy[t] # NoProc =>
    path[lockBy[t]] = t /\ pc[lockBy[t]] \in Owning \cup {"dead"}

NothingDrained == \A p \in Proc : drained[p] = {}

\* prune-locks will unlink only locks whose makers are dead.
AgedIsDead ==
  \A t \in aged : lockBy[t] \in Proc /\ pc[lockBy[t]] = "dead"

LockInv ==
  /\ TypeOK
  /\ Undisturbed => OwnerOwnsLock /\ LockHasMaker /\ NothingDrained /\ AgedIsDead

\* What is read and what is published is always a whole file.
WholeFiles ==
  /\ \A t \in Path : file[t] \in SUBSET Proc
  /\ \A p \in Proc : snap[p] \in SUBSET Proc

\* What a process read under the lock is what the target still holds.
SnapFresh ==
  \A p \in Proc :
    path[p] \notin ReadFirst /\ pc[p] \in {"ready", "written"}
      => snap[p] = file[path[p]]

\* A finished lock file carries what its process read and its own edit.
LockCarries ==
  \A p \in Proc : pc[p] = "written" => lockData[path[p]] = snap[p] \cup {p}

DataInv == Undisturbed => WholeFiles /\ SnapFresh /\ LockCarries /\ NoLostEdit

-----------------------------------------------------------------------------
\* The parts of LockInv hold initially.
LEMMA LockInit == Init => LockInv
  BY LockfileAssumption
  DEF Init, LockInv, TypeOK, OwnerOwnsLock, LockHasMaker, NothingDrained, AgedIsDead,
      Undisturbed,
      Owning, Holding, Phase, Content, Torn

\* A step of a process's own main thread keeps LockInv.
LEMMA LockMain ==
  ASSUME LockInv, NEW p \in Proc, Main(p)
  PROVE  LockInv'
<1> USE LockfileAssumption
    DEF LockInv, TypeOK, OwnerOwnsLock, LockHasMaker, NothingDrained, AgedIsDead,
      Undisturbed,
        Owning, Holding, Ended, Phase, GoTo
<1>1. CASE Start(p)
  BY <1>1 DEF Start, Content
<1>2. CASE Acquire(p)
  BY <1>2 DEF Acquire, Content
<1>3. CASE AcquireFails(p)
  BY <1>3 DEF AcquireFails
<1>4. CASE Register(p)
  BY <1>4 DEF Register
<1>5. CASE ReadLocked(p)
  BY <1>5 DEF ReadLocked
<1>6. CASE WriteAll(p)
  BY <1>6 DEF WriteAll, Content, Torn
<1>7. CASE Rename(p)
  BY <1>7 DEF Rename
<1>8. CASE RenameFails(p)
  BY <1>8 DEF RenameFails
<1>9. CASE Abandon(p)
  BY <1>9 DEF Abandon
<1>10. CASE DropRemove(p)
  BY <1>10 DEF DropRemove
<1>11. CASE Unregister(p)
  BY <1>11 DEF Unregister
<1> QED
  BY Main(p), <1>1, <1>2, <1>3, <1>4, <1>5, <1>6, <1>7, <1>8, <1>9, <1>10, <1>11
  DEF Main

\* A signal ends the guarantee; a crash and prune-locks keep it.
LEMMA LockOthers ==
  ASSUME LockInv
  PROVE  /\ \A p \in Proc : Handler(p) => LockInv'
         /\ \A p \in Proc : Crash(p) => LockInv'
         /\ PruneLocks => LockInv'
<1> USE LockfileAssumption
    DEF LockInv, TypeOK, OwnerOwnsLock, LockHasMaker, NothingDrained, AgedIsDead,
        Undisturbed, Owning, Holding, Ended, Phase, GoTo
<1>1. ASSUME NEW p \in Proc, HandlerDrain(p) PROVE LockInv'
  BY <1>1 DEF HandlerDrain
<1>2. ASSUME NEW p \in Proc, NEW t \in Path, HandlerUnlink(p, t) PROVE LockInv'
  BY <1>2 DEF HandlerUnlink
<1>3. ASSUME NEW p \in Proc, HandlerExit(p) PROVE LockInv'
  BY <1>3 DEF HandlerExit
<1>4. ASSUME NEW p \in Proc, Crash(p) PROVE LockInv'
  BY <1>4 DEF Crash
<1>5. ASSUME NEW t \in Path, PruneJudge(t) PROVE LockInv'
  BY <1>5 DEF PruneJudge
<1>6. ASSUME NEW t \in Path, PruneUnlink(t) PROVE LockInv'
  BY <1>6 DEF PruneUnlink
<1> QED
  BY <1>1, <1>2, <1>3, <1>4, <1>5, <1>6 DEF Handler, PruneLocks

LEMMA LockStutter == LockInv /\ UNCHANGED vars => LockInv'
  BY DEF vars, LockInv, TypeOK, OwnerOwnsLock, LockHasMaker, NothingDrained, AgedIsDead,
      Undisturbed

\* LockInv is an invariant of the protocol.
THEOREM LockInvariant == Spec => []LockInv
<1>1. LockInv /\ [Next]_vars => LockInv'
  BY LockMain, LockOthers, LockStutter DEF Next
<1> QED
  BY <1>1, LockInit, PTL DEF Spec

\* Every live Lockfile owns its lock file and no two processes hold the same
\* target (lockfile.rs: "acquire a path.lock exclusively"), and the state stays
\* well-typed, for any number of processes and targets.
THEOREM Exclusion ==
  Spec => [](TypeOK /\ HolderOwnsLock /\ MutualExclusion)
<1>1. LockInv => TypeOK /\ HolderOwnsLock /\ MutualExclusion
  BY DEF LockInv, OwnerOwnsLock, Owning, HolderOwnsLock, MutualExclusion
<1> QED
  BY <1>1, LockInvariant, PTL

-----------------------------------------------------------------------------
LEMMA DataInit == Init => DataInv
  BY DEF Init, DataInv, WholeFiles, SnapFresh, LockCarries, NoLostEdit

\* Only a rename changes a target, and it renames the finished lock file of the
\* one process that holds the target: so no edit is dropped.
LEMMA DataMain ==
  ASSUME LockInv, DataInv, NEW p \in Proc, Main(p)
  PROVE  DataInv'
<1> USE LockfileAssumption
    DEF LockInv, TypeOK, OwnerOwnsLock, Owning, Holding, GoTo,
        DataInv, WholeFiles, SnapFresh, LockCarries, NoLostEdit, Undisturbed
<1>1. CASE Start(p)
  BY <1>1 DEF Start
<1>2. CASE Acquire(p)
  BY <1>2 DEF Acquire
<1>3. CASE AcquireFails(p)
  BY <1>3 DEF AcquireFails
<1>4. CASE Register(p)
  BY <1>4 DEF Register
<1>5. CASE ReadLocked(p)
  BY <1>5 DEF ReadLocked
<1>6. CASE WriteAll(p)
  BY <1>6 DEF WriteAll, Torn
<1>7. CASE Rename(p)
  BY <1>7 DEF Rename
<1>8. CASE RenameFails(p)
  BY <1>8 DEF RenameFails
<1>9. CASE Abandon(p)
  BY <1>9 DEF Abandon
<1>10. CASE DropRemove(p)
  BY <1>10 DEF DropRemove
<1>11. CASE Unregister(p)
  BY <1>11 DEF Unregister
<1> QED
  BY Main(p), <1>1, <1>2, <1>3, <1>4, <1>5, <1>6, <1>7, <1>8, <1>9, <1>10, <1>11
  DEF Main

LEMMA DataOthers ==
  ASSUME LockInv, DataInv
  PROVE  /\ \A p \in Proc : Handler(p) => DataInv'
         /\ \A p \in Proc : Crash(p) => DataInv'
         /\ PruneLocks => DataInv'
         /\ UNCHANGED vars => DataInv'
<1> USE LockfileAssumption
    DEF LockInv, TypeOK, DataInv, WholeFiles, SnapFresh, LockCarries, NoLostEdit,
        Undisturbed
<1>1. ASSUME NEW p \in Proc, HandlerDrain(p) PROVE DataInv'
  BY <1>1 DEF HandlerDrain
<1>2. ASSUME NEW p \in Proc, NEW t \in Path, HandlerUnlink(p, t) PROVE DataInv'
  BY <1>2 DEF HandlerUnlink, NothingDrained
<1>3. ASSUME NEW p \in Proc, HandlerExit(p) PROVE DataInv'
  BY <1>3 DEF HandlerExit
<1>4. ASSUME NEW p \in Proc, Crash(p) PROVE DataInv'
  BY <1>4 DEF Crash, GoTo, Ended
<1>5. ASSUME PruneLocks PROVE DataInv'
  BY <1>5 DEF PruneLocks, PruneJudge, PruneUnlink
<1>6. ASSUME UNCHANGED vars PROVE DataInv'
  BY <1>6 DEF vars
<1> QED
  BY <1>1, <1>2, <1>3, <1>4, <1>5, <1>6 DEF Handler

\* No target is ever published half-written, and an edit whose commit returned
\* success stays in a target that is read under its lock, for ever.
THEOREM CommittedEditsSurvive ==
  Spec => [](TargetNeverTorn /\ NoLostEdit)
<1>1. LockInv /\ DataInv /\ [Next]_vars => DataInv'
  BY LockOthers, DataMain, DataOthers DEF Next
<1>2. DataInv => TargetNeverTorn /\ NoLostEdit
  BY LockfileAssumption DEF DataInv, WholeFiles, TargetNeverTorn, NoLostEdit, Torn, Undisturbed
<1> QED
  BY <1>1, <1>2, LockInvariant, DataInit, PTL DEF Spec

\* A process that dies while it writes leaves its half-written text in the lock file
\* and never under the target's name, for any processes and targets: a target is only
\* ever replaced as a whole (lockfile.rs:4, 162-176).
THEOREM TargetsWhole == Spec => []TargetNeverTorn
<1>1. TargetNeverTorn /\ NoLostEdit => TargetNeverTorn
  OBVIOUS
<1> QED BY <1>1, CommittedEditsSurvive, PTL
=============================================================================
