--------------------------- MODULE RefFilesProofs ---------------------------
(***************************************************************************)
(* The per-ref lock of the files backend, for any refs, commands and       *)
(* processes, with crashes: whoever is between acquire and rename or drop  *)
(* owns the lock, and a lock nobody works under was left by a dead         *)
(* process.                                                                *)
(*                                                                         *)
(* RefInv adds to TypeOK what a process knows about its own variables at   *)
(* each control point (PhaseOK); LockDiscipline is inductive given these.  *)
(***************************************************************************)
EXTENDS RefFiles, FiniteSetTheorems, TLAPS

\* What the local variables of a process hold at each control point.
PhaseOK ==
  \A p \in Proc :
    /\ pc[p] \in {"tip", "tip2"} => seen[p] \in Name /\ cmd[p].kind = "commit"
    /\ pc[p] \in {"locked", "checked"} => todo[p] # <<>>
    /\ pc[p] \in {"checked", "logging", "headlog"} => seen[p] \in Oid \cup {Absent}
    /\ pc[p] \in {"logging", "headlog"} => op[p].new \in Oid
    /\ pc[p] \in {"prior", "create", "write", "rename", "prune"} =>
         map[p] \in [Name -> Oid \cup {Absent}]
    /\ pc[p] = "rewrite" => text[p] # <<>> /\ cmd[p].kind = "droplog"

RefInv == TypeOK /\ PhaseOK /\ LockDiscipline

-----------------------------------------------------------------------------
\* RefTarget::resolve stays among oids, names and the missing ref.
LEMMA DerefType ==
  ASSUME NEW refs \in [Name -> Value], NEW n \in Name
  PROVE  Atomic!Deref(refs, n) \in Value
  BY DEF Atomic!Deref, Value

\* What a queue of operations holds.
LEMMA HeadTailType ==
  ASSUME NEW S, NEW s \in Seq(S), s # <<>>
  PROVE  Head(s) \in S /\ Tail(s) \in Seq(S)
  OBVIOUS

\* A queue of one.
LEMMA SingletonType ==
  ASSUME NEW S, NEW e \in S
  PROVE  <<e>> \in Seq(S)
  OBVIOUS

\* Dropping the last line of a reflog leaves a reflog.
LEMMA FrontType ==
  ASSUME NEW S, NEW s \in Seq(S), s # <<>>
  PROVE  Front(s) \in Seq(S)
  BY DEF Front

\* The assumptions on the refs, without those on the command lines, and what they
\* say of values.
LEMMA RefConstants ==
  /\ HEAD \in Name /\ NoProc \notin Proc
  /\ Absent \notin Oid \cup Name /\ AnyOld \notin Oid \cup {Absent}
  /\ Oid \cap Name = {}
  /\ Oid \subseteq Value /\ Name \subseteq Value /\ Absent \in Value
  /\ \A v \in Value : v \notin Name => v \in Oid \cup {Absent}
  BY RefFilesAssumption DEF Value

\* A process's command line has what its kind needs.
LEMMA CommandTypes ==
  ASSUME TypeOK, NEW p \in Proc
  PROVE  /\ cmd[p].kind = "tx" => cmd[p].ops \in Seq(Ops)
         /\ cmd[p].kind = "commit" => cmd[p].oid \in Oid
         /\ cmd[p].kind = "droplog" => cmd[p].name \in Name
<1>1. cmd[p] \in Commands
  BY DEF TypeOK
<1>2. QED BY <1>1, RefFilesAssumption

\* The operations of a process, the current one and those to come.
LEMMA OpTypes ==
  ASSUME TypeOK, NEW p \in Proc
  PROVE  /\ op[p].name \in Name /\ op[p].new \in Value
         /\ todo[p] # <<>> => Head(todo[p]) \in Ops /\ Tail(todo[p]) \in Seq(Ops)
<1>1. op[p] \in Ops /\ todo[p] \in Seq(Ops)
  BY DEF TypeOK
<1>2. op[p].name \in Name /\ op[p].new \in Value
  BY <1>1 DEF Ops
<1>3. todo[p] # <<>> => Head(todo[p]) \in Ops /\ Tail(todo[p]) \in Seq(Ops)
  BY <1>1, HeadTailType
<1>4. QED BY <1>2, <1>3

\* The composite view is a value for every ref.
LEMMA ViewType == TypeOK => \A n \in Name : View[n] \in Value
  BY DEF TypeOK, View, Value

\* commit's one operation.
LEMMA CommitType ==
  ASSUME NEW n \in Name, NEW e \in Oid \cup {Absent}, NEW v \in Oid
  PROVE  <<Update(n, e, v, TRUE)>> \in Seq(Ops)
<1>1. Update(n, e, v, TRUE) \in Ops
  BY RefConstants DEF Update, Ops
<1>2. QED BY <1>1, SingletonType

\* What LockDiscipline needs of the types.
LEMMA LockTypes ==
  TypeOK => /\ lock \in [Name -> Proc \cup {NoProc}] /\ pc = [p \in Proc |-> pc[p]]
            /\ op = [p \in Proc |-> op[p]]
            /\ \A p \in Proc : op[p].name \in Name
  BY OpTypes DEF TypeOK

\* The invariant holds initially.
LEMMA InitInv == Init => RefInv
  BY RefFilesAssumption
  DEF Init, RefInv, TypeOK, PhaseOK, LockDiscipline, NoMap, NoFile, NoOp, Delete,
      Ops, Value, Atomic!Outcomes

\* What a command reads before it submits its transaction.
LEMMA CommandInv ==
  ASSUME TypeOK, PhaseOK, LockDiscipline, NEW p \in Proc,
         StartTx(p) \/ ReadHead(p) \/ ReadTipLoose(p) \/ ReadTipPacked(p)
  PROVE  TypeOK' /\ PhaseOK' /\ LockDiscipline'
<1> USE RefConstants DEF At, GoTo, Set, Finish, Submit,
        Atomic!Outcomes, Atomic!Running, tvars, pvars
<1>1. CASE StartTx(p)
  <2>1. cmd[p].ops \in Seq(Ops)
    BY <1>1, CommandTypes DEF StartTx
  <2>2. TypeOK'
    BY <1>1, <2>1 DEF StartTx, TypeOK, PhaseOK
  <2>3. PhaseOK'
    BY <1>1, <2>1 DEF StartTx, TypeOK, PhaseOK
  <2>4. LockDiscipline'
    BY <1>1, <2>1, LockTypes DEF StartTx, LockDiscipline
  <2>5. QED BY <2>2, <2>3, <2>4
<1>2. CASE ReadHead(p)
  <2>1. View[HEAD] \in Value
    BY ViewType
  <2>2. CASE View[HEAD] \in Name
    <3>1. TypeOK'
      BY <1>2, <2>1, <2>2 DEF ReadHead, TypeOK, PhaseOK
    <3>2. PhaseOK'
      BY <1>2, <2>1, <2>2 DEF ReadHead, TypeOK, PhaseOK
    <3>3. LockDiscipline'
      BY <1>2, <2>1, <2>2, LockTypes DEF ReadHead, LockDiscipline
    <3>4. QED BY <3>1, <3>2, <3>3
  <2>3. CASE View[HEAD] \notin Name
    <3>1. TypeOK'
      BY <1>2, <2>1, <2>3 DEF ReadHead, TypeOK, PhaseOK
    <3>2. PhaseOK'
      BY <1>2, <2>1, <2>3 DEF ReadHead, TypeOK, PhaseOK
    <3>3. LockDiscipline'
      BY <1>2, <2>1, <2>3, LockTypes DEF ReadHead, LockDiscipline
    <3>4. QED BY <3>1, <3>2, <3>3
  <2>4. QED BY <1>2, <2>2, <2>3 DEF ReadHead
<1>3. CASE ReadTipLoose(p)
  <2>1. seen[p] \in Name /\ cmd[p].oid \in Oid
    BY <1>3, CommandTypes DEF ReadTipLoose, PhaseOK
  <2>2. loose[seen[p]] \in Oid =>
          <<Update(seen[p], loose[seen[p]], cmd[p].oid, TRUE)>> \in Seq(Ops)
    BY <2>1, CommitType
  <2>3. CASE loose[seen[p]] \in Oid
    <3>1. /\ At(p, "tip") /\ Submit(p, <<Update(seen[p], loose[seen[p]], cmd[p].oid, TRUE)>>)
         /\ UNCHANGED <<loose, lock, log, hist, cmd, text, op, seen, pvars>>
      BY <1>3, <2>1, <2>2, <2>3 DEF ReadTipLoose, PhaseOK
    <3>2. TypeOK'
      BY <2>3, <3>1, <2>1, <2>2 DEF TypeOK, PhaseOK
    <3>3. PhaseOK'
      BY <2>3, <3>1, <2>1, <2>2 DEF TypeOK, PhaseOK
    <3>4. LockDiscipline'
      BY <2>3, <3>1, <2>1, <2>2, LockTypes DEF LockDiscipline
    <3>5. QED BY <3>2, <3>3, <3>4
  <2>4. CASE loose[seen[p]] \in Name
    <3>1. /\ At(p, "tip") /\ Finish(p, "error") /\ UNCHANGED todo
         /\ UNCHANGED <<loose, lock, log, hist, cmd, text, op, seen, pvars>>
      BY <1>3, <2>1, <2>2, <2>4 DEF ReadTipLoose, PhaseOK
    <3>2. TypeOK'
      BY <2>4, <3>1, <2>1, <2>2 DEF TypeOK, PhaseOK
    <3>3. PhaseOK'
      BY <2>4, <3>1, <2>1, <2>2 DEF TypeOK, PhaseOK
    <3>4. LockDiscipline'
      BY <2>4, <3>1, <2>1, <2>2, LockTypes DEF LockDiscipline
    <3>5. QED BY <3>2, <3>3, <3>4
  <2>5. CASE loose[seen[p]] = Absent
    <3>1. /\ At(p, "tip") /\ GoTo(p, "tip2") /\ UNCHANGED <<todo, outcome>>
         /\ UNCHANGED <<loose, lock, log, hist, cmd, text, op, seen, pvars>>
      BY <1>3, <2>1, <2>2, <2>5 DEF ReadTipLoose, PhaseOK
    <3>2. TypeOK'
      BY <2>5, <3>1, <2>1, <2>2 DEF TypeOK, PhaseOK
    <3>3. PhaseOK'
      BY <2>5, <3>1, <2>1, <2>2 DEF TypeOK, PhaseOK
    <3>4. LockDiscipline'
      BY <2>5, <3>1, <2>1, <2>2, LockTypes DEF LockDiscipline
    <3>5. QED BY <3>2, <3>3, <3>4
  <2>6. QED BY <1>3, <2>3, <2>4, <2>5 DEF ReadTipLoose
<1>4. CASE ReadTipPacked(p)
  <2>1. seen[p] \in Name /\ cmd[p].oid \in Oid
    BY <1>4, CommandTypes DEF ReadTipPacked, PhaseOK
  <2>2. packed[seen[p]] \in Oid \cup {Absent}
    BY <2>1 DEF TypeOK
  <2>3. <<Update(seen[p], packed[seen[p]], cmd[p].oid, TRUE)>> \in Seq(Ops)
    BY <2>1, <2>2, CommitType
  <2>4. TypeOK'
    BY <1>4, <2>1, <2>2, <2>3 DEF ReadTipPacked, TypeOK, PhaseOK
  <2>5. PhaseOK'
    BY <1>4, <2>1, <2>2, <2>3 DEF ReadTipPacked, TypeOK, PhaseOK
  <2>6. LockDiscipline'
    BY <1>4, <2>1, <2>2, <2>3, LockTypes DEF ReadTipPacked, LockDiscipline
  <2>7. QED BY <2>4, <2>5, <2>6
<1>5. QED BY <1>1, <1>2, <1>3, <1>4

\* LooseTransaction::commit.
LEMMA TransactionInv ==
  ASSUME TypeOK, PhaseOK, LockDiscipline, NEW p \in Proc, Transaction(p)
  PROVE  TypeOK' /\ PhaseOK' /\ LockDiscipline'
<1> USE RefConstants DEF At, GoTo, Set, Finish,
        Atomic!Outcomes, Atomic!Running, tvars, pvars
<1>1. CASE Acquire(p)
  <2>1. Head(todo[p]) \in Ops
    BY <1>1, OpTypes DEF Acquire
  <2>2. Head(todo[p]).name \in Name
    BY <2>1 DEF Ops
  <2>3. TypeOK'
    BY <1>1, <2>1, <2>2 DEF Acquire, TypeOK, PhaseOK
  <2>4. PhaseOK'
    BY <1>1, <2>1, <2>2 DEF Acquire, TypeOK, PhaseOK
  <2>5. LockDiscipline'
    BY <1>1, <2>1, <2>2, LockTypes DEF Acquire, LockDiscipline
  <2>6. QED BY <2>3, <2>4, <2>5
<1>2. CASE AlreadyLocked(p)
  <2>1. TypeOK'
    BY <1>2 DEF AlreadyLocked, TypeOK, PhaseOK
  <2>2. PhaseOK'
    BY <1>2 DEF AlreadyLocked, TypeOK, PhaseOK
  <2>3. LockDiscipline'
    BY <1>2, LockTypes DEF AlreadyLocked, LockDiscipline
  <2>4. QED BY <2>1, <2>2, <2>3
<1>3. CASE Check(p)
  <2>1. op[p].name \in Name /\ op[p].new \in Value
    BY OpTypes
  <2>2. LooseDeref(op[p].name) \in Value
    BY <2>1, DerefType DEF LooseDeref, TypeOK
  <2>3. CASE /\ LooseDeref(op[p].name) \notin Name
            /\ Atomic!Met(op[p].expected, LooseDeref(op[p].name))
    <3>1. /\ At(p, "locked") /\ GoTo(p, "checked")
         /\ seen' = Set(seen, p, LooseDeref(op[p].name))
         /\ UNCHANGED <<outcome, loose, lock, log, hist, cmd, text, todo, op, pvars>>
      BY <1>3, <2>1, <2>2, <2>3 DEF Check, PhaseOK
    <3>2. TypeOK'
      BY <2>3, <3>1, <2>1, <2>2 DEF TypeOK, PhaseOK
    <3>3. PhaseOK'
      BY <2>3, <3>1, <2>1, <2>2 DEF TypeOK, PhaseOK
    <3>4. LockDiscipline'
      BY <2>3, <3>1, <2>1, <2>2, LockTypes DEF LockDiscipline
    <3>5. QED BY <3>2, <3>3, <3>4
  <2>4. CASE /\ LooseDeref(op[p].name) \notin Name
            /\ ~Atomic!Met(op[p].expected, LooseDeref(op[p].name))
    <3>1. TypeOK'
      BY <1>3, <2>1, <2>2, <2>4 DEF Check, TypeOK, PhaseOK
    <3>2. PhaseOK'
      BY <1>3, <2>1, <2>2, <2>4 DEF Check, TypeOK, PhaseOK
    <3>3. LockDiscipline'
      BY <1>3, <2>1, <2>2, <2>4, LockTypes DEF Check, LockDiscipline
    <3>4. QED BY <3>1, <3>2, <3>3
  <2>5. CASE LooseDeref(op[p].name) \in Name
    <3>1. TypeOK'
      BY <1>3, <2>1, <2>2, <2>5 DEF Check, TypeOK, PhaseOK
    <3>2. PhaseOK'
      BY <1>3, <2>1, <2>2, <2>5 DEF Check, TypeOK, PhaseOK
    <3>3. LockDiscipline'
      BY <1>3, <2>1, <2>2, <2>5, LockTypes DEF Check, LockDiscipline
    <3>4. QED BY <3>1, <3>2, <3>3
  <2>6. QED BY <1>3, <2>3, <2>4, <2>5 DEF Check
<1>4. CASE Publish(p)
  <2>1. op[p].name \in Name /\ op[p].new \in Value
    BY OpTypes
  <2>2. todo[p] # <<>> => Head(todo[p]) \in Ops /\ Tail(todo[p]) \in Seq(Ops)
    BY OpTypes
  <2>3. op[p].new \in Oid => <<seen[p], op[p].new>> \in Entry
    BY <1>4 DEF Publish, Entry, PhaseOK
  <2>4. CASE op[p].log /\ op[p].new \in Oid
    <3>1. /\ At(p, "checked") /\ GoTo(p, "logging")
         /\ todo[p] # <<>> /\ todo' = Set(todo, p, Tail(todo[p]))
         /\ loose' = Set(loose, op[p].name, op[p].new) /\ lock' = Set(lock, op[p].name, NoProc)
         /\ hist' = Set(hist, op[p].name, Append(hist[op[p].name], <<seen[p], op[p].new>>))
         /\ UNCHANGED <<log, cmd, text, op, seen, outcome, pvars>>
      BY <1>4, <2>1, <2>2, <2>3, <2>4 DEF Publish, PhaseOK
    <3>2. TypeOK'
      BY <2>4, <3>1, <2>1, <2>2, <2>3 DEF TypeOK, PhaseOK
    <3>3. PhaseOK'
      BY <2>4, <3>1, <2>1, <2>2, <2>3 DEF TypeOK, PhaseOK
    <3>4. LockDiscipline'
      BY <2>4, <3>1, <2>1, <2>2, <2>3, LockTypes DEF LockDiscipline
    <3>5. QED BY <3>2, <3>3, <3>4
  <2>5. CASE ~(op[p].log /\ op[p].new \in Oid)
    <3>1. /\ At(p, "checked") /\ GoTo(p, "next")
         /\ todo[p] # <<>> /\ todo' = Set(todo, p, Tail(todo[p]))
         /\ loose' = Set(loose, op[p].name, op[p].new) /\ lock' = Set(lock, op[p].name, NoProc)
         /\ UNCHANGED <<hist, log, cmd, text, op, seen, outcome, pvars>>
      BY <1>4, <2>1, <2>2, <2>3, <2>5 DEF Publish, PhaseOK
    <3>2. TypeOK'
      BY <3>1, <2>1, <2>2, <2>3 DEF TypeOK, PhaseOK
    <3>3. PhaseOK'
      BY <3>1, <2>1, <2>2, <2>3 DEF TypeOK, PhaseOK
    <3>4. LockDiscipline'
      BY <3>1, <2>1, <2>2, <2>3, LockTypes DEF LockDiscipline
    <3>5. QED BY <3>2, <3>3, <3>4
  <2>6. QED BY <1>4, <2>4, <2>5 DEF Publish
<1>5. CASE AppendLog(p)
  <2>1. op[p].name \in Name /\ op[p].new \in Value
    BY OpTypes
  <2>2. <<seen[p], op[p].new>> \in Entry
    BY <1>5 DEF AppendLog, Entry, PhaseOK
  <2>3. TypeOK'
    BY <1>5, <2>1, <2>2 DEF AppendLog, TypeOK, PhaseOK
  <2>4. PhaseOK'
    BY <1>5, <2>1, <2>2 DEF AppendLog, TypeOK, PhaseOK
  <2>5. LockDiscipline'
    BY <1>5, <2>1, <2>2, LockTypes DEF AppendLog, LockDiscipline
  <2>6. QED BY <2>3, <2>4, <2>5
<1>6. CASE AppendHeadLog(p)
  <2>1. op[p].name \in Name /\ op[p].new \in Value
    BY OpTypes
  <2>2. <<seen[p], op[p].new>> \in Entry
    BY <1>6 DEF AppendHeadLog, Entry, PhaseOK
  <2>3. TypeOK'
    BY <1>6, <2>1, <2>2 DEF AppendHeadLog, TypeOK, PhaseOK
  <2>4. PhaseOK'
    BY <1>6, <2>1, <2>2 DEF AppendHeadLog, TypeOK, PhaseOK
  <2>5. LockDiscipline'
    BY <1>6, <2>1, <2>2, LockTypes DEF AppendHeadLog, LockDiscipline
  <2>6. QED BY <2>3, <2>4, <2>5
<1>7. CASE RemoveLoose(p)
  <2>1. op[p].name \in Name /\ op[p].new \in Value
    BY OpTypes
  <2>2. todo[p] # <<>> => Head(todo[p]) \in Ops /\ Tail(todo[p]) \in Seq(Ops)
    BY OpTypes
  <2>3. TypeOK'
    BY <1>7, <2>1, <2>2 DEF RemoveLoose, TypeOK, PhaseOK
  <2>4. PhaseOK'
    BY <1>7, <2>1, <2>2 DEF RemoveLoose, TypeOK, PhaseOK
  <2>5. LockDiscipline'
    BY <1>7, <2>1, <2>2, LockTypes DEF RemoveLoose, LockDiscipline
  <2>6. QED BY <2>3, <2>4, <2>5
<1>8. CASE Drop(p)
  <2>1. op[p].name \in Name /\ op[p].new \in Value
    BY OpTypes
  <2>2. TypeOK'
    BY <1>8, <2>1 DEF Drop, TypeOK, PhaseOK
  <2>3. PhaseOK'
    BY <1>8, <2>1 DEF Drop, TypeOK, PhaseOK
  <2>4. LockDiscipline'
    BY <1>8, <2>1, LockTypes DEF Drop, LockDiscipline
  <2>5. QED BY <2>2, <2>3, <2>4
<1>9. CASE Return(p)
  <2>1. TypeOK'
    BY <1>9 DEF Return, TypeOK, PhaseOK
  <2>2. PhaseOK'
    BY <1>9 DEF Return, TypeOK, PhaseOK
  <2>3. LockDiscipline'
    BY <1>9, LockTypes DEF Return, LockDiscipline
  <2>4. QED BY <2>1, <2>2, <2>3
<1>10. QED BY <1>1, <1>2, <1>3, <1>4, <1>5, <1>6, <1>7, <1>8, <1>9 DEF Transaction

\* pack-refs takes no ref's lock and moves only direct values.
LEMMA PackInv ==
  ASSUME TypeOK, PhaseOK, LockDiscipline, NEW p \in Proc, PackRefs(p)
  PROVE  TypeOK' /\ PhaseOK' /\ LockDiscipline'
<1> USE RefConstants DEF At, GoTo, Set, tvars, pvars
<1>1. CASE CollectLoose(p)
  <2>1. TypeOK'
    BY <1>1 DEF CollectLoose, TypeOK, PhaseOK
  <2>2. PhaseOK'
    BY <1>1 DEF CollectLoose, TypeOK, PhaseOK
  <2>3. LockDiscipline'
    BY <1>1, LockTypes DEF CollectLoose, LockDiscipline
  <2>4. QED BY <2>1, <2>2, <2>3
<1>2. CASE CollectPacked(p)
  <2>1. TypeOK'
    BY <1>2 DEF CollectPacked, TypeOK, PhaseOK
  <2>2. PhaseOK'
    BY <1>2 DEF CollectPacked, TypeOK, PhaseOK
  <2>3. LockDiscipline'
    BY <1>2, LockTypes DEF CollectPacked, LockDiscipline
  <2>4. QED BY <2>1, <2>2, <2>3
<1>3. CASE ReadPrior(p)
  <2>1. TypeOK'
    BY <1>3 DEF ReadPrior, TypeOK, PhaseOK
  <2>2. PhaseOK'
    BY <1>3 DEF ReadPrior, TypeOK, PhaseOK
  <2>3. LockDiscipline'
    BY <1>3, LockTypes DEF ReadPrior, LockDiscipline
  <2>4. QED BY <2>1, <2>2, <2>3
<1>4. CASE CreatePlock(p)
  <2>1. NoMap \in [Name -> Oid \cup {Absent}]
    BY DEF NoMap
  <2>2. TypeOK'
    BY <1>4, <2>1 DEF CreatePlock, TypeOK, PhaseOK
  <2>3. PhaseOK'
    BY <1>4, <2>1 DEF CreatePlock, TypeOK, PhaseOK
  <2>4. LockDiscipline'
    BY <1>4, <2>1, LockTypes DEF CreatePlock, LockDiscipline
  <2>5. QED BY <2>2, <2>3, <2>4
<1>5. CASE WritePlock(p)
  <2>1. TypeOK'
    BY <1>5 DEF WritePlock, TypeOK, PhaseOK
  <2>2. PhaseOK'
    BY <1>5 DEF WritePlock, TypeOK, PhaseOK
  <2>3. LockDiscipline'
    BY <1>5, LockTypes DEF WritePlock, LockDiscipline
  <2>4. QED BY <2>1, <2>2, <2>3
<1>6. CASE RenamePlock(p)
  <2>1. [q \in Proc |-> CASE fd[q] = "lock" -> "live"
                          [] fd[q] = "live" -> "gone"
                          [] OTHER -> fd[q]]
           \in [Proc -> {"none", "lock", "live", "gone"}]
    BY DEF TypeOK
  <2>2. plock # NoFile => plock \in [Name -> Oid \cup {Absent}]
    BY DEF TypeOK
  <2>3. CASE plock = NoFile
    <3>1. /\ At(p, "rename") /\ GoTo(p, "done")
         /\ UNCHANGED <<loose, lock, log, hist, cmd, text, tvars, outcome, pvars>>
      BY <1>6, <2>1, <2>2, <2>3 DEF RenamePlock, PhaseOK
    <3>2. TypeOK'
      BY <2>3, <3>1, <2>1, <2>2 DEF TypeOK, PhaseOK
    <3>3. PhaseOK'
      BY <2>3, <3>1, <2>1, <2>2 DEF TypeOK, PhaseOK
    <3>4. LockDiscipline'
      BY <2>3, <3>1, <2>1, <2>2, LockTypes DEF LockDiscipline
    <3>5. QED BY <3>2, <3>3, <3>4
  <2>4. CASE plock # NoFile
    <3>1. TypeOK'
      BY <1>6, <2>1, <2>2, <2>4 DEF RenamePlock, TypeOK, PhaseOK
    <3>2. PhaseOK'
      BY <1>6, <2>1, <2>2, <2>4 DEF RenamePlock, TypeOK, PhaseOK
    <3>3. LockDiscipline'
      BY <1>6, <2>1, <2>2, <2>4, LockTypes DEF RenamePlock, LockDiscipline
    <3>4. QED BY <3>1, <3>2, <3>3
  <2>5. QED BY <1>6, <2>3, <2>4 DEF RenamePlock
<1>7. CASE PruneLoose(p)
  <2>1. TypeOK'
    BY <1>7 DEF PruneLoose, TypeOK, PhaseOK
  <2>2. PhaseOK'
    BY <1>7 DEF PruneLoose, TypeOK, PhaseOK
  <2>3. LockDiscipline'
    BY <1>7, LockTypes DEF PruneLoose, LockDiscipline
  <2>4. QED BY <2>1, <2>2, <2>3
<1>8. CASE PackDone(p)
  <2>1. TypeOK'
    BY <1>8 DEF PackDone, TypeOK, PhaseOK
  <2>2. PhaseOK'
    BY <1>8 DEF PackDone, TypeOK, PhaseOK
  <2>3. LockDiscipline'
    BY <1>8, LockTypes DEF PackDone, LockDiscipline
  <2>4. QED BY <2>1, <2>2, <2>3
<1>9. QED BY <1>1, <1>2, <1>3, <1>4, <1>5, <1>6, <1>7, <1>8 DEF PackRefs

\* Rewriting a reflog, and dying at any point.
LEMMA OtherInv ==
  ASSUME TypeOK, PhaseOK, LockDiscipline, NEW p \in Proc,
         ReadLog(p) \/ RewriteLog(p) \/ Crash(p)
  PROVE  TypeOK' /\ PhaseOK' /\ LockDiscipline'
<1> USE RefConstants DEF At, GoTo, Set, tvars, pvars
<1>1. CASE ReadLog(p)
  <2>1. cmd[p].name \in Name
    BY <1>1, CommandTypes DEF ReadLog
  <2>2. TypeOK'
    BY <1>1, <2>1 DEF ReadLog, TypeOK, PhaseOK
  <2>3. PhaseOK'
    BY <1>1, <2>1 DEF ReadLog, TypeOK, PhaseOK
  <2>4. LockDiscipline'
    BY <1>1, <2>1, LockTypes DEF ReadLog, LockDiscipline
  <2>5. QED BY <2>2, <2>3, <2>4
<1>2. CASE RewriteLog(p)
  <2>1. cmd[p].name \in Name /\ text[p] \in Seq(Entry) /\ text[p] # <<>>
    BY <1>2, CommandTypes DEF RewriteLog, TypeOK, PhaseOK
  <2>2. Front(text[p]) \in Seq(Entry)
    BY <2>1, FrontType
  <2>3. TypeOK'
    BY <1>2, <2>1, <2>2 DEF RewriteLog, TypeOK, PhaseOK
  <2>4. PhaseOK'
    BY <1>2, <2>1, <2>2 DEF RewriteLog, TypeOK, PhaseOK
  <2>5. LockDiscipline'
    BY <1>2, <2>1, <2>2, LockTypes DEF RewriteLog, LockDiscipline
  <2>6. QED BY <2>3, <2>4, <2>5
<1>3. CASE Crash(p)
  <2>1. TypeOK'
    BY <1>3 DEF Crash, TypeOK, PhaseOK
  <2>2. PhaseOK'
    BY <1>3 DEF Crash, TypeOK, PhaseOK
  <2>3. LockDiscipline'
    BY <1>3, LockTypes DEF Crash, LockDiscipline
  <2>4. QED BY <2>1, <2>2, <2>3
<1>4. QED BY <1>1, <1>2, <1>3

\* RefInv holds in every reachable state.
THEOREM RefInvariant == Spec => []RefInv
<1>1. RefInv /\ [Next]_vars => RefInv'
  <2> SUFFICES ASSUME RefInv, [Next]_vars PROVE RefInv'
    OBVIOUS
  <2>1. CASE UNCHANGED vars
    BY <2>1 DEF vars, tvars, pvars, RefInv, TypeOK, PhaseOK, LockDiscipline
  <2>2. CASE Next
    <3> PICK p \in Proc : Step(p)
      BY <2>2 DEF Next
    <3> QED BY CommandInv, TransactionInv, PackInv, OtherInv DEF Step, RefInv
  <2>3. QED BY <2>1, <2>2
<1>2. QED BY InitInv, <1>1, PTL DEF Spec

\* Every variable of the files backend keeps its type: in particular packed-refs
\* never lists a symbolic ref and a reflog never records one (pack_refs.rs:48-58,
\* transaction.rs:266).
THEOREM RefTypes == Spec => []TypeOK
<1>1. RefInv => TypeOK
  BY DEF RefInv
<1>2. QED BY <1>1, RefInvariant, PTL

\* A ref is checked, written and deleted only under its own lock, and a lock that
\* stays behind is a dead process's (transaction.rs:189-309).
THEOREM RefsChangedUnderLock == Spec => []LockDiscipline
<1>1. RefInv => LockDiscipline
  BY DEF RefInv
<1>2. QED BY <1>1, RefInvariant, PTL

-----------------------------------------------------------------------------
(* What the proofs about logs and about atomicity share. *)

\* The functions of the state, as functions.
LEMMA StateForms ==
  ASSUME TypeOK
  PROVE  /\ \A n \in Name : log[n] \in Seq(Entry) /\ hist[n] \in Seq(Entry)
         /\ log = [n \in Name |-> log[n]] /\ hist = [n \in Name |-> hist[n]]
         /\ pc = [p \in Proc |-> pc[p]] /\ cmd = [p \in Proc |-> cmd[p]]
         /\ loose = [n \in Name |-> loose[n]] /\ packed = [n \in Name |-> packed[n]]
         /\ outcome = [p \in Proc |-> outcome[p]] /\ todo = [p \in Proc |-> todo[p]]
         /\ map = [p \in Proc |-> map[p]] /\ prune = [p \in Proc |-> prune[p]]
         /\ fd = [p \in Proc |-> fd[p]] /\ op = [p \in Proc |-> op[p]] /\ seen = [p \in Proc |-> seen[p]]
         /\ \A p \in Proc : op[p].name \in Name
  BY OpTypes DEF TypeOK

\* Commands are given once, and the dead stay dead.
LEMMA StepKeeps ==
  ASSUME TypeOK, NEW p \in Proc, Step(p)
  PROVE  cmd' = cmd /\ \A q \in Proc : pc[q] = "dead" => pc'[q] = "dead"
<1>1. CASE StartTx(p) \/ ReadHead(p) \/ ReadTipLoose(p) \/ ReadTipPacked(p)
  BY <1>1, StateForms
  DEF StartTx, ReadHead, ReadTipLoose, ReadTipPacked, At, GoTo, Set, Finish, Submit
<1>2. CASE Transaction(p)
  BY <1>2, StateForms
  DEF Transaction, Acquire, AlreadyLocked, Check, Publish, AppendLog, AppendHeadLog,
      RemoveLoose, Drop, Return, At, GoTo, Set, Finish
<1>3. CASE PackRefs(p)
  BY <1>3, StateForms
  DEF PackRefs, CollectLoose, CollectPacked, ReadPrior, CreatePlock, WritePlock,
      RenamePlock, PruneLoose, PackDone, At, GoTo, Set
<1>4. CASE ReadLog(p) \/ RewriteLog(p) \/ Crash(p)
  BY <1>4, StateForms DEF ReadLog, RewriteLog, Crash, At, GoTo, Set
<1> QED BY <1>1, <1>2, <1>3, <1>4 DEF Step

-----------------------------------------------------------------------------
(* The reflogs.  Lines are appended after a ref's lock is gone, in any     *)
(* order, and still every logged update of a ref is told once.  The        *)
(* invariant matches the updates of a ref (hist) with the lines of its     *)
(* reflog and with the processes about to append one: each update is told  *)
(* by one line or due to one process, and each of these tells one update.  *)
(* It holds until a process dies before its line is out, or rewrites a     *)
(* reflog from an old copy.                                                *)

\* Nobody died, and nobody rewrites a reflog.
Quiet == \A p \in Proc : pc[p] # "dead" /\ cmd[p].kind # "droplog"

\* The processes that have updated n and still have to log it.
Logging(n) == {p \in Proc : pc[p] = "logging" /\ op[p].name = n}

\* Line i of the reflog tells update number order[i], process p is to tell due[p].
Matched(n, order, due) ==
  /\ \A i \in DOMAIN log[n] : log[n][i] = hist[n][order[i]]
  /\ \A p \in Logging(n) : <<seen[p], op[p].new>> = hist[n][due[p]]
  /\ \A i, j \in DOMAIN log[n] : order[i] = order[j] => i = j
  /\ \A p, q \in Logging(n) : due[p] = due[q] => p = q
  /\ \A i \in DOMAIN log[n], p \in Logging(n) : order[i] # due[p]
  /\ \A k \in DOMAIN hist[n] :
       \/ \E i \in DOMAIN log[n] : order[i] = k
       \/ \E p \in Logging(n) : due[p] = k

Told(n) ==
  \E order \in [DOMAIN log[n] -> DOMAIN hist[n]], due \in [Logging(n) -> DOMAIN hist[n]] :
    Matched(n, order, due)

LogInv == Quiet => \A n \in Name \ {HEAD} : Told(n)

-----------------------------------------------------------------------------
\* A longer sequence.
LEMMA AppendFacts ==
  ASSUME NEW S, NEW s \in Seq(S), NEW e
  PROVE  /\ DOMAIN s = 1..Len(s) /\ Len(s) \in Nat
         /\ DOMAIN Append(s, e) = DOMAIN s \cup {Len(s) + 1}
         /\ Len(s) + 1 \notin DOMAIN s
         /\ \A i \in DOMAIN s : Append(s, e)[i] = s[i]
         /\ Append(s, e)[Len(s) + 1] = e
  OBVIOUS

\* A process that works on something else than a reflog of a branch.
Elsewhere(p) ==
  /\ pc[p] # "logging" /\ pc'[p] # "logging"
  /\ \A n \in Name \ {HEAD} : log'[n] = log[n]
  /\ hist' = hist /\ cmd' = cmd
  /\ \A q \in Proc \ {p} : pc'[q] = pc[q] /\ op'[q] = op[q] /\ seen'[q] = seen[q]

\* Before its transaction.
LEMMA CommandElsewhere ==
  ASSUME TypeOK, NEW p \in Proc,
         StartTx(p) \/ ReadHead(p) \/ ReadTipLoose(p) \/ ReadTipPacked(p) \/ ReadLog(p)
  PROVE  Elsewhere(p)
<1> USE StateForms DEF At, GoTo, Set, Finish, Submit, tvars, pvars, Elsewhere
<1>1. CASE StartTx(p)
  BY <1>1 DEF StartTx
<1>2. CASE ReadHead(p)
  BY <1>2 DEF ReadHead
<1>3. CASE ReadTipLoose(p)
  BY <1>3 DEF ReadTipLoose
<1>4. CASE ReadTipPacked(p)
  BY <1>4 DEF ReadTipPacked
<1>5. CASE ReadLog(p)
  BY <1>5 DEF ReadLog
<1> QED BY <1>1, <1>2, <1>3, <1>4, <1>5

\* In its transaction, but for the update and its line.
LEMMA TransactionElsewhere ==
  ASSUME TypeOK, NEW p \in Proc,
         \/ Acquire(p) \/ AlreadyLocked(p) \/ Check(p) \/ AppendHeadLog(p)
         \/ RemoveLoose(p) \/ Drop(p) \/ Return(p)
         \/ Publish(p) /\ ~(op[p].log /\ op[p].new \in Oid)
  PROVE  Elsewhere(p)
<1> USE StateForms DEF At, GoTo, Set, Finish, tvars, pvars, Elsewhere
<1>1. CASE Acquire(p)
  BY <1>1 DEF Acquire
<1>2. CASE AlreadyLocked(p)
  BY <1>2 DEF AlreadyLocked
<1>3. CASE Check(p)
  BY <1>3 DEF Check
<1>4. CASE AppendHeadLog(p)
  BY <1>4 DEF AppendHeadLog
<1>5. CASE RemoveLoose(p)
  BY <1>5 DEF RemoveLoose
<1>6. CASE Drop(p)
  BY <1>6 DEF Drop
<1>7. CASE Return(p)
  BY <1>7 DEF Return
<1>8. CASE Publish(p) /\ ~(op[p].log /\ op[p].new \in Oid)
  BY <1>8 DEF Publish
<1> QED BY <1>1, <1>2, <1>3, <1>4, <1>5, <1>6, <1>7, <1>8

\* Packing.
LEMMA PackElsewhere ==
  ASSUME TypeOK, NEW p \in Proc, PackRefs(p)
  PROVE  Elsewhere(p)
<1> USE StateForms DEF At, GoTo, Set, tvars, pvars, Elsewhere
<1>1. CASE CollectLoose(p)
  BY <1>1 DEF CollectLoose
<1>2. CASE CollectPacked(p)
  BY <1>2 DEF CollectPacked
<1>3. CASE ReadPrior(p)
  BY <1>3 DEF ReadPrior
<1>4. CASE CreatePlock(p)
  BY <1>4 DEF CreatePlock
<1>5. CASE WritePlock(p)
  BY <1>5 DEF WritePlock
<1>6. CASE RenamePlock(p)
  BY <1>6 DEF RenamePlock
<1>7. CASE PruneLoose(p)
  BY <1>7 DEF PruneLoose
<1>8. CASE PackDone(p)
  BY <1>8 DEF PackDone
<1> QED BY <1>1, <1>2, <1>3, <1>4, <1>5, <1>6, <1>7, <1>8 DEF PackRefs

\* A step that touches neither leaves the match as it is.
LEMMA KeptTold ==
  ASSUME NEW n \in Name \ {HEAD}, Told(n),
         log'[n] = log[n], hist'[n] = hist[n], Logging(n)' = Logging(n),
         \A q \in Logging(n) : seen'[q] = seen[q] /\ op'[q] = op[q]
  PROVE  Told(n)'
<1>1. PICK order \in [DOMAIN log[n] -> DOMAIN hist[n]],
           due \in [Logging(n) -> DOMAIN hist[n]] : Matched(n, order, due)
  BY DEF Told
<1>2. Matched(n, order, due)'
  BY <1>1 DEF Matched
<1> QED
  BY <1>2 DEF Told

LEMMA ElsewhereTold ==
  ASSUME NEW p \in Proc, Elsewhere(p), NEW n \in Name \ {HEAD}, Told(n)
  PROVE  Told(n)'
<1>1. /\ log'[n] = log[n] /\ hist'[n] = hist[n]
      /\ Logging(n)' = Logging(n)
      /\ \A q \in Logging(n) : seen'[q] = seen[q] /\ op'[q] = op[q]
  BY DEF Elsewhere, Logging
<1> QED
  BY <1>1, KeptTold

\* A logged update is due to the process that made it.
LEMMA PublishTold ==
  ASSUME TypeOK, NEW p \in Proc, Publish(p), op[p].log, op[p].new \in Oid,
         NEW n \in Name \ {HEAD}, Told(n)
  PROVE  Told(n)'
<1>1. /\ log' = log /\ pc[p] = "checked" /\ pc'[p] = "logging" /\ op' = op /\ seen' = seen
      /\ \A q \in Proc \ {p} : pc'[q] = pc[q]
      /\ hist' = [hist EXCEPT ![op[p].name] = Append(hist[op[p].name], <<seen[p], op[p].new>>)]
  BY StateForms DEF Publish, At, GoTo, Set
<1>2. op[p].name \in Name /\ hist = [m \in Name |-> hist[m]] /\ hist[n] \in Seq(Entry)
  BY StateForms
<1>3. PICK order \in [DOMAIN log[n] -> DOMAIN hist[n]],
           due \in [Logging(n) -> DOMAIN hist[n]] : Matched(n, order, due)
  BY DEF Told
<1>4. CASE op[p].name # n
  <2>1. Logging(n)' = Logging(n) /\ hist'[n] = hist[n]
    BY <1>1, <1>2, <1>4 DEF Logging
  <2> QED BY <1>1, <2>1, KeptTold
<1>5. CASE op[p].name = n
  <2> DEFINE last == Len(hist[n]) + 1
  <2> PICK more : more = [q \in Logging(n) \cup {p} |-> IF q = p THEN last ELSE due[q]]
    OBVIOUS
  <2>1. hist'[n] = Append(hist[n], <<seen[p], op[p].new>>)
    BY <1>1, <1>2, <1>5
  <2>2. /\ DOMAIN hist'[n] = DOMAIN hist[n] \cup {last} /\ last \notin DOMAIN hist[n]
        /\ \A k \in DOMAIN hist[n] : hist'[n][k] = hist[n][k]
        /\ hist'[n][last] = <<seen[p], op[p].new>>
    BY <1>2, <2>1, AppendFacts
  <2>3. Logging(n)' = Logging(n) \cup {p} /\ p \notin Logging(n)
    BY <1>1, <1>5 DEF Logging
  <2> HIDE DEF last
  <2>4. order \in [DOMAIN log'[n] -> DOMAIN hist'[n]] /\ more \in [Logging(n)' -> DOMAIN hist'[n]]
    BY <1>1, <1>3, <2>2, <2>3
  <2>5. more[p] = last /\ \A q \in Logging(n) : more[q] = due[q]
    BY <2>3
  <2>6. Matched(n, order, more)'
    <3>1. \A i \in DOMAIN log'[n] : log'[n][i] = hist'[n][order[i]]
      BY <1>1, <1>3, <2>2 DEF Matched
    <3>2. \A q \in Logging(n)' : <<seen'[q], op'[q].new>> = hist'[n][more[q]]
      BY <1>1, <1>3, <2>2, <2>3, <2>5 DEF Matched
    <3>3. \A q, r \in Logging(n)' : more[q] = more[r] => q = r
      BY <1>3, <2>2, <2>3, <2>5 DEF Matched
    <3>4. \A i \in DOMAIN log'[n], q \in Logging(n)' : order[i] # more[q]
      BY <1>1, <1>3, <2>2, <2>3, <2>5 DEF Matched
    <3>5. \A k \in DOMAIN hist'[n] : \/ \E i \in DOMAIN log'[n] : order[i] = k
                                     \/ \E q \in Logging(n)' : more[q] = k
      BY <1>1, <1>3, <2>2, <2>3, <2>5 DEF Matched
    <3> QED BY <1>1, <1>3, <3>1, <3>2, <3>3, <3>4, <3>5 DEF Matched
  <2> QED BY <2>4, <2>6 DEF Told
<1> QED BY <1>4, <1>5

\* Its line takes over, behind those that came first.
LEMMA AppendTold ==
  ASSUME TypeOK, NEW p \in Proc, AppendLog(p), NEW n \in Name \ {HEAD}, Told(n)
  PROVE  Told(n)'
<1>1. /\ hist' = hist /\ pc[p] = "logging" /\ pc'[p] = "headlog" /\ op' = op /\ seen' = seen
      /\ \A q \in Proc \ {p} : pc'[q] = pc[q]
      /\ log' = [log EXCEPT ![op[p].name] = Append(log[op[p].name], <<seen[p], op[p].new>>)]
  BY StateForms DEF AppendLog, At, GoTo, Set, tvars
<1>2. op[p].name \in Name /\ log = [m \in Name |-> log[m]] /\ log[n] \in Seq(Entry)
  BY StateForms
<1>3. PICK order \in [DOMAIN log[n] -> DOMAIN hist[n]],
           due \in [Logging(n) -> DOMAIN hist[n]] : Matched(n, order, due)
  BY DEF Told
<1>4. CASE op[p].name # n
  <2>1. Logging(n)' = Logging(n) /\ log'[n] = log[n]
    BY <1>1, <1>2, <1>4 DEF Logging
  <2> QED BY <1>1, <2>1, KeptTold
<1>5. CASE op[p].name = n
  <2> DEFINE last == Len(log[n]) + 1
  <2> PICK lines, rest :
        /\ lines = [i \in DOMAIN log[n] \cup {last} |-> IF i = last THEN due[p] ELSE order[i]]
        /\ rest = [q \in Logging(n) \ {p} |-> due[q]]
    OBVIOUS
  <2>1. log'[n] = Append(log[n], <<seen[p], op[p].new>>)
    BY <1>1, <1>2, <1>5
  <2>2. /\ DOMAIN log'[n] = DOMAIN log[n] \cup {last} /\ last \notin DOMAIN log[n]
        /\ \A i \in DOMAIN log[n] : log'[n][i] = log[n][i]
        /\ log'[n][last] = <<seen[p], op[p].new>>
    BY <1>2, <2>1, AppendFacts
  <2>3. Logging(n)' = Logging(n) \ {p} /\ p \in Logging(n)
    BY <1>1, <1>5 DEF Logging
  <2> HIDE DEF last
  <2>4. lines \in [DOMAIN log'[n] -> DOMAIN hist'[n]] /\ rest \in [Logging(n)' -> DOMAIN hist'[n]]
    BY <1>1, <1>3, <2>2, <2>3
  <2>5. /\ lines[last] = due[p] /\ \A i \in DOMAIN log[n] : lines[i] = order[i]
        /\ \A q \in Logging(n)' : rest[q] = due[q]
    BY <2>2, <2>3
  <2>6. Matched(n, lines, rest)'
    <3>1. \A i \in DOMAIN log'[n] : log'[n][i] = hist'[n][lines[i]]
      BY <1>1, <1>3, <2>2, <2>3, <2>5 DEF Matched
    <3>2. \A q \in Logging(n)' : <<seen'[q], op'[q].new>> = hist'[n][rest[q]]
      BY <1>1, <1>3, <2>3, <2>5 DEF Matched
    <3>3. \A i, j \in DOMAIN log'[n] : lines[i] = lines[j] => i = j
      BY <1>3, <2>2, <2>3, <2>5 DEF Matched
    <3>4. \A q, r \in Logging(n)' : rest[q] = rest[r] => q = r
      BY <1>3, <2>3, <2>5 DEF Matched
    <3>5. \A i \in DOMAIN log'[n], q \in Logging(n)' : lines[i] # rest[q]
      BY <1>3, <2>2, <2>3, <2>5 DEF Matched
    <3>6. \A k \in DOMAIN hist'[n] : \/ \E i \in DOMAIN log'[n] : lines[i] = k
                                     \/ \E q \in Logging(n)' : rest[q] = k
      <4> SUFFICES ASSUME NEW k \in DOMAIN hist[n]
                   PROVE  \/ \E i \in DOMAIN log'[n] : lines[i] = k
                          \/ \E q \in Logging(n)' : rest[q] = k
        BY <1>1
      <4>1. CASE \E i \in DOMAIN log[n] : order[i] = k
        BY <2>2, <2>5, <4>1
      <4>2. CASE \E q \in Logging(n) : due[q] = k
        BY <2>2, <2>3, <2>5, <4>2
      <4> QED BY <1>3, <4>1, <4>2 DEF Matched
    <3> QED BY <3>1, <3>2, <3>3, <3>4, <3>5, <3>6 DEF Matched
  <2> QED BY <2>4, <2>6 DEF Told
<1> QED BY <1>4, <1>5

\* At first nothing is to be told.
LEMMA LogInit == Init => LogInv
<1> SUFFICES ASSUME Init, NEW n \in Name \ {HEAD} PROVE Told(n)
  BY DEF LogInv
<1>1. log[n] = <<>> /\ hist[n] = <<>> /\ Logging(n) = {}
  BY DEF Init, Logging
<1>2. <<>> \in [DOMAIN log[n] -> DOMAIN hist[n]] /\ <<>> \in [Logging(n) -> DOMAIN hist[n]]
  BY <1>1
<1>3. Matched(n, <<>>, <<>>)
  BY <1>1 DEF Matched
<1> QED BY <1>2, <1>3 DEF Told

LEMMA LogStep ==
  ASSUME RefInv, LogInv, [Next]_vars
  PROVE  LogInv'
<1>0. TypeOK
  BY DEF RefInv
<1> SUFFICES ASSUME Quiet', NEW n \in Name \ {HEAD} PROVE Told(n)'
  BY DEF LogInv
<1>1. CASE UNCHANGED vars
  <2>1. log' = log /\ hist' = hist /\ pc' = pc /\ cmd' = cmd /\ op' = op /\ seen' = seen
    BY <1>1 DEF vars, tvars
  <2>2. Told(n) /\ Logging(n)' = Logging(n)
    BY <2>1 DEF LogInv, Quiet, Logging
  <2> QED BY <2>1, <2>2, KeptTold
<1>2. ASSUME NEW p \in Proc, Step(p) PROVE Told(n)'
  <2>1. cmd' = cmd /\ \A q \in Proc : pc[q] = "dead" => pc'[q] = "dead"
    BY <1>0, <1>2, StepKeeps
  <2>2. Told(n)
    BY <2>1 DEF LogInv, Quiet
  <2>3. ~Crash(p) /\ ~RewriteLog(p)
    <3>1. pc'[p] # "dead" /\ cmd[p].kind # "droplog"
      BY <2>1 DEF Quiet
    <3>2. ASSUME Crash(p) PROVE FALSE
      BY <3>1, <3>2, <1>0, StateForms DEF Crash, GoTo
    <3>3. ASSUME RewriteLog(p) PROVE FALSE
      BY <3>1, <3>3 DEF RefInv, PhaseOK, RewriteLog, At
    <3> QED BY <3>2, <3>3
  <2>4. CASE Elsewhere(p)
    BY <2>2, <2>4, ElsewhereTold
  <2>5. CASE Publish(p) /\ op[p].log /\ op[p].new \in Oid
    BY <1>0, <2>2, <2>5, PublishTold
  <2>6. CASE AppendLog(p)
    BY <1>0, <2>2, <2>6, AppendTold
  <2> QED
    BY <1>0, <1>2, <2>3, <2>4, <2>5, <2>6, CommandElsewhere, TransactionElsewhere, PackElsewhere
    DEF Step, Transaction
<1> QED BY <1>1, <1>2 DEF Next

\* Numbers are as many as they are numbered by.
LEMMA SameLength == \A a, b \in Nat : ExistsBijection(1..a, 1..b) => a = b
<1> SUFFICES ASSUME NEW a \in Nat, NEW b \in Nat, ExistsBijection(1..a, 1..b)
             PROVE  a = b
  OBVIOUS
<1>1. IsFiniteSet(1..a) /\ Cardinality(1..a) = a /\ Cardinality(1..b) = b
  BY FS_Interval
<1>2. Cardinality(1..b) = Cardinality(1..a)
  BY <1>1, FS_Bijection
<1> QED BY <1>1, <1>2

\* When all commands have ended, none died and none rewrote a reflog, the reflog of
\* a branch or tag tells every logged update once and nothing else, in whatever order
\* the lines came in (append_reflog_entry, transaction.rs:157-185).
THEOREM LogsComplete == Spec => []LogComplete
<1>1. TypeOK /\ LogInv => LogComplete
  <2> SUFFICES ASSUME TypeOK, LogInv, NEW n \in Name \ {HEAD},
                      \A p \in Proc : pc[p] = "done" /\ cmd[p].kind # "droplog"
               PROVE  \E order \in SetToSeqs(DOMAIN hist[n]) :
                        log[n] = [i \in DOMAIN order |-> hist[n][order[i]]]
    BY DEF LogComplete, At
  <2>1. Told(n) /\ Logging(n) = {}
    BY DEF LogInv, Quiet, Logging
  <2>2. PICK order \in [DOMAIN log[n] -> DOMAIN hist[n]],
             due \in [Logging(n) -> DOMAIN hist[n]] : Matched(n, order, due)
    BY <2>1 DEF Told
  <2>3. /\ log[n] \in Seq(Entry) /\ DOMAIN log[n] = 1..Len(log[n]) /\ Len(log[n]) \in Nat
        /\ DOMAIN hist[n] = 1..Len(hist[n]) /\ Len(hist[n]) \in Nat
    BY StateForms
  <2>4. Len(log[n]) = Len(hist[n])
    <3>1. order \in Bijection(DOMAIN log[n], DOMAIN hist[n])
      BY <2>1, <2>2 DEF Matched, Bijection, Injection, Surjection, IsInjective
    <3>2. ExistsBijection(1..Len(log[n]), 1..Len(hist[n]))
      BY <2>3, <3>1 DEF ExistsBijection
    <3> QED BY <2>3, <3>2, SameLength
  <2>5. Cardinality(DOMAIN hist[n]) = Len(log[n])
    <3>1. \A a \in Nat : Cardinality(1..a) = a
      BY FS_Interval
    <3> QED BY <2>3, <2>4, <3>1
  <2>6. order \in SetToSeqs(DOMAIN hist[n])
    <3>1. order \in [1..Cardinality(DOMAIN hist[n]) -> DOMAIN hist[n]]
      BY <2>2, <2>3, <2>5
    <3>2. \A i, j \in 1..Cardinality(DOMAIN hist[n]) : i # j => order[i] # order[j]
      BY <2>2, <2>3, <2>5 DEF Matched
    <3> QED BY <3>1, <3>2 DEF SetToSeqs
  <2>7. log[n] = [i \in DOMAIN order |-> hist[n][order[i]]]
    <3>1. log[n] = [i \in DOMAIN log[n] |-> log[n][i]]
      <4> DEFINE lines == log[n]
      <4>1. lines \in [1..Len(lines) -> Entry]
        BY <2>3
      <4> HIDE DEF lines
      <4>2. lines = [i \in DOMAIN lines |-> lines[i]]
        BY <4>1
      <4> QED BY <4>2 DEF lines
    <3>2. DOMAIN order = DOMAIN log[n] /\ \A i \in DOMAIN log[n] : log[n][i] = hist[n][order[i]]
      BY <2>2 DEF Matched
    <3> QED BY <3>1, <3>2
  <2> QED BY <2>6, <2>7, Zenon
<1>2. RefInv /\ LogInv /\ [Next]_vars => LogInv'
  BY LogStep
<1> QED BY <1>1, <1>2, LogInit, RefInvariant, RefTypes, PTL DEF Spec

-----------------------------------------------------------------------------
(***************************************************************************)
(* The files backend keeps the promise of AtomicRefs, and pack-refs moves  *)
(* refs without changing what they resolve to, for any refs, commands,     *)
(* processes and crashes, under two hypotheses about what is run:          *)
(*                                                                         *)
(*   OnlyHeadSymbolic   only HEAD is a symbolic ref, and it is set without *)
(*                      an expected old value;                             *)
(*   SafePacking        nothing is packed; or refs are packed and nobody   *)
(*                      deletes a ref or prunes; or one pack-refs of any   *)
(*                      kind runs and nobody writes a ref.                 *)
(*                                                                         *)
(* Without the first an expected value is compared with a ref nobody has   *)
(* locked; without the second packed-refs holds values that the check of   *)
(* an expected value overlooks, or a loose file goes that was written      *)
(* after it was collected.                                                 *)
(***************************************************************************)

\* An operation that fits OnlyHeadSymbolic.
Plain(o) == IF o.name = HEAD THEN o.expected = AnyOld /\ o.new # HEAD ELSE o.new \notin Name

OnlyHeadSymbolic ==
  /\ \A s \in Scenarios :
       s.loose[HEAD] # HEAD /\ \A n \in Name \ {HEAD} : s.loose[n] \notin Name
  /\ \A c \in Commands : c.kind = "tx" => \A i \in DOMAIN c.ops : Plain(c.ops[i])

\* The three ways of packing, by the commands that are run.
NoPacker(f)  == \A p \in Proc : f[p].kind # "pack"
NoRemover(f) == \A p \in Proc :
                  /\ f[p].kind = "pack" => ~f[p].prune
                  /\ f[p].kind = "tx" => \A i \in DOMAIN f[p].ops : f[p].ops[i].new # Absent
NoWriter(f)  == /\ \A p \in Proc : f[p].kind \in {"pack", "droplog"}
                /\ \A p, q \in Proc : f[p].kind = "pack" /\ f[q].kind = "pack" => p = q

SafePacking ==
  \A s \in Scenarios :
    \/ NoPacker(s.cmd) /\ \A n \in Name : s.packed[n] = Absent
    \/ NoRemover(s.cmd) /\ \A n \in Name : s.loose[n] = Absent => s.packed[n] = Absent
    \/ NoWriter(s.cmd)

-----------------------------------------------------------------------------
(* The invariant. *)

\* Only HEAD leads to another ref.
SymOK == loose[HEAD] # HEAD /\ \A n \in Name \ {HEAD} : loose[n] \notin Name

\* Each control point belongs to a command of some kind.
KindOK ==
  \A p \in Proc :
    /\ pc[p] \in {"packed", "prior", "create", "write", "rename", "prune"} => cmd[p].kind = "pack"
    /\ pc[p] \in {"next", "locked", "checked", "logging", "headlog", "dropping"} =>
         cmd[p].kind \in {"tx", "commit"}

\* The queue of a transaction and how far its caller has come.
QueueOK ==
  \A p \in Proc :
    /\ \A i \in DOMAIN todo[p] : Plain(todo[p][i])
    /\ pc[p] \in {"locked", "checked"} => op[p] = Head(todo[p])
    /\ pc[p] \in {"tip", "tip2"} => seen[p] # HEAD
    /\ pc[p] \in {"start", "tip", "tip2"} => outcome[p] = "idle"
    /\ pc[p] \in {"next", "locked", "checked", "logging", "headlog"} =>
         outcome[p] = Atomic!Running

\* What was compared is still there: nobody else moves a ref whose lock is held.
CheckedOK ==
  \A p \in Proc : pc[p] = "checked" =>
    /\ Atomic!Met(op[p].expected, seen[p])
    /\ op[p].name # HEAD => seen[p] = loose[op[p].name]

\* Nothing is packed.
Unpacked == NoPacker(cmd) /\ \A n \in Name : packed[n] = Absent

\* A ref is packed, or about to be, only while its loose file is there, and that stays.
Covered ==
  /\ NoRemover(cmd)
  /\ \A p \in Proc :
       /\ prune[p] = {} /\ \A i \in DOMAIN todo[p] : todo[p][i].new # Absent
       /\ pc[p] = "packed" => map[p][HEAD] = HEAD
  /\ \A n \in Name : loose[n] = Absent =>
       /\ packed[n] = Absent
       /\ plock = NoFile \/ plock[n] = Absent
       /\ \A p \in Proc :
            \/ pc[p] \in {"prior", "create", "write", "rename"}
            \/ pc[p] = "packed" /\ n # HEAD
            => map[p][n] = Absent

\* A branch or tag that names an object.
Direct(n) == n # HEAD /\ View[n] \in Oid

\* What the packer has collected, at each control point.
Collected(p) ==
  /\ pc[p] = "packed" =>
       \A n \in Name : map[p][n] = IF n = HEAD THEN HEAD ELSE loose[n]
  /\ pc[p] = "prior" =>
       \A n \in Name : map[p][n] = IF Direct(n) THEN View[n] ELSE Absent
  /\ pc[p] \in {"create", "write", "rename"} =>
       \A n \in Name : map[p][n] = IF Direct(n) THEN View[n] ELSE packed[n]
  /\ pc[p] = "write" => fd[p] = "lock"
  /\ pc[p] = "rename" => plock = map[p]
  /\ pc[p] \in {"prior", "create", "write", "rename", "prune"} =>
       \A n \in prune[p] : Direct(n)
  /\ pc[p] = "prune" => \A n \in prune[p] : packed[n] = View[n]

Repacked == NoWriter(cmd) /\ \A p \in Proc : Collected(p)

PackOK == Unpacked \/ Covered \/ Repacked

AtomicInv == SymOK /\ KindOK /\ QueueOK /\ CheckedOK /\ PackOK

-----------------------------------------------------------------------------
(* The invariant holds at first and is kept. *)

LEMMA AtomicInit ==
  ASSUME OnlyHeadSymbolic, SafePacking, Init
  PROVE  AtomicInv
<1> USE RefConstants
<1>1. PICK s \in Scenarios : loose = s.loose /\ packed = s.packed /\ cmd = s.cmd
  BY DEF Init
<1>2. /\ \A p \in Proc : pc[p] = "start" /\ todo[p] = <<>> /\ outcome[p] = "idle" /\ prune[p] = {}
      /\ plock = NoFile
  BY DEF Init
<1>3. SymOK
  BY <1>1 DEF OnlyHeadSymbolic, SymOK
<1>4. KindOK /\ QueueOK /\ CheckedOK
  BY <1>2 DEF KindOK, QueueOK, CheckedOK
<1>5. PackOK
  <2>1. CASE NoPacker(s.cmd) /\ \A n \in Name : s.packed[n] = Absent
    BY <1>1, <2>1 DEF PackOK, Unpacked
  <2>2. CASE NoRemover(s.cmd) /\ \A n \in Name : s.loose[n] = Absent => s.packed[n] = Absent
    BY <1>1, <1>2, <2>2 DEF PackOK, Covered
  <2>3. CASE NoWriter(s.cmd)
    BY <1>1, <1>2, <2>3 DEF PackOK, Repacked, Collected
  <2> QED BY <2>1, <2>2, <2>3 DEF SafePacking
<1> QED BY <1>3, <1>4, <1>5 DEF AtomicInv

\* What a command line asks of refs fits the hypothesis, as does commit's update.
LEMMA PlainCommands ==
  ASSUME OnlyHeadSymbolic, TypeOK, NEW p \in Proc, cmd[p].kind = "tx"
  PROVE  \A i \in DOMAIN cmd[p].ops : Plain(cmd[p].ops[i])
<1>1. cmd[p] \in Commands
  BY DEF TypeOK
<1> QED BY <1>1 DEF OnlyHeadSymbolic

LEMMA PlainCommit ==
  ASSUME NEW n \in Name \ {HEAD}, NEW e, NEW v \in Oid
  PROVE  /\ \A i \in DOMAIN <<Update(n, e, v, TRUE)>> : Plain(<<Update(n, e, v, TRUE)>>[i])
         /\ \A i \in DOMAIN <<Update(n, e, v, TRUE)>> : <<Update(n, e, v, TRUE)>>[i].new # Absent
  BY RefConstants DEF Plain, Update

\* What is left of a queue was in it.
LEMMA QueueTail ==
  ASSUME NEW S, NEW q \in Seq(S), q # <<>>
  PROVE  /\ Head(q) = q[1] /\ 1 \in DOMAIN q
         /\ \A i \in DOMAIN Tail(q) : i + 1 \in DOMAIN q /\ Tail(q)[i] = q[i + 1]
  OBVIOUS

\* HEAD leads to a branch, and not to itself.
LEMMA HeadLeads ==
  ASSUME TypeOK, SymOK
  PROVE  View[HEAD] # HEAD
  BY RefConstants DEF TypeOK, SymOK, View

\* The refs themselves, their queues and the four control points that move them.
FlowOK == SymOK /\ KindOK /\ QueueOK /\ CheckedOK

LEMMA CommandFlow ==
  ASSUME OnlyHeadSymbolic, RefInv, FlowOK, NEW p \in Proc,
         StartTx(p) \/ ReadHead(p) \/ ReadTipLoose(p) \/ ReadTipPacked(p)
  PROVE  FlowOK'
<1> USE RefConstants, StateForms DEF At, GoTo, Set, Finish, Submit, tvars, pvars,
        Atomic!Running, RefInv
<1>1. CASE StartTx(p)
  <2>1. \A i \in DOMAIN cmd[p].ops : Plain(cmd[p].ops[i])
    BY <1>1, PlainCommands DEF StartTx
  <2>2. SymOK' /\ CheckedOK'
    BY <1>1 DEF StartTx, FlowOK, SymOK, CheckedOK
  <2>3. KindOK'
    BY <1>1 DEF StartTx, FlowOK, KindOK
  <2>4. QueueOK'
    BY <1>1, <2>1 DEF StartTx, FlowOK, QueueOK
  <2> QED BY <2>2, <2>3, <2>4 DEF FlowOK
<1>2. CASE ReadHead(p)
  <2>1. View[HEAD] # HEAD
    BY HeadLeads DEF FlowOK
  <2>2. SymOK' /\ CheckedOK'
    BY <1>2 DEF ReadHead, FlowOK, SymOK, CheckedOK
  <2>3. KindOK'
    BY <1>2 DEF ReadHead, FlowOK, KindOK
  <2>4. QueueOK'
    BY <1>2, <2>1 DEF ReadHead, FlowOK, QueueOK
  <2> QED BY <2>2, <2>3, <2>4 DEF FlowOK
<1>3. CASE ReadTipLoose(p)
  <2>1. seen[p] \in Name \ {HEAD} /\ cmd[p].oid \in Oid /\ cmd[p].kind = "commit"
    BY <1>3, CommandTypes DEF ReadTipLoose, PhaseOK, FlowOK, QueueOK
  <2>2. SymOK' /\ CheckedOK'
    BY <1>3 DEF ReadTipLoose, FlowOK, SymOK, CheckedOK
  <2>3. KindOK'
    BY <1>3, <2>1 DEF ReadTipLoose, FlowOK, KindOK
  <2>4. \A i \in DOMAIN <<Update(seen[p], loose[seen[p]], cmd[p].oid, TRUE)>> :
          Plain(<<Update(seen[p], loose[seen[p]], cmd[p].oid, TRUE)>>[i])
    BY <2>1, PlainCommit
  <2>5. QueueOK'
    BY <1>3, <2>4 DEF ReadTipLoose, FlowOK, QueueOK
  <2> QED BY <2>2, <2>3, <2>5 DEF FlowOK
<1>4. CASE ReadTipPacked(p)
  <2>1. seen[p] \in Name \ {HEAD} /\ cmd[p].oid \in Oid /\ cmd[p].kind = "commit"
    BY <1>4, CommandTypes DEF ReadTipPacked, PhaseOK, FlowOK, QueueOK
  <2>2. SymOK' /\ CheckedOK'
    BY <1>4 DEF ReadTipPacked, FlowOK, SymOK, CheckedOK
  <2>3. KindOK'
    BY <1>4, <2>1 DEF ReadTipPacked, FlowOK, KindOK
  <2>4. \A i \in DOMAIN <<Update(seen[p], packed[seen[p]], cmd[p].oid, TRUE)>> :
          Plain(<<Update(seen[p], packed[seen[p]], cmd[p].oid, TRUE)>>[i])
    BY <2>1, PlainCommit
  <2>5. QueueOK'
    BY <1>4, <2>4 DEF ReadTipPacked, FlowOK, QueueOK
  <2> QED BY <2>2, <2>3, <2>5 DEF FlowOK
<1> QED BY <1>1, <1>2, <1>3, <1>4

\* The ref under its own lock, seen through RefTarget::resolve.
LEMMA DirectDeref ==
  ASSUME NEW refs, NEW n \in Name, refs[n] \notin Name
  PROVE  Atomic!Deref(refs, n) = refs[n]
  BY DEF Atomic!Deref

\* The current operation is the first of the queue.
LEMMA CurrentPlain ==
  ASSUME TypeOK, PhaseOK, QueueOK, NEW p \in Proc, pc[p] \in {"locked", "checked"}
  PROVE  /\ Plain(op[p]) /\ op[p] = Head(todo[p]) /\ op[p] = todo[p][1] /\ 1 \in DOMAIN todo[p]
         /\ \A i \in DOMAIN Tail(todo[p]) : i + 1 \in DOMAIN todo[p] /\ Tail(todo[p])[i] = todo[p][i + 1]
<1>1. todo[p] \in Seq(Ops) /\ todo[p] # <<>> /\ op[p] = Head(todo[p])
  BY DEF TypeOK, PhaseOK, QueueOK
<1>2. /\ Head(todo[p]) = todo[p][1] /\ 1 \in DOMAIN todo[p]
      /\ \A i \in DOMAIN Tail(todo[p]) : i + 1 \in DOMAIN todo[p] /\ Tail(todo[p])[i] = todo[p][i + 1]
  BY <1>1, QueueTail
<1> QED BY <1>1, <1>2 DEF QueueOK

\* Two processes that have compared hold the locks of different refs.
LEMMA CheckedApart ==
  ASSUME LockDiscipline, NEW p \in Proc, NEW q \in Proc, p # q,
         pc[p] = "checked", pc[q] = "checked"
  PROVE  op[p].name # op[q].name
  BY DEF LockDiscipline

\* The refs after the operation of p: still only HEAD is symbolic.
LEMMA RefSet ==
  ASSUME TypeOK, SymOK, NEW n \in Name, NEW v,
         IF n = HEAD THEN v # HEAD ELSE v \notin Name, loose' = Set(loose, n, v)
  PROVE  SymOK'
  BY RefConstants, StateForms DEF SymOK, Set

LEMMA TransactionFlow ==
  ASSUME RefInv, FlowOK, NEW p \in Proc, Transaction(p)
  PROVE  FlowOK'
<1> USE RefConstants, StateForms DEF At, GoTo, Set, Finish, tvars, pvars,
        Atomic!Running, RefInv
<1>1. CASE Acquire(p)
  <2>1. SymOK' /\ CheckedOK'
    BY <1>1 DEF Acquire, FlowOK, SymOK, CheckedOK
  <2>2. KindOK'
    BY <1>1 DEF Acquire, FlowOK, KindOK
  <2>3. QueueOK'
    BY <1>1 DEF Acquire, FlowOK, QueueOK
  <2> QED BY <2>1, <2>2, <2>3 DEF FlowOK
<1>2. CASE AlreadyLocked(p)
  <2>1. SymOK' /\ CheckedOK'
    BY <1>2 DEF AlreadyLocked, FlowOK, SymOK, CheckedOK
  <2>2. KindOK'
    BY <1>2 DEF AlreadyLocked, FlowOK, KindOK
  <2>3. QueueOK'
    BY <1>2 DEF AlreadyLocked, FlowOK, QueueOK
  <2> QED BY <2>1, <2>2, <2>3 DEF FlowOK
<1>3. CASE Check(p)
  <2>1. op[p].name # HEAD => LooseDeref(op[p].name) = loose[op[p].name]
    BY DirectDeref DEF LooseDeref, FlowOK, SymOK
  <2>2. SymOK'
    BY <1>3 DEF Check, FlowOK, SymOK
  <2>3. CheckedOK'
    BY <1>3, <2>1 DEF Check, FlowOK, CheckedOK
  <2>4. KindOK'
    BY <1>3 DEF Check, FlowOK, KindOK
  <2>5. QueueOK'
    BY <1>3 DEF Check, FlowOK, QueueOK
  <2> QED BY <2>2, <2>3, <2>4, <2>5 DEF FlowOK
<1>4. CASE Publish(p)
  <2>1. /\ pc[p] = "checked" /\ loose' = Set(loose, op[p].name, op[p].new)
        /\ op' = op /\ seen' = seen /\ outcome' = outcome /\ cmd' = cmd
        /\ todo' = Set(todo, p, Tail(todo[p]))
        /\ GoTo(p, "logging") \/ GoTo(p, "next")
    BY <1>4 DEF Publish
  <2>2. Plain(op[p])
    BY <2>1, CurrentPlain DEF FlowOK
  <2>3. \A i \in DOMAIN Tail(todo[p]) : Plain(Tail(todo[p])[i])
    BY <2>1, CurrentPlain DEF FlowOK, QueueOK
  <2>4. SymOK'
    BY <2>1, <2>2, RefSet DEF FlowOK, Plain
  <2>5. \A q \in Proc : q # p /\ pc[q] = "checked" => op[q].name # op[p].name
    BY <2>1, CheckedApart
  <2>6. CheckedOK'
    BY <2>1, <2>5 DEF FlowOK, CheckedOK
  <2>7. KindOK'
    BY <2>1 DEF FlowOK, KindOK
  <2>8. QueueOK'
    BY <2>1, <2>3 DEF FlowOK, QueueOK
  <2> QED BY <2>4, <2>6, <2>7, <2>8 DEF FlowOK
<1>5. CASE RemoveLoose(p)
  <2>1. /\ pc[p] = "checked" /\ loose' = Set(loose, op[p].name, Absent)
        /\ op' = op /\ seen' = seen /\ outcome' = outcome /\ cmd' = cmd
        /\ todo' = Set(todo, p, Tail(todo[p]))
        /\ GoTo(p, "dropping")
    BY <1>5 DEF RemoveLoose
  <2>3. \A i \in DOMAIN Tail(todo[p]) : Plain(Tail(todo[p])[i])
    BY <2>1, CurrentPlain DEF FlowOK, QueueOK
  <2>4. SymOK'
    BY <2>1, RefSet DEF FlowOK
  <2>5. \A q \in Proc : q # p /\ pc[q] = "checked" => op[q].name # op[p].name
    BY <2>1, CheckedApart
  <2>6. CheckedOK'
    BY <2>1, <2>5 DEF FlowOK, CheckedOK
  <2>7. KindOK'
    BY <2>1 DEF FlowOK, KindOK
  <2>8. QueueOK'
    BY <2>1, <2>3 DEF FlowOK, QueueOK
  <2> QED BY <2>4, <2>6, <2>7, <2>8 DEF FlowOK
<1>6. CASE AppendLog(p) \/ AppendHeadLog(p) \/ Drop(p) \/ Return(p)
  <2>1. SymOK' /\ CheckedOK'
    BY <1>6 DEF AppendLog, AppendHeadLog, Drop, Return, FlowOK, SymOK, CheckedOK
  <2>2. KindOK'
    BY <1>6 DEF AppendLog, AppendHeadLog, Drop, Return, FlowOK, KindOK
  <2>3. QueueOK'
    BY <1>6 DEF AppendLog, AppendHeadLog, Drop, Return, FlowOK, QueueOK
  <2> QED BY <2>1, <2>2, <2>3 DEF FlowOK
<1> QED BY <1>1, <1>2, <1>3, <1>4, <1>5, <1>6 DEF Transaction

\* Only pack-refs packs and prunes.
LEMMA Packer ==
  ASSUME KindOK, NEW p \in Proc, PackRefs(p)
  PROVE  cmd[p].kind = "pack"
  BY DEF PackRefs, CollectLoose, CollectPacked, ReadPrior, CreatePlock, WritePlock,
         RenamePlock, PruneLoose, PackDone, At, KindOK

\* Pruning meets no transaction.
LEMMA PruneAlone ==
  ASSUME KindOK, PackOK, NEW p \in Proc, PruneLoose(p)
  PROVE  \A q \in Proc : pc[q] # "checked"
<1>1. cmd[p].kind = "pack" /\ prune[p] # {}
  BY Packer DEF PackRefs, PruneLoose
<1>2. Repacked
  BY <1>1 DEF PackOK, Unpacked, NoPacker, Covered
<1> QED BY <1>2 DEF Repacked, NoWriter, KindOK

LEMMA OtherFlow ==
  ASSUME RefInv, FlowOK, PackOK, NEW p \in Proc,
         PackRefs(p) \/ ReadLog(p) \/ RewriteLog(p) \/ Crash(p)
  PROVE  FlowOK'
<1> USE RefConstants, StateForms DEF At, GoTo, Set, tvars, pvars, RefInv
<1>1. CASE CollectLoose(p) \/ CollectPacked(p) \/ ReadPrior(p) \/ CreatePlock(p)
  <2>1. SymOK' /\ CheckedOK'
    BY <1>1 DEF CollectLoose, CollectPacked, ReadPrior, CreatePlock, FlowOK, SymOK, CheckedOK
  <2>2. KindOK'
    BY <1>1 DEF CollectLoose, CollectPacked, ReadPrior, CreatePlock, FlowOK, KindOK
  <2>3. QueueOK'
    BY <1>1 DEF CollectLoose, CollectPacked, ReadPrior, CreatePlock, FlowOK, QueueOK
  <2> QED BY <2>1, <2>2, <2>3 DEF FlowOK
<1>2. CASE WritePlock(p) \/ RenamePlock(p) \/ PackDone(p)
  <2>1. SymOK' /\ CheckedOK'
    BY <1>2 DEF WritePlock, RenamePlock, PackDone, FlowOK, SymOK, CheckedOK
  <2>2. KindOK'
    BY <1>2 DEF WritePlock, RenamePlock, PackDone, FlowOK, KindOK
  <2>3. QueueOK'
    BY <1>2 DEF WritePlock, RenamePlock, PackDone, FlowOK, QueueOK
  <2> QED BY <2>1, <2>2, <2>3 DEF FlowOK
<1>3. CASE PruneLoose(p)
  <2>1. PICK n \in Name : loose' = Set(loose, n, Absent)
    BY <1>3 DEF PruneLoose, TypeOK
  <2>2. pc' = pc /\ UNCHANGED <<cmd, op, seen, todo, outcome>>
    BY <1>3 DEF PruneLoose
  <2>3. \A q \in Proc : pc[q] # "checked"
    BY <1>3, PruneAlone DEF FlowOK
  <2>4. SymOK'
    BY <2>1, RefSet DEF FlowOK
  <2>5. KindOK' /\ CheckedOK'
    BY <2>2, <2>3 DEF FlowOK, KindOK, CheckedOK
  <2>6. QueueOK'
    BY <2>2 DEF FlowOK, QueueOK
  <2> QED BY <2>4, <2>5, <2>6 DEF FlowOK
<1>4. CASE ReadLog(p) \/ RewriteLog(p) \/ Crash(p)
  <2>1. SymOK' /\ CheckedOK'
    BY <1>4 DEF ReadLog, RewriteLog, Crash, FlowOK, SymOK, CheckedOK
  <2>2. KindOK'
    BY <1>4 DEF ReadLog, RewriteLog, Crash, FlowOK, KindOK
  <2>3. QueueOK'
    BY <1>4 DEF ReadLog, RewriteLog, Crash, FlowOK, QueueOK
  <2> QED BY <2>1, <2>2, <2>3 DEF FlowOK
<1> QED BY <1>1, <1>2, <1>3, <1>4 DEF PackRefs

-----------------------------------------------------------------------------
(* What is packed. *)

\* Only pack-refs touches packed-refs, its lock and what it has collected.
LEMMA OthersPackNothing ==
  ASSUME NEW p \in Proc, Step(p), ~PackRefs(p)
  PROVE  UNCHANGED pvars
<1> USE DEF pvars, At, GoTo, Set, Finish, Submit
<1>1. CASE StartTx(p) \/ ReadHead(p) \/ ReadTipLoose(p) \/ ReadTipPacked(p)
  BY <1>1 DEF StartTx, ReadHead, ReadTipLoose, ReadTipPacked
<1>2. CASE Transaction(p)
  BY <1>2 DEF Transaction, Acquire, AlreadyLocked, Check, Publish, AppendLog, AppendHeadLog,
              RemoveLoose, Drop, Return
<1>3. CASE ReadLog(p) \/ RewriteLog(p) \/ Crash(p)
  BY <1>3 DEF ReadLog, RewriteLog, Crash
<1> QED BY <1>1, <1>2, <1>3 DEF Step

\* Without a packer packed-refs stays empty.
LEMMA UnpackedStep ==
  ASSUME TypeOK, KindOK, Unpacked, NEW p \in Proc, Step(p)
  PROVE  Unpacked'
<1>1. ~PackRefs(p)
  BY Packer DEF Unpacked, NoPacker
<1> QED BY <1>1, OthersPackNothing, StepKeeps DEF Unpacked, NoPacker, pvars

LEMMA QueueSet ==
  ASSUME TypeOK, Covered, NEW p \in Proc, NEW ops,
         \A i \in DOMAIN ops : ops[i].new # Absent, todo' = Set(todo, p, ops)
  PROVE  \A q \in Proc : \A i \in DOMAIN todo'[q] : todo'[q][i].new # Absent
  BY StateForms DEF Covered, Set

\* commit's update is no delete, whatever it read.
LEMMA CommitNoDelete ==
  ASSUME RefInv, FlowOK, Covered, NEW p \in Proc, pc[p] \in {"tip", "tip2"}, NEW e,
         todo' = Set(todo, p, <<Update(seen[p], e, cmd[p].oid, TRUE)>>)
  PROVE  \A q \in Proc : \A i \in DOMAIN todo'[q] : todo'[q][i].new # Absent
<1>1. seen[p] \in Name \ {HEAD} /\ cmd[p].oid \in Oid
  BY CommandTypes DEF PhaseOK, FlowOK, QueueOK, RefInv
<1>2. \A i \in DOMAIN <<Update(seen[p], e, cmd[p].oid, TRUE)>> :
        <<Update(seen[p], e, cmd[p].oid, TRUE)>>[i].new # Absent
  BY <1>1, PlainCommit
<1>3. PICK ops : ops = <<Update(seen[p], e, cmd[p].oid, TRUE)>>
  OBVIOUS
<1>4. \A i \in DOMAIN ops : ops[i].new # Absent
  BY <1>2, <1>3
<1> QED BY <1>3, <1>4, QueueSet DEF RefInv

\* The queues of transactions that delete nothing.
LEMMA NoDeletes ==
  ASSUME RefInv, FlowOK, Covered, NEW p \in Proc, Step(p)
  PROVE  /\ \A q \in Proc : \A i \in DOMAIN todo'[q] : todo'[q][i].new # Absent
         /\ pc[p] = "checked" => op[p].new # Absent
<1>1. pc[p] = "checked" => op[p].new # Absent
  BY CurrentPlain DEF FlowOK, Covered, RefInv
<1>2. CASE todo' = todo
  BY <1>1, <1>2 DEF Covered
<1>3. CASE StartTx(p)
  <2>1. \A i \in DOMAIN cmd[p].ops : cmd[p].ops[i].new # Absent
    BY <1>3 DEF StartTx, Covered, NoRemover
  <2>2. todo' = Set(todo, p, cmd[p].ops)
    BY <1>3 DEF StartTx, Submit
  <2> QED BY <1>1, <2>1, <2>2, QueueSet DEF RefInv
<1>4. CASE ReadTipLoose(p) /\ loose[seen[p]] \in Oid
  <2>1. /\ pc[p] = "tip"
        /\ todo' = Set(todo, p, <<Update(seen[p], loose[seen[p]], cmd[p].oid, TRUE)>>)
    BY <1>4, RefConstants DEF ReadTipLoose, Submit, At
  <2> QED BY <1>1, <2>1, CommitNoDelete
<1>5. CASE ReadTipPacked(p)
  <2>1. /\ pc[p] = "tip2"
        /\ todo' = Set(todo, p, <<Update(seen[p], packed[seen[p]], cmd[p].oid, TRUE)>>)
    BY <1>5 DEF ReadTipPacked, Submit, At
  <2> QED BY <1>1, <2>1, CommitNoDelete
<1>6. CASE Publish(p) \/ RemoveLoose(p)
  <2>1. pc[p] = "checked" /\ todo' = Set(todo, p, Tail(todo[p]))
    BY <1>6 DEF Publish, RemoveLoose, At
  <2>2. \A i \in DOMAIN Tail(todo[p]) : Tail(todo[p])[i].new # Absent
    BY <2>1, CurrentPlain DEF FlowOK, Covered, RefInv
  <2> QED BY <1>1, <2>1, <2>2, QueueSet DEF RefInv
<1>7. CASE ReadHead(p) \/ (ReadTipLoose(p) /\ loose[seen[p]] \notin Oid)
  BY <1>7, <1>2 DEF ReadHead, ReadTipLoose
<1>8. CASE PackRefs(p) \/ ReadLog(p) \/ RewriteLog(p) \/ Crash(p)
  BY <1>8, <1>2
  DEF PackRefs, CollectLoose, CollectPacked, ReadPrior, CreatePlock, WritePlock,
      RenamePlock, PruneLoose, PackDone, ReadLog, RewriteLog, Crash, tvars
<1>9. CASE Acquire(p) \/ AlreadyLocked(p) \/ Check(p) \/ AppendLog(p) \/ AppendHeadLog(p)
           \/ Drop(p) \/ Return(p)
  BY <1>9, <1>2 DEF Acquire, AlreadyLocked, Check, AppendLog, AppendHeadLog, Drop, Return, tvars
<1> QED BY <1>3, <1>4, <1>5, <1>6, <1>7, <1>8, <1>9 DEF Step, Transaction

\* While nobody deletes or prunes, a loose file that is there stays.
LEMMA LooseStays ==
  ASSUME RefInv, FlowOK, Covered, NEW p \in Proc, Step(p), ~PackRefs(p)
  PROVE  \A n \in Name : loose'[n] = Absent => loose[n] = Absent
<1> USE DEF RefInv, At, GoTo, Set, Finish, Submit, tvars
<1>1. CASE loose' = loose
  BY <1>1
<1>2. CASE Publish(p)
  BY <1>2, StateForms DEF Publish
<1>3. CASE RemoveLoose(p)
  BY <1>3, NoDeletes DEF RemoveLoose
<1>4. CASE Acquire(p) \/ AlreadyLocked(p) \/ Check(p) \/ AppendLog(p) \/ AppendHeadLog(p)
           \/ Drop(p) \/ Return(p)
  BY <1>1, <1>4 DEF Acquire, AlreadyLocked, Check, AppendLog, AppendHeadLog, Drop, Return
<1>5. CASE StartTx(p) \/ ReadHead(p) \/ ReadTipLoose(p) \/ ReadTipPacked(p)
  BY <1>1, <1>5 DEF StartTx, ReadHead, ReadTipLoose, ReadTipPacked
<1>6. CASE ReadLog(p) \/ RewriteLog(p) \/ Crash(p)
  BY <1>1, <1>6 DEF ReadLog, RewriteLog, Crash
<1> QED BY <1>2, <1>3, <1>4, <1>5, <1>6 DEF Step, Transaction

\* Who does not pack gets to no control point of pack-refs.
LEMMA OthersStayOut ==
  ASSUME TypeOK, NEW p \in Proc, Step(p), ~PackRefs(p)
  PROVE  \A q \in Proc : pc'[q] \in {"packed", "prior", "create", "write", "rename", "prune"} =>
           pc'[q] = pc[q]
<1> USE StateForms DEF At, GoTo, Set, Finish, Submit
<1>1. CASE StartTx(p) \/ ReadHead(p) \/ ReadTipLoose(p) \/ ReadTipPacked(p)
  BY <1>1 DEF StartTx, ReadHead, ReadTipLoose, ReadTipPacked
<1>2. CASE Acquire(p) \/ AlreadyLocked(p) \/ Check(p) \/ Publish(p) \/ RemoveLoose(p)
  BY <1>2 DEF Acquire, AlreadyLocked, Check, Publish, RemoveLoose
<1>3. CASE AppendLog(p) \/ AppendHeadLog(p) \/ Drop(p) \/ Return(p)
  BY <1>3 DEF AppendLog, AppendHeadLog, Drop, Return
<1>4. CASE ReadLog(p) \/ RewriteLog(p) \/ Crash(p)
  BY <1>4 DEF ReadLog, RewriteLog, Crash
<1> QED BY <1>1, <1>2, <1>3, <1>4 DEF Step, Transaction

LEMMA CoveredStep ==
  ASSUME RefInv, FlowOK, Covered, NEW p \in Proc, Step(p)
  PROVE  Covered'
<1> DEFINE Keeps(q) == prune'[q] = {} /\ (pc'[q] = "packed" => map'[q][HEAD] = HEAD)
<1> DEFINE Holds(n) ==
      /\ packed'[n] = Absent
      /\ plock' = NoFile \/ plock'[n] = Absent
      /\ \A q \in Proc :
           \/ pc'[q] \in {"prior", "create", "write", "rename"}
           \/ pc'[q] = "packed" /\ n # HEAD
           => map'[q][n] = Absent
<1>1. SUFFICES /\ \A q \in Proc : Keeps(q)
               /\ \A n \in Name : loose'[n] = Absent => Holds(n)
  <2>1. NoRemover(cmd')
    BY StepKeeps DEF Covered, RefInv
  <2>2. \A q \in Proc : \A i \in DOMAIN todo'[q] : todo'[q][i].new # Absent
    BY NoDeletes
  <2>3. NoFile' = NoFile
    BY DEF NoFile
  <2> QED BY <2>1, <2>2, <2>3 DEF Covered
<1>2. CASE ~PackRefs(p)
  <2>1. UNCHANGED pvars
    BY <1>2, OthersPackNothing
  <2>2. \A n \in Name : loose'[n] = Absent => loose[n] = Absent
    BY <1>2, LooseStays
  <2>3. \A q \in Proc : pc'[q] \in {"packed", "prior", "create", "write", "rename"} =>
          pc'[q] = pc[q]
    BY <1>2, OthersStayOut DEF RefInv
  <2> QED BY <2>1, <2>2, <2>3 DEF Covered, pvars
<1>3. CASE PackRefs(p)
  <2> USE RefConstants, StateForms DEF RefInv, At, GoTo, Set
  <2>0. cmd[p].prune = FALSE \/ ~cmd[p].prune
    BY <1>3, Packer DEF FlowOK, Covered, NoRemover
  <2>1. CASE CollectLoose(p)
    BY <2>1 DEF CollectLoose, Covered
  <2>2. CASE CollectPacked(p)
    BY <2>0, <2>2 DEF CollectPacked, Covered
  <2>3. CASE ReadPrior(p)
    BY <2>3 DEF ReadPrior, Covered
  <2>4. CASE CreatePlock(p)
    BY <2>4 DEF CreatePlock, NoMap, Covered
  <2>5. CASE WritePlock(p)
    BY <2>5 DEF WritePlock, Covered
  <2>6. CASE RenamePlock(p)
    BY <2>6 DEF RenamePlock, Covered
  <2>7. CASE PruneLoose(p)
    BY <2>7 DEF PruneLoose, Covered
  <2>8. CASE PackDone(p)
    BY <2>8 DEF PackDone, Covered, tvars, pvars
  <2> QED BY <1>3, <2>1, <2>2, <2>3, <2>4, <2>5, <2>6, <2>7, <2>8 DEF PackRefs
<1> QED BY <1>2, <1>3

-----------------------------------------------------------------------------
(* The one packer. *)

\* Where one packer is at work nobody else is at one of its control points, and
\* no ref is written.
LEMMA PackerAlone ==
  ASSUME TypeOK, PhaseOK, KindOK, Repacked, NEW p \in Proc, Step(p)
  PROVE  /\ PackRefs(p) => \A q \in Proc : q # p =>
              pc[q] \notin {"packed", "prior", "create", "write", "rename", "prune"}
         /\ ~PackRefs(p) => loose' = loose
<1>1. cmd[p].kind \in {"pack", "droplog"}
  BY DEF Repacked, NoWriter
<1>2. PackRefs(p) => \A q \in Proc : q # p =>
        pc[q] \notin {"packed", "prior", "create", "write", "rename", "prune"}
  BY Packer DEF Repacked, NoWriter, KindOK
<1>3. ~Transaction(p)
  BY <1>1 DEF Transaction, Acquire, AlreadyLocked, Check, Publish, AppendLog, AppendHeadLog,
              RemoveLoose, Drop, Return, At, KindOK
<1>4. ~(StartTx(p) \/ ReadHead(p) \/ ReadTipLoose(p) \/ ReadTipPacked(p))
  BY <1>1 DEF StartTx, ReadHead, ReadTipLoose, ReadTipPacked, At, PhaseOK
<1> QED BY <1>2, <1>3, <1>4 DEF Step, ReadLog, RewriteLog, Crash

\* A packer's own step.
LEMMA PackStep ==
  ASSUME TypeOK, PhaseOK, NEW p \in Proc, Collected(p), PackRefs(p)
  PROVE  /\ \A n \in Name : View'[n] = View[n]
         /\ Collected(p)'
<1> USE RefConstants, StateForms DEF At, GoTo, Set
<1>1. \A n \in Name : View[n] = IF loose[n] # Absent THEN loose[n] ELSE packed[n]
  BY DEF View
<1>2. \A n \in Name : View'[n] = IF loose'[n] # Absent THEN loose'[n] ELSE packed'[n]
  BY DEF View
<1>3. CASE CollectLoose(p)
  <2>1. \A n \in Name : View'[n] = View[n]
    BY <1>1, <1>2, <1>3 DEF CollectLoose
  <2>2. Collected(p)'
    BY <1>3 DEF CollectLoose, Collected
  <2> QED BY <2>1, <2>2
<1>4. CASE CollectPacked(p)
  <2>1. \A n \in Name : View'[n] = View[n]
    BY <1>1, <1>2, <1>4 DEF CollectPacked
  <2>2. \A n \in Name : Direct(n)' <=> Direct(n)
    BY <2>1 DEF Direct
  <2>3. \A n \in Name : Direct(n) <=>
          (IF map[p][n] = Absent THEN packed[n] ELSE map[p][n]) \in Oid
    BY <1>1, <1>4 DEF CollectPacked, Collected, Direct
  <2>4. Collected(p)'
    BY <1>1, <1>4, <2>1, <2>2, <2>3 DEF CollectPacked, Collected
  <2> QED BY <2>1, <2>4
<1>5. CASE ReadPrior(p)
  <2>1. \A n \in Name : View'[n] = View[n]
    BY <1>1, <1>2, <1>5 DEF ReadPrior
  <2>2. \A n \in Name : Direct(n)' <=> Direct(n)
    BY <2>1 DEF Direct
  <2>3. \A n \in Name : Direct(n) => View[n] # Absent
    BY DEF Direct
  <2>5. /\ \A n \in Name : map'[p][n] = IF Direct(n) THEN View[n] ELSE packed[n]
        /\ pc'[p] = "create" /\ packed' = packed /\ prune' = prune
    BY <1>5, <2>3 DEF ReadPrior, Collected
  <2>6. \A n \in prune[p] : n \in Name /\ Direct(n)
    BY <1>5 DEF ReadPrior, Collected, TypeOK
  <2>4. Collected(p)'
    BY <2>1, <2>2, <2>5, <2>6 DEF Collected
  <2> QED BY <2>1, <2>4
<1>6. CASE CreatePlock(p)
  <2>1. \A n \in Name : View'[n] = View[n]
    BY <1>1, <1>2, <1>6 DEF CreatePlock
  <2>2. \A n \in Name : Direct(n)' <=> Direct(n)
    BY <2>1 DEF Direct
  <2>4. Collected(p)'
    BY <1>6, <2>1, <2>2 DEF CreatePlock, Collected, TypeOK
  <2> QED BY <2>1, <2>4
<1>7. CASE WritePlock(p)
  <2>0. fd[p] = "lock" /\ plock' = map[p] /\ packed' = packed
    BY <1>7 DEF WritePlock, Collected
  <2>1. \A n \in Name : View'[n] = View[n]
    BY <1>1, <1>2, <1>7, <2>0 DEF WritePlock
  <2>2. \A n \in Name : Direct(n)' <=> Direct(n)
    BY <2>1 DEF Direct
  <2>4. Collected(p)'
    BY <1>7, <2>0, <2>1, <2>2 DEF WritePlock, Collected, TypeOK
  <2> QED BY <2>1, <2>4
<1>8. CASE RenamePlock(p)
  <2>0. plock = map[p] /\ map[p][HEAD] \in Oid \cup {Absent}
    BY <1>8 DEF RenamePlock, Collected, PhaseOK
  <2>3. plock # NoFile
    BY <2>0 DEF NoFile
  <2>5. packed' = map[p] /\ loose' = loose /\ GoTo(p, "prune") /\ prune' = prune
    BY <1>8, <2>0, <2>3 DEF RenamePlock
  <2>6. \A n \in Name : packed'[n] = IF Direct(n) THEN View[n] ELSE packed[n]
    BY <1>8, <2>5 DEF RenamePlock, Collected
  <2>1. \A n \in Name : View'[n] = View[n]
    BY <1>1, <1>2, <2>5, <2>6
  <2>2. \A n \in Name : Direct(n)' <=> Direct(n)
    BY <2>1 DEF Direct
  <2>7. \A n \in prune[p] : n \in Name /\ Direct(n)
    BY <1>8 DEF RenamePlock, Collected, TypeOK
  <2>4. Collected(p)'
    BY <2>5, <2>1, <2>2, <2>6, <2>7 DEF Collected
  <2> QED BY <2>1, <2>4
<1>9. CASE PruneLoose(p)
  <2>0. PICK n \in prune[p] : loose' = Set(loose, n, Absent) /\ prune' = Set(prune, p, prune[p] \ {n})
    BY <1>9 DEF PruneLoose
  <2>3. /\ n \in Name /\ packed[n] = View[n] /\ packed' = packed /\ pc' = pc /\ pc[p] = "prune"
        /\ \A m \in prune[p] : m \in Name
    BY <1>9, <2>0 DEF PruneLoose, Collected, TypeOK
  <2>1. \A m \in Name : View'[m] = View[m]
    BY <1>1, <1>2, <2>0, <2>3
  <2>2. \A m \in Name : Direct(m)' <=> Direct(m)
    BY <2>1 DEF Direct
  <2>4. Collected(p)'
    BY <2>0, <2>1, <2>2, <2>3 DEF Collected
  <2> QED BY <2>1, <2>4
<1>10. CASE PackDone(p)
  <2>1. \A n \in Name : View'[n] = View[n]
    BY <1>1, <1>2, <1>10 DEF PackDone, pvars
  <2>2. Collected(p)'
    BY <1>10 DEF PackDone, Collected
  <2> QED BY <2>1, <2>2
<1> QED BY <1>3, <1>4, <1>5, <1>6, <1>7, <1>8, <1>9, <1>10 DEF PackRefs

LEMMA RepackedStep ==
  ASSUME RefInv, KindOK, Repacked, NEW p \in Proc, Step(p)
  PROVE  Repacked' /\ \A n \in Name : View'[n] = View[n]
<1>1. TypeOK /\ PhaseOK
  BY DEF RefInv
<1>2. NoWriter(cmd')
  BY <1>1, StepKeeps DEF Repacked
<1>3. CASE PackRefs(p)
  <2>1. /\ \A n \in Name : View'[n] = View[n]
        /\ Collected(p)'
    BY <1>1, <1>3, PackStep DEF Repacked
  <2>2. \A q \in Proc \ {p} : pc'[q] = pc[q]
    BY <1>1, <1>3, StateForms
    DEF PackRefs, CollectLoose, CollectPacked, ReadPrior, CreatePlock, WritePlock,
        RenamePlock, PruneLoose, PackDone, GoTo, Set
  <2>3. \A q \in Proc \ {p} : Collected(q)'
    BY <1>1, <1>3, <2>2, PackerAlone DEF Collected
  <2> QED BY <1>2, <2>1, <2>3 DEF Repacked
<1>4. CASE ~PackRefs(p)
  <2>1. loose' = loose /\ UNCHANGED pvars
    BY <1>1, <1>4, PackerAlone, OthersPackNothing
  <2>2. \A n \in Name : View'[n] = View[n]
    BY <2>1 DEF View, pvars
  <2>3. \A n \in Name : Direct(n)' <=> Direct(n)
    BY <2>2 DEF Direct
  <2>4. \A q \in Proc : pc'[q] \in {"packed", "prior", "create", "write", "rename", "prune"} =>
          pc'[q] = pc[q]
    BY <1>1, <1>4, OthersStayOut
  <2>5. \A q \in Proc : \A n \in prune[q] : n \in Name
    BY <1>1 DEF TypeOK
  <2>6. \A q \in Proc : Collected(q) => Collected(q)'
    BY <2>1, <2>2, <2>3, <2>4, <2>5 DEF Collected, pvars
  <2> QED BY <1>2, <2>2, <2>6 DEF Repacked
<1> QED BY <1>3, <1>4

LEMMA AtomicStep ==
  ASSUME OnlyHeadSymbolic, RefInv, AtomicInv, NEW p \in Proc, Step(p)
  PROVE  AtomicInv'
<1>1. FlowOK'
  BY CommandFlow, TransactionFlow, OtherFlow DEF Step, AtomicInv, FlowOK
<1>2. FlowOK /\ TypeOK
  BY DEF AtomicInv, FlowOK, RefInv
<1>3. PackOK'
  BY <1>2, UnpackedStep, CoveredStep, RepackedStep DEF AtomicInv, PackOK, FlowOK
<1> QED BY <1>1, <1>3 DEF AtomicInv, FlowOK

AtomicVars == <<loose, packed, plock, cmd, pc, todo, op, seen, map, prune, fd, outcome>>

LEMMA AtomicStutter == AtomicInv /\ UNCHANGED vars => AtomicInv'
<1> SUFFICES ASSUME AtomicInv, UNCHANGED vars PROVE AtomicInv'
  OBVIOUS
<1>1. UNCHANGED AtomicVars
  BY DEF AtomicVars, vars, tvars, pvars
<1>2. SymOK' /\ KindOK' /\ QueueOK' /\ CheckedOK'
  BY <1>1 DEF AtomicVars, AtomicInv, SymOK, KindOK, QueueOK, CheckedOK
<1>3. View' = View /\ NoFile' = NoFile
  BY <1>1 DEF AtomicVars, View, NoFile
<1>4. PackOK'
  BY <1>1, <1>3
  DEF AtomicVars, AtomicInv, PackOK, Unpacked, Covered, Repacked, Collected, Direct
<1> QED BY <1>2, <1>4 DEF AtomicInv

\* AtomicInv holds in every reachable state.
THEOREM AtomicInvariant ==
  ASSUME OnlyHeadSymbolic, SafePacking
  PROVE  Spec => [](RefInv /\ AtomicInv)
<1>1. Init => AtomicInv
  BY AtomicInit
<1>2. RefInv /\ AtomicInv /\ [Next]_vars => AtomicInv'
  BY AtomicStep, AtomicStutter DEF Next
<1> QED BY <1>1, <1>2, RefInvariant, PTL DEF Spec

-----------------------------------------------------------------------------
(* What follows from it. *)

\* Where transactions run, what the store answers is what the loose files say.
LEMMA ViewIsLoose ==
  ASSUME PackOK, NEW p \in Proc, cmd[p].kind \in {"tx", "commit"}
  PROVE  \A n \in Name : View[n] = loose[n] /\ (loose[n] = Absent => packed[n] = Absent)
<1>1. Unpacked \/ Covered
  BY DEF PackOK, Repacked, NoWriter
<1> QED BY <1>1 DEF Unpacked, Covered, View

\* A step of pack-refs moves refs and changes none.
LEMMA PackingView ==
  ASSUME OnlyHeadSymbolic, RefInv, AtomicInv, NEW p \in Proc, PackRefs(p)
  PROVE  View' = View
<1>1. FlowOK /\ TypeOK /\ Step(p) /\ KindOK
  BY DEF AtomicInv, FlowOK, RefInv, Step
<1>2. CASE Covered
  <2>1. Covered'
    BY <1>1, <1>2, CoveredStep
  <2>2. loose' = loose
    BY <1>2 DEF PackRefs, CollectLoose, CollectPacked, ReadPrior, CreatePlock, WritePlock,
                RenamePlock, PruneLoose, PackDone, Covered
  <2>3. \A n \in Name : View'[n] = loose'[n] /\ View[n] = loose[n]
    BY <1>2, <2>1 DEF Covered, View
  <2> QED BY <2>2, <2>3 DEF View
<1>3. CASE Repacked
  BY <1>1, <1>3, RepackedStep DEF View
<1>4. ~Unpacked
  BY <1>1, Packer DEF Unpacked, NoPacker
<1> QED BY <1>2, <1>3, <1>4 DEF AtomicInv, PackOK

\* pack-refs, however it is interleaved and wherever it dies, changes where a ref
\* is stored and never what it resolves to (pack_refs.rs:8, 72-73).
THEOREM PackingKeepsRefs ==
  ASSUME OnlyHeadSymbolic, SafePacking
  PROVE  Spec => PackPreservesView
<1>1. RefInv /\ AtomicInv /\ [Next]_vars => [pvars' # pvars => View' = View]_vars
  <2> SUFFICES ASSUME RefInv, AtomicInv, Next, pvars' # pvars PROVE View' = View
    OBVIOUS
  <2>1. PICK p \in Proc : Step(p)
    BY DEF Next
  <2>2. PackRefs(p)
    BY <2>1, OthersPackNothing
  <2> QED BY <2>2, PackingView
<1> QED BY <1>1, AtomicInvariant, PTL DEF Spec, PackPreservesView

-----------------------------------------------------------------------------
(* The steps of AtomicRefs. *)

\* What is submitted is a transaction of AtomicRefs.
LEMMA SubmittedTx ==
  ASSUME TypeOK, NEW p \in Proc, cmd[p].kind = "tx"
  PROVE  cmd[p].ops \in Transactions
<1>1. cmd[p] \in {d \in Commands : d.kind = "tx"}
  BY DEF TypeOK
<1>2. cmd[p].ops \in {c.ops : c \in {d \in Commands : d.kind = "tx"}}
  BY <1>1
<1> QED BY <1>2 DEF Transactions

LEMMA SubmittedCommit ==
  ASSUME TypeOK, NEW p \in Proc, cmd[p].kind = "commit", NEW b \in Name, NEW e \in Oid \cup {Absent}
  PROVE  <<Update(b, e, cmd[p].oid, TRUE)>> \in Transactions
<1>1. cmd[p] \in Commands /\ cmd[p].oid \in Oid
  BY CommandTypes DEF TypeOK
<1>2. PICK u : u = Update(b, e, cmd[p].oid, TRUE)
  OBVIOUS
<1>3. u \in {v \in Ops : /\ v.log /\ v.expected # AnyOld
                         /\ \E c \in Commands : c.kind = "commit" /\ c.oid = v.new}
  BY <1>1, <1>2, RefConstants DEF Update, Ops
<1>4. <<u>> \in Transactions
  BY <1>3 DEF Transactions
<1> QED BY <1>2, <1>4

LEMMA AbstractInit == Init => Atomic!Init
<1> SUFFICES ASSUME Init PROVE Atomic!Init
  OBVIOUS
<1>1. \A n \in Name : View[n] \in Value
  BY InitInv, ViewType DEF RefInv
<1>2. View \in [Name -> Atomic!Value]
  BY <1>1 DEF View, Atomic!Value, Value
<1> QED BY <1>2 DEF Init, Atomic!Init

\* Reading and submitting: a transaction begins, or the command fails.
LEMMA CommandRefines ==
  ASSUME RefInv, AtomicInv, NEW p \in Proc,
         StartTx(p) \/ ReadHead(p) \/ ReadTipLoose(p) \/ ReadTipPacked(p)
  PROVE  Atomic!Submit(p) \/ Atomic!Fail(p) \/ UNCHANGED Atomic!vars
<1> USE DEF At, GoTo, Set, Finish, Submit, tvars, pvars, Atomic!vars, Atomic!Running
<1>1. TypeOK /\ View' = View /\ outcome[p] = "idle"
  BY DEF StartTx, ReadHead, ReadTipLoose, ReadTipPacked, AtomicInv, QueueOK, RefInv, View
<1>2. CASE StartTx(p)
  BY <1>1, <1>2, SubmittedTx DEF StartTx, Atomic!Submit
<1>3. CASE ReadHead(p)
  BY <1>1, <1>3 DEF ReadHead, Atomic!Fail
<1>4. CASE ReadTipLoose(p) /\ loose[seen[p]] \in Oid
  <2>1. <<Update(seen[p], loose[seen[p]], cmd[p].oid, TRUE)>> \in Transactions
    BY <1>1, <1>4, SubmittedCommit DEF ReadTipLoose, RefInv, PhaseOK
  <2> QED BY <1>1, <1>4, <2>1, RefConstants DEF ReadTipLoose, Atomic!Submit
<1>5. CASE ReadTipLoose(p) /\ loose[seen[p]] \notin Oid
  BY <1>1, <1>5 DEF ReadTipLoose, Atomic!Fail
<1>6. CASE ReadTipPacked(p)
  <2>1. packed[seen[p]] \in Oid \cup {Absent} /\ seen[p] \in Name /\ cmd[p].kind = "commit"
    BY <1>1, <1>6 DEF ReadTipPacked, RefInv, PhaseOK, TypeOK
  <2>2. <<Update(seen[p], packed[seen[p]], cmd[p].oid, TRUE)>> \in Transactions
    BY <1>1, <2>1, SubmittedCommit
  <2> QED BY <1>1, <1>6, <2>2 DEF ReadTipPacked, Atomic!Submit
<1> QED BY <1>2, <1>3, <1>4, <1>5, <1>6

\* The commit of a transaction: its compare and its swap are one step, the swap.
LEMMA TransactionRefines ==
  ASSUME RefInv, AtomicInv, NEW p \in Proc, Transaction(p)
  PROVE  \/ Atomic!Apply(p) \/ Atomic!Mismatch(p) \/ Atomic!Fail(p) \/ Atomic!Return(p)
         \/ UNCHANGED Atomic!vars
<1> USE DEF At, GoTo, Set, Finish, tvars, pvars, Atomic!vars, Atomic!Running
<1>1. TypeOK /\ PhaseOK /\ QueueOK /\ KindOK /\ SymOK /\ CheckedOK
  BY DEF RefInv, AtomicInv
<1>2. \A n \in Name : View[n] = loose[n] /\ (loose[n] = Absent => packed[n] = Absent)
  <2>1. cmd[p].kind \in {"tx", "commit"}
    BY <1>1 DEF KindOK, Transaction, Acquire, AlreadyLocked, Check, Publish, AppendLog,
                AppendHeadLog, RemoveLoose, Drop, Return
  <2> QED BY <2>1, ViewIsLoose DEF AtomicInv
<1>3. pc[p] \in {"locked", "checked"} =>
        /\ Plain(op[p]) /\ op[p] = Head(todo[p]) /\ todo[p] # <<>> /\ op[p].name \in Name
        /\ op[p].name # HEAD => /\ LooseDeref(op[p].name) = loose[op[p].name]
                                /\ Atomic!Deref(View, op[p].name) = loose[op[p].name]
  BY <1>1, <1>2, CurrentPlain, OpTypes, DirectDeref DEF SymOK, PhaseOK, LooseDeref
<1>4. CASE Acquire(p) \/ AppendLog(p) \/ AppendHeadLog(p) \/ Drop(p)
  BY <1>4 DEF Acquire, AppendLog, AppendHeadLog, Drop, View
<1>5. CASE AlreadyLocked(p)
  BY <1>1, <1>5 DEF AlreadyLocked, QueueOK, Atomic!Fail, View
<1>6. CASE Check(p)
  <2>1. pc[p] = "locked" /\ outcome[p] = Atomic!Running /\ View' = View /\ todo' = todo
    BY <1>1, <1>6 DEF Check, QueueOK, View
  <2>2. CASE outcome' = outcome
    BY <2>1, <2>2
  <2>3. CASE outcome' = [outcome EXCEPT ![p] = "error"]
    BY <2>1, <2>3 DEF Atomic!Fail
  <2>4. CASE /\ ~Atomic!Met(op[p].expected, LooseDeref(op[p].name))
             /\ outcome' = [outcome EXCEPT ![p] = "mismatch"]
    <3>1. op[p].name # HEAD
      BY <1>3, <2>1, <2>4 DEF Plain, Atomic!Met
    <3> QED BY <1>3, <2>1, <2>4, <3>1 DEF Atomic!Mismatch
  <2> QED BY <1>6, <2>2, <2>3, <2>4 DEF Check
<1>7. CASE Publish(p) \/ RemoveLoose(p)
  <2>1. /\ pc[p] = "checked" /\ outcome[p] = Atomic!Running /\ outcome' = outcome
        /\ todo' = [todo EXCEPT ![p] = Tail(todo[p])]
        /\ loose' = [loose EXCEPT ![op[p].name] = op[p].new] /\ packed' = packed
    BY <1>1, <1>7 DEF Publish, RemoveLoose, QueueOK
  <2>2. Atomic!Met(Head(todo[p]).expected, Atomic!Deref(View, Head(todo[p]).name))
    BY <1>1, <1>3, <2>1 DEF CheckedOK, Plain, Atomic!Met
  <2>3. op[p].new # Absent \/ packed[op[p].name] = Absent
    <3>1. CASE Unpacked
      BY <1>3, <2>1, <3>1 DEF Unpacked
    <3>2. CASE Covered
      BY <2>1, <3>2, NoDeletes DEF AtomicInv, FlowOK, Step
    <3>3. ~Repacked
      BY <1>1, <2>1 DEF Repacked, NoWriter, KindOK
    <3> QED BY <3>1, <3>2, <3>3 DEF AtomicInv, PackOK
  <2>4. \A n \in Name : View'[n] = IF n = op[p].name THEN op[p].new ELSE View[n]
    BY <1>1, <1>3, <2>1, <2>3, StateForms DEF View
  <2>5. View' = [View EXCEPT ![op[p].name] = op[p].new]
    BY <2>4 DEF View
  <2> QED BY <1>3, <2>1, <2>2, <2>5 DEF Atomic!Apply
<1>8. CASE Return(p)
  BY <1>1, <1>8 DEF Return, QueueOK, Atomic!Return, View
<1> QED BY <1>4, <1>5, <1>6, <1>7, <1>8 DEF Transaction

\* The files backend keeps the promise of AtomicRefs: what a command reads as a
\* ref's value, loose or packed, changes in single operations each of which finds
\* what its caller expected, and a mismatch is told only where there is one
\* (transaction.rs:5-9, 189-309).
THEOREM FilesAreAtomic ==
  ASSUME OnlyHeadSymbolic, SafePacking
  PROVE  Spec => ImplementsAtomicRefs
<1>1. RefInv /\ AtomicInv /\ [Next]_vars => [Atomic!Next]_(Atomic!vars)
  <2> SUFFICES ASSUME RefInv, AtomicInv, [Next]_vars PROVE [Atomic!Next]_(Atomic!vars)
    OBVIOUS
  <2>1. CASE UNCHANGED vars
    BY <2>1 DEF vars, tvars, pvars, Atomic!vars, View
  <2>2. CASE Next
    <3>1. PICK p \in Proc : Step(p)
      BY <2>2 DEF Next
    <3>2. CASE PackRefs(p)
      <4>1. todo' = todo /\ outcome' = outcome
        BY <3>2 DEF PackRefs, CollectLoose, CollectPacked, ReadPrior, CreatePlock, WritePlock,
                    RenamePlock, PruneLoose, PackDone, tvars
      <4> QED BY <3>2, <4>1, PackingView DEF Atomic!vars
    <3>3. CASE ReadLog(p) \/ RewriteLog(p) \/ Crash(p)
      BY <3>3 DEF ReadLog, RewriteLog, Crash, tvars, pvars, View, Atomic!vars
    <3> QED BY <3>1, <3>2, <3>3, CommandRefines, TransactionRefines DEF Step, Atomic!Next
  <2> QED BY <2>1, <2>2
<1> QED BY AbstractInit, <1>1, AtomicInvariant, PTL DEF Spec, ImplementsAtomicRefs, Atomic!Spec

=============================================================================
