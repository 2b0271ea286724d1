----------------------------- MODULE AtomicRefs -----------------------------
(***************************************************************************)
(* What a ref store promises its callers (the traits RefStore and          *)
(* RefTransactionTrait of src/refs/mod.rs and the types of                 *)
(* src/refs/transaction.rs): each operation of a transaction compares the  *)
(* ref's resolved value with the one the caller expects and, in the same   *)
(* instant, replaces or deletes the ref.  Operations of one transaction    *)
(* run in order; the first that fails ends it and undoes nothing           *)
(* (transaction.rs:5-9: atomicity is per ref).                             *)
(***************************************************************************)
EXTENDS Naturals, Sequences, SequencesExt

CONSTANTS
  Proc,    \* callers
  Name,    \* full ref names
  Oid,     \* object ids
  Absent,  \* no such ref; as an expectation, ExpectedOldValue::Missing
  AnyOld,     \* ExpectedOldValue::Any
  Transactions  \* the op sequences callers may submit

\* A ref holds an oid, or the name of another ref (a symbolic ref).
Value == Oid \cup Name \cup {Absent}

\* One queued operation; a delete is an update to Absent.
Op == [name : Name, expected : Oid \cup {AnyOld, Absent},
       new : Value, log : BOOLEAN]

\* The value after following at most five refs: a Name if the chain is longer.
Deref(refs, n) ==
  LET follow(v) == IF v \in Name THEN refs[v] ELSE v
  IN  follow(follow(follow(follow(follow(n)))))

Met(expected, current) == expected = AnyOld \/ expected = current

VARIABLES
  ref,      \* Name -> Value
  todo,     \* Proc -> operations of its transaction still to run
  outcome   \* Proc -> how its transaction ended

vars == <<ref, todo, outcome>>

Running == "running"
Outcomes == {"idle", Running, "ok", "mismatch", "error"}

Init ==
  /\ ref \in [Name -> Value]
  /\ todo = [p \in Proc |-> <<>>]
  /\ outcome = [p \in Proc |-> "idle"]

Submit(p) ==
  /\ outcome[p] = "idle"
  /\ \E ops \in Transactions : todo' = [todo EXCEPT ![p] = ops]
  /\ outcome' = [outcome EXCEPT ![p] = Running]
  /\ UNCHANGED ref

Apply(p) ==
  /\ outcome[p] = Running
  /\ todo[p] # <<>>
  /\ LET op == Head(todo[p]) IN
       /\ Met(op.expected, Deref(ref, op.name))
       /\ ref' = [ref EXCEPT ![op.name] = op.new]
  /\ todo' = [todo EXCEPT ![p] = Tail(@)]
  /\ UNCHANGED outcome

\* A mismatch is reported only when the expectation really does not hold.
Mismatch(p) ==
  /\ outcome[p] = Running
  /\ todo[p] # <<>>
  /\ ~Met(Head(todo[p]).expected, Deref(ref, Head(todo[p]).name))
  /\ outcome' = [outcome EXCEPT ![p] = "mismatch"]
  /\ UNCHANGED <<ref, todo>>

\* AlreadyLocked, SymbolicCycle or an I/O error.
Fail(p) ==
  /\ outcome[p] \in {"idle", Running}
  /\ outcome' = [outcome EXCEPT ![p] = "error"]
  /\ UNCHANGED <<ref, todo>>

Return(p) ==
  /\ outcome[p] = Running
  /\ todo[p] = <<>>
  /\ outcome' = [outcome EXCEPT ![p] = "ok"]
  /\ UNCHANGED <<ref, todo>>

Next == \E p \in Proc : Submit(p) \/ Apply(p) \/ Mismatch(p) \/ Fail(p) \/ Return(p)

Spec == Init /\ [][Next]_vars

-----------------------------------------------------------------------------
(* The stronger promise of the reftable backend: a transaction takes       *)
(* effect as a whole, checked against the refs as they were before it.     *)

\* The last operation on a ref decides.
After(refs, ops) ==
  LET about(n) == {i \in DOMAIN ops : ops[i].name = n}
  IN  [n \in Name |-> IF about(n) = {} THEN refs[n] ELSE ops[Max(about(n))].new]

ApplyAll(p) ==
  /\ outcome[p] = Running
  /\ todo[p] # <<>>
  /\ \A i \in DOMAIN todo[p] : Met(todo[p][i].expected, Deref(ref, todo[p][i].name))
  /\ ref' = After(ref, todo[p])
  /\ todo' = [todo EXCEPT ![p] = <<>>]
  /\ UNCHANGED outcome

MismatchIn(p) ==
  /\ outcome[p] = Running
  /\ \E i \in DOMAIN todo[p] : ~Met(todo[p][i].expected, Deref(ref, todo[p][i].name))
  /\ outcome' = [outcome EXCEPT ![p] = "mismatch"]
  /\ UNCHANGED <<ref, todo>>

BatchNext ==
  \E p \in Proc : Submit(p) \/ ApplyAll(p) \/ MismatchIn(p) \/ Fail(p) \/ Return(p)

BatchSpec == Init /\ [][BatchNext]_vars
=============================================================================
