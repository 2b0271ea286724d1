------------------------------ MODULE Reftable ------------------------------
(***************************************************************************)
(* The reftable backend of refs (src/refs/reftable): a stack of immutable  *)
(* tables named, oldest first, by tables.list.  A transaction takes        *)
(* tables.list.lock, checks every operation against the stack it then      *)
(* loads, writes one new table and renames a longer list into place.       *)
(* Processes run one command each and may die at any step.                 *)
(*                                                                         *)
(* A table is a value here: its file gets a name of its own and its        *)
(* contents never change once it is listed.                                *)
(***************************************************************************)
EXTENDS Naturals, Sequences, SequencesExt

CONSTANTS
  Proc, NoProc,
  Name, HEAD, Oid,
  Absent, AnyOld,   \* see AtomicRefs; Absent is also a deletion record
  NoRecord,         \* a table says nothing about this ref
  Base,             \* the table the repository starts with
  Commands          \* what each process may run, see below

Value == Oid \cup Name \cup {Absent}

Batch(ops)  == [kind |-> "batch", ops |-> ops]
Commit(oid) == [kind |-> "commit", oid |-> oid]

Update(n, e, v, l) == [name |-> n, expected |-> e, new |-> v, log |-> l]
Delete(n, e)       == [name |-> n, expected |-> e, new |-> Absent, log |-> FALSE]

\* A table: its update index, and what it records of each ref's value and log.
Ops   == [name : Name, expected : Oid \cup {AnyOld, Absent}, new : Value, log : BOOLEAN]
Entry == (Oid \cup {Absent}) \X Oid
Table == [index : Nat, refs : [Name -> Value \cup {NoRecord}],
          log : [Name -> Entry \cup {NoRecord}]]

ASSUME ReftableAssumption ==
  /\ HEAD \in Name /\ NoProc \notin Proc /\ Base \in Table
  /\ NoRecord \notin Value \cup Entry
  /\ Absent \notin Oid \cup Name /\ AnyOld \notin Oid \cup {Absent}
  /\ Oid \cap Name = {}
  /\ \A c \in Commands : \/ c.kind = "batch" /\ c.ops \in Seq(Ops)
                         \/ c.kind = "commit" /\ c.oid \in Oid

VARIABLES
  list,      \* tables.list, the tables themselves for their file names
  lockBy,    \* creator of tables.list.lock, or NoProc
  lockText,  \* what that file holds
  cmd, pc,   \* Proc -> command, control point
  stack,     \* Proc -> the tables its StackReader has loaded
  lines,     \* Proc -> tables.list as read under the lock
  table,     \* Proc -> the table it wrote
  todo, outcome   \* Proc -> see AtomicRefs

vars == <<list, lockBy, lockText, cmd, pc, stack, lines, table, todo, outcome>>

\* StackReader::read: the newest table that mentions the ref decides.
View(tables) ==
  [n \in Name |->
     LET saying == {i \in DOMAIN tables : tables[i].refs[n] # NoRecord} IN
       IF saying = {} THEN Absent ELSE tables[Max(saying)].refs[n]]

Transactions ==
  {c.ops : c \in {d \in Commands : d.kind = "batch"}} \cup
  {<<u>> : u \in {v \in Ops : /\ v.log /\ v.expected # AnyOld
                              /\ \E c \in Commands : c.kind = "commit" /\ c.oid = v.new}}

Atomic == INSTANCE AtomicRefs WITH ref <- View(list)

Init ==
  /\ list = <<Base>>
  /\ lockBy = NoProc /\ lockText = <<>>
  /\ cmd \in [Proc -> Commands]
  /\ pc = [p \in Proc |-> "start"]
  /\ stack = [p \in Proc |-> <<>>] /\ lines = [p \in Proc |-> <<>>]
  /\ table = [p \in Proc |-> Base]
  /\ todo = [p \in Proc |-> <<>>]
  /\ outcome = [p \in Proc |-> "idle"]

At(p, phase)   == pc[p] = phase
GoTo(p, phase) == pc' = [pc EXCEPT ![p] = phase]
Set(f, x, v)   == [f EXCEPT ![x] = v]
Finish(p, r)   == GoTo(p, "done") /\ outcome' = Set(outcome, p, r)

Seen(p)     == View(stack[p])
Current(p, n) == Atomic!Deref(Seen(p), n)

\* The table for a transaction: a record per operation, a log entry for every
\* logged update to an oid, and for such an update of the branch HEAD names an
\* entry in HEAD's log, beside a record that repeats HEAD.
TableFor(p) ==
  LET ops    == todo[p]
      about(n) == {i \in DOMAIN ops : ops[i].name = n}
      logged(n) == {i \in about(n) : ops[i].log /\ ops[i].new \in Oid}
      entry(n) == <<Current(p, n), ops[Max(logged(n))].new>>
      branch == Seen(p)[HEAD]
      mirror == branch \in Name /\ logged(branch) # {}
  IN  [index |-> Max({0} \cup {stack[p][i].index : i \in DOMAIN stack[p]}) + 1,
       refs  |-> [n \in Name |->
                    IF about(n) # {} THEN ops[Max(about(n))].new
                    ELSE IF n = HEAD /\ mirror THEN branch ELSE NoRecord],
       log   |-> [n \in Name |->
                    IF logged(n) # {} THEN entry(n)
                    ELSE IF n = HEAD /\ mirror THEN entry(branch) ELSE NoRecord]]

\* The operations current_direct (a symref chain too long) or validate_expected
\* refuse; the first of them ends the transaction.
Refused(p) ==
  {i \in DOMAIN todo[p] :
     \/ Current(p, todo[p][i].name) \in Name
     \/ ~Atomic!Met(todo[p][i].expected, Current(p, todo[p][i].name))}

-----------------------------------------------------------------------------
(* Plausible bugs.  Not part of the specification: actions and operators   *)
(* as a slip in the code would have them, kept to show that the properties *)
(* tell the two apart.                                                     *)

\* The stack loaded when the store was opened is good enough.
RefreshSkipped(p) ==
  /\ At(p, "read")
  /\ GoTo(p, "refreshed")
  /\ UNCHANGED <<list, lockBy, lockText, cmd, stack, lines, table, todo, outcome>>

\* HEAD's log gets an entry whatever branch HEAD names.
PrepareAlwaysMirrors(p) ==
  /\ At(p, "refreshed") /\ Refused(p) = {}
  /\ LET t == TableFor(p) IN
       table' = Set(table, p, [t EXCEPT !.log[HEAD] = t.log[todo[p][1].name]])
  /\ GoTo(p, "prepared")
  /\ UNCHANGED <<list, lockBy, lockText, cmd, stack, lines, todo, outcome>>

-----------------------------------------------------------------------------
\* Repository::open loads the stack.
Open(p) ==
  /\ At(p, "start")
  /\ stack' = Set(stack, p, list)
  /\ GoTo(p, "opened")
  /\ UNCHANGED <<list, lockBy, lockText, cmd, lines, table, todo, outcome>>

Submit(p, ops) ==
  /\ todo' = Set(todo, p, ops)
  /\ outcome' = Set(outcome, p, Atomic!Running)
  /\ GoTo(p, "locking")

StartBatch(p) ==
  /\ At(p, "opened") /\ cmd[p].kind = "batch"
  /\ Submit(p, cmd[p].ops)
  /\ UNCHANGED <<list, lockBy, lockText, cmd, stack, lines, table>>

\* commit: branch and tip come from the stack loaded at open, however old.
StartCommit(p) ==
  /\ At(p, "opened") /\ cmd[p].kind = "commit"
  /\ LET branch == Seen(p)[HEAD] IN
       IF branch \in Name /\ Seen(p)[branch] \notin Name
         THEN Submit(p, <<Update(branch, Seen(p)[branch], cmd[p].oid, TRUE)>>)
         ELSE Finish(p, "error") /\ UNCHANGED todo
  /\ UNCHANGED <<list, lockBy, lockText, cmd, stack, lines, table>>

NothingToDo(p) ==
  /\ At(p, "locking") /\ todo[p] = <<>>
  /\ Finish(p, "ok")
  /\ UNCHANGED <<list, lockBy, lockText, cmd, stack, lines, table, todo>>

\* create_new on tables.list.lock; there is no retry.
Lock(p) ==
  /\ At(p, "locking") /\ todo[p] # <<>> /\ lockBy = NoProc
  /\ lockBy' = p /\ lockText' = <<>>
  /\ GoTo(p, "locked")
  /\ UNCHANGED <<list, cmd, stack, lines, table, todo, outcome>>

LockFails(p) ==
  /\ At(p, "locking") /\ todo[p] # <<>> /\ lockBy # NoProc
  /\ Finish(p, "error")
  /\ UNCHANGED <<list, lockBy, lockText, cmd, stack, lines, table, todo>>

ReadList(p) ==
  /\ At(p, "locked")
  /\ lines' = Set(lines, p, list)
  /\ GoTo(p, "read")
  /\ UNCHANGED <<list, lockBy, lockText, cmd, stack, table, todo, outcome>>

Refresh(p) ==
  /\ At(p, "read")
  /\ stack' = Set(stack, p, list)
  /\ GoTo(p, "refreshed")
  /\ UNCHANGED <<list, lockBy, lockText, cmd, lines, table, todo, outcome>>

\* Every operation is checked against the stack before the transaction; then the
\* table is written under a temporary name and renamed.
Prepare(p) ==
  /\ At(p, "refreshed") /\ Refused(p) = {}
  /\ table' = Set(table, p, TableFor(p))
  /\ GoTo(p, "prepared")
  /\ UNCHANGED <<list, lockBy, lockText, cmd, stack, lines, todo, outcome>>

Refuse(p) ==
  /\ At(p, "refreshed") /\ Refused(p) # {}
  /\ LET n == todo[p][Min(Refused(p))].name IN
       outcome' = Set(outcome, p, IF Current(p, n) \in Name THEN "error" ELSE "mismatch")
  /\ GoTo(p, "removing")
  /\ UNCHANGED <<list, lockBy, lockText, cmd, stack, lines, table, todo>>

\* fs::write on the lock path: into the file that is there, or a new one.
WriteLock(p) ==
  /\ At(p, "prepared")
  /\ lockBy' = IF lockBy = NoProc THEN p ELSE lockBy
  /\ lockText' = Append(lines[p], table[p])
  /\ GoTo(p, "renaming")
  /\ UNCHANGED <<list, cmd, stack, lines, table, todo, outcome>>

RenameLock(p) ==
  /\ At(p, "renaming")
  /\ IF lockBy # NoProc
       THEN /\ list' = lockText /\ lockBy' = NoProc /\ lockText' = <<>>
            /\ todo' = Set(todo, p, <<>>) /\ UNCHANGED outcome
       ELSE /\ outcome' = Set(outcome, p, "error")
            /\ UNCHANGED <<list, lockBy, lockText, todo>>
  /\ GoTo(p, "removing")
  /\ UNCHANGED <<cmd, stack, lines, table>>

\* remove_file on the lock path, on every way out: after the rename a file there
\* is somebody else's.
RemoveLock(p) ==
  /\ At(p, "removing")
  /\ lockBy' = NoProc /\ lockText' = <<>>
  /\ stack' = Set(stack, p, list)
  /\ IF outcome[p] = Atomic!Running THEN Finish(p, "ok") ELSE GoTo(p, "done") /\ UNCHANGED outcome
  /\ UNCHANGED <<list, cmd, lines, table, todo>>

\* SIGKILL or power loss; SIGINT too, for this lock is in no registry.
Crash(p) ==
  /\ pc[p] \notin {"done", "dead"}
  /\ GoTo(p, "dead")
  /\ UNCHANGED <<list, lockBy, lockText, cmd, stack, lines, table, todo, outcome>>

Next ==
  \E p \in Proc :
    \/ Open(p)      \/ StartBatch(p) \/ StartCommit(p) \/ NothingToDo(p) \/ Lock(p)
    \/ LockFails(p) \/ ReadList(p)   \/ Refresh(p)     \/ Prepare(p)     \/ Refuse(p)
    \/ WriteLock(p) \/ RenameLock(p) \/ RemoveLock(p)  \/ Crash(p)

Spec == Init /\ [][Next]_vars

-----------------------------------------------------------------------------
\* A transaction happens as a whole, at the rename: every expectation holds of
\* the refs as they are at that moment, and a mismatch is reported only when one
\* does not, however old the stack its process has loaded.
ImplementsAtomicBatches == Atomic!BatchSpec

\* A reflog entry tells what the ref, or the branch HEAD named, resolved to
\* before and after the transaction that made it, and newer tables have greater
\* update indexes, by which the entries are ordered (transaction.rs:6,
\* reader.rs:677-679).
LogTellsHistory ==
  /\ \A i, j \in DOMAIN list : i < j => list[i].index < list[j].index
  /\ \A i \in DOMAIN list \ {1}, n \in Name :
       list[i].log[n] # NoRecord =>
         list[i].log[n] = <<Atomic!Deref(View(SubSeq(list, 1, i - 1)), n),
                            Atomic!Deref(View(SubSeq(list, 1, i)), n)>>
=============================================================================
