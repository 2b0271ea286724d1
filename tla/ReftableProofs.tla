--------------------------- MODULE ReftableProofs ---------------------------
(***************************************************************************)
(* What a reftable transaction keeps, for any refs, tables, commands and   *)
(* processes: while one process at a time is between its lock and its      *)
(* rename, transactions are atomic and the reflogs tell what happened.     *)
(*                                                                         *)
(* That there is one writer at a time is a hypothesis: every transaction   *)
(* ends by removing whatever is at the lock's path, so a third process may *)
(* begin while a second one writes (see the README).  With two processes   *)
(* the hypothesis is a theorem.                                            *)
(*                                                                         *)
(* Max and Min of sets of numbers come first, then the tables as values,   *)
(* then the protocol (WriterInv), the refinement and the reflogs.          *)
(***************************************************************************)
EXTENDS Reftable, WellFoundedInduction, TLAPS

-----------------------------------------------------------------------------
\* A non-empty set of naturals has a least element, and Min names it.
LEMMA MinIsLeast ==
  ASSUME NEW S, S \subseteq Nat, S # {}
  PROVE  Min(S) \in S /\ \A y \in S : Min(S) <= y
<1>1. \E x \in S : \A y \in S : ~(<<y, x>> \in OpToRel(<, Nat))
  BY NatLessThanWellFounded, WFMin, Zenon
<1>2. \A x, y \in Nat : y < x => <<y, x>> \in OpToRel(<, Nat)
  BY Zenon DEF OpToRel
<1>3. PICK x \in S : \A y \in S : ~(y < x)
  BY <1>1, <1>2, Zenon
<1>4. \A y \in S : x <= y
  BY <1>3
<1> QED
  BY <1>4 DEF Min

\* So has a bounded one a greatest.
LEMMA MaxIsGreatest ==
  ASSUME NEW N \in Nat, NEW S, S \subseteq 0..N, S # {}
  PROVE  Max(S) \in S /\ \A y \in S : y <= Max(S)
<1> DEFINE T == {k \in Nat : \E y \in S : k = N - y}
<1>1. T # {}
  <2>1. PICK y \in S : TRUE
    OBVIOUS
  <2>2. N - y \in T
    OBVIOUS
  <2> QED BY <2>2
<1>2. PICK k \in T : \A j \in T : k <= j
  BY <1>1, MinIsLeast
<1>3. PICK x \in S : k = N - x
  BY <1>2
<1>4. \A y \in S : y <= x
  <2> TAKE y \in S
  <2>1. N - y \in T
    OBVIOUS
  <2> QED BY <2>1, <1>2, <1>3
<1> QED
  BY <1>4 DEF Max

-----------------------------------------------------------------------------
\* The constants, without the command lines.
LEMMA ReftableConstants ==
  /\ HEAD \in Name /\ NoProc \notin Proc /\ Base \in Table
  /\ NoRecord \notin Value \cup Entry
  /\ Absent \notin Oid \cup Name /\ AnyOld \notin Oid \cup {Absent}
  /\ Oid \cap Name = {}
  /\ Oid \subseteq Value /\ Name \subseteq Value /\ Absent \in Value
  /\ \A v \in Value : v \notin Name => v \in Oid \cup {Absent}
  BY ReftableAssumption DEF Value

Increasing(tables) ==
  \A i, j \in DOMAIN tables : i < j => tables[i].index < tables[j].index

\* Stacks of tables: what they record, and their reading.
LEMMA TableType ==
  ASSUME NEW l \in Seq(Table), NEW i \in DOMAIN l, NEW n \in Name
  PROVE  /\ l[i].refs[n] \in Value \cup {NoRecord}
         /\ l[i].log[n] \in Entry \cup {NoRecord}
         /\ l[i].index \in Nat
<1>1. l[i] \in Table
  OBVIOUS
<1> QED
  BY <1>1 DEF Table

\* The reading of a stack is a state of the refs.
LEMMA ViewType ==
  ASSUME NEW l \in Seq(Table)
  PROVE  View(l) \in [Name -> Value]
<1> SUFFICES ASSUME NEW n \in Name PROVE View(l)[n] \in Value
  BY DEF View
<1> DEFINE saying == {i \in DOMAIN l : l[i].refs[n] # NoRecord}
<1>1. CASE saying = {}
  BY <1>1, ReftableConstants DEF View
<1>2. CASE saying # {}
  <2>1. saying \subseteq 0..Len(l) /\ Len(l) \in Nat
    OBVIOUS
  <2>2. Max(saying) \in saying
    BY <2>1, <1>2, MaxIsGreatest
  <2>3. View(l)[n] = l[Max(saying)].refs[n]
    BY <1>2 DEF View
  <2> HIDE DEF saying
  <2>4. Max(saying) \in DOMAIN l /\ l[Max(saying)].refs[n] # NoRecord
    BY <2>2 DEF saying
  <2> QED
    BY <2>3, <2>4, TableType
<1> QED BY <1>1, <1>2

\* A new table's records shadow those of the tables below it.
LEMMA ViewAppend ==
  ASSUME NEW l \in Seq(Table), NEW t \in Table, NEW n \in Name
  PROVE  View(Append(l, t))[n] = IF t.refs[n] # NoRecord THEN t.refs[n] ELSE View(l)[n]
<1> DEFINE m == Append(l, t)
           old == {i \in DOMAIN l : l[i].refs[n] # NoRecord}
           new == {i \in DOMAIN m : m[i].refs[n] # NoRecord}
           k   == Len(l) + 1
<1>1. /\ Len(l) \in Nat /\ DOMAIN l = 1..Len(l) /\ DOMAIN m = 1..k
      /\ \A i \in DOMAIN l : m[i] = l[i]
      /\ m[k] = t
  OBVIOUS
<1>2. View(l)[n] = (IF old = {} THEN Absent ELSE l[Max(old)].refs[n])
      /\ View(m)[n] = (IF new = {} THEN Absent ELSE m[Max(new)].refs[n])
  BY DEF View
<1>3. CASE t.refs[n] # NoRecord
  <2>1. k \in new /\ new \subseteq 0..k /\ k \in Nat
    BY <1>1, <1>3
  <2>2. Max(new) \in new /\ \A y \in new : y <= Max(new)
    BY <2>1, MaxIsGreatest
  <2>3. Max(new) = k
    <3> HIDE DEF m, new, k
    <3>1. Max(new) \in 0..k /\ k <= Max(new)
      BY <2>1, <2>2
    <3> QED BY <2>1, <3>1
  <2> QED BY <1>1, <1>2, <1>3, <2>1, <2>3
<1>4. CASE t.refs[n] = NoRecord
  <2>1. new = old
    BY <1>1, <1>4
  <2>2. CASE old = {}
    BY <1>2, <1>4, <2>1, <2>2
  <2>3. CASE old # {}
    <3>1. old \subseteq 0..Len(l)
      BY <1>1
    <3>2. Max(old) \in old
      BY <1>1, <2>3, <3>1, MaxIsGreatest
    <3>3. m[Max(old)] = l[Max(old)]
      BY <1>1, <3>2
    <3> QED BY <1>2, <1>4, <2>1, <2>3, <3>3
  <2> QED BY <2>2, <2>3
<1> QED BY <1>3, <1>4

\* The index of the next table is above those of the stack.
LEMMA NextIndex ==
  ASSUME NEW l \in Seq(Table), Increasing(l)
  PROVE  LET top == Max({0} \cup {l[i].index : i \in DOMAIN l}) IN
           top \in Nat /\ \A i \in DOMAIN l : l[i].index <= top
<1> DEFINE S == {0} \cup {l[i].index : i \in DOMAIN l}
<1>1. Len(l) \in Nat /\ DOMAIN l = 1..Len(l) /\ \A i \in DOMAIN l : l[i].index \in Nat
  BY TableType, ReftableConstants
<1>2. PICK N \in Nat : S \subseteq 0..N
  <2>1. CASE Len(l) = 0
    BY <1>1, <2>1
  <2>2. CASE Len(l) # 0
    <3>1. Len(l) \in DOMAIN l /\ l[Len(l)].index \in Nat
      BY <1>1, <2>2
    <3>2. \A i \in DOMAIN l : l[i].index <= l[Len(l)].index
      <4> TAKE i \in DOMAIN l
      <4>1. i < Len(l) \/ i = Len(l)
        BY <1>1
      <4> QED BY <1>1, <3>1, <4>1 DEF Increasing
    <3>3. S \subseteq 0..l[Len(l)].index
      BY <1>1, <3>1, <3>2
    <3> QED BY <3>1, <3>3
  <2> QED BY <2>1, <2>2
<1>3. Max(S) \in S /\ \A y \in S : y <= Max(S)
  <2>1. S # {}
    OBVIOUS
  <2> QED BY <1>2, <2>1, MaxIsGreatest
<1> QED
  BY <1>1, <1>2, <1>3

-----------------------------------------------------------------------------
(* What a transaction writes.                                              *)

About(ops, n)  == {i \in DOMAIN ops : ops[i].name = n}
Logged(ops, n) == {i \in About(ops, n) : ops[i].log /\ ops[i].new \in Oid}

\* The last operation on a ref, and the last one that is logged.
LEMMA LastOp ==
  ASSUME NEW ops \in Seq(Ops), NEW n
  PROVE  /\ About(ops, n) # {} =>
              /\ Max(About(ops, n)) \in About(ops, n)
              /\ ops[Max(About(ops, n))].new \in Value
         /\ Logged(ops, n) # {} =>
              /\ Max(Logged(ops, n)) \in Logged(ops, n)
              /\ ops[Max(Logged(ops, n))].new \in Oid
<1>1. Len(ops) \in Nat /\ DOMAIN ops = 1..Len(ops) /\ \A i \in DOMAIN ops : ops[i] \in Ops
  OBVIOUS
<1>2. About(ops, n) \subseteq 0..Len(ops) /\ Logged(ops, n) \subseteq 0..Len(ops)
  BY <1>1 DEF About, Logged
<1>3. About(ops, n) # {} => Max(About(ops, n)) \in About(ops, n)
  BY <1>1, <1>2, MaxIsGreatest
<1>4. Logged(ops, n) # {} => Max(Logged(ops, n)) \in Logged(ops, n)
  BY <1>1, <1>2, MaxIsGreatest
<1>5. \A i \in DOMAIN ops : ops[i].new \in Value
  BY <1>1 DEF Ops
<1>6. \A i \in About(ops, n) : i \in DOMAIN ops
  BY DEF About
<1>7. \A i \in Logged(ops, n) : ops[i].new \in Oid
  BY DEF Logged
<1> QED BY <1>3, <1>4, <1>5, <1>6, <1>7

\* Following refs stays among their values.
LEMMA DerefType ==
  ASSUME NEW refs \in [Name -> Value], NEW n \in Name
  PROVE  Atomic!Deref(refs, n) \in Value
  BY DEF Atomic!Deref, Value

\* TableFor in parts.
Mirrors(p) == Seen(p)[HEAD] \in Name /\ Logged(todo[p], Seen(p)[HEAD]) # {}

Told(p, n) == <<Current(p, n), todo[p][Max(Logged(todo[p], n))].new>>

\* The three parts of a new table.
LEMMA TableForParts ==
  ASSUME NEW p \in Proc
  PROVE
    /\ TableFor(p).index = Max({0} \cup {stack[p][i].index : i \in DOMAIN stack[p]}) + 1
    /\ TableFor(p).refs = [n \in Name |->
         IF About(todo[p], n) # {} THEN todo[p][Max(About(todo[p], n))].new
         ELSE IF n = HEAD /\ Mirrors(p) THEN Seen(p)[HEAD] ELSE NoRecord]
    /\ TableFor(p).log = [n \in Name |->
         IF Logged(todo[p], n) # {} THEN Told(p, n)
         ELSE IF n = HEAD /\ Mirrors(p) THEN Told(p, Seen(p)[HEAD]) ELSE NoRecord]
    /\ TableFor(p) = [index |-> TableFor(p).index, refs |-> TableFor(p).refs,
                      log |-> TableFor(p).log]
  BY DEF TableFor, About, Logged, Mirrors, Told

\* The state a transaction is prepared in.
Prepared(p) ==
  /\ stack[p] \in Seq(Table) /\ Increasing(stack[p])
  /\ todo[p] \in Seq(Ops) /\ Refused(p) = {}

\* What preparation has checked of each operation, and the log entries it yields.
LEMMA PreparedOps ==
  ASSUME NEW p \in Proc, Prepared(p)
  PROVE  /\ Seen(p) \in [Name -> Value]
         /\ \A i \in DOMAIN todo[p] :
              /\ Current(p, todo[p][i].name) \in Oid \cup {Absent}
              /\ Atomic!Met(todo[p][i].expected, Current(p, todo[p][i].name))
         /\ \A n \in Name : Logged(todo[p], n) # {} => Told(p, n) \in Entry
<1>1. Seen(p) \in [Name -> Value]
  BY ViewType DEF Seen, Prepared
<1>2. \A i \in DOMAIN todo[p] : todo[p][i].name \in Name
  <2> TAKE i \in DOMAIN todo[p]
  <2>1. todo[p][i] \in Ops
    BY DEF Prepared
  <2> QED BY <2>1 DEF Ops
<1>3. \A i \in DOMAIN todo[p] :
         /\ Current(p, todo[p][i].name) \in Oid \cup {Absent}
         /\ Atomic!Met(todo[p][i].expected, Current(p, todo[p][i].name))
  <2> TAKE i \in DOMAIN todo[p]
  <2>1. Current(p, todo[p][i].name) \in Value
    BY <1>1, <1>2, DerefType DEF Current
  <2>2. i \notin Refused(p)
    BY DEF Prepared
  <2> QED BY <2>1, <2>2, ReftableConstants DEF Refused
<1>4. ASSUME NEW n \in Name, Logged(todo[p], n) # {} PROVE Told(p, n) \in Entry
  <2> DEFINE k == Max(Logged(todo[p], n))
  <2>1. k \in Logged(todo[p], n) /\ todo[p][k].new \in Oid
    BY <1>4, LastOp DEF Prepared
  <2>2. k \in DOMAIN todo[p] /\ todo[p][k].name = n
    BY <2>1 DEF Logged, About
  <2>3. Current(p, n) \in Oid \cup {Absent}
    BY <1>3, <2>2
  <2> QED BY <2>1, <2>3 DEF Told, Entry
<1> QED BY <1>1, <1>3, <1>4

\* The new table is a table, above all those of the stack.
LEMMA TableForType ==
  ASSUME NEW p \in Proc, Prepared(p)
  PROVE  /\ TableFor(p) \in Table
         /\ \A i \in DOMAIN stack[p] : stack[p][i].index < TableFor(p).index
<1> DEFINE top == Max({0} \cup {stack[p][i].index : i \in DOMAIN stack[p]})
<1>1. top \in Nat /\ \A i \in DOMAIN stack[p] : stack[p][i].index <= top
  BY NextIndex DEF Prepared
<1>2. \A i \in DOMAIN stack[p] : stack[p][i].index \in Nat
  BY TableType, ReftableConstants DEF Prepared
<1>3. TableFor(p).index = top + 1
  BY TableForParts
<1>4. TableFor(p).refs \in [Name -> Value \cup {NoRecord}]
  <2>1. \A n \in Name : About(todo[p], n) # {} =>
          todo[p][Max(About(todo[p], n))].new \in Value
    BY LastOp DEF Prepared
  <2>2. Seen(p)[HEAD] \in Value
    BY PreparedOps, ReftableConstants
  <2> DEFINE record(n) ==
        IF About(todo[p], n) # {} THEN todo[p][Max(About(todo[p], n))].new
        ELSE IF n = HEAD /\ Mirrors(p) THEN Seen(p)[HEAD] ELSE NoRecord
  <2>3. \A n \in Name : record(n) \in Value \cup {NoRecord}
    BY <2>1, <2>2
  <2>4. TableFor(p).refs = [n \in Name |-> record(n)]
    BY TableForParts
  <2> HIDE DEF record
  <2> QED BY <2>3, <2>4
<1>5. TableFor(p).log \in [Name -> Entry \cup {NoRecord}]
  <2>1. \A n \in Name : Logged(todo[p], n) # {} => Told(p, n) \in Entry
    BY PreparedOps
  <2>2. Mirrors(p) => Told(p, Seen(p)[HEAD]) \in Entry
    BY <2>1 DEF Mirrors
  <2> DEFINE record(n) ==
        IF Logged(todo[p], n) # {} THEN Told(p, n)
        ELSE IF n = HEAD /\ Mirrors(p) THEN Told(p, Seen(p)[HEAD]) ELSE NoRecord
  <2>3. \A n \in Name : record(n) \in Entry \cup {NoRecord}
    BY <2>1, <2>2
  <2>4. TableFor(p).log = [n \in Name |-> record(n)]
    BY TableForParts
  <2> HIDE DEF record
  <2> QED BY <2>3, <2>4
<1>6. TableFor(p) = [index |-> TableFor(p).index, refs |-> TableFor(p).refs,
                     log |-> TableFor(p).log]
  BY TableForParts
<1>7. top + 1 \in Nat
  BY <1>1
<1>8. TableFor(p) \in Table
  <2> HIDE DEF top
  <2> QED BY <1>3, <1>4, <1>5, <1>6, <1>7 DEF Table
<1>9. \A i \in DOMAIN stack[p] : stack[p][i].index < TableFor(p).index
  <2> HIDE DEF top
  <2> QED BY <1>1, <1>2, <1>3
<1> QED BY <1>8, <1>9

\* Reading the stack with the new table on top is what the transaction promised:
\* the record that repeats HEAD changes nothing.
LEMMA TableForApplies ==
  ASSUME NEW p \in Proc, Prepared(p)
  PROVE  View(Append(stack[p], TableFor(p))) = Atomic!After(Seen(p), todo[p])
<1>1. TableFor(p) \in Table /\ stack[p] \in Seq(Table)
  BY TableForType DEF Prepared
<1>2. View(Append(stack[p], TableFor(p))) = [n \in Name |->
         View(Append(stack[p], TableFor(p)))[n]]
  BY DEF View
<1>3. Atomic!After(Seen(p), todo[p]) = [n \in Name |->
         IF About(todo[p], n) = {} THEN Seen(p)[n] ELSE todo[p][Max(About(todo[p], n))].new]
  BY DEF Atomic!After, About, Atomic!Max, Max
<1>4. ASSUME NEW n \in Name
      PROVE  View(Append(stack[p], TableFor(p)))[n] =
               IF About(todo[p], n) = {} THEN Seen(p)[n]
               ELSE todo[p][Max(About(todo[p], n))].new
  <2>1. View(Append(stack[p], TableFor(p)))[n] =
          IF TableFor(p).refs[n] # NoRecord THEN TableFor(p).refs[n] ELSE Seen(p)[n]
    BY <1>1, ViewAppend DEF Seen
  <2>2. CASE About(todo[p], n) # {}
    <3>1. todo[p][Max(About(todo[p], n))].new \in Value
      BY <2>2, LastOp DEF Prepared
    <3>2. TableFor(p).refs[n] = todo[p][Max(About(todo[p], n))].new
      BY <2>2, TableForParts
    <3> QED BY <2>1, <2>2, <3>1, <3>2, ReftableConstants
  <2>3. CASE About(todo[p], n) = {}
    <3>1. TableFor(p).refs[n] = IF n = HEAD /\ Mirrors(p) THEN Seen(p)[HEAD] ELSE NoRecord
      BY <2>3, TableForParts
    <3> QED BY <2>1, <2>3, <3>1
  <2> QED BY <2>2, <2>3
<1> QED BY <1>2, <1>3, <1>4

-----------------------------------------------------------------------------
(* The protocol.                                                           *)

Phase == {"start", "opened", "locking", "locked", "read", "refreshed", "prepared",
          "renaming", "removing", "done", "dead"}

\* Between its creation of the lock file and its rename or refusal a process
\* counts on being the only writer.
Holding == {"locked", "read", "refreshed", "prepared", "renaming"}

OneWriter ==
  \A p, q \in Proc : pc[p] \in Holding /\ pc[q] \in Holding => p = q

TypeOK ==
  /\ list \in Seq(Table) /\ lockText \in Seq(Table)
  /\ lockBy \in Proc \cup {NoProc}
  /\ cmd \in [Proc -> Commands] /\ pc \in [Proc -> Phase]
  /\ stack \in [Proc -> Seq(Table)] /\ lines \in [Proc -> Seq(Table)]
  /\ table \in [Proc -> Table] /\ todo \in [Proc -> Seq(Ops)]
  /\ outcome \in [Proc -> Atomic!Outcomes]

\* What a process knows at each control point.
ResultOK(p) ==
  /\ pc[p] \in {"start", "opened"} => outcome[p] = "idle"
  /\ pc[p] \in {"locking"} \cup Holding => outcome[p] = Atomic!Running
  /\ pc[p] \in Holding => todo[p] # <<>>
  /\ pc[p] = "removing" /\ outcome[p] = Atomic!Running => todo[p] = <<>>

\* What a writer has read is what the list still holds.
ReadOK(p) ==
  /\ pc[p] \in Holding \ {"locked"} => lines[p] = list
  /\ pc[p] \in {"refreshed", "prepared", "renaming"} => stack[p] = list

WrittenOK(p) ==
  /\ pc[p] \in {"prepared", "renaming"} => Refused(p) = {} /\ table[p] = TableFor(p)
  /\ pc[p] = "renaming" /\ lockBy # NoProc => lockText = Append(lines[p], table[p])

WriterInv ==
  /\ TypeOK /\ Increasing(list)
  /\ \A p \in Proc : ResultOK(p) /\ ReadOK(p) /\ WrittenOK(p)

\* What Refused and TableFor depend on.
LEMMA SameTransaction ==
  ASSUME NEW p \in Proc, stack'[p] = stack[p], todo'[p] = todo[p]
  PROVE  Refused(p)' = Refused(p) /\ TableFor(p)' = TableFor(p)
  BY DEF Refused, TableFor, Current, Seen

\* What is submitted is a sequence of operations, and a transaction of AtomicRefs.
LEMMA SubmittedBatch ==
  ASSUME TypeOK, NEW p \in Proc, cmd[p].kind = "batch"
  PROVE  cmd[p].ops \in Seq(Ops) /\ cmd[p].ops \in Transactions
<1>1. cmd[p] \in Commands
  BY DEF TypeOK
<1>2. cmd[p].ops \in Seq(Ops)
  BY <1>1, ReftableAssumption
<1>3. cmd[p] \in {d \in Commands : d.kind = "batch"}
  BY <1>1
<1>4. cmd[p].ops \in {c.ops : c \in {d \in Commands : d.kind = "batch"}}
  BY <1>3
<1> QED BY <1>2, <1>4 DEF Transactions

LEMMA SubmittedCommit ==
  ASSUME TypeOK, NEW p \in Proc, cmd[p].kind = "commit",
         Seen(p)[HEAD] \in Name, Seen(p)[Seen(p)[HEAD]] \notin Name
  PROVE  LET ops == <<Update(Seen(p)[HEAD], Seen(p)[Seen(p)[HEAD]], cmd[p].oid, TRUE)>>
         IN  ops \in Seq(Ops) /\ ops \in Transactions
<1> DEFINE b == Seen(p)[HEAD]
           e == Seen(p)[b]
           u == Update(b, e, cmd[p].oid, TRUE)
<1>1. cmd[p] \in Commands /\ stack[p] \in Seq(Table)
  BY DEF TypeOK
<1>2. cmd[p].oid \in Oid
  BY <1>1, ReftableAssumption
<1>3. Seen(p) \in [Name -> Value]
  BY <1>1, ViewType DEF Seen
<1>4. b \in Name /\ e \in Oid \cup {Absent}
  BY <1>3, ReftableConstants
<1>5. u \in Ops
  BY <1>2, <1>4, ReftableConstants DEF Update, Ops
<1>6. <<u>> \in Seq(Ops)
  <2> HIDE DEF u
  <2> QED BY <1>5
<1>7. u \in {v \in Ops : /\ v.log /\ v.expected # AnyOld
                       /\ \E c \in Commands : c.kind = "commit" /\ c.oid = v.new}
  BY <1>1, <1>4, <1>5, ReftableConstants DEF Update
<1>8. <<u>> \in Transactions
  <2> HIDE DEF u
  <2> QED BY <1>7 DEF Transactions
<1> QED BY <1>6, <1>8

\* A table above all others keeps the indexes increasing.
LEMMA IncreasingAppend ==
  ASSUME NEW l \in Seq(Table), Increasing(l), NEW t \in Table,
         \A i \in DOMAIN l : l[i].index < t.index
  PROVE  Increasing(Append(l, t))
<1>1. /\ Len(l) \in Nat /\ DOMAIN l = 1..Len(l)
      /\ DOMAIN Append(l, t) = 1..(Len(l) + 1)
      /\ \A i \in DOMAIN l : Append(l, t)[i] = l[i]
      /\ Append(l, t)[Len(l) + 1] = t
  OBVIOUS
<1> QED BY <1>1 DEF Increasing

\* The invariant holds initially.
LEMMA WriterInit == Init => WriterInv
<1> SUFFICES ASSUME Init PROVE WriterInv
  OBVIOUS
<1>1. <<Base>> \in Seq(Table) /\ <<>> \in Seq(Table) /\ <<>> \in Seq(Ops)
  BY ReftableConstants
<1>2. TypeOK
  BY <1>1, ReftableConstants DEF Init, TypeOK, Phase, Atomic!Outcomes
<1>3. Increasing(list)
  BY DEF Init, Increasing
<1>4. \A p \in Proc : ResultOK(p) /\ ReadOK(p) /\ WrittenOK(p)
  BY DEF Init, ResultOK, ReadOK, WrittenOK, Holding
<1> QED BY <1>2, <1>3, <1>4 DEF WriterInv

\* What a rename publishes, when a lock file is there.
LEMMA Published ==
  ASSUME WriterInv, NEW p \in Proc, pc[p] = "renaming"
  PROVE  /\ Prepared(p) /\ stack[p] = list /\ table[p] = TableFor(p)
         /\ lockBy # NoProc => lockText = Append(list, TableFor(p))
         /\ Increasing(Append(list, TableFor(p)))
<1>1. Prepared(p) /\ stack[p] = list /\ table[p] = TableFor(p) /\ lines[p] = list
  BY DEF WriterInv, TypeOK, Holding, ReadOK, WrittenOK, Prepared
<1>2. lockBy # NoProc => lockText = Append(list, TableFor(p))
  BY <1>1 DEF WriterInv, WrittenOK
<1>3. Increasing(Append(list, TableFor(p)))
  BY <1>1, TableForType, IncreasingAppend DEF WriterInv, TypeOK
<1> QED BY <1>1, <1>2, <1>3

Step(p) ==
  \/ Open(p)      \/ StartBatch(p) \/ StartCommit(p) \/ NothingToDo(p) \/ Lock(p)
  \/ LockFails(p) \/ ReadList(p)   \/ Refresh(p)     \/ Prepare(p)     \/ Refuse(p)
  \/ WriteLock(p) \/ RenameLock(p) \/ RemoveLock(p)  \/ Crash(p)

\* A step keeps the types.
LEMMA WriterType ==
  ASSUME WriterInv, NEW p \in Proc, Step(p)
  PROVE  TypeOK'
<1> USE DEF WriterInv, TypeOK, At, GoTo, Set, Finish, Phase, Atomic!Outcomes
<1>0. <<>> \in Seq(Table) /\ <<>> \in Seq(Ops)
  OBVIOUS
<1>1. CASE Open(p)
  BY <1>1 DEF Open
<1>2. CASE StartBatch(p)
  BY <1>2, SubmittedBatch DEF StartBatch, Submit, Atomic!Running
<1>3. CASE StartCommit(p)
  BY <1>3, SubmittedCommit DEF StartCommit, Submit, Atomic!Running
<1>4. CASE NothingToDo(p)
  BY <1>4 DEF NothingToDo
<1>5. CASE Lock(p)
  BY <1>0, <1>5 DEF Lock
<1>6. CASE LockFails(p)
  BY <1>6 DEF LockFails
<1>7. CASE ReadList(p)
  BY <1>7 DEF ReadList
<1>8. CASE Refresh(p)
  BY <1>8 DEF Refresh
<1>9. CASE Prepare(p)
  <2>1. Prepared(p)
    BY <1>9 DEF Prepare, Prepared, ReadOK
  <2> QED BY <1>9, <2>1, TableForType DEF Prepare
<1>10. CASE Refuse(p)
  BY <1>10 DEF Refuse
<1>11. CASE WriteLock(p)
  <2>1. Append(lines[p], table[p]) \in Seq(Table)
    OBVIOUS
  <2> QED BY <1>11, <2>1 DEF WriteLock
<1>12. CASE RenameLock(p)
  BY <1>0, <1>12 DEF RenameLock
<1>13. CASE RemoveLock(p)
  BY <1>0, <1>13 DEF RemoveLock
<1>14. CASE Crash(p)
  BY <1>14 DEF Crash
<1> QED
  BY <1>1, <1>2, <1>3, <1>4, <1>5, <1>6, <1>7, <1>8, <1>9, <1>10, <1>11, <1>12, <1>13, <1>14
  DEF Step

\* What is running has something to do until its rename.
LEMMA ResultStep ==
  ASSUME WriterInv, NEW p \in Proc, Step(p), NEW q \in Proc
  PROVE  ResultOK(q)'
<1> USE DEF WriterInv, TypeOK, ResultOK, At, GoTo, Set, Finish, Holding, Atomic!Running
<1>1. CASE Open(p)        BY <1>1 DEF Open
<1>2. CASE StartBatch(p)  BY <1>2 DEF StartBatch, Submit
<1>3. CASE StartCommit(p) BY <1>3 DEF StartCommit, Submit
<1>4. CASE NothingToDo(p) BY <1>4 DEF NothingToDo
<1>5. CASE Lock(p)        BY <1>5 DEF Lock
<1>6. CASE LockFails(p)   BY <1>6 DEF LockFails
<1>7. CASE ReadList(p)    BY <1>7 DEF ReadList
<1>8. CASE Refresh(p)     BY <1>8 DEF Refresh
<1>9. CASE Prepare(p)     BY <1>9 DEF Prepare
<1>10. CASE Refuse(p)     BY <1>10 DEF Refuse
<1>11. CASE WriteLock(p)  BY <1>11 DEF WriteLock
<1>12. CASE RenameLock(p) BY <1>12 DEF RenameLock
<1>13. CASE RemoveLock(p) BY <1>13 DEF RemoveLock
<1>14. CASE Crash(p)      BY <1>14 DEF Crash
<1> QED
  BY <1>1, <1>2, <1>3, <1>4, <1>5, <1>6, <1>7, <1>8, <1>9, <1>10, <1>11, <1>12, <1>13, <1>14
  DEF Step

\* Only a rename changes the list, and nobody else is writing then.
LEMMA ReadStep ==
  ASSUME WriterInv, OneWriter, NEW p \in Proc, Step(p), NEW q \in Proc
  PROVE  ReadOK(q)'
<1> USE DEF WriterInv, TypeOK, ReadOK, At, GoTo, Set, Finish, Holding
<1>1. CASE Open(p)        BY <1>1 DEF Open
<1>2. CASE StartBatch(p)  BY <1>2 DEF StartBatch, Submit
<1>3. CASE StartCommit(p) BY <1>3 DEF StartCommit, Submit
<1>4. CASE NothingToDo(p) BY <1>4 DEF NothingToDo
<1>5. CASE Lock(p)        BY <1>5 DEF Lock
<1>6. CASE LockFails(p)   BY <1>6 DEF LockFails
<1>7. CASE ReadList(p)    BY <1>7 DEF ReadList
<1>8. CASE Refresh(p)     BY <1>8 DEF Refresh
<1>9. CASE Prepare(p)     BY <1>9 DEF Prepare
<1>10. CASE Refuse(p)     BY <1>10 DEF Refuse
<1>11. CASE WriteLock(p)  BY <1>11 DEF WriteLock
<1>12. CASE RenameLock(p) BY <1>12 DEF RenameLock, OneWriter
<1>13. CASE RemoveLock(p) BY <1>13 DEF RemoveLock
<1>14. CASE Crash(p)      BY <1>14 DEF Crash
<1> QED
  BY <1>1, <1>2, <1>3, <1>4, <1>5, <1>6, <1>7, <1>8, <1>9, <1>10, <1>11, <1>12, <1>13, <1>14
  DEF Step

\* A writer's table answers its transaction, and the lock file it finished stays
\* as it wrote it or is gone.
LEMMA WrittenStep ==
  ASSUME WriterInv, OneWriter, OneWriter', NEW p \in Proc, Step(p), NEW q \in Proc
  PROVE  WrittenOK(q)'
<1> USE ReftableConstants
    DEF WriterInv, TypeOK, WrittenOK, At, GoTo, Set, Finish
<1>1. stack'[q] = stack[q] /\ todo'[q] = todo[q]
         => Refused(q)' = Refused(q) /\ TableFor(q)' = TableFor(q)
  BY SameTransaction
<1>2. CASE Open(p)        BY <1>1, <1>2 DEF Open
<1>3. CASE StartBatch(p)  BY <1>1, <1>3 DEF StartBatch, Submit
<1>4. CASE StartCommit(p) BY <1>1, <1>4 DEF StartCommit, Submit
<1>5. CASE NothingToDo(p) BY <1>1, <1>5 DEF NothingToDo
<1>6. CASE Lock(p)        BY <1>1, <1>6 DEF Lock, OneWriter, Holding
<1>7. CASE LockFails(p)   BY <1>1, <1>7 DEF LockFails
<1>8. CASE ReadList(p)    BY <1>1, <1>8 DEF ReadList
<1>9. CASE Refresh(p)     BY <1>1, <1>9 DEF Refresh
<1>10. CASE Prepare(p)    BY <1>1, <1>10 DEF Prepare
<1>11. CASE Refuse(p)     BY <1>1, <1>11 DEF Refuse
<1>12. CASE WriteLock(p)  BY <1>1, <1>12 DEF WriteLock, OneWriter, Holding
<1>13. CASE RenameLock(p) BY <1>1, <1>13 DEF RenameLock
<1>14. CASE RemoveLock(p) BY <1>1, <1>14 DEF RemoveLock
<1>15. CASE Crash(p)      BY <1>1, <1>15 DEF Crash
<1> QED
  BY <1>2, <1>3, <1>4, <1>5, <1>6, <1>7, <1>8, <1>9, <1>10, <1>11, <1>12, <1>13, <1>14, <1>15
  DEF Step

\* The list changes at renames that find a lock file, and stays ordered.
LEMMA ListStep ==
  ASSUME WriterInv, NEW p \in Proc, Step(p)
  PROVE  /\ Increasing(list')
         /\ ~RenameLock(p) => list' = list
         /\ RenameLock(p) /\ lockBy = NoProc => list' = list
<1>1. ~RenameLock(p) => list' = list
  BY DEF Step, Open, StartBatch, StartCommit, NothingToDo, Lock, LockFails, ReadList,
         Refresh, Prepare, Refuse, WriteLock, RemoveLock, Crash
<1>2. RenameLock(p) /\ lockBy = NoProc => list' = list
  BY DEF RenameLock
<1>3. RenameLock(p) /\ lockBy # NoProc => Increasing(list')
  BY Published DEF RenameLock, At
<1> QED BY <1>1, <1>2, <1>3 DEF WriterInv

\* WriterInv is inductive as long as there is one writer, before the step and after.
LEMMA WriterStep ==
  ASSUME WriterInv, OneWriter, OneWriter', [Next]_vars
  PROVE  WriterInv'
<1>1. ASSUME NEW p \in Proc, Step(p) PROVE WriterInv'
  BY <1>1, WriterType, ListStep, ResultStep, ReadStep, WrittenStep DEF WriterInv
<1>2. ASSUME UNCHANGED vars PROVE WriterInv'
  <2>1. \A q \in Proc : Refused(q)' = Refused(q) /\ TableFor(q)' = TableFor(q)
    BY <1>2, SameTransaction DEF vars
  <2> QED BY <1>2, <2>1 DEF vars, WriterInv, TypeOK, ResultOK, ReadOK, WrittenOK
<1> QED BY <1>1, <1>2 DEF Next, Step

-----------------------------------------------------------------------------
(* The promise kept.                                                       *)

\* The first table is a state of the refs.
LEMMA BatchInit == Init => Atomic!Init
<1> SUFFICES ASSUME Init PROVE Atomic!Init
  OBVIOUS
<1>1. <<Base>> \in Seq(Table)
  BY ReftableConstants
<1>2. View(list) \in [Name -> Value]
  BY <1>1, ViewType DEF Init
<1> QED BY <1>2 DEF Init, Atomic!Init, Atomic!Value, Value

\* The rename is the instant at which the whole transaction takes effect.
LEMMA RenameApplies ==
  ASSUME WriterInv, NEW p \in Proc, RenameLock(p), lockBy # NoProc
  PROVE  Atomic!ApplyAll(p)
<1>1. /\ Prepared(p) /\ stack[p] = list /\ lockText = Append(list, TableFor(p))
      /\ outcome[p] = Atomic!Running /\ todo[p] # <<>>
  BY Published DEF RenameLock, At, WriterInv, ResultOK, Holding
<1>2. /\ list' = lockText /\ todo' = [todo EXCEPT ![p] = <<>>] /\ UNCHANGED outcome
  BY DEF RenameLock, Set
<1>3. \A i \in DOMAIN todo[p] :
         Atomic!Met(todo[p][i].expected, Atomic!Deref(View(list), todo[p][i].name))
  BY <1>1, PreparedOps DEF Current, Seen
<1>4. View(list)' = Atomic!After(View(list), todo[p])
  BY <1>1, <1>2, TableForApplies DEF Seen
<1> QED BY <1>1, <1>2, <1>3, <1>4 DEF Atomic!ApplyAll

\* A mismatch is reported of the refs as they are.
LEMMA RefuseReports ==
  ASSUME WriterInv, NEW p \in Proc, Refuse(p)
  PROVE  Atomic!MismatchIn(p) \/ Atomic!Fail(p)
<1> DEFINE i == Min(Refused(p))
<1>1. /\ todo[p] \in Seq(Ops) /\ stack[p] = list /\ outcome[p] = Atomic!Running
      /\ Refused(p) # {} /\ list' = list /\ todo' = todo
      /\ outcome' = [outcome EXCEPT ![p] =
                       IF Current(p, todo[p][i].name) \in Name THEN "error" ELSE "mismatch"]
  BY DEF Refuse, At, Set, WriterInv, TypeOK, ResultOK, ReadOK, Holding
<1>2. i \in Refused(p)
  <2>1. Refused(p) \subseteq Nat
    BY <1>1 DEF Refused
  <2> QED BY <1>1, <2>1, MinIsLeast
<1> HIDE DEF i
<1>3. CASE Current(p, todo[p][i].name) \in Name
  BY <1>1, <1>3 DEF Atomic!Fail
<1>4. CASE Current(p, todo[p][i].name) \notin Name
  <2>1. /\ i \in DOMAIN todo[p]
        /\ ~Atomic!Met(todo[p][i].expected, Atomic!Deref(View(list), todo[p][i].name))
    BY <1>1, <1>2, <1>4 DEF Refused, Current, Seen
  <2> QED BY <1>1, <1>4, <2>1 DEF Atomic!MismatchIn
<1> QED BY <1>3, <1>4

\* Every step is a step of AtomicRefs or changes nothing a caller sees.
LEMMA BatchStep ==
  ASSUME WriterInv, [Next]_vars
  PROVE  [Atomic!BatchNext]_(Atomic!vars)
<1>1. ASSUME NEW p \in Proc, Step(p) PROVE [Atomic!BatchNext]_(Atomic!vars)
  <2> USE DEF At, GoTo, Set, Finish
  <2> SUFFICES \/ Atomic!Submit(p) \/ Atomic!ApplyAll(p) \/ Atomic!MismatchIn(p)
               \/ Atomic!Fail(p) \/ Atomic!Return(p)
               \/ UNCHANGED <<list, todo, outcome>>
    BY DEF Atomic!BatchNext, Atomic!vars
  <2>0. ResultOK(p) /\ TypeOK
    BY DEF WriterInv
  <2>1. CASE Open(p)        BY <2>1 DEF Open
  <2>2. CASE StartBatch(p)
    BY <2>0, <2>2, SubmittedBatch DEF StartBatch, Submit, ResultOK, Atomic!Submit
  <2>3. CASE StartCommit(p)
    BY <2>0, <2>3, SubmittedCommit
    DEF StartCommit, Submit, ResultOK, Atomic!Submit, Atomic!Fail
  <2>4. CASE NothingToDo(p)
    BY <2>0, <2>4 DEF NothingToDo, ResultOK, Atomic!Return
  <2>5. CASE Lock(p)        BY <2>5 DEF Lock
  <2>6. CASE LockFails(p)
    BY <2>0, <2>6 DEF LockFails, ResultOK, Atomic!Fail
  <2>7. CASE ReadList(p)    BY <2>7 DEF ReadList
  <2>8. CASE Refresh(p)     BY <2>8 DEF Refresh
  <2>9. CASE Prepare(p)     BY <2>9 DEF Prepare
  <2>10. CASE Refuse(p)     BY <2>10, RefuseReports
  <2>11. CASE WriteLock(p)  BY <2>11 DEF WriteLock
  <2>12. CASE RenameLock(p)
    <3>1. lockBy = NoProc => Atomic!Fail(p)
      BY <2>0, <2>12 DEF RenameLock, ResultOK, Holding, Atomic!Fail
    <3> QED BY <2>12, <3>1, RenameApplies
  <2>13. CASE RemoveLock(p)
    BY <2>0, <2>13 DEF RemoveLock, ResultOK, Atomic!Return
  <2>14. CASE Crash(p)      BY <2>14 DEF Crash
  <2> QED
    BY <1>1, <2>1, <2>2, <2>3, <2>4, <2>5, <2>6, <2>7, <2>8, <2>9, <2>10, <2>11, <2>12,
       <2>13, <2>14
    DEF Step
<1>2. CASE UNCHANGED vars
  BY <1>2 DEF vars, Atomic!vars
<1> QED BY <1>1, <1>2 DEF Next, Step

\* WriterInv holds in every behaviour with one writer at a time.
LEMMA WriterInvariant == Spec /\ []OneWriter => []WriterInv
<1>1. WriterInv /\ OneWriter /\ OneWriter' /\ [Next]_vars => WriterInv'
  BY WriterStep
<1> QED BY <1>1, WriterInit, PTL DEF Spec

\* A reftable transaction happens as a whole at the rename of tables.list.lock
\* (transaction.rs:2): what it was told to expect holds of the refs as they
\* are then, and a mismatch is reported only when one does not, however stale the
\* stack loaded at open.
THEOREM BatchesAreAtomic == Spec /\ []OneWriter => ImplementsAtomicBatches
<1>1. WriterInv /\ [Next]_vars => [Atomic!BatchNext]_(Atomic!vars)
  BY BatchStep
<1> QED
  BY <1>1, BatchInit, WriterInvariant, PTL
  DEF Spec, ImplementsAtomicBatches, Atomic!BatchSpec

-----------------------------------------------------------------------------
(* Two writers are one writer at a time.                                   *)

AtMostTwo == \A p, q, r \in Proc : p = q \/ q = r \/ p = r

\* The lock file is the writer's, or was removed by the one other process on its
\* way out.
OwnerInv ==
  /\ pc \in [Proc -> Phase]
  /\ \A q \in Proc : pc[q] \in Holding =>
       \/ lockBy = q
       \/ lockBy = NoProc /\ \A p \in Proc : p # q => pc[p] \in {"done", "dead"}

\* OwnerInv is inductive for two processes.
LEMMA OwnerStep ==
  ASSUME AtMostTwo, OwnerInv, [Next]_vars
  PROVE  OwnerInv'
<1> USE ReftableConstants DEF OwnerInv, Holding, Phase, At, GoTo, Set, Finish
<1>1. ASSUME NEW p \in Proc, Step(p) PROVE OwnerInv'
  <2>1. CASE Open(p)        BY <2>1 DEF Open
  <2>2. CASE StartBatch(p)  BY <2>2 DEF StartBatch, Submit
  <2>3. CASE StartCommit(p) BY <2>3 DEF StartCommit, Submit
  <2>4. CASE NothingToDo(p) BY <2>4 DEF NothingToDo
  <2>5. CASE Lock(p)        BY <2>5 DEF Lock
  <2>6. CASE LockFails(p)   BY <2>6 DEF LockFails
  <2>7. CASE ReadList(p)    BY <2>7 DEF ReadList
  <2>8. CASE Refresh(p)     BY <2>8 DEF Refresh
  <2>9. CASE Prepare(p)     BY <2>9 DEF Prepare
  <2>10. CASE Refuse(p)     BY <2>10 DEF Refuse
  <2>11. CASE WriteLock(p)  BY <2>11 DEF WriteLock
  <2>12. CASE RenameLock(p) BY <2>12 DEF RenameLock
  <2>13. CASE RemoveLock(p) BY <2>13 DEF RemoveLock, AtMostTwo
  <2>14. CASE Crash(p)      BY <2>14 DEF Crash
  <2> QED
    BY <1>1, <2>1, <2>2, <2>3, <2>4, <2>5, <2>6, <2>7, <2>8, <2>9, <2>10, <2>11, <2>12,
       <2>13, <2>14
    DEF Step
<1>2. CASE UNCHANGED vars
  BY <1>2 DEF vars
<1> QED BY <1>1, <1>2 DEF Next, Step

\* Two processes are never both between lock and rename, though each removes the
\* lock file by its path on the way out.
THEOREM TwoWritersTakeTurns == ASSUME AtMostTwo PROVE Spec => []OneWriter
<1>1. Init => OwnerInv
  BY DEF Init, OwnerInv, Holding, Phase
<1>2. OwnerInv /\ [Next]_vars => OwnerInv'
  BY OwnerStep
<1>3. OwnerInv => OneWriter
  BY ReftableConstants DEF OwnerInv, OneWriter, Holding
<1> QED BY <1>1, <1>2, <1>3, PTL DEF Spec

-----------------------------------------------------------------------------
(* Reflogs.                                                                *)

\* A transaction as the commands make them: one operation on a ref, and where HEAD
\* is written without a log entry of its own, the branch that gets one is the one
\* HEAD is made to name.
Plain(ops) ==
  /\ \A i, j \in DOMAIN ops : ops[i].name = ops[j].name => i = j
  /\ \A i, j \in DOMAIN ops :
       /\ ops[i].name = HEAD /\ ~(ops[i].log /\ ops[i].new \in Oid)
       /\ ops[j].log /\ ops[j].new \in Oid
       => ops[i].new = ops[j].name

PlainCommands == \A c \in Commands : c.kind = "batch" => Plain(c.ops)

\* HEAD leads to an oid, or to a branch still to be born, in at most five steps.
HeadResolves == Atomic!Deref(View(list), HEAD) \notin Name

HistoryInv == LogTellsHistory /\ \A p \in Proc : Plain(todo[p])

\* Chains of one and two, and a chain that ends.
LEMMA DerefDirect ==
  ASSUME NEW refs, NEW n \in Name
  PROVE  /\ refs[n] \notin Name => Atomic!Deref(refs, n) = refs[n]
         /\ refs[n] \in Name /\ refs[refs[n]] \notin Name
              => Atomic!Deref(refs, n) = refs[refs[n]]
         /\ refs[n] \in Name /\ Atomic!Deref(refs, n) \notin Name
              => Atomic!Deref(refs, refs[n]) = Atomic!Deref(refs, n)
  BY DEF Atomic!Deref

\* The prefixes of a longer stack.
LEMMA StackPrefixes ==
  ASSUME NEW l \in Seq(Table), NEW t \in Table
  PROVE  /\ \A i \in 0..Len(l) : SubSeq(Append(l, t), 1, i) = SubSeq(l, 1, i)
         /\ SubSeq(l, 1, Len(l)) = l
         /\ SubSeq(Append(l, t), 1, Len(l) + 1) = Append(l, t)
  OBVIOUS

\* What the new table's log says, entry by entry.
LEMMA LogTells ==
  ASSUME NEW p \in Proc, Prepared(p), Plain(todo[p]),
         Atomic!Deref(Seen(p), HEAD) \notin Name,
         NEW n \in Name, TableFor(p).log[n] # NoRecord
  PROVE  LET after == View(Append(stack[p], TableFor(p))) IN
           TableFor(p).log[n] = <<Atomic!Deref(Seen(p), n), Atomic!Deref(after, n)>>
<1> DEFINE after == View(Append(stack[p], TableFor(p)))
           ops == todo[p]
           last(m) == ops[Max(Logged(ops, m))]
<1>1. \A m \in Name :
         after[m] = IF About(ops, m) = {} THEN Seen(p)[m] ELSE ops[Max(About(ops, m))].new
  <2> HIDE DEF ops
  <2>1. after = Atomic!After(Seen(p), ops)
    BY TableForApplies DEF ops
  <2> HIDE DEF after
  <2> QED BY <2>1 DEF Atomic!After, About, Atomic!Max, Max
<1>2. ASSUME NEW m \in Name, Logged(ops, m) # {}
      PROVE  /\ Max(Logged(ops, m)) \in About(ops, m)
             /\ last(m).new \in Oid /\ after[m] = last(m).new
             /\ Atomic!Deref(after, m) = last(m).new
  <2>1. /\ Max(Logged(ops, m)) \in About(ops, m) /\ last(m).new \in Oid
    BY <1>2, LastOp DEF Prepared, Logged
  <2>2. Max(About(ops, m)) \in About(ops, m)
    BY <2>1, LastOp DEF Prepared
  <2>3. Max(About(ops, m)) = Max(Logged(ops, m))
    BY <2>1, <2>2 DEF About, Plain
  <2>4. after[m] = last(m).new
    BY <1>1, <2>1, <2>3
  <2> HIDE DEF after, last
  <2> QED BY <2>1, <2>4, DerefDirect, ReftableConstants
<1>3. Told(p, n) = <<Atomic!Deref(Seen(p), n), last(n).new>>
  BY DEF Told, Current
<1>4. CASE Logged(ops, n) # {}
  <2>1. TableFor(p).log[n] = Told(p, n)
    BY <1>4, TableForParts
  <2> QED BY <1>2, <1>3, <1>4, <2>1
<1>5. CASE Logged(ops, n) = {}
  <2> DEFINE b == Seen(p)[HEAD]
  <2>1. n = HEAD /\ Mirrors(p) /\ TableFor(p).log[n] = Told(p, b)
    <3>1. TableFor(p).log[n] = IF Logged(todo[p], n) # {} THEN Told(p, n)
                               ELSE IF n = HEAD /\ Mirrors(p) THEN Told(p, b) ELSE NoRecord
      BY TableForParts
    <3> HIDE DEF b
    <3> QED BY <1>5, <3>1
  <2>2. b \in Name /\ Logged(ops, b) # {}
    BY <2>1 DEF Mirrors
  <2>3. b # HEAD
    BY <1>5, <2>1, <2>2
  <2>4. after[HEAD] = b
    <3>1. CASE About(ops, HEAD) = {}
      BY <1>1, <3>1, ReftableConstants
    <3>2. CASE About(ops, HEAD) # {}
      <4>1. PICK j \in Logged(ops, b) : TRUE
        BY <2>2
      <4>2. \A i \in About(ops, HEAD) : ops[i].new = b
        BY <1>5, <2>1, <4>1 DEF Logged, About, Plain
      <4>3. Max(About(ops, HEAD)) \in About(ops, HEAD)
        BY <3>2, LastOp DEF Prepared
      <4> QED BY <1>1, <3>2, <4>2, <4>3, ReftableConstants
    <3> QED BY <3>1, <3>2
  <2>5. last(b).new \in Oid /\ after[b] = last(b).new
    BY <1>2, <2>2
  <2>6. Atomic!Deref(after, HEAD) = last(b).new
    <3> HIDE DEF after, last, b
    <3> QED BY <2>2, <2>4, <2>5, DerefDirect, ReftableConstants
  <2>7. Atomic!Deref(Seen(p), HEAD) = Atomic!Deref(Seen(p), b)
    BY <2>2, DerefDirect, ReftableConstants
  <2> QED BY <2>1, <2>6, <2>7 DEF Told, Current
<1> QED BY <1>4, <1>5

\* A new repository has nothing to tell.
LEMMA HistoryInit == ASSUME PlainCommands PROVE Init => HistoryInv
  BY DEF Init, HistoryInv, LogTellsHistory, Plain

\* What a process has to do: a batch, or one logged update to an oid, or nothing.
LEMMA TodoStep ==
  ASSUME WriterInv, NEW p \in Proc, Step(p), NEW q \in Proc
  PROVE  \/ todo'[q] = todo[q] \/ todo'[q] = <<>>
         \/ \E c \in Commands : c.kind = "batch" /\ todo'[q] = c.ops
         \/ \E u \in Ops : u.log /\ u.new \in Oid /\ todo'[q] = <<u>>
<1> USE DEF WriterInv, TypeOK, Set, GoTo, Finish
<1>1. CASE StartBatch(p)
  <2>1. cmd[p] \in Commands /\ cmd[p].kind = "batch"
    BY <1>1 DEF StartBatch
  <2> QED BY <1>1, <2>1 DEF StartBatch, Submit
<1>2. CASE StartCommit(p) /\ todo'[q] # todo[q]
  <2> DEFINE u == Update(Seen(p)[HEAD], Seen(p)[Seen(p)[HEAD]], cmd[p].oid, TRUE)
  <2>1. /\ todo'[q] = <<u>> /\ cmd[p].kind = "commit"
        /\ Seen(p)[HEAD] \in Name /\ Seen(p)[Seen(p)[HEAD]] \notin Name
    BY <1>2 DEF StartCommit, Submit
  <2>2. <<u>> \in Seq(Ops) /\ cmd[p] \in Commands
    BY <2>1, SubmittedCommit
  <2>3. u \in Ops
    <3> HIDE DEF u
    <3>1. <<u>>[1] \in Ops
      BY <2>2
    <3> QED BY <3>1
  <2>4. u.log /\ u.new \in Oid
    BY <2>1, <2>2, ReftableAssumption DEF Update
  <2> QED BY <2>1, <2>3, <2>4
<1>3. CASE RenameLock(p)
  BY <1>3 DEF RenameLock
<1>4. CASE ~StartBatch(p) /\ ~StartCommit(p) /\ ~RenameLock(p)
  BY <1>4 DEF Step, Open, NothingToDo, Lock, LockFails, ReadList, Refresh, Prepare, Refuse,
              WriteLock, RemoveLock, Crash
<1> QED BY <1>1, <1>2, <1>3, <1>4

\* What is submitted is plain.
LEMMA PlainStep ==
  ASSUME PlainCommands, WriterInv, NEW p \in Proc, Step(p), NEW q \in Proc, Plain(todo[q])
  PROVE  Plain(todo'[q])
<1>1. Plain(<<>>)
  BY DEF Plain
<1>2. \A u \in Ops : u.log /\ u.new \in Oid => Plain(<<u>>)
  BY DEF Plain
<1> QED BY <1>1, <1>2, TodoStep DEF PlainCommands

\* A rename adds the entries LogTells speaks of and leaves the others.
LEMMA HistoryRename ==
  ASSUME WriterInv, HistoryInv, HeadResolves, NEW p \in Proc, RenameLock(p), lockBy # NoProc
  PROVE  LogTellsHistory'
<1> DEFINE t == TableFor(p)
           l == list'
<1>1. /\ Prepared(p) /\ stack[p] = list /\ l = Append(list, t) /\ Increasing(l)
      /\ Plain(todo[p]) /\ list \in Seq(Table)
  BY Published DEF RenameLock, At, HistoryInv, WriterInv, TypeOK
<1>2. t \in Table
  BY <1>1, TableForType
<1> HIDE DEF t, l
<1>3. /\ Len(list) \in Nat /\ DOMAIN list = 1..Len(list) /\ DOMAIN l = 1..(Len(list) + 1)
      /\ \A i \in DOMAIN list : l[i] = list[i]
      /\ l[Len(list) + 1] = t
  BY <1>1, <1>2
<1>4. /\ \A i \in 0..Len(list) : SubSeq(l, 1, i) = SubSeq(list, 1, i)
      /\ SubSeq(l, 1, Len(list)) = list
      /\ SubSeq(l, 1, Len(list) + 1) = l
  BY <1>1, <1>2, <1>3, StackPrefixes
<1>5. ASSUME NEW i \in DOMAIN l \ {1}, NEW n \in Name, l[i].log[n] # NoRecord
      PROVE  l[i].log[n] = <<Atomic!Deref(View(SubSeq(l, 1, i - 1)), n),
                             Atomic!Deref(View(SubSeq(l, 1, i)), n)>>
  <2>1. CASE i <= Len(list)
    <3>1. i \in DOMAIN list \ {1} /\ i \in 0..Len(list) /\ i - 1 \in 0..Len(list)
      BY <1>3, <2>1
    <3>2. list[i].log[n] = <<Atomic!Deref(View(SubSeq(list, 1, i - 1)), n),
                             Atomic!Deref(View(SubSeq(list, 1, i)), n)>>
      BY <1>3, <1>5, <3>1 DEF HistoryInv, LogTellsHistory
    <3> QED BY <1>3, <1>4, <3>1, <3>2
  <2>2. CASE i = Len(list) + 1
    <3>1. i - 1 = Len(list) /\ l[i] = t
      BY <1>3, <2>2
    <3>2. Seen(p) = View(list) /\ Atomic!Deref(Seen(p), HEAD) \notin Name
      BY <1>1 DEF Seen, HeadResolves
    <3>3. t.log[n] = <<Atomic!Deref(View(list), n), Atomic!Deref(View(l), n)>>
      BY <1>1, <1>5, <3>1, <3>2, LogTells DEF t
    <3> QED BY <1>4, <2>2, <3>1, <3>3
  <2> QED BY <1>3, <2>1, <2>2
<1> QED BY <1>1, <1>5 DEF LogTellsHistory, Increasing, l

\* HistoryInv is inductive while HEAD resolves.
LEMMA HistoryStep ==
  ASSUME PlainCommands, WriterInv, HistoryInv, HeadResolves, [Next]_vars
  PROVE  HistoryInv'
<1>1. ASSUME NEW p \in Proc, Step(p) PROVE HistoryInv'
  <2>1. \A q \in Proc : Plain(todo'[q])
    BY <1>1, PlainStep DEF HistoryInv
  <2>2. CASE RenameLock(p) /\ lockBy # NoProc
    BY <2>1, <2>2, HistoryRename DEF HistoryInv
  <2>3. CASE ~(RenameLock(p) /\ lockBy # NoProc)
    <3>1. list' = list
      BY <1>1, <2>3, ListStep
    <3> QED BY <2>1, <3>1 DEF HistoryInv, LogTellsHistory
  <2> QED BY <2>2, <2>3
<1>2. CASE UNCHANGED vars
  BY <1>2 DEF vars, HistoryInv, LogTellsHistory
<1> QED BY <1>1, <1>2 DEF Next, Step

\* The entries a transaction writes for its refs, and for HEAD when it updates the
\* branch HEAD names, say what each resolved to before and after it, in the order
\* of the tables' update indexes.
THEOREM ReflogsTellHistory ==
  ASSUME PlainCommands
  PROVE  Spec /\ []OneWriter /\ []HeadResolves => []LogTellsHistory
<1>1. WriterInv /\ HistoryInv /\ HeadResolves /\ [Next]_vars => HistoryInv'
  BY HistoryStep
<1>2. HistoryInv => LogTellsHistory
  BY DEF HistoryInv
<1> QED BY <1>1, <1>2, HistoryInit, WriterInvariant, PTL DEF Spec

-----------------------------------------------------------------------------
(* HEAD resolves where nothing but HEAD is symbolic.                       *)

OnlyHead(refs) == \A n \in Name : refs[n] \in Name => n = HEAD /\ refs[n] # HEAD

PointsOnlyHead(ops) ==
  \A i \in DOMAIN ops : ops[i].new \in Name => ops[i].name = HEAD /\ ops[i].new # HEAD

OnlyHeadSymbolic ==
  /\ OnlyHead(View(<<Base>>))
  /\ \A c \in Commands : c.kind = "batch" => PointsOnlyHead(c.ops)

HeadInv == OnlyHead(View(list)) /\ \A p \in Proc : PointsOnlyHead(todo[p])

\* No transaction makes another ref symbolic, or HEAD its own target.
LEMMA HeadStep ==
  ASSUME OnlyHeadSymbolic, WriterInv, HeadInv, [Next]_vars
  PROVE  HeadInv'
<1>1. ASSUME NEW p \in Proc, Step(p) PROVE HeadInv'
  <2>1. ASSUME NEW q \in Proc PROVE PointsOnlyHead(todo'[q])
    <3>1. PointsOnlyHead(<<>>)
      BY DEF PointsOnlyHead
    <3>2. \A u \in Ops : u.log /\ u.new \in Oid => PointsOnlyHead(<<u>>)
      BY ReftableConstants DEF PointsOnlyHead
    <3> QED BY <1>1, <3>1, <3>2, TodoStep DEF OnlyHeadSymbolic, HeadInv
  <2>2. CASE RenameLock(p) /\ lockBy # NoProc
    <3>1. /\ Prepared(p) /\ stack[p] = list /\ list' = Append(list, TableFor(p))
          /\ todo[p] \in Seq(Ops)
      BY <2>2, Published DEF RenameLock, At, WriterInv, TypeOK
    <3>2. View(list)' = Atomic!After(View(list), todo[p])
      BY <3>1, TableForApplies DEF Seen
    <3>3. ASSUME NEW n \in Name, View(list)'[n] \in Name
          PROVE  n = HEAD /\ View(list)'[n] # HEAD
      <4>1. View(list)'[n] = IF About(todo[p], n) = {} THEN View(list)[n]
                             ELSE todo[p][Max(About(todo[p], n))].new
        BY <3>2 DEF Atomic!After, About, Atomic!Max, Max
      <4>2. CASE About(todo[p], n) = {}
        BY <3>3, <4>1, <4>2 DEF HeadInv, OnlyHead
      <4>3. CASE About(todo[p], n) # {}
        <5> DEFINE i == Max(About(todo[p], n))
        <5>1. i \in DOMAIN todo[p] /\ todo[p][i].name = n
          BY <3>1, <4>3, LastOp DEF About
        <5> HIDE DEF i
        <5>2. View(list)'[n] = todo[p][i].new
          BY <4>1, <4>3 DEF i
        <5> QED BY <3>3, <5>1, <5>2 DEF HeadInv, PointsOnlyHead
      <4> QED BY <4>2, <4>3
    <3> QED BY <2>1, <3>3 DEF HeadInv, OnlyHead
  <2>3. CASE ~(RenameLock(p) /\ lockBy # NoProc)
    <3>1. list' = list
      BY <1>1, <2>3, ListStep
    <3> QED BY <2>1, <3>1 DEF HeadInv
  <2> QED BY <2>2, <2>3
<1>2. CASE UNCHANGED vars
  BY <1>2 DEF vars, HeadInv
<1> QED BY <1>1, <1>2 DEF Next, Step

\* So HEAD always resolves.
LEMMA HeadInvariant ==
  ASSUME OnlyHeadSymbolic
  PROVE  Spec /\ []OneWriter => []HeadResolves
<1>1. Init => HeadInv
  BY DEF Init, HeadInv, OnlyHeadSymbolic, PointsOnlyHead
<1>2. WriterInv /\ HeadInv /\ [Next]_vars => HeadInv'
  BY HeadStep
<1>3. HeadInv => HeadResolves
  BY DerefDirect, ReftableConstants DEF HeadInv, OnlyHead, HeadResolves
<1> QED BY <1>1, <1>2, <1>3, WriterInvariant, PTL DEF Spec

\* For two processes nothing need be said of their turns: every transaction happens
\* as a whole at its rename, and the reflogs tell what happened.
THEOREM TwoWriters ==
  ASSUME AtMostTwo
  PROVE  /\ Spec => ImplementsAtomicBatches
         /\ PlainCommands /\ OnlyHeadSymbolic => (Spec => []LogTellsHistory)
<1>1. Spec => ImplementsAtomicBatches
  BY TwoWritersTakeTurns, BatchesAreAtomic, PTL
<1>2. ASSUME PlainCommands, OnlyHeadSymbolic PROVE Spec => []LogTellsHistory
  BY <1>2, TwoWritersTakeTurns, ReflogsTellHistory, HeadInvariant, PTL
<1> QED BY <1>1, <1>2
=============================================================================
