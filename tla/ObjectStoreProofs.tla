------------------------- MODULE ObjectStoreProofs -------------------------
(***************************************************************************)
(* Whatever users, a gc, prune and prune-packed do and wherever they die,  *)
(* what the branch and the index lead to can be read (ReachableAvailable), *)
(* as long as nobody writes, prunes or collects at the moments that Apart  *)
(* names.  What a clause of Apart excludes does lose objects.              *)
(***************************************************************************)
EXTENDS ObjectStore, SequenceTheorems, TLAPS

Phases == {"idle", "write", "fill", "rename", "index", "resetindex", "reset", "refs", "stage",
           "walk", "pack", "idx", "list", "drop", "clean"}

Busy(p)    == pc[p] # "idle"
Runs(p, k) == Busy(p) /\ Head(script[p]).kind = k
Holds(p)   == pc[p] \in {"fill", "rename"}

\* Two processes never have the temporary file of one object open together.
WritersApart ==
  \A p, q \in Proc : p # q /\ Holds(p) /\ Holds(q) => Head(towrite[p]) # Head(towrite[q])

\* A gc that finds old packs runs alone until it has deleted them.
GcApart ==
  \A p, q \in Proc : p # q /\ Runs(p, "gc") /\ pc[p] # "clean" /\ known[p] # {} => ~Busy(q)

\* prune runs alone.
PruneApart == \A p, q \in Proc : p # q /\ Runs(p, "prune") => ~Busy(q)

\* While prune-packed runs no .idx has lost its pack, as when a gc has died between them.
PrunePackedApart == \A p \in Proc : Runs(p, "prune-packed") => idxs \subseteq packs

\* Nobody commits an index that was written before a prune.
CommitsStaged == \A p \in Proc : pc[p] = "index" => ~pruned

Apart == WritersApart /\ GcApart /\ PruneApart /\ PrunePackedApart /\ CommitsStaged

-----------------------------------------------------------------------------
(* The inductive invariant.                                                *)

TypeOK ==
  /\ tip \in Commits /\ index \in Blob /\ pruned \in BOOLEAN
  /\ loose \subseteq Object /\ torn = {}
  /\ DOMAIN tmp \subseteq Object
  /\ packs \subseteq SUBSET Object /\ idxs \subseteq SUBSET Object
  /\ script \in [Proc -> Seq(Commands)]
  /\ pc \in [Proc -> Phases]
  /\ old \in [Proc -> Commits \cup {None}]
  /\ blob \in [Proc -> Blob \cup {None}]
  /\ towrite \in [Proc -> Seq(Object)]
  /\ fd \in [Proc -> {"none", "tmp"}]
  /\ known \in [Proc -> SUBSET SUBSET Object]
  /\ marked \in [Proc -> SUBSET Object]
  /\ victims \in [Proc -> SUBSET (({"pack", "idx"} \X SUBSET Object) \cup Object)]

\* The commands that are in a phase.
PhaseOK(p) ==
  Busy(p) => script[p] # <<>> /\ LET kind == Head(script[p]).kind IN
    /\ pc[p] \in {"write", "fill", "rename"} => kind \in {"add", "commit"}
    /\ pc[p] = "index" => kind = "commit"
    /\ pc[p] \in {"resetindex", "reset"} => kind = "reset"
    /\ pc[p] \in {"refs", "stage", "walk", "pack", "idx", "list", "drop"} => kind = "gc"
    /\ pc[p] = "clean" => kind \in {"gc", "prune", "prune-packed"}

\* One process runs gc.
OneGc == \A p, q \in Proc : GcCmd \in ToSet(script[p]) \cap ToSet(script[q]) => p = q

\* A writer has the temporary file of its object open, and no one else has.
WriteOK(p) ==
  /\ fd[p] = IF Holds(p) THEN "tmp" ELSE "none"
  /\ Holds(p) => towrite[p] # <<>> /\ Head(towrite[p]) \in DOMAIN tmp
  /\ pc[p] = "rename" => tmp[Head(towrite[p])] = "whole"

\* What a user's command holds on to is there, but for what it has yet to write.
Written(p, S) == S \ ToSet(towrite[p]) \subseteq Available

AddOK(p) == Runs(p, "add") => blob[p] \in Blob /\ Written(p, {blob[p]})

CommitOK(p) ==
  Runs(p, "commit") =>
    /\ old[p] \in Commits /\ History(old[p]) \subseteq Available
    /\ pc[p] # "index" =>
         /\ blob[p] \in Blob /\ blob[p] \in Available
         /\ Rewrites(p, blob[p]) => Written(p, {Tree(blob[p]), On(old[p], blob[p])})

ResetOK(p) ==
  Runs(p, "reset") =>
    old[p] \in Commits /\ HasParent(old[p]) /\ History(old[p]) \subseteq Available

\* gc: the packs are those it found, then its own besides; it deletes none of its own.
GcPacksOK(p) ==
  Runs(p, "gc") =>
    /\ pc[p] \in {"refs", "stage", "walk", "pack"} => packs \cap idxs = known[p]
    /\ pc[p] \in {"idx", "list", "drop"} => packs \cap idxs \subseteq known[p] \cup {marked[p]}
    /\ pc[p] = "idx" => marked[p] \in packs
    /\ pc[p] \in {"list", "drop", "clean"} => marked[p] \in packs \cap idxs
    /\ pc[p] = "drop" => victims[p] \subseteq {"pack", "idx"} \X ((SUBSET Object) \ {marked[p]})
    /\ pc[p] = "clean" => victims[p] \subseteq marked[p]

\* A gc over old packs has all that is live in its own before it deletes them.
GcMarksOK(p) ==
  Runs(p, "gc") /\ known[p] # {} =>
    /\ pc[p] \in {"stage", "walk"} => tip \in marked[p]
    /\ pc[p] = "walk" => index \in marked[p]
    /\ pc[p] \in {"pack", "idx", "list", "drop"} => History(tip) \cup {index} \subseteq marked[p]

PruneOK(p) == Runs(p, "prune") => pruned /\ History(tip) \subseteq marked[p]

PrunePackedOK(p) == Runs(p, "prune-packed") => marked[p] \subseteq UNION (packs \cap idxs)

ProcOK(p) ==
  /\ PhaseOK(p) /\ WriteOK(p)
  /\ AddOK(p) /\ CommitOK(p) /\ ResetOK(p)
  /\ GcPacksOK(p) /\ GcMarksOK(p) /\ PruneOK(p) /\ PrunePackedOK(p)

Inv == TypeOK /\ OneGc /\ (\A p \in Proc : ProcOK(p)) /\ ReachableAvailable

-----------------------------------------------------------------------------
(* Commits, and what they lead to.                                         *)

LEMMA CommitParts ==
  ASSUME NEW c \in Commits
  PROVE  /\ c.kind = "commit" /\ c.line \in Seq(Blob) /\ Len(c.line) \in Nat \ {0}
         /\ DOMAIN c.line = 1..Len(c.line)
         /\ \A k \in 1..Len(c.line) : c.line[k] \in Blob
         /\ c = Commit(c.line)
BY DEF Commits, Commit

LEMMA CommitMade ==
  ASSUME NEW s \in Seq(Blob), s # <<>>
  PROVE  Commit(s) \in Commits /\ Commit(s).line = s
BY DEF Commits, Commit

LEMMA Told ==
  ASSUME NEW o
  PROVE  /\ o \in Commits => o \in Object /\ o \notin Blob /\ o # None
         /\ o \in Blob => o \in Object /\ Tree(o) \in Object /\ o # None
BY ObjectStoreAssumption DEF Object, Trees, Tree

\* The k-th commit of a line is a commit, whose line is the first k blobs of it.
LEMMA AncestorParts ==
  ASSUME NEW c \in Commits, NEW k \in 1..Len(c.line)
  PROVE  /\ Ancestor(c, k) \in Commits
         /\ Len(Ancestor(c, k).line) = k
         /\ \A j \in 1..k : Ancestor(c, k).line[j] = c.line[j]
<1> DEFINE s == [i \in 1..k |-> c.line[i]]
<1>1. s \in Seq(Blob) /\ Len(s) = k
  BY CommitParts
<1>2. s # <<>>
  BY <1>1
<1>3. Ancestor(c, k) = Commit(s)
  BY DEF Ancestor
<1> QED BY <1>1, <1>2, <1>3, CommitMade

\* An ancestor of an ancestor of a commit is an ancestor of that commit.
LEMMA AncestorTwice ==
  ASSUME NEW c \in Commits, NEW k \in 1..Len(c.line), NEW j \in 1..k
  PROVE  Ancestor(Ancestor(c, k), j) = Ancestor(c, j)
<1>1. [i \in 1..j |-> Ancestor(c, k).line[i]] = [i \in 1..j |-> c.line[i]]
  BY AncestorParts
<1>2. \A d : Ancestor(d, j) = Commit([i \in 1..j |-> d.line[i]])
  BY DEF Ancestor
<1> QED BY <1>1, <1>2

LEMMA AncestorSelf ==
  ASSUME NEW c \in Commits
  PROVE  Ancestor(c, Len(c.line)) = c
<1> DEFINE s == [i \in 1..Len(c.line) |-> c.line[i]]
<1>1. s = c.line
  BY CommitParts
<1> QED BY <1>1, CommitParts DEF Ancestor

LEMMA HistoryParts ==
  ASSUME NEW c \in Commits
  PROVE  /\ \A k \in 1..Len(c.line) :
              Ancestor(c, k) \in History(c) /\ Tree(c.line[k]) \in History(c) /\ c.line[k] \in History(c)
         /\ \A o \in History(c) : \E k \in 1..Len(c.line) :
              o = Ancestor(c, k) \/ o = Tree(c.line[k]) \/ o = c.line[k]
BY CommitParts DEF History

LEMMA HistoryType ==
  ASSUME NEW c \in Commits
  PROVE  History(c) \subseteq Object /\ c \in History(c) /\ Object # {}
<1>1. ASSUME NEW o \in History(c) PROVE o \in Object
  <2>1. PICK k \in 1..Len(c.line) : o = Ancestor(c, k) \/ o = Tree(c.line[k]) \/ o = c.line[k]
    BY HistoryParts
  <2>2. c.line[k] \in Blob
    BY CommitParts
  <2> QED BY <2>1, <2>2, AncestorParts, Told
<1>2. c \in History(c)
  BY AncestorSelf, HistoryParts, CommitParts
<1> QED BY <1>1, <1>2

\* The parent of a commit leads to nothing the commit does not lead to.
LEMMA ParentParts ==
  ASSUME NEW c \in Commits, HasParent(c)
  PROVE  /\ Parent(c) \in Commits /\ History(Parent(c)) \subseteq History(c)
         /\ TreeOf(Parent(c)).blob \in Blob \cap History(Parent(c))
<1> DEFINE k == Len(c.line) - 1
<1>1. k \in 1..Len(c.line)
  BY CommitParts DEF HasParent
<1>2. Parent(c) \in Commits /\ Len(Parent(c).line) = k /\ \A j \in 1..k : Parent(c).line[j] = c.line[j]
  BY <1>1, AncestorParts DEF Parent
<1>3. ASSUME NEW o \in History(Parent(c)) PROVE o \in History(c)
  <2>1. PICK j \in 1..k : o = Ancestor(Parent(c), j) \/ o = Tree(Parent(c).line[j]) \/ o = Parent(c).line[j]
    BY <1>2, HistoryParts
  <2>2. Ancestor(Parent(c), j) = Ancestor(c, j) /\ j \in 1..Len(c.line)
    BY <1>1, AncestorTwice DEF Parent
  <2> QED BY <1>2, <2>1, <2>2, HistoryParts
<1>4. TreeOf(Parent(c)).blob = Parent(c).line[k]
  BY <1>2 DEF TreeOf, Last, Tree
<1>5. Parent(c).line[k] \in Blob \cap History(Parent(c))
  <2>1. k \in 1..Len(Parent(c).line)
    BY <1>1, <1>2, CommitParts DEF HasParent
  <2> QED BY <1>2, <2>1, HistoryParts, CommitParts
<1> QED BY <1>2, <1>3, <1>4, <1>5

\* A new commit leads to what its parent leads to, itself, its tree and its blob.
LEMMA OnParts ==
  ASSUME NEW c \in Commits, NEW b \in Blob
  PROVE  /\ On(c, b) \in Commits
         /\ History(On(c, b)) \subseteq History(c) \cup {On(c, b), Tree(b), b}
<1> DEFINE n == Len(c.line) + 1
<1>1. Append(c.line, b) \in Seq(Blob) /\ Len(Append(c.line, b)) = n /\ Append(c.line, b)[n] = b
      /\ \A j \in 1..Len(c.line) : Append(c.line, b)[j] = c.line[j]
  BY CommitParts
<1>2. On(c, b) \in Commits /\ On(c, b).line = Append(c.line, b)
  <2>1. Append(c.line, b) # <<>>
    BY <1>1, CommitParts
  <2> QED BY <1>1, <2>1, CommitMade DEF On
<1>3. ASSUME NEW o \in History(On(c, b)) PROVE o \in History(c) \cup {On(c, b), Tree(b), b}
  <2>1. PICK k \in 1..n : o = Ancestor(On(c, b), k) \/ o = Tree(On(c, b).line[k]) \/ o = On(c, b).line[k]
    BY <1>1, <1>2, HistoryParts
  <2>2. CASE k = n
    <3>1. Ancestor(On(c, b), n) = On(c, b)
      BY <1>1, <1>2, AncestorSelf
    <3> QED BY <1>1, <1>2, <2>1, <2>2, <3>1
  <2>3. CASE k # n
    <3>1. k \in 1..Len(c.line)
      BY <2>3, CommitParts
    <3>2. On(c, b).line[k] = c.line[k]
      BY <1>1, <1>2, <3>1
    <3>3. [i \in 1..k |-> On(c, b).line[i]] = [i \in 1..k |-> c.line[i]]
      BY <1>1, <1>2, <3>1, CommitParts
    <3>4. Ancestor(On(c, b), k) = Ancestor(c, k)
      BY <3>3 DEF Ancestor
    <3>5. {Ancestor(c, k), Tree(c.line[k]), c.line[k]} \subseteq History(c)
      BY <3>1, HistoryParts
    <3> QED BY <2>1, <3>2, <3>4, <3>5
  <2> QED BY <2>2, <2>3
<1> QED BY <1>2, <1>3

LEMMA ReachParts ==
  ASSUME NEW c \in Commits, NEW b \in Blob
  PROVE  Reach({c}) = History(c) /\ Reach({c, b}) = History(c) \cup {b}
BY Told DEF Reach

\* A walk that goes no further where it cannot read sees all if all can be read.
LEMMA SeenParts ==
  ASSUME NEW c \in Commits, NEW readable, History(c) \subseteq readable
  PROVE  Seen(c, readable) = History(c)
<1>1. \A k \in DOMAIN c.line :
         Ancestor(c, k) \in readable /\ Tree(c.line[k]) \in readable
  BY HistoryParts, CommitParts
<1>2. \A k, j : k \in DOMAIN c.line /\ j \in k+1..Len(c.line) => j \in DOMAIN c.line
  BY CommitParts
<1>3. Seen(c, readable) = {Ancestor(c, k) : k \in DOMAIN c.line} \cup {Tree(c.line[k]) : k \in DOMAIN c.line}
                            \cup {c.line[k] : k \in DOMAIN c.line}
  BY <1>1, <1>2 DEF Seen
<1>4. History(c) \subseteq Seen(c, readable)
  BY <1>3 DEF History
<1>5. Seen(c, readable) \subseteq History(c)
  <2>1. \A k \in DOMAIN c.line : {Ancestor(c, k), Tree(c.line[k]), c.line[k]} \subseteq History(c)
    BY HistoryParts, CommitParts
  <2> QED BY <1>3, <2>1
<1> QED BY <1>4, <1>5

-----------------------------------------------------------------------------
(* What one process does to the part of the invariant of another.          *)

mine(q) == <<script[q], pc[q], old[q], blob[q], towrite[q], fd[q], known[q], marked[q], victims[q]>>

\* A process keeps its part if what can be read only grows, its temporary file stays
\* and, when it cleans up, what it relies on stays too.
LEMMA Frame ==
  ASSUME NEW q \in Proc, ProcOK(q), UNCHANGED mine(q),
         Available \subseteq Available',
         Holds(q) /\ Head(towrite[q]) \in DOMAIN tmp =>
           Head(towrite[q]) \in DOMAIN tmp' /\ tmp'[Head(towrite[q])] = tmp[Head(towrite[q])],
         Runs(q, "gc") => UNCHANGED packDir,
         Runs(q, "gc") /\ pc[q] # "clean" /\ known[q] # {} => UNCHANGED <<tip, index>>,
         Runs(q, "prune") => UNCHANGED user,
         Runs(q, "prune-packed") => UNION (packs \cap idxs) \subseteq UNION (packs \cap idxs)'
  PROVE  ProcOK(q)'
<1> USE DEF mine
<1>1. UNCHANGED <<Busy(q), Holds(q), Runs(q, "add"), Runs(q, "commit"), Runs(q, "reset"),
                  Runs(q, "gc"), Runs(q, "prune"), Runs(q, "prune-packed")>>
  BY DEF Busy, Holds, Runs
<1>2. PhaseOK(q)'
  BY <1>1 DEF ProcOK, PhaseOK
<1>3. WriteOK(q)'
  BY <1>1 DEF ProcOK, WriteOK, Holds
<1>4. AddOK(q)'
  BY <1>1 DEF ProcOK, AddOK, Written
<1>5. CommitOK(q)'
  BY <1>1 DEF ProcOK, CommitOK, Written, Rewrites
<1>6. ResetOK(q)'
  BY <1>1 DEF ProcOK, ResetOK
<1>7. GcPacksOK(q)'
  BY <1>1 DEF ProcOK, GcPacksOK, packDir
<1>8. GcMarksOK(q)'
  BY <1>1 DEF ProcOK, GcMarksOK
<1>9. PruneOK(q)' /\ PrunePackedOK(q)'
  BY <1>1 DEF ProcOK, PruneOK, PrunePackedOK, user
<1> QED BY <1>2, <1>3, <1>4, <1>5, <1>6, <1>7, <1>8, <1>9 DEF ProcOK

\* No script ever gains a command.
LEMMA OneGcKept ==
  ASSUME TypeOK, OneGc, NEW p \in Proc,
         script' = script \/ (script[p] # <<>> /\ script' = Set(script, p, Tail(script[p])))
  PROVE  OneGc'
<1>1. \A q \in Proc : ToSet(script'[q]) \subseteq ToSet(script[q])
  <2>1. CASE script' = script
    BY <2>1
  <2>2. CASE script[p] # <<>> /\ script' = Set(script, p, Tail(script[p]))
    <3>1. script[p] \in Seq(Commands)
      BY DEF TypeOK
    <3>2. ToSet(Tail(script[p])) \subseteq ToSet(script[p])
      BY <2>2, <3>1 DEF ToSet
    <3>3. script'[p] = Tail(script[p]) /\ \A q \in Proc \ {p} : script'[q] = script[q]
      BY <2>2 DEF TypeOK, Set
    <3> QED BY <3>2, <3>3
  <2> QED BY <2>1, <2>2
<1> QED BY <1>1 DEF OneGc

\* Two processes are not in gc at once.
LEMMA OneRunsGc ==
  ASSUME TypeOK, OneGc, NEW p \in Proc, NEW q \in Proc, PhaseOK(p), PhaseOK(q),
         Runs(p, "gc"), Runs(q, "gc")
  PROVE  p = q
<1>1. ASSUME NEW r \in Proc, PhaseOK(r), Runs(r, "gc") PROVE GcCmd \in ToSet(script[r])
  <2>1. script[r] # <<>> /\ script[r] \in Seq(Commands) /\ Head(script[r]).kind = "gc"
    BY <1>1 DEF PhaseOK, Runs, TypeOK
  <2>2. Head(script[r]) \in Commands /\ Head(script[r]) = script[r][1] /\ 1 \in DOMAIN script[r]
    BY <2>1
  <2>3. Head(script[r]) = GcCmd
    BY <2>1, <2>2 DEF Commands, GcCmd
  <2> QED BY <2>2, <2>3 DEF ToSet
<1> QED BY <1>1 DEF OneGc

\* A step after which p has its part and the rest of the store is as it was, or larger.
LEMMA Quietly ==
  ASSUME Inv, NEW p \in Proc, UNCHANGED <<user, packDir>>, TypeOK', ProcOK(p)',
         script' = script \/ (script[p] # <<>> /\ script' = Set(script, p, Tail(script[p]))),
         Available \subseteq Available',
         \A q \in Proc \ {p} : UNCHANGED mine(q),
         \A q \in Proc \ {p} : Holds(q) /\ Head(towrite[q]) \in DOMAIN tmp =>
           Head(towrite[q]) \in DOMAIN tmp' /\ tmp'[Head(towrite[q])] = tmp[Head(towrite[q])]
  PROVE  Inv'
<1>1. OneGc'
  BY OneGcKept DEF Inv
<1>2. ASSUME NEW q \in Proc, q # p PROVE ProcOK(q)'
  BY <1>2, Frame DEF Inv, user, packDir
<1>3. ReachableAvailable'
  BY DEF Inv, ReachableAvailable, user
<1> QED BY <1>1, <1>2, <1>3 DEF Inv

\* Nothing is torn: what can be read is what is loose or in a pack with its index.
LEMMA ReadableNow ==
  /\ TypeOK => Available = loose \cup UNION (packs \cap idxs)
  /\ TypeOK' => Available' = loose' \cup UNION (packs' \cap idxs')
BY DEF TypeOK, Available

\* The property, in terms of what the branch leads to.
LEMMA Live ==
  /\ TypeOK => (ReachableAvailable <=>
                   History(tip) \subseteq Available /\ (pruned \/ index \in Available))
  /\ TypeOK' => (ReachableAvailable' <=>
                    History(tip') \subseteq Available' /\ (pruned' \/ index' \in Available'))
<1>1. ASSUME TypeOK
      PROVE  ReachableAvailable <=> History(tip) \subseteq Available /\ (pruned \/ index \in Available)
  <2>1. Reach({tip}) = History(tip) /\ Reach({tip, index}) = History(tip) \cup {index}
    BY <1>1, ReachParts DEF TypeOK
  <2>2. CASE pruned
    BY <2>1, <2>2 DEF ReachableAvailable
  <2>3. CASE ~pruned
    BY <2>1, <2>3 DEF ReachableAvailable
  <2> QED BY <2>2, <2>3
<1>2. ASSUME TypeOK'
      PROVE  ReachableAvailable' <=> History(tip') \subseteq Available' /\ (pruned' \/ index' \in Available')
  <2>1. Reach({tip'}) = History(tip') /\ Reach({tip', index'}) = History(tip') \cup {index'}
    BY <1>2, ReachParts DEF TypeOK
  <2>2. CASE pruned'
    BY <2>1, <2>2 DEF ReachableAvailable
  <2>3. CASE ~pruned'
    BY <2>1, <2>3 DEF ReachableAvailable
  <2> QED BY <2>2, <2>3
<1> QED BY <1>1, <1>2

LEMMA HeadOrTail ==
  ASSUME NEW S, NEW s \in Seq(S), s # <<>>
  PROVE  ToSet(s) \subseteq {Head(s)} \cup ToSet(Tail(s))
<1>1. ASSUME NEW i \in 1..Len(s), i # 1 PROVE s[i] = Tail(s)[i - 1] /\ i - 1 \in 1..Len(Tail(s))
  BY <1>1
<1>2. DOMAIN s = 1..Len(s) /\ DOMAIN Tail(s) = 1..Len(Tail(s)) /\ Head(s) = s[1]
  BY HeadTailProperties
<1>3. ASSUME NEW o \in ToSet(s) PROVE o = Head(s) \/ o \in ToSet(Tail(s))
  <2>1. PICK i \in 1..Len(s) : o = s[i]
    BY <1>2 DEF ToSet
  <2> QED BY <1>1, <1>2, <2>1 DEF ToSet
<1> QED BY <1>3

LEMMA CommandParts ==
  ASSUME TypeOK, NEW p \in Proc, script[p] # <<>>
  PROVE  /\ Head(script[p]) \in Commands /\ Tail(script[p]) \in Seq(Commands)
         /\ Head(script[p]).kind = "add" => Head(script[p]).blob \in Blob
BY DEF TypeOK, Commands

\* A process whose command has ended holds on to nothing.
LEMMA Ended ==
  ASSUME TypeOK, NEW p \in Proc, script[p] # <<>>, End(p)
  PROVE  /\ ProcOK(p)'
         /\ \A q \in Proc \ {p} : UNCHANGED mine(q)
         /\ script' \in [Proc -> Seq(Commands)] /\ pc' \in [Proc -> Phases]
         /\ old' \in [Proc -> Commits \cup {None}] /\ blob' \in [Proc -> Blob \cup {None}]
         /\ towrite' \in [Proc -> Seq(Object)] /\ fd' \in [Proc -> {"none", "tmp"}]
         /\ known' \in [Proc -> SUBSET SUBSET Object] /\ marked' \in [Proc -> SUBSET Object]
         /\ victims' \in [Proc -> SUBSET (({"pack", "idx"} \X SUBSET Object) \cup Object)]
         /\ script' = Set(script, p, Tail(script[p]))
<1> USE DEF Set
<1>1. pc'[p] = "idle" /\ fd'[p] = "none"
  BY DEF End, GoTo, TypeOK
<1>2. ProcOK(p)'
  BY <1>1 DEF ProcOK, PhaseOK, WriteOK, AddOK, CommitOK, ResetOK, GcPacksOK, GcMarksOK,
     PruneOK, PrunePackedOK, Runs, Busy, Holds
<1>3. \A q \in Proc \ {p} : UNCHANGED mine(q)
  BY DEF End, GoTo, TypeOK, mine
<1>4. /\ script' \in [Proc -> Seq(Commands)] /\ pc' \in [Proc -> Phases]
      /\ towrite' \in [Proc -> Seq(Object)]
  <2>1. Tail(script[p]) \in Seq(Commands)
    BY CommandParts
  <2>2. <<>> \in Seq(Object) /\ "idle" \in Phases
    BY DEF Phases
  <2> QED BY <2>1, <2>2 DEF End, GoTo, TypeOK
<1>5. /\ old' \in [Proc -> Commits \cup {None}] /\ blob' \in [Proc -> Blob \cup {None}]
      /\ fd' \in [Proc -> {"none", "tmp"}]
  BY DEF End, TypeOK
<1>6. /\ known' \in [Proc -> SUBSET SUBSET Object] /\ marked' \in [Proc -> SUBSET Object]
      /\ victims' \in [Proc -> SUBSET (({"pack", "idx"} \X SUBSET Object) \cup Object)]
  BY DEF End, TypeOK
<1> QED BY <1>2, <1>3, <1>4, <1>5, <1>6 DEF End

-----------------------------------------------------------------------------
(* Writing objects.                                                        *)

LEMMA SkipWriteStep ==
  ASSUME Inv, NEW p \in Proc, SkipWrite(p)
  PROVE  Inv'
<1> USE DEF SkipWrite, At, store, maint
<1> DEFINE o == Head(towrite[p])
<1>1. TypeOK /\ ProcOK(p) /\ towrite[p] \in Seq(Object) /\ towrite[p] # <<>>
  BY DEF Inv, TypeOK
<1>2. towrite'[p] = Tail(towrite[p]) /\ \A q \in Proc \ {p} : towrite'[q] = towrite[q]
  BY <1>1 DEF Set, TypeOK
<1>3. TypeOK'
  <2>1. Tail(towrite[p]) \in Seq(Object)
    BY <1>1
  <2> QED BY <1>1, <2>1 DEF TypeOK, Set, user, packDir
<1>4. Available' = Available /\ o \in Available
  BY <1>1, <1>3, ReadableNow DEF packDir
<1>5. \A S : Written(p, S) => Written(p, S)'
  <2>1. ToSet(towrite[p]) \subseteq ToSet(Tail(towrite[p])) \cup {o}
    BY <1>1, HeadOrTail
  <2> QED BY <1>2, <1>4, <2>1 DEF Written
<1>6. UNCHANGED <<Busy(p), Holds(p), Runs(p, "add"), Runs(p, "commit"), Runs(p, "reset"),
                  Runs(p, "gc"), Runs(p, "prune"), Runs(p, "prune-packed")>>
  BY DEF Busy, Holds, Runs
<1>7. ProcOK(p)'
  <2>1. PhaseOK(p)' /\ WriteOK(p)'
    BY <1>1, <1>6 DEF ProcOK, PhaseOK, WriteOK, Holds, Busy
  <2>2. AddOK(p)' /\ CommitOK(p)'
    BY <1>1, <1>4, <1>5, <1>6 DEF ProcOK, AddOK, CommitOK, Rewrites
  <2>3. ~Runs(p, "reset") /\ ~Runs(p, "gc") /\ ~Runs(p, "prune") /\ ~Runs(p, "prune-packed")
    BY <1>1 DEF ProcOK, PhaseOK, Runs, Busy
  <2> QED BY <1>6, <2>1, <2>2, <2>3
          DEF ProcOK, ResetOK, GcPacksOK, GcMarksOK, PruneOK, PrunePackedOK
<1>8. \A q \in Proc \ {p} : UNCHANGED mine(q)
  BY <1>2 DEF mine
<1> QED BY <1>3, <1>4, <1>7, <1>8, Quietly

LEMMA OpenTmpStep ==
  ASSUME Inv, Apart', NEW p \in Proc, OpenTmp(p)
  PROVE  Inv'
<1> USE DEF OpenTmp, At, maint
<1> DEFINE o == Head(towrite[p])
<1>1. TypeOK /\ ProcOK(p) /\ towrite[p] \in Seq(Object) /\ towrite[p] # <<>> /\ o \in Object
  BY DEF Inv, TypeOK
<1>2. /\ pc'[p] = "fill" /\ \A q \in Proc \ {p} : pc'[q] = pc[q]
      /\ fd'[p] = "tmp" /\ \A q \in Proc \ {p} : fd'[q] = fd[q]
      /\ tmp'[o] = "torn" /\ DOMAIN tmp' = DOMAIN tmp \cup {o}
      /\ \A x \in DOMAIN tmp : x # o => tmp'[x] = tmp[x]
  BY <1>1 DEF Set, GoTo, TypeOK
<1>3. TypeOK'
  BY <1>1 DEF TypeOK, Set, GoTo, user, packDir, Phases
<1>4. Available' = Available
  BY <1>1, <1>3, ReadableNow DEF packDir
<1>5. \A k : Runs(p, k)' = Runs(p, k)
  BY <1>2 DEF Busy, Runs
<1>6. ProcOK(p)'
  <2>1. PhaseOK(p)' /\ WriteOK(p)'
    BY <1>1, <1>2 DEF ProcOK, PhaseOK, WriteOK, Holds, Busy
  <2>2. AddOK(p)' /\ CommitOK(p)'
    BY <1>1, <1>2, <1>4, <1>5 DEF ProcOK, AddOK, CommitOK, Rewrites, Written
  <2>3. ~Runs(p, "reset") /\ ~Runs(p, "gc") /\ ~Runs(p, "prune") /\ ~Runs(p, "prune-packed")
    BY <1>1 DEF ProcOK, PhaseOK, Runs, Busy
  <2> QED BY <1>5, <2>1, <2>2, <2>3
          DEF ProcOK, ResetOK, GcPacksOK, GcMarksOK, PruneOK, PrunePackedOK
<1>7. \A q \in Proc \ {p} : UNCHANGED mine(q)
  BY <1>2 DEF mine
<1>8. ASSUME NEW q \in Proc \ {p}, Holds(q) PROVE Head(towrite[q]) # o
  <2>1. Holds(q)' /\ Holds(p)'
    BY <1>2, <1>8 DEF Holds
  <2> QED BY <2>1 DEF Apart, WritersApart
<1> QED BY <1>2, <1>3, <1>4, <1>6, <1>7, <1>8, Quietly

LEMMA FillTmpStep ==
  ASSUME Inv, Apart, NEW p \in Proc, FillTmp(p)
  PROVE  Inv'
<1> USE DEF FillTmp, At, maint, writing
<1> DEFINE o == Head(towrite[p])
<1>1. TypeOK /\ ProcOK(p) /\ Holds(p) /\ fd[p] = "tmp" /\ o \in DOMAIN tmp
  BY DEF Inv, ProcOK, WriteOK, Holds
<1>2. /\ pc'[p] = "rename" /\ \A q \in Proc \ {p} : pc'[q] = pc[q]
      /\ tmp'[o] = "whole" /\ DOMAIN tmp' = DOMAIN tmp
      /\ \A x \in DOMAIN tmp : x # o => tmp'[x] = tmp[x]
      /\ torn' = torn
  BY <1>1 DEF Set, GoTo, TypeOK
<1>3. TypeOK'
  BY <1>1, <1>2 DEF TypeOK, GoTo, user, packDir, Phases
<1>4. Available' = Available
  BY <1>1, <1>3, ReadableNow DEF packDir
<1>5. \A k : Runs(p, k)' = Runs(p, k)
  BY <1>2 DEF Busy, Runs
<1>6. ProcOK(p)'
  <2>1. PhaseOK(p)' /\ WriteOK(p)'
    BY <1>1, <1>2 DEF ProcOK, PhaseOK, WriteOK, Holds, Busy
  <2>2. AddOK(p)' /\ CommitOK(p)'
    BY <1>1, <1>2, <1>4, <1>5 DEF ProcOK, AddOK, CommitOK, Rewrites, Written
  <2>3. ~Runs(p, "reset") /\ ~Runs(p, "gc") /\ ~Runs(p, "prune") /\ ~Runs(p, "prune-packed")
    BY <1>1 DEF ProcOK, PhaseOK, Runs, Busy
  <2> QED BY <1>5, <2>1, <2>2, <2>3
          DEF ProcOK, ResetOK, GcPacksOK, GcMarksOK, PruneOK, PrunePackedOK
<1>7. \A q \in Proc \ {p} : UNCHANGED mine(q)
  BY <1>2 DEF mine
<1>8. ASSUME NEW q \in Proc \ {p}, Holds(q) PROVE Head(towrite[q]) # o
  BY <1>1, <1>8 DEF Apart, WritersApart
<1> QED BY <1>2, <1>3, <1>4, <1>6, <1>7, <1>8, Quietly

LEMMA RenameTmpStep ==
  ASSUME Inv, Apart, NEW p \in Proc, RenameTmp(p)
  PROVE  Inv'
<1> USE DEF RenameTmp, At, maint
<1> DEFINE o == Head(towrite[p])
<1>1. /\ TypeOK /\ ProcOK(p) /\ Holds(p) /\ o \in DOMAIN tmp /\ tmp[o] = "whole"
      /\ towrite[p] \in Seq(Object) /\ towrite[p] # <<>> /\ o \in Object
  BY DEF Inv, ProcOK, WriteOK, Holds, TypeOK
<1>2. ASSUME NEW q \in Proc \ {p} PROVE fd[q] = "none" \/ Head(towrite[q]) # o
  <2>1. Holds(q) => Head(towrite[q]) # o
    BY <1>1 DEF Apart, WritersApart
  <2> QED BY <2>1 DEF Inv, ProcOK, WriteOK
<1>3. /\ pc'[p] = "write" /\ \A q \in Proc \ {p} : pc'[q] = pc[q]
      /\ towrite'[p] = Tail(towrite[p]) /\ \A q \in Proc \ {p} : towrite'[q] = towrite[q]
      /\ DOMAIN tmp' = DOMAIN tmp \ {o} /\ \A x \in DOMAIN tmp' : tmp'[x] = tmp[x]
      /\ loose' = loose \cup {o} /\ torn' = torn \ {o}
  BY <1>1 DEF Set, GoTo, TypeOK
<1>4. fd'[p] = "none" /\ \A q \in Proc \ {p} : fd'[q] = fd[q]
  BY <1>1, <1>2
<1>5. TypeOK'
  <2>1. fd' \in [Proc -> {"none", "tmp"}]
    <3>1. \A q \in Proc : fd'[q] \in {"none", "tmp"}
      BY <1>1, <1>4 DEF TypeOK
    <3>2. fd' = [q \in Proc |-> fd'[q]]
      BY <1>1
    <3> QED BY <3>1, <3>2
  <2>2. Tail(towrite[p]) \in Seq(Object)
    BY <1>1
  <2>3. DOMAIN tmp' \subseteq Object /\ loose' \subseteq Object /\ torn' = {}
    BY <1>1, <1>3 DEF TypeOK
  <2>4. pc' \in [Proc -> Phases] /\ towrite' \in [Proc -> Seq(Object)]
    <3>1. pc' = Set(pc, p, "write") /\ towrite' = Set(towrite, p, Tail(towrite[p]))
      BY <1>1 DEF GoTo, Set
    <3> HIDE DEF RenameTmp
    <3> QED BY <1>1, <2>2, <3>1 DEF TypeOK, Set, Phases
  <2> QED BY <1>1, <2>1, <2>3, <2>4 DEF TypeOK, user, packDir
<1>6. Available \subseteq Available' /\ o \in Available'
  BY <1>1, <1>3, <1>5, ReadableNow DEF packDir
<1>7. \A k : Runs(p, k)' = Runs(p, k)
  BY <1>1, <1>3 DEF Busy, Runs
<1>8. ProcOK(p)'
  <2>1. PhaseOK(p)' /\ WriteOK(p)'
    BY <1>1, <1>3, <1>4 DEF ProcOK, PhaseOK, WriteOK, Holds, Busy
  <2>2. \A S : Written(p, S) => Written(p, S)'
    <3>1. ToSet(towrite[p]) \subseteq ToSet(Tail(towrite[p])) \cup {o}
      BY <1>1, HeadOrTail
    <3> QED BY <1>3, <1>6, <3>1 DEF Written
  <2>3. old' = old /\ blob' = blob
    BY <1>1
  <2>4. AddOK(p)' /\ CommitOK(p)'
    BY <1>1, <1>3, <1>6, <1>7, <2>2, <2>3 DEF ProcOK, AddOK, CommitOK, Rewrites
  <2>5. ~Runs(p, "reset") /\ ~Runs(p, "gc") /\ ~Runs(p, "prune") /\ ~Runs(p, "prune-packed")
    BY <1>1 DEF ProcOK, PhaseOK, Runs, Busy
  <2> QED BY <1>7, <2>1, <2>4, <2>5
          DEF ProcOK, ResetOK, GcPacksOK, GcMarksOK, PruneOK, PrunePackedOK
<1>9. \A q \in Proc \ {p} : UNCHANGED mine(q)
  BY <1>1, <1>3, <1>4 DEF mine
<1>10. ASSUME NEW q \in Proc \ {p}, Holds(q) PROVE Head(towrite[q]) # o
  BY <1>1, <1>10 DEF Apart, WritersApart
<1> QED BY <1>1, <1>3, <1>5, <1>6, <1>8, <1>9, <1>10, Quietly

-----------------------------------------------------------------------------
(* add, commit and reset.                                                  *)

LEMMA AvailableKept == UNCHANGED <<store, packDir>> => Available' = Available
BY DEF store, packDir, Available

\* A user's step that moves the branch or writes the index, with nobody at work whom
\* that would mislead.
LEMMA Moving ==
  ASSUME Inv, Apart, NEW p \in Proc, Busy(p), UNCHANGED <<store, packDir>>, TypeOK', ProcOK(p)',
         script' = script \/ (script[p] # <<>> /\ script' = Set(script, p, Tail(script[p]))),
         \A q \in Proc \ {p} : UNCHANGED mine(q),
         ReachableAvailable'
  PROVE  Inv'
<1>1. OneGc'
  BY OneGcKept DEF Inv
<1>2. ASSUME NEW q \in Proc, q # p PROVE ProcOK(q)'
  <2>1. ~Runs(q, "prune") /\ ~(Runs(q, "gc") /\ pc[q] # "clean" /\ known[q] # {})
    BY <1>2 DEF Apart, PruneApart, GcApart
  <2>2. Available \subseteq Available' /\ UNCHANGED <<packDir, tmp, packs, idxs>>
    BY AvailableKept DEF store, packDir
  <2> QED BY <1>2, <2>1, <2>2, Frame DEF Inv
<1> QED BY <1>1, <1>2 DEF Inv

LEMMA StartAddStep ==
  ASSUME Inv, NEW p \in Proc, StartAdd(p)
  PROVE  Inv'
<1> USE DEF StartAdd, StartsWith, At, maint
<1> DEFINE b == Head(script[p]).blob
<1>1. TypeOK /\ ProcOK(p) /\ pc[p] = "idle" /\ script[p] # <<>> /\ Head(script[p]).kind = "add" /\ b \in Blob
  BY CommandParts DEF Inv
<1>2. /\ pc'[p] = "write" /\ blob'[p] = b /\ towrite'[p] = <<b>>
      /\ \A q \in Proc \ {p} : pc'[q] = pc[q] /\ blob'[q] = blob[q] /\ towrite'[q] = towrite[q]
  BY <1>1 DEF Set, GoTo, TypeOK
<1>3. TypeOK'
  <2>1. <<b>> \in Seq(Object)
    BY <1>1, Told
  <2> QED BY <1>1, <2>1 DEF TypeOK, Set, GoTo, user, store, packDir, Phases
<1>4. ProcOK(p)'
  <2>1. PhaseOK(p)' /\ WriteOK(p)'
    BY <1>1, <1>2 DEF ProcOK, PhaseOK, WriteOK, Holds, Busy
  <2>2. AddOK(p)'
    <3>1. ToSet(<<b>>) = {b}
      BY DEF ToSet
    <3> QED BY <1>1, <1>2, <3>1 DEF AddOK, Written
  <2>3. \A k : Runs(p, k)' => k = "add"
    BY <1>1, <1>2 DEF Runs
  <2> QED BY <2>1, <2>2, <2>3
          DEF ProcOK, CommitOK, ResetOK, GcPacksOK, GcMarksOK, PruneOK, PrunePackedOK
<1>5. \A q \in Proc \ {p} : UNCHANGED mine(q)
  BY <1>2 DEF mine
<1> QED BY <1>3, <1>4, <1>5, Quietly, AvailableKept DEF store

LEMMA FinishAddStep ==
  ASSUME Inv, Apart, NEW p \in Proc, FinishAdd(p)
  PROVE  Inv'
<1> USE DEF FinishAdd, At
<1>1. TypeOK /\ ProcOK(p) /\ Runs(p, "add") /\ script[p] # <<>>
  BY DEF Inv, ProcOK, PhaseOK, Runs, Busy
<1>2. /\ ProcOK(p)' /\ script' = Set(script, p, Tail(script[p]))
      /\ \A q \in Proc \ {p} : UNCHANGED mine(q)
  BY <1>1, Ended
<1>3. blob[p] \in Blob /\ blob[p] \in Available
  BY <1>1 DEF ProcOK, AddOK, Written, ToSet
<1>4. TypeOK'
  BY <1>1, <1>3, Ended DEF TypeOK, store, packDir
<1>5. ReachableAvailable'
  <2>1. tip \in Commits /\ History(tip) \subseteq Available
    BY Live DEF Inv, TypeOK
  <2> QED BY <1>3, <1>4, <2>1, Live, AvailableKept
<1> QED BY <1>1, <1>2, <1>4, <1>5, Moving DEF Runs

LEMMA StartCommitStep ==
  ASSUME Inv, NEW p \in Proc, StartCommit(p)
  PROVE  Inv'
<1> USE DEF StartCommit, StartsWith, At, maint
<1>1. TypeOK /\ ProcOK(p) /\ pc[p] = "idle" /\ script[p] # <<>> /\ Head(script[p]).kind = "commit"
  BY DEF Inv
<1>2. /\ pc'[p] = "index" /\ old'[p] = tip
      /\ \A q \in Proc \ {p} : pc'[q] = pc[q] /\ old'[q] = old[q]
  BY <1>1 DEF Set, GoTo, TypeOK
<1>3. TypeOK'
  BY <1>1 DEF TypeOK, Set, GoTo, user, store, packDir, Phases
<1>4. ProcOK(p)'
  <2>1. PhaseOK(p)' /\ WriteOK(p)'
    BY <1>1, <1>2 DEF ProcOK, PhaseOK, WriteOK, Holds, Busy
  <2>2. CommitOK(p)'
    <3>1. tip \in Commits /\ History(tip) \subseteq Available
      BY Live DEF Inv, TypeOK
    <3> QED BY <1>2, <3>1, AvailableKept DEF CommitOK
  <2>3. \A k : Runs(p, k)' => k = "commit"
    BY <1>1, <1>2 DEF Runs
  <2> QED BY <2>1, <2>2, <2>3
          DEF ProcOK, AddOK, ResetOK, GcPacksOK, GcMarksOK, PruneOK, PrunePackedOK
<1>5. \A q \in Proc \ {p} : UNCHANGED mine(q)
  BY <1>2 DEF mine
<1> QED BY <1>3, <1>4, <1>5, Quietly, AvailableKept DEF store

LEMMA CommitIndexStep ==
  ASSUME Inv, Apart, NEW p \in Proc, CommitIndex(p)
  PROVE  Inv'
<1> USE DEF CommitIndex, At, maint
<1> DEFINE more == IF Rewrites(p, index) THEN <<On(old[p], index)>> ELSE <<>>
<1>1. /\ TypeOK /\ ProcOK(p) /\ script[p] # <<>> /\ Head(script[p]).kind = "commit" /\ index \in Blob
      /\ old[p] \in Commits /\ History(old[p]) \subseteq Available
  BY DEF Inv, ProcOK, PhaseOK, CommitOK, Runs, Busy, TypeOK
<1>2. /\ pc'[p] = "write" /\ blob'[p] = index /\ towrite'[p] = <<Tree(index)>> \o more
      /\ \A q \in Proc \ {p} : pc'[q] = pc[q] /\ blob'[q] = blob[q] /\ towrite'[q] = towrite[q]
  BY <1>1 DEF Set, GoTo, TypeOK
<1>3. index \in Available
  BY <1>1, Live DEF Apart, CommitsStaged, Inv
<1>4. more \in Seq(Object) /\ <<Tree(index)>> \o more \in Seq(Object)
  BY <1>1, OnParts, Told
<1>5. TypeOK'
  BY <1>1, <1>4 DEF TypeOK, Set, GoTo, user, store, packDir, Phases
<1>6. ProcOK(p)'
  <2>1. PhaseOK(p)' /\ WriteOK(p)'
    BY <1>1, <1>2 DEF ProcOK, PhaseOK, WriteOK, Holds, Busy
  <2>2. CommitOK(p)'
    <3>1. Rewrites(p, index)' = Rewrites(p, index) /\ old' = old /\ index' = index
      BY DEF Rewrites, user
    <3>2. ASSUME Rewrites(p, index) PROVE {Tree(index), On(old[p], index)} \subseteq ToSet(towrite'[p])
      <4>1. towrite'[p] = <<Tree(index), On(old[p], index)>>
        BY <1>2, <3>2
      <4> QED BY <4>1 DEF ToSet
    <3>3. Available' = Available
      BY AvailableKept
    <3>4. (Rewrites(p, blob[p]))' = Rewrites(p, index)
      BY <1>2, <3>1 DEF Rewrites
    <3>5. Rewrites(p, index) => Written(p, {Tree(blob[p]), On(old[p], blob[p])})'
      BY <1>2, <3>1, <3>2 DEF Written
    <3> HIDE DEF CommitIndex
    <3> QED BY <1>1, <1>2, <1>3, <3>1, <3>3, <3>4, <3>5 DEF CommitOK
  <2>3. \A k : Runs(p, k)' => k = "commit"
    BY <1>1, <1>2 DEF Runs
  <2> QED BY <2>1, <2>2, <2>3
          DEF ProcOK, AddOK, ResetOK, GcPacksOK, GcMarksOK, PruneOK, PrunePackedOK
<1>7. \A q \in Proc \ {p} : UNCHANGED mine(q)
  BY <1>2 DEF mine
<1> QED BY <1>5, <1>6, <1>7, Quietly, AvailableKept DEF store

LEMMA FinishCommitStep ==
  ASSUME Inv, Apart, NEW p \in Proc, FinishCommit(p)
  PROVE  Inv'
<1> USE DEF FinishCommit, At
<1>1. TypeOK /\ ProcOK(p) /\ Runs(p, "commit") /\ script[p] # <<>>
  BY DEF Inv, ProcOK, PhaseOK, Runs, Busy
<1>2. /\ ProcOK(p)' /\ script' = Set(script, p, Tail(script[p]))
      /\ \A q \in Proc \ {p} : UNCHANGED mine(q)
  BY <1>1, Ended
<1>3. /\ old[p] \in Commits /\ History(old[p]) \subseteq Available
      /\ blob[p] \in Blob /\ blob[p] \in Available
      /\ Rewrites(p, blob[p]) => {Tree(blob[p]), On(old[p], blob[p])} \subseteq Available
  BY <1>1 DEF ProcOK, CommitOK, Written, ToSet
<1>4. tip' \in Commits /\ index \in Blob
  BY <1>1, <1>3, OnParts DEF TypeOK
<1>5. TypeOK'
  BY <1>1, <1>4, Ended DEF TypeOK, store, packDir
<1>6. ReachableAvailable'
  <2>1. tip \in Commits /\ History(tip) \subseteq Available /\ (~pruned => index \in Available)
    BY Live DEF Inv, TypeOK
  <2>2. History(tip') \subseteq Available
    <3>1. Rewrites(p, blob[p]) => History(On(old[p], blob[p])) \subseteq Available
      BY <1>3, OnParts
    <3> QED BY <2>1, <3>1
  <2>3. Available' = Available
    BY AvailableKept
  <2> QED BY <1>5, <2>1, <2>2, <2>3, Live
<1> QED BY <1>1, <1>2, <1>5, <1>6, Moving DEF Runs

LEMMA StartResetStep ==
  ASSUME Inv, NEW p \in Proc, StartReset(p)
  PROVE  Inv'
<1> USE DEF StartReset, StartsWith, At, maint
<1>1. TypeOK /\ ProcOK(p) /\ pc[p] = "idle" /\ script[p] # <<>> /\ Head(script[p]).kind = "reset"
  BY DEF Inv
<1>2. CASE ~HasParent(tip)
  <2>1. TypeOK'
    BY <1>1, <1>2, Ended DEF TypeOK, user, store, packDir
  <2>2. End(p)
    BY <1>2
  <2> QED BY <1>1, <2>1, <2>2, Ended, Quietly, AvailableKept DEF store
<1>3. CASE HasParent(tip)
  <2>1. /\ pc'[p] = "resetindex" /\ old'[p] = tip
        /\ \A q \in Proc \ {p} : pc'[q] = pc[q] /\ old'[q] = old[q]
        /\ UNCHANGED <<script, blob, towrite, fd, maint>>
    BY <1>1, <1>3 DEF Set, GoTo, TypeOK
  <2>2. TypeOK'
    <3>1. old' = Set(old, p, tip) /\ pc' = Set(pc, p, "resetindex") /\ UNCHANGED <<user, store, packDir>>
      BY <1>3 DEF GoTo, Set
    <3>2. old' \in [Proc -> Commits \cup {None}] /\ pc' \in [Proc -> Phases]
      BY <1>1, <3>1 DEF TypeOK, Set, Phases
    <3> HIDE DEF StartReset
    <3> QED BY <1>1, <2>1, <3>1, <3>2 DEF TypeOK, user, store, packDir
  <2>3. ProcOK(p)'
    <3>1. PhaseOK(p)' /\ WriteOK(p)'
      BY <1>1, <2>1 DEF ProcOK, PhaseOK, WriteOK, Holds, Busy
    <3>2. ResetOK(p)'
      <4>1. tip \in Commits /\ History(tip) \subseteq Available
        BY Live DEF Inv, TypeOK
      <4> QED BY <1>3, <2>1, <4>1, AvailableKept DEF ResetOK
    <3>3. \A k : Runs(p, k)' => k = "reset"
      BY <1>1, <2>1 DEF Runs
    <3> QED BY <3>1, <3>2, <3>3
            DEF ProcOK, AddOK, CommitOK, GcPacksOK, GcMarksOK, PruneOK, PrunePackedOK
  <2>4. \A q \in Proc \ {p} : UNCHANGED mine(q)
    BY <2>1 DEF mine
  <2> QED BY <2>1, <2>2, <2>3, <2>4, Quietly, AvailableKept DEF store
<1> QED BY <1>2, <1>3

\* Both steps of a reset go back to the parent of the tip it read.
LEMMA ResetHolds ==
  ASSUME Inv, NEW p \in Proc, pc[p] \in {"resetindex", "reset"}
  PROVE  /\ TypeOK /\ ProcOK(p) /\ Runs(p, "reset") /\ script[p] # <<>>
         /\ Parent(old[p]) \in Commits /\ History(Parent(old[p])) \subseteq Available
         /\ TreeOf(Parent(old[p])).blob \in Blob \cap Available
<1>1. TypeOK /\ ProcOK(p) /\ Runs(p, "reset") /\ script[p] # <<>>
  BY DEF Inv, ProcOK, PhaseOK, Runs, Busy
<1>2. old[p] \in Commits /\ HasParent(old[p]) /\ History(old[p]) \subseteq Available
  BY <1>1 DEF ProcOK, ResetOK
<1> QED BY <1>1, <1>2, ParentParts

LEMMA ResetIndexStep ==
  ASSUME Inv, Apart, NEW p \in Proc, ResetIndex(p)
  PROVE  Inv'
<1> USE DEF ResetIndex, At, maint, writing
<1>1. /\ TypeOK /\ ProcOK(p) /\ Runs(p, "reset") /\ script[p] # <<>>
      /\ TreeOf(Parent(old[p])).blob \in Blob \cap Available
  BY ResetHolds
<1>2. pc'[p] = "reset" /\ \A q \in Proc \ {p} : pc'[q] = pc[q]
  BY <1>1 DEF GoTo, TypeOK
<1>3. TypeOK'
  BY <1>1 DEF TypeOK, GoTo, store, packDir, Phases
<1>4. ProcOK(p)'
  <2>1. PhaseOK(p)' /\ WriteOK(p)'
    BY <1>1, <1>2 DEF ProcOK, PhaseOK, WriteOK, Holds, Busy
  <2>2. ResetOK(p)'
    BY <1>1, <1>2, AvailableKept DEF ProcOK, ResetOK, Runs
  <2>3. \A k : Runs(p, k)' => k = "reset"
    BY <1>1, <1>2 DEF Runs
  <2> QED BY <2>1, <2>2, <2>3
          DEF ProcOK, AddOK, CommitOK, GcPacksOK, GcMarksOK, PruneOK, PrunePackedOK
<1>5. ReachableAvailable'
  <2>1. tip \in Commits /\ History(tip) \subseteq Available
    BY Live DEF Inv, TypeOK
  <2> QED BY <1>1, <1>3, <2>1, Live, AvailableKept
<1>6. \A q \in Proc \ {p} : UNCHANGED mine(q)
  BY <1>2 DEF mine
<1> QED BY <1>1, <1>3, <1>4, <1>5, <1>6, Moving DEF Runs

LEMMA FinishResetStep ==
  ASSUME Inv, Apart, NEW p \in Proc, FinishReset(p)
  PROVE  Inv'
<1> USE DEF FinishReset, At
<1>1. /\ TypeOK /\ ProcOK(p) /\ Runs(p, "reset") /\ script[p] # <<>>
      /\ Parent(old[p]) \in Commits /\ History(Parent(old[p])) \subseteq Available
  BY ResetHolds
<1>2. /\ ProcOK(p)' /\ script' = Set(script, p, Tail(script[p]))
      /\ \A q \in Proc \ {p} : UNCHANGED mine(q)
  BY <1>1, Ended
<1>3. TypeOK'
  BY <1>1, Ended DEF TypeOK, store, packDir
<1>4. ReachableAvailable'
  <2>1. tip \in Commits /\ index \in Blob /\ History(tip) \subseteq Available /\ (~pruned => index \in Available)
    BY Live DEF Inv, TypeOK
  <2>2. tip' \in Commits /\ History(tip') \subseteq Available
    BY <1>1, <2>1
  <2> QED BY <1>3, <2>1, <2>2, Live, AvailableKept
<1> QED BY <1>1, <1>2, <1>3, <1>4, Moving DEF Runs

-----------------------------------------------------------------------------
(* gc.                                                                     *)

\* A step of a process that runs alone.
LEMMA Alone ==
  ASSUME Inv, NEW p \in Proc, TypeOK', ProcOK(p)',
         script' = script \/ (script[p] # <<>> /\ script' = Set(script, p, Tail(script[p]))),
         \A q \in Proc \ {p} : ~Busy(q) /\ UNCHANGED mine(q),
         ReachableAvailable'
  PROVE  Inv'
<1>1. ASSUME NEW q \in Proc \ {p} PROVE ProcOK(q)'
  <2>1. ProcOK(q) /\ ~Busy(q) /\ UNCHANGED mine(q)
    BY DEF Inv
  <2>2. \A k : ~Busy(q)' /\ ~Runs(q, k)' /\ ~Holds(q)' /\ ~Holds(q) /\ fd'[q] = fd[q] /\ pc'[q] = "idle"
    BY <2>1 DEF mine, Busy, Runs, Holds
  <2> QED BY <2>1, <2>2 DEF ProcOK, PhaseOK, WriteOK, AddOK, CommitOK, ResetOK, GcPacksOK, GcMarksOK,
          PruneOK, PrunePackedOK
<1>2. OneGc'
  BY OneGcKept DEF Inv
<1> QED BY <1>1, <1>2 DEF Inv

\* A step of gc on the packs, by which nothing that can be read goes.
LEMMA Packing ==
  ASSUME Inv, NEW p \in Proc, Runs(p, "gc"), UNCHANGED <<user, store, script>>, TypeOK', ProcOK(p)',
         \A q \in Proc \ {p} : UNCHANGED mine(q),
         UNION (packs \cap idxs) \subseteq UNION (packs' \cap idxs')
  PROVE  Inv'
<1>1. Available \subseteq Available'
  BY ReadableNow DEF Inv, store
<1>2. ASSUME NEW q \in Proc, q # p PROVE ProcOK(q)'
  <2>1. ~Runs(q, "gc")
    BY <1>2, OneRunsGc DEF Inv, ProcOK
  <2> QED BY <1>1, <1>2, <2>1, Frame DEF Inv, user, store
<1>3. OneGc'
  BY OneGcKept DEF Inv
<1>4. ReachableAvailable'
  BY <1>1 DEF Inv, ReachableAvailable, user
<1> QED BY <1>2, <1>3, <1>4 DEF Inv

\* gc goes from phase to phase, with no temporary file of an object open.
LEMMA GcPhase ==
  ASSUME Inv, NEW p \in Proc, NEW phase \in {"refs", "stage", "walk", "pack", "idx", "list", "drop", "clean"},
         script[p] # <<>>, Head(script[p]).kind = "gc", ~Holds(p),
         pc' = Set(pc, p, phase), UNCHANGED <<script, fd>>
  PROVE  /\ pc'[p] = phase /\ \A q \in Proc \ {p} : pc'[q] = pc[q]
         /\ pc' \in [Proc -> Phases] /\ PhaseOK(p)' /\ WriteOK(p)' /\ Runs(p, "gc")'
<1>1. pc'[p] = phase /\ \A q \in Proc \ {p} : pc'[q] = pc[q]
  BY DEF Inv, TypeOK, Set
<1>2. pc' \in [Proc -> Phases]
  BY DEF Inv, TypeOK, Set, Phases
<1>3. PhaseOK(p)' /\ WriteOK(p)' /\ Runs(p, "gc")'
  BY <1>1 DEF Inv, ProcOK, PhaseOK, WriteOK, Runs, Busy, Holds
<1> QED BY <1>1, <1>2, <1>3

LEMMA InPhase ==
  ASSUME Inv, NEW p \in Proc, pc[p] \in {"refs", "stage", "walk", "pack", "idx", "list", "drop"}
  PROVE  /\ TypeOK /\ ProcOK(p) /\ Runs(p, "gc") /\ ~Holds(p)
         /\ script[p] # <<>> /\ Head(script[p]).kind = "gc"
BY DEF Inv, ProcOK, PhaseOK, Runs, Busy, Holds

LEMMA StartGcStep ==
  ASSUME Inv, NEW p \in Proc, StartGc(p)
  PROVE  Inv'
<1> USE DEF StartGc, StartsWith, At, writing
<1>1. TypeOK /\ pc[p] = "idle" /\ script[p] # <<>> /\ Head(script[p]).kind = "gc" /\ ~Holds(p)
  BY DEF Inv, Holds
<1>2. /\ pc'[p] = "refs" /\ \A q \in Proc \ {p} : pc'[q] = pc[q]
      /\ pc' \in [Proc -> Phases] /\ PhaseOK(p)' /\ WriteOK(p)' /\ Runs(p, "gc")'
  BY <1>1, GcPhase DEF GoTo, Set
<1>3. known'[p] = packs \cap idxs /\ \A q \in Proc \ {p} : known'[q] = known[q]
  BY <1>1 DEF TypeOK, Set
<1>4. TypeOK'
  BY <1>1, <1>2 DEF TypeOK, Set, user, store, packDir
<1>5. GcPacksOK(p)' /\ GcMarksOK(p)'
  BY <1>2, <1>3 DEF GcPacksOK, GcMarksOK, packDir
<1>6. ProcOK(p)'
  BY <1>1, <1>2, <1>5 DEF ProcOK, AddOK, CommitOK, ResetOK, PruneOK, PrunePackedOK, Runs
<1>7. \A q \in Proc \ {p} : UNCHANGED mine(q)
  BY <1>2, <1>3 DEF mine
<1> QED BY <1>4, <1>6, <1>7, Quietly, AvailableKept DEF store

LEMMA MarkRefsStep ==
  ASSUME Inv, NEW p \in Proc, MarkRefs(p)
  PROVE  Inv'
<1> USE DEF MarkRefs, At, writing
<1>1. TypeOK /\ ProcOK(p) /\ Runs(p, "gc") /\ ~Holds(p) /\ script[p] # <<>> /\ Head(script[p]).kind = "gc"
  BY InPhase
<1>2. /\ pc'[p] = "stage" /\ \A q \in Proc \ {p} : pc'[q] = pc[q]
      /\ pc' \in [Proc -> Phases] /\ PhaseOK(p)' /\ WriteOK(p)' /\ Runs(p, "gc")'
  BY <1>1, GcPhase DEF GoTo, Set
<1>3. marked'[p] = {tip} /\ \A q \in Proc \ {p} : marked'[q] = marked[q]
  BY <1>1 DEF TypeOK, Set
<1>4. TypeOK'
  <2>1. {tip} \subseteq Object
    BY <1>1, Told DEF TypeOK
  <2> QED BY <1>1, <1>2, <2>1 DEF TypeOK, Set, user, store, packDir
<1>5. GcPacksOK(p)' /\ GcMarksOK(p)'
  BY <1>1, <1>2, <1>3 DEF ProcOK, GcPacksOK, GcMarksOK, packDir, user
<1>6. ProcOK(p)'
  BY <1>1, <1>2, <1>5 DEF ProcOK, AddOK, CommitOK, ResetOK, PruneOK, PrunePackedOK, Runs
<1>7. \A q \in Proc \ {p} : UNCHANGED mine(q)
  BY <1>2, <1>3 DEF mine
<1> QED BY <1>4, <1>6, <1>7, Quietly, AvailableKept DEF store

LEMMA MarkIndexStep ==
  ASSUME Inv, NEW p \in Proc, MarkIndex(p)
  PROVE  Inv'
<1> USE DEF MarkIndex, At, writing
<1>1. TypeOK /\ ProcOK(p) /\ Runs(p, "gc") /\ ~Holds(p) /\ script[p] # <<>> /\ Head(script[p]).kind = "gc"
  BY InPhase
<1>2. /\ pc'[p] = "walk" /\ \A q \in Proc \ {p} : pc'[q] = pc[q]
      /\ pc' \in [Proc -> Phases] /\ PhaseOK(p)' /\ WriteOK(p)' /\ Runs(p, "gc")'
  BY <1>1, GcPhase DEF GoTo, Set
<1>3. marked'[p] = marked[p] \cup {index} /\ \A q \in Proc \ {p} : marked'[q] = marked[q]
  BY <1>1 DEF TypeOK, Set
<1>4. TypeOK'
  <2>1. marked[p] \cup {index} \subseteq Object
    BY <1>1, Told DEF TypeOK
  <2> QED BY <1>1, <1>2, <2>1 DEF TypeOK, Set, user, store, packDir
<1>5. GcPacksOK(p)' /\ GcMarksOK(p)'
  BY <1>1, <1>2, <1>3 DEF ProcOK, GcPacksOK, GcMarksOK, packDir, user
<1>6. ProcOK(p)'
  BY <1>1, <1>2, <1>5 DEF ProcOK, AddOK, CommitOK, ResetOK, PruneOK, PrunePackedOK, Runs
<1>7. \A q \in Proc \ {p} : UNCHANGED mine(q)
  BY <1>2, <1>3 DEF mine
<1> QED BY <1>4, <1>6, <1>7, Quietly, AvailableKept DEF store

LEMMA WalkStep ==
  ASSUME Inv, NEW p \in Proc, Walk(p)
  PROVE  Inv'
<1> USE DEF Walk, At
<1> DEFINE all == Reach(marked[p])
<1>1. TypeOK /\ ProcOK(p) /\ Runs(p, "gc") /\ ~Holds(p) /\ script[p] # <<>> /\ Head(script[p]).kind = "gc"
  BY InPhase
<1>2. CASE ~(all \subseteq Readable(p))
  <2>1. End(p) /\ UNCHANGED <<user, store, packDir>>
    BY <1>2
  <2>2. TypeOK'
    BY <1>1, <2>1, Ended DEF TypeOK, user, store, packDir
  <2> QED BY <1>1, <2>1, <2>2, Ended, Quietly, AvailableKept DEF store
<1>3. CASE all \subseteq Readable(p)
  <2>1. marked' = Set(marked, p, all) /\ pc' = Set(pc, p, "pack") /\ UNCHANGED <<script, writing, known, victims, user, store, packDir>>
    BY <1>3 DEF GoTo, Set
  <2>2. /\ pc'[p] = "pack" /\ \A q \in Proc \ {p} : pc'[q] = pc[q]
        /\ pc' \in [Proc -> Phases] /\ PhaseOK(p)' /\ WriteOK(p)' /\ Runs(p, "gc")'
    BY <1>1, <2>1, GcPhase DEF writing
  <2>3. marked'[p] = all /\ \A q \in Proc \ {p} : marked'[q] = marked[q]
    BY <1>1, <2>1 DEF TypeOK, Set
  <2>4. TypeOK'
    <3>1. Readable(p) \subseteq Object
      BY <1>1 DEF TypeOK, Readable
    <3>2. marked' \in [Proc -> SUBSET Object]
      BY <1>1, <1>3, <2>1, <3>1 DEF TypeOK, Set
    <3> HIDE DEF Walk
    <3> QED BY <1>1, <2>1, <2>2, <3>2 DEF TypeOK, user, store, packDir, writing
  <2>5. GcMarksOK(p)'
    <3>1. ASSUME known[p] # {} PROVE History(tip) \cup {index} \subseteq all
      <4>1. tip \in marked[p] /\ index \in marked[p]
        BY <1>1, <3>1 DEF ProcOK, GcMarksOK
      <4>2. tip \notin Blob /\ index \in Blob
        BY <1>1, Told DEF TypeOK
      <4> QED BY <4>1, <4>2 DEF Reach
    <3> QED BY <2>1, <2>2, <2>3, <3>1 DEF GcMarksOK, user
  <2>6. GcPacksOK(p)'
    BY <1>1, <2>1, <2>2 DEF ProcOK, GcPacksOK, packDir
  <2>7. ProcOK(p)'
    BY <1>1, <2>1, <2>2, <2>5, <2>6 DEF ProcOK, AddOK, CommitOK, ResetOK, PruneOK, PrunePackedOK, Runs
  <2>8. \A q \in Proc \ {p} : UNCHANGED mine(q)
    BY <2>1, <2>2, <2>3 DEF mine, writing
  <2> QED BY <2>1, <2>4, <2>7, <2>8, Quietly, AvailableKept DEF store
<1> QED BY <1>2, <1>3

LEMMA RenamePackStep ==
  ASSUME Inv, NEW p \in Proc, RenamePack(p)
  PROVE  Inv'
<1> USE DEF RenamePack, At, writing, maint
<1>1. TypeOK /\ ProcOK(p) /\ Runs(p, "gc") /\ ~Holds(p) /\ script[p] # <<>> /\ Head(script[p]).kind = "gc"
  BY InPhase
<1>2. /\ pc'[p] = "idx" /\ \A q \in Proc \ {p} : pc'[q] = pc[q]
      /\ pc' \in [Proc -> Phases] /\ PhaseOK(p)' /\ WriteOK(p)' /\ Runs(p, "gc")'
  BY <1>1, GcPhase DEF GoTo, Set
<1>3. TypeOK'
  <2>1. marked[p] \in SUBSET Object
    BY <1>1 DEF TypeOK
  <2> QED BY <1>1, <1>2, <2>1 DEF TypeOK, user, store
<1>4. GcPacksOK(p)' /\ GcMarksOK(p)'
  BY <1>1, <1>2 DEF ProcOK, GcPacksOK, GcMarksOK, user
<1>5. ProcOK(p)'
  BY <1>1, <1>2, <1>4 DEF ProcOK, AddOK, CommitOK, ResetOK, PruneOK, PrunePackedOK, Runs
<1>6. \A q \in Proc \ {p} : UNCHANGED mine(q)
  BY <1>2 DEF mine
<1>7. UNION (packs \cap idxs) \subseteq UNION (packs' \cap idxs')
  OBVIOUS
<1> QED BY <1>1, <1>3, <1>5, <1>6, <1>7, Packing

LEMMA RenameIdxStep ==
  ASSUME Inv, NEW p \in Proc, RenameIdx(p)
  PROVE  Inv'
<1> USE DEF RenameIdx, At, writing, maint
<1>1. TypeOK /\ ProcOK(p) /\ Runs(p, "gc") /\ ~Holds(p) /\ script[p] # <<>> /\ Head(script[p]).kind = "gc"
  BY InPhase
<1>2. /\ pc'[p] = "list" /\ \A q \in Proc \ {p} : pc'[q] = pc[q]
      /\ pc' \in [Proc -> Phases] /\ PhaseOK(p)' /\ WriteOK(p)' /\ Runs(p, "gc")'
  BY <1>1, GcPhase DEF GoTo, Set
<1>3. TypeOK'
  <2>1. marked[p] \in SUBSET Object
    BY <1>1 DEF TypeOK
  <2> QED BY <1>1, <1>2, <2>1 DEF TypeOK, user, store
<1>4. GcPacksOK(p)' /\ GcMarksOK(p)'
  BY <1>1, <1>2 DEF ProcOK, GcPacksOK, GcMarksOK, user
<1>5. ProcOK(p)'
  BY <1>1, <1>2, <1>4 DEF ProcOK, AddOK, CommitOK, ResetOK, PruneOK, PrunePackedOK, Runs
<1>6. \A q \in Proc \ {p} : UNCHANGED mine(q)
  BY <1>2 DEF mine
<1>7. UNION (packs \cap idxs) \subseteq UNION (packs' \cap idxs')
  OBVIOUS
<1> QED BY <1>1, <1>3, <1>5, <1>6, <1>7, Packing

LEMMA ListPacksStep ==
  ASSUME Inv, NEW p \in Proc, ListPacks(p)
  PROVE  Inv'
<1> USE DEF ListPacks, At, writing
<1> DEFINE others == ({"pack"} \X packs \cup {"idx"} \X idxs) \ ({"pack", "idx"} \X {marked[p]})
<1>1. TypeOK /\ ProcOK(p) /\ Runs(p, "gc") /\ ~Holds(p) /\ script[p] # <<>> /\ Head(script[p]).kind = "gc"
  BY InPhase
<1>2. /\ pc'[p] = "drop" /\ \A q \in Proc \ {p} : pc'[q] = pc[q]
      /\ pc' \in [Proc -> Phases] /\ PhaseOK(p)' /\ WriteOK(p)' /\ Runs(p, "gc")'
  BY <1>1, GcPhase DEF GoTo, Set
<1>3. victims'[p] = others /\ \A q \in Proc \ {p} : victims'[q] = victims[q]
  BY <1>1 DEF TypeOK, Set
<1>4. others \subseteq {"pack", "idx"} \X ((SUBSET Object) \ {marked[p]})
  BY <1>1 DEF TypeOK
<1>5. TypeOK'
  <2>1. others \in SUBSET (({"pack", "idx"} \X SUBSET Object) \cup Object)
    BY <1>4
  <2>2. victims' = Set(victims, p, others)
    OBVIOUS
  <2>3. victims' \in [Proc -> SUBSET (({"pack", "idx"} \X SUBSET Object) \cup Object)]
    <3> HIDE DEF others
    <3> QED BY <1>1, <2>1, <2>2 DEF TypeOK, Set
  <2> QED BY <1>1, <1>2, <2>3 DEF TypeOK, user, store, packDir
<1>6. GcPacksOK(p)' /\ GcMarksOK(p)'
  <2> HIDE DEF others
  <2> QED BY <1>1, <1>2, <1>3, <1>4 DEF ProcOK, GcPacksOK, GcMarksOK, user, packDir
<1>7. ProcOK(p)'
  BY <1>1, <1>2, <1>6 DEF ProcOK, AddOK, CommitOK, ResetOK, PruneOK, PrunePackedOK, Runs
<1>8. \A q \in Proc \ {p} : UNCHANGED mine(q)
  BY <1>2, <1>3 DEF mine
<1> QED BY <1>5, <1>7, <1>8, Quietly, AvailableKept DEF store

\* A file of an old pack goes: there are none, or nobody else is at work.
LEMMA DropPackFileStep ==
  ASSUME Inv, Apart, NEW p \in Proc, DropPackFile(p)
  PROVE  Inv'
<1> USE DEF DropPackFile, At, writing
<1>1. /\ TypeOK /\ ProcOK(p) /\ Runs(p, "gc") /\ ~Holds(p) /\ script[p] # <<>>
      /\ Head(script[p]).kind = "gc" /\ pc[p] = "drop"
  BY InPhase
<1>2. PICK v \in victims[p] :
        /\ packs' = IF v[1] = "pack" THEN packs \ {v[2]} ELSE packs
        /\ idxs'  = IF v[1] = "idx" THEN idxs \ {v[2]} ELSE idxs
        /\ victims' = Set(victims, p, victims[p] \ {v})
  OBVIOUS
<1>3. /\ victims[p] \subseteq {"pack", "idx"} \X ((SUBSET Object) \ {marked[p]})
      /\ marked[p] \in packs \cap idxs /\ packs \cap idxs \subseteq known[p] \cup {marked[p]}
  BY <1>1 DEF ProcOK, GcPacksOK
<1>4. marked[p] \in packs' \cap idxs' /\ packs' \subseteq packs /\ idxs' \subseteq idxs
  BY <1>2, <1>3
<1>5. victims'[p] \subseteq victims[p] /\ \A q \in Proc \ {p} : victims'[q] = victims[q]
  BY <1>1, <1>2 DEF TypeOK, Set
<1>6. TypeOK'
  <2>1. victims' \in [Proc -> SUBSET (({"pack", "idx"} \X SUBSET Object) \cup Object)]
    BY <1>1, <1>2 DEF TypeOK, Set
  <2> QED BY <1>1, <1>4, <2>1 DEF TypeOK, user, store
<1>7. Runs(p, "gc")' /\ UNCHANGED <<pc, script, old, blob, towrite, fd, known, marked, tip, index, pruned, loose, torn, tmp>>
  BY <1>1 DEF Runs, Busy, user, store
<1>8. ProcOK(p)'
  <2>1. PhaseOK(p)' /\ WriteOK(p)'
    BY <1>1, <1>7 DEF ProcOK, PhaseOK, WriteOK, Busy, Holds
  <2>2. GcPacksOK(p)' /\ GcMarksOK(p)'
    BY <1>1, <1>3, <1>4, <1>5, <1>7 DEF ProcOK, GcPacksOK, GcMarksOK
  <2> QED BY <1>1, <1>7, <2>1, <2>2 DEF ProcOK, AddOK, CommitOK, ResetOK, PruneOK, PrunePackedOK, Runs
<1>9. \A q \in Proc \ {p} : UNCHANGED mine(q)
  BY <1>5, <1>7 DEF mine
<1>10. CASE known[p] = {}
  <2>1. UNION (packs \cap idxs) \subseteq UNION (packs' \cap idxs')
    BY <1>3, <1>4, <1>10
  <2> QED BY <1>1, <1>6, <1>7, <1>8, <1>9, <2>1, Packing DEF user, store
<1>11. CASE known[p] # {}
  <2>1. ASSUME NEW q \in Proc \ {p} PROVE ~Busy(q)
    BY <1>1, <1>11 DEF Apart, GcApart
  <2>2. ReachableAvailable'
    <3>1. History(tip) \cup {index} \subseteq marked[p]
      BY <1>1, <1>11 DEF ProcOK, GcMarksOK
    <3>2. marked[p] \subseteq Available'
      BY <1>4, <1>6, ReadableNow
    <3> QED BY <1>6, <1>7, <3>1, <3>2, Live
  <2> QED BY <1>6, <1>7, <1>8, <1>9, <2>1, <2>2, Alone
<1> QED BY <1>10, <1>11

LEMMA PacksDroppedStep ==
  ASSUME Inv, NEW p \in Proc, PacksDropped(p)
  PROVE  Inv'
<1> USE DEF PacksDropped, At, writing
<1>1. TypeOK /\ ProcOK(p) /\ Runs(p, "gc") /\ ~Holds(p) /\ script[p] # <<>> /\ Head(script[p]).kind = "gc"
  BY InPhase
<1>2. /\ pc'[p] = "clean" /\ \A q \in Proc \ {p} : pc'[q] = pc[q]
      /\ pc' \in [Proc -> Phases] /\ PhaseOK(p)' /\ WriteOK(p)' /\ Runs(p, "gc")'
  BY <1>1, GcPhase DEF GoTo, Set
<1>3. victims'[p] = marked[p] /\ \A q \in Proc \ {p} : victims'[q] = victims[q]
  BY <1>1 DEF TypeOK, Set
<1>4. TypeOK'
  <2>1. marked[p] \in SUBSET (({"pack", "idx"} \X SUBSET Object) \cup Object)
    BY <1>1 DEF TypeOK
  <2>2. victims' \in [Proc -> SUBSET (({"pack", "idx"} \X SUBSET Object) \cup Object)]
    BY <1>1, <2>1 DEF TypeOK, Set
  <2> QED BY <1>1, <1>2, <2>2 DEF TypeOK, user, store, packDir
<1>5. GcPacksOK(p)' /\ GcMarksOK(p)'
  BY <1>1, <1>2, <1>3 DEF ProcOK, GcPacksOK, GcMarksOK, user, packDir
<1>6. ProcOK(p)'
  BY <1>1, <1>2, <1>5 DEF ProcOK, AddOK, CommitOK, ResetOK, PruneOK, PrunePackedOK, Runs
<1>7. \A q \in Proc \ {p} : UNCHANGED mine(q)
  BY <1>2, <1>3 DEF mine
<1> QED BY <1>4, <1>6, <1>7, Quietly, AvailableKept DEF store

-----------------------------------------------------------------------------
(* Loose files go.                                                         *)

\* The file of an object goes that no one has open; what is left for p to delete shrinks.
LEMMA Unlinked ==
  ASSUME Inv, NEW p \in Proc, At(p, "clean"), NEW o \in Object, Unlink(o),
         victims' = Set(victims, p, victims[p] \ {o}),
         UNCHANGED <<tmp, packDir, script, pc, old, blob, towrite, known, marked, user>>
  PROVE  /\ TypeOK' /\ Available \subseteq Available' \cup {o} /\ UNCHANGED fd
         /\ o \in UNION (packs \cap idxs) => Available \subseteq Available'
         /\ \A q \in Proc \ {p} : UNCHANGED mine(q)
         /\ PhaseOK(p)' /\ WriteOK(p)' /\ victims'[p] \subseteq victims[p] /\ (\A k : Runs(p, k)' = Runs(p, k))
<1>1. TypeOK /\ ProcOK(p)
  BY DEF Inv
<1>2. fd' = fd
  <2>1. fd' = [q \in Proc |-> fd[q]]
    BY <1>1 DEF Unlink, TypeOK
  <2> QED BY <1>1, <2>1 DEF TypeOK
<1>3. victims'[p] = victims[p] \ {o} /\ \A q \in Proc \ {p} : victims'[q] = victims[q]
  BY <1>1 DEF TypeOK, Set
<1>4. TypeOK'
  <2>1. victims' \in [Proc -> SUBSET (({"pack", "idx"} \X SUBSET Object) \cup Object)]
    BY <1>1 DEF TypeOK, Set
  <2>2. loose' \subseteq Object /\ torn' = {}
    BY <1>1 DEF TypeOK, Unlink
  <2> QED BY <1>1, <1>2, <2>1, <2>2 DEF TypeOK, user, packDir
<1>5. Available = loose \cup UNION (packs \cap idxs) /\ Available' = (loose \ {o}) \cup UNION (packs \cap idxs)
  BY <1>1, <1>4, ReadableNow DEF Unlink, packDir
<1>6. \A q \in Proc \ {p} : UNCHANGED mine(q)
  BY <1>2, <1>3 DEF mine
<1>7. PhaseOK(p)' /\ WriteOK(p)' /\ \A k : Runs(p, k)' = Runs(p, k)
  BY <1>1, <1>2 DEF At, ProcOK, PhaseOK, WriteOK, Runs, Busy, Holds
<1> QED BY <1>2, <1>3, <1>4, <1>5, <1>6, <1>7

LEMMA DropLooseStep ==
  ASSUME Inv, NEW p \in Proc, DropLoose(p)
  PROVE  Inv'
<1> USE DEF DropLoose, At
<1>1. TypeOK /\ ProcOK(p) /\ Runs(p, "gc") /\ pc[p] = "clean"
  BY DEF Inv, Runs, Busy
<1>2. PICK o \in victims[p] : Unlink(o) /\ victims' = Set(victims, p, victims[p] \ {o})
  OBVIOUS
<1>3. victims[p] \subseteq marked[p] /\ marked[p] \in packs \cap idxs /\ marked[p] \subseteq Object
  BY <1>1 DEF ProcOK, GcPacksOK, TypeOK
<1>4. o \in Object /\ o \in UNION (packs \cap idxs)
  BY <1>3
<1>5. /\ TypeOK' /\ UNCHANGED fd /\ Available \subseteq Available'
      /\ \A q \in Proc \ {p} : UNCHANGED mine(q)
      /\ PhaseOK(p)' /\ WriteOK(p)' /\ victims'[p] \subseteq victims[p] /\ (\A k : Runs(p, k)' = Runs(p, k))
  BY <1>1, <1>2, <1>4, Unlinked
<1>6. GcPacksOK(p)' /\ GcMarksOK(p)'
  BY <1>1, <1>3, <1>5 DEF GcPacksOK, GcMarksOK, packDir
<1>7. ProcOK(p)'
  BY <1>1, <1>5, <1>6 DEF ProcOK, AddOK, CommitOK, ResetOK, PruneOK, PrunePackedOK, Runs
<1> QED BY <1>5, <1>7, Quietly

\* prune takes loose files that the branch does not lead to, while nobody else is at
\* work; prune-packed takes those that are in a pack besides.
LEMMA DeleteLooseStep ==
  ASSUME Inv, Apart, NEW p \in Proc, DeleteLoose(p)
  PROVE  Inv'
<1> USE DEF DeleteLoose, At
<1>1. TypeOK /\ ProcOK(p) /\ pc[p] = "clean" /\ (Runs(p, "prune") \/ Runs(p, "prune-packed"))
  BY DEF Inv, ProcOK, PhaseOK, Runs, Busy
<1>2. PICK o \in loose : Condemned(p, o) /\ Unlink(o) /\ victims' = Set(victims, p, victims[p] \ {o})
  OBVIOUS
<1>3. /\ TypeOK' /\ UNCHANGED fd /\ Available \subseteq Available' \cup {o}
      /\ o \in UNION (packs \cap idxs) => Available \subseteq Available'
      /\ \A q \in Proc \ {p} : UNCHANGED mine(q)
      /\ PhaseOK(p)' /\ WriteOK(p)' /\ (\A k : Runs(p, k)' = Runs(p, k))
  <2>1. o \in Object
    BY <1>1 DEF TypeOK
  <2> QED BY <1>1, <1>2, <2>1, Unlinked
<1>4. ProcOK(p)'
  <2>1. PruneOK(p)' /\ PrunePackedOK(p)'
    BY <1>1, <1>3 DEF ProcOK, PruneOK, PrunePackedOK, packDir, user
  <2>2. ~Runs(p, "add")' /\ ~Runs(p, "commit")' /\ ~Runs(p, "reset")' /\ ~Runs(p, "gc")'
    BY <1>1, <1>3 DEF Runs
  <2> QED BY <1>3, <2>1, <2>2 DEF ProcOK, AddOK, CommitOK, ResetOK, GcPacksOK, GcMarksOK
<1>5. CASE Runs(p, "prune-packed")
  <2>1. o \in UNION (packs \cap idxs)
    BY <1>1, <1>2, <1>5 DEF Condemned, Runs, ProcOK, PrunePackedOK
  <2> QED BY <1>3, <1>4, <2>1, Quietly
<1>6. CASE Runs(p, "prune")
  <2>1. ASSUME NEW q \in Proc \ {p} PROVE ~Busy(q)
    BY <1>6 DEF Apart, PruneApart
  <2>2. ReachableAvailable'
    <3>1. pruned /\ History(tip) \subseteq marked[p] /\ o \notin marked[p]
      BY <1>1, <1>2, <1>6 DEF ProcOK, PruneOK, Condemned, Runs
    <3>2. History(tip) \subseteq Available
      BY Live DEF Inv
    <3>3. History(tip) \subseteq Available'
      BY <1>3, <3>1, <3>2
    <3>4. UNCHANGED <<tip, pruned>>
      BY DEF user
    <3> QED BY <1>3, <3>1, <3>3, <3>4, Live
  <2> QED BY <1>3, <1>4, <2>1, <2>2, Alone
<1> QED BY <1>1, <1>5, <1>6

LEMMA StartPruneStep ==
  ASSUME Inv, Apart', NEW p \in Proc, StartPrune(p)
  PROVE  Inv'
<1> USE DEF StartPrune, StartsWith, At, writing
<1> DEFINE reach == Seen(tip, Available)
<1>1. TypeOK /\ ProcOK(p) /\ pc[p] = "idle" /\ script[p] # <<>> /\ Head(script[p]).kind = "prune"
  BY DEF Inv
<1>2. /\ pc'[p] = "clean" /\ marked'[p] = reach
      /\ \A q \in Proc \ {p} : pc'[q] = pc[q] /\ marked'[q] = marked[q] /\ victims'[q] = victims[q]
  BY <1>1 DEF Set, GoTo, TypeOK
<1>3. History(tip) \subseteq Available /\ tip \in Commits
  BY Live DEF Inv, TypeOK
<1>4. History(tip) \subseteq reach
  BY <1>3, SeenParts
<1>5. reach \subseteq Object
  BY <1>3, SeenParts, HistoryType
<1>6. TypeOK'
  <2>1. marked' = Set(marked, p, reach) /\ victims' = Set(victims, p, loose \ reach) /\ pc' = Set(pc, p, "clean")
    BY DEF GoTo, Set
  <2>2. marked' \in [Proc -> SUBSET Object]
    <3> HIDE DEF reach
    <3> QED BY <1>1, <1>5, <2>1 DEF TypeOK, Set
  <2>3. victims' \in [Proc -> SUBSET (({"pack", "idx"} \X SUBSET Object) \cup Object)]
    <3>1. loose \ reach \in SUBSET (({"pack", "idx"} \X SUBSET Object) \cup Object)
      BY <1>1 DEF TypeOK
    <3> HIDE DEF reach
    <3> QED BY <1>1, <2>1, <3>1 DEF TypeOK, Set
  <2>4. pc' \in [Proc -> Phases]
    BY <1>1, <2>1 DEF TypeOK, Set, Phases
  <2> QED BY <1>1, <2>2, <2>3, <2>4 DEF TypeOK, store, packDir
<1>7. \A k : Runs(p, k)' = (k = "prune")
  BY <1>1, <1>2 DEF Runs, Busy
<1>8. ProcOK(p)'
  <2>1. PhaseOK(p)' /\ WriteOK(p)'
    BY <1>1, <1>2 DEF ProcOK, PhaseOK, WriteOK, Busy, Holds
  <2>2. PruneOK(p)'
    <3> HIDE DEF reach
    <3> QED BY <1>2, <1>4 DEF PruneOK
  <2> QED BY <1>7, <2>1, <2>2 DEF ProcOK, AddOK, CommitOK, ResetOK, GcPacksOK, GcMarksOK, PrunePackedOK
<1>9. \A q \in Proc \ {p} : ~Busy(q) /\ UNCHANGED mine(q)
  <2>1. \A q \in Proc \ {p} : ~Busy(q)'
    BY <1>7 DEF Apart, PruneApart
  <2> QED BY <1>2, <2>1 DEF mine, Busy
<1>10. ReachableAvailable'
  BY <1>3, <1>6, Live, AvailableKept
<1> QED BY <1>6, <1>8, <1>9, <1>10, Alone

LEMMA StartPrunePackedStep ==
  ASSUME Inv, Apart', NEW p \in Proc, StartPrunePacked(p)
  PROVE  Inv'
<1> USE DEF StartPrunePacked, StartsWith, At, writing
<1>1. TypeOK /\ ProcOK(p) /\ pc[p] = "idle" /\ script[p] # <<>> /\ Head(script[p]).kind = "prune-packed"
  BY DEF Inv
<1>2. /\ pc'[p] = "clean" /\ marked'[p] = UNION idxs
      /\ \A q \in Proc \ {p} : pc'[q] = pc[q] /\ marked'[q] = marked[q] /\ victims'[q] = victims[q]
  BY <1>1 DEF Set, GoTo, TypeOK
<1>3. \A k : Runs(p, k)' = (k = "prune-packed")
  BY <1>1, <1>2 DEF Runs, Busy
<1>4. idxs \subseteq packs
  BY <1>3 DEF Apart, PrunePackedApart, packDir
<1>5. TypeOK'
  <2>1. UNION idxs \in SUBSET Object /\ UNION idxs \in SUBSET (({"pack", "idx"} \X SUBSET Object) \cup Object)
    BY <1>1 DEF TypeOK
  <2>2. marked' = Set(marked, p, UNION idxs) /\ victims' = Set(victims, p, UNION idxs) /\ pc' = Set(pc, p, "clean")
    BY DEF GoTo, Set
  <2>3. /\ marked' \in [Proc -> SUBSET Object] /\ pc' \in [Proc -> Phases]
        /\ victims' \in [Proc -> SUBSET (({"pack", "idx"} \X SUBSET Object) \cup Object)]
    BY <1>1, <2>1, <2>2 DEF TypeOK, Set, Phases
  <2> QED BY <1>1, <2>3 DEF TypeOK, user, store, packDir
<1>6. ProcOK(p)'
  <2>1. PhaseOK(p)' /\ WriteOK(p)'
    BY <1>1, <1>2 DEF ProcOK, PhaseOK, WriteOK, Busy, Holds
  <2>2. PrunePackedOK(p)'
    <3>1. packs \cap idxs = idxs
      BY <1>4
    <3> QED BY <1>2, <3>1 DEF PrunePackedOK, packDir
  <2> QED BY <1>3, <2>1, <2>2 DEF ProcOK, AddOK, CommitOK, ResetOK, GcPacksOK, GcMarksOK, PruneOK
<1>7. \A q \in Proc \ {p} : UNCHANGED mine(q)
  BY <1>2 DEF mine
<1> QED BY <1>5, <1>6, <1>7, Quietly, AvailableKept DEF store

\* Whoever ends, or is killed, leaves the store as it is.
LEMMA EndStep ==
  ASSUME Inv, NEW p \in Proc, FinishClean(p) \/ Crash(p)
  PROVE  Inv'
<1>1. TypeOK /\ script[p] # <<>> /\ End(p) /\ UNCHANGED <<user, store, packDir>>
  BY DEF Inv, ProcOK, PhaseOK, Busy, FinishClean, Crash, At
<1>2. TypeOK'
  BY <1>1, Ended DEF TypeOK, user, store, packDir
<1> QED BY <1>1, <1>2, Ended, Quietly, AvailableKept DEF store

-----------------------------------------------------------------------------
(* The theorem.                                                            *)

LEMMA InitOK == Init => Inv
<1> SUFFICES ASSUME Init PROVE Inv
  OBVIOUS
<1> USE DEF Init
<1>1. Root \in Commits /\ Root.line = <<Initial>>
  <2>1. <<Initial>> \in Seq(Blob) /\ <<Initial>> # <<>>
    BY ObjectStoreAssumption
  <2> QED BY <2>1, CommitMade DEF Root
<1>2. Initial \in Blob /\ History(Root) = {Root, Tree(Initial), Initial}
  <2>1. DOMAIN Root.line = {1} /\ Root.line[1] = Initial /\ Ancestor(Root, 1) = Root
    <3>1. Len(Root.line) = 1 /\ DOMAIN Root.line = {1} /\ Root.line[1] = Initial
      BY <1>1
    <3> QED BY <1>1, <3>1, AncestorSelf
  <2> QED BY <2>1, ObjectStoreAssumption DEF History
<1>3. TypeOK
  <2>1. script \in [Proc -> Seq(Commands)]
    BY ObjectStoreAssumption
  <2>2. loose \subseteq Object
    BY <1>1, <1>2, Told
  <2>3. DOMAIN tmp \subseteq Object /\ packs \subseteq SUBSET Object /\ idxs \subseteq SUBSET Object
    OBVIOUS
  <2>4. towrite \in [Proc -> Seq(Object)]
    <3>1. <<>> \in Seq(Object)
      OBVIOUS
    <3> QED BY <3>1
  <2>5. /\ pc \in [Proc -> Phases] /\ fd \in [Proc -> {"none", "tmp"}]
        /\ old \in [Proc -> Commits \cup {None}] /\ blob \in [Proc -> Blob \cup {None}]
    BY DEF Phases
  <2>6. /\ known \in [Proc -> SUBSET SUBSET Object] /\ marked \in [Proc -> SUBSET Object]
        /\ victims \in [Proc -> SUBSET (({"pack", "idx"} \X SUBSET Object) \cup Object)]
    OBVIOUS
  <2>7. tip \in Commits /\ index \in Blob /\ pruned \in BOOLEAN /\ torn = {}
    BY <1>1, <1>2
  <2> HIDE DEF Init
  <2> QED BY <2>1, <2>2, <2>3, <2>4, <2>5, <2>6, <2>7 DEF TypeOK
<1>4. OneGc
  BY ObjectStoreAssumption DEF OneGc
<1>5. ASSUME NEW p \in Proc PROVE ProcOK(p)
  <2>1. \A k : ~Busy(p) /\ ~Runs(p, k) /\ ~Holds(p) /\ fd[p] = "none" /\ pc[p] = "idle"
    BY DEF Busy, Runs, Holds
  <2> QED BY <2>1 DEF ProcOK, PhaseOK, WriteOK, AddOK, CommitOK, ResetOK, GcPacksOK, GcMarksOK,
          PruneOK, PrunePackedOK
<1>6. ReachableAvailable
  BY <1>2, <1>3, Live, ReadableNow
<1> QED BY <1>3, <1>4, <1>5, <1>6 DEF Inv

LEMMA StutterOK == ASSUME Inv, UNCHANGED vars PROVE Inv'
<1> USE DEF vars, user, store, packDir, writing, maint
<1>1. TypeOK' /\ OneGc' /\ ReachableAvailable'
  BY DEF Inv, TypeOK, OneGc, ReachableAvailable, Available
<1>2. ASSUME NEW p \in Proc PROVE ProcOK(p)'
  BY Frame, AvailableKept DEF Inv, mine
<1> QED BY <1>1, <1>2 DEF Inv

LEMMA NextOK == ASSUME Inv, Apart, Apart', Next PROVE Inv'
<1>1. PICK p \in Proc : Write(p) \/ User(p) \/ Gc(p) \/ Cleanup(p) \/ Crash(p)
  BY DEF Next
<1>2. CASE Write(p)
  BY <1>2, SkipWriteStep, OpenTmpStep, FillTmpStep, RenameTmpStep DEF Write
<1>3. CASE User(p)
  BY <1>3, StartAddStep, FinishAddStep, StartCommitStep, CommitIndexStep, FinishCommitStep,
     StartResetStep, ResetIndexStep, FinishResetStep DEF User
<1>4. CASE Gc(p)
  BY <1>4, StartGcStep, MarkRefsStep, MarkIndexStep, WalkStep, RenamePackStep, RenameIdxStep,
     ListPacksStep, DropPackFileStep, PacksDroppedStep, DropLooseStep DEF Gc
<1>5. CASE Cleanup(p) \/ Crash(p)
  BY <1>5, StartPruneStep, StartPrunePackedStep, DeleteLooseStep, EndStep DEF Cleanup
<1> QED BY <1>1, <1>2, <1>3, <1>4, <1>5

\* Whatever add, commit and reset do while one process repacks and others clean up, and
\* wherever any of them dies, the next command can read all that the branch and the
\* index lead to, if the moments that Apart names do not come (reachable.rs, repack.rs,
\* prune.rs, odb/loose.rs, pack/build.rs).
THEOREM StoreKeepsReachable == Spec /\ []Apart => []ReachableAvailable
<1>1. Init => Inv
  BY InitOK
<1>2. Inv /\ Apart /\ Apart' /\ [Next]_vars => Inv'
  BY NextOK, StutterOK
<1>3. Inv => ReachableAvailable
  BY DEF Inv
<1> QED BY <1>1, <1>2, <1>3, PTL DEF Spec

=============================================================================
