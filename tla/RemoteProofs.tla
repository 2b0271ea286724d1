---------------------------- MODULE RemoteProofs ----------------------------
(***************************************************************************)
(* What push, fetch and clone tell, for any clients, branches, tags and    *)
(* histories, and however many work at once: remote-tracking refs and      *)
(* successful pushes tell the truth, and nothing is dropped from the hub   *)
(* that nobody asked to drop.                                              *)
(*                                                                         *)
(* The types (TypeOK) come with what a push has decided and the lock it    *)
(* holds (MoveInv): a lock's holder is the only one who moves its ref, so  *)
(* the old value it compared is still there at its rename.  HeldOK says    *)
(* where each value a command has read comes from.                         *)
(***************************************************************************)
EXTENDS Remote, WellFoundedInduction, SequenceTheorems, TLAPS

CommitOrNone == Commit \cup {None}

Actions == {"delete", "create", "up to date", "update", "force"}
Refspec   == [src : Name \cup {None}, dst : Name, force : BOOLEAN]
Move    == [dst : Name, old : CommitOrNone, new : CommitOrNone, action : Actions]
Step    == {"idle", "planned", "packing", "indexing", "written", "locked", "discovered", "sent",
            "listed", "fetched", "clone listed", "clone fetched", "copying", "headed", "checkout"}

ReposType ==
  /\ state \in [Client -> {"none", "partial", "ready"}]
  /\ refs \in [Repo -> [Name -> CommitOrNone]]
  /\ tracking \in [Client -> [Branch -> CommitOrNone]]
  /\ loose \in [Repo -> SUBSET Commit] /\ packed \in [Repo -> SUBSET Commit]
  /\ lock \in [Name -> Client \cup {None, Dead}]

MovingType ==
  /\ pc \in [Client -> Step]
  /\ cmd \in [Client -> [specs : Seq(Refspec), over : {"none", "path", "net"}]]
  /\ seen \in [Client -> [Name -> CommitOrNone]]
  /\ plan \in [Client -> Seq(Move)]
  /\ pack \in [Client -> {None} \cup SUBSET Commit]
  /\ reply \in [Client -> {None} \cup SUBSET Name]
  /\ outcome \in [Client -> {"none", "ok", "error"}]

GhostType ==
  ghost \in [held : [Name -> SUBSET CommitOrNone], excused : SUBSET Repo,
             work : Nat, remote : Nat, faults : Nat]

CoreType == ReposType /\ MovingType /\ GhostType

\* The hub's temporary files, and its gc.
BuiltType ==
  /\ tmp \in [Kind -> SUBSET (Builder \cup {Dead})]
  /\ sweep \in [at : {"idle", "packing", "indexing"}, marked : SUBSET Commit]

TypeOK == CoreType /\ BuiltType

\* What a push decided about a ref follows from its refspec.
Decided(p, spec) ==
  /\ p.dst = spec.dst
  /\ p.action = "delete" <=> spec.src = None
  /\ p.action = "delete" <=> p.new = None
  /\ p.action = "create" => p.old = None
  /\ p.action = "up to date" => p.old = p.new
  /\ p.action = "update" => p.old \in Reach({p.new}, Commit)
  /\ p.action = "force" => spec.force

\* The steps at which a push or a clone by path has commits on its way.
Carrying == {"packing", "indexing", "copying"}

PlanOK(c) ==
  /\ \A i \in DOMAIN plan[c] : \E j \in DOMAIN cmd[c].specs :
       Decided(plan[c][i], cmd[c].specs[j])
  /\ \A i, j \in DOMAIN plan[c] : plan[c][i].dst = plan[c][j].dst => i = j
  /\ pc[c] \in Path /\ plan[c] # <<>> => Head(plan[c]).action # "up to date"
  /\ pc[c] \notin Path \cup {"sent"} => plan[c] = <<>>
  /\ pc[c] # "sent" => reply[c] = None
  /\ pc[c] \in Carrying => pack[c] \in SUBSET Commit
  /\ \A i, j \in DOMAIN cmd[c].specs : cmd[c].specs[i].dst = cmd[c].specs[j].dst => i = j

LockOK(c) ==
  pc[c] = "locked" =>
    /\ plan[c] # <<>> /\ lock[Head(plan[c]).dst] = c
    /\ refs[Hub][Head(plan[c]).dst] = Head(plan[c]).old

\* What was ever read of the hub's refs has been there.
HeldOK ==
  /\ \A n \in Name : refs[Hub][n] \in ghost.held[n]
  /\ \A c \in Client, n \in Name : seen[c][n] \in ghost.held[n] \cup {None}
  /\ \A c \in Client, b \in Branch : tracking[c][b] \in ghost.held[b] \cup {None}
  /\ \A c \in Client : pc[c] = "sent" =>
       \A i \in DOMAIN plan[c] :
         plan[c][i].action = "up to date" \/ (reply[c] # None /\ Accepted(c))
           => plan[c][i].new \in ghost.held[plan[c][i].dst]

MoveInv == \A c \in Client : PlanOK(c) /\ LockOK(c)
ToldInv == TypeOK /\ MoveInv /\ HeldOK

-----------------------------------------------------------------------------
(* Walks and the commits a store has whole. *)

LEMMA NoneNoCommit == None \notin Commit /\ Commit \subseteq CommitOrNone
  BY RemoteAssumption DEF CommitOrNone

\* A walk meets what it starts from, is closed, and nothing closed is smaller.
LEMMA ReachIsLeast ==
  ASSUME NEW A \in SUBSET CommitOrNone, NEW R \in SUBSET Commit
  PROVE  /\ A \ {None} \subseteq Reach(A, R) /\ Reach(A, R) \subseteq Commit
         /\ Closed(Reach(A, R), R)
         /\ \A S \in SUBSET Commit :
              A \ {None} \subseteq S /\ Closed(S, R) => Reach(A, R) \subseteq S
<1> DEFINE B == A \ {None}
<1>1. B \in SUBSET Commit
  BY DEF CommitOrNone
<1>2. Reach(A, R) = {x \in Commit : \A S \in SUBSET Commit :
                                     B \subseteq S /\ Closed(S, R) => x \in S}
  BY <1>1 DEF Reach, Walk
<1> HIDE DEF B
<1>3. B \subseteq Reach(A, R) /\ Reach(A, R) \subseteq Commit
  BY <1>1, <1>2
<1>4. \A S \in SUBSET Commit : B \subseteq S /\ Closed(S, R) => Reach(A, R) \subseteq S
  BY <1>2
<1>5. Closed(Reach(A, R), R)
  <2> SUFFICES ASSUME NEW x \in Reach(A, R) \cap R, NEW y \in Parents[x]
               PROVE  y \in Reach(A, R)
    BY DEF Closed
  <2>1. y \in Commit
    BY RemoteAssumption
  <2>2. ASSUME NEW S \in SUBSET Commit, B \subseteq S, Closed(S, R)
        PROVE  y \in S
    BY <1>4, <2>2 DEF Closed
  <2> QED
    BY <1>2, <2>1, <2>2
<1> QED
  BY <1>3, <1>4, <1>5 DEF B

\* The more can be read, the more is met; so with more starts.
LEMMA ReachGrows ==
  ASSUME NEW A \in SUBSET CommitOrNone, NEW B \in SUBSET CommitOrNone, A \subseteq B,
         NEW Q \in SUBSET Commit, NEW R \in SUBSET Commit, Q \subseteq R
  PROVE  Reach(A, Q) \subseteq Reach(B, R)
<1>1. A \ {None} \subseteq Reach(B, R) /\ Reach(B, R) \in SUBSET Commit
  BY ReachIsLeast
<1>2. Closed(Reach(B, R), Q)
  BY ReachIsLeast DEF Closed
<1> QED
  BY <1>1, <1>2, ReachIsLeast

-----------------------------------------------------------------------------
(* What a push decides. *)

\* A non-empty set of naturals has a least element, and Min names it.
LEMMA LeastIsMin ==
  ASSUME NEW S, S \subseteq Nat, S # {}
  PROVE  Min(S) \in S /\ \A y \in S : Min(S) <= y
<1>1. \E x \in S : \A y \in S : ~(<<y, x>> \in OpToRel(<, Nat))
  BY NatLessThanWellFounded, WFMin, Zenon
<1>2. \A x, y \in Nat : y < x => <<y, x>> \in OpToRel(<, Nat)
  BY Zenon DEF OpToRel
<1>3. PICK x \in S : \A y \in S : ~(y < x)
  BY <1>1, <1>2, Zenon
<1>4. \A y \in S : x <= y
  BY <1>3
<1> QED
  BY <1>4 DEF Min

LEMMA MoveType ==
  ASSUME NEW plans \in Seq(Move), NEW i \in DOMAIN plans
  PROVE  /\ plans[i] \in Move /\ plans[i].dst \in Name /\ plans[i].action \in Actions
         /\ plans[i].old \in CommitOrNone /\ plans[i].new \in CommitOrNone
<1>1. plans[i] \in Move
  OBVIOUS
<1> QED
  BY <1>1 DEF Move

\* A suffix of a sequence.
Suffix(some, all) ==
  \E k \in Nat : \A i \in DOMAIN some : i + k \in DOMAIN all /\ some[i] = all[i + k]

\* Rest is a suffix, and what it begins with moves something.
LEMMA RestIsSuffix ==
  ASSUME NEW plans \in Seq(Move)
  PROVE  /\ Rest(plans) \in Seq(Move) /\ Suffix(Rest(plans), plans)
         /\ Rest(plans) # <<>> => Head(Rest(plans)).action # "up to date"
<1> DEFINE moves == {i \in DOMAIN plans : plans[i].action # "up to date"}
           m == Min(moves)
           n == Len(plans)
<1>1. CASE moves = {}
  <2>1. Rest(plans) = <<>>
    BY <1>1 DEF Rest
  <2>2. <<>> \in Seq(Move) /\ DOMAIN (<<>>) = {}
    OBVIOUS
  <2>3. Suffix(<<>>, plans)
    BY <2>2 DEF Suffix
  <2> QED
    BY <2>1, <2>2, <2>3
<1>2. CASE moves # {}
  <2>2. Rest(plans) = SubSeq(plans, m, n)
    BY <1>2 DEF Rest
  <2>0. DOMAIN plans = 1 .. n /\ n \in Nat
    OBVIOUS
  <2>7. moves \subseteq 1 .. n
    <3> HIDE DEF n
    <3> QED BY <2>0
  <2>8. \A i \in moves : plans[i].action # "up to date"
    OBVIOUS
  <2> HIDE DEF m, n, moves
  <2>1. m \in moves /\ m \in 1 .. n /\ n \in Nat
    <3>1. moves \subseteq Nat
      BY <2>0, <2>7
    <3>2. Min(moves) \in moves
      BY <1>2, <3>1, LeastIsMin
    <3> QED
      BY <2>0, <2>7, <3>2 DEF m
  <2>3. plans[m].action # "up to date"
    BY <2>1, <2>8
  <2>4. \A i \in m .. n : plans[i] \in Move
    BY <2>0, <2>1
  <2>5. /\ Rest(plans) \in Seq(Move) /\ Len(Rest(plans)) = n - m + 1
        /\ \A i \in 1 .. n - m + 1 : Rest(plans)[i] = plans[m + i - 1]
    BY <2>1, <2>2, <2>4, SubSeqProperties
  <2>6. Suffix(Rest(plans), plans)
    <3> SUFFICES \A i \in DOMAIN Rest(plans) :
                   i + (m - 1) \in DOMAIN plans /\ Rest(plans)[i] = plans[i + (m - 1)]
      BY <2>1 DEF Suffix
    <3> QED
      BY <2>0, <2>1, <2>5
  <2>9. Head(Rest(plans)) = plans[m]
    BY <2>1, <2>5
  <2> QED
    BY <2>3, <2>5, <2>6, <2>9
<1> QED
  BY <1>1, <1>2

LEMMA TailIsSuffix ==
  ASSUME NEW plans \in Seq(Move), plans # <<>>
  PROVE  /\ Tail(plans) \in Seq(Move)
         /\ \A i \in DOMAIN Tail(plans) :
              i \in Nat /\ i + 1 \in DOMAIN plans /\ Tail(plans)[i] = plans[i + 1]
  OBVIOUS

\* What is left after the first update is a suffix.
LEMMA RestOfTail ==
  ASSUME NEW plans \in Seq(Move), plans # <<>>
  PROVE  /\ Rest(Tail(plans)) \in Seq(Move)
         /\ \E k \in Nat : k >= 1 /\ \A i \in DOMAIN Rest(Tail(plans)) :
              i + k \in DOMAIN plans /\ Rest(Tail(plans))[i] = plans[i + k]
         /\ Rest(Tail(plans)) # <<>> => Head(Rest(Tail(plans))).action # "up to date"
<1>1. Tail(plans) \in Seq(Move)
  BY TailIsSuffix
<1>2. Rest(Tail(plans)) \in Seq(Move)
  BY <1>1, RestIsSuffix
<1>3. PICK k \in Nat : \A i \in DOMAIN Rest(Tail(plans)) :
              i + k \in DOMAIN Tail(plans) /\ Rest(Tail(plans))[i] = Tail(plans)[i + k]
  BY <1>1, RestIsSuffix DEF Suffix
<1>4. \A i \in DOMAIN Rest(Tail(plans)) :
              i + (k + 1) \in DOMAIN plans /\ Rest(Tail(plans))[i] = plans[i + (k + 1)]
  <2> TAKE i \in DOMAIN Rest(Tail(plans))
  <2>1. i \in Nat
    BY <1>2
  <2>2. i + k \in DOMAIN Tail(plans)
    BY <1>3
  <2>3. (i + k) + 1 \in DOMAIN plans /\ Tail(plans)[i + k] = plans[(i + k) + 1]
    BY <2>2, TailIsSuffix
  <2>4. (i + k) + 1 = i + (k + 1)
    BY <2>1
  <2> QED
    BY <1>3, <2>3, <2>4
<1>5. k + 1 \in Nat /\ k + 1 >= 1
  OBVIOUS
<1> QED
  BY <1>1, <1>2, <1>4, <1>5, RestIsSuffix

\* The push's commands.
LEMMA PushTypes ==
  ASSUME NEW specs \in Pushes
  PROVE  /\ specs \in Seq(Refspec)
         /\ \A i, j \in DOMAIN specs : specs[i].dst = specs[j].dst => i = j
  BY RemoteAssumption DEF Refspec

LEMMA RefPlanDecided ==
  ASSUME NEW c \in Client, NEW spec \in Refspec, NEW theirs \in [Name -> CommitOrNone],
         refs[c] \in [Name -> CommitOrNone], Obj(c) \subseteq Commit
  PROVE  LET p == RefPlan(c, spec, theirs) IN
         /\ p \in Move /\ p.old = theirs[p.dst]
         /\ p.new = None \/ \E n \in Name : p.new = refs[c][n]
         /\ ~Refused(spec, p) => Decided(p, spec)
<1> DEFINE p == RefPlan(c, spec, theirs)
           old == theirs[spec.dst]
           new == IF spec.src = None THEN None ELSE refs[c][spec.src]
<1>1. spec.dst \in Name /\ spec.src \in Name \cup {None} /\ spec.force \in BOOLEAN
  BY DEF Refspec
<1>2. old \in CommitOrNone /\ new \in CommitOrNone
  BY <1>1 DEF CommitOrNone
<1>3. /\ p.dst = spec.dst /\ p.old = old /\ p.new = new /\ p \in Move
      /\ p.action = IF spec.src = None THEN "delete"
                    ELSE IF old = None THEN "create"
                    ELSE IF old = new THEN "up to date"
                    ELSE IF IsAncestor(c, old, new) THEN "update" ELSE "force"
  BY <1>1, <1>2 DEF RefPlan, Move, Actions
<1>4. IsAncestor(c, old, new) => old \in Reach({new}, Commit)
  <2>1. Reach({new}, Obj(c)) \subseteq Reach({new}, Commit)
    BY <1>2, ReachGrows
  <2> QED
    BY <2>1 DEF IsAncestor
<1>5. p.new = None \/ \E n \in Name : p.new = refs[c][n]
  BY <1>1, <1>3
<1> HIDE DEF p, old, new
<1>6. ASSUME ~Refused(spec, p) PROVE Decided(p, spec)
  <2>1. spec.src = None <=> p.action = "delete"
    BY <1>3
  <2>2. p.action = "delete" => p.new = None
    BY <1>3 DEF new
  <2>3. p.action # "delete" => p.new # None
    BY <1>6 DEF Refused
  <2>4. p.action = "force" => spec.force
    BY <1>6 DEF Refused
  <2> QED
    BY <1>3, <1>4, <2>1, <2>2, <2>3, <2>4 DEF Decided
<1>7. p.old = theirs[p.dst]
  BY <1>3 DEF old
<1> QED
  BY <1>3, <1>5, <1>6, <1>7 DEF p

\* The whole decision: one update for every refspec, or none at all.
LEMMA PlannedDecided ==
  ASSUME NEW c \in Client, NEW specs \in Seq(Refspec), NEW theirs \in [Name -> CommitOrNone],
         refs[c] \in [Name -> CommitOrNone], Obj(c) \subseteq Commit,
         \A i, j \in DOMAIN specs : specs[i].dst = specs[j].dst => i = j
  PROVE  LET plans == Planned(c, specs, theirs) IN
         /\ plans \in Seq(Move) /\ DOMAIN plans = DOMAIN specs
         /\ \A i \in DOMAIN plans : plans[i].old = theirs[plans[i].dst]
         /\ \A i \in DOMAIN plans :
              /\ plans[i].new = None \/ \E n \in Name : plans[i].new = refs[c][n]
              /\ plans[i].dst = specs[i].dst
         /\ ~Fails(c, specs, theirs) => \A i \in DOMAIN plans : Decided(plans[i], specs[i])
         /\ \A i, j \in DOMAIN plans : plans[i].dst = plans[j].dst => i = j
<1> DEFINE plans == Planned(c, specs, theirs)
<1>1. DOMAIN plans = DOMAIN specs /\ \A i \in DOMAIN specs : plans[i] = RefPlan(c, specs[i], theirs)
  BY DEF Planned
<1>2. \A i \in DOMAIN specs : specs[i] \in Refspec
  OBVIOUS
<1>3. \A i \in DOMAIN specs : plans[i] \in Move /\ plans[i].dst = specs[i].dst
  <2>1. \A i \in DOMAIN specs : RefPlan(c, specs[i], theirs).dst = specs[i].dst
    BY DEF RefPlan
  <2>2. \A i \in DOMAIN specs : RefPlan(c, specs[i], theirs) \in Move
    BY <1>2, RefPlanDecided
  <2> HIDE DEF plans
  <2> QED
    BY <1>1, <2>1, <2>2
<1>4. plans \in Seq(Move)
  <2>1. Len(specs) \in Nat /\ DOMAIN specs = 1 .. Len(specs)
    OBVIOUS
  <2>2. plans = [i \in 1 .. Len(specs) |-> plans[i]]
    BY <2>1 DEF Planned
  <2> HIDE DEF plans
  <2> QED
    BY <2>1, <2>2, <1>3
<1> HIDE DEF plans
<1>5. \A i \in DOMAIN plans :
              /\ plans[i].old = theirs[plans[i].dst]
              /\ plans[i].new = None \/ \E n \in Name : plans[i].new = refs[c][n]
  BY <1>1, <1>2, RefPlanDecided
<1>6. ASSUME ~Fails(c, specs, theirs), NEW i \in DOMAIN plans PROVE Decided(plans[i], specs[i])
  BY <1>1, <1>2, <1>6, RefPlanDecided DEF Fails
<1> QED
  BY <1>1, <1>3, <1>4, <1>5, <1>6 DEF plans

\* Refs after updates are refs; each is what it was, or what some update made it.
LEMMA AppliedType ==
  ASSUME NEW old \in [Name -> CommitOrNone], NEW plans \in SUBSET Move
  PROVE  /\ Applied(old, plans) \in [Name -> CommitOrNone]
         /\ \A n \in Name : \/ Applied(old, plans)[n] = old[n] /\ \A p \in plans : p.dst # n
                            \/ \E p \in plans : p.dst = n /\ Applied(old, plans)[n] = p.new
<1> SUFFICES ASSUME NEW n \in Name
             PROVE  /\ Applied(old, plans)[n] \in CommitOrNone
                    /\ \/ Applied(old, plans)[n] = old[n] /\ \A p \in plans : p.dst # n
                       \/ \E p \in plans : p.dst = n /\ Applied(old, plans)[n] = p.new
  BY DEF Applied
<1>1. CASE \E p \in plans : p.dst = n
  <2>1. PICK p \in plans : p.dst = n /\ Applied(old, plans)[n] = p.new
    BY <1>1 DEF Applied
  <2> QED
    BY <2>1 DEF Move
<1>2. CASE ~\E p \in plans : p.dst = n
  BY <1>2 DEF Applied
<1> QED
  BY <1>1, <1>2

-----------------------------------------------------------------------------
(* Types. *)

LEMMA RepoFacts ==
  /\ Client \subseteq Repo /\ Hub \in Repo /\ Hub \notin Client
  /\ Main \in Branch /\ Main \in Name /\ Branch \subseteq Name /\ Tag \subseteq Name
  /\ NoRefs \in [Name -> CommitOrNone] /\ NoHeads \in [Branch -> CommitOrNone]
  BY RemoteAssumption DEF Repo, Name, NoRefs, NoHeads, CommitOrNone

LEMMA ObjType ==
  ASSUME ReposType, NEW r \in Repo
  PROVE  Obj(r) \in SUBSET Commit
  BY DEF ReposType, Obj

\* The tips of a repository.
LEMMA RootsType ==
  ASSUME ReposType, NEW r \in Repo
  PROVE  Roots(r) \in SUBSET CommitOrNone
  BY DEF ReposType, Roots, Repo

LEMMA KnownType ==
  ASSUME ReposType, NEW c \in Client
  PROVE  Known(c) \in SUBSET Commit
  BY ObjType, RepoFacts DEF Known

\* A command's end.
LEMMA EndType ==
  ASSUME MovingType, NEW c \in Client, NEW how \in {"none", "ok", "error"}, End(c, how)
  PROVE  MovingType'
<1>1. NoCmd \in [specs : Seq(Refspec), over : {"none", "path", "net"}]
  BY DEF NoCmd
<1>2. NoRefs \in [Name -> CommitOrNone]
  BY RepoFacts
<1>3. <<>> \in Seq(Move)
  OBVIOUS
<1> QED
  BY <1>1, <1>2, <1>3 DEF End, MovingType, Set, GoTo, Step

LEMMA SpendType ==
  ASSUME GhostType, NEW kind \in {"work", "remote", "faults"}, Spend(kind)
  PROVE  GhostType' /\ ghost'.held = ghost.held /\ ghost'.excused = ghost.excused
<1>1. ghost[kind] + 1 \in Nat
  BY DEF GhostType
<1>2. ghost' = [ghost EXCEPT ![kind] = ghost[kind] + 1]
  BY DEF Spend, GhostType
<1>3. CASE kind = "work"
  BY <1>1, <1>2, <1>3 DEF GhostType
<1>4. CASE kind = "remote"
  BY <1>1, <1>2, <1>4 DEF GhostType
<1>5. CASE kind = "faults"
  BY <1>1, <1>2, <1>5 DEF GhostType
<1> QED
  BY <1>3, <1>4, <1>5

\* What gc, a clone by path and a torn file add to the excused.
LEMMA ExcuseType ==
  ASSUME GhostType, NEW more \in SUBSET Repo,
         \/ ghost' = [ghost EXCEPT !.work = @ + 1, !.excused = @ \cup more]
         \/ ghost' = [ghost EXCEPT !.remote = @ + 1, !.excused = @ \cup more]
         \/ ghost' = [ghost EXCEPT !.excused = @ \cup more]
  PROVE  GhostType' /\ ghost'.held = ghost.held /\ ghost'.excused = ghost.excused \cup more
<1>1. /\ ghost'.held = ghost.held /\ ghost'.excused = ghost.excused \cup more
      /\ ghost'.work \in {ghost.work, ghost.work + 1}
      /\ ghost'.remote \in {ghost.remote, ghost.remote + 1}
      /\ ghost'.faults = ghost.faults
      /\ ghost' = [held |-> ghost'.held, excused |-> ghost'.excused, work |-> ghost'.work,
                   remote |-> ghost'.remote, faults |-> ghost'.faults]
  BY DEF GhostType
<1>2. /\ ghost.held \in [Name -> SUBSET CommitOrNone] /\ ghost.excused \cup more \in SUBSET Repo
      /\ ghost.work \in Nat /\ ghost.work + 1 \in Nat /\ ghost.remote \in Nat
      /\ ghost.remote + 1 \in Nat /\ ghost.faults \in Nat
  BY DEF GhostType
<1> QED
  BY <1>1, <1>2 DEF GhostType

LEMMA SetHubType ==
  ASSUME ReposType, GhostType, NEW new \in [Name -> CommitOrNone], NEW k \in {0, 1},
         SetHub(new, k)
  PROVE  /\ refs' \in [Repo -> [Name -> CommitOrNone]] /\ GhostType'
         /\ \A r \in Repo : refs'[r] = IF r = Hub THEN new ELSE refs[r]
         /\ ghost'.held = [n \in Name |-> ghost.held[n] \cup {new[n]}]
         /\ ghost.excused \cup Copying \subseteq ghost'.excused
         /\ sweep.at # "idle" => Hub \in ghost'.excused
<1>1. refs' \in [Repo -> [Name -> CommitOrNone]]
      /\ \A r \in Repo : refs'[r] = IF r = Hub THEN new ELSE refs[r]
  BY RepoFacts DEF SetHub, ReposType, Set
<1> DEFINE held == [n \in Name |-> ghost.held[n] \cup {new[n]}]
           gone == Copying \cup (IF sweep.at = "idle" THEN {} ELSE {Hub})
<1>2. held \in [Name -> SUBSET CommitOrNone]
  BY DEF GhostType
<1>3. gone \subseteq Repo
  BY RepoFacts DEF Copying
<1>4. ghost' = [ghost EXCEPT !.held = held, !.excused = @ \cup gone, !.faults = @ + k]
  <2>1. ghost' = [ghost EXCEPT !.held = held,
                    !.excused = @ \cup Copying \cup (IF sweep.at = "idle" THEN {} ELSE {Hub}),
                    !.faults = @ + k]
    BY DEF SetHub, GhostType
  <2>2. ghost.excused \cup Copying \cup (IF sweep.at = "idle" THEN {} ELSE {Hub})
          = ghost.excused \cup gone
    OBVIOUS
  <2> HIDE DEF held, gone
  <2> QED
    BY <2>1, <2>2 DEF GhostType
<1>5. Copying \subseteq gone /\ (sweep.at # "idle" => Hub \in gone)
  OBVIOUS
<1> HIDE DEF held, gone
<1>6. /\ ghost'.held = held /\ ghost'.excused = ghost.excused \cup gone
      /\ ghost'.faults = ghost.faults + k /\ ghost'.work = ghost.work
      /\ ghost'.remote = ghost.remote
      /\ ghost' = [held |-> ghost'.held, excused |-> ghost'.excused, work |-> ghost'.work,
                   remote |-> ghost'.remote, faults |-> ghost'.faults]
  BY <1>4 DEF GhostType
<1>7. ghost.excused \cup gone \in SUBSET Repo /\ ghost.faults + k \in Nat
      /\ ghost.work \in Nat /\ ghost.remote \in Nat
  BY <1>3 DEF GhostType
<1>8. GhostType'
  BY <1>2, <1>6, <1>7 DEF GhostType
<1>9. ghost.excused \cup Copying \subseteq ghost'.excused /\ (sweep.at # "idle" => Hub \in ghost'.excused)
  BY <1>5, <1>6
<1> QED
  BY <1>1, <1>6, <1>8, <1>9 DEF held

LEMMA MovesType ==
  ASSUME NEW plans \in Seq(Move)
  PROVE  /\ Moves(plans) \in SUBSET Move
         /\ \A p \in Moves(plans) : p.action # "up to date" /\ \E i \in DOMAIN plans : p = plans[i]
         /\ News(plans) \in SUBSET CommitOrNone /\ Olds(plans) \in SUBSET CommitOrNone
<1>1. ToSet(plans) \in SUBSET Move
  BY DEF ToSet
<1> QED
  BY <1>1 DEF Moves, News, Olds, Move, ToSet

LEMMA SentType ==
  ASSUME ReposType, NEW A \in SUBSET CommitOrNone
  PROVE  Sent(A) \in SUBSET Commit
  BY ObjType, RepoFacts, ReachIsLeast DEF Sent

LEMMA WantsType ==
  ASSUME ReposType, MovingType, NEW c \in Client
  PROVE  Wants(c) \in SUBSET CommitOrNone
  BY DEF Wants, MovingType

LEMMA FollowType ==
  ASSUME ReposType, MovingType, NEW c \in Client
  PROVE  /\ Follow(c) \in [Branch -> CommitOrNone] /\ TakeTags(c) \in [Name -> CommitOrNone]
         /\ [TakeTags(c) EXCEPT ![Main] = seen[c][Main]] \in [Name -> CommitOrNone]
<1>1. seen[c] \in [Name -> CommitOrNone] /\ tracking[c] \in [Branch -> CommitOrNone]
      /\ refs[c] \in [Name -> CommitOrNone]
  BY RepoFacts DEF ReposType, MovingType
<1>2. Follow(c) \in [Branch -> CommitOrNone] /\ TakeTags(c) \in [Name -> CommitOrNone]
  BY <1>1, RepoFacts DEF Follow, TakeTags
<1>3. seen[c][Main] \in CommitOrNone
  BY <1>1, RepoFacts
<1> HIDE DEF TakeTags
<1> QED
  BY <1>2, <1>3

LEMMA PlanTypes ==
  ASSUME NEW c \in Client, NEW specs \in Seq(Refspec), NEW theirs \in [Name -> CommitOrNone],
         refs[c] \in [Name -> CommitOrNone], Obj(c) \in SUBSET Commit
  PROVE  Planned(c, specs, theirs) \in Seq(Move)
<1>1. \A i \in DOMAIN specs : RefPlan(c, specs[i], theirs) \in Move
  BY RefPlanDecided
<1>2. Len(specs) \in Nat /\ DOMAIN specs = 1 .. Len(specs)
  OBVIOUS
<1>3. Planned(c, specs, theirs) = [i \in 1 .. Len(specs) |-> RefPlan(c, specs[i], theirs)]
  BY <1>2 DEF Planned
<1> QED
  BY <1>1, <1>2, <1>3

-----------------------------------------------------------------------------
(* Building a pack in the hub. *)

\* A torn file changes the hub's packs alone, and excuses the hub and who copies it.
LEMMA TearType ==
  ASSUME GhostType, NEW whole \in BOOLEAN, Tear(whole)
  PROVE  /\ GhostType' /\ ghost'.held = ghost.held /\ ghost.excused \subseteq ghost'.excused
         /\ ~whole => {Hub} \cup Copying \subseteq ghost'.excused
<1> DEFINE more == IF whole THEN {} ELSE {Hub} \cup Copying
<1>1. more \in SUBSET Repo
  BY RepoFacts DEF Copying
<1>2. ghost' = [ghost EXCEPT !.excused = @ \cup more]
  BY DEF Tear
<1>3. ~whole => more = {Hub} \cup Copying
  OBVIOUS
<1> HIDE DEF more
<1>4. GhostType' /\ ghost'.held = ghost.held /\ ghost'.excused = ghost.excused \cup more
  BY <1>1, <1>2, ExcuseType
<1> QED
  BY <1>3, <1>4

LEMMA WholeType ==
  ASSUME NEW kind, NEW w
  PROVE  Whole(kind, w) \subseteq BOOLEAN
  BY DEF Whole

LEMMA OpenType ==
  ASSUME NEW files \in [Kind -> SUBSET (Builder \cup {Dead})], NEW kind \in Kind,
         NEW w \in Builder
  PROVE  Open(files, kind, w) \in [Kind -> SUBSET (Builder \cup {Dead})]
<1> DEFINE who == IF files[kind] \subseteq {Dead} THEN {w} ELSE files[kind] \cup {w}
<1>1. who \in SUBSET (Builder \cup {Dead})
  OBVIOUS
<1>2. Open(files, kind, w) = [files EXCEPT ![kind] = who]
  BY DEF Open, Set
<1> HIDE DEF who
<1> QED
  BY <1>1, <1>2

LEMMA PutPackType ==
  ASSUME ReposType, GhostType, NEW w, NEW commits, NEW whole \in BOOLEAN,
         PutPack(w, commits, whole)
  PROVE  /\ packed' \in [Repo -> SUBSET Commit] /\ \A q \in Repo \ {Hub} : packed'[q] = packed[q]
         /\ GhostType' /\ ghost'.held = ghost.held /\ ghost.excused \subseteq ghost'.excused
         /\ ~whole => {Hub} \cup Copying \subseteq ghost'.excused
         /\ whole => packed'[Hub] = packed[Hub]
<1>1. PICK now \in (IF whole THEN {packed[Hub]} ELSE Torn(commits)) : packed' = Set(packed, Hub, now)
  BY DEF PutPack
<1>2. now \in SUBSET Commit /\ (whole => now = packed[Hub])
  BY RepoFacts DEF ReposType, Torn
<1>3. packed' = [packed EXCEPT ![Hub] = now]
  BY <1>1 DEF Set
<1>4. /\ packed' \in [Repo -> SUBSET Commit] /\ packed'[Hub] = now
      /\ \A q \in Repo \ {Hub} : packed'[q] = packed[q]
  BY <1>2, <1>3, RepoFacts DEF ReposType
<1>5. Tear(whole)
  BY DEF PutPack
<1> QED
  BY <1>2, <1>4, <1>5, TearType

\* The steps in which a push by path builds its pack.
Building(c) == PathOpen(c) \/ PathPack(c) \/ PathIdx(c)

\* They change the hub's packs and files, and the client's own command.
LEMMA BuildDoes ==
  ASSUME CoreType, NEW c \in Client, Building(c)
  PROVE  /\ UNCHANGED <<state, refs, tracking, loose, lock, sweep>>
         /\ \A q \in Repo \ {Hub} : packed'[q] = packed[q]
         /\ GhostType' /\ ghost'.held = ghost.held /\ ghost.excused \subseteq ghost'.excused
         /\ pc[c] \in {"planned", "packing", "indexing"}
         /\ \/ End(c, "error")
            \/ /\ \E step \in {"packing", "indexing", "written"} : GoTo(c, step)
               /\ \E x : pack' = Set(pack, c, x)
               /\ UNCHANGED <<cmd, seen, plan, reply, outcome>>
<1>0. ReposType /\ MovingType /\ GhostType
  BY DEF CoreType
<1>1. CASE PathOpen(c)
  <2>1. UNCHANGED <<state, refs, tracking, loose, packed, lock, sweep, ghost>> /\ pc[c] = "planned"
    BY <1>1 DEF PathOpen, At
  <2>2. GhostType'
    BY <1>0, <2>1 DEF GhostType
  <2>3. \/ End(c, "error")
        \/ /\ \E step \in {"packing", "indexing", "written"} : GoTo(c, step)
           /\ \E x : pack' = Set(pack, c, x)
           /\ UNCHANGED <<cmd, seen, plan, reply, outcome>>
    <3>1. CASE End(c, "error")
      BY <3>1
    <3>2. CASE GoTo(c, "written") /\ UNCHANGED <<cmd, seen, plan, pack, reply, outcome>>
      <4>1. pack' = Set(pack, c, pack[c])
        BY <1>0, <3>2 DEF MovingType, Set
      <4> QED
        BY <3>2, <4>1
    <3>3. CASE /\ pack' = Set(pack, c, ToSend(c, plan[c])) /\ GoTo(c, "packing")
               /\ UNCHANGED <<cmd, seen, plan, reply, outcome>>
      BY <3>3
    <3> QED
      BY <1>1, <3>1, <3>2, <3>3 DEF PathOpen
  <2> QED
    BY <2>1, <2>2, <2>3
<1>2. CASE PathPack(c)
  <2>1. UNCHANGED <<state, refs, tracking, loose, lock, sweep>> /\ pc[c] = "packing"
    BY <1>2 DEF PathPack, At
  <2>2. CASE End(c, "error") /\ UNCHANGED <<packed, tmp, ghost>>
    <3>1. GhostType'
      BY <1>0, <2>2 DEF GhostType
    <3> QED
      BY <2>1, <2>2, <3>1
  <2>3. ASSUME NEW whole \in BOOLEAN, PutPack(c, pack[c], whole),
               pack' = Set(pack, c, IF whole THEN pack[c] ELSE {}), GoTo(c, "indexing"),
               UNCHANGED <<cmd, seen, plan, reply, outcome>>
        PROVE  /\ \A q \in Repo \ {Hub} : packed'[q] = packed[q]
               /\ GhostType' /\ ghost'.held = ghost.held /\ ghost.excused \subseteq ghost'.excused
               /\ \E step \in {"packing", "indexing", "written"} : GoTo(c, step)
               /\ \E x : pack' = Set(pack, c, x)
    BY <1>0, <2>3, PutPackType
  <2> QED
    BY <1>2, <2>1, <2>2, <2>3, WholeType DEF PathPack
<1>3. CASE PathIdx(c)
  <2>1. UNCHANGED <<state, refs, tracking, loose, lock, sweep>> /\ pc[c] = "indexing"
    BY <1>3 DEF PathIdx, At
  <2>2. CASE End(c, "error") /\ UNCHANGED <<packed, tmp, ghost>>
    <3>1. GhostType'
      BY <1>0, <2>2 DEF GhostType
    <3> QED
      BY <2>1, <2>2, <3>1
  <2>3. ASSUME NEW whole \in BOOLEAN, NEW now, packed' = Set(packed, Hub, now), Tear(whole),
               pack' = Set(pack, c, None), GoTo(c, "written"),
               UNCHANGED <<cmd, seen, plan, reply, outcome>>
        PROVE  /\ \A q \in Repo \ {Hub} : packed'[q] = packed[q]
               /\ GhostType' /\ ghost'.held = ghost.held /\ ghost.excused \subseteq ghost'.excused
               /\ \E step \in {"packing", "indexing", "written"} : GoTo(c, step)
               /\ \E x : pack' = Set(pack, c, x)
    BY <1>0, <2>3, TearType DEF ReposType, Set
  <2> QED
    BY <1>3, <2>1, <2>2, <2>3, WholeType DEF PathIdx
<1> QED
  BY <1>1, <1>2, <1>3 DEF Building

\* What a push sends is commits.
LEMMA ToSendType ==
  ASSUME ReposType, MovingType, NEW c \in Client
  PROVE  ToSend(c, plan[c]) \in SUBSET Commit
<1>1. Obj(c) \in SUBSET Commit /\ News(plan[c]) \in SUBSET CommitOrNone
  BY RepoFacts, ObjType, MovesType DEF MovingType
<1> QED
  BY <1>1, ReachIsLeast DEF ToSend

LEMMA BuildType ==
  ASSUME TypeOK, MoveInv, NEW c \in Client, Building(c)
  PROVE  /\ packed' \in [Repo -> SUBSET Commit] /\ pack' \in [Client -> {None} \cup SUBSET Commit]
         /\ pc'[c] \in Carrying => pack'[c] \in SUBSET Commit
<1>0. ReposType /\ MovingType /\ GhostType /\ PlanOK(c)
  BY DEF TypeOK, CoreType, MoveInv
<1>a. ASSUME End(c, "error"), packed' = packed
      PROVE  /\ packed' \in [Repo -> SUBSET Commit] /\ pack' \in [Client -> {None} \cup SUBSET Commit]
             /\ pc'[c] \notin Carrying
  BY <1>0, <1>a DEF End, ReposType, MovingType, GoTo, Set, Carrying
<1>b. ASSUME NEW x \in {None} \cup SUBSET Commit, pack' = Set(pack, c, x)
      PROVE  pack' \in [Client -> {None} \cup SUBSET Commit] /\ pack'[c] = x
  BY <1>0, <1>b DEF MovingType, Set
<1>1. CASE PathOpen(c)
  <2>1. ToSend(c, plan[c]) \in SUBSET Commit
    BY <1>0, ToSendType
  <2>2. packed' = packed
    BY <1>1 DEF PathOpen
  <2>3. CASE End(c, "error")
    BY <1>a, <2>2, <2>3
  <2>4. CASE GoTo(c, "written") /\ UNCHANGED pack
    BY <1>0, <2>2, <2>4 DEF ReposType, MovingType, GoTo, Carrying
  <2>5. CASE pack' = Set(pack, c, ToSend(c, plan[c]))
    BY <1>0, <1>b, <2>1, <2>2, <2>5 DEF ReposType
  <2> QED
    BY <1>1, <2>3, <2>4, <2>5 DEF PathOpen
<1>2. CASE PathPack(c)
  <2>1. pack[c] \in SUBSET Commit
    BY <1>0, <1>2 DEF PathPack, At, PlanOK, Carrying
  <2>2. CASE End(c, "error") /\ UNCHANGED packed
    BY <1>a, <2>2
  <2>3. ASSUME NEW whole \in BOOLEAN, PutPack(c, pack[c], whole),
               pack' = Set(pack, c, IF whole THEN pack[c] ELSE {})
        PROVE  /\ packed' \in [Repo -> SUBSET Commit]
               /\ pack' \in [Client -> {None} \cup SUBSET Commit] /\ pack'[c] \in SUBSET Commit
    <3>1. (IF whole THEN pack[c] ELSE {}) \in SUBSET Commit
      BY <2>1
    <3> QED
      BY <1>0, <1>b, <2>3, <3>1, PutPackType
  <2> QED
    BY <1>2, <2>2, <2>3, WholeType DEF PathPack
<1>3. CASE PathIdx(c)
  <2>1. pack[c] \in SUBSET Commit
    BY <1>0, <1>3 DEF PathIdx, At, PlanOK, Carrying
  <2>2. CASE End(c, "error") /\ UNCHANGED packed
    BY <1>a, <2>2
  <2>3. ASSUME NEW whole \in BOOLEAN,
               NEW now \in (IF whole THEN {packed[Hub] \cup pack[c]} ELSE Torn(pack[c])),
               packed' = Set(packed, Hub, now), pack' = Set(pack, c, None), GoTo(c, "written")
        PROVE  /\ packed' \in [Repo -> SUBSET Commit]
               /\ pack' \in [Client -> {None} \cup SUBSET Commit] /\ pc'[c] \notin Carrying
    <3>1. now \in SUBSET Commit
      BY <1>0, <2>1, RepoFacts DEF ReposType, Torn
    <3>2. packed' \in [Repo -> SUBSET Commit]
      BY <1>0, <2>3, <3>1 DEF ReposType, Set
    <3> QED
      BY <1>0, <1>b, <2>3, <3>2 DEF GoTo, MovingType, Carrying
  <2> QED
    BY <1>3, <2>2, <2>3, WholeType DEF PathIdx
<1> QED
  BY <1>1, <1>2, <1>3 DEF Building

\* What one client, or the rest, may do next.
ClientStep(c) ==
  \/ Push(c) \/ Fetch(c) \/ Clone(c) \/ MakeCommit(c) \/ MoveRef(c)
  \/ ConnectionLost(c) \/ Crash(c)

LEMMA PushTypeStep ==
  ASSUME TypeOK, MoveInv, NEW c \in Client, Push(c)
  PROVE  CoreType'
<1> USE RepoFacts
<1>0. ReposType /\ MovingType /\ GhostType
  BY DEF TypeOK, CoreType
<1>1. CASE PathPlan(c)
  <2>1. ReposType'
    BY <1>0, <1>1 DEF PathPlan, ReposType, repos
  <2>2. GhostType'
    BY <1>0, <1>1, SpendType DEF PathPlan
  <2>3. PICK specs \in Pushes :
       IF Fails(c, specs, refs[Hub])
         THEN End(c, "error")
         ELSE /\ plan' = Set(plan, c, Rest(Planned(c, specs, refs[Hub])))
              /\ cmd' = Set(cmd, c, [specs |-> specs, over |-> "path"])
              /\ outcome' = Set(outcome, c, "none")
              /\ GoTo(c, "planned")
              /\ UNCHANGED <<seen, pack, reply>>
    BY <1>1 DEF PathPlan
  <2>4. MovingType'
    <3>1. CASE Fails(c, specs, refs[Hub])
      BY <1>0, <2>3, <3>1, EndType
    <3>2. CASE ~Fails(c, specs, refs[Hub])
      <4>1. specs \in Seq(Refspec) /\ \A i, j \in DOMAIN specs : specs[i].dst = specs[j].dst => i = j
        BY PushTypes
      <4>2. /\ Obj(c) \subseteq Commit /\ refs[Hub] \in [Name -> CommitOrNone]
            /\ refs[c] \in [Name -> CommitOrNone]
        BY <1>0, ObjType DEF ReposType
      <4>3. Planned(c, specs, refs[Hub]) \in Seq(Move)
        BY <4>1, <4>2, PlannedDecided
      <4>4. Rest(Planned(c, specs, refs[Hub])) \in Seq(Move)
        BY <4>3, RestIsSuffix
      <4>5. [specs |-> specs, over |-> "path"] \in [specs : Seq(Refspec), over : {"none", "path", "net"}]
        BY <4>1
      <4>6. plan' \in [Client -> Seq(Move)]
        <5>1. plan' = Set(plan, c, Rest(Planned(c, specs, refs[Hub])))
          BY <2>3, <3>2
        <5> QED
          BY <1>0, <4>4, <5>1 DEF MovingType, Set
      <4>7. cmd' \in [Client -> [specs : Seq(Refspec), over : {"none", "path", "net"}]]
        <5>1. cmd' = Set(cmd, c, [specs |-> specs, over |-> "path"])
          BY <2>3, <3>2
        <5> QED
          BY <1>0, <4>5, <5>1 DEF MovingType, Set
      <4>8. pc' \in [Client -> Step] /\ outcome' \in [Client -> {"none", "ok", "error"}]
        <5>1. GoTo(c, "planned") /\ outcome' = Set(outcome, c, "none")
          BY <2>3, <3>2
        <5> QED
          BY <1>0, <5>1 DEF MovingType, Set, GoTo, Step
      <4> QED
        BY <1>0, <2>3, <3>2, <4>6, <4>7, <4>8 DEF MovingType
    <3> QED
      BY <3>1, <3>2
  <2> QED
    BY <2>1, <2>2, <2>4 DEF TypeOK, CoreType
<1>2. CASE Building(c)
  <2>0. /\ UNCHANGED <<state, refs, tracking, loose, lock>> /\ GhostType'
        /\ \/ End(c, "error")
           \/ /\ \E step \in {"packing", "indexing", "written"} : GoTo(c, step)
              /\ UNCHANGED <<cmd, seen, plan, reply, outcome>>
    BY <1>2, BuildDoes DEF TypeOK
  <2>1. packed' \in [Repo -> SUBSET Commit] /\ pack' \in [Client -> {None} \cup SUBSET Commit]
    BY <1>2, BuildType
  <2>2. ReposType'
    BY <1>0, <2>0, <2>1 DEF ReposType
  <2>3. CASE End(c, "error")
    BY <1>0, <2>0, <2>2, <2>3, EndType DEF CoreType
  <2>4. CASE /\ \E step \in {"packing", "indexing", "written"} : GoTo(c, step)
             /\ UNCHANGED <<cmd, seen, plan, reply, outcome>>
    <3>1. MovingType'
      BY <1>0, <2>1, <2>4 DEF MovingType, GoTo, Step
    <3> QED
      BY <2>0, <2>2, <3>1 DEF CoreType
  <2> QED
    BY <2>0, <2>3, <2>4
<1>3. CASE PathLock(c)
  <2> DEFINE p == Head(plan[c])
  <2>1. p \in Move
    BY <1>0, <1>3 DEF PathLock, MovingType
  <2>2. p.dst \in Name
    BY <2>1 DEF Move
  <2> HIDE DEF p
  <2>3. CASE lock[p.dst] = None /\ refs[Hub][p.dst] = p.old
    <3>1. lock' = Set(lock, p.dst, c) /\ GoTo(c, "locked")
          /\ UNCHANGED <<cmd, seen, plan, pack, reply, outcome>>
          /\ UNCHANGED <<state, refs, tracking, loose, packed, ghost>>
      BY <1>3, <2>3 DEF PathLock, p
    <3> QED
      BY <1>0, <2>2, <3>1 DEF TypeOK, CoreType, ReposType, MovingType, GhostType, Set, GoTo, Step
  <2>4. CASE ~(lock[p.dst] = None /\ refs[Hub][p.dst] = p.old)
    <3>1. End(c, "error") /\ UNCHANGED <<state, refs, tracking, loose, packed, ghost, lock>>
      BY <1>3, <2>4 DEF PathLock, p
    <3> QED
      BY <1>0, <3>1, EndType DEF TypeOK, CoreType, ReposType, GhostType
  <2> QED
    BY <2>3, <2>4
<1>4. CASE PathRename(c)
  <2> DEFINE p == Head(plan[c])
             new == Applied(refs[Hub], {p})
  <2>1. plan[c] \in Seq(Move) /\ plan[c] # <<>>
    BY <1>0, <1>4 DEF MovingType, MoveInv, LockOK, PathRename, At
  <2>2. p \in Move
    BY <2>1
  <2>3. new \in [Name -> CommitOrNone]
    BY <1>0, <2>2, AppliedType DEF ReposType
  <2>4. p.dst \in Name
    BY <2>2 DEF Move
  <2>5. Rest(Tail(plan[c])) \in Seq(Move)
    BY <2>1, RestOfTail
  <2>6. /\ SetHub(new, 0) /\ lock' = Set(lock, p.dst, None)
        /\ plan' = Set(plan, c, Rest(Tail(plan[c])))
        /\ GoTo(c, "written")
        /\ UNCHANGED <<state, tracking, loose, packed, cmd, seen, pack, reply, outcome>>
    BY <1>4 DEF PathRename
  <2> HIDE DEF p, new
  <2>7. refs' \in [Repo -> [Name -> CommitOrNone]] /\ GhostType'
    BY <1>0, <2>3, <2>6, SetHubType
  <2>8. ReposType'
    BY <1>0, <2>4, <2>6, <2>7 DEF ReposType, Set
  <2>9. MovingType'
    BY <1>0, <2>5, <2>6 DEF MovingType, Set, GoTo, Step
  <2> QED
    BY <2>7, <2>8, <2>9 DEF TypeOK, CoreType
<1>5. CASE PathDone(c)
  BY <1>0, <1>5, EndType DEF PathDone, TypeOK, CoreType, ReposType, GhostType, repos
<1>6. CASE Discover(c)
  <2>1. PICK specs \in Pushes : cmd' = Set(cmd, c, [specs |-> specs, over |-> "net"])
    BY <1>6 DEF Discover
  <2>2. [specs |-> specs, over |-> "net"] \in [specs : Seq(Refspec), over : {"none", "path", "net"}]
    BY PushTypes
  <2>3. ReposType' /\ GhostType'
    BY <1>0, <1>6, SpendType DEF Discover, ReposType, repos
  <2>4. refs[Hub] \in [Name -> CommitOrNone]
    BY <1>0 DEF ReposType
  <2>5. MovingType'
    BY <1>0, <1>6, <2>1, <2>2, <2>4 DEF Discover, MovingType, Set, GoTo, Step
  <2> QED
    BY <2>3, <2>5 DEF TypeOK, CoreType
<1>7. CASE NetPlan(c)
  <2> DEFINE specs == cmd[c].specs
             plans == Planned(c, specs, seen[c])
             walked == News(plans) = {} \/ Reach(News(plans) \cup Stops(c, plans), Obj(c)) \subseteq Obj(c)
  <2>1. specs \in Seq(Refspec) /\ seen[c] \in [Name -> CommitOrNone] /\ refs[c] \in [Name -> CommitOrNone]
    BY <1>0 DEF MovingType, ReposType
  <2>2. Obj(c) \in SUBSET Commit
    BY <1>0, ObjType
  <2>3. plans \in Seq(Move)
    BY <2>1, <2>2, PlanTypes
  <2>4. PackBytes(c, plans) \in {None} \cup SUBSET Commit
    <3> HIDE DEF plans
    <3>1. News(plans) \in SUBSET CommitOrNone
      BY <2>3, MovesType
    <3>2. Reach(News(plans), Obj(c)) \in SUBSET Commit
      BY <2>2, <3>1, ReachIsLeast
    <3> QED
      BY <3>2 DEF PackBytes
  <2>5. /\ UNCHANGED <<repos, ghost>>
        /\ \/ \E how \in {"error", "ok"} : End(c, how)
           \/ /\ plan' = Set(plan, c, plans) /\ pack' = Set(pack, c, PackBytes(c, plans))
              /\ GoTo(c, "sent") /\ UNCHANGED <<cmd, seen, reply, outcome>>
    <3>1. CASE Fails(c, specs, seen[c]) \/ ~walked
      BY <1>7, <3>1 DEF NetPlan
    <3>2. CASE ~(Fails(c, specs, seen[c]) \/ ~walked) /\ Moves(plans) = {}
      BY <1>7, <3>2 DEF NetPlan
    <3>3. CASE ~(Fails(c, specs, seen[c]) \/ ~walked) /\ Moves(plans) # {}
      BY <1>7, <3>3 DEF NetPlan
    <3> QED
      BY <3>1, <3>2, <3>3
  <2> HIDE DEF plans, specs, walked
  <2>6. ReposType' /\ GhostType'
    BY <1>0, <2>5 DEF ReposType, GhostType, repos
  <2>7. CASE \E how \in {"error", "ok"} : End(c, how)
    BY <1>0, <2>6, <2>7, EndType DEF TypeOK, CoreType
  <2>8. CASE /\ plan' = Set(plan, c, plans) /\ pack' = Set(pack, c, PackBytes(c, plans))
             /\ GoTo(c, "sent") /\ UNCHANGED <<cmd, seen, reply, outcome>>
    BY <1>0, <2>3, <2>4, <2>6, <2>8 DEF TypeOK, CoreType, MovingType, Set, GoTo, Step
  <2> QED
    BY <2>5, <2>7, <2>8
<1>8. CASE Serve(c)
  <2> DEFINE all   == Moves(plan[c])
             whole == News(plan[c]) = {} \/ pack[c] # None
             have  == Obj(Hub) \cup (IF pack[c] = None THEN {} ELSE pack[c])
  <2>1. /\ packed' = IF whole THEN Set(packed, Hub, have \ loose[Hub]) ELSE packed
        /\ UNCHANGED <<state, tracking, loose, lock, pc, cmd, seen, plan, pack, outcome>>
    BY <1>8 DEF Serve
  <2>2. PICK done \in SUBSET all, k \in {0, 1} :
          /\ reply' = Set(reply, c, IF whole THEN {p.dst : p \in all \ done} ELSE Name)
          /\ SetHub(Applied(refs[Hub], done), k)
    BY <1>8 DEF Serve
  <2>3. all \in SUBSET Move
    BY <1>0, MovesType DEF MovingType
  <2>4. have \in SUBSET Commit
    BY <1>0, ObjType DEF MovingType
  <2> HIDE DEF all, whole, have
  <2>5. Applied(refs[Hub], done) \in [Name -> CommitOrNone]
    BY <1>0, <2>3, AppliedType DEF ReposType
  <2>6. refs' \in [Repo -> [Name -> CommitOrNone]] /\ GhostType'
    BY <1>0, <2>2, <2>5, SetHubType
  <2>7. (IF whole THEN {p.dst : p \in all \ done} ELSE Name) \in SUBSET Name
    BY <2>3 DEF Move
  <2>8. ReposType'
    BY <1>0, <2>1, <2>4, <2>6 DEF ReposType, Set
  <2>9. MovingType'
    BY <1>0, <2>1, <2>2, <2>7 DEF MovingType, Set
  <2> QED
    BY <2>6, <2>8, <2>9 DEF TypeOK, CoreType
<1>9. CASE Report(c)
  <2> DEFINE mine == [n \in Name |-> IF n \in Branch THEN tracking[c][n] ELSE None]
             new == [b \in Branch |-> Applied(mine, Moves(plan[c]))[b]]
  <2>1. mine \in [Name -> CommitOrNone] /\ Moves(plan[c]) \in SUBSET Move
    <3>1. tracking[c] \in [Branch -> CommitOrNone] /\ plan[c] \in Seq(Move)
      BY <1>0 DEF ReposType, MovingType
    <3>2. None \in CommitOrNone
      BY DEF CommitOrNone
    <3> QED
      BY <3>1, <3>2, MovesType
  <2>2. new \in [Branch -> CommitOrNone]
    <3> HIDE DEF mine
    <3>1. Applied(mine, Moves(plan[c])) \in [Name -> CommitOrNone]
      BY <2>1, AppliedType
    <3> QED
      BY <3>1
  <2>3. /\ tracking' = Set(tracking, c, new) \/ tracking' = tracking
        /\ \E how \in {"error", "ok"} : End(c, how)
        /\ UNCHANGED <<state, refs, loose, packed, lock, ghost>>
    <3>1. CASE Accepted(c)
      BY <1>9, <3>1 DEF Report
    <3>2. CASE ~Accepted(c)
      BY <1>9, <3>2 DEF Report
    <3> QED
      BY <3>1, <3>2
  <2> HIDE DEF new
  <2>4. ReposType' /\ GhostType'
    <3>1. tracking' \in [Client -> [Branch -> CommitOrNone]]
      BY <1>0, <2>2, <2>3 DEF ReposType, Set
    <3> QED
      BY <1>0, <2>3, <3>1 DEF ReposType, GhostType
  <2> QED
    BY <1>0, <2>3, <2>4, EndType DEF TypeOK, CoreType
<1> QED
  BY <1>1, <1>2, <1>3, <1>4, <1>5, <1>6, <1>7, <1>8, <1>9 DEF Push, Building

LEMMA FetchTypeStep ==
  ASSUME TypeOK, NEW c \in Client, Fetch(c)
  PROVE  CoreType'
<1>0. ReposType /\ MovingType /\ GhostType /\ refs[Hub] \in [Name -> CommitOrNone]
  BY RepoFacts DEF TypeOK, CoreType, ReposType
<1>1. CASE LsRefs(c)
  <2>1. ReposType' /\ GhostType'
    BY <1>0, <1>1, SpendType DEF LsRefs, ReposType, repos
  <2>2. CASE Advertised = NoRefs
    BY <1>0, <1>1, <2>1, <2>2, EndType DEF LsRefs, TypeOK, CoreType
  <2>3. CASE Advertised # NoRefs
    <3>1. /\ seen' = Set(seen, c, refs[Hub]) /\ outcome' = Set(outcome, c, "none")
          /\ GoTo(c, "listed") /\ UNCHANGED <<cmd, plan, pack, reply>>
      BY <1>1, <2>3 DEF LsRefs, Advertised
    <3> QED
      BY <1>0, <2>1, <3>1 DEF TypeOK, CoreType, MovingType, Set, GoTo, Step
  <2> QED
    BY <2>2, <2>3
<1>2. CASE FetchPack(c)
  <2>1. Sent(Wants(c)) \in SUBSET Commit
    BY <1>0, WantsType, SentType
  <2>2. CASE CanServe(Wants(c))
    <3>1. /\ packed' = Set(packed, c, packed[c] \cup (Sent(Wants(c)) \ loose[c]))
          /\ GoTo(c, "fetched") /\ UNCHANGED <<cmd, seen, plan, pack, reply, outcome>>
          /\ UNCHANGED <<state, refs, tracking, loose, lock, ghost>>
      BY <1>2, <2>2 DEF FetchPack
    <3>2. packed[c] \cup (Sent(Wants(c)) \ loose[c]) \in SUBSET Commit
      BY <1>0, <2>1, RepoFacts DEF ReposType
    <3> QED
      BY <1>0, <3>1, <3>2, RepoFacts DEF TypeOK, CoreType, ReposType, MovingType, GhostType, Set, GoTo, Step
  <2>3. CASE ~CanServe(Wants(c))
    <3>1. End(c, "error") /\ UNCHANGED <<state, refs, tracking, loose, lock, ghost, packed>>
      BY <1>2, <2>3 DEF FetchPack
    <3> QED
      BY <1>0, <3>1, EndType DEF TypeOK, CoreType, ReposType, GhostType
  <2> QED
    BY <2>2, <2>3
<1>3. CASE FetchRefs(c)
  <2>1. /\ tracking' = Set(tracking, c, Follow(c)) /\ refs' = Set(refs, c, TakeTags(c))
        /\ End(c, "ok") /\ UNCHANGED <<state, loose, packed, lock, ghost>>
    BY <1>3 DEF FetchRefs
  <2>2. Follow(c) \in [Branch -> CommitOrNone] /\ TakeTags(c) \in [Name -> CommitOrNone]
    BY <1>0, FollowType
  <2>3. ReposType' /\ GhostType'
    BY <1>0, <2>1, <2>2, RepoFacts DEF ReposType, GhostType, Set
  <2> QED
    BY <1>0, <2>1, <2>3, EndType DEF TypeOK, CoreType
<1> QED
  BY <1>1, <1>2, <1>3 DEF Fetch

LEMMA CleanUpType ==
  ASSUME TypeOK, NEW c \in Client, CleanUp(c)
  PROVE  CoreType'
<1>1. ReposType /\ MovingType /\ GhostType /\ c \in Repo
  BY RepoFacts DEF TypeOK, CoreType
<1>2. ReposType' /\ GhostType'
  BY <1>1, RepoFacts DEF CleanUp, ReposType, GhostType, Set
<1> QED
  BY <1>1, <1>2, EndType DEF TypeOK, CoreType, CleanUp

LEMMA CloneTypeStep ==
  ASSUME TypeOK, NEW c \in Client, Clone(c)
  PROVE  CoreType'
<1>0. /\ ReposType /\ MovingType /\ GhostType /\ refs[Hub] \in [Name -> CommitOrNone]
      /\ c \in Repo
  BY RepoFacts DEF TypeOK, CoreType, ReposType
<1>1. CASE CloneList(c)
  <2>1. /\ state' = Set(state, c, "partial") /\ seen' = Set(seen, c, refs[Hub])
        /\ outcome' = Set(outcome, c, "none") /\ GoTo(c, "clone listed") /\ Spend("remote")
        /\ UNCHANGED <<refs, tracking, loose, packed, lock, cmd, plan, pack, reply>>
    BY <1>1 DEF CloneList, Advertised
  <2>2. ReposType' /\ GhostType'
    BY <1>0, <2>1, SpendType DEF ReposType, Set
  <2> QED
    BY <1>0, <2>1, <2>2 DEF TypeOK, CoreType, MovingType, Set, GoTo, Step
<1>2. CASE ClonePack(c)
  <2>1. Sent(Wants(c)) \in SUBSET Commit
    BY <1>0, WantsType, SentType
  <2>2. CASE CanServe(Wants(c))
    <3>1. /\ packed' = Set(packed, c, Sent(Wants(c))) /\ GoTo(c, "clone fetched")
          /\ UNCHANGED <<state, refs, tracking, loose, lock, cmd, seen, plan, pack, reply,
                          outcome, ghost>>
      BY <1>2, <2>2 DEF ClonePack
    <3> QED
      BY <1>0, <2>1, <3>1, RepoFacts DEF TypeOK, CoreType, ReposType, MovingType, GhostType, Set, GoTo, Step
  <2>3. CASE ~CanServe(Wants(c))
    BY <1>2, <2>3, CleanUpType DEF ClonePack
  <2> QED
    BY <2>2, <2>3
<1>3. CASE CloneRefs(c)
  <2>1. /\ tracking' = Set(tracking, c, Follow(c))
        /\ refs' = Set(refs, c, [TakeTags(c) EXCEPT ![Main] = seen[c][Main]])
        /\ GoTo(c, "checkout")
        /\ UNCHANGED <<state, loose, packed, lock, cmd, seen, plan, pack, reply, outcome, ghost>>
    BY <1>3 DEF CloneRefs
  <2>2. /\ Follow(c) \in [Branch -> CommitOrNone]
        /\ [TakeTags(c) EXCEPT ![Main] = seen[c][Main]] \in [Name -> CommitOrNone]
    BY <1>0, FollowType
  <2>3. ReposType' /\ GhostType'
    BY <1>0, <2>1, <2>2 DEF ReposType, GhostType, Set
  <2> QED
    BY <1>0, <2>1, <2>3 DEF TypeOK, CoreType, MovingType, GoTo, Step
<1>4. CASE CopyStart(c)
  <2>1. /\ state' = Set(state, c, "partial") /\ pack' = Set(pack, c, Obj(Hub))
        /\ outcome' = Set(outcome, c, "none") /\ GoTo(c, "copying")
        /\ UNCHANGED <<refs, tracking, loose, packed, lock, cmd, seen, plan, reply>>
    BY <1>4 DEF CopyStart
  <2>2. GhostType'
    <3>1. ghost' = [ghost EXCEPT !.remote = @ + 1,
                          !.excused = @ \cup IF Hub \in ghost.excused \/ ~WholeHistory(Obj(Hub))
                                            THEN {c} ELSE {}]
      BY <1>0, <1>4 DEF CopyStart, GhostType
    <3>2. PICK more \in SUBSET Repo :
            ghost' = [ghost EXCEPT !.remote = @ + 1, !.excused = @ \cup more]
      BY <1>0, <3>1
    <3> QED
      BY <1>0, <3>2, ExcuseType
  <2>3. Obj(Hub) \in SUBSET Commit
    BY <1>0, RepoFacts, ObjType
  <2>4. ReposType'
    BY <1>0, <2>1 DEF ReposType, Set
  <2>5. MovingType'
    <3> HIDE DEF Obj
    <3> QED
      BY <1>0, <2>1, <2>3 DEF MovingType, Set, GoTo, Step
  <2> QED
    BY <2>2, <2>4, <2>5 DEF CoreType
<1>8. CASE CopyFiles(c)
  <2>1. PICK files \in SUBSET (Obj(Hub) \ Obj(c)) :
          /\ loose' = Set(loose, c, loose[c] \cup (files \cap loose[Hub]))
          /\ packed' = Set(packed, c, packed[c] \cup (files \ loose[Hub]))
          /\ UNCHANGED <<state, refs, tracking, lock, moving, ghost>>
    BY <1>8 DEF CopyFiles
  <2>2. files \in SUBSET Commit
    BY <1>0, RepoFacts, ObjType
  <2>3. ReposType'
    BY <1>0, <2>1, <2>2 DEF ReposType, Set
  <2> QED
    BY <1>0, <2>1, <2>3 DEF CoreType, MovingType, GhostType, moving
<1>9. CASE CopyFails(c)
  BY <1>9, CleanUpType DEF CopyFails
<1>5. CASE CopyHead(c)
  <2>1. [NoRefs EXCEPT ![Main] = refs[Hub][Main]] \in [Name -> CommitOrNone]
    BY <1>0, RepoFacts
  <2>2. /\ seen' = Set(seen, c, [NoRefs EXCEPT ![Main] = refs[Hub][Main]]) /\ GoTo(c, "headed")
        /\ pack' = Set(pack, c, None) /\ UNCHANGED <<repos, cmd, plan, reply, outcome>>
    BY <1>5 DEF CopyHead
  <2>3. GhostType'
    <3>1. ghost' = [ghost EXCEPT !.excused = @ \cup IF WholeHistory(Obj(c)) THEN {} ELSE {c}]
      BY <1>5 DEF CopyHead
    <3>2. PICK more \in SUBSET Repo : ghost' = [ghost EXCEPT !.excused = @ \cup more]
      BY <1>0, <3>1
    <3> QED
      BY <1>0, <3>2, ExcuseType
  <2>4. ReposType'
    BY <1>0, <2>2 DEF ReposType, repos
  <2> QED
    BY <1>0, <2>1, <2>2, <2>3, <2>4 DEF CoreType, MovingType, Set, GoTo, Step
<1>6. CASE CopyRefs(c)
  <2>1. /\ [NoRefs EXCEPT ![Main] = seen[c][Main]] \in [Name -> CommitOrNone]
        /\ [b \in Branch |-> refs[Hub][b]] \in [Branch -> CommitOrNone]
    BY <1>0, RepoFacts DEF MovingType
  <2>2. /\ tracking' = Set(tracking, c, [b \in Branch |-> refs[Hub][b]])
        /\ refs' = Set(refs, c, [NoRefs EXCEPT ![Main] = seen[c][Main]])
        /\ GoTo(c, "checkout")
        /\ UNCHANGED <<state, loose, packed, lock, cmd, seen, plan, pack, reply, outcome, ghost>>
    BY <1>6 DEF CopyRefs
  <2>3. ReposType' /\ GhostType'
    BY <1>0, <2>1, <2>2 DEF ReposType, GhostType, Set
  <2> QED
    BY <1>0, <2>2, <2>3 DEF TypeOK, CoreType, MovingType, GoTo, Step
<1>7. CASE CloneCheckout(c)
  <2>1. CASE {refs[c][Main]} \subseteq Obj(c) \cup {None}
    <3>1. state' = Set(state, c, "ready") /\ End(c, "ok")
          /\ UNCHANGED <<refs, tracking, loose, packed, lock, ghost>>
      BY <1>7, <2>1 DEF CloneCheckout
    <3>2. ReposType' /\ GhostType'
      BY <1>0, <3>1 DEF ReposType, GhostType, Set
    <3> QED
      BY <1>0, <3>1, <3>2, EndType DEF TypeOK, CoreType
  <2>2. CASE ~({refs[c][Main]} \subseteq Obj(c) \cup {None})
    BY <1>7, <2>2, CleanUpType DEF CloneCheckout
  <2> QED
    BY <2>1, <2>2
<1> QED
  BY <1>1, <1>2, <1>3, <1>4, <1>5, <1>6, <1>7, <1>8, <1>9 DEF Clone

\* A client's gc: its store, and who is excused.
LEMMA GcType ==
  ASSUME CoreType, NEW c \in Client, Gc(c)
  PROVE  CoreType' /\ ghost'.held = ghost.held /\ ghost.excused \subseteq ghost'.excused
<1>0. ReposType /\ MovingType /\ GhostType /\ c \in Repo
  BY RepoFacts DEF CoreType
<1> DEFINE reach == Reach(Roots(c), Obj(c))
           more == IF WholeHistory(loose[c] \cup reach) THEN {} ELSE {c}
<1>1. /\ packed' = Set(packed, c, reach) /\ loose' = Set(loose, c, loose[c] \ reach)
      /\ UNCHANGED <<state, refs, tracking, lock, moving>>
      /\ ghost' = [ghost EXCEPT !.work = @ + 1, !.excused = @ \cup more]
  BY DEF Gc
<1>2. more \in SUBSET Repo
  BY <1>0
<1>3. reach \in SUBSET Commit
  BY <1>0, ObjType, RootsType, ReachIsLeast
<1> HIDE DEF reach, more
<1>4. GhostType' /\ ghost'.held = ghost.held /\ ghost.excused \subseteq ghost'.excused
  BY <1>0, <1>1, <1>2, ExcuseType
<1>5. ReposType'
  BY <1>0, <1>1, <1>3 DEF ReposType, Set
<1>6. MovingType'
  BY <1>0, <1>1 DEF MovingType, moving
<1> QED
  BY <1>4, <1>5, <1>6 DEF CoreType

\* The hub's gc changes the hub's store and files, and what others were handing over.
Sweeping == SweepMark \/ SweepPack \/ SweepOld \/ SweepKilled

\* What is in place when the old packs are gone.
SweepEffect(whole) ==
  LET left == IF whole THEN sweep.marked ELSE {}
      hurt == \/ ~whole \/ ~WholeHistory(left \cup loose[Hub])
              \/ \E c \in Client : pc[c] \in Path
  IN  /\ packed' = Set(packed, Hub, left) /\ loose' = Set(loose, Hub, loose[Hub] \ sweep.marked)
      /\ pack' = [c \in Client |-> IF pc[c] \in {"indexing", "copying"} THEN {} ELSE pack[c]]
      /\ ghost' = [ghost EXCEPT !.excused = @ \cup (Copying \cup IF hurt THEN {Hub} ELSE {})]

LEMMA SweepOldDoes ==
  ASSUME GhostType, SweepOld
  PROVE  /\ UNCHANGED <<state, refs, tracking, lock, pc, cmd, seen, plan, reply, outcome>>
         /\ UNCHANGED <<loose, packed, pack, ghost>> \/ \E whole \in BOOLEAN : SweepEffect(whole)
<1>1. CASE Gone("idx")
  BY <1>1 DEF SweepOld
<1>2. CASE ~Gone("idx")
  <2>1. PICK whole \in Whole("idx", Hub) :
              LET left == IF whole THEN sweep.marked ELSE {}
                  hurt == \/ ~whole \/ ~WholeHistory(left \cup loose[Hub])
                          \/ \E c \in Client : pc[c] \in Path
              IN  /\ packed' = Set(packed, Hub, left)
                  /\ loose' = Set(loose, Hub, loose[Hub] \ sweep.marked)
                  /\ pack' = [c \in Client |-> IF pc[c] \in {"indexing", "copying"} THEN {}
                                               ELSE pack[c]]
                  /\ ghost' = [ghost EXCEPT !.excused = @ \cup Copying
                                                          \cup IF hurt THEN {Hub} ELSE {}]
    BY <1>2 DEF SweepOld
  <2> DEFINE left == IF whole THEN sweep.marked ELSE {}
             hurt == \/ ~whole \/ ~WholeHistory(left \cup loose[Hub])
                     \/ \E c \in Client : pc[c] \in Path
  <2>2. (ghost.excused \cup Copying) \cup (IF hurt THEN {Hub} ELSE {})
          = ghost.excused \cup (Copying \cup IF hurt THEN {Hub} ELSE {})
    OBVIOUS
  <2>3. ghost' = [ghost EXCEPT !.excused = (ghost.excused \cup Copying)
                                             \cup IF hurt THEN {Hub} ELSE {}]
    BY <2>1 DEF GhostType
  <2>4. ghost' = [ghost EXCEPT !.excused = ghost.excused
                                             \cup (Copying \cup IF hurt THEN {Hub} ELSE {})]
    <3> HIDE DEF hurt
    <3> QED
      BY <2>2, <2>3
  <2>5. ghost' = [ghost EXCEPT !.excused = @ \cup (Copying \cup IF hurt THEN {Hub} ELSE {})]
    <3> HIDE DEF hurt
    <3> QED
      BY <2>4 DEF GhostType
  <2>6. SweepEffect(whole)
    BY <2>1, <2>5 DEF SweepEffect
  <2> QED
    BY <2>6, WholeType DEF SweepOld
<1> QED
  BY <1>1, <1>2

LEMMA SweepDoes ==
  ASSUME TypeOK, Sweeping
  PROVE  /\ UNCHANGED <<state, refs, tracking, lock, pc, cmd, seen, plan, reply, outcome>>
         /\ \A q \in Repo \ {Hub} : loose'[q] = loose[q] /\ packed'[q] = packed[q]
         /\ loose' \in [Repo -> SUBSET Commit] /\ packed' \in [Repo -> SUBSET Commit]
         /\ GhostType' /\ ghost'.held = ghost.held /\ ghost.excused \subseteq ghost'.excused
         /\ UNCHANGED pack
            \/ /\ pack' = [c \in Client |-> IF pc[c] \in {"indexing", "copying"} THEN {} ELSE pack[c]]
               /\ Copying \subseteq ghost'.excused
<1>0. /\ ReposType /\ MovingType /\ GhostType /\ Hub \in Repo /\ sweep.marked \in SUBSET Commit
  BY RepoFacts DEF TypeOK, CoreType, BuiltType
<1>1. CASE SweepMark \/ SweepKilled
  <2>1. /\ UNCHANGED <<state, refs, tracking, loose, packed, lock, moving>>
        /\ Spend("work") \/ Spend("faults")
    BY <1>1 DEF SweepMark, SweepKilled
  <2> QED
    BY <1>0, <2>1, SpendType DEF moving, ReposType
<1>2. CASE SweepPack
  <2>1. UNCHANGED <<state, refs, tracking, loose, lock, moving>>
    BY <1>2 DEF SweepPack
  <2>2. CASE UNCHANGED <<packed, ghost>>
    BY <1>0, <2>1, <2>2 DEF moving, ReposType, GhostType
  <2>3. ASSUME NEW whole \in BOOLEAN, PutPack(Hub, sweep.marked, whole)
        PROVE  /\ packed' \in [Repo -> SUBSET Commit]
               /\ \A q \in Repo \ {Hub} : packed'[q] = packed[q]
               /\ GhostType' /\ ghost'.held = ghost.held /\ ghost.excused \subseteq ghost'.excused
    BY <1>0, <2>3, PutPackType
  <2>4. \/ UNCHANGED <<packed, ghost>>
        \/ \E whole \in BOOLEAN : PutPack(Hub, sweep.marked, whole)
    BY <1>2, WholeType DEF SweepPack
  <2> QED
    BY <1>0, <2>1, <2>2, <2>3, <2>4 DEF moving, ReposType
<1>3. CASE SweepOld
  <2>1. CASE UNCHANGED <<loose, packed, pack, ghost>>
    BY <1>0, <1>3, <2>1, SweepOldDoes DEF ReposType, GhostType
  <2>2. ASSUME NEW whole \in BOOLEAN, SweepEffect(whole)
        PROVE  /\ \A q \in Repo \ {Hub} : loose'[q] = loose[q] /\ packed'[q] = packed[q]
               /\ loose' \in [Repo -> SUBSET Commit] /\ packed' \in [Repo -> SUBSET Commit]
               /\ GhostType' /\ ghost'.held = ghost.held /\ ghost.excused \subseteq ghost'.excused
               /\ pack' = [c \in Client |-> IF pc[c] \in {"indexing", "copying"} THEN {}
                                            ELSE pack[c]]
               /\ Copying \subseteq ghost'.excused
    <3> DEFINE left == IF whole THEN sweep.marked ELSE {}
               hurt == \/ ~whole \/ ~WholeHistory(left \cup loose[Hub])
                       \/ \E c \in Client : pc[c] \in Path
               more == Copying \cup IF hurt THEN {Hub} ELSE {}
    <3>1. /\ packed' = Set(packed, Hub, left) /\ loose' = Set(loose, Hub, loose[Hub] \ sweep.marked)
          /\ ghost' = [ghost EXCEPT !.excused = @ \cup more]
          /\ pack' = [c \in Client |-> IF pc[c] \in {"indexing", "copying"} THEN {} ELSE pack[c]]
      BY <2>2 DEF SweepEffect
    <3>2. left \in SUBSET Commit /\ more \in SUBSET Repo /\ Copying \subseteq more
      BY <1>0, RepoFacts DEF Copying
    <3> HIDE DEF left, more
    <3>3. /\ GhostType' /\ ghost'.held = ghost.held /\ ghost.excused \subseteq ghost'.excused
          /\ Copying \subseteq ghost'.excused
      BY <1>0, <3>1, <3>2, ExcuseType
    <3> QED
      BY <1>0, <3>1, <3>2, <3>3 DEF ReposType, Set
  <2> QED
    BY <1>0, <1>3, <2>1, <2>2, SweepOldDoes
<1> QED
  BY <1>1, <1>2, <1>3 DEF Sweeping

LEMMA SweepType ==
  ASSUME TypeOK, Sweeping
  PROVE  CoreType'
<1>0. ReposType /\ MovingType
  BY DEF TypeOK, CoreType
<1>1. ReposType'
  BY <1>0, SweepDoes DEF ReposType
<1>2. pack' \in [Client -> {None} \cup SUBSET Commit]
  <2>1. CASE UNCHANGED pack
    BY <1>0, <2>1 DEF MovingType
  <2>2. CASE pack' = [c \in Client |-> IF pc[c] \in {"indexing", "copying"} THEN {} ELSE pack[c]]
    BY <1>0, <2>2 DEF MovingType
  <2> QED
    BY <2>1, <2>2, SweepDoes
<1>3. MovingType'
  BY <1>0, <1>2, SweepDoes DEF MovingType
<1> QED
  BY <1>1, <1>3, SweepDoes DEF CoreType

LEMMA OtherTypeStep ==
  ASSUME TypeOK, NEW c \in Client,
         MakeCommit(c) \/ MoveRef(c) \/ ConnectionLost(c) \/ Crash(c)
  PROVE  CoreType'
<1>0. ReposType /\ MovingType /\ GhostType /\ c \in Repo
  BY RepoFacts DEF TypeOK, CoreType
<1>1. CASE MakeCommit(c)
  <2>1. PICK x \in Commit, b \in Branch :
          /\ loose' = Set(loose, c, loose[c] \cup {x})
          /\ refs' = Set(refs, c, [refs[c] EXCEPT ![b] = x])
    BY <1>1 DEF MakeCommit
  <2>2. [refs[c] EXCEPT ![b] = x] \in [Name -> CommitOrNone]
    BY <1>0, RepoFacts DEF ReposType, CommitOrNone
  <2>3. ReposType'
    BY <1>0, <1>1, <2>1, <2>2 DEF MakeCommit, ReposType, Set
  <2> QED
    BY <1>0, <1>1, <2>3, SpendType DEF MakeCommit, TypeOK, CoreType, MovingType, moving
<1>2. CASE MoveRef(c)
  <2>1. PICK n \in Name, x \in Commit : refs' = Set(refs, c, [refs[c] EXCEPT ![n] = x])
    BY <1>0, <1>2, KnownType DEF MoveRef
  <2>2. [refs[c] EXCEPT ![n] = x] \in [Name -> CommitOrNone]
    BY <1>0 DEF ReposType, CommitOrNone
  <2>3. ReposType'
    BY <1>0, <1>2, <2>1, <2>2 DEF MoveRef, ReposType, Set
  <2> QED
    BY <1>0, <1>2, <2>3, SpendType DEF MoveRef, TypeOK, CoreType, MovingType, moving
<1>3. CASE ConnectionLost(c)
  <2>1. ReposType'
    BY <1>0, <1>3 DEF ConnectionLost, ReposType, repos, Set
  <2>2. End(c, "error") /\ Spend("faults")
    BY <1>3 DEF ConnectionLost
  <2> QED
    BY <1>0, <2>1, <2>2, EndType, SpendType DEF TypeOK, CoreType
<1>4. CASE Crash(c)
  <2>1. ReposType'
    BY <1>0, <1>4 DEF Crash, ReposType
  <2>2. End(c, "error") /\ Spend("faults")
    BY <1>4 DEF Crash
  <2> QED
    BY <1>0, <2>1, <2>2, EndType, SpendType DEF TypeOK, CoreType
<1> QED
  BY <1>1, <1>2, <1>3, <1>4

\* The hub's temporary files and its gc.
LEMMA BuiltStep ==
  ASSUME TypeOK, [Next]_vars
  PROVE  BuiltType'
<1>0. /\ CoreType /\ ReposType /\ BuiltType /\ {"pack", "idx"} \subseteq Kind /\ Hub \in Builder
      /\ Client \subseteq Builder
  BY DEF TypeOK, CoreType, Kind, Builder
<1> DEFINE Files == [Kind -> SUBSET (Builder \cup {Dead})]
           Gcs == [at : {"idle", "packing", "indexing"}, marked : SUBSET Commit]
<1>a. tmp \in Files /\ sweep \in Gcs /\ (tmp' \in Files /\ sweep' \in Gcs => BuiltType')
  BY <1>0 DEF BuiltType
<1>b. \A files \in Files, kind \in {"pack", "idx"}, w \in Builder : Open(files, kind, w) \in Files
  BY <1>0, OpenType
<1>c. \A kind \in {"pack", "idx"} : Renamed(kind) \in Files
  BY <1>0 DEF Renamed, Set, BuiltType
<1>d. \A w \in Builder : Abandoned(w) \in Files
  BY <1>0 DEF Abandoned, BuiltType
<1>e. [kind \in Kind |-> {}] \in Files
  OBVIOUS
<1> HIDE DEF Files
<1>f. ASSUME NEW w \in Builder, NEW x, NEW whole, PutPack(w, x, whole) PROVE tmp' \in Files
  BY <1>b, <1>c, <1>f DEF PutPack
<1>1. ASSUME NEW c \in Client, ClientStep(c) PROVE BuiltType'
  <2>0. c \in Builder
    BY <1>0
  <2>1. CASE PathOpen(c)
    BY <1>a, <1>b, <2>0, <2>1 DEF PathOpen
  <2>2. CASE PathPack(c)
    <3>1. UNCHANGED sweep /\ (tmp' = tmp \/ \E whole : PutPack(c, pack[c], whole))
      BY <2>2 DEF PathPack
    <3> QED
      BY <1>a, <1>f, <2>0, <3>1
  <2>3. CASE PathIdx(c)
    BY <1>a, <1>c, <2>3 DEF PathIdx
  <2>4. CASE Crash(c)
    BY <1>a, <1>d, <2>0, <2>4 DEF Crash
  <2>5. CASE PathPlan(c) \/ PathLock(c) \/ PathRename(c) \/ PathDone(c) \/ Discover(c) \/ NetPlan(c)
             \/ Serve(c) \/ Report(c) \/ Fetch(c)
    BY <1>a, <2>5 DEF PathPlan, PathLock, PathRename, PathDone, Discover, NetPlan, Serve, Report,
         Fetch, LsRefs, FetchPack, FetchRefs, repos, built
  <2>6. CASE Clone(c)
    BY <1>a, <2>6 DEF Clone, CloneList, ClonePack, CloneRefs, CopyStart, CopyFiles, CopyFails,
         CopyHead, CopyRefs, CloneCheckout, CleanUp, repos, built
  <2>7. CASE MakeCommit(c) \/ MoveRef(c) \/ ConnectionLost(c)
    BY <1>a, <2>7 DEF MakeCommit, MoveRef, ConnectionLost, repos, built
  <2> QED
    BY <1>1, <2>1, <2>2, <2>3, <2>4, <2>5, <2>6, <2>7 DEF ClientStep, Push
<1>2. CASE Sweeping
  <2>1. \A step \in {"idle", "packing", "indexing"}, marked \in SUBSET Commit :
          Sweep(step, marked) => sweep' \in Gcs
    BY DEF Sweep
  <2>2. sweep.marked \in SUBSET Commit
    BY <1>a
  <2> HIDE DEF Gcs
  <2>3. CASE SweepMark
    <3>1. Reach(Roots(Hub), Obj(Hub)) \in SUBSET Commit
      BY <1>0, RepoFacts, ObjType, RootsType, ReachIsLeast
    <3>2. tmp' = Open(tmp, "pack", Hub) /\ Sweep("packing", Reach(Roots(Hub), Obj(Hub)))
      BY <2>3 DEF SweepMark
    <3>3. sweep' \in Gcs
      BY <2>1, <3>1, <3>2
    <3>4. tmp' \in Files
      BY <1>0, <1>a, <1>b, <3>2
    <3> QED
      BY <1>a, <3>3, <3>4
  <2>4. CASE SweepPack
    <3>1. CASE Sweep("idle", {}) /\ tmp' = tmp
      BY <1>a, <2>1, <3>1
    <3>2. ASSUME NEW whole, PutPack(Hub, sweep.marked, whole),
                 Sweep("indexing", IF whole THEN sweep.marked ELSE {})
          PROVE  BuiltType'
      <4>1. (IF whole THEN sweep.marked ELSE {}) \in SUBSET Commit
        BY <2>2
      <4> QED
        BY <1>0, <1>a, <1>f, <2>1, <3>2, <4>1
    <3> QED
      BY <2>4, <3>1, <3>2 DEF SweepPack
  <2>5. CASE SweepOld
    <3>1. tmp' \in Files
      BY <1>a, <1>e, <2>5 DEF SweepOld
    <3>2. Sweep("idle", {})
      BY <2>5 DEF SweepOld
    <3> QED
      BY <1>a, <2>1, <3>1, <3>2
  <2>6. CASE SweepKilled
    BY <1>0, <1>a, <1>d, <2>1, <2>6 DEF SweepKilled
  <2> QED
    BY <1>2, <2>3, <2>4, <2>5, <2>6 DEF Sweeping
<1>3. CASE PruneLocks \/ UNCHANGED vars \/ \E c \in Client : Gc(c)
  BY <1>a, <1>3 DEF PruneLocks, Gc, vars, repos, built
<1> QED
  BY <1>1, <1>2, <1>3 DEF Next, ClientStep, Sweeping

\* Every step keeps the types.
LEMMA TypeStep ==
  ASSUME TypeOK, MoveInv, [Next]_vars
  PROVE  TypeOK'
<1>1. ASSUME NEW c \in Client, ClientStep(c) PROVE CoreType'
  BY <1>1, PushTypeStep, FetchTypeStep, CloneTypeStep, OtherTypeStep DEF ClientStep
<1>2. ASSUME PruneLocks PROVE CoreType'
  BY <1>2 DEF PruneLocks, TypeOK, CoreType, ReposType, MovingType, GhostType, moving
<1>3. ASSUME UNCHANGED vars PROVE CoreType'
  BY <1>3 DEF vars, repos, moving, TypeOK, CoreType, ReposType, MovingType, GhostType
<1>4. ASSUME NEW c \in Client, Gc(c) PROVE CoreType'
  BY <1>4, GcType DEF TypeOK
<1>5. ASSUME Sweeping PROVE CoreType'
  BY <1>5, SweepType
<1>6. CoreType'
  BY <1>1, <1>2, <1>3, <1>4, <1>5 DEF Next, ClientStep, Sweeping
<1> QED
  BY <1>6, BuiltStep DEF TypeOK

LEMMA FirstFacts ==
  First \in Commit /\ Parents[First] = {}
  BY RemoteAssumption DEF First

LEMMA InitType == Init => TypeOK
<1> SUFFICES ASSUME Init PROVE TypeOK
  OBVIOUS
<1> DEFINE start == [NoRefs EXCEPT ![Main] = First]
<1>1. First \in CommitOrNone /\ start \in [Name -> CommitOrNone]
      /\ [NoHeads EXCEPT ![Main] = First] \in [Branch -> CommitOrNone]
  BY FirstFacts, RepoFacts, NoneNoCommit
<1>2. ReposType
  BY <1>1, FirstFacts, RepoFacts DEF Init, ReposType
<1>3. NoCmd \in [specs : Seq(Refspec), over : {"none", "path", "net"}] /\ <<>> \in Seq(Move)
  BY DEF NoCmd
<1>4. MovingType
  BY <1>3, RepoFacts DEF Init, MovingType, Step
<1>5. GhostType
  <2>1. [n \in Name |-> {start[n]}] \in [Name -> SUBSET CommitOrNone]
    BY <1>1
  <2> QED
    BY <2>1 DEF Init, GhostType
<1>6. BuiltType
  <2>1. [at |-> "idle", marked |-> {}]
          \in [at : {"idle", "packing", "indexing"}, marked : SUBSET Commit]
    OBVIOUS
  <2> QED
    BY <2>1 DEF Init, BuiltType
<1> QED
  BY <1>2, <1>4, <1>5, <1>6 DEF TypeOK, CoreType

-----------------------------------------------------------------------------
(* What a step leaves alone. *)

\* What a server may do: take a pack, and move refs that are as the client says and
\* whose new commits it has whole.
ServeEffect(c, done) ==
  LET whole == News(plan[c]) = {} \/ pack[c] # None
      have  == Obj(Hub) \cup (IF pack[c] = None THEN {} ELSE pack[c])
  IN  /\ packed' = IF whole THEN Set(packed, Hub, have \ loose[Hub]) ELSE packed
      /\ reply' = Set(reply, c, IF whole THEN {p.dst : p \in Moves(plan[c]) \ done} ELSE Name)
      /\ \A p \in done :
           /\ p \in Moves(plan[c]) /\ whole /\ refs[Hub][p.dst] = p.old /\ lock[p.dst] = None
           /\ Reach({p.new}, have) \subseteq have
      /\ \E k \in {0, 1} : SetHub(Applied(refs[Hub], done), k)
      /\ UNCHANGED <<state, tracking, loose, lock, pc, cmd, seen, plan, pack, outcome>>

LEMMA ServeDoes ==
  ASSUME NEW c \in Client, Serve(c)
  PROVE  \E done \in SUBSET Moves(plan[c]) : ServeEffect(c, done)
<1> DEFINE all   == Moves(plan[c])
           whole == News(plan[c]) = {} \/ pack[c] # None
           have  == Obj(Hub) \cup (IF pack[c] = None THEN {} ELSE pack[c])
           good  == {p \in all : /\ whole /\ refs[Hub][p.dst] = p.old /\ lock[p.dst] = None
                                 /\ Reach({p.new}, have) \subseteq have}
<1>1. PICK done \in {good, {}} :
        /\ reply' = Set(reply, c, IF whole THEN {p.dst : p \in all \ done} ELSE Name)
        /\ SetHub(Applied(refs[Hub], done), IF done = good THEN 0 ELSE 1)
  BY DEF Serve
<1>2. \A p \in done : p \in all /\ whole /\ refs[Hub][p.dst] = p.old /\ lock[p.dst] = None
                      /\ Reach({p.new}, have) \subseteq have
  OBVIOUS
<1>3. \E k \in {0, 1} : SetHub(Applied(refs[Hub], done), k)
  BY <1>1
<1>4. /\ packed' = IF whole THEN Set(packed, Hub, have \ loose[Hub]) ELSE packed
      /\ UNCHANGED <<state, tracking, loose, lock, pc, cmd, seen, plan, pack, outcome>>
  BY DEF Serve
<1>5. done \in SUBSET all
  OBVIOUS
<1> HIDE DEF good
<1>6. ServeEffect(c, done)
  BY <1>1, <1>2, <1>3, <1>4 DEF ServeEffect
<1> QED
  BY <1>5, <1>6

\* The command of a client and its repository.
SameCommand(d) ==
  /\ pc'[d] = pc[d] /\ cmd'[d] = cmd[d] /\ seen'[d] = seen[d]
  /\ plan'[d] = plan[d] /\ pack'[d] = pack[d] /\ reply'[d] = reply[d]
SameRepo(d) ==
  /\ state'[d] = state[d] /\ refs'[d] = refs[d] /\ tracking'[d] = tracking[d]
  /\ loose'[d] = loose[d] /\ packed'[d] = packed[d]

\* A command's end forgets what was in memory.
Forgotten(c) ==
  /\ pc'[c] = "idle" /\ cmd'[c] = NoCmd /\ seen'[c] = NoRefs
  /\ plan'[c] = <<>> /\ pack'[c] = None /\ reply'[c] = None

LEMMA EndForgets ==
  ASSUME MovingType, NEW c \in Client, NEW how, End(c, how)
  PROVE  Forgotten(c) /\ \A d \in Client \ {c} : SameCommand(d)
  BY DEF End, MovingType, Set, GoTo, Forgotten, SameCommand

\* A client's step is its own.
LEMMA OthersKept ==
  ASSUME TypeOK, NEW c \in Client, ClientStep(c), NEW d \in Client \ {c}
  PROVE  SameCommand(d) /\ SameRepo(d)
<1>0. ReposType /\ MovingType /\ d # c /\ d # Hub /\ d \in Repo /\ c \in Repo
  BY RepoFacts DEF TypeOK, CoreType
<1> USE DEF Set, GoTo, SameCommand, SameRepo
<1>a. ASSUME NEW how, End(c, how) PROVE SameCommand(d)
  BY <1>0, <1>a, EndForgets
<1>b. ASSUME CleanUp(c) PROVE SameCommand(d) /\ SameRepo(d)
  BY <1>0, <1>a, <1>b DEF CleanUp, ReposType
<1>1. CASE PathPlan(c)
  <2>1. PICK specs \in Pushes :
       IF Fails(c, specs, refs[Hub])
         THEN End(c, "error")
         ELSE /\ plan' = Set(plan, c, Rest(Planned(c, specs, refs[Hub])))
              /\ cmd' = Set(cmd, c, [specs |-> specs, over |-> "path"])
              /\ GoTo(c, "planned")
              /\ UNCHANGED <<seen, pack, reply>>
    BY <1>1 DEF PathPlan
  <2>2. SameCommand(d)
    <3>1. CASE Fails(c, specs, refs[Hub])
      BY <2>1, <3>1, <1>a
    <3>2. CASE ~Fails(c, specs, refs[Hub])
      BY <1>0, <2>1, <3>2 DEF MovingType
    <3> QED
      BY <3>1, <3>2
  <2> QED
    BY <1>1, <2>2 DEF PathPlan, repos
<1>2. CASE Building(c)
  <2>1. SameRepo(d)
    BY <1>0, <1>2, BuildDoes DEF TypeOK
  <2>2. CASE End(c, "error")
    BY <1>a, <2>1, <2>2
  <2>3. CASE /\ \E step \in {"packing", "indexing", "written"} : GoTo(c, step)
             /\ \E x : pack' = Set(pack, c, x)
             /\ UNCHANGED <<cmd, seen, plan, reply, outcome>>
    BY <1>0, <2>1, <2>3 DEF MovingType
  <2> QED
    BY <1>2, <2>2, <2>3, BuildDoes DEF TypeOK
<1>3. CASE PathLock(c)
  BY <1>0, <1>3, <1>a DEF PathLock, MovingType
<1>4. CASE PathRename(c)
  BY <1>0, <1>4 DEF PathRename, SetHub, MovingType, ReposType
<1>5. CASE PathDone(c)
  BY <1>0, <1>5, <1>a DEF PathDone, repos
<1>6. CASE Discover(c)
  BY <1>0, <1>6 DEF Discover, repos, MovingType
<1>7. CASE NetPlan(c)
  BY <1>0, <1>7, <1>a DEF NetPlan, repos, MovingType
<1>8. CASE Serve(c)
  BY <1>0, <1>8 DEF Serve, SetHub, MovingType, ReposType
<1>9. CASE Report(c)
  BY <1>0, <1>9, <1>a DEF Report, ReposType
<1>10. CASE LsRefs(c)
  BY <1>0, <1>10, <1>a DEF LsRefs, repos, MovingType
<1>11. CASE FetchPack(c)
  BY <1>0, <1>11, <1>a DEF FetchPack, MovingType, ReposType
<1>12. CASE FetchRefs(c)
  BY <1>0, <1>12, <1>a DEF FetchRefs, ReposType
<1>13. CASE CloneList(c)
  BY <1>0, <1>13 DEF CloneList, MovingType, ReposType
<1>14. CASE ClonePack(c)
  BY <1>0, <1>14, <1>b DEF ClonePack, MovingType, ReposType
<1>15. CASE CloneRefs(c)
  BY <1>0, <1>15 DEF CloneRefs, MovingType, ReposType
<1>16. CASE CopyStart(c)
  BY <1>0, <1>16 DEF CopyStart, MovingType, ReposType
<1>24. CASE CopyFiles(c)
  BY <1>0, <1>24 DEF CopyFiles, moving, ReposType
<1>25. CASE CopyFails(c)
  BY <1>b, <1>25 DEF CopyFails
<1>17. CASE CopyHead(c)
  BY <1>0, <1>17 DEF CopyHead, repos, MovingType
<1>18. CASE CopyRefs(c)
  BY <1>0, <1>18 DEF CopyRefs, MovingType, ReposType
<1>19. CASE CloneCheckout(c)
  BY <1>0, <1>19, <1>a, <1>b DEF CloneCheckout, ReposType
<1>20. CASE MakeCommit(c)
  BY <1>0, <1>20 DEF MakeCommit, moving, ReposType
<1>21. CASE MoveRef(c)
  BY <1>0, <1>21 DEF MoveRef, moving, ReposType
<1>22. CASE ConnectionLost(c)
  BY <1>0, <1>22, <1>a DEF ConnectionLost, repos, ReposType
<1>23. CASE Crash(c)
  BY <1>0, <1>23, <1>a DEF Crash
<1> QED
  BY <1>1, <1>2, <1>3, <1>4, <1>5, <1>6, <1>7, <1>8, <1>9, <1>10, <1>11, <1>12, <1>13, <1>14,
     <1>15, <1>16, <1>17, <1>18, <1>19, <1>20, <1>21, <1>22, <1>23, <1>24, <1>25
     DEF ClientStep, Push, Building, Fetch, Clone

\* The ref that a client is about to rename: no step of another's moves it.
LEMMA LockedRefKept ==
  ASSUME TypeOK, MoveInv, NEW c \in Client, ClientStep(c), NEW n \in Name, NEW d \in Client \ {c},
         lock[n] = d
  PROVE  lock'[n] = d /\ refs'[Hub][n] = refs[Hub][n]
<1>0. /\ ReposType /\ MovingType /\ d # c /\ c # Hub /\ d \in Repo /\ c \in Repo /\ d # None
      /\ d # Dead
  BY RepoFacts, RemoteAssumption DEF TypeOK, CoreType
<1> USE DEF Set
<1>a. ASSUME UNCHANGED <<lock, refs>> PROVE lock'[n] = d /\ refs'[Hub][n] = refs[Hub][n]
  BY <1>a
<1>b. ASSUME UNCHANGED lock, NEW new, refs' = [refs EXCEPT ![c] = new]
      PROVE  lock'[n] = d /\ refs'[Hub][n] = refs[Hub][n]
  BY <1>0, <1>b DEF ReposType
<1>c. ASSUME CleanUp(c) PROVE lock'[n] = d /\ refs'[Hub][n] = refs[Hub][n]
  BY <1>b, <1>c DEF CleanUp
<1>1. CASE PathPlan(c) \/ PathDone(c) \/ Discover(c) \/ NetPlan(c) \/ Report(c) \/ LsRefs(c)
           \/ FetchPack(c) \/ CloneList(c) \/ CopyStart(c) \/ CopyFiles(c) \/ CopyHead(c)
  BY <1>1, <1>a DEF PathPlan, PathDone, Discover, NetPlan, Report, LsRefs, FetchPack,
                   CloneList, CopyStart, CopyFiles, CopyHead, repos
<1>9. CASE Building(c)
  BY <1>9, <1>a, BuildDoes DEF TypeOK
<1>2. CASE FetchRefs(c) \/ CloneRefs(c) \/ CopyRefs(c) \/ MakeCommit(c) \/ MoveRef(c)
  BY <1>2, <1>b DEF FetchRefs, CloneRefs, CopyRefs, MakeCommit, MoveRef
<1>3. CASE ClonePack(c) \/ CopyFails(c) \/ CloneCheckout(c)
  BY <1>3, <1>a, <1>c DEF ClonePack, CopyFails, CloneCheckout
<1>4. CASE ConnectionLost(c)
  BY <1>4, <1>a DEF ConnectionLost, repos
<1>5. CASE Crash(c)
  BY <1>0, <1>5 DEF Crash, ReposType
<1>6. CASE PathLock(c)
  <2>1. CASE UNCHANGED <<lock, refs>>
    BY <2>1, <1>a
  <2>2. CASE lock[Head(plan[c]).dst] = None /\ lock' = [lock EXCEPT ![Head(plan[c]).dst] = c]
             /\ UNCHANGED refs
    BY <1>0, <2>2 DEF ReposType
  <2> QED
    BY <1>6, <2>1, <2>2 DEF PathLock
<1>7. CASE PathRename(c)
  <2> DEFINE p == Head(plan[c])
             new == Applied(refs[Hub], {p})
  <2>1. plan[c] # <<>> /\ lock[p.dst] = c /\ plan[c] \in Seq(Move)
    BY <1>0, <1>7 DEF PathRename, At, MoveInv, LockOK, MovingType
  <2>2. p \in Move /\ p.dst # n
    BY <1>0, <2>1
  <2>3. lock' = [lock EXCEPT ![p.dst] = None] /\ refs' = [refs EXCEPT ![Hub] = new]
    BY <1>7 DEF PathRename, SetHub
  <2>4. new[n] = refs[Hub][n]
    BY <2>2 DEF Applied
  <2> HIDE DEF p, new
  <2> QED
    BY <1>0, <2>2, <2>3, <2>4, RepoFacts DEF ReposType
<1>8. CASE Serve(c)
  <2>0. PICK done \in SUBSET Moves(plan[c]) : ServeEffect(c, done)
    BY <1>8, ServeDoes
  <2>1. /\ refs' = [refs EXCEPT ![Hub] = Applied(refs[Hub], done)] /\ lock' = lock
        /\ \A p \in done : lock[p.dst] = None
    BY <2>0 DEF ServeEffect, SetHub
  <2>2. \A p \in done : p.dst # n
    BY <1>0, <2>1
  <2>3. Applied(refs[Hub], done)[n] = refs[Hub][n]
    BY <2>2 DEF Applied
  <2> QED
    BY <2>1, <2>3, <1>0, RepoFacts DEF ReposType
<1> QED
  BY <1>1, <1>2, <1>3, <1>4, <1>5, <1>6, <1>7, <1>8, <1>9
     DEF ClientStep, Push, Building, Fetch, Clone

-----------------------------------------------------------------------------
(* What a push has decided, and the lock it holds (MoveInv). *)

\* A command that ends, or that goes on with the same plan.
LEMMA ForgottenPlan ==
  ASSUME NEW c \in Client, Forgotten(c)
  PROVE  PlanOK(c)' /\ LockOK(c)'
<1>1. DOMAIN (<<>>) = {}
  OBVIOUS
<1>2. NoCmd.specs = <<>>
  BY DEF NoCmd
<1> QED
  BY <1>1, <1>2 DEF Forgotten, PlanOK, LockOK, Path, Carrying

LEMMA SamePlan ==
  ASSUME NEW c \in Client, PlanOK(c), plan'[c] = plan[c], cmd'[c] = cmd[c], reply'[c] = reply[c],
         pc'[c] # "locked", pc'[c] \in Carrying => pack'[c] \in SUBSET Commit,
         pc'[c] \in Path => pc[c] \in Path,
         pc[c] \in Path \cup {"sent"} => pc'[c] \in Path \cup {"sent"},
         pc[c] = "sent" => pc'[c] = "sent"
  PROVE  PlanOK(c)' /\ LockOK(c)'
  BY DEF PlanOK, LockOK

\* A suffix of a plan is a plan.
LEMMA SuffixDecided ==
  ASSUME NEW all \in Seq(Move), NEW some \in Seq(Move), Suffix(some, all), NEW specs,
         \A i \in DOMAIN all : \E j \in DOMAIN specs : Decided(all[i], specs[j]),
         \A i, j \in DOMAIN all : all[i].dst = all[j].dst => i = j
  PROVE  /\ \A i \in DOMAIN some : \E j \in DOMAIN specs : Decided(some[i], specs[j])
         /\ \A i, j \in DOMAIN some : some[i].dst = some[j].dst => i = j
<1>1. PICK k \in Nat : \A i \in DOMAIN some : i + k \in DOMAIN all /\ some[i] = all[i + k]
  BY DEF Suffix
<1>2. ASSUME NEW i \in DOMAIN some, NEW j \in DOMAIN some, some[i].dst = some[j].dst PROVE i = j
  <2>1. i \in Nat /\ j \in Nat
    OBVIOUS
  <2>2. i + k = j + k
    BY <1>1, <1>2
  <2> QED
    BY <2>1, <2>2
<1> QED
  BY <1>1, <1>2

LEMMA OwnMove ==
  ASSUME TypeOK, MoveInv, NEW c \in Client, ClientStep(c)
  PROVE  PlanOK(c)' /\ LockOK(c)'
<1>0. /\ ReposType /\ MovingType /\ PlanOK(c) /\ LockOK(c) /\ c \in Repo /\ plan[c] \in Seq(Move)
      /\ refs[c] \in [Name -> CommitOrNone] /\ refs[Hub] \in [Name -> CommitOrNone]
      /\ seen[c] \in [Name -> CommitOrNone] /\ Obj(c) \in SUBSET Commit
  BY RepoFacts, ObjType DEF TypeOK, CoreType, MoveInv, ReposType, MovingType
<1>a. ASSUME NEW how, End(c, how) PROVE PlanOK(c)' /\ LockOK(c)'
  BY <1>0, <1>a, EndForgets, ForgottenPlan
<1>b. ASSUME UNCHANGED <<plan, cmd, reply>>, pc' = [pc EXCEPT ![c] = pc'[c]],
             pc[c] \notin Path \cup {"sent"}, pc'[c] \notin Path,
             pc'[c] \in Carrying => pack'[c] \in SUBSET Commit
      PROVE  PlanOK(c)' /\ LockOK(c)'
  BY <1>0, <1>b, SamePlan DEF Path
<1>1. CASE PathPlan(c)
  <2>1. PICK specs \in Pushes :
       IF Fails(c, specs, refs[Hub])
         THEN End(c, "error")
         ELSE /\ plan' = Set(plan, c, Rest(Planned(c, specs, refs[Hub])))
              /\ cmd' = Set(cmd, c, [specs |-> specs, over |-> "path"])
              /\ GoTo(c, "planned")
              /\ UNCHANGED <<seen, pack, reply>>
    BY <1>1 DEF PathPlan
  <2>2. CASE Fails(c, specs, refs[Hub])
    BY <2>1, <2>2, <1>a
  <2>3. CASE ~Fails(c, specs, refs[Hub])
    <3> DEFINE all == Planned(c, specs, refs[Hub])
               some == Rest(all)
    <3>1. specs \in Seq(Refspec) /\ \A i, j \in DOMAIN specs : specs[i].dst = specs[j].dst => i = j
      BY PushTypes
    <3>2. /\ all \in Seq(Move) /\ DOMAIN all = DOMAIN specs
          /\ \A i \in DOMAIN all : Decided(all[i], specs[i])
          /\ \A i, j \in DOMAIN all : all[i].dst = all[j].dst => i = j
      BY <1>0, <2>3, <3>1, PlannedDecided
    <3>3. /\ plan'[c] = some /\ cmd'[c].specs = specs /\ pc'[c] = "planned" /\ reply'[c] = reply[c]
      <4> HIDE DEF some
      <4> QED
        BY <1>0, <2>1, <2>3 DEF Set, GoTo, MovingType, some, all
    <3> HIDE DEF all
    <3>4. /\ some \in Seq(Move) /\ Suffix(some, all)
          /\ some # <<>> => Head(some).action # "up to date"
      BY <3>2, RestIsSuffix
    <3> HIDE DEF some
    <3>5. /\ \A i \in DOMAIN some : \E j \in DOMAIN specs : Decided(some[i], specs[j])
          /\ \A i, j \in DOMAIN some : some[i].dst = some[j].dst => i = j
      BY <3>2, <3>4, SuffixDecided
    <3>6. reply[c] = None
      BY <1>0, <1>1 DEF PathPlan, MayPush, At, PlanOK
    <3> QED
      BY <3>1, <3>3, <3>4, <3>5, <3>6 DEF PlanOK, LockOK, Path, Carrying
  <2> QED
    BY <2>2, <2>3
<1>2. CASE Building(c)
  <2>1. ASSUME NEW step \in {"packing", "indexing", "written"}, GoTo(c, step),
               UNCHANGED <<cmd, plan, reply>>
        PROVE  PlanOK(c)' /\ LockOK(c)'
    <3>1. pc'[c] = step /\ pc[c] \in {"planned", "packing", "indexing"}
      BY <1>0, <1>2, <2>1, BuildDoes DEF GoTo, MovingType, TypeOK
    <3>2. pc'[c] \in Carrying => pack'[c] \in SUBSET Commit
      BY <1>2, BuildType
    <3> QED
      BY <1>0, <2>1, <3>1, <3>2, SamePlan DEF Path
  <2> QED
    BY <1>2, <2>1, <1>a, BuildDoes DEF TypeOK
<1>3. CASE PathLock(c)
  <2>1. plan[c] # <<>> /\ pc[c] = "written"
    BY <1>3 DEF PathLock, At
  <2>2. Head(plan[c]) \in Move
    BY <1>0, <2>1
  <2>3. Head(plan[c]).dst \in Name
    BY <2>2 DEF Move
  <2>4. CASE /\ refs[Hub][Head(plan[c]).dst] = Head(plan[c]).old
             /\ lock' = Set(lock, Head(plan[c]).dst, c) /\ GoTo(c, "locked")
             /\ UNCHANGED <<refs, cmd, plan, reply>>
    <3>1. pc'[c] = "locked" /\ lock'[Head(plan[c]).dst] = c
      BY <1>0, <2>3, <2>4 DEF GoTo, Set, MovingType, ReposType
    <3> QED
      BY <1>0, <2>1, <2>4, <3>1 DEF PlanOK, LockOK, Path, Carrying
  <2> QED
    BY <1>3, <2>4, <1>a DEF PathLock
<1>4. CASE PathRename(c)
  <2>1. plan[c] # <<>> /\ pc[c] = "locked"
    BY <1>0, <1>4 DEF PathRename, At, LockOK
  <2> DEFINE some == Rest(Tail(plan[c]))
  <2>2. plan'[c] = some /\ pc'[c] = "written" /\ cmd'[c] = cmd[c] /\ reply'[c] = reply[c]
    BY <1>0, <1>4 DEF PathRename, Set, GoTo, MovingType
  <2>3. /\ some \in Seq(Move) /\ Suffix(some, plan[c])
        /\ some # <<>> => Head(some).action # "up to date"
    BY <1>0, <2>1, RestOfTail DEF Suffix
  <2> HIDE DEF some
  <2>4. /\ \A i \in DOMAIN some : \E j \in DOMAIN cmd[c].specs : Decided(some[i], cmd[c].specs[j])
        /\ \A i, j \in DOMAIN some : some[i].dst = some[j].dst => i = j
    <3> DEFINE specs == cmd[c].specs
               all == plan[c]
    <3>1. /\ \A i \in DOMAIN all : \E j \in DOMAIN specs : Decided(all[i], specs[j])
          /\ \A i, j \in DOMAIN all : all[i].dst = all[j].dst => i = j
          /\ all \in Seq(Move) /\ Suffix(some, all)
      BY <1>0, <2>3 DEF PlanOK
    <3> HIDE DEF specs, all
    <3>2. /\ \A i \in DOMAIN some : \E j \in DOMAIN specs : Decided(some[i], specs[j])
          /\ \A i, j \in DOMAIN some : some[i].dst = some[j].dst => i = j
      BY <2>3, <3>1, SuffixDecided
    <3> QED
      BY <3>2 DEF specs
  <2> QED
    BY <1>0, <2>1, <2>2, <2>3, <2>4 DEF PlanOK, LockOK, Path, Carrying
<1>5. CASE PathDone(c)
  BY <1>5, <1>a DEF PathDone
<1>6. CASE Discover(c)
  <2>1. pc[c] = "idle" /\ pc'[c] = "discovered" /\ UNCHANGED <<plan, reply>>
    BY <1>0, <1>6 DEF Discover, MayPush, At, GoTo, MovingType
  <2>2. plan[c] = <<>> /\ reply[c] = None /\ DOMAIN (<<>>) = {}
    BY <1>0, <2>1 DEF PlanOK, Path
  <2>3. PICK specs \in Pushes : cmd' = Set(cmd, c, [specs |-> specs, over |-> "net"])
    BY <1>6 DEF Discover
  <2>4. cmd'[c].specs = specs /\ \A i, j \in DOMAIN specs : specs[i].dst = specs[j].dst => i = j
    BY <1>0, <2>3, PushTypes DEF Set, MovingType
  <2> QED
    BY <2>1, <2>2, <2>4 DEF PlanOK, LockOK, Path, Carrying
<1>7. CASE NetPlan(c)
  <2> DEFINE specs == cmd[c].specs
             all == Planned(c, specs, seen[c])
  <2>1. CASE /\ ~Fails(c, specs, seen[c])
             /\ plan' = Set(plan, c, all) /\ GoTo(c, "sent") /\ UNCHANGED <<cmd, reply>>
    <3>1. /\ specs \in Seq(Refspec)
      BY <1>0 DEF MovingType
    <3>2. \A i, j \in DOMAIN specs : specs[i].dst = specs[j].dst => i = j
      BY <1>0 DEF PlanOK
    <3>3. /\ all \in Seq(Move) /\ DOMAIN all = DOMAIN specs
          /\ \A i \in DOMAIN all : Decided(all[i], specs[i])
          /\ \A i, j \in DOMAIN all : all[i].dst = all[j].dst => i = j
      BY <1>0, <2>1, <3>1, <3>2, PlannedDecided
    <3> HIDE DEF all
    <3>4. pc'[c] = "sent" /\ plan'[c] = all /\ cmd'[c] = cmd[c]
      BY <1>0, <2>1 DEF GoTo, Set, MovingType
    <3> QED
      BY <3>2, <3>3, <3>4 DEF PlanOK, LockOK, Path, Carrying
  <2> QED
    BY <1>7, <2>1, <1>a DEF NetPlan
<1>8. CASE Serve(c)
  <2>1. pc[c] = "sent" /\ UNCHANGED <<pc, plan, cmd>>
    BY <1>8 DEF Serve, At
  <2> QED
    BY <1>0, <2>1 DEF PlanOK, LockOK, Path, Carrying
<1>9. CASE Report(c)
  BY <1>9, <1>a DEF Report
<1>10. CASE LsRefs(c)
  <2>1. CASE GoTo(c, "listed") /\ UNCHANGED <<cmd, plan, reply>> /\ At(c, "idle")
    BY <1>0, <2>1, <1>b DEF GoTo, At, MovingType, Path, Carrying
  <2> QED
    BY <1>10, <2>1, <1>a DEF LsRefs
<1>11. CASE FetchPack(c)
  <2>1. CASE GoTo(c, "fetched") /\ UNCHANGED <<cmd, plan, reply>> /\ At(c, "listed")
    BY <1>0, <2>1, <1>b DEF GoTo, At, MovingType, Path, Carrying
  <2> QED
    BY <1>11, <2>1, <1>a DEF FetchPack
<1>12. CASE FetchRefs(c)
  BY <1>12, <1>a DEF FetchRefs
<1>13. CASE CloneList(c)
  BY <1>0, <1>13, <1>b DEF CloneList, MayClone, GoTo, At, MovingType, Path, Carrying
<1>14. CASE ClonePack(c)
  <2>1. CASE GoTo(c, "clone fetched") /\ UNCHANGED <<cmd, plan, reply>> /\ At(c, "clone listed")
    BY <1>0, <2>1, <1>b DEF GoTo, At, MovingType, Path, Carrying
  <2> QED
    BY <1>14, <2>1, <1>a DEF ClonePack, CleanUp
<1>15. CASE CloneRefs(c)
  BY <1>0, <1>15, <1>b DEF CloneRefs, GoTo, At, MovingType, Path, Carrying
<1>16. CASE CopyStart(c)
  <2>1. pack'[c] = Obj(Hub) /\ Obj(Hub) \in SUBSET Commit
    BY <1>0, <1>16, RepoFacts, ObjType DEF CopyStart, Set, MovingType
  <2> QED
    BY <1>0, <1>16, <1>b, <2>1 DEF CopyStart, MayClone, GoTo, At, MovingType, Path
<1>22. CASE CopyFiles(c)
  <2>1. pc[c] = "copying" /\ UNCHANGED moving
    BY <1>22 DEF CopyFiles, At
  <2> QED
    BY <1>0, <2>1 DEF moving, PlanOK, LockOK, Path
<1>23. CASE CopyFails(c)
  BY <1>23, <1>a DEF CopyFails, CleanUp
<1>17. CASE CopyHead(c)
  BY <1>0, <1>17, <1>b DEF CopyHead, GoTo, At, MovingType, Path, Carrying
<1>18. CASE CopyRefs(c)
  BY <1>0, <1>18, <1>b DEF CopyRefs, GoTo, At, MovingType, Path, Carrying
<1>19. CASE CloneCheckout(c)
  BY <1>19, <1>a DEF CloneCheckout, CleanUp
<1>20. CASE MakeCommit(c) \/ MoveRef(c)
  <2>1. pc[c] = "idle" /\ UNCHANGED moving
    BY <1>20 DEF MakeCommit, MoveRef, MayWork, At
  <2> QED
    BY <1>0, <2>1 DEF moving, PlanOK, LockOK, Path
<1>21. CASE ConnectionLost(c) \/ Crash(c)
  BY <1>21, <1>a DEF ConnectionLost, Crash
<1> QED
  BY <1>1, <1>2, <1>3, <1>4, <1>5, <1>6, <1>7, <1>8, <1>9, <1>10, <1>11, <1>12, <1>13, <1>14,
     <1>15, <1>16, <1>17, <1>18, <1>19, <1>20, <1>21, <1>22, <1>23
     DEF ClientStep, Push, Building, Fetch, Clone

\* Every step keeps what is known of pushes under way.
LEMMA MoveStep ==
  ASSUME TypeOK, MoveInv, [Next]_vars
  PROVE  MoveInv'
<1> SUFFICES ASSUME NEW d \in Client PROVE PlanOK(d)' /\ LockOK(d)'
  BY DEF MoveInv
<1>0. PlanOK(d) /\ LockOK(d) /\ plan[d] \in Seq(Move)
  BY DEF MoveInv, TypeOK, CoreType, MovingType
<1>1. ASSUME NEW c \in Client, ClientStep(c), c # d PROVE PlanOK(d)' /\ LockOK(d)'
  <2>1. SameCommand(d)
    BY <1>1, OthersKept
  <2>2. PlanOK(d)'
    BY <1>0, <2>1 DEF SameCommand, PlanOK
  <2>3. LockOK(d)'
    <3> SUFFICES ASSUME pc[d] = "locked"
                 PROVE  LockOK(d)'
      BY <2>1 DEF SameCommand, LockOK
    <3> DEFINE n == Head(plan[d]).dst
    <3>1. plan[d] # <<>> /\ lock[n] = d /\ refs[Hub][n] = Head(plan[d]).old
      BY <1>0 DEF LockOK
    <3>2. Head(plan[d]) \in Move
      BY <1>0, <3>1
    <3>3. n \in Name
      BY <3>2 DEF Move
    <3> HIDE DEF n
    <3>4. lock'[n] = d /\ refs'[Hub][n] = refs[Hub][n]
      BY <1>1, <3>1, <3>3, LockedRefKept
    <3> QED
      BY <2>1, <3>1, <3>4 DEF SameCommand, LockOK, n
  <2> QED
    BY <2>2, <2>3
<1>2. ASSUME NEW c \in Client, ClientStep(c) PROVE PlanOK(d)' /\ LockOK(d)'
  BY <1>1, <1>2, OwnMove
<1>3. ASSUME NEW c \in Client, Gc(c) PROVE PlanOK(d)' /\ LockOK(d)'
  BY <1>0, <1>3 DEF Gc, moving, PlanOK, LockOK
<1>6. CASE Sweeping
  <2>1. /\ UNCHANGED <<lock, refs, pc, cmd, plan, reply>>
        /\ pack'[d] \in {pack[d], {}}
    BY <1>6, SweepDoes
  <2>2. pack[d] \in SUBSET Commit => pack'[d] \in SUBSET Commit
    BY <2>1
  <2> QED
    BY <1>0, <2>1, <2>2 DEF PlanOK, LockOK
<1>4. CASE PruneLocks
  <2>1. UNCHANGED <<moving, refs>> /\ lock' = [n \in Name |-> IF lock[n] = Dead THEN None ELSE lock[n]]
    BY <1>4 DEF PruneLocks
  <2>2. PlanOK(d)'
    BY <1>0, <2>1 DEF moving, PlanOK
  <2>3. LockOK(d)'
    <3> SUFFICES ASSUME pc[d] = "locked" PROVE LockOK(d)'
      BY <2>1 DEF LockOK, moving
    <3>1. plan[d] # <<>> /\ lock[Head(plan[d]).dst] = d
      BY <1>0 DEF LockOK
    <3>2. Head(plan[d]) \in Move
      BY <1>0, <3>1
    <3>3. Head(plan[d]).dst \in Name /\ d # Dead
      BY <3>2, RemoteAssumption DEF Move
    <3> QED
      BY <1>0, <2>1, <3>1, <3>3 DEF LockOK, moving
  <2> QED
    BY <2>2, <2>3
<1>5. CASE UNCHANGED vars
  BY <1>0, <1>5 DEF vars, repos, moving, PlanOK, LockOK
<1> QED
  BY <1>2, <1>3, <1>4, <1>5, <1>6 DEF Next, ClientStep, Sweeping

-----------------------------------------------------------------------------
(* What was ever read of the hub has been there (HeldOK). *)

HeldIn(n, x) == x \in ghost.held[n] \cup {None}

\* Of a client's steps, only a rename and an answer move the hub's refs.
LEMMA HubQuiet ==
  ASSUME TypeOK, NEW c \in Client, ClientStep(c), ~PathRename(c), ~Serve(c)
  PROVE  refs'[Hub] = refs[Hub] /\ ghost'.held = ghost.held
<1>0. CoreType /\ ReposType /\ GhostType
  BY DEF TypeOK, CoreType
<1>9. c \in Repo /\ c # Hub /\ Hub \in Repo
  BY RepoFacts
<1>a. ASSUME Spend("work") \/ Spend("remote") \/ Spend("faults") PROVE ghost'.held = ghost.held
  BY <1>0, <1>a, SpendType
<1>b. ASSUME NEW new, refs' = [refs EXCEPT ![c] = new] PROVE refs'[Hub] = refs[Hub]
  BY <1>0, <1>9, <1>b DEF ReposType
<1>1. CASE PathPlan(c) \/ Discover(c) \/ LsRefs(c) \/ CloneList(c) \/ Crash(c)
  BY <1>1, <1>a DEF PathPlan, Discover, LsRefs, CloneList, Crash, repos
<1>2. CASE PathLock(c) \/ PathDone(c) \/ NetPlan(c) \/ Report(c) \/ FetchPack(c) \/ CopyFiles(c)
  BY <1>2 DEF PathLock, PathDone, NetPlan, Report, FetchPack, CopyFiles, repos
<1>8. CASE Building(c)
  BY <1>0, <1>8, BuildDoes
<1>3. CASE FetchRefs(c) \/ CloneRefs(c) \/ CopyRefs(c)
  BY <1>3, <1>b DEF FetchRefs, CloneRefs, CopyRefs, Set
<1>4. CASE ClonePack(c) \/ CopyFails(c) \/ CloneCheckout(c)
  BY <1>4, <1>b DEF ClonePack, CopyFails, CloneCheckout, CleanUp, Set
<1>5. CASE MakeCommit(c) \/ MoveRef(c)
  BY <1>5, <1>a, <1>b DEF MakeCommit, MoveRef, Set
<1>6. CASE ConnectionLost(c)
  BY <1>6, <1>a DEF ConnectionLost, repos
<1>7. CASE CopyStart(c) \/ CopyHead(c)
  BY <1>0, <1>7 DEF CopyStart, CopyHead, GhostType, repos
<1> QED
  BY <1>1, <1>2, <1>3, <1>4, <1>5, <1>6, <1>7, <1>8
     DEF ClientStep, Push, Building, Fetch, Clone

\* The hub's refs move when a push by path renames, and when the server says so;
\* what they have held grows.
LEMMA HubMoves ==
  ASSUME TypeOK, MoveInv, [Next]_vars
  PROVE  \/ /\ refs'[Hub] = refs[Hub] /\ ghost'.held = ghost.held
         \/ \E c \in Client : PathRename(c) \/ Serve(c)
<1>0. CoreType
  BY DEF TypeOK
<1> DEFINE Quiet == refs'[Hub] = refs[Hub] /\ ghost'.held = ghost.held
<1>1. ASSUME NEW c \in Client, ClientStep(c), ~PathRename(c), ~Serve(c)
      PROVE  Quiet
  BY <1>1, HubQuiet
<1>2. ASSUME NEW c \in Client, Gc(c) PROVE Quiet
  BY <1>0, <1>2, GcType DEF Gc
<1>4. CASE Sweeping
  BY <1>4, SweepDoes
<1>3. CASE PruneLocks \/ UNCHANGED vars
  BY <1>3 DEF PruneLocks, vars, repos
<1> QED
  BY <1>1, <1>2, <1>3, <1>4 DEF Next, ClientStep, Sweeping

\* Where a rename or a server puts a ref is remembered.
LEMMA SetHubHolds ==
  ASSUME ReposType, GhostType, NEW new \in [Name -> CommitOrNone], NEW k \in {0, 1},
         SetHub(new, k), NEW n \in Name
  PROVE  refs'[Hub][n] = new[n] /\ ghost'.held[n] = ghost.held[n] \cup {new[n]}
<1>1. refs'[Hub] = new
  BY RepoFacts, SetHubType
<1>2. ghost'.held = [m \in Name |-> ghost.held[m] \cup {new[m]}]
  BY SetHubType
<1> QED
  BY <1>1, <1>2

LEMMA RenameMoves ==
  ASSUME TypeOK, MoveInv, NEW c \in Client, PathRename(c)
  PROVE  LET p == Head(plan[c]) IN
         /\ plan[c] # <<>> /\ p \in Move /\ pc[c] = "locked"
         /\ refs[Hub][p.dst] = p.old /\ refs'[Hub][p.dst] = p.new
         /\ \A n \in Name \ {p.dst} : refs'[Hub][n] = refs[Hub][n]
         /\ \A n \in Name : ghost'.held[n] = ghost.held[n] \cup {refs'[Hub][n]}
<1> DEFINE p == Head(plan[c])
           new == Applied(refs[Hub], {p})
<1>1. /\ plan[c] # <<>> /\ plan[c] \in Seq(Move) /\ pc[c] = "locked" /\ refs[Hub][p.dst] = p.old
      /\ ReposType /\ GhostType /\ refs[Hub] \in [Name -> CommitOrNone]
  BY RepoFacts DEF TypeOK, CoreType, ReposType, MovingType, PathRename, At, MoveInv, LockOK
<1>2. p \in Move
  BY <1>1
<1>3. p.dst \in Name
  BY <1>2 DEF Move
<1>4. SetHub(new, 0)
  BY DEF PathRename
<1>5. new \in [Name -> CommitOrNone]
  BY <1>1, <1>2, AppliedType
<1>6. new[p.dst] = p.new /\ \A n \in Name \ {p.dst} : new[n] = refs[Hub][n]
  BY <1>3 DEF Applied
<1> HIDE DEF p, new
<1>7. \A n \in Name : refs'[Hub][n] = new[n] /\ ghost'.held[n] = ghost.held[n] \cup {new[n]}
  BY <1>1, <1>4, <1>5, SetHubHolds
<1> QED
  BY <1>1, <1>2, <1>3, <1>6, <1>7 DEF p

LEMMA ServeMoves ==
  ASSUME TypeOK, MoveInv, NEW c \in Client, NEW done \in SUBSET Moves(plan[c]), ServeEffect(c, done)
  PROVE  /\ \A n \in Name : \/ refs'[Hub][n] = refs[Hub][n] /\ \A p \in done : p.dst # n
                            \/ \E p \in done : /\ p.dst = n /\ refs'[Hub][n] = p.new
                                               /\ refs[Hub][n] = p.old
         /\ \A n \in Name : ghost'.held[n] = ghost.held[n] \cup {refs'[Hub][n]}
<1> DEFINE new == Applied(refs[Hub], done)
<1>1. /\ ReposType /\ GhostType /\ refs[Hub] \in [Name -> CommitOrNone] /\ plan[c] \in Seq(Move)
  BY RepoFacts DEF TypeOK, CoreType, ReposType, MovingType
<1>2. done \in SUBSET Move
  BY <1>1, MovesType
<1>3. PICK k \in {0, 1} : SetHub(new, k)
  BY DEF ServeEffect
<1>4. new \in [Name -> CommitOrNone]
  BY <1>1, <1>2, AppliedType
<1>5. \A n \in Name : \/ new[n] = refs[Hub][n] /\ \A p \in done : p.dst # n
                      \/ \E p \in done : p.dst = n /\ new[n] = p.new
  BY <1>1, <1>2, AppliedType
<1> HIDE DEF new
<1>6. \A n \in Name : refs'[Hub][n] = new[n] /\ ghost'.held[n] = ghost.held[n] \cup {new[n]}
  BY <1>1, <1>3, <1>4, SetHubHolds
<1>7. \A p \in done : refs[Hub][p.dst] = p.old
  BY DEF ServeEffect
<1> QED
  BY <1>5, <1>6, <1>7

\* What a ref has held is never forgotten, and it has held what it is.
LEMMA HeldGrows ==
  ASSUME TypeOK, MoveInv, HeldOK, [Next]_vars, NEW n \in Name
  PROVE  ghost.held[n] \subseteq ghost'.held[n] /\ refs'[Hub][n] \in ghost'.held[n]
<1>1. CASE refs'[Hub] = refs[Hub] /\ ghost'.held = ghost.held
  BY <1>1 DEF HeldOK
<1>2. ASSUME NEW c \in Client, PathRename(c)
      PROVE  ghost.held[n] \subseteq ghost'.held[n] /\ refs'[Hub][n] \in ghost'.held[n]
  BY <1>2, RenameMoves
<1>3. ASSUME NEW c \in Client, Serve(c)
      PROVE  ghost.held[n] \subseteq ghost'.held[n] /\ refs'[Hub][n] \in ghost'.held[n]
  BY <1>3, ServeDoes, ServeMoves
<1> QED
  BY <1>1, <1>2, <1>3, HubMoves

\* What a command reads of the hub's refs is what they are, whatever it is.
LEMMA SeenStep ==
  ASSUME TypeOK, NEW c \in Client, ClientStep(c), NEW n \in Name
  PROVE  seen'[c][n] \in {seen[c][n], None, refs[Hub][n]}
<1>0. CoreType /\ MovingType /\ NoRefs[n] = None /\ Main \in Name
  BY RepoFacts DEF TypeOK, CoreType, NoRefs
<1>a. ASSUME NEW how, End(c, how) PROVE seen'[c][n] = None
  BY <1>0, <1>a, EndForgets DEF Forgotten
<1>b. ASSUME seen' = Set(seen, c, refs[Hub]) PROVE seen'[c][n] = refs[Hub][n]
  BY <1>0, <1>b DEF Set, MovingType
<1>1. CASE PathPlan(c)
  BY <1>1, <1>a DEF PathPlan
<1>2. CASE PathLock(c) \/ PathRename(c) \/ PathDone(c) \/ Serve(c) \/ Report(c)
  BY <1>2, <1>a DEF PathLock, PathRename, PathDone, Serve, Report
<1>8. CASE Building(c)
  BY <1>0, <1>8, <1>a, BuildDoes
<1>3. CASE Discover(c) \/ LsRefs(c) \/ CloneList(c)
  BY <1>3, <1>a, <1>b DEF Discover, LsRefs, CloneList, Advertised
<1>4. CASE NetPlan(c)
  BY <1>4, <1>a DEF NetPlan
<1>5. CASE FetchPack(c) \/ FetchRefs(c) \/ ClonePack(c) \/ CloneRefs(c) \/ CopyStart(c)
           \/ CopyFiles(c) \/ CopyFails(c) \/ CopyRefs(c) \/ CloneCheckout(c)
  BY <1>5, <1>a DEF FetchPack, FetchRefs, ClonePack, CloneRefs, CopyStart, CopyFiles, CopyFails,
                   CopyRefs, CloneCheckout, CleanUp, moving
<1>6. CASE CopyHead(c)
  <2>1. seen'[c] = [NoRefs EXCEPT ![Main] = refs[Hub][Main]]
    BY <1>0, <1>6 DEF CopyHead, Set, MovingType
  <2> QED
    BY <1>0, <2>1, RepoFacts
<1>7. CASE MakeCommit(c) \/ MoveRef(c) \/ ConnectionLost(c) \/ Crash(c)
  BY <1>7, <1>a DEF MakeCommit, MoveRef, ConnectionLost, Crash, moving
<1> QED
  BY <1>1, <1>2, <1>3, <1>4, <1>5, <1>6, <1>7, <1>8
     DEF ClientStep, Push, Building, Fetch, Clone

\* A report's news of a branch is what was pushed to it.
LEMMA ReportTracking ==
  ASSUME TypeOK, NEW c \in Client, Report(c), NEW b \in Branch
  PROVE  \/ tracking'[c][b] = tracking[c][b]
         \/ /\ pc[c] = "sent" /\ reply[c] # None /\ Accepted(c)
            /\ \E i \in DOMAIN plan[c] : plan[c][i].dst = b /\ tracking'[c][b] = plan[c][i].new
<1>0. /\ ReposType /\ MovingType /\ b \in Name /\ plan[c] \in Seq(Move)
      /\ tracking[c] \in [Branch -> CommitOrNone]
  BY RepoFacts DEF TypeOK, CoreType, ReposType, MovingType
<1>1. CASE ~Accepted(c)
  BY <1>1 DEF Report
<1>2. CASE Accepted(c)
  <2> DEFINE mine == [n \in Name |-> IF n \in Branch THEN tracking[c][n] ELSE None]
             all == Moves(plan[c])
  <2>1. mine \in [Name -> CommitOrNone] /\ all \in SUBSET Move /\ mine[b] = tracking[c][b]
    BY <1>0, MovesType DEF CommitOrNone
  <2>2. tracking' = Set(tracking, c, [a \in Branch |-> Applied(mine, all)[a]])
    BY <1>2 DEF Report
  <2>3. \A p \in all : \E i \in DOMAIN plan[c] : p = plan[c][i]
    BY <1>0, MovesType
  <2> HIDE DEF mine, all
  <2>4. tracking'[c][b] = Applied(mine, all)[b]
    BY <1>0, <2>2 DEF Set, ReposType
  <2>5. Applied(mine, all)[b] = mine[b] \/ \E p \in all : p.dst = b /\ Applied(mine, all)[b] = p.new
    BY <1>0, <2>1, AppliedType
  <2> QED
    BY <1>2, <2>1, <2>3, <2>4, <2>5 DEF Report, At
<1> QED
  BY <1>1, <1>2

\* What its remote-tracking refs become, it has read, or a server has accepted.
LEMMA TrackingStep ==
  ASSUME TypeOK, NEW c \in Client, ClientStep(c), NEW b \in Branch
  PROVE  \/ tracking'[c][b] \in {tracking[c][b], None, seen[c][b], refs[Hub][b]}
         \/ /\ pc[c] = "sent" /\ reply[c] # None /\ Accepted(c)
            /\ \E i \in DOMAIN plan[c] : plan[c][i].dst = b /\ tracking'[c][b] = plan[c][i].new
<1>0. /\ CoreType /\ ReposType /\ MovingType /\ NoHeads[b] = None /\ Main \in Branch /\ b \in Name
      /\ plan[c] \in Seq(Move) /\ tracking[c] \in [Branch -> CommitOrNone]
  BY RepoFacts DEF TypeOK, CoreType, NoHeads, ReposType, MovingType
<1>a. ASSUME CleanUp(c) PROVE tracking'[c][b] = None
  BY <1>0, <1>a DEF CleanUp, Set, ReposType
<1>b. ASSUME tracking' = Set(tracking, c, Follow(c)) PROVE tracking'[c][b] \in {tracking[c][b], seen[c][b]}
  BY <1>0, <1>b DEF Follow, Set, ReposType
<1>1. CASE PathPlan(c) \/ PathLock(c) \/ PathRename(c) \/ PathDone(c) \/ Discover(c)
           \/ NetPlan(c) \/ Serve(c) \/ LsRefs(c) \/ FetchPack(c) \/ CloneList(c) \/ CopyStart(c)
           \/ CopyFiles(c) \/ CopyHead(c)
  BY <1>1 DEF PathPlan, PathLock, PathRename, PathDone, Discover, NetPlan, Serve, LsRefs,
              FetchPack, CloneList, CopyStart, CopyFiles, CopyHead, repos
<1>7. CASE Building(c)
  BY <1>0, <1>7, BuildDoes
<1>2. CASE FetchRefs(c) \/ CloneRefs(c)
  BY <1>2, <1>b DEF FetchRefs, CloneRefs
<1>3. CASE ClonePack(c) \/ CopyFails(c) \/ CloneCheckout(c)
  BY <1>3, <1>a DEF ClonePack, CopyFails, CloneCheckout
<1>4. CASE CopyRefs(c)
  BY <1>0, <1>4 DEF CopyRefs, Set, ReposType
<1>5. CASE MakeCommit(c) \/ MoveRef(c) \/ ConnectionLost(c) \/ Crash(c)
  BY <1>5 DEF MakeCommit, MoveRef, ConnectionLost, Crash, repos
<1>6. CASE Report(c)
  BY <1>6, ReportTracking
<1> QED
  BY <1>1, <1>2, <1>3, <1>4, <1>5, <1>6, <1>7
     DEF ClientStep, Push, Building, Fetch, Clone

\* The updates of a push that the server has answered, or that change nothing.
SentOK(c) ==
  pc[c] = "sent" =>
    \A i \in DOMAIN plan[c] :
      plan[c][i].action = "up to date" \/ (reply[c] # None /\ Accepted(c))
        => plan[c][i].new \in ghost.held[plan[c][i].dst]


LEMMA SentSteps ==
  ASSUME TypeOK, NEW c \in Client, ClientStep(c), pc'[c] = "sent"
  PROVE  NetPlan(c) \/ Serve(c)
<1>0. CoreType /\ MovingType
  BY DEF TypeOK, CoreType
<1> USE DEF GoTo, At, MayPush, MayClone, MayWork
<1>a. ASSUME NEW how, End(c, how) PROVE pc'[c] # "sent"
  BY <1>0, <1>a, EndForgets DEF Forgotten
<1>b. ASSUME NEW step, step # "sent", pc' = [pc EXCEPT ![c] = step] PROVE pc'[c] # "sent"
  BY <1>0, <1>b DEF MovingType
<1>1. CASE PathPlan(c) \/ PathLock(c) \/ PathRename(c) \/ PathDone(c)
  BY <1>1, <1>a, <1>b DEF PathPlan, PathLock, PathRename, PathDone
<1>6. CASE Building(c)
  BY <1>0, <1>6, <1>a, <1>b, BuildDoes
<1>2. CASE Discover(c) \/ Report(c) \/ LsRefs(c) \/ FetchPack(c) \/ FetchRefs(c)
  BY <1>2, <1>a, <1>b DEF Discover, Report, LsRefs, FetchPack, FetchRefs
<1>3. CASE CloneList(c) \/ ClonePack(c) \/ CloneRefs(c) \/ CopyStart(c) \/ CopyFails(c)
           \/ CopyHead(c) \/ CopyRefs(c) \/ CloneCheckout(c)
  BY <1>3, <1>a, <1>b DEF CloneList, ClonePack, CloneRefs, CopyStart, CopyFails, CopyHead, CopyRefs,
                          CloneCheckout, CleanUp
<1>4. CASE MakeCommit(c) \/ MoveRef(c) \/ CopyFiles(c)
  BY <1>4 DEF MakeCommit, MoveRef, CopyFiles, moving
<1>5. CASE ConnectionLost(c) \/ Crash(c)
  BY <1>5, <1>a DEF ConnectionLost, Crash
<1> QED
  BY <1>1, <1>2, <1>3, <1>4, <1>5, <1>6
     DEF ClientStep, Push, Building, Fetch, Clone

LEMMA SentStep ==
  ASSUME TypeOK, MoveInv, HeldOK, [Next]_vars, NEW c \in Client, ClientStep(c)
  PROVE  SentOK(c)'
<1> SUFFICES ASSUME pc'[c] = "sent", NEW i \in DOMAIN plan'[c],
                    plan'[c][i].action = "up to date" \/ (reply'[c] # None /\ Accepted(c)')
             PROVE  plan'[c][i].new \in ghost'.held[plan'[c][i].dst]
  BY DEF SentOK
<1>0. /\ ReposType /\ MovingType /\ PlanOK(c) /\ PlanOK(c)' /\ plan[c] \in Seq(Move)
      /\ refs[c] \in [Name -> CommitOrNone] /\ seen[c] \in [Name -> CommitOrNone]
      /\ Obj(c) \in SUBSET Commit
  BY MoveStep, RepoFacts, ObjType DEF TypeOK, CoreType, MoveInv, ReposType, MovingType
<1>1. CASE NetPlan(c)
  <2> DEFINE specs == cmd[c].specs
             all == Planned(c, specs, seen[c])
  <2>1. /\ pc[c] = "discovered" /\ plan' = Set(plan, c, all) /\ UNCHANGED <<cmd, reply, ghost>>
        /\ ~Fails(c, specs, seen[c])
    <3>1. ASSUME NEW how PROVE ~End(c, how)
      BY <1>0, <3>1, EndForgets DEF Forgotten
    <3> QED
      BY <1>1, <3>1 DEF NetPlan, At
  <2>2. plan'[c] = all /\ reply'[c] = None
    BY <1>0, <2>1 DEF Set, MovingType, PlanOK
  <2>3. /\ specs \in Seq(Refspec)
        /\ \A k, j \in DOMAIN specs : specs[k].dst = specs[j].dst => k = j
    BY <1>0 DEF MovingType, PlanOK
  <2>4. all \in Seq(Move) /\ all[i].old = seen[c][all[i].dst] /\ Decided(all[i], specs[i])
    <3>1. i \in DOMAIN all
      BY <2>2
    <3>2. /\ all \in Seq(Move)
          /\ \A k \in DOMAIN all : all[k].old = seen[c][all[k].dst]
          /\ \A k \in DOMAIN all : Decided(all[k], specs[k])
      <4>1. /\ specs \in Seq(Refspec) /\ seen[c] \in [Name -> CommitOrNone]
            /\ refs[c] \in [Name -> CommitOrNone] /\ Obj(c) \subseteq Commit
            /\ ~Fails(c, specs, seen[c])
            /\ \A k, j \in DOMAIN specs : specs[k].dst = specs[j].dst => k = j
        BY <1>0, <2>1, <2>3
      <4>2. all \in Seq(Move)
        BY <4>1, PlannedDecided
      <4>3. \A k \in DOMAIN all : all[k].old = seen[c][all[k].dst]
        BY <4>1, PlannedDecided
      <4>4. \A k \in DOMAIN all : Decided(all[k], specs[k])
        BY <4>1, PlannedDecided
      <4> QED
        BY <4>2, <4>3, <4>4
    <3> QED
      BY <3>1, <3>2
  <2> HIDE DEF all
  <2>5. all[i].action = "up to date"
    BY <2>2
  <2>6. all[i].new = seen[c][all[i].dst] /\ all[i].new # None
    BY <2>4, <2>5 DEF Decided
  <2>7. all[i].dst \in Name
    <3>1. i \in DOMAIN all
      BY <2>2
    <3> QED
      BY <2>4, <3>1, MoveType
  <2> QED
    BY <2>1, <2>2, <2>6, <2>7 DEF HeldOK
<1>2. CASE Serve(c)
  <2>1. PICK done \in SUBSET Moves(plan[c]) : ServeEffect(c, done)
    BY <1>2, ServeDoes
  <2>2. pc[c] = "sent" /\ reply[c] = None /\ UNCHANGED <<pc, plan>>
    BY <1>2 DEF Serve, At
  <2> DEFINE p == plan[c][i]
  <2>3. i \in DOMAIN plan[c] /\ plan[c][i] \in Move /\ plan[c][i].dst \in Name
    BY <1>0, <2>2, MoveType
  <2>4. CASE p.action = "up to date"
    <3>1. p.new \in ghost.held[p.dst]
      BY <2>2, <2>4 DEF HeldOK
    <3> QED
      BY <2>2, <2>3, <3>1, HeldGrows
  <2>5. CASE p.action # "up to date" /\ reply'[c] = {}
    <3>1. p \in Moves(plan[c])
      BY <1>0, <2>2, <2>5 DEF Moves, ToSet
    <3>2. reply'[c] = {q.dst : q \in Moves(plan[c]) \ done} \/ reply'[c] = Name
      BY <1>0, <2>1 DEF ServeEffect, Set, MovingType
    <3>6. reply'[c] # Name
      BY <2>5, RepoFacts
    <3>7. {q.dst : q \in Moves(plan[c]) \ done} = {}
      BY <2>5, <3>2, <3>6
    <3>3. p \in done
      <4>1. ASSUME p \in Moves(plan[c]) \ done PROVE FALSE
        <5>1. p.dst \in {q.dst : q \in Moves(plan[c]) \ done}
          BY <4>1
        <5> QED
          BY <3>7, <5>1
      <4> QED
        BY <3>1, <4>1
    <3>8. \A n \in Name : \/ refs'[Hub][n] = refs[Hub][n] /\ \A q \in done : q.dst # n
                          \/ \E q \in done : /\ q.dst = n /\ refs'[Hub][n] = q.new
                                             /\ refs[Hub][n] = q.old
      BY <2>1, ServeMoves
    <3>4. PICK q \in done : q.dst = p.dst /\ refs'[Hub][p.dst] = q.new
      <4> HIDE DEF p
      <4>1. p.dst \in Name
        BY <2>3 DEF p
      <4> QED
        BY <3>3, <3>8, <4>1
    <3>5. q = p
      <4>1. PICK j \in DOMAIN plan[c] : q = plan[c][j]
        BY <1>0, <2>1, <3>4, MovesType
      <4> QED
        BY <1>0, <2>2, <3>4, <4>1 DEF PlanOK
    <3> QED
      BY <2>1, <2>2, <2>3, <3>4, <3>5, ServeMoves
  <2> QED
    BY <2>2, <2>4, <2>5 DEF Accepted
<1> QED
  BY <1>1, <1>2, SentSteps DEF TypeOK, CoreType

LEMMA HeldParts ==
  HeldOK <=> /\ \A n \in Name : refs[Hub][n] \in ghost.held[n]
             /\ \A c \in Client, n \in Name : HeldIn(n, seen[c][n])
             /\ \A c \in Client, b \in Branch : HeldIn(b, tracking[c][b])
             /\ \A c \in Client : SentOK(c)
  BY DEF HeldOK, HeldIn, SentOK

LEMMA HeldStep ==
  ASSUME TypeOK, MoveInv, HeldOK, [Next]_vars
  PROVE  HeldOK'
<1>1. \A n \in Name : ghost.held[n] \subseteq ghost'.held[n] /\ refs'[Hub][n] \in ghost'.held[n]
      /\ refs[Hub][n] \in ghost'.held[n]
  BY HeldGrows DEF HeldOK
<1>2. TypeOK' /\ MoveInv' /\ MovingType /\ Branch \subseteq Name
  BY TypeStep, MoveStep, RepoFacts DEF TypeOK, CoreType
<1>3. ASSUME NEW c \in Client, ClientStep(c), NEW d \in Client
      PROVE  /\ \A n \in Name : HeldIn(n, seen[d][n])'
             /\ \A b \in Branch : HeldIn(b, tracking[d][b])'
             /\ SentOK(d)'
  <2>1. CASE d = c
    <3>1. \A n \in Name : HeldIn(n, seen[d][n])'
      BY <1>1, <1>3, <2>1, SeenStep DEF HeldIn, HeldOK
    <3>2. \A b \in Branch : HeldIn(b, tracking[d][b])'
      <4> SUFFICES ASSUME NEW b \in Branch PROVE HeldIn(b, tracking[d][b])'
        OBVIOUS
      <4>1. b \in Name
        BY <1>2
      <4>2. CASE tracking'[c][b] \in {tracking[c][b], None, seen[c][b], refs[Hub][b]}
        BY <1>1, <4>1, <4>2, <2>1 DEF HeldIn, HeldOK
      <4>3. CASE /\ pc[c] = "sent" /\ reply[c] # None /\ Accepted(c)
                 /\ \E i \in DOMAIN plan[c] : plan[c][i].dst = b /\ tracking'[c][b] = plan[c][i].new
        BY <1>1, <4>1, <4>3, <2>1 DEF HeldIn, HeldOK
      <4> QED
        BY <1>3, <4>2, <4>3, TrackingStep
    <3>3. SentOK(d)'
      BY <1>3, <2>1, SentStep
    <3> QED
      BY <3>1, <3>2, <3>3
  <2>2. CASE d # c
    <3>1. SameCommand(d) /\ SameRepo(d)
      BY <1>3, <2>2, OthersKept
    <3>2. /\ \A n \in Name : HeldIn(n, seen[d][n])'
          /\ \A b \in Branch : HeldIn(b, tracking[d][b])'
      BY <1>1, <1>2, <3>1 DEF SameCommand, SameRepo, HeldIn, HeldOK
    <3>3. SentOK(d)'
      <4>1. SentOK(d)
        BY HeldParts
      <4>2. \A i \in DOMAIN plan[d] : plan[d][i].dst \in Name
        BY <1>2, MoveType DEF MovingType
      <4> QED
        BY <1>1, <3>1, <4>1, <4>2 DEF SameCommand, SentOK, Accepted
    <3> QED
      BY <3>2, <3>3
  <2> QED
    BY <2>1, <2>2
<1>4. ASSUME UNCHANGED <<tracking, seen, pc, plan, reply>>, NEW d \in Client
      PROVE  /\ \A n \in Name : HeldIn(n, seen[d][n])'
             /\ \A b \in Branch : HeldIn(b, tracking[d][b])'
             /\ SentOK(d)'
  <2>1. SentOK(d)
    BY HeldParts
  <2>2. \A i \in DOMAIN plan[d] : plan[d][i].dst \in Name
    BY <1>2, MoveType DEF MovingType
  <2> QED
    BY <1>1, <1>2, <1>4, <2>1, <2>2 DEF HeldIn, HeldOK, SentOK, Accepted
<1>5. \/ \E c \in Client : ClientStep(c)
      \/ UNCHANGED <<tracking, seen, pc, plan, reply>>
  BY SweepDoes DEF Next, ClientStep, Gc, Sweeping, PruneLocks, vars, repos, moving
<1>6. \A d \in Client : /\ \A n \in Name : HeldIn(n, seen[d][n])'
                        /\ \A b \in Branch : HeldIn(b, tracking[d][b])'
                        /\ SentOK(d)'
  BY <1>3, <1>4, <1>5
<1> QED
  BY <1>1, <1>6 DEF HeldOK, HeldIn, SentOK

-----------------------------------------------------------------------------
(* Nothing is made up, and nothing is dropped unasked. *)

LEMMA InitMove == Init => MoveInv /\ HeldOK
<1> SUFFICES ASSUME Init PROVE MoveInv /\ HeldOK
  OBVIOUS
<1>1. DOMAIN (<<>>) = {} /\ NoCmd.specs = <<>>
  BY DEF NoCmd
<1>2. /\ pc = [c \in Client |-> "idle"] /\ cmd = [c \in Client |-> NoCmd]
      /\ seen = [c \in Client |-> NoRefs] /\ plan = [c \in Client |-> <<>>]
      /\ reply = [c \in Client |-> None]
  BY DEF Init
<1>3. MoveInv
  BY <1>1, <1>2 DEF MoveInv, PlanOK, LockOK, Path, Carrying
<1> DEFINE start == [NoRefs EXCEPT ![Main] = First]
<1>4. \A n \in Name : refs[Hub][n] = start[n] /\ ghost.held[n] = {start[n]}
  BY RepoFacts DEF Init
<1>5. \A c \in Client, b \in Branch :
        tracking[c][b] \in {[NoHeads EXCEPT ![Main] = First][b], NoHeads[b]}
  BY DEF Init
<1>6. \A b \in Branch : /\ NoHeads[b] = None
                        /\ [NoHeads EXCEPT ![Main] = First][b] = start[b]
  BY RepoFacts DEF NoHeads, NoRefs
<1>7. \A n \in Name : NoRefs[n] = None
  BY DEF NoRefs
<1> HIDE DEF start
<1>8. HeldOK
  BY <1>1, <1>2, <1>4, <1>5, <1>6, <1>7, RepoFacts DEF HeldOK
<1> QED
  BY <1>3, <1>8

\* The invariant of what was told, for any clients, names and histories.
THEOREM ToldInvariant == Spec => []ToldInv
<1>1. Init => ToldInv
  BY InitType, InitMove DEF ToldInv
<1>2. ToldInv /\ [Next]_vars => ToldInv'
  BY TypeStep, MoveStep, HeldStep DEF ToldInv
<1> QED
  BY <1>1, <1>2, PTL DEF Spec

\* A remote-tracking ref shows only what the hub's branch has been, and a push that
\* ends well has had every ref where it was told to put it, whatever is lost,
\* refused or killed (update_remote_tracking, push_network).
THEOREM NothingMadeUp == Spec => []ToldTheTruth
<1>1. ToldInv => ToldTheTruth
  <2> SUFFICES ASSUME ToldInv PROVE ToldTheTruth
    OBVIOUS
  <2>1. ASSUME NEW c \in Client, At(c, "sent"), reply[c] # None, Accepted(c),
               NEW p \in ToSet(plan[c])
        PROVE  p.new \in ghost.held[p.dst]
    BY <2>1 DEF ToldInv, HeldOK, At, ToSet
  <2> QED
    BY <2>1 DEF ToldInv, HeldOK, ToldTheTruth
<1> QED
  BY <1>1, ToldInvariant, PTL

\* What a decided update does to the old value of its ref.
LEMMA DecidedKeeps ==
  ASSUME NEW c \in Client, PlanOK(c), NEW i \in DOMAIN plan[c], pc[c] \in {"locked", "sent"},
         plan[c][i].action # "up to date", plan[c][i] \in Move, plan[c][i].old # None
  PROVE  \/ plan[c][i].new # None /\ plan[c][i].old \in Reach({plan[c][i].new}, Commit)
         \/ \E j \in DOMAIN cmd[c].specs :
              /\ cmd[c].specs[j].dst = plan[c][i].dst
              /\ cmd[c].specs[j].force \/ cmd[c].specs[j].src = None
<1>1. PICK j \in DOMAIN cmd[c].specs : Decided(plan[c][i], cmd[c].specs[j])
  BY DEF PlanOK
<1>2. plan[c][i].action \in {"delete", "update", "force"}
  BY <1>1 DEF Decided, Move, Actions
<1> QED
  BY <1>1, <1>2 DEF Decided

\* Work others have pushed is dropped from a hub ref only by a push that was told to
\* force or delete, however many push at once (plan_refspec, apply_ref_updates).
THEOREM NothingDroppedUnasked == Spec => NothingDropped
<1> DEFINE Kept(n) ==
       refs'[Hub][n] # refs[Hub][n] /\ refs[Hub][n] # None =>
         \/ refs'[Hub][n] # None /\ refs[Hub][n] \in Reach({refs'[Hub][n]}, Commit)
         \/ \E c \in Client : pc[c] \in {"locked", "sent"} /\
              \E i \in DOMAIN cmd[c].specs :
                /\ cmd[c].specs[i].dst = n
                /\ cmd[c].specs[i].force \/ cmd[c].specs[i].src = None
<1>1. ToldInv /\ [Next]_vars => \A n \in Name : Kept(n)
  <2> SUFFICES ASSUME ToldInv, [Next]_vars, NEW n \in Name PROVE Kept(n)
    OBVIOUS
  <2>0. TypeOK /\ MoveInv /\ MovingType
    BY DEF ToldInv, TypeOK, CoreType
  <2>1. CASE refs'[Hub] = refs[Hub]
    BY <2>1
  <2>2. ASSUME NEW c \in Client, PathRename(c) PROVE Kept(n)
    <3> DEFINE p == Head(plan[c])
    <3>1. /\ plan[c] # <<>> /\ p \in Move /\ pc[c] = "locked" /\ plan[c] \in Seq(Move)
          /\ refs[Hub][p.dst] = p.old /\ refs'[Hub][p.dst] = p.new
          /\ \A m \in Name \ {p.dst} : refs'[Hub][m] = refs[Hub][m]
      BY <2>0, <2>2, RenameMoves DEF MovingType
    <3>2. 1 \in DOMAIN plan[c] /\ p = plan[c][1]
      BY <3>1
    <3>3. p.action # "up to date" /\ PlanOK(c)
      BY <2>0, <3>1 DEF MoveInv, PlanOK, Path
    <3> HIDE DEF p
    <3>4. CASE p.dst # n \/ p.old = None
      BY <3>1, <3>4
    <3>5. CASE p.dst = n /\ p.old # None
      <4>1. \/ p.new # None /\ p.old \in Reach({p.new}, Commit)
            \/ \E j \in DOMAIN cmd[c].specs :
                 /\ cmd[c].specs[j].dst = p.dst
                 /\ cmd[c].specs[j].force \/ cmd[c].specs[j].src = None
        BY <3>1, <3>2, <3>3, <3>5, DecidedKeeps
      <4> QED
        BY <3>1, <3>5, <4>1
    <3> QED
      BY <3>4, <3>5
  <2>3. ASSUME NEW c \in Client, Serve(c) PROVE Kept(n)
    <3>1. PICK done \in SUBSET Moves(plan[c]) : ServeEffect(c, done)
      BY <2>3, ServeDoes
    <3>2. CASE refs'[Hub][n] = refs[Hub][n]
      BY <3>2
    <3>3. ASSUME NEW p \in done, p.dst = n, refs'[Hub][n] = p.new, refs[Hub][n] = p.old, p.old # None
          PROVE  Kept(n)
      <4>1. plan[c] \in Seq(Move) /\ PlanOK(c) /\ pc[c] = "sent"
        BY <2>0, <2>3 DEF MovingType, MoveInv, Serve, At
      <4>2. p \in Move /\ p.action # "up to date" /\ \E i \in DOMAIN plan[c] : p = plan[c][i]
        BY <4>1, MovesType
      <4>3. \/ p.new # None /\ p.old \in Reach({p.new}, Commit)
            \/ \E j \in DOMAIN cmd[c].specs :
                 /\ cmd[c].specs[j].dst = p.dst
                 /\ cmd[c].specs[j].force \/ cmd[c].specs[j].src = None
        BY <3>3, <4>1, <4>2, DecidedKeeps
      <4> QED
        BY <3>3, <4>1, <4>3
    <3>4. \/ refs'[Hub][n] = refs[Hub][n]
          \/ \E p \in done : p.dst = n /\ refs'[Hub][n] = p.new /\ refs[Hub][n] = p.old
      BY <2>0, <3>1, ServeMoves
    <3> HIDE DEF Kept
    <3>5. CASE refs[Hub][n] = None
      BY <3>5 DEF Kept
    <3> QED
      BY <3>2, <3>3, <3>4, <3>5
  <2> HIDE DEF Kept
  <2> QED
    BY <2>0, <2>1, <2>2, <2>3, HubMoves
<1>2. ToldInv /\ [Next]_vars => [\A n \in Name : Kept(n)]_vars
  BY <1>1
<1> QED
  BY <1>2, ToldInvariant, PTL DEF Spec, NothingDropped

-----------------------------------------------------------------------------
(***************************************************************************)
(* What push, fetch and clone keep, for any clients, branches, tags and    *)
(* histories: no ref of a repository leads to a commit that is not there.  *)
(*                                                                         *)
(* A store may keep what nothing in it keeps (a server takes a pack whose  *)
(* commits' parents are gone), so the invariant speaks of what is Complete:*)
(* the commits of a store whose whole history is there too.  Only gc and a *)
(* torn file make less complete, and whom they may hurt is excused.        *)
(***************************************************************************)

\* The commits of a store that have their whole history in it.
Complete(objs) ==
  {x \in Commit : \E some \in SUBSET Commit :
                    x \in some /\ some \subseteq objs /\ WholeHistory(some)}

\* The hub has what its refs need, and what the refs will need that a push by path
\* is about to write, once the pack it builds is in place; its gc goes on with all
\* that the refs point at.
HubOK ==
  Hub \notin ghost.excused =>
    /\ \A n \in Name : refs[Hub][n] \in Complete(Obj(Hub)) \cup {None}
    /\ sweep.at # "idle" => \A n \in Name : refs[Hub][n] \in sweep.marked \cup {None}
    /\ \A c \in Client : \A i \in DOMAIN plan[c] :
         /\ pc[c] = "planned" => plan[c][i].old \in Complete(Obj(Hub)) \cup {None}
         /\ pc[c] \in {"packing", "indexing"} =>
              plan[c][i].new \in Complete(Obj(Hub) \cup pack[c]) \cup {None}
         /\ pc[c] \in {"written", "locked"} => plan[c][i].new \in Complete(Obj(Hub)) \cup {None}

\* A clone by path that is not done copying, or was killed at it, has no refs.
Unmade(c) ==
  /\ state[c] = "partial" /\ pc[c] \in {"idle", "copying"}
  /\ refs[c] = NoRefs /\ tracking[c] = NoHeads

\* Any other client has no commit without its history, and what its refs need or will.
ClientOK(c) ==
  /\ WholeHistory(Obj(c)) \/ Unmade(c)
  /\ \A n \in Name : refs[c][n] \in Obj(c) \cup {None}
  /\ \A b \in Branch : tracking[c][b] \in Obj(c) \cup {None}
  /\ pc[c] \in {"fetched", "clone fetched"} =>
       \A n \in Name : seen[c][n] \in Obj(c) \cup {None}
  /\ pc[c] = "copying" => \A n \in Name : refs[Hub][n] \in pack[c] \cup {None}
  /\ pc[c] = "headed" => /\ \A n \in Name : refs[Hub][n] \in Obj(c) \cup {None}
                         /\ seen[c][Main] \in Obj(c) \cup {None}
  /\ pc[c] = "sent" => \A i \in DOMAIN plan[c] : plan[c][i].new \in Obj(c) \cup {None}

\* Nothing is in a repository that is not there, and no refs before the objects.
EmptyOK(c) ==
  /\ state[c] = "none" => pc[c] = "idle"
  /\ state[c] = "none" \/ pc[c] = "clone listed" => Obj(c) = {}
  /\ state[c] = "none" \/ pc[c] \in {"clone listed", "copying"} =>
       refs[c] = NoRefs /\ tracking[c] = NoHeads
  /\ pc[c] = "copying" => state[c] = "partial"

WholeInv ==
  /\ TypeOK /\ MoveInv /\ HubOK
  /\ \A c \in Client : EmptyOK(c) /\ (c \notin ghost.excused => ClientOK(c))

-----------------------------------------------------------------------------
(* Walks and the commits a store has whole. *)

\* A whole set that has the starts has the walk.
LEMMA ReachInWhole ==
  ASSUME NEW A \in SUBSET CommitOrNone, NEW R \in SUBSET Commit,
         NEW S \in SUBSET Commit, WholeHistory(S), A \ {None} \subseteq S
  PROVE  Reach(A, R) \subseteq S
  BY ReachIsLeast DEF Closed, WholeHistory

\* A walk that reads all it meets is whole.
LEMMA WalkIsWhole ==
  ASSUME NEW A \in SUBSET CommitOrNone, NEW R \in SUBSET Commit, Reach(A, R) \subseteq R
  PROVE  WholeHistory(Reach(A, R))
  BY ReachIsLeast DEF Closed, WholeHistory

LEMMA CompleteIsWhole ==
  ASSUME NEW R \in SUBSET Commit
  PROVE  /\ Complete(R) \subseteq R /\ WholeHistory(Complete(R))
         /\ \A S \in SUBSET R : WholeHistory(S) => S \subseteq Complete(R)
<1>1. Complete(R) \subseteq R
  BY DEF Complete
<1>2. \A S \in SUBSET R : WholeHistory(S) => S \subseteq Complete(R)
  BY DEF Complete
<1>3. WholeHistory(Complete(R))
  <2> SUFFICES ASSUME NEW x \in Complete(R) PROVE Parents[x] \subseteq Complete(R)
    BY DEF WholeHistory
  <2>1. PICK S \in SUBSET Commit : x \in S /\ S \subseteq R /\ WholeHistory(S)
    BY DEF Complete
  <2> QED
    BY <2>1, <1>2 DEF WholeHistory
<1> QED
  BY <1>1, <1>2, <1>3

\* What is complete stays so when commits are added.
LEMMA CompleteGrows ==
  ASSUME NEW R \in SUBSET Commit, NEW S \in SUBSET Commit, R \subseteq S
  PROVE  Complete(R) \subseteq Complete(S)
  BY DEF Complete

\* A walk stays in a store exactly if the store has its starts whole.
LEMMA WalkStays ==
  ASSUME NEW A \in SUBSET CommitOrNone, NEW R \in SUBSET Commit
  PROVE  Reach(A, R) \subseteq R <=> A \ {None} \subseteq Complete(R)
<1>1. ASSUME Reach(A, R) \subseteq R PROVE A \ {None} \subseteq Complete(R)
  BY <1>1, WalkIsWhole, CompleteIsWhole, ReachIsLeast
<1>2. ASSUME A \ {None} \subseteq Complete(R) PROVE Reach(A, R) \subseteq R
  <2>1. WholeHistory(Complete(R)) /\ Complete(R) \in SUBSET Commit /\ Complete(R) \subseteq R
    BY CompleteIsWhole
  <2> QED
    BY <2>1, <1>2, ReachInWhole
<1> QED
  BY <1>1, <1>2

LEMMA WholeIsComplete ==
  ASSUME NEW R \in SUBSET Commit, WholeHistory(R)
  PROVE  Complete(R) = R
  BY CompleteIsWhole

-----------------------------------------------------------------------------
(* Which stores change. *)

LEMMA ExcusedGrows ==
  ASSUME TypeOK, [Next]_vars
  PROVE  ghost.excused \subseteq ghost'.excused
<1>0. CoreType /\ ReposType /\ GhostType
  BY DEF TypeOK, CoreType
<1>a. ASSUME Spend("work") \/ Spend("remote") \/ Spend("faults")
      PROVE  ghost.excused \subseteq ghost'.excused
  BY <1>0, <1>a, SpendType
<1>b. ASSUME NEW new, NEW k, SetHub(new, k) PROVE ghost.excused \subseteq ghost'.excused
  BY <1>0, <1>b DEF SetHub, GhostType
<1>1. ASSUME NEW c \in Client, ClientStep(c) PROVE ghost.excused \subseteq ghost'.excused
  <2>1. CASE PathPlan(c) \/ Discover(c) \/ LsRefs(c) \/ CloneList(c) \/ Crash(c) \/ MakeCommit(c)
             \/ MoveRef(c) \/ ConnectionLost(c)
    BY <2>1, <1>a DEF PathPlan, Discover, LsRefs, CloneList, Crash, MakeCommit, MoveRef, ConnectionLost
  <2>2. CASE PathLock(c) \/ PathDone(c) \/ NetPlan(c) \/ Report(c) \/ FetchPack(c)
             \/ FetchRefs(c) \/ ClonePack(c) \/ CloneRefs(c) \/ CopyFiles(c) \/ CopyFails(c)
             \/ CopyRefs(c) \/ CloneCheckout(c)
    BY <2>2 DEF PathLock, PathDone, NetPlan, Report, FetchPack, FetchRefs,
                ClonePack, CloneRefs, CopyFiles, CopyFails, CopyRefs, CloneCheckout, CleanUp
  <2>3. CASE PathRename(c) \/ Serve(c)
    BY <2>3, <1>b DEF PathRename, Serve
  <2>4. CASE CopyStart(c) \/ CopyHead(c)
    BY <1>0, <2>4 DEF CopyStart, CopyHead, GhostType
  <2>5. CASE Building(c)
    BY <1>0, <2>5, BuildDoes
  <2> QED
    BY <1>1, <2>1, <2>2, <2>3, <2>4, <2>5 DEF ClientStep, Push, Building, Fetch, Clone
<1>2. ASSUME NEW c \in Client, Gc(c) PROVE ghost.excused \subseteq ghost'.excused
  BY <1>0, <1>2, GcType
<1>3. CASE PruneLocks \/ UNCHANGED vars
  BY <1>3 DEF PruneLocks, vars
<1>4. CASE Sweeping
  BY <1>4, SweepDoes
<1> QED
  BY <1>1, <1>2, <1>3, <1>4 DEF Next, ClientStep, Sweeping

\* Whoever copies the hub when its refs move is excused, and the hub if its gc is at work.
LEMMA SetHubExcuses ==
  ASSUME GhostType, NEW new, NEW k, SetHub(new, k)
  PROVE  Copying \subseteq ghost'.excused /\ (sweep.at # "idle" => Hub \in ghost'.excused)
<1> DEFINE more == IF sweep.at = "idle" THEN {} ELSE {Hub}
<1>1. ghost'.excused = (ghost.excused \cup Copying) \cup more
  BY DEF SetHub, GhostType
<1> QED
  BY <1>1

\* A client's step is none of the gc's.
LEMMA SweepStays ==
  ASSUME CoreType, NEW c \in Client, ClientStep(c)
  PROVE  sweep' = sweep
<1>1. CASE Building(c)
  BY <1>1, BuildDoes
<1>2. CASE PathPlan(c) \/ PathLock(c) \/ PathRename(c) \/ PathDone(c) \/ Discover(c) \/ NetPlan(c)
           \/ Serve(c) \/ Report(c) \/ Fetch(c)
  BY <1>2 DEF PathPlan, PathLock, PathRename, PathDone, Discover, NetPlan, Serve, Report, Fetch,
       LsRefs, FetchPack, FetchRefs, repos, built
<1>3. CASE Clone(c)
  BY <1>3 DEF Clone, CloneList, ClonePack, CloneRefs, CopyStart, CopyFiles, CopyFails, CopyHead,
       CopyRefs, CloneCheckout, CleanUp, repos, built
<1>4. CASE MakeCommit(c) \/ MoveRef(c) \/ ConnectionLost(c) \/ Crash(c)
  BY <1>4 DEF MakeCommit, MoveRef, ConnectionLost, Crash, repos, built
<1> QED
  BY <1>1, <1>2, <1>3, <1>4 DEF ClientStep, Push, Building

\* Unless a torn file was put in place, a push by path goes on with what it sends until
\* that is in the hub's store.
LEMMA BuildAdds ==
  ASSUME TypeOK, MoveInv, NEW c \in Client, Building(c), Hub \notin ghost'.excused
  PROVE  \/ Obj(Hub)' = Obj(Hub) /\ Forgotten(c)
         \/ /\ plan'[c] = plan[c]
            /\ \/ /\ pc[c] = "planned" /\ CanSend(c, plan[c]) /\ Obj(Hub)' = Obj(Hub)
                  /\ \/ pc'[c] = "written" /\ ToSend(c, plan[c]) = {}
                     \/ pc'[c] = "packing" /\ pack'[c] = ToSend(c, plan[c])
               \/ /\ pc[c] = "packing" /\ pc'[c] = "indexing"
                  /\ pack'[c] = pack[c] /\ Obj(Hub)' = Obj(Hub)
               \/ /\ pc[c] = "indexing" /\ pc'[c] = "written" /\ PathIdx(c)
                  /\ pack[c] \in SUBSET Commit /\ Obj(Hub)' = Obj(Hub) \cup pack[c]
<1>0. /\ ReposType /\ MovingType /\ GhostType /\ Hub \in Repo /\ loose'[Hub] = loose[Hub]
      /\ PlanOK(c)
  BY RepoFacts, BuildDoes DEF TypeOK, CoreType, MoveInv
<1>a. ASSUME packed'[Hub] = packed[Hub] PROVE Obj(Hub)' = Obj(Hub)
  BY <1>0, <1>a DEF Obj
<1>b. ASSUME End(c, "error"), UNCHANGED packed PROVE Obj(Hub)' = Obj(Hub) /\ Forgotten(c)
  BY <1>0, <1>a, <1>b, EndForgets
<1>1. CASE PathOpen(c)
  <2>1. pc[c] = "planned" /\ UNCHANGED packed
    BY <1>1 DEF PathOpen, At
  <2>2. CASE ~CanSend(c, plan[c])
    BY <1>1, <1>b, <2>2 DEF PathOpen
  <2>3. CASE CanSend(c, plan[c]) /\ ToSend(c, plan[c]) = {}
    <3>1. GoTo(c, "written") /\ UNCHANGED plan
      BY <1>1, <2>3 DEF PathOpen
    <3>2. pc'[c] = "written" /\ plan'[c] = plan[c]
      BY <1>0, <3>1 DEF GoTo, MovingType
    <3> QED
      BY <1>a, <2>1, <2>3, <3>2
  <2>4. CASE CanSend(c, plan[c]) /\ ToSend(c, plan[c]) # {}
    <3>1. GoTo(c, "packing") /\ UNCHANGED plan /\ pack' = Set(pack, c, ToSend(c, plan[c]))
      BY <1>1, <2>4 DEF PathOpen
    <3>2. pc'[c] = "packing" /\ plan'[c] = plan[c] /\ pack'[c] = ToSend(c, plan[c])
      <4> HIDE DEF ToSend
      <4> QED
        BY <1>0, <3>1 DEF GoTo, MovingType, Set
    <3> QED
      BY <1>a, <2>1, <2>4, <3>2
  <2> QED
    BY <2>2, <2>3, <2>4
<1>2. CASE PathPack(c)
  <2>1. CASE End(c, "error") /\ UNCHANGED packed
    BY <1>b, <2>1
  <2>2. ASSUME NEW whole \in BOOLEAN, PutPack(c, pack[c], whole), GoTo(c, "indexing"),
               pack' = Set(pack, c, IF whole THEN pack[c] ELSE {}), UNCHANGED plan
        PROVE  /\ plan'[c] = plan[c] /\ pc'[c] = "indexing"
               /\ pack'[c] = pack[c] /\ Obj(Hub)' = Obj(Hub)
    <3>1. whole /\ packed'[Hub] = packed[Hub]
      BY <1>0, <2>2, PutPackType
    <3> QED
      BY <1>0, <1>a, <2>2, <3>1 DEF GoTo, Set, MovingType
  <2> QED
    BY <1>2, <2>1, <2>2, WholeType DEF PathPack, At
<1>3. CASE PathIdx(c)
  <2>0. pack[c] \in SUBSET Commit /\ pc[c] = "indexing"
    BY <1>0, <1>3 DEF PathIdx, At, PlanOK, Carrying
  <2>1. CASE End(c, "error") /\ UNCHANGED packed
    BY <1>b, <2>1
  <2>2. ASSUME NEW whole \in BOOLEAN,
               NEW now \in (IF whole THEN {packed[Hub] \cup pack[c]} ELSE Torn(pack[c])),
               packed' = Set(packed, Hub, now), Tear(whole), GoTo(c, "written"), UNCHANGED plan
        PROVE  plan'[c] = plan[c] /\ pc'[c] = "written" /\ Obj(Hub)' = Obj(Hub) \cup pack[c]
    <3>1. whole
      BY <1>0, <2>2, TearType
    <3>2. now = packed[Hub] \cup pack[c]
      BY <3>1
    <3>3. packed'[Hub] = packed[Hub] \cup pack[c]
      BY <1>0, <2>2, <3>2 DEF Set, ReposType
    <3> QED
      BY <1>0, <2>2, <3>3 DEF GoTo, MovingType, Obj
  <2> QED
    BY <1>3, <2>0, <2>1, <2>2, WholeType DEF PathIdx
<1> QED
  BY <1>1, <1>2, <1>3 DEF Building

LEMMA ServeAdds ==
  ASSUME TypeOK, NEW c \in Client, NEW done \in SUBSET Moves(plan[c]), ServeEffect(c, done)
  PROVE  /\ Obj(Hub) \subseteq Obj(Hub)' /\ Obj(Hub)' \in SUBSET Commit
         /\ \A p \in done : Reach({p.new}, Obj(Hub)') \subseteq Obj(Hub)'
<1> DEFINE whole == News(plan[c]) = {} \/ pack[c] # None
           have  == Obj(Hub) \cup (IF pack[c] = None THEN {} ELSE pack[c])
<1>0. ReposType /\ MovingType /\ Hub \in Repo
  BY RepoFacts DEF TypeOK, CoreType
<1>1. /\ packed' = IF whole THEN Set(packed, Hub, have \ loose[Hub]) ELSE packed
      /\ \A p \in done : whole /\ Reach({p.new}, have) \subseteq have
      /\ loose' = loose
  BY DEF ServeEffect
<1>2. have \in SUBSET Commit /\ Obj(Hub) \in SUBSET Commit
  BY <1>0, ObjType DEF MovingType
<1>3. loose[Hub] \subseteq have /\ Obj(Hub) \subseteq have
  BY DEF Obj
<1> HIDE DEF have, whole
<1>4. CASE whole
  <2>1. packed'[Hub] = have \ loose[Hub]
    BY <1>0, <1>1, <1>4 DEF Set, ReposType
  <2>2. Obj(Hub)' = have
    BY <1>1, <1>3, <2>1 DEF Obj
  <2> QED
    BY <1>1, <1>2, <1>3, <2>2
<1>5. CASE ~whole
  <2>1. Obj(Hub)' = Obj(Hub) /\ done = {}
    BY <1>1, <1>5 DEF Obj
  <2> QED
    BY <1>2, <2>1
<1> QED
  BY <1>4, <1>5

\* Only a push adds to the hub's store, and no client's step takes from it unless it
\* puts a torn file in place.
LEMMA HubStore ==
  ASSUME TypeOK, MoveInv, NEW c \in Client, ClientStep(c), Hub \notin ghost'.excused
  PROVE  /\ Obj(Hub) \subseteq Obj(Hub)'
         /\ ~PathIdx(c) /\ ~Serve(c) => Obj(Hub)' = Obj(Hub)
<1>0. ReposType /\ Hub \in Repo /\ c \in Repo /\ c # Hub
  BY RepoFacts DEF TypeOK, CoreType
<1>a. ASSUME UNCHANGED <<loose, packed>> PROVE Obj(Hub)' = Obj(Hub)
  BY <1>a DEF Obj
<1>b. ASSUME NEW x, NEW y, loose' = Set(loose, c, x) \/ loose' = loose,
             packed' = Set(packed, c, y) \/ packed' = packed
      PROVE  Obj(Hub)' = Obj(Hub)
  BY <1>0, <1>b DEF Obj, ReposType, Set
<1>1. CASE PathPlan(c) \/ PathLock(c) \/ PathRename(c) \/ PathDone(c) \/ Discover(c) \/ NetPlan(c)
           \/ Report(c) \/ LsRefs(c) \/ FetchRefs(c) \/ CloneList(c) \/ CloneRefs(c) \/ CopyHead(c)
           \/ CopyRefs(c) \/ MoveRef(c) \/ ConnectionLost(c) \/ Crash(c)
  BY <1>1, <1>a DEF PathPlan, PathLock, PathRename, PathDone, Discover, NetPlan, Report, LsRefs,
       FetchRefs, CloneList, CloneRefs, CopyHead, CopyRefs, MoveRef, ConnectionLost, Crash, repos
<1>2. CASE FetchPack(c)
  BY <1>2, <1>b DEF FetchPack
<1>3. CASE ClonePack(c) \/ CopyFails(c)
  BY <1>3, <1>b DEF ClonePack, CopyFails, CleanUp
<1>4. CASE CopyStart(c) \/ CopyFiles(c)
  BY <1>4, <1>b DEF CopyStart, CopyFiles
<1>5. CASE CloneCheckout(c)
  BY <1>5, <1>a, <1>b DEF CloneCheckout, CleanUp
<1>6. CASE MakeCommit(c)
  BY <1>6, <1>b DEF MakeCommit
<1>7. CASE Building(c)
  <2>1. ~PathIdx(c) => pc[c] # "indexing"
    BY <1>7 DEF Building, PathOpen, PathPack, At
  <2> QED
    BY <1>7, <2>1, BuildAdds
<1>8. CASE Serve(c)
  BY <1>8, ServeDoes, ServeAdds
<1> QED
  BY <1>1, <1>2, <1>3, <1>4, <1>5, <1>6, <1>7, <1>8
     DEF ClientStep, Push, Building, Fetch, Clone

-----------------------------------------------------------------------------
(* The hub (HubOK). *)

HubRefsOK == \A n \in Name : refs[Hub][n] \in Complete(Obj(Hub)) \cup {None}

\* What the hub's gc goes on with.
SweepOK == sweep.at # "idle" => \A n \in Name : refs[Hub][n] \in sweep.marked \cup {None}

\* What a push by path is about to write.
AboutOK(c) ==
  \A i \in DOMAIN plan[c] :
    /\ pc[c] = "planned" => plan[c][i].old \in Complete(Obj(Hub)) \cup {None}
    /\ pc[c] \in {"packing", "indexing"} =>
         plan[c][i].new \in Complete(Obj(Hub) \cup pack[c]) \cup {None}
    /\ pc[c] \in {"written", "locked"} => plan[c][i].new \in Complete(Obj(Hub)) \cup {None}

LEMMA HubParts ==
  HubOK <=> (Hub \notin ghost.excused =>
               HubRefsOK /\ SweepOK /\ \A c \in Client : AboutOK(c))
  BY DEF HubOK, HubRefsOK, SweepOK, AboutOK

\* What the new tips reach is in the hub's store once what is sent is there too: what
\* was left out of it the old tips reach, or the hub has.
LEMMA SentCompletes ==
  ASSUME TypeOK, MoveInv, NEW c \in Client, pc[c] = "planned", CanSend(c, plan[c]), AboutOK(c)
  PROVE  \A i \in DOMAIN plan[c] :
           plan[c][i].new \in Complete(Obj(Hub) \cup ToSend(c, plan[c])) \cup {None}
<1> DEFINE H == Obj(Hub)
           mine == Obj(c)
           news == News(plan[c])
           olds == Olds(plan[c]) \cap mine
           A == Reach(news, mine)
           B == Reach(olds, mine)
           then == H \cup ToSend(c, plan[c])
<1>0. /\ ReposType /\ MovingType /\ plan[c] \in Seq(Move) /\ PlanOK(c)
      /\ H \in SUBSET Commit /\ mine \in SUBSET Commit
  BY RepoFacts, ObjType DEF TypeOK, CoreType, MovingType, MoveInv
<1>2. news \in SUBSET CommitOrNone /\ olds \in SUBSET CommitOrNone
  BY <1>0, MovesType
<1>3. \A o \in olds : o \in Complete(H) \cup {None}
  BY DEF Olds, ToSet, AboutOK
<1>4. /\ Reach(news \cup olds, mine) \subseteq mine
      /\ ToSend(c, plan[c]) = (A \ B) \ H
  BY DEF CanSend, ToSend
<1>5. \A i \in DOMAIN plan[c] : plan[c][i].new \in news \cup {None} \/ plan[c][i].new = plan[c][i].old
  <2> SUFFICES ASSUME NEW i \in DOMAIN plan[c]
               PROVE  plan[c][i].new \in news \cup {None} \/ plan[c][i].new = plan[c][i].old
    OBVIOUS
  <2>1. PICK j \in DOMAIN cmd[c].specs : Decided(plan[c][i], cmd[c].specs[j])
    BY <1>0 DEF PlanOK
  <2>2. plan[c][i].action \in Actions /\ plan[c][i] \in ToSet(plan[c])
    BY <1>0, MoveType DEF ToSet
  <2> QED
    BY <2>1, <2>2 DEF Decided, Actions, News
<1> HIDE DEF news, olds, mine, H
<1>6. A \subseteq mine /\ B \subseteq mine
  <2>1. A \subseteq Reach(news \cup olds, mine) /\ B \subseteq Reach(news \cup olds, mine)
    BY <1>0, <1>2, ReachGrows
  <2> QED
    BY <1>4, <2>1
<1>7. /\ WholeHistory(A) /\ A \in SUBSET Commit /\ news \ {None} \subseteq A
  BY <1>0, <1>2, <1>6, WalkIsWhole, ReachIsLeast
<1>8. /\ WholeHistory(Complete(H)) /\ Complete(H) \subseteq H
  BY <1>0, CompleteIsWhole
<1>9. B \subseteq Complete(H)
  <2>1. Complete(H) \in SUBSET Commit /\ olds \ {None} \subseteq Complete(H)
    BY <1>0, <1>3, <1>8
  <2> QED
    BY <1>0, <1>2, <1>8, <2>1, ReachInWhole
<1> HIDE DEF A, B
<1>10. A \cup Complete(H) \subseteq then /\ WholeHistory(A \cup Complete(H))
  BY <1>4, <1>7, <1>8, <1>9 DEF WholeHistory
<1>11. then \in SUBSET Commit
  BY <1>0, <1>4, <1>7
<1> HIDE DEF then
<1>12. A \cup Complete(H) \subseteq Complete(then)
  BY <1>10, <1>11, CompleteIsWhole
<1>13. ASSUME NEW i \in DOMAIN plan[c] PROVE plan[c][i].new \in Complete(then) \cup {None}
  <2>1. plan[c][i].old \in Complete(H) \cup {None}
    BY <1>13 DEF AboutOK, H
  <2> QED
    BY <1>5, <1>7, <1>12, <2>1
<1> QED
  BY <1>13 DEF then, H

LEMMA BuildAbout ==
  ASSUME TypeOK, MoveInv, NEW c \in Client, Building(c), Hub \notin ghost'.excused, AboutOK(c)
  PROVE  AboutOK(c)'
<1>a. Complete(Obj(Hub))' = Complete(Obj(Hub)')
  BY DEF Complete
<1>b. Complete(Obj(Hub) \cup pack[c])' = Complete(Obj(Hub)' \cup pack'[c])
  BY DEF Complete
<1>1. CASE Forgotten(c)
  BY <1>1 DEF Forgotten, AboutOK
<1>2. CASE /\ plan'[c] = plan[c] /\ pc[c] = "planned" /\ CanSend(c, plan[c]) /\ Obj(Hub)' = Obj(Hub)
           /\ \/ pc'[c] = "written" /\ ToSend(c, plan[c]) = {}
              \/ pc'[c] = "packing" /\ pack'[c] = ToSend(c, plan[c])
  <2>1. \A i \in DOMAIN plan[c] :
           plan[c][i].new \in Complete(Obj(Hub) \cup ToSend(c, plan[c])) \cup {None}
    BY <1>2, SentCompletes
  <2>2. CASE pc'[c] = "written" /\ ToSend(c, plan[c]) = {}
    <3>1. Obj(Hub) \cup {} = Obj(Hub)
      OBVIOUS
    <3>2. \A i \in DOMAIN plan[c] : plan[c][i].new \in Complete(Obj(Hub)') \cup {None}
      BY <1>2, <2>1, <2>2, <3>1
    <3> QED
      BY <1>2, <1>a, <2>2, <3>2 DEF AboutOK
  <2>3. CASE pc'[c] = "packing" /\ pack'[c] = ToSend(c, plan[c])
    <3>1. \A i \in DOMAIN plan[c] : plan[c][i].new \in Complete(Obj(Hub)' \cup pack'[c]) \cup {None}
      BY <1>2, <2>1, <2>3
    <3> QED
      BY <1>2, <1>b, <2>3, <3>1 DEF AboutOK
  <2> QED
    BY <1>2, <2>2, <2>3
<1>3. CASE /\ plan'[c] = plan[c] /\ pc[c] = "packing" /\ pc'[c] = "indexing"
           /\ pack'[c] = pack[c] /\ Obj(Hub)' = Obj(Hub)
  <2>1. \A i \in DOMAIN plan[c] : plan[c][i].new \in Complete(Obj(Hub)' \cup pack'[c]) \cup {None}
    BY <1>3 DEF AboutOK
  <2> QED
    BY <1>3, <1>b, <2>1 DEF AboutOK
<1>4. CASE /\ plan'[c] = plan[c] /\ pc[c] = "indexing" /\ pc'[c] = "written"
           /\ Obj(Hub)' = Obj(Hub) \cup pack[c]
  <2>1. \A i \in DOMAIN plan[c] : plan[c][i].new \in Complete(Obj(Hub)') \cup {None}
    BY <1>4 DEF AboutOK
  <2> QED
    BY <1>4, <1>a, <2>1 DEF AboutOK
<1> QED
  BY <1>1, <1>2, <1>3, <1>4, BuildAdds

\* The steps with which a client is in a push by path.
LEMMA PathSteps ==
  ASSUME TypeOK, NEW c \in Client, ClientStep(c), pc'[c] \in Path
  PROVE  PathPlan(c) \/ Building(c) \/ PathLock(c) \/ PathRename(c)
<1>0. MovingType
  BY DEF TypeOK, CoreType
<1> USE DEF GoTo, At, MayPush, MayClone, MayWork, Path
<1>a. ASSUME NEW how, End(c, how) PROVE pc'[c] \notin Path
  BY <1>0, <1>a, EndForgets DEF Forgotten
<1>b. ASSUME NEW step, step \notin Path, pc' = [pc EXCEPT ![c] = step] PROVE pc'[c] \notin Path
  BY <1>0, <1>b DEF MovingType
<1>1. CASE PathDone(c) \/ Discover(c) \/ NetPlan(c) \/ Report(c) \/ LsRefs(c) \/ FetchPack(c)
           \/ FetchRefs(c)
  BY <1>1, <1>a, <1>b DEF PathDone, Discover, NetPlan, Report, LsRefs, FetchPack, FetchRefs
<1>2. CASE CloneList(c) \/ ClonePack(c) \/ CloneRefs(c) \/ CopyStart(c) \/ CopyFails(c)
           \/ CopyHead(c) \/ CopyRefs(c) \/ CloneCheckout(c)
  BY <1>2, <1>a, <1>b DEF CloneList, ClonePack, CloneRefs, CopyStart, CopyFails, CopyHead, CopyRefs,
                          CloneCheckout, CleanUp
<1>3. CASE MakeCommit(c) \/ MoveRef(c) \/ CopyFiles(c)
  BY <1>3 DEF MakeCommit, MoveRef, CopyFiles, moving
<1>4. CASE ConnectionLost(c) \/ Crash(c)
  BY <1>4, <1>a DEF ConnectionLost, Crash
<1>5. CASE Serve(c)
  BY <1>5 DEF Serve
<1> QED
  BY <1>1, <1>2, <1>3, <1>4, <1>5 DEF ClientStep, Push, Building, Fetch, Clone

\* A part of a plan asks no more than the plan.
LEMMA SuffixAbout ==
  ASSUME NEW all \in Seq(Move), NEW some \in Seq(Move), Suffix(some, all), NEW good,
         \A i \in DOMAIN all : all[i].new \in good
  PROVE  \A i \in DOMAIN some : some[i].new \in good
  BY DEF Suffix

LEMMA AboutStep ==
  ASSUME TypeOK, MoveInv, NEW c \in Client, ClientStep(c), Hub \notin ghost'.excused, HubRefsOK,
         AboutOK(c)
  PROVE  AboutOK(c)'
<1> DEFINE K == Complete(Obj(Hub))
<1>0. /\ ReposType /\ MovingType /\ plan[c] \in Seq(Move) /\ PlanOK(c)
      /\ refs[Hub] \in [Name -> CommitOrNone] /\ refs[c] \in [Name -> CommitOrNone]
      /\ Obj(c) \in SUBSET Commit /\ Obj(Hub) \in SUBSET Commit
  BY RepoFacts, ObjType DEF TypeOK, CoreType, MovingType, MoveInv, ReposType
<1>1. CASE pc'[c] \notin Path
  BY <1>1 DEF AboutOK, Path
<1>2. CASE Building(c)
  BY <1>2, BuildAbout
<1>4. CASE PathPlan(c) /\ pc'[c] \in Path
  <2>1. PICK specs \in Pushes :
          /\ plan' = Set(plan, c, Rest(Planned(c, specs, refs[Hub]))) /\ GoTo(c, "planned")
    <3>1. ASSUME NEW how PROVE ~End(c, how)
      BY <1>0, <1>4, <3>1, EndForgets DEF Forgotten, Path
    <3> QED
      BY <1>4, <3>1 DEF PathPlan
  <2> DEFINE all == Planned(c, specs, refs[Hub])
             some == Rest(all)
  <2>2. all \in Seq(Move) /\ \A i \in DOMAIN all : all[i].old = refs[Hub][all[i].dst]
    <3>1. specs \in Seq(Refspec) /\ \A i, j \in DOMAIN specs : specs[i].dst = specs[j].dst => i = j
      BY PushTypes
    <3> QED
      BY <1>0, <3>1, PlannedDecided
  <2>3. plan'[c] = some /\ pc'[c] = "planned"
    <3> HIDE DEF some
    <3> QED
      BY <1>0, <2>1 DEF Set, GoTo, MovingType, some, all
  <2>4. Complete(Obj(Hub))' = K
    <3>1. UNCHANGED <<loose, packed>>
      BY <1>4 DEF PathPlan, repos
    <3> QED
      BY <3>1 DEF Obj, Complete
  <2> HIDE DEF all
  <2>5. Suffix(some, all) /\ some \in Seq(Move)
    BY <2>2, RestIsSuffix
  <2>6. \A i \in DOMAIN all : all[i].old \in K \cup {None}
    BY <2>2, MoveType DEF HubRefsOK
  <2> HIDE DEF some, K
  <2>7. \A i \in DOMAIN some : some[i].old \in K \cup {None}
    BY <2>5, <2>6 DEF Suffix
  <2> QED
    BY <2>3, <2>4, <2>7 DEF AboutOK
<1>5. CASE PathLock(c) /\ pc'[c] \in Path
  <2>1. pc[c] = "written" /\ plan' = plan /\ pc'[c] = "locked" /\ UNCHANGED <<loose, packed>>
    <3>1. ASSUME NEW how PROVE ~End(c, how)
      BY <1>0, <1>5, <3>1, EndForgets DEF Forgotten, Path
    <3> QED
      BY <1>0, <1>5, <3>1 DEF PathLock, At, GoTo, MovingType
  <2>2. Complete(Obj(Hub))' = K
    BY <2>1 DEF Obj, Complete
  <2> QED
    BY <2>1, <2>2 DEF AboutOK
<1>6. CASE PathRename(c)
  <2> DEFINE some == Rest(Tail(plan[c]))
  <2>1. pc[c] = "locked" /\ plan[c] # <<>>
    BY <1>6, RenameMoves
  <2>2. plan'[c] = some /\ pc'[c] = "written" /\ UNCHANGED <<loose, packed>>
    BY <1>0, <1>6 DEF PathRename, Set, GoTo, MovingType
  <2>3. Complete(Obj(Hub))' = K
    BY <2>2 DEF Obj, Complete
  <2>4. some \in Seq(Move) /\ Suffix(some, plan[c])
    BY <1>0, <2>1, RestOfTail DEF Suffix
  <2> HIDE DEF some
  <2>5. \A i \in DOMAIN plan[c] : plan[c][i].new \in K \cup {None}
    BY <2>1 DEF AboutOK
  <2> HIDE DEF K
  <2>6. \A i \in DOMAIN some : some[i].new \in K \cup {None}
    BY <1>0, <2>4, <2>5, SuffixAbout
  <2> QED
    BY <2>2, <2>3, <2>6 DEF AboutOK
<1> QED
  BY <1>1, <1>2, <1>4, <1>5, <1>6, PathSteps

LEMMA HubRefsStep ==
  ASSUME TypeOK, MoveInv, NEW c \in Client, ClientStep(c), Hub \notin ghost'.excused, HubRefsOK,
         AboutOK(c)
  PROVE  HubRefsOK'
<1> DEFINE K == Complete(Obj(Hub))
           L == Complete(Obj(Hub)')
<1>0. /\ Obj(Hub) \in SUBSET Commit /\ Obj(Hub)' \in SUBSET Commit /\ plan[c] \in Seq(Move)
      /\ [Next]_vars /\ MovingType
  <2>1. [Next]_vars
    BY DEF Next, ClientStep
  <2> QED
    BY <2>1, TypeStep, RepoFacts DEF TypeOK, CoreType, MovingType, ReposType, Obj
<1>1. K \subseteq L
  BY <1>0, HubStore, CompleteGrows
<1>2. Complete(Obj(Hub))' = L
  BY DEF Complete
<1>3. CASE refs'[Hub] = refs[Hub]
  BY <1>1, <1>2, <1>3 DEF HubRefsOK
<1>4. CASE PathRename(c)
  <2>1. /\ plan[c] # <<>> /\ pc[c] = "locked" /\ refs'[Hub][Head(plan[c]).dst] = Head(plan[c]).new
        /\ \A n \in Name \ {Head(plan[c]).dst} : refs'[Hub][n] = refs[Hub][n]
    BY <1>4, RenameMoves
  <2>2. 1 \in DOMAIN plan[c] /\ Head(plan[c]) = plan[c][1]
    BY <1>0, <2>1
  <2>3. Head(plan[c]).new \in K \cup {None}
    BY <2>1, <2>2 DEF AboutOK
  <2> HIDE DEF K, L
  <2> QED
    BY <1>1, <1>2, <2>1, <2>3 DEF HubRefsOK, K
<1>5. CASE Serve(c)
  <2>1. PICK done \in SUBSET Moves(plan[c]) : ServeEffect(c, done)
    BY <1>5, ServeDoes
  <2>2. \A p \in done : p \in Move /\ p.new \in CommitOrNone
    BY <1>0, MovesType DEF Move
  <2>3. \A p \in done : p.new \in L \cup {None}
    <3> SUFFICES ASSUME NEW p \in done PROVE p.new \in L \cup {None}
      OBVIOUS
    <3>1. Reach({p.new}, Obj(Hub)') \subseteq Obj(Hub)'
      BY <2>1, ServeAdds
    <3>2. {p.new} \in SUBSET CommitOrNone
      BY <2>2
    <3>3. {p.new} \ {None} \subseteq L
      BY <1>0, <3>1, <3>2, WalkStays
    <3> QED
      BY <3>3
  <2>4. \A n \in Name : \/ refs'[Hub][n] = refs[Hub][n] /\ \A p \in done : p.dst # n
                        \/ \E p \in done : /\ p.dst = n /\ refs'[Hub][n] = p.new
                                           /\ refs[Hub][n] = p.old
    BY <2>1, ServeMoves
  <2> HIDE DEF K, L
  <2> QED
    BY <1>1, <1>2, <2>3, <2>4 DEF HubRefsOK, K
<1> QED
  BY <1>3, <1>4, <1>5, HubQuiet

-----------------------------------------------------------------------------
(* gc. *)

\* A client's gc leaves the hub as it is; what it leaves in its own repository is whole
\* unless that is excused, and has the tips.
LEMMA GcKeeps ==
  ASSUME CoreType, NEW c \in Client, Gc(c)
  PROVE  /\ \A q \in Repo \ {c} : loose'[q] = loose[q] /\ packed'[q] = packed[q]
         /\ c \notin ghost'.excused =>
              WholeHistory(Obj(c)') /\ \A x \in Roots(c) : x \in Obj(c)' \cup {None}
<1> DEFINE reach == Reach(Roots(c), Obj(c))
           more == IF WholeHistory(loose[c] \cup reach) THEN {} ELSE {c}
<1>0. ReposType /\ GhostType /\ c \in Repo
  BY RepoFacts DEF CoreType
<1>1. /\ packed' = Set(packed, c, reach) /\ loose' = Set(loose, c, loose[c] \ reach)
      /\ ghost' = [ghost EXCEPT !.work = @ + 1, !.excused = @ \cup more]
  BY DEF Gc
<1>2. Roots(c) \ {None} \subseteq reach /\ reach \in SUBSET Commit /\ more \in SUBSET Repo
  BY <1>0, ObjType, RootsType, ReachIsLeast
<1>3. c \notin more => WholeHistory(loose[c] \cup reach)
  OBVIOUS
<1> HIDE DEF reach, more
<1>4. ghost'.excused = ghost.excused \cup more
  BY <1>0, <1>1, <1>2, ExcuseType
<1>5. /\ loose'[c] = loose[c] \ reach /\ packed'[c] = reach
      /\ \A q \in Repo \ {c} : loose'[q] = loose[q] /\ packed'[q] = packed[q]
  BY <1>0, <1>1 DEF ReposType, Set
<1>6. Obj(c)' = loose[c] \cup reach
  BY <1>5 DEF Obj
<1> QED
  BY <1>2, <1>3, <1>4, <1>5, <1>6

LEMMA GcHub ==
  ASSUME TypeOK, HubOK, NEW c \in Client, Gc(c)
  PROVE  HubOK'
<1>0. CoreType /\ Hub \in Repo \ {c}
  BY RepoFacts DEF TypeOK
<1>1. loose'[Hub] = loose[Hub] /\ packed'[Hub] = packed[Hub]
  BY <1>0, GcKeeps
<1>2. Obj(Hub)' = Obj(Hub)
  BY <1>1 DEF Obj
<1>3. /\ Complete(Obj(Hub))' = Complete(Obj(Hub))
      /\ \A d \in Client : Complete(Obj(Hub) \cup pack[d])' = Complete(Obj(Hub)' \cup pack'[d])
  BY <1>2 DEF Complete
<1>4. UNCHANGED <<refs, sweep, pc, plan, pack>> /\ ghost.excused \subseteq ghost'.excused
  BY <1>0, GcType DEF Gc, moving, built
<1> QED
  BY <1>2, <1>3, <1>4 DEF HubOK

\* The hub's gc keeps what the hub's refs need, unless the hub is excused.
LEMMA SweepHub ==
  ASSUME TypeOK, HubOK, Sweeping
  PROVE  HubOK'
<1> SUFFICES ASSUME Hub \notin ghost'.excused PROVE HubRefsOK' /\ SweepOK' /\ \A c \in Client : AboutOK(c)'
  BY DEF HubOK, HubRefsOK, SweepOK, AboutOK
<1>0. /\ ReposType /\ GhostType /\ Hub \in Repo /\ UNCHANGED <<refs, pc, plan>>
      /\ sweep.marked \in SUBSET Commit
  BY SweepDoes, RepoFacts DEF TypeOK, CoreType, BuiltType
<1>1. HubRefsOK /\ SweepOK /\ \A c \in Client : AboutOK(c)
  BY SweepDoes, HubParts
<1>a. ASSUME loose'[Hub] = loose[Hub], packed'[Hub] = packed[Hub], UNCHANGED pack
      PROVE  HubRefsOK' /\ \A c \in Client : AboutOK(c)'
  <2>1. Obj(Hub)' = Obj(Hub)
    BY <1>a DEF Obj
  <2>2. /\ Complete(Obj(Hub))' = Complete(Obj(Hub))
        /\ \A c \in Client : Complete(Obj(Hub) \cup pack[c])' = Complete(Obj(Hub) \cup pack[c])
    BY <1>a, <2>1 DEF Complete
  <2> QED
    BY <1>0, <1>1, <1>a, <2>2 DEF HubRefsOK, AboutOK
<1>b. ASSUME Sweep("idle", {}) PROVE SweepOK'
  BY <1>b DEF Sweep, SweepOK
<1>2. CASE SweepMark
  <2>1. UNCHANGED <<loose, packed, pack>> /\ Sweep("packing", Reach(Roots(Hub), Obj(Hub)))
    BY <1>2 DEF SweepMark, moving
  <2>2. Roots(Hub) \ {None} \subseteq Reach(Roots(Hub), Obj(Hub))
    BY <1>0, ObjType, RootsType, ReachIsLeast
  <2>3. \A n \in Name : refs[Hub][n] \in Roots(Hub)
    BY DEF Roots
  <2>4. SweepOK'
    BY <1>0, <2>1, <2>2, <2>3 DEF Sweep, SweepOK
  <2> QED
    BY <1>a, <2>1, <2>4
<1>3. CASE SweepPack
  <2>1. UNCHANGED <<loose, pack>> /\ sweep.at = "packing"
    BY <1>3 DEF SweepPack, moving
  <2>2. CASE Sweep("idle", {}) /\ UNCHANGED packed
    BY <1>a, <1>b, <2>1, <2>2
  <2>3. ASSUME NEW whole \in BOOLEAN, PutPack(Hub, sweep.marked, whole),
               Sweep("indexing", IF whole THEN sweep.marked ELSE {})
        PROVE  HubRefsOK' /\ SweepOK' /\ \A c \in Client : AboutOK(c)'
    <3>1. whole /\ packed'[Hub] = packed[Hub]
      BY <1>0, <2>3, PutPackType
    <3>2. sweep' = [at |-> "indexing", marked |-> sweep.marked]
      BY <2>3, <3>1 DEF Sweep
    <3>3. SweepOK'
      BY <1>0, <1>1, <2>1, <3>2 DEF SweepOK
    <3> QED
      BY <1>a, <2>1, <3>1, <3>3
  <2> QED
    BY <1>3, <2>2, <2>3, WholeType DEF SweepPack
<1>4. CASE SweepOld
  <2>0. sweep.at = "indexing" /\ Sweep("idle", {})
    BY <1>4 DEF SweepOld
  <2>1. CASE UNCHANGED <<loose, packed, pack>>
    BY <1>a, <1>b, <2>0, <2>1
  <2>2. ASSUME NEW whole \in BOOLEAN, SweepEffect(whole)
        PROVE  HubRefsOK' /\ \A c \in Client : AboutOK(c)'
    <3> DEFINE left == IF whole THEN sweep.marked ELSE {}
               hurt == \/ ~whole \/ ~WholeHistory(left \cup loose[Hub])
                       \/ \E c \in Client : pc[c] \in Path
               more == Copying \cup IF hurt THEN {Hub} ELSE {}
    <3>1. /\ packed' = Set(packed, Hub, left) /\ loose' = Set(loose, Hub, loose[Hub] \ sweep.marked)
          /\ ghost' = [ghost EXCEPT !.excused = @ \cup more]
      BY <2>2 DEF SweepEffect
    <3>2. left \in SUBSET Commit /\ more \in SUBSET Repo
      BY <1>0, RepoFacts DEF Copying
    <3>3. hurt => Hub \in more
      OBVIOUS
    <3> HIDE DEF more
    <3>4. ~hurt
      BY <1>0, <3>1, <3>2, <3>3, ExcuseType
    <3>5. left = sweep.marked /\ WholeHistory(sweep.marked \cup loose[Hub])
          /\ \A c \in Client : pc[c] \notin Path
      BY <3>4
    <3> HIDE DEF left, hurt
    <3>6. loose'[Hub] = loose[Hub] \ sweep.marked /\ packed'[Hub] = sweep.marked
      BY <1>0, <3>1, <3>5 DEF ReposType, Set
    <3>7. Obj(Hub)' = sweep.marked \cup loose[Hub] /\ Obj(Hub)' \in SUBSET Commit
      BY <1>0, <3>6 DEF Obj, ReposType
    <3>8. Complete(Obj(Hub)') = Obj(Hub)'
      BY <3>5, <3>7, WholeIsComplete
    <3>9. Complete(Obj(Hub))' = Obj(Hub)'
      BY <3>8 DEF Complete
    <3>10. HubRefsOK'
      BY <1>0, <1>1, <2>0, <3>7, <3>9 DEF SweepOK, HubRefsOK
    <3> QED
      BY <1>0, <3>5, <3>10 DEF AboutOK, Path
  <2> QED
    BY <1>0, <1>4, <1>b, <2>0, <2>1, <2>2, SweepOldDoes
<1>5. CASE SweepKilled
  BY <1>5, <1>a, <1>b DEF SweepKilled, moving
<1> QED
  BY <1>2, <1>3, <1>4, <1>5 DEF Sweeping

-----------------------------------------------------------------------------
(* The clients (ClientOK, EmptyOK). *)

LEMMA GcClient ==
  ASSUME TypeOK, NEW c \in Client, Gc(c), NEW d \in Client, EmptyOK(d),
         d \notin ghost.excused => ClientOK(d)
  PROVE  EmptyOK(d)' /\ (d \notin ghost'.excused => ClientOK(d)')
<1>0. /\ CoreType /\ d \in Repo /\ UNCHANGED <<state, refs, tracking, pc, seen, plan, pack>>
  BY RepoFacts DEF Gc, TypeOK, moving
<1>1. d \notin ghost'.excused => d \notin ghost.excused
  BY <1>0, GcType
<1>2. CASE c = d
  <2>1. state[d] = "ready" /\ pc[d] = "idle"
    BY <1>2 DEF Gc, MayWork, At
  <2>2. EmptyOK(d)'
    BY <1>0, <2>1 DEF EmptyOK
  <2>3. ASSUME d \notin ghost'.excused PROVE ClientOK(d)'
    <3>1. /\ WholeHistory(Obj(d)')
          /\ \A x \in Roots(d) : x \in Obj(d)' \cup {None}
      BY <1>0, <1>2, <2>3, GcKeeps
    <3>2. /\ \A n \in Name : refs[d][n] \in Roots(d)
          /\ \A b \in Branch : tracking[d][b] \in Roots(d)
      BY RepoFacts DEF Roots
    <3>3. WholeHistory(Obj(d))'
      BY <3>1 DEF WholeHistory
    <3> QED
      BY <1>0, <2>1, <3>1, <3>2, <3>3 DEF ClientOK
  <2> QED
    BY <2>2, <2>3
<1>3. CASE c # d
  <2>1. loose'[d] = loose[d] /\ packed'[d] = packed[d]
    BY <1>0, <1>3, GcKeeps
  <2>2. Obj(d)' = Obj(d)
    BY <2>1 DEF Obj
  <2>3. EmptyOK(d)'
    BY <1>0, <2>2 DEF EmptyOK
  <2>4. ClientOK(d) => ClientOK(d)'
    BY <1>0, <2>2 DEF ClientOK, Unmade, WholeHistory
  <2> QED
    BY <1>1, <2>3, <2>4
<1> QED
  BY <1>2, <1>3

\* The hub's gc matters to a client that is copying the hub.
LEMMA SweepClient ==
  ASSUME TypeOK, Sweeping, NEW d \in Client, EmptyOK(d), d \notin ghost.excused => ClientOK(d)
  PROVE  EmptyOK(d)' /\ (d \notin ghost'.excused => ClientOK(d)')
<1>0. /\ MovingType /\ d \in Repo /\ d # Hub
      /\ UNCHANGED <<state, refs, tracking, pc, seen, plan>>
      /\ d \notin ghost'.excused => d \notin ghost.excused
  BY RepoFacts, SweepDoes DEF TypeOK, CoreType
<1>1. loose'[d] = loose[d] /\ packed'[d] = packed[d]
  BY <1>0, SweepDoes
<1>2. Obj(d)' = Obj(d)
  BY <1>1 DEF Obj
<1>3. EmptyOK(d)'
  BY <1>0, <1>2 DEF EmptyOK
<1>4. ASSUME d \notin ghost'.excused PROVE pc[d] = "copying" => pack'[d] = pack[d]
  BY <1>0, <1>4, SweepDoes DEF Copying
<1> QED
  BY <1>0, <1>2, <1>3, <1>4 DEF ClientOK, Unmade, WholeHistory

\* Another client's step matters to a clone that is copying the hub: it is excused
\* when the hub's refs move meanwhile.
LEMMA OtherClient ==
  ASSUME TypeOK, NEW c \in Client, ClientStep(c), NEW d \in Client \ {c}, EmptyOK(d),
         d \notin ghost.excused => ClientOK(d)
  PROVE  EmptyOK(d)' /\ (d \notin ghost'.excused => ClientOK(d)')
<1>0. /\ SameCommand(d) /\ SameRepo(d) /\ GhostType
      /\ [Next]_vars
  BY OthersKept DEF TypeOK, CoreType, Next, ClientStep
<1>1. Obj(d)' = Obj(d)
  BY <1>0 DEF SameRepo, Obj
<1>2. EmptyOK(d)'
  BY <1>0, <1>1 DEF SameCommand, SameRepo, EmptyOK
<1>3. ASSUME d \notin ghost'.excused PROVE ClientOK(d)'
  <2>1. ClientOK(d)
    BY <1>0, <1>3, ExcusedGrows
  <2>2. pc[d] \in {"copying", "headed"} => refs'[Hub] = refs[Hub]
    <3>1. ASSUME NEW new, NEW k, SetHub(new, k), pc[d] \in {"copying", "headed"} PROVE FALSE
      BY <1>0, <1>3, <3>1, SetHubExcuses DEF Copying
    <3> QED
      BY <3>1, HubQuiet DEF PathRename, Serve
  <2> QED
    BY <1>0, <1>1, <2>1, <2>2 DEF SameCommand, SameRepo, ClientOK, Unmade, WholeHistory
<1> QED
  BY <1>2, <1>3

\* The steps after which more is asked of a client than that its refs are kept.
Holding == {"fetched", "clone fetched", "copying", "headed", "sent", "clone listed"}

LEMMA KeptClient ==
  ASSUME NEW c \in Client, EmptyOK(c), SameRepo(c), pc'[c] \notin Holding,
         state[c] = "none" => pc'[c] = "idle", pc'[c] = "idle" \/ ~Unmade(c)
  PROVE  EmptyOK(c)' /\ (ClientOK(c) => ClientOK(c)')
<1>1. Obj(c)' = Obj(c)
  BY DEF SameRepo, Obj
<1>2. EmptyOK(c)'
  BY <1>1 DEF SameRepo, Holding, EmptyOK
<1>3. Unmade(c) => Unmade(c)'
  BY DEF SameRepo, Unmade
<1>4. ClientOK(c) => (WholeHistory(Obj(c)) \/ Unmade(c))'
  BY <1>1, <1>3 DEF ClientOK, WholeHistory
<1> QED
  BY <1>1, <1>2, <1>4 DEF SameRepo, Holding, ClientOK

\* Whoever has only begun to copy the hub does nothing else.
LEMMA NotUnmade ==
  ASSUME CoreType, NEW c \in Client, Push(c) \/ Fetch(c) \/ MakeCommit(c) \/ MoveRef(c) \/ ConnectionLost(c)
  PROVE  ~Unmade(c)
<1>1. CASE Building(c)
  BY <1>1, BuildDoes DEF Unmade
<1>2. CASE PathPlan(c) \/ PathLock(c) \/ PathRename(c) \/ PathDone(c) \/ Discover(c) \/ NetPlan(c)
           \/ Serve(c) \/ Report(c) \/ Fetch(c)
  BY <1>2 DEF PathPlan, PathLock, PathRename, PathDone, Discover, NetPlan, Serve, Report, Fetch,
       LsRefs, FetchPack, FetchRefs, MayPush, At, Unmade
<1>3. CASE MakeCommit(c) \/ MoveRef(c) \/ ConnectionLost(c)
  BY <1>3 DEF MakeCommit, MoveRef, ConnectionLost, MayWork, At, Unmade
<1> QED
  BY <1>1, <1>2, <1>3 DEF Push, Building

LEMMA EmptyClient ==
  ASSUME NEW c \in Client, Obj(c)' = {}, refs'[c] = NoRefs, tracking'[c] = NoHeads,
         pc'[c] = "idle" \/ (pc'[c] = "clone listed" /\ state'[c] # "none")
  PROVE  EmptyOK(c)' /\ ClientOK(c)'
  BY RepoFacts DEF EmptyOK, ClientOK, WholeHistory, NoRefs, NoHeads

LEMMA CleanClient ==
  ASSUME TypeOK, NEW c \in Client, CleanUp(c)
  PROVE  EmptyOK(c)' /\ ClientOK(c)'
<1>1. /\ loose'[c] = {} /\ packed'[c] = {} /\ refs'[c] = NoRefs /\ tracking'[c] = NoHeads
      /\ pc'[c] = "idle"
  BY RepoFacts, EndForgets DEF CleanUp, TypeOK, CoreType, ReposType, Set, Forgotten
<1>2. Obj(c)' = {}
  BY <1>1 DEF Obj
<1> QED
  BY <1>1, <1>2, EmptyClient

\* A fetch's pack has the history of all it was asked for.
LEMMA SentIsWhole ==
  ASSUME TypeOK, NEW c \in Client, CanServe(Wants(c))
  PROVE  /\ WholeHistory(Sent(Wants(c))) /\ Sent(Wants(c)) \in SUBSET Commit
         /\ \A n \in Name : seen[c][n] \in Obj(c) \cup Sent(Wants(c)) \cup {None}
<1>1. /\ Wants(c) \in SUBSET CommitOrNone /\ Obj(Hub) \in SUBSET Commit
  BY RepoFacts, WantsType, ObjType DEF TypeOK, CoreType
<1>2. /\ WholeHistory(Sent(Wants(c))) /\ Sent(Wants(c)) \in SUBSET Commit
      /\ Wants(c) \ {None} \subseteq Sent(Wants(c))
  BY <1>1, WalkIsWhole, ReachIsLeast DEF Sent, CanServe
<1> QED
  BY <1>2 DEF Wants

\* What a step puts into a client's repository.
LEMMA PushClient ==
  ASSUME TypeOK, MoveInv, NEW c \in Client, Push(c), EmptyOK(c)
  PROVE  EmptyOK(c)' /\ (ClientOK(c) => ClientOK(c)')
<1>0. /\ ReposType /\ MovingType /\ c \in Repo /\ c # Hub /\ Hub \in Repo /\ plan[c] \in Seq(Move)
      /\ refs[c] \in [Name -> CommitOrNone] /\ seen[c] \in [Name -> CommitOrNone]
      /\ Obj(c) \in SUBSET Commit
  BY RepoFacts, ObjType DEF TypeOK, CoreType, ReposType, MovingType
<1> USE DEF At, GoTo, MayPush
<1>a. ASSUME NEW how, End(c, how) PROVE pc'[c] = "idle"
  BY <1>0, <1>a, EndForgets DEF Forgotten
<1>b. ASSUME NEW step, pc' = [pc EXCEPT ![c] = step] PROVE pc'[c] = step
  BY <1>0, <1>b DEF MovingType
<1>u. ~Unmade(c) /\ (ClientOK(c) => WholeHistory(Obj(c)))
  BY NotUnmade DEF ClientOK, TypeOK
<1>1. CASE PathPlan(c) \/ PathDone(c) \/ Discover(c)
  <2>1. SameRepo(c)
    BY <1>1 DEF PathPlan, PathDone, Discover, repos, SameRepo
  <2>2. pc'[c] \in {"idle", "planned", "discovered"}
    BY <1>1, <1>a, <1>b DEF PathPlan, PathDone, Discover
  <2>3. state[c] = "none" => pc'[c] = "idle"
    BY <1>1, <1>a DEF PathPlan, PathDone, Discover
  <2> QED
    BY <2>1, <2>2, <2>3, <1>u, KeptClient DEF Holding
<1>2. CASE Building(c)
  <2>1. /\ SameRepo(c) /\ state[c] # "none"
        /\ \/ End(c, "error")
           \/ \E step \in {"packing", "indexing", "written"} : pc' = [pc EXCEPT ![c] = step]
    BY <1>0, <1>2, BuildDoes DEF TypeOK, SameRepo, EmptyOK
  <2>2. pc'[c] \in {"idle", "packing", "indexing", "written"}
    BY <2>1, <1>a, <1>b
  <2> QED
    BY <2>1, <2>2, <1>u, KeptClient DEF Holding
<1>3. CASE PathLock(c)
  <2>1. SameRepo(c)
    BY <1>3 DEF PathLock, SameRepo
  <2>2. pc'[c] \in {"idle", "locked"} /\ state[c] # "none"
    BY <1>3, <1>a, <1>b DEF PathLock, EmptyOK
  <2> QED
    BY <2>1, <2>2, <1>u, KeptClient DEF Holding
<1>4. CASE PathRename(c)
  <2>1. SameRepo(c)
    BY <1>0, <1>4 DEF PathRename, SetHub, Set, ReposType, SameRepo
  <2>2. pc'[c] = "written" /\ state[c] # "none"
    BY <1>4, <1>b DEF PathRename, EmptyOK
  <2> QED
    BY <2>1, <2>2, <1>u, KeptClient DEF Holding
<1>5. CASE NetPlan(c)
  <2> DEFINE specs == cmd[c].specs
             all == Planned(c, specs, seen[c])
  <2>1. SameRepo(c) /\ state[c] # "none"
    BY <1>5 DEF NetPlan, repos, SameRepo, EmptyOK
  <2>2. CASE \E how \in {"error", "ok"} : End(c, how)
    BY <2>1, <2>2, <1>a, <1>u, KeptClient DEF Holding
  <2>3. CASE plan' = Set(plan, c, all) /\ GoTo(c, "sent")
    <3>1. plan'[c] = all /\ pc'[c] = "sent"
      BY <1>0, <2>3 DEF Set, MovingType
    <3>2. \A i \in DOMAIN all : all[i].new = None \/ \E n \in Name : all[i].new = refs[c][n]
      <4>1. specs \in Seq(Refspec) /\ \A k, j \in DOMAIN specs : specs[k].dst = specs[j].dst => k = j
        BY <1>0 DEF MovingType, MoveInv, PlanOK
      <4> QED
        BY <1>0, <4>1, PlannedDecided
    <3> HIDE DEF all
    <3>3. Obj(c)' = Obj(c)
      BY <2>1 DEF SameRepo, Obj
    <3>4. EmptyOK(c)'
      BY <2>1, <3>1 DEF SameRepo, EmptyOK
    <3>5. ASSUME ClientOK(c) PROVE ClientOK(c)'
      <4>1. \A i \in DOMAIN all : all[i].new \in Obj(c) \cup {None}
        BY <3>2, <3>5 DEF ClientOK
      <4> QED
        BY <1>u, <2>1, <3>1, <3>3, <3>5, <4>1 DEF SameRepo, ClientOK, WholeHistory
    <3> QED
      BY <3>4, <3>5
  <2> QED
    BY <1>5, <2>2, <2>3 DEF NetPlan
<1>6. CASE Serve(c)
  <2>1. PICK done \in SUBSET Moves(plan[c]) : ServeEffect(c, done)
    BY <1>6, ServeDoes
  <2>2. UNCHANGED <<state, tracking, loose, pc, plan, seen>> /\ pc[c] = "sent"
    BY <1>6 DEF Serve
  <2>3. packed'[c] = packed[c] /\ refs'[c] = refs[c]
    BY <1>0, <2>1 DEF ServeEffect, SetHub, Set, ReposType
  <2>4. Obj(c)' = Obj(c)
    BY <2>2, <2>3 DEF Obj
  <2> QED
    BY <1>u, <2>2, <2>3, <2>4 DEF EmptyOK, ClientOK, WholeHistory
<1>7. CASE Report(c)
  <2>1. /\ pc[c] = "sent" /\ state[c] # "none" /\ UNCHANGED <<state, refs, loose, packed>>
        /\ pc'[c] = "idle"
    BY <1>7, <1>a DEF Report, EmptyOK
  <2>2. Obj(c)' = Obj(c)
    BY <2>1 DEF Obj
  <2>3. EmptyOK(c)'
    BY <2>1 DEF EmptyOK
  <2>4. ASSUME ClientOK(c), NEW b \in Branch PROVE tracking'[c][b] \in Obj(c) \cup {None}
    BY <1>7, <2>1, <2>4, ReportTracking DEF ClientOK
  <2> QED
    BY <1>u, <2>1, <2>2, <2>3, <2>4 DEF ClientOK, WholeHistory
<1> QED
  BY <1>1, <1>2, <1>3, <1>4, <1>5, <1>6, <1>7 DEF Push, Building

LEMMA FetchClient ==
  ASSUME TypeOK, NEW c \in Client, Fetch(c), EmptyOK(c)
  PROVE  EmptyOK(c)' /\ (ClientOK(c) => ClientOK(c)')
<1>0. /\ ReposType /\ MovingType /\ c \in Repo /\ Tag \subseteq Name /\ Branch \subseteq Name
  BY RepoFacts DEF TypeOK, CoreType
<1> USE DEF At, GoTo
<1>a. ASSUME NEW how, End(c, how) PROVE pc'[c] = "idle"
  BY <1>0, <1>a, EndForgets DEF Forgotten
<1>b. ASSUME NEW step, pc' = [pc EXCEPT ![c] = step] PROVE pc'[c] = step
  BY <1>0, <1>b DEF MovingType
<1>u. ~Unmade(c) /\ (ClientOK(c) => WholeHistory(Obj(c)))
  BY NotUnmade DEF ClientOK, TypeOK
<1>1. CASE LsRefs(c)
  <2>1. SameRepo(c) /\ state[c] # "none"
    BY <1>1 DEF LsRefs, repos, SameRepo
  <2>2. pc'[c] \in {"idle", "listed"}
    BY <1>1, <1>a, <1>b DEF LsRefs
  <2> QED
    BY <2>1, <2>2, <1>u, KeptClient DEF Holding
<1>2. CASE FetchPack(c)
  <2>1. state[c] # "none"
    BY <1>2 DEF FetchPack, EmptyOK
  <2>2. CASE End(c, "error") /\ UNCHANGED packed
    <3>1. SameRepo(c)
      BY <1>2, <2>2 DEF FetchPack, SameRepo
    <3> QED
      BY <2>1, <2>2, <3>1, <1>a, <1>u, KeptClient DEF Holding
  <2>3. CASE /\ CanServe(Wants(c)) /\ GoTo(c, "fetched") /\ UNCHANGED seen
             /\ packed' = Set(packed, c, packed[c] \cup (Sent(Wants(c)) \ loose[c]))
    <3>1. packed'[c] = packed[c] \cup (Sent(Wants(c)) \ loose[c]) /\ pc'[c] = "fetched"
      BY <1>0, <2>3, <1>b DEF Set, ReposType
    <3>2. UNCHANGED <<state, refs, tracking, loose>>
      BY <1>2 DEF FetchPack
    <3>3. Obj(c)' = Obj(c) \cup Sent(Wants(c))
      BY <3>1, <3>2 DEF Obj
    <3>4. /\ WholeHistory(Sent(Wants(c)))
          /\ \A n \in Name : seen[c][n] \in Obj(c) \cup Sent(Wants(c)) \cup {None}
      BY <2>3, SentIsWhole
    <3>5. EmptyOK(c)'
      BY <2>1, <3>1, <3>2 DEF EmptyOK
    <3>6. ClientOK(c) => WholeHistory(Obj(c))'
      BY <1>u, <3>3, <3>4 DEF WholeHistory
    <3> QED
      BY <2>3, <3>1, <3>2, <3>3, <3>4, <3>5, <3>6 DEF ClientOK
  <2> QED
    BY <1>2, <2>2, <2>3 DEF FetchPack
<1>3. CASE FetchRefs(c)
  <2>1. /\ pc[c] = "fetched" /\ pc'[c] = "idle" /\ UNCHANGED <<state, loose, packed>>
        /\ state[c] # "none"
    BY <1>3, <1>a DEF FetchRefs, EmptyOK
  <2>2. tracking'[c] = Follow(c) /\ refs'[c] = TakeTags(c)
    BY <1>0, <1>3 DEF FetchRefs, Set, ReposType
  <2>3. Obj(c)' = Obj(c)
    BY <2>1 DEF Obj
  <2>4. EmptyOK(c)'
    BY <2>1 DEF EmptyOK
  <2>5. ASSUME ClientOK(c)
        PROVE  /\ \A b \in Branch : tracking'[c][b] \in Obj(c) \cup {None}
               /\ \A n \in Name : refs'[c][n] \in Obj(c) \cup {None}
    BY <1>0, <2>1, <2>2, <2>5 DEF ClientOK, Follow, TakeTags
  <2> QED
    BY <1>u, <2>1, <2>3, <2>4, <2>5 DEF ClientOK, WholeHistory
<1> QED
  BY <1>1, <1>2, <1>3 DEF Fetch

LEMMA CloneClient ==
  ASSUME TypeOK, HubOK, NEW c \in Client, Clone(c), EmptyOK(c),
         c \notin ghost.excused => ClientOK(c)
  PROVE  EmptyOK(c)' /\ (c \notin ghost'.excused => ClientOK(c)')
<1>0. /\ ReposType /\ MovingType /\ GhostType /\ c \in Repo /\ Tag \subseteq Name
      /\ Branch \subseteq Name /\ Main \in Name /\ Main \in Branch /\ Hub \in Repo /\ [Next]_vars
  BY RepoFacts DEF TypeOK, CoreType, Next
<1> USE DEF At, GoTo, MayClone
<1>a. ASSUME NEW how, End(c, how) PROVE pc'[c] = "idle"
  BY <1>0, <1>a, EndForgets DEF Forgotten
<1>b. ASSUME NEW step, pc' = [pc EXCEPT ![c] = step] PROVE pc'[c] = step
  BY <1>0, <1>b DEF MovingType
<1>c. c \notin ghost'.excused => c \notin ghost.excused
  BY <1>0, ExcusedGrows
<1>1. CASE CloneList(c)
  <2>1. /\ state[c] = "none" /\ pc'[c] = "clone listed" /\ UNCHANGED <<refs, tracking, loose, packed>>
        /\ state'[c] = "partial"
    BY <1>0, <1>1, <1>b DEF CloneList, Set, ReposType
  <2>2. Obj(c)' = {} /\ refs'[c] = NoRefs /\ tracking'[c] = NoHeads
    BY <2>1 DEF EmptyOK, Obj
  <2> QED
    BY <2>1, <2>2, EmptyClient
<1>2. CASE ClonePack(c)
  <2>1. CASE CleanUp(c)
    BY <2>1, CleanClient
  <2>2. CASE /\ CanServe(Wants(c)) /\ packed' = Set(packed, c, Sent(Wants(c)))
             /\ GoTo(c, "clone fetched")
             /\ UNCHANGED <<state, refs, tracking, loose, seen>>
    <3>1. packed'[c] = Sent(Wants(c)) /\ pc'[c] = "clone fetched" /\ pc[c] = "clone listed"
      BY <1>0, <1>2, <2>2, <1>b DEF Set, ReposType, ClonePack
    <3>2. Obj(c) = {} /\ refs[c] = NoRefs /\ tracking[c] = NoHeads /\ state[c] # "none"
      BY <3>1 DEF EmptyOK
    <3>3. Obj(c)' = Sent(Wants(c))
      BY <2>2, <3>1, <3>2 DEF Obj
    <3>4. /\ WholeHistory(Sent(Wants(c)))
          /\ \A n \in Name : seen[c][n] \in Sent(Wants(c)) \cup {None}
      BY <2>2, <3>2, SentIsWhole
    <3>5. EmptyOK(c)'
      BY <2>2, <3>1, <3>2 DEF EmptyOK
    <3>6. \A n \in Name : refs'[c][n] = None
      BY <2>2, <3>2 DEF NoRefs
    <3>7. \A b \in Branch : tracking'[c][b] = None
      BY <2>2, <3>2 DEF NoHeads
    <3>8. WholeHistory(Obj(c))'
      BY <3>3, <3>4 DEF WholeHistory
    <3> QED
      BY <2>2, <3>1, <3>3, <3>4, <3>5, <3>6, <3>7, <3>8 DEF ClientOK
  <2> QED
    BY <1>2, <2>1, <2>2 DEF ClonePack
<1>3. CASE CloneRefs(c)
  <2>1. /\ pc[c] = "clone fetched" /\ pc'[c] = "checkout" /\ UNCHANGED <<state, loose, packed>>
        /\ state[c] # "none"
    BY <1>3, <1>b DEF CloneRefs, EmptyOK
  <2>2. tracking'[c] = Follow(c) /\ refs'[c] = [TakeTags(c) EXCEPT ![Main] = seen[c][Main]]
    BY <1>0, <1>3 DEF CloneRefs, Set, ReposType
  <2>3. Obj(c)' = Obj(c)
    BY <2>1 DEF Obj
  <2>4. EmptyOK(c)'
    BY <2>1 DEF EmptyOK
  <2>5. ASSUME ClientOK(c)
        PROVE  /\ \A b \in Branch : tracking'[c][b] \in Obj(c) \cup {None}
               /\ \A n \in Name : refs'[c][n] \in Obj(c) \cup {None}
    <3>1. \A n \in Name : TakeTags(c)[n] \in Obj(c) \cup {None} /\ seen[c][n] \in Obj(c) \cup {None}
      BY <2>1, <2>5 DEF ClientOK, TakeTags
    <3>2. \A n \in Name : refs'[c][n] \in {TakeTags(c)[n], seen[c][Main]}
      <4>1. TakeTags(c) \in [Name -> CommitOrNone]
        BY <1>0, FollowType
      <4> HIDE DEF TakeTags
      <4> QED
        BY <1>0, <2>2, <4>1
    <3> QED
      BY <1>0, <2>1, <2>2, <2>5, <3>1, <3>2 DEF ClientOK, Follow
  <2> QED
    BY <1>c, <2>1, <2>3, <2>4, <2>5 DEF ClientOK, Unmade, WholeHistory
<1>4. CASE CopyStart(c)
  <2>1. /\ state[c] = "none" /\ pc'[c] = "copying" /\ UNCHANGED <<refs, tracking, loose, packed>>
        /\ state'[c] = "partial" /\ pack'[c] = Obj(Hub)
    <3> HIDE DEF Obj
    <3> QED
      BY <1>0, <1>4, <1>b DEF CopyStart, Set, ReposType, MovingType
  <2>2. Obj(c) = {} /\ refs[c] = NoRefs /\ tracking[c] = NoHeads
    BY <2>1 DEF EmptyOK
  <2>3. Obj(c)' = {}
    BY <2>1, <2>2 DEF Obj
  <2>4. EmptyOK(c)'
    BY <2>1, <2>2 DEF EmptyOK
  <2>5. ASSUME c \notin ghost'.excused PROVE ClientOK(c)'
    <3>1. Hub \notin ghost.excused
      <4> DEFINE more == IF Hub \in ghost.excused \/ ~WholeHistory(Obj(Hub)) THEN {c} ELSE {}
      <4>1. ghost' = [ghost EXCEPT !.remote = @ + 1, !.excused = @ \cup more]
        BY <1>0, <1>4 DEF CopyStart, GhostType
      <4>2. more \in SUBSET Repo /\ (Hub \in ghost.excused => c \in more)
        BY <1>0
      <4> HIDE DEF more
      <4> QED
        BY <1>0, <2>5, <4>1, <4>2, ExcuseType
    <3>2. Complete(Obj(Hub)) \subseteq Obj(Hub)
      BY <1>0, ObjType, CompleteIsWhole
    <3>3. \A n \in Name : refs'[Hub][n] \in pack'[c] \cup {None}
      BY <2>1, <3>1, <3>2, HubParts DEF HubRefsOK
    <3>4. \A n \in Name : refs'[c][n] = None
      BY <2>1, <2>2 DEF NoRefs
    <3>5. \A b \in Branch : tracking'[c][b] = None
      BY <2>1, <2>2 DEF NoHeads
    <3>6. WholeHistory(Obj(c))'
      BY <2>3 DEF WholeHistory
    <3> QED
      BY <2>1, <3>3, <3>4, <3>5, <3>6 DEF ClientOK
  <2> QED
    BY <2>4, <2>5
<1>5. CASE CopyFiles(c)
  <2>1. pc[c] = "copying" /\ UNCHANGED <<state, refs, tracking, pc, seen, plan, pack>>
    BY <1>5 DEF CopyFiles, moving
  <2>2. state[c] = "partial" /\ refs[c] = NoRefs /\ tracking[c] = NoHeads
    BY <2>1 DEF EmptyOK
  <2>3. EmptyOK(c)' /\ Unmade(c)'
    BY <2>1, <2>2 DEF EmptyOK, Unmade
  <2>4. (\A n \in Name : refs'[c][n] = None) /\ (\A b \in Branch : tracking'[c][b] = None)
    BY <2>1, <2>2 DEF NoRefs, NoHeads
  <2> QED
    BY <1>c, <2>1, <2>3, <2>4 DEF ClientOK
<1>8. CASE CopyFails(c)
  BY <1>8, CleanClient DEF CopyFails
<1>9. CASE CopyHead(c)
  <2>1. /\ pc[c] = "copying" /\ pc'[c] = "headed" /\ UNCHANGED repos /\ pack[c] \subseteq Obj(c)
        /\ seen'[c] = [NoRefs EXCEPT ![Main] = refs[Hub][Main]] /\ state[c] # "none"
    <3> HIDE DEF Obj
    <3> QED
      BY <1>0, <1>9, <1>b DEF CopyHead, Set, MovingType, EmptyOK
  <2>2. seen'[c][Main] = refs[Hub][Main]
    BY <1>0, <2>1 DEF NoRefs
  <2>3. Obj(c)' = Obj(c)
    BY <2>1 DEF Obj, repos
  <2>4. EmptyOK(c)'
    BY <2>1 DEF EmptyOK, repos
  <2>5. c \notin ghost'.excused => WholeHistory(Obj(c))
    <3> DEFINE more == IF WholeHistory(Obj(c)) THEN {} ELSE {c}
    <3>1. ghost' = [ghost EXCEPT !.excused = @ \cup more]
      BY <1>9 DEF CopyHead
    <3>2. more \in SUBSET Repo /\ (~WholeHistory(Obj(c)) => c \in more)
      BY <1>0
    <3> HIDE DEF more
    <3> QED
      BY <1>0, <3>1, <3>2, ExcuseType
  <2> QED
    BY <1>0, <1>c, <2>1, <2>2, <2>3, <2>4, <2>5 DEF ClientOK, Unmade, WholeHistory, repos
<1>6. CASE CopyRefs(c)
  <2>1. /\ pc[c] = "headed" /\ pc'[c] = "checkout" /\ UNCHANGED <<state, loose, packed>>
        /\ tracking'[c] = [b \in Branch |-> refs[Hub][b]] /\ state[c] # "none"
        /\ refs'[c] = [NoRefs EXCEPT ![Main] = seen[c][Main]]
    BY <1>0, <1>6, <1>b DEF CopyRefs, Set, ReposType, EmptyOK
  <2>2. \A n \in Name : refs'[c][n] \in {None, seen[c][Main]}
    BY <1>0, <2>1 DEF NoRefs
  <2>3. Obj(c)' = Obj(c)
    BY <2>1 DEF Obj
  <2>4. EmptyOK(c)'
    BY <2>1 DEF EmptyOK
  <2> QED
    BY <1>0, <1>c, <2>1, <2>2, <2>3, <2>4 DEF ClientOK, Unmade, WholeHistory
<1>7. CASE CloneCheckout(c)
  <2>1. CASE CleanUp(c)
    BY <2>1, CleanClient
  <2>2. CASE /\ state' = Set(state, c, "ready") /\ End(c, "ok")
             /\ UNCHANGED <<refs, tracking, loose, packed, lock, ghost>>
    <3>1. pc[c] = "checkout" /\ pc'[c] = "idle" /\ state'[c] = "ready"
      BY <1>0, <1>7, <2>2, <1>a DEF CloneCheckout, Set, ReposType
    <3>2. Obj(c)' = Obj(c)
      BY <2>2 DEF Obj
    <3> QED
      BY <1>c, <2>2, <3>1, <3>2 DEF EmptyOK, ClientOK, Unmade, WholeHistory
  <2> QED
    BY <1>7, <2>1, <2>2 DEF CloneCheckout
<1> QED
  BY <1>1, <1>2, <1>3, <1>4, <1>5, <1>6, <1>7, <1>8, <1>9 DEF Clone

LEMMA WorkClient ==
  ASSUME TypeOK, NEW c \in Client, MakeCommit(c) \/ MoveRef(c) \/ ConnectionLost(c) \/ Crash(c),
         EmptyOK(c)
  PROVE  EmptyOK(c)' /\ (ClientOK(c) => ClientOK(c)')
<1>0. /\ ReposType /\ MovingType /\ c \in Repo /\ Branch \subseteq Name
      /\ refs[c] \in [Name -> CommitOrNone]
  BY RepoFacts DEF TypeOK, CoreType, ReposType
<1> USE DEF At, MayWork
<1>a. ASSUME NEW how, End(c, how) PROVE pc'[c] = "idle"
  BY <1>0, <1>a, EndForgets DEF Forgotten
<1>v. MakeCommit(c) \/ MoveRef(c) => (ClientOK(c) => WholeHistory(Obj(c)))
  BY NotUnmade DEF ClientOK, TypeOK
<1>1. CASE MakeCommit(c)
  <2>1. PICK x \in Commit, b \in Branch :
          /\ Parents[x] \subseteq Known(c)
          /\ loose' = Set(loose, c, loose[c] \cup {x})
          /\ refs' = Set(refs, c, [refs[c] EXCEPT ![b] = x])
    BY <1>1 DEF MakeCommit
  <2>2. /\ state[c] = "ready" /\ pc[c] = "idle" /\ UNCHANGED <<state, tracking, packed, moving>>
    BY <1>1 DEF MakeCommit
  <2>3. loose'[c] = loose[c] \cup {x} /\ refs'[c] = [refs[c] EXCEPT ![b] = x]
    BY <1>0, <2>1 DEF Set, ReposType
  <2>4. Obj(c)' = Obj(c) \cup {x} /\ Parents[x] \subseteq Obj(c)
    BY <2>1, <2>2, <2>3 DEF Obj, Known
  <2>5. \A n \in Name : refs'[c][n] \in {x, refs[c][n]}
    BY <1>0, <2>3
  <2>6. EmptyOK(c)'
    BY <2>2 DEF EmptyOK, moving
  <2>7. ClientOK(c) => WholeHistory(Obj(c))'
    BY <1>1, <1>v, <2>4 DEF WholeHistory
  <2> QED
    BY <2>2, <2>4, <2>5, <2>6, <2>7 DEF ClientOK, moving
<1>2. CASE MoveRef(c)
  <2>1. PICK n \in Name, x \in Known(c) : refs' = Set(refs, c, [refs[c] EXCEPT ![n] = x])
    BY <1>2 DEF MoveRef
  <2>2. /\ state[c] = "ready" /\ pc[c] = "idle" /\ UNCHANGED <<state, tracking, loose, packed, moving>>
    BY <1>2 DEF MoveRef
  <2>3. refs'[c] = [refs[c] EXCEPT ![n] = x]
    BY <1>0, <2>1 DEF Set, ReposType
  <2>4. Obj(c)' = Obj(c) /\ x \in Obj(c)
    BY <2>1, <2>2 DEF Obj, Known
  <2>5. \A m \in Name : refs'[c][m] \in {x, refs[c][m]}
    BY <1>0, <2>3
  <2> QED
    BY <1>2, <1>v, <2>2, <2>4, <2>5 DEF EmptyOK, ClientOK, WholeHistory, moving
<1>3. CASE ConnectionLost(c)
  <2>1. CASE pc[c] \in {"sent", "listed"} /\ End(c, "error") /\ UNCHANGED repos
    <3>1. SameRepo(c) /\ pc'[c] = "idle"
      BY <2>1, <1>a DEF repos, SameRepo
    <3> QED
      BY <3>1, KeptClient DEF Holding
  <2>2. CASE /\ At(c, "clone listed") /\ End(c, "error")
             /\ UNCHANGED <<refs, tracking, loose, packed, lock>>
    <3>1. Obj(c)' = {} /\ refs'[c] = NoRefs /\ tracking'[c] = NoHeads
      BY <2>2 DEF EmptyOK, Obj
    <3> QED
      BY <2>2, <3>1, <1>a, EmptyClient
  <2> QED
    BY <1>3, <2>1, <2>2 DEF ConnectionLost
<1>4. CASE Crash(c)
  <2>1. SameRepo(c) /\ pc'[c] = "idle"
    BY <1>4, <1>a DEF Crash, SameRepo
  <2> QED
    BY <2>1, KeptClient DEF Holding
<1> QED
  BY <1>1, <1>2, <1>3, <1>4

-----------------------------------------------------------------------------
(* Every step together. *)

LEMMA WholeInit == Init => WholeInv
<1> SUFFICES ASSUME Init PROVE WholeInv
  OBVIOUS
<1> DEFINE start == [NoRefs EXCEPT ![Main] = First]
<1>0. First \in Commit /\ Parents[First] = {}
  BY FirstFacts
<1>1. TypeOK /\ MoveInv
  BY InitType, InitMove
<1>2. /\ pc = [c \in Client |-> "idle"] /\ plan = [c \in Client |-> <<>>]
      /\ \A r \in Repo : /\ loose[r] = {} /\ packed[r] \in {{}, {First}}
                         /\ refs[r] \in {NoRefs, start}
      /\ packed[Hub] = {First} /\ refs[Hub] = start /\ sweep.at = "idle"
  BY RepoFacts DEF Init
<1>3. \A n \in Name : start[n] \in {First, None} /\ NoRefs[n] = None
  BY RepoFacts DEF NoRefs
<1>4. \A r \in Repo : Obj(r) = packed[r] /\ WholeHistory(Obj(r))
  BY <1>0, <1>2 DEF Obj, WholeHistory
<1>5. HubOK
  <2>1. Complete(Obj(Hub)) = {First}
    BY <1>0, <1>2, <1>4, RepoFacts, WholeIsComplete
  <2>2. \A n \in Name : refs[Hub][n] \in Complete(Obj(Hub)) \cup {None}
    BY <1>2, <1>3, <2>1
  <2> QED
    BY <1>2, <2>2 DEF HubOK
<1>6. ASSUME NEW c \in Client PROVE EmptyOK(c) /\ ClientOK(c)
  <2>1. c \in Repo /\ c # Hub
    BY RepoFacts
  <2>2. CASE state[c] = "ready"
    <3>1. /\ packed[c] = {First} /\ refs[c] = start
          /\ tracking[c] = [NoHeads EXCEPT ![Main] = First]
      BY <2>1, <2>2 DEF Init
    <3>2. \A b \in Branch : tracking[c][b] \in {First, None}
      BY <3>1 DEF NoHeads
    <3> QED
      BY <1>2, <1>3, <1>4, <2>1, <2>2, <3>1, <3>2 DEF EmptyOK, ClientOK
  <2>3. CASE state[c] # "ready"
    <3>1. /\ packed[c] = {} /\ refs[c] = NoRefs /\ tracking[c] = NoHeads
      BY <2>1, <2>3 DEF Init
    <3>2. \A b \in Branch : tracking[c][b] = None
      BY <3>1 DEF NoHeads
    <3> QED
      BY <1>2, <1>3, <1>4, <2>1, <2>3, <3>1, <3>2 DEF EmptyOK, ClientOK
  <2> QED
    BY <2>2, <2>3
<1> QED
  BY <1>1, <1>5, <1>6 DEF WholeInv

LEMMA WholeStep ==
  ASSUME WholeInv, [Next]_vars
  PROVE  WholeInv'
<1>0. TypeOK /\ MoveInv /\ HubOK /\ TypeOK' /\ MoveInv'
  BY TypeStep, MoveStep DEF WholeInv
<1>1. ASSUME NEW c \in Client, ClientStep(c) PROVE WholeInv'
  <2>1. HubOK'
    <3> SUFFICES ASSUME Hub \notin ghost'.excused PROVE HubOK'
      BY DEF HubOK
    <3>1. HubRefsOK /\ SweepOK /\ \A d \in Client : AboutOK(d)
      BY <1>0, ExcusedGrows, HubParts
    <3>2. HubRefsOK' /\ AboutOK(c)'
      BY <1>0, <1>1, <3>1, HubRefsStep, AboutStep
    <3>5. SweepOK'
      <4>1. sweep' = sweep /\ GhostType
        BY <1>0, <1>1, SweepStays DEF TypeOK, CoreType
      <4>2. sweep.at # "idle" => refs'[Hub] = refs[Hub]
        <5>1. ASSUME NEW new, NEW k, SetHub(new, k) PROVE sweep.at = "idle"
          BY <4>1, <5>1, SetHubExcuses
        <5> QED
          BY <1>0, <1>1, <5>1, HubQuiet DEF PathRename, Serve
      <4> QED
        BY <3>1, <4>1, <4>2 DEF SweepOK
    <3>3. ASSUME NEW d \in Client \ {c} PROVE AboutOK(d)'
      <4>0. /\ Obj(Hub) \in SUBSET Commit /\ Obj(Hub)' \in SUBSET Commit
            /\ Obj(Hub) \subseteq Obj(Hub)' /\ SameCommand(d)
        <5>1. Obj(Hub) \in SUBSET Commit /\ Obj(Hub)' \in SUBSET Commit
          BY <1>0, RepoFacts DEF TypeOK, CoreType, ReposType, Obj
        <5> QED
          BY <1>0, <1>1, <5>1, HubStore, OthersKept
      <4>1. Complete(Obj(Hub)) \subseteq Complete(Obj(Hub)')
        BY <4>0, CompleteGrows
      <4>2. pc[d] \in {"packing", "indexing"} =>
              Complete(Obj(Hub) \cup pack[d]) \subseteq Complete(Obj(Hub)' \cup pack[d])
        <5>1. pc[d] \in {"packing", "indexing"} => pack[d] \in SUBSET Commit
          BY <1>0 DEF MoveInv, PlanOK, Carrying
        <5> QED
          BY <4>0, <5>1, CompleteGrows
      <4>3. /\ Complete(Obj(Hub))' = Complete(Obj(Hub)')
            /\ Complete(Obj(Hub) \cup pack[d])' = Complete(Obj(Hub)' \cup pack'[d])
        BY DEF Complete
      <4> QED
        BY <3>1, <4>0, <4>1, <4>2, <4>3 DEF SameCommand, AboutOK
    <3>4. HubOK' <=> (Hub \notin ghost'.excused =>
                        HubRefsOK' /\ SweepOK' /\ \A d \in Client : AboutOK(d)')
      BY DEF HubOK, HubRefsOK, SweepOK, AboutOK
    <3> QED
      BY <3>2, <3>3, <3>4, <3>5
  <2>2. ASSUME NEW d \in Client PROVE EmptyOK(d)' /\ (d \notin ghost'.excused => ClientOK(d)')
    <3>0. EmptyOK(d) /\ (d \notin ghost.excused => ClientOK(d))
          /\ (d \notin ghost'.excused => d \notin ghost.excused)
      BY <1>0, ExcusedGrows DEF WholeInv
    <3>1. CASE d # c
      BY <1>0, <1>1, <3>0, <3>1, OtherClient
    <3>2. CASE d = c
      BY <1>0, <1>1, <3>0, <3>2, PushClient, FetchClient, CloneClient, WorkClient DEF ClientStep
    <3> QED
      BY <3>1, <3>2
  <2> QED
    BY <1>0, <2>1, <2>2 DEF WholeInv
<1>2. ASSUME NEW c \in Client, Gc(c) PROVE WholeInv'
  <2>1. HubOK'
    BY <1>0, <1>2, GcHub
  <2>2. ASSUME NEW d \in Client PROVE EmptyOK(d)' /\ (d \notin ghost'.excused => ClientOK(d)')
    BY <1>0, <1>2, GcClient DEF WholeInv
  <2> QED
    BY <1>0, <2>1, <2>2 DEF WholeInv
<1>4. CASE Sweeping
  <2>1. HubOK'
    BY <1>0, <1>4, SweepHub
  <2>2. ASSUME NEW d \in Client PROVE EmptyOK(d)' /\ (d \notin ghost'.excused => ClientOK(d)')
    BY <1>0, <1>4, SweepClient DEF WholeInv
  <2> QED
    BY <1>0, <2>1, <2>2 DEF WholeInv
<1>3. CASE PruneLocks \/ UNCHANGED vars
  <2>1. UNCHANGED <<state, refs, tracking, loose, packed, sweep, moving, ghost>>
    BY <1>3 DEF PruneLocks, vars, repos, built
  <2>2. \A r : Obj(r)' = Obj(r)
    BY <2>1 DEF Obj
  <2>3. /\ Complete(Obj(Hub))' = Complete(Obj(Hub))
        /\ \A d \in Client : Complete(Obj(Hub) \cup pack[d])' = Complete(Obj(Hub) \cup pack[d])
    BY <2>1, <2>2 DEF Complete, moving
  <2>4. HubOK'
    BY <1>0, <2>1, <2>3 DEF moving, HubOK
  <2>5. \A d \in Client : EmptyOK(d)' /\ (d \notin ghost'.excused => ClientOK(d)')
    BY <2>1, <2>2 DEF WholeInv, moving, EmptyOK, ClientOK, Unmade, WholeHistory
  <2> QED
    BY <1>0, <2>4, <2>5 DEF WholeInv
<1> QED
  BY <1>1, <1>2, <1>3, <1>4 DEF Next, ClientStep, Sweeping

\* Whatever a ref of a repository leads to is there, at every step and after any
\* crash, for any clients, histories and pushes: objects arrive before the refs that
\* need them, file by file and pack by pack, unless a torn file, a gc or a ref that
\* moved under a copy has excused the repository (push_local, repack,
\* fetch_into_repo, clone_inner).
THEOREM ObjectsBeforeRefs == Spec => []RefsWhole
<1>1. WholeInv => RefsWhole
  <2> SUFFICES ASSUME WholeInv, NEW r \in Repo, r \notin ghost.excused
               PROVE  Reach(Roots(r), Obj(r)) \subseteq Obj(r)
    BY DEF RefsWhole
  <2>1. Roots(r) \in SUBSET CommitOrNone /\ Obj(r) \in SUBSET Commit
    BY RootsType, ObjType DEF WholeInv, TypeOK, CoreType
  <2>2. CASE r = Hub
    <3>1. Roots(Hub) \ {None} \subseteq Complete(Obj(Hub))
      BY <2>2 DEF WholeInv, HubOK, Roots
    <3> QED
      BY <2>1, <2>2, <3>1, WalkStays
  <2>3. CASE r \in Client
    <3>1. ClientOK(r) /\ r # Hub
      BY <2>3, RepoFacts DEF WholeInv
    <3>2. CASE WholeHistory(Obj(r))
      <4>1. Roots(r) \ {None} \subseteq Obj(r)
        BY <3>1 DEF ClientOK, Roots
      <4>2. Complete(Obj(r)) = Obj(r)
        BY <2>1, <3>2, WholeIsComplete
      <4> QED
        BY <2>1, <4>1, <4>2, WalkStays
    <3>3. CASE Unmade(r)
      <4>1. Roots(r) \ {None} = {}
        BY <3>1, <3>3 DEF Unmade, Roots, NoRefs, NoHeads
      <4> QED
        BY <2>1, <4>1, WalkStays
    <3> QED
      BY <3>1, <3>2, <3>3 DEF ClientOK
  <2> QED
    BY <2>2, <2>3 DEF Repo
<1>2. WholeInv /\ [Next]_vars => WholeInv'
  BY WholeStep
<1> QED
  BY <1>1, <1>2, WholeInit, PTL DEF Spec

=============================================================================
