-------------------------- MODULE SequencerProofs ---------------------------
(***************************************************************************)
(* What a sequence of picks may be trusted with, for any lists of picks,   *)
(* any number of sequences, conflicts and crashes: the state on disk is    *)
(* always that of the memory it was saved from or of the one before, so a  *)
(* command that dies can be continued and undone (WrittenAhead), nothing   *)
(* that was asked for is skipped (FinishedApplied), and --abort goes back  *)
(* to where the sequence began (AbortRestores).                            *)
(*                                                                         *)
(* Typed is inductive by itself; Undoable given Typed; Resumable given     *)
(* both.                                                                   *)
(***************************************************************************)
EXTENDS Sequencer, SequenceTheorems, FiniteSetTheorems, TLAPS

\* The steps of the loop over todo, from which the state on disk is resumed.
LoopPhases == {"loop", "merge", "conflictindex", "conflictmarker",
            "pickwork", "pickindex", "pickref", "unmark"}
\* A rebase before it has saved anything.
RebasePhases == {"ffcheck", "ffwork", "ffindex", "ffref",
              "rewind", "rewindcheck", "rewindwork", "rewindindex"}
AbortPhases == {"abort", "forcework", "forceindex"}
Checkouts == {"pickwork", "pickindex", "pickref", "ffcheck", "ffwork", "ffindex", "rewind",
              "rewindcheck", "rewindwork", "rewindindex", "forcework", "forceindex"}
Phases   == {"idle", "save", "cleanup"} \cup LoopPhases \cup RebasePhases \cup AbortPhases

FileNames == {"head-name", "orig-head", "onto", "todo", "done", "current", "mode"}

\* The branches whose history begins as that of every tip and onto.
Rooted == {c \in Commit : \A d \in Tips \cup Ontos : c[1] = d[1]}

Trees   == [Path -> Content]
Indexes == [Path -> Content \cup {Unmerged}]

States == [orig : Rooted \cup {None}, onto : Rooted \cup {None},
           todo : Seq(Pickable), done : Seq(Pickable),
           current : Pickable \cup {None}, revert : BOOLEAN]

FilesTyped ==
  /\ DOMAIN file \subseteq FileNames
  /\ "orig-head" \in DOMAIN file => file["orig-head"] \in Rooted
  /\ "onto" \in DOMAIN file => file["onto"] \in Rooted
  /\ "todo" \in DOMAIN file => file["todo"] \in Seq(Pickable)
  /\ "done" \in DOMAIN file => file["done"] \in Seq(Pickable)
  /\ "current" \in DOMAIN file => file["current"] \in Pickable
  /\ "mode" \in DOMAIN file => file["mode"] = TRUE

RepoTyped ==
  /\ tip \in Rooted
  /\ index \in Indexes
  /\ \A p \in Path : index[p] = Unmerged => p \in stages
  /\ marker \in Pickable \cup {None}

\* A tree to check out has no conflict in it; only a pick in conflict has one.
TargetTyped ==
  /\ pc \in Checkouts => target \in Trees
  /\ pc = "conflictindex" => target \in Indexes

MemTyped ==
  /\ mem \in States
  /\ pc # "idle" => mem.orig \in Rooted /\ mem.onto \in Rooted
  /\ pc \in LoopPhases \ {"loop"} => mem.todo # <<>> /\ head \in Rooted

SofarTyped ==
  sofar \in [from : Rooted, base : Rooted, goal : Seq(Pickable), revert : BOOLEAN,
             dealt : SUBSET Message]

CountTyped ==
  count \in [sequences : Nat, crashes : Nat, edits : Nat, torn : BOOLEAN]

Typed ==
  /\ pc \in Phases /\ saved \in 0..7 /\ exists \in BOOLEAN
  /\ RepoTyped /\ FilesTyped /\ TargetTyped /\ MemTyped /\ SofarTyped /\ CountTyped

\* The state on disk and in memory names where the sequence began, and nothing is
\* left of a state that is gone.
OrigKept ==
  /\ "orig-head" \in DOMAIN file => file["orig-head"] = sofar.from
  /\ pc # "idle" => mem.orig = sofar.from
  /\ ~exists => DOMAIN file = {}
  /\ pc \in RebasePhases => ~exists

\* What an --abort under way has undone so far.
AbortOnTheWay ==
  /\ cmd \in {None, "start", "continue", "abort"}
  /\ pc \in AbortPhases => cmd = "abort"
  /\ cmd = "abort" => pc \in AbortPhases \cup {"cleanup"}
  /\ pc \in {"forcework", "forceindex"} => tip = sofar.from /\ target = Tree(sofar.from)
  /\ cmd = "abort" /\ pc = "cleanup" =>
       tip = sofar.from /\ index = Tree(sofar.from) /\ stages = {}

Undoable == OrigKept /\ AbortOnTheWay

\* The file f has what State::save writes there for m.
HoldsIn(files, m, f) ==
  IF Absent(m, f) THEN f \notin DOMAIN files ELSE f \in DOMAIN files /\ files[f] = Value(m, f)
Holds(m, f) == HoldsIn(file, m, f)

\* What was asked for is dealt with, or among what is still to do.
Covers(s, todo, current) ==
  \A i \in DOMAIN s.goal :
    \/ Msg(s.goal[i], s.revert) \in s.dealt
    \/ \E j \in DOMAIN todo : todo[j] = s.goal[i]
    \/ s.goal[i] = current

DiskGood ==
  /\ Loadable
  /\ Loaded.revert = sofar.revert
  /\ CommitsFirst => Covers(sofar, Loaded.todo, Loaded.current)

\* Unless it is just being written or removed, the state on disk is a whole one.
DiskWhole == exists /\ ~Tearing => DiskGood

\* A save has written what is in memory as far as it has come.
SavedSoFar ==
  /\ pc = "save" => \A i \in 1..saved : Holds(mem, Files[i])
  /\ pc # "save" => saved = 0

\* What the process knows of the sequence, and what of it is on disk.
MemKnows ==
  /\ pc # "idle" => mem.revert = sofar.revert
  /\ pc \in LoopPhases =>
       /\ exists /\ Loadable /\ Loaded.todo = mem.todo /\ Loaded.current = None
       /\ mem.current = None
  /\ pc \in RebasePhases => mem.current = None
  /\ CommitsFirst /\ cmd # "abort" /\ pc # "idle" =>
       Covers(sofar, IF pc = "cleanup" THEN <<>> ELSE mem.todo, mem.current)
  /\ pc = "cleanup" /\ cmd # "abort" => mem.current = None
  /\ pc = "unmark" => Msg(Pick, mem.revert) \in sofar.dealt

Whole == DiskWhole /\ SavedSoFar /\ MemKnows

Resumable == ~count.torn => Whole

-----------------------------------------------------------------------------
(* Operators.                                                              *)

\* The first elements of a sequence.
LEMMA FirstOf ==
  ASSUME NEW S, NEW s \in Seq(S), NEW n \in 0..Len(s)
  PROVE  /\ SubSeq(s, 1, n) \in Seq(S)
         /\ Len(SubSeq(s, 1, n)) = n
         /\ \A i \in 1..n : SubSeq(s, 1, n)[i] = s[i]
<1>1. Len(s) \in Nat /\ \A i \in 1..Len(s) : s[i] \in S
  OBVIOUS
<1>2. n \in Int /\ \A i \in 1..n : s[i] \in S
  BY <1>1
<1> QED
  BY <1>2, SubSeqProperties

LEMMA RootedIsCommit == Rooted \subseteq Commit
  BY DEF Rooted

\* The last commit of a history, and the tree it gives.
LEMMA CommitTree ==
  ASSUME NEW c \in Commit
  PROVE  c # <<>> /\ Len(c) \in Nat \ {0} /\ Tree(c) \in Trees /\ Last(c).msg \in Message
<1>1. Len(c) \in Nat /\ Len(c) # 0
  BY DEF Commit
<1>2. c \in Seq(Entries) /\ Last(c) \in Entries
  BY <1>1 DEF Commit, Last
<1>3. c # <<>>
  BY DEF Commit
<1>4. Tree(c) \in Trees /\ Last(c).msg \in Message
  BY <1>2 DEF Tree, Trees, Entries
<1> QED
  BY <1>1, <1>3, <1>4

\* The parent of what can be picked is a commit.
LEMMA ParentTree ==
  ASSUME NEW c \in Pickable
  PROVE  c \in Commit /\ Parent(c) \in Commit /\ Tree(Parent(c)) \in Trees
<1>1. c \in Commit /\ Len(c) > 1
  BY DEF Pickable
<1>2. c \in Seq(Entries) /\ Len(c) - 1 \in 0..Len(c)
  BY <1>1 DEF Commit
<1>3. /\ Front(c) \in Seq(Entries)
      /\ Len(Front(c)) = Len(c) - 1
  BY <1>2, FirstOf DEF Front
<1>4. Parent(c) \in Commit
  BY <1>1, <1>3 DEF Parent, Commit
<1> QED
  BY <1>1, <1>4, CommitTree

\* The message of a pick.
LEMMA MsgTyped ==
  ASSUME NEW c \in Pickable, NEW revert \in BOOLEAN
  PROVE  Msg(c, revert) \in Message
<1>1. Last(c).msg \in Seq(Word)
  BY ParentTree, CommitTree DEF Message
<1>2. <<"Revert">> \in Seq(Word)
  BY SequencerAssumption
<1>3. <<"Revert">> \o Last(c).msg \in Seq(Word)
  BY <1>1, <1>2, ConcatProperties
<1> QED
  BY <1>1, <1>3 DEF Msg, Message

\* The three trees of a pick, and what their merge is.
LEMMA MergeTyped ==
  ASSUME NEW base \in Trees, NEW ours \in Trees, NEW theirs \in Trees
  PROVE  /\ Merge(base, ours, theirs) \in Indexes
         /\ (\A p \in Path : Merge(base, ours, theirs)[p] # Unmerged)
              => Merge(base, ours, theirs) \in Trees
  BY DEF Merge, Trees, Indexes

LEMMA PickTrees ==
  ASSUME NEW c \in Pickable, NEW revert \in BOOLEAN
  PROVE  Base(c, revert) \in Trees /\ Theirs(c, revert) \in Trees
  BY ParentTree, CommitTree DEF Base, Theirs

\* A commit on top of another keeps its root.
LEMMA AppendRooted ==
  ASSUME NEW c \in Rooted, NEW tree \in Trees, NEW msg \in Message
  PROVE  Append(c, Entry(tree, msg)) \in Rooted
<1>1. c \in Seq(Entries) /\ Len(c) \in Nat /\ Len(c) # 0
  BY DEF Rooted, Commit
<1>2. Entry(tree, msg) \in Entries
  BY DEF Entry, Trees, Entries
<1>3. Append(c, Entry(tree, msg)) \in Commit
  BY <1>1, <1>2 DEF Commit
<1>4. Append(c, Entry(tree, msg))[1] = c[1]
  BY <1>1, <1>2
<1> QED
  BY <1>3, <1>4 DEF Rooted

\* Two branches of one root have a merge base, and what is above it can be replayed.
LEMMA ReplayTyped ==
  ASSUME NEW c \in Rooted, NEW d \in Ontos
  PROVE  ToReplay(c, MergeBase(c, d)) \in Seq(Pickable)
<1> DEFINE
        shared == {i \in DOMAIN c : IsPrefix(SubSeq(c, 1, i), d)}
        k == Cardinality(shared)
<1>1. c \in Seq(Entries) /\ Len(c) \in Nat /\ 1 <= Len(c) /\ DOMAIN c = 1..Len(c)
  BY DEF Rooted, Commit
<1>2. d \in Seq(Entries) /\ Len(d) \in Nat /\ 1 <= Len(d) /\ c[1] = d[1]
  BY SequencerAssumption DEF Rooted, Commit
<1>3. IsFiniteSet(shared) /\ k <= Len(c) /\ k \in Nat
  <2>1. IsFiniteSet(1..Len(c)) /\ Cardinality(1..Len(c)) = Len(c)
    BY <1>1, FS_Interval
  <2>2. shared \subseteq 1..Len(c)
    BY <1>1
  <2> QED
    BY <2>1, <2>2, FS_Subset, FS_CardinalityType
<1>4. 1 \in shared
  <2>1. 1 \in DOMAIN c
    BY <1>1
  <2>2. /\ SubSeq(c, 1, 1) \in Seq(Entries) /\ Len(SubSeq(c, 1, 1)) = 1
        /\ SubSeq(c, 1, 1)[1] = c[1]
    BY <1>1, FirstOf
  <2>3. /\ SubSeq(SubSeq(c, 1, 1), 1, 1) \in Seq(Entries) /\ Len(SubSeq(SubSeq(c, 1, 1), 1, 1)) = 1
        /\ SubSeq(SubSeq(c, 1, 1), 1, 1)[1] = c[1]
    BY <2>2, FirstOf
  <2>5. /\ SubSeq(d, 1, 1) \in Seq(Entries) /\ Len(SubSeq(d, 1, 1)) = 1 /\ SubSeq(d, 1, 1)[1] = d[1]
    BY <1>2, FirstOf
  <2>6. SubSeq(SubSeq(c, 1, 1), 1, 1) = SubSeq(d, 1, 1)
    BY <1>2, <2>3, <2>5, SeqEqual
  <2>4. IsPrefix(SubSeq(c, 1, 1), d)
    BY <1>2, <2>2, <2>6 DEF IsPrefix
  <2> QED
    BY <2>1, <2>4
<1>5. 1 <= k
  BY <1>3, <1>4, FS_EmptySet
<1>6. MergeBase(c, d) = SubSeq(c, 1, k)
  BY DEF MergeBase
<1>7. Len(MergeBase(c, d)) = k
  BY <1>1, <1>3, <1>6, FirstOf
<1>8. ASSUME NEW i \in 1..(Len(c) - k)
      PROVE  SubSeq(c, 1, k + i) \in Pickable
  <2>1. SubSeq(c, 1, k + i) \in Seq(Entries) /\ Len(SubSeq(c, 1, k + i)) = k + i
    <3>1. k + i \in 0..Len(c)
      BY <1>1, <1>3, <1>8
    <3> QED
      BY <1>1, <3>1, FirstOf
  <2>2. k + i > 1
    BY <1>3, <1>5, <1>8
  <2>3. SubSeq(c, 1, k + i) # <<>>
    <3>1. \A s \in Seq(Entries) : Len(s) > 1 => s # <<>>
      OBVIOUS
    <3> HIDE DEF k
    <3> QED
      BY <2>1, <2>2, <3>1
  <2> QED
    BY <2>1, <2>2, <2>3 DEF Pickable, Commit
<1> HIDE DEF k
<1>9. ToReplay(c, MergeBase(c, d)) = [i \in 1..(Len(c) - k) |-> SubSeq(c, 1, k + i)]
  BY <1>7 DEF ToReplay
<1>10. Len(c) - k \in Nat
  BY <1>1, <1>3
<1>11. ToReplay(c, MergeBase(c, d)) \in [1..(Len(c) - k) -> Pickable]
  BY <1>8, <1>9
<1> QED
  BY <1>10, <1>11

-----------------------------------------------------------------------------
(* Types.                                                                  *)

LEMMA EmptyTyped == EmptyState \in States
  BY SequencerAssumption DEF EmptyState, States

\* What is loaded is what State::save can have written.
LEMMA LoadedTyped ==
  ASSUME FilesTyped, Loadable
  PROVE  Loaded \in States /\ Loaded.orig \in Rooted /\ Loaded.onto \in Rooted
<1>1. /\ file["orig-head"] \in Rooted /\ file["onto"] \in Rooted
      /\ FileOr("todo", <<>>) \in Seq(Pickable)
      /\ FileOr("done", <<>>) \in Seq(Pickable)
      /\ FileOr("current", None) \in Pickable \cup {None}
  BY DEF FilesTyped, Loadable, FileOr
<1>4. FileOr("mode", FALSE) \in BOOLEAN
  BY Zenon DEF FilesTyped, FileOr
<1>2. \A o, n \in Rooted, t, d \in Seq(Pickable), c \in Pickable \cup {None}, r \in BOOLEAN :
        [orig |-> o, onto |-> n, todo |-> t, done |-> d, current |-> c, revert |-> r] \in States
  BY DEF States
<1>3. Loaded \in States
  BY <1>1, <1>2, <1>4 DEF Loaded
<1> QED
  BY <1>1, <1>3 DEF Loaded

\* What one file holds once it is saved.
LEMMA SavedIs ==
  ASSUME NEW m, NEW f
  PROVE  /\ Absent(m, f) => /\ DOMAIN Saved(m, f) = DOMAIN file \ {f}
                            /\ \A g \in DOMAIN Saved(m, f) : Saved(m, f)[g] = file[g]
         /\ ~Absent(m, f) => /\ DOMAIN Saved(m, f) = DOMAIN file \cup {f}
                             /\ Saved(m, f)[f] = Value(m, f)
                             /\ \A g \in DOMAIN file : g # f => Saved(m, f)[g] = file[g]
  BY DEF Saved

LEMMA FilesAre ==
  /\ Len(Files) = 7
  /\ Files[1] = "head-name" /\ Files[2] = "orig-head" /\ Files[3] = "onto" /\ Files[4] = "todo"
  /\ Files[5] = "done" /\ Files[6] = "current" /\ Files[7] = "mode"
  BY DEF Files

LEMMA TypedInit == Init => Typed
<1> SUFFICES ASSUME Init PROVE Typed
  OBVIOUS
<1>1. tip \in Rooted
  BY SequencerAssumption DEF Init, Rooted
<1>2. tip \in Commit /\ Tree(tip) \in Trees
  BY <1>1, RootedIsCommit, CommitTree
<1>3. RepoTyped
  BY <1>1, <1>2, SequencerAssumption DEF Init, RepoTyped, Indexes, Trees
<1>4. FilesTyped
  BY DEF Init, FilesTyped
<1>5. MemTyped /\ TargetTyped
  BY EmptyTyped DEF Init, MemTyped, TargetTyped, LoopPhases, Checkouts
<1>6. SofarTyped /\ CountTyped
  BY <1>1 DEF Init, SofarTyped, CountTyped
<1>7. pc \in Phases /\ saved \in 0..7
  BY DEF Init, Phases
<1>8. exists \in BOOLEAN
  BY DEF Init
<1> QED
  BY <1>3, <1>4, <1>5, <1>6, <1>7, <1>8 DEF Typed

\* A command that ends forgets all it knew.
LEMMA EndTyped ==
  ASSUME Typed, End
  PROVE  pc' = "idle" /\ saved' = 0 /\ MemTyped' /\ TargetTyped'
  BY EmptyTyped DEF End, GoTo, MemTyped, TargetTyped, LoopPhases, Checkouts

\* The parts of the type that a step leaves alone.
LEMMA TypedKept ==
  ASSUME Typed
  PROVE  /\ UNCHANGED <<tip, index, stages, marker>> => RepoTyped'
         /\ UNCHANGED state => FilesTyped' /\ exists' \in BOOLEAN
         /\ UNCHANGED sofar => SofarTyped'
         /\ UNCHANGED count => CountTyped'
         /\ UNCHANGED <<pc, proc>> => MemTyped' /\ TargetTyped'
  BY DEF Typed, state, proc, RepoTyped, FilesTyped, SofarTyped, CountTyped, MemTyped, TargetTyped

LEMMA BumpTyped ==
  ASSUME CountTyped, NEW n \in {"sequences", "crashes", "edits"}, Bump(n)
  PROVE  CountTyped'
  BY DEF CountTyped, Bump

LEMMA DealTyped ==
  ASSUME SofarTyped, NEW m \in Message, Deal(m)
  PROVE  SofarTyped'
  BY DEF SofarTyped, Deal

\* cherry-pick, revert and rebase start.
LEMMA StartTyped == Typed /\ (StartPicks \/ StartRebase) => Typed'
<1> SUFFICES ASSUME Typed, StartPicks \/ StartRebase PROVE Typed'
  OBVIOUS
<1>1. CASE StartPicks
  <2>1. PICK s \in Picks :
          /\ mem' = [EmptyState EXCEPT !.orig = tip, !.onto = tip,
                                       !.todo = s.todo, !.revert = s.revert]
          /\ sofar' = [from |-> tip, base |-> tip, goal |-> s.todo, revert |-> s.revert, dealt |-> {}]
    BY <1>1 DEF StartPicks
  <2>2. s.todo \in Seq(Pickable) /\ s.revert \in BOOLEAN
    BY SequencerAssumption
  <2>3. tip \in Rooted
    BY DEF Typed, RepoTyped
  <2>4. pc' = "save" /\ UNCHANGED <<repo, state, saved>> /\ Bump("sequences")
    BY <1>1 DEF StartPicks, GoTo
  <2>5. SofarTyped'
    BY <2>1, <2>2, <2>3 DEF SofarTyped
  <2>6. mem' \in States /\ mem'.orig \in Rooted /\ mem'.onto \in Rooted
    BY <2>1, <2>2, <2>3, EmptyTyped DEF States, EmptyState
  <2>7. MemTyped' /\ TargetTyped'
    BY <2>4, <2>6 DEF MemTyped, TargetTyped, LoopPhases, Checkouts
  <2>8. RepoTyped' /\ FilesTyped' /\ exists' \in BOOLEAN
    BY <2>4, TypedKept DEF repo
  <2>9. CountTyped'
    BY <2>4, BumpTyped DEF Typed
  <2> QED
    BY <2>4, <2>5, <2>7, <2>8, <2>9 DEF Typed, Phases
<1>2. CASE StartRebase
  <2>1. PICK onto \in Ontos :
          /\ target' = Tree(onto)
          /\ mem' = [EmptyState EXCEPT !.orig = tip, !.onto = onto,
                                       !.todo = ToReplay(tip, MergeBase(tip, onto))]
          /\ GoTo(IF MergeBase(tip, onto) = tip THEN "ffcheck" ELSE "rewind")
          /\ sofar' = [from |-> tip, base |-> onto, goal |-> ToReplay(tip, MergeBase(tip, onto)),
                       revert |-> FALSE, dealt |-> {}]
    BY <1>2 DEF StartRebase
  <2>2. tip \in Rooted /\ ToReplay(tip, MergeBase(tip, onto)) \in Seq(Pickable)
    BY ReplayTyped DEF Typed, RepoTyped
  <2>3. onto \in Rooted /\ Tree(onto) \in Trees
    BY SequencerAssumption, CommitTree DEF Rooted
  <2>4. UNCHANGED <<repo, state, saved>> /\ Bump("sequences")
    BY <1>2 DEF StartRebase
  <2>5. SofarTyped'
    BY <2>1, <2>2, <2>3 DEF SofarTyped
  <2>6. mem' \in States /\ mem'.orig \in Rooted /\ mem'.onto \in Rooted
    BY <2>1, <2>2, <2>3, EmptyTyped DEF States, EmptyState
  <2>7. pc' \in {"ffcheck", "rewind"}
    BY <2>1 DEF GoTo
  <2>8. MemTyped' /\ TargetTyped'
    BY <2>1, <2>3, <2>6, <2>7 DEF MemTyped, TargetTyped, LoopPhases
  <2>9. RepoTyped' /\ FilesTyped' /\ exists' \in BOOLEAN
    BY <2>4, TypedKept DEF repo
  <2>10. CountTyped'
    BY <2>4, BumpTyped DEF Typed
  <2> QED
    BY <2>4, <2>5, <2>7, <2>8, <2>9, <2>10 DEF Typed, Phases, RebasePhases
<1> QED
  BY <1>1, <1>2

\* A rebase before its state is saved.
LEMMA RebaseTyped ==
  ASSUME Typed, FastForwardCheck \/ FastForward \/ Rewind \/ RewindCheck
  PROVE  Typed'
<1> USE DEF GoTo, At
<1>1. CASE FastForwardCheck
  <2>1. pc = "ffcheck" /\ UNCHANGED <<repo, state, sofar, count>>
    BY <1>1 DEF FastForwardCheck
  <2>2. RepoTyped' /\ FilesTyped' /\ exists' \in BOOLEAN /\ SofarTyped' /\ CountTyped'
    BY <2>1, TypedKept DEF repo
  <2>3. CASE pc' = "ffwork" /\ UNCHANGED proc
    BY <2>1, <2>2, <2>3 DEF Typed, proc, MemTyped, TargetTyped, Checkouts, LoopPhases, Phases, RebasePhases
  <2>4. CASE End
    BY <2>2, <2>4, EndTyped DEF Typed, Phases
  <2> QED
    BY <1>1, <2>3, <2>4 DEF FastForwardCheck
<1>2. CASE RewindCheck
  <2>1. pc = "rewindcheck" /\ UNCHANGED <<repo, state, sofar, count>>
    BY <1>2 DEF RewindCheck
  <2>2. RepoTyped' /\ FilesTyped' /\ exists' \in BOOLEAN /\ SofarTyped' /\ CountTyped'
    BY <2>1, TypedKept DEF repo
  <2>3. CASE pc' = "rewindwork" /\ UNCHANGED proc
    BY <2>1, <2>2, <2>3 DEF Typed, proc, MemTyped, TargetTyped, Checkouts, LoopPhases, Phases, RebasePhases
  <2>4. CASE End
    BY <2>2, <2>4, EndTyped DEF Typed, Phases
  <2> QED
    BY <1>2, <2>3, <2>4 DEF RewindCheck
<1>3. CASE FastForward
  <2>1. /\ pc = "ffref" /\ UNCHANGED <<state, sofar, count>> /\ End
        /\ tip' = mem.onto /\ UNCHANGED <<index, stages, marker>>
    BY <1>3 DEF FastForward
  <2>2. FilesTyped' /\ exists' \in BOOLEAN /\ SofarTyped' /\ CountTyped'
    BY <2>1, TypedKept
  <2>3. mem.onto \in Rooted
    BY <2>1 DEF Typed, MemTyped
  <2>4. RepoTyped'
    BY <2>1, <2>3 DEF Typed, RepoTyped
  <2> QED
    BY <2>1, <2>2, <2>4, EndTyped DEF Typed, Phases
<1>4. CASE Rewind
  <2>1. /\ pc = "rewind" /\ pc' = "rewindcheck" /\ UNCHANGED <<state, proc, sofar, count>>
        /\ tip' = mem.onto /\ UNCHANGED <<index, stages, marker>>
    BY <1>4 DEF Rewind
  <2>2. FilesTyped' /\ exists' \in BOOLEAN /\ SofarTyped' /\ CountTyped'
    BY <2>1, TypedKept
  <2>3. RepoTyped'
    BY <2>1 DEF Typed, RepoTyped, MemTyped
  <2> QED
    BY <2>1, <2>2, <2>3 DEF Typed, proc, MemTyped, TargetTyped, Checkouts, LoopPhases, Phases, RebasePhases
<1> QED
  BY <1>1, <1>2, <1>3, <1>4

\* State::save, one file after the other.
LEMMA SaveTyped ==
  ASSUME Typed, SaveFile \/ SaveDone \/ LoopDone
  PROVE  Typed'
<1> USE DEF GoTo, At
<1>1. CASE SaveFile
  <2> DEFINE f == Files[saved + 1]
  <2>1. /\ pc = "save" /\ saved < 7 /\ exists' = TRUE /\ file' = Saved(mem, f) /\ saved' = saved + 1
        /\ UNCHANGED <<repo, pc, mem, target, sofar, count>>
    BY <1>1, FilesAre DEF SaveFile
  <2>2. RepoTyped' /\ SofarTyped' /\ CountTyped'
    BY <2>1, TypedKept DEF repo
  <2>3. saved + 1 \in 1..7
    BY <2>1 DEF Typed
  <2>4. f \in FileNames
    BY <2>3, FilesAre DEF FileNames
  <2>5. mem \in States /\ mem.orig \in Rooted /\ mem.onto \in Rooted
    BY <2>1 DEF Typed, MemTyped
  <2>6. ~Absent(mem, f) =>
          /\ f = "orig-head" => Value(mem, f) \in Rooted
          /\ f = "onto" => Value(mem, f) \in Rooted
          /\ f = "todo" => Value(mem, f) \in Seq(Pickable)
          /\ f = "done" => Value(mem, f) \in Seq(Pickable)
          /\ f = "current" => Value(mem, f) \in Pickable
    BY <2>4, <2>5 DEF Absent, Value, States
  <2>7. ~Absent(mem, f) /\ f = "mode" => Value(mem, f) = TRUE
    <3>1. mem.revert \in BOOLEAN
      BY <2>5 DEF States
    <3> QED
      BY <3>1 DEF Absent, Value
  <2> HIDE DEF f
  <2>8. FilesTyped'
    <3>1. CASE Absent(mem, f)
      <4>1. DOMAIN file' = DOMAIN file \ {f} /\ \A g \in DOMAIN file' : file'[g] = file[g]
        <5>1. /\ DOMAIN Saved(mem, f) = DOMAIN file \ {f}
              /\ \A g \in DOMAIN Saved(mem, f) : Saved(mem, f)[g] = file[g]
          BY <3>1, SavedIs
        <5> QED
          BY <2>1, <5>1
      <4>2. DOMAIN file' \subseteq DOMAIN file /\ \A g \in DOMAIN file' : file'[g] = file[g]
        BY <4>1
      <4> QED
        BY <4>2 DEF Typed, FilesTyped
    <3>2. CASE ~Absent(mem, f)
      <4>1. /\ DOMAIN file' = DOMAIN file \cup {f} /\ file'[f] = Value(mem, f)
            /\ \A g \in DOMAIN file : g # f => file'[g] = file[g]
        BY <2>1, <3>2, SavedIs
      <4> QED
        BY <2>4, <2>6, <2>7, <3>2, <4>1 DEF Typed, FilesTyped
    <3> QED
      BY <3>1, <3>2
  <2> QED
    BY <2>1, <2>2, <2>3, <2>8 DEF Typed, MemTyped, TargetTyped, LoopPhases
<1>2. CASE SaveDone
  <2>1. pc = "save" /\ UNCHANGED <<repo, state, sofar, count>>
    BY <1>2 DEF SaveDone
  <2>2. RepoTyped' /\ FilesTyped' /\ exists' \in BOOLEAN /\ SofarTyped' /\ CountTyped'
    BY <2>1, TypedKept DEF repo
  <2>3. CASE pc' = "loop" /\ saved' = 0 /\ UNCHANGED <<mem, target>>
    BY <2>1, <2>2, <2>3 DEF Typed, MemTyped, TargetTyped, Checkouts, LoopPhases, Phases
  <2>4. CASE End
    BY <2>2, <2>4, EndTyped DEF Typed, Phases
  <2> QED
    BY <1>2, <2>3, <2>4 DEF SaveDone
<1>3. CASE LoopDone
  <2>1. pc = "loop" /\ pc' = "cleanup" /\ UNCHANGED <<repo, state, proc, sofar, count>>
    BY <1>3 DEF LoopDone
  <2>2. RepoTyped' /\ FilesTyped' /\ exists' \in BOOLEAN /\ SofarTyped' /\ CountTyped'
    BY <2>1, TypedKept DEF repo
  <2> QED
    BY <2>1, <2>2 DEF Typed, proc, MemTyped, TargetTyped, Checkouts, LoopPhases, Phases
<1> QED
  BY <1>1, <1>2, <1>3

\* The pick at hand, while there is one.
LEMMA PickTyped ==
  ASSUME MemTyped, mem.todo # <<>>
  PROVE  /\ Pick \in Pickable /\ mem.revert \in BOOLEAN
         /\ Msg(Pick, mem.revert) \in Message
         /\ Tail(mem.todo) \in Seq(Pickable)
<1>1. mem.todo \in Seq(Pickable) /\ mem.revert \in BOOLEAN
  BY DEF MemTyped, States
<1>2. Pick \in Pickable /\ Tail(mem.todo) \in Seq(Pickable)
  BY <1>1 DEF Pick
<1> QED
  BY <1>1, <1>2, MsgTyped

\* The merge of a pick into the tip that was read.
LEMMA PickMerged ==
  ASSUME MemTyped, mem.todo # <<>>, head \in Rooted
  PROVE  LET merged == Merge(Base(Pick, mem.revert), Tree(head), Theirs(Pick, mem.revert))
         IN  /\ merged \in Indexes
             /\ Outcome(Pick, mem.revert) # "conflict" /\ Outcome(Pick, mem.revert) # "empty"
                  => merged \in Trees
<1>1. Tree(head) \in Trees
  BY RootedIsCommit, CommitTree
<1>2. Base(Pick, mem.revert) \in Trees /\ Theirs(Pick, mem.revert) \in Trees
  BY PickTyped, PickTrees
<1>3. ASSUME Outcome(Pick, mem.revert) # "conflict", Outcome(Pick, mem.revert) # "empty"
      PROVE  \A p \in Path : Merge(Base(Pick, mem.revert), Tree(head), Theirs(Pick, mem.revert))[p] # Unmerged
  BY <1>3, Zenon DEF Outcome
<1> QED
  BY <1>1, <1>2, <1>3, MergeTyped

\* A pick is merged, and found empty, clean or in conflict.
LEMMA MergeStepTyped ==
  ASSUME Typed, Apply \/ MergeEmpty \/ MergeClean \/ MergeConflict
  PROVE  Typed'
<1> USE DEF GoTo, At
<1>1. CASE Apply
  <2>1. /\ pc = "loop" /\ pc' = "merge" /\ mem.todo # <<>> /\ head' = tip
        /\ UNCHANGED <<repo, state, mem, target, saved, sofar, count>>
    BY <1>1 DEF Apply
  <2>2. RepoTyped' /\ FilesTyped' /\ exists' \in BOOLEAN /\ SofarTyped' /\ CountTyped'
    BY <2>1, TypedKept DEF repo
  <2>3. tip \in Rooted
    BY DEF Typed, RepoTyped
  <2> QED
    BY <2>1, <2>2, <2>3 DEF Typed, MemTyped, TargetTyped, Checkouts, LoopPhases, Phases
<1>2. CASE MergeEmpty
  <2>1. /\ pc = "merge" /\ pc' = "save" /\ mem' = [mem EXCEPT !.todo = Tail(@)]
        /\ Deal(Msg(Pick, mem.revert))
        /\ UNCHANGED <<repo, state, target, saved, count>>
    BY <1>2 DEF MergeEmpty
  <2>2. MemTyped /\ mem.todo # <<>> /\ mem.orig \in Rooted /\ mem.onto \in Rooted
    BY <2>1 DEF Typed, MemTyped, LoopPhases
  <2>3. RepoTyped' /\ FilesTyped' /\ exists' \in BOOLEAN /\ CountTyped'
    BY <2>1, TypedKept DEF repo
  <2>4. SofarTyped'
    BY <2>1, <2>2, PickTyped, DealTyped DEF Typed
  <2>5. mem' \in States /\ mem'.orig \in Rooted /\ mem'.onto \in Rooted
    BY <2>1, <2>2, PickTyped DEF MemTyped, States
  <2> QED
    BY <2>1, <2>3, <2>4, <2>5 DEF Typed, MemTyped, TargetTyped, Checkouts, LoopPhases, Phases
<1>3. CASE MergeClean
  <2>1. pc = "merge" /\ Outcome(Pick, mem.revert) = "clean" /\ UNCHANGED <<repo, state, sofar, count>>
    BY <1>3 DEF MergeClean
  <2>2. MemTyped /\ mem.todo # <<>> /\ head \in Rooted
    BY <2>1 DEF Typed, MemTyped, LoopPhases
  <2>3. RepoTyped' /\ FilesTyped' /\ exists' \in BOOLEAN /\ SofarTyped' /\ CountTyped'
    BY <2>1, TypedKept DEF repo
  <2>4. CASE /\ target' = Merge(Base(Pick, mem.revert), Tree(head), Theirs(Pick, mem.revert))
             /\ pc' = "pickwork" /\ UNCHANGED <<mem, head, saved>>
    <3>1. target' \in Trees
      BY <2>1, <2>2, <2>4, PickMerged
    <3> QED
      BY <2>1, <2>3, <2>4, <3>1 DEF Typed, MemTyped, TargetTyped, Checkouts, LoopPhases, Phases
  <2>5. CASE End
    BY <2>3, <2>5, EndTyped DEF Typed, Phases
  <2> QED
    BY <1>3, <2>4, <2>5 DEF MergeClean
<1>4. CASE MergeConflict
  <2>1. /\ pc = "merge" /\ pc' = "conflictindex"
        /\ target' = Merge(Base(Pick, mem.revert), Tree(head), Theirs(Pick, mem.revert))
        /\ UNCHANGED <<tip, index, stages, marker, state, mem, head, saved, sofar, count>>
    BY <1>4 DEF MergeConflict
  <2>2. MemTyped /\ mem.todo # <<>> /\ head \in Rooted
    BY <2>1 DEF Typed, MemTyped, LoopPhases
  <2>3. RepoTyped' /\ FilesTyped' /\ exists' \in BOOLEAN /\ SofarTyped' /\ CountTyped'
    BY <2>1, TypedKept
  <2>4. target' \in Indexes
    BY <2>1, <2>2, PickMerged
  <2> QED
    BY <2>1, <2>3, <2>4 DEF Typed, MemTyped, TargetTyped, Checkouts, LoopPhases, Phases
<1> QED
  BY <1>1, <1>2, <1>3, <1>4

\* A conflict is written down.
LEMMA ConflictTyped ==
  ASSUME Typed, ConflictIndex \/ ConflictMarker
  PROVE  Typed'
<1> USE DEF GoTo, At
<1>1. CASE ConflictIndex
  <2>1. /\ pc = "conflictindex" /\ pc' = "conflictmarker"
        /\ index' = target /\ stages' = {p \in Path : target[p] = Unmerged}
        /\ UNCHANGED <<tip, marker, state, proc, sofar, count>>
    BY <1>1 DEF ConflictIndex
  <2>2. FilesTyped' /\ exists' \in BOOLEAN /\ SofarTyped' /\ CountTyped'
    BY <2>1, TypedKept
  <2>3. target \in Indexes
    BY <2>1 DEF Typed, TargetTyped
  <2>4. RepoTyped'
    BY <2>1, <2>3 DEF Typed, RepoTyped
  <2> QED
    BY <2>1, <2>2, <2>4 DEF Typed, proc, MemTyped, TargetTyped, Checkouts, LoopPhases, Phases
<1>2. CASE ConflictMarker
  <2>1. /\ pc = "conflictmarker" /\ pc' = "save" /\ marker' = Pick
        /\ mem' = [mem EXCEPT !.todo = Tail(@), !.current = Pick]
        /\ UNCHANGED <<tip, index, stages, state, target, saved, sofar, count>>
    BY <1>2 DEF ConflictMarker
  <2>2. MemTyped /\ mem.todo # <<>> /\ mem.orig \in Rooted /\ mem.onto \in Rooted
    BY <2>1 DEF Typed, MemTyped, LoopPhases
  <2>3. FilesTyped' /\ exists' \in BOOLEAN /\ SofarTyped' /\ CountTyped'
    BY <2>1, TypedKept
  <2>4. RepoTyped'
    BY <2>1, <2>2, PickTyped DEF Typed, RepoTyped
  <2>5. mem' \in States /\ mem'.orig \in Rooted /\ mem'.onto \in Rooted
    BY <2>1, <2>2, PickTyped DEF MemTyped, States
  <2> QED
    BY <2>1, <2>3, <2>4, <2>5 DEF Typed, MemTyped, TargetTyped, Checkouts, LoopPhases, Phases
<1> QED
  BY <1>1, <1>2

\* Files and index are brought to the target; the branch moves to the new commit.
LEMMA CheckoutTyped ==
  ASSUME Typed, CheckoutWork \/ CheckoutIndex \/ MoveBranch \/ Unmark
  PROVE  Typed'
<1> USE DEF GoTo, At
<1>1. CASE CheckoutWork
  <2>1. /\ pc \in {"pickwork", "rewindwork", "ffwork", "forcework"} /\ pc' = After[pc]
        /\ UNCHANGED <<tip, index, stages, marker, state, proc, sofar, count>>
    BY <1>1 DEF CheckoutWork
  <2>2. RepoTyped' /\ FilesTyped' /\ exists' \in BOOLEAN /\ SofarTyped' /\ CountTyped'
    BY <2>1, TypedKept
  <2>3. \/ pc = "pickwork" /\ pc' = "pickindex"
        \/ pc \in {"rewindwork", "ffwork", "forcework"}
             /\ pc' \in {"rewindindex", "ffindex", "forceindex"}
    BY <2>1 DEF After
  <2> QED
    BY <2>1, <2>2, <2>3
    DEF Typed, proc, MemTyped, TargetTyped, Checkouts, LoopPhases, Phases, RebasePhases, AbortPhases
<1>2. CASE CheckoutIndex
  <2>1. /\ pc \in {"pickindex", "rewindindex", "ffindex", "forceindex"} /\ pc' = After[pc]
        /\ index' = target
        /\ UNCHANGED <<tip, marker, state, proc, sofar, count>>
    BY <1>2 DEF CheckoutIndex
  <2>2. FilesTyped' /\ exists' \in BOOLEAN /\ SofarTyped' /\ CountTyped'
    BY <2>1, TypedKept
  <2>3. \/ pc = "pickindex" /\ pc' = "pickref"
        \/ pc \in {"rewindindex", "ffindex", "forceindex"} /\ pc' \in {"save", "ffref", "cleanup"}
    BY <2>1 DEF After
  <2>4. target \in Trees
    BY <2>1 DEF Typed, TargetTyped, Checkouts
  <2>5. target \in Indexes /\ \A p \in Path : target[p] # Unmerged
    BY <2>4, SequencerAssumption DEF Trees, Indexes
  <2>6. RepoTyped'
    BY <2>1, <2>5 DEF Typed, RepoTyped
  <2> QED
    BY <2>1, <2>2, <2>3, <2>4, <2>6
    DEF Typed, proc, MemTyped, TargetTyped, Checkouts, LoopPhases, Phases, RebasePhases, AbortPhases
<1>3. CASE MoveBranch
  <2>1. pc = "pickref" /\ UNCHANGED <<index, stages, marker, state, count>>
    BY <1>3 DEF MoveBranch
  <2>2. /\ MemTyped /\ mem.todo # <<>> /\ head \in Rooted /\ target \in Trees
        /\ Msg(Pick, mem.revert) \in Message
    BY <2>1, PickTyped DEF Typed, MemTyped, LoopPhases, TargetTyped, Checkouts
  <2>3. FilesTyped' /\ exists' \in BOOLEAN /\ CountTyped'
    BY <2>1, TypedKept
  <2>4. CASE /\ tip' = Append(head, Entry(target, Msg(Pick, mem.revert)))
             /\ pc' = "unmark" /\ Deal(Msg(Pick, mem.revert)) /\ UNCHANGED proc
    <3>1. RepoTyped'
      BY <2>1, <2>2, <2>4, AppendRooted DEF Typed, RepoTyped
    <3>2. SofarTyped'
      BY <2>2, <2>4, DealTyped DEF Typed
    <3> QED
      BY <2>1, <2>2, <2>3, <2>4, <3>1, <3>2
      DEF Typed, proc, MemTyped, TargetTyped, Checkouts, LoopPhases, Phases
  <2>5. CASE End /\ UNCHANGED <<tip, sofar>>
    <3>1. RepoTyped' /\ SofarTyped'
      BY <2>1, <2>5, TypedKept
    <3> QED
      BY <2>3, <2>5, <3>1, EndTyped DEF Typed, Phases
  <2> QED
    BY <1>3, <2>4, <2>5 DEF MoveBranch
<1>4. CASE Unmark
  <2>1. /\ pc = "unmark" /\ pc' = "save" /\ marker' = None
        /\ mem' = [mem EXCEPT !.todo = Tail(@), !.done = Append(@, Pick)]
        /\ UNCHANGED <<tip, index, stages, state, target, saved, sofar, count>>
    BY <1>4 DEF Unmark
  <2>2. MemTyped /\ mem.todo # <<>> /\ mem.orig \in Rooted /\ mem.onto \in Rooted
    BY <2>1 DEF Typed, MemTyped, LoopPhases
  <2>3. FilesTyped' /\ exists' \in BOOLEAN /\ SofarTyped' /\ CountTyped'
    BY <2>1, TypedKept
  <2>4. RepoTyped'
    BY <2>1 DEF Typed, RepoTyped
  <2>5. Append(mem.done, Pick) \in Seq(Pickable)
    BY <2>2, PickTyped DEF MemTyped, States
  <2>6. mem' \in States /\ mem'.orig \in Rooted /\ mem'.onto \in Rooted
    BY <2>1, <2>2, <2>5, PickTyped DEF MemTyped, States
  <2> QED
    BY <2>1, <2>3, <2>4, <2>6 DEF Typed, MemTyped, TargetTyped, Checkouts, LoopPhases, Phases
<1> QED
  BY <1>1, <1>2, <1>3, <1>4

\* --continue and --abort, and the removal of the state.
LEMMA ResumeTyped ==
  ASSUME Typed, Continue \/ StartAbort \/ Abort \/ RemoveFile \/ Finish
  PROVE  Typed'
<1> USE DEF GoTo, At
<1>1. CASE Continue
  <2> DEFINE c == Loaded.current
  <2>1. /\ Loadable
        /\ mem' = [Loaded EXCEPT !.current = None,
                                 !.done = @ \o IF c = None THEN <<>> ELSE <<c>>]
        /\ pc' \in {"loop", "save"}
        /\ UNCHANGED <<repo, state, target, saved, sofar, count>>
    BY <1>1 DEF Continue
  <2>2. RepoTyped' /\ FilesTyped' /\ exists' \in BOOLEAN /\ SofarTyped' /\ CountTyped'
    BY <2>1, TypedKept DEF repo
  <2>3. Loaded \in States /\ Loaded.orig \in Rooted /\ Loaded.onto \in Rooted
    BY <2>1, LoadedTyped DEF Typed
  <2>4. c \in Pickable \cup {None} /\ Loaded.done \in Seq(Pickable)
    BY <2>3 DEF States
  <2> HIDE DEF c
  <2>5. (IF c = None THEN <<>> ELSE <<c>>) \in Seq(Pickable)
    BY <2>4
  <2>6. Loaded.done \o (IF c = None THEN <<>> ELSE <<c>>) \in Seq(Pickable)
    BY <2>4, <2>5, ConcatProperties
  <2>7. mem' \in States /\ mem'.orig \in Rooted /\ mem'.onto \in Rooted
    BY <2>1, <2>3, <2>6 DEF States
  <2> QED
    BY <2>1, <2>2, <2>7 DEF Typed, MemTyped, TargetTyped, Checkouts, LoopPhases, Phases
<1>2. CASE StartAbort
  <2>1. /\ Loadable /\ mem' = Loaded /\ pc' = "abort"
        /\ sofar' = [sofar EXCEPT !.goal = <<>>]
        /\ UNCHANGED <<repo, state, target, saved, count>>
    BY <1>2 DEF StartAbort
  <2>2. RepoTyped' /\ FilesTyped' /\ exists' \in BOOLEAN /\ CountTyped'
    BY <2>1, TypedKept DEF repo
  <2>3. SofarTyped'
    <3>1. <<>> \in Seq(Pickable)
      OBVIOUS
    <3> QED
      BY <2>1, <3>1 DEF Typed, SofarTyped
  <2>4. mem' \in States /\ mem'.orig \in Rooted /\ mem'.onto \in Rooted
    BY <2>1, LoadedTyped DEF Typed
  <2> QED
    BY <2>1, <2>2, <2>3, <2>4
    DEF Typed, MemTyped, TargetTyped, Checkouts, LoopPhases, Phases, AbortPhases
<1>3. CASE Abort
  <2>1. /\ pc = "abort" /\ pc' = "forcework" /\ tip' = mem.orig /\ target' = Tree(mem.orig)
        /\ UNCHANGED <<index, stages, marker, state, mem, head, saved, sofar, count>>
    BY <1>3 DEF Abort
  <2>2. FilesTyped' /\ exists' \in BOOLEAN /\ SofarTyped' /\ CountTyped'
    BY <2>1, TypedKept
  <2>3. mem.orig \in Rooted /\ Tree(mem.orig) \in Trees
    BY <2>1, RootedIsCommit, CommitTree DEF Typed, MemTyped
  <2>4. RepoTyped'
    BY <2>1, <2>3 DEF Typed, RepoTyped
  <2> QED
    BY <2>1, <2>2, <2>3, <2>4
    DEF Typed, MemTyped, TargetTyped, Checkouts, LoopPhases, Phases, AbortPhases
<1>4. CASE RemoveFile
  <2>1. /\ pc = "cleanup" /\ UNCHANGED <<repo, pc, proc, sofar, count>>
        /\ \/ exists' = FALSE /\ UNCHANGED file
           \/ /\ \E f \in DOMAIN file : file' = [g \in DOMAIN file \ {f} |-> file[g]]
              /\ UNCHANGED exists
    BY <1>4 DEF RemoveFile
  <2>2. RepoTyped' /\ SofarTyped' /\ CountTyped' /\ MemTyped' /\ TargetTyped'
    BY <2>1, TypedKept DEF repo
  <2>3. exists' \in BOOLEAN
    BY <2>1, Zenon DEF Typed
  <2>4. DOMAIN file' \subseteq DOMAIN file /\ \A g \in DOMAIN file' : file'[g] = file[g]
    BY <2>1
  <2>5. FilesTyped'
    BY <2>4 DEF Typed, FilesTyped
  <2> QED
    BY <2>1, <2>2, <2>3, <2>5 DEF Typed, proc
<1>5. CASE Finish
  <2>1. marker' = None /\ UNCHANGED <<tip, index, stages, state, sofar, count>> /\ End
    BY <1>5 DEF Finish
  <2>2. FilesTyped' /\ exists' \in BOOLEAN /\ SofarTyped' /\ CountTyped'
    BY <2>1, TypedKept
  <2>3. RepoTyped'
    BY <2>1 DEF Typed, RepoTyped
  <2> QED
    BY <2>1, <2>2, <2>3, EndTyped DEF Typed, Phases
<1> QED
  BY <1>1, <1>2, <1>3, <1>4, <1>5

\* The user, and a crash.
LEMMA OthersTyped ==
  ASSUME Typed, Resolve \/ UserCommit \/ Edit \/ Crash
  PROVE  Typed'
<1> USE DEF GoTo, At
<1>1. CASE Resolve
  <2>1. /\ UNCHANGED <<tip, marker, state, pc, proc, sofar, count>>
        /\ \E p \in Path, c \in Resolution :
             index' = [index EXCEPT ![p] = c] /\ stages' \in {stages, stages \ {p}}
    BY <1>1 DEF Resolve
  <2>2. FilesTyped' /\ exists' \in BOOLEAN /\ SofarTyped' /\ CountTyped' /\ MemTyped' /\ TargetTyped'
    BY <2>1, TypedKept
  <2>3. PICK p \in Path, c \in Resolution :
          index' = [index EXCEPT ![p] = c] /\ stages' \in {stages, stages \ {p}}
    BY <2>1
  <2>4. c \in Content /\ c # Unmerged
    BY SequencerAssumption
  <2>5. RepoTyped'
    BY <2>1, <2>3, <2>4 DEF Typed, RepoTyped, Indexes
  <2> QED
    BY <2>1, <2>2, <2>5 DEF Typed, proc
<1>2. CASE UserCommit
  <2>1. /\ pc = "idle" /\ stages = {} /\ marker # None
        /\ tip' = IF index = Tree(tip) THEN tip ELSE Append(tip, Entry(index, UserMsg))
        /\ Deal(Msg(marker, sofar.revert))
        /\ UNCHANGED <<index, stages, marker, state, pc, proc, count>>
    BY <1>2 DEF UserCommit
  <2>2. FilesTyped' /\ exists' \in BOOLEAN /\ CountTyped' /\ MemTyped' /\ TargetTyped'
    BY <2>1, TypedKept
  <2>3. index \in Trees
    BY <2>1 DEF Typed, RepoTyped, Indexes, Trees
  <2>4. UserMsg \in Message
    <3>1. count.sequences + 1 \in Nat
      BY DEF Typed, CountTyped
    <3>2. UserMsg \in [1..(count.sequences + 1) -> Word]
      BY SequencerAssumption DEF UserMsg
    <3> QED
      BY <3>1, <3>2 DEF Message
  <2>5. tip' \in Rooted
    BY <2>1, <2>3, <2>4, AppendRooted DEF Typed, RepoTyped
  <2>6. RepoTyped'
    BY <2>1, <2>5 DEF Typed, RepoTyped
  <2>7. SofarTyped'
    <3>1. marker \in Pickable /\ sofar.revert \in BOOLEAN
      BY <2>1 DEF Typed, RepoTyped, SofarTyped
    <3> QED
      BY <2>1, <3>1, MsgTyped, DealTyped DEF Typed
  <2> QED
    BY <2>1, <2>2, <2>6, <2>7 DEF Typed, proc
<1>3. CASE Edit
  <2>1. UNCHANGED <<tip, index, stages, marker, state, pc, proc, sofar>> /\ Bump("edits")
    BY <1>3 DEF Edit
  <2>2. /\ RepoTyped' /\ FilesTyped' /\ exists' \in BOOLEAN /\ SofarTyped' /\ MemTyped' /\ TargetTyped'
        /\ CountTyped'
    BY <2>1, TypedKept, BumpTyped DEF Typed
  <2> QED
    BY <2>1, <2>2 DEF Typed, proc
<1>4. CASE Crash
  <2>1. /\ End /\ UNCHANGED <<repo, state, sofar>>
        /\ count' = [count EXCEPT !.crashes = @ + 1, !.torn = @ \/ Tearing]
    BY <1>4 DEF Crash
  <2>2. RepoTyped' /\ FilesTyped' /\ exists' \in BOOLEAN /\ SofarTyped'
    BY <2>1, TypedKept DEF repo
  <2>3. (count.torn \/ Tearing) \in BOOLEAN
    BY Zenon
  <2>4. CountTyped'
    <3>1. PICK torn \in BOOLEAN : count' = [count EXCEPT !.crashes = @ + 1, !.torn = torn]
      BY <2>1, <2>3, Zenon
    <3>2. count \in [sequences : Nat, crashes : Nat, edits : Nat, torn : BOOLEAN]
      BY DEF Typed, CountTyped
    <3>3. count.crashes + 1 \in Nat
      BY <3>2
    <3> QED
      BY <3>1, <3>2, <3>3 DEF CountTyped
  <2> QED
    BY <2>1, <2>2, <2>4, EndTyped DEF Typed, Phases
<1> QED
  BY <1>1, <1>2, <1>3, <1>4

LEMMA TypedStutter == Typed /\ UNCHANGED vars => Typed'
  BY TypedKept DEF vars, repo, proc, Typed

\* The state is well-typed: every commit a sequence of trees, every pick a commit
\* with a parent, an index without conflicts where there are no stages.
THEOREM SequencerTyped == Spec => []Typed
<1>1. Typed /\ [Next]_vars => Typed'
  BY StartTyped, RebaseTyped, SaveTyped, MergeStepTyped, ConflictTyped, CheckoutTyped, ResumeTyped,
     OthersTyped, TypedStutter
  DEF Next, Loop
<1> QED
  BY <1>1, TypedInit, PTL DEF Spec

-----------------------------------------------------------------------------
(* What --abort goes back to.                                              *)

LEMMA UndoInit == Init => Undoable
  BY SequencerAssumption
  DEF Init, Undoable, OrigKept, AbortOnTheWay, RebasePhases, AbortPhases

\* A command that ends leaves no abort under way.
LEMMA EndUndoable ==
  ASSUME Undoable, End, UNCHANGED <<state, sofar>>
  PROVE  Undoable'
  BY SequencerAssumption
  DEF Undoable, OrigKept, AbortOnTheWay, End, GoTo, state, RebasePhases, AbortPhases

\* What the memory of a command names does not change while it runs.
LEMMA LoopUndoable ==
  ASSUME Typed, Undoable,
         \/ SaveDone \/ LoopDone \/ Apply \/ MergeEmpty \/ MergeClean \/ MergeConflict
         \/ ConflictIndex \/ ConflictMarker \/ MoveBranch \/ Unmark
         \/ FastForwardCheck \/ FastForward \/ Rewind \/ RewindCheck
  PROVE  Undoable'
<1> USE DEF GoTo, At, state, repo, proc
<1> DEFINE Running == /\ pc' \in LoopPhases \cup {"save"} \/ pc' \in {"rewindcheck", "rewindwork", "ffwork"}
                      /\ pc \notin AbortPhases \cup {"cleanup", "idle"}
                      /\ pc' \in RebasePhases => pc \in RebasePhases
                      /\ mem'.orig = mem.orig /\ UNCHANGED <<state, cmd>>
                      /\ sofar'.from = sofar.from
<1>1. Running => Undoable'
  BY DEF Undoable, OrigKept, AbortOnTheWay, LoopPhases, RebasePhases, AbortPhases
<1>2. pc # "idle" => mem \in States
  BY DEF Typed, MemTyped
<1>3. ASSUME Deal(Msg(Pick, mem.revert)) PROVE sofar'.from = sofar.from
  BY <1>3 DEF Deal, Typed, SofarTyped
<1>4. CASE SaveDone
  BY <1>1, <1>4, EndUndoable DEF SaveDone, LoopPhases, AbortPhases, RebasePhases
<1>5. CASE LoopDone
  BY <1>5 DEF LoopDone, Undoable, OrigKept, AbortOnTheWay, RebasePhases, AbortPhases
<1>6. CASE Apply
  BY <1>1, <1>6 DEF Apply, LoopPhases, AbortPhases, RebasePhases
<1>7. CASE MergeEmpty
  BY <1>1, <1>2, <1>3, <1>7 DEF MergeEmpty, LoopPhases, AbortPhases, RebasePhases, States
<1>8. CASE MergeClean
  BY <1>1, <1>8, EndUndoable DEF MergeClean, LoopPhases, AbortPhases, RebasePhases
<1>9. CASE MergeConflict
  BY <1>1, <1>9 DEF MergeConflict, LoopPhases, AbortPhases, RebasePhases
<1>10. CASE ConflictIndex
  BY <1>1, <1>10 DEF ConflictIndex, LoopPhases, AbortPhases, RebasePhases
<1>11. CASE ConflictMarker
  BY <1>1, <1>2, <1>11 DEF ConflictMarker, LoopPhases, AbortPhases, RebasePhases, States
<1>12. CASE MoveBranch
  BY <1>1, <1>3, <1>12, EndUndoable DEF MoveBranch, LoopPhases, AbortPhases, RebasePhases
<1>13. CASE Unmark
  BY <1>1, <1>2, <1>13 DEF Unmark, LoopPhases, AbortPhases, RebasePhases, States
<1>14. CASE FastForwardCheck
  BY <1>1, <1>14, EndUndoable DEF FastForwardCheck, LoopPhases, AbortPhases, RebasePhases
<1>15. CASE FastForward
  BY <1>15, EndUndoable DEF FastForward
<1>16. CASE Rewind
  BY <1>1, <1>16 DEF Rewind, LoopPhases, AbortPhases, RebasePhases
<1>17. CASE RewindCheck
  BY <1>1, <1>17, EndUndoable DEF RewindCheck, LoopPhases, AbortPhases, RebasePhases
<1> QED
  BY <1>4, <1>5, <1>6, <1>7, <1>8, <1>9, <1>10, <1>11, <1>12, <1>13, <1>14, <1>15, <1>16, <1>17

\* A sequence starts where nothing is left of another; a save keeps what it names.
LEMMA StartUndoable ==
  ASSUME Typed, Undoable, StartPicks \/ StartRebase \/ SaveFile
  PROVE  Undoable'
<1> USE DEF GoTo, At, state
<1>1. CASE StartPicks
  <2>1. /\ pc = "idle" /\ ~exists /\ pc' = "save" /\ cmd' = "start" /\ UNCHANGED <<exists, file>>
    BY <1>1 DEF StartPicks
  <2>2. PICK s \in Picks :
          /\ mem' = [EmptyState EXCEPT !.orig = tip, !.onto = tip,
                                       !.todo = s.todo, !.revert = s.revert]
          /\ sofar' = [from |-> tip, base |-> tip, goal |-> s.todo, revert |-> s.revert, dealt |-> {}]
    BY <1>1 DEF StartPicks
  <2>3. mem'.orig = tip /\ sofar'.from = tip
    BY <2>2 DEF EmptyState
  <2> QED
    BY <2>1, <2>3, SequencerAssumption DEF Undoable, OrigKept, AbortOnTheWay, RebasePhases, AbortPhases
<1>2. CASE StartRebase
  <2>1. /\ pc = "idle" /\ ~exists /\ pc' \in {"ffcheck", "rewind"} /\ cmd' = "start"
        /\ UNCHANGED <<exists, file>>
    BY <1>2 DEF StartRebase
  <2>2. PICK onto \in Ontos :
          /\ mem' = [EmptyState EXCEPT !.orig = tip, !.onto = onto,
                                       !.todo = ToReplay(tip, MergeBase(tip, onto))]
          /\ sofar' = [from |-> tip, base |-> onto, goal |-> ToReplay(tip, MergeBase(tip, onto)),
                       revert |-> FALSE, dealt |-> {}]
    BY <1>2 DEF StartRebase
  <2>3. mem'.orig = tip /\ sofar'.from = tip
    BY <2>2 DEF EmptyState
  <2> QED
    BY <2>1, <2>3, SequencerAssumption DEF Undoable, OrigKept, AbortOnTheWay, RebasePhases, AbortPhases
<1>3. CASE SaveFile
  <2> DEFINE f == Files[saved + 1]
  <2>1. /\ pc = "save" /\ exists' = TRUE /\ file' = Saved(mem, f)
        /\ UNCHANGED <<pc, cmd, mem, sofar>>
    BY <1>3 DEF SaveFile
  <2>2. cmd # "abort" /\ mem.orig = sofar.from
    BY <2>1 DEF Undoable, AbortOnTheWay, OrigKept, AbortPhases
  <2>3. f = "orig-head" => ~Absent(mem, f) /\ Value(mem, f) = mem.orig
    BY DEF Absent, Value
  <2> HIDE DEF f
  <2>4. "orig-head" \in DOMAIN file' => file'["orig-head"] = sofar.from
    <3>1. CASE Absent(mem, f)
      <4>1. /\ DOMAIN Saved(mem, f) = DOMAIN file \ {f}
            /\ \A g \in DOMAIN Saved(mem, f) : Saved(mem, f)[g] = file[g]
        BY <3>1, SavedIs
      <4> QED
        BY <2>1, <4>1 DEF Undoable, OrigKept
    <3>2. CASE ~Absent(mem, f)
      <4>1. /\ DOMAIN Saved(mem, f) = DOMAIN file \cup {f} /\ Saved(mem, f)[f] = Value(mem, f)
            /\ \A g \in DOMAIN file : g # f => Saved(mem, f)[g] = file[g]
        BY <3>2, SavedIs
      <4> QED
        BY <2>1, <2>2, <2>3, <4>1 DEF Undoable, OrigKept
    <3> QED
      BY <3>1, <3>2
  <2> QED
    BY <2>1, <2>2, <2>4 DEF Undoable, OrigKept, AbortOnTheWay, RebasePhases, AbortPhases
<1> QED
  BY <1>1, <1>2, <1>3

\* The steps --abort shares with the others, and those of its own.
LEMMA AbortUndoable ==
  ASSUME Typed, Undoable,
         \/ CheckoutWork \/ CheckoutIndex
         \/ Continue \/ StartAbort \/ Abort \/ RemoveFile \/ Finish
  PROVE  Undoable'
<1> USE DEF GoTo, At, state, proc, repo
<1>1. CASE CheckoutWork
  <2>1. \/ pc = "forcework" /\ pc' = "forceindex"
        \/ pc = "pickwork" /\ pc' = "pickindex"
        \/ pc \in {"rewindwork", "ffwork"} /\ pc' \in {"rewindindex", "ffindex"}
    BY <1>1 DEF CheckoutWork, After
  <2>2. UNCHANGED <<tip, state, cmd, mem, target, sofar>>
    BY <1>1 DEF CheckoutWork
  <2> QED
    BY <2>1, <2>2 DEF Undoable, OrigKept, AbortOnTheWay, RebasePhases, AbortPhases
<1>2. CASE CheckoutIndex
  <2>1. \/ pc = "forceindex" /\ pc' = "cleanup"
        \/ pc = "pickindex" /\ pc' = "pickref"
        \/ pc = "ffindex" /\ pc' = "ffref"
        \/ pc = "rewindindex" /\ pc' = "save"
    BY <1>2 DEF CheckoutIndex, After
  <2>2. index' = target /\ stages' = {} /\ UNCHANGED <<tip, state, cmd, mem, sofar>>
    BY <1>2 DEF CheckoutIndex
  <2> QED
    BY <2>1, <2>2 DEF Undoable, OrigKept, AbortOnTheWay, RebasePhases, AbortPhases
<1>3. CASE Continue
  <2>1. /\ pc = "idle" /\ Loadable /\ cmd' = "continue" /\ pc' \in {"loop", "save"}
        /\ UNCHANGED <<state, sofar>> /\ mem'.orig = file["orig-head"]
    BY <1>3 DEF Continue, Loaded
  <2> QED
    BY <2>1, SequencerAssumption
    DEF Undoable, OrigKept, AbortOnTheWay, Loadable, RebasePhases, AbortPhases
<1>4. CASE StartAbort
  <2>1. /\ pc = "idle" /\ Loadable /\ cmd' = "abort" /\ pc' = "abort"
        /\ UNCHANGED state /\ mem'.orig = file["orig-head"]
    BY <1>4 DEF StartAbort, Loaded
  <2>2. sofar'.from = sofar.from
    BY <1>4 DEF StartAbort, Typed, SofarTyped
  <2> QED
    BY <2>1, <2>2, SequencerAssumption
    DEF Undoable, OrigKept, AbortOnTheWay, Loadable, RebasePhases, AbortPhases
<1>5. CASE Abort
  <2>1. /\ pc = "abort" /\ pc' = "forcework" /\ tip' = mem.orig /\ target' = Tree(mem.orig)
        /\ UNCHANGED <<state, cmd, mem, sofar>>
    BY <1>5 DEF Abort
  <2> QED
    BY <2>1 DEF Undoable, OrigKept, AbortOnTheWay, RebasePhases, AbortPhases
<1>6. CASE RemoveFile
  <2>1. /\ pc = "cleanup" /\ UNCHANGED <<tip, index, stages, pc, cmd, mem, sofar>>
        /\ DOMAIN file' \subseteq DOMAIN file /\ \A g \in DOMAIN file' : file'[g] = file[g]
        /\ ~exists' => DOMAIN file' = {}
    BY <1>6 DEF RemoveFile
  <2> QED
    BY <2>1 DEF Undoable, OrigKept, AbortOnTheWay, RebasePhases, AbortPhases
<1>7. CASE Finish
  BY <1>7, EndUndoable DEF Finish
<1> QED
  BY <1>1, <1>2, <1>3, <1>4, <1>5, <1>6, <1>7

\* What the user does between two commands, and a crash.
LEMMA OthersUndoable ==
  ASSUME Typed, Undoable, Resolve \/ UserCommit \/ Edit \/ Crash
  PROVE  Undoable'
<1> USE DEF GoTo, At, state, proc, repo
<1>1. CASE Crash
  BY <1>1, EndUndoable DEF Crash
<1>2. CASE Resolve \/ UserCommit \/ Edit
  <2>1. pc = "idle" /\ UNCHANGED <<state, pc, cmd, mem>>
    BY <1>2 DEF Resolve, UserCommit, Edit
  <2>2. sofar'.from = sofar.from
    BY <1>2 DEF Resolve, UserCommit, Edit, Deal, Typed, SofarTyped
  <2> QED
    BY <2>1, <2>2 DEF Undoable, OrigKept, AbortOnTheWay, RebasePhases, AbortPhases
<1> QED
  BY <1>1, <1>2

LEMMA UndoStep == Typed /\ Undoable /\ [Next]_vars => Undoable'
<1>1. Undoable /\ UNCHANGED vars => Undoable'
  BY DEF Undoable, OrigKept, AbortOnTheWay, vars, repo, state, proc
<1> QED
  BY <1>1, LoopUndoable, StartUndoable, AbortUndoable, OthersUndoable DEF Next, Loop

LEMMA SequencerUndoable == Spec => []Undoable
  BY UndoInit, UndoStep, SequencerTyped, PTL DEF Spec

\* --abort puts branch and index back where the sequence began and leaves no state,
\* whatever picks, conflicts, crashes and commits came between, however many.
THEOREM AbortGoesBack == Spec => AbortRestores
<1>1. ASSUME Typed, Undoable, [Next]_vars
      PROVE  [cmd = "abort" /\ pc' = "idle" /\ count'.crashes = count.crashes
                => /\ tip' = sofar.from /\ index' = Tree(sofar.from) /\ stages' = {}
                   /\ ~exists' /\ marker' = None]_vars
  <2> SUFFICES ASSUME Next, cmd = "abort", pc' = "idle", count'.crashes = count.crashes
               PROVE  /\ tip' = sofar.from /\ index' = Tree(sofar.from) /\ stages' = {}
                      /\ ~exists' /\ marker' = None
    BY <1>1
  <2> USE DEF GoTo, At
  <2>1. pc \in {"abort", "forcework", "forceindex", "cleanup"}
    BY <1>1 DEF Undoable, AbortOnTheWay, AbortPhases
  <2>2. ~Crash
    <3>1. CASE Crash
      <4>1. (count.torn \/ Tearing) \in BOOLEAN
        BY Zenon
      <4>2. PICK torn \in BOOLEAN : count' = [count EXCEPT !.crashes = @ + 1, !.torn = torn]
        BY <3>1, <4>1, Zenon DEF Crash
      <4>3. count.crashes \in Nat /\ count'.crashes = count.crashes + 1
        BY <1>1, <4>2 DEF Typed, CountTyped
      <4> QED
        BY <4>3
    <3> QED
      BY <3>1
  <2>3. ~(CheckoutWork \/ CheckoutIndex)
    BY <2>1 DEF CheckoutWork, CheckoutIndex, After
  <2>4. Finish
    BY <2>1, <2>2, <2>3
    DEF Next, Loop, StartPicks, StartRebase, FastForwardCheck, FastForward, Rewind, RewindCheck,
        SaveFile, SaveDone, LoopDone, Apply, MergeEmpty, MergeClean, MergeConflict, ConflictIndex,
        ConflictMarker, MoveBranch, Unmark, Continue, StartAbort, Abort, RemoveFile, Resolve,
        UserCommit, Edit
  <2> QED
    BY <1>1, <2>4 DEF Finish, Undoable, AbortOnTheWay, state
<1> QED
  BY <1>1, SequencerTyped, SequencerUndoable, PTL DEF Spec, AbortRestores

-----------------------------------------------------------------------------
(* What is never skipped.                                                  *)

LEMMA CoversGrows ==
  ASSUME NEW s, NEW t, NEW todo, NEW current,
         t.goal = s.goal, t.revert = s.revert, s.dealt \subseteq t.dealt, Covers(s, todo, current)
  PROVE  Covers(t, todo, current)
  BY DEF Covers

LEMMA CoversTail ==
  ASSUME NEW s, NEW todo \in Seq(Pickable), NEW current, todo # <<>>,
         Covers(s, todo, current), Msg(todo[1], s.revert) \in s.dealt
  PROVE  Covers(s, Tail(todo), current)
<1>1. ASSUME NEW j \in DOMAIN todo, j # 1 PROVE j - 1 \in DOMAIN Tail(todo) /\ Tail(todo)[j - 1] = todo[j]
  BY <1>1
<1> QED
  BY <1>1 DEF Covers

LEMMA CoversCurrent ==
  ASSUME NEW s, NEW todo \in Seq(Pickable), todo # <<>>, s.goal \in Seq(Pickable),
         Covers(s, todo, None)
  PROVE  Covers(s, Tail(todo), todo[1])
<1>1. ASSUME NEW j \in DOMAIN todo, j # 1 PROVE j - 1 \in DOMAIN Tail(todo) /\ Tail(todo)[j - 1] = todo[j]
  BY <1>1
<1>2. \A i \in DOMAIN s.goal : s.goal[i] # None
  BY SequencerAssumption DEF Pickable
<1> QED
  BY <1>1, <1>2 DEF Covers

LEMMA CoversDealt ==
  ASSUME NEW s, NEW todo, NEW current,
         Covers(s, todo, current), current = None \/ Msg(current, s.revert) \in s.dealt
  PROVE  Covers(s, todo, None)
  BY DEF Covers

\* A step that only adds to what is dealt with.
SofarGrows ==
  sofar'.goal = sofar.goal /\ sofar'.revert = sofar.revert /\ sofar.dealt \subseteq sofar'.dealt

LEMMA DealGrows ==
  ASSUME SofarTyped, NEW m, Deal(m)
  PROVE  SofarGrows /\ m \in sofar'.dealt
  BY DEF SofarTyped, Deal, SofarGrows

LEMMA SofarSame == UNCHANGED sofar => SofarGrows
  BY DEF SofarGrows

\* The files stay as they are.
LEMMA DiskSame ==
  ASSUME UNCHANGED state
  PROVE  exists' = exists /\ Loadable' = Loadable /\ Loaded' = Loaded
  BY DEF state, Loadable, Loaded, FileOr

LEMMA DiskKept ==
  ASSUME UNCHANGED state, SofarGrows, DiskGood
  PROVE  DiskGood'
<1>1. CommitsFirst => Covers(sofar', Loaded.todo, Loaded.current)
  BY CoversGrows DEF SofarGrows, DiskGood
<1> QED
  BY <1>1, DiskSame DEF SofarGrows, DiskGood

\* A command that ends, or dies where nothing is half done.
LEMMA EndWhole ==
  ASSUME Whole, End, UNCHANGED state, SofarGrows, ~exists \/ ~Tearing
  PROVE  Whole'
<1>1. pc' = "idle" /\ saved' = 0
  BY DEF End, GoTo
<1>2. DiskWhole'
  BY DiskSame, DiskKept DEF Whole, DiskWhole
<1> QED
  BY <1>1, <1>2 DEF Whole, SavedSoFar, MemKnows, LoopPhases, RebasePhases

\* A step of the loop over todo that writes no file, from what is true of its memory
\* after it.
LEMMA LoopKeeps ==
  ASSUME Typed, Whole, pc \in LoopPhases, pc' \in LoopPhases \cup {"save"},
         UNCHANGED <<state, cmd, saved>>, SofarGrows, mem'.revert = mem.revert,
         pc' \in LoopPhases => mem' = mem,
         CommitsFirst /\ cmd # "abort" => Covers(sofar', mem'.todo, mem'.current),
         pc' = "unmark" => Msg(Pick, mem.revert) \in sofar'.dealt
  PROVE  Whole'
<1>1. exists /\ ~Tearing
  BY DEF Whole, MemKnows, Tearing, At, LoopPhases
<1>2. DiskWhole'
  BY <1>1, DiskKept DEF Whole, DiskWhole
<1>3. saved' = 0
  BY DEF Whole, SavedSoFar, LoopPhases
<1>4. SavedSoFar'
  BY <1>3 DEF SavedSoFar
<1>5. MemKnows'
  BY DiskSame DEF Whole, MemKnows, LoopPhases, RebasePhases, SofarGrows, Pick
<1> QED
  BY <1>2, <1>4, <1>5 DEF Whole

\* The steps of the loop over todo.
LEMMA LoopWhole ==
  ASSUME Typed, Whole,
         \/ Apply \/ MergeEmpty \/ MergeClean \/ MergeConflict \/ ConflictIndex \/ ConflictMarker
         \/ (CheckoutWork /\ pc = "pickwork") \/ (CheckoutIndex /\ pc = "pickindex")
         \/ MoveBranch \/ Unmark
  PROVE  Whole'
<1> USE DEF GoTo, At, proc
<1>1. pc \in LoopPhases
  BY DEF Apply, MergeEmpty, MergeClean, MergeConflict, ConflictIndex, ConflictMarker, MoveBranch,
         Unmark, LoopPhases
<1>2. /\ mem.revert = sofar.revert /\ mem.current = None /\ exists /\ ~Tearing
      /\ CommitsFirst /\ cmd # "abort" => Covers(sofar, mem.todo, None)
      /\ pc = "unmark" => Msg(Pick, mem.revert) \in sofar.dealt
  BY <1>1 DEF Whole, MemKnows, LoopPhases, Tearing
<1>3. mem \in States /\ mem.todo \in Seq(Pickable) /\ (pc # "loop" => mem.todo # <<>>)
  BY <1>1 DEF Typed, MemTyped, States
<1>4. CASE /\ \/ Apply \/ MergeConflict \/ ConflictIndex
              \/ (CheckoutWork /\ pc = "pickwork") \/ (CheckoutIndex /\ pc = "pickindex")
  <2>1. /\ pc' \in {"merge", "conflictindex", "conflictmarker", "pickindex", "pickref"}
        /\ UNCHANGED <<state, cmd, saved, sofar, mem>>
    BY <1>4 DEF Apply, MergeConflict, ConflictIndex, CheckoutWork, CheckoutIndex, After
  <2> QED
    BY <1>1, <1>2, <2>1, LoopKeeps, SofarSame DEF LoopPhases
<1>5. CASE MergeClean
  <2>1. UNCHANGED <<state, sofar>>
    BY <1>5 DEF MergeClean
  <2>2. CASE pc' = "pickwork" /\ UNCHANGED <<cmd, mem, head, saved>>
    BY <1>1, <1>2, <2>1, <2>2, LoopKeeps, SofarSame DEF LoopPhases
  <2>3. CASE End
    BY <1>2, <2>1, <2>3, EndWhole, SofarSame
  <2> QED
    BY <1>5, <2>2, <2>3 DEF MergeClean
<1>6. CASE MergeEmpty
  <2>1. /\ pc = "merge" /\ pc' = "save" /\ UNCHANGED <<state, cmd, saved>>
        /\ mem' = [mem EXCEPT !.todo = Tail(@)] /\ Deal(Msg(Pick, mem.revert))
    BY <1>6 DEF MergeEmpty
  <2>2. SofarGrows /\ Msg(Pick, mem.revert) \in sofar'.dealt
    BY <2>1, DealGrows DEF Typed
  <2>3. mem'.todo = Tail(mem.todo) /\ mem'.current = None /\ mem'.revert = mem.revert
    BY <1>2, <1>3, <2>1 DEF States
  <2>4. CommitsFirst /\ cmd # "abort" => Covers(sofar', mem.todo, None)
    BY <1>2, <2>2, CoversGrows DEF SofarGrows
  <2>5. mem.revert = sofar'.revert
    BY <1>2, <2>2 DEF SofarGrows
  <2>6. CommitsFirst /\ cmd # "abort" => Covers(sofar', mem'.todo, mem'.current)
    BY <1>3, <2>1, <2>2, <2>3, <2>4, <2>5, CoversTail DEF Pick
  <2> QED
    BY <1>1, <2>1, <2>2, <2>3, <2>6, LoopKeeps DEF LoopPhases
<1>7. CASE ConflictMarker
  <2>1. /\ pc = "conflictmarker" /\ pc' = "save" /\ UNCHANGED <<state, cmd, saved, sofar>>
        /\ mem' = [mem EXCEPT !.todo = Tail(@), !.current = Pick]
    BY <1>7 DEF ConflictMarker
  <2>2. mem'.todo = Tail(mem.todo) /\ mem'.current = mem.todo[1] /\ mem'.revert = mem.revert
    BY <1>3, <2>1 DEF States, Pick
  <2>3. sofar.goal \in Seq(Pickable)
    BY DEF Typed, SofarTyped
  <2>4. CommitsFirst /\ cmd # "abort" => Covers(sofar', mem'.todo, mem'.current)
    BY <1>2, <1>3, <2>1, <2>2, <2>3, CoversCurrent
  <2> QED
    BY <1>1, <2>1, <2>2, <2>4, LoopKeeps, SofarSame DEF LoopPhases
<1>8. CASE MoveBranch
  <2>1. pc = "pickref" /\ UNCHANGED state
    BY <1>8 DEF MoveBranch
  <2>2. CASE pc' = "unmark" /\ Deal(Msg(Pick, mem.revert)) /\ UNCHANGED proc
    <3>1. SofarGrows /\ Msg(Pick, mem.revert) \in sofar'.dealt
      BY <2>2, DealGrows DEF Typed
    <3>2. CommitsFirst /\ cmd # "abort" => Covers(sofar', mem'.todo, mem'.current)
      BY <1>2, <2>2, <3>1, CoversGrows DEF SofarGrows
    <3> QED
      BY <1>1, <2>1, <2>2, <3>1, <3>2, LoopKeeps DEF LoopPhases
  <2>3. CASE End /\ UNCHANGED <<tip, sofar>>
    BY <1>2, <2>1, <2>3, EndWhole, SofarSame
  <2> QED
    BY <1>8, <2>2, <2>3 DEF MoveBranch
<1>9. CASE Unmark
  <2>1. /\ pc = "unmark" /\ pc' = "save" /\ UNCHANGED <<state, cmd, saved, sofar>>
        /\ mem' = [mem EXCEPT !.todo = Tail(@), !.done = Append(@, Pick)]
    BY <1>9 DEF Unmark
  <2>2. mem'.todo = Tail(mem.todo) /\ mem'.current = None /\ mem'.revert = mem.revert
    BY <1>2, <1>3, <2>1 DEF States
  <2>3. CommitsFirst /\ cmd # "abort" => Covers(sofar', mem'.todo, mem'.current)
    BY <1>2, <1>3, <2>1, <2>2, CoversTail DEF Pick
  <2> QED
    BY <1>1, <2>1, <2>2, <2>3, LoopKeeps, SofarSame DEF LoopPhases
<1> QED
  BY <1>4, <1>5, <1>6, <1>7, <1>8, <1>9

\* All files written: what would be loaded is what was saved.
LEMMA AllHeld ==
  ASSUME NEW files, NEW m \in States, \A i \in 1..7 : HoldsIn(files, m, Files[i])
  PROVE  /\ {"head-name", "orig-head", "onto"} \subseteq DOMAIN files
         /\ m.todo = IF "todo" \in DOMAIN files THEN files["todo"] ELSE <<>>
         /\ m.current = IF "current" \in DOMAIN files THEN files["current"] ELSE None
         /\ m.revert = IF "mode" \in DOMAIN files THEN files["mode"] ELSE FALSE
<1>1. /\ HoldsIn(files, m, "head-name") /\ HoldsIn(files, m, "orig-head")
      /\ HoldsIn(files, m, "onto") /\ HoldsIn(files, m, "todo")
      /\ HoldsIn(files, m, "current") /\ HoldsIn(files, m, "mode")
  BY FilesAre
<1>2. m.revert \in BOOLEAN
  BY DEF States
<1>3. {"head-name", "orig-head", "onto", "todo"} \subseteq DOMAIN files /\ files["todo"] = m.todo
  BY <1>1 DEF HoldsIn, Absent, Value
<1>4. m.current = IF "current" \in DOMAIN files THEN files["current"] ELSE None
  BY <1>1 DEF HoldsIn, Absent, Value
<1>5. m.revert = IF "mode" \in DOMAIN files THEN files["mode"] ELSE FALSE
  <2>1. CASE m.revert = TRUE
    BY <1>1, <2>1 DEF HoldsIn, Absent, Value
  <2>2. CASE m.revert = FALSE
    BY <1>1, <2>2 DEF HoldsIn, Absent, Value
  <2> QED
    BY <1>2, <2>1, <2>2
<1> QED
  BY <1>3, <1>4, <1>5

\* A file that is saved holds what is in memory; the others hold what they held.
LEMMA SavedHolds ==
  ASSUME NEW f, NEW g, file' = Saved(mem, f), UNCHANGED mem, g = f \/ Holds(mem, g)
  PROVE  Holds(mem, g)'
<1>1. Absent(mem', g) = Absent(mem, g) /\ Value(mem', g) = Value(mem, g)
  OBVIOUS
<1>2. CASE g = f
  <2>1. Absent(mem, f) => f \notin DOMAIN Saved(mem, f)
    BY SavedIs
  <2>2. ~Absent(mem, f) => f \in DOMAIN Saved(mem, f) /\ Saved(mem, f)[f] = Value(mem, f)
    BY SavedIs
  <2> QED
    BY <1>1, <1>2, <2>1, <2>2 DEF Holds, HoldsIn
<1>3. CASE g # f /\ Holds(mem, g)
  <2>1. /\ g \in DOMAIN Saved(mem, f) <=> g \in DOMAIN file
        /\ g \in DOMAIN file => Saved(mem, f)[g] = file[g]
    BY <1>3 DEF Saved
  <2> QED
    BY <1>1, <1>3, <2>1 DEF Holds, HoldsIn
<1> QED
  BY <1>2, <1>3

\* A save, from the file it writes to the last.
LEMMA SaveWhole ==
  ASSUME Typed, Undoable, Whole, SaveFile \/ SaveDone \/ LoopDone
  PROVE  Whole'
<1> USE DEF GoTo, At, proc
<1>1. CASE SaveFile
  <2>1. /\ pc = "save" /\ saved < 7 /\ exists' = TRUE /\ file' = Saved(mem, Files[saved + 1])
        /\ saved' = saved + 1 /\ UNCHANGED <<pc, cmd, mem, sofar>>
    BY <1>1, FilesAre DEF SaveFile
  <2>2. saved \in 0..6 /\ saved' \in 1..7
    BY <2>1 DEF Typed
  <2>3. ASSUME NEW i \in 1..7, i <= saved' PROVE Holds(mem, Files[i])'
    <3>1. PICK f : f = Files[saved + 1]
      OBVIOUS
    <3>2. i \in 1..saved => Holds(mem, Files[i])
      BY <2>1 DEF Whole, SavedSoFar
    <3>3. i \notin 1..saved => Files[i] = f
      BY <2>1, <2>2, <2>3, <3>1
    <3> QED
      BY <2>1, <3>1, <3>2, <3>3, SavedHolds
  <2>4. SavedSoFar'
    <3>1. pc' = "save" /\ \A i \in 1..saved' : Holds(mem, Files[i])'
      BY <2>1, <2>2, <2>3
    <3> QED
      BY <3>1 DEF SavedSoFar
  <2>5. MemKnows'
    BY <2>1 DEF Whole, MemKnows, LoopPhases, RebasePhases
  <2>6. DiskWhole'
    <3>1. CASE saved' < 7
      BY <2>1, <2>2, <3>1, FilesAre DEF DiskWhole, Tearing
    <3>2. CASE saved' = 7
      <4>1. mem' \in States
        BY <2>1 DEF Typed, MemTyped
      <4>2. \A i \in 1..7 : HoldsIn(file', mem', Files[i])
        <5>1. ASSUME NEW i \in 1..7 PROVE i <= saved'
          BY <3>2
        <5> QED
          BY <2>3, <5>1 DEF Holds
      <4>3. (/\ exists => Loadable
             /\ Loaded.todo = mem.todo /\ Loaded.current = mem.current
             /\ Loaded.revert = mem.revert)'
        BY <4>1, <4>2, AllHeld DEF Loaded, Loadable, FileOr
      <4>4. /\ mem.revert = sofar.revert
            /\ CommitsFirst => Covers(sofar, mem.todo, mem.current)
        BY <2>1 DEF Whole, MemKnows, Undoable, AbortOnTheWay, AbortPhases
      <4> QED
        BY <2>1, <4>3, <4>4 DEF DiskWhole, DiskGood
    <3> QED
      BY <2>2, <3>1, <3>2
  <2> QED
    BY <2>4, <2>5, <2>6 DEF Whole
<1>2. CASE SaveDone
  <2>1. pc = "save" /\ saved = 7 /\ UNCHANGED <<state, sofar>>
    BY <1>2, FilesAre DEF SaveDone
  <2>2. ~Tearing
    BY <2>1, FilesAre DEF Tearing
  <2>3. mem \in States /\ \A i \in 1..7 : HoldsIn(file, mem, Files[i])
    BY <2>1 DEF Typed, MemTyped, Whole, SavedSoFar, Holds
  <2>4. exists /\ Loadable /\ Loaded.todo = mem.todo /\ Loaded.current = mem.current
    BY <2>1, <2>3, AllHeld DEF Undoable, OrigKept, Loaded, Loadable, FileOr
  <2>5. CASE mem.current = None /\ pc' = "loop" /\ saved' = 0 /\ UNCHANGED <<cmd, mem>>
    <3>1. DiskWhole'
      BY <2>1, <2>2, <2>4, DiskKept, SofarSame DEF Whole, DiskWhole
    <3>2. MemKnows'
      BY <2>1, <2>4, <2>5, DiskSame DEF Whole, MemKnows, LoopPhases, RebasePhases
    <3> QED
      BY <2>5, <3>1, <3>2 DEF Whole, SavedSoFar
  <2>6. CASE End
    BY <2>1, <2>2, <2>6, EndWhole, SofarSame
  <2> QED
    BY <1>2, <2>5, <2>6 DEF SaveDone
<1>3. CASE LoopDone
  <2>1. /\ pc = "loop" /\ mem.todo = <<>> /\ pc' = "cleanup"
        /\ UNCHANGED <<state, cmd, mem, saved, sofar>>
    BY <1>3 DEF LoopDone
  <2>2. DiskWhole'
    BY <2>1 DEF DiskWhole, Tearing
  <2>3. MemKnows'
    BY <2>1 DEF Whole, MemKnows, LoopPhases, RebasePhases
  <2> QED
    BY <2>1, <2>2, <2>3 DEF Whole, SavedSoFar
<1> QED
  BY <1>1, <1>2, <1>3

\* A sequence starts, and a rebase brings its branch to its base: there is no state yet.
LEMMA StartWhole ==
  ASSUME Typed, Undoable, Whole,
         \/ StartPicks \/ StartRebase
         \/ FastForwardCheck \/ FastForward \/ Rewind \/ RewindCheck
         \/ pc \in RebasePhases /\ (CheckoutWork \/ CheckoutIndex)
  PROVE  Whole'
<1> USE DEF GoTo, At, proc
<1>1. CASE StartPicks
  <2>1. PICK s \in Picks :
          /\ mem' = [EmptyState EXCEPT !.orig = tip, !.onto = tip,
                                       !.todo = s.todo, !.revert = s.revert]
          /\ sofar' = [from |-> tip, base |-> tip, goal |-> s.todo, revert |-> s.revert, dealt |-> {}]
    BY <1>1 DEF StartPicks
  <2>2. mem'.todo = s.todo /\ mem'.current = None /\ mem'.revert = sofar'.revert /\ sofar'.goal = s.todo
    BY <2>1 DEF EmptyState
  <2>3. Covers(sofar', mem'.todo, None)
    BY <2>2 DEF Covers
  <2>4. pc = "idle" /\ ~exists' /\ pc' = "save" /\ saved' = saved
    BY <1>1 DEF StartPicks, state
  <2> QED
    BY <2>2, <2>3, <2>4
    DEF Whole, DiskWhole, SavedSoFar, MemKnows, LoopPhases, RebasePhases
<1>2. CASE StartRebase
  <2>1. PICK onto \in Ontos :
          /\ mem' = [EmptyState EXCEPT !.orig = tip, !.onto = onto,
                                       !.todo = ToReplay(tip, MergeBase(tip, onto))]
          /\ sofar' = [from |-> tip, base |-> onto, goal |-> ToReplay(tip, MergeBase(tip, onto)),
                       revert |-> FALSE, dealt |-> {}]
    BY <1>2 DEF StartRebase
  <2>2. mem'.todo = sofar'.goal /\ mem'.current = None /\ mem'.revert = sofar'.revert
    BY <2>1 DEF EmptyState
  <2>3. Covers(sofar', mem'.todo, None)
    BY <2>2 DEF Covers
  <2>4. pc = "idle" /\ ~exists' /\ pc' \in {"ffcheck", "rewind"} /\ saved' = saved
    BY <1>2 DEF StartRebase, state
  <2> QED
    BY <2>2, <2>3, <2>4
    DEF Whole, DiskWhole, SavedSoFar, MemKnows, LoopPhases, RebasePhases
<1>3. CASE ~(StartPicks \/ StartRebase)
  <2>1. pc \in RebasePhases /\ ~exists /\ UNCHANGED <<state, sofar>>
    BY <1>3 DEF FastForwardCheck, FastForward, Rewind, RewindCheck, CheckoutWork, CheckoutIndex,
                RebasePhases, Undoable, OrigKept
  <2>2. CASE End
    BY <2>1, <2>2, EndWhole, SofarSame
  <2>3. CASE pc' \in RebasePhases \cup {"save"} /\ UNCHANGED <<cmd, mem, saved>>
    BY <2>1, <2>3
    DEF Whole, DiskWhole, SavedSoFar, MemKnows, LoopPhases, RebasePhases, state
  <2>4. End \/ (pc' \in RebasePhases \cup {"save"} /\ UNCHANGED <<cmd, mem, saved>>)
    BY <1>3, <2>1
    DEF FastForwardCheck, FastForward, Rewind, RewindCheck, CheckoutWork, CheckoutIndex, After,
        RebasePhases
  <2> QED
    BY <2>2, <2>3, <2>4
<1> QED
  BY <1>1, <1>2, <1>3

\* --continue takes up what is on disk; --abort no longer wants any of it.
LEMMA ResumeWhole ==
  ASSUME Typed, Undoable, Whole,
         \/ Continue \/ StartAbort \/ Abort \/ RemoveFile \/ Finish
         \/ pc \in AbortPhases /\ (CheckoutWork \/ CheckoutIndex)
  PROVE  Whole'
<1> USE DEF GoTo, At, proc
<1>1. CASE Continue
  <2> DEFINE c == Loaded.current
  <2>1. /\ pc = "idle" /\ Loadable /\ UNCHANGED <<state, saved, sofar>>
        /\ mem' = [Loaded EXCEPT !.current = None,
                                 !.done = @ \o IF c = None THEN <<>> ELSE <<c>>]
        /\ pc' = IF c = None THEN "loop" ELSE "save"
        /\ CommitsFirst => c = None \/ Msg(c, sofar.revert) \in sofar.dealt
    BY <1>1 DEF Continue
  <2>2. mem'.todo = Loaded.todo /\ mem'.current = None /\ mem'.revert = Loaded.revert
    BY <2>1 DEF Loaded
  <2>3. DiskGood
    BY <2>1 DEF Whole, DiskWhole, Loadable, Tearing
  <2>4. CommitsFirst => Covers(sofar, mem'.todo, None)
    BY <2>1, <2>2, <2>3, CoversDealt DEF DiskGood
  <2>5. DiskWhole'
    BY <2>1, <2>3, DiskKept, SofarSame DEF DiskWhole
  <2>6. MemKnows'
    BY <2>1, <2>2, <2>3, <2>4, DiskSame DEF MemKnows, DiskGood, Loadable, LoopPhases, RebasePhases
  <2>7. SavedSoFar'
    BY <2>1 DEF Whole, SavedSoFar
  <2> QED
    BY <2>5, <2>6, <2>7 DEF Whole
<1>2. CASE StartAbort
  <2>1. /\ pc = "idle" /\ Loadable /\ UNCHANGED <<state, saved>> /\ mem' = Loaded
        /\ sofar' = [sofar EXCEPT !.goal = <<>>] /\ pc' = "abort" /\ cmd' = "abort"
    BY <1>2 DEF StartAbort
  <2>2. DiskGood
    BY <2>1 DEF Whole, DiskWhole, Loadable, Tearing
  <2>3. sofar'.goal = <<>> /\ sofar'.revert = sofar.revert
    BY <2>1 DEF Typed, SofarTyped
  <2>4. DiskGood'
    BY <2>1, <2>2, <2>3, DiskSame DEF DiskGood, Covers
  <2> QED
    BY <2>1, <2>2, <2>3, <2>4
    DEF Whole, DiskWhole, DiskGood, SavedSoFar, MemKnows, LoopPhases, RebasePhases
<1>3. CASE Abort \/ (pc \in AbortPhases /\ (CheckoutWork \/ CheckoutIndex))
  <2>1. /\ pc \in AbortPhases /\ pc' \in {"forcework", "forceindex", "cleanup"}
        /\ UNCHANGED <<state, cmd, mem, saved, sofar>>
    BY <1>3 DEF Abort, CheckoutWork, CheckoutIndex, After, AbortPhases
  <2>2. cmd = "abort"
    BY <2>1 DEF Undoable, AbortOnTheWay
  <2>3. DiskWhole'
    BY <2>1, DiskKept, SofarSame, DiskSame DEF Whole, DiskWhole, Tearing, AbortPhases
  <2> QED
    BY <2>1, <2>2, <2>3 DEF Whole, SavedSoFar, MemKnows, LoopPhases, RebasePhases, AbortPhases
<1>4. CASE RemoveFile
  <2>1. pc = "cleanup" /\ UNCHANGED <<pc, cmd, mem, saved, sofar>>
    BY <1>4 DEF RemoveFile
  <2> QED
    BY <2>1 DEF Whole, DiskWhole, Tearing, SavedSoFar, MemKnows, LoopPhases, RebasePhases
<1>5. CASE Finish
  BY <1>5, EndWhole, SofarSame DEF Finish
<1> QED
  BY <1>1, <1>2, <1>3, <1>4, <1>5

\* The user adds to what is dealt with; a crash that leaves nothing half written.
LEMMA OthersWhole ==
  ASSUME Typed, Whole, Resolve \/ UserCommit \/ Edit \/ (Crash /\ ~Tearing)
  PROVE  Whole'
<1> USE DEF GoTo, At, proc
<1>1. CASE Crash /\ ~Tearing
  BY <1>1, EndWhole, SofarSame DEF Crash
<1>2. CASE Resolve \/ UserCommit \/ Edit
  <2>1. pc = "idle" /\ UNCHANGED <<state, pc, cmd, mem, saved>>
    BY <1>2 DEF Resolve, UserCommit, Edit
  <2>2. SofarGrows
    <3>1. CASE UserCommit
      BY <3>1, DealGrows DEF UserCommit, Typed
    <3> QED
      BY <1>2, <3>1, SofarSame DEF Resolve, Edit
  <2>3. DiskWhole'
    BY <2>1, <2>2, DiskKept, DiskSame DEF Whole, DiskWhole, Tearing
  <2> QED
    BY <2>1, <2>3 DEF Whole, SavedSoFar, MemKnows, LoopPhases, RebasePhases
<1> QED
  BY <1>1, <1>2

LEMMA WholeStutter == Whole /\ UNCHANGED vars => Whole'
<1> SUFFICES ASSUME Whole, UNCHANGED vars PROVE Whole'
  OBVIOUS
<1>1. UNCHANGED <<state, pc, cmd, mem, saved, sofar>>
  BY DEF vars, proc
<1>2. DiskWhole'
  BY <1>1, DiskKept, DiskSame, SofarSame DEF Whole, DiskWhole, Tearing, At
<1>3. SavedSoFar' /\ MemKnows'
  BY <1>1, DiskSame
  DEF Whole, SavedSoFar, MemKnows, Holds, HoldsIn, LoopPhases, RebasePhases, state, Pick
<1> QED
  BY <1>2, <1>3 DEF Whole

\* Once a crash has left half of the files, nothing is said any more.
LEMMA TornStays ==
  ASSUME Typed, [Next]_vars, ~count'.torn
  PROVE  ~count.torn /\ (Crash => ~Tearing)
<1>1. CASE Crash
  <2>1. (count.torn \/ Tearing) \in BOOLEAN
    BY Zenon
  <2>2. PICK torn \in BOOLEAN :
          torn = (count.torn \/ Tearing) /\ count' = [count EXCEPT !.crashes = @ + 1, !.torn = torn]
    BY <1>1, <2>1, Zenon DEF Crash
  <2>3. count'.torn = torn
    BY <2>2 DEF Typed, CountTyped
  <2> QED
    BY <2>2, <2>3, Zenon
<1>2. ASSUME Bump("sequences") \/ Bump("edits") PROVE count'.torn = count.torn
  <2>1. count \in [sequences : Nat, crashes : Nat, edits : Nat, torn : BOOLEAN]
    BY DEF Typed, CountTyped
  <2>2. CASE Bump("sequences")
    BY <2>1, <2>2 DEF Bump
  <2>3. CASE Bump("edits")
    BY <2>1, <2>3 DEF Bump
  <2> QED
    BY <1>2, <2>2, <2>3
<1>3. CASE ~Crash /\ UNCHANGED count
  BY <1>3, Zenon
<1>4. CASE ~Crash /\ ~UNCHANGED count
  <2>1. StartPicks \/ StartRebase \/ Edit
    BY <1>4
    DEF Next, Loop, FastForwardCheck, FastForward, Rewind, RewindCheck,
        SaveFile, SaveDone, LoopDone, Apply, MergeEmpty, MergeClean, MergeConflict, ConflictIndex,
        ConflictMarker, MoveBranch, Unmark, Continue, StartAbort, Abort, RemoveFile, Resolve,
        UserCommit, CheckoutWork, CheckoutIndex, Finish, vars
  <2>2. Bump("sequences") \/ Bump("edits")
    BY <2>1 DEF StartPicks, StartRebase, Edit
  <2> QED
    BY <1>2, <1>4, <2>2
<1> QED
  BY <1>1, <1>3, <1>4

LEMMA WholeStep == Typed /\ Undoable /\ Resumable /\ [Next]_vars => Resumable'
<1> SUFFICES ASSUME Typed, Undoable, Resumable, [Next]_vars, ~count'.torn PROVE Whole'
  BY DEF Resumable
<1>1. Whole /\ (Crash => ~Tearing)
  BY TornStays DEF Resumable
<1>2. /\ CheckoutWork => pc = "pickwork" \/ pc \in RebasePhases \/ pc \in AbortPhases
      /\ CheckoutIndex => pc = "pickindex" \/ pc \in RebasePhases \/ pc \in AbortPhases
  <2>1. CheckoutWork => pc \in {"pickwork", "rewindwork", "ffwork", "forcework"}
    BY Zenon DEF CheckoutWork
  <2>2. CheckoutIndex => pc \in {"pickindex", "rewindindex", "ffindex", "forceindex"}
    BY Zenon DEF CheckoutIndex
  <2> QED
    BY <2>1, <2>2 DEF RebasePhases, AbortPhases
<1>3. CASE CheckoutWork \/ CheckoutIndex
  <2>1. CASE (CheckoutWork /\ pc = "pickwork") \/ (CheckoutIndex /\ pc = "pickindex")
    BY ONLY Typed, <1>1, <2>1, LoopWhole
  <2>2. CASE pc \in RebasePhases
    BY ONLY Typed, Undoable, <1>1, <1>3, <2>2, StartWhole
  <2>3. CASE pc \in AbortPhases
    BY ONLY Typed, Undoable, <1>1, <1>3, <2>3, ResumeWhole
  <2> QED
    BY <1>2, <1>3, <2>1, <2>2, <2>3
<1>4. CASE \/ Apply \/ MergeEmpty \/ MergeClean \/ MergeConflict \/ ConflictIndex
           \/ ConflictMarker \/ MoveBranch \/ Unmark
  BY ONLY Typed, <1>1, <1>4, LoopWhole
<1>5. CASE SaveFile \/ SaveDone \/ LoopDone
  BY ONLY Typed, Undoable, <1>1, <1>5, SaveWhole
<1>6. CASE \/ StartPicks \/ StartRebase
           \/ FastForwardCheck \/ FastForward \/ Rewind \/ RewindCheck
  BY ONLY Typed, Undoable, <1>1, <1>6, StartWhole
<1>7. CASE Continue \/ StartAbort \/ Abort \/ RemoveFile \/ Finish
  BY ONLY Typed, Undoable, <1>1, <1>7, ResumeWhole
<1>8. CASE Resolve \/ UserCommit \/ Edit \/ Crash
  <2>1. Resolve \/ UserCommit \/ Edit \/ (Crash /\ ~Tearing)
    BY <1>1, <1>8, Zenon
  <2> QED
    BY ONLY Typed, <1>1, <2>1, OthersWhole
<1>9. CASE UNCHANGED vars
  BY <1>1, <1>9, WholeStutter
<1> QED
  BY <1>3, <1>4, <1>5, <1>6, <1>7, <1>8, <1>9 DEF Next, Loop

LEMMA WholeInit == Init => Resumable
<1> SUFFICES ASSUME Init PROVE Whole
  BY DEF Resumable
<1>1. ~exists /\ pc = "idle" /\ saved = 0
  BY DEF Init
<1> QED
  BY <1>1 DEF Whole, DiskWhole, SavedSoFar, MemKnows, LoopPhases, RebasePhases

LEMMA SequencerResumable == Spec => []Resumable
  BY WholeInit, WholeStep, SequencerTyped, SequencerUndoable, PTL DEF Spec

\* Before a pick moves the branch the state on disk names where the branch was, and
\* has the pick still to do, whatever crashes have come between, unless one has left
\* half of the state files.
THEOREM SavedBeforeMoved == Spec => []WrittenAhead
<1>1. Typed /\ Undoable /\ Resumable => WrittenAhead
  <2> SUFFICES ASSUME Typed, Undoable, Resumable, pc = "pickref", ~count.torn
               PROVE  /\ Loadable
                      /\ Loaded.orig = sofar.from /\ Loaded.revert = sofar.revert
                      /\ Loaded.todo # <<>> /\ Loaded.todo[1] = Pick
    BY DEF WrittenAhead, At
  <2>1. Loadable /\ DiskGood /\ Loaded.todo = mem.todo
    BY DEF Resumable, Whole, DiskWhole, MemKnows, LoopPhases, Tearing, At
  <2>2. mem.todo # <<>>
    BY DEF Typed, MemTyped, LoopPhases
  <2>3. Loaded.orig = sofar.from
    BY <2>1 DEF Loaded, Loadable, Undoable, OrigKept
  <2> QED
    BY <2>1, <2>2, <2>3 DEF DiskGood, Pick
<1> QED
  BY <1>1, SequencerTyped, SequencerUndoable, SequencerResumable, PTL

\* A sequence that ends well has dealt with every commit it was asked for, when the
\* user commits a resolution before --continue, over any number of conflicts, crashes
\* and continuations.
THEOREM NothingSkipped ==
  ASSUME CommitsFirst
  PROVE  Spec => FinishedApplied
<1>1. ASSUME Typed, Resumable, [Next]_vars
      PROVE  [Finish /\ cmd # "abort" /\ ~count.torn => Range(Goal) \subseteq sofar.dealt]_vars
  <2> SUFFICES ASSUME Finish, cmd # "abort", ~count.torn
               PROVE  Range(Goal) \subseteq sofar.dealt
    BY <1>1
  <2>1. pc = "cleanup"
    BY DEF Finish, At
  <2>2. mem.current = None /\ Covers(sofar, <<>>, None)
    BY <1>1, <2>1 DEF Resumable, Whole, MemKnows
  <2>3. sofar.goal \in Seq(Pickable)
    BY <1>1 DEF Typed, SofarTyped
  <2>4. \A i \in DOMAIN sofar.goal : sofar.goal[i] # None
    BY <2>3, SequencerAssumption DEF Pickable
  <2>5. \A i \in DOMAIN sofar.goal : Msg(sofar.goal[i], sofar.revert) \in sofar.dealt
    BY <2>2, <2>4 DEF Covers
  <2>6. /\ DOMAIN sofar.goal = 1..Len(sofar.goal) /\ DOMAIN Goal = 1..Len(sofar.goal)
        /\ \A i \in DOMAIN Goal : Goal[i] = Msg(sofar.goal[i], sofar.revert)
    BY <2>3 DEF Goal
  <2>7. \A i \in DOMAIN Goal : Goal[i] \in sofar.dealt
    BY <2>5, <2>6, Zenon
  <2> QED
    BY <2>7, Zenon DEF Range
<1> QED
  BY <1>1, SequencerTyped, SequencerResumable, PTL DEF Spec, FinishedApplied
=============================================================================
