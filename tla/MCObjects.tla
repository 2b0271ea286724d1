----------------------------- MODULE MCObjects ------------------------------
(***************************************************************************)
(* Instances of Objects: a user, a second user and maintenance; every sound *)
(* pack of up to three entries over three objects, or two of one entry;     *)
(* every pair of small files for add -p; every three small versions of one  *)
(* file to merge, every three entries of a path of any mode, and what two   *)
(* files may be renamed to; indexes and tables whose numbers and lengths    *)
(* are at the edges of their formats.                                       *)
(***************************************************************************)
EXTENDS Objects, TLC

CONSTANTS alice, bob, carer, b0, b1, b2

Plan(us, vs, ms) == alice :> us @@ bob :> vs @@ carer :> ms

\* Users commit new content, rewind and commit again while one gc or
\* prune-packed after another runs; prune runs with nobody writing.
MCScripts ==
  {Plan(<<AddCmd(b1), CommitCmd, AddCmd(b2), CommitCmd>>, <<>>, <<GcCmd>>),
   Plan(<<AddCmd(b1), CommitCmd, ResetCmd>>, <<AddCmd(b2), ResetCmd>>, <<GcCmd>>),
   Plan(<<AddCmd(b1), CommitCmd, ResetCmd, ResetCmd>>, <<GcCmd>>, <<>>),
   Plan(<<AddCmd(b1), CommitCmd, GcCmd, ResetCmd, GcCmd>>, <<>>, <<>>),
   Plan(<<AddCmd(b1), CommitCmd, GcCmd, ResetCmd, PruneCmd, GcCmd>>, <<>>, <<PrunePackCmd>>),
   Plan(<<AddCmd(b1), CommitCmd, ResetCmd, PruneCmd>>, <<>>, <<>>),
   Plan(<<AddCmd(b1), CommitCmd, ResetCmd, AddCmd(b1), CommitCmd>>, <<>>, <<GcCmd>>),
   Plan(<<PruneCmd, AddCmd(b1), CommitCmd, ResetCmd, PruneCmd>>, <<>>, <<>>),
   Plan(<<GcCmd, GcCmd, PrunePackCmd>>, <<>>, <<>>), Plan(<<>>, <<>>, <<>>)}

\* Two blobs that differ in their last digit, and a tree.
MCObjects ==
  <<0, 0, 1, 1>> :> [kind |-> "blob", body |-> <<"x", "y">>]
    @@ <<0, 0, 1, 0>> :> [kind |-> "blob", body |-> <<"x", "y", "y">>]
    @@ <<1, 0, 1, 1>> :> [kind |-> "tree", body |-> <<"y", "x">>]
MCOffsets == <<12, 20, 24>>

SameKind(a, b) == Objects[a].kind = Objects[b].kind
RECURSIVE PacksFrom(_, _)
PacksFrom(p, k) ==
  LET i == Len(p) + 1
      ids == DOMAIN Objects \ {p[j].id : j \in DOMAIN p}
      more == {Direct(id, i) : id \in ids}
                \cup {OfsDelta(x[1], i, p, x[2]) : x \in {y \in ids \X DOMAIN p : SameKind(y[1], p[y[2]].id)}}
                \cup {RefDelta(x[1], i, x[2]) : x \in {y \in ids \X DOMAIN Objects : y[1] # y[2] /\ SameKind(y[1], y[2])}}
  IN  {p} \cup IF k = 0 THEN {} ELSE UNION {PacksFrom(Append(p, e), k - 1) : e \in more}

\* The base of an entry in its pack, 0 if it has none there; chains of deltas come to an end.
BaseIn(p, i) ==
  IF \E j \in DOMAIN p : p[i].type = "ofs" /\ p[j].at = p[i].base
  THEN CHOOSE j \in DOMAIN p : p[j].at = p[i].base
  ELSE IF \E j \in DOMAIN p : p[i].type = "ref" /\ p[j].id = p[i].base
  THEN CHOOSE j \in DOMAIN p : p[j].id = p[i].base ELSE 0
Sound(p) ==
  \A i \in DOMAIN p : LET b == BaseIn(p, i) IN
    b = 0 \/ BaseIn(p, b) = 0 \/ BaseIn(p, BaseIn(p, b)) = 0
SoundPacks == {p \in PacksFrom(<<>>, 3) \ {<<>>} : Sound(p)}

MCStreams == {p \in SoundPacks : Len(p) = 2 /\ p[2].type # "direct"}
MCFirstPacks ==
  {<<>>} \cup {<<p>> : p \in {x \in SoundPacks : Len(x) = 3}}
    \cup {<<p, q>> : p \in {x \in SoundPacks : Len(x) = 1}, q \in {x \in SoundPacks : Len(x) = 1}}
MCLists == {<<<<0, 0, 1, 1>>, <<0, 0, 1, 0>>>>, <<<<1, 0, 1, 1>>, <<1, 0, 1, 1>>>>}
MCSizes == {0, 1, 15, 16, 17, 2047, 2048, 262143, 262144}

-----------------------------------------------------------------------------
(* Sessions of add -p, and merges.                                           *)

MCPaths == <<"p", "q", "r", "s">>

L(x) == <<x, TRUE>>
E(x) == <<x, FALSE>>

\* The files of at most k lines, and some whose last line has no newline.
FilesTo(k) == {<<>>} \cup UNION {[1..i -> {L("x"), L("y")}] : i \in 1..k}
Unended == {<<E("x")>>, <<L("x"), E("x")>>, <<L("x"), E("y")>>}

One1(a, b) == <<[a |-> a, b |-> b, am |-> "regular", bm |-> "regular"]>>
Long == <<L("1"), L("2"), L("3"), L("4"), L("5"), L("6"), L("7")>>
Far  == <<L("x"), L("1"), L("2"), L("y"), L("4"), L("5"), L("6"), L("x")>>
Two  == <<[a |-> <<L("x")>>, b |-> <<L("y")>>, am |-> "regular", bm |-> "executable"],
          [a |-> <<L("x")>>, b |-> Gone, am |-> "regular", bm |-> "regular"],
          [a |-> <<L("x")>>, b |-> <<L("x")>>, am |-> "regular", bm |-> "executable"],
          [a |-> <<>>, b |-> <<L("y")>>, am |-> "regular", bm |-> "regular"]>>

MCSessions ==
  {s \in {One1(a, b) : a \in FilesTo(3), b \in FilesTo(3)} \cup {One1(a, b) : a \in FilesTo(1), b \in FilesTo(4)} :
     s[1].a # s[1].b}
    \cup {One1(a, b) : a \in {<<L("x")>>}, b \in Unended} \cup {One1(a, b) : a \in Unended, b \in {<<L("y")>>}}
    \cup {One1(Long, Far), One1(Far, Long), Two}

R(f) == [mode |-> "regular", data |-> f]
\* Trees with one path, with two, with files that may go or come.
Same(S) == {[p \in Path |-> IF p = "p" THEN x ELSE Absent] : x \in S}
Both(a, b, S, T) == {[p \in Path |-> CASE p = a -> x [] p = b -> y [] OTHER -> Absent] : x \in S, y \in T}
Mix(b, o, t) == [base |-> b, ours |-> o, theirs |-> t]

\* One file in three versions.
Versions == LET F(k) == Same({R(f) : f \in FilesTo(k)}) IN Mix(F(3), F(2), F(2))
Longer   == LET F(k) == Same({R(f) : f \in FilesTo(k)}) IN Mix(F(2), F(3), F(2))

\* A file of four lines, of which each side changes some, or removes some: blocks
\* that chain over several hunks.
Four == <<L("1"), L("2"), L("3"), L("4")>>
Changed(S) == [i \in 1..4 |-> IF i \in S THEN L("z") ELSE Four[i]]
Dropped(S) == SelectSeq(Four, LAMBDA l : \A i \in S : Four[i] # l)
Chains == LET F == Same({R(Changed(S)) : S \in SUBSET (1..4)} \cup {R(Dropped(S)) : S \in SUBSET (1..4)})
          IN  Mix(Same({R(Four)}), F, F)
NoNewline == LET F == Same({R(f) : f \in Unended \cup FilesTo(1)}) IN Mix(F, F, F)

\* One path of any mode.
AnyEntry == {Absent} \cup {[mode |-> md, data |-> d] :
          md \in {"regular", "executable", "symlink", "gitlink"}, d \in {<<L("x")>>, <<L("y")>>}}
Modes == Mix(Same(AnyEntry), Same(AnyEntry), Same(AnyEntry))

\* A second path beside it.
XorY == {Absent, R(<<L("x")>>), R(<<L("y")>>)}
TwoPaths == LET F == Both("p", "q", XorY, XorY) IN Mix(F, F, F)

\* Two files that go, two that come.
Few == {Absent} \cup {R(f) : f \in {<<>>, <<L("x"), L("y")>>, <<L("x"), L("x"), L("y")>>, <<L("y"), L("x")>>, <<L("x"), L("z")>>}}
Moved == Mix(Both("p", "q", Few, Few), Both("r", "s", Few, Few), Same({Absent}))

\* A file that goes to one of two names, and on to another.
Renamed == LET S(fs) == {R(f) : f \in fs}
               xy == <<L("x"), L("y")>>
               yx == <<L("y"), L("x")>>
               xxy == <<L("x"), L("x"), L("y")>>
           IN  Mix(Same(S({xy, xxy})), Both("r", "s", S({xy, yx}) \cup {Absent}, S({xy, xxy}) \cup {Absent}),
                   Both("s", "q", S({xy, yx, xxy}), S({xxy}) \cup {Absent}))

MCMerges == {Versions, Longer, Chains, NoNewline, Modes, TwoPaths, Moved, Renamed}
MCRetyped == {R(<<L("z")>>), [mode |-> "symlink", data |-> <<L("x")>>], [mode |-> "directory", data |-> <<>>],
              [mode |-> "executable", data |-> <<L("x")>>]}

-----------------------------------------------------------------------------
(* Bytes of indexes and tables: 97 and on are letters, 114 and 103 the ones   *)
(* that begin a block.                                                        *)

RECURSIVE Mixed(_, _, _)
Mixed(b, i, j) ==
  IF i >= j THEN (IF i = j THEN b[i] + 1 ELSE 0)
  ELSE LET mid == (i + j) \div 2 IN (Mixed(b, i, mid) * 257 + Mixed(b, mid + 1, j) * 8191 + j - i) % 65521
MCDigest(b) == Word(2, Mixed(b, 1, Len(b)))
MCCrc(b) == Word(4, Mixed(b, 1, Len(b)))

\* Paths shorter than NameCap, as long, and longer.
PathEntry(path, stage) ==
  [stat |-> [i \in 1..10 |-> 256 * i + 1], oid |-> <<7, 114>>, path |-> path, stage |-> stage,
   valid |-> FALSE, extended |-> FALSE, more |-> 0]
Extended(e) == [e EXCEPT !.extended = TRUE, !.more = 24576]
MCEntries == {PathEntry(<<97>>, 0), [PathEntry(<<97>>, 0) EXCEPT !.oid = <<0, 0>>, !.valid = TRUE],
              PathEntry(<<97, 47, 98>>, 2), PathEntry(<<97, 46, 98, 99, 100, 101, 102, 103>>, 0)}
MCRemovals == {<<97>>, <<97, 47, 98>>}
IndexOf(v, es, t, cs) == [index |-> [version |-> v, entries |-> es, tree |-> t], chunks |-> cs]
Node(name, count, kids) ==
  [name |-> name, count |-> count, oid |-> IF count < 0 THEN <<>> ELSE <<10, 0>>, children |-> kids]
SomeTree == Node(<<>>, -1, <<Node(<<97>>, 12, <<Node(<<98>>, 0, <<>>)>>), Node(<<99>>, -1, <<>>)>>)
MCIndexes ==
  {IndexOf(2, <<>>, NoCache, <<>>),
   IndexOf(2, <<PathEntry(<<97>>, 1), PathEntry(<<97>>, 3), PathEntry(<<98>>, 0)>>, SomeTree,
           Chunk(<<82, 69, 85, 67>>, <<1, 2, 3>>) \o Chunk(TreeSig, WriteTree(SomeTree))),
   IndexOf(3, <<PathEntry(<<97>>, 0), Extended(PathEntry(<<97, 97, 97>>, 0)), Extended(PathEntry(<<98, 98>>, 0))>>,
           NoCache, Chunk(TreeSig, <<>>))}

RefTo(name, type, data) == [name |-> name, index |-> 0, type |-> type, data |-> data]
LogOf(name, time, zone, message) ==
  [name |-> name, index |-> 0, type |-> 1, old |-> <<0, 0>>, new |-> <<103, 1>>, who |-> <<65>>, email |-> <<>>,
   time |-> time, zone |-> zone, message |-> message]
NoLog(r) == [ref |-> r, log |-> <<>>]
Logged(r, time, zone, message) == [ref |-> r, log |-> <<LogOf(r.name, time, zone, message)>>]
a == <<97>>
ab == <<97, 98>>
\* Its length, with a type, takes two bytes.
LongName == [i \in 1..17 |-> 100 + i]
Batch(version, updates) == [version |-> version, updates |-> updates]
MCBatches ==
  {Batch(1, <<Logged(RefTo(ab, 1, <<1, 2>>), 128, -300, LongName), Logged(RefTo(a, 0, <<>>), 16511, 330, <<>>)>>),
   Batch(2, <<NoLog(RefTo(a, 3, ab)), Logged(RefTo(LongName, 1, <<0, 0>>), 16512, 0, <<10>>)>>),
   Batch(2, <<NoLog(RefTo(ab, 0, <<>>))>>),
   \* More than a block: without and with a letter r where the next would begin.
   Batch(1, <<NoLog(RefTo(a, 1, <<114, 114>>)), NoLog(RefTo(ab, 1, <<114, 114>>)), NoLog(RefTo(LongName, 1, <<1, 1>>))>>),
   Batch(1, <<NoLog(RefTo(a, 1, <<114, 114>>)), NoLog(RefTo(ab, 1, <<114, 114>>)),
              NoLog(RefTo(<<114, 98>>, 3, LongName)), NoLog(RefTo(<<98>>, 3, Tail(LongName)))>>)}

MCGitTables ==
  LET refs1 == <<RefTo(a, 2, <<1, 1, 2, 2>>), RefTo(ab, 1, <<3, 3>>)>>
      refs2 == <<RefTo(LongName, 0, <<>>), RefTo(Append(LongName, 120), 3, a)>>
      refs3 == <<RefTo(<<122>>, 1, <<0, 9>>)>>
      logs1 == <<LogOf(a, 0, 720, <<>>), LogOf(ab, 127, -720, <<1>>)>>
      logs2 == <<[name |-> LongName, index |-> 0, type |-> 0]>>
      table(v, size, logs) == [version |-> v, block |-> size, refs |-> <<refs1, refs2, refs3>>, logs |-> logs]
  IN  {table(1, 0, <<logs1, logs2>>), table(2, 80, <<logs1, logs2>>), table(1, 80, <<>>)}
=============================================================================
