------------------------------- MODULE Names --------------------------------
(***************************************************************************)
(* Names of refs (src/refs/name.rs, src/cli/check_ref_format.rs), what an  *)
(* expression for a revision stands for (src/revparse.rs), and the         *)
(* commands that make, rename and delete branches and tags                 *)
(* (src/cli/branch.rs, src/cli/tag.rs), one command at a time, any of them *)
(* killed between its transactions.  A name is the sequence of its parts.  *)
(***************************************************************************)
EXTENDS Naturals, Sequences, FiniteSets, SequencesExt, FiniteSetsExt, Functions

CONSTANTS
  Commits,    \* the commits, and
  Parents,    \* commit -> the sequence of its parents
  HexIds,     \* parts that are hex digits -> the commits whose ids begin so
  Short,      \* the names branches and tags are given
  FirstRefs,  \* the refs at first, HEAD among them
  Exprs,      \* the expressions used: [base, ops]
  MaxRefs,    \* bounds the refs at a time
  MaxCount,   \* the largest number a suffix can have (u32)
  NameTexts,  \* texts looked at as names of refs
  NoName, Failed

CommitObject(c) == [kind |-> "commit", id |-> c]
TreeOfCommit(c)   == [kind |-> "tree", id |-> c]
Tag(o)    == [kind |-> "tag", of |-> o]
At(o)     == [at |-> o, to |-> NoName]
To(n)     == [at |-> NoName, to |-> n]

HEAD      == <<"HEAD">>
Branch(n) == <<"refs", "heads">> \o n
TagRef(n) == <<"refs", "tags">> \o n

VARIABLES
  refs,   \* name -> At an object or To a name
  doing,  \* the rename in progress: [old, new, step], or NoName
  text    \* the text looked at, or NoName

nameVars == <<refs, doing, text>>

-----------------------------------------------------------------------------
(* Expressions.                                                            *)

MaxDepth == 5
RECURSIVE Deref(_, _)
Deref(n, depth) == IF depth = MaxDepth \/ n \notin DOMAIN refs THEN Failed
                   ELSE IF refs[n].to = NoName THEN refs[n].at ELSE Deref(refs[n].to, depth + 1)

\* Where a name is looked up: as it stands, then under these.
Candidates(b) == <<b, <<"refs">> \o b, TagRef(b), Branch(b), <<"refs", "remotes">> \o b,
                   <<"refs", "remotes">> \o b \o HEAD>>

\* resolve_base: an unambiguous hex prefix goes before every ref.
Base(b) ==
  LET ids  == IF Len(b) = 1 /\ b[1] \in DOMAIN HexIds THEN HexIds[b[1]] ELSE {}
      seen == {i \in 1..6 : Candidates(b)[i] \in DOMAIN refs}
  IN  IF Cardinality(ids) = 1 THEN CommitObject(CHOOSE c \in ids : TRUE)
      ELSE IF ids # {} \/ seen = {} THEN Failed
      ELSE Deref(Candidates(b)[Min(seen)], 0)

\* read_commit: tags are peeled; a tree has no commit.
RECURSIVE Peeled(_)
Peeled(o) == CASE o.kind = "commit" -> o [] o.kind = "tag" -> Peeled(o.of) [] o.kind = "tree" -> Failed

\* Digits of a number too large to hold count as no digits at all.
Count(n) == IF n > MaxCount THEN 1 ELSE n

RECURSIVE Back(_, _)
Back(o, n) ==
  IF n = 0 THEN o
  ELSE LET c == Peeled(o) IN
       IF c = Failed \/ Parents[c.id] = <<>> THEN Failed ELSE Back(CommitObject(Parents[c.id][1]), n - 1)

ApplySuffix(o, s) ==
  LET c == Peeled(o)
      k == Count(s.n)
  IN  IF s.op = "ancestor" THEN Back(o, k)
      ELSE IF c = Failed THEN Failed
      ELSE IF s.op = "tree" THEN TreeOfCommit(c.id)
      ELSE IF k = 0 THEN c
      ELSE IF k <= Len(Parents[c.id]) THEN CommitObject(Parents[c.id][k]) ELSE Failed

Resolve(e) == FoldLeft(LAMBDA o, s : IF o = Failed THEN o ELSE ApplySuffix(o, s), Base(e.base), e.ops)

-----------------------------------------------------------------------------
(* Texts.                                                                  *)

Holds(t, s) == \E i \in DOMAIN t : IsPrefix(s, SubSeq(t, i, Len(t)))
Parts(t) == LET cuts == {0, Len(t) + 1} \cup {i \in DOMAIN t : t[i] = "/"}
            IN  {SubSeq(t, i + 1, Min({j \in cuts : j > i}) - 1) : i \in cuts \ {Len(t) + 1}}
GoodPart(c) == c # <<>> /\ c[1] # "." /\ ~IsSuffix(<<".", "lock">>, c)

\* FullName::new.
Valid(t) ==
  /\ t # <<>> /\ t # <<"@">> /\ t[1] \notin {"/", "."} /\ Last(t) \notin {"/", "."}
  /\ \A s \in {<<".", ".">>, <<"/", "/">>, <<"@", "{">>} : ~Holds(t, s)
  /\ \A i \in DOMAIN t : t[i] \notin {" ", "~", "^", "*"}
  /\ \A c \in Parts(t) : GoodPart(c)

\* check-ref-format; one: --allow-onelevel, pattern: --refspec-pattern.
IsValidRefName(t, one, pattern) ==
  LET parts == IF pattern /\ (t = <<"*">> \/ IsSuffix(<<"/", "*">>, t)) THEN Parts(t) \ {<<"*">>} ELSE Parts(t)
  IN  /\ t # <<>> /\ t # <<"@">> /\ t[1] \notin {"/", "-"} /\ Last(t) \notin {"/", "."}
      /\ \A s \in {<<".", ".">>, <<"/", "/">>, <<"@", "{">>} : ~Holds(t, s)
      /\ \A i \in DOMAIN t : t[i] \notin {" ", "~", "^"} /\ (t[i] = "*" => pattern)
      /\ one \/ Holds(t, <<"/">>)
      /\ parts # {} /\ \A c \in parts : GoodPart(c)

\* split_base_and_suffix, and parse_range: three dots before two.
SplitSuffix(t) == LET s == {i \in DOMAIN t : t[i] \in {"^", "~"}}
                  IN  IF s = {} \/ Min(s) = 1 THEN <<t, <<>>>>
                      ELSE <<SubSeq(t, 1, Min(s) - 1), SubSeq(t, Min(s), Len(t))>>

DotsAt(t, dots) == LET s == {i \in DOMAIN t : IsPrefix(dots, SubSeq(t, i, Len(t)))}
                    IN  IF s = {} THEN <<<<>>, <<>>>>
                        ELSE <<SubSeq(t, 1, Min(s) - 1), SubSeq(t, Min(s) + Len(dots), Len(t))>>
IsRange(r) == \A i \in {1, 2} : r[i] # <<>> /\ ~Holds(r[i], <<".", ".">>)
ParseRange(t) == LET three == DotsAt(t, <<".", ".", ".">>)
                     two   == DotsAt(t, <<".", ".">>)
                 IN  IF IsRange(three) THEN three ELSE IF IsRange(two) THEN two ELSE NoName

-----------------------------------------------------------------------------
(* The commands.                                                           *)

Set(n, v) == refs' = [x \in DOMAIN refs \cup {n} |-> IF x = n THEN v ELSE refs[x]]
Drop(n)   == refs' = Restrict(refs, DOMAIN refs \ {n})
Free      == doing = NoName /\ text = NoName
CurrentBranch == refs[HEAD].to

BranchCreate ==
  \E n \in Short, e \in Exprs :
    /\ Free /\ Resolve(e) # Failed /\ Branch(n) \notin DOMAIN refs /\ Cardinality(DOMAIN refs) < MaxRefs
    /\ Set(Branch(n), At(Resolve(e))) /\ UNCHANGED doing

BranchDelete ==
  \E n \in Short :
    /\ Free /\ Branch(n) # CurrentBranch /\ Branch(n) \in DOMAIN refs
    /\ Drop(Branch(n)) /\ UNCHANGED doing

\* Seeded fault: the old branch goes first.
RenameStartOldFirst ==
  \E old \in Short, new \in Short :
    /\ Free /\ Branch(old) \in DOMAIN refs /\ Branch(new) \notin DOMAIN refs
    /\ Drop(Branch(old)) /\ doing' = [old |-> Branch(old), new |-> Branch(new), step |-> "head"]

\* branch -m: the new branch, then HEAD if it was on the old one, then the old
\* branch goes: three transactions.
RenameStart ==
  \E old \in Short, new \in Short :
    /\ Free /\ Branch(old) \in DOMAIN refs /\ Branch(new) \notin DOMAIN refs
    /\ refs[Branch(old)].to = NoName
    /\ Set(Branch(new), At(refs[Branch(old)].at))
    /\ doing' = [old |-> Branch(old), new |-> Branch(new), step |-> "head"]

RenameHead ==
  /\ doing # NoName /\ doing.step = "head"
  /\ IF CurrentBranch = doing.old THEN Set(HEAD, To(doing.new)) ELSE UNCHANGED refs
  /\ doing' = [doing EXCEPT !.step = "old"]

RenameOld == doing # NoName /\ doing.step = "old" /\ Drop(doing.old) /\ doing' = NoName

\* The process is killed in mid-rename.
KillRename == doing # NoName /\ doing' = NoName /\ UNCHANGED refs

\* tag: annotated or not, forced or not.
TagCreate ==
  \E n \in Short, e \in Exprs, annotated \in BOOLEAN, force \in BOOLEAN :
    /\ Free /\ Resolve(e) # Failed /\ (force \/ TagRef(n) \notin DOMAIN refs)
    /\ Cardinality(DOMAIN refs) < MaxRefs /\ (annotated => Resolve(e).kind # "tag")
    /\ Set(TagRef(n), At(IF annotated THEN Tag(Resolve(e)) ELSE Resolve(e))) /\ UNCHANGED doing

TagDelete ==
  \E n \in Short :
    Free /\ TagRef(n) \in DOMAIN refs /\ refs[TagRef(n)].to = NoName /\ Drop(TagRef(n)) /\ UNCHANGED doing

\* switch to a branch, or away from all of them.
SwitchHead ==
  \E n \in Short :
    /\ Free /\ Branch(n) \in DOMAIN refs
    /\ Set(HEAD, To(Branch(n))) \/ Set(HEAD, At(Deref(Branch(n), 0)))
    /\ UNCHANGED doing

NameInit == \/ refs = FirstRefs /\ doing = NoName /\ text = NoName
            \/ refs = FirstRefs /\ doing = NoName /\ text \in NameTexts

NameNext == UNCHANGED text /\ ( \/ BranchCreate \/ BranchDelete \/ TagCreate \/ TagDelete \/ SwitchHead
                                \/ RenameStart \/ RenameHead \/ RenameOld \/ KillRename )

-----------------------------------------------------------------------------
\* HEAD is on a branch that exists, and a rename that is killed loses no commit
\* a branch had (cli/branch.rs rename).
HeadNamed == refs[HEAD].to # NoName => refs[HEAD].to \in DOMAIN refs
Tips == {refs[n].at : n \in {x \in DOMAIN refs : IsPrefix(<<"refs", "heads">>, x)}}
RenameKeeps == [][doing # NoName \/ doing' # NoName => Tips \subseteq Tips']_nameVars

\* A short name stands for its branch unless it is a prefix of an id or a ref or a
\* tag goes before it; suffixes add up, and end at a commit or a tree.
E(n, ops) == [base |-> n, ops |-> ops]
Step(op, n) == [op |-> op, n |-> n]
IsId(n) == Len(n) = 1 /\ n[1] \in DOMAIN HexIds /\ HexIds[n[1]] # {}
NamesHold ==
  text = NoName => \A n \in Short :
    /\ ~IsId(n) /\ TagRef(n) \in DOMAIN refs /\ <<"refs">> \o n \notin DOMAIN refs
         => Resolve(E(n, <<>>)) = Deref(TagRef(n), 0)
    /\ ~IsId(n) /\ Branch(n) \in DOMAIN refs /\ {<<"refs">> \o n, TagRef(n)} \cap DOMAIN refs = {}
         => Resolve(E(n, <<>>)) = Deref(Branch(n), 0)
    /\ \A k \in 1..3 : LET o == Resolve(E(n, <<Step("ancestor", k)>>)) IN
         /\ o = Resolve(E(n, [i \in 1..k |-> Step("parent", 1)]))
         /\ o = Failed \/ o.kind = "commit"
    /\ LET o == Resolve(E(n, <<Step("parent", 0)>>)) IN o = Failed \/ o.kind = "commit"

\* The two tests of a name agree but for a sign at the front; a name that passes is
\* never taken apart: neither a suffix behind it nor a range of two.
TextsHold ==
  text # NoName =>
    /\ IsValidRefName(text, TRUE, FALSE) = (Valid(text) /\ text[1] # "-")
    /\ IsValidRefName(text, FALSE, FALSE) => IsValidRefName(text, FALSE, TRUE)
    /\ Valid(text) => /\ \A s \in {<<>>, <<"^">>, <<"~", "~">>} : SplitSuffix(text \o s) = <<text, s>>
                      /\ ParseRange(text) = NoName
                      /\ \A other \in {x \in NameTexts : Valid(x)} : \A dots \in {<<".", ".">>, <<".", ".", ".">>} :
                           ParseRange(text \o dots \o other) = <<text, other>>

NamesTruthful == RenameKeeps /\ [](HeadNamed /\ NamesHold /\ TextsHold)
=============================================================================
