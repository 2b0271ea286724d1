------------------------------ MODULE Patterns ------------------------------
(***************************************************************************)
(* Globs (src/wildmatch.rs), the rules of .gitignore files and the stack   *)
(* of them (src/ignore.rs), the walk of status over the working tree that  *)
(* pushes and pops that stack (src/worktree/status.rs), and pathspecs      *)
(* (src/pathspec.rs).  Subjects are sequences of characters, a path too.      *)
(* Folding of case is left out: no caller asks for it.                     *)
(***************************************************************************)
EXTENDS Naturals, Sequences, FiniteSets, SequencesExt, FiniteSetsExt

CONSTANTS
  Globs,      \* the patterns matched against every one of Subjects
  Subjects,
  TreeFiles,  \* the files of the working tree
  TreeDirs,   \* its directories, without the root
  Tracked,    \* the files that may be in the index
  Ignores,    \* the ignore files that may lie there: [exclude, root, nested]
  Specs,      \* what pathspecs may be given, from which directory
  Bytes       \* the characters in the order of their codes

Ord(c)     == CHOOSE i \in 1..Len(Bytes) : Bytes[i] = c
Special    == {"*", "?", "[", "\\"}
From(s, i) == SubSeq(s, i, Len(s))
Has(c, s)  == \E i \in DOMAIN s : s[i] = c

\* memchr: the first place at or after i where s has one of the bytes, Len(s) + 1 if none.
UpTo(s, i, bytes) == Min({k \in i..Len(s) : s[k] \in bytes} \cup {Len(s) + 1})

-----------------------------------------------------------------------------
(* Globs.                                                                  *)

NoClass == [end |-> 0, hit |-> FALSE]

\* A bracket from place i on: where it ends, and whether it holds character x.
\* A range needs a character before it that no range has used.
RECURSIVE Bracket(_, _, _, _, _, _)
Bracket(P, i, first, x, prev, hit) ==
  IF i > Len(P) THEN NoClass
  ELSE IF P[i] = "]" /\ i # first THEN [end |-> i, hit |-> hit]
  ELSE IF P[i] = "\\" THEN
    IF i = Len(P) THEN NoClass ELSE Bracket(P, i + 2, first, x, P[i+1], hit \/ x = P[i+1])
  ELSE IF P[i] = "-" /\ prev # "" /\ i < Len(P) /\ P[i+1] # "]" THEN
    LET top == IF P[i+1] = "\\" THEN i + 2 ELSE i + 1 IN
    IF top > Len(P) THEN NoClass
    ELSE Bracket(P, top + 1, first, x, "", hit \/ Ord(x) \in Ord(prev)..Ord(P[top]))
  ELSE Bracket(P, i + 1, first, x, P[i], hit \/ x = P[i])

Negated(P, i) == i < Len(P) /\ P[i+1] \in {"!", "^"}
Class(P, i, x) == LET first == IF Negated(P, i) THEN i + 2 ELSE i + 1
                  IN  Bracket(P, first, first, x, "", FALSE)

\* A run of stars from i on: where it ends, and whether it crosses slashes.
RunEnd(P, i)  == Min({k \in i..Len(P) : P[k] # "*"} \cup {Len(P) + 1})
Bounded(P, i) == LET e == RunEnd(P, i) IN
  /\ e > i + 1 /\ (i = 1 \/ P[i-1] = "/") /\ (e > Len(P) \/ P[e] = "/")
Crosses(P, i, paths) == ~paths \/ Bounded(P, i)

\* dowild: "match" or "no", or why no longer text helps: "abort", or "starstar",
\* which only a ** outside can mend.
RECURSIVE Wild(_, _, _, _, _), Try(_, _, _, _, _, _)
Star(P, i, T, k, paths) ==
  LET e == RunEnd(P, i)
      crosses == Crosses(P, i, paths)
      slash == UpTo(T, k, {"/"})
  IN  IF /\ paths /\ Bounded(P, i) /\ e <= Len(P)
         /\ Wild(P, e + 1, T, k, paths) = "match"
      THEN "match"
      ELSE IF e > Len(P) THEN IF ~crosses /\ slash <= Len(T) THEN "starstar" ELSE "match"
      ELSE IF ~crosses /\ P[e] = "/"
      THEN IF slash > Len(T) THEN "abort" ELSE Wild(P, e, T, slash, paths)
      ELSE Try(P, e, T, k, crosses, paths)

\* Seeded fault: a single * inside a ** takes the end of its own segment for the end.
TryOneAbort(P, i, T, k, crosses, paths) ==
  LET rest == Wild(P, i, T, k, paths)
  IN  IF k > Len(T) THEN "abort"
      ELSE IF rest = "no" /\ ~crosses /\ T[k] = "/" THEN "abort"
      ELSE IF rest = "no" \/ (rest = "starstar" /\ crosses)
      THEN Try(P, i, T, k + 1, crosses, paths)
      ELSE rest

\* The splits of the text from k on, with jumps to where a literal can match.
Try(P, i, T, k, crosses, paths) ==
  LET literal == P[i] \notin Special
      at == IF literal THEN UpTo(T, k, {P[i]} \cup IF crosses THEN {} ELSE {"/"}) ELSE k
      rest == Wild(P, i, T, at, paths)
  IN  IF k > Len(T) THEN "abort"
      ELSE IF literal /\ (at > Len(T) \/ T[at] # P[i])
      THEN IF crosses THEN "abort" ELSE "starstar"
      ELSE IF rest = "no" /\ ~crosses /\ T[at] = "/" THEN "starstar"
      ELSE IF rest = "no" \/ (rest = "starstar" /\ crosses)
      THEN Try(P, i, T, at + 1, crosses, paths)
      ELSE rest

Wild(P, i, T, k, paths) ==
  IF i > Len(P) THEN IF k > Len(T) THEN "match" ELSE "no"
  ELSE IF P[i] = "*" THEN Star(P, i, T, k, paths)
  ELSE IF k > Len(T) THEN "abort"
  ELSE IF P[i] = "\\" THEN
    IF i = Len(P) THEN "abort"
    ELSE IF P[i+1] # T[k] THEN "no" ELSE Wild(P, i + 2, T, k + 1, paths)
  ELSE IF P[i] = "[" THEN
    LET class == Class(P, i, T[k]) IN
    IF class.end = 0 THEN "abort"
    ELSE IF class.hit = Negated(P, i) \/ (paths /\ T[k] = "/") THEN "no"
    ELSE Wild(P, class.end + 1, T, k + 1, paths)
  ELSE IF (P[i] = "?" /\ ~(paths /\ T[k] = "/")) \/ (P[i] # "?" /\ P[i] = T[k])
  THEN Wild(P, i + 1, T, k + 1, paths)
  ELSE "no"

\* paths: the flag WM_PATHNAME.
Wildmatch(P, T, paths) == Wild(P, 1, T, 1, paths) = "match"

-----------------------------------------------------------------------------
(* The lines of an ignore file, and what the stack of files says of a path. *)

\* The line without trailing blanks, save one behind an odd number of backslashes.
Slashes(l, i) == Cardinality({k \in 1..i : \A m \in k..i : l[m] = "\\"})
RECURSIVE Trimmed(_)
Trimmed(l) == IF l # <<>> /\ Last(l) = " " /\ Slashes(l, Len(l) - 1) % 2 = 0
              THEN Trimmed(Front(l)) ELSE l

\* IgnorePattern::parse: <<>> for a line that says nothing, else its one rule.
Rule(line, dir) ==
  LET l == Trimmed(line)
      negated == l # <<>> /\ l[1] = "!"
      escaped == Len(l) > 1 /\ l[1] = "\\" /\ l[2] \in {"!", "#"}
      text == IF negated \/ escaped THEN Tail(l) ELSE l
      only == text # <<>> /\ Last(text) = "/"
      open == IF only THEN Front(text) ELSE text
      rooted == open # <<>> /\ open[1] = "/"
      body == IF rooted THEN Tail(open) ELSE open
  IN  IF l = <<>> \/ l[1] = "#" \/ body = <<>> THEN <<>>
      ELSE <<[glob |-> IF rooted \/ Has("/", body) THEN body ELSE <<"*", "*", "/">> \o body,
              dirOnly |-> only, negated |-> negated, dir |-> dir]>>

Rules(lines, dir) == FlattenSeq([i \in DOMAIN lines |-> Rule(lines[i], dir)])

Under(path, dir) == dir = <<>> \/ (Len(path) > Len(dir) /\ IsPrefix(dir \o <<"/">>, path))
Below(path, dir) == IF dir = <<>> THEN path ELSE From(path, Len(dir) + 2)

Applies(r, path, isDir) ==
  /\ r.dirOnly => isDir
  /\ Under(path, r.dir)
  /\ Wildmatch(r.glob, Below(path, r.dir), TRUE)

\* is_ignored: the deepest layer that speaks of the path, by its last rule that does.
IsIgnored(stack, path, isDir) ==
  LET spoken == {i \in DOMAIN stack : \E k \in DOMAIN stack[i] : Applies(stack[i][k], path, isDir)}
      layer == stack[Max(spoken)]
  IN  spoken # {} /\ ~layer[Max({k \in DOMAIN layer : Applies(layer[k], path, isDir)})].negated

-----------------------------------------------------------------------------
(* The walk of status: ignore files are pushed on the way down, and what   *)
(* is pushed is popped on the way up.                                      *)

VARIABLES
  ignores,   \* the ignore files: [exclude, root, nested], nested: dir -> lines or None
  indexed,   \* the files in the index
  walk,      \* the directories the walk is in, each with its entries left
  layers,    \* the ignore stack
  untracked, \* the rows of untracked files
  asked      \* the pattern or the pathspec looked at instead

patternVars == <<ignores, indexed, walk, layers, untracked, asked>>

NoIgnores == [exclude |-> <<>>, root |-> <<>>, nested |-> <<>>]
Parent(path) == LET s == {i \in DOMAIN path : path[i] = "/"}
                IN  IF s = {} THEN <<>> ELSE SubSeq(path, 1, Max(s) - 1)
Entries(dir) == {x \in TreeFiles \cup TreeDirs : Parent(x) = dir}
Nested(dir)  == IF dir \in DOMAIN ignores.nested THEN <<Rules(ignores.nested[dir], dir)>> ELSE <<>>
Frame(dir, pushed) == [dir |-> dir, left |-> Entries(dir), pushed |-> pushed]

Outer(frames) == Front(frames)
Visited(x) == walk' = Outer(walk) \o <<[Last(walk) EXCEPT !.left = @ \ {x}]>>

\* A directory is entered unless it is ignored, tracked files in it or not.
EnterDir ==
  \E x \in Last(walk).left \cap TreeDirs :
    IF IsIgnored(layers, x, TRUE) THEN Visited(x) /\ UNCHANGED layers
    ELSE /\ walk' = Outer(walk) \o <<[Last(walk) EXCEPT !.left = @ \ {x}], Frame(x, Len(Nested(x)))>>
         /\ layers' = layers \o Nested(x)

VisitFile ==
  \E x \in Last(walk).left \cap TreeFiles :
    /\ Visited(x)
    /\ untracked' = untracked \cup {y \in {x} : x \notin indexed /\ ~IsIgnored(layers, x, FALSE)}

LeaveDir ==
  /\ Last(walk).left = {}
  /\ walk' = Outer(walk)
  /\ layers' = SubSeq(layers, 1, Len(layers) - Last(walk).pushed)

\* check-ignore knows two of the files, and takes every path for a file.
CheckIgnored(path) ==
  IsIgnored(<<Rules(ignores.exclude, <<>>), Rules(ignores.root, <<>>)>>, path, FALSE)

-----------------------------------------------------------------------------
(* Pathspecs.                                                              *)

\* combine_anchor, for directories and bodies without slashes at their ends.
Anchored(dir, body) == IF dir = <<>> THEN body ELSE IF body = <<>> THEN dir ELSE dir \o <<"/">> \o body

\* parse_one: s has the magic words as flags, and what comes after them.
Item(s, cwd) == [pattern |-> Anchored(IF s.top THEN <<>> ELSE cwd, s.body), exclude |-> s.exclude,
                 glob |-> ~s.literal /\ (s.glob \/ \E c \in {"*", "?", "["} : Has(c, s.body))]

ItemMatches(it, path) ==
  IF it.glob THEN Wildmatch(it.pattern, path, TRUE)
  ELSE path = it.pattern \/ IsPrefix(it.pattern \o <<"/">>, path)

Matches(items, path) ==
  LET hit == {i \in DOMAIN items : ItemMatches(items[i], path)}
  IN  IF items = <<>> THEN "match"
      ELSE IF \E i \in hit : items[i].exclude THEN "excluded"
      ELSE IF hit # {} THEN "match" ELSE "none"

-----------------------------------------------------------------------------
Nothing == [kind |-> "nothing"]

\* A walk of status in a tree with these ignore files, a pattern, or pathspecs.
PatternInit ==
  /\ untracked = {}
  /\ \/ /\ ignores \in Ignores /\ indexed \in SUBSET Tracked /\ asked = Nothing
        /\ walk = <<Frame(<<>>, 0)>>
        /\ layers = <<Rules(ignores.exclude, <<>>), Rules(ignores.root, <<>>)>>
     \/ /\ ignores = NoIgnores /\ indexed = {} /\ walk = <<>> /\ layers = <<>>
        /\ asked \in [kind : {"glob"}, glob : Globs] \cup Specs

PatternNext == walk # <<>> /\ UNCHANGED <<ignores, indexed, asked>>
               /\ ( \/ EnterDir /\ UNCHANGED untracked
                    \/ VisitFile /\ UNCHANGED layers
                    \/ LeaveDir /\ UNCHANGED untracked )

-----------------------------------------------------------------------------
(* What the patterns mean.                                                 *)

\* A glob by its meaning, with no search given up early.
RECURSIVE Like(_, _, _, _, _)
Like(P, i, T, k, paths) ==
  IF i > Len(P) THEN k > Len(T)
  ELSE IF P[i] = "*" THEN
    LET e == RunEnd(P, i) IN
    \/ paths /\ Bounded(P, i) /\ e <= Len(P) /\ Like(P, e + 1, T, k, paths)
    \/ \E m \in k..(Len(T) + 1) :
         (Crosses(P, i, paths) \/ "/" \notin {T[j] : j \in k..(m-1)}) /\ Like(P, e, T, m, paths)
  ELSE IF P[i] = "\\" THEN i < Len(P) /\ k <= Len(T) /\ P[i+1] = T[k] /\ Like(P, i + 2, T, k + 1, paths)
  ELSE /\ k <= Len(T)
       /\ IF P[i] = "[" THEN LET class == Class(P, i, T[k]) IN
            /\ class.end # 0 /\ class.hit # Negated(P, i) /\ (paths => T[k] # "/")
            /\ Like(P, class.end + 1, T, k + 1, paths)
          ELSE /\ P[i] = T[k] \/ (P[i] = "?" /\ (paths => T[k] # "/"))
               /\ Like(P, i + 1, T, k + 1, paths)

\* The answers that end a search early - no longer text can match, or only a **
\* further out can - never give up a match; and a pathspec without :/ or :(top)
\* selects nothing outside the directory it was typed in, if that directory's
\* name has no character of a glob (wildmatch.rs, pathspec.rs).
GlobsTruthful ==
  /\ asked.kind = "glob" => \A T \in Subjects, paths \in BOOLEAN :
       Wildmatch(asked.glob, T, paths) = Like(asked.glob, 1, T, 1, paths)
  /\ asked.kind = "spec" => \A T \in Subjects :
       LET items == [i \in DOMAIN asked.specs |-> Item(asked.specs[i], asked.cwd)]
       IN  /\ Matches(items, T) = "match" => asked.specs = <<>> \/ \E i \in DOMAIN items :
                (asked.specs[i].top \/ T = asked.cwd \/ Under(T, asked.cwd)) /\ ~items[i].exclude
           /\ Matches(items, T) = "excluded" => \E i \in DOMAIN items : items[i].exclude

\* The directories above a path, and the path.
RECURSIVE Above(_)
Above(path) == IF path = <<>> THEN <<>> ELSE Append(Above(Parent(path)), path)

\* The last rule that speaks of the path, of all files from the farthest on.
Excluded(path) ==
  LET dirs == Above(Parent(path))
      all == Rules(ignores.exclude, <<>>) \o Rules(ignores.root, <<>>)
               \o FlattenSeq([i \in DOMAIN dirs |-> FlattenSeq(Nested(dirs[i]))])
      isDir == path \in TreeDirs
      said == {i \in DOMAIN all :
                 /\ (all[i].dirOnly => isDir) /\ Under(path, all[i].dir)
                 /\ Like(all[i].glob, 1, Below(path, all[i].dir), 1, TRUE)}
  IN  said # {} /\ ~all[Max(said)].negated

\* When the walk ends it has listed exactly the files that are not in the index
\* and that no rule excludes, nor any directory they are in: each ignore file
\* governed its own directory and nothing beside it.  What check-ignore prints is
\* in no row, save by a file it does not read (status.rs walk_dir, check_ignore.rs).
UntrackedTruthful ==
  walk = <<>> /\ asked = Nothing =>
    /\ untracked = {f \in TreeFiles \ indexed : \A i \in DOMAIN Above(f) : ~Excluded(Above(f)[i])}
    /\ \A f \in untracked : CheckIgnored(f) => ignores.nested # <<>>
    /\ Len(layers) = 2

\* What is told of a path is what the patterns say of it.
PathsTruthful == GlobsTruthful /\ UntrackedTruthful
=============================================================================
