------------------------------ MODULE LineDiff ------------------------------
(***************************************************************************)
(* Line diffs: the shortest edit script of src/xdiff.rs and its hunks, the *)
(* patch written from them, and `apply` (src/cli/apply.rs), which reads    *)
(* such a patch back.  A line is a pair: its text, and whether a newline   *)
(* ends it; only the last line of a file may lack one.                     *)
(***************************************************************************)
EXTENDS Naturals, Integers, Sequences, FiniteSets, FiniteSetsExt, SequencesExt

Texts(lines) == [n \in DOMAIN lines |-> lines[n][1]]

UpTo(n) == [i \in 1..n |-> i]

-----------------------------------------------------------------------------
(* Myers' greedy algorithm.  v[k] is the furthest x reached on diagonal k; *)
(* trace[d + 1] is v before round d.                                       *)

RECURSIVE Slide(_, _, _, _)
Slide(a, b, x, y) ==
  IF x < Len(a) /\ y < Len(b) /\ a[x + 1] = b[y + 1] THEN Slide(a, b, x + 1, y + 1) ELSE x

\* Whether diagonal k is reached by an insertion, from the one above.
GoesDown(v, d, k) == k = -d \/ (k # d /\ v[k - 1] < v[k + 1])

Round(a, b, v, d) ==
  [k \in {l \in -d..d : (d - l) % 2 = 0} |->
     LET x == IF GoesDown(v, d, k) THEN v[k + 1] ELSE v[k - 1] + 1
     IN  Slide(a, b, x, x - k)] @@ v

RECURSIVE Trace(_, _, _, _)
Trace(a, b, trace, d) ==
  LET v == Round(a, b, trace[d + 1], d) IN
  IF \E k \in -d..d : v[k] >= Len(a) /\ v[k] - k >= Len(b)
  THEN trace ELSE Trace(a, b, Append(trace, v), d + 1)

\* From (x, y) back to the origin: the rounds in reverse, each a run of equal
\* lines after one insertion or deletion.  An edit: what it does, and how many
\* lines of a and of b come before it.
RECURSIVE Backtrack(_, _, _, _, _)
Backtrack(trace, d, x, y, edits) ==
  LET v     == trace[d + 1]
      down  == GoesDown(v, d, x - y)
      fromK == IF down THEN x - y + 1 ELSE x - y - 1
      fromX == v[fromK]
      fromY == fromX - fromK
      slide == Min({x - fromX, y - fromY})
      equal == [n \in 1..slide |-> [op |-> "equal", ai |-> x - slide + n - 1, bi |-> y - slide + n - 1]]
      step  == [op |-> IF down THEN "insert" ELSE "delete", ai |-> fromX, bi |-> fromY]
  IN  IF d = 0 THEN equal \o edits
      ELSE Backtrack(trace, d - 1, fromX, fromY, <<step>> \o equal \o edits)

\* myers_diff, and its copy myers_ses.
Edits(a, b) ==
  LET n     == Len(a) + Len(b)
      trace == Trace(a, b, <<[k \in -n..n |-> 0]>>, 0)
  IN  IF n = 0 THEN <<>> ELSE Backtrack(trace, Len(trace) - 1, Len(a), Len(b), <<>>)

-----------------------------------------------------------------------------
(* Hunks. *)

\* The maximal runs of changes, as pairs of positions in the script.
Runs(edits) ==
  FoldLeft(LAMBDA runs, i :
             IF edits[i].op = "equal" THEN runs
             ELSE IF i > 1 /\ edits[i - 1].op # "equal"
             THEN [runs EXCEPT ![Len(runs)][2] = i]
             ELSE Append(runs, <<i, i>>),
           <<>>, UpTo(Len(edits)))

\* Runs that the context of two hunks would join are one.
Joined(runs, context) ==
  FoldLeft(LAMBDA joined, r :
             IF joined # <<>> /\ r[1] - Last(joined)[2] - 1 <= 2 * context
             THEN [joined EXCEPT ![Len(joined)][2] = r[2]]
             ELSE Append(joined, r),
           <<>>, runs)

Consumes(edits, side) ==
  Cardinality({i \in DOMAIN edits : edits[i].op # IF side = "a" THEN "insert" ELSE "delete"})

\* The hunk of a run and its context, at offsets counted from 0.
Padded(edits, run, context) ==
  LET first == Max({1, run[1] - context})
      slice == SubSeq(edits, first, Min({Len(edits), run[2] + context}))
  IN  [a_start |-> slice[1].ai, a_len |-> Consumes(slice, "a"),
       b_start |-> slice[1].bi, b_len |-> Consumes(slice, "b"), edits |-> slice, first |-> first]

UnifiedHunks(edits, context) ==
  LET joined == Joined(Runs(edits), context)
  IN  [n \in DOMAIN joined |-> Padded(edits, joined[n], context)]

\* emit_hunk: positions are printed from 1, save that of an empty range.
Printed(start, len) == IF len = 0 THEN start ELSE start + 1

\* A line of a patch: its prefix, its text, and the edit it stands for.
PatchLine(a, b, edits, i) ==
  LET e == edits[i] IN
  [kind |-> CASE e.op = "equal" -> " " [] e.op = "delete" -> "-" [] e.op = "insert" -> "+",
   text |-> IF e.op = "insert" THEN b[e.bi + 1][1] ELSE a[e.ai + 1][1],
   edit |-> i]

PatchHunk(a, b, edits, h) ==
  [old_start |-> Printed(h.a_start, h.a_len), old_lines |-> h.a_len,
   lines |-> [i \in DOMAIN h.edits |-> PatchLine(a, b, edits, h.first + i - 1)]]

Patch(a, b, context) ==
  LET edits == Edits(a, b)
      hunks == UnifiedHunks(edits, context)
  IN  [n \in DOMAIN hunks |-> PatchHunk(a, b, edits, hunks[n])]

-----------------------------------------------------------------------------
(* apply.  A patch is read line by line; what is read of a "+" line has a  *)
(* newline, whatever the annotation after it says.                         *)

Rejected == << <<"rejected", TRUE>> >>

Reversed(kind) == CASE kind = "+" -> "-" [] kind = "-" -> "+" [] kind = " " -> " "

\* The lines of a hunk from its n-th on, at index idx.  A context line past the
\* end reads as the empty line; an insertion there panics.
RECURSIVE ApplyHunk(_, _, _, _, _)
ApplyHunk(lines, idx, hunk, n, reverse) ==
  LET l    == hunk.lines[n]
      kind == IF reverse THEN Reversed(l.kind) ELSE l.kind
      here == IF idx < Len(lines) THEN lines[idx + 1][1] ELSE ""
  IN  IF n > Len(hunk.lines) THEN lines
      ELSE IF kind = "+"
      THEN IF idx > Len(lines) THEN Rejected
           ELSE ApplyHunk(InsertAt(lines, idx + 1, <<l.text, TRUE>>), idx + 1, hunk, n + 1, reverse)
      ELSE IF here # l.text \/ (kind = "-" /\ idx >= Len(lines)) THEN Rejected
      ELSE IF kind = "-" THEN ApplyHunk(RemoveAt(lines, idx + 1), idx, hunk, n + 1, reverse)
      ELSE ApplyHunk(lines, idx + 1, hunk, n + 1, reverse)

\* The hunks from the last to the first, so that the positions stay valid.
FirstToLast(hunks) == hunks
LastToFirst(hunks) == Reverse(hunks)

ApplyHunks(lines, hunks, reverse) ==
  FoldLeft(LAMBDA now, h :
             IF now = Rejected THEN Rejected
             ELSE ApplyHunk(now, IF h.old_start = 0 THEN 0 ELSE h.old_start - 1, h, 1, reverse),
           lines, LastToFirst(hunks))

-----------------------------------------------------------------------------
(* What a diff promises. *)

\* The length of a longest common subsequence.
RECURSIVE Lcs(_, _)
Lcs(a, b) ==
  IF a = <<>> \/ b = <<>> THEN 0
  ELSE IF Last(a) = Last(b) THEN 1 + Lcs(Front(a), Front(b))
  ELSE Max({Lcs(Front(a), b), Lcs(a, Front(b))})

\* A script turns a into b, with as few changes as can be.
Shortest(a, b) ==
  LET edits == Edits(a, b)
      kept(ops, lines(_)) == LET those == SelectSeq(edits, LAMBDA e : e.op \in ops)
                             IN  [n \in DOMAIN those |-> lines(those[n])]
  IN  /\ kept({"equal", "delete"}, LAMBDA e : a[e.ai + 1]) = a
      /\ kept({"equal", "insert"}, LAMBDA e : b[e.bi + 1]) = b
      /\ \A i \in DOMAIN edits : edits[i].op = "equal" => a[edits[i].ai + 1] = b[edits[i].bi + 1]
      /\ Cardinality({i \in DOMAIN edits : edits[i].op = "equal"}) = Lcs(a, b)

\* The patch turns a into b, but for the newline that apply puts after every
\* line it writes.  Without context a hunk that only inserts is put one line too
\* early.  Taken in reverse, a patch of one hunk turns b into a.
Applies(a, b, context) ==
  LET patch == Patch(a, b, context) IN
  /\ context > 0 \/ (\A h \in Range(patch) : \E l \in Range(h.lines) : l.kind # "+")
       => Texts(ApplyHunks(a, patch, FALSE)) = Texts(b)
  /\ context > 0 /\ Len(patch) = 1 => Texts(ApplyHunks(b, patch, TRUE)) = Texts(a)
=============================================================================
