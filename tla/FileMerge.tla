----------------------------- MODULE FileMerge ------------------------------
(***************************************************************************)
(* The three-way merge of one file: src/merge/file.rs.  The hunks of both  *)
(* sides are walked in step along the base.  The result is a sequence of   *)
(* blocks, each with where its lines come from:                            *)
(*   [from |-> "base",   at |-> base lines]                                *)
(*   [from |-> "ours",   at |-> lines of ours], and the same for theirs    *)
(*   [from |-> "both",     ours |-> ..., theirs |-> ...]   the same lines  *)
(*   [from |-> "conflict", ours |-> ..., theirs |-> ...]   between markers *)
(* where lines are given as a range <<first, past>>, counted from 0.       *)
(***************************************************************************)
EXTENDS LineDiff

\* Lines from..to-1, counted from 0: the Rust slice lines[from..to].
Slice(lines, range) == SubSeq(lines, range[1] + 1, range[2])

\* diff_hunks: the runs of the script without context.
DiffHunks(a, b) ==
  LET hunks == UnifiedHunks(Edits(a, b), 0) IN
  [n \in DOMAIN hunks |->
     [base |-> <<hunks[n].a_start, hunks[n].a_start + hunks[n].a_len>>,
      side |-> <<hunks[n].b_start, hunks[n].b_start + hunks[n].b_len>>]]

One(side, range)    == [from |-> side, at |-> range]
Pair(kind, os, ts)  == [from |-> kind, ours |-> os, theirs |-> ts]

-----------------------------------------------------------------------------
(* walk_and_emit.  w: [i, j, cursor, out], the next hunk of each side, the *)
(* base lines consumed, the blocks emitted.                                *)

\* Hunks that touch are taken together.
StrictlyBefore(h, g) == h.base[2] < g.base[1]

\* Cases A and B, and the drain of what is left: one hunk of one side.
Take(w, side, h) ==
  [w EXCEPT !.i = @ + IF side = "ours" THEN 1 ELSE 0,
            !.j = @ + IF side = "theirs" THEN 1 ELSE 0,
            !.cursor = h.base[2],
            !.out = @ \o <<One("base", <<w.cursor, h.base[1]>>), One(side, h.side)>>]

\* The hunks that chain onto a block: how many more of one side start within it.
RECURSIVE Reached(_, _, _)
Reached(hunks, n, end) ==
  IF n <= Len(hunks) /\ hunks[n].base[1] <= end THEN Reached(hunks, n + 1, end) ELSE n

BlockEnd(hunks, from, past, end) == Max({end} \cup {hunks[n].base[2] : n \in from..(past - 1)})

\* The block of w, grown until neither side grows it: the hunks past it, its end.
RECURSIVE Grown(_, _, _, _, _)
Grown(oh, th, i, j, end) ==
  LET i2   == Reached(oh, i, end)
      end2 == BlockEnd(oh, i, i2, end)
      j2   == Reached(th, j, end2)
      end3 == BlockEnd(th, j, j2, end2)
  IN  IF i2 = i /\ j2 = j THEN [i |-> i, j |-> j, end |-> end]
      ELSE Grown(oh, th, i2, j2, end3)

\* What a side has in place of the base lines start..end-1.
Replacement(first, last, start, end) ==
  <<first.side[1] - (first.base[1] - start), last.side[2] + (end - last.base[2])>>

\* Case C: the overlapping hunks of both sides as one block.
TakeBlock(w, ours, theirs, oh, th) ==
  LET start == Min({oh[w.i].base[1], th[w.j].base[1]})
      block == Grown(oh, th, w.i + 1, w.j + 1, Max({oh[w.i].base[2], th[w.j].base[2]}))
      os    == Replacement(oh[w.i], oh[block.i - 1], start, block.end)
      ts    == Replacement(th[w.j], th[block.j - 1], start, block.end)
      kind  == IF Slice(ours, os) = Slice(theirs, ts) THEN "both" ELSE "conflict"
  IN  [i |-> block.i, j |-> block.j, cursor |-> block.end,
       out |-> w.out \o <<One("base", <<w.cursor, start>>), Pair(kind, os, ts)>>]

RECURSIVE WalkHunks(_, _, _, _, _)
WalkHunks(w, ours, theirs, oh, th) ==
  LET left == w.i <= Len(oh)
      right == w.j <= Len(th)
      next == IF left /\ (~right \/ StrictlyBefore(oh[w.i], th[w.j])) THEN Take(w, "ours", oh[w.i])
              ELSE IF right /\ (~left \/ StrictlyBefore(th[w.j], oh[w.i]))
              THEN Take(w, "theirs", th[w.j])
              ELSE TakeBlock(w, ours, theirs, oh, th)
  IN  IF left \/ right THEN WalkHunks(next, ours, theirs, oh, th) ELSE w

\* merge_file: the fast paths, or the walk and the base that trails it.
MergeFile(base, ours, theirs) ==
  LET all(lines) == <<0, Len(lines)>>
      w == WalkHunks([i |-> 1, j |-> 1, cursor |-> 0, out |-> <<>>], ours, theirs,
                DiffHunks(base, ours), DiffHunks(base, theirs))
  IN  CASE base = ours   -> <<One("theirs", all(theirs))>>
        [] base # ours /\ base = theirs -> <<One("ours", all(ours))>>
        [] base \notin {ours, theirs} /\ ours = theirs -> <<Pair("both", all(ours), all(theirs))>>
        [] OTHER -> Append(w.out, One("base", <<w.cursor, Len(base)>>))

Conflicted(blocks) == \E n \in DOMAIN blocks : blocks[n].from = "conflict"

\* A newline ends what comes before a marker.
Ended(lines) == IF lines = <<>> THEN lines ELSE [lines EXCEPT ![Len(lines)][2] = TRUE]

Marker(text) == << <<text, TRUE>> >>

\* What is written to the file: the lines, and where a conflict is, both sides.
Body(blocks, base, ours, theirs) ==
  FoldLeft(LAMBDA out, b :
    CASE b.from = "base"   -> out \o Slice(base, b.at)
      [] b.from = "ours"   -> out \o Slice(ours, b.at)
      [] b.from = "theirs" -> out \o Slice(theirs, b.at)
      [] b.from = "both"   -> out \o Slice(ours, b.ours)
      [] b.from = "conflict" -> Ended(out) \o Marker("<") \o Ended(Slice(ours, b.ours))
                                  \o Marker("=") \o Ended(Slice(theirs, b.theirs)) \o Marker(">"),
    <<>>, blocks)

-----------------------------------------------------------------------------
(* What a merge promises. *)

Lines(range) == [n \in 1..(range[2] - range[1]) |-> range[1] + n - 1]

\* The base lines a side kept, each with where it has them.
Kept(base, side) ==
  {<<e.ai, e.bi>> : e \in {f \in Range(Edits(base, side)) : f.op = "equal"}}

\* Where the line p of the base is, and which line of the base q is: none or one.
HunkAt(kept, p)  == {x[2] : x \in {y \in kept : y[1] = p}}
Was(kept, q) == {x[1] : x \in {y \in kept : y[2] = q}}

\* The lines of one side that the blocks show, in their order: its own, those of
\* the base it kept, and those of the other side that are a base line it kept.
Shown(blocks, side, kept, otherKept) ==
  LET all(range, from(_)) == FlattenSeq([m \in DOMAIN Lines(range) |-> SetToSeq(from(Lines(range)[m]))])
      shown(b) == CASE b.from \in {"both", "conflict"} -> Lines(b[side])
                    [] b.from = side   -> Lines(b.at)
                    [] b.from = "base" -> all(b.at, LAMBDA p : HunkAt(kept, p))
                    [] OTHER -> all(b.at, LAMBDA q : UNION {HunkAt(kept, p) : p \in Was(otherKept, q)})
  IN  FlattenSeq([n \in DOMAIN blocks |-> shown(blocks[n])])

\* A side is preserved: its lines appear once and in order, and all of them but
\* base lines that the other side removed.
Preserved(blocks, side, lines, kept, otherKept) ==
  LET shown == Shown(blocks, side, kept, otherKept)
      taken == {x[2] : x \in {y \in kept : HunkAt(otherKept, y[1]) = {}}}
  IN  /\ \A m, n \in DOMAIN shown : m < n => shown[m] < shown[n]
      /\ 0..(Len(lines) - 1) \subseteq Range(shown) \cup taken

\* Base lines that a side removed are not shown as base.
Removed(blocks, kept) ==
  \A n \in DOMAIN blocks : blocks[n].from = "base" =>
    \A p \in Range(Lines(blocks[n].at)) : HunkAt(kept, p) # {}

\* No slice of lines is out of bounds, which would panic.
Bounded(range, lines) == 0 <= range[1] /\ range[1] <= range[2] /\ range[2] <= Len(lines)
InRange(blocks, base, ours, theirs) ==
  \A b \in Range(blocks) :
    CASE b.from = "base"   -> Bounded(b.at, base)
      [] b.from = "ours"   -> Bounded(b.at, ours)
      [] b.from = "theirs" -> Bounded(b.at, theirs)
      [] OTHER -> Bounded(b.ours, ours) /\ Bounded(b.theirs, theirs)

\* A line without newline is the last one: no two lines are run together.
Unglued(body) == \A n \in DOMAIN body : body[n][2] \/ n = Len(body)

\* Neither side loses a change: see Preserved and Removed; and where they
\* conflict the result shows a conflict whichever side is called ours.
KeptBy(blocks, ko, kt, base, ours, theirs) ==
  /\ InRange(blocks, base, ours, theirs)
  /\ Unglued(Body(blocks, base, ours, theirs))
  /\ Preserved(blocks, "ours", ours, ko, kt)
  /\ Preserved(blocks, "theirs", theirs, kt, ko)
  /\ base \notin {ours, theirs} /\ ours # theirs => Removed(blocks, ko) /\ Removed(blocks, kt)
AlikeSwapped(blocks, swapped, base, ours, theirs) ==
  /\ Conflicted(swapped) = Conflicted(blocks)
  /\ ~Conflicted(blocks) => Body(swapped, base, theirs, ours) = Body(blocks, base, ours, theirs)
BothPreserved(base, ours, theirs) ==
  \A blocks \in {MergeFile(base, ours, theirs)} :
    /\ KeptBy(blocks, Kept(base, ours), Kept(base, theirs), base, ours, theirs)
    /\ AlikeSwapped(blocks, MergeFile(base, theirs, ours), base, ours, theirs)
=============================================================================
