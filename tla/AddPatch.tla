------------------------------ MODULE AddPatch ------------------------------
(***************************************************************************)
(* `add -p`: src/cli/add_patch.rs and src/add_patch.rs.  The hunks of each *)
(* changed file are shown one by one; the user stages, skips, splits and   *)
(* edits them and moves between them.  What is staged is the indexed       *)
(* content with the chosen hunks applied.  The index is read at the start  *)
(* and written when the last file is done, or the user quits.              *)
(***************************************************************************)
EXTENDS LineDiff

CONSTANTS
  Sessions,   \* the files a session may find: sequences of [a, b, am, bm]:
              \* content and mode in the index and in the working tree
  Gone,       \* the working tree content of a file that is gone
  Context,    \* lines of context around a change
  MaxMoves    \* bound: splits, edits and jumps in one session

VARIABLES
  session,    \* what the session found when it read index and working tree
  n,          \* the file it is at
  hunks, chosen, at,   \* the hunks of that file, which are chosen, the one shown
  mine,       \* the index in memory: file -> [lines, mode] or Gone
  staged,     \* the index on disk
  picked,     \* history: file -> the edits of the hunks chosen when it was done
  moves, phase

addVars == <<session, n, hunks, chosen, at, mine, staged, picked, moves, phase>>

Entry(lines, mode) == [lines |-> lines, mode |-> mode]

-----------------------------------------------------------------------------
(* Hunks: src/add_patch.rs. *)

Changes(line) == line.kind # " "

\* Where a hunk may be cut: the first context line after changes, if any change
\* is still to come.
Boundaries(lines) ==
  {i \in 2..Len(lines) : /\ ~Changes(lines[i]) /\ Changes(lines[i - 1])
                         /\ \E k \in i..Len(lines) : Changes(lines[k])}

OldLines(lines) == Cardinality({i \in DOMAIN lines : lines[i].kind # "+"})

\* split_hunk: each piece starts where the one before it ends.
SplitHunk(h) ==
  LET starts == {1} \cup Boundaries(h.lines)
      piece(i) ==
        LET end == Min({Len(h.lines)} \cup {k - 1 : k \in {j \in starts : j > i}})
            ls  == SubSeq(h.lines, i, end)
        IN  [old_start |-> h.old_start + OldLines(SubSeq(h.lines, 1, i - 1)),
             old_lines |-> OldLines(ls), lines |-> ls]
  IN  FoldLeft(LAMBDA out, i : IF i \in starts THEN Append(out, piece(i)) ELSE out,
               <<>>, UpTo(Len(h.lines)))

SliceStartAsPrinted(h) == h.old_start
\* A hunk without old lines names the line it comes after.
SliceStart(h) == IF h.old_lines = 0 THEN h.old_start ELSE Max({0, h.old_start - 1})

\* apply_hunks_to_base: the lines of the base up to the hunk, then those of the
\* hunk, which all have a newline.
CopyFrom(base, from, to) == SubSeq(base, from + 1, Min({to, Len(base)}))

ApplyToBase(base, hs) ==
  LET step(s, h) ==
        LET kept == SelectSeq(h.lines, LAMBDA l : l.kind # "-") IN
        [out  |-> s.out \o CopyFrom(base, s.through, SliceStart(h))
                   \o [i \in DOMAIN kept |-> <<kept[i].text, TRUE>>],
         through |-> SliceStart(h) + OldLines(h.lines)]
      all == FoldLeft(step, [out |-> <<>>, through |-> 0], hs)
  IN  all.out \o CopyFrom(base, all.through, Len(base))

Chosen == LET is == SelectSeq(UpTo(Len(hunks)), LAMBDA i : chosen[i])
          IN  [i \in DOMAIN is |-> hunks[is[i]]]

-----------------------------------------------------------------------------
(* The session. *)

File      == session[n]
Prompting == phase = "prompt" /\ File.b # Gone /\ at <= Len(hunks)
Unchosen(hs) == [i \in DOMAIN hs |-> FALSE]

\* process_file begins: nothing is prompted for a change of mode alone.
Found(f) == IF f.b = Gone THEN <<>> ELSE Patch(f.a, f.b, Context)

\* The session: the index and the working tree are read.
AddInit ==
  /\ session \in Sessions /\ n = 1 /\ at = 1 /\ moves = 0 /\ phase = "prompt"
  /\ hunks = Found(session[1]) /\ chosen = Unchosen(hunks)
  /\ mine = [i \in DOMAIN session |-> Entry(session[i].a, session[i].am)] /\ staged = mine
  /\ picked = [i \in DOMAIN session |-> {}]

Settled == UNCHANGED <<session, n, mine, staged, picked>>

Answer(c, next) ==
  /\ Prompting /\ chosen' = c /\ at' = next
  /\ UNCHANGED <<hunks, moves, phase>> /\ Settled

Yes      == Answer([chosen EXCEPT ![at] = TRUE], at + 1)
No       == Answer([chosen EXCEPT ![at] = FALSE], at + 1)
\* 'a' and 'd': this hunk and all later ones.
Rest(v)  == [i \in DOMAIN chosen |-> IF i >= at THEN v ELSE chosen[i]]
All      == Answer(Rest(TRUE), Len(hunks) + 1)
NoneLeft == Answer(Rest(FALSE), Len(hunks) + 1)
Skip     == Answer(chosen, at + 1)

\* 'q', or the end of the input.
Quit ==
  /\ Prompting /\ phase' = "quit"
  /\ UNCHANGED <<hunks, chosen, at, moves>> /\ Settled

Move == Prompting /\ moves < MaxMoves /\ moves' = moves + 1 /\ UNCHANGED phase /\ Settled

\* 'g', and '/', which goes forward only.
Jump == \E i \in DOMAIN hunks \ {at} : /\ Move /\ at' = i /\ UNCHANGED <<hunks, chosen>>

Replace(new, v) ==
  /\ hunks'  = SubSeq(hunks, 1, at - 1) \o new \o SubSeq(hunks, at + 1, Len(hunks))
  /\ chosen' = SubSeq(chosen, 1, at - 1) \o [i \in DOMAIN new |-> v]
                 \o SubSeq(chosen, at + 1, Len(chosen))

Split == LET pieces == SplitHunk(hunks[at]) IN
  /\ Move /\ Len(pieces) > 1 /\ Replace(pieces, FALSE) /\ UNCHANGED at

\* 'e': the user takes out an added line, or keeps a removed one.  The header
\* stays as it is; the edited hunk is chosen and shown again.
EditHunk == /\ Move /\ UNCHANGED at
  /\ \E i \in {k \in DOMAIN hunks[at].lines : Changes(hunks[at].lines[k])} :
       LET ls == hunks[at].lines IN
       Replace(<<[hunks[at] EXCEPT !.lines = IF ls[i].kind = "+" THEN RemoveAt(ls, i)
                                             ELSE [ls EXCEPT ![i].kind = " "]]>>, TRUE)

\* The hunks of the file are done: the chosen ones are staged, with the mode of
\* the file; a change of mode alone is staged unasked.
FileDone ==
  /\ phase = "quit" \/ (phase = "prompt" /\ at > Len(hunks))
  /\ File.b # Gone
  /\ mine' = IF hunks = <<>> THEN [mine EXCEPT ![n] = Entry(File.b, File.bm)]
             ELSE IF Chosen = <<>> THEN mine
             ELSE [mine EXCEPT ![n] = Entry(ApplyToBase(File.a, Chosen), File.bm)]
  /\ picked' = [picked EXCEPT ![n] = {l.edit : l \in {k \in UNION {Range(h.lines) : h \in Range(Chosen)} :
                                                       Changes(k)}}]
  /\ phase' = IF phase = "quit" \/ n = Len(session) THEN "write" ELSE "next"
  /\ UNCHANGED <<session, n, hunks, chosen, at, moves, staged>>

\* prompt_deletion.
Deletion ==
  /\ phase = "prompt" /\ File.b = Gone
  /\ \E answer \in {"y", "n", "q"} :
       /\ mine' = IF answer = "y" THEN [mine EXCEPT ![n] = Gone] ELSE mine
       /\ phase' = IF answer = "q" \/ n = Len(session) THEN "write" ELSE "next"
  /\ UNCHANGED <<session, n, hunks, chosen, at, moves, staged, picked>>

NextFile ==
  /\ phase = "next" /\ phase' = "prompt" /\ n' = n + 1 /\ at' = 1
  /\ hunks' = Found(session[n + 1]) /\ chosen' = Unchosen(hunks')
  /\ UNCHANGED <<session, mine, staged, picked, moves>>

WriteIndex ==
  /\ phase = "write" /\ phase' = "done" /\ staged' = mine
  /\ UNCHANGED <<session, n, hunks, chosen, at, mine, picked, moves>>

AddNext ==
  \/ Yes \/ No \/ All \/ NoneLeft \/ Skip \/ Quit
  \/ Jump \/ Split \/ EditHunk
  \/ FileDone \/ Deletion \/ NextFile \/ WriteIndex

-----------------------------------------------------------------------------
(* What it promises. *)

\* The indexed content with these edits made, and no others.
With(f, edits) ==
  LET script == Edits(f.a, f.b)
      these  == SelectSeq(UpTo(Len(script)), LAMBDA i :
                  script[i].op = (IF i \in edits THEN "insert" ELSE "delete") \/ script[i].op = "equal")
  IN  [i \in DOMAIN these |-> LET e == script[these[i]] IN
         IF e.op = "insert" THEN f.b[e.bi + 1][1] ELSE f.a[e.ai + 1][1]]

\* The first piece of a split hunk that begins a file with added lines.
Misplaced == \E h \in Range(Chosen) : h.old_lines = 0 /\ h.old_start > 0

\* src/add_patch.rs:338, src/cli/add_patch.rs:3-7: what is staged is the indexed
\* content with the chosen hunks and no others, however they were split and
\* edited and in whatever order they were chosen.  The staged file ends with a
\* newline even when it should not, so texts are compared.
StagedAsChosen ==
  phase \in {"next", "write"} /\ mine[n] # Gone /\ hunks # <<>>
    => Texts(mine[n].lines) = With(File, picked[n])

\* The same, save where a piece that only adds lines is staged without old lines.
StagedIfPlaced == phase \in {"next", "write"} /\ ~Misplaced => StagedAsChosen

\* A diff that is computed is right: see LineDiff.
DiffsHold ==
  phase = "prompt" /\ at = 1 /\ moves = 0 /\ File.b # Gone
    => Shortest(File.a, File.b) /\ Applies(File.a, File.b, Context) /\ Applies(File.a, File.b, 0)
=============================================================================
