------------------------------- MODULE Bisect -------------------------------
(***************************************************************************)
(* `bisect` over a history (bisect.rs, cli/bisect.rs): the session is      *)
(* spread over BISECT_START, the refs under refs/bisect/, HEAD and the     *)
(* work tree.  A tester marks what is checked out by what it sees in the   *)
(* work tree; a forced checkout may fail unnoticed, and the process may    *)
(* be killed while `bisect reset` cleans up.                               *)
(***************************************************************************)
EXTENDS History

CONSTANT MaxFaults    \* bound: failed checkouts and kills

VARIABLES
  session,    \* BISECT_START: <<>> when absent, else <<what HEAD was>>
  bad,        \* refs/bisect/bad, 0 when absent
  good,       \* the commits of refs/bisect/good-*
  expected,   \* BISECT_EXPECTED_REV, the commit offered for testing
  detached,   \* what HEAD holds while detached, 0 on the branch
  files,      \* the commit whose tree is in the work tree
  cleaning,   \* where `bisect reset` stands: "no", "start", "refs"
  report,     \* the commit last printed as the first bad one
  culprit,    \* history: the commit that brought the bug being hunted
  misled,     \* history: a mark was given for a tree that was not the commit's,
              \* or was left over from an earlier session
  faults      \* failed checkouts and kills so far

bisectVars == <<session, bad, good, expected, detached, files, cleaning,
                report, culprit, misled, faults>>

\* Whether a build of c shows the bug that x brought.
Shows(x, c) == x \in Ancestors[c]

-----------------------------------------------------------------------------
(* next_step. *)

Uninteresting(gs) == UNION {CollectAncestors(g) : g \in gs}

Candidates(b, gs) == ToSet(DepthFirst(<<b>>, Uninteresting(gs), InOrder))

Weight(c, cands) == Cardinality(CollectAncestors(c) \cap cands)

CutOneSided(c, cands) == Weight(c, cands)

\* How far a test of c is sure to cut the candidates down.
Cut(c, cands) == Min({Weight(c, cands), Cardinality(cands) - Weight(c, cands)})

\* The deepest cut, ties to the smaller object id.
Midpoint(cands) ==
  CHOOSE c \in cands : \A d \in cands \ {c} :
    \/ Cut(c, cands) > Cut(d, cands)
    \/ Cut(c, cands) = Cut(d, cands) /\ Id[c] < Id[d]

ConvergedEarly(b, cands) == Cardinality(cands) <= 2
Converged(b, cands) == cands \subseteq {b}

\* Checks out the midpoint, or reports (`before` is what was last reported): HEAD is moved whether the forced
\* checkout went through or not, because its result is dropped.
Advance(b, gs, before) ==
  LET cands == Candidates(b, gs)
      next  == Midpoint(cands)
      waits == b = None \/ gs = {}
      done  == ~ waits /\ Converged(b, cands)
  IN  /\ report' = (IF done THEN b ELSE before)
      /\ IF waits \/ done THEN UNCHANGED <<expected, detached, files, faults>>
         ELSE /\ expected' = next
              /\ detached' = next
              /\ \/ files' = next /\ UNCHANGED faults
                 \/ faults < MaxFaults /\ faults' = faults + 1 /\ UNCHANGED files

-----------------------------------------------------------------------------
(* The commands. *)

BisectInit ==
  /\ HistoryInit
  /\ session = <<>> /\ bad = None /\ good = {} /\ expected = None
  /\ detached \in {None} \cup {c \in Commits : c = 1}
  /\ files = (IF detached = None THEN tip ELSE detached)
  /\ cleaning = "no" /\ report = None /\ culprit = None
  /\ misled = FALSE /\ faults = 0

HeadCommit == IF detached # None THEN detached ELSE tip
Ready      == cleaning = "no"
Hunting    == Ready /\ session # <<>>

\* `bisect start [<bad> [<good>]]` in a history that is given: a new bug, brought
\* by x, is hunted.  The marks are read back from the refs, so any left there by
\* an earlier session count too.
Start(x, b, g) ==
  /\ Ready /\ session = <<>>
  /\ parents \in Given /\ HeadCommit # None
  /\ culprit' = x
  /\ b # None => Shows(x, b)
  /\ g # None => ~ Shows(x, g)
  /\ session' = <<detached>>
  /\ bad' = (IF b # None THEN b ELSE bad)
  /\ good' = good \cup ({g} \ {None})
  /\ misled' = (good # {} \/ bad' \notin {None, b})
  /\ Advance(bad', good', None)
  /\ UNCHANGED <<cleaning, historyVars>>

\* `bisect good|bad`, of HEAD when no commit is named: the verdict on HEAD is
\* what the work tree shows, the verdict on a named commit is the tester's own.
Mark(c) ==
  LET shows == Shows(culprit, IF c = HeadCommit THEN files ELSE c) IN
  /\ Hunting
  /\ IF shows THEN bad' = c /\ UNCHANGED good
     ELSE good' = good \cup {c} /\ UNCHANGED bad
  /\ misled' = (misled \/ shows # Shows(culprit, c))
  /\ Advance(bad', good', report)
  /\ UNCHANGED <<session, cleaning, culprit, historyVars>>

\* `bisect reset`: HEAD and (as far as the checkout goes) the work tree back to
\* the start, then the BISECT_* files, then the refs.
ResetHead ==
  /\ Hunting
  /\ detached' = session[1]
  /\ \/ files' = (IF session[1] = None THEN tip ELSE session[1]) /\ UNCHANGED faults
     \/ faults < MaxFaults /\ faults' = faults + 1 /\ UNCHANGED files
  /\ cleaning' = "start"
  /\ UNCHANGED <<session, bad, good, expected, report, culprit, misled, historyVars>>

RemoveStart ==
  /\ cleaning = "start"
  /\ session' = <<>> /\ expected' = None
  /\ cleaning' = "refs"
  /\ UNCHANGED <<bad, good, detached, files, report, culprit, misled, faults, historyVars>>

RemoveRefs ==
  /\ cleaning = "refs"
  /\ bad' = None /\ good' = {}
  /\ cleaning' = "no"
  /\ UNCHANGED <<session, expected, detached, files, report, culprit, misled,
                 faults, historyVars>>

\* The process dies in the middle of a reset; the refs go one by one.
Kill ==
  /\ ~ Ready /\ faults < MaxFaults
  /\ faults' = faults + 1
  /\ cleaning' = "no"
  /\ IF cleaning = "refs" THEN bad' \in {bad, None} /\ good' \in SUBSET good
     ELSE UNCHANGED <<bad, good>>
  /\ UNCHANGED <<session, expected, detached, files, report, culprit, misled, historyVars>>

\* Everything else happens on the branch and between sessions.
HistoryStep ==
  /\ Ready /\ session = <<>> /\ detached = None
  /\ HistoryNext
  /\ files' = tip'
  /\ UNCHANGED <<session, bad, good, expected, detached, cleaning, report,
                 culprit, misled, faults>>

BisectNext ==
  \/ parents \in Given /\ \E x \in Commits, b, g \in Commits \cup {None} : Start(x, b, g)
  \/ \E c \in Commits : Mark(c)
  \/ ResetHead \/ RemoveStart \/ RemoveRefs \/ Kill
  \/ HistoryStep

BisectSpec == BisectInit /\ [][BisectNext]_<<historyVars, bisectVars>>

-----------------------------------------------------------------------------
(* Properties. *)

\* The commit printed as the first bad one is the one that brought the bug,
\* whatever the shape of the history and the order of the marks, as long as
\* every mark was given for the commit's own tree (cli/bisect.rs:227-250).
FirstBadIsCulprit == report # None /\ ~ misled => report = culprit

\* Bisect offers only a suspect whose verdict is not known yet, and a verdict on
\* the commit offered always shrinks the set of suspects: the hunt comes to an
\* end (bisect.rs:286-335).
VerdictNarrows ==
  [][ /\ expected' \notin {None, expected} =>
           expected' \in Candidates(bad', good') \ {bad'}
      /\ (/\ Hunting /\ report = None /\ expected # None /\ culprit' = culprit
          /\ \/ bad # expected /\ bad' = expected
             \/ expected \notin good /\ expected \in good')
         => /\ Candidates(bad', good') \subseteq Candidates(bad, good)
            /\ Candidates(bad', good') # Candidates(bad, good)
    ]_<<historyVars, bisectVars>>
=============================================================================
