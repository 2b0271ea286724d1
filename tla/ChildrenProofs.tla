--------------------------- MODULE ChildrenProofs ---------------------------
(***************************************************************************)
(* A command takes its children at their word (ChildrenHeeded), for pipes  *)
(* of any size, children that do anything and commands of any shape that   *)
(* Shaped allows, those of the code among them.                            *)
(***************************************************************************)
EXTENDS Children, SequenceTheorems, TLAPS

\* Parts before the work change nothing of the shape.
Front(s) == s \in Seq(Part) /\ \A i \in DOMAIN s : s[i].kind \notin {"verify", "work"}

LEMMA FrontsJoin == ASSUME NEW s, NEW t, Front(s), Front(t) PROVE Front(s \o t)
<1>1. /\ s \o t \in Seq(Part) /\ Len(s) \in Nat /\ Len(t) \in Nat
      /\ DOMAIN s = 1..Len(s) /\ DOMAIN t = 1..Len(t) /\ DOMAIN (s \o t) = 1..(Len(s) + Len(t))
  BY DEF Front
<1>2. ASSUME NEW i \in DOMAIN (s \o t) PROVE (s \o t)[i].kind \notin {"verify", "work"}
  <2>1. CASE i <= Len(s)
    BY <2>1, <1>1 DEF Front
  <2>2. CASE i > Len(s)
    <3>1. (s \o t)[i] = t[i - Len(s)] /\ i - Len(s) \in DOMAIN t
      BY <2>2, <1>1 DEF Front
    <3> QED BY <3>1 DEF Front
  <2> QED BY <2>1, <2>2, <1>1
<1> QED BY <1>1, <1>2 DEF Front

LEMMA FrontShaped == ASSUME NEW s, NEW c, Front(s), Shaped(c) PROVE Shaped(s \o c)
<1>1. /\ s \in Seq(Part) /\ c \in Seq(Part) /\ s \o c \in Seq(Part)
      /\ Len(s) \in Nat /\ Len(c) \in Nat /\ Len(c) # 0
      /\ DOMAIN s = 1..Len(s) /\ DOMAIN c = 1..Len(c) /\ DOMAIN (s \o c) = 1..(Len(s) + Len(c))
  BY DEF Front, Shaped
<1>2. s \o c # <<>>
  BY <1>1
<1>3. \A i \in DOMAIN (s \o c) :
        \/ i \in DOMAIN s /\ (s \o c)[i] = s[i]
        \/ i > Len(s) /\ i - Len(s) \in DOMAIN c /\ (s \o c)[i] = c[i - Len(s)]
  BY <1>1
<1>4. \A i \in DOMAIN (s \o c) : (s \o c)[i].kind = "verify" => (s \o c)[i].onFail = "warn"
  BY <1>3 DEF Front, Shaped
<1>5. ASSUME NEW i \in DOMAIN (s \o c), NEW j \in DOMAIN (s \o c), i < j, (s \o c)[i].kind = "work"
      PROVE  OnlyTells((s \o c)[j])
  <2>1. i > Len(s) /\ i - Len(s) \in DOMAIN c /\ (s \o c)[i] = c[i - Len(s)]
    BY <1>3, <1>5 DEF Front
  <2>2. j > Len(s) /\ j - Len(s) \in DOMAIN c /\ (s \o c)[j] = c[j - Len(s)] /\ i - Len(s) < j - Len(s)
    BY <2>1, <1>1, <1>3, <1>5
  <2> QED BY <2>1, <2>2, <1>5 DEF Shaped
<1> QED BY <1>1, <1>2, <1>4, <1>5 DEF Shaped

LEMMA Fronts ==
  /\ \A skipped, n : n \in Nat => Front(Unless(skipped, <<Hook("veto", n)>>))
  /\ \A skipped : Front(Unless(skipped, <<Signing(FALSE)>>))
  /\ Front(<<Hook("veto", 0)>>)
<1>1. Front(<<>>)
  BY DEF Front
<1>2. \A n \in Nat : Front(<<Hook("veto", n)>>)
  BY DEF Front, Hook, Part, Kind
<1>3. Front(<<Signing(FALSE)>>)
  BY DEF Front, Signing, Part, Kind
<1> QED BY <1>1, <1>2, <1>3 DEF Unless

LEMMA CommitShaped == \A noVerify, signed : Shaped(Commit(noVerify, signed))
<1> SUFFICES ASSUME NEW noVerify, NEW signed PROVE Shaped(Commit(noVerify, signed))
  OBVIOUS
<1> DEFINE hooks == Unless(noVerify, <<Hook("veto", 0)>>)
           two   == hooks \o <<Hook("veto", 0)>>
           three == two \o hooks
           four  == three \o Unless(~signed, <<Signing(FALSE)>>)
<1>1. Front(two)
  BY FrontsJoin, Fronts
<1>2. Front(three)
  <2> HIDE DEF two
  <2> QED BY <1>1, FrontsJoin, Fronts
<1>3. Front(four)
  <2> HIDE DEF three
  <2> QED BY <1>2, FrontsJoin, Fronts
<1>4. Shaped(<<Work, Hook("warn", 0)>>)
  BY DEF Shaped, Part, Kind, OnlyTells, Hook, Work
<1>5. Commit(noVerify, signed) = four \o <<Work, Hook("warn", 0)>>
  BY DEF Commit
<1> HIDE DEF four
<1> QED BY <1>3, <1>4, <1>5, FrontShaped

LEMMA PushShaped == \A noVerify, n : n \in Nat => Shaped(Push(noVerify, n))
<1> SUFFICES ASSUME NEW noVerify, NEW n \in Nat PROVE Shaped(Push(noVerify, n))
  OBVIOUS
<1>1. Shaped(<<Work>>)
  BY DEF Shaped, Part, Kind, OnlyTells, Work
<1> QED BY <1>1, Fronts, FrontShaped DEF Push

\* What the theorem below asks of commands (Shaped) holds of every command of the code:
\* hooks before the work may veto it, those after it only report (hooks.rs, cli/commit.rs).
THEOREM CommandsShaped ==
  /\ \A noVerify, signed : Shaped(Commit(noVerify, signed))
  /\ \A noVerify, n : n \in Nat => Shaped(Push(noVerify, n))
  /\ Shaped(Merge) /\ (\A n \in Nat : Shaped(Rebase(n)) /\ Shaped(Log(n)))
  /\ Shaped(CheckOut) /\ Shaped(CollectGarbage) /\ Shaped(VerifyTag) /\ Shaped(FillCredentials)
  /\ Shaped(LsRemote) /\ Shaped(Clone)
<1> USE DEF Shaped, Part, Kind, OnlyTells, Hook, Work
<1>1. Shaped(Merge) /\ \A n \in Nat : Shaped(Rebase(n))
  BY DEF Merge, Rebase
<1>2. Shaped(CheckOut) /\ Shaped(CollectGarbage) /\ Shaped(Clone)
  BY DEF CheckOut, CollectGarbage, Clone, Ssh
<1>3. Shaped(VerifyTag) /\ Shaped(FillCredentials) /\ (\A n \in Nat : Shaped(Log(n))) /\ Shaped(LsRemote)
  BY DEF VerifyTag, FillCredentials, Log, LsRemote, Verifying, Asking, Paging, Ssh
<1> HIDE DEF Shaped
<1> QED BY <1>1, <1>2, <1>3, CommitShaped, PushShaped

-----------------------------------------------------------------------------
(* The inductive invariant.                                                *)

LifeOK ==
  /\ child = [life |-> child.life, steps |-> child.steps, code |-> child.code]
  /\ child.life \in {"none", "running", "exited", "reaped"}
  /\ parent = [at |-> parent.at, left |-> parent.left, got |-> parent.got, errs |-> parent.errs]

\* While it runs, what is left of a command is a part and what follows it, of which after
\* the work only reports remain.
CommandOK ==
  outcome = "running" =>
    /\ Shaped(command)
    /\ worked => \A i \in DOMAIN command : OnlyTells(command[i])

\* With a child there, the parent is at a place of the part's program, and has nothing
\* to tell a child that gets no input.
PlaceOK ==
  child.life # "none" =>
    /\ outcome = "running" /\ kind \in Kind
    /\ parent.at \in DOMAIN Program[kind]
    /\ parent.left \in Nat /\ (kind = "hook" /\ part.input = 0 => parent.left = 0)

\* What has been told so far: a veto comes last, and before the work.
ToldOK ==
  /\ \E S : told \in Seq(S)
  /\ \A i \in 1..Len(told) :
       /\ told[i].part.kind \in {"hook", "sign"} /\ told[i].verdict = "ok" => told[i].code = 0
       /\ told[i].part.onFail = "veto" =>
            \/ told[i].verdict \in {"ok", "skipped"}
            \/ i = Len(told) /\ outcome \in {"refused", "failed"} /\ ~worked

EndOK ==
  /\ outcome \in {"running", "done", "refused", "failed"} /\ worked \in BOOLEAN
  /\ outcome = "refused" => ~worked /\ told[Len(told)].code # 0
  /\ outcome = "failed" =>
       LET last == told[Len(told)]
       IN  /\ last.part.kind # "pager"
           /\ last.part.kind = "hook" => ~last.started \/ last.unread
           /\ worked => ~last.started

Inv == LifeOK /\ CommandOK /\ PlaceOK /\ ToldOK /\ EndOK

LEMMA Places ==
  ASSUME NEW k \in Kind
  PROVE  /\ 1 \in DOMAIN Program[k]
         /\ \A i \in DOMAIN Program[k] :
              /\ Program[k][i] \in {"write", "close", "collect", "readOut", "readErr"} => i + 1 \in DOMAIN Program[k]
              /\ Program[k][i] = "discover" => k = "ssh" /\ i + 1 \in DOMAIN Program[k]
              /\ Program[k][i] = "wait" /\ k = "ssh" => i + 1 \in DOMAIN Program[k]
              /\ Program[k][i] = "join" => k = "ssh"
<1>1. CASE k \in {"hook", "sign"}
  <2>1. Program[k] = <<"write", "close", "collect", "wait">>
    BY <1>1 DEF Program
  <2> QED BY <1>1, <2>1
<1>2. CASE k = "verify"
  <2>1. Program[k] = <<"close", "collect", "wait">>
    BY <1>2 DEF Program
  <2> QED BY <1>2, <2>1
<1>3. CASE k = "helper"
  <2>1. Program[k] = <<"write", "close", "readOut", "readErr", "wait">>
    BY <1>3 DEF Program
  <2> QED BY <1>3, <2>1
<1>4. CASE k = "pager"
  <2>1. Program[k] = <<"write", "close", "wait">>
    BY <1>4 DEF Program
  <2> QED BY <1>4, <2>1
<1>5. CASE k = "ssh"
  <2>1. Program[k] = <<"discover", "write", "close", "readOut", "wait", "join">>
    BY <1>5 DEF Program
  <2> QED BY <1>5, <2>1
<1> QED BY <1>1, <1>2, <1>3, <1>4, <1>5 DEF Kind

LEMMA ShapedTail ==
  ASSUME NEW c, Shaped(c), Len(c) # 1
  PROVE  Shaped(Tail(c)) /\ \A i \in DOMAIN Tail(c) : i + 1 \in DOMAIN c /\ Tail(c)[i] = c[i + 1]
<1>1. c \in Seq(Part) /\ c # <<>> /\ Len(c) \in Nat /\ DOMAIN c = 1..Len(c)
  BY DEF Shaped
<1>2. Tail(c) \in Seq(Part) /\ Len(Tail(c)) = Len(c) - 1 /\ DOMAIN Tail(c) = 1..Len(Tail(c)) /\ Tail(c) # <<>>
  <2>1. Len(c) > 1
    BY <1>1
  <2>2. Tail(c) \in Seq(Part) /\ Len(Tail(c)) = Len(c) - 1
    BY <1>1, <2>1
  <2>3. DOMAIN Tail(c) = 1..Len(Tail(c)) /\ Len(<<>>) = 0
    BY <2>2
  <2> QED BY <2>1, <2>2, <2>3
<1>3. \A i \in DOMAIN Tail(c) : i + 1 \in DOMAIN c /\ Tail(c)[i] = c[i + 1]
  BY <1>1, <1>2
<1> QED BY <1>1, <1>2, <1>3 DEF Shaped

LEMMA ShapedHead ==
  ASSUME NEW c, Shaped(c)
  PROVE  Head(c) = c[1] /\ 1 \in DOMAIN c /\ Head(c) \in Part /\ Len(c) \in Nat
BY DEF Shaped

LEMMA Appended ==
  ASSUME NEW s, NEW e, \E S : s \in Seq(S)
  PROVE  /\ \E S : Append(s, e) \in Seq(S)
         /\ Len(s) \in Nat /\ Len(Append(s, e)) = Len(s) + 1
         /\ \A i \in 1..Len(s) : Append(s, e)[i] = s[i]
         /\ Append(s, e)[Len(s) + 1] = e
<1> PICK S : s \in Seq(S)
  OBVIOUS
<1> DEFINE T == S \cup {e}
<1>1. s \in Seq(T) /\ e \in T
  <2>1. Len(s) \in Nat /\ s \in [1..Len(s) -> S]
    OBVIOUS
  <2>2. s \in [1..Len(s) -> T]
    BY <2>1
  <2> QED BY <2>1, <2>2
<1>2. Append(s, e) \in Seq(T)
  BY <1>1
<1>3. Len(s) \in Nat /\ Len(Append(s, e)) = Len(s) + 1
  BY <1>1
<1>4. \A i \in 1..Len(s) : Append(s, e)[i] = s[i]
  BY <1>1
<1>5. Append(s, e)[Len(s) + 1] = e
  BY <1>1
<1> QED BY <1>2, <1>3, <1>4, <1>5

\* While a command runs, its first part is one of the known kinds; after the work, a report.
LEMMA Current ==
  ASSUME Inv, outcome = "running"
  PROVE  /\ part \in Part /\ Len(command) \in Nat
         /\ kind = "verify" => part.onFail = "warn"
         /\ worked => OnlyTells(part)
         /\ kind # "work" => kind \in Kind
<1>1. Shaped(command) /\ (worked => \A i \in DOMAIN command : OnlyTells(command[i]))
  BY DEF Inv, CommandOK
<1>2. part = command[1] /\ 1 \in DOMAIN command /\ part \in Part /\ Len(command) \in Nat
  BY <1>1, ShapedHead DEF part
<1> QED BY <1>1, <1>2 DEF Shaped, Part, kind

\* What is left of a running command when its first part is over.
LEMMA Onward ==
  ASSUME Inv, outcome = "running", command' = Tail(command),
         outcome' = IF Len(command) = 1 THEN "done" ELSE "running",
         worked' = worked \/ (worked' = TRUE /\ kind = "work")
  PROVE  CommandOK'
<1> SUFFICES ASSUME outcome' = "running" PROVE Shaped(command') /\ (worked' => \A i \in DOMAIN command' : OnlyTells(command'[i]))
  BY DEF CommandOK
<1>1. Shaped(command) /\ Len(command) # 1
  BY DEF Inv, CommandOK
<1>2. Shaped(command') /\ \A i \in DOMAIN command' : i + 1 \in DOMAIN command /\ command'[i] = command[i + 1]
  BY <1>1, ShapedTail
<1>3. CASE worked
  BY <1>2, <1>3 DEF Inv, CommandOK
<1>4. CASE kind = "work"
  <2>1. command[1].kind = "work" /\ 1 \in DOMAIN command
    BY <1>1, <1>4, ShapedHead DEF part, kind
  <2>2. ASSUME NEW i \in DOMAIN command' PROVE OnlyTells(command'[i])
    <3>1. i \in Nat /\ i > 0
      BY <1>2 DEF Shaped
    <3> QED BY <1>1, <1>2, <2>1, <3>1 DEF Shaped
  <2> QED BY <1>2, <2>2
<1>5. CASE ~worked'
  BY <1>2, <1>5
<1> QED BY <1>3, <1>4, <1>5 DEF Inv, EndOK

LEMMA VerdictKeeps ==
  ASSUME Inv, outcome = "running", kind \in Kind, NEW v \in {"ok", "skipped", "refused", "broken"}, Verdict(v),
         kind \in {"hook", "sign"} /\ v = "ok" => child.code = 0,
         v = "refused" /\ part.onFail = "veto" => child.code # 0,
         v = "broken" /\ part.onFail # "shrug" =>
           /\ kind # "pager"
           /\ kind = "hook" => child.life = "none" \/ parent.left > 0
           /\ worked => child.life = "none"
  PROVE  Inv'
<1> DEFINE row == [part |-> part, verdict |-> v, code |-> child.code, well |-> Advertised /\ ~Garbled,
                   started |-> child.life # "none", unread |-> parent.left > 0 \/ pipes.in > 0]
           n    == Len(told) + 1
           over == (v = "refused" /\ part.onFail = "veto") \/ (v = "broken" /\ part.onFail # "shrug")
<1>1. told' = Append(told, row)
  BY DEF Verdict
<1>2. /\ \E S : told' \in Seq(S)
      /\ n - 1 \in Nat /\ Len(told') = n
      /\ \A i \in 1..(n - 1) : told'[i] = told[i]
      /\ told'[n] = row
  <2>1. \E S : told \in Seq(S)
    BY DEF Inv, ToldOK
  <2> HIDE DEF row
  <2>2. PICK r : r = row
    OBVIOUS
  <2>3. /\ \E S : Append(told, r) \in Seq(S)
        /\ Len(told) \in Nat /\ Len(Append(told, r)) = Len(told) + 1
        /\ \A i \in 1..Len(told) : Append(told, r)[i] = told[i]
        /\ Append(told, r)[Len(told) + 1] = r
    BY <2>1, Appended
  <2>4. Append(told, r) = told'
    BY <1>1, <2>2
  <2>5. Len(told) \in Nat
    BY <2>3
  <2>6. n - 1 = Len(told)
    BY <2>5
  <2> QED BY <2>2, <2>3, <2>4, <2>5, <2>6
<1>3. /\ row.part = part /\ row.verdict = v /\ row.code = child.code
      /\ row.started = (child.life # "none") /\ row.unread = (parent.left > 0 \/ pipes.in > 0)
  OBVIOUS
<1> HIDE DEF row
<1>4. child' = NoChild /\ pipes' = Dry /\ parent' = Idle /\ worked' = worked
  BY DEF Verdict
<1>5. /\ over => command' = <<>> /\ outcome' = IF v = "refused" THEN "refused" ELSE "failed"
      /\ ~over => command' = Tail(command) /\ outcome' = IF Len(command) = 1 THEN "done" ELSE "running"
  BY DEF Verdict
<1>6. LifeOK' /\ PlaceOK'
  BY <1>4 DEF LifeOK, PlaceOK, NoChild, Idle
<1>7. CommandOK'
  <2>1. CASE over
    BY <1>5, <2>1 DEF CommandOK
  <2>2. CASE ~over
    BY <1>4, <1>5, <2>2, Onward DEF Inv, EndOK
  <2> QED BY <2>1, <2>2
<1>8. worked => OnlyTells(part)
  BY Current
<1>9. ToldOK'
  <2>1. ASSUME NEW i \in 1..Len(told')
        PROVE  /\ told'[i].part.kind \in {"hook", "sign"} /\ told'[i].verdict = "ok" => told'[i].code = 0
               /\ told'[i].part.onFail = "veto" =>
                    \/ told'[i].verdict \in {"ok", "skipped"}
                    \/ i = Len(told') /\ outcome' \in {"refused", "failed"} /\ ~worked'
    <3>1. CASE i = n
      BY <1>2, <1>3, <1>4, <1>5, <1>8, <3>1 DEF OnlyTells, kind
    <3>2. CASE i \in 1..(n - 1)
      BY <1>2, <3>2 DEF Inv, ToldOK
    <3> QED BY <1>2, <3>1, <3>2
  <2> QED BY <1>2, <2>1 DEF ToldOK
<1>10. EndOK'
  <2>1. outcome' \in {"running", "done", "refused", "failed"} /\ worked' \in BOOLEAN
    BY <1>4, <1>5 DEF Inv, EndOK
  <2>2. ASSUME outcome' = "refused" PROVE ~worked' /\ told'[Len(told')].code # 0
    <3>1. v = "refused" /\ part.onFail = "veto"
      BY <1>5, <2>2
    <3> QED BY <1>2, <1>3, <1>4, <1>8, <3>1 DEF OnlyTells
  <2>3. ASSUME outcome' = "failed"
        PROVE  /\ told'[Len(told')].part.kind # "pager"
               /\ told'[Len(told')].part.kind = "hook" =>
                    ~told'[Len(told')].started \/ told'[Len(told')].unread
               /\ worked' => ~told'[Len(told')].started
    <3>1. v = "broken" /\ part.onFail # "shrug"
      BY <1>5, <2>3
    <3> QED BY <1>2, <1>3, <1>4, <3>1 DEF kind
  <2> QED BY <2>1, <2>2, <2>3 DEF EndOK
<1> QED BY <1>6, <1>7, <1>9, <1>10 DEF Inv

\* A step within a part.
LEMMA QuietKeeps ==
  ASSUME Inv, UNCHANGED <<command, worked, outcome, told>>, LifeOK', PlaceOK'
  PROVE  Inv'
BY DEF Inv, CommandOK, ToldOK, EndOK

-----------------------------------------------------------------------------
(* One lemma for each action.                                              *)

LEMMA WorksKeeps == ASSUME Inv, Works PROVE Inv'
<1>1. outcome = "running" /\ kind = "work" /\ worked' = TRUE /\ told' = told /\ child.life = "none"
  BY DEF Works, Inv, PlaceOK, Kind
<1>2. CommandOK'
  BY <1>1, Onward DEF Works
<1>3. outcome' \in {"done", "running"}
  BY DEF Works
<1>4. LifeOK' /\ PlaceOK'
  BY <1>1 DEF Works, Inv, LifeOK, PlaceOK
<1>5. ToldOK'
  BY <1>1 DEF Inv, ToldOK
<1>6. EndOK'
  BY <1>1, <1>3 DEF EndOK
<1> QED BY <1>2, <1>4, <1>5, <1>6 DEF Inv

LEMMA AbsentKeeps == ASSUME Inv, Absent PROVE Inv'
<1>1. PICK v \in (IF kind = "helper" THEN Prompted ELSE {"skipped"}) : Verdict(v)
  BY DEF Absent
<1>2. outcome = "running" /\ child.life = "none" /\ kind \in {"hook", "helper", "pager"}
  BY DEF Absent
<1>3. v \in {"ok", "skipped", "broken"} /\ (v # "skipped" => kind = "helper")
  BY <1>1 DEF Prompted
<1> QED BY <1>1, <1>2, <1>3, VerdictKeeps DEF Kind

LEMMA NoSpawnKeeps == ASSUME Inv, NoSpawn PROVE Inv'
BY VerdictKeeps DEF NoSpawn, Kind

LEMMA SpawnKeeps == ASSUME Inv, Spawn PROVE Inv'
<1>1. outcome = "running" /\ kind \in Kind /\ part.input \in Nat
  BY Current DEF Spawn, Part
<1>2. LifeOK'
  <2>1. PICK script \in Scripts[kind] : child' = [life |-> "running", steps |-> script.steps, code |-> script.code]
    BY DEF Spawn
  <2>2. parent' = [at |-> 1, left |-> IF kind = "ssh" THEN 1 ELSE part.input, got |-> <<>>, errs |-> {}]
    BY DEF Spawn, Idle
  <2> QED BY <2>1, <2>2 DEF LifeOK
<1>3. PlaceOK'
  <2>1. kind' = kind /\ part' = part /\ outcome' = outcome
    BY DEF Spawn, kind, part
  <2>2. parent'.at = 1 /\ parent'.left = IF kind = "ssh" THEN 1 ELSE part.input
    BY DEF Spawn, Idle
  <2> QED BY <1>1, <2>1, <2>2, Places DEF PlaceOK
<1> QED BY <1>2, <1>3, QuietKeeps DEF Spawn

\* The parent goes to the next place of its program.
LEMMA AdvanceKeeps ==
  ASSUME Inv, child.life # "none", UNCHANGED <<command, worked, outcome, told>>, LifeOK',
         parent' = [parent EXCEPT !.at = Advance],
         \/ Program[kind][parent.at] \in {"write", "close", "collect", "readOut", "readErr", "discover"}
         \/ Program[kind][parent.at] = "wait" /\ kind = "ssh"
  PROVE  Inv'
<1>1. kind' = kind /\ part' = part
  BY DEF kind, part
<1>2. parent'.at = parent.at + 1 /\ parent'.left = parent.left
  BY DEF Inv, LifeOK, Advance
<1>3. PlaceOK'
  BY <1>1, <1>2, Places DEF Inv, PlaceOK
<1> QED BY <1>3, QuietKeeps

\* A step that leaves the parent where it is, with as much to write.
LEMMA StayKeeps ==
  ASSUME Inv, outcome = "running", child.life # "none", UNCHANGED <<command, worked, outcome, told>>, LifeOK',
         parent'.at = parent.at, parent'.left = parent.left
  PROVE  Inv'
<1>1. kind' = kind /\ part' = part
  BY DEF kind, part
<1>2. PlaceOK'
  BY <1>1 DEF Inv, PlaceOK
<1> QED BY <1>2, QuietKeeps

LEMMA TakeOutKeeps == ASSUME Inv, outcome = "running", child.life # "none", TakeOut PROVE Inv'
<1>1. LifeOK' /\ parent'.at = parent.at /\ parent'.left = parent.left
  BY DEF TakeOut, Inv, LifeOK
<1> QED BY <1>1, StayKeeps DEF TakeOut

LEMMA TakeErrKeeps == ASSUME Inv, outcome = "running", child.life # "none", TakeErr PROVE Inv'
<1>1. LifeOK' /\ parent'.at = parent.at /\ parent'.left = parent.left
  BY DEF TakeErr, Inv, LifeOK
<1> QED BY <1>1, StayKeeps DEF TakeErr

LEMMA GoOnKeeps ==
  ASSUME Inv, outcome = "running", child.life # "none", GoOn,
         Program[kind][parent.at] \in {"collect", "readOut", "readErr", "discover"}
  PROVE  Inv'
<1>1. LifeOK'
  BY DEF GoOn, Inv, LifeOK
<1> QED BY <1>1, AdvanceKeeps DEF GoOn

LEMMA WriteKeeps == ASSUME Inv, Write PROVE Inv'
<1>1. /\ outcome = "running" /\ child.life # "none" /\ Program[kind][parent.at] = "write"
      /\ parent.left > 0 /\ parent.left \in Nat /\ kind \in Kind /\ kind' = kind' /\ part' = part'
  BY DEF Write, Doing, Inv, PlaceOK
<1>2. CASE Gone /\ kind # "pager" /\ Verdict("broken")
  <2>1. worked => kind = "hook" /\ (part.onFail # "shrug" => part.input = 0)
    BY <1>1, Current DEF OnlyTells, kind
  <2>2. worked => part.onFail = "shrug"
    BY <1>1, <2>1 DEF Inv, PlaceOK
  <2> QED BY <1>1, <1>2, <2>2, VerdictKeeps
<1>3. CASE UNCHANGED <<command, child, worked, outcome, told>> /\ \E l \in 0..(parent.left - 1) : parent' = [parent EXCEPT !.left = l]
  <2>1. kind' = kind /\ part' = part
    BY <1>3 DEF kind, part
  <2>2. LifeOK' /\ parent'.at = parent.at /\ parent'.left \in Nat
    BY <1>1, <1>3 DEF Inv, LifeOK
  <2>3. PlaceOK'
    BY <1>1, <1>3, <2>1, <2>2 DEF Inv, PlaceOK
  <2> QED BY <1>3, <2>2, <2>3, QuietKeeps
<1>4. parent.left - 1 \in 0..(parent.left - 1) /\ 0 \in 0..(parent.left - 1)
  BY <1>1
<1> QED BY <1>1, <1>2, <1>3, <1>4 DEF Write

LEMMA WrittenKeeps == ASSUME Inv, Written PROVE Inv'
<1>1. LifeOK'
  BY DEF Written, Inv, LifeOK
<1> QED BY <1>1, AdvanceKeeps DEF Written, Doing

LEMMA CloseKeeps == ASSUME Inv, Close PROVE Inv'
<1>1. LifeOK'
  BY DEF Close, Inv, LifeOK
<1> QED BY <1>1, AdvanceKeeps DEF Close, Doing

LEMMA CollectKeeps == ASSUME Inv, Collect PROVE Inv'
BY TakeOutKeeps, TakeErrKeeps, GoOnKeeps DEF Collect, Doing

LEMMA ReadOutKeeps == ASSUME Inv, ReadOut PROVE Inv'
BY TakeOutKeeps, GoOnKeeps DEF ReadOut, Doing

LEMMA ReadErrKeeps == ASSUME Inv, ReadErr PROVE Inv'
BY TakeErrKeeps, GoOnKeeps DEF ReadErr, Doing

LEMMA DrainErrKeeps == ASSUME Inv, DrainErr PROVE Inv'
BY TakeErrKeeps DEF DrainErr

\* ssh works for no hook and after no change.
LEMMA SshBroken ==
  ASSUME Inv, outcome = "running", kind = "ssh", NEW v \in {"ok", "broken"}, Verdict(v)
  PROVE  Inv'
<1>1. ~worked
  BY Current DEF OnlyTells, kind
<1> QED BY <1>1, VerdictKeeps DEF Kind

LEMMA DiscoverKeeps == ASSUME Inv, Discover PROVE Inv'
<1>1. outcome = "running" /\ child.life # "none" /\ Program[kind][parent.at] = "discover"
  BY DEF Discover, Doing
<1>2. kind = "ssh"
  BY <1>1, Places DEF Inv, PlaceOK
<1>3. Verdict("broken") \/ GoOn \/ TakeOut
  BY DEF Discover
<1> QED BY <1>1, <1>2, <1>3, SshBroken, GoOnKeeps, TakeOutKeeps

LEMMA JoinKeeps == ASSUME Inv, Join PROVE Inv'
<1>1. outcome = "running" /\ child.life # "none" /\ Program[kind][parent.at] = "join"
  BY DEF Join, Doing
<1>2. kind = "ssh"
  BY <1>1, Places DEF Inv, PlaceOK
<1> QED BY <1>1, <1>2, SshBroken DEF Join

LEMMA WaitKeeps == ASSUME Inv, Wait PROVE Inv'
<1>1. outcome = "running" /\ child.life # "none" /\ Program[kind][parent.at] = "wait" /\ kind \in Kind
  BY DEF Wait, Doing, Inv, PlaceOK
<1>2. CASE kind = "ssh"
  <2>1. LifeOK'
    BY <1>2 DEF Wait, Inv, LifeOK
  <2> QED BY <1>1, <1>2, <2>1, AdvanceKeeps DEF Wait
<1>3. CASE kind # "ssh"
  <2>1. PICK v \in CASE kind = "pager" -> {"ok"}
                     [] kind = "helper" -> IF child.code = 0 /\ Len(parent.got) = 2 THEN {"ok"} ELSE Prompted
                     [] kind = "verify" -> IF GoodSignature THEN {"ok"} ELSE {"refused"}
                     [] kind \in {"hook", "sign"} ->
                          IF Aborts(child.code) THEN {"refused"}
                          ELSE IF kind = "sign" /\ parent.got = <<>> THEN {"broken"} ELSE {"ok"} : Verdict(v)
    BY <1>3 DEF Wait
  <2>2. worked => kind = "hook"
    BY <1>1, Current DEF OnlyTells, kind
  <2>3. CASE kind = "pager"
    BY <1>1, <2>1, <2>3, VerdictKeeps
  <2>4. CASE kind = "helper"
    <3>1. v \in {"ok", "broken"} /\ ~worked
      BY <2>1, <2>2, <2>4 DEF Prompted
    <3> QED BY <1>1, <2>1, <2>4, <3>1, VerdictKeeps
  <2>5. CASE kind = "verify"
    <3>1. v \in {"ok", "refused"} /\ part.onFail = "warn"
      BY <1>1, <2>1, <2>5, Current
    <3> QED BY <1>1, <2>1, <2>5, <3>1, VerdictKeeps
  <2>6. CASE kind \in {"hook", "sign"}
    <3>1. v \in {"ok", "refused", "broken"}
      BY <2>1, <2>6
    <3>2. (v = "ok" => child.code = 0) /\ (v = "refused" => child.code # 0) /\ (v = "broken" => kind = "sign")
      BY <2>1, <2>6 DEF Aborts
    <3> QED BY <1>1, <2>1, <2>2, <2>6, <3>1, <3>2, VerdictKeeps
  <2> QED BY <1>1, <1>3, <2>3, <2>4, <2>5, <2>6 DEF Kind
<1> QED BY <1>2, <1>3

LEMMA ChildStepKeeps == ASSUME Inv, ChildStep PROVE Inv'
<1>1. outcome = "running" /\ child.life = "running" /\ UNCHANGED <<command, parent, worked, outcome, told>>
  BY DEF ChildStep
<1>2. \/ child' = child
      \/ child' = [child EXCEPT !.steps = Tail(child.steps)]
      \/ child' = [child EXCEPT !.life = "exited"]
  BY DEF ChildStep, ChildRead, ChildWrite
<1>3. LifeOK'
  BY <1>1, <1>2 DEF Inv, LifeOK
<1> QED BY <1>1, <1>3, StayKeeps

-----------------------------------------------------------------------------
LEMMA InitOK == ASSUME ChildInit PROVE Inv
<1>1. LifeOK /\ PlaceOK
  BY DEF ChildInit, LifeOK, PlaceOK, NoChild, Idle
<1>2. CommandOK
  BY ChildrenAssumption DEF ChildInit, CommandOK
<1>3. ToldOK
  <2>1. told \in Seq({}) /\ Len(told) = 0
    BY DEF ChildInit
  <2> QED BY <2>1 DEF ToldOK
<1>4. EndOK
  BY DEF ChildInit, EndOK
<1> QED BY <1>1, <1>2, <1>3, <1>4 DEF Inv

LEMMA NextKeeps == ASSUME Inv, [ChildNext]_childVars PROVE Inv'
<1>1. CASE ChildNext
  BY <1>1, WorksKeeps, AbsentKeeps, NoSpawnKeeps, SpawnKeeps, WriteKeeps, WrittenKeeps, CloseKeeps, CollectKeeps,
     ReadOutKeeps, ReadErrKeeps, DiscoverKeeps, WaitKeeps, JoinKeeps, DrainErrKeeps, ChildStepKeeps
     DEF ChildNext, ParentStep
<1>2. CASE UNCHANGED childVars
  BY <1>2 DEF childVars, Inv, LifeOK, CommandOK, PlaceOK, ToldOK, EndOK, kind, part
<1> QED BY <1>1, <1>2

LEMMA InvHeeded == ASSUME Inv PROVE ChildrenHeeded
<1>1. PICK S : told \in Seq(S)
  BY DEF Inv, ToldOK
<1>2. DOMAIN told = 1..Len(told)
  BY <1>1
<1> QED BY <1>2 DEF Inv, ToldOK, EndOK, ChildrenHeeded

\* A command changes the repository only when every child that may veto it went well or was
\* not there, and stops only at a child's word, its absence or its unread input
\* (hooks.rs, cli/commit.rs, signing.rs, pager.rs), for every instance of the constants.
THEOREM ChildrenTakenAtTheirWord == ChildSpec => []ChildrenHeeded
<1>1. ChildInit => Inv
  BY InitOK
<1>2. Inv /\ [ChildNext]_childVars => Inv'
  BY NextKeeps
<1>3. Inv => ChildrenHeeded
  BY InvHeeded
<1> QED BY <1>1, <1>2, <1>3, PTL DEF ChildSpec

=============================================================================
