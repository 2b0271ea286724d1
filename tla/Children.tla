------------------------------ MODULE Children ------------------------------
(***************************************************************************)
(* The programs a command runs as children: hooks, the signer, credential  *)
(* helpers, ssh and the pager.  Parent and child talk through pipes that    *)
(* hold Cap units and block: who reads what, in which order, and who keeps  *)
(* an end open decides whether both come to an end.                         *)
(*                                                                          *)
(* A command is a sequence of parts: a child to run, or "work", the change  *)
(* of the repository the command is for.  The child's program is a script;  *)
(* the parent's part is the Program of the child's kind.                    *)
(***************************************************************************)
EXTENDS Integers, Sequences

CONSTANTS
  Cap,        \* units a pipe holds
  Ran,        \* the commands that are run: sequences of parts
  Scripts     \* what a child may do: [steps, code]; see ChildStep

VARIABLES
  command,    \* what is left of the command, its current part first
  child,      \* the current child: [life, steps, code]
  pipes,      \* [in, inOpen, out, err]: the contents of its pipes
  parent,     \* [at, left, got, errs]: the parent's place in its program, the units it
              \* still has to write, and what it read from out and err
  worked,     \* has the repository been changed?
  outcome,    \* "running" | "done" | "refused" | "failed"
  told        \* how the parts with a child ended: a sequence of
              \* [part, verdict, code, well, started, unread]; well: the advertisement came whole

childVars == <<command, child, pipes, parent, worked, outcome, told>>

----------------------------------------------------------------------------
(* Commands.  onFail says what a hook's exit code means to the command:     *)
(* "veto" stops it, "warn" is printed, and how an error to run it at all is *)
(* taken: "warn" passes it on, "shrug" does not.                            *)

Hook(onFail, input) == [kind |-> "hook", onFail |-> onFail, input |-> input]
\* gpg reads what it signs from stdin, ssh-keygen from a file.
Signing(ssh) == [kind |-> "sign", onFail |-> "veto", input |-> IF ssh THEN 0 ELSE 1]
Verifying == [kind |-> "verify", onFail |-> "warn", input |-> 0]
Asking == [kind |-> "helper", onFail |-> "veto", input |-> 1]
Paging(n) == [kind |-> "pager", onFail |-> "shrug", input |-> n]
Ssh(requests) == [kind |-> "ssh", onFail |-> "veto", input |-> requests]
Work == [kind |-> "work", onFail |-> "veto", input |-> 0]

Unless(skipped, parts) == IF skipped THEN <<>> ELSE parts

\* commit: pre-commit and commit-msg are skipped by --no-verify, prepare-commit-msg never.
Commit(noVerify, signed) ==
  Unless(noVerify, <<Hook("veto", 0)>>) \o <<Hook("veto", 0)>> \o Unless(noVerify, <<Hook("veto", 0)>>)
    \o Unless(~signed, <<Signing(FALSE)>>) \o <<Work, Hook("warn", 0)>>
Merge == <<Hook("veto", 0), Work, Hook("shrug", 0)>>
Rebase(n) == <<Hook("veto", 0), Work, Hook("shrug", n)>>
\* push tells the hook one line for each refspec.
Push(noVerify, n) == Unless(noVerify, <<Hook("veto", n)>>) \o <<Work>>
CheckOut == <<Work, Hook("shrug", 0)>>
CollectGarbage == <<Hook("veto", 0), Work>>
VerifyTag == <<Verifying>>
Log(n) == <<Paging(n)>>
FillCredentials == <<Asking>>
\* ls-remote asks the server once, clone and fetch twice: ls-refs, then fetch.
LsRemote == <<Ssh(1)>>
Clone == <<Ssh(2), Work>>

\* What every command has in common: a check of a signature stops nothing, and after the
\* work come only hooks whose exit code is not looked at and, if they must run, get no input.
Kind == {"hook", "sign", "verify", "helper", "pager", "ssh"}
Part == [kind : Kind \cup {"work"}, onFail : {"veto", "warn", "shrug"}, input : Nat]
OnlyTells(x) == x.kind = "hook" /\ (x.onFail = "shrug" \/ (x.onFail = "warn" /\ x.input = 0))
Shaped(c) ==
  /\ c \in Seq(Part) /\ c # <<>>
  /\ \A i \in DOMAIN c : c[i].kind = "verify" => c[i].onFail = "warn"
  /\ \A i, j \in DOMAIN c : i < j /\ c[i].kind = "work" => OnlyTells(c[j])

ASSUME ChildrenAssumption == Cap \in Nat \ {0} /\ \A c \in Ran : Shaped(c)

----------------------------------------------------------------------------
(* The parent's side of each kind of child.                                 *)

Program == [hook    |-> <<"write", "close", "collect", "wait">>,
            sign    |-> <<"write", "close", "collect", "wait">>,
            verify  |-> <<"close", "collect", "wait">>,
            helper  |-> <<"write", "close", "readOut", "readErr", "wait">>,
            pager   |-> <<"write", "close", "wait">>,
            ssh     |-> <<"discover", "write", "close", "readOut", "wait", "join">>]

NoChild == [life |-> "none", steps |-> <<>>, code |-> 0]
Dry == [in |-> 0, inOpen |-> FALSE, out |-> <<>>, err |-> <<>>]
Idle == [at |-> 0, left |-> 0, got |-> <<>>, errs |-> {}]

part == Head(command)
kind == part.kind
Doing(op) ==
  outcome = "running" /\ child.life # "none" /\ Program[kind][parent.at] = op
Advance == parent.at + 1
Gone == child.life \in {"exited", "reaped"}
OutEnded == Gone /\ pipes.out = <<>>          \* end of file on the child's stdout
ErrEnded == Gone /\ pipes.err = <<>>

----------------------------------------------------------------------------
(* The parent.                                                              *)

\* Has anything come that is no packet?  Has the flush that ends the advertisement?
Garbled == "garbage" \in {parent.got[i] : i \in DOMAIN parent.got}
Advertised == "flush" \in {parent.got[i] : i \in DOMAIN parent.got}

\* The part is over with a verdict: the next part, or the end of the command.
\*   "ok"      it went well           "refused" it exited with another code
\*   "broken"  an error came up       "skipped" there was nothing to run
Verdict(v) ==
  /\ child' = NoChild /\ pipes' = Dry /\ parent' = Idle
  /\ told' = Append(told, [part |-> part, verdict |-> v, code |-> child.code, well |-> Advertised /\ ~Garbled,
                          started |-> child.life # "none", unread |-> parent.left > 0 \/ pipes.in > 0])
  /\ IF \/ v = "refused" /\ part.onFail = "veto"
        \/ v = "broken" /\ part.onFail # "shrug"
     THEN command' = <<>> /\ outcome' = IF v = "refused" THEN "refused" ELSE "failed"
     ELSE /\ command' = Tail(command)
          /\ outcome' = IF Len(command) = 1 THEN "done" ELSE "running"
  /\ UNCHANGED worked

\* A helper that gave no user and password leaves them to the terminal, if there is one.
Prompted == {"ok", "broken"}

Works ==
  /\ outcome = "running" /\ kind = "work"
  /\ worked' = TRUE /\ command' = Tail(command)
  /\ outcome' = IF Len(command) = 1 THEN "done" ELSE "running"
  /\ UNCHANGED <<child, pipes, parent, told>>

\* Nothing to run: no hooks directory, no such hook or not executable; a helper that
\* cannot be started is passed over, and so is a pager.
Absent ==
  /\ outcome = "running" /\ child.life = "none" /\ kind \in {"hook", "helper", "pager"}
  /\ \E v \in IF kind = "helper" THEN Prompted ELSE {"skipped"} : Verdict(v)

\* The program is there and cannot be started.
NoSpawn ==
  /\ outcome = "running" /\ child.life = "none" /\ kind \in {"hook", "sign", "verify", "ssh"}
  /\ Verdict("broken")

Spawn ==
  /\ outcome = "running" /\ child.life = "none" /\ kind # "work"
  /\ \E script \in Scripts[kind] : child' = [life |-> "running", steps |-> script.steps, code |-> script.code]
  /\ pipes' = [Dry EXCEPT !.inOpen = TRUE]
  /\ parent' = [Idle EXCEPT !.at = 1, !.left = IF kind = "ssh" THEN 1 ELSE part.input]
  /\ UNCHANGED <<command, worked, outcome, told>>

\* Write a unit to the child.  With nobody left to read it is an error, which the pager
\* takes for the user's having quit.
Write ==
  /\ Doing("write") /\ parent.left > 0
  /\ \/ /\ ~Gone /\ pipes.in < Cap
        /\ pipes' = [pipes EXCEPT !.in = @ + 1] /\ parent' = [parent EXCEPT !.left = @ - 1]
        /\ UNCHANGED <<command, child, worked, outcome, told>>
     \/ /\ Gone /\ kind = "pager"
        /\ parent' = [parent EXCEPT !.left = 0]
        /\ UNCHANGED <<command, child, pipes, worked, outcome, told>>
     \/ /\ Gone /\ kind # "pager"
        /\ Verdict("broken")

Written ==
  /\ Doing("write") /\ parent.left = 0
  /\ parent' = [parent EXCEPT !.at = Advance]
  /\ UNCHANGED <<command, child, pipes, worked, outcome, told>>

Close ==
  /\ Doing("close")
  /\ pipes' = [pipes EXCEPT !.inOpen = FALSE] /\ parent' = [parent EXCEPT !.at = Advance]
  /\ UNCHANGED <<command, child, worked, outcome, told>>

TakeOut ==
  /\ pipes.out # <<>>
  /\ pipes' = [pipes EXCEPT !.out = Tail(@)] /\ parent' = [parent EXCEPT !.got = Append(@, Head(pipes.out))]
  /\ UNCHANGED <<command, child, worked, outcome, told>>
TakeErr ==
  /\ pipes.err # <<>>
  /\ pipes' = [pipes EXCEPT !.err = Tail(@)] /\ parent' = [parent EXCEPT !.errs = @ \cup {Head(pipes.err)}]
  /\ UNCHANGED <<command, child, worked, outcome, told>>
GoOn == parent' = [parent EXCEPT !.at = Advance] /\ UNCHANGED <<command, child, pipes, worked, outcome, told>>

\* wait_with_output reads both at once.
Collect == Doing("collect") /\ (TakeOut \/ TakeErr \/ (OutEnded /\ ErrEnded /\ GoOn))
ReadOut == Doing("readOut") /\ (TakeOut \/ (OutEnded /\ GoOn))
ReadErr == Doing("readErr") /\ (TakeErr \/ (ErrEnded /\ GoOn))

\* ssh: a thread reads stderr from the start.
DrainErrLate ==
  /\ Doing("join") /\ kind = "ssh" /\ TakeErr
DrainErr ==
  /\ outcome = "running" /\ child.life # "none" /\ kind = "ssh" /\ TakeErr

\* ssh: read packets up to the flush that ends the advertisement.  Anything that is not a
\* packet makes the client wait for the end of stderr, the child's stdin still open; the
\* end of file makes it close stdin and wait for the child.
Discover ==
  /\ Doing("discover")
  /\ CASE Garbled   -> ErrEnded /\ Verdict("broken")
       [] Advertised /\ ~Garbled -> GoOn
       [] OTHER      -> TakeOut \/ (OutEnded /\ ErrEnded /\ Verdict("broken"))

\* gpg says on stderr what it found: a signature is good when gpg says so, ends well and
\* says nothing worse.
GoodSignature ==
  "GOODSIG" \in parent.errs /\ child.code = 0 /\ parent.errs \cap {"BADSIG", "NO_PUBKEY"} = {}

\* A child stops the command with any code but 0; one that a signal ended counts as -1.
AbortsPositive(code) == code > 0
Aborts(code) == code # 0

Wait ==
  /\ Doing("wait") /\ Gone
  /\ IF kind = "ssh"
     THEN /\ child' = [child EXCEPT !.life = "reaped"] /\ parent' = [parent EXCEPT !.at = Advance]
          /\ UNCHANGED <<command, pipes, worked, outcome, told>>
     ELSE \E v \in CASE kind = "pager" -> {"ok"}
                     [] kind = "helper" -> IF child.code = 0 /\ Len(parent.got) = 2 THEN {"ok"} ELSE Prompted
                     [] kind = "verify" -> IF GoodSignature THEN {"ok"} ELSE {"refused"}
                     [] kind \in {"hook", "sign"} ->
                          IF Aborts(child.code) THEN {"refused"}
                          ELSE IF kind = "sign" /\ parent.got = <<>> THEN {"broken"} ELSE {"ok"} : Verdict(v)

\* ssh: the answer is whole when the child ended well.  A second request finds the
\* connection consumed.
Join ==
  /\ Doing("join") /\ ErrEnded
  /\ Verdict(IF child.code = 0 /\ part.input = 1 THEN "ok" ELSE "broken")

----------------------------------------------------------------------------
(* The child, a program of someone else: a step of its script may be        *)
(*   "read"  a unit of its stdin, or see its end       "drain" all of it     *)
(*   "out", "flush", "garbage": write that to stdout                        *)
(*   "err", "GOODSIG", "BADSIG", "NO_PUBKEY": write that to stderr          *)

Answers == {"out", "flush", "garbage"}

ChildRead ==
  /\ Head(child.steps) \in {"read", "drain"}
  /\ \/ /\ pipes.in > 0
        /\ pipes' = [pipes EXCEPT !.in = @ - 1]
        /\ child' = IF Head(child.steps) = "read" THEN [child EXCEPT !.steps = Tail(@)] ELSE child
     \/ /\ pipes.in = 0 /\ ~pipes.inOpen
        /\ child' = [child EXCEPT !.steps = Tail(@)] /\ UNCHANGED pipes

ChildWrite ==
  LET what == Head(child.steps)
  IN  /\ \/ /\ what \notin Answers /\ Len(pipes.err) < Cap
            /\ pipes' = [pipes EXCEPT !.err = Append(@, what)]
         \/ /\ what \in Answers
            /\ kind = "pager" \/ Len(pipes.out) < Cap          \* the pager's stdout is the terminal
            /\ pipes' = IF kind = "pager" THEN pipes ELSE [pipes EXCEPT !.out = Append(@, what)]
      /\ child' = [child EXCEPT !.steps = Tail(@)]

ChildStep ==
  /\ outcome = "running" /\ child.life = "running"
  /\ \/ child.steps # <<>> /\ (ChildRead \/ ChildWrite)
     \/ child.steps = <<>> /\ child' = [child EXCEPT !.life = "exited"] /\ UNCHANGED pipes
  /\ UNCHANGED <<command, parent, worked, outcome, told>>

----------------------------------------------------------------------------
ChildInit ==
  /\ command \in Ran
  /\ child = NoChild /\ pipes = Dry /\ parent = Idle
  /\ worked = FALSE /\ outcome = "running" /\ told = <<>>

ParentStep ==
  \/ Works \/ Absent \/ NoSpawn \/ Spawn
  \/ Write \/ Written \/ Close \/ Collect \/ ReadOut \/ ReadErr \/ Discover \/ Wait \/ Join

ChildNext == ParentStep \/ DrainErr \/ ChildStep

ChildSpec == ChildInit /\ [][ChildNext]_childVars

\* Parent, thread and child each go on running; a child's own steps are taken to end.
ChildFairness ==
  WF_childVars(ParentStep) /\ WF_childVars(DrainErr) /\ WF_childVars(ChildStep)

----------------------------------------------------------------------------
(* Properties.                                                              *)

\* A command never works against the word of a child, nor takes a child's word for
\* something it did not say: the change is made only when every hook before it went well
\* or was not there and the signature was made, and a command stops only because a child
\* exited with another code, could not be started or left its input unread, and a report
\* after the change is lost only when the hook could not be started.
\* Nothing the pager does fails a command.
ChildrenHeeded ==
  /\ worked => \A i \in DOMAIN told : told[i].part.onFail = "veto" => told[i].verdict \in {"ok", "skipped"}
  /\ \A i \in DOMAIN told : told[i].part.kind \in {"hook", "sign"} /\ told[i].verdict = "ok" => told[i].code = 0
  /\ outcome = "refused" => ~worked /\ told[Len(told)].code # 0
  /\ outcome = "failed" =>
       LET last == told[Len(told)]
       IN  /\ last.part.kind # "pager"
           /\ last.part.kind = "hook" => ~last.started \/ last.unread
           /\ worked => ~last.started

\* The ways a command and its child wait for each other for ever: the child writes more
\* than a pipe holds before it reads an input that does not fit in one; a credential
\* helper writes more to stderr than a pipe holds; ssh sends something that is not a
\* packet and then waits for input, or waits for input before the advertisement is over.
Blocked ==
  /\ child.life = "running" /\ child.steps # <<>>
  /\ CASE Head(child.steps) \in {"read", "drain"} -> pipes.in = 0 /\ pipes.inOpen
       [] Head(child.steps) \in Answers -> Len(pipes.out) = Cap
       [] OTHER -> Len(pipes.err) = Cap
BothWrite == Blocked /\ Doing("write") /\ parent.left > 0 /\ pipes.in = Cap
HelperChokes == Blocked /\ Doing("readOut") /\ kind = "helper"
SshListens == Blocked /\ Doing("discover")

\* A command ends, whatever its children do, unless it is in one of those waits.
CommandsEnd == <>[](outcome # "running" \/ BothWrite \/ HelperChokes \/ SshListens)

=============================================================================
