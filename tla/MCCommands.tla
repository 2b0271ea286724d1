----------------------------- MODULE MCCommands -----------------------------
(***************************************************************************)
(* Instances of Commands: short globs, ignore files, settings and names    *)
(* over a few characters; children of a few steps; conversations with a    *)
(* server of any style; worktrees beside and beneath the main one.         *)
(***************************************************************************)
EXTENDS Commands

CONSTANTS w1, w2

Strings(S, k) == UNION {[1..i -> S] : i \in 0..k}

-----------------------------------------------------------------------------
(* Patterns.  Every glob of three bytes, those with several stars and those  *)
(* that are one class of up to three bytes, and every text of four.          *)

MCGlobs ==
  Strings({"a", "/", "*", "?"}, 3)
    \cup {g \in Strings({"a", "/", "*"}, 6) : Len(g) > 4 /\ Cardinality({i \in DOMAIN g : g[i] = "*"}) >= 3}
    \cup {g \in Strings({"a", "b", "[", "]", "!", "-", "\\"}, 5) : Len(g) > 3 /\ g[1] = "[" /\ Last(g) = "]"}
    \cup {g \in Strings({"*", "[", "]", "a", "/", "\\"}, 3) : {"[", "\\"} \cap Range(g) # {}}
MCSubjects == Strings({"a", "b", "/"}, 4)
MCBytes == <<"!", "*", "-", "/", "?", "[", "\\", "]", "a", "b", "x">>

MCTreeFiles == {<<"a">>, <<"b">>, <<"d", "/", "a">>, <<"d", "/", "b">>, <<"d", "/", "e", "/", "a">>}
MCTreeDirs == {<<"d">>, <<"d", "/", "e">>}
MCTracked == {<<"d", "/", "a">>}
IgnoreLines ==
  {<<"a">>, <<"!", "a">>, <<"/", "a">>, <<"d", "/">>, <<"d", "/", "*">>, <<"*">>, <<"e">>, <<"\\", "!", "a">>,
   <<"#", "a">>, <<"a", " ">>, <<"*", "*", "/", "a">>, <<"!", "d", "/", "a">>}
MCIgnores ==
  [exclude : {<<>>, <<<<"a">>>>},
   root : Strings(IgnoreLines, 1) \cup {<<<<"*">>, l>> : l \in IgnoreLines}
            \cup {<<l, <<"!", "a">>>> : l \in IgnoreLines},
   nested : {<<>>} \cup [{<<"d">>} -> Strings({<<"a">>, <<"!", "a">>, <<"*">>, <<"e", "/">>}, 1)]]
MCSpecs ==
  [kind : {"spec"}, cwd : {<<>>, <<"b">>},
   specs : Strings([body : {<<>>, <<"a">>, <<"a", "*">>}, top : BOOLEAN, exclude : BOOLEAN, glob : {FALSE},
                    literal : BOOLEAN], 2)]

-----------------------------------------------------------------------------
(* Settings.                                                               *)

MCBlobs == Strings({"cr", "lf", "x", "nul"}, 4)
MCLower == [x \in {"s", "t", "S", "k", "K", "j", "x", "y", "include"} |->
              IF x = "S" THEN "s" ELSE IF x = "K" THEN "k" ELSE x]
MCRawValues == Strings({"v", " ", "#", "quote", "\\", "n"}, 4)
MCValue == {<<"v">>, <<"w">>, <<"v", " ", "#">>, <<"quote">>}
MCKeys == {<<"s", "k">>, <<"s", "j">>, <<"s", "x", "k">>, <<"S", "k">>, <<"s", "x", "y", "k">>, <<"t", "k">>}

Plain1(sec) == Header(sec, <<>>)
Set1(name, v) == Setting(<<name>>, <<v>>)
\* A header with a comment behind it.
Odd == [kind |-> "header", sec |-> "t", sub |-> <<>>, odd |-> TRUE]
MCFiles ==
  {None, <<>>, <<Plain1("s"), Set1("k", "v")>>,
   <<Header("s", <<"x">>), Set1("k", "v"), Plain1("s"), Set1("j", "w")>>,
   <<Plain1("s"), Set1("k", "v"), Plain1("t"), Set1("k", "w"), Plain1("s"), Set1("j", "w")>>,
   <<Plain1("S"), Set1("K", "v")>>, <<Plain1("s"), Odd, Set1("k", "v")>>,
   <<Plain1("include"), Set1("k", "v"), Plain1("t")>>, <<Plain1("s"), Set1("k", "quote")>>}
Stack(options, system, global, local) ==
  [given |-> options,
   files |-> [l \in Range(Layer) |-> CASE l = "system" -> system [] l = "xdg" -> None
                                       [] l = "global" -> global [] l = "local" -> local]]
Options == <<[key |-> <<"s", "k">>, value |-> <<"v">>], [key |-> <<"S", "k">>, value |-> <<"w">>]>>
MCStacks ==
  {Stack(<<>>, None, None, local) : local \in MCFiles}
    \cup {Stack(<<>>, <<Plain1("s"), Set1("k", "w")>>, global, <<Plain1("s"), Set1("j", "v")>>) :
            global \in {None, <<Plain1("s"), Set1("k", "quote")>>, <<Plain1("s"), Set1("k", "v")>>}}
    \cup {Stack(Options, None, <<Plain1("s"), Set1("k", "w")>>, <<Plain1("s"), Set1("k", "v")>>)}

\* A chain of aliases, loops of one and of two, a shell alias, an empty one, and one that
\* hides a builtin.
MCAliases ==
  "a" :> <<"b", "x">> @@ "b" :> <<"status">> @@ "c" :> <<"c">> @@ "d" :> <<"e", "x">> @@ "e" :> <<"d">>
    @@ "f" :> <<"!">> @@ "g" :> <<>> @@ "status" :> <<"log">> @@ "h" :> <<"a">> @@ "i" :> <<"h">>
MCTyped == {<<x, "z">> : x \in DOMAIN MCAliases} \cup {<<"i">>, <<"status">>, <<"unknown">>}
MCSignatures ==
  [name : Strings({"n", "<", " "}, 2), email : Strings({"m", "<", ">"}, 2),
   offset : {0, 330, -30, -210, 5999, 6000, -6000}]

-----------------------------------------------------------------------------
(* Names: three commits, the last a merge; one id that begins with beef and  *)
(* two with dead; a branch called beef may be made.                          *)

MCParents == "c1" :> <<>> @@ "c2" :> <<"c1">> @@ "c3" :> <<"c2", "c1">>
MCHexIds == "beef" :> {"c2"} @@ "dead" :> {"c1", "c2"}
MCShort == {<<"a">>, <<"beef">>, <<"heads", "a">>}
MCFirstRefs ==
  HEAD :> To(Branch(<<"a">>)) @@ Branch(<<"a">>) :> At(CommitObject("c3"))
    @@ <<"refs", "remotes", "o", "a">> :> At(CommitObject("c2"))
    @@ <<"refs", "remotes", "o", "HEAD">> :> To(<<"refs", "remotes", "o", "a">>)
MCExprs == {E(HEAD, <<Step("ancestor", 1)>>), E(<<"o">>, <<Step("tree", 1)>>)}
MCNameTexts == Strings({"a", ".", "/", "@", "{", "-", "lock", "*", "^"}, 2)
                 \cup Strings({"a", ".", "/", "lock"}, 4)

-----------------------------------------------------------------------------
(* Children of a few steps, servers of more, and any exit code or signal.    *)

ChildrenTo(S, k, codes) == [steps : Strings(S, k), code : codes]
Servers ==
  {<<"out", "flush", "read", "out">>, <<"err", "err", "out", "flush", "drain", "err", "out", "out">>,
   <<"garbage", "read">>, <<"garbage", "drain">>, <<"garbage", "out", "out">>, <<"out">>, <<>>,
   <<"read", "flush">>, <<"out", "flush">>}
MCScripts ==
  [hook   |-> ChildrenTo({"drain", "read", "out", "err"}, 2, {0, 1, -1}),
   sign   |-> [steps : {<<"drain", "out">>, <<"drain">>, <<"err", "err", "drain", "out">>}, code : {0, 1}],
   verify |-> ChildrenTo({"GOODSIG", "BADSIG", "NO_PUBKEY", "err"}, 2, {0, 1}),
   helper |-> ChildrenTo({"drain", "out", "err"}, 4, {0, 1, -1}),
   pager  |-> ChildrenTo({"read", "drain", "out"}, 2, {0, 1, -1}),
   ssh    |-> [steps : Servers, code : {0, 1, -1}]]
MCRan ==
  {Commit(TRUE, TRUE), Commit(FALSE, FALSE), Merge, Rebase(2), Push(FALSE, 2), Push(TRUE, 1), CheckOut,
   CollectGarbage, VerifyTag, Log(3), LsRemote, Clone, FillCredentials}

-----------------------------------------------------------------------------
(* Conversations.                                                            *)

MCPartsOf ==
  [HEAD |-> <<"HEAD">>, refsheadsa |-> <<"refs", "heads", "a">>, refstagsa |-> <<"refs", "tags", "a">>,
   refstagsxa |-> <<"refs", "tags", "x-a">>]
RefRow(oid, name, symref, peeled) == [oid |-> oid, name |-> name, symref |-> symref, peeled |-> peeled]
ServerRefs ==
  <<RefRow("o1", "HEAD", "refsheadsa", ""), RefRow("o1", "refsheadsa", "", ""),
    RefRow("o2", "refstagsa", "", "o1"), RefRow("o2", "refstagsxa", "", "")>>
Askings ==
  {<<{}, {}>>, <<{<<"a">>}, {"refsheadsa", "refstagsa"}>>,
   <<{<<"heads", "a">>, <<"HEAD">>}, {"refsheadsa", "HEAD"}>>}
LsRefs(server) ==
  {[kind |-> "lsRefs", prefixes |-> px, refs |-> server, patterns |-> ask[1], listed |-> ask[2]] :
     px \in {<<>>, <<"HEAD", "refs/heads/">>}, ask \in Askings}

Change(from, to, name) == [old |-> from, new |-> to, name |-> name]
PushTalks ==
  [kind : {"push"}, pack : {<<"PACK", "1", "0">>},
   cmds : {<<Change("o1", "0", "refsheadsa")>>,
           <<Change("0", "o1", "refstagsa"), Change("o1", "o2", "refsheadsa")>>},
   caps : {<<>>, <<"ofs-delta", "atomic", "side-band-64k">>}, unpacked : BOOLEAN,
   fates : {<<>>, <<<<"ok", "refstagsa">>, <<"ng", "refsheadsa">>>>}]
PushAdverts ==
  [kind : {"advert"}, refs : {<<>>, <<<<"o1", "refsheadsa">>, <<"o2", "refstagsa">>>>},
   caps : {<<"ofs-delta">>, <<"report-status", "side-band-64k">>}]

\* Where an ssh URL may lead, the two spellings of it, and short names for them.
Targets ==
  [user : {<<>>, <<"u">>, <<"u", "@", "v">>}, host : {<<"h">>}, port : {<<>>, <<"22">>},
   path : {<<"/", "r">>, <<"/", "'", "r">>, <<"/", "a", " ", "'", "'">>, <<"/", "r", ":", "x">>,
           <<"/", "u", "@", "v">>}]
Opt(p, sep) == IF p = <<>> THEN <<>> ELSE p \o sep
Formal(g) ==
  Scheme("ssh") \o Opt(g.user, <<"@">>) \o g.host \o (IF g.port = <<>> THEN <<>> ELSE <<":">> \o g.port) \o g.path
Scp(g) == Opt(g.user, <<"@">>) \o g.host \o <<":">> \o g.path
Spellings(g) == {Formal(g)} \cup {u \in {Scp(g)} : g.port = <<>>}
Short1(key, from, to) == [key |-> key, from |-> from, base |-> to]
Shortened(url) ==
  {<<<<>>, url, FALSE>>}
    \cup {<<<<Short1("insteadOf", <<"w">>, Scheme("https") \o <<"x">>), Short1("insteadOf", <<"w", ":">>, url)>>,
            <<"w", ":">>, push>> : push \in BOOLEAN}
    \cup {<<<<Short1("insteadOf", <<"w", "/", "r">>, <<"x">>), Short1("pushInsteadOf", <<"w", "/">>, Front(url)),
             Short1("pushInsteadOf", <<"w", "/">>, <<"y">>)>>, <<"w", "/">> \o <<Last(url)>>, TRUE>>}
SshTalks ==
  UNION {{[kind |-> "ssh", rules |-> s[1], url |-> s[2], push |-> s[3],
           to |-> [user |-> g.user, host |-> g.host, port |-> g.port], path |-> g.path] :
            s \in UNION {Shortened(url) : url \in Spellings(g)}} : g \in Targets}

\* A helper may name the user and the password, one of them, or the path besides.
NoCredential == [protocol |-> <<>>, host |-> <<>>, path |-> <<>>, username |-> <<>>, password |-> <<>>]
Account(host, user) ==
  [NoCredential EXCEPT !.protocol = <<"https">>, !.host = host, !.path = <<"p">>, !.username = user]
Says(name, value) == <<name, "=">> \o value \o <<"LF">>
Helpers ==
  {<<<<>>, <<>>, Prompt>>, <<Says("username", <<"m">>), <<"m">>, Prompt>>,
   <<Says("path", <<"q">>) \o Says("password", <<"a", "=", "b">>) \o Says("username", <<"m">>),
     <<"m">>, <<"a", "=", "b">>>>,
   <<Says("password", <<"z">>), <<>>, Prompt>>}
UserOr(helper, user) == IF helper # <<>> THEN helper ELSE IF user # <<>> THEN user ELSE Prompt
CredentialTalks ==
  {[kind |-> "credential", url |-> Scheme("https") \o u[1] \o host \o <<"/", "p">>, empty |-> NoCredential,
    account |-> Account(host, u[2]), says |-> h[1] \o <<"LF">>,
    pair |-> [username |-> UserOr(h[2], u[2]), password |-> h[3]]] :
     u \in {<<<<>>, <<>>>>, <<<<"n", "@">>, <<"n">>>>, <<<<"n", ":", "pw", "@", "x", "@">>, <<"n">>>>},
     host \in {<<"h">>, <<"h", ":", "80">>}, h \in Helpers}

MCTalks ==
  LsRefs(ServerRefs) \cup LsRefs(<<>>) \cup PushTalks \cup PushAdverts \cup SshTalks \cup CredentialTalks
    \cup [kind : {"fetch"}, wants : {<<"o1">>, <<"o1", "o2">>},
          pack : {<<>>, <<"PACK", "1", "0", "0", "4", "LF">>}]
    \cup [kind : {"caps"}, format : Formats]
MCStyles == [service : BOOLEAN, chatty : BOOLEAN, chunk : {1, 3}, fatal : BOOLEAN]

-----------------------------------------------------------------------------
(* Worktrees: one beside the main one, one beneath it, and one named from    *)
(* where the command is run.                                                 *)

MCMainDir == <<"m">>
MCFirstDirs == {MCMainDir, <<"m", "s">>}
MCGivenPaths ==
  {Absolute(<<"b">>), Absolute(<<"m", "a">>), [abs |-> FALSE, path |-> <<"..", "b">>]}
MCBranches == <<"main", "side">>

-----------------------------------------------------------------------------
(* Notes: three objects, two levels of directories at two and three notes.    *)

N1 == <<1, 2, 3, 4, 5>>
N2 == <<1, 2, 3, 6, 5>>
N3 == <<1, 7, 3, 4, 5>>
NX == <<"x", "nl">>
NY == <<"y", "nl">>
MCNoteBodies == {<<>>, <<<<"x">>, <<"y", "nl">>>>}
MCNoteEdits == {<<"nl">>, <<"nl", "y">>}
MCNoteLevels == <<2, 3>>
MCNoteTargets == {N1, N2}
\* No notes, some on each level, and a tree of another program: on no level,
\* with two notes for one object and a file that is none.
MCFirstNotes ==
  {<<NoNotes, <<>>>>, <<FanoutTree(N1 :> NX), FanoutTree(N1 :> NY @@ N2 :> NX)>>,
   <<FanoutTree(N1 :> NX @@ N3 :> NY), FanoutTree(N1 :> NX)>>,
   <<FanoutTree(N1 :> NX @@ N2 :> <<>> @@ N3 :> NY), FanoutTree(N2 :> NY)>>,
   <<(<<N1>> :> NX @@ FanoutPath(N1, 1) :> NY @@ FanoutPath(N3, 2) :> NY @@ <<<<16>>>> :> NX), <<>>>>}
=============================================================================
