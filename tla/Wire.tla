-------------------------------- MODULE Wire --------------------------------
(***************************************************************************)
(* What goes over the wire between this client and a git server: pkt-lines, *)
(* the protocol-v2 capabilities, ls-refs and fetch, the v1 push, and the    *)
(* URLs that choose the transport.  The server is someone else's; it may    *)
(* answer in any of the forms the protocol allows, and the connection may   *)
(* end after any byte of its answer.                                        *)
(*                                                                          *)
(* A byte is a token: a digit of a packet's length, a word of a line, "LF", *)
(* "NUL", the number of a band, a piece of a pack.                          *)
(***************************************************************************)
EXTENDS Integers, Sequences, SequencesExt, FiniteSetsExt

CONSTANTS
  WireOids,    \* object ids
  Talks,       \* the conversations: [kind, ...], see Request and Truth
  Styles,      \* how servers write: [service, chatty, chunk, fatal], see Answer
  PartsOf,     \* for a ref's name, its parts between slashes
  NoAnswer     \* an error

VARIABLES
  talk,        \* the conversation
  style,       \* the server's way
  stage,       \* "asked", "served" or "taken"
  wire,        \* the bytes on their way: the request, then the answer
  cut,         \* did the connection end early?
  heard,       \* what the server makes of the request
  seen         \* what the client makes of the answer

wireVars == <<talk, style, stage, wire, cut, heard, seen>>

----------------------------------------------------------------------------
(* Packets.                                                                 *)

Hex == <<"0", "1", "2", "3", "4", "5", "6", "7", "8", "9", "a", "b", "c", "d", "e", "f">>
HexDigits(n) == [i \in 1..4 |-> Hex[((n \div 16 ^ (4 - i)) % 16) + 1]]
FlushPkt == HexDigits(0)
DelimPkt == HexDigits(1)
EncodePkt(payload) == HexDigits(Len(payload) + 4) \o payload
LinePkt(words) == EncodePkt(Append(words, "LF"))

NoPkts == [ok |-> FALSE, pkts |-> <<>>]
OfLength == [n \in {0, 1, 2} |-> <<"flush", "delim", "end">>[n + 1]]

\* Read packets to the end of the bytes; the end inside a packet is an error, and so is a
\* length that is none.
ReadPkts(b) ==
  LET read[i \in 1..(Len(b) + 1)] ==
        IF i > Len(b) THEN [ok |-> TRUE, pkts |-> <<>>]
        ELSE IF i + 3 > Len(b) \/ \E j \in i..(i + 3) : b[j] \notin Range(Hex) THEN NoPkts
        ELSE LET digit(j) == (CHOOSE d \in 1..16 : Hex[d] = b[j]) - 1
                 n == ((digit(i) * 16 + digit(i + 1)) * 16 + digit(i + 2)) * 16 + digit(i + 3)
                 next == IF n < 4 THEN i + 4 ELSE i + n
                 pkt == IF n < 4 THEN [type |-> OfLength[n], data |-> <<>>]
                        ELSE [type |-> "data", data |-> SubSeq(b, i + 4, next - 1)]
             IN  IF n = 3 \/ next > Len(b) + 1 THEN NoPkts
                 ELSE LET rest == read[next]
                      IN  IF rest.ok THEN [ok |-> TRUE, pkts |-> <<pkt>> \o rest.pkts] ELSE NoPkts
  IN  read[1]

StripLf(d) == IF d # <<>> /\ Last(d) = "LF" THEN Front(d) ELSE d

\* The data of the packets before the first flush, empty lines left out.
LinesOf(pkts) ==
  LET ends == {i \in DOMAIN pkts : pkts[i].type = "flush"}
      upTo == IF ends = {} THEN pkts ELSE SubSeq(pkts, 1, Min(ends) - 1)
      data == SelectSeq(upTo, LAMBDA p : p.type = "data" /\ StripLf(p.data) # <<>>)
  IN  [i \in DOMAIN data |-> StripLf(data[i].data)]

\* Over HTTP an advertisement may begin with a line naming the service and a flush.
AfterService(pkts) ==
  IF pkts = <<>> \/ pkts[1].type # "data" \/ pkts[1].data = <<>> THEN pkts
  ELSE IF pkts[1].data[1] # "# service=" THEN pkts
  ELSE LET ends == {i \in DOMAIN pkts : pkts[i].type = "flush"}
       IN  IF ends = {} THEN <<>> ELSE SubSeq(pkts, Min(ends) + 1, Len(pkts))

----------------------------------------------------------------------------
(* Protocol v2.                                                             *)

Formats == {"sha1", "sha256"}

\* The commands a server has and its object format; a line is "key" or "key = values".
Capabilities(pkts) ==
  LET rest == AfterService(pkts)
      lines == LinesOf(rest)
      format == {i \in DOMAIN lines : Len(lines[i]) > 2 /\ lines[i][1] = "object-format" /\ lines[i][2] = "="}
  IN  IF rest = <<>> \/ lines = <<>> THEN NoAnswer
      ELSE IF rest[1].type # "data" \/ StripLf(rest[1].data) # <<"version", "2">> THEN NoAnswer
      ELSE IF \E i \in format : lines[i][3] \notin Formats THEN NoAnswer
      ELSE [commands |-> {Head(lines[i]) : i \in 2..Len(lines)} \ {"agent", "object-format"},
            format |-> IF format = {} THEN "sha1" ELSE lines[Max(format)][3]]

LsRefsRequest(prefixes) ==
  LinePkt(<<"command=", "ls-refs">>) \o DelimPkt \o LinePkt(<<"peel">>) \o LinePkt(<<"symrefs">>)
    \o FlattenSeq([i \in DOMAIN prefixes |-> LinePkt(<<"ref-prefix", prefixes[i]>>)]) \o FlushPkt

\* A line of the answer: the id, the name, and attributes by name, others passed over.
RefLine(words) ==
  LET attr(a) == LET S == {i \in 3..Len(words) - 1 : words[i] = a} IN IF S = {} THEN "" ELSE words[Max(S) + 1]
  IN  [oid |-> words[1], name |-> words[2], symref |-> attr("symref-target:"), peeled |-> attr("peeled:")]
LsRefsAnswer(pkts) ==
  LET lines == LinesOf(pkts)
  IN  IF \E i \in DOMAIN lines : Len(lines[i]) < 2 \/ lines[i][1] \notin WireOids THEN NoAnswer
      ELSE [i \in DOMAIN lines |-> RefLine(lines[i])]

FetchRequest(wants) ==
  LinePkt(<<"command=", "fetch">>) \o DelimPkt
    \o FlattenSeq([i \in 1..3 |-> LinePkt(<<(<<"thin-pack", "ofs-delta", "no-progress">>)[i]>>)])
    \o FlattenSeq([i \in DOMAIN wants |-> LinePkt(<<"want", wants[i]>>)])
    \o LinePkt(<<"done">>) \o FlushPkt

Sections == {<<"acknowledgments">>, <<"shallow-info">>, <<"wanted-refs">>, <<"packfile-uris">>, <<"packfile">>}

\* Walk the sections of the answer and put the first band of the pack's together.
FetchAnswer(pkts) ==
  LET step(s, p) ==
        CASE s.over -> s
          [] p.type = "end" -> [s EXCEPT !.over = TRUE]
          [] p.type \in {"flush", "delim"} -> [s EXCEPT !.in = FALSE]
          [] StripLf(p.data) \in Sections ->
               LET it == StripLf(p.data) = <<"packfile">> IN [s EXCEPT !.in = it, !.saw = @ \/ it]
          [] ~s.in -> s
          [] p.data # <<>> /\ p.data[1] = "1" -> [s EXCEPT !.pack = @ \o Tail(p.data)]
          [] p.data # <<>> /\ p.data[1] = "2" -> s
          [] OTHER -> [s EXCEPT !.over = TRUE, !.bad = TRUE]
      end == FoldLeft(step, [in |-> FALSE, saw |-> FALSE, bad |-> FALSE, over |-> FALSE, pack |-> <<>>], pkts)
  IN  IF end.bad \/ ~end.saw THEN NoAnswer ELSE end.pack

----------------------------------------------------------------------------
(* The push, protocol v1.                                                   *)

Zero == "0"
SplitAt(s, x) == LET S == {i \in DOMAIN s : s[i] = x} IN IF S = {} THEN 0 ELSE Min(S)

\* The refs and capabilities a server tells before a push.
PushAdvert(pkts) ==
  LET rest == AfterService(pkts)
      bare == [refs |-> <<>>, caps |-> <<>>]
      first == StripLf(rest[1].data)
      nul == SplitAt(first, "NUL")
      more == Tail(LinesOf(rest))
      refs == IF first[2] = "capabilities^{}" THEN more ELSE <<SubSeq(first, 1, nul - 1)>> \o more
  IN  IF pkts = <<>> \/ pkts[1].type # "data" \/ \A i \in DOMAIN pkts : rest = <<>> /\ pkts[i].type # "flush"
        THEN NoAnswer
      ELSE IF rest = <<>> \/ rest[1].type = "flush" THEN bare
      ELSE IF rest[1].type # "data" \/ nul < 3 \/ \E i \in DOMAIN refs : Len(refs[i]) < 2 \/ refs[i][1] \notin WireOids
        THEN NoAnswer
      ELSE [refs |-> [i \in DOMAIN refs |-> <<refs[i][1], refs[i][2]>>],
            caps |-> SubSeq(first, nul + 1, Len(first))]

Negotiated(caps) ==
  <<"report-status">> \o SelectSeq(<<"side-band-64k", "ofs-delta">>, LAMBDA c : c \in Range(caps)) \o <<"agent">>

NeedsPack(cmds) == \E i \in DOMAIN cmds : cmds[i].new # Zero

\* The commands, the capabilities behind the first, and the pack as it is.
PushRequest(cmds, pack, caps) ==
  FlattenSeq([i \in DOMAIN cmds |->
     LinePkt(<<cmds[i].old, cmds[i].new, cmds[i].name>> \o IF i = 1 THEN <<"NUL">> \o caps ELSE <<>>)])
    \o FlushPkt \o pack

Bands == {"1", "2", "3"}

\* A report is taken to be in bands when every packet with data begins with one.
InBands(pkts) ==
  LET data == {i \in DOMAIN pkts : pkts[i].type = "data"}
  IN  data # {} /\ \A i \in data : pkts[i].data # <<>> /\ pkts[i].data[1] \in Bands
\* A bug: every band counts as an own stream of packets.
DemuxedEach(pkts) ==
  IF ~InBands(pkts) THEN [ok |-> TRUE, pkts |-> pkts]
  ELSE LET read == [i \in DOMAIN pkts |-> IF pkts[i].data # <<>> /\ pkts[i].data[1] = "1" THEN ReadPkts(Tail(pkts[i].data)) ELSE ReadPkts(<<>>)]
       IN  [ok |-> \A i \in DOMAIN pkts : read[i].ok, pkts |-> FlattenSeq([i \in DOMAIN pkts |-> read[i].pkts])]
Demuxed(pkts) ==
  IF ~InBands(pkts) THEN [ok |-> TRUE, pkts |-> pkts]
  ELSE IF \E i \in DOMAIN pkts : pkts[i].data # <<>> /\ pkts[i].data[1] = "3" THEN NoPkts
  ELSE ReadPkts(FlattenSeq([i \in DOMAIN pkts |->
         IF pkts[i].data # <<>> /\ pkts[i].data[1] = "1" THEN Tail(pkts[i].data) ELSE <<>>]))

\* What became of the pack and of each ref the report names.
Report(pkts) ==
  LET inner == Demuxed(pkts)
      lines == LinesOf(inner.pkts)
      said == SelectSeq(Tail(lines), LAMBDA l : l[1] # "option")
  IN  IF ~inner.ok \/ lines = <<>> THEN NoAnswer
      ELSE IF lines[1][1] # "unpack" \/ Len(lines[1]) < 2 THEN NoAnswer
      ELSE IF \E i \in DOMAIN said : \/ said[i][1] \notin {"ok", "ng"} \/ Len(said[i]) < 2
                                     \/ said[i][1] = "ng" /\ Len(said[i]) < 3 THEN NoAnswer
      ELSE [unpacked |-> lines[1] = <<"unpack", "ok">>,
            refs |-> [i \in DOMAIN said |-> <<said[i][1], said[i][2]>>]]

----------------------------------------------------------------------------
(* URLs.  A URL is a sequence of characters; the credential of one, and the *)
(* command line ssh is given.                                               *)

Scheme(name) == <<name, ":", "/", "/">>

\* The longest prefix a rule gives, the first among equals; a push asks pushInsteadOf first.
Applying(rules, key, url) == {i \in DOMAIN rules : rules[i].key = key /\ IsPrefix(rules[i].from, url)}
BestRule(rules, S) ==
  LET size(i) == Len(rules[i].from) IN Min({i \in S : \A j \in S : size(j) <= size(i)})
RewrittenUrl(rules, url, push) ==
  LET own == IF push THEN Applying(rules, "pushInsteadOf", url) ELSE {}
      S == IF own # {} THEN own ELSE Applying(rules, "insteadOf", url)
      rule == rules[BestRule(rules, S)]
  IN  IF S = {} THEN url ELSE rule.base \o SubSeq(url, Len(rule.from) + 1, Len(url))

Before(s, x) == IF SplitAt(s, x) = 0 THEN s ELSE SubSeq(s, 1, SplitAt(s, x) - 1)
LastAt(s, x) == LET S == {i \in DOMAIN s : s[i] = x} IN IF S = {} THEN 0 ELSE Max(S)

IsSshUrl(url) ==
  \/ IsPrefix(Scheme("ssh"), url)
  \/ /\ \A name \in {"http", "https", "git", "file", "ftp"} : ~IsPrefix(Scheme(name), url)
     /\ SplitAt(url, ":") \in 2..(Len(url) - 1)
     /\ "/" \notin Range(Before(url, ":"))

\* user@host:port or user@host; the last @ ends the user.
Authority(s, withPort) ==
  LET at == LastAt(s, "@")
      rest == SubSeq(s, at + 1, Len(s))
      colon == IF withPort THEN LastAt(rest, ":") ELSE 0
  IN  [user |-> IF at < 2 THEN <<>> ELSE SubSeq(s, 1, at - 1),
       host |-> IF colon = 0 THEN rest ELSE SubSeq(rest, 1, colon - 1),
       port |-> IF colon = 0 THEN <<>> ELSE SubSeq(rest, colon + 1, Len(rest))]

ParseSshUrl(url) ==
  LET formal == IsPrefix(Scheme("ssh"), url)
      rest == IF formal THEN SubSeq(url, 5, Len(url)) ELSE url
      authority == Before(rest, IF formal THEN "/" ELSE ":")
      path == SubSeq(rest, Len(authority) + IF formal THEN 1 ELSE 2, Len(rest))
  IN  IF authority = <<>> \/ (~formal /\ (path = <<>> \/ "/" \in Range(authority))) THEN NoAnswer
      ELSE [to |-> Authority(authority, formal), path |-> path]

Transport(url) ==
  CASE \E name \in {"git", "ftp", "ftps", "rsync"} : IsPrefix(Scheme(name), url) -> "refused"
    [] IsPrefix(Scheme("https"), url) /\ Len(url) > 4 -> "https"
    [] IsPrefix(Scheme("http"), url) -> "refused"
    [] IsSshUrl(url) /\ ParseSshUrl(url) # NoAnswer -> "ssh"
    [] OTHER -> "refused"

\* The path in single quotes, every quote in it as '\''.
ShellQuote(path) ==
  <<"'">> \o FlattenSeq([i \in DOMAIN path |-> IF path[i] = "'" THEN <<"'", "\\", "'", "'">> ELSE <<path[i]>>]) \o <<"'">>
SshCommand(url) ==
  LET u == ParseSshUrl(url)
  IN  [to |-> u.to, run |-> <<"git-upload-pack", " ">> \o ShellQuote(u.path)]

\* What is asked of a credential helper, and the answers of the helpers in turn.
CredentialOf(url) ==
  LET rest == SubSeq(url, 5, Len(url))
      authority == Before(rest, "/")
      at == LastAt(authority, "@")
      path == SelectSeq(SubSeq(rest, Len(authority) + 1, Len(rest)), LAMBDA c : c # "/")
  IN  [protocol |-> <<url[1]>>, host |-> SubSeq(authority, at + 1, Len(authority)), path |-> path,
       username |-> IF at = 0 THEN <<>> ELSE Before(SubSeq(authority, 1, at - 1), ":"), password |-> <<>>]
EncodeCredential(c) ==
  FlattenSeq([i \in 1..4 |-> LET k == <<"protocol", "host", "path", "username">>[i]
                             IN  IF c[k] = <<>> THEN <<>> ELSE <<k, "=">> \o c[k] \o <<"LF">>]) \o <<"LF">>
CredentialLines(b) ==
  LET lines == FoldLeft(LAMBDA acc, c : IF c = "LF" THEN Append(acc, <<>>) ELSE [acc EXCEPT ![Len(acc)] = Append(@, c)],
                        <<<<>>>>, b)
      blank == Min({i \in DOMAIN lines : lines[i] = <<>>})
  IN  SelectSeq(SubSeq(lines, 1, blank - 1), LAMBDA l : "=" \in Range(l))
MergeCredential(c, b) ==
  FoldLeft(LAMBDA acc, l : IF l[1] \in DOMAIN acc THEN [acc EXCEPT ![l[1]] = SubSeq(l, 3, Len(l))] ELSE acc,
           c, CredentialLines(b))

\* The helper's pair; otherwise its user name, and the user is prompted for what is missing.
Prompt == <<"typed">>
Filled(c, b) ==
  LET own == MergeCredential([c EXCEPT !.username = <<>>], b)
      all == MergeCredential(c, b)
  IN  IF own.username # <<>> /\ own.password # <<>> THEN [username |-> own.username, password |-> own.password]
      ELSE [username |-> IF all.username # <<>> THEN all.username ELSE Prompt, password |-> Prompt]

\* ls-remote shows the refs whose name is a pattern or ends with one behind a slash.
Listed(refs, patterns) ==
  SelectSeq(refs, LAMBDA r : patterns = {} \/ \E p \in patterns : IsSuffix(p, PartsOf[r.name]))

----------------------------------------------------------------------------
(* The other side: what it makes of a request, and what it answers.         *)

\* A request is the flush that ends it and what lies before; a pack follows it.
UpToFlush(b) == Min({n \in DOMAIN b : LET r == ReadPkts(SubSeq(b, 1, n)) IN r.ok /\ Last(r.pkts).type = "flush"})
Arguments(b, word) ==
  LET lines == SelectSeq(LinesOf(ReadPkts(b).pkts), LAMBDA l : l[1] = word) IN [i \in DOMAIN lines |-> lines[i][2]]
ShellWord(b) ==
  LET step(s, c) == CASE s.after = "\\" -> [s EXCEPT !.word = Append(@, c), !.after = ""]
                      [] c = "'" -> [s EXCEPT !.quoted = ~@]
                      [] ~s.quoted /\ c = "\\" -> [s EXCEPT !.after = c]
                      [] OTHER -> [s EXCEPT !.word = Append(@, c)]
  IN  FoldLeft(step, [word |-> <<>>, quoted |-> FALSE, after |-> ""], b)

HeardBy(t, b) ==
  CASE t.kind = "lsRefs" -> Arguments(b, "ref-prefix")
    [] t.kind = "fetch" -> Arguments(b, "want")
    [] t.kind = "push" ->
         LET n == UpToFlush(b)
             lines == LinesOf(ReadPkts(SubSeq(b, 1, n)).pkts)
         IN  [cmds |-> [i \in DOMAIN lines |-> [old |-> lines[i][1], new |-> lines[i][2], name |-> lines[i][3]]],
              pack |-> SubSeq(b, n + 1, Len(b))]
    [] t.kind = "ssh" -> LET s == ShellWord(SubSeq(b.run, 3, Len(b.run))) IN [to |-> b.to, path |-> s.word]
    [] t.kind = "credential" -> MergeCredential(t.empty, b)
    [] OTHER -> b

InBand(n, b) == EncodePkt(<<n>> \o b)
Pieces(b, k) == [i \in 1..((Len(b) + k - 1) \div k) |-> SubSeq(b, (i - 1) * k + 1, Min({i * k, Len(b)}))]
Banded(b, s) ==
  LET said == [i \in DOMAIN Pieces(b, s.chunk) |-> InBand("1", Pieces(b, s.chunk)[i])]
  IN  (IF s.chatty THEN <<InBand("2", <<"counting">>)>> ELSE <<>>) \o said
        \o IF s.fatal THEN <<InBand("3", <<"disk full">>)>> ELSE <<>>
Service(s) == IF s.service THEN <<LinePkt(<<"# service=", "name">>), FlushPkt>> ELSE <<>>
RefWords(r, s) ==
  <<r.oid, r.name>> \o (IF r.symref # "" THEN <<"symref-target:", r.symref>> ELSE <<>>)
    \o (IF s.chatty THEN <<"unborn:", "no">> ELSE <<>>) \o IF r.peeled # "" THEN <<"peeled:", r.peeled>> ELSE <<>>
ReportLines(t, s) ==
  <<LinePkt(IF t.unpacked THEN <<"unpack", "ok">> ELSE <<"unpack", "full">>)>>
    \o [i \in DOMAIN t.fates |-> LinePkt(t.fates[i] \o IF t.fates[i][1] = "ng" THEN <<"stale">> ELSE <<>>)]
    \o (IF s.chatty THEN <<LinePkt(<<"option", "refname">>)>> ELSE <<>>) \o <<FlushPkt>>

\* The packets of the answer.
Answer(t, s) ==
  CASE t.kind = "caps" ->
         Service(s) \o <<LinePkt(<<"version", "2">>), LinePkt(<<"agent", "=", "git">>), LinePkt(<<"ls-refs", "=", "unborn">>),
           LinePkt(<<"fetch">>), LinePkt(<<"object-format", "=", t.format>>), FlushPkt>>
    [] t.kind = "lsRefs" -> [i \in DOMAIN t.refs |-> LinePkt(RefWords(t.refs[i], s))] \o <<FlushPkt>>
    [] t.kind = "fetch" ->
         (IF s.chatty THEN <<LinePkt(<<"acknowledgments">>), LinePkt(<<"NAK">>), DelimPkt>> ELSE <<>>)
           \o <<LinePkt(<<"packfile">>)>> \o Banded(t.pack, s) \o <<FlushPkt>>
    [] t.kind = "advert" ->
         Service(s) \o (IF t.refs = <<>> THEN <<LinePkt(<<Zero, "capabilities^{}", "NUL">> \o t.caps)>>
                        ELSE [i \in DOMAIN t.refs |-> LinePkt(t.refs[i] \o IF i = 1 THEN <<"NUL">> \o t.caps ELSE <<>>)])
           \o <<FlushPkt>>
    [] t.kind = "push" ->
         IF "side-band-64k" \in Range(t.caps) THEN Banded(FlattenSeq(ReportLines(t, s)), s) \o <<FlushPkt>> ELSE ReportLines(t, s)
    [] t.kind = "credential" -> <<t.says>>
    [] OTHER -> <<>>

----------------------------------------------------------------------------
(* A conversation.                                                          *)

Request(t) ==
  CASE t.kind = "lsRefs" -> LsRefsRequest(t.prefixes)
    [] t.kind = "fetch" -> FetchRequest(t.wants)
    [] t.kind = "push" -> PushRequest(t.cmds, IF NeedsPack(t.cmds) THEN t.pack ELSE <<>>, Negotiated(t.caps))
    [] t.kind = "ssh" -> LET url == RewrittenUrl(t.rules, t.url, t.push)
                         IN  IF Transport(url) = "ssh" THEN SshCommand(url) ELSE NoAnswer
    [] t.kind = "credential" -> EncodeCredential(CredentialOf(t.url))
    [] OTHER -> <<>>

\* What the client makes of the bytes that came.
Made(t, b) ==
  LET r == ReadPkts(b)
  IN  CASE t.kind = "credential" -> Filled(CredentialOf(t.url), b)
        [] t.kind = "ssh" -> <<>>
        [] ~r.ok -> NoAnswer
        [] t.kind = "caps" -> Capabilities(r.pkts)
        [] t.kind = "lsRefs" -> LET refs == LsRefsAnswer(r.pkts) IN IF refs = NoAnswer THEN refs ELSE Listed(refs, t.patterns)
        [] t.kind = "fetch" -> FetchAnswer(r.pkts)
        [] t.kind = "advert" -> PushAdvert(r.pkts)
        [] t.kind = "push" -> Report(r.pkts)

WireInit ==
  /\ talk \in Talks /\ style \in Styles /\ stage = "asked" /\ cut = FALSE
  /\ wire = Request(talk) /\ heard = NoAnswer /\ seen = NoAnswer

Serve ==
  /\ stage = "asked" /\ wire # NoAnswer
  /\ heard' = HeardBy(talk, wire) /\ wire' = FlattenSeq(Answer(talk, style))
  /\ stage' = "served" /\ UNCHANGED <<talk, style, cut, seen>>

\* The connection ends early; a helper's answer is read from a pipe to its end.
Lose ==
  /\ stage = "served" /\ ~cut /\ talk.kind # "credential"
  /\ \E n \in 0..(Len(wire) - 1) : wire' = SubSeq(wire, 1, n)
  /\ cut' = TRUE /\ UNCHANGED <<talk, style, stage, heard, seen>>

Take ==
  /\ stage = "served" /\ seen' = Made(talk, wire)
  /\ stage' = "taken" /\ UNCHANGED <<talk, style, wire, cut, heard>>

WireNext == Serve \/ Lose \/ Take

----------------------------------------------------------------------------
(* What holds.                                                              *)

Said(t) ==
  CASE t.kind = "lsRefs" -> t.prefixes
    [] t.kind = "fetch" -> t.wants
    [] t.kind = "push" -> [cmds |-> t.cmds, pack |-> IF NeedsPack(t.cmds) THEN t.pack ELSE <<>>]
    [] t.kind = "ssh" -> [to |-> t.to, path |-> t.path]
    [] t.kind = "credential" -> t.account
    [] OTHER -> <<>>

Truth(t) ==
  CASE t.kind = "caps" -> [commands |-> {"ls-refs", "fetch"}, format |-> t.format]
    [] t.kind = "lsRefs" -> SelectSeq(t.refs, LAMBDA r : t.patterns = {} \/ r.name \in t.listed)
    [] t.kind = "fetch" -> t.pack
    [] t.kind = "advert" -> [refs |-> t.refs, caps |-> t.caps]
    [] t.kind = "push" -> [unpacked |-> t.unpacked, refs |-> t.fates]
    [] t.kind = "credential" -> t.pair
    [] OTHER -> <<>>

Refused(t, s) == s.fatal /\ (t.kind = "fetch" \/ (t.kind = "push" /\ "side-band-64k" \in Range(t.caps)))

\* Did the connection end between two packets?
BetweenPackets ==
  LET sent == Answer(talk, style) IN \E k \in 0..Len(sent) : Len(wire) = Len(FlattenSeq(SubSeq(sent, 1, k)))

\* What a shortened answer may be taken for: part of the truth, never something else.
PartOf(t, got) ==
  LET whole == Truth(t)
  IN  CASE t.kind = "caps" -> got.commands \subseteq whole.commands /\ got.format \in {whole.format, "sha1"}
        [] t.kind \in {"lsRefs", "fetch"} -> IsPrefix(got, whole)
        [] t.kind = "advert" -> IsPrefix(got.refs, whole.refs) /\ got.caps \in {whole.caps, <<>>}
        [] t.kind = "push" -> got.unpacked = whole.unpacked /\ IsPrefix(got.refs, whole.refs)

\* A server understands what was asked of it, to the letter, however a URL is spelt or a path
\* quoted; and a client understands what was answered, whatever form the server gives it: bands
\* of any length, progress between them, sections and attributes it does not know.  When the
\* connection ends inside a packet, or the server says that it failed, the answer is an error;
\* when it ends between two, an error or part of the answer (pkt_line.rs, protocol_v2.rs,
\* send_pack.rs, ssh.rs, credential.rs).
WireTruthful ==
  /\ stage # "asked" => heard = Said(talk)
  /\ stage = "asked" => wire # NoAnswer
  /\ stage = "taken" =>
       IF cut THEN seen = NoAnswer \/ (BetweenPackets /\ PartOf(talk, seen))
       ELSE seen = IF Refused(talk, style) THEN NoAnswer ELSE Truth(talk)
=============================================================================
