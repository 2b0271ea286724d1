------------------------------ MODULE Settings ------------------------------
(***************************************************************************)
(* The configuration (src/config.rs), the commands that edit its files     *)
(* (src/cli/config_cmd.rs), the aliases in it (src/cli/alias.rs), the line *)
(* endings core.autocrlf asks for, and the signature a commit carries      *)
(* (src/identity.rs).  A file is a sequence of lines, a dotted key the     *)
(* sequence of its parts, a value the characters behind the sign, among    *)
(* them "quote" for the double quote.                                      *)
(***************************************************************************)
EXTENDS Integers, Sequences, FiniteSets, SequencesExt, FiniteSetsExt

CONSTANTS
  Keys,       \* the dotted keys in use
  Lower,      \* the parts of keys and section names -> in lower case
  Value,      \* what may stand behind the sign, as sequences of characters
  None, Broken,
  Stacks,     \* what the files of the layers and -c may be at first
  MaxEdits,
  RawValues,      \* values looked at by themselves
  Blobs, TextHead,  \* contents, and how many characters decide whether one is text
  Aliases,    \* name -> its words, <<>> for an empty body, <<"!">> for a shell command
  Builtins, MaxHops,
  Typed,      \* the command lines typed
  Signatures  \* [name, email, offset], the texts sequences of characters

Layer == <<"system", "xdg", "global", "local">>

VARIABLES
  files,  \* layer -> lines, None for no file
  given,  \* the -c options: [key, value]
  edits,  \* how many commands have run
  did     \* the last command, or what else is looked at: a command line, a content,
          \* a signature

settingVars == <<files, given, edits, did>>

Header(s, sub)  == [kind |-> "header", sec |-> s, sub |-> sub, odd |-> FALSE]
Setting(n, v)   == [kind |-> "entry", name |-> n, value |-> v]

-----------------------------------------------------------------------------
(* Reading.                                                                *)

\* strip_unquoted_comment: the last place before a comment sign outside quotes.
RECURSIVE Uncommented(_, _, _)
Uncommented(v, i, quoted) ==
  IF i > Len(v) \/ (v[i] = "#" /\ ~quoted) THEN i - 1
  ELSE IF quoted /\ v[i] = "\\" /\ i < Len(v) THEN Uncommented(v, i + 2, quoted)
  ELSE Uncommented(v, i + 1, quoted # (v[i] = "quote"))

RECURSIVE Chomped(_)
Chomped(v) == IF v # <<>> /\ Last(v) = " " THEN Chomped(Front(v)) ELSE v

\* A backslash at the end of the line would continue it: not supported.
Continued(v) == LET t == Chomped(v)
                    others == {i \in DOMAIN t : t[i] # "\\"}
                IN  (Len(t) - Max(others \cup {0})) % 2 = 1

\* parse_value, from place i on.
Escapes == [c \in {"quote", "\\", "n"} |-> IF c = "n" THEN "newline" ELSE c]
RECURSIVE Unescaped(_, _, _, _)
Unescaped(v, i, quoted, out) ==
  IF i > Len(v) THEN IF quoted THEN Broken ELSE Chomped(out)
  ELSE IF v[i] = "\\"
  THEN IF i = Len(v) \/ v[i+1] \notin DOMAIN Escapes THEN Broken
       ELSE Unescaped(v, i + 2, quoted, Append(out, Escapes[v[i+1]]))
  ELSE IF v[i] = "quote" THEN Unescaped(v, i + 1, ~quoted, out)
  ELSE Unescaped(v, i + 1, quoted, Append(out, v[i]))

\* The value read behind the sign, Broken for a syntax error.
Reads(v) ==
  LET t     == Chomped(SubSeq(v, 1, Uncommented(v, 1, FALSE)))
      first == Min({i \in DOMAIN t : t[i] # " "} \cup {Len(t) + 1})
  IN  IF Continued(v) THEN Broken ELSE Unescaped(t, first, FALSE, <<>>)

Fresh == [sec |-> None, sub |-> <<>>, skip |-> FALSE, entries |-> <<>>, broken |-> FALSE]

\* One line of parse_str.  The body of an include is skipped, a name with a dot
\* in it or a line before the first header is an error.
ReadLine(s, l) ==
  CASE s.broken \/ l.kind = "comment" -> s
    [] ~s.broken /\ l.kind = "header" ->
         IF Lower[l.sec] = "include" THEN [s EXCEPT !.skip = TRUE]
         ELSE [s EXCEPT !.skip = FALSE, !.sec = Lower[l.sec], !.sub = l.sub]
    [] ~s.broken /\ l.kind = "entry" ->
         IF s.skip THEN s
         ELSE IF s.sec = None \/ Reads(l.value) = Broken \/ Len(l.name) # 1 THEN [s EXCEPT !.broken = TRUE]
         ELSE [s EXCEPT !.entries = Append(@, [sec |-> s.sec, sub |-> s.sub, key |-> Lower[l.name[1]],
                                               value |-> Reads(l.value)])]

Parse(lines) == FoldLeft(ReadLine, Fresh, lines)

\* -c: the first part is the section, the last the name, what is between the
\* subsection.
Override(o) == [sec |-> Lower[o.key[1]], sub |-> SubSeq(o.key, 2, Len(o.key) - 1),
                key |-> Lower[Last(o.key)], value |-> o.value]

\* load_layered: one layer after another; a broken one is passed over, save the local.
LayerEntries(fs, l) == IF fs[l] = None \/ Parse(fs[l]).broken THEN <<>> ELSE Parse(fs[l]).entries
Loaded(fs) == FlattenSeq([i \in DOMAIN Layer |-> LayerEntries(fs, Layer[i])])
                \o [i \in DOMAIN given |-> Override(given[i])]
LocalBroken(fs) == fs["local"] # None /\ Parse(fs["local"]).broken

\* A key asks for the last entry under its section, subsection and name.
Asks(k) == [sec |-> Lower[k[1]], sub |-> SubSeq(k, 2, Len(k) - 1), key |-> Lower[Last(k)]]
Hits(entries, q) == {i \in DOMAIN entries : entries[i].sec = q.sec /\ entries[i].sub = q.sub /\ entries[i].key = q.key}
Lookup(entries, q) == IF Hits(entries, q) = {} THEN None ELSE entries[Max(Hits(entries, q))].value

Effective(fs, k) == IF LocalBroken(fs) THEN Broken ELSE Lookup(Loaded(fs), Asks(k))

-----------------------------------------------------------------------------
(* The commands.  They look for the text of the header and of the name as  *)
(* given, and split a key at its first two dots.                           *)

Target(k) == IF Len(k) = 2 THEN [sec |-> k[1], sub |-> <<>>, name |-> <<k[2]>>]
             ELSE [sec |-> k[1], sub |-> <<k[2]>>, name |-> SubSeq(k, 3, Len(k))]

Heads(l, t)   == l.kind = "header" /\ ~l.odd /\ l.sec = t.sec /\ l.sub = t.sub
Opens(lines)  == {i \in DOMAIN lines : lines[i].kind = "header" /\ ~lines[i].odd}
Within(lines, t, i) == LET s == {h \in Opens(lines) : h < i} IN s # {} /\ Heads(lines[Max(s)], t)
Places(lines, t) == {i \in DOMAIN lines : lines[i].kind = "entry" /\ lines[i].name = t.name /\ Within(lines, t, i)}

\* Seeded fault: a new entry goes to the end of the file.
SetInAtEnd(lines, t, v) ==
  LET headed == IF \E i \in DOMAIN lines : Heads(lines[i], t) THEN lines
                ELSE Append(lines, Header(t.sec, t.sub))
  IN  IF Places(lines, t) # {} THEN [lines EXCEPT ![Min(Places(lines, t))] = Setting(t.name, v)]
      ELSE Append(headed, Setting(t.name, v))

\* set_value_in_file, --add too: over the first such line, else behind the first
\* such header, else under a new one.
SetIn(lines, t, v) ==
  LET headed == IF \E i \in DOMAIN lines : Heads(lines[i], t) THEN lines
                ELSE Append(lines, Header(t.sec, t.sub))
  IN  IF Places(lines, t) # {} THEN [lines EXCEPT ![Min(Places(lines, t))] = Setting(t.name, v)]
      ELSE InsertAt(headed, 1 + Min({i \in DOMAIN headed : Heads(headed[i], t)}), Setting(t.name, v))

\* unset_in_file drops every such line.
UnsetIn(lines, t) ==
  FlattenSeq([i \in DOMAIN lines |-> IF i \in Places(lines, t) THEN <<>> ELSE <<lines[i]>>])

Lines(l) == IF files[l] = None THEN <<>> ELSE files[l]
Did(op, l, k, v) == did' = [op |-> op, layer |-> l, key |-> k, value |-> v] /\ edits' = edits + 1

SetKey ==
  \E l \in {"global", "local"}, k \in Keys, v \in Value :
    /\ files' = [files EXCEPT ![l] = SetIn(Lines(l), Target(k), v)]
    /\ Did("set", l, k, v)

UnsetKey ==
  \E l \in {"global", "local"}, k \in Keys :
    /\ files[l] # None
    /\ files' = [files EXCEPT ![l] = UnsetIn(Lines(l), Target(k))]
    /\ Did("unset", l, k, None)

-----------------------------------------------------------------------------
(* Line endings: add stores a text file with each CR LF as LF, checkout    *)
(* writes a CR before each LF that has none.                               *)

IsText(b) == \A i \in DOMAIN b : i <= TextHead => b[i] # "nul"
Ends(b, i) == i < Len(b) /\ b[i] = "cr" /\ b[i+1] = "lf"

Normalized(b) == FlattenSeq([i \in DOMAIN b |-> IF Ends(b, i) THEN <<>> ELSE <<b[i]>>])
Converted(b)  == FlattenSeq([i \in DOMAIN b |->
                   IF b[i] = "lf" /\ ~(i > 1 /\ b[i-1] = "cr") THEN <<"cr", "lf">> ELSE <<b[i]>>])

Added(b)      == IF IsText(b) THEN Normalized(b) ELSE b
CheckedOut(b) == IF IsText(b) THEN Converted(b) ELSE b

-----------------------------------------------------------------------------
(* Signatures: "name <email> when", the seconds left out.                  *)

FormatOffset(m) == LET abs == IF m < 0 THEN 0 - m ELSE m
                   IN  [west |-> m < 0, hh |-> abs \div 60, mm |-> abs % 60]
ParseOffset(o) == IF o.west THEN 0 - (60 * o.hh + o.mm) ELSE 60 * o.hh + o.mm

Serialized(g) == [text |-> g.name \o <<" ", "<">> \o g.email \o <<">", " ", "@">>,
                  when |-> FormatOffset(g.offset)]

\* Signature::parse; @ stands for the time, after which nothing may come.
ParseSignature(line) ==
  LET t     == line.text
      open  == Max({i \in DOMAIN t : t[i] = "<"})
      close == Min({i \in open..Len(t) : t[i] = ">"})
      ends  == {i \in 1..(open - 1) : t[i] # " "}
      rest  == SelectSeq(SubSeq(t, close + 1, Len(t)), LAMBDA c : c # " ")
  IN  IF rest # <<"@">> \/ line.when.hh > 99 THEN [broken |-> TRUE]
      ELSE [name |-> IF ends = {} THEN <<>> ELSE SubSeq(t, 1, Max(ends)),
            email |-> SubSeq(t, open + 1, close - 1), offset |-> ParseOffset(line.when)]

-----------------------------------------------------------------------------
(* Aliases: the first word is replaced until it is none, MaxHops times at  *)
(* most.                                                                   *)

\* split_shell_words, from place i on: `words` are the words so far, `now` the one
\* that is open, `inside` the quote it is in.
RECURSIVE SplitFrom(_, _, _, _, _)
SplitFrom(v, i, words, now, inside) ==
  LET c == v[i]
      next == v[i + 1]
      started == IF now = None THEN <<>> ELSE now
      go(n, x, quote) == SplitFrom(v, i + n, words, started \o x, quote)
  IN  IF i > Len(v) THEN IF inside # "none" THEN Broken ELSE words \o IF now = None THEN <<>> ELSE <<now>>
      ELSE CASE inside # "none" /\ c = inside -> go(1, <<>>, "none")
             [] inside = "none" /\ c \in {"'", "quote"} -> go(1, <<>>, c)
             [] inside = "none" /\ c = " " ->
                  SplitFrom(v, i + 1, words \o IF now = None THEN <<>> ELSE <<now>>, None, "none")
             [] inside = "none" /\ c = "\\" ->
                  IF i = Len(v) THEN Broken ELSE go(2, <<next>>, "none")
             [] inside = "quote" /\ c = "\\" /\ i < Len(v) ->
                  go(2, IF next \in {"\\", "quote"} THEN <<next>> ELSE <<"\\", next>>, inside)
             [] OTHER -> go(1, <<c>>, inside)

SplitWords(body) == SplitFrom(body, 1, <<>>, None, "none")

Looking(words) == [op |-> "alias", argv |-> words, rest |-> Tail(words), seen |-> <<>>, state |-> "looking"]
IsAlias(w) == w \notin Builtins /\ w \in DOMAIN Aliases

ExpandOnce ==
  LET first == Head(did.argv)
      body == Aliases[first]
      to(state) == did' = [did EXCEPT !.state = state]
  IN  /\ did.op = "alias" /\ did.state = "looking"
      /\ IF Len(did.seen) = MaxHops THEN to("loop")
         ELSE IF ~IsAlias(first) THEN to("run")
         ELSE IF body = <<>> \/ body[1] = "!" THEN to("refused")
         ELSE did' = [did EXCEPT !.argv = body \o Tail(@), !.seen = Append(@, first)]

-----------------------------------------------------------------------------
Blob(b) == [op |-> "blob", data |-> b]

SettingInit ==
  /\ edits = 0
  /\ \/ \E s \in Stacks : files = s.files /\ given = s.given /\ did = [op |-> "none"]
     \/ /\ files = [l \in Range(Layer) |-> None] /\ given = <<>>
        /\ did \in {Blob(b) : b \in Blobs} \cup {Looking(w) : w \in Typed}
                     \cup {[op |-> "sign", of |-> g] : g \in Signatures}
                     \cup {[op |-> "value", data |-> v] : v \in RawValues}

SettingNext ==
  \/ /\ did.op \in {"none", "set", "unset"} /\ edits < MaxEdits /\ UNCHANGED given
     /\ SetKey \/ UnsetKey
  \/ ExpandOnce /\ UNCHANGED <<files, given, edits>>

-----------------------------------------------------------------------------
\* A value of which every character means itself.
Plain(v) == /\ \A i \in DOMAIN v : v[i] \notin {"quote", "\\", "#"}
            /\ v # <<>> => v[1] # " " /\ Last(v) # " "

\* A file the commands understand: headers and names in the spelling of the keys,
\* no name twice under one header, nothing broken.
Tame(lines) ==
  /\ ~Parse(lines).broken
  /\ \A i \in DOMAIN lines :
       /\ lines[i].kind = "header" => ~lines[i].odd /\ Lower[lines[i].sec] = lines[i].sec /\ lines[i].sec # "include"
       /\ lines[i].kind = "entry" => Lower[lines[i].name[1]] = lines[i].name[1]
  /\ LET e == Parse(lines).entries IN \A i \in DOMAIN e, j \in DOMAIN e :
       e[i].sec = e[j].sec /\ e[i].sub = e[j].sub /\ e[i].key = e[j].key => i = j

\* The value a key has by the layers: that of the highest layer that has one.
Layered(fs, k) ==
  LET own(l) == IF fs[l] = None \/ Parse(fs[l]).broken THEN None ELSE Lookup(Parse(fs[l]).entries, Asks(k))
      cli    == {i \in DOMAIN given : Asks(given[i].key) = Asks(k)}
      has    == {i \in DOMAIN Layer : own(Layer[i]) # None}
  IN  IF cli # {} THEN given[Max(cli)].value
      ELSE IF has # {} THEN own(Layer[Max(has)]) ELSE None

\* Setting or unsetting a key in a file the commands understand changes that key
\* and no other, in any number of edits; it takes effect unless a higher layer
\* has the key, and the file can still be read (config_cmd.rs).  A key with a dot
\* in its name as these commands split it, and a value with quotes, backslashes,
\* comment signs or blanks at its ends, are outside this: they are written as
\* they stand.
SettingsKept ==
  [][ edits' # edits =>
      LET d == did' IN
      Tame(Lines(d.layer)) /\ Len(d.key) <= 3 /\ (d.op = "set" => Plain(d.value))
        /\ Lower[d.key[1]] = d.key[1] /\ Lower[Last(d.key)] = Last(d.key) /\ ~LocalBroken(files)
      => /\ Tame(files'[d.layer])
         /\ \A k \in Keys :
              IF Asks(k) # Asks(d.key) THEN Effective(files', k) = Effective(files, k)
              ELSE /\ Lookup(Parse(files'[d.layer]).entries, Asks(k)) = d.value
                   /\ Effective(files', k) = Layered(files', k)
    ]_settingVars

\* A value that needs no quotes is read as it stands; any other as it stands within
\* quotes, a backslash before each quote and backslash - save that the blanks at
\* its end are lost all the same (config.rs parse_value).
Escaped(v) == FlattenSeq([i \in DOMAIN v |-> IF v[i] \in {"quote", "\\"} THEN <<"\\", v[i]>> ELSE <<v[i]>>])
ValuesKept ==
  did.op = "value" =>
    /\ Plain(did.data) => Reads(did.data) = did.data
    /\ Reads(<<"quote">> \o Escaped(did.data) \o <<"quote">>) = Chomped(did.data)

\* Words within quotes of either kind come back from the body of an alias as they
\* were, blanks and empty words included, and a plain one without quotes too.
WordsKept ==
  did.op = "value" =>
    LET v      == did.data
        double == <<"quote">> \o Escaped(v) \o <<"quote">>
        single == <<"'">> \o v \o <<"'">>
    IN  /\ SplitWords(double \o <<" ">> \o single) = <<v, v>>
        /\ SplitWords(double \o single) = <<v \o v>>
        /\ Plain(v) /\ " " \notin Range(v) /\ v # <<>> => SplitWords(<<" ">> \o v \o <<" ">> \o v) = <<v, v>>

\* What a checkout writes is stored as the blob it came from, if that had no CR LF.
EndingsKept == did.op = "blob" /\ (\A i \in DOMAIN did.data : ~Ends(did.data, i)) =>
                 Added(CheckedOut(did.data)) = did.data

\* A signature is read as it was written, unless the name ends with a blank, the
\* address has a bracket in it or the offset more than 99 hours.
SignatureKept ==
  did.op = "sign" =>
    LET g == did.of IN
    /\ g.name = <<>> \/ Last(g.name) # " "
    /\ \A i \in DOMAIN g.email : g.email[i] \notin {"<", ">"}
    /\ g.offset \in -5999..5999
    => ParseSignature(Serialized(g)) = g

\* What runs is no alias and has what was typed behind it; a command line is
\* refused for a loop only after MaxHops names, and those of a cycle always.
AliasesEnd ==
  did.op = "alias" =>
    /\ did.state = "run" => ~IsAlias(Head(did.argv)) /\ IsSuffix(did.rest, did.argv)
    /\ did.state = "loop" => Len(did.seen) = MaxHops /\ IsSuffix(did.rest, did.argv)
    /\ \A i \in DOMAIN did.seen, j \in DOMAIN did.seen :
         i < j /\ did.seen[i] = did.seen[j] => did.state \in {"looking", "loop"}

\* The edits of a configuration keep it (SettingsKept), and whatever else passes
\* through a conversion comes back as it was.
SettingsTruthful == SettingsKept /\ [](ValuesKept /\ WordsKept /\ EndingsKept /\ SignatureKept /\ AliasesEnd)
=============================================================================
