------------------------------- MODULE Notes --------------------------------
(***************************************************************************)
(* Notes (src/notes.rs, src/cli/notes.rs): a ref to a chain of commits     *)
(* whose trees map objects to texts, by the digits of their ids and with   *)
(* more levels of directories the more notes there are.  A command reads   *)
(* the notes, changes them in memory, perhaps in an editor, and writes     *)
(* them back while others do the same, pack the refs or lose objects.      *)
(* A tree is the function from its paths to the texts of its blobs.        *)
(***************************************************************************)
EXTENDS Naturals, Sequences, FiniteSets, SequencesExt, FiniteSetsExt, Functions

CONSTANTS
  NoteProc,     \* the processes
  IdLength,     \* the digits of an id
  NoteLevels,   \* the numbers of notes from which on there is another level (256, 65536)
  NoteTargets,  \* the ids of the objects commands name
  NoteBodies,   \* what is given with -m, message by message
  NoteEdits,    \* what comes out of the editor
  FirstNotes,   \* the trees of the notes ref and of the other ref at first: <<mine, theirs>>
  MaxNoteRuns,  \* the number of commands
  NoNotes       \* no tree, no command

VARIABLES
  noteLog,    \* the notes commits: [tree, parent]
  noteTip,    \* the notes ref: the number of a commit, 0 for none
  otherNotes, \* the notes of the ref that is merged
  noteLoose,  \* has the ref a loose file?
  missing,    \* the objects that are there no longer
  noteRuns,   \* process -> its command, the tip it read and the notes it will write
  noteCount   \* the number of commands run

noteVars == <<noteLog, noteTip, otherNotes, noteLoose, missing, noteRuns, noteCount>>

-----------------------------------------------------------------------------
(* Trees of notes.                                                         *)

Digits == 0..15
\* A tree read, whoever wrote it: directories of two digits are levels, the rest
\* of a path is the rest of an id, and whatever else is there is passed over.  Of
\* two notes for one object the one nearer to the root is read last.
NotePath(p) == /\ \A i \in 1..Len(p) - 1 : Len(p[i]) = 2
               /\ Len(FlattenSeq(p)) = IdLength /\ Range(FlattenSeq(p)) \subseteq Digits
NotesOf(tree) ==
  LET paths == {p \in DOMAIN tree : NotePath(p)}
      of(id) == {p \in paths : FlattenSeq(p) = id}
  IN  [id \in {FlattenSeq(p) : p \in paths} |->
         tree[CHOOSE p \in of(id) : \A q \in of(id) : Len(p) <= Len(q)]]

FanoutDepth(n) == Cardinality({l \in Range(NoteLevels) : l <= n})
FanoutPath(id, depth) ==
  [i \in 1..depth |-> SubSeq(id, 2 * i - 1, 2 * i)] \o <<SubSeq(id, 2 * depth + 1, Len(id))>>
FanoutTree(notes) ==
  LET depth == FanoutDepth(Cardinality(DOMAIN notes))
  IN  [p \in {FanoutPath(id, depth) : id \in DOMAIN notes} |-> notes[FlattenSeq(p)]]

NotesAt(tip) == IF tip = 0 THEN <<>> ELSE NotesOf(noteLog[tip].tree)

-----------------------------------------------------------------------------
(* Texts, as sequences in which nl ends a line.                            *)

EndLine(t) == IF t # <<>> /\ Last(t) # "nl" THEN Append(t, "nl") ELSE t
MessageBody(messages) ==
  IF messages = <<>> THEN <<>>
  ELSE FoldLeft(LAMBDA t, m : t \o <<"nl", "nl">> \o m, Head(messages), Tail(messages))
Joined(t, more) == EndLine(t) \o <<"nl">> \o more
Blank(t) == Range(t) \subseteq {"nl"}

-----------------------------------------------------------------------------
(* The commands: what the notes they read become, NoNotes if they write     *)
(* nothing.                                                                *)

NoteCommands ==
  [kind : {"add"}, at : NoteTargets, body : NoteBodies, force : BOOLEAN, empty : BOOLEAN]
    \cup [kind : {"append"}, at : NoteTargets, body : NoteBodies, empty : BOOLEAN]
    \cup [kind : {"copy"}, from : NoteTargets, at : NoteTargets, force : BOOLEAN]
    \cup [kind : {"remove"}, of : SUBSET NoteTargets \ {{}}]
    \cup [kind : {"edit"}, at : NoteTargets, text : NoteEdits]
    \cup [kind : {"prune"}]
    \cup [kind : {"merge"}, strategy : {"union", "ours", "theirs"}]

Put(notes, id, text) == (id :> text) @@ notes
Dropped(notes, ids) == [id \in DOMAIN notes \ ids |-> notes[id]]

NoteAdded(c, notes) ==
  LET body == MessageBody(c.body) IN
  IF (c.at \in DOMAIN notes /\ ~c.force) \/ (body = <<>> /\ ~c.empty) THEN NoNotes
  ELSE Put(notes, c.at, EndLine(body))
Appended(c, notes) ==
  LET body == MessageBody(c.body) IN
  IF body = <<>> /\ ~c.empty THEN NoNotes
  ELSE Put(notes, c.at, EndLine(IF c.at \in DOMAIN notes /\ notes[c.at] # <<>>
                                THEN Joined(notes[c.at], body) ELSE body))
Copied(c, notes) ==
  IF c.from \notin DOMAIN notes \/ (c.at \in DOMAIN notes /\ ~c.force) THEN NoNotes
  ELSE Put(notes, c.at, notes[c.from])
Edited(c, notes) ==
  IF ~Blank(c.text) THEN Put(notes, c.at, EndLine(c.text))
  ELSE IF c.at \in DOMAIN notes THEN Dropped(notes, {c.at}) ELSE NoNotes
Removed(ids, notes) ==
  IF ids \cap DOMAIN notes = {} THEN NoNotes ELSE Dropped(notes, ids)
United(strategy, mine, theirs) ==
  [id \in DOMAIN mine \cup DOMAIN theirs |->
     IF id \notin DOMAIN mine THEN theirs[id]
     ELSE IF id \notin DOMAIN theirs \/ strategy = "ours" THEN mine[id]
     ELSE IF strategy = "theirs" THEN theirs[id]
     ELSE IF mine[id] = theirs[id] THEN mine[id] ELSE Joined(mine[id], theirs[id])]

Outcome(c, notes) ==
  CASE c.kind = "add" -> NoteAdded(c, notes)
    [] c.kind = "append" -> Appended(c, notes)
    [] c.kind = "copy" -> Copied(c, notes)
    [] c.kind = "remove" -> Removed(c.of, notes)
    [] c.kind = "edit" -> Edited(c, notes)
    [] c.kind = "prune" -> Removed(missing, notes)
    [] c.kind = "merge" -> United(c.strategy, notes, NotesOf(otherNotes))

StartNotes(p) ==
  /\ noteRuns[p] = NoNotes /\ noteCount < MaxNoteRuns
  /\ \E c \in NoteCommands :
       LET notes == Outcome(c, NotesAt(noteTip)) IN
       /\ notes # NoNotes
       /\ noteRuns' = [noteRuns EXCEPT ![p] = [command |-> c, tip |-> noteTip, notes |-> notes]]
  /\ noteCount' = noteCount + 1
  /\ UNCHANGED <<noteLog, noteTip, otherNotes, noteLoose, missing>>

\* The ref must be what was read; that is compared with its loose file alone.
\* Seeded fault: any old value will do.
TipExpectedAny(tip) == TRUE
TipExpected(tip) == IF tip = 0 THEN ~noteLoose ELSE noteLoose /\ noteTip = tip

\* The commit is written before the ref is locked and compared; notes that come
\* out as they were make no commit.
FinishNotes(p) ==
  /\ noteRuns[p] # NoNotes
  /\ LET run  == noteRuns[p]
         tree == FanoutTree(run.notes)
     IN  IF run.tip # 0 /\ noteLog[run.tip].tree = tree
         THEN UNCHANGED <<noteLog, noteTip, noteLoose>>
         ELSE /\ noteLog' = Append(noteLog, [tree |-> tree, parent |-> run.tip])
              /\ IF TipExpected(run.tip) THEN noteTip' = Len(noteLog') /\ noteLoose' = TRUE
                 ELSE UNCHANGED <<noteTip, noteLoose>>
  /\ noteRuns' = [noteRuns EXCEPT ![p] = NoNotes]
  /\ UNCHANGED <<otherNotes, missing, noteCount>>

\* The editor or the signer fails, or the process is killed.
GiveUpNotes(p) ==
  /\ noteRuns[p] # NoNotes /\ noteRuns' = [noteRuns EXCEPT ![p] = NoNotes]
  /\ UNCHANGED <<noteLog, noteTip, otherNotes, noteLoose, missing, noteCount>>

PackNoteRef ==
  /\ noteTip # 0 /\ noteLoose /\ noteLoose' = FALSE
  /\ UNCHANGED <<noteLog, noteTip, otherNotes, missing, noteRuns, noteCount>>
LoseObject ==
  /\ missing = {} /\ missing' = {CHOOSE id \in NoteTargets : TRUE}
  /\ UNCHANGED <<noteLog, noteTip, otherNotes, noteLoose, noteRuns, noteCount>>

NoteInit ==
  /\ \E first \in FirstNotes :
       /\ noteLog = IF first[1] = NoNotes THEN <<>> ELSE <<[tree |-> first[1], parent |-> 0]>>
       /\ otherNotes = first[2]
  /\ noteTip = Len(noteLog) /\ noteLoose = (noteTip # 0) /\ missing = {}
  /\ noteRuns = [p \in NoteProc |-> NoNotes] /\ noteCount = 0

NoteNext ==
  \/ \E p \in NoteProc : StartNotes(p) \/ FinishNotes(p) \/ GiveUpNotes(p)
  \/ PackNoteRef \/ LoseObject

-----------------------------------------------------------------------------
\* t contains all of s, line ends at the end aside.
HasText(t, s) == LET core == IF s # <<>> /\ Last(s) = "nl" THEN Front(s) ELSE s
                  IN  \E i \in 0..Len(t) - Len(core) : SubSeq(t, i + 1, i + Len(core)) = core

\* The notes the command is about are what it says, and all others what they were.
OthersSame(ids, before, after) ==
  /\ DOMAIN before \ ids = DOMAIN after \ ids
  /\ \A id \in DOMAIN before \ ids : after[id] = before[id]
Meant(c, before, after) ==
  CASE c.kind = "add" ->
         /\ OthersSame({c.at}, before, after) /\ (c.at \in DOMAIN before => c.force)
         /\ HasText(after[c.at], MessageBody(c.body))
    [] c.kind = "append" ->
         /\ OthersSame({c.at}, before, after) /\ HasText(after[c.at], MessageBody(c.body))
         /\ c.at \in DOMAIN before => HasText(after[c.at], before[c.at])
    [] c.kind = "copy" ->
         /\ OthersSame({c.at}, before, after) /\ after[c.at] = before[c.from]
         /\ c.at \in DOMAIN before => c.force
    [] c.kind = "remove" -> OthersSame(c.of, before, after) /\ c.of \cap DOMAIN after = {}
    [] c.kind = "edit" ->
         /\ OthersSame({c.at}, before, after) /\ (c.at \in DOMAIN after <=> ~Blank(c.text))
         /\ c.at \in DOMAIN after => HasText(after[c.at], c.text)
    [] c.kind = "prune" -> OthersSame(missing, before, after) /\ missing \cap DOMAIN after = {}
    [] c.kind = "merge" ->
         LET theirs == NotesOf(otherNotes) IN
         /\ DOMAIN after = DOMAIN before \cup DOMAIN theirs
         /\ \A id \in DOMAIN before : c.strategy # "theirs" => HasText(after[id], before[id])
         /\ \A id \in DOMAIN theirs : c.strategy # "ours" => HasText(after[id], theirs[id])

\* A command that moves the notes ref changes, in the notes as they are at that
\* moment, what it was asked to and nothing else, whatever others wrote since it
\* read them and however many levels the tree has before and after.  (A command that
\* found no notes is let through when another's first ones have been packed: it
\* loses them.)
NotesTruthful ==
  [][\A p \in NoteProc :
       noteRuns[p] # NoNotes /\ noteRuns'[p] = NoNotes /\ noteTip' # noteTip =>
         \/ /\ noteLog'[noteTip'].parent = noteTip
            /\ Meant(noteRuns[p].command, NotesAt(noteTip), NotesOf(noteLog'[noteTip'].tree))
         \/ noteRuns[p].tip = 0 /\ noteTip # 0 /\ ~noteLoose]_noteVars
=============================================================================
