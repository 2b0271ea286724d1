------------------------------ MODULE Commands ------------------------------
(***************************************************************************)
(* What commands do around the objects and the refs, one job at a time:     *)
(* matching paths (Patterns), reading and editing settings (Settings),      *)
(* finding what a name stands for (Names), running children (Children),     *)
(* talking to a server (Wire), keeping linked worktrees (LinkedWorktrees)   *)
(* and notes (Notes), and replacing files under lock (Lockfile).  The jobs  *)
(* share no state.                                                          *)
(***************************************************************************)
EXTENDS Patterns, Settings, Names, Children, Wire, LinkedWorktrees, Notes, Lockfile

VARIABLE job

jobVars ==
  <<patternVars, settingVars, nameVars, childVars, wireVars, worktreeVars, noteVars, vars, job>>

NoPatterns ==
  /\ ignores = NoIgnores /\ indexed = {} /\ walk = <<>> /\ layers = <<>> /\ untracked = {}
  /\ asked = [kind |-> "idle"]
NoSettings == files = [l \in Range(Layer) |-> None] /\ given = <<>> /\ edits = 0 /\ did = [op |-> "idle"]
NoNames    == refs = FirstRefs /\ doing = NoName /\ text = <<".">>
NoChildren ==
  /\ command = <<>> /\ child = NoChild /\ pipes = Dry /\ parent = Idle
  /\ worked = FALSE /\ outcome = "done" /\ told = <<>>
NoWire ==
  /\ talk = NoAnswer /\ style = NoAnswer /\ stage = "asked" /\ wire = <<>> /\ cut = FALSE
  /\ heard = NoAnswer /\ seen = NoAnswer
NotesIdle ==
  /\ noteLog = <<>> /\ noteTip = 0 /\ otherNotes = <<>> /\ noteLoose = FALSE /\ missing = {}
  /\ noteRuns = [p \in NoteProc |-> NoNotes] /\ noteCount = 0
NoLocks == Init /\ path = [p \in Proc |-> CHOOSE t \in Path : TRUE]

JobsInit ==
  \/ /\ job = "patterns"
     /\ PatternInit /\ NoSettings /\ NoNames /\ NoChildren /\ NoWire /\ WorktreeInit /\ NotesIdle /\ NoLocks
  \/ /\ job = "settings"
     /\ NoPatterns /\ SettingInit /\ NoNames /\ NoChildren /\ NoWire /\ WorktreeInit /\ NotesIdle /\ NoLocks
  \/ /\ job = "names"
     /\ NoPatterns /\ NoSettings /\ NameInit /\ NoChildren /\ NoWire /\ WorktreeInit /\ NotesIdle /\ NoLocks
  \/ /\ job = "children"
     /\ NoPatterns /\ NoSettings /\ NoNames /\ ChildInit /\ NoWire /\ WorktreeInit /\ NotesIdle /\ NoLocks
  \/ /\ job = "wire"
     /\ NoPatterns /\ NoSettings /\ NoNames /\ NoChildren /\ WireInit /\ WorktreeInit /\ NotesIdle /\ NoLocks
  \/ /\ job = "worktrees"
     /\ NoPatterns /\ NoSettings /\ NoNames /\ NoChildren /\ NoWire /\ WorktreeInit /\ NotesIdle /\ NoLocks
  \/ /\ job = "notes"
     /\ NoPatterns /\ NoSettings /\ NoNames /\ NoChildren /\ NoWire /\ WorktreeInit /\ NoteInit /\ NoLocks
  \/ /\ job = "locks"
     /\ NoPatterns /\ NoSettings /\ NoNames /\ NoChildren /\ NoWire /\ WorktreeInit /\ NotesIdle /\ Init

JobsNext ==
  /\ UNCHANGED job
  /\ \/ /\ job = "patterns" /\ PatternNext
        /\ UNCHANGED <<settingVars, nameVars, childVars, wireVars, worktreeVars, noteVars, vars>>
     \/ /\ job = "settings" /\ SettingNext
        /\ UNCHANGED <<patternVars, nameVars, childVars, wireVars, worktreeVars, noteVars, vars>>
     \/ /\ job = "names" /\ NameNext
        /\ UNCHANGED <<patternVars, settingVars, childVars, wireVars, worktreeVars, noteVars, vars>>
     \/ /\ job = "children" /\ ChildNext
        /\ UNCHANGED <<patternVars, settingVars, nameVars, wireVars, worktreeVars, noteVars, vars>>
     \/ /\ job = "wire" /\ WireNext
        /\ UNCHANGED <<patternVars, settingVars, nameVars, childVars, worktreeVars, noteVars, vars>>
     \/ /\ job = "worktrees" /\ WorktreeNext
        /\ UNCHANGED <<patternVars, settingVars, nameVars, childVars, wireVars, noteVars, vars>>
     \/ /\ job = "notes" /\ NoteNext
        /\ UNCHANGED <<patternVars, settingVars, nameVars, childVars, wireVars, worktreeVars, vars>>
     \/ /\ job = "locks" /\ Next
        /\ UNCHANGED <<patternVars, settingVars, nameVars, childVars, wireVars, worktreeVars, noteVars>>

JobsSpec == JobsInit /\ [][JobsNext]_jobVars /\ ChildFairness /\ PruneFairness
=============================================================================
