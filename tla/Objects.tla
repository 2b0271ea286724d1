------------------------------ MODULE Objects -------------------------------
(***************************************************************************)
(* The objects of a repository and their contents, seen one way at a time:  *)
(* commands and maintenance that put objects into loose files and packs     *)
(* while others do the same (ObjectStore); one process that finds and reads *)
(* them (Packs); a session of `add -p` (AddPatch); a merge of trees and     *)
(* what status says after it (TreeMerge); the bytes of an index, and of the *)
(* tables of a stack (BinaryFiles).  The six share no state.                *)
(***************************************************************************)
EXTENDS ObjectStore, Packs, AddPatch, Blame, BinaryFiles

VARIABLE view

objectVars == <<vars, packVars, addVars, treeVars, indexVars, tableVars, view>>

\* Nobody has anything to do.
NoStore == Init /\ script = [p \in Proc |-> <<>>]
\* There is no database to read.
NoPacks ==
  packFiles = NoObject /\ caches = <<>> /\ looseObjects = {} /\ midx = NoObject /\ answer = NoObject
\* The session is over before it finds a file.
NoSession ==
  /\ session = <<>> /\ n = 1 /\ at = 1 /\ moves = 0 /\ phase = "none"
  /\ hunks = <<>> /\ chosen = <<>> /\ mine = <<>> /\ staged = <<>> /\ picked = <<>>
\* Three empty trees, and nothing done with them.
NoMerge ==
  /\ base = NoTree /\ ours = NoTree /\ theirs = NoTree /\ todo = 0 /\ doing = "nothing"
  /\ state = [p \in Path |-> Just("none")] /\ stages = [p \in Path |-> NoStages]
  /\ blobs = NoTree /\ merged = Absent /\ worktree = NoTree

\* An empty index, and no table.
NoFiles == held = EmptyIndex /\ stored = EmptyIndex /\ indexFile = <<>> /\ edits = 0 /\ TablesInit

ObjectsInit ==
  \/ view = "store" /\ Init /\ NoPacks /\ NoSession /\ NoMerge /\ NoFiles
  \/ view = "packs" /\ NoStore /\ PackInit /\ NoSession /\ NoMerge /\ NoFiles
  \/ view = "session" /\ NoStore /\ NoPacks /\ AddInit /\ NoMerge /\ NoFiles
  \/ view = "merge" /\ NoStore /\ NoPacks /\ NoSession /\ TreeInit /\ NoFiles
  \/ view = "index" /\ NoStore /\ NoPacks /\ NoSession /\ NoMerge /\ IndexInit /\ TablesInit
  \/ view = "tables" /\ NoStore /\ NoPacks /\ NoSession /\ NoMerge /\ NoFiles
ObjectsNext ==
  /\ UNCHANGED view
  /\ \/ view = "store" /\ Next /\ UNCHANGED <<packVars, addVars, treeVars, indexVars, tableVars>>
     \/ view = "packs" /\ PackNext /\ UNCHANGED <<vars, addVars, treeVars, indexVars, tableVars>>
     \/ view = "session" /\ AddNext /\ UNCHANGED <<vars, packVars, treeVars, indexVars, tableVars>>
     \/ view = "merge" /\ TreeNext /\ UNCHANGED <<vars, packVars, addVars, indexVars, tableVars>>
     \/ view = "index" /\ IndexNext /\ UNCHANGED <<vars, packVars, addVars, treeVars, tableVars>>
     \/ view = "tables" /\ TablesNext /\ UNCHANGED <<vars, packVars, addVars, treeVars, indexVars>>
ObjectsSpec == ObjectsInit /\ [][ObjectsNext]_objectVars

-----------------------------------------------------------------------------
\* What was put into a file of bytes comes back out of it: the objects of packs, by
\* every way to them, the entries and the tree of an index, the records of a table
\* (src/pack, src/odb, src/index, src/refs/reftable).
FilesTruthful == PacksTruthful /\ BinaryTruthful
=============================================================================
