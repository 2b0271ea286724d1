# rustygit in TLA+

rustygit is a reimplementation of git in Rust: one binary, a fresh process per command,
no daemon and almost no threads. What makes it hard to get right is therefore less
inside a process than between processes: any number of commands may run on one
repository at once, may be interrupted or killed between any two system calls, and leave
behind the files the next command starts from. The modules here model

- the parts whose state outlives a process (refs, locks, objects, index, working tree,
  sequencer, bisect, worktrees, notes, remotes) as processes and commands that
  interleave at the grain of system calls or of whole files and may die between them;
- a command and its child, or its server, as two parties with pipes or a wire between
  them;
- the pure algorithms the rest stands on (diff, three-way merges, merge bases, packs and
  deltas, globs, configuration, names) as operators, checked against definitions of what
  they should compute over every small input.

Source paths below are relative to `src/src/` of the repository.

## 1. Inventory

| Component (code) | State it keeps | Operations | Interacts with | What is hard | Modelled in |
|---|---|---|---|---|---|
| Lock files (`lockfile.rs`, `main.rs`, `cli/prune_locks.rs`) | `<target>.lock`, the in-process registry LIVE_LOCKS | acquire, write, commit (rename), drop (unlink), SIGINT drain, prune-locks | refs, index | everything is by path: a stale path is somebody else's lock | `Lockfile` |
| Refs, files backend (`refs/transaction.rs`, `loose.rs`, `packed.rs`, `reflog.rs`, `cli/pack_refs.rs`, `cli/reflog.rs`, `cli/update_ref.rs`, `cli/symbolic_ref.rs`) | loose files, packed-refs, logs | read, transactions with expected old values, pack, reflog append and delete | lock files; every command | two places for one value, a read-modify-write protocol over files, symbolic refs | `RefFiles` |
| Refs, reftable backend (`refs/reftable/*`) | tables.list, table files, the loaded stack | open, read, transaction | every command | own lock protocol, stale stacks; blocks at the edges of their size | `Reftable`, `BinaryFiles` |
| Ref names and revisions (`refs/name.rs`, `revparse.rs`, `cli/branch.rs`, `cli/tag.rs`) | none; a rename in progress | check a name, resolve a short name, parse `~ ^ ..`, branch -m | refs, objects | order of look-ups; a rename of three transactions | `Names` |
| Object store (`odb/*`, `reachable.rs`, `cli/gc.rs`, `cli/repack.rs`, `cli/prune.rs`) | loose objects, packs, the packs a process knows | read, write, mark, repack, prune, gc | refs, index | content-addressed writes without locks; deletes what nothing refers to *yet* | `ObjectStore` |
| Pack format (`pack/*`, `midx.rs`, `cli/index_pack.rs`, `cli/unpack_objects.rs`) | packs, indexes, the index of several packs, a cache | find, resolve deltas, index, verify, unpack | object store | delta chains through a cache, boundaries of widths and offsets | `Packs` |
| Object model (`hash.rs`, `object.rs`, `tree.rs`, `commit.rs`, `tag.rs`) | none | encode, decode | all | byte layouts | not modelled |
| Commit graph (`commit_graph.rs`) | commit-graph file | write, read, generations | merge base | octopus parents by offset | `CommitGraph` |
| Merge base and walks (`merge/base.rs`, `cli/rev_list.rs`, `cli/name_rev.rs`, `cli/describe.rs`, `cli/log.rs`) | none | best common ancestors, ancestry, ranges, names | object store | a priority-queue walk over skewed clocks | `History` |
| Three-way merges (`merge/file.rs`, `merge/tree.rs`, `cli/merge.rs`) | MERGE_HEAD, conflict stages | merge files, trees; conclude | index, working tree | case analysis; two commands for one merge | `FileMerge`, `TreeMerge`, `History` |
| Diff, renames (`xdiff.rs`, `diff/*`) | none | edit script, hunks, classification of trees, index and working tree, pairing | merges, add -p | positions off by one | `LineDiff`, `TreeMerge` |
| Blame (`blame.rs`) | a walk back | map lines through diffs, follow renames | diff, history | positions through several versions | `Blame` |
| add -p, apply (`add_patch.rs`, `cli/add_patch.rs`, `cli/apply.rs`) | a session | choose, split, edit hunks, stage | index | positions after splits and edits | `AddPatch` |
| Status, ignore rules (`worktree/status.rs`, `ignore.rs`, `wildmatch.rs`, `pathspec.rs`) | a stack of layers | rows, walk, match | index | three walks joined; early aborts | `TreeMerge`, `Patterns` |
| Index (`index/mod.rs`, `index/cache_tree.rs`, `cli/update_index.rs`, `cli/rm.rs`, `cli/mv.rs`, `cli/read_tree.rs`) | `.git/index` | read, edit, write under lock | lock files, working tree | read before the lock; a cached stat; flags that share a word with a length | `Lockfile`, `WorkTree`, `BinaryFiles` |
| Working tree update (`unpack_trees.rs`, `cli/checkout.rs`, `cli/switch.rs`, `cli/restore.rs`, `cli/reset.rs`, `cli/clean.rs`) | files, index, HEAD, the shadow directory | plan, refuse, swap files, roll back, recover | index, refs | data loss; a step of several failing | `WorkTree` |
| Stash (`cli/stash.rs`) | refs/stash and its reflog | push, pop, apply, drop | refs, working tree | a forced checkout over what is there | `WorkTree` |
| Sequencer (`sequencer.rs`, `cli/cherry_pick.rs`, `cli/revert.rs`, `cli/rebase.rs`) | `.git/sequencer`, index, HEAD | start, pick, stop, continue, skip, abort, quit | merges, refs, index | a program counter kept in files across commands and crashes | `Sequencer` |
| Interactive rebase, am (`cli/rebase_interactive.rs`, `cli/am.rs`) | a todo list, a counter | | sequencer | | not modelled, section 7 |
| Bisect (`bisect.rs`, `cli/bisect.rs`) | refs/bisect/*, BISECT_* files | start, good, bad, skip, reset | refs, checkout | a search kept in refs across commands | `Bisect` |
| Notes (`notes.rs`, `cli/notes.rs`) | a notes ref | add, append, copy, edit, remove, prune, merge | refs, object store | read-modify-write of a tree of changing depth | `Notes` |
| Linked worktrees (`repo.rs`, `cli/worktree.rs`) | `.git/worktrees/*`, `.git` files | discover, add, list, lock, move, remove, prune, repair | refs, index | links in both directions as paths | `LinkedWorktrees` |
| Clone, fetch, push (`clone/*`, `push/*`, `cli/fetch.rs`, `cli/push.rs`) | refs, objects and tracking refs of two repositories | copy, plan, send, report | refs, object store, transport | refs must follow objects; stale decisions, partial success | `Remote` |
| Transport (`transport/*`, `credential.rs`) | a connection | pkt-lines, fetch and push conversations, routes | clone, fetch, push | cuts, bands, chunks | `Wire`, `Children` |
| Children (`hooks.rs`, `signing.rs`, `cli/pager.rs`, `transport/ssh.rs`, `credential.rs`) | pipes | run, write, read, wait | commit, push, gc, ... | who waits for whom; whose word counts | `Children` |
| Configuration, identity (`config.rs`, `cli/config_cmd.rs`, `cli/alias.rs`, `identity.rs`) | config files in layers | parse, look up, edit, expand, split words | all | what an edit must leave alone | `Settings` |
| Read-only porcelain, tracing, translations, tests, website, tools | | | | output and formatting | not modelled |

Commands interact only through the files above (and the refs they name), through pipes
with children and through a connection with a server. There are no callbacks and no
awaits; the threads there are drain a child's stderr or handle SIGINT.

## 2. Modules and how they correspond to the code

| Module | Models | Composed with |
|---|---|---|
| `Lockfile` | `lockfile.rs`, the SIGINT clean-up of `main.rs`, `prune-locks` | a job of `Commands`; refs and index writes rely on what it establishes |
| `AtomicRefs` | what the traits in `refs/mod.rs` promise (one operation at a time, or a whole batch) | abstract specification of the next two |
| `RefFiles` | loose refs, packed-refs, reflogs, the commands that submit transactions | implements `AtomicRefs` (`INSTANCE ... WITH ref <- View`) |
| `Reftable` | the reftable stack and its transactions | implements `AtomicRefs!BatchSpec`; side "tables" of `Tips` |
| `ObjectStore` | loose objects, packs, add, commit, reset, gc, prune, prune-packed | view "store" of `Objects` |
| `Packs` | finding and reading of one object: packs, deltas, caches, indexes | view "packs" of `Objects` |
| `LineDiff`, `AddPatch` | diffs, hunks, patches; a session of `add -p`; `apply` | view "session" of `Objects` |
| `BinaryFiles` | the bytes of an index and of reftable tables, and their reading | views "index" and "tables" of `Objects` |
| `FileMerge`, `TreeMerge`, `Blame` | merges of files and trees, the files and index they leave, status, comparisons, renames; blame over three versions | view "merge" of `Objects`; `Blame` extends `TreeMerge` |
| `Sequencer` | cherry-pick, revert and rebase over the state directory | alone |
| `WorkTree` | every command that writes files, index or HEAD; stash | alone |
| `CommitGraph`, `History`, `Bisect` | the commit graph file; histories, the walks over them, commits and merges; a hunt | `Bisect` extends `History`, which instantiates `CommitGraph`; side "history" of `Tips` |
| `Remote` | two clients and a hub | alone |
| `Patterns`, `Settings`, `Names`, `Children`, `Wire`, `LinkedWorktrees`, `Notes` | what commands rest on, one job each | `Commands`, which runs one job at a time |
| `Objects`, `Commands`, `Tips` | compositions whose parts share no state: one run checks them side by side | |
| `ChildrenProofs`, `LockfileProofs`, `ObjectStoreProofs`, `RefFilesProofs`, `ReftableProofs`, `RemoteProofs`, `SequencerProofs`, `WorkTreeProofs` | theorems about the module of that name | each extends its component; section 4 |
| `MC*` | instances for TLC | |

**Lockfile.** A process does one read-modify-write of one target. Its program counter
`pc` walks the calls of `Lockfile::acquire` (`Acquire`, `Register`), the caller's read
and `write_all`, `commit` (`Rename`, then `Unregister`) and `Drop` (`DropRemove`). The
`.lock` file remembers its creator (`lockBy`) and nothing in the code can: every later
call names it by path. The SIGINT thread drains the registry in one step and unlinks
path by path in others; `prune-locks` judges and unlinks in two. Contents are sets of
edits, so a lost one is a missing element. `ReadFirst` names targets that are read
before the lock (the index).

**RefFiles.** `loose`, `packed`, `log` are the files; `lock` is the `.lock` of each ref.
A transaction applies its operations one by one: `Acquire`, `Check`
(`current_direct_through_lock`), `Publish` (rename) or `RemoveLoose`, `AppendLog` and
`AppendHeadLog` after the lock is gone, `Drop`. A reader sees `View`: loose first, then
packed; `commit` reads the two in two steps. `pack-refs` collects (loose refs, then
packed refs), re-reads packed-refs, creates, writes and renames `packed-refs.lock`, and
unlinks loose files; since it opens the lock with `create` and not `create_new`, the
model keeps for every process which file its descriptor is by now (`fd`). `hist` is a
history variable: updates in the order they took effect.

**Reftable.** A table is a set of ref and log records under one update index; `list` is
tables.list. `Open` loads the stack, `Lock` creates `tables.list.lock`,
`ReadList`/`Refresh` reload, `Prepare` checks every expected value and makes the table,
`WriteLock`/`RenameLock` publish the new list, `RemoveLock` unlinks the lock path on
every exit. Log messages are abstracted away, and the bytes of a table are the subject
of `BinaryFiles`; the order of tables, records, tombstones and the update indexes are
not.

**ObjectStore.** One tracked path and one branch, so an object is a blob, the tree of
one, or a commit, which is the line of blobs its history has committed (`Commit`,
`Parent`, `History`); what is reachable from it (`Reach`) is exact at any depth. Writing an
object opens `<oid>.tmp`,
fills it, renames it (`OpenTmp`, `FillTmp`, `RenameTmp`), or is skipped when the object
is already readable from the packs known since the command started (`known`). gc marks
refs, then the index, walks, renames the pack, then its index file, lists packs, deletes
the old ones file by file, and then packed loose files. Every process runs a script of
commands and may die at any step. `pruned` is a history variable: prune has run since
the index was last written.

**Packs.** A pack is a sequence of entries (whole objects, deltas to an offset or to an
id), with the offsets `Offsets` gives them; `IdxOf` is its index with fan-out and the
table of wide offsets, `ResolveAt` walks a delta chain through the cache of the pack. A
process reads objects in any order (`Read`), writes an index of several packs
(`WriteMidx`), lists objects to pack, unpacks streams. An id is two digits, a content a
sequence of letters.

**BinaryFiles.** A file is a sequence of bytes. `Serialize` and `ParseIndex` are
`Index::serialize` and `Index::parse` with the flags of an entry, its padding, the chunks
of extensions and the recursive one, TREE; `Upsert` and `RemovePath` edit the entries in
memory. `WriteTable` is `write_table_file`; `RefBlocks`, `LogBlocks` and the two decoders
are `reader.rs`, which also reads what git writes (`GitTable`: compressed names, several
blocks, aligned or not). A power failure may cut the table written last at a `Sector`
(`EndLost`): it is renamed into place without being synced. `stored` and `pushed` are
history variables: what the bytes were made of. Hash, checksum and zlib are external.

**LineDiff, AddPatch.** `Trace` is the forward search of `xdiff.rs` by edit distance,
`Backtrack` reads the edits off it, hunks are runs of changes with their context. A
session takes files one after the other; each answer at the prompt is an action, the
hunks are re-cut by `Split`, replaced by `EditHunk`, and `ApplyToBase` patches the index
at the positions the code computes. `picked` is a history variable: the edits the user
chose.

**FileMerge, TreeMerge.** `FileMerge` walks the hunks of both sides along the base as
`merge_three_way` does and forms blocks. `TreeMerge` merges path by path (state, stages,
blob), then `merge` writes index and files, with or without a conflict; an edit may
follow, and `Rows` is what `status` lists. `Blame` takes the three versions as a history
of first parents and walks back from the last, keeping for every line its place in the
version it has come to.

**Sequencer.** The seven files of `.git/sequencer` are the variable `file`; a command
loads them into `mem`, and `SaveFile` writes them one per step, so a crash may leave any
prefix. `Apply` takes the next pick and merges trees at the grain of files;
`MergeClean`, `MergeEmpty`, `MergeConflict` are the three outcomes; `CheckoutWork` and
`CheckoutIndex` write files before the index; `MoveBranch` moves the ref. Users resolve,
commit and edit between commands. A commit is its whole history of (tree, message)
entries, so "the parent" is its front and no hash is needed. `sofar` and `count` are
history variables and bounds.

**WorkTree.** `work`, `index` (with a stat per entry that may be that of another
content), `head`, `tip`, `stored`, `stash`, and `shadow`, the directory `checkout.tmp.*`
of originals. A command plans, is refused or goes on path by path: move the original
away, move the new file in, write the index, move HEAD; at each a step may fail (then it
rolls back, path by path, which may fail too and leaves `checkout.recover`) or the
process die. `ghost` holds history: what was typed, what was given up, what a stamp
hides, and the state before the command.

**History, CommitGraph, Bisect.** Commits are numbered as they are made, by `commit`,
`merge` and its conclusion, with any committer time; or the history is one of `Given`.
The walks are operators with the code's queue and flags. `WriteGraph` lays out
positions, parents with the EDGE chunk, generations; `ParentsAt` reads them back.
Bisect's session is its refs and files; start, marks, failed checkouts, resets and kills
are actions; `culprit` is what a tester knows.

**Remote.** A hub and two clients with their refs, tracking refs and loose and packed
objects. Push by path builds a pack in the hub file by file and then locks, checks and
writes each hub ref; push over the network sends one request whose answer, or itself,
may be lost; fetch writes the pack in one step and its refs in another. Clones clean up
what they made unless they die. Whoever builds a pack in the hub, a push or its gc
(`Sweep`), does so under the same two temporary names: `tmp` says who has each open, and
what is renamed while others have it open too may be whole or torn (`PathPack`,
`PathIdx`, `SweepPack`). The rename of the .pack and the creation of the .idx are one
step: in between nothing refers to either. The gc's removals at the end are one step too
(`SweepOld`), which takes from a push under way what it has built; a clone by path
copies file by file (`CopyFiles`), all through which pushes and the gc go on.

**Patterns** follows `dowild` with its verdicts, the parser of ignore lines and the walk
for untracked files, which pushes and pops layers. **Settings** parses files line by
line, joins the layers, edits lines in place. **Names** holds the rules of names, the
candidates of a short name, the suffixes, and the three transactions of `branch -m` with
a kill between. **Children** runs a command's program (start, write the payload, read,
join, wait) against a child that follows any script over pipes of bounded capacity.
**Wire** writes a request and an answer as bytes in any style a server may choose, cuts
the answer anywhere, and reads it with the client's parsers. **LinkedWorktrees** has the
directories, `.git` files and entries; every command is the sequence of its writes
(`todo`), each a step, and a kill or the user's own `mv` and `rm -r` come between.
**Notes**: each of two processes opens the tree, edits the notes in memory and writes
tree, commit and ref under the expected value; others pack the ref or lose an object.

## 3. What is checked

Seven runs pass and five, each of one property, fail as a finding says. A run bundles
what one instance can show; three compositions run unrelated parts side by side.

| Run | Instance | Properties and what they show |
|---|---|---|
| `refs` | 3 processes, HEAD and two branches, every assignment of the listed commands to processes | `ImplementsAtomicRefs` (every step of the files is an operation of `AtomicRefs` on the composite view, or none), `LockDiscipline`, `LogComplete`, `PackPreservesView`, types |
| `tips` | reftable: 2 processes, any pair of 7 kinds of batch; history: every history of 4 commits made by commit and merge, with octopus merges and skewed clocks, and a criss-cross of 6 | `ImplementsAtomicBatches` (a whole batch at one moment), `LogTellsHistory`; `BasesAreBest`, `WalksTruthful`, `GraphTruthful`, `FirstBadIsCulprit`, `VerdictNarrows` |
| `objects` | see bounds | `ReachableAvailable`, `FilesTruthful` (`PacksTruthful`: objects are found and read as they were packed; `BinaryTruthful`: an index and a stack of tables give back what was put into them, and a cut table is refused), `DiffsHold`, `StagedIfPlaced`, `MergeSound`, `StatusTruthful`, `PastTruthful` (renames pair stably; a blamed commit has the line, and the last is blamed only for what is new in it) |
| `sequencer` | 2 paths, 4 contents, histories of 1 to 3 commits, 2 sequences, 1 crash, 1 edit | `PicksSafe` (once, in order, state written before the branch moves), `FinishedApplied`, `AbortRestores` |
| `worktree` | 2 paths, 3 commands of 23 kinds, 1 edit, 1 failing step or crash | `EditsKept` (what was typed is in a file or a blob), `FailureKeeps` (a checkout that fails undoes itself), `CommandsArrive` (a switch and a pop end where they say) |
| `remote` | 2 clients, a branch and a tag, 4 commits of two authors, gc of clients and hub | `RefsWhole` (refs never precede their objects, over packs built, copied and deleted file by file), `NothingDropped` (no unforced push drops another's work), `ToldTheTruth` (tracking refs and reports) |
| `commands` | see bounds | `MutualExclusion`, `TargetNeverTorn`, `NoLostEdit` (for targets read under their lock), `StaleLockCleared` (a dead process's lock does not block for ever); `PathsTruthful`, `SettingsTruthful`, `NamesTruthful`, `ChildrenHeeded`, `CommandsEnd`, `WireTruthful`, `WorktreesWhole`, `NotesTruthful` |

| Violated run | What the code does |
|---|---|
| `pack_drops_update` | pack-refs unlinks a loose ref that was updated after it was collected: the update is undone |
| `merge_forgets_parent` | a conflicted merge, resolved and committed, becomes a commit of one parent: `commit` never reads MERGE_HEAD |
| `linked_head` | in a linked worktree HEAD is read and written in the main repository |
| `torn_pack` | two pushes by path build their packs in one `.tmp-pack.pack`; one renames what the other is still writing, and moves its ref to what cannot be read (`PushedIsThere`) |
| `rev_list_range` | `rev-list A..B` walks from the commits of the range without excluding any, and so prints the ancestors of A too (`RangePrinted`) |

**Bounds, and why they are enough.** Conflicts between processes are between two actors;
the third process lets a bystander take over a path two others have just released, or
mixes a crash with two survivors. Two ref names and HEAD are enough for every relation
between refs the code knows: the same ref, different refs, one through the other.

- `refs` mixes pack-refs only with commands it is safe beside (no pruning beside
  updates, one packer): what happens otherwise is `pack_drops_update` and section 6.
- `objects`. *Store*: 3 processes, 3 blobs, scripts of up to 6 commands, one process
  that runs gc (`.tmp-pack` is shared). *Packs*: 3 objects, packs of up to 3 entries, at
  most 2 packs, `Digit` = 2 values of an id's digit, `Wide` = 16 as the first wide
  offset, `WideCopy` = 2 as the longest copy with a short length, a cache of `Capacity`
  = 1: every boundary of the format with small numbers in its place. *Session*: every
  two files of up to 3 lines of two texts, one of at most 1 line against 4, some without
  a final newline, two of 7 and 8 lines with hunks to split, a session of 4 files with
  changes of mode and a deletion; `Context` = 1 and `MaxMoves` = 2 jumps, splits or
  edits. *Merge*: a base of up to 3 lines between sides of up to 2, or of up to 2
  between one of up to 3 and one of up to 2, a file of 4 lines of which each side
  changes or drops any, every combination of modes, two paths, files moved whole and
  moved with changes, renames with `Limit` = 4 and `Threshold` = 50 as in the code. The
  same three versions are a history for blame. *Bytes*: `NameCap` = 3 for 0xFFF, with
  paths shorter, as long and longer; `OidLen` = 2; entries with stages, flags and
  extended flags, a tree of three levels with counts of one and two digits, `MaxEdits` =
  2; `BlockSize` = 64 for 4096, with tables of the program below it and above, names,
  times and texts at both sides of the widths of a varint, `MaxTables` = 2, cut at every
  16th byte (`Sector`).
- `sequencer`: `MaxSequences` = 2 lets a second sequence start over what a first one
  left, `MaxCrashes` = 1 may fall at any step, `CommitsFirst` = TRUE: the user commits a
  resolution before `--continue` (the printed hint, which does not, drops the pick:
  section 6).
- `worktree`: `MaxCommands` = 3 is what it takes to make a state, damage it and meet it
  again (add, reset, switch; push, edit, pop); two paths so that one may be done and the
  other not; content `t` is what a user typed.
- `remote`: `MaxRemote` = 3 network or path commands, `MaxWork` = 2 local ones or gcs,
  `MaxFaults` = 1 lost request, lost answer or kill: two pushes that race and one fetch
  that sees the outcome, or a clone that copies beside a push and a gc. The hub runs one
  gc at a time. `torn_pack` needs no more than two pushes by path.
- `tips`: 2 processes of one command each. `MaxCommits` = 4 and `MaxParents` = 3 give
  every shape in which a base may be hidden by another, two `Times` every order of a
  child's and a parent's clock; `MaxConflict` = 2 commits when a merge may conflict;
  `MaxFaults` = 1 failed checkout or killed reset in a hunt; the criss-cross is the
  smallest graph of several best bases in two layers.
- `commands`. *Locks*: 3 processes, a target read under its lock and one read before
  (the index), crashes anywhere, 1 process that a SIGINT may meet. *Patterns*: globs and
  texts of up to 3 signs, of up to 6 with several stars, every class of up to 3 signs;
  ignore files in three places over a tree of two levels. *Settings*: `MaxEdits` = 2,
  chains of `MaxHops` = 3 aliases instead of 10. *Names*: 3 commits, at most `MaxRefs` =
  6 refs, counts up to `MaxCount` = 9 instead of 2^32. *Children*: pipes of `Cap` = 1
  unit, every script of 2 to 4 steps and servers of up to 8, exit codes 0 and 1 and a
  signal. *Wire*: a server that is chatty or not, with chunks of 1 or 3, that fails or
  does not, cut at every byte. *Worktrees*: the main directory and one below it, paths
  beside it, in it and relative, 3 commands (`MaxCommands`), 1 kill or move by hand
  (`MaxMeddles`), `MaxTips` = 2 commits. *Notes*: 2 processes, `MaxNoteRuns` = 2
  commands, 2 targets, ids of 5 digits, levels of the tree from 2 and 3 notes instead of
  256 and 65536, 5 first trees, one lost object.

Deadlock is not checked: every run ends when all commands have ended.

**Excepted states.** Most of what the code does not keep is in the models and left out
of the properties by name, as told here and in section 6. Some of it lies beyond a bound
instead, and no run reaches it: a third reftable committer, a second gc, a packer beside
writers other than those of the scenarios of `refs`, a resolution that is not committed
before `--continue` (`CommitsFirst`), a second octopus in a commit graph. The exceptions:

- Lockfile's properties hold up to the first SIGINT (`Undisturbed`): a handler that has
  drained its registry can unlink a peer's new lock.
- `FinishedApplied` and `WrittenAhead` except a crash that tore a save (`count.torn`).
- `ReachableAvailable` does not count an index written before the last `prune`, which
  looks at refs only.
- `TablesKept` and `StackKept`, parts of `FilesTruthful`, except a table of the program
  whose one block of refs is longer than `BlockSize` and has the letter `r` just there
  (`Overrun`, section 6).
- `LogComplete` excepts runs that rewrite a reflog.
- `EditsKept` sets apart `ghost.released` (the user overwrote, deleted or forced) and
  `ghost.hidden` (an edit that a stat stamped on another content hides, section 6).
- `RefsWhole` excepts repositories `excused` by name: a hub where a torn temporary file
  was put in place (run `torn_pack`), or whose gc was under way when a ref moved or
  removed files between the plan and the last ref of a push by path (it may delete what
  the push has found there or built); repositories whose gc left a loose commit without
  its history; clones by path while whose copying a ref of the hub moved, a torn file
  came or a gc removed files, or that copied from a hub that is itself excused or holds
  a commit without its history.
- `StagedIfPlaced` excepts a piece of a split hunk that only adds lines (`Misplaced`);
  `MergeSound` a change of mode on one side where both changed the content;
  `StatusTruthful` an unmerged path that HEAD does not have.
- `FirstBadIsCulprit` excepts hunts whose marks were given for another tree than the
  commit's (`misled`); `WalksTruthful` what the code documents of `is_ancestor` under
  skewed clocks.
- `CommandsEnd` names three waits that never end (`BothWrite`, `HelperChokes`,
  `SshListens`).
- `WireTruthful` allows part of an answer when the connection ends between two packets.
- `WorktreesWhole` speaks of worktrees no kill or hand has touched (`meddled`), paths
  given relative included (`Astray`).
- `NotesTruthful` lets a first note of a process that found no ref replace packed ones.

**Fairness.** The code has no scheduler and a command may stop for good.
`StaleLockCleared` assumes that a user who finds a stale lock in the way runs
`prune-locks` again until it is gone (weak fairness of its judging and unlinking steps,
`PruneFairness`); no process is assumed to make progress. `CommandsEnd` assumes that a
command, its thread that drains stderr and its child each go on running
(`ChildFairness`, weak fairness of the three): the operating system schedules them, and
a child that exits or is killed is a script of its own. What remains is waiting for each
other, which is what the property is about.

**Refinement.** `RefFiles` and `Reftable` map to `AtomicRefs` by the value a reader sees
(`View`). The steps between (locks, temporary files, logs) are stutters, a rename is the
operation, and the check is that at the rename the operation's expectation holds of the
abstract refs.

**Mutants.** Every property of a passing run has an operator in the model that repeats
an action or a function with one slip a maintainer could make (marked "Plausible bug" or
"Seeded fault"); with it in its place the property fails.

## 4. What is proved

By TLAPS, for every set of processes, targets, refs, clients, object ids, paths,
contents and command lines, of any size. Three kinds of assumption occur. Every theorem
rests on the ASSUME of its component's module (the constants are distinct, command lines
and initial states are well-typed), which TLC evaluates on the instances. Some have a
hypothesis on the commands that are run, named in the theorem. Three have one on the
behaviour (`[]OneWriter`, which a further theorem discharges for two processes,
`[]HeadResolves` and `[]Apart`).

| Theorem | What it says | Hypotheses |
|---|---|---|
| `LockfileProofs!Exclusion` | no two processes hold one target | no SIGINT (`Undisturbed`) |
| `CommittedEditsSurvive`, `TargetsWhole` | no committed edit is lost, no target is torn | no SIGINT; targets read under the lock |
| `RefFilesProofs!RefTypes`, `RefsChangedUnderLock` | types; a ref is compared and moved under its own lock | none |
| `RefFilesProofs!LogsComplete` | a reflog ends as a permutation of the logged updates | none (`LogComplete` speaks of runs without deaths and reflog rewrites) |
| `RefFilesProofs!FilesAreAtomic` | the files backend implements `AtomicRefs` | `OnlyHeadSymbolic`, `SafePacking` |
| `RefFilesProofs!PackingKeepsRefs` | pack-refs never changes what a ref resolves to | the same |
| `ReftableProofs!BatchesAreAtomic` | a reftable transaction takes effect as a whole | `[]OneWriter` |
| `ReftableProofs!ReflogsTellHistory` | indexes grow, each reflog line says what its ref was before and after | `[]OneWriter`, `PlainCommands`, `[]HeadResolves` |
| `ReftableProofs!TwoWritersTakeTurns`, `TwoWriters` | with two processes the lock does keep one writer, so the last two hold of them | `AtMostTwo`; for the reflogs `PlainCommands`, `OnlyHeadSymbolic` |
| `ObjectStoreProofs!StoreKeepsReachable` | what the branch and the index lead to can be read, whatever add, commit, reset, gc, prune and prune-packed do and wherever they die | `[]Apart` |
| `ChildrenProofs!ChildrenTakenAtTheirWord` | a command works only when every child that may veto it went well, and stops only at a child's word, its absence or its unread input | none but `Shaped`, in the assumption |
| `ChildrenProofs!CommandsShaped` | every command of the code is `Shaped` | none |
| `RemoteProofs!NothingMadeUp` | tracking refs and reports tell what was so | none |
| `RemoteProofs!NothingDroppedUnasked` | no unforced push drops a commit | none |
| `RemoteProofs!ObjectsBeforeRefs` | what a ref leads to is there, while packs are built, copied and deleted file by file | none (`RefsWhole` excepts who is excused) |
| `SequencerProofs!SequencerTyped` | types: what is picked has a parent, a tree to check out has no conflict | none |
| `SequencerProofs!AbortGoesBack` | `--abort` restores branch and index and leaves no state | none |
| `SequencerProofs!SavedBeforeMoved` | before a pick moves the branch, the state on disk can undo and resume it (`WrittenAhead`) | none (`WrittenAhead` and `FinishedApplied` except torn saves) |
| `SequencerProofs!NothingSkipped` | a sequence that ends well has dealt with all it was asked for | `CommitsFirst` |
| `WorkTreeProofs!TypedStays` | what the user typed is in a file, the shadow directory or a blob | none (`EditsKept` excepts what was given up and what a stat hides) |
| `WorkTreeProofs!FailuresKeep` | a refused or rolled-back checkout changes nothing; a failed rollback keeps the originals | none (`FailureKeeps` excepts files a forced creation replaces) |
| `WorkTreeProofs!CommandsDo` | a switch arrives, a pop right after a push restores | none |

**The hypotheses, and what happens without them.**

- `OnlyHeadSymbolic` (files): branches and tags hold object ids, HEAD is set without an
  expected old value. That is what every command but `symbolic-ref` on another name and
  `update-ref HEAD <new> <old>` does. Without it the expectation is compared with a ref
  whose lock nobody holds (section 6).
- `SafePacking` (files): one of three regimes. No pack-refs, and nothing packed at
  first; or pack-refs without pruning beside any updates but deletes, over a packed-refs
  whose refs have loose files; or one pack-refs, pruning or not, beside reflog deletes,
  over any mixture of loose and packed refs. Each clause is there because of a
  divergence of section 6: a packed value is not seen by the comparison, a delete leaves
  it, an unlocked prune undoes an update (run `pack_drops_update`), two packers share
  one `packed-refs.lock`. The instance of the run `refs` satisfies it scenario by
  scenario, in all three ways.
- `[]OneWriter` (reftable): at most one process between lock and rename. The code means
  its lock to see to that and, with three processes, does not: every transaction
  unlinks the lock's path on its way out, a peer's included.
- `PlainCommands` (reftable): a transaction names each ref once, and one that sets HEAD
  logs updates of no other branch than the one HEAD is made to name. Most commands
  submit one operation; clone, with the longest transactions, logs the one branch it
  points HEAD at (`clone/network.rs:385-470`, `clone/local.rs:519-545`).
- `[]Apart` (object store) names the moments at which the code, which has no lock here,
  must be left alone; outside them any processes overlap in any way. Each clause
  excludes a loss the code does have. `WritersApart`: no two processes write one object
  at once, for its temporary file is the same path and the rename of one may publish the
  other's half. `GcApart`: a gc that found packs runs alone until it has deleted them,
  for it reads refs before the index, and a commit with a reset or an add in between
  takes a packed blob out of its sight. A gc that found none deletes only what it has
  packed, and needs nothing. `PruneApart`: prune runs alone, for it deletes what is
  written and not yet referred to. `PrunePackedApart`: no gc has died between the two
  files of a pack while prune-packed runs, which trusts an index without its pack.
  `CommitsStaged`: nobody commits an index from before a prune, which has deleted what
  was staged. A behaviour of one user at a time, with gc and prune in between, satisfies
  all five unless a command dies at one of two places, and so do behaviours of many
  users who write different objects while a first gc packs.
- `Shaped` (children, in `ChildrenAssumption`): a check of a signature only warns, and
  after the work of a command come only hooks that report and get no input if their
  absence matters. `CommandsShaped` shows it of the commands as they are coded.
- `CommitsFirst` (sequencer): the user commits the resolution of a conflict before
  `--continue`. Without it the pick is dropped: `--continue` takes it to be committed
  and does not look (section 6).
- `SequencerAssumption` says of the constants that the branches known at first share a
  root and that what cherry-pick and revert are given has a parent, for the model picks
  no root; `Word` is only what messages are made of.
- `WorkTreeAssumption` says of the constants that what the user types is content of a
  file, a directory is not, and `None`, trees, contents and branches can be told apart.
- `[]HeadResolves` (reftable): HEAD leads to a commit or to a branch still to be born in
  at most five steps; it follows from `OnlyHeadSymbolic`.

**The arguments.**

- *Lockfile.* Exclusion is not inductive by itself: that an unlink or a rename by path
  hits one's own file needs to know that each lock file's maker still owns it or died
  owning it, that nothing is drained, and that prune-locks has judged only dead makers'
  locks (`LockInv`). The data half adds that what was read under the lock is still what
  the target holds, and that a finished lock file carries it (`DataInv`), and uses the
  first half.
- *Refs under lock.* `LockDiscipline` is inductive once one knows what a process's
  variables hold at each control point (`PhaseOK`: a resolved old value is an oid, the
  queue is not empty while its first operation is applied, a collected map has no
  symbolic refs).
- *Reflogs of files.* Lines are appended after the lock is gone, so at any moment some
  updates are not told yet. `LogInv` matches updates one to one with the lines there and
  with the processes that still owe one (`Told`: there are two injections with disjoint
  images that cover the history). When all have ended nobody owes, and the matching is
  the permutation `LogComplete` asks for.
- *Atomic refs.* `AtomicInv` says that only HEAD is symbolic (`SymOK`), that queues and
  outcomes go with the control points (`KindOK`, `QueueOK`), that what was compared is
  still there when the rename comes (`CheckedOK`, by `LockDiscipline`), and, regime by
  regime, what packed-refs, its lock and a packer's map may hold (`PackOK`): nothing; or
  only refs that have a loose file, now and for good; or, for a lone packer, exactly
  what refs resolve to. Hence where transactions run the composite view is the loose
  files (`ViewIsLoose`), the rename is `AtomicRefs!Apply`, and every step of pack-refs
  is a stutter (`PackingView`).
- *Reftable.* `WriterInv`: what the writer has read is the list as it is, tables are
  increasing in their update indexes and the new one is above them, and the lock's text
  is the list with the new table. So the view after the rename is the view before it
  with the batch applied (`AtomicRefs!After`). For the reflogs, a table's entries are
  related to the views below and at it. `OwnerInv` shows that of two processes only one
  can find its lock removed, by the other on its way out for good.
- *Object store.* That all that is live can be read is not inductive: what a command is
  about to make live must be readable too, and a gc must not delete on the strength of
  marks that are out of date. `Inv` adds, per command, where it is: what it still writes
  and has open (`WriteOK`); that the blob, tree and commit an add or commit holds are
  written but for the rest of `towrite` (`AddOK`, `CommitOK`, `ResetOK`); that the packs
  there are those a gc found and its own (`GcPacksOK`), and that its marks contain all
  that is live from the moment it has walked (`GcMarksOK`), so do prune's (`PruneOK`),
  and that prune-packed drops only what a whole pack holds (`PrunePackedOK`). Each step
  of one process leaves the others' parts alone by a clause of `Apart` or because an
  object once readable stays so (`AvailableKept`); reachability is by histories as lines
  of any length, so no depth is fixed.
- *Children.* `CommandOK`: what is left of a running command is a part and what follows
  it, and after the work only reports remain. `PlaceOK`: with a child there, the parent
  is at a place of the part's program, with nothing left to write to a child that gets
  no input. `ToldOK`: of what has been told so far, a veto is the last and comes before
  the work. `EndOK` says of a command that is over what `ChildrenHeeded` asks. Each step
  of the parent, of the thread that drains and of the child is a lemma.
- *Remote.* A push's compared value is still there when it writes, for it holds the
  ref's lock (`MoveInv`), so a plain update is from an ancestor; over the network the
  server compares in the same step. `HeldOK` traces each value a command has read to a
  moment the hub held it. For `RefsWhole` the invariant speaks of *complete* commits,
  those whose whole history is there (`Complete`), since a store may keep commits
  nothing leads to and whose parents are gone: copying, packing and receiving only add
  complete commits, and refs only take complete values (`WholeInv`). While a push builds
  its pack, its new values are complete in what the hub has and the pack together; from
  the .idx on, in the hub (`HubOK`). What a gc goes on with has all that refs name,
  unless one has moved meanwhile, so what it keeps is whole. A clone that is copying has
  no refs and may hold anything (`Unmade`); what it cannot miss has all that the hub's
  refs name.
- *Sequencer.* Three invariants, each resting on those before it. `Typed`: most of it is
  that commits made by merging, replaying and settling conflicts are commits again, and
  that `MergeBase` of two branches with one root is not empty. `Undoable`: memory and
  disk name where the sequence began (`OrigKept`), and an abort under way has undone
  what its position says (`AbortOnTheWay`); hence `AbortRestores`. `Resumable`: unless a
  crash tore a save, the state on disk is whole (`DiskWhole`), a save has written what
  is in memory as far as it has come (`SavedSoFar`), and in the loop the todo list on
  disk is the one in memory (`MemKnows`). The heart is `Covers`: each commit asked for
  is dealt with, or still to do, or the current one. It holds of memory and of disk, and
  a step may take a pick off the list in memory only after dealing with it, and a save
  may replace the list on disk only by such a one; that no crash comes between is never
  needed. All three are invariants of the run's instance too, with two crashes.
- *Working tree.* `Sound`: every content the index, the branches and the stashes name is
  in the object store, and every file that a step still to come may overwrite or unlink
  is `Harmless`, its content being stored, given up or hidden. The plan establishes the
  latter from the checks before the first file is touched (for `push`, from the blobs it
  has written), and it must last until that step, over failures and crashes: this is
  what `EditsKept` cannot say of itself. The other two properties speak of a command
  that is over, so `Traced` follows it from its start: where each original is
  (`Originals`: in place, in the shadow directory, or given up), how far moving aside
  and placing have come (`Forward`), and that a rollback has still to move back exactly
  what is in the shadow directory. A pop makes two checkouts, of the files and then of
  the index alone; its trace (`PopTrace`) starts where the push's (`PushTrace`) left
  files and entries, through `ghost.pushed`. Both are invariants of the run's instance
  too.

**Only model-checked.** `ImplementsAtomicRefs` and `PackPreservesView` beyond the
hypotheses are not true. `PicksOnceInOrder`, the other half of `PicksSafe`, is checked
(with two crashes as well) and not proved: that a pick made again after a crash is found
to be empty depends on the contents of files and on what the user commits in between,
with the markers each crash may leave in files and in CHERRY_PICK_HEAD; an invariant
would have to describe them for any number of crashes. What `LinkedWorktrees`, `Notes`
and `Names` promise has no proof: it is about paths resolved, trees split into levels
and short names looked up, which recursive operators compute. Out of the prover's reach:
liveness under fairness (`StaleLockCleared`, `CommandsEnd`), and what recursive
algorithms compute over data (`LineDiff`, `AddPatch`, `FileMerge`, `TreeMerge`, `Blame`,
`Packs`, `BinaryFiles`, `History`, `CommitGraph`, `Bisect`, `Patterns`, `Settings`,
`Names`, `Wire`): they are RECURSIVE operators and folds, checked over every small input
instead.

## 5. Plan

1. *Proofs*: the parts of `WorktreesWhole` and `NotesTruthful` that do not rest on
   recursive operators, once those are functions; `PicksOnceInOrder` for one crash.
2. *Model*: two gcs at once; two processes on one stash; a configuration
   file with two editors; directories in the way of files in `WorkTree`; reflog expire.
3. *Compositions*: `Remote`'s hub over `RefFiles` instead of one lock per ref.

## 6. Divergences without a run of their own

Seen while modelling: where the code does something else than its comments, docs or git
say, or than one would want. Those marked * are what a property sets apart by name.
`NON_GOALS.md` is at the root of the repository.

*Refs and locks.* An expected old value is compared with the loose file only, so a
packed tip reads as missing and a correct update is refused (`refs/transaction.rs:208`,
comment at :205 "Reading both loose and packed"). Deleting a ref leaves its packed value
(`refs/transaction.rs:301`). `packed-refs.lock` is opened with `File::create`
(`cli/pack_refs.rs:84`), which truncates a peer's; pseudo-refs are packed and unlinked
(:55). An expected value on HEAD is compared with a branch nobody has locked.
`update-ref HEAD` does not dereference (`refs/transaction.rs:195`,
`cli/update_ref.rs:26`). `reflog delete` rewrites without a lock*
(`cli/reflog.rs:103-125`). SIGINT between creating a lock and registering it leaves it;
between rename and unregistering it removes a peer's* (`lockfile.rs:140, 207`). The
index is read before it is locked, so overlapping edits are lost*
(`index/mod.rs:176-209`).

*Reftable.* tables.list.lock is unlinked by path after the rename consumed it: with
three committers two then write tables.list at once and a batch is lost
(`refs/reftable/transaction.rs:276`; the run has two). The lock is not in the SIGINT
registry and `prune-locks` does not know it; tables.list is created non-atomically
(`refs/reftable/mod.rs:62`); `random_suffix` drops the process id
(`refs/reftable/writer.rs:318-328`); a refresh that fails after the commit reports an
error. `write_table_file` writes one block of refs of any length under a block size of
4096, and the reader looks for the next block at byte 4096 of the file
(`refs/reftable/writer.rs:180-188`, `reader.rs:166-203`): when a table is longer, which
takes a transaction of some hundred refs, and has an `r` there, every ref of the stack
becomes unreadable ("ref block extends past EOF") or gets made-up company* (the header
of `writer.rs` speaks of "small transactions"). A new table is renamed into place
without fsync (:296-306); cut by a power failure it is refused, and with it the stack.

*Index.* The TREE extension of an index is kept in memory and written back as it was
read (`index/mod.rs:295-302`), and no edit of the entries invalidates it (:313-331, and
nothing else under `src/` touches `cache_tree`): after `add` or `rm` in a repository
where git has written a tree, git may take the old tree for that of the new index.

*Objects and packs.* gc marks refs and then the index without a lock: a blob that moves
from index to branch in between is missed, and deleted when an earlier pack held it
(`reachable.rs:58`). One temporary name per object (`odb/loose.rs:163`) and one for all
packs* (`pack/build.rs:110`, run `torn_pack`), which the removals of a gc take from
whoever is writing it (`cli/repack.rs:122`, every `.pack` and `.idx`). gc drops
unreachable packed objects although its comment keeps them (`cli/gc.rs:9-11`,
`cli/repack.rs:118-133`), and ignores reflogs and other worktrees; `prune` ignores the
index* (`cli/prune.rs:170-213`); `prune-packed` trusts an index file without its pack
(:86-96). A process that listed the packs before a gc cannot find what was re-packed
(`repo.rs:147`). A ref delta's base is looked for in the same pack only, and its absence
ends `ObjectDb::read` even when a later store has the object (`pack/store.rs:9-12` says
ObjectDb resolves across packs); `unpack-objects` resolves ref deltas through the
database only, so `-n` or a base later in the stream fails. The index of several packs
is written and never used for reads, and stays when repack removes its packs.
`refs/replace` is honoured by no reader; `index-pack` builds no index; `pack-objects`
given an id twice writes it twice.

*Sequencer.* Following the printed hint (resolve, add, continue) drops or repeats the
pick (`sequencer.rs:535`). After a conflict `--abort` does not restore files only the
picked commit changed (:655). A conflict is written over local edits (:262). Rebase
moves the branch before it saves its state, so a refused checkout leaves a moved branch
and nothing to abort (`cli/rebase.rs:173`). A save torn by a crash can leave a state
that neither continues nor aborts*, and a missing `mode` turns a revert into a
cherry-pick (:378). Continue and abort act on whatever branch HEAD names then (:501);
`-m` is not kept for `--continue`.

*Merging.* `add` of a conflicted path leaves stages 1 to 3, so `commit` refuses the
resolved index until `rm --cached` (`cli/add.rs:174`, `cli/write_tree.rs:53`). `merge`
does not check dirty files before writing markers and may be run over an unfinished
merge. A conflicted merge or pick writes only files merged line by line or added by
both: paths taken from theirs or deleted stay as ours in the working tree
(`cli/merge.rs:317-351`, comment :11-14). A mode that only theirs changed is lost where
both changed the content* (`merge/tree.rs:169-176`, doc :37-38); the symlink arm of
`merge_all_three` is dead code (:386 before :399); a file and a directory of one name
yield a tree with both (doc :32-34). A symlink added by both is written through the
link. A merge that brings a new submodule commit fails at checkout, for the commit is
looked for in the superproject (`unpack_trees.rs:374`); one added by both fails after
other files were written.

*Status and diff.* An unmerged path is listed as conflicted and as untracked, and one
absent from HEAD only as untracked or not at all* (`worktree/status.rs:117-150`:
"Conflicted entries override everything else"); submodule directories always show "type
changed". `apply` of several files takes the `--- a/x` header of the next for a deletion
line and rejects all but the last (`cli/apply.rs:159-173`); `-p1` strips a component
after `a/` was trimmed (:112-121); deletions write `dev/null`; `-R` of several hunks
uses old positions; an insertion past the end panics; a `+` line always gets a newline;
`--index`, `--cached`, `--3way` are ignored. `add -p`: a missing final newline is
recorded (`add_patch.rs:45-47`) and ignored; a split piece that only adds lines is
misplaced* (:279-282); `q` stages what was chosen before. Rename pairing treats symlinks
as renameable.

*Blame.* With `--follow`, lines that are still unattributed when the walk ends are told
under the path that was asked for, not the one the file had there
(`blame.rs:342-355`, against :30-34 and :66-69); a submodule on the way ends the command
with an error.

*Working tree.* Every entry is stamped with the stat of the file that lies there,
whatever its content: after `reset --mixed`, `read-tree`, `restore --staged` or a pick
an edited file looks clean and a plain switch overwrites it* (`unpack_trees.rs:458`,
contradicting :5-6). `reset --hard` and `checkout -f` skip dirty paths whose entry
equals the target (`cli/reset.rs:37-39`). A forced creation does not move the untracked
file aside, so a rollback loses it*. A busy index.lock after the files are switched
leaves the work changed (doc `unpack_trees.rs:145-153`). `switch -c` creates the branch
before a checkout that may be refused (`cli/switch.rs:155`). `stash push` overwrites an
untracked file left by `rm --cached`; pop forces its tree over local changes*, drops
staged deletions, and fails half-way at "already exists" for good; `stash drop` rewrites
reflog and ref without a lock (`cli/stash.rs:641-690`). `clean -f` without `-d` deletes
files inside untracked directories (`cli/clean.rs:3-4`). `mv` and `rm` change files
before the index is written. `prune-locks` deletes `checkout.tmp.*` with the originals
in it.

*History.* `is_ancestor` misses ancestors under skewed clocks* (documented). `rev-list
A..B` pushes the range as starts without excludes (run `rev_list_range`), and an empty
range, which leaves no start, prints the history of HEAD (`cli/rev_list.rs:70`);
`A...B` is taken as `A..B`; name-rev labels paths over second parents with `~N`;
describe counts distance by breadth; only `log` knows shallow boundaries. Bisect:
contradictory marks report bad as the first bad; the checkout is forced and its failure
ignored* (`cli/bisect.rs:284`); a killed reset leaves stale marks* (`bisect.rs:166`).

*Notes.* A packed notes ref cannot be updated any more, and a process that found no ref
overwrites first notes that were packed meanwhile* (the ref's value is compared with the
loose file only). `notes.rs:163-167` says the ref is deleted with the last note; the
code writes a commit of an empty tree. Entries that are no notes are dropped at the next
write (:300-320 "stay forward-compatible"). `notes merge` makes a commit without the
merged parent, signs with gpg whatever `commit.gpgsign` says, and is not idempotent
under union; the header of `cli/notes.rs` calls it deferred. A command that leaves the
tree as it was does not compare the ref.

*Linked worktrees.* HEAD and all refs are the main repository's (run `linked_head`;
`NON_GOALS.md:507-508, 525-526, 572-574`). A relative path is stored as typed and
resolved against the reader's directory*: `prune` from elsewhere drops a living worktree
(`cli/worktree.rs:11-12`), `remove` and `repair` may hit another directory. A branch
checked out elsewhere is not refused when named (:65-66); `remove` ignores dirtiness
(:9-10); `prune` and `remove` ignore `locked` (:89); `repair` cannot mend a hand-moved
worktree (:109); a move killed after the rename leaves an entry for prune to take*; two
adds of one name at once share an entry; `add -b` leaves the branch when the name is
taken. Commands that read configuration through `repo.gitdir()` read the wrong directory
in a worktree. gc of the main worktree looks at no linked index or HEAD.

*Push, fetch, clone.* `--atomic` is documented as forwarded (`cli/push.rs:23-24`) and
never requested; the header of `push/local.rs` says refs are updated atomically, they
are applied one by one; a push found up to date does not touch the tracking ref
(`cli/push.rs:29-30` says always). A forced push over an old tip the client lacks fails
(`push/network.rs:411`, doc :396-397); pushes with nothing to send have no pack (:435
against `send_pack.rs:128-131`). A clone by path copies objects file by file before it
reads refs*; fetch takes one object for the whole history* (`clone/network.rs:691`),
overwrites local tags and keeps tracking refs of deleted branches. `pull` is a stub.

*Transport and children.* An SSH connection refuses a second request, so clone over ssh
always fails (`transport/ssh.rs:291`, `clone/network.rs:193, 214`). On a malformed
advertisement :267 joins the stderr thread with the child's stdin open and both wait for
ever*. A helper that writes much to stderr blocks*, for stdout is read to its end first
(`credential.rs:357`). A hook that does not read its payload fails the command (EPIPE)
although it exits 0 (`hooks.rs:169`); payload and output both larger than a pipe block*.
A post-commit hook that cannot start makes `commit` fail after the commit was made
(`cli/commit.rs:294`). `fill_credentials` has no caller; there are no timeouts.
`pkt_line.rs:20` says 65516 where the constant is 65531; `http://` is accepted by the
dispatch and refused by `HttpConnection::new`; unknown schemes are taken for scp forms;
`insteadOf` is looked at after the raw URL chose the route (`transport/mod.rs:59-62`).
Answers cut between two packets are accepted* (refs missing; an advertisement cut before
object-format is taken for sha1; a push advertisement cut after its header for an empty
repository).

*Settings and names.* `config` takes no lock and writes in place (`config.rs` says
mutations go through Lockfile). `config a.b.c.d v` makes the file unparsable; a set
replaces the first of repeated keys while a look-up takes the last, is case-sensitive,
overlooks a header with a comment behind it and so may overwrite another section's key,
and writes values unquoted; `--add` sets. Blanks at the end of a quoted value are
trimmed (comment at `config.rs:646-650`). autocrlf normalises in `add` and not in
status. An e-mail with `<` or `>` and offsets of 100 hours are not read back. A chain of
10 aliases that ends well is called a loop. A hex prefix wins over a branch of that name
(`revparse.rs:200`); `~N` above 32 bits counts as 1; `branch n <tag object>` makes a
branch at a tag; abbreviations are 7 digits, unique or not. `branch -m` is three
transactions (`cli/branch.rs:318-344`). `check-ignore` reads only two ignore files and
takes every path for a file; wildmatch has no POSIX classes. The pathspec `:/`,
"everything from repo root" (`pathspec.rs:8`), becomes an empty literal that matches no
path; `GlobsTruthful` asks nothing of it.

## 7. Not modelled

- *Interactive rebase and am.* Both are straight-line programs that stop for good at
  what the models of the sequencer are about, so there is no protocol to check: `rebase
  -i` moves the branch to upstream without index or files, keeps no state but the todo
  file and loses the rest at a conflict ("continue deferred"), drops the commits of
  squash and fixup (`cli/rebase_interactive.rs:150-154` says "degraded to pick") and may
  loop for ever in autosquash; `am --continue` applies the patch it stopped at again,
  `--abort` leaves commits made, and a refused commit is ignored.
- *Byte formats* of single objects and pkt-line headers, compression and hashing:
  sequential conversions without state, better served by tests against git. Of tables,
  blocks of objects and indexes, which the program neither writes nor reads.
- *Output*: formatting of diffs, logs and blame, translations, tracing; tests, fuzzing,
  website and tools.
- Within modelled components, as `PROJECT.json` says for each: directories in the way of
  files, modes and symlinks in `WorkTree`; merges, roots and `-m` in the sequencer;
  reflog expire; two gcs, two stashes, two configuration editors at once; HTTP.

Two things are abstracted everywhere: the time a lock or a file carries (`prune-locks`
judges a lock's age, the model its maker's death), and permission or disk errors other
than the failures named as actions.

## 8. Running

Inside this directory: `tlc -workers 2 -config MCRefFiles.cfg MCRefFiles`, `tlapm
RefFilesProofs.tla`. The runs, their configurations and mutants are listed in
`PROJECT.json`; the longest runs (`objects`, `commands`, `tips`) take two to
three and a half minutes each with two workers.
