# A verification model of debase

debase is a terminal program that edits git history with the mouse: commits are
dragged between branches, combined, edited and deleted, every change can be undone,
and the undo history of every branch survives the program. This directory holds TLA+
modules that model its own code (`src/src`), TLC configurations that check them on
small instances, and theorems with proofs that TLAPS checks.

`PROJECT.json` lists, for every definition that models code, the lines it models; the
runs and their properties; for every property, a plausible bug that it catches; and the
hazards of the code that the properties are about.

## The system

| Component | State | Operations | Hard parts | Modules |
|---|---|---|---|---|
| `T_History` (`History.h`) | undo stack, current element, redo stack | push, prev, next | a push must forget the redo stack | History, Timelines |
| `App`, refs (`App.h`) | `_head`, `_headReattach`, `_revs` | the handlers that change refs: move, copy, combine, edit, delete, undo, redo, snapshots, create, rename, delete a ref; start and exit | HEAD is detached while its branch changes and comes back at exit; handlers that throw half way | Session |
| `App`, window (`App.h`, `ui/RevColumn.h`) | columns, `_selection`, `_drag` | press, drag, drop, click, selection rectangle, keys, menus, undo, rename, resize | an exception out of a drag; a selection that outlives its commits; columns that skip commits | Columns |
| `RepoState` (`state/State.h`) | `_loadedRefs`: history and snapshots per ref; the file `Repo/<path>/State` | load, history, snapshotInitialPush, refReplace, refRemove, write | several processes on one file; crash while writing; refs moved by git between sessions | Session, RepoStore |
| version lock (`state/State.h`) | the file `Version`, a `flock()` on it | AcquireVersionLock | created and locked in two steps | RepoStore |
| `State`, `Theme`, the move offer (`state/`, `App.h`) | theme, lastMoveOfferVersion; the file `State`; the executable | ThemeRead, ThemeWrite, `_moveOffer` | the lock is held up to 500 ms while the terminal is asked; read, dialog, write; copy, then remove | Settings |
| `Git::Modify` (`git/Modify.h`) | none (functions on commits) | add, remove, move, copy, combine, edit commits | keeping order while removing and inserting; the root commit; a second `refReplace` that fails | Modify, Rewrites |
| author and date text (`git/Modify.h`, `git/Git.h`) | the text in the editor | render, read back, amend | any line may be gone or be taken for another; the sign of UTC offsets | CommitText |
| conflicts (`git/Conflict.h`, `App.h`, `ui/ConflictPanel.h`) | hunks and choices | parse, choose, edit, write back | the editor in the middle of the choices; lines that look like markers; a side without the file | ConflictText, Conflicts |
| name field (`ui/TextField.h`, `UTF8.h`) | value, cursor, left offset, focus | keys, mouse, layout | offsets in bytes of a field that is scrolled | TextField |
| `Git::Repo` (`git/Git.h`) | the repository, through libgit2 | refReplace, refCopy, refDelete, headDetach, headAttach, checkout, reflog | checkout that refuses to overwrite files | in Session |
| launch (`main.cpp`) | arguments | choose the revs from the arguments or the reflog | deleted refs, duplicates | in Columns, Session |
| view tree and drawing (`ui/`) | layout | layout, draw, hit test | none that outlives a redraw | none |
| terminal, PATH (`Terminal.h` and others) | process-wide settings | query, spawn | one-off I/O | in Settings, in part |

`lib/` is vendored (libgit2, ncurses, a JSON parser; `toastbox` is an empty submodule)
and is external to the model. The repository has no unit tests; `src/notes/TestChecklist.txt`
lists what its author tests by hand, and several properties come from it.

How they interact: `main` chooses the revs and constructs `App`; `App::run` reads the theme
and `RepoState` (each taking the version lock), shows one column per rev, offers to move the
executable, and handles events. A handler calls `Modify::Exec` or `Git::Repo`, which change
refs; a conflict on the way runs the panels and the editor, in a nested event loop; an edited
commit runs the editor. The handler then pushes the new state of each changed ref on its
history in `RepoState`, with what was selected, pushes the state the ref had at launch on its
snapshots, and reloads every column. At exit `RepoState::write` merges the changed histories
into the file and HEAD is attached again.

How the modules are composed: Timelines is the abstraction that Session implements, StoreAtomic
the one that RepoStore implements. Rewrites says in one step what an operation makes of refs:
Modify shows that the loops of the code compute it, and Columns uses it for what happens in the
window. Columns also keeps its histories with History, as Session does. Conflicts resolves what
ConflictText parses. The interfaces between the parts are narrow: Session takes an operation as a
rewrite to any commit, Modify takes a conflict as resolved or cancelled, and Columns takes no
operation that fails.

## The modules

### History

The two deques and the current element of `T_History` as a record; pure operators. The
front of a deque is the head of a sequence.

### Timelines (abstract)

What undo promises, without debase's data: every ref has a timeline, a past, a present and
a future. The present is what git says. Edits move the present to the past and forget the
future, undo and redo walk along it, and neither the end of a session nor the start of the
next changes any timeline.

### Session

One repository and the sessions that run on it, one after another. Variables: git's refs,
HEAD and work tree; the state file (`disk`); the fields of `App` (`head`, `headReattach`,
`revs`, and `frozen` for the `DisallowedUncommittedChanges` of the branch with uncommitted
changes) and of `RepoState` (`loaded`). Two ghosts serve the properties only: `torn` (refs a
failed handler changed without recording it) and `checkedOut`.

A step is a complete handler:

| Action | Code |
|---|---|
| `Rewrite`, `MoveBetween` | `_gitOpExec` with `Modify::Exec`: one or two `refReplace`, HEAD detached, histories and snapshots pushed, `_reload` |
| `MoveFailsHalfWay`, `ReplaceFails` | the second, or the only, `refReplace` throws |
| `UndoRedo`, `RestoreSnapshot`, `RenameRef` | `_undoRedo`, `_trackSnapshotsMenu`, the column's name field; all restore a ref to a state through `_refStateRestore` and `_gitRefRename` |
| `FailedRestore` | the commit was replaced, then the rename found its name taken |
| `RevCreate`, `RefDelete` | `_revCreate`, `_gitRefDelete` |
| `Resize` | a window resize: `_reload` |
| `Launch` | `run` up to `track`: `headResolved`, `RepoState`'s constructor, `dirty` |
| `Exit`, `ExitLeavesDetached`, `Crash` | the end of `run`: `write`, `headAttach`; write may throw, checkout may refuse, the process may be killed |
| `GitWrite`, `GitCheckout` | git used between sessions (external) |

Abstractions: commits are opaque, so a rewrite may give a ref any commit; refs are local
branches; the selections carried by history elements and revs with a skip (`main~4`) are
Columns'; commit-only revs are left out, as is the reflog heuristic of `headResolved` for a HEAD
that was detached on a branch or on a tag; snapshots are sets of ref states (times only
break ties between equal states); a commit named by the state file can always be looked up.
git is used only between sessions, and sessions do not overlap: that is `RepoStore`. The
rename is one step.

### StoreAtomic (abstract)

What the state file promises: one store of histories that each session loads and saves
atomically, where saving touches only the refs that the session created or changed.

### RepoStore

Several processes on one state file. Each runs once: `Launch` (the refs are looked up by
`main`, the version file is created empty), `Lock` (`flock`, then the version is read or
found missing), `Load` (the constructor), `Edit`s, `Quit`, `Lock` again, `Read`, `Truncate`
(`std::ofstream`), `Flush` and unlock; `ReadFails` when the file is torn; `Crash` anywhere.
What is buffered in a stream (the version, the new state) reaches the file when the stream is
destroyed, which is before the descriptor with the lock is closed. A history is the sequence
of the commits a ref had; `log` is the true one, kept as a ghost, and `shared` collects the
refs for which the code promises nothing: shown by two sessions at once, or by a session that
did not save.

Abstractions: undo and the other operations (Session has them); only the current state
version exists, so there is no migration and no newer version.

### Rewrites

Commits and operations, without steps: what a move, copy, delete, combination or edit makes of
the refs (`Asked`) and of the selection (`AskedSelection`), said by index; `_MoveIsNop`. A patch
is the sequence of its changes, a commit the sequence of the patches from the root to it, so that
a patch put on another parent is another commit, and putting it back where it was gives the same
one.

### Modify

`Git::Modify` seen from inside: what Session takes as one rewrite to any commit is here the run
of its loops. The variables are the selection of `App`, the operation (`Modify::Op`), the
arguments of `_AddRemoveCommits`, and the local variables of its loops and of
`_CombineCommits`'.

| Action | Code |
|---|---|
| `Select`, `Deselect` | `_trackSelectionRect` and clicks |
| `Move`, `Copy`, `Delete`, `Combine`, `Edit` | the operation as `App` allows it, up to the first loop; where a drag may start and where it may be dropped |
| `Sort`, `SortEnds` | a round of `_Sorted`; its end |
| `Walk`, `WalkEnds` | a round of the loop of `_AddRemoveCommits` that looks for the insertion point and the commits to remove, with its assertions; its last round |
| `Apply` | a round of the loops that put commits on a new parent |
| `Gather`, `GatherEnds`, `Integrate`, `IntegrateEnds` | the loops of `_CombineCommits` |
| `SourceReady` | `_MoveCommits` between refs: its second call |
| `LastCommit`, `Cancel` | "can't delete last commit", "can't move last commit"; `ConflictResolveCanceled` |
| `Replace` | `refReplace` of the one or two refs, and the new selection |

`Height` is the number of commits that fit in a column (`RevColumn::reload` makes panels for
those only).

Abstractions: no merge commits; every patch applies anywhere, the user resolving a conflict or
cancelling (how is Conflicts' matter); a commit is edited once (how is CommitText's); the
failures of `refReplace` are Session's; undo and columns with a skip are Columns'.

### Columns

The window of one session: the revs and the columns that show those of them that fit, the
selection, the drag, the histories with the selections they carry. What an operation does is
`Asked`.

| Action | Code |
|---|---|
| `Press`, `Drag`, `ReleaseDrag`, `ReleaseStaleDrag`, `Click`, `ReleaseNothing` | `_trackMouseInsideCommitPanel`, event by event, with `_findInsertionPosition`; a click, a double click |
| `SelectRect`, `ContextMenu` | `_trackSelectionRect`, `_trackContextMenuCommitPanel` |
| `Key` | Delete, C and Return, and the menu items that do the same |
| `Branch`, `Duplicate` | `_revCreate` from a selected commit, from a column |
| `UndoRedo`, `Rename`, `RefDelete` | as in Session, with what they select |
| `Resize` | `WindowResize` thrown out of whatever runs, then `_reload` |
| `Init` | the launch: the revs of the arguments or the reflog, unique, read-only where there are uncommitted changes |

`phase = "aborted"` is `abort()` in `_panelForCommit`, or the assertion of `_revCreate`.

Abstractions: what the mouse is over is any panel and any insertion point `_findInsertionPosition`
could choose; a name that is taken is not entered (the alert); operations that fail or are
cancelled leave everything as it was and are Session's and Modify's matter; the snapshots menu is
Session's; refs without a column's rev, merge commits and revs without a ref are left out.

### ConflictText and Conflicts

ConflictText has `git/Conflict.h`: the merged text with tagged markers, the parser
(`HunksFromConflictString`), what is shown in the editor (`ConflictStringFromHunks`) and the
contents of a side. A text is a sequence of lines. What libgit2 merges is a sequence of segments
on which the sides agree or differ (external).

Conflicts has the loops over files and hunks (`NormalHunk`, `Present`, `Choose`, `FileEnds`), the
editor (`OpenEditor`, `EditorReturns`, `EditorFails`), its two alerts (`EditAgain`, `Dismiss`),
`Cancel`, and `TakeTheirs` for the merges that favour a side. The user's editor returns the text
resolved by hand in each way the hunks suggest, or one of `Texts`.

### CommitText

`_EditCommit`: a commit is rendered (`Open`), lines of the text are changed by the user
(`WriteAuthor`, `WriteDate`, `DeleteLine`, `WriteMessage`, `Swap`, `Unprefix`), and the text is
read back and the commit amended or left alone (`Leave`). `ZoneText`, `ZoneNumber` and
`ZoneOffset` are the conversions of UTC offsets, digit by digit, since a property is about them;
calendar dates are the seconds that `gmtime_r` and `timegm` convert them from and to.

### TextField

The name field over bytes: `_offLeft` and `_offCursor`, every key, a codepoint that arrives byte
by byte, clicks and drags, and the columns' use of it (`Blur`, `Escape`, `Return`, `TabFocus`).
The tree is laid out before every event, which clamps the offsets. `slipped` is history: the view
did not follow a deletion (below). Its specification is `FieldSpec`, so that one module can extend
it and CommitText.

### Settings

The `State` file, under the same lock as RepoStore's, for sessions and runs of `debase --theme` that
overlap, and the executable that `_moveOffer` copies and removes. A run goes through `ThemeRead`,
`TerminalAnswers` or `TerminalFails`, `OfferCheck`, `OfferAnswer` or `OfferQuit`, `OfferRecord`,
`CopyOpen`, `CopyEnd` or `CopyFails`, `Remove`, `End`; each write is `Truncate` and `Flush`, or
`FlushIsLost` on a full disk, which a stream that is destroyed does not report; `Kill` anywhere.
The checks of PATH, HOME, the shell and the executable's name are one choice; fields of the file
that no code uses are left out.

## What is checked

All runs switch deadlock checking off: a user may stop using debase, the number of sessions
is bounded, and each process of RepoStore and Settings runs once. Modules that have an `instance`
variable check several small instances in one run, each bounded in another direction.

| Run | Instance | Shows |
|---|---|---|
| `session` | 2 sessions, 2 names, undo depth 1; 1 session, 2 names, undo depth 3; 1 session, 3 names, undo depth 1; 2 commits, 1 disturbance | the inductive invariant and every property of Session; it refines Timelines |
| `store_sharing` | 3 processes on 1 ref with 2 new commits, or on 2 refs with 1; 2 processes on 2 refs with 2 | the lock discipline, unshared histories, refinement of StoreAtomic, every wait ends |
| `store_overwrite` | the same | finding 1 (violation) |
| `modify_operations` | 2 branches and a read-only tag of up to 4 commits, 2 operations | the loops against `Asked`, their assertions and their end |
| `modify_clipped_column` | 2 branches, 1 commit shown, 1 operation | finding 2 (violation) |
| `columns` | 1 operation on 3 commits with a resize, uncommitted changes, or a column of `main~1`; 2 operations on 2 commits, with 2 columns, one of which may skip | the columns, histories and selections stay those of git's refs |
| `columns_resize` | the same | finding 3 (violation) |
| `conflicts` | 1 file of every kind, or 2 files of 4 kinds, marker-like lines, both layouts | each file gets what was chosen, in order |
| `commit_text` | every offset of -14:59 to 14:59 for a commit left alone, 65 offsets for commits that are edited in 2 lines | what is left alone stays, what is written is taken |
| `commit_text_zone` | offsets of whole hours, and of Newfoundland, India and Nepal, for commits that are the same otherwise | finding 4 (violation) |
| `text_field` | 3 columns, codepoints of 1 and 2 bytes, 6 bytes, 3 names | keys and mouse act on whole codepoints at the cursor |
| `settings` | 2 sessions of 2 versions and a `debase --theme` | nothing recorded is taken back, the executable is kept, every wait ends |

A *disturbance* is a handler that throws or one git command between sessions. Why the bounds
are enough:

- A session's handlers touch at most two refs (move) and a name may collide with a third; undo
  needs one element to go back to, and depth 3 has a history with elements on both sides while
  another edit is made; the second session sees everything the first can store.
- In the store, two processes can contend for the lock while a third has stored something, which
  is what merging has to preserve. In Settings the third run is the one whose change a stale write
  would undo.
- In Modify, four commits suffice for a selection with a gap, with commits on both sides of it and
  of the insertion point; the histories share commits, and one has equal patches, so that a commit
  taken for another would show; the second operation starts from whatever the first leaves.
- In Columns, three commits allow a gap, a drop between, and a column with a hidden commit at
  either end; the widths and heights make one column vanish and one commit too many; a second
  operation, then undo, is the shortest history whose two entries disagree about the selection.
- A conflict is parsed line by line, so that two hunks with a normal one between show every
  transition of the parser; two files show every transition of the loop over files.
- Three columns of terminal and six bytes let the field scroll by more than a codepoint at both
  ends.

Properties of Session:

- `HistoryTracksRef`: the current element of a history is what git says the ref is.
- `HeadResolves`: HEAD never names a ref that is gone.
- `HeadComesBack`: at exit the branch that was checked out is again, under its current name,
  with its tree.
- `OnlyMutableColumnsChange`: no other ref is moved, overwritten or deleted.
- `SessionStartIsKept`: the state at launch can be restored later in the session.
- `ImplementsTimelines`: undo, redo and restarts do what Timelines promises.

Properties of RepoStore:

- `FailsOnlyIfDamaged`: no process sees a half-written file of another, nor an empty version
  as an error; the only failures follow a kill in the middle of a write.
- `UnsharedHistoriesAreWhole`: sessions on unrelated refs do not clobber each other.
- `ImplementsStoreAtomic`: loading and saving are atomic.
- `EveryWaitEnds`: nobody keeps the lock.

Properties of Modify:

- `ResultIsWhatWasAsked`: the refs that result, and the selection, are those of `Asked` and
  `AskedSelection`, which say by index what each operation means.
- `AssertionsHold`: no assertion of the loops fails, and none runs out of commits.
- `InductiveInv`: the type invariant, what the others rest on (see below), and that what is
  selected is in the column it is selected in (`SelectionExists`, which is one of its parts).
- `NopMovesChangeNothing`: a move refused as a no-op is one.
- `OperationsEnd`: every operation ends.

Properties of Columns:

- `InductiveInv`: the type invariant, and what the others rest on (see below).
- `ColumnsMirrorGit`: revs are distinct, columns are the revs that fit, each at its ref's commit,
  with the history of that ref.
- `SelectionIsLive`: the selection is in a rev that is there, and of its commits.
- `SelectionsFitTheirStates`: what undo and redo will select is in the state they restore.
- `UndoRedoSelects`: it is what the user had selected, or the operation left selected, then.
- `AbortsOnlyUnderASkip`: the abort of `_panelForCommit` is reached only in a column that skips
  commits.
- `ReadOnlyRefsStay`: nothing changes the branch that has uncommitted changes.

Properties of Conflicts and ConflictText:

- `InductiveInv`: the loops stay inside their lists, resolve each file once and in order, and count
  the titles right; and behind k hunks they have the lines picked of these.
- `ResultIsWhatWasPicked`: a file's content is the lines both sides share and the lines of the
  sides chosen, in order.
- `ButtonGivesWhatItShows`: a button chooses the side that is shown above it, in either layout.
- `RemovedIffOneSideLacksIt`: a file is removed only for a side that does not have it.
- `NoMarkerIsStored`: nothing with a conflict marker comes out of the editor.
- `RenderedParsesBack`: the text in the editor shows the hunks.

Where a line of a file looks like a marker, the parser may split the file elsewhere: the sides'
contents, removal and reading back are promised only for merges without such lines (`Plain`: none
that would be taken for a marker where it stands). `NoMarkerIsStored` is promised for all.

Properties of CommitText: `UntouchedStays` (author, date and message that were not touched are
kept, unless the offset is negative and has minutes), `OthersStay` (changing one does not change
another), `WrittenDateIsTaken`.

Properties of TextField: `FieldInv` (the invariant that the others rest on: what has arrived of a
codepoint lies before the cursor, in view), `WholeCodepoints` (both offsets are at codepoints), `KeysActAtTheCursor`
(a key changes the text only at the cursor that is drawn, and moves it by a codepoint, or to an end of
the whole text: KeyDown scrolls first and takes the cursor from the edge the view has then),
`MouseActsWhereItPoints`. One deletion is excepted: at the left edge of a view that is scrolled,
but not to its end, the text before the cursor goes, the cursor is clamped to the left edge, now
over text that was behind it, and a codepoint may be cut. What follows such a *slip* is not
examined (`NotSlipped`). A click to the left of a centered name walks out of the string; the model
takes any offset for it, which the next layout clamps.

Properties of Settings: `NothingIsTakenBack` (every write changes one field, by what its run was
asked), `ExecutableIsKept` (unless two sessions move it at once), `WaitsEnd`.

Fairness. In RepoStore, `WF_vars(Proceed(s))` says that a process which can take its
next step does. The steps after `Lock` wait for nobody. For `Lock` itself, weak fairness means
that the kernel wakes a waiter of `flock()` once the lock stays free; a process takes the lock
twice at most, so a waiter cannot be overtaken for ever. In Settings `WF_vars(Step(p))` says the
same of what a run does by itself, up to three accesses; the terminal answers, or the query gives
up after 500 ms. In Modify `WF_vars(Run)` says that the loops run on: they are one thread's, and a
conflict is resolved in the end, or cancelled. Nothing is assumed of users (edits, dialogs,
quitting) or of kills.

## Findings

1. `store_overwrite`: an entry that the file did not have at launch counts as created and is
   written at exit even if nothing changed, over the history another session has stored
   meanwhile. The comment in `_loadRef` says that unchanged histories are not saved so as not to
   clobber another session's.
2. `modify_clipped_column`: a drop below the last panel of a column becomes the position nullptr,
   which means under the root commit. In a column that is too low for its history the last panel
   is not the root: the commits land under the root, not where the insertion marker was drawn, and
   every commit that is not shown is rewritten.
3. `columns_resize`: a resize in the middle of a drag leaves `_drag` set. The next click on a
   commit, without a drag, moves or copies it where a comment says that it only selects.
4. `commit_text_zone`: an offset west of Greenwich with minutes is rendered with a sign in
   front of the minutes and read back without them. Looking at such a commit in the editor
   rewrites it with another time and offset: -3:30 becomes "-03-30", of which -3 is read, and
   taken for three minutes east. (The run's commits have authors and dates that can be read
   again, so that the offset alone makes the difference.)

Other disagreements are stated as the boundary of a passing property, where no line of the
repository promises the opposite: the abort under a skip (`AbortsOnlyUnderASkip`), marker-like
lines in conflicts, the slip of the name field, an older debase that lowers
`lastMoveOfferVersion` while it overlaps with a newer one (`NothingIsTakenBack`), and two sessions
that move the executable at once (`ExecutableIsKept`). A session-start snapshot is not saved when an
undo was followed by a redo, because `write()` compares histories only: `SessionStartIsKept` is
about the session, not about the file.

## What is proved

For every set of names, commits, files and processes, and every bound.

`SessionProofs`: `SessionInv` is an inductive invariant of Session, one lemma per action.
`TypeOK` alone is not inductive: that `Exit` checks out a commit needs `head.ref` to exist, which
needs HEAD to have been detached before its ref was renamed or deleted; that a stored history can
be loaded needs every history to end in a state of its own ref. From it: `TypeCorrect`,
`HistoriesTrackRefs`, `HeadAlwaysResolves`, `SessionStartsAreKept`, `OnlyMutableColumns`.

Two properties need more, and `InductiveInv` (theorem `Inductive`) has it. `HeadInv` says where HEAD
and the work tree are until HEAD is detached, and that afterwards `App::_head` has the commit to
check out: with it every step from a running to an ended session leaves HEAD where `HeadReturns`
wants it. `FileInv` says that the file still holds what the loaded histories started with, so that
an entry that `write()` leaves out is there already. `TimelinesRefined` shows that Session
implements Timelines: two refs never have equal timelines, as they differ in the name, so replacing
the timeline of one leaves those of the others, and what remains is that each handler changes its
timelines in a way that Timelines knows, and that an end followed by a launch gives the timelines
that were saved.

`RepoStoreProofs`: `StoreInv` is an inductive invariant of RepoStore: exactly the process between
`flock()` and the release holds the lock, and what it has read is what the file holds until it
truncates it. From it: `FailuresMeanDamage`, and `StoreIsAtomic`, the refinement of StoreAtomic
under the mapping that shows the contents read by a process while it rewrites the file.
`UnsharedAreWhole` needs `WholeInv` (theorem `Inductive`): as long as only one session shows a ref,
the commit that the session looked up is the ref's, the file has the whole history until it is
loaded and what was loaded afterwards, unless the entry is new. `WholeStep` serves all steps that
touch neither the file nor an unshared ref; loading, editing and flushing have lemmas of their own.

`RewritesProofs`: lemmas about taking elements of a sequence by index (`Keep`, `Nth`): what is
kept at all indexes, at none, at one, at an interval, and at indexes of which some lie below the
others; about `FlattenSeq`, which gets its value one element at a time; about earliest and latest
commits; and that a selection without a gap is an interval of its line, from which taking it out
and putting it back at its own edge or inside it gives the same sequence. Where a fact needs
induction on a length (a recursive function has one value, and exists), the least length that
refutes it is taken, as every set of naturals has a least member (`LeastOfNaturals`).

`ModifyProofs`: `ModifyInv` is an inductive invariant of Modify, for every history, selection and
column height: the commits that a loop has still to find are ancestors of the commit it has
reached, the insertion point too until it was found, and afterwards lies above it; what was added
is part of what was built; what a ref will be replaced with is a commit. One lemma serves the
operations that call `_AddRemoveCommits`. From it: `AssertionsAlwaysHold`,
`SelectionAlwaysExists`, and, with RewritesProofs, `NopMovesAreNops`. `_Sorted` is modelled as the
loop it is, so that what it returns follows from the invariant.

That an operation gives what was asked for needs more than where its loops stand: what they have
built. `BuiltInv` says, for every program counter, what the lists stand for by index: while the
history is walked down, that the patches of the combined list followed by what is left to walk are
what `Asked` wants above the lowest commit touched; while the list is applied, that the commits
cherry-picked so far followed by the patches still to apply are the whole result; for a
combination, that the patches gathered are the selected ones in order, and that the tree
integrated so far is the concatenation of the first `done` of them. `InductiveInv` (theorem
`Inductive`) is both. Each loop has a lemma for a round and one for its end; the section "What the
operations leave behind" shows that what stands in `Asked` (a gathering, a removal, an insertion,
an exchange at one index) is that result, and `EveryResultIsWhatWasAsked` follows by case of the
operation: the refs that Replace writes are those of `Asked`, and the commits it selects are the
images of the chosen ones.

`ConflictsProofs`: `ConflictsInv` is an inductive invariant of Conflicts: `file` and `hunk` stay
inside the lists of the loops, the files before the current one are resolved and no other, and the
counters are the numbers of conflicts before the current hunk. The last needs a lemma about the
conflicts of a union of files. From it: `ConflictsAreResolved`, `TitlesCount`.

What the files contain needs to know what the parser makes of a text. `Parsed` says it of the fold:
there is a run of parser states, one line each (that folds are what they unfold to comes from the
least counterexample, with `WFMin`, as no induction theorem can be used). Behind k segments of a
merge the parser is in its normal state, with hunks and a hunk begun that are `Joined` to the segments: whatever sides
are picked, the lines taken of the hunks are the lines taken of the segments, and there are as many
to pick (`MergeIsRead`; a conflict's lines are one hunk, common lines join those before them).
`InductiveInv` (theorem `Inductive`) is `ConflictsInv` and `LoopsHave`: the conflicts are those of
the merges, and behind k hunks the loop has their common lines and the sides picked. `AnswersInv`
then says of each file resolved that it fits its answer: `ResultsAreWhatWasPicked` and
`RemovedIffASideLacksIt`, of plain merges; and `NoMarkersAreStored`, of all, because a marker that
git wrote can become text only behind a line of a side that looks like one (`MergeKept` follows the
states in which the parser may be). The hunks that the parser makes are `Canonical` (none is empty,
no two of common lines are adjacent), and of such a list `ReadBack` shows, hunk for hunk, that it is
what the parser makes of its text: `RenderedTextsParseBack`. `ButtonsGiveWhatTheyShow` is by case of
layout and button.

Assumptions: `SessionAssumption` (None is neither a name nor a commit, names are not commits),
`RepoStoreAssumption` (Root is a commit, None and Torn are not values of the kinds they stand
beside), `ModifyAssumption` (the refs' first commits are commits, None is neither a ref nor a
commit, at least one commit fits in a column), `ConflictsAssumption` (of two files the last lines are
common, those behind the last newline, and anything else is one segment of the whole object, empty
where there is none (`Merged`); texts have a line at least, hashes are lines, None is no text) and
`MarkersAreStrings` (the markers are strings, which the provers do not know of literals). All are
evaluated by TLC in the runs.

`ColumnsProofs`: `ColumnsInv` is an inductive invariant of Columns, for every repository, arguments,
sizes of the terminal and number of operations: no two revs agree in ref and skip, those of one ref
are all read-only or none, the history of a rev's ref ends in that ref's state, and a selection
counts as read-only if its ref is. `ColumnsMirrorGit` alone is not inductive: that a reload leaves
the revs distinct needs them to differ in more than their commits, and that a rename or an undo
finds a free name says nothing about a selection whose rev is gone. One lemma (`ExecKeeps`) serves
every operation, whatever `Asked` makes of the refs; another (`RestoreFits`) undo, redo and rename.
From it: `MirrorKept`, `ReadOnlyKept`.

`InductiveInv` (theorem `Inductive`) adds what is selected (`SelectionsInv`): types, that what the
mouse went down on is still in its column, that the selection is of commits of its rev, and of a
history, as the two stacks it is, that each entry `Follows` the one below it, so that undo and redo
restore a state with a selection from it. What `Git::Modify` returns fits by a lemma about `Asked`
(`AskedFits` of RewritesProofs); `RestoreTypes` serves undo, redo and rename. From it:
`SelectionStaysLive`, `HistoriesSelectTheirStates`, `UndoAndRedoSelect`, and `AbortsUnderASkip`: only
a press comes to look for the panel of a selected commit, and without a skip the latest commit
selected has one.

`TextProofs`, of CommitText: which UTC offsets survive being written and read, for every offset
(`ZonesThatSurvive`, by cases of the sign and of whole hours); what `_CommitMessageFromString` reads
from the text of any commit (`ReadBack`) and from any text that begins with the two header lines
(`HeaderIsFound`). With the invariant `CommitTextInv`, that the text is the commit's as long as
nothing was touched and its header otherwise intact as long as only the date was: `LeftAloneStays`,
`DateWrittenIsTaken`. `OthersAreLeft` needs an invariant about any sequence of changes that keeps the
order: k of the two header lines are left, in order, above the blank line and the message
(`HeaderLeft(k)`), and so what is read of each field is what is left of it, or nothing.

`TextProofs`, of TextField: `FieldInv` is an inductive invariant, for every encoding, text, name and
width of at least two (`FieldFitsItsText`). Offsets count bytes, but the view and the keys count
codepoints; so every offset at which a codepoint starts gets a rank, the number of codepoints that start
before it, and `NextN`, `PrevN`, `LeftMax`, `CursorMax` and `OffUpdate` become arithmetic on ranks
(`NextNRank` to `CursorStays`). A cut or an insertion keeps the ranks on its left and shifts those on
its right (`CutRanks`, `InsertRanks`). `Settles` then serves every key: the offsets that a handler
leaves are such that the layout does not move the cursor. That the text consists of whole
codepoints is said byte by byte (`Linked`, equivalent to `Whole`), which splits and joins with the
text. `WholeCodepoints` alone is not inductive: while a codepoint arrives byte by byte, the text is
whole only with the bytes still to come, and the view may shift at each of them, but never past
the ones that have come (`Sent`); and that the layout finds a codepoint to clamp to needs the left edge
not to be beyond `LeftMax`. A view of a single column would scroll into a codepoint
of two bytes while it is typed, even the first; the field takes the whole of a column, 32 wide
(`_ColumnWidth`). From it: `CodepointsStayWhole`, `KeysActThere` and, with the cursor's column as a
difference of ranks, `MouseActsThere`.

`SettingsProofs`: `SettingsInv` is an inductive invariant of Settings: exactly the runs that are
in an access hold the lock, at most one of them, what it read is what the file held then, and the
executable is removed only after a copy was made. From it: `SettingsInvariant`, `ExecutableKept`,
`NothingTakenBack`.

Their assumptions: `ColumnsAssumption` (sizes, the default number of columns and the bound on
operations are naturals, the refs of a launch have names and commits and git finds those of the
arguments and what is checked out, what an edit makes is a change, None is neither a rev nor a name),
`CommitTextAssumption` (a commit is an author, a time and a message of lines, of which the first is
not blank, what the user writes is dates and lines, None is neither a time nor a header line),
`FieldAssumption` (a codepoint has at least a byte, names and the suffix are whole codepoints, the
field is wider than one column) and `SettingsAssumption` (sessions and setters are disjoint and Nobody is neither, versions are naturals,
a setter asks for a theme). TLC evaluates these in the runs of Columns, CommitText, TextField and
Settings.

Only model-checked: liveness (`EveryWaitEnds`, `OperationsEnd`, `WaitsEnd`), which is out of
the prover's reach, as is everything that needs ENABLED. The theorems about TextField say
nothing of a field after it slipped, as its properties do.

## Plan

1. Modify: merge commits (`isMerge`, the mainline of a cherry-pick, `commitParentSetFinish` with a
   null parent).
2. Session: failures inside `_gitRefRename` (which leave columns that name a ref that `_revs` and
   RepoState no longer have, until the next `_reload`) and `_undoRedo`, commits made with git during a
   session, revs of a commit without a ref, a detached HEAD at launch.
3. Columns: the alert of a name that is taken, operations that fail or are cancelled, composed with
   Conflicts' outcomes.
4. TextField: a field after it slipped, up to the next key that puts both offsets at codepoints.

Not modelled, and not planned: layout and drawing over ncurses (no state that outlives a redraw),
what is written to the terminal, option parsing, how paths become names of state directories,
constant text, and the vendored libraries, whose behaviour is external to every module.
