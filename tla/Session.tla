------------------------------ MODULE Session ------------------------------
(***************************************************************************)
(* One repository and the debase sessions run on it, one after another:    *)
(* App (App.h) driving git refs and HEAD, and RepoState (State.h) keeping  *)
(* an undo history and the snapshots of every ref across sessions.         *)
(*                                                                         *)
(* A step is one complete handler of App: the operation, its history push, *)
(* its snapshot and the _reload at its end.  A handler that throws half    *)
(* way is a step of its own, with the effects it had until then.           *)
(*                                                                         *)
(* Commits are opaque (what an operation computes is Modify's subject), so *)
(* an operation may give a ref any commit.  Every ref is a local branch.   *)
(***************************************************************************)
EXTENDS Naturals, Sequences, History

CONSTANTS Names,       \* the names a ref can have
          Commits,     \* the commits of the object database
          None,        \* no ref, no commit (a null Git::Ref, Git::Commit)
          MaxHistory   \* bound: elements a history holds besides the current one

ASSUME SessionAssumption ==
    /\ None \notin Names \cup Commits
    /\ Names \cap Commits = {}
    /\ MaxHistory \in Nat

VARIABLES
    refs,          \* git: the refs and the commit each points to
    HEAD,          \* git: the checked-out ref, or a commit when HEAD is detached
    worktree,      \* git: the commit whose tree is checked out
    disk,          \* RepoState's file: what it stores of each ref
    running,       \* a debase process runs
    head,          \* App::_head, the Rev that HEAD had at launch
    headReattach,  \* App::_headReattach
    frozen,        \* the ref whose Revs are DisallowedUncommittedChanges, or None
    revs,          \* App::_revs: each column's ref, with the commit it was last loaded at
    loaded,        \* RepoState::_loadedRefs
    torn,          \* ghost: refs a handler changed before it failed, not recorded since
    checkedOut     \* ghost: the ref checked out at launch, under the name it has now

git     == <<refs, HEAD, worktree>>
app     == <<head, headReattach, frozen, revs, loaded>>
ghosts  == <<torn, checkedOut>>
vars    == <<git, disk, running, app, ghosts>>

RefState == [name : Names, head : Commits]
StateOf(r, n) == [name |-> n, head |-> r[n]]

Columns == DOMAIN revs
Mutable(n) == n \in Columns /\ n # frozen

NoHead == [ref |-> None, commit |-> None]
HeadCommit == IF HEAD \in Names THEN refs[HEAD] ELSE HEAD
EmptyMap == [x \in {} |-> x]

\* The function f with k's entry moved to key m and replaced by v.
Rekey(f, k, m, v) == [x \in (DOMAIN f \ {k}) \cup {m} |-> IF x = m THEN v ELSE f[x]]
----------------------------------------------------------------------------
(* RepoState                                                               *)

DiskEntry == [history : HistoryOf(RefState), snapshots : SUBSET RefState]

LoadedRef == [history : HistoryOf(RefState), snapshots : SUBSET RefState,
              created : BOOLEAN, historyPrev : HistoryOf(RefState), snapshotInitial : RefState]

\* _loadRef() when the file holds no entry for n.
CreatedRef(r, n) ==
    LET h == Fresh(StateOf(r, n))
    IN [history |-> h, snapshots |-> {}, created |-> TRUE,
        historyPrev |-> h, snapshotInitial |-> StateOf(r, n)]

\* Mutant: the stored history is used without comparing its head.
StoredRefUnchecked(r, n) ==
    [history |-> disk[n].history, snapshots |-> disk[n].snapshots, created |-> FALSE,
     historyPrev |-> disk[n].history, snapshotInitial |-> StateOf(r, n)]

\* _loadRef() when it does: the stored history is only used if its head is the ref's.
StoredRef(r, n) ==
    LET stored == disk[n].history
        h == IF stored.cur.head = r[n] THEN stored ELSE Fresh(StateOf(r, n))
    IN [history |-> h, snapshots |-> disk[n].snapshots, created |-> FALSE,
        historyPrev |-> h, snapshotInitial |-> StateOf(r, n)]

LoadRef(r, n) == IF n \in DOMAIN disk THEN StoredRef(r, n) ELSE CreatedRef(r, n)

\* Mutant: the current state is pushed instead of the initial one.
WithSnapshotOfCurrent(l) == [l EXCEPT !.snapshots = @ \cup {l.history.cur}]

\* snapshotInitialPush(), which every modification of a ref ends with.
WithSnapshot(l) == [l EXCEPT !.snapshots = @ \cup {l.snapshotInitial}]

\* Mutant: snapshotInitialPush() is not called.
RecordedOnly(l, st) == [l EXCEPT !.history = Push(l.history, st)]

\* The history push and snapshot push after a modification that gave the ref state st.
Recorded(l, st) == WithSnapshot([l EXCEPT !.history = Push(l.history, st)])

\* write(): only entries that were created or whose history changed are stored.
ToWrite == {n \in DOMAIN loaded :
               loaded[n].created \/ loaded[n].history # loaded[n].historyPrev}

Written ==
    [n \in DOMAIN disk \cup ToWrite |->
        IF n \in ToWrite THEN [history |-> loaded[n].history, snapshots |-> loaded[n].snapshots]
        ELSE disk[n]]
----------------------------------------------------------------------------
(* App's helpers                                                           *)

\* Mutant: HEAD is left attached.
DetachNothing(S) == UNCHANGED <<HEAD, headReattach>>

\* _gitDetachHeadIfEqual() for each ref of S: HEAD is detached the first time, and never again.
DetachHeadIfIn(S) ==
    IF head.ref \in S
    THEN /\ headReattach' = TRUE
         /\ HEAD' = IF headReattach THEN HEAD ELSE HeadCommit
    ELSE UNCHANGED <<HEAD, headReattach>>

\* Mutant: only the columns are reloaded.
ReloadColumnsOnly(r, S, h) == head' = h /\ revs' = [n \in S |-> r[n]]

\* _reload(), when git's refs are r, the columns S and App::_head was h.
Reload(r, S, h) ==
    /\ head' = IF h.ref = None THEN h ELSE [h EXCEPT !.commit = r[h.ref]]
    /\ revs' = [n \in S |-> r[n]]
----------------------------------------------------------------------------
(* git operations: _gitOpExec                                              *)

CanRecord(n) == Len(loaded[n].history.prev) < MaxHistory

\* Modify::Exec gave each ref of DOMAIN new a commit: refReplace for each, then the
\* history of each ref whose commit changed, then _reload.
GitOpExec(new) ==
    LET changed == {n \in DOMAIN new : new[n] # revs[n]}
    IN /\ \A n \in DOMAIN new : Mutable(n) /\ CanRecord(n)
       /\ refs' = [n \in DOMAIN refs |-> IF n \in DOMAIN new THEN new[n] ELSE refs[n]]
       /\ DetachHeadIfIn(DOMAIN new)
       /\ loaded' = [n \in DOMAIN loaded |->
                        IF n \in changed THEN Recorded(loaded[n], [name |-> n, head |-> new[n]])
                        ELSE loaded[n]]
       /\ Reload(refs', Columns, head)
       /\ torn' = torn \ changed
       /\ UNCHANGED <<worktree, disk, running, frozen, checkedOut>>

\* Delete, Combine, Edit, Copy (the source is only read) and Move within a ref.
Rewrite(n, c) == running /\ GitOpExec([x \in {n} |-> c])

\* Move from ref s to ref d.
MoveBetween(s, d, cs, cd) ==
    /\ running /\ s # d
    /\ GitOpExec([x \in {s, d} |-> IF x = s THEN cs ELSE cd])

\* Move from s to d, the second refReplace failing: s has lost its commits, nothing is
\* recorded and nothing is reloaded.
MoveFailsHalfWay(s, d, cs) ==
    /\ running /\ s # d /\ Mutable(s) /\ Mutable(d)
    /\ cs # revs[s]
    /\ refs' = [refs EXCEPT ![s] = cs]
    /\ DetachHeadIfIn({s, d})
    /\ torn' = torn \cup {s}
    /\ UNCHANGED <<worktree, disk, running, head, frozen, revs, loaded, checkedOut>>

\* The first refReplace fails: HEAD has been detached, no ref has changed.
ReplaceFails(n) ==
    /\ running /\ Mutable(n)
    /\ DetachHeadIfIn({n})
    /\ UNCHANGED <<refs, worktree, disk, running, head, frozen, revs, loaded, ghosts>>
----------------------------------------------------------------------------
(* Restoring a ref to a state: _refStateRestore and _gitRefRename          *)

\* The commit is replaced if the column's differs; the rename copies the ref under its
\* new name (never over an existing ref), then deletes the old one.
RestoredRefs(n, st) ==
    LET replaced == IF revs[n] # st.head THEN [refs EXCEPT ![n] = st.head] ELSE refs
    IN IF st.name = n THEN replaced ELSE Rekey(replaced, n, st.name, st.head)

\* Mutant: the ref is copied with force.
ForcedCopy(n, st) == TRUE

NameFree(n, st) == st.name = n \/ st.name \notin DOMAIN refs

Renamed(x, n, st) == IF x = n THEN st.name ELSE x

\* Ref n becomes st; its history becomes h.
Restore(n, st, h) ==
    /\ running /\ Mutable(n) /\ NameFree(n, st)
    /\ refs' = RestoredRefs(n, st)
    /\ DetachHeadIfIn(IF st = StateOf(revs, n) THEN {} ELSE {n})
    /\ loaded' = Rekey(loaded, n, st.name, WithSnapshot([loaded[n] EXCEPT !.history = h]))
    /\ Reload(refs', (Columns \ {n}) \cup {st.name}, [head EXCEPT !.ref = Renamed(@, n, st)])
    /\ torn' = IF refs'[st.name] = st.head THEN torn \ {n, st.name} ELSE torn
    /\ checkedOut' = Renamed(checkedOut, n, st)
    /\ UNCHANGED <<worktree, disk, running, frozen>>

\* The commit was replaced, then the rename throws because the name is taken.
RestoreFails(n, st) ==
    /\ running /\ Mutable(n) /\ ~NameFree(n, st) /\ revs[n] # st.head
    /\ refs' = [refs EXCEPT ![n] = st.head]
    /\ DetachHeadIfIn({n})
    /\ torn' = torn \cup {n}
    /\ UNCHANGED <<worktree, disk, running, head, frozen, revs, loaded, checkedOut>>

\* The states that a click can ask n to be restored to, with the history that results.
UndoTarget(n)  == {[st |-> PrevPeek(h), history |-> StepBack(h)] :
                      h \in {x \in {loaded[n].history} : CanUndo(x)}}
RedoTarget(n)  == {[st |-> NextPeek(h), history |-> StepForth(h)] :
                      h \in {x \in {loaded[n].history} : CanRedo(x)}}
SnapshotTarget(n) ==
    {[st |-> st, history |-> Push(loaded[n].history, st)] :
        st \in {x \in loaded[n].snapshots \cup {loaded[n].snapshotInitial} :
                   CanRecord(n) /\ x # loaded[n].history.cur}}
RenameTarget(n) ==
    {[st |-> st, history |-> Push(loaded[n].history, st)] :
        st \in {x \in RefState : CanRecord(n) /\ x.name # n /\ x.head = revs[n]}}

UndoRedo(n) == n \in Columns /\ \E t \in UndoTarget(n) \cup RedoTarget(n) : Restore(n, t.st, t.history)
RestoreSnapshot(n) == n \in Columns /\ \E t \in SnapshotTarget(n) : Restore(n, t.st, t.history)
RenameRef(n) == n \in Columns /\ \E t \in RenameTarget(n) : Restore(n, t.st, t.history)

FailedRestore(n) ==
    /\ n \in Columns
    /\ \E t \in UndoTarget(n) \cup RedoTarget(n) \cup SnapshotTarget(n) : RestoreFails(n, t.st)
----------------------------------------------------------------------------
(* Creating and deleting refs                                              *)

\* _revCreate(): at commit c, under an unused name.
RevCreate(m, c) ==
    /\ running /\ m \notin DOMAIN refs
    /\ refs' = Rekey(refs, m, m, c)
    /\ loaded' = Rekey(loaded, m, m, CreatedRef(refs', m))
    /\ Reload(refs', Columns \cup {m}, head)
    /\ torn' = torn \ {m}
    /\ UNCHANGED <<HEAD, worktree, disk, running, headReattach, frozen, checkedOut>>

\* _gitRefDelete(): if it is the ref that HEAD had, HEAD is not to be reattached.
RefDelete(n) ==
    /\ running /\ Mutable(n)
    /\ refs' = [x \in DOMAIN refs \ {n} |-> refs[x]]
    /\ DetachHeadIfIn({n})
    /\ loaded' = [x \in DOMAIN loaded \ {n} |-> loaded[x]]
    /\ Reload(refs', Columns \ {n}, IF head.ref = n THEN NoHead ELSE head)
    /\ torn' = torn \ {n}
    /\ checkedOut' = IF checkedOut = n THEN None ELSE checkedOut
    /\ UNCHANGED <<worktree, disk, running, frozen>>

\* A window resize: App::track() reloads.
Resize ==
    /\ running
    /\ Reload(refs, Columns, head)
    /\ UNCHANGED <<git, disk, running, headReattach, frozen, loaded, ghosts>>
----------------------------------------------------------------------------
(* Sessions                                                                *)

\* App::run() up to track(): S are the refs of the revs shown; dirty is what
\* Repo::dirty() answers, true at least if another tree than HEAD's is checked out.
Launch(S, dirty) ==
    /\ ~running
    /\ S \subseteq DOMAIN refs
    /\ worktree # HeadCommit => dirty
    /\ running' = TRUE
    /\ head' = [ref |-> IF HEAD \in Names THEN HEAD ELSE None, commit |-> HeadCommit]
    /\ headReattach' = FALSE
    /\ frozen' = IF dirty /\ HEAD \in Names THEN HEAD ELSE None
    /\ revs' = [n \in S |-> refs[n]]
    /\ loaded' = [n \in S |-> LoadRef(refs, n)]
    /\ torn' = {}
    /\ checkedOut' = IF HEAD \in Names THEN HEAD ELSE None
    /\ UNCHANGED <<git, disk>>

\* What the process held is gone.
ForgetSession ==
    /\ running' = FALSE
    /\ head' = NoHead
    /\ headReattach' = FALSE
    /\ frozen' = None
    /\ revs' = EmptyMap
    /\ loaded' = EmptyMap
    /\ checkedOut' = None

Reattaching == headReattach /\ head # NoHead

\* The end of App::run(): write(), which may throw, then headAttach() in the Defer.
Exit(saved) ==
    /\ running
    /\ disk' = IF saved THEN Written ELSE disk
    /\ HEAD' = IF Reattaching THEN head.ref ELSE HEAD
    /\ worktree' = IF Reattaching THEN head.commit ELSE worktree
    /\ ForgetSession
    /\ UNCHANGED <<refs, torn>>

\* As Exit, but checkout refuses to overwrite untracked files.
ExitLeavesDetached(saved) ==
    /\ running /\ Reattaching
    /\ disk' = IF saved THEN Written ELSE disk
    /\ ForgetSession
    /\ UNCHANGED <<git, torn>>

\* The process is killed.
Crash ==
    /\ running
    /\ ForgetSession
    /\ UNCHANGED <<git, disk, torn>>

\* git commit, git reset or git branch, while no session runs.
GitWrite(n, c) ==
    /\ ~running
    /\ refs' = Rekey(refs, n, n, c)
    /\ worktree' = IF HEAD = n THEN c ELSE worktree
    /\ UNCHANGED <<HEAD, disk, running, app, ghosts>>

\* git checkout.
GitCheckout(n) ==
    /\ ~running /\ n \in DOMAIN refs
    /\ HEAD' = n
    /\ worktree' = refs[n]
    /\ UNCHANGED <<refs, disk, running, app, ghosts>>
----------------------------------------------------------------------------
Init ==
    /\ \E S \in SUBSET Names \ {{}} : refs \in [S -> Commits] /\ HEAD \in S
    /\ worktree = refs[HEAD]
    /\ disk = EmptyMap
    /\ running = FALSE
    /\ head = NoHead
    /\ headReattach = FALSE
    /\ frozen = None
    /\ revs = EmptyMap
    /\ loaded = EmptyMap
    /\ torn = {}
    /\ checkedOut = None

\* A handler of App that succeeds.
Handle ==
    \/ \E n \in Names, c \in Commits : Rewrite(n, c)
    \/ \E s, d \in Names, cs, cd \in Commits : MoveBetween(s, d, cs, cd)
    \/ \E n \in Names : UndoRedo(n)
    \/ \E n \in Names : RestoreSnapshot(n)
    \/ \E n \in Names : RenameRef(n)
    \/ \E m \in Names, c \in Commits : RevCreate(m, c)
    \/ \E n \in Names : RefDelete(n)
    \/ Resize

\* A handler that throws.
Fail ==
    \/ \E s, d \in Names, c \in Commits : MoveFailsHalfWay(s, d, c)
    \/ \E n \in Names : ReplaceFails(n)
    \/ \E n \in Names : FailedRestore(n)

Start == \E S \in SUBSET Names, dirty \in BOOLEAN : Launch(S, dirty)

End ==
    \/ \E saved \in BOOLEAN : Exit(saved)
    \/ \E saved \in BOOLEAN : ExitLeavesDetached(saved)
    \/ Crash

UseGit ==
    \/ \E n \in Names, c \in Commits : GitWrite(n, c)
    \/ \E n \in Names : GitCheckout(n)

Next == Handle \/ Fail \/ Start \/ End \/ UseGit

Spec == Init /\ [][Next]_vars
----------------------------------------------------------------------------
(* Properties                                                              *)

MapOf(D, R, f) == DOMAIN f \subseteq D /\ f \in [DOMAIN f -> R]

\* Every variable has its type; a column and its RepoState entry come and go together.
TypeOK ==
    /\ MapOf(Names, Commits, refs)
    /\ HEAD \in Names \cup Commits
    /\ worktree \in Commits
    /\ MapOf(Names, DiskEntry, disk)
    /\ running \in BOOLEAN
    /\ head \in [ref : Names \cup {None}, commit : Commits \cup {None}]
    /\ headReattach \in BOOLEAN
    /\ frozen \in Names \cup {None}
    /\ MapOf(DOMAIN refs, Commits, revs)
    /\ MapOf(Names, LoadedRef, loaded)
    /\ DOMAIN loaded = Columns
    /\ torn \subseteq Names
    /\ checkedOut \in Names \cup {None}

\* The current element of a ref's history is what git says the ref is, whatever sequence of
\* operations, renames, undos and restarts led there: _undoRedo and _trackSnapshotsMenu decide
\* what to restore from it, and the next session throws the history away if it is wrong.
\* Only a handler that threw half way breaks it, until the next operation on that ref.
HistoryTracksRef ==
    \A n \in DOMAIN loaded \ torn : loaded[n].history.cur = StateOf(refs, n)

\* HEAD names a ref that exists, also after a handler that failed and wherever a session was
\* killed: HEAD was detached (_gitDetachHeadIfEqual) before its ref was renamed or deleted.
HeadResolves == HEAD \in Names => HEAD \in DOMAIN refs

\* When debase exits, the branch that was checked out when it started is checked out again,
\* under its new name if it was renamed, and git status is as clean as it was (TestChecklist,
\* "Rename currently-checked-out branch" and "Modifying currently-checked-out branch"): the
\* work tree is the branch's commit, unless there were uncommitted changes, when it was not
\* touched.  If the branch was deleted, or none was checked out, no branch is checked out.
HeadComesBack ==
    [][\A saved \in BOOLEAN : Exit(saved) =>
          IF checkedOut = None THEN HEAD' \notin Names
          ELSE /\ HEAD' = checkedOut
               /\ IF frozen = checkedOut THEN UNCHANGED <<worktree, refs>>
                  ELSE checkedOut \notin torn => worktree' = refs[checkedOut]]_vars

\* A session never moves, renames over or deletes a ref other than a column that it may
\* change: not one that is not shown, and not the branch with uncommitted changes.
OnlyMutableColumnsChange ==
    [][running =>
          \A n \in DOMAIN refs : (n \notin DOMAIN refs' \/ refs'[n] # refs[n]) => Mutable(n)]_vars

\* The state a ref had when the session started can be restored in later sessions too: once
\* the ref differs from it, it is one of the snapshots, under whatever name the ref has now.
SessionStartIsKept ==
    \A n \in DOMAIN loaded \ torn :
        StateOf(refs, n) # loaded[n].snapshotInitial =>
            loaded[n].snapshotInitial \in loaded[n].snapshots

\* The inductive invariant behind the properties above: while debase runs, HEAD is still on
\* the ref that App::_head names unless it was detached, that ref exists, the columns show
\* git's commits, and a history, loaded or stored, ends in a state of its own ref.
SessionInv ==
    /\ TypeOK
    /\ HeadResolves
    /\ head.ref # None => head.ref \in DOMAIN refs /\ head.commit \in Commits
    /\ running => IF headReattach THEN HEAD \notin Names ELSE HEAD \in Names => head.ref = HEAD
    /\ headReattach => head.ref # None \/ head = NoHead
    /\ ~running => Columns = {}
    /\ \A n \in Columns \ torn : revs[n] = refs[n]
    /\ \A n \in DOMAIN disk : disk[n].history.cur.name = n
    /\ \A n \in DOMAIN loaded : loaded[n].history.cur.name = n
    /\ HistoryTracksRef
    /\ SessionStartIsKept

\* What HeadComesBack needs besides: until HEAD is detached it is on the ref that App::_head
\* names and the work tree is that ref's commit, afterwards App::_head has the commit to check
\* out; the branch with uncommitted changes is never detached from.
HeadInv ==
    running =>
        /\ checkedOut = head.ref
        /\ frozen # None => frozen = head.ref /\ ~headReattach
        /\ head.ref # None =>
              /\ ~headReattach => HEAD = head.ref
              /\ ~headReattach /\ frozen = None => worktree = refs[head.ref]
              /\ head.ref \notin torn => head.commit = refs[head.ref]

\* What ImplementsTimelines needs besides: a ref that was not created in this session started
\* with what would be loaded for it from the file as it still is.
Loadable(h) ==
    LET n == h.cur.name
    IN  /\ n \in DOMAIN disk
        /\ h = IF disk[n].history.cur.head = h.cur.head THEN disk[n].history ELSE Fresh(h.cur)

FileInv == \A n \in DOMAIN loaded : loaded[n].created \/ Loadable(loaded[n].historyPrev)

InductiveInv == SessionInv /\ HeadInv /\ FileInv

\* The timeline of a ref: its present is git's, its past and future are the history that
\* debase has loaded, or would load if it were started now.
Timeline(n) ==
    LET h == IF n \in DOMAIN loaded THEN loaded[n].history ELSE LoadRef(refs, n).history
    IN [past |-> h.prev, now |-> StateOf(refs, n), future |-> h.next]

T == INSTANCE Timelines WITH open <- running,
                             lines <- {Timeline(n) : n \in DOMAIN refs \ torn}

\* Undo and redo put git's refs exactly where they were, and restarting debase changes nothing.
ImplementsTimelines == T!Spec
=============================================================================
