------------------------------- MODULE Modify -------------------------------
(***************************************************************************)
(* Git::Modify (git/Modify.h): how an operation on a selection of commits  *)
(* rewrites refs, loop by loop, with the selection of App that starts it   *)
(* and that it leaves behind.                                              *)
(*                                                                         *)
(* There are no merge commits, and every patch can be applied anywhere, if *)
(* only after the user resolved a conflict, which the user may cancel.     *)
(***************************************************************************)
EXTENDS Rewrites

CONSTANTS Refs,       \* the refs of the columns
          ReadOnly,   \* those that cannot be modified
          Start,      \* the possible values of the refs at first
          Height,     \* commits that fit in a column
          MaxOps,     \* bound: operations
          MaxLength   \* bound: patches of a ref that an operation adds to

ASSUME ModifyAssumption ==
    /\ ReadOnly \subseteq Refs
    /\ Edited \in Changes
    /\ Start \subseteq [Refs -> Commits \ {Null}]
    /\ None \notin Refs \cup Commits
    /\ Height \in Nat \ {0} /\ MaxOps \in Nat /\ MaxLength \in Nat

VARIABLES
    refs,       \* the commit of every ref
    selection,  \* App::_selection
    op,         \* the operation under way: Modify::Op
    call,       \* the arguments of _AddRemoveCommits
    pc,         \* "idle", the loop that runs, or "aborted"
    c, rem,     \* the commit a loop has reached, the commits it has still to find
    addv,       \* the commits to add, oldest first
    found,      \* foundAddPoint
    combined,   \* commits to be put on top of head, each with its `added` flag
    integrate,  \* _CombineCommits: commits to be combined with head
    head,       \* what has been built
    added,      \* the selection that results
    removed,    \* _MoveCommits: srcResult.commit, None while not computed
    ops         \* operations begun

loop == <<c, rem, addv, found, combined, integrate, head, added>>
vars == <<refs, selection, op, call, pc, loop, removed, ops>>

NoOp == [type |-> "None", src |-> None, commits |-> {}, dst |-> None,
         position |-> Null, below |-> Null]
NoCall == [dst |-> Null, add |-> {}, position |-> Null, remove |-> {}]

Goto(where) == pc' = where

\* The variables of the loops when one starts at x, to find S.
LoopsFrom(x, S) ==
    /\ c' = x /\ rem' = S
    /\ addv' = <<>> /\ found' = FALSE
    /\ combined' = <<>> /\ integrate' = <<>> /\ head' = Null /\ added' = {}
----------------------------------------------------------------------------
(* _AddRemoveCommits                                                       *)

Call(dst, add, addSrc, position, remove) ==
    /\ call' = [dst |-> dst, add |-> add, position |-> position, remove |-> remove]
    /\ Goto("sort")
    /\ LoopsFrom(addSrc, add)

\* _Sorted(): one round.
Sort ==
    /\ pc = "sort" /\ rem # {}
    /\ addv' = IF c \in rem THEN <<c>> \o addv ELSE addv
    /\ rem' = rem \ {c}
    /\ c' = Parent(c)
    /\ UNCHANGED <<refs, selection, op, call, pc, found, combined, integrate, head, added,
                   removed, ops>>

SortEnds ==
    /\ pc = "sort" /\ rem = {}
    /\ Goto("walk")
    /\ c' = call.dst /\ rem' = call.remove
    /\ UNCHANGED <<refs, selection, op, call, addv, found, combined, integrate, head, added,
                   removed, ops>>

Adding == addv # <<>>

\* Mutant: the point is found only at a commit, never at the end of the history.
AtPositionNotNull == Adding /\ c # Null /\ c = call.position

AtPosition == Adding /\ c = call.position

\* What is to be applied once this round has inserted the added commits.
Inserted ==
    IF AtPosition THEN [i \in DOMAIN addv |-> [commit |-> addv[i], added |-> TRUE]] \o combined
    ELSE combined

WalkDone == rem = {} /\ (~Adding \/ found \/ AtPosition)

\* assert(!foundAddPoint), assert(c)
AssertFails == (AtPosition /\ found) \/ (~WalkDone /\ c = Null)

\* One round of the loop that looks for the insertion point and the commits to remove.
Walk ==
    /\ pc = "walk" /\ (~WalkDone \/ AssertFails)
    /\ Goto(IF AssertFails THEN "aborted" ELSE "walk")
    /\ combined' = IF c \in rem THEN Inserted ELSE <<[commit |-> c, added |-> FALSE]>> \o Inserted
    /\ rem' = rem \ {c}
    /\ found' = (found \/ AtPosition)
    /\ c' = Parent(c)
    /\ UNCHANGED <<refs, selection, op, call, addv, integrate, head, added, removed, ops>>

\* Its last round.
WalkEnds ==
    /\ pc = "walk" /\ WalkDone /\ ~AssertFails
    /\ combined' = Inserted
    /\ head' = c
    /\ Goto("apply")
    /\ UNCHANGED <<refs, selection, op, call, c, rem, addv, found, integrate, added, removed, ops>>

\* _CommitParentSet()
OnParent(x, parent) == Append(parent, Last(x))

WithAdded(x) == added \cup {OnParent(x, head)}

\* One round of the loop that applies the combined commits.
Apply ==
    /\ pc = "apply" /\ combined # <<>>
    /\ head' = OnParent(combined[1].commit, head)
    /\ added' = IF combined[1].added THEN WithAdded(combined[1].commit) ELSE added
    /\ combined' = Tail(combined)
    /\ UNCHANGED <<refs, selection, op, call, pc, c, rem, addv, found, integrate, removed, ops>>
----------------------------------------------------------------------------
(* _CombineCommits                                                         *)

\* One round of the loop that divides the commits.
Gather ==
    /\ pc = "gather" /\ c # Null /\ rem # {c}
    /\ rem' = rem \ {c}
    /\ IF c \in rem THEN integrate' = <<c>> \o integrate /\ UNCHANGED combined
       ELSE combined' = <<[commit |-> c, added |-> FALSE]>> \o combined /\ UNCHANGED integrate
    /\ c' = Parent(c)
    /\ UNCHANGED <<refs, selection, op, call, pc, addv, found, head, added, removed, ops>>

\* Its last round: c is the earliest of the commits to combine.
GatherEnds ==
    /\ pc = "gather" /\ c # Null /\ rem = {c}
    /\ rem' = {}
    /\ head' = c
    /\ Goto("integrate")
    /\ UNCHANGED <<refs, selection, op, call, c, addv, found, combined, integrate, added,
                   removed, ops>>

\* Mutant: the later patch comes first.
IntegratedBefore(x, y) == Append(Parent(x), Last(y) \o Last(x))

\* _CommitIntegrate(): y's patch goes into x.
Integrated(x, y) == Append(Parent(x), Last(x) \o Last(y))

Integrate ==
    /\ pc = "integrate" /\ integrate # <<>>
    /\ head' = Integrated(head, integrate[1])
    /\ integrate' = Tail(integrate)
    /\ UNCHANGED <<refs, selection, op, call, pc, c, rem, addv, found, combined, added,
                   removed, ops>>

\* The combined commit is remembered, and the others are attached to it.
IntegrateEnds ==
    /\ pc = "integrate" /\ integrate = <<>>
    /\ added' = {head}
    /\ Goto("apply")
    /\ UNCHANGED <<refs, selection, op, call, c, rem, addv, found, combined, integrate, head,
                   removed, ops>>
----------------------------------------------------------------------------
(* App: the selection, and the operations that it allows                   *)

Mutable(r) == r \in Refs \ ReadOnly

\* RevColumn::panels: the latest commits, as many as fit.
Shown(r) == {x \in Ancestors(refs[r]) : Len(x) > Len(refs[r]) - Height}

\* A click, or rectangles drawn with and without the shift key.
Select(r, S) ==
    /\ pc = "idle"
    /\ S # {} /\ S # selection.commits /\ ops < MaxOps
    /\ S \subseteq Shown(r) \cup (IF selection.rev = r THEN selection.commits ELSE {})
    /\ selection' = [rev |-> r, commits |-> S]
    /\ UNCHANGED <<refs, op, call, pc, loop, removed, ops>>

Deselect ==
    /\ pc = "idle" /\ selection # NoSelection
    /\ selection' = NoSelection
    /\ UNCHANGED <<refs, op, call, pc, loop, removed, ops>>

\* An operation on the selection begins.
Begin(type, dst, position, below) ==
    /\ pc = "idle" /\ selection.commits # {} /\ ops < MaxOps
    /\ op' = [type |-> type, src |-> selection.rev, commits |-> selection.commits,
              dst |-> dst, position |-> position, below |-> below]
    /\ ops' = ops + 1
    /\ removed' = None
    /\ UNCHANGED <<refs, selection>>

\* A drag starts on a selected commit that is shown.
Draggable == selection.commits \cap Shown(selection.rev) # {}

\* The commit below the last one that fits in d's column.
BelowShown(d) == SubSeq(refs[d], 1, Len(refs[d]) - Height)

\* _findInsertionPosition(): the user drops above a commit that is shown or below all
\* of them, but not just below a selected one.
DropsAbove(d) ==
    {b \in Shown(d) \cup {BelowShown(d)} :
        \A x \in Shown(d) : Parent(x) = b => ~(selection.rev = d /\ x \in selection.commits)}

\* dstCommit of _trackMouseInsideCommitPanel().
Position(d, b) == IF b \in Shown(d) THEN b ELSE Null

\* _MoveCommits(), within a ref or from one to another.
Move(d, b) ==
    /\ Mutable(selection.rev) /\ Mutable(d)
    /\ Begin("Move", d, Position(d, b), b)
    /\ Draggable /\ b \in DropsAbove(d)
    /\ ~MoveIsNop(selection.rev, selection.commits, d, Position(d, b))
    /\ IF d = selection.rev
       THEN Call(refs[d], selection.commits, refs[d], Position(d, b), selection.commits)
       ELSE /\ Len(refs[d]) < MaxLength
            /\ Call(refs[selection.rev], {}, Null, Null, selection.commits)

\* _CopyCommits()
Copy(d, b) ==
    /\ Mutable(d) /\ Len(refs[d]) < MaxLength
    /\ Begin("Copy", d, Position(d, b), b)
    /\ Draggable /\ b \in DropsAbove(d)
    /\ Call(refs[d], selection.commits, refs[selection.rev], Position(d, b), {})

\* _DeleteCommits()
Delete ==
    /\ Mutable(selection.rev)
    /\ Begin("Delete", None, Null, Null)
    /\ Call(refs[selection.rev], {}, Null, Null, selection.commits)

\* Up to the first loop of _CombineCommits().
Combine ==
    /\ Mutable(selection.rev) /\ \A x \in selection.commits : selection.commits # {x}
    /\ Begin("Combine", None, Null, Null)
    /\ Goto("gather")
    /\ LoopsFrom(refs[selection.rev], selection.commits)
    /\ UNCHANGED call

\* commitAmend(): the message of x was changed.
Amended(x) == Append(Parent(x), Append(Last(x), Edited))

\* _EditCommit(), of a message that was not edited before (a bound).
Edit(x) ==
    /\ Mutable(selection.rev) /\ selection.commits = {x}
    /\ \A i \in DOMAIN Last(x) : Last(x)[i] # Edited
    /\ Begin("Edit", None, x, x)
    /\ Call(refs[selection.rev], {Amended(x)}, Amended(x), x, {x})
----------------------------------------------------------------------------
(* The end of an operation                                                 *)

\* Two calls of _AddRemoveCommits, and the first of them.
Between == op.type = "Move" /\ op.dst # op.src
SourceOnly == Between /\ removed = None

\* Mutant: the last commit of a ref can be deleted.
LastCommitMoved == SourceOnly

\* "can't move last commit", "can't delete last commit": only where commits are just removed.
LastCommitChecked == SourceOnly \/ op.type = "Delete"

\* RuntimeError: the operation ends.
LastCommit ==
    /\ pc = "apply" /\ combined = <<>> /\ head = Null /\ LastCommitChecked
    /\ Goto("idle") /\ op' = NoOp
    /\ UNCHANGED <<refs, selection, call, loop, removed, ops>>

\* _MoveCommits(): the source is ready, the commits are added to the destination.
SourceReady ==
    /\ pc = "apply" /\ combined = <<>> /\ head # Null /\ SourceOnly
    /\ removed' = head
    /\ Call(refs[op.dst], op.commits, refs[op.src], op.position, {})
    /\ UNCHANGED <<refs, selection, op, ops>>

\* _FileFavor() is NORMAL: conflicts are the user's to resolve.
Cancelable == op.dst \notin {None, op.src} /\ ~SourceOnly

\* ConflictResolveCanceled
Cancel ==
    /\ pc = "apply" /\ combined # <<>> /\ Cancelable
    /\ Goto("idle") /\ op' = NoOp
    /\ UNCHANGED <<refs, selection, call, loop, removed, ops>>

Target == IF op.dst = None THEN op.src ELSE op.dst

\* OpResult: the refs it names and the selection, as _gitOpExec() uses them.
Replaced == [r \in Refs |-> IF r = Target THEN head
                            ELSE IF r = op.src /\ Between THEN removed
                            ELSE refs[r]]

\* The refs are replaced, and App selects the result.
Replace ==
    /\ pc = "apply" /\ combined = <<>> /\ ~SourceOnly /\ (LastCommitChecked => head # Null)
    /\ refs' = Replaced
    /\ selection' = [rev |-> Target, commits |-> added]
    /\ Goto("idle") /\ op' = NoOp
    /\ UNCHANGED <<call, loop, removed, ops>>
----------------------------------------------------------------------------
Init ==
    /\ refs \in Start
    /\ selection = NoSelection
    /\ op = NoOp /\ call = NoCall /\ pc = "idle"
    /\ c = Null /\ rem = {} /\ addv = <<>> /\ found = FALSE
    /\ combined = <<>> /\ integrate = <<>> /\ head = Null /\ added = {} /\ removed = None
    /\ ops = 0

\* The user.
Ask ==
    \/ \E r \in Refs : \E S \in SUBSET Ancestors(refs[r]) : Select(r, S)
    \/ Deselect
    \/ \E d \in Refs : \E b \in Ancestors(refs[d]) \cup {Null} : Move(d, b)
    \/ \E d \in Refs : \E b \in Ancestors(refs[d]) \cup {Null} : Copy(d, b)
    \/ Delete
    \/ Combine
    \/ \E x \in selection.commits : Edit(x)

\* The program.
Run ==
    \/ Sort \/ SortEnds \/ Walk \/ WalkEnds \/ Apply
    \/ Gather \/ GatherEnds \/ Integrate \/ IntegrateEnds
    \/ LastCommit \/ SourceReady \/ Replace

Next == Ask \/ Run \/ Cancel

\* The loops run on; the user may cancel a conflict, and need not do anything else.
Spec == Init /\ [][Next]_vars /\ WF_vars(Run)
----------------------------------------------------------------------------
(* Properties                                                              *)

\* Type invariant.
CommitAdded == [commit : Commits \ {Null}, added : BOOLEAN]
TypeOK ==
    /\ refs \in [Refs -> Commits]
    /\ selection.rev \in Refs \cup {None} /\ \A x \in selection.commits : x \in Commits \ {Null}
    /\ op.type \in {"None", "Move", "Copy", "Delete", "Combine", "Edit"}
    /\ {op.src, op.dst} \subseteq Refs \cup {None}
    /\ op.position \in Commits /\ \A x \in op.commits : x \in Commits \ {Null}
    /\ call.dst \in Commits /\ call.position \in Commits
    /\ \A x \in call.add \cup call.remove : x \in Commits \ {Null}
    /\ pc \in {"idle", "sort", "walk", "apply", "gather", "integrate", "aborted"}
    /\ c \in Commits /\ \A x \in rem : x \in Commits \ {Null}
    /\ addv \in Seq(Commits \ {Null}) /\ found \in BOOLEAN
    /\ combined \in Seq(CommitAdded) /\ integrate \in Seq(Commits \ {Null})
    /\ head \in Commits /\ \A x \in added : x \in Commits
    /\ removed \in Commits \cup {None}
    /\ ops \in 0..MaxOps

\* The arguments of _AddRemoveCommits fit each other: it finds what it looks for.
CallFits ==
    pc \in {"sort", "walk"} =>
        /\ call.remove \subseteq Ancestors(call.dst)
        /\ call.add # {} => call.position \in Ancestors(call.dst) \cup {Null}

\* The operation under way has all it needs; those of _MoveCommits' second call too, which is
\* made when the first is done.
OpFits ==
    pc # "idle" =>
        /\ op.type # "None" /\ op.src \in Refs
        /\ op.commits # {} /\ op.commits \subseteq Ancestors(refs[op.src])
        /\ op.type \in {"Move", "Copy"} =>
              op.dst \in Refs /\ op.position \in Ancestors(refs[op.dst]) \cup {Null}

\* What each loop still looks for lies ahead of it.
SortFinds == pc = "sort" => rem \subseteq Ancestors(c)
WalkFinds ==
    pc = "walk" => /\ rem \subseteq Ancestors(c)
                   /\ Adding /\ ~found => call.position \in Ancestors(c) \cup {Null}
                   /\ Adding /\ found => Len(c) < Len(call.position)
GatherFinds == pc = "gather" => rem # {} /\ rem \subseteq Ancestors(c)

\* The commits to add are neither lost nor invented: _Sorted returns nothing only for nothing.
AddsWhatItShould ==
    /\ pc = "sort" => (call.add # {} <=> (rem # {} \/ addv # <<>>)) /\ ~found
    /\ pc = "walk" => (call.add # {} <=> Adding) /\ (found => combined # <<>>)

\* What a ref will be replaced with is a commit: it is, or it is tested by LastCommitChecked.
ResultIsACommit ==
    /\ \A r \in Refs : refs[r] # Null
    /\ pc \in {"sort", "walk"} => (op.type = "Delete" \/ SourceOnly \/ call.add # {})
    /\ pc = "apply" => (LastCommitChecked \/ head # Null \/ combined # <<>>)
    /\ pc = "integrate" => head # Null
    /\ Between /\ ~SourceOnly => removed # Null

\* _gitOpExec replaces the selection by commits of the ref that was rewritten; a commit that is
\* selected and is not in its column would make the next operation run past the root.
SelectionExists ==
    selection.commits # {} => /\ selection.rev \in Refs
                              /\ selection.commits \subseteq Ancestors(refs[selection.rev])

\* What was added so far is part of what was built so far.
AddedIsBuilt ==
    /\ pc \in {"sort", "walk"} => added = {}
    /\ pc = "apply" => added \subseteq Ancestors(head)

\* With these the loops neither fail nor run past the root.
ModifyInv ==
    /\ TypeOK /\ OpFits /\ CallFits
    /\ SortFinds /\ WalkFinds /\ GatherFinds /\ pc # "aborted"
    /\ AddsWhatItShould /\ ResultIsACommit
    /\ AddedIsBuilt /\ SelectionExists

\* The loops and what was asked, by index: an index is the length of a commit, and stands for
\* its patch.
Lengths(S) == {Len(x) : x \in S}
PatchesOf(commits) == [i \in DOMAIN commits |-> Last(commits[i])]
Combined == PatchesOf([i \in DOMAIN combined |-> combined[i].commit])

\* Of _AddRemoveCommits: where the added commits are from, their patches, what stays of the
\* destination between two indexes, and what is to result, with the indexes of what is added.
AddSource == IF op.type = "Edit" THEN Amended(Earliest(op.commits)) ELSE refs[op.src]
Picked == Keep(AddSource, Lengths(call.add))
Kept(lo, hi) == Keep(call.dst, (lo..hi) \ Lengths(call.remove))
Below == Kept(1, Len(call.position))
CallResult == Below \o Picked \o Kept(Len(call.position) + 1, Len(call.dst))
CallIndexes == Len(Below) + 1 .. Len(Below) + Len(Picked)

Result == IF op.type = "Combine" THEN Asked(refs, op)[op.src] ELSE CallResult
ResultIndexes == IF op.type = "Combine" THEN {Len(Earliest(op.commits))} ELSE CallIndexes

\* The arguments of _AddRemoveCommits are those of the operation.
CallIsOps ==
    pc \in {"sort", "walk", "apply"} /\ op.type # "Combine" =>
        LET from == refs[op.src]
            x == Earliest(op.commits)
        IN  call = CASE SourceOnly \/ op.type = "Delete" ->
                            [dst |-> from, add |-> {}, position |-> Null, remove |-> op.commits]
                     [] op.type = "Move" /\ op.dst = op.src ->
                            [dst |-> from, add |-> op.commits, position |-> op.position,
                             remove |-> op.commits]
                     [] op.type = "Copy" \/ (Between /\ removed # None) ->
                            [dst |-> refs[op.dst], add |-> op.commits, position |-> op.position,
                             remove |-> {}]
                     [] op.type = "Edit" ->
                            [dst |-> from, add |-> {Amended(x)}, position |-> x, remove |-> {x}]

\* What the operation still needs.
OpIsKept ==
    pc # "idle" =>
        /\ op.type = "Edit" => op.commits = {Earliest(op.commits)}
        /\ op.type \in {"Delete", "Combine", "Edit"} => op.dst = None
        /\ removed # None =>
              Between /\ removed = Without(refs[op.src], Lengths(op.commits))
        /\ op.type = "Combine" => pc \notin {"sort", "walk"}
        /\ pc \in {"gather", "integrate"} => op.type = "Combine"

SortBuilt ==
    pc = "sort" =>
        /\ c \in Ancestors(AddSource) \cup {Null}
        /\ rem = {x \in call.add : Len(x) <= Len(c)}
        /\ PatchesOf(addv) = Keep(AddSource, {i \in Lengths(call.add) : i > Len(c)})
        /\ combined = <<>>

WalkBuilt ==
    pc = "walk" =>
        LET n == Len(c)
            p == Len(call.position)
            within == Kept(n + 1, p)
        IN  /\ c \in Ancestors(call.dst) \cup {Null}
            /\ rem = {x \in call.remove : Len(x) <= n}
            /\ PatchesOf(addv) = Picked
            /\ found => Adding
            /\ Combined = IF found THEN within \o Picked \o Kept(p + 1, Len(call.dst))
                          ELSE Kept(n + 1, Len(call.dst))
            /\ \A i \in DOMAIN combined :
                  combined[i].added <=>
                      found /\ i \in Len(within) + 1 .. Len(within) + Len(Picked)

GatherBuilt ==
    pc = "gather" =>
        LET from == refs[op.src]
            I == Lengths(op.commits)
        IN  /\ c \in Ancestors(from) \cup {Null}
            /\ rem = {x \in op.commits : Len(x) <= Len(c)}
            /\ Combined = Keep(from, (Len(c) + 1 .. Len(from)) \ I)
            /\ PatchesOf(integrate) = Keep(from, {i \in I : i > Len(c)})
            /\ \A i \in DOMAIN combined : ~combined[i].added

IntegrateBuilt ==
    pc = "integrate" =>
        LET from == refs[op.src]
            I == Lengths(op.commits)
            first == Len(Earliest(op.commits))
            chosen == Keep(from, I)
            done == Len(chosen) - Len(integrate)
        IN  /\ done >= 1
            /\ head = Append(SubSeq(from, 1, first - 1), FlattenSeq(SubSeq(chosen, 1, done)))
            /\ PatchesOf(integrate) = SubSeq(chosen, done + 1, Len(chosen))
            /\ Combined = Keep(from, (first + 1 .. Len(from)) \ I)
            /\ \A i \in DOMAIN combined : ~combined[i].added

ApplyBuilt ==
    pc = "apply" =>
        /\ head \o Combined = Result
        /\ added = {SubSeq(Result, 1, i) : i \in {k \in ResultIndexes : k <= Len(head)}}
        /\ \A i \in DOMAIN combined : combined[i].added <=> Len(head) + i \in ResultIndexes

BuiltInv ==
    /\ CallIsOps /\ OpIsKept
    /\ SortBuilt /\ WalkBuilt /\ GatherBuilt /\ IntegrateBuilt /\ ApplyBuilt

InductiveInv == ModifyInv /\ BuiltInv

\* The loops find the insertion point exactly once, and all the commits that they look for,
\* before the history ends: assert(c) and assert(!foundAddPoint) of _AddRemoveCommits hold, and
\* RuntimeError("ran out of commits") of _CombineCommits is never thrown.
AssertionsHold == pc # "aborted" /\ (pc = "gather" => c # Null)

\* However the loops get there, an operation that replaces refs replaces them with what the user
\* asked for: no patch is lost, doubled or reordered, and no other ref is touched; and what it
\* leaves selected is what the user had selected, wherever it went.
ResultIsWhatWasAsked ==
    [][pc = "apply" /\ pc' = "idle" =>
          \/ refs' = refs /\ selection' = selection
          \/ refs' = Asked(refs, op) /\ selection' = AskedSelection(refs, op)]_vars

\* _MoveIsNop() refuses a move only if it would change nothing, not even where the selected
\* patches stand between equal ones.
NopMovesChangeNothing ==
    pc = "idle" /\ selection.commits # {} =>
        LET s == refs[selection.rev]
            I == {Len(x) : x \in selection.commits}
        IN  \A p \in Ancestors(s) \cup {Null} :
                MoveIsNop(selection.rev, selection.commits, selection.rev, p) =>
                    Gathered(s, I, Len(p)) = s

\* Every operation ends, and the user can ask for another: each loop moves down the history
\* or through a finite list.
OperationsEnd == pc # "idle" ~> pc = "idle"

\* A drop leaves alone what lies below the place where the insertion marker was drawn
\* (App.h:964, "Update insertion marker"), and below every commit that was moved away.
CommitsBelowStay ==
    [][refs' # refs /\ op.type \in {"Move", "Copy"} =>
          \A x \in Ancestors(op.below) :
              (op.dst = op.src /\ op.type = "Move" => Ancestors(x) \cap op.commits = {})
              => x \in Ancestors(refs'[op.dst])]_vars
=============================================================================
