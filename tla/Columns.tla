------------------------------ MODULE Columns ------------------------------
(***************************************************************************)
(* App's window: the columns of commits, the selection, the drags, and     *)
(* what keys, menus, buttons and resizes do to them (App.h).               *)
(*                                                                         *)
(* What an operation makes of the refs and of the selection is Modify's    *)
(* Asked and AskedSelection, which the loops of Git::Modify were shown to  *)
(* compute.  Between a mouse-down and its mouse-up the terminal may be     *)
(* resized: eventNext() then throws, out of the handler that tracks the    *)
(* mouse.                                                                  *)
(***************************************************************************)
EXTENDS Rewrites, History

CONSTANTS Names,     \* the names a ref can have
          Launches,  \* the repositories and arguments that debase may be started with
          Sizes,     \* the sizes of the terminal: columns and commits of a column that fit
          RevCount,  \* RevCountDefault, the columns that are shown when it has no argument
          MaxOps     \* bound: operations that are recorded

VARIABLES
    refs,       \* git: the commit of every ref
    revs,       \* App::_revs
    columns,    \* App::_columns: the Rev of each
    size,       \* the size of the terminal
    histories,  \* RepoState: the history of every ref shown
    selection,  \* App::_selection
    phase,      \* what runs: "idle", "pressed" between mouse-down and mouse-up, or "aborted"
    press,      \* the mouse-down: mouseDownColumn, mouseDownPanel, mouseDragged
    drag,       \* (bool)_drag.titlePanel
    ops         \* operations recorded

vars == <<refs, revs, columns, size, histories, selection, phase, press, drag, ops>>

Rev == [ref : Names, skip : Nat, readOnly : BOOLEAN, commit : Commits \ {Null}]
Selections == [rev : Rev \cup {None}, commits : SUBSET Commits]
NoPress == [column |-> 0, commit |-> <<>>, dragged |-> FALSE]

Mutable(rev) == rev # None /\ ~rev.readOnly

----------------------------------------------------------------------------
(* The columns                                                             *)

\* RevColumn::reload(): the commits that rev's column has panels for.
Panels(rev) ==
    LET top == Len(rev.commit) - rev.skip
    IN  {x \in Ancestors(rev.commit) : Len(x) <= top /\ Len(x) > top - size.height}

\* The revs whose columns fit.
Shown(rs, s) == SubSeq(rs, 1, IF s.width < Len(rs) THEN s.width ELSE Len(rs))

\* Mutant: the revs whose columns do not fit are left at the commit they were at.
ShownReloaded(rs, r) ==
    [i \in DOMAIN rs |-> IF i <= size.width THEN [rs[i] EXCEPT !.commit = r[rs[i].ref]] ELSE rs[i]]

Reloaded(rs, r) == [i \in DOMAIN rs |-> [rs[i] EXCEPT !.commit = r[rs[i].ref]]]

\* _reload(), when the revs are rs, git's refs r, and the terminal has size s.
Reload(rs, r, s) ==
    /\ revs' = Reloaded(rs, r)
    /\ columns' = Shown(revs', s)
    /\ size' = s

\* Mutant: selected in every column of the ref.
SelectedInRef(rev, x) ==
    selection.rev # None /\ rev.ref = selection.rev.ref /\ x \in selection.commits

\* _selectStateGet(): the commit is selected in this column, not only in another one.
Selected(rev, x) == rev = selection.rev /\ x \in selection.commits

----------------------------------------------------------------------------
(* _gitOpExec()                                                            *)

Entry(n, c, selected, prev, before, after) ==
    [name |-> n, head |-> c, selection |-> selected, selectionPrev |-> prev,
     before |-> before, after |-> after]  \* ghosts: what was selected then

Entries == [name : Names, head : Commits \ {Null}, selection : SUBSET Commits,
            selectionPrev : SUBSET Commits, before : Selections, after : Selections]

\* Mutant: the destination's entry gets what was selected in the source.
DstSelectionPrevOfSource(type, sel, dst) == IF type = "Move" THEN sel.commits ELSE {}

DstSelectionPrev(type, sel, dst) ==
    IF type = "Move" /\ sel.rev.ref = dst.ref THEN sel.commits ELSE {}

\* Mutant: the last commit can be deleted, or moved away.
LeavesNothingUnchecked(type, commit) == FALSE

\* "can't move last commit", "can't delete last commit"
LeavesNothing(type, commit) == type # "Copy" /\ commit = Null

\* The operation on sel is executed, with dst where it has a destination: a move that is a
\* no-op or one that would leave nothing of the source ends there.
Exec(type, sel, dst, position) ==
    LET src == sel.rev.ref
        o == [type |-> type, src |-> src, commits |-> sel.commits,
              dst |-> IF dst = None THEN None ELSE dst.ref, position |-> position]
        new == Asked(refs, o)
        left == AskedSelection(refs, o).commits
        nop == type = "Move" /\ MoveIsNop(src, sel.commits, dst.ref, position)
        target == IF dst = None THEN sel.rev ELSE dst
        result == [rev |-> [target EXCEPT !.commit = new[target.ref]], commits |-> left]
        \* OpResult: what the entries of the source and of the destination carry
        srcEntry == Entry(src, new[src], IF dst = None THEN left ELSE {}, sel.commits, sel, result)
        dstEntry == Entry(target.ref, new[target.ref], left,
                          DstSelectionPrev(type, sel, target),
                          IF type = "Copy" THEN NoSelection ELSE sel, result)
    IN  IF nop \/ LeavesNothing(type, new[src])
        THEN selection' = sel /\ UNCHANGED <<refs, revs, columns, size, histories, ops>>
        ELSE /\ ops < MaxOps /\ ops' = ops + 1
             /\ refs' = new
             /\ histories' =
                  [n \in DOMAIN histories |->
                      IF new[n] = refs[n] THEN histories[n]
                      ELSE Push(histories[n], IF dst # None /\ n = dst.ref THEN dstEntry ELSE srcEntry)]
             /\ selection' = result
             /\ Reload(revs, new, size)

\* The keys and the items of a commit's menu, as _selectionCanDelete(), _selectionCanCombine()
\* and _selectionCanEdit() allow them.
Key(type) ==
    /\ phase = "idle"
    /\ selection.commits # {} /\ Mutable(selection.rev)
    /\ type = "Combine" => Cardinality(selection.commits) > 1
    /\ type = "Edit" => Cardinality(selection.commits) = 1
    /\ Exec(type, selection, None, <<>>)
    /\ UNCHANGED <<phase, press, drag>>
----------------------------------------------------------------------------
(* _trackMouseInsideCommitPanel()                                          *)

\* The mouse goes down on x's panel in column i.  Where allow is FALSE it is at the edge of
\* the window, which cancels a drag.
Press(i, x, allow) ==
    LET sel == IF Selected(columns[i], x) THEN selection
               ELSE [rev |-> columns[i], commits |-> {x}]
    IN  /\ phase = "idle" /\ x \in Panels(columns[i])
        /\ selection' = sel
        /\ IF Latest(sel.commits) \in Panels(columns[i])
           THEN /\ phase' = "pressed"
                /\ press' = [column |-> i, commit |-> x, dragged |-> FALSE]
                /\ drag' = (drag /\ allow)
           ELSE phase' = "aborted" /\ UNCHANGED <<press, drag>>
        /\ UNCHANGED <<refs, revs, columns, size, histories, ops>>

Drag(allow) ==
    /\ phase = "pressed"
    /\ press' = [press EXCEPT !.dragged = TRUE]
    /\ drag' = allow
    /\ UNCHANGED <<refs, revs, columns, size, histories, selection, phase, ops>>

\* The handler has left its loop.
Released == phase' = "idle" /\ press' = NoPress /\ drag' = FALSE

\* _findInsertionPosition(): above a panel or below all of them, never just below a selected one.
Drops(j) ==
    LET panels == Panels(columns[j])
    IN  {b \in panels \cup {Parent(x) : x \in panels} :
            \A x \in panels : Parent(x) = b => ~Selected(columns[j], x)}

\* For a mouse that was not moved: above the run of selected panels it is on.
DropWhereItIs ==
    CHOOSE b \in Drops(press.column) :
        /\ Len(b) >= Len(press.commit)
        /\ \A a \in Drops(press.column) : Len(a) >= Len(press.commit) => Len(b) <= Len(a)

\* Mutant: what cannot be modified can be moved away.
DropTypeAsAsked(rev, copy) == IF copy THEN "Copy" ELSE "Move"

\* forceCopy
DropType(rev, copy) == IF copy \/ ~Mutable(rev) THEN "Copy" ELSE "Move"

\* The operation of a drag that ends in column j, above b.
Drop(j, b, copy) ==
    Exec(DropType(selection.rev, copy), selection, columns[j],
         IF b \in Panels(columns[j]) THEN b ELSE <<>>)

ReleaseDrag(j, b, copy) ==
    /\ phase = "pressed" /\ drag /\ press.dragged
    /\ Mutable(columns[j]) /\ b \in Drops(j)
    /\ Drop(j, b, copy)
    /\ Released

\* A mouse-up without a mouse move, but _drag is set: it was left by an earlier drag.
ReleaseStaleDrag(copy) ==
    /\ phase = "pressed" /\ drag /\ ~press.dragged
    /\ Mutable(columns[press.column])
    /\ Drop(press.column, DropWhereItIs, copy)
    /\ Released

\* A click selects the commit; a double click edits it.
Click(double) ==
    LET sel == [rev |-> columns[press.column], commits |-> {press.commit}]
    IN  /\ phase = "pressed" /\ ~press.dragged
        /\ ~drag \/ ~Mutable(columns[press.column])
        /\ IF double /\ Mutable(sel.rev) THEN Exec("Edit", sel, None, <<>>)
           ELSE selection' = sel /\ UNCHANGED <<refs, revs, columns, size, histories, ops>>
        /\ Released

\* A mouse-up at the edge or nearest to a read-only column; a key.
ReleaseNothing ==
    /\ phase = "pressed"
    /\ Released
    /\ UNCHANGED <<refs, revs, columns, size, histories, selection, ops>>
----------------------------------------------------------------------------
(* Selecting without dragging                                              *)

\* The panels of a column that a rectangle can cover: those from one to another.
Runs(rev) ==
    {{x \in Panels(rev) : Len(lo) <= Len(x) /\ Len(x) <= Len(hi)} : lo, hi \in Panels(rev)}

\* _trackSelectionRect(): new is what the rectangle covers.
SelectRect(new, shift) ==
    /\ phase = "idle"
    /\ selection' = IF shift /\ (new.commits = {} \/ selection.rev = new.rev)
                    THEN [selection EXCEPT !.commits = SymDiff(@, new.commits)]
                    ELSE new
    /\ UNCHANGED <<refs, revs, columns, size, histories, phase, press, drag, ops>>

\* _trackContextMenuCommitPanel(), until the menu is shown.
ContextMenu(i, x) ==
    /\ phase = "idle" /\ x \in Panels(columns[i]) /\ ~Selected(columns[i], x)
    /\ selection' = [rev |-> columns[i], commits |-> {x}]
    /\ UNCHANGED <<refs, revs, columns, size, histories, phase, press, drag, ops>>
----------------------------------------------------------------------------
(* Undo, redo and refs                                                     *)

\* _gitRefRename(): the revs when the ref n is m.
Renamed(n, m) == [k \in DOMAIN revs |-> IF revs[k].ref = n THEN [revs[k] EXCEPT !.ref = m] ELSE revs[k]]

\* Mutant: the selection keeps the name.
SelectionKept(n, m, c) == selection

\* _gitRefRename(): the selection.
SelectionRenamed(n, m, c) ==
    IF selection.rev # None /\ selection.rev.ref = n
    THEN [selection EXCEPT !.rev.ref = m, !.rev.commit = c] ELSE selection

\* _gitRefRename() and refReplace(): the ref n becomes m at commit c; h is its history.
Restore(n, m, c, h) ==
    LET r == [x \in (DOMAIN refs \ {n}) \cup {m} |-> IF x = m THEN c ELSE refs[x]]
    IN  /\ m \notin DOMAIN refs \ {n}
        /\ refs' = r
        /\ histories' = [x \in (DOMAIN histories \ {n}) \cup {m} |-> IF x = m THEN h ELSE histories[x]]
        /\ Reload(Renamed(n, m), r, size)

\* Mutant: an undo selects what the operation before it had left.
SelectedByTarget(from, to, undo) == to.selection

SelectedByUndo(from, to, undo) == IF undo THEN from.selectionPrev ELSE to.selection

\* _undoRedo()
UndoRedo(i, undo) ==
    LET rev == columns[i]
        h == histories[rev.ref]
        to == IF undo THEN PrevPeek(h) ELSE NextPeek(h)
    IN  /\ phase = "idle" /\ Mutable(rev)
        /\ IF undo THEN CanUndo(h) ELSE CanRedo(h)
        /\ Restore(rev.ref, to.name, to.head, IF undo THEN StepBack(h) ELSE StepForth(h))
        /\ selection' = [rev |-> [rev EXCEPT !.ref = to.name, !.commit = to.head],
                         commits |-> SelectedByUndo(h.cur, to, undo)]
        /\ UNCHANGED <<phase, press, drag, ops>>

\* The name field: the ref of column i becomes m.
Rename(i, m) ==
    LET rev == columns[i]
        n == rev.ref
    IN  /\ phase = "idle" /\ Mutable(rev) /\ m # n
        /\ ops < MaxOps /\ ops' = ops + 1
        /\ Restore(n, m, rev.commit,
                   Push(histories[n], Entry(m, rev.commit, {}, {}, NoSelection, NoSelection)))
        /\ selection' = SelectionRenamed(n, m, rev.commit)
        /\ UNCHANGED <<phase, press, drag>>

\* _revCreate(): a ref m at c, in a column after the template's.
RevCreate(template, c, m) ==
    LET at == CHOOSE i \in DOMAIN revs : revs[i] = template
        rev == [ref |-> m, skip |-> 0, readOnly |-> FALSE, commit |-> c]
        r == [x \in DOMAIN refs \cup {m} |-> IF x = m THEN c ELSE refs[x]]
    IN  /\ phase = "idle" /\ m \notin DOMAIN refs
        /\ ops < MaxOps /\ ops' = ops + 1
        /\ refs' = r
        /\ IF template \in ToSet(revs)
           THEN /\ phase' = "idle"
                /\ selection' = [rev |-> rev, commits |-> {c}]
                /\ histories' = [x \in DOMAIN histories \cup {m} |->
                                    IF x = m THEN Fresh(Entry(m, c, {}, {}, NoSelection, NoSelection))
                                    ELSE histories[x]]
                /\ Reload(InsertAt(revs, at + 1, rev), r, size)
           ELSE phase' = "aborted" /\ UNCHANGED <<revs, columns, size, histories, selection>>
        /\ UNCHANGED <<press, drag>>

\* The key B and the item Branch; the item Duplicate.
Branch(m) == Cardinality(selection.commits) = 1 /\ RevCreate(selection.rev, Latest(selection.commits), m)
Duplicate(i, m) == RevCreate(columns[i], columns[i].commit, m)

\* _gitRefDelete()
RefDelete(i) ==
    LET n == columns[i].ref
        r == [x \in DOMAIN refs \ {n} |-> refs[x]]
    IN  /\ phase = "idle" /\ Mutable(columns[i])
        /\ refs' = r
        /\ histories' = [x \in DOMAIN histories \ {n} |-> histories[x]]
        /\ selection' = IF selection.rev # None /\ selection.rev.ref = n THEN NoSelection ELSE selection
        /\ Reload(Keep(revs, {k \in DOMAIN revs : revs[k].ref # n}), r, size)
        /\ UNCHANGED <<phase, press, drag, ops>>

\* The terminal gets size s.  WindowResize leaves the handler that runs, and App::track()
\* reloads; nothing resets _drag.
Resize(s) ==
    /\ phase \in {"idle", "pressed"} /\ s # size
    /\ phase' = "idle" /\ press' = NoPress
    /\ Reload(revs, refs, s)
    /\ UNCHANGED <<refs, histories, selection, drag, ops>>
----------------------------------------------------------------------------
(* main()                                                                  *)

\* "Unique the supplied revs".
Unique(s) == Keep(s, {i \in DOMAIN s : \A j \in 1..i - 1 : s[j] # s[i]})

\* The revs that are asked for: the arguments, or HEAD and the refs that were checked out
\* before, as far as they still exist.
AskedFor(l) ==
    LET exist == Keep(l.reflog, {i \in DOMAIN l.reflog : l.reflog[i] \in DOMAIN l.refs})
        recent == Unique(<<l.head>> \o exist)
        count == IF RevCount < Len(recent) THEN RevCount ELSE Len(recent)
    IN  IF l.args = <<>> THEN [i \in 1..count |-> [ref |-> recent[i], skip |-> 0]]
        ELSE Unique(l.args)

\* "prevent the currently checked-out branch from being modified"
Launched(l) ==
    [i \in DOMAIN AskedFor(l) |->
        LET n == AskedFor(l)[i].ref
        IN  [ref |-> n, skip |-> AskedFor(l)[i].skip, readOnly |-> l.dirty /\ n = l.head,
             commit |-> l.refs[n]]]

Init ==
    /\ \E l \in Launches, s \in Sizes :
          /\ refs = l.refs
          /\ revs = Launched(l)
          /\ size = s
          /\ columns = Shown(revs, s)
          /\ histories = [n \in {revs[i].ref : i \in DOMAIN revs} |->
                             Fresh(Entry(n, refs[n], {}, {}, NoSelection, NoSelection))]
    /\ selection = NoSelection
    /\ phase = "idle" /\ press = NoPress /\ drag = FALSE
    /\ ops = 0

Mouse ==
    \/ \E i \in DOMAIN columns : \E x \in Panels(columns[i]), allow \in BOOLEAN : Press(i, x, allow)
    \/ \E allow \in BOOLEAN : Drag(allow)
    \/ \E j \in DOMAIN columns, copy \in BOOLEAN : \E b \in Drops(j) : ReleaseDrag(j, b, copy)
    \/ \E copy \in BOOLEAN : ReleaseStaleDrag(copy)
    \/ \E double \in BOOLEAN : Click(double)
    \/ ReleaseNothing
    \/ \E i \in DOMAIN columns : \E S \in Runs(columns[i]), shift \in BOOLEAN :
          SelectRect([rev |-> columns[i], commits |-> S], shift)
    \/ \E shift \in BOOLEAN : SelectRect(NoSelection, shift)
    \/ \E i \in DOMAIN columns : \E x \in Panels(columns[i]) : ContextMenu(i, x)

Keys ==
    \/ \E type \in {"Delete", "Combine", "Edit"} : Key(type)
    \/ \E m \in Names : Branch(m)

Column ==
    \E i \in DOMAIN columns :
       \/ \E undo \in BOOLEAN : UndoRedo(i, undo)
       \/ \E m \in Names : Rename(i, m)
       \/ \E m \in Names : Duplicate(i, m)
       \/ RefDelete(i)

Next == Mouse \/ Keys \/ Column \/ \E s \in Sizes : Resize(s)

Spec == Init /\ [][Next]_vars
----------------------------------------------------------------------------
(* Properties                                                              *)

TypeOK ==
    /\ DOMAIN refs \subseteq Names /\ \A n \in DOMAIN refs : refs[n] \in Commits \ {Null}
    /\ \A i \in DOMAIN revs : revs[i] \in Rev
    /\ \A i \in DOMAIN columns : columns[i] \in Rev
    /\ size \in Sizes
    /\ \A n \in DOMAIN histories : histories[n] \in HistoryOf(Entries)
    /\ selection \in Selections
    /\ phase \in {"idle", "pressed", "aborted"}
    /\ press \in [column : Nat, commit : Commits, dragged : BOOLEAN]
    /\ phase = "pressed" <=> press # NoPress
    /\ drag \in BOOLEAN /\ ops \in 0..MaxOps

\* "Our code assumes a 1:1 mapping between Revs and RevColumns" (main.cpp): whatever is created,
\* renamed, deleted or undone, no two revs are equal, the columns are the first revs that fit,
\* every one of them at the commit its ref has in git (the two sides of a move within a ref are
\* asserted to agree on it), and the history that its buttons will use ends in that state.
ColumnsMirrorGit ==
    /\ IsInjective(revs)
    /\ columns = Shown(revs, size)
    /\ \A i \in DOMAIN revs :
          LET n == revs[i].ref
          IN  /\ n \in DOMAIN refs \cap DOMAIN histories
              /\ revs[i].commit = refs[n]
              /\ histories[n].cur.name = n /\ histories[n].cur.head = refs[n]

\* What is selected is in a rev that there is: _revCreate() asserts that it finds its template
\* in _revs, and _FindLatestCommit() aborts when the selection runs out of commits.
SelectionIsLive ==
    selection.rev # None => /\ phase # "aborted" => selection.rev \in ToSet(revs)
                            /\ selection.commits \subseteq Ancestors(selection.rev.commit)

\* What a history says was selected when a ref had some state was in that state of the ref, after
\* any sequence of operations, renames and undos: an undo or a redo selects it without looking.
SelectionsFitTheirStates ==
    \A n \in DOMAIN histories :
        LET h == histories[n]
            line == Reverse(h.prev) \o <<h.cur>> \o h.next
        IN  \A i \in DOMAIN line :
                /\ line[i].selection \subseteq Ancestors(line[i].head)
                /\ i > 1 => line[i].selectionPrev \subseteq Ancestors(line[i - 1].head)

\* In a column without a skip, the latest of the selected commits has a panel if any of them has:
\* the drag that starts there uses it as its title, and _panelForCommit() aborts without it
\* ("Programmer error if it doesn't exist").  In a column that skips commits it does abort, when
\* an undo, or a drop into the column, selects a commit that is skipped.
AbortsOnlyUnderASkip ==
    /\ phase = "aborted" => selection.rev # None /\ selection.rev.skip > 0
    /\ \A i \in DOMAIN columns :
          (columns[i].skip = 0 /\ \E x \in Panels(columns[i]) : Selected(columns[i], x)) =>
              Latest(selection.commits) \in Panels(columns[i])

\* Nothing the user does changes, renames or deletes the branch that has uncommitted changes:
\* not a drag from it or onto it, not a key, and no undo.
ReadOnlyRefsStay ==
    [][\A i \in DOMAIN revs : revs[i].readOnly =>
          revs[i].ref \in DOMAIN refs' /\ refs'[revs[i].ref] = refs[revs[i].ref]]_vars

\* What a selection selects in the ref n.
SelectedIn(sel, n) == IF sel.rev # None /\ sel.rev.ref = n THEN sel.commits ELSE {}

\* An undo selects in the ref what the user had selected there when he asked for the operation
\* (a copy leaves its source alone), and a redo what the operation selected in it.
UndoRedoSelects ==
    [][\A i \in DOMAIN columns :
          LET n == columns[i].ref
              h == histories[n]
          IN  /\ UndoRedo(i, TRUE) => selection'.commits = SelectedIn(h.cur.before, n)
              /\ UndoRedo(i, FALSE) => selection'.commits = SelectedIn(NextPeek(h).after, n)]_vars

\* "If this was a mouse-down + mouse-up without dragging in between, set the selection to the
\* commit that was clicked" (App.h:1010).  After a drag that a resize ended it is dropped.
ClickOnlySelects ==
    [][(\E copy \in BOOLEAN : ReleaseStaleDrag(copy)) \/ Click(FALSE) =>
          /\ UNCHANGED refs
          /\ selection' = [rev |-> columns[press.column], commits |-> {press.commit}]]_vars
----------------------------------------------------------------------------
(* What the proofs rest on                                                 *)

\* Git finds the refs of the arguments, and what is checked out.
ASSUME ColumnsAssumption ==
    /\ RevCount \in Nat /\ MaxOps \in Nat
    /\ None \notin Rev /\ None \notin Names
    /\ Edited \in Changes
    /\ \A s \in Sizes : s.width \in Nat /\ s.height \in Nat
    /\ \A l \in Launches :
          /\ DOMAIN l.refs \subseteq Names
          /\ \A n \in DOMAIN l.refs : l.refs[n] \in Commits \ {Null}
          /\ l.head \in DOMAIN l.refs
          /\ l.args \in Seq([ref : DOMAIN l.refs, skip : Nat])
          /\ l.reflog \in Seq(ToSet(l.reflog))
          /\ l.dirty \in BOOLEAN

IsRev(v) == v = [ref |-> v.ref, skip |-> v.skip, readOnly |-> v.readOnly, commit |-> v.commit]

\* No two of the revs rs have the same ref and skip, those of one ref are all read-only or none,
\* and the history h of a ref ends in its state in r.
RevsFit(rs, r, h) ==
    /\ rs \in Seq(ToSet(rs))
    /\ \A i \in DOMAIN rs :
          LET n == rs[i].ref
          IN  /\ IsRev(rs[i])
              /\ n \in DOMAIN r /\ n \in DOMAIN h /\ h[n].cur.name = n /\ h[n].cur.head = r[n]
    /\ \A i, j \in DOMAIN rs :
          rs[i].ref = rs[j].ref => /\ rs[i].readOnly = rs[j].readOnly
                                   /\ rs[i].skip = rs[j].skip => i = j

\* The rev that is selected, be it one that is gone, is read-only if its ref is.
KnowsReadOnly(rev, rs) ==
    /\ IsRev(rev)
    /\ \A i \in DOMAIN rs : rs[i].ref = rev.ref /\ rs[i].readOnly => rev.readOnly

ColumnsInv ==
    /\ RevsFit(revs, refs, histories)
    /\ \A i \in DOMAIN revs : revs[i].commit = refs[revs[i].ref]
    /\ size \in Sizes /\ columns = Shown(revs, size)
    /\ selection = [rev |-> selection.rev, commits |-> selection.commits]
    /\ selection.rev # None => KnowsReadOnly(selection.rev, revs)
    /\ phase = "pressed" => press.column \in DOMAIN columns

\* The entry d of a history is followed by e: what e says was selected was in the states that it
\* says it of, and is what the user had selected then.
Follows(d, e) ==
    /\ e.selection = SelectedIn(e.after, d.name)
    /\ e.selectionPrev = SelectedIn(e.before, e.name)
    /\ e.selectionPrev \subseteq Ancestors(d.head)

HistoryFits(h) ==
    /\ \A e \in ToSet(h.prev) \cup {h.cur} \cup ToSet(h.next) : e.selection \subseteq Ancestors(e.head)
    /\ \A i \in 1..Len(h.prev) : Follows(h.prev[i], IF i = 1 THEN h.cur ELSE h.prev[i - 1])
    /\ \A i \in 1..Len(h.next) : Follows(IF i = 1 THEN h.cur ELSE h.next[i - 1], h.next[i])

\* There is something selected only in a rev, what the mouse went down on is still there, and
\* a history says of every state what was selected in it.
SelectionsInv ==
    /\ TypeOK /\ SelectionIsLive
    /\ selection.rev = None => selection.commits = {}
    /\ phase = "pressed" => /\ press.commit \in Panels(columns[press.column])
                            /\ Selected(columns[press.column], press.commit)
    /\ phase = "aborted" => selection.rev # None /\ selection.rev.skip > 0
    /\ DOMAIN histories \subseteq DOMAIN refs
    /\ \A n \in DOMAIN histories : HistoryFits(histories[n])

InductiveInv == ColumnsInv /\ SelectionsInv
=============================================================================
