----------------------------- MODULE Timelines -----------------------------
(***************************************************************************)
(* What debase promises about undo: every ref of the repository has a      *)
(* timeline, a past, a present and a future.  The present is what git says *)
(* the ref is (its name and its commit), never what debase believes.       *)
(*                                                                         *)
(* A change made with debase moves the present into the past and forgets   *)
(* the future; undo and redo walk along the timeline and change nothing    *)
(* else.  Closing debase and starting it again are not steps of this       *)
(* specification that change a timeline: the promise spans sessions.       *)
(***************************************************************************)
EXTENDS Naturals, Sequences

VARIABLES open,   \* a debase session is running
          lines   \* the timelines debase answers for

Nows(L) == {t.now : t \in L}

\* t2 is t after a change made with debase.
Edited(t, t2) == t2.past = <<t.now>> \o t.past /\ t2.future = <<>>

Undone(t, t2) ==
    /\ t.past # <<>>
    /\ t2 = [past |-> Tail(t.past), now |-> Head(t.past), future |-> <<t.now>> \o t.future]

Redone(t, t2) ==
    /\ t.future # <<>>
    /\ t2 = [past |-> <<t.now>> \o t.past, now |-> Head(t.future), future |-> Tail(t.future)]

\* One line is replaced by another; every other line stays as it is.
Replaced(t, t2) == lines' = (lines \ {t}) \cup {t2}

Init == ~open

\* An operation changes one ref, or two at once (commits moved between refs).
Edit ==
    /\ open /\ open'
    /\ \/ \E t \in lines, t2 \in lines' : Edited(t, t2) /\ Replaced(t, t2)
       \/ \E s, d \in lines, s2, d2 \in lines' :
             /\ s # d
             /\ Edited(s, s2) /\ Edited(d, d2)
             /\ lines' = (lines \ {s, d}) \cup {s2, d2}

Undo == /\ open /\ open'
        /\ \E t \in lines, t2 \in lines' : Undone(t, t2) /\ Replaced(t, t2)

Redo == /\ open /\ open'
        /\ \E t \in lines, t2 \in lines' : Redone(t, t2) /\ Replaced(t, t2)

\* A ref is created, or an operation succeeds on a ref that had been given up,
\* possibly while it moves commits from another ref.
Join == /\ open /\ open'
        /\ \E t2 \in lines' : lines' = lines \cup {t2} /\ t2.now \notin Nows(lines)

JoinAndEdit ==
    /\ open /\ open'
    /\ \E t \in lines, t2, new \in lines' :
          /\ Edited(t, t2)
          /\ new.now \notin Nows(lines)
          /\ lines' = (lines \ {t}) \cup {t2, new}

JoinBoth ==
    /\ open /\ open'
    /\ \E a, b \in lines' : lines' = lines \cup {a, b} /\ {a.now, b.now} \cap Nows(lines) = {}

\* A ref is deleted, or an operation on it fails half way.
Leave == open /\ open' /\ \E t \in lines : lines' = lines \ {t}

\* A session starts: nothing that was promised changes.
Open == ~open /\ open' /\ lines \subseteq lines' /\ \A t, u \in lines' : t.now = u.now => t = u

\* A session ends and its histories were saved.
Close == open /\ ~open' /\ UNCHANGED lines

\* A session ends without saving (killed, or the state file cannot be written): the
\* refs stay what they are, their past and future may be lost.
Forget == open /\ ~open' /\ Nows(lines') = Nows(lines)

\* git is used on one ref while no session runs.
Elsewhere ==
    /\ ~open /\ ~open'
    /\ \A t, u \in lines \ lines' : t = u
    /\ \A t, u \in lines' \ lines : t = u

Next == Edit \/ Undo \/ Redo \/ Join \/ JoinAndEdit \/ JoinBoth \/ Leave
        \/ Open \/ Close \/ Forget \/ Elsewhere

Spec == Init /\ [][Next]_<<open, lines>>
=============================================================================
