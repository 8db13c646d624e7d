----------------------------- MODULE MCColumns -----------------------------
(***************************************************************************)
(* Columns on small instances: one operation on a branch of three commits, *)
(* that may have uncommitted changes, beside another branch or itself from *)
(* its second commit on; two operations on two commits, one of them shown in a *)
(* column twice.                                                           *)
(***************************************************************************)
EXTENDS Columns, TLC

CONSTANTS main, topic, main2,
          MaxResizes  \* bound: times the terminal is resized

VARIABLES resizes,
          short    \* bound: whether this is a launch on two commits

RevOf(n, skip) == [ref |-> n, skip |-> skip]

Three == main :> << <<1>>, <<2>>, <<3>> >> @@ topic :> << <<4>> >>
Two == main :> << <<1>>, <<2>> >> @@ topic :> << <<3>> >>

Launch(r, dirty, reflog, args) ==
    [refs |-> r, head |-> main, dirty |-> dirty, reflog |-> reflog, args |-> args]

\* With arguments, one of them twice, or what was checked out last; the ref main2 is gone.
Long == {Launch(Three, dirty, <<main2, main, topic>>, <<>>) : dirty \in BOOLEAN}
        \cup {Launch(Three, FALSE, <<>>, <<RevOf(main, 0), RevOf(main, 1), RevOf(main, 0)>>)}
Short == {Launch(Two, FALSE, <<>>, <<RevOf(main, 0), RevOf(topic, 0)>>),
          Launch(Two, FALSE, <<>>, <<RevOf(main, 0), RevOf(main, 1)>>)}

MCNames == {main, topic, main2}
MCLaunches == Long \cup Short
MCSizes == {[width |-> 1, height |-> 2], [width |-> 2, height |-> 2], [width |-> 2, height |-> 3]}

MCInit ==
    /\ Init
    /\ resizes = 0
    /\ short = (refs = Two)
    /\ short => size = [width |-> 2, height |-> 2]

MCNext ==
    /\ \/ (Mouse \/ Keys \/ Column) /\ UNCHANGED resizes
       \/ /\ ~short /\ resizes < MaxResizes /\ resizes' = resizes + 1
          /\ \E s \in Sizes : Resize(s)
    /\ short \/ ops' <= 1
    /\ UNCHANGED short

MCSpec == MCInit /\ [][MCNext]_<<vars, resizes, short>>
=============================================================================
