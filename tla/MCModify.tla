------------------------------ MODULE MCModify ------------------------------
(***************************************************************************)
(* Instances of Modify for TLC.  An operation that is not the first begins *)
(* only where the refs that can be modified are short.                     *)
(***************************************************************************)
EXTENDS Modify

CONSTANTS main, feature, tag,
          MaxLengthLater  \* bound: patches of the refs when a later operation begins

A == <<"a">>
B == <<"b">>
C == <<"c">>
D == <<"d">>

\* Two refs that share their first two commits, one that has equal patches, one that is
\* within another, and two short ones; the tag cannot be modified.
Forked == main :> <<A, B, C>> @@ feature :> <<A, B, D, A>> @@ tag :> <<A, B>>
Repeated == main :> <<A, B, A, B>> @@ feature :> <<B>> @@ tag :> <<B, C>>
Short == main :> <<A, B>> @@ feature :> <<A, C>> @@ tag :> <<B>>
Histories == {Forked, Repeated, Short}

\* Histories that do not fit in a column of height 1.
Truncated == {main :> <<A, B>> @@ feature :> <<C>>}

LaterIsShort ==
    ops # 0 /\ ops' # ops => \A r \in Refs \ ReadOnly : Len(refs[r]) <= MaxLengthLater

MCSpec == Init /\ [][Next /\ LaterIsShort]_vars /\ WF_vars(Run)
=============================================================================
