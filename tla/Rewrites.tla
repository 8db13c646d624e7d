------------------------------ MODULE Rewrites ------------------------------
(***************************************************************************)
(* Commits, and what an operation of Git::Modify makes of refs when it is  *)
(* said in one step.                                                       *)
(*                                                                         *)
(* A patch is the sequence of the changes it makes; a commit is the        *)
(* sequence of the patches from the root to it, and the null commit is     *)
(* empty.  So a commit's parent is its front, and a patch put on another   *)
(* parent is another commit: as in git, a commit is what it contains.      *)
(***************************************************************************)
EXTENDS Integers, SequencesExt

CONSTANTS Changes,  \* what patches are made of
          Edited,   \* the change that editing a commit's message makes
          None      \* no ref, or a commit not computed yet

\* The k-th of the indexes I, and the elements of s at those indexes, in their order.
Nth(I, k) == CHOOSE i \in I : Cardinality({j \in I : j <= i}) = k
Keep(s, I) == [k \in 1..Cardinality(I) |-> s[Nth(I, k)]]

Commits == Seq(Seq(Changes))
Null == <<>>

Parent(x) == Front(x)
Ancestors(x) == {SubSeq(x, 1, k) : k \in 1..Len(x)}

NoSelection == [rev |-> None, commits |-> {}]

\* _CommitsHasGap(), _FindEarliestCommit(), _FindLatestCommit()
HasGap(S) == \E x, y \in S : \E z \in Ancestors(y) \ S : Len(x) < Len(z)
Earliest(S) == CHOOSE x \in S : \A y \in S : Len(x) <= Len(y)
Latest(S) == CHOOSE x \in S : \A y \in S : Len(y) <= Len(x)

\* Mutant: gaps do not count.
IsNopDespiteGap(s, S, d, p) == s = d /\ p \in S \cup {Parent(Earliest(S))}

\* _MoveIsNop()
MoveIsNop(s, S, d, p) == s = d /\ ~HasGap(S) /\ p \in S \cup {Parent(Earliest(S))}
----------------------------------------------------------------------------
(* An operation o = [type, src, commits, dst, position] on the refs r      *)


\* s, with the patches at the indexes I gathered above the p-th.
Gathered(s, I, p) == Keep(s, (1..p) \ I) \o Keep(s, I) \o Keep(s, (p + 1 .. Len(s)) \ I)

\* s without the patches at the indexes I, and with t above the p-th.
Without(s, I) == Keep(s, DOMAIN s \ I)
Into(s, t, p) == SubSeq(s, 1, p) \o t \o SubSeq(s, p + 1, Len(s))

\* The refs that the user asked for, said by index: the patches of o.commits in o.src go above
\* o.position in o.dst; they go; they become one patch; or one of them is edited.
Asked(r, o) ==
    LET src == r[o.src]
        dst == r[o.dst]
        I == {Len(x) : x \in o.commits}
        p == Len(o.position)
        first == Len(Earliest(o.commits))
        chosen == Keep(src, I)
    IN  CASE o.type = "Move" /\ o.dst = o.src -> [r EXCEPT ![o.src] = Gathered(src, I, p)]
          [] o.type = "Move" /\ o.dst # o.src ->
                [r EXCEPT ![o.src] = Without(src, I), ![o.dst] = Into(dst, chosen, p)]
          [] o.type = "Copy" -> [r EXCEPT ![o.dst] = Into(dst, chosen, p)]
          [] o.type = "Delete" -> [r EXCEPT ![o.src] = Without(src, I)]
          [] o.type = "Combine" ->
                [r EXCEPT ![o.src] = Into(Without(src, I), <<FlattenSeq(chosen)>>, first - 1)]
          [] o.type = "Edit" -> [r EXCEPT ![o.src] = [src EXCEPT ![first] = Append(@, Edited)]]

\* The commits that the user asked for, in the ref that results: those that were moved,
\* copied, combined or edited, now on their new parents.
AskedSelection(r, o) ==
    LET I == {Len(x) : x \in o.commits}
        p == Len(o.position)
        from == IF o.type = "Move" /\ o.dst = o.src THEN p - Cardinality({i \in I : i <= p}) ELSE p
        indexes == CASE o.type \in {"Move", "Copy"} -> from + 1 .. from + Cardinality(I)
                     [] o.type = "Delete" -> {}
                     [] o.type \in {"Combine", "Edit"} -> {Len(Earliest(o.commits))}
        target == IF o.dst = None THEN o.src ELSE o.dst
    IN  [rev |-> target, commits |-> {SubSeq(Asked(r, o)[target], 1, i) : i \in indexes}]
=============================================================================
