---------------------------- MODULE ModifyProofs ----------------------------
(***************************************************************************)
(* What holds of Modify for every history, every column height and any     *)
(* number of operations.                                                   *)
(***************************************************************************)
EXTENDS Modify, RewritesProofs
----------------------------------------------------------------------------
(* The lists that the loops build                                          *)

\* Adding to the front, and concatenation of lists.
LEMMA Lists ==
    ASSUME NEW S, NEW s \in Seq(S), NEW t \in Seq(S), NEW e \in S
    PROVE  /\ <<e>> \o s \in Seq(S) /\ <<e>> \o s # <<>>
           /\ s \o t \in Seq(S) /\ (s # <<>> => s \o t # <<>>)
           /\ s # <<>> => s[1] \in S /\ Tail(s) \in Seq(S)
           /\ <<>> \in Seq(S)
<1>1. <<e>> \in Seq(S) /\ Len(<<e>>) = 1 /\ <<>> \in Seq(S) /\ Len(<<>>) = 0
  BY EmptySeq
<1>2. /\ <<e>> \o s \in Seq(S) /\ Len(<<e>> \o s) = 1 + Len(s)
      /\ s \o t \in Seq(S) /\ Len(s \o t) = Len(s) + Len(t)
      /\ Len(s) \in Nat /\ Len(t) \in Nat
  BY <1>1, ConcatProperties, LenProperties
<1>3. s # <<>> => Len(s) \in Nat \ {0}
  BY EmptySeq
<1>4. s # <<>> => s[1] \in S /\ Tail(s) \in Seq(S)
  <2>1. s # <<>> => 1 \in 1..Len(s)
    BY <1>3
  <2>2. QED  BY <2>1, ElementOfSeq, HeadTailProperties
<1>5. QED  BY <1>1, <1>2, <1>3, <1>4

\* The commits to add, with their flag.
LEMMA InsertedIsAList ==
    ASSUME TypeOK
    PROVE  /\ Inserted \in Seq(CommitAdded)
           /\ AtPosition \/ combined # <<>> => Inserted # <<>>
<1> DEFINE flagged == [i \in DOMAIN addv |-> [commit |-> addv[i], added |-> TRUE]]
<1>1. addv \in Seq(Commits \ {Null}) /\ combined \in Seq(CommitAdded)
  BY DEF TypeOK
<1>2. DOMAIN addv = 1..Len(addv) /\ Len(addv) \in Nat /\ (addv # <<>> => Len(addv) # 0)
  BY <1>1, LenProperties, EmptySeq
<1>3. \A i \in 1..Len(addv) : flagged[i] \in CommitAdded
  BY <1>1, <1>2, ElementOfSeq DEF CommitAdded
<1>4. flagged \in Seq(CommitAdded) /\ Len(flagged) = Len(addv)
  BY <1>2, <1>3
<1>5. addv # <<>> => flagged # <<>>
  BY <1>2, <1>4, EmptySeq
<1> HIDE DEF flagged
<1>6. /\ flagged \o combined \in Seq(CommitAdded)
      /\ Len(flagged \o combined) = Len(flagged) + Len(combined)
      /\ Len(combined) \in Nat
  BY <1>1, <1>4, ConcatProperties, LenProperties
<1>7. AtPosition => flagged \o combined # <<>>
  BY <1>2, <1>4, <1>6, EmptySeq DEF AtPosition, Adding
<1>8. QED  BY <1>1, <1>6, <1>7 DEF Inserted, flagged
----------------------------------------------------------------------------
(* The program's steps keep the invariant                                  *)

LEMMA SortKeeps ==
    ASSUME ModifyInv, Sort
    PROVE  ModifyInv'
<1> USE DEF ModifyInv
<1>1. c \in Commits \ {Null}
  BY AncestorsAreCommits DEF Sort, SortFinds, TypeOK
<1>2. /\ Parent(c) \in Commits /\ Ancestors(c) = Ancestors(Parent(c)) \cup {c}
  BY <1>1, ParentIsFront, AncestorsOfParent
<1>3. addv' \in Seq(Commits \ {Null}) /\ (c \in rem => addv' # <<>>)
  BY <1>1, Lists DEF Sort, TypeOK
<1>4. TypeOK'
  BY <1>2, <1>3 DEF TypeOK, Sort
<1>5. OpFits' /\ CallFits' /\ SelectionExists' /\ ResultIsACommit'
  BY DEF Sort, OpFits, CallFits, SelectionExists, ResultIsACommit, SourceOnly, Between,
         LastCommitChecked
<1>6. SortFinds' /\ WalkFinds' /\ GatherFinds' /\ (pc # "aborted")' /\ AddedIsBuilt'
  BY <1>2 DEF Sort, SortFinds, WalkFinds, GatherFinds, AddedIsBuilt
<1>7. AddsWhatItShould'
  BY <1>3 DEF Sort, AddsWhatItShould
<1>8. QED  BY <1>4, <1>5, <1>6, <1>7

LEMMA SortEndsKeeps ==
    ASSUME ModifyInv, SortEnds
    PROVE  ModifyInv'
<1> USE DEF ModifyInv
<1>1. TypeOK'
  BY DEF TypeOK, SortEnds, Goto
<1>2. OpFits' /\ CallFits' /\ SelectionExists' /\ ResultIsACommit'
  BY DEF SortEnds, Goto, OpFits, CallFits, SelectionExists, ResultIsACommit, SourceOnly, Between,
         LastCommitChecked
<1>3. AddsWhatItShould' /\ ~found'
  BY DEF SortEnds, Goto, AddsWhatItShould, Adding
<1>4. SortFinds' /\ WalkFinds' /\ GatherFinds' /\ (pc # "aborted")' /\ AddedIsBuilt'
  BY <1>3 DEF SortEnds, Goto, SortFinds, WalkFinds, GatherFinds, AddedIsBuilt, CallFits, Adding,
              AddsWhatItShould
<1>5. QED  BY <1>1, <1>2, <1>3, <1>4

\* The assertions of _AddRemoveCommits hold.
LEMMA NoAssertFails ==
    ASSUME ModifyInv, pc = "walk"
    PROVE  ~AssertFails
<1>1. Len(c) \in Nat /\ Ancestors(Null) = {}
  BY AncestorsAreCommits, LenProperties DEF ModifyInv, TypeOK, Commits
<1>2. ~(AtPosition /\ found)
  BY <1>1 DEF AtPosition, ModifyInv, WalkFinds
<1>3. WalkDone \/ c # Null
  BY <1>1 DEF WalkDone, AtPosition, ModifyInv, WalkFinds
<1>4. QED  BY <1>2, <1>3 DEF AssertFails

LEMMA WalkKeeps ==
    ASSUME ModifyInv, Walk
    PROVE  ModifyInv'
<1> USE DEF ModifyInv
<1>1. /\ pc = "walk" /\ ~WalkDone /\ pc' = "walk" /\ c # Null
  BY NoAssertFails DEF Walk, Goto, AssertFails
<1>2. /\ c \in Commits \ {Null}
      /\ Parent(c) \in Commits /\ Ancestors(c) = Ancestors(Parent(c)) \cup {c}
      /\ Len(Parent(c)) = Len(c) - 1 /\ Len(c) \in Nat
  BY <1>1, ParentIsFront, AncestorsOfParent DEF TypeOK
<1>3. [commit |-> c, added |-> FALSE] \in CommitAdded
  BY <1>2 DEF CommitAdded
<1>4. /\ combined' \in Seq(CommitAdded)
      /\ found' => combined' # <<>>
  <2>1. Inserted \in Seq(CommitAdded) /\ (AtPosition \/ combined # <<>> => Inserted # <<>>)
    BY InsertedIsAList
  <2>2. /\ <<[commit |-> c, added |-> FALSE]>> \o Inserted \in Seq(CommitAdded)
        /\ <<[commit |-> c, added |-> FALSE]>> \o Inserted # <<>>
    BY <1>3, <2>1, Lists
  <2>3. found => combined # <<>>
    BY <1>1 DEF AddsWhatItShould
  <2>4. QED  BY <2>1, <2>2, <2>3 DEF Walk
<1>5. TypeOK'
  BY <1>1, <1>2, <1>4 DEF TypeOK, Walk
<1>6. OpFits' /\ CallFits' /\ SelectionExists' /\ ResultIsACommit'
  BY <1>1 DEF Walk, OpFits, CallFits, SelectionExists, ResultIsACommit, SourceOnly, Between,
              LastCommitChecked
<1>7. WalkFinds'
  <2>1. rem' \subseteq Ancestors(c')
    BY <1>1, <1>2 DEF Walk, WalkFinds
  <2>2. Adding /\ ~found' => call.position \in Ancestors(c') \cup {Null}
    BY <1>1, <1>2 DEF Walk, WalkFinds, AtPosition
  <2>3. Adding /\ found' => Len(c') < Len(call.position)
    <3>1. Len(call.position) \in Nat
      BY LenProperties DEF TypeOK, Commits
    <3>2. found' => found \/ c = call.position
      BY DEF Walk, AtPosition
    <3>3. Adding /\ found => Len(c) < Len(call.position)
      BY <1>1 DEF WalkFinds
    <3>4. c' = Parent(c)
      BY DEF Walk
    <3>5. QED  BY <1>2, <3>1, <3>2, <3>3, <3>4
  <2>4. QED  BY <2>1, <2>2, <2>3 DEF WalkFinds, Walk, Adding
<1>8. SortFinds' /\ GatherFinds' /\ (pc # "aborted")' /\ AddedIsBuilt'
  BY <1>1 DEF Walk, SortFinds, GatherFinds, AddedIsBuilt
<1>9. AddsWhatItShould'
  BY <1>1, <1>4 DEF Walk, AddsWhatItShould, Adding
<1>10. QED  BY <1>5, <1>6, <1>7, <1>8, <1>9

LEMMA WalkEndsKeeps ==
    ASSUME ModifyInv, WalkEnds
    PROVE  ModifyInv'
<1> USE DEF ModifyInv
<1>1. /\ Inserted \in Seq(CommitAdded)
      /\ AtPosition \/ combined # <<>> => Inserted # <<>>
  BY InsertedIsAList
<1>2. pc = "walk" /\ pc' = "apply"
  BY DEF WalkEnds, Goto
<1>3. TypeOK'
  BY <1>1, <1>2 DEF TypeOK, WalkEnds
<1>4. OpFits' /\ CallFits' /\ SelectionExists'
  BY <1>2 DEF WalkEnds, OpFits, CallFits, SelectionExists
<1>5. ResultIsACommit'
  <2>1. Adding => combined' # <<>>
    BY <1>1, <1>2 DEF WalkEnds, WalkDone, AddsWhatItShould
  <2>2. op.type = "Delete" \/ SourceOnly \/ Adding
    BY <1>2 DEF ResultIsACommit, AddsWhatItShould
  <2>3. UNCHANGED <<refs, op, removed>>
    BY DEF WalkEnds
  <2>4. QED  BY <1>2, <2>1, <2>2, <2>3 DEF ResultIsACommit, SourceOnly, Between, LastCommitChecked
<1>6. SortFinds' /\ WalkFinds' /\ GatherFinds' /\ (pc # "aborted")' /\ AddsWhatItShould'
  BY <1>2 DEF SortFinds, WalkFinds, GatherFinds, AddsWhatItShould
<1>7. AddedIsBuilt'
  BY <1>2 DEF WalkEnds, AddedIsBuilt
<1>8. QED  BY <1>3, <1>4, <1>5, <1>6, <1>7

LEMMA ApplyKeeps ==
    ASSUME ModifyInv, Apply
    PROVE  ModifyInv'
<1> USE DEF ModifyInv
<1>1. pc = "apply" /\ pc' = "apply" /\ combined # <<>>
  BY DEF Apply
<1>2. combined[1] \in CommitAdded /\ Tail(combined) \in Seq(CommitAdded)
  BY <1>1, Lists DEF TypeOK
<1>3. Last(combined[1].commit) \in Patches
  BY <1>2, ParentIsFront DEF CommitAdded
<1>4. head' \in Commits \ {Null} /\ Ancestors(head') = Ancestors(head) \cup {head'}
  BY <1>3, AppendIsCommit DEF Apply, OnParent, TypeOK
<1>5. added' \subseteq added \cup {head'}
  BY DEF Apply, WithAdded
<1>6. TypeOK'
  BY <1>1, <1>2, <1>4, <1>5 DEF TypeOK, Apply
<1>7. OpFits' /\ CallFits' /\ SelectionExists' /\ ResultIsACommit'
  BY <1>1, <1>4 DEF Apply, OpFits, CallFits, SelectionExists, ResultIsACommit, SourceOnly, Between,
                    LastCommitChecked
<1>8. SortFinds' /\ WalkFinds' /\ GatherFinds' /\ (pc # "aborted")' /\ AddsWhatItShould'
  BY <1>1 DEF SortFinds, WalkFinds, GatherFinds, AddsWhatItShould
<1>9. AddedIsBuilt'
  BY <1>1, <1>4, <1>5 DEF AddedIsBuilt
<1>10. QED  BY <1>6, <1>7, <1>8, <1>9

LEMMA GatherKeeps ==
    ASSUME ModifyInv, Gather
    PROVE  ModifyInv'
<1> USE DEF ModifyInv
<1>1. pc = "gather" /\ pc' = "gather" /\ c \in Commits \ {Null}
  BY DEF Gather, TypeOK
<1>2. /\ Parent(c) \in Commits /\ Ancestors(c) = Ancestors(Parent(c)) \cup {c}
  BY <1>1, ParentIsFront, AncestorsOfParent
<1>3. /\ <<c>> \o integrate \in Seq(Commits \ {Null})
      /\ <<[commit |-> c, added |-> FALSE]>> \o combined \in Seq(CommitAdded)
  BY <1>1, Lists DEF TypeOK, CommitAdded
<1>4. TypeOK'
  BY <1>1, <1>2, <1>3 DEF TypeOK, Gather
<1>5. OpFits' /\ CallFits' /\ SelectionExists' /\ ResultIsACommit'
  BY <1>1 DEF Gather, OpFits, CallFits, SelectionExists, ResultIsACommit, SourceOnly, Between,
              LastCommitChecked
<1>6. GatherFinds'
  BY <1>1, <1>2 DEF Gather, GatherFinds
<1>7. SortFinds' /\ WalkFinds' /\ (pc # "aborted")' /\ AddsWhatItShould' /\ AddedIsBuilt'
  BY <1>1 DEF SortFinds, WalkFinds, AddsWhatItShould, AddedIsBuilt
<1>8. QED  BY <1>4, <1>5, <1>6, <1>7

LEMMA GatherEndsKeeps ==
    ASSUME ModifyInv, GatherEnds
    PROVE  ModifyInv'
<1> USE DEF ModifyInv
<1>1. pc = "gather" /\ pc' = "integrate"
  BY DEF GatherEnds, Goto
<1>2. TypeOK'
  BY <1>1 DEF TypeOK, GatherEnds
<1>3. OpFits' /\ CallFits' /\ SelectionExists' /\ ResultIsACommit'
  BY <1>1 DEF GatherEnds, OpFits, CallFits, SelectionExists, ResultIsACommit, SourceOnly, Between,
              LastCommitChecked
<1>4. SortFinds' /\ WalkFinds' /\ GatherFinds' /\ (pc # "aborted")' /\ AddsWhatItShould' /\ AddedIsBuilt'
  BY <1>1 DEF SortFinds, WalkFinds, GatherFinds, AddsWhatItShould, AddedIsBuilt
<1>5. QED  BY <1>2, <1>3, <1>4

LEMMA IntegrateKeeps ==
    ASSUME ModifyInv, Integrate
    PROVE  ModifyInv'
<1> USE DEF ModifyInv
<1>1. pc = "integrate" /\ pc' = "integrate" /\ integrate # <<>>
  BY DEF Integrate
<1>2. integrate[1] \in Commits \ {Null} /\ Tail(integrate) \in Seq(Commits \ {Null})
  BY <1>1, Lists DEF TypeOK
<1>3. head \in Commits \ {Null}
  BY <1>1 DEF TypeOK, ResultIsACommit
<1>4. Last(head) \in Patches /\ Last(integrate[1]) \in Patches /\ Parent(head) \in Commits
  BY <1>2, <1>3, ParentIsFront
<1>5. Last(head) \o Last(integrate[1]) \in Patches
  BY <1>4, ConcatProperties DEF Patches
<1>6. head' \in Commits \ {Null}
  BY <1>4, <1>5, AppendIsCommit DEF Integrate, Integrated
<1>7. TypeOK'
  BY <1>1, <1>2, <1>6 DEF TypeOK, Integrate
<1>8. OpFits' /\ CallFits' /\ SelectionExists' /\ ResultIsACommit'
  BY <1>1, <1>6 DEF Integrate, OpFits, CallFits, SelectionExists, ResultIsACommit, SourceOnly,
                    Between, LastCommitChecked
<1>9. SortFinds' /\ WalkFinds' /\ GatherFinds' /\ (pc # "aborted")' /\ AddsWhatItShould' /\ AddedIsBuilt'
  BY <1>1 DEF SortFinds, WalkFinds, GatherFinds, AddsWhatItShould, AddedIsBuilt
<1>10. QED  BY <1>7, <1>8, <1>9

LEMMA IntegrateEndsKeeps ==
    ASSUME ModifyInv, IntegrateEnds
    PROVE  ModifyInv'
<1> USE DEF ModifyInv
<1>1. pc = "integrate" /\ pc' = "apply" /\ head' = head /\ added' = {head}
  BY DEF IntegrateEnds, Goto
<1>2. head \in Commits \ {Null}
  BY <1>1 DEF TypeOK, ResultIsACommit
<1>3. TypeOK'
  BY <1>1, <1>2 DEF TypeOK, IntegrateEnds
<1>4. OpFits' /\ CallFits' /\ SelectionExists' /\ ResultIsACommit'
  BY <1>1, <1>2 DEF IntegrateEnds, OpFits, CallFits, SelectionExists, ResultIsACommit, SourceOnly,
                    Between, LastCommitChecked
<1>5. AddedIsBuilt'
  BY <1>1, <1>2, AncestorsAreCommits DEF AddedIsBuilt
<1>6. SortFinds' /\ WalkFinds' /\ GatherFinds' /\ (pc # "aborted")' /\ AddsWhatItShould'
  BY <1>1 DEF SortFinds, WalkFinds, GatherFinds, AddsWhatItShould
<1>7. QED  BY <1>3, <1>4, <1>5, <1>6
----------------------------------------------------------------------------
(* The ends of an operation keep the invariant                             *)

LEMMA LastCommitKeeps ==
    ASSUME ModifyInv, LastCommit \/ Cancel
    PROVE  ModifyInv'
<1> USE DEF ModifyInv
<1>1. /\ pc' = "idle" /\ op' = NoOp
      /\ UNCHANGED <<refs, selection, call, loop, removed, ops>>
  BY DEF LastCommit, Cancel, Goto
<1>2. TypeOK'
  BY <1>1, AncestorsAreCommits DEF TypeOK, NoOp, loop
<1>3. OpFits' /\ CallFits' /\ SelectionExists' /\ SortFinds' /\ WalkFinds' /\ GatherFinds'
  BY <1>1 DEF OpFits, CallFits, SelectionExists, SortFinds, WalkFinds, GatherFinds
<1>4. (pc # "aborted")' /\ AddsWhatItShould' /\ AddedIsBuilt'
  BY <1>1 DEF AddsWhatItShould, AddedIsBuilt
<1>5. ResultIsACommit'
  BY <1>1 DEF ResultIsACommit, Between, NoOp
<1>6. QED  BY <1>2, <1>3, <1>4, <1>5

LEMMA SourceReadyKeeps ==
    ASSUME ModifyInv, SourceReady
    PROVE  ModifyInv'
<1> USE DEF ModifyInv
<1>1. /\ pc = "apply" /\ pc' = "sort" /\ op.type = "Move" /\ op.dst # op.src
      /\ removed' = head /\ head \in Commits \ {Null} /\ head # None
  BY ModifyAssumption DEF SourceReady, Call, Goto, SourceOnly, Between, TypeOK
<1>2. /\ op.src \in Refs /\ op.dst \in Refs /\ op.commits # {}
      /\ op.commits \subseteq Ancestors(refs[op.src])
      /\ op.position \in Ancestors(refs[op.dst]) \cup {Null}
  BY <1>1 DEF OpFits
<1>3. /\ call' = [dst |-> refs[op.dst], add |-> op.commits, position |-> op.position, remove |-> {}]
      /\ c' = refs[op.src] /\ rem' = op.commits /\ addv' = <<>> /\ found' = FALSE
      /\ combined' = <<>> /\ integrate' = <<>> /\ head' = Null /\ added' = {}
      /\ UNCHANGED <<refs, selection, op, ops>>
  BY DEF SourceReady, Call, LoopsFrom
<1>4. TypeOK'
  BY <1>1, <1>2, <1>3, AncestorsAreCommits, EmptySeq DEF TypeOK
<1>5. OpFits' /\ CallFits' /\ SelectionExists' /\ SortFinds' /\ WalkFinds' /\ GatherFinds'
  BY <1>1, <1>2, <1>3 DEF OpFits, CallFits, SelectionExists, SortFinds, WalkFinds, GatherFinds
<1>6. (pc # "aborted")' /\ AddsWhatItShould' /\ AddedIsBuilt'
  BY <1>1, <1>2, <1>3 DEF AddsWhatItShould, AddedIsBuilt
<1>7. ResultIsACommit'
  BY <1>1, <1>2, <1>3 DEF ResultIsACommit, SourceOnly, Between
<1>8. QED  BY <1>4, <1>5, <1>6, <1>7

LEMMA ReplaceKeeps ==
    ASSUME ModifyInv, Replace
    PROVE  ModifyInv'
<1> USE DEF ModifyInv
<1>1. /\ pc = "apply" /\ pc' = "idle" /\ op' = NoOp /\ ~SourceOnly
      /\ refs' = Replaced /\ selection' = [rev |-> Target, commits |-> added]
      /\ UNCHANGED <<call, loop, removed, ops>>
  BY DEF Replace, Goto
<1>2. Target \in Refs
  BY <1>1 DEF Target, TypeOK, OpFits
<1>3. head \in Commits \ {Null}
  BY <1>1 DEF Replace, ResultIsACommit, TypeOK
<1>4. Between => removed \in Commits \ {Null}
  BY <1>1 DEF SourceOnly, ResultIsACommit, TypeOK
<1>5. refs' \in [Refs -> Commits] /\ (\A r \in Refs : refs'[r] # Null) /\ refs'[Target] = head
  BY <1>1, <1>2, <1>3, <1>4 DEF Replaced, TypeOK, ResultIsACommit
<1>6. SelectionExists' /\ \A x \in added : x \in Commits \ {Null}
  BY <1>1, <1>2, <1>3, <1>5, AncestorsAreCommits DEF SelectionExists, AddedIsBuilt
<1>7. TypeOK'
  BY <1>1, <1>2, <1>5, <1>6, AncestorsAreCommits DEF TypeOK, NoOp, loop
<1>8. OpFits' /\ CallFits' /\ SortFinds' /\ WalkFinds' /\ GatherFinds'
  BY <1>1 DEF OpFits, CallFits, SortFinds, WalkFinds, GatherFinds
<1>9. (pc # "aborted")' /\ AddsWhatItShould' /\ AddedIsBuilt'
  BY <1>1 DEF AddsWhatItShould, AddedIsBuilt
<1>10. ResultIsACommit'
  BY <1>1, <1>5 DEF ResultIsACommit, Between, NoOp
<1>11. QED  BY <1>6, <1>7, <1>8, <1>9, <1>10
----------------------------------------------------------------------------
(* The user's steps keep the invariant                                     *)

LEMMA SelectKeeps ==
    ASSUME ModifyInv,
           Deselect \/ \E r \in Refs : \E S \in SUBSET Ancestors(refs[r]) : Select(r, S)
    PROVE  ModifyInv'
<1> USE DEF ModifyInv
<1>1. pc = "idle" /\ UNCHANGED <<refs, op, call, pc, loop, removed, ops>>
  BY DEF Deselect, Select
<1>2. /\ selection'.rev \in Refs \cup {None}
      /\ \A x \in selection'.commits : x \in Commits \ {Null}
      /\ SelectionExists'
  <2>1. CASE Deselect
    BY <2>1 DEF Deselect, NoSelection, SelectionExists
  <2>2. ASSUME NEW r \in Refs, NEW S \in SUBSET Ancestors(refs[r]), Select(r, S)
        PROVE  <1>2!1 /\ <1>2!2 /\ <1>2!3
    <3>1. selection' = [rev |-> r, commits |-> S] /\ refs' = refs /\ refs[r] \in Commits
      BY <2>2 DEF Select, TypeOK
    <3>2. QED  BY <3>1, AncestorsAreCommits DEF SelectionExists
  <2>3. QED  BY <2>1, <2>2
<1>3. TypeOK'
  BY <1>1, <1>2 DEF TypeOK, loop
<1>4. OpFits' /\ CallFits' /\ SortFinds' /\ WalkFinds' /\ GatherFinds'
  BY <1>1 DEF OpFits, CallFits, SortFinds, WalkFinds, GatherFinds
<1>5. (pc # "aborted")' /\ AddsWhatItShould' /\ AddedIsBuilt' /\ ResultIsACommit'
  BY <1>1 DEF AddsWhatItShould, AddedIsBuilt, ResultIsACommit, Between, SourceOnly
<1>6. QED  BY <1>2, <1>3, <1>4, <1>5

\* What an operation that begins is given.
LEMMA BeginsWithSelection ==
    ASSUME ModifyInv, NEW type, NEW dst, NEW position, NEW below,
           Begin(type, dst, position, below)
    PROVE  /\ pc = "idle" /\ selection.rev \in Refs /\ selection.commits # {}
           /\ refs \in [Refs -> Commits]
           /\ selection.commits \subseteq Ancestors(refs[selection.rev])
           /\ \A x \in selection.commits : x \in Commits \ {Null}
           /\ op' = [type |-> type, src |-> selection.rev, commits |-> selection.commits,
                     dst |-> dst, position |-> position, below |-> below]
           /\ ops' \in 0..MaxOps /\ removed' = None
           /\ UNCHANGED <<refs, selection>>
<1>1. ops < MaxOps /\ ops' = ops + 1 /\ ops \in 0..MaxOps
  BY DEF Begin, ModifyInv, TypeOK
<1>2. ops' \in 0..MaxOps
  BY <1>1, ModifyAssumption
<1>3. QED  BY <1>2 DEF Begin, ModifyInv, TypeOK, SelectionExists

\* An operation that calls _AddRemoveCommits, with arguments that fit.
LEMMA CallKeeps ==
    ASSUME ModifyInv,
           NEW type \in {"Move", "Copy", "Delete", "Edit"}, NEW dst \in Refs \cup {None},
           NEW position \in Commits, NEW below,
           Begin(type, dst, position, below),
           type \in {"Move", "Copy"} =>
               dst \in Refs /\ position \in Ancestors(refs[dst]) \cup {Null},
           NEW to \in Commits, NEW add, NEW from \in Commits, NEW pos \in Commits, NEW remove,
           Call(to, add, from, pos, remove),
           add \subseteq Ancestors(from), remove \subseteq Ancestors(to),
           add # {} => pos \in Ancestors(to) \cup {Null},
           type = "Delete" \/ (type = "Move" /\ dst # selection.rev) \/ add # {}
    PROVE  ModifyInv'
<1> USE DEF ModifyInv
<1>1. /\ pc' = "sort" /\ c' = from /\ rem' = add
      /\ call' = [dst |-> to, add |-> add, position |-> pos, remove |-> remove]
      /\ addv' = <<>> /\ found' = FALSE /\ combined' = <<>> /\ integrate' = <<>>
      /\ head' = Null /\ added' = {}
  BY DEF Call, Goto, LoopsFrom
<1>2. /\ selection.rev \in Refs /\ selection.commits # {}
      /\ selection.commits \subseteq Ancestors(refs[selection.rev])
      /\ \A x \in selection.commits : x \in Commits \ {Null}
      /\ op' = [type |-> type, src |-> selection.rev, commits |-> selection.commits,
                dst |-> dst, position |-> position, below |-> below]
      /\ ops' \in 0..MaxOps /\ removed' = None
      /\ UNCHANGED <<refs, selection>>
  BY BeginsWithSelection
<1>3. /\ \A x \in add \cup remove : x \in Commits \ {Null}
      /\ <<>> \in Seq(Commits \ {Null}) /\ <<>> \in Seq(CommitAdded) /\ Null \in Commits
  BY AncestorsAreCommits, EmptySeq
<1>4. TypeOK'
  BY <1>1, <1>2, <1>3 DEF TypeOK
<1>5. OpFits' /\ CallFits' /\ SelectionExists'
  BY <1>1, <1>2 DEF OpFits, CallFits, SelectionExists
<1>6. SortFinds' /\ WalkFinds' /\ GatherFinds' /\ (pc # "aborted")'
  BY <1>1 DEF SortFinds, WalkFinds, GatherFinds
<1>7. AddsWhatItShould' /\ AddedIsBuilt'
  BY <1>1 DEF AddsWhatItShould, AddedIsBuilt
<1>8. ResultIsACommit'
  BY <1>1, <1>2 DEF ResultIsACommit, SourceOnly, Between
<1>9. QED  BY <1>4, <1>5, <1>6, <1>7, <1>8

\* The position that a drop stands for is a place in the history.
LEMMA PositionIsInHistory ==
    ASSUME ModifyInv, NEW d \in Refs, NEW b
    PROVE  /\ refs[d] \in Commits
           /\ Position(d, b) \in Ancestors(refs[d]) \cup {Null} /\ Position(d, b) \in Commits
<1>1. refs[d] \in Commits
  BY DEF ModifyInv, TypeOK
<1>2. QED  BY <1>1, AncestorsAreCommits DEF Position, Shown

LEMMA MoveKeeps ==
    ASSUME ModifyInv, NEW d \in Refs, NEW b, Move(d, b)
    PROVE  ModifyInv'
<1> DEFINE p == Position(d, b)
<1>1. Begin("Move", d, p, b)
  BY DEF Move
<1>2. /\ selection.rev \in Refs /\ selection.commits # {} /\ refs[selection.rev] \in Commits
      /\ selection.commits \subseteq Ancestors(refs[selection.rev])
  BY <1>1, BeginsWithSelection
<1>3. refs[d] \in Commits /\ p \in Ancestors(refs[d]) \cup {Null} /\ p \in Commits
  BY PositionIsInHistory
<1> HIDE DEF p
<1>4. CASE d = selection.rev
  <2>1. Call(refs[d], selection.commits, refs[d], p, selection.commits)
    BY <1>4 DEF Move, p
  <2>2. QED  BY <1>1, <1>2, <1>3, <1>4, <2>1, CallKeeps
<1>5. CASE d # selection.rev
  <2>1. Call(refs[selection.rev], {}, Null, Null, selection.commits)
    BY <1>5 DEF Move
  <2>2. Null \in Commits
    BY AncestorsAreCommits
  <2>3. QED  BY <1>1, <1>2, <1>3, <1>5, <2>1, <2>2, CallKeeps
<1>6. QED  BY <1>4, <1>5

LEMMA CopyKeeps ==
    ASSUME ModifyInv, NEW d \in Refs, NEW b, Copy(d, b)
    PROVE  ModifyInv'
<1> DEFINE p == Position(d, b)
<1>1. Begin("Copy", d, p, b)
  BY DEF Copy
<1>2. /\ selection.rev \in Refs /\ selection.commits # {} /\ refs[selection.rev] \in Commits
      /\ selection.commits \subseteq Ancestors(refs[selection.rev])
  BY <1>1, BeginsWithSelection
<1>3. refs[d] \in Commits /\ p \in Ancestors(refs[d]) \cup {Null} /\ p \in Commits
  BY PositionIsInHistory
<1>4. Call(refs[d], selection.commits, refs[selection.rev], p, {})
  BY DEF Copy
<1> HIDE DEF p
<1>5. QED  BY <1>1, <1>2, <1>3, <1>4, CallKeeps

LEMMA DeleteKeeps ==
    ASSUME ModifyInv, Delete
    PROVE  ModifyInv'
<1>1. Begin("Delete", None, Null, Null)
  BY DEF Delete
<1>2. /\ refs[selection.rev] \in Commits
      /\ selection.commits \subseteq Ancestors(refs[selection.rev])
  BY <1>1, BeginsWithSelection
<1>3. Call(refs[selection.rev], {}, Null, Null, selection.commits)
  BY DEF Delete
<1>4. Null \in Commits /\ {} \subseteq Ancestors(Null)
  BY AncestorsAreCommits
<1>5. QED  BY <1>1, <1>2, <1>3, <1>4, CallKeeps, Z3T(60)

LEMMA EditKeeps ==
    ASSUME ModifyInv, NEW x \in selection.commits, Edit(x)
    PROVE  ModifyInv'
<1>1. Begin("Edit", None, x, x)
  BY DEF Edit
<1>2. /\ refs[selection.rev] \in Commits /\ x \in Commits \ {Null}
      /\ x \in Ancestors(refs[selection.rev])
  BY <1>1, BeginsWithSelection
<1>3. Amended(x) \in Commits \ {Null}
  <2>1. Append(Last(x), Edited) \in Patches /\ Parent(x) \in Commits
    BY <1>2, ParentIsFront, AppendProperties, ModifyAssumption DEF Patches
  <2>2. QED  BY <2>1, AppendIsCommit DEF Amended
<1>4. Amended(x) \in Ancestors(Amended(x))
  BY <1>3, AncestorsAreCommits
<1>5. Call(refs[selection.rev], {Amended(x)}, Amended(x), x, {x})
  BY DEF Edit
<1> HIDE DEF Amended
<1>6. QED  BY <1>1, <1>2, <1>3, <1>4, <1>5, CallKeeps

LEMMA CombineKeeps ==
    ASSUME ModifyInv, Combine
    PROVE  ModifyInv'
<1> USE DEF ModifyInv
<1>1. Begin("Combine", None, Null, Null)
  BY DEF Combine
<1>2. /\ selection.rev \in Refs /\ selection.commits # {} /\ refs[selection.rev] \in Commits
      /\ selection.commits \subseteq Ancestors(refs[selection.rev])
      /\ \A x \in selection.commits : x \in Commits \ {Null}
      /\ op' = [type |-> "Combine", src |-> selection.rev, commits |-> selection.commits,
                dst |-> None, position |-> Null, below |-> Null]
      /\ ops' \in 0..MaxOps /\ removed' = None
      /\ UNCHANGED <<refs, selection>>
  BY <1>1, BeginsWithSelection
<1>3. /\ pc' = "gather" /\ c' = refs[selection.rev] /\ rem' = selection.commits
      /\ addv' = <<>> /\ found' = FALSE /\ combined' = <<>> /\ integrate' = <<>>
      /\ head' = Null /\ added' = {} /\ call' = call
  BY DEF Combine, Goto, LoopsFrom
<1>4. <<>> \in Seq(Commits \ {Null}) /\ <<>> \in Seq(CommitAdded) /\ Null \in Commits
  BY AncestorsAreCommits, EmptySeq
<1>5. TypeOK'
  BY <1>2, <1>3, <1>4 DEF TypeOK
<1>6. OpFits' /\ CallFits' /\ SelectionExists'
  BY <1>2, <1>3 DEF OpFits, CallFits, SelectionExists
<1>7. SortFinds' /\ WalkFinds' /\ GatherFinds' /\ (pc # "aborted")'
  BY <1>2, <1>3 DEF SortFinds, WalkFinds, GatherFinds
<1>8. AddsWhatItShould' /\ AddedIsBuilt' /\ ResultIsACommit'
  BY <1>2, <1>3 DEF AddsWhatItShould, AddedIsBuilt, ResultIsACommit, Between
<1>9. QED  BY <1>5, <1>6, <1>7, <1>8
----------------------------------------------------------------------------
(* What the lists of the loops stand for                                   *)

\* The patches of a list of commits with their flag.
CombinedOf(s) == PatchesOf([i \in DOMAIN s |-> s[i].commit])

\* Lists of patches, one after the other, and one patch in front of a list: names of their own
\* for what the provers would otherwise take apart, element by element.
Cat(s, t) == s \o t
Push(e, s) == <<e>> \o s

LEMMA CatType ==
    ASSUME NEW s, s \in Seq(Patches), NEW t, t \in Seq(Patches)
    PROVE  /\ Cat(s, t) \in Seq(Patches) /\ Len(Cat(s, t)) = Len(s) + Len(t)
           /\ Len(s) \in Nat /\ Len(t) \in Nat
BY ConcatProperties, LenProperties DEF Cat

LEMMA CatEmpty ==
    ASSUME NEW s, s \in Seq(Patches)
    PROVE  Cat(s, <<>>) = s /\ Cat(<<>>, s) = s
BY ConcatEmptySeq DEF Cat

LEMMA CatGroups ==
    ASSUME NEW s, s \in Seq(Patches), NEW t, t \in Seq(Patches), NEW u, u \in Seq(Patches)
    PROVE  Cat(Cat(s, t), u) = Cat(s, Cat(t, u))
<1>1. (s \o t) \o u = s \o (t \o u)
  BY ConcatAssociative, SMTT(20)
<1> QED  BY <1>1, Zenon DEF Cat

LEMMA PushType ==
    ASSUME NEW e, e \in Patches, NEW s, s \in Seq(Patches)
    PROVE  Push(e, s) \in Seq(Patches) /\ Len(Push(e, s)) = Len(s) + 1 /\ Len(s) \in Nat
<1>1. <<e>> \in Seq(Patches) /\ Len(<<e>>) = 1
  OBVIOUS
<1>2. QED  BY <1>1, ConcatProperties, LenProperties DEF Push

LEMMA PushCat ==
    ASSUME NEW e, e \in Patches, NEW s, s \in Seq(Patches), NEW t, t \in Seq(Patches)
    PROVE  Push(e, Cat(s, t)) = Cat(Push(e, s), t)
<1> DEFINE u == <<e>>
<1>1. u \in Seq(Patches)
  OBVIOUS
<1> HIDE DEF u
<1>2. (u \o s) \o t = u \o (s \o t)
  BY <1>1, ConcatAssociative
<1>3. QED  BY <1>2 DEF Push, Cat, u

\* The commits of S that are not longer than n, and the indexes of I above n.
Upto(S, n) == {x \in S : Len(x) <= n}
Over(I, n) == {i \in I : i > n}

\* What a round of a loop finds at c.
LEMMA Round ==
    ASSUME NEW s \in Commits, NEW S \in SUBSET Ancestors(s), NEW x \in Ancestors(s)
    PROVE  /\ Len(s) \in Nat /\ s \in Seq(Patches)
           /\ x \in Commits \ {Null} /\ Len(x) \in 1..Len(s) /\ Last(x) = s[Len(x)]
           /\ Last(x) \in Patches
           /\ x = SubSeq(s, 1, Len(x))
           /\ Parent(x) \in Ancestors(s) \cup {Null} /\ Len(Parent(x)) = Len(x) - 1
           /\ x \in S <=> Len(x) \in Lengths(S)
           /\ Upto(S, Len(x)) \ {x} = Upto(S, Len(Parent(x)))
<1>1. /\ x \in Commits \ {Null} /\ Len(s) \in Nat /\ Len(x) \in 1..Len(s)
      /\ x = SubSeq(s, 1, Len(x)) /\ s \in Seq(Patches)
  BY AncestorsAreCommits, AncestorByLength DEF Commits, Patches
<1>2. /\ Parent(x) \in Commits /\ Len(Parent(x)) = Len(x) - 1 /\ x = Append(Parent(x), Last(x))
      /\ Last(x) \in Patches
  BY <1>1, ParentIsFront
<1>3. Last(x) = s[Len(x)]
  <2>1. \A i \in 1..Len(x) : s[i] \in Patches
    BY <1>1, ElementOfSeq
  <2>2. \A i \in 1..Len(x) : SubSeq(s, 1, Len(x))[i] = s[i]
    BY <1>1, <2>1, SubSeqProperties, Z3
  <2>3. x[Len(x)] = s[Len(x)]
    BY <1>1, <2>2
  <2> QED  BY <2>3 DEF Last
<1>4. Parent(x) \in Ancestors(s) \cup {Null}
  <2>1. CASE Parent(x) = Null
    BY <2>1
  <2>2. CASE Parent(x) # Null
    <3>1. Parent(x) \in Ancestors(Parent(x)) /\ Ancestors(x) = Ancestors(Parent(x)) \cup {x}
      BY <1>1, <1>2, <2>2, AncestorsAreCommits, AncestorsOfParent
    <3>2. Ancestors(x) \subseteq Ancestors(s)
      BY AncestorByLength
    <3> QED  BY <3>1, <3>2
  <2> QED  BY <2>1, <2>2
<1>5. \A y \in S : Len(y) \in 1..Len(s) /\ (Len(y) = Len(x) => y = x)
  <2>1. \A y \in Ancestors(s) : Len(y) \in 1..Len(s) /\ y = SubSeq(s, 1, Len(y))
    BY AncestorByLength
  <2> QED  BY <1>1, <2>1, Zenon
<1>6. x \in S <=> Len(x) \in Lengths(S)
  BY <1>5 DEF Lengths
<1>7. Upto(S, Len(x)) \ {x} = Upto(S, Len(Parent(x)))
  BY <1>1, <1>2, <1>5 DEF Upto
<1>8. QED  BY <1>1, <1>2, <1>3, <1>4, <1>6, <1>7

\* Lengths of ancestors are indexes.
LEMMA LengthsAreIndexes ==
    ASSUME NEW s \in Commits, NEW S \in SUBSET Ancestors(s)
    PROVE  /\ Len(s) \in Nat /\ s \in Seq(Patches)
           /\ Lengths(S) \in SUBSET (1..Len(s))
           /\ \A lo, hi \in Int : 1 <= lo /\ hi <= Len(s) =>
                 (lo..hi) \ Lengths(S) \in SUBSET (1..Len(s))
<1>1. Len(s) \in Nat /\ s \in Seq(Patches) /\ \A y \in S : Len(y) \in 1..Len(s)
  BY AncestorByLength DEF Commits, Patches
<1>2. QED  BY <1>1 DEF Lengths

\* What is left of s from the lo-th patch to the hi-th, without those at the indexes I.
Left(s, I, lo, hi) == Keep(s, (lo..hi) \ I)

\* What goes, when one index more is looked at, from the top.
LEMMA KeepOver ==
    ASSUME NEW s \in Commits, NEW I \in SUBSET (1..Len(s)), NEW i \in 1..Len(s)
    PROVE  Keep(s, Over(I, i - 1)) =
              IF i \in I THEN Push(s[i], Keep(s, Over(I, i))) ELSE Keep(s, Over(I, i))
<1> DEFINE J == {j \in I : j > i}
<1>0. Len(s) \in Nat /\ s \in Seq(Patches)
  BY LenProperties DEF Commits, Patches
<1>1. J \in SUBSET (1..Len(s)) /\ \A j \in J : i < j
  OBVIOUS
<1>3. Keep(s, {i} \cup J) = <<s[i]>> \o Keep(s, J)
  <2> HIDE DEF J
  <2> QED  BY <1>0, <1>1, KeepBelow
<1>4. {j \in I : j > i - 1} = IF i \in I THEN {i} \cup J ELSE J
  <2>1. \A j \in I : j \in Int /\ (j > i - 1 <=> j = i \/ j > i)
    BY <1>0
  <2>2. CASE i \in I
    BY <2>1, <2>2
  <2>3. CASE i \notin I
    <3>1. \A j \in I : j > i - 1 <=> j > i
      BY <2>1, <2>3
    <3> QED  BY <2>3, <3>1
  <2> QED  BY <2>2, <2>3
<1>5. QED  BY <1>3, <1>4 DEF Over, Push

\* Nothing is left where there is nothing.
LEMMA LeftNone ==
    ASSUME NEW s, NEW I, NEW lo, NEW hi, lo \in Int, hi \in Int, lo > hi
    PROVE  Left(s, I, lo, hi) = <<>>
<1>1. (lo..hi) \ I = {}
  OBVIOUS
<1>2. QED  BY <1>1, KeepNothing DEF Left

\* What stays, when one index more is looked at, from the top.
LEMMA LeftRound ==
    ASSUME NEW s, s \in Commits, NEW I, NEW i, i \in Int, NEW hi, hi \in Int,
           1 <= i, i <= hi, hi <= Len(s)
    PROVE  Left(s, I, i, hi) = IF i \in I THEN Left(s, I, i + 1, hi)
                               ELSE Push(s[i], Left(s, I, i + 1, hi))
<1> DEFINE K == (i + 1 .. hi) \ I
<1>0. Len(s) \in Nat /\ s \in Seq(Patches)
  BY LenProperties DEF Commits, Patches
<1>1. K \in SUBSET (1..Len(s)) /\ \A j \in K : i < j
  BY <1>0
<1>2. i \in 1..Len(s) => Keep(s, {i} \cup K) = <<s[i]>> \o Keep(s, K)
  <2> HIDE DEF K
  <2> QED  BY <1>0, <1>1, KeepBelow
<1>3. (i..hi) \ I = IF i \in I THEN K ELSE {i} \cup K
  BY <1>0
<1>4. i \in 1..Len(s)
  BY <1>0
<1>5. QED  BY <1>2, <1>3, <1>4 DEF Left, Push

\* What stays below an index and above it.
LEMMA LeftTwo ==
    ASSUME NEW s, s \in Commits, NEW I, NEW lo, lo \in Int, NEW mid, mid \in Int,
           NEW hi, hi \in Int, 1 <= lo, lo <= mid + 1, mid <= hi, hi <= Len(s)
    PROVE  /\ Left(s, I, lo, hi) = Cat(Left(s, I, lo, mid), Left(s, I, mid + 1, hi))
           /\ Left(s, I, lo, mid) \in Seq(Patches) /\ Left(s, I, mid + 1, hi) \in Seq(Patches)
<1> DEFINE A == (lo..mid) \ I
           B == (mid + 1 .. hi) \ I
<1>0. Len(s) \in Nat /\ s \in Seq(Patches)
  BY LenProperties DEF Commits, Patches
<1>1. /\ A \in SUBSET (1..Len(s)) /\ B \in SUBSET (1..Len(s)) /\ \A a \in A, b \in B : a < b
      /\ (lo..hi) \ I = A \cup B
  BY <1>0
<1> HIDE DEF A, B
<1>2. /\ Keep(s, A \cup B) = Keep(s, A) \o Keep(s, B)
      /\ Keep(s, A) \in Seq(Patches) /\ Keep(s, B) \in Seq(Patches)
  BY <1>0, <1>1, KeepSplit, KeepType
<1>3. QED  BY <1>1, <1>2 DEF A, B, Left, Cat

\* What stays is a commit, and all of it does where nothing goes.
LEMMA LeftType ==
    ASSUME NEW s, s \in Commits, NEW I, NEW lo, lo \in Int, NEW hi, hi \in Int,
           1 <= lo, hi <= Len(s)
    PROVE  /\ Left(s, I, lo, hi) \in Seq(Patches) /\ Len(Left(s, I, lo, hi)) \in Nat
           /\ lo = 1 /\ 0 <= hi /\ (1..hi) \cap I = {} => Left(s, I, lo, hi) = SubSeq(s, 1, hi)
<1>0. Len(s) \in Nat /\ s \in Seq(Patches)
  BY LenProperties DEF Commits, Patches
<1> DEFINE A == (lo..hi) \ I
<1>1. A \in SUBSET (1..Len(s))
  BY <1>0
<1> HIDE DEF A
<1>2. Keep(s, A) \in Seq(Patches)
  BY <1>0, <1>1, KeepType
<1>3. lo = 1 /\ 0 <= hi /\ (1..hi) \cap I = {} => A = 1..hi
  BY DEF A
<1>4. 0 <= hi => Keep(s, 1..hi) = SubSeq(s, 1, hi)
  <2>1. 1 \in Int /\ hi \in Int /\ 1 <= 1 /\ (0 <= hi => 1 <= hi + 1) /\ hi <= Len(s)
    OBVIOUS
  <2> QED  BY <1>0, <2>1, KeepInterval
<1>5. QED  BY <1>2, <1>3, <1>4, LenProperties DEF Left, A

\* Concatenation: elements, the empty sequence, and how it groups.
LEMMA Concat ==
    ASSUME NEW T, NEW s \in Seq(T), NEW t \in Seq(T), NEW u \in Seq(T)
    PROVE  /\ s \o <<>> = s /\ <<>> \o s = s
           /\ s \o t \in Seq(T) /\ Len(s \o t) = Len(s) + Len(t)
           /\ \A i \in 1..(Len(s) + Len(t)) : (s \o t)[i] = IF i <= Len(s) THEN s[i] ELSE t[i - Len(s)]
           /\ (s \o t) \o u = s \o (t \o u)
           /\ Len(s) \in Nat /\ Len(t) \in Nat
<1>1. s \o <<>> = s /\ <<>> \o s = s
  BY ConcatEmptySeq, Zenon
<1>2. /\ s \o t \in Seq(T) /\ Len(s \o t) = Len(s) + Len(t)
      /\ \A i \in 1..(Len(s) + Len(t)) : (s \o t)[i] = IF i <= Len(s) THEN s[i] ELSE t[i - Len(s)]
  BY ConcatProperties
<1>3. (s \o t) \o u = s \o (t \o u)
  BY ConcatAssociative, SMTT(20)
<1>4. Len(s) \in Nat /\ Len(t) \in Nat
  BY LenProperties
<1> QED  BY <1>1, <1>2, <1>3, <1>4

\* One element in front.
LEMMA Prepend ==
    ASSUME NEW T, NEW s \in Seq(T), NEW e \in T
    PROVE  /\ <<e>> \o s \in Seq(T) /\ Len(<<e>> \o s) = Len(s) + 1 /\ Len(s) \in Nat
           /\ \A i \in 1..(Len(s) + 1) : (<<e>> \o s)[i] = IF i = 1 THEN e ELSE s[i - 1]
<1>1. <<e>> \in Seq(T) /\ Len(<<e>>) = 1 /\ <<e>>[1] = e
  OBVIOUS
<1> DEFINE t == <<e>>
<1>2. t \in Seq(T) /\ Len(t) = 1 /\ t[1] = e
  BY <1>1
<1> HIDE DEF t
<1>3. /\ t \o s \in Seq(T) /\ Len(t \o s) = Len(t) + Len(s) /\ Len(s) \in Nat
      /\ \A i \in 1..(Len(t) + Len(s)) : (t \o s)[i] = IF i <= Len(t) THEN t[i] ELSE s[i - Len(t)]
  BY <1>2, Concat
<1>4. \A i \in 1..(Len(s) + 1) : (t \o s)[i] = IF i = 1 THEN e ELSE s[i - 1]
  BY <1>2, <1>3
<1>5. QED  BY <1>2, <1>3, <1>4 DEF t

\* The patches of commits, one by one.
LEMMA PatchesOfList ==
    ASSUME NEW s \in Seq(Commits \ {Null})
    PROVE  /\ PatchesOf(s) \in Seq(Patches) /\ Len(PatchesOf(s)) = Len(s) /\ Len(s) \in Nat
           /\ \A i \in 1..Len(s) : PatchesOf(s)[i] = Last(s[i]) /\ s[i] \in Commits \ {Null}
<1>1. DOMAIN s = 1..Len(s) /\ Len(s) \in Nat /\ \A i \in 1..Len(s) : s[i] \in Commits \ {Null}
  BY LenProperties, ElementOfSeq
<1>2. \A i \in 1..Len(s) : Last(s[i]) \in Patches
  BY <1>1, ParentIsFront
<1>3. PatchesOf(s) \in [1..Len(s) -> Patches] /\ \A i \in 1..Len(s) : PatchesOf(s)[i] = Last(s[i])
  BY <1>1, <1>2 DEF PatchesOf
<1>4. QED  BY <1>1, <1>3

LEMMA PatchesOfMore ==
    ASSUME NEW s \in Seq(Commits \ {Null}), NEW e \in Commits \ {Null}
    PROVE  /\ PatchesOf(<<e>> \o s) = Push(Last(e), PatchesOf(s))
           /\ PatchesOf(<<>>) = <<>>
           /\ s # <<>> => /\ Tail(s) \in Seq(Commits \ {Null}) /\ PatchesOf(Tail(s)) = Tail(PatchesOf(s))
                          /\ PatchesOf(s) # <<>> /\ PatchesOf(s)[1] = Last(s[1])
<1>1. /\ PatchesOf(s) \in Seq(Patches) /\ Len(PatchesOf(s)) = Len(s) /\ Len(s) \in Nat
      /\ \A i \in 1..Len(s) : PatchesOf(s)[i] = Last(s[i])
  BY PatchesOfList
<1>2. Last(e) \in Patches
  BY ParentIsFront
<1>3. PatchesOf(<<e>> \o s) = Push(Last(e), PatchesOf(s))
  <2> DEFINE t == <<e>> \o s
             u == <<Last(e)>> \o PatchesOf(s)
  <2>1. /\ t \in Seq(Commits \ {Null}) /\ Len(t) = Len(s) + 1
        /\ \A i \in 1..(Len(s) + 1) : t[i] = IF i = 1 THEN e ELSE s[i - 1]
    BY Prepend
  <2>2. /\ u \in Seq(Patches) /\ Len(u) = Len(s) + 1
        /\ \A i \in 1..(Len(s) + 1) : u[i] = IF i = 1 THEN Last(e) ELSE PatchesOf(s)[i - 1]
    <3> HIDE DEF u
    <3> DEFINE v == PatchesOf(s)
    <3> HIDE DEF v
    <3>1. v \in Seq(Patches) /\ Len(v) = Len(s)
      BY <1>1 DEF v
    <3> QED  BY <1>2, <3>1, Prepend DEF u, v
  <2> HIDE DEF t, u
  <2>3. /\ PatchesOf(t) \in Seq(Patches) /\ Len(PatchesOf(t)) = Len(t)
        /\ \A i \in 1..Len(t) : PatchesOf(t)[i] = Last(t[i])
    BY <2>1, PatchesOfList
  <2>4. ASSUME NEW i \in 1..Len(t) PROVE PatchesOf(t)[i] = u[i]
    <3>1. i # 1 => i - 1 \in 1..Len(s)
      BY <1>1, <2>1
    <3> QED  BY <1>1, <2>1, <2>2, <2>3, <3>1
  <2>5. PatchesOf(t) = u
    BY <2>1, <2>2, <2>3, <2>4, SeqEqual
  <2> QED  BY <2>5 DEF t, u, Push
<1>4. PatchesOf(<<>>) = <<>>
  BY DEF PatchesOf
<1>5. ASSUME s # <<>>
      PROVE  /\ Tail(s) \in Seq(Commits \ {Null}) /\ PatchesOf(Tail(s)) = Tail(PatchesOf(s))
             /\ PatchesOf(s) # <<>> /\ PatchesOf(s)[1] = Last(s[1])
  <2>1. Len(s) \in Nat \ {0}
    BY <1>5, EmptySeq, LenProperties
  <2>2. /\ Tail(s) \in Seq(Commits \ {Null}) /\ Len(Tail(s)) = Len(s) - 1
        /\ \A i \in 1..Len(Tail(s)) : Tail(s)[i] = s[i + 1]
    BY <1>5, HeadTailProperties
  <2>3. PatchesOf(s) # <<>>
    BY <1>1, <2>1, EmptySeq
  <2>4. /\ Tail(PatchesOf(s)) \in Seq(Patches) /\ Len(Tail(PatchesOf(s))) = Len(s) - 1
        /\ \A i \in 1..(Len(s) - 1) : Tail(PatchesOf(s))[i] = PatchesOf(s)[i + 1]
    BY <1>1, <2>3, HeadTailProperties
  <2>5. /\ PatchesOf(Tail(s)) \in Seq(Patches) /\ Len(PatchesOf(Tail(s))) = Len(s) - 1
        /\ \A i \in 1..(Len(s) - 1) : PatchesOf(Tail(s))[i] = Last(Tail(s)[i])
    BY <2>2, PatchesOfList
  <2>6. ASSUME NEW i \in 1..(Len(s) - 1) PROVE PatchesOf(Tail(s))[i] = Tail(PatchesOf(s))[i]
    <3>1. i + 1 \in 1..Len(s)
      BY <2>1
    <3> QED  BY <1>1, <2>2, <2>4, <2>5, <3>1
  <2>7. PatchesOf(Tail(s)) = Tail(PatchesOf(s))
    <3> DEFINE a == PatchesOf(Tail(s))
               b == Tail(PatchesOf(s))
    <3>1. a \in Seq(Patches) /\ b \in Seq(Patches) /\ Len(a) = Len(b) /\ \A i \in 1..Len(a) : a[i] = b[i]
      BY <2>4, <2>5, <2>6
    <3> HIDE DEF a, b
    <3>2. a = b
      BY <3>1, SeqEqual
    <3> QED  BY <3>2 DEF a, b
  <2> QED  BY <1>1, <2>1, <2>2, <2>3, <2>7
<1>6. QED  BY <1>3, <1>4, <1>5

\* The patches of commits with their flag.
LEMMA CombinedOfList ==
    ASSUME NEW s \in Seq(CommitAdded)
    PROVE  /\ CombinedOf(s) \in Seq(Patches) /\ Len(CombinedOf(s)) = Len(s) /\ Len(s) \in Nat
           /\ \A i \in 1..Len(s) :
                 /\ CombinedOf(s)[i] = Last(s[i].commit)
                 /\ s[i].commit \in Commits \ {Null} /\ s[i].added \in BOOLEAN
<1> DEFINE t == [i \in DOMAIN s |-> s[i].commit]
<1>1. DOMAIN s = 1..Len(s) /\ Len(s) \in Nat /\ \A i \in 1..Len(s) : s[i] \in CommitAdded
  BY LenProperties, ElementOfSeq
<1>2. \A i \in 1..Len(s) : s[i].commit \in Commits \ {Null} /\ s[i].added \in BOOLEAN
  BY <1>1 DEF CommitAdded
<1>3. t \in Seq(Commits \ {Null}) /\ Len(t) = Len(s) /\ \A i \in 1..Len(s) : t[i] = s[i].commit
  BY <1>1, <1>2
<1> HIDE DEF t
<1>4. /\ PatchesOf(t) \in Seq(Patches) /\ Len(PatchesOf(t)) = Len(s)
      /\ \A i \in 1..Len(s) : PatchesOf(t)[i] = Last(t[i])
  BY <1>3, PatchesOfList
<1>5. CombinedOf(s) = PatchesOf(t)
  BY DEF CombinedOf, t
<1>6. QED  BY <1>1, <1>2, <1>3, <1>4, <1>5

LEMMA CombinedOfMore ==
    ASSUME NEW s \in Seq(CommitAdded), NEW t \in Seq(CommitAdded)
    PROVE  /\ CombinedOf(s \o t) = Cat(CombinedOf(s), CombinedOf(t))
           /\ s # <<>> => /\ Tail(s) \in Seq(CommitAdded) /\ Len(Tail(s)) = Len(s) - 1
                          /\ \A i \in 1..(Len(s) - 1) : Tail(s)[i] = s[i + 1]
                          /\ CombinedOf(s) = Push(Last(s[1].commit), CombinedOf(Tail(s)))
<1>1. /\ CombinedOf(s) \in Seq(Patches) /\ Len(CombinedOf(s)) = Len(s) /\ Len(s) \in Nat
      /\ \A i \in 1..Len(s) : CombinedOf(s)[i] = Last(s[i].commit)
  BY CombinedOfList
<1>2. /\ CombinedOf(t) \in Seq(Patches) /\ Len(CombinedOf(t)) = Len(t) /\ Len(t) \in Nat
      /\ \A i \in 1..Len(t) : CombinedOf(t)[i] = Last(t[i].commit)
  BY CombinedOfList
<1>3. CombinedOf(s \o t) = Cat(CombinedOf(s), CombinedOf(t))
  <2> DEFINE u == s \o t
             a == CombinedOf(s)
             b == CombinedOf(t)
             v == a \o b
  <2>1. /\ u \in Seq(CommitAdded) /\ Len(u) = Len(s) + Len(t)
        /\ \A i \in 1..(Len(s) + Len(t)) : u[i] = IF i <= Len(s) THEN s[i] ELSE t[i - Len(s)]
    BY Concat
  <2>2. a \in Seq(Patches) /\ b \in Seq(Patches) /\ Len(a) = Len(s) /\ Len(b) = Len(t)
    BY <1>1, <1>2
  <2>3. /\ \A i \in 1..Len(s) : a[i] = Last(s[i].commit)
        /\ \A i \in 1..Len(t) : b[i] = Last(t[i].commit)
    BY <1>1, <1>2
  <2> HIDE DEF u, a, b
  <2>4. /\ v \in Seq(Patches) /\ Len(v) = Len(s) + Len(t)
        /\ \A i \in 1..(Len(s) + Len(t)) : v[i] = IF i <= Len(s) THEN a[i] ELSE b[i - Len(s)]
    <3>1. /\ v \in Seq(Patches) /\ Len(v) = Len(a) + Len(b)
          /\ \A i \in 1..(Len(a) + Len(b)) : v[i] = IF i <= Len(a) THEN a[i] ELSE b[i - Len(a)]
      BY <2>2, ConcatProperties
    <3> QED  BY <2>2, <3>1
  <2> HIDE DEF v
  <2>5. /\ CombinedOf(u) \in Seq(Patches) /\ Len(CombinedOf(u)) = Len(u)
        /\ \A i \in 1..Len(u) : CombinedOf(u)[i] = Last(u[i].commit)
    BY <2>1, CombinedOfList
  <2>6. ASSUME NEW i \in 1..Len(u) PROVE CombinedOf(u)[i] = v[i]
    <3>1. CASE i <= Len(s)
      <4>1. i \in 1..Len(s) /\ u[i] = s[i] /\ v[i] = a[i]
        BY <1>1, <1>2, <2>1, <2>4, <3>1
      <4> QED  BY <2>3, <2>5, <4>1
    <3>2. CASE ~(i <= Len(s))
      <4>1. i - Len(s) \in 1..Len(t) /\ u[i] = t[i - Len(s)] /\ v[i] = b[i - Len(s)]
        BY <1>1, <1>2, <2>1, <2>4, <3>2
      <4> QED  BY <2>3, <2>5, <4>1
    <3> QED  BY <3>1, <3>2
  <2>7. CombinedOf(u) = v
    BY <2>1, <2>4, <2>5, <2>6, SeqEqual
  <2> QED  BY <2>7 DEF u, a, b, v, Cat
<1>4. ASSUME s # <<>>
      PROVE  /\ Tail(s) \in Seq(CommitAdded) /\ Len(Tail(s)) = Len(s) - 1
             /\ \A i \in 1..(Len(s) - 1) : Tail(s)[i] = s[i + 1]
             /\ CombinedOf(s) = Push(Last(s[1].commit), CombinedOf(Tail(s)))
  <2> DEFINE u == Tail(s)
             e == Last(s[1].commit)
  <2>1. Len(s) \in Nat \ {0}
    BY <1>4, EmptySeq, LenProperties
  <2>2. /\ u \in Seq(CommitAdded) /\ Len(u) = Len(s) - 1
        /\ \A i \in 1..(Len(s) - 1) : u[i] = s[i + 1]
    BY <1>4, HeadTailProperties
  <2> HIDE DEF u
  <2>3. /\ CombinedOf(u) \in Seq(Patches) /\ Len(CombinedOf(u)) = Len(s) - 1
        /\ \A i \in 1..(Len(s) - 1) : CombinedOf(u)[i] = Last(u[i].commit)
    BY <2>2, CombinedOfList
  <2>4. e \in Patches /\ CombinedOf(s)[1] = e
    <3>1. 1 \in 1..Len(s)
      BY <2>1
    <3> QED  BY <1>1, <3>1, ElementOfSeq
  <2> DEFINE b == CombinedOf(u)
             v == <<e>> \o b
  <2>5. b \in Seq(Patches) /\ Len(b) = Len(s) - 1
    BY <2>3
  <2>6. \A i \in 1..(Len(s) - 1) : b[i] = Last(s[i + 1].commit)
    BY <2>2, <2>3
  <2> HIDE DEF b, e
  <2>7. /\ v \in Seq(Patches) /\ Len(v) = Len(s)
        /\ \A i \in 1..Len(s) : v[i] = IF i = 1 THEN e ELSE b[i - 1]
    <3>1. /\ v \in Seq(Patches) /\ Len(v) = Len(b) + 1
          /\ \A i \in 1..(Len(b) + 1) : v[i] = IF i = 1 THEN e ELSE b[i - 1]
      BY <2>4, <2>5, Prepend
    <3> QED  BY <2>1, <2>5, <3>1
  <2> HIDE DEF v
  <2>8. ASSUME NEW i \in 1..Len(s) PROVE CombinedOf(s)[i] = v[i]
    <3>1. i # 1 => i - 1 \in 1..(Len(s) - 1) /\ (i - 1) + 1 = i
      BY <2>1
    <3> QED  BY <1>1, <2>4, <2>6, <2>7, <3>1
  <2>9. CombinedOf(s) = v
    BY <1>1, <2>7, <2>8, SeqEqual
  <2> QED  BY <2>2, <2>9 DEF u, v, b, e, Push
<1>5. QED  BY <1>3, <1>4
----------------------------------------------------------------------------
(* The program's steps keep what the loops have built                      *)

\* What _AddRemoveCommits was called with, by the operation it was called for.
LEMMA CallCases ==
    ASSUME ModifyInv, CallIsOps, OpIsKept, pc \in {"sort", "walk", "apply"}, op.type # "Combine"
    PROVE  /\ op.type \in {"Move", "Copy", "Delete", "Edit"} /\ op.src \in Refs
           /\ refs[op.src] \in Commits /\ op.commits # {} /\ op.commits \subseteq Ancestors(refs[op.src])
           /\ op.type \in {"Move", "Copy"} =>
                 /\ op.dst \in Refs /\ refs[op.dst] \in Commits
                 /\ op.position \in Ancestors(refs[op.dst]) \cup {Null}
           /\ SourceOnly \/ op.type = "Delete" =>
                 call = [dst |-> refs[op.src], add |-> {}, position |-> Null, remove |-> op.commits]
           /\ op.type = "Move" /\ op.dst = op.src =>
                 call = [dst |-> refs[op.src], add |-> op.commits, position |-> op.position,
                         remove |-> op.commits]
           /\ op.type = "Copy" \/ (Between /\ ~SourceOnly) =>
                 call = [dst |-> refs[op.dst], add |-> op.commits, position |-> op.position,
                         remove |-> {}]
           /\ op.type = "Edit" =>
                 /\ op.commits = {Earliest(op.commits)}
                 /\ call = [dst |-> refs[op.src], add |-> {Amended(Earliest(op.commits))},
                            position |-> Earliest(op.commits), remove |-> {Earliest(op.commits)}]
<1>1. /\ op.type \in {"Move", "Copy", "Delete", "Edit"} /\ op.src \in Refs
      /\ refs[op.src] \in Commits /\ op.commits # {} /\ op.commits \subseteq Ancestors(refs[op.src])
      /\ op.type \in {"Move", "Copy"} =>
            /\ op.dst \in Refs /\ refs[op.dst] \in Commits
            /\ op.position \in Ancestors(refs[op.dst]) \cup {Null}
  BY DEF ModifyInv, OpFits, TypeOK
<1>2. op.type = "Edit" => op.commits = {Earliest(op.commits)}
  BY DEF OpIsKept
<1>3. SourceOnly \/ op.type = "Delete" =>
        call = [dst |-> refs[op.src], add |-> {}, position |-> Null, remove |-> op.commits]
  BY DEF CallIsOps, SourceOnly, Between
<1>4. op.type = "Move" /\ op.dst = op.src =>
        call = [dst |-> refs[op.src], add |-> op.commits, position |-> op.position,
                remove |-> op.commits]
  BY DEF CallIsOps, SourceOnly, Between
<1>5. op.type = "Copy" \/ (Between /\ ~SourceOnly) =>
        call = [dst |-> refs[op.dst], add |-> op.commits, position |-> op.position, remove |-> {}]
  BY DEF CallIsOps, SourceOnly, Between
<1>6. op.type = "Edit" =>
        call = [dst |-> refs[op.src], add |-> {Amended(Earliest(op.commits))},
                position |-> Earliest(op.commits), remove |-> {Earliest(op.commits)}]
  BY DEF CallIsOps, SourceOnly, Between
<1>7. QED  BY <1>1, <1>2, <1>3, <1>4, <1>5, <1>6

\* An amended commit is a commit, and has the place of the one it was made of.
LEMMA AmendedIsCommit ==
    ASSUME NEW x \in Commits \ {Null}
    PROVE  /\ Amended(x) \in Commits \ {Null} /\ Len(Amended(x)) = Len(x)
           /\ Last(Amended(x)) = Append(Last(x), Edited)
           /\ Amended(x) \in Ancestors(Amended(x))
<1>1. Append(Last(x), Edited) \in Patches /\ Parent(x) \in Commits /\ Len(Parent(x)) = Len(x) - 1
  BY ParentIsFront, AppendProperties, ModifyAssumption DEF Patches
<1>2. Amended(x) \in Commits \ {Null}
  BY <1>1, AppendIsCommit DEF Amended
<1>3. Last(Amended(x)) = Append(Last(x), Edited) /\ Len(Amended(x)) = Len(Parent(x)) + 1
  <2> DEFINE h == Parent(x)
             p == Append(Last(x), Edited)
  <2>1. h \in Seq(Patches) /\ p \in Patches
    BY <1>1 DEF Commits, Patches
  <2> HIDE DEF h, p
  <2>2. Last(Append(h, p)) = p /\ Len(Append(h, p)) = Len(h) + 1
    BY <2>1, FrontOfAppend, AppendProperties
  <2> QED  BY <2>2 DEF Amended, h, p
<1>4. Len(x) \in Nat /\ Len(Amended(x)) \in Nat
  BY <1>2, ParentIsFront
<1>5. QED  BY <1>1, <1>2, <1>3, <1>4, AncestorsAreCommits

\* The arguments of _AddRemoveCommits fit each other, in every loop.
LEMMA CallFacts ==
    ASSUME ModifyInv, CallIsOps, OpIsKept, pc \in {"sort", "walk", "apply"}, op.type # "Combine"
    PROVE  /\ AddSource \in Commits /\ call.add \subseteq Ancestors(AddSource)
           /\ call.dst \in Commits /\ call.remove \subseteq Ancestors(call.dst)
           /\ call.position \in Ancestors(call.dst) \cup {Null} /\ call.position \in Commits
           /\ Len(call.position) \in 0..Len(call.dst) /\ Len(call.dst) \in Nat
<1> DEFINE from == refs[op.src]
           x == Earliest(op.commits)
<1>1. op.type = "Edit" =>
         /\ AddSource = Amended(x) /\ call.add = {Amended(x)} /\ call.dst = from
         /\ call.remove = {x} /\ call.position = x /\ x \in Ancestors(from) /\ from \in Commits
  BY CallCases DEF AddSource
<1>2. op.type # "Edit" =>
         /\ AddSource = from /\ from \in Commits
         /\ call.add \subseteq Ancestors(from) /\ call.dst \in Commits
         /\ call.remove \subseteq Ancestors(call.dst)
         /\ call.position \in Ancestors(call.dst) \cup {Null}
  <2>1. op.type # "Edit" => AddSource = from /\ from \in Commits
    BY CallCases DEF AddSource
  <2>2. SourceOnly \/ op.type = "Delete" =>
           /\ call.add \subseteq Ancestors(from) /\ call.dst \in Commits
           /\ call.remove \subseteq Ancestors(call.dst)
           /\ call.position \in Ancestors(call.dst) \cup {Null}
    BY CallCases
  <2>3. op.type = "Move" /\ op.dst = op.src =>
           /\ call.add \subseteq Ancestors(from) /\ call.dst \in Commits
           /\ call.remove \subseteq Ancestors(call.dst)
           /\ call.position \in Ancestors(call.dst) \cup {Null}
    BY CallCases
  <2>4. op.type = "Copy" \/ (Between /\ ~SourceOnly) =>
           /\ call.add \subseteq Ancestors(from) /\ call.dst \in Commits
           /\ call.remove \subseteq Ancestors(call.dst)
           /\ call.position \in Ancestors(call.dst) \cup {Null}
    BY CallCases DEF Between
  <2>5. op.type \in {"Move", "Copy", "Delete", "Edit"}
    BY CallCases
  <2> QED  BY <2>1, <2>2, <2>3, <2>4, <2>5 DEF Between
<1> HIDE DEF from, x
<1>3. op.type = "Edit" => x \in Commits \ {Null}
  BY <1>1, AncestorsAreCommits
<1>4. op.type = "Edit" =>
         AddSource \in Commits /\ call.add \subseteq Ancestors(AddSource)
  BY <1>1, <1>3, AmendedIsCommit
<1>5. /\ AddSource \in Commits /\ call.add \subseteq Ancestors(AddSource)
      /\ call.dst \in Commits /\ call.remove \subseteq Ancestors(call.dst)
      /\ call.position \in Ancestors(call.dst) \cup {Null}
  BY <1>1, <1>2, <1>4
<1>6. call.position \in Commits
  BY <1>5, AncestorsAreCommits
<1>7. Len(call.position) \in 0..Len(call.dst) /\ Len(call.dst) \in Nat
  <2>1. Len(Null) = 0 /\ Len(call.dst) \in Nat
    BY <1>5, AncestorsAreCommits, AncestorByLength
  <2>2. call.position \in Ancestors(call.dst) => Len(call.position) \in 1..Len(call.dst)
    BY <1>5, AncestorByLength
  <2> QED  BY <1>5, <2>1, <2>2
<1>8. QED  BY <1>5, <1>6, <1>7

\* A step of the loops leaves alone what they were asked for.
LEMMA SameOperation ==
    ASSUME ModifyInv, CallIsOps, OpIsKept, UNCHANGED <<refs, op, call, removed>>,
           pc \in {"sort", "walk"} => pc' \in {"sort", "walk", "apply"},
           pc = "apply" => pc' = "apply",
           pc \in {"gather", "integrate"} => pc' \in {"gather", "integrate", "apply"},
           pc # "idle"
    PROVE  /\ CallIsOps' /\ OpIsKept'
           /\ AddSource' = AddSource /\ Picked' = Picked /\ Below' = Below
           /\ Result' = Result /\ ResultIndexes' = ResultIndexes
<1>1. AddSource' = AddSource /\ SourceOnly' = SourceOnly /\ Between' = Between
  BY DEF AddSource, SourceOnly, Between
<1>2. Picked' = Picked /\ Below' = Below
  BY <1>1 DEF Picked, Below, Kept
<1>3. CallResult' = CallResult /\ CallIndexes' = CallIndexes
  BY <1>2 DEF CallResult, CallIndexes, Kept
<1>4. Result' = Result /\ ResultIndexes' = ResultIndexes
  BY <1>3 DEF Result, ResultIndexes
<1>5. pc \in {"sort", "walk", "apply", "gather", "integrate"}
  BY DEF ModifyInv, TypeOK
<1>6. OpIsKept'
  BY <1>1, <1>5 DEF OpIsKept
<1>7. CallIsOps'
  <2>1. pc' \in {"sort", "walk", "apply"} /\ op.type # "Combine" => pc \in {"sort", "walk", "apply"}
    BY <1>5 DEF OpIsKept
  <2> QED  BY <1>1, <2>1 DEF CallIsOps
<1>8. QED  BY <1>1, <1>2, <1>4, <1>6, <1>7

LEMMA SortBuilds ==
    ASSUME InductiveInv, Sort
    PROVE  BuiltInv'
<1> USE DEF InductiveInv, BuiltInv
<1>1. /\ pc = "sort" /\ pc' = "sort" /\ rem # {} /\ c' = Parent(c) /\ rem' = rem \ {c}
      /\ addv' = IF c \in rem THEN <<c>> \o addv ELSE addv
      /\ UNCHANGED <<refs, op, call, removed, combined>>
  BY DEF Sort
<1>2. op.type # "Combine"
  BY <1>1 DEF OpIsKept
<1>3. AddSource \in Commits /\ call.add \in SUBSET Ancestors(AddSource)
  BY <1>1, <1>2, CallFacts
<1>4. c \in Ancestors(AddSource)
  <2>1. rem \subseteq Ancestors(c) /\ Ancestors(Null) = {}
    BY <1>1, AncestorsAreCommits DEF ModifyInv, SortFinds
  <2> QED  BY <1>1, <2>1 DEF SortBuilt
<1>5. /\ c \in Commits \ {Null} /\ Len(c) \in 1..Len(AddSource) /\ Last(c) = AddSource[Len(c)]
      /\ Parent(c) \in Ancestors(AddSource) \cup {Null} /\ Len(Parent(c)) = Len(c) - 1
      /\ c \in call.add <=> Len(c) \in Lengths(call.add)
      /\ Upto(call.add, Len(c)) \ {c} = Upto(call.add, Len(Parent(c)))
      /\ Len(AddSource) \in Nat
  BY <1>3, <1>4, Round
<1>6. rem = Upto(call.add, Len(c))
  BY <1>1 DEF SortBuilt, Upto
<1>7. c \in rem <=> Len(c) \in Lengths(call.add)
  BY <1>5, <1>6 DEF Upto
<1>8. PatchesOf(addv') = Keep(AddSource, Over(Lengths(call.add), Len(c) - 1))
  <2> DEFINE I == Lengths(call.add)
             rest == Keep(AddSource, Over(I, Len(c)))
  <2>1. PatchesOf(addv) = rest
    BY <1>1 DEF SortBuilt, Over
  <2>2. I \in SUBSET (1..Len(AddSource)) /\ AddSource \in Seq(Patches)
    BY <1>3, LengthsAreIndexes
  <2>3. Keep(AddSource, Over(I, Len(c) - 1)) =
           IF Len(c) \in I THEN Push(AddSource[Len(c)], rest) ELSE rest
    <3> HIDE DEF I
    <3>1. AddSource \in Commits /\ I \in SUBSET (1..Len(AddSource)) /\ Len(c) \in 1..Len(AddSource)
      BY <1>3, <1>5, <2>2
    <3>2. ASSUME NEW s \in Commits, NEW J \in SUBSET (1..Len(s)), NEW i \in 1..Len(s)
          PROVE  Keep(s, Over(J, i - 1)) =
                    IF i \in J THEN Push(s[i], Keep(s, Over(J, i))) ELSE Keep(s, Over(J, i))
      BY KeepOver
    <3> QED  BY <3>1, <3>2
  <2>4. PatchesOf(<<c>> \o addv) = Push(Last(c), PatchesOf(addv))
    BY <1>5, PatchesOfMore DEF ModifyInv, TypeOK
  <2> QED  BY <1>1, <1>5, <1>7, <2>1, <2>3, <2>4
<1>9. /\ CallIsOps' /\ OpIsKept' /\ AddSource' = AddSource
  BY <1>1, SameOperation
<1>10. SortBuilt'
  <2>1. rem' = Upto(call.add, Len(c'))
    BY <1>1, <1>5, <1>6
  <2>2. PatchesOf(addv') = Keep(AddSource, Over(Lengths(call.add), Len(c')))
    BY <1>1, <1>5, <1>8
  <2>3. combined' = <<>>
    BY <1>1 DEF SortBuilt
  <2> QED  BY <1>1, <1>5, <1>9, <2>1, <2>2, <2>3 DEF SortBuilt, Upto, Over
<1>11. WalkBuilt' /\ GatherBuilt' /\ IntegrateBuilt' /\ ApplyBuilt'
  BY <1>1 DEF WalkBuilt, GatherBuilt, IntegrateBuilt, ApplyBuilt
<1>12. QED  BY <1>9, <1>10, <1>11

LEMMA SortEndsBuilds ==
    ASSUME InductiveInv, SortEnds
    PROVE  BuiltInv'
<1> USE DEF InductiveInv, BuiltInv
<1>1. /\ pc = "sort" /\ pc' = "walk" /\ rem = {} /\ c' = call.dst /\ rem' = call.remove
      /\ UNCHANGED <<refs, op, call, removed, combined, addv, found>>
  BY DEF SortEnds, Goto
<1>2. op.type # "Combine" /\ ~found /\ combined = <<>>
  BY <1>1 DEF OpIsKept, SortBuilt, ModifyInv, AddsWhatItShould
<1>3. /\ AddSource \in Commits /\ call.add \in SUBSET Ancestors(AddSource)
      /\ call.dst \in Commits /\ call.remove \in SUBSET Ancestors(call.dst)
      /\ Len(call.dst) \in Nat
  BY <1>1, <1>2, CallFacts
<1>4. CallIsOps' /\ OpIsKept' /\ Picked' = Picked
  BY <1>1, SameOperation
<1>5. PatchesOf(addv) = Picked
  <2>1. PatchesOf(addv) = Keep(AddSource, {i \in Lengths(call.add) : i > Len(c)})
    BY <1>1 DEF SortBuilt
  <2>2. \A x \in call.add : ~(Len(x) <= Len(c))
    BY <1>1 DEF SortBuilt
  <2>3. c \in Commits
    BY DEF ModifyInv, TypeOK
  <2>4. Len(c) \in Nat /\ \A x \in call.add : Len(x) \in Nat
    BY <1>3, <2>3, AncestorByLength
  <2>5. {i \in Lengths(call.add) : i > Len(c)} = Lengths(call.add)
    BY <2>2, <2>4 DEF Lengths
  <2> QED  BY <2>1, <2>5 DEF Picked
<1>6. call.dst \in Ancestors(call.dst) \cup {Null}
  BY <1>3, AncestorsAreCommits
<1>7. call.remove = {x \in call.remove : Len(x) <= Len(call.dst)}
  <2>1. \A x \in call.remove : Len(x) <= Len(call.dst)
    BY <1>3, AncestorByLength
  <2> QED  BY <2>1
<1>8. Kept(Len(call.dst) + 1, Len(call.dst)) = <<>>
  <2>1. (Len(call.dst) + 1 .. Len(call.dst)) \ Lengths(call.remove) = {}
    BY <1>3
  <2> QED  BY <2>1, KeepNothing DEF Kept
<1>9. Combined' = <<>> /\ DOMAIN combined' = {}
  BY <1>1, <1>2 DEF Combined, PatchesOf
<1>10. WalkBuilt'
  <2>1. /\ c' \in Ancestors(call.dst) \cup {Null}
        /\ rem' = {x \in call.remove : Len(x) <= Len(c')}
        /\ PatchesOf(addv') = Picked'
        /\ ~found'
        /\ Combined' = Kept(Len(c') + 1, Len(call.dst))
        /\ DOMAIN combined' = {}
    BY <1>1, <1>2, <1>4, <1>5, <1>6, <1>7, <1>8, <1>9
  <2> QED  BY <1>1, <2>1 DEF WalkBuilt, Kept
<1>11. SortBuilt' /\ GatherBuilt' /\ IntegrateBuilt' /\ ApplyBuilt'
  BY <1>1 DEF SortBuilt, GatherBuilt, IntegrateBuilt, ApplyBuilt
<1>12. QED  BY <1>4, <1>10, <1>11

\* What stays of the destination, as Left.
LEMMA KeptIsLeft ==
    ASSUME NEW lo, NEW hi
    PROVE  Kept(lo, hi) = Left(call.dst, Lengths(call.remove), lo, hi)
BY DEF Kept, Left

LEMMA KeptRound ==
    ASSUME call.dst \in Commits, NEW i, i \in Int, NEW hi, hi \in Int,
           1 <= i, i <= hi, hi <= Len(call.dst)
    PROVE  Kept(i, hi) = IF i \in Lengths(call.remove) THEN Kept(i + 1, hi)
                         ELSE Push(call.dst[i], Kept(i + 1, hi))
<1> DEFINE d == call.dst
           I == Lengths(call.remove)
<1>1. d \in Commits /\ hi <= Len(d)
  OBVIOUS
<1> HIDE DEF d, I
<1>2. Left(d, I, i, hi) = IF i \in I THEN Left(d, I, i + 1, hi) ELSE Push(d[i], Left(d, I, i + 1, hi))
  BY <1>1, LeftRound
<1>3. QED  BY <1>2, KeptIsLeft DEF d, I

\* The loop of _AddRemoveCommits has built all that is to result above c, once it has inserted
\* the added commits if this is their place.
LEMMA InsertedBuilt ==
    ASSUME InductiveInv, pc = "walk", ~AssertFails
    PROVE  LET n == Len(c)
               p == Len(call.position)
               m == Len(call.dst)
               within == Kept(n + 1, p)
           IN  /\ call.dst \in Commits /\ call.remove \in SUBSET Ancestors(call.dst)
               /\ c \in Ancestors(call.dst) \cup {Null} /\ op.type # "Combine"
               /\ n \in 0..m /\ p \in 0..m /\ m \in Nat
               /\ Inserted \in Seq(CommitAdded) /\ Len(Inserted) \in Nat
               /\ Picked \in Seq(Patches) /\ Len(Picked) \in Nat /\ (Adding <=> Picked # <<>>)
               /\ within \in Seq(Patches) /\ Len(within) \in Nat
               /\ Kept(p + 1, m) \in Seq(Patches) /\ Kept(n + 1, m) \in Seq(Patches)
               /\ found \/ AtPosition => Adding /\ n <= p
               /\ AtPosition => n = p
               /\ CombinedOf(Inserted) = IF found \/ AtPosition
                                         THEN Cat(Cat(within, Picked), Kept(p + 1, m))
                                         ELSE Kept(n + 1, m)
               /\ \A i \in 1..Len(Inserted) :
                     Inserted[i].added <=>
                        (found \/ AtPosition) /\ i \in Len(within) + 1 .. Len(within) + Len(Picked)
<1> USE DEF InductiveInv, BuiltInv
<1> DEFINE n == Len(c)
           p == Len(call.position)
           m == Len(call.dst)
           within == Kept(n + 1, p)
           rest == Kept(p + 1, m)
<1>1. op.type # "Combine"
  BY DEF OpIsKept
<1>2. /\ AddSource \in Commits /\ call.add \in SUBSET Ancestors(AddSource)
      /\ call.dst \in Commits /\ call.remove \in SUBSET Ancestors(call.dst)
      /\ p \in 0..m /\ m \in Nat
  BY <1>1, CallFacts
<1>3. c \in Ancestors(call.dst) \cup {Null}
  BY DEF WalkBuilt
<1>4. n \in 0..m
  <2>1. Len(Null) = 0
    BY AncestorsAreCommits
  <2>2. c \in Ancestors(call.dst) => Len(c) \in 1..Len(call.dst)
    BY <1>2, AncestorByLength
  <2> QED  BY <1>2, <1>3, <2>1, <2>2
<1>5. addv \in Seq(Commits \ {Null}) /\ combined \in Seq(CommitAdded)
  BY DEF ModifyInv, TypeOK
<1>6. /\ Picked \in Seq(Patches) /\ Len(Picked) = Len(addv) /\ Len(addv) \in Nat
      /\ PatchesOf(addv) = Picked /\ (Adding <=> Picked # <<>>)
  <2>1. PatchesOf(addv) = Picked
    BY DEF WalkBuilt
  <2>2. PatchesOf(addv) \in Seq(Patches) /\ Len(PatchesOf(addv)) = Len(addv) /\ Len(addv) \in Nat
    BY <1>5, PatchesOfList
  <2>3. /\ addv = <<>> <=> Len(addv) = 0
        /\ PatchesOf(addv) = <<>> <=> Len(PatchesOf(addv)) = 0
    BY <1>5, <2>2, EmptySeq
  <2> QED  BY <2>1, <2>2, <2>3 DEF Adding
<1>7. /\ within \in Seq(Patches) /\ Len(within) \in Nat
      /\ rest \in Seq(Patches) /\ Kept(n + 1, m) \in Seq(Patches)
  <2>1. \A lo, hi \in Int : 1 <= lo /\ hi <= m => Kept(lo, hi) \in Seq(Patches) /\ Len(Kept(lo, hi)) \in Nat
    <3> SUFFICES ASSUME NEW lo \in Int, NEW hi \in Int, 1 <= lo, hi <= m
                 PROVE  Kept(lo, hi) \in Seq(Patches) /\ Len(Kept(lo, hi)) \in Nat
      OBVIOUS
    <3> QED  BY <1>2, LeftType, KeptIsLeft
  <2> HIDE DEF n, p, m
  <2>2. /\ n + 1 \in Int /\ p \in Int /\ p + 1 \in Int /\ m \in Int
        /\ 1 <= n + 1 /\ p <= m /\ 1 <= p + 1 /\ m <= m
    BY <1>2, <1>4
  <2> QED  BY <2>1, <2>2
<1>8. AtPosition => n = p /\ ~found
  BY DEF AtPosition, AssertFails
<1>9. found => n < p /\ Adding
  BY DEF ModifyInv, WalkFinds, WalkBuilt
<1>10. found \/ AtPosition => Adding /\ n <= p
  BY <1>2, <1>4, <1>8, <1>9 DEF AtPosition
<1>11. /\ CombinedOf(combined) = IF found THEN Cat(Cat(within, Picked), rest) ELSE Kept(n + 1, m)
       /\ \A i \in 1..Len(combined) :
             combined[i].added <=> found /\ i \in Len(within) + 1 .. Len(within) + Len(Picked)
  <2>1. DOMAIN combined = 1..Len(combined)
    BY <1>5, LenProperties
  <2>2. Combined = IF found THEN within \o Picked \o rest ELSE Kept(n + 1, m)
    BY DEF WalkBuilt
  <2>3. \A i \in 1..Len(combined) :
             combined[i].added <=> found /\ i \in Len(within) + 1 .. Len(within) + Len(Picked)
    BY <2>1 DEF WalkBuilt
  <2> QED  BY <2>2, <2>3 DEF Combined, CombinedOf, Cat
<1>12. Inserted \in Seq(CommitAdded) /\ Len(Inserted) \in Nat
  BY InsertedIsAList, LenProperties DEF ModifyInv
<1>13. CASE ~AtPosition
  <2>1. Inserted = combined
    BY <1>13 DEF Inserted
  <2>2. /\ CombinedOf(Inserted) = IF found \/ AtPosition THEN Cat(Cat(within, Picked), rest)
                                  ELSE Kept(n + 1, m)
        /\ \A i \in 1..Len(Inserted) :
              Inserted[i].added <=>
                 (found \/ AtPosition) /\ i \in Len(within) + 1 .. Len(within) + Len(Picked)
    BY <1>11, <1>13, <2>1
  <2> HIDE DEF n, p, m, within, rest
  <2> QED  BY <1>1, <1>2, <1>3, <1>4, <1>6, <1>7, <1>8, <1>10, <1>12, <2>2 DEF n, p, m, within, rest
<1>14. CASE AtPosition
  <2> DEFINE flagged == [i \in DOMAIN addv |-> [commit |-> addv[i], added |-> TRUE]]
  <2>1. Inserted = flagged \o combined
    BY <1>14 DEF Inserted
  <2>2. DOMAIN addv = 1..Len(addv) /\ \A i \in 1..Len(addv) : addv[i] \in Commits \ {Null}
    BY <1>5, LenProperties, ElementOfSeq
  <2>3. flagged \in Seq(CommitAdded) /\ Len(flagged) = Len(addv)
    <3>1. \A i \in 1..Len(addv) : [commit |-> addv[i], added |-> TRUE] \in CommitAdded
      BY <2>2 DEF CommitAdded
    <3> QED  BY <1>6, <2>2, <3>1
  <2>4. \A i \in 1..Len(addv) : flagged[i].commit = addv[i] /\ flagged[i].added = TRUE
    BY <2>2
  <2>5. [i \in DOMAIN flagged |-> flagged[i].commit] = addv
    <3>1. addv = [i \in 1..Len(addv) |-> addv[i]]
      BY <1>5, <2>2
    <3>2. DOMAIN flagged = 1..Len(addv)
      BY <2>2
    <3> HIDE DEF flagged
    <3> QED  BY <2>4, <3>1, <3>2
  <2> HIDE DEF flagged
  <2>6. CombinedOf(flagged) = Picked
    BY <1>6, <2>5 DEF CombinedOf
  <2>7. within = <<>>
    <3>1. n + 1 > p /\ n + 1 \in Int /\ 1 <= n + 1 /\ p \in Int /\ p <= m
      BY <1>2, <1>4, <1>8, <1>14
    <3> HIDE DEF n, p
    <3>2. Left(call.dst, Lengths(call.remove), n + 1, p) = <<>>
      BY <3>1, LeftNone
    <3> QED  BY <3>2, KeptIsLeft
  <2>8. CombinedOf(combined) = rest
    BY <1>8, <1>11, <1>14
  <2>9. CombinedOf(Inserted) = Cat(Picked, rest)
    BY <1>5, <2>1, <2>3, <2>6, <2>8, CombinedOfMore
  <2>10. Cat(within, Picked) = Picked
    BY <1>6, <2>7, CatEmpty
  <2>11. \A i \in 1..Len(Inserted) : Inserted[i].added <=> i \in 1..Len(Picked)
    <3>1. /\ Len(Inserted) = Len(flagged) + Len(combined) /\ Len(combined) \in Nat
          /\ \A i \in 1..(Len(flagged) + Len(combined)) :
                Inserted[i] = IF i <= Len(flagged) THEN flagged[i] ELSE combined[i - Len(flagged)]
      BY <1>5, <2>1, <2>3, ConcatProperties, LenProperties
    <3> SUFFICES ASSUME NEW i \in 1..Len(Inserted) PROVE Inserted[i].added <=> i \in 1..Len(Picked)
      OBVIOUS
    <3>2. CASE i <= Len(flagged)
      BY <1>6, <2>3, <2>4, <3>1, <3>2
    <3>3. CASE ~(i <= Len(flagged))
      <4>1. i - Len(flagged) \in 1..Len(combined) /\ Inserted[i] = combined[i - Len(flagged)]
        BY <1>6, <2>3, <3>1, <3>3
      <4>2. ~combined[i - Len(flagged)].added
        BY <1>8, <1>11, <1>14, <4>1
      <4> QED  BY <1>6, <2>3, <3>1, <3>3, <4>1, <4>2
    <3> QED  BY <3>2, <3>3
  <2>12. Len(within) = 0
    BY <2>7, EmptySeq
  <2>13. /\ CombinedOf(Inserted) = IF found \/ AtPosition THEN Cat(Cat(within, Picked), rest)
                                   ELSE Kept(n + 1, m)
         /\ \A i \in 1..Len(Inserted) :
               Inserted[i].added <=>
                  (found \/ AtPosition) /\ i \in Len(within) + 1 .. Len(within) + Len(Picked)
    <3> HIDE DEF within, rest
    <3> QED  BY <1>6, <1>14, <2>9, <2>10, <2>11, <2>12
  <2> HIDE DEF n, p, m, within, rest
  <2> QED  BY <1>1, <1>2, <1>3, <1>4, <1>6, <1>7, <1>8, <1>10, <1>12, <2>13 DEF n, p, m, within, rest
<1>15. QED  BY <1>13, <1>14

\* One commit more, with its flag, in front of the others.
LEMMA CombinedOfFront ==
    ASSUME NEW s \in Seq(CommitAdded), NEW x \in Commits \ {Null}, NEW flag \in BOOLEAN
    PROVE  LET t == <<[commit |-> x, added |-> flag]>> \o s
           IN  /\ t \in Seq(CommitAdded) /\ Len(t) = Len(s) + 1 /\ Len(s) \in Nat
               /\ CombinedOf(t) = Push(Last(x), CombinedOf(s))
               /\ \A i \in 1..Len(t) : t[i].added = IF i = 1 THEN flag ELSE s[i - 1].added
<1> DEFINE e == [commit |-> x, added |-> flag]
           u == <<e>>
           t == u \o s
<1>1. e \in CommitAdded /\ e.commit = x /\ e.added = flag
  BY DEF CommitAdded
<1> HIDE DEF e
<1>2. u \in Seq(CommitAdded) /\ Len(u) = 1 /\ u[1] = e /\ DOMAIN u = {1}
  BY <1>1
<1>3. CombinedOf(u) = <<Last(x)>>
  <2> DEFINE v == CombinedOf(u)
             w == <<Last(x)>>
  <2>1. v \in Seq(Patches) /\ Len(v) = 1 /\ v[1] = Last(x)
    <3> HIDE DEF u
    <3>1. 1 \in 1..Len(u)
      BY <1>2
    <3> QED  BY <1>1, <1>2, <3>1, CombinedOfList
  <2>2. w \in Seq(Patches) /\ Len(w) = 1 /\ w[1] = Last(x)
    BY ParentIsFront
  <2> HIDE DEF v, w
  <2>3. v = w
    BY <2>1, <2>2, SeqEqual
  <2> QED  BY <2>3 DEF v, w
<1>4. /\ t \in Seq(CommitAdded) /\ Len(t) = Len(s) + 1 /\ Len(s) \in Nat
      /\ \A i \in 1..(Len(s) + 1) : t[i] = IF i = 1 THEN e ELSE s[i - 1]
  BY <1>1, Prepend
<1> HIDE DEF u
<1>5. CombinedOf(t) = Push(Last(x), CombinedOf(s))
  BY <1>2, <1>3, CombinedOfMore DEF Push, Cat
<1>6. \A i \in 1..Len(t) : t[i].added = IF i = 1 THEN flag ELSE s[i - 1].added
  BY <1>1, <1>4
<1>7. QED  BY <1>4, <1>5, <1>6 DEF u, e

LEMMA WalkBuilds ==
    ASSUME InductiveInv, Walk
    PROVE  BuiltInv'
<1> USE DEF InductiveInv, BuiltInv
<1> DEFINE n == Len(c)
           p == Len(call.position)
           m == Len(call.dst)
           I == Lengths(call.remove)
           F == found \/ AtPosition
           within == Kept(n + 1, p)
           rest == Kept(p + 1, m)
<1>1. /\ pc = "walk" /\ pc' = "walk" /\ ~AssertFails /\ ~WalkDone /\ c # Null
      /\ c' = Parent(c) /\ rem' = rem \ {c} /\ found' = F
      /\ combined' = IF c \in rem THEN Inserted ELSE <<[commit |-> c, added |-> FALSE]>> \o Inserted
      /\ UNCHANGED <<refs, op, call, removed, addv>>
  BY NoAssertFails DEF Walk, Goto, AssertFails
<1>2. /\ call.dst \in Commits /\ call.remove \in SUBSET Ancestors(call.dst)
      /\ c \in Ancestors(call.dst) /\ op.type # "Combine"
      /\ n \in 0..m /\ p \in 0..m /\ m \in Nat
      /\ F => Adding /\ n <= p
  BY <1>1, InsertedBuilt
<1>3. /\ Inserted \in Seq(CommitAdded) /\ Len(Inserted) \in Nat
      /\ Picked \in Seq(Patches) /\ Len(Picked) \in Nat
      /\ within \in Seq(Patches) /\ Len(within) \in Nat
      /\ rest \in Seq(Patches) /\ Kept(n + 1, m) \in Seq(Patches)
  BY <1>1, InsertedBuilt
<1>4. /\ CombinedOf(Inserted) = IF F THEN Cat(Cat(within, Picked), rest) ELSE Kept(n + 1, m)
      /\ \A i \in 1..Len(Inserted) :
            Inserted[i].added <=> F /\ i \in Len(within) + 1 .. Len(within) + Len(Picked)
  BY <1>1, InsertedBuilt
<1>5. /\ c \in Commits \ {Null} /\ n \in 1..m /\ Last(c) = call.dst[n] /\ Last(c) \in Patches
      /\ Parent(c) \in Ancestors(call.dst) \cup {Null} /\ Len(Parent(c)) = n - 1
      /\ c \in call.remove <=> n \in I
      /\ Upto(call.remove, n) \ {c} = Upto(call.remove, Len(Parent(c)))
  <2> DEFINE dst == call.dst
             remove == call.remove
  <2>1. dst \in Commits /\ remove \in SUBSET Ancestors(dst) /\ c \in Ancestors(dst)
    BY <1>2
  <2> HIDE DEF dst, remove
  <2>2. /\ c \in Commits \ {Null} /\ n \in 1..Len(dst) /\ Last(c) = dst[n] /\ Last(c) \in Patches
        /\ Parent(c) \in Ancestors(dst) \cup {Null} /\ Len(Parent(c)) = n - 1
    BY ONLY <2>1, Round
  <2>3. /\ c \in remove <=> n \in Lengths(remove)
        /\ Upto(remove, n) \ {c} = Upto(remove, Len(Parent(c)))
    BY ONLY <2>1, Round
  <2> QED  BY <2>2, <2>3 DEF dst, remove
<1>6. rem = Upto(call.remove, n)
  BY <1>1 DEF WalkBuilt, Upto
<1>7. c \in rem <=> n \in I
  BY <1>5, <1>6 DEF Upto
<1>8. CallIsOps' /\ OpIsKept' /\ Picked' = Picked
  BY <1>1, SameOperation
<1> HIDE DEF n, p, m, F, within, rest
<1>9. F => Kept(n, p) = IF n \in I THEN within ELSE Push(Last(c), within)
  <2>1. n \in Int /\ p \in Int /\ 1 <= n /\ p <= Len(call.dst) /\ (F => n <= p)
    BY <1>2, <1>5 DEF m
  <2> QED  BY <1>2, <1>5, <2>1, KeptRound DEF within
<1>10. Kept(n, m) = IF n \in I THEN Kept(n + 1, m) ELSE Push(Last(c), Kept(n + 1, m))
  <2>1. n \in Int /\ m \in Int /\ 1 <= n /\ m <= Len(call.dst) /\ n <= m
    BY <1>2, <1>5 DEF m
  <2> QED  BY <1>2, <1>5, <2>1, KeptRound
<1>11. /\ combined' \in Seq(CommitAdded)
       /\ CombinedOf(combined') = IF F THEN Cat(Cat(Kept(n, p), Picked), rest) ELSE Kept(n, m)
       /\ \A i \in 1..Len(combined') :
             combined'[i].added <=> F /\ i \in Len(Kept(n, p)) + 1 .. Len(Kept(n, p)) + Len(Picked)
  <2>1. CASE n \in I
    <3>1. combined' = Inserted /\ (F => Kept(n, p) = within) /\ Kept(n, m) = Kept(n + 1, m)
      BY <1>1, <1>7, <1>9, <1>10, <2>1
    <3> QED  BY <1>3, <1>4, <3>1
  <2>2. CASE n \notin I
    <3> DEFINE w == Push(Last(c), within)
    <3>1. /\ combined' = <<[commit |-> c, added |-> FALSE]>> \o Inserted
          /\ F => Kept(n, p) = w
          /\ Kept(n, m) = Push(Last(c), Kept(n + 1, m))
      BY <1>1, <1>7, <1>9, <1>10, <2>2
    <3>2. /\ combined' \in Seq(CommitAdded) /\ Len(combined') = Len(Inserted) + 1
          /\ CombinedOf(combined') = Push(Last(c), CombinedOf(Inserted))
          /\ \A i \in 1..Len(combined') :
                combined'[i].added = IF i = 1 THEN FALSE ELSE Inserted[i - 1].added
      <4>1. FALSE \in BOOLEAN
        OBVIOUS
      <4> QED  BY <1>3, <1>5, <3>1, <4>1, CombinedOfFront
    <3>3. Len(w) = Len(within) + 1
      BY <1>3, <1>5, PushType
    <3>4. Push(Last(c), Cat(Cat(within, Picked), rest)) = Cat(Cat(w, Picked), rest)
      <4> DEFINE wp == Cat(within, Picked)
      <4>1. wp \in Seq(Patches)
        BY <1>3, CatType
      <4>2. Push(Last(c), wp) = Cat(w, Picked)
        BY <1>3, <1>5, PushCat
      <4> HIDE DEF wp, w
      <4>3. Push(Last(c), Cat(wp, rest)) = Cat(Push(Last(c), wp), rest)
        BY <1>3, <1>5, <4>1, PushCat
      <4> QED  BY <4>2, <4>3 DEF wp
    <3>5. CombinedOf(combined') = IF F THEN Cat(Cat(w, Picked), rest)
                                 ELSE Push(Last(c), Kept(n + 1, m))
      <4> HIDE DEF w
      <4> QED  BY <1>4, <3>2, <3>4
    <3>6. ASSUME NEW i \in 1..Len(combined')
          PROVE  combined'[i].added <=> F /\ i \in Len(w) + 1 .. Len(w) + Len(Picked)
      <4> HIDE DEF w
      <4>1. CASE i = 1
        <5>1. 1 \in 1..Len(combined')
          BY <1>3, <3>2
        <5>2. ~combined'[1].added
          BY <3>2, <5>1
        <5>3. Len(w) + 1 > 1
          BY <1>3, <3>3
        <5> QED  BY <1>3, <3>3, <4>1, <5>2, <5>3
      <4>2. CASE i # 1
        <5>1. i - 1 \in 1..Len(Inserted)
          BY <1>3, <3>2, <4>2
        <5>2. combined'[i].added <=> F /\ i - 1 \in Len(within) + 1 .. Len(within) + Len(Picked)
          BY <1>4, <3>2, <4>2, <5>1
        <5>3. i \in Int /\ (i - 1 \in Len(within) + 1 .. Len(within) + Len(Picked)
                              <=> i \in Len(w) + 1 .. Len(w) + Len(Picked))
          BY <1>3, <3>2, <3>3
        <5> QED  BY <5>2, <5>3
      <4> QED  BY <4>1, <4>2
    <3> HIDE DEF w
    <3> QED  BY <3>1, <3>2, <3>5, <3>6
  <2> QED  BY <2>1, <2>2
<1>12. WalkBuilt'
  <2>1. Len(c') = n - 1 /\ n - 1 + 1 = n
    BY <1>1, <1>5
  <2>2. /\ Kept(n, p)' = Kept(n, p)' /\ \A lo, hi : Keep(call'.dst, (lo..hi) \ Lengths(call'.remove)) = Kept(lo, hi)
    BY <1>1 DEF Kept
  <2>3. DOMAIN combined' = 1..Len(combined')
    BY <1>11, LenProperties
  <2>4. rem' = {x \in call.remove : Len(x) <= Len(c')}
    BY <1>1, <1>5, <1>6 DEF Upto
  <2>5. PatchesOf(addv') = Picked' /\ (found' => Adding')
    BY <1>1, <1>2, <1>8 DEF WalkBuilt, Adding
  <2>6. c' \in Ancestors(call.dst) \cup {Null}
    BY <1>1, <1>5
  <2>7. Combined' = IF found' THEN Kept(n, p) \o Picked \o rest ELSE Kept(n, m)
    BY <1>1, <1>11 DEF Combined, CombinedOf, Cat
  <2>8. \A i \in DOMAIN combined' :
             combined'[i].added <=> found' /\ i \in Len(Kept(n, p)) + 1 .. Len(Kept(n, p)) + Len(Picked)
    BY <1>1, <1>11, <2>3
  <2>9. Len(c') + 1 = n
    BY <1>5, <2>1
  <2> QED  BY <1>1, <1>8, <2>2, <2>4, <2>5, <2>6, <2>7, <2>8, <2>9 DEF WalkBuilt, Kept, n, p, m, rest
<1>13. SortBuilt' /\ GatherBuilt' /\ IntegrateBuilt' /\ ApplyBuilt'
  BY <1>1 DEF SortBuilt, GatherBuilt, IntegrateBuilt, ApplyBuilt
<1>14. QED  BY <1>8, <1>12, <1>13
LEMMA KeptTwo ==
    ASSUME call.dst \in Commits
    PROVE  \A lo, mid, hi \in Int :
              1 <= lo /\ lo <= mid + 1 /\ mid <= hi /\ hi <= Len(call.dst) =>
                 /\ Kept(lo, hi) = Cat(Kept(lo, mid), Kept(mid + 1, hi))
                 /\ Kept(lo, mid) \in Seq(Patches) /\ Kept(mid + 1, hi) \in Seq(Patches)
<1> DEFINE d == call.dst
           I == Lengths(call.remove)
<1> SUFFICES ASSUME NEW lo \in Int, NEW mid \in Int, NEW hi \in Int,
                    1 <= lo, lo <= mid + 1, mid <= hi, hi <= Len(d)
             PROVE  /\ Kept(lo, hi) = Cat(Kept(lo, mid), Kept(mid + 1, hi))
                    /\ Kept(lo, mid) \in Seq(Patches) /\ Kept(mid + 1, hi) \in Seq(Patches)
  OBVIOUS
<1>1. d \in Commits
  OBVIOUS
<1> HIDE DEF d, I
<1>2. /\ Left(d, I, lo, hi) = Cat(Left(d, I, lo, mid), Left(d, I, mid + 1, hi))
      /\ Left(d, I, lo, mid) \in Seq(Patches) /\ Left(d, I, mid + 1, hi) \in Seq(Patches)
  BY <1>1, LeftTwo
<1>3. \A a, b : Kept(a, b) = Left(d, I, a, b)
  BY KeptIsLeft DEF d, I
<1>4. QED  BY <1>2, <1>3

\* Where the walk ends nothing is to be removed any more: it has reached what stays as it is.
LEMMA WalkEndsBuilds ==
    ASSUME InductiveInv, WalkEnds
    PROVE  BuiltInv'
<1> USE DEF InductiveInv, BuiltInv
<1> DEFINE n == Len(c)
           p == Len(call.position)
           m == Len(call.dst)
           I == Lengths(call.remove)
           F == found \/ AtPosition
           within == Kept(n + 1, p)
           rest == Kept(p + 1, m)
<1>1. /\ pc = "walk" /\ pc' = "apply" /\ ~AssertFails /\ rem = {} /\ (~Adding \/ F)
      /\ combined' = Inserted /\ head' = c /\ added' = added
      /\ UNCHANGED <<refs, op, call, removed>>
  BY DEF WalkEnds, Goto, WalkDone
<1>2. /\ call.dst \in Commits /\ call.remove \in SUBSET Ancestors(call.dst)
      /\ c \in Ancestors(call.dst) \cup {Null} /\ op.type # "Combine"
      /\ n \in 0..m /\ p \in 0..m /\ m \in Nat
      /\ F => Adding /\ n <= p
  BY <1>1, InsertedBuilt
<1>3. /\ Inserted \in Seq(CommitAdded) /\ Len(Inserted) \in Nat
      /\ Picked \in Seq(Patches) /\ Len(Picked) \in Nat /\ (Adding <=> Picked # <<>>)
      /\ within \in Seq(Patches) /\ Len(within) \in Nat
      /\ rest \in Seq(Patches) /\ Kept(n + 1, m) \in Seq(Patches)
  BY <1>1, InsertedBuilt
<1>4. /\ CombinedOf(Inserted) = IF F THEN Cat(Cat(within, Picked), rest) ELSE Kept(n + 1, m)
      /\ \A i \in 1..Len(Inserted) :
            Inserted[i].added <=> F /\ i \in Len(within) + 1 .. Len(within) + Len(Picked)
  BY <1>1, InsertedBuilt
<1>5. c = SubSeq(call.dst, 1, n) /\ c \in Seq(Patches)
  <2>1. c \in Ancestors(call.dst) => c = SubSeq(call.dst, 1, n) /\ c \in Commits
    BY <1>2, AncestorByLength, AncestorsAreCommits
  <2>2. c = Null => n = 0 /\ c \in Commits
    BY AncestorsAreCommits
  <2>3. call.dst \in Seq(Patches) /\ SubSeq(call.dst, 1, 0) = Null
    BY <1>2 DEF Commits, Patches, Null
  <2> QED  BY <1>2, <2>1, <2>2, <2>3 DEF Commits, Patches
<1>6. c = Kept(1, n)
  <2>1. \A x \in call.remove : ~(Len(x) <= n)
    BY <1>1 DEF WalkBuilt
  <2>2. (1..n) \cap I = {}
    BY <1>2, <2>1 DEF Lengths
  <2> DEFINE d == call.dst
  <2>3. d \in Commits /\ n \in Int /\ 0 <= n /\ n <= Len(d) /\ 1 \in Int /\ 1 <= 1
    BY <1>2
  <2> HIDE DEF d, I, n
  <2>4. Left(d, I, 1, n) = SubSeq(d, 1, n)
    BY <2>2, <2>3, LeftType
  <2> QED  BY <1>5, <2>4, KeptIsLeft DEF d, I
<1>7. CallIsOps' /\ OpIsKept' /\ Result' = Result /\ ResultIndexes' = ResultIndexes
  BY <1>1, SameOperation
<1>8. Result = Cat(Cat(Below, Picked), rest) /\ ResultIndexes = Len(Below) + 1 .. Len(Below) + Len(Picked)
  BY <1>2 DEF Result, ResultIndexes, CallResult, CallIndexes, Cat
<1> HIDE DEF n, p, m, I, F, within, rest
<1>9. /\ Below \in Seq(Patches) /\ Kept(1, m) = Cat(Below, rest)
      /\ Kept(1, m) = Cat(c, Kept(n + 1, m))
      /\ F => Below = Cat(c, within)
  <2>1. 1 \in Int /\ p \in Int /\ n \in Int /\ m \in Int /\ 1 <= 1 /\ 1 <= p + 1 /\ 1 <= n + 1
        /\ p <= m /\ n <= m /\ m <= Len(call.dst) /\ p <= Len(call.dst) /\ (F => n <= p)
    BY <1>2 DEF m
  <2>2. \A mid, hi \in Int : 1 <= mid + 1 /\ mid <= hi /\ hi <= Len(call.dst) =>
           Kept(1, hi) = Cat(Kept(1, mid), Kept(mid + 1, hi)) /\ Kept(1, mid) \in Seq(Patches)
    BY <1>2, KeptTwo
  <2>3. Kept(1, m) = Cat(Kept(1, p), Kept(p + 1, m)) /\ Kept(1, p) \in Seq(Patches)
    BY <2>1, <2>2
  <2>4. /\ Kept(1, m) = Cat(Kept(1, n), Kept(n + 1, m))
        /\ F => Kept(1, p) = Cat(Kept(1, n), Kept(n + 1, p))
    BY <2>1, <2>2
  <2>5. Below = Kept(1, p)
    BY DEF Below, p
  <2> QED  BY <1>6, <2>2, <2>3, <2>4, <2>5 DEF within, rest
<1>10. /\ Cat(c, CombinedOf(Inserted)) = Result
       /\ {k \in ResultIndexes : k <= n} = {}
       /\ \A i \in 1..Len(Inserted) : Inserted[i].added <=> n + i \in ResultIndexes
  <2>1. CASE F
    <3>1. Cat(Cat(Cat(c, within), Picked), rest) = Cat(c, Cat(Cat(within, Picked), rest))
      <4> DEFINE wp == Cat(within, Picked)
      <4>1. wp \in Seq(Patches) /\ c \in Seq(Patches) /\ rest \in Seq(Patches)
        BY <1>3, <1>5, CatType
      <4>0. \A s, t, u \in Seq(Patches) : Cat(Cat(s, t), u) = Cat(s, Cat(t, u))
        BY CatGroups
      <4>2. Cat(Cat(c, within), Picked) = Cat(c, wp)
        BY <1>3, <1>5, <4>0
      <4> HIDE DEF wp
      <4>3. Cat(Cat(c, wp), rest) = Cat(c, Cat(wp, rest))
        BY <4>0, <4>1
      <4> QED  BY <4>2, <4>3 DEF wp
    <3>2. Len(Below) = n + Len(within)
      BY <1>3, <1>5, <1>9, <2>1, CatType DEF n
    <3>3. {k \in ResultIndexes : k <= n} = {}
      BY <1>2, <1>3, <1>8, <3>2
    <3>4. ASSUME NEW i \in 1..Len(Inserted)
          PROVE  Inserted[i].added <=> n + i \in ResultIndexes
      <4>1. i \in Len(within) + 1 .. Len(within) + Len(Picked)
               <=> n + i \in Len(Below) + 1 .. Len(Below) + Len(Picked)
        BY <1>2, <1>3, <3>2
      <4> QED  BY <1>4, <1>8, <2>1, <4>1
    <3> QED  BY <1>4, <1>8, <1>9, <2>1, <3>1, <3>3, <3>4
  <2>2. CASE ~F
    <3>1. Picked = <<>> /\ Len(Picked) = 0
      BY <1>1, <1>3, <2>2
    <3>2. Cat(Below, Picked) = Below /\ Len(Below) \in Nat
      BY <1>9, <3>1, CatEmpty, CatType
    <3>3. ResultIndexes = {}
      BY <1>8, <3>1, <3>2
    <3> QED  BY <1>4, <1>8, <1>9, <2>2, <3>2, <3>3
  <2> QED  BY <2>1, <2>2
<1>11. ApplyBuilt'
  <2>1. DOMAIN combined' = 1..Len(combined') /\ head' = c /\ combined' = Inserted
    BY <1>1, <1>3, LenProperties
  <2>2. head' \o Combined' = Result'
    BY <1>1, <1>7, <1>10 DEF Combined, CombinedOf, Cat
  <2>3. added' = {} /\ {k \in ResultIndexes' : k <= Len(head')} = {}
    BY <1>1, <1>7, <1>10 DEF ModifyInv, AddedIsBuilt, n
  <2>4. \A i \in DOMAIN combined' : combined'[i].added <=> Len(head') + i \in ResultIndexes'
    BY <1>7, <1>10, <2>1 DEF n
  <2>5. added' = {SubSeq(Result', 1, i) : i \in {k \in ResultIndexes' : k <= Len(head')}}
    BY <2>3
  <2> QED  BY <2>2, <2>4, <2>5 DEF ApplyBuilt
<1>12. SortBuilt' /\ WalkBuilt' /\ GatherBuilt' /\ IntegrateBuilt'
  BY <1>1 DEF SortBuilt, WalkBuilt, GatherBuilt, IntegrateBuilt
<1>13. QED  BY <1>7, <1>11, <1>12

LEMMA CatFront ==
    ASSUME NEW s, s \in Seq(Patches), NEW t, t \in Seq(Patches)
    PROVE  SubSeq(Cat(s, t), 1, Len(s)) = s
<1> DEFINE u == Cat(s, t)
           v == SubSeq(u, 1, Len(s))
<1>1. /\ u \in Seq(Patches) /\ Len(u) = Len(s) + Len(t) /\ Len(s) \in Nat /\ Len(t) \in Nat
      /\ \A i \in 1..Len(s) : u[i] = s[i]
  BY ConcatProperties, LenProperties DEF Cat
<1> HIDE DEF u
<1>2. v \in Seq(Patches) /\ Len(v) = Len(s) /\ \A i \in 1..Len(v) : v[i] = s[i]
  BY <1>1, SubSeqProperties
<1> HIDE DEF v
<1>3. v = s
  BY <1>2, SeqEqual
<1>4. QED  BY <1>3 DEF v, u

LEMMA AppendMore ==
    ASSUME NEW h, h \in Seq(Patches), NEW e, e \in Patches, NEW r, r \in Seq(Patches)
    PROVE  /\ Append(h, e) \in Seq(Patches) /\ Len(Append(h, e)) = Len(h) + 1 /\ Len(h) \in Nat
           /\ Cat(h, Push(e, r)) = Cat(Append(h, e), r)
           /\ SubSeq(Cat(Append(h, e), r), 1, Len(h) + 1) = Append(h, e)
<1> DEFINE u == <<e>>
           a == Append(h, e)
<1>1. u \in Seq(Patches) /\ Len(u) = 1 /\ u[1] = e
  OBVIOUS
<1>2. /\ a \in Seq(Patches) /\ Len(a) = Len(h) + 1 /\ Len(h) \in Nat
      /\ \A i \in 1..Len(h) : a[i] = h[i]
      /\ a[Len(h) + 1] = e
  BY AppendProperties, LenProperties
<1> HIDE DEF u, a
<1>3. a = Cat(h, u)
  <2> DEFINE v == Cat(h, u)
  <2>1. /\ v \in Seq(Patches) /\ Len(v) = Len(h) + 1
        /\ \A i \in 1..(Len(h) + 1) : v[i] = IF i <= Len(h) THEN h[i] ELSE u[i - Len(h)]
    <3>1. /\ v \in Seq(Patches) /\ Len(v) = Len(h) + Len(u)
          /\ \A i \in 1..(Len(h) + Len(u)) : v[i] = IF i <= Len(h) THEN h[i] ELSE u[i - Len(h)]
      BY <1>1, <1>2, ConcatProperties DEF Cat
    <3> HIDE DEF v
    <3> QED  BY <1>1, <3>1
  <2> HIDE DEF v
  <2>2. ASSUME NEW i \in 1..Len(a) PROVE a[i] = v[i]
    <3>1. CASE i <= Len(h)
      BY <1>2, <2>1, <3>1
    <3>2. CASE i = Len(h) + 1
      <4>1. v[Len(h) + 1] = u[(Len(h) + 1) - Len(h)] /\ (Len(h) + 1) - Len(h) = 1
        BY <1>2, <2>1
      <4> QED  BY <1>1, <1>2, <3>2, <4>1
    <3> QED  BY <1>2, <3>1, <3>2
  <2>3. a = v
    BY <1>2, <2>1, <2>2, SeqEqual
  <2> QED  BY <2>3 DEF v
<1>4. Cat(h, Cat(u, r)) = Cat(Cat(h, u), r)
  BY <1>1, CatGroups
<1>5. Push(e, r) = Cat(u, r)
  BY DEF Push, Cat, u
<1>6. SubSeq(Cat(a, r), 1, Len(a)) = a
  BY <1>2, CatFront
<1>7. QED  BY <1>2, <1>3, <1>4, <1>5, <1>6 DEF a

LEMMA IndexesOfResult ==
    ASSUME ModifyInv, CallIsOps, OpIsKept, pc = "apply"
    PROVE  ResultIndexes \subseteq Int
<1>1. CASE op.type = "Combine"
  <2>1. /\ op.commits \in SUBSET Ancestors(refs[op.src]) /\ op.commits # {}
        /\ refs[op.src] \in Commits
    BY <1>1 DEF ModifyInv, OpFits, TypeOK
  <2>2. Earliest(op.commits) \in Ancestors(refs[op.src])
    BY <2>1, EarliestAndLatest
  <2>3. Len(Earliest(op.commits)) \in Int
    BY <2>1, <2>2, AncestorByLength
  <2> QED  BY <1>1, <2>3 DEF ResultIndexes
<1>2. CASE op.type # "Combine"
  <2>1. /\ AddSource \in Commits /\ call.add \in SUBSET Ancestors(AddSource)
        /\ call.dst \in Commits /\ Len(call.position) \in 0..Len(call.dst) /\ Len(call.dst) \in Nat
    BY <1>2, CallFacts
  <2>2. Len(Picked) \in Nat
    BY <2>1, LengthsAreIndexes, KeepType DEF Picked
  <2>3. Len(Below) \in Nat
    <3> DEFINE p == Len(call.position)
    <3>1. /\ \A lo, mid, hi \in Int :
                1 <= lo /\ lo <= mid + 1 /\ mid <= hi /\ hi <= Len(call.dst) =>
                   Kept(lo, mid) \in Seq(Patches)
      BY <2>1, KeptTwo
    <3>2. 1 \in Int /\ p \in Int /\ 1 <= p + 1 /\ p <= p /\ p <= Len(call.dst)
      BY <2>1
    <3> HIDE DEF p
    <3>3. Kept(1, p) \in Seq(Patches)
      BY <3>1, <3>2
    <3> QED  BY <3>3 DEF Below, p
  <2> QED  BY <1>2, <2>2, <2>3 DEF ResultIndexes, CallIndexes
<1>3. QED  BY <1>1, <1>2

LEMMA ApplyBuilds ==
    ASSUME InductiveInv, Apply
    PROVE  BuiltInv'
<1> USE DEF InductiveInv, BuiltInv
<1> DEFINE e == Last(combined[1].commit)
           rest == CombinedOf(Tail(combined))
           n == Len(head)
<1>1. /\ pc = "apply" /\ pc' = "apply" /\ combined # <<>>
      /\ head' = Append(head, e) /\ combined' = Tail(combined)
      /\ added' = IF combined[1].added THEN added \cup {Append(head, e)} ELSE added
      /\ UNCHANGED <<refs, op, call, removed>>
  BY DEF Apply, OnParent, WithAdded
<1>2. combined \in Seq(CommitAdded) /\ head \in Seq(Patches)
  BY DEF ModifyInv, TypeOK, Commits, Patches
<1>3. /\ Tail(combined) \in Seq(CommitAdded) /\ Len(Tail(combined)) = Len(combined) - 1
      /\ \A i \in 1..(Len(combined) - 1) : Tail(combined)[i] = combined[i + 1]
      /\ CombinedOf(combined) = Push(e, rest)
  BY <1>1, <1>2, CombinedOfMore
<1>4. /\ rest \in Seq(Patches) /\ Len(combined) \in Nat /\ 1 \in 1..Len(combined)
      /\ e \in Patches /\ combined[1].added \in BOOLEAN
  <2>1. Len(combined) \in Nat /\ 1 \in 1..Len(combined)
    BY <1>1, <1>2, EmptySeq, LenProperties
  <2>2. combined[1].commit \in Commits \ {Null} /\ combined[1].added \in BOOLEAN
    BY <1>2, <2>1, CombinedOfList
  <2>3. e \in Patches
    BY <2>2, ParentIsFront
  <2>4. rest \in Seq(Patches)
    BY <1>3, CombinedOfList
  <2> QED  BY <2>1, <2>2, <2>3, <2>4
<1>5. CallIsOps' /\ OpIsKept' /\ Result' = Result /\ ResultIndexes' = ResultIndexes
  BY <1>1, SameOperation
<1>6. /\ Cat(head, CombinedOf(combined)) = Result
      /\ added = {SubSeq(Result, 1, i) : i \in {k \in ResultIndexes : k <= n}}
      /\ \A i \in DOMAIN combined : combined[i].added <=> n + i \in ResultIndexes
  BY <1>1 DEF ApplyBuilt, Cat, Combined, CombinedOf
<1>7. ResultIndexes \subseteq Int
  BY <1>1, IndexesOfResult
<1> HIDE DEF e, rest, n
<1>8. /\ head' \in Seq(Patches) /\ Len(head') = n + 1 /\ n \in Nat
      /\ Cat(head', rest) = Result
      /\ SubSeq(Result, 1, n + 1) = head'
  <2>1. /\ Append(head, e) \in Seq(Patches) /\ Len(Append(head, e)) = n + 1 /\ n \in Nat
        /\ Cat(head, Push(e, rest)) = Cat(Append(head, e), rest)
        /\ SubSeq(Cat(Append(head, e), rest), 1, n + 1) = Append(head, e)
    BY <1>2, <1>4, AppendMore DEF n
  <2> QED  BY <1>1, <1>3, <1>6, <2>1
<1>9. head' \o Combined' = Result'
  BY <1>1, <1>5, <1>8 DEF Combined, CombinedOf, Cat, rest
<1>10. added' = {SubSeq(Result', 1, i) : i \in {k \in ResultIndexes' : k <= Len(head')}}
  <2>1. combined[1].added <=> n + 1 \in ResultIndexes
    BY <1>2, <1>4, <1>6, LenProperties
  <2>2. {k \in ResultIndexes : k <= n + 1} =
           IF combined[1].added THEN {k \in ResultIndexes : k <= n} \cup {n + 1}
           ELSE {k \in ResultIndexes : k <= n}
    <3>1. \A k \in ResultIndexes : k <= n + 1 <=> (k <= n \/ k = n + 1)
      BY <1>7, <1>8
    <3>2. n + 1 <= n + 1
      BY <1>8
    <3> QED  BY <2>1, <3>1, <3>2, Zenon
  <2>3. added' = IF combined[1].added THEN added \cup {SubSeq(Result, 1, n + 1)} ELSE added
    BY <1>1, <1>8
  <2> DEFINE K == {k \in ResultIndexes : k <= n}
             L == {k \in ResultIndexes : k <= n + 1}
             Upward(J) == {SubSeq(Result, 1, i) : i \in J}
  <2>4. added = Upward(K)
    BY <1>6
  <2>5. L = IF combined[1].added THEN K \cup {n + 1} ELSE K
    BY <2>2
  <2>6. Upward(K \cup {n + 1}) = Upward(K) \cup {SubSeq(Result, 1, n + 1)}
    OBVIOUS
  <2>7. {SubSeq(Result', 1, i) : i \in {k \in ResultIndexes' : k <= Len(head')}} = Upward(L)
    BY <1>5, <1>8
  <2> HIDE DEF K, L, Upward
  <2> QED  BY <2>3, <2>4, <2>5, <2>6, <2>7
<1>11. \A i \in DOMAIN combined' : combined'[i].added <=> Len(head') + i \in ResultIndexes'
  <2> SUFFICES ASSUME NEW i \in DOMAIN combined'
               PROVE  combined'[i].added <=> Len(head') + i \in ResultIndexes'
    OBVIOUS
  <2>1. i \in 1..(Len(combined) - 1)
    BY <1>1, <1>3, LenProperties
  <2>2. combined'[i] = combined[i + 1] /\ i + 1 \in DOMAIN combined
    BY <1>1, <1>2, <1>3, <1>4, <2>1, LenProperties
  <2>3. combined[i + 1].added <=> n + (i + 1) \in ResultIndexes
    BY <1>6, <2>2
  <2>4. n + (i + 1) = Len(head') + i
    BY <1>8, <2>1
  <2> QED  BY <1>5, <2>2, <2>3, <2>4
<1>12. ApplyBuilt'
  BY <1>9, <1>10, <1>11 DEF ApplyBuilt
<1>13. SortBuilt' /\ WalkBuilt' /\ GatherBuilt' /\ IntegrateBuilt'
  BY <1>1 DEF SortBuilt, WalkBuilt, GatherBuilt, IntegrateBuilt
<1>14. QED  BY <1>5, <1>12, <1>13

LEMMA GatherBuilds ==
    ASSUME InductiveInv, Gather
    PROVE  BuiltInv'
<1> USE DEF InductiveInv, BuiltInv
<1> DEFINE from == refs[op.src]
           I == Lengths(op.commits)
           n == Len(c)
           m == Len(from)
<1>1. /\ pc = "gather" /\ pc' = "gather" /\ c # Null /\ c' = Parent(c) /\ rem' = rem \ {c}
      /\ c \in rem => integrate' = <<c>> \o integrate /\ combined' = combined
      /\ c \notin rem => /\ combined' = <<[commit |-> c, added |-> FALSE]>> \o combined
                         /\ integrate' = integrate
      /\ UNCHANGED <<refs, op, call, removed>>
  BY DEF Gather
<1>2. /\ from \in Commits /\ op.commits \in SUBSET Ancestors(from)
      /\ combined \in Seq(CommitAdded) /\ integrate \in Seq(Commits \ {Null})
  BY <1>1 DEF ModifyInv, OpFits, TypeOK
<1>3. /\ c \in Ancestors(from) /\ rem = Upto(op.commits, n)
      /\ CombinedOf(combined) = Left(from, I, n + 1, m)
      /\ PatchesOf(integrate) = Keep(from, Over(I, n))
      /\ \A i \in DOMAIN combined : ~combined[i].added
  BY <1>1 DEF GatherBuilt, Upto, Over, Left, Combined, CombinedOf
<1>4. /\ c \in Commits \ {Null} /\ n \in 1..m /\ Last(c) = from[n] /\ m \in Nat
      /\ Parent(c) \in Ancestors(from) \cup {Null} /\ Len(Parent(c)) = n - 1
      /\ c \in op.commits <=> n \in I
      /\ Upto(op.commits, n) \ {c} = Upto(op.commits, Len(Parent(c)))
      /\ from \in Seq(Patches)
  <2> DEFINE S == op.commits
  <2>1. from \in Commits /\ S \in SUBSET Ancestors(from) /\ c \in Ancestors(from)
    BY <1>2, <1>3
  <2> HIDE DEF from, S
  <2>2. /\ c \in Commits \ {Null} /\ n \in 1..Len(from) /\ Last(c) = from[n] /\ Len(from) \in Nat
        /\ Parent(c) \in Ancestors(from) \cup {Null} /\ Len(Parent(c)) = n - 1
        /\ from \in Seq(Patches)
    BY ONLY <2>1, Round
  <2>3. /\ c \in S <=> n \in Lengths(S)
        /\ Upto(S, n) \ {c} = Upto(S, Len(Parent(c)))
    BY ONLY <2>1, Round
  <2> QED  BY <2>2, <2>3 DEF S
<1>5. c \in rem <=> n \in I
  BY <1>3, <1>4 DEF Upto
<1>6. I \in SUBSET (1..m)
  BY <1>2, LengthsAreIndexes
<1>7. CallIsOps' /\ OpIsKept'
  BY <1>1, SameOperation
<1> HIDE DEF from, I, n
<1>8. Keep(from, Over(I, n - 1)) = IF n \in I THEN Push(from[n], Keep(from, Over(I, n)))
                                   ELSE Keep(from, Over(I, n))
  <2>1. ASSUME NEW s \in Commits, NEW J \in SUBSET (1..Len(s)), NEW i \in 1..Len(s)
        PROVE  Keep(s, Over(J, i - 1)) =
                  IF i \in J THEN Push(s[i], Keep(s, Over(J, i))) ELSE Keep(s, Over(J, i))
    BY KeepOver
  <2> QED  BY <1>2, <1>4, <1>6, <2>1
<1>9. Left(from, I, n, m) = IF n \in I THEN Left(from, I, n + 1, m)
                            ELSE Push(from[n], Left(from, I, n + 1, m))
  <2>1. n \in Int /\ m \in Int /\ 1 <= n /\ n <= m /\ m <= Len(from)
    BY <1>4
  <2>2. \A i, hi \in Int : 1 <= i /\ i <= hi /\ hi <= Len(from) =>
           Left(from, I, i, hi) = IF i \in I THEN Left(from, I, i + 1, hi)
                                  ELSE Push(from[i], Left(from, I, i + 1, hi))
    <3> SUFFICES ASSUME NEW i, i \in Int, NEW hi, hi \in Int, 1 <= i, i <= hi, hi <= Len(from)
                 PROVE  Left(from, I, i, hi) = IF i \in I THEN Left(from, I, i + 1, hi)
                                               ELSE Push(from[i], Left(from, I, i + 1, hi))
      OBVIOUS
    <3>1. from \in Commits
      BY <1>2
    <3> QED  BY <3>1, LeftRound
  <2> HIDE DEF m
  <2> QED  BY <2>1, <2>2
<1> HIDE DEF m
<1>10. /\ PatchesOf(integrate') = Keep(from, Over(I, n - 1))
       /\ CombinedOf(combined') = Left(from, I, n, m)
       /\ \A i \in DOMAIN combined' : ~combined'[i].added
  <2>1. CASE n \in I
    <3>1. PatchesOf(<<c>> \o integrate) = Push(Last(c), PatchesOf(integrate))
      BY <1>2, <1>4, PatchesOfMore
    <3> QED  BY <1>1, <1>3, <1>4, <1>5, <1>8, <1>9, <2>1, <3>1
  <2>2. CASE n \notin I
    <3>1. combined' = <<[commit |-> c, added |-> FALSE]>> \o combined /\ integrate' = integrate
      BY <1>1, <1>5, <2>2
    <3>2. /\ combined' \in Seq(CommitAdded) /\ Len(combined') = Len(combined) + 1
          /\ CombinedOf(combined') = Push(Last(c), CombinedOf(combined))
          /\ Len(combined) \in Nat
          /\ \A i \in 1..Len(combined') :
                combined'[i].added = IF i = 1 THEN FALSE ELSE combined[i - 1].added
      <4>1. FALSE \in BOOLEAN
        OBVIOUS
      <4> QED  BY <1>2, <1>4, <3>1, <4>1, CombinedOfFront
    <3>3. ASSUME NEW i \in DOMAIN combined' PROVE ~combined'[i].added
      <4>1. i \in 1..Len(combined') /\ DOMAIN combined = 1..Len(combined)
        BY <1>2, <3>2, LenProperties
      <4>2. i # 1 => i - 1 \in DOMAIN combined
        BY <3>2, <4>1
      <4> QED  BY <1>3, <3>2, <4>1, <4>2
    <3> QED  BY <1>3, <1>4, <1>8, <1>9, <2>2, <3>1, <3>2, <3>3
  <2> QED  BY <2>1, <2>2
<1>11. GatherBuilt'
  <2>1. Len(c') = n - 1 /\ Len(c') + 1 = n
    BY <1>1, <1>4
  <2>2. c' \in Ancestors(from) \cup {Null} /\ rem' = Upto(op.commits, Len(c'))
    BY <1>1, <1>3, <1>4
  <2>3. Combined' = Keep(from, (Len(c') + 1 .. Len(from)) \ I)
    BY <1>10, <2>1 DEF Combined, CombinedOf, Left, m
  <2>4. PatchesOf(integrate') = Keep(from, {i \in I : i > Len(c')})
    BY <1>10, <2>1 DEF Over
  <2> QED  BY <1>1, <1>10, <2>2, <2>3, <2>4 DEF GatherBuilt, Upto, from, I
<1>12. SortBuilt' /\ WalkBuilt' /\ IntegrateBuilt' /\ ApplyBuilt'
  BY <1>1 DEF SortBuilt, WalkBuilt, IntegrateBuilt, ApplyBuilt
<1>13. QED  BY <1>7, <1>11, <1>12

LEMMA PushRest ==
    ASSUME NEW e, e \in Patches, NEW s, s \in Seq(Patches)
    PROVE  Push(e, s)[1] = e /\ SubSeq(Push(e, s), 2, Len(s) + 1) = s
<1> DEFINE t == Push(e, s)
           u == SubSeq(t, 2, Len(s) + 1)
<1>1. /\ t \in Seq(Patches) /\ Len(t) = Len(s) + 1 /\ Len(s) \in Nat
      /\ \A i \in 1..(Len(s) + 1) : t[i] = IF i = 1 THEN e ELSE s[i - 1]
  BY Prepend DEF Push
<1> HIDE DEF t
<1>2. u \in Seq(Patches) /\ Len(u) = Len(s) /\ \A i \in 1..Len(s) : u[i] = t[i + 1]
  BY <1>1, SubSeqProperties
<1> HIDE DEF u
<1>3. u = s
  <2>1. ASSUME NEW i \in 1..Len(s) PROVE u[i] = s[i]
    <3>1. i + 1 \in 1..(Len(s) + 1) /\ i + 1 # 1 /\ (i + 1) - 1 = i
      BY <1>1
    <3>2. t[i + 1] = s[i]
      BY <1>1, <3>1
    <3> QED  BY <1>2, <3>2
  <2> QED  BY <1>2, <2>1, SeqEqual
<1>4. t[1] = e
  BY <1>1
<1>5. QED  BY <1>3, <1>4 DEF u, t

\* The commit where the loop of _CombineCommits stops is the earliest of those to combine.
LEMMA GatherEndsBuilds ==
    ASSUME InductiveInv, GatherEnds
    PROVE  BuiltInv'
<1> USE DEF InductiveInv, BuiltInv
<1> DEFINE from == refs[op.src]
           I == Lengths(op.commits)
           n == Len(c)
           m == Len(from)
           chosen == Keep(from, I)
<1>1. /\ pc = "gather" /\ pc' = "integrate" /\ c # Null /\ rem = {c} /\ head' = c
      /\ combined' = combined /\ integrate' = integrate
      /\ UNCHANGED <<refs, op, call, removed>>
  BY DEF GatherEnds, Goto
<1>2. /\ from \in Commits /\ op.commits \in SUBSET Ancestors(from)
      /\ combined \in Seq(CommitAdded) /\ integrate \in Seq(Commits \ {Null})
  BY <1>1 DEF ModifyInv, OpFits, TypeOK
<1>3. /\ c \in Ancestors(from) /\ rem = {x \in op.commits : Len(x) <= n}
      /\ Combined = Keep(from, (n + 1 .. m) \ I)
      /\ PatchesOf(integrate) = Keep(from, Over(I, n))
      /\ \A i \in DOMAIN combined : ~combined[i].added
  BY <1>1 DEF GatherBuilt, Over
<1>4. /\ c \in Commits \ {Null} /\ n \in 1..m /\ Last(c) = from[n] /\ m \in Nat
      /\ Last(c) \in Patches /\ from \in Seq(Patches)
      /\ Parent(c) \in Ancestors(from) \cup {Null} /\ Len(Parent(c)) = n - 1
  BY <1>2, <1>3, Round
<1>5. CallIsOps' /\ OpIsKept'
  BY <1>1, SameOperation
<1>6. Earliest(op.commits) = c
  <2>1. c \in op.commits /\ n <= n
    BY <1>1, <1>3
  <2>2. Earliest(op.commits) \in op.commits /\ \A y \in op.commits : Len(Earliest(op.commits)) <= Len(y)
    BY <1>2, <2>1, EarliestAndLatest
  <2>3. Earliest(op.commits) \in rem
    BY <1>3, <2>1, <2>2
  <2> QED  BY <1>1, <2>3
<1>7. I \in SUBSET (1..m)
  BY <1>2, LengthsAreIndexes
<1>8. I = {n} \cup Over(I, n) /\ Over(I, n) \in SUBSET (1..m) /\ \A j \in Over(I, n) : n < j
  <2>1. n \in I
    BY <1>1, <1>3 DEF Lengths
  <2>2. \A x \in op.commits : Len(x) <= n => Len(x) = n
    BY <1>1, <1>3
  <2>3. \A j \in I : ~(j > n) => j = n
    <3>1. \A x \in op.commits : Len(x) \in Int /\ n \in Int
      BY <1>2, <1>4, AncestorByLength
    <3> QED  BY <2>2, <3>1 DEF Lengths
  <2> HIDE DEF I
  <2> QED  BY <1>4, <1>7, <2>1, <2>3 DEF Over
<1> HIDE DEF from, I, n
<1>9. chosen = Push(Last(c), PatchesOf(integrate))
  <2>1. \A s \in Seq(Patches) : \A i \in 1..Len(s) : \A J \in SUBSET (1..Len(s)) :
           (\A j \in J : i < j) => Keep(s, {i} \cup J) = <<s[i]>> \o Keep(s, J)
    BY KeepBelow
  <2>2. Keep(from, {n} \cup Over(I, n)) = <<from[n]>> \o Keep(from, Over(I, n))
    BY <1>4, <1>8, <2>1
  <2> QED  BY <1>3, <1>4, <1>8, <2>2 DEF Push
<1>10. PatchesOf(integrate) \in Seq(Patches) /\ Len(PatchesOf(integrate)) = Len(integrate) /\ Len(integrate) \in Nat
  BY <1>2, PatchesOfList
<1>11. chosen \in Seq(Patches) /\ Len(chosen) = Len(integrate) + 1 /\ chosen[1] = Last(c)
       /\ SubSeq(chosen, 2, Len(chosen)) = PatchesOf(integrate)
  BY <1>4, <1>9, <1>10, PushType, PushRest
<1> HIDE DEF m, chosen
<1>12. FlattenSeq(SubSeq(chosen, 1, 1)) = Last(c)
  <2>1. 1 \in 1..Len(chosen) /\ chosen \in Seq(Seq(Changes))
    BY <1>10, <1>11 DEF Patches
  <2> QED  BY <1>11, <2>1, FlattenFirst
<1>13. c = Append(SubSeq(from, 1, n - 1), Last(c))
  <2>1. c = Append(Parent(c), Last(c))
    BY <1>4, ParentIsFront
  <2>2. Parent(c) = SubSeq(from, 1, n - 1)
    <3>1. CASE Parent(c) \in Ancestors(from)
      BY <1>2, <1>4, <3>1, AncestorByLength
    <3>2. CASE Parent(c) = Null
      <4>1. Len(Null) = 0 /\ n - 1 = 0
        BY <1>4, <3>2, AncestorsAreCommits
      <4>2. SubSeq(from, 1, 0) = Null
        BY <1>4 DEF Null
      <4> QED  BY <3>2, <4>1, <4>2
    <3> QED  BY <1>4, <3>1, <3>2
  <2> QED  BY <2>1, <2>2
<1>14. IntegrateBuilt'
  <2> DEFINE done == Len(chosen) - Len(integrate)
  <2>1. done = 1 /\ done + 1 = 2 /\ done >= 1
    BY <1>10, <1>11
  <2>2. head' = Append(SubSeq(from, 1, n - 1), FlattenSeq(SubSeq(chosen, 1, done)))
    BY <1>1, <1>12, <1>13, <2>1
  <2>3. PatchesOf(integrate') = SubSeq(chosen, done + 1, Len(chosen))
    BY <1>1, <1>11, <2>1
  <2>4. Combined' = Keep(from, (n + 1 .. m) \ I)
    BY <1>1, <1>3 DEF Combined
  <2>5. \A i \in DOMAIN combined' : ~combined'[i].added
    BY <1>1, <1>3
  <2> HIDE DEF done
  <2>6. done = Len(chosen) - Len(integrate') /\ refs' = refs /\ op' = op
    BY <1>1 DEF done
  <2> QED  BY <1>6, <2>1, <2>2, <2>3, <2>4, <2>5, <2>6 DEF IntegrateBuilt, from, I, n, m, chosen
<1>15. SortBuilt' /\ WalkBuilt' /\ GatherBuilt' /\ ApplyBuilt'
  BY <1>1 DEF SortBuilt, WalkBuilt, GatherBuilt, ApplyBuilt
<1>16. QED  BY <1>5, <1>14, <1>15

LEMMA TailOfRest ==
    ASSUME NEW s, s \in Seq(Patches), NEW k \in 1..Len(s)
    PROVE  /\ SubSeq(s, k, Len(s))[1] = s[k]
           /\ Tail(SubSeq(s, k, Len(s))) = SubSeq(s, k + 1, Len(s))
<1> DEFINE u == SubSeq(s, k, Len(s))
           v == SubSeq(s, k + 1, Len(s))
           w == Tail(u)
<1>1. Len(s) \in Nat /\ k \in Nat
  BY LenProperties
<1>2. u \in Seq(Patches) /\ Len(u) = Len(s) - k + 1 /\ \A i \in 1..(Len(s) - k + 1) : u[i] = s[k + i - 1]
  BY <1>1, SubSeqProperties
<1>3. v \in Seq(Patches) /\ Len(v) = Len(s) - k /\ \A i \in 1..(Len(s) - k) : v[i] = s[k + i]
  <2>1. CASE k = Len(s)
    <3>1. v = <<>>
      BY <1>1, <2>1
    <3>2. Len(v) = 0 /\ v \in Seq(Patches) /\ Len(s) - k = 0
      BY <1>1, <2>1, <3>1
    <3> QED  BY <3>2
  <2>2. CASE k # Len(s)
    <3>1. k + 1 \in 1..Len(s)
      BY <1>1, <2>2
    <3>2. /\ v \in Seq(Patches) /\ Len(v) = Len(s) - (k + 1) + 1
          /\ \A i \in 1..(Len(s) - (k + 1) + 1) : v[i] = s[(k + 1) + i - 1]
      BY <1>1, <3>1, SubSeqProperties
    <3> HIDE DEF v
    <3> QED  BY <1>1, <3>2
  <2> QED  BY <2>1, <2>2
<1> HIDE DEF u, v
<1>4. u # <<>>
  BY <1>1, <1>2
<1>5. w \in Seq(Patches) /\ Len(w) = Len(u) - 1 /\ \A i \in 1..(Len(u) - 1) : w[i] = u[i + 1]
  BY <1>2, <1>4, HeadTailProperties
<1> HIDE DEF w
<1>6. w = v
  <2>1. \A i \in 1..Len(w) : w[i] = v[i]
    <3> SUFFICES ASSUME NEW i \in 1..Len(w) PROVE w[i] = v[i]
      OBVIOUS
    <3>1. i \in 1..(Len(s) - k) /\ i + 1 \in 1..(Len(s) - k + 1) /\ k + (i + 1) - 1 = k + i
      BY <1>1, <1>2, <1>5
    <3>2. u[i + 1] = s[k + (i + 1) - 1]
      BY <1>2, <3>1
    <3> QED  BY <1>2, <1>3, <1>5, <3>1, <3>2
  <2>2. Len(w) = Len(v)
    BY <1>1, <1>2, <1>3, <1>5
  <2> QED  BY <1>3, <1>5, <2>1, <2>2, SeqEqual
<1>7. u[1] = s[k]
  BY <1>1, <1>2
<1>8. QED  BY <1>6, <1>7 DEF u, v, w

LEMMA IntegrateBuilds ==
    ASSUME InductiveInv, Integrate
    PROVE  BuiltInv'
<1> USE DEF InductiveInv, BuiltInv
<1> DEFINE from == refs[op.src]
           I == Lengths(op.commits)
           m == Len(from)
           first == Len(Earliest(op.commits))
           chosen == Keep(from, I)
           done == Len(chosen) - Len(integrate)
           base == SubSeq(from, 1, first - 1)
           built == FlattenSeq(SubSeq(chosen, 1, done))
           e == Last(integrate[1])
<1>1. /\ pc = "integrate" /\ pc' = "integrate" /\ integrate # <<>>
      /\ head' = Append(Parent(head), Last(head) \o e)
      /\ combined' = combined /\ integrate' = Tail(integrate)
      /\ UNCHANGED <<refs, op, call, removed>>
  BY DEF Integrate, Integrated
<1>2. /\ from \in Commits /\ op.commits \in SUBSET Ancestors(from) /\ op.commits # {}
      /\ integrate \in Seq(Commits \ {Null})
  BY <1>1 DEF ModifyInv, OpFits, TypeOK
<1>3. /\ done >= 1
      /\ head = Append(base, built)
      /\ PatchesOf(integrate) = SubSeq(chosen, done + 1, Len(chosen))
      /\ Combined = Keep(from, (first + 1 .. m) \ I)
      /\ \A i \in DOMAIN combined : ~combined[i].added
  BY <1>1 DEF IntegrateBuilt
<1>4. CallIsOps' /\ OpIsKept'
  BY <1>1, SameOperation
<1>5. chosen \in Seq(Patches) /\ from \in Seq(Patches) /\ m \in Nat
  BY <1>2, LengthsAreIndexes, KeepType
<1>6. base \in Seq(Patches)
  <2>1. Earliest(op.commits) \in Ancestors(from)
    BY <1>2, EarliestAndLatest
  <2>2. first \in 1..m
    BY <1>2, <2>1, AncestorByLength
  <2> HIDE DEF first, from
  <2> QED  BY <1>5, <2>2 DEF m
<1> HIDE DEF from, I, m, first, chosen, base
<1>7. /\ PatchesOf(integrate)[1] = e /\ Len(integrate) \in Nat \ {0}
      /\ Tail(integrate) \in Seq(Commits \ {Null}) /\ Len(Tail(integrate)) = Len(integrate) - 1
      /\ PatchesOf(Tail(integrate)) = Tail(PatchesOf(integrate))
  <2>1. Len(integrate) \in Nat \ {0} /\ Len(Tail(integrate)) = Len(integrate) - 1
    BY <1>1, <1>2, HeadTailProperties, EmptySeq, LenProperties
  <2>2. integrate[1] \in Commits \ {Null}
    BY <1>2, <2>1, ElementOfSeq
  <2>3. \A x \in Commits \ {Null} :
           /\ Tail(integrate) \in Seq(Commits \ {Null})
           /\ PatchesOf(Tail(integrate)) = Tail(PatchesOf(integrate))
           /\ PatchesOf(integrate)[1] = Last(integrate[1])
    BY <1>1, <1>2, PatchesOfMore
  <2> QED  BY <2>1, <2>2, <2>3
<1>8. /\ Len(chosen) \in Nat /\ done \in 1..Len(chosen) /\ done + 1 \in 1..Len(chosen)
      /\ Len(chosen) - Len(integrate') = done + 1
  BY <1>1, <1>3, <1>5, <1>7, LenProperties
<1>9. built \in Patches /\ FlattenSeq(SubSeq(chosen, 1, done + 1)) = built \o chosen[done + 1]
  <2>1. chosen \in Seq(Seq(Changes)) /\ done + 1 # 1 /\ (done + 1) - 1 = done
    BY <1>5, <1>8 DEF Patches
  <2>2. \A n \in 1..Len(chosen) :
           /\ FlattenSeq(SubSeq(chosen, 1, n)) \in Seq(Changes)
           /\ FlattenSeq(SubSeq(chosen, 1, n)) =
                 IF n = 1 THEN chosen[1] ELSE FlattenSeq(SubSeq(chosen, 1, n - 1)) \o chosen[n]
    BY <2>1, FlattenFirst
  <2> HIDE DEF done
  <2> QED  BY <1>8, <2>1, <2>2 DEF Patches
<1>10. e = chosen[done + 1] /\ PatchesOf(integrate') = SubSeq(chosen, (done + 1) + 1, Len(chosen))
  <2>1. \A k \in 1..Len(chosen) :
           /\ SubSeq(chosen, k, Len(chosen))[1] = chosen[k]
           /\ Tail(SubSeq(chosen, k, Len(chosen))) = SubSeq(chosen, k + 1, Len(chosen))
    BY <1>5, TailOfRest
  <2> HIDE DEF done, e
  <2> QED  BY <1>1, <1>3, <1>7, <1>8, <2>1
<1> HIDE DEF built, e
<1>11. Parent(head) = base /\ Last(head) = built
  BY <1>3, <1>6, <1>9, FrontOfAppend DEF Parent
<1>12. head' = Append(base, FlattenSeq(SubSeq(chosen, 1, done + 1)))
  BY <1>1, <1>9, <1>10, <1>11
<1>13. IntegrateBuilt'
  <2> DEFINE d == done + 1
  <2>1. d >= 1 /\ d = Len(chosen) - Len(integrate')
    BY <1>8
  <2>2. /\ head' = Append(SubSeq(from, 1, first - 1), FlattenSeq(SubSeq(chosen, 1, d)))
        /\ PatchesOf(integrate') = SubSeq(chosen, d + 1, Len(chosen))
    BY <1>10, <1>12 DEF base
  <2>3. Combined' = Keep(from, (first + 1 .. m) \ I)
    BY <1>1, <1>3 DEF Combined
  <2>4. \A i \in DOMAIN combined' : ~combined'[i].added
    BY <1>1, <1>3
  <2>5. refs' = refs /\ op' = op
    BY <1>1
  <2> HIDE DEF d
  <2> QED  BY <2>1, <2>2, <2>3, <2>4, <2>5 DEF IntegrateBuilt, from, I, first, m, chosen
<1>14. SortBuilt' /\ WalkBuilt' /\ GatherBuilt' /\ ApplyBuilt'
  BY <1>1 DEF SortBuilt, WalkBuilt, GatherBuilt, ApplyBuilt
<1>15. QED  BY <1>4, <1>13, <1>14

LEMMA CatBack ==
    ASSUME NEW s, s \in Seq(Patches), NEW t, t \in Seq(Patches)
    PROVE  SubSeq(Cat(s, t), Len(s) + 1, Len(Cat(s, t))) = t
<1> DEFINE u == Cat(s, t)
           v == SubSeq(u, Len(s) + 1, Len(u))
<1>1. /\ u \in Seq(Patches) /\ Len(u) = Len(s) + Len(t) /\ Len(s) \in Nat /\ Len(t) \in Nat
      /\ \A i \in 1..(Len(s) + Len(t)) : u[i] = IF i <= Len(s) THEN s[i] ELSE t[i - Len(s)]
  BY ConcatProperties, LenProperties DEF Cat
<1> HIDE DEF u
<1>2. CASE t = <<>>
  <2>1. Len(t) = 0 /\ Len(u) = Len(s)
    BY <1>1, <1>2
  <2>2. v = <<>>
    BY <1>1, <2>1
  <2> QED  BY <1>2, <2>2 DEF v, u
<1>3. CASE t # <<>>
  <2>1. Len(s) + 1 \in 1..Len(u) /\ Len(t) \in Nat \ {0}
    BY <1>1, <1>3, EmptySeq
  <2>2. /\ v \in Seq(Patches) /\ Len(v) = Len(u) - (Len(s) + 1) + 1
        /\ \A i \in 1..(Len(u) - (Len(s) + 1) + 1) : v[i] = u[(Len(s) + 1) + i - 1]
    BY <1>1, <2>1, SubSeqProperties
  <2> HIDE DEF v
  <2>3. Len(v) = Len(t)
    BY <1>1, <2>2
  <2>4. \A i \in 1..Len(v) : v[i] = t[i]
    <3> SUFFICES ASSUME NEW i \in 1..Len(v) PROVE v[i] = t[i]
      OBVIOUS
    <3>1. (Len(s) + 1) + i - 1 = Len(s) + i /\ Len(s) + i \in 1..(Len(s) + Len(t))
          /\ ~(Len(s) + i <= Len(s)) /\ (Len(s) + i) - Len(s) = i
      BY <1>1, <2>3
    <3>2. v[i] = u[Len(s) + i]
      BY <1>1, <2>2, <2>3, <3>1
    <3> QED  BY <1>1, <3>1, <3>2
  <2>5. v = t
    BY <2>2, <2>3, <2>4, SeqEqual
  <2> QED  BY <2>5 DEF v, u
<1>4. QED  BY <1>2, <1>3

\* The combined patch stands where the earliest of the commits stood, below all that remains.
LEMMA CombinedPatchInPlace ==
    ASSUME NEW from \in Commits, NEW I \in SUBSET (1..Len(from)), NEW first \in I,
           \A j \in I : first <= j, NEW F \in Patches
    PROVE  /\ SubSeq(from, 1, first - 1) \in Seq(Patches)
           /\ Len(SubSeq(from, 1, first - 1)) = first - 1
           /\ Keep(from, (first + 1 .. Len(from)) \ I) \in Seq(Patches)
           /\ Into(Without(from, I), <<F>>, first - 1) =
                 Cat(Append(SubSeq(from, 1, first - 1), F),
                     Keep(from, (first + 1 .. Len(from)) \ I))
<1> DEFINE m == Len(from)
           A == 1..(first - 1)
           B == (first + 1 .. m) \ I
           base == SubSeq(from, 1, first - 1)
           top == Keep(from, B)
           W == Without(from, I)
           one == <<F>>
<1>1. from \in Seq(Patches) /\ m \in Nat /\ first \in 1..m
  BY LenProperties DEF Commits, Patches
<1>2. DOMAIN from \ I = A \cup B
  <2>1. DOMAIN from = 1..m
    BY <1>1, LenProperties
  <2>2. \A i \in 1..m : i \notin I <=> (i \in A \/ i \in B)
    BY <1>1
  <2>3. A \subseteq 1..m /\ B \subseteq 1..m
    BY <1>1
  <2> HIDE DEF A, B
  <2> QED  BY <2>1, <2>2, <2>3
<1>3. base \in Seq(Patches) /\ Len(base) = first - 1 /\ Keep(from, A) = base
  <2>1. Keep(from, A) = base
    <3>1. 1 \in Int /\ first - 1 \in Int /\ 1 <= 1 /\ 1 <= (first - 1) + 1 /\ first - 1 <= Len(from)
      BY <1>1
    <3>2. \A lo, hi \in Int : 1 <= lo /\ lo <= hi + 1 /\ hi <= Len(from) =>
             Keep(from, lo..hi) = SubSeq(from, lo, hi)
      BY <1>1, KeepInterval
    <3> QED  BY <3>1, <3>2
  <2>2. base \in Seq(Patches) /\ Len(base) = first - 1
    BY <1>1, SubSeqProperties
  <2> QED  BY <2>1, <2>2
<1>4. W = Cat(base, top) /\ top \in Seq(Patches)
  <2>1. A \in SUBSET (1..Len(from)) /\ B \in SUBSET (1..Len(from)) /\ \A a \in A, b \in B : a < b
    BY <1>1
  <2> HIDE DEF A, B
  <2>2. Keep(from, A \cup B) = Keep(from, A) \o Keep(from, B)
    BY <1>1, <2>1, KeepSplit
  <2>3. Keep(from, B) \in Seq(Patches)
    BY <1>1, <2>1, KeepType
  <2> QED  BY <1>2, <1>3, <2>2, <2>3 DEF Without, Cat
<1> HIDE DEF base, top, W, m
<1>5. SubSeq(W, 1, first - 1) = base /\ SubSeq(W, first, Len(W)) = top
  <2>1. SubSeq(W, 1, Len(base)) = base /\ SubSeq(W, Len(base) + 1, Len(W)) = top
    BY <1>3, <1>4, CatFront, CatBack
  <2>2. Len(base) = first - 1 /\ Len(base) + 1 = first
    BY <1>1, <1>3
  <2> QED  BY <2>1, <2>2
<1>6. Into(W, one, first - 1) = Cat(Cat(base, one), top)
  <2>1. (first - 1) + 1 = first
    BY <1>1
  <2> HIDE DEF one
  <2> QED  BY <1>5, <2>1 DEF Into, Cat
<1>7. Cat(base, one) = Append(base, F)
  <2>1. Cat(base, Push(F, <<>>)) = Cat(Append(base, F), <<>>) /\ Append(base, F) \in Seq(Patches)
    <3> DEFINE nothing == <<>>
    <3>1. nothing \in Seq(Patches) /\ base \in Seq(Patches) /\ F \in Patches
      BY <1>3
    <3> HIDE DEF nothing
    <3>2. Cat(base, Push(F, nothing)) = Cat(Append(base, F), nothing) /\ Append(base, F) \in Seq(Patches)
      BY <3>1, AppendMore
    <3> QED  BY <3>2 DEF nothing
  <2>2. Push(F, <<>>) = one
    BY DEF Push
  <2>3. Cat(Append(base, F), <<>>) = Append(base, F)
    BY <2>1, CatEmpty
  <2> QED  BY <2>1, <2>2, <2>3
<1>8. Into(W, one, first - 1) = Cat(Append(base, F), top)
  BY <1>6, <1>7
<1>9. QED  BY <1>3, <1>4, <1>8 DEF W, one, base, top, m

LEMMA IntegrateEndsBuilds ==
    ASSUME InductiveInv, IntegrateEnds
    PROVE  BuiltInv'
<1> USE DEF InductiveInv, BuiltInv
<1> DEFINE from == refs[op.src]
           I == Lengths(op.commits)
           m == Len(from)
           first == Len(Earliest(op.commits))
           chosen == Keep(from, I)
           base == SubSeq(from, 1, first - 1)
           F == FlattenSeq(chosen)
           top == Keep(from, (first + 1 .. m) \ I)
<1>1. /\ pc = "integrate" /\ pc' = "apply" /\ integrate = <<>> /\ added' = {head}
      /\ UNCHANGED <<refs, op, call, removed, head, combined>>
  BY DEF IntegrateEnds, Goto
<1>2. /\ from \in Commits /\ op.commits \in SUBSET Ancestors(from) /\ op.commits # {}
      /\ op.src \in Refs /\ refs \in [Refs -> Commits] /\ op.type = "Combine"
      /\ combined \in Seq(CommitAdded)
  BY <1>1 DEF ModifyInv, OpFits, TypeOK, OpIsKept
<1>3. /\ Len(chosen) - Len(integrate) >= 1
      /\ head = Append(base, FlattenSeq(SubSeq(chosen, 1, Len(chosen) - Len(integrate))))
      /\ Combined = top
      /\ \A i \in DOMAIN combined : ~combined[i].added
  BY <1>1 DEF IntegrateBuilt
<1>4. CallIsOps' /\ OpIsKept' /\ Result' = Result /\ ResultIndexes' = ResultIndexes
  BY <1>1, SameOperation
<1>5. chosen \in Seq(Patches) /\ from \in Seq(Patches) /\ m \in Nat /\ I \in SUBSET (1..m)
  BY <1>2, LengthsAreIndexes, KeepType
<1>6. first \in I /\ \A j \in I : first <= j
  BY <1>2, EarliestAndLatest DEF Lengths
<1>7. Result = Into(Without(from, I), <<F>>, first - 1) /\ ResultIndexes = {first}
  <2>1. Asked(refs, op)[op.src] = Into(Without(from, I), <<F>>, first - 1)
    BY <1>2 DEF Asked, Lengths
  <2> QED  BY <1>2, <2>1 DEF Result, ResultIndexes
<1> HIDE DEF from, I, first, chosen
<1>8. F \in Patches /\ head = Append(base, F)
  <2>1. Len(integrate) = 0 /\ Len(chosen) \in Nat
    BY <1>1, <1>5, LenProperties
  <2>2. Len(chosen) - Len(integrate) = Len(chosen) /\ Len(chosen) \in 1..Len(chosen)
    BY <1>3, <2>1
  <2>3. SubSeq(chosen, 1, Len(chosen)) = chosen
    BY <1>5, SubSeqProperties
  <2>4. \A n \in 1..Len(chosen) : FlattenSeq(SubSeq(chosen, 1, n)) \in Seq(Changes)
    <3>1. chosen \in Seq(Seq(Changes))
      BY <1>5 DEF Patches
    <3> QED  BY <3>1, FlattenFirst
  <2>5. F \in Patches
    BY <2>2, <2>3, <2>4 DEF Patches
  <2> QED  BY <1>3, <2>2, <2>3, <2>5
<1> HIDE DEF F
<1>9. /\ base \in Seq(Patches) /\ Len(base) = first - 1 /\ top \in Seq(Patches)
      /\ Result = Cat(Append(base, F), top)
  BY <1>2, <1>5, <1>6, <1>7, <1>8, CombinedPatchInPlace DEF m
<1> HIDE DEF base, top
<1>10. /\ Len(head) = first /\ SubSeq(Result, 1, first) = head /\ first \in 1..m
  <2>1. /\ Len(Append(base, F)) = Len(base) + 1
        /\ SubSeq(Cat(Append(base, F), top), 1, Len(base) + 1) = Append(base, F)
    BY <1>8, <1>9, AppendMore
  <2>2. first \in 1..m /\ Len(base) + 1 = first
    BY <1>5, <1>6, <1>9
  <2> QED  BY <1>8, <1>9, <2>1, <2>2
<1>11. ApplyBuilt'
  <2>1. head' \o Combined' = Result'
    BY <1>1, <1>3, <1>4, <1>8, <1>9 DEF Cat, Combined
  <2>2. added' = {SubSeq(Result', 1, i) : i \in {k \in ResultIndexes' : k <= Len(head')}}
    <3>1. {k \in {first} : k <= first} = {first}
      BY <1>10
    <3> QED  BY <1>1, <1>4, <1>7, <1>10, <3>1
  <2>3. \A i \in DOMAIN combined' : combined'[i].added <=> Len(head') + i \in ResultIndexes'
    <3>1. \A i \in DOMAIN combined : i \in Nat \ {0}
      BY <1>2, LenProperties
    <3>2. \A i \in DOMAIN combined : Len(head) + i # first
      BY <1>10, <3>1
    <3> QED  BY <1>1, <1>3, <1>4, <1>7, <3>2
  <2> QED  BY <2>1, <2>2, <2>3 DEF ApplyBuilt
<1>12. SortBuilt' /\ WalkBuilt' /\ GatherBuilt' /\ IntegrateBuilt'
  BY <1>1 DEF SortBuilt, WalkBuilt, GatherBuilt, IntegrateBuilt
<1>13. QED  BY <1>4, <1>11, <1>12

----------------------------------------------------------------------------
(* The steps that begin an operation, or its second call                    *)

\* A call of _AddRemoveCommits begins with the loop that sorts what is to be added.
LEMMA CallBuilds ==
    ASSUME NEW to, NEW add, NEW from \in Commits, NEW pos, NEW remove,
           Call(to, add, from, pos, remove),
           add \subseteq Ancestors(from), from = AddSource' \/ (from = Null /\ add = {})
    PROVE  SortBuilt' /\ WalkBuilt' /\ GatherBuilt' /\ IntegrateBuilt' /\ ApplyBuilt'
<1>1. /\ pc' = "sort" /\ c' = from /\ rem' = add /\ addv' = <<>> /\ combined' = <<>>
      /\ call' = [dst |-> to, add |-> add, position |-> pos, remove |-> remove]
  BY DEF Call, Goto, LoopsFrom
<1>2. from \in Ancestors(AddSource') \cup {Null}
  BY AncestorsAreCommits
<1>3. \A x \in add : Len(x) \in Nat /\ Len(from) \in Nat /\ Len(x) <= Len(from)
  BY AncestorByLength
<1>4. add = {x \in add : Len(x) <= Len(from)} /\ {i \in Lengths(add) : i > Len(from)} = {}
  BY <1>3 DEF Lengths
<1>5. PatchesOf(addv') = <<>>
  BY <1>1 DEF PatchesOf
<1>6. Keep(AddSource', {}) = <<>>
  BY KeepNothing
<1>7. SortBuilt'
  BY <1>1, <1>2, <1>4, <1>5, <1>6 DEF SortBuilt
<1>8. QED  BY <1>1, <1>7 DEF WalkBuilt, GatherBuilt, IntegrateBuilt, ApplyBuilt

LEMMA MoveBuilds ==
    ASSUME InductiveInv, NEW d \in Refs, NEW b, Move(d, b)
    PROVE  BuiltInv'
<1> USE DEF InductiveInv
<1> DEFINE from == refs[selection.rev]
           S == selection.commits
           pos == Position(d, b)
<1>1. Begin("Move", d, pos, b)
  BY DEF Move
<1>2. /\ selection.rev \in Refs /\ S # {} /\ S \subseteq Ancestors(from)
      /\ from \in Commits /\ refs' = refs /\ removed' = None
      /\ op' = [type |-> "Move", src |-> selection.rev, commits |-> S, dst |-> d,
                position |-> pos, below |-> b]
  BY <1>1, BeginsWithSelection
<1> HIDE DEF pos
<1>3. AddSource' = from
  BY <1>2 DEF AddSource
<1>4. OpIsKept'
  <2>1. pc' = "sort"
    BY DEF Move, Call, Goto
  <2> QED  BY <1>2, <2>1 DEF OpIsKept
<1>5. Between' <=> d # selection.rev
  BY <1>2 DEF Between
<1>6. SourceOnly' <=> d # selection.rev
  BY <1>2, <1>5 DEF SourceOnly
<1>7. CASE d = selection.rev
  <2>1. Call(from, S, from, pos, S)
    BY <1>7 DEF Move, pos
  <2>2. call' = [dst |-> from, add |-> S, position |-> pos, remove |-> S]
    BY <2>1 DEF Call
  <2>3. CallIsOps'
    BY <1>2, <1>5, <1>6, <1>7, <2>2 DEF CallIsOps
  <2> QED  BY <1>2, <1>3, <1>4, <2>1, <2>3, CallBuilds DEF BuiltInv
<1>8. CASE d # selection.rev
  <2>1. Call(from, {}, Null, Null, S)
    BY <1>8 DEF Move
  <2>2. call' = [dst |-> from, add |-> {}, position |-> Null, remove |-> S]
    BY <2>1 DEF Call
  <2>3. CallIsOps'
    BY <1>2, <1>5, <1>6, <1>8, <2>2 DEF CallIsOps
  <2>4. Null \in Commits /\ {} \subseteq Ancestors(Null)
    BY AncestorsAreCommits
  <2>5. SortBuilt' /\ WalkBuilt' /\ GatherBuilt' /\ IntegrateBuilt' /\ ApplyBuilt'
    BY <2>1, <2>4, CallBuilds
  <2> QED  BY <1>4, <2>3, <2>5 DEF BuiltInv
<1>9. QED  BY <1>7, <1>8

LEMMA CopyBuilds ==
    ASSUME InductiveInv, NEW d \in Refs, NEW b, Copy(d, b)
    PROVE  BuiltInv'
<1> USE DEF InductiveInv
<1> DEFINE from == refs[selection.rev]
           S == selection.commits
           pos == Position(d, b)
<1>1. Begin("Copy", d, pos, b) /\ Call(refs[d], S, from, pos, {})
  BY DEF Copy
<1>2. /\ selection.rev \in Refs /\ S # {} /\ S \subseteq Ancestors(from)
      /\ from \in Commits /\ refs' = refs /\ removed' = None
      /\ op' = [type |-> "Copy", src |-> selection.rev, commits |-> S, dst |-> d,
                position |-> pos, below |-> b]
  BY <1>1, BeginsWithSelection
<1> HIDE DEF pos
<1>3. AddSource' = from /\ ~SourceOnly' /\ ~Between'
  BY <1>2 DEF AddSource, SourceOnly, Between
<1>4. pc' = "sort" /\ call' = [dst |-> refs[d], add |-> S, position |-> pos, remove |-> {}]
  BY <1>1 DEF Call, Goto
<1>5. OpIsKept'
  BY <1>2, <1>4 DEF OpIsKept
<1>6. CallIsOps'
  BY <1>2, <1>3, <1>4 DEF CallIsOps
<1>7. QED  BY <1>1, <1>2, <1>3, <1>5, <1>6, CallBuilds DEF BuiltInv

LEMMA DeleteBuilds ==
    ASSUME InductiveInv, Delete
    PROVE  BuiltInv'
<1> USE DEF InductiveInv
<1> DEFINE from == refs[selection.rev]
           S == selection.commits
<1>1. Begin("Delete", None, Null, Null) /\ Call(from, {}, Null, Null, S)
  BY DEF Delete
<1>2. /\ refs' = refs /\ removed' = None
      /\ op' = [type |-> "Delete", src |-> selection.rev, commits |-> S, dst |-> None,
                position |-> Null, below |-> Null]
  BY <1>1, BeginsWithSelection
<1>3. pc' = "sort" /\ call' = [dst |-> from, add |-> {}, position |-> Null, remove |-> S]
  BY <1>1 DEF Call, Goto
<1>4. OpIsKept'
  BY <1>2, <1>3 DEF OpIsKept
<1>5. CallIsOps'
  BY <1>2, <1>3 DEF CallIsOps
<1>6. Null \in Commits /\ {} \subseteq Ancestors(Null)
  BY AncestorsAreCommits
<1>7. SortBuilt' /\ WalkBuilt' /\ GatherBuilt' /\ IntegrateBuilt' /\ ApplyBuilt'
  BY <1>1, <1>6, CallBuilds
<1>8. QED  BY <1>4, <1>5, <1>7 DEF BuiltInv

LEMMA EditBuilds ==
    ASSUME InductiveInv, NEW x \in selection.commits, Edit(x)
    PROVE  BuiltInv'
<1> USE DEF InductiveInv
<1> DEFINE from == refs[selection.rev]
           y == Amended(x)
           S == {x}
<1>1. selection.commits = S /\ Begin("Edit", None, x, x) /\ Call(from, {y}, y, x, S)
  BY DEF Edit
<1>2. /\ refs' = refs /\ removed' = None /\ x \in Commits \ {Null}
      /\ from \in Commits /\ x \in Ancestors(from)
      /\ op' = [type |-> "Edit", src |-> selection.rev, commits |-> S, dst |-> None,
                position |-> x, below |-> x]
  BY <1>1, BeginsWithSelection
<1>3. Earliest(S) = x
  <2>1. S \in SUBSET Ancestors(from) /\ S # {}
    BY <1>2
  <2>2. Earliest(S) \in S
    BY <1>2, <2>1, EarliestAndLatest
  <2> QED  BY <2>2
<1> HIDE DEF S
<1>4. AddSource' = y /\ Earliest(op'.commits) = x /\ op'.commits = {x}
  BY <1>2, <1>3 DEF AddSource, S
<1>5. pc' = "sort" /\ call' = [dst |-> from, add |-> {y}, position |-> x, remove |-> {x}]
  BY <1>1 DEF Call, Goto, S
<1>6. OpIsKept'
  BY <1>2, <1>4, <1>5 DEF OpIsKept
<1>7. CallIsOps'
  BY <1>2, <1>4, <1>5 DEF CallIsOps, SourceOnly, Between
<1>8. y \in Commits /\ {y} \subseteq Ancestors(y)
  BY <1>2, AmendedIsCommit
<1> HIDE DEF y
<1>9. SortBuilt' /\ WalkBuilt' /\ GatherBuilt' /\ IntegrateBuilt' /\ ApplyBuilt'
  BY <1>1, <1>4, <1>8, CallBuilds
<1>10. QED  BY <1>6, <1>7, <1>9 DEF BuiltInv

LEMMA CombineBuilds ==
    ASSUME InductiveInv, Combine
    PROVE  BuiltInv'
<1> USE DEF InductiveInv
<1> DEFINE from == refs[selection.rev]
           S == selection.commits
           I == Lengths(S)
<1>1. /\ Begin("Combine", None, Null, Null) /\ pc' = "gather" /\ c' = from /\ rem' = S
      /\ combined' = <<>> /\ integrate' = <<>>
  BY DEF Combine, Goto, LoopsFrom
<1>2. /\ refs' = refs /\ removed' = None /\ S \subseteq Ancestors(from) /\ from \in Commits
      /\ op' = [type |-> "Combine", src |-> selection.rev, commits |-> S, dst |-> None,
                position |-> Null, below |-> Null]
  BY <1>1, BeginsWithSelection
<1>3. OpIsKept' /\ CallIsOps'
  BY <1>1, <1>2 DEF OpIsKept, CallIsOps
<1>4. from \in Ancestors(from) \cup {Null}
  BY <1>2, AncestorsAreCommits
<1>5. \A x \in S : Len(x) \in Nat /\ Len(from) \in Nat /\ Len(x) <= Len(from)
  BY <1>2, AncestorByLength
<1>6. S = {x \in S : Len(x) <= Len(from)} /\ {i \in I : i > Len(from)} = {}
  BY <1>5 DEF Lengths
<1>7. (Len(from) + 1 .. Len(from)) \ I = {}
  BY <1>2, AncestorByLength
<1>8. PatchesOf(integrate') = <<>> /\ Combined' = <<>> /\ DOMAIN combined' = {}
  BY <1>1 DEF PatchesOf, Combined
<1>9. Keep(from, {}) = <<>>
  BY KeepNothing
<1>10. GatherBuilt'
  BY <1>1, <1>2, <1>4, <1>6, <1>7, <1>8, <1>9 DEF GatherBuilt
<1>11. QED  BY <1>1, <1>3, <1>10 DEF BuiltInv, SortBuilt, WalkBuilt, IntegrateBuilt, ApplyBuilt

\* Once nothing is left to apply, the head is all that was to result.
LEMMA AllIsBuilt ==
    ASSUME InductiveInv, pc = "apply", combined = <<>>
    PROVE  /\ head = Result
           /\ added = {SubSeq(Result, 1, i) : i \in {k \in ResultIndexes : k <= Len(Result)}}
<1>1. head \in Seq(Patches)
  BY DEF InductiveInv, ModifyInv, TypeOK, Commits, Patches
<1>2. Combined = <<>>
  BY DEF Combined, PatchesOf
<1>3. Cat(head, <<>>) = head
  BY <1>1, CatEmpty
<1>4. head = Result
  BY <1>2, <1>3 DEF InductiveInv, BuiltInv, ApplyBuilt, Cat
<1>5. added = {SubSeq(Result, 1, i) : i \in {k \in ResultIndexes : k <= Len(head)}}
  BY DEF InductiveInv, BuiltInv, ApplyBuilt
<1>6. QED  BY <1>4, <1>5

\* Where nothing is added, what results is the destination without what was to be removed.
LEMMA RemovalIsWithout ==
    ASSUME ModifyInv, CallIsOps, OpIsKept, pc = "apply", SourceOnly \/ op.type = "Delete"
    PROVE  Result = Without(refs[op.src], Lengths(op.commits)) /\ ResultIndexes = {}
<1> DEFINE from == refs[op.src]
           I == Lengths(op.commits)
<1>1. op.type # "Combine"
  BY DEF SourceOnly, Between
<1>2. /\ call = [dst |-> from, add |-> {}, position |-> Null, remove |-> op.commits]
      /\ from \in Commits /\ op.commits \subseteq Ancestors(from)
  BY <1>1, CallCases
<1>3. Len(call.position) = 0 /\ from \in Seq(Patches) /\ Len(from) \in Nat
  BY <1>2, AncestorsAreCommits, LenProperties DEF Commits, Patches
<1>4. Picked = <<>>
  <2>1. Lengths(call.add) = {}
    BY <1>2 DEF Lengths
  <2> QED  BY <2>1, KeepNothing DEF Picked
<1>5. Below = <<>>
  <2>1. (1..0) \ I = {}
    OBVIOUS
  <2> QED  BY <1>2, <1>3, <2>1, KeepNothing DEF Below, Kept
<1>6. Kept(Len(call.position) + 1, Len(call.dst)) = Without(from, I)
  <2>1. DOMAIN from = 1..Len(from)
    BY <1>3, LenProperties
  <2> QED  BY <1>2, <1>3, <2>1 DEF Kept, Without
<1> DEFINE W == Without(from, I)
<1>7. W \in Seq(Patches)
  <2>1. DOMAIN from \ I \in SUBSET (1..Len(from))
    BY <1>3, LenProperties
  <2> QED  BY <1>3, <2>1, KeepType DEF Without
<1> HIDE DEF W
<1>8. Result = Cat(Cat(<<>>, <<>>), W)
  BY <1>1, <1>4, <1>5, <1>6 DEF Result, CallResult, Cat, W
<1>9. Cat(<<>>, <<>>) = <<>> /\ Cat(<<>>, W) = W
  <2>1. <<>> \in Seq(Patches)
    OBVIOUS
  <2> QED  BY <1>7, <2>1, CatEmpty
<1>10. ResultIndexes = {}
  <2>1. Len(<<>>) = 0
    OBVIOUS
  <2> QED  BY <1>1, <1>4, <1>5, <2>1 DEF ResultIndexes, CallIndexes
<1>11. QED  BY <1>8, <1>9, <1>10 DEF W

LEMMA SourceReadyBuilds ==
    ASSUME InductiveInv, SourceReady
    PROVE  BuiltInv'
<1>1. /\ pc = "apply" /\ combined = <<>> /\ head # Null /\ SourceOnly
      /\ removed' = head /\ refs' = refs /\ op' = op
      /\ Call(refs[op.dst], op.commits, refs[op.src], op.position, {})
  BY DEF SourceReady
<1>2. ModifyInv /\ CallIsOps /\ OpIsKept
  BY DEF InductiveInv, BuiltInv
<1>3. /\ op.type = "Move" /\ op.dst # op.src /\ refs[op.src] \in Commits
      /\ op.commits \subseteq Ancestors(refs[op.src]) /\ head \in Commits
  BY <1>1, <1>2 DEF SourceOnly, Between, ModifyInv, OpFits, TypeOK
<1>4. head = Without(refs[op.src], Lengths(op.commits))
  BY <1>1, <1>2, AllIsBuilt, RemovalIsWithout
<1>5. removed' # None
  BY <1>1, <1>3, ModifyAssumption
<1>6. pc' = "sort" /\ call' = [dst |-> refs[op.dst], add |-> op.commits,
                               position |-> op.position, remove |-> {}]
  BY <1>1 DEF Call, Goto
<1>7. Between' /\ ~SourceOnly' /\ AddSource' = refs[op.src]
  BY <1>1, <1>3, <1>5 DEF Between, SourceOnly, AddSource
<1>8. OpIsKept'
  BY <1>1, <1>2, <1>3, <1>4, <1>6, <1>7 DEF OpIsKept
<1>9. CallIsOps'
  BY <1>1, <1>3, <1>5, <1>6, <1>7 DEF CallIsOps
<1>10. QED  BY <1>1, <1>3, <1>7, <1>8, <1>9, CallBuilds DEF BuiltInv

\* Where no operation is under way nothing is being built.
LEMMA NothingIsBuilt ==
    ASSUME pc = "idle"
    PROVE  BuiltInv
BY DEF BuiltInv, CallIsOps, OpIsKept, SortBuilt, WalkBuilt, GatherBuilt, IntegrateBuilt, ApplyBuilt

LEMMA IdleBuilds ==
    ASSUME pc' = "idle"
    PROVE  BuiltInv'
BY DEF BuiltInv, CallIsOps, OpIsKept, SortBuilt, WalkBuilt, GatherBuilt, IntegrateBuilt, ApplyBuilt

----------------------------------------------------------------------------
(* What the operations leave behind is what was asked for                  *)

LEMMA CallResultFits ==
    ASSUME ModifyInv, CallIsOps, OpIsKept, pc = "apply", op.type # "Combine"
    PROVE  /\ Below \in Seq(Patches) /\ Picked \in Seq(Patches)
           /\ Len(Below) \in Nat /\ Len(Picked) \in Nat
           /\ Len(Below) = Cardinality((1..Len(call.position)) \ Lengths(call.remove))
           /\ Len(Picked) = Cardinality(Lengths(call.add))
           /\ ResultIndexes = Len(Below) + 1 .. Len(Below) + Len(Picked)
           /\ {k \in ResultIndexes : k <= Len(Result)} = ResultIndexes
<1> DEFINE p == Len(call.position)
           m == Len(call.dst)
           J == (1..p) \ Lengths(call.remove)
           K == Lengths(call.add)
           rest == Kept(p + 1, m)
<1>1. /\ AddSource \in Commits /\ call.add \in SUBSET Ancestors(AddSource)
      /\ call.dst \in Commits /\ call.remove \in SUBSET Ancestors(call.dst)
      /\ p \in 0..m /\ m \in Nat
  BY CallFacts
<1>2. Picked \in Seq(Patches) /\ Len(Picked) = Cardinality(K) /\ Len(Picked) \in Nat
  <2>1. K \in SUBSET (1..Len(AddSource)) /\ AddSource \in Seq(Patches)
    BY <1>1, LengthsAreIndexes
  <2> HIDE DEF K
  <2>2. /\ Keep(AddSource, K) \in Seq(Patches) /\ Len(Keep(AddSource, K)) = Cardinality(K)
        /\ Cardinality(K) \in Nat
    BY <2>1, KeepType
  <2> QED  BY <2>2 DEF Picked, K
<1>3. Below \in Seq(Patches) /\ Len(Below) = Cardinality(J) /\ Len(Below) \in Nat
  <2>1. J \in SUBSET (1..m) /\ call.dst \in Seq(Patches)
    BY <1>1 DEF Commits, Patches
  <2> HIDE DEF J
  <2>2. /\ Keep(call.dst, J) \in Seq(Patches) /\ Len(Keep(call.dst, J)) = Cardinality(J)
        /\ Cardinality(J) \in Nat
    BY <2>1, KeepType
  <2> QED  BY <2>2 DEF Below, Kept, J
<1>4. rest \in Seq(Patches)
  <2>1. \A lo, mid, hi \in Int : 1 <= lo /\ lo <= mid + 1 /\ mid <= hi /\ hi <= Len(call.dst) =>
           Kept(mid + 1, hi) \in Seq(Patches)
    BY <1>1, KeptTwo
  <2>2. 1 \in Int /\ p \in Int /\ m \in Int /\ 1 <= p + 1 /\ p <= m /\ m <= Len(call.dst) /\ 1 <= 1
    BY <1>1
  <2> HIDE DEF p, m
  <2> QED  BY <2>1, <2>2
<1>5. Result = Cat(Cat(Below, Picked), rest)
  BY DEF Result, CallResult, Cat
<1>6. ResultIndexes = Len(Below) + 1 .. Len(Below) + Len(Picked)
  BY DEF ResultIndexes, CallIndexes
<1> HIDE DEF p, m, J, K, rest
<1>7. Len(Result) = Len(Below) + Len(Picked) + Len(rest) /\ Len(rest) \in Nat
  <2> DEFINE bp == Cat(Below, Picked)
  <2>1. bp \in Seq(Patches) /\ Len(bp) = Len(Below) + Len(Picked)
    BY <1>2, <1>3, CatType
  <2> HIDE DEF bp
  <2>2. Len(Cat(bp, rest)) = Len(bp) + Len(rest) /\ Len(rest) \in Nat
    BY <1>4, <2>1, CatType
  <2> QED  BY <1>5, <2>1, <2>2 DEF bp
<1>8. {k \in ResultIndexes : k <= Len(Result)} = ResultIndexes
  BY <1>2, <1>3, <1>6, <1>7
<1>9. QED  BY <1>2, <1>3, <1>6, <1>8 DEF J, K, p

\* Patches put above the p-th of a history from which nothing is removed.
LEMMA AddedInPlace ==
    ASSUME ModifyInv, CallIsOps, OpIsKept, pc = "apply",
           op.type = "Copy" \/ (Between /\ ~SourceOnly)
    PROVE  LET p == Len(op.position)
               I == Lengths(op.commits)
           IN  /\ Result = Into(refs[op.dst], Keep(refs[op.src], I), p)
               /\ ResultIndexes = p + 1 .. p + Cardinality(I)
<1> DEFINE to == refs[op.dst]
           I == Lengths(op.commits)
           p == Len(op.position)
           chosen == Keep(refs[op.src], I)
<1>1. op.type # "Combine" /\ op.type # "Edit"
  BY DEF Between
<1>2. /\ call = [dst |-> to, add |-> op.commits, position |-> op.position, remove |-> {}]
      /\ to \in Commits
  BY <1>1, CallCases DEF Between
<1>3. p \in 0..Len(to) /\ to \in Seq(Patches) /\ Len(to) \in Nat
  BY <1>1, <1>2, CallFacts DEF Commits, Patches
<1>4. \A lo, hi : Kept(lo, hi) = Keep(to, lo..hi)
  <2>1. Lengths(call.remove) = {}
    BY <1>2 DEF Lengths
  <2>2. \A lo, hi : (lo..hi) \ {} = lo..hi
    OBVIOUS
  <2> QED  BY <1>2, <2>1, <2>2 DEF Kept
<1>5. \A lo, hi \in Int : 1 <= lo /\ lo <= hi + 1 /\ hi <= Len(to) =>
         Keep(to, lo..hi) = SubSeq(to, lo, hi)
  BY <1>3, KeepInterval
<1> HIDE DEF to
<1>6. Kept(1, p) = SubSeq(to, 1, p) /\ Kept(p + 1, Len(to)) = SubSeq(to, p + 1, Len(to))
  <2>1. /\ 1 \in Int /\ p \in Int /\ p + 1 \in Int /\ Len(to) \in Int /\ 1 <= 1 /\ 1 <= p + 1
        /\ p <= Len(to) /\ p + 1 <= Len(to) + 1 /\ Len(to) <= Len(to)
    BY <1>3
  <2> HIDE DEF p
  <2> QED  BY <1>4, <1>5, <2>1
<1>7. Picked = chosen
  BY <1>1, <1>2 DEF Picked, AddSource
<1>8. Result = Into(to, chosen, p)
  <2>1. Below = SubSeq(to, 1, p)
    BY <1>2, <1>6 DEF Below
  <2>2. Kept(Len(call.position) + 1, Len(call.dst)) = SubSeq(to, p + 1, Len(to))
    BY <1>2, <1>6
  <2> QED  BY <1>1, <1>7, <2>1, <2>2 DEF Result, CallResult, Into
<1>9. ResultIndexes = p + 1 .. p + Cardinality(I)
  <2>1. Len(Below) = p
    <3>1. Len(SubSeq(to, 1, p)) = p
      BY <1>3, SubSeqProperties
    <3> QED  BY <1>2, <1>6, <3>1 DEF Below
  <2>2. Len(Picked) = Cardinality(I)
    BY <1>1, <1>2, CallResultFits
  <2>3. ResultIndexes = Len(Below) + 1 .. Len(Below) + Len(Picked)
    BY <1>1, CallResultFits
  <2> QED  BY <2>1, <2>2, <2>3
<1>10. QED  BY <1>8, <1>9 DEF to

\* Patches gathered above the p-th of their own history.
LEMMA GatheredInPlace ==
    ASSUME ModifyInv, CallIsOps, OpIsKept, pc = "apply", op.type = "Move", op.dst = op.src
    PROVE  LET p == Len(op.position)
               I == Lengths(op.commits)
               from == p - Cardinality({i \in I : i <= p})
           IN  /\ Result = Gathered(refs[op.src], I, p)
               /\ ResultIndexes = from + 1 .. from + Cardinality(I)
<1> DEFINE s == refs[op.src]
           I == Lengths(op.commits)
           p == Len(op.position)
           within == {i \in I : i <= p}
<1>1. /\ call = [dst |-> s, add |-> op.commits, position |-> op.position, remove |-> op.commits]
      /\ s \in Commits /\ op.commits \in SUBSET Ancestors(s)
  BY CallCases
<1>2. p \in 0..Len(s) /\ I \in SUBSET (1..Len(s)) /\ Len(s) \in Nat
  BY <1>1, CallFacts, LengthsAreIndexes
<1>3. AddSource = s
  BY DEF AddSource
<1>4. Result = Gathered(s, I, p)
  BY <1>1, <1>3 DEF Result, CallResult, Below, Picked, Kept, Gathered
<1>5. /\ Len(Below) = Cardinality((1..p) \ I) /\ Len(Picked) = Cardinality(I)
      /\ ResultIndexes = Len(Below) + 1 .. Len(Below) + Len(Picked)
  BY <1>1, CallResultFits
<1> HIDE DEF I, p, s
<1>6. Cardinality((1..p) \ I) = p - Cardinality(within)
  <2>1. IsFiniteSet(1..p) /\ Cardinality(1..p) = p
    <3>1. 1 \in Int /\ p \in Int /\ 1 <= p + 1 /\ p - 1 + 1 = p
      BY <1>2
    <3> QED  BY <3>1, IntervalSize
  <2>2. Cardinality((1..p) \ I) = Cardinality(1..p) - Cardinality((1..p) \cap I)
    BY <2>1, FS_Difference
  <2>3. (1..p) \cap I = within
    <3>1. \A i \in I : i \in 1..p <=> i <= p
      BY <1>2
    <3> QED  BY <3>1
  <2> QED  BY <2>1, <2>2, <2>3
<1>7. QED  BY <1>4, <1>5, <1>6 DEF I, p, s

\* One patch of a history replaced by another.
LEMMA ExceptInPlace ==
    ASSUME NEW s \in Seq(Patches), NEW p \in 1..Len(s), NEW v \in Patches
    PROVE  LET below == Keep(s, (1..p) \ {p})
               above == Keep(s, (p + 1 .. Len(s)) \ {p})
           IN  /\ [s EXCEPT ![p] = v] = Cat(Cat(below, <<v>>), above)
               /\ Len(below) = p - 1
<1> DEFINE m == Len(s)
           A == (1..p) \ {p}
           B == (p + 1 .. m) \ {p}
           E == [s EXCEPT ![p] = v]
<1>1. m \in Nat /\ p \in Nat /\ 1 <= p /\ p <= m
  BY LenProperties
<1>2. /\ E \in Seq(Patches) /\ Len(E) = m /\ E[p] = v
      /\ \A i \in 1..m : i # p => E[i] = s[i]
  BY <1>1
<1>3. /\ A \in SUBSET (1..m) /\ B \in SUBSET (1..m) /\ {p} \in SUBSET (1..m)
      /\ A \cup {p} \in SUBSET (1..m)
      /\ \A a \in A, b \in {p} : a < b
      /\ \A a \in A \cup {p}, b \in B : a < b
      /\ \A i \in A \cup B : i # p
  BY <1>1
<1>4. (A \cup {p}) \cup B = 1..m
  BY <1>1
<1>5. Cardinality(A) = p - 1
  <2>1. A = 1..(p - 1)
    BY <1>1
  <2>2. 1 \in Int /\ p - 1 \in Int /\ 1 <= (p - 1) + 1 /\ (p - 1) - 1 + 1 = p - 1
    BY <1>1
  <2>3. \A a, b \in Int : a <= b + 1 => Cardinality(a..b) = b - a + 1
    BY IntervalSize
  <2>4. Cardinality(1..(p - 1)) = (p - 1) - 1 + 1
    BY <2>2, <2>3
  <2> QED  BY <2>1, <2>2, <2>4
<1> HIDE DEF E, A, B, m
<1>6. Keep(E, A) = Keep(s, A) /\ Keep(E, B) = Keep(s, B)
  <2>1. \A i \in A : s[i] = E[i]
    BY <1>2, <1>3
  <2>2. \A i \in B : s[i] = E[i]
    BY <1>2, <1>3
  <2>3. Keep(s, A) = Keep(E, A)
    BY <1>2, <1>3, <2>1, KeepSame DEF m
  <2>4. Keep(s, B) = Keep(E, B)
    BY <1>2, <1>3, <2>2, KeepSame DEF m
  <2> QED  BY <2>3, <2>4
<1>7. Keep(E, {p}) = <<v>>
  <2>1. p \in 1..Len(E)
    BY <1>1, <1>2
  <2> QED  BY <1>2, <2>1, KeepOne
<1>8. Keep(E, A \cup {p}) = Keep(E, A) \o Keep(E, {p})
  BY <1>2, <1>3, KeepSplit
<1>9. Keep(E, (A \cup {p}) \cup B) = Keep(E, A \cup {p}) \o Keep(E, B)
  BY <1>2, <1>3, KeepSplit
<1>10. Keep(E, 1..m) = E
  BY <1>2, KeepAll
<1>11. Len(Keep(s, A)) = p - 1
  BY <1>3, <1>5, KeepType DEF m
<1>12. QED  BY <1>4, <1>6, <1>7, <1>8, <1>9, <1>10, <1>11 DEF Cat, E, A, B, m

LEMMA EditedInPlace ==
    ASSUME ModifyInv, CallIsOps, OpIsKept, pc = "apply", op.type = "Edit"
    PROVE  LET s == refs[op.src]
               first == Len(Earliest(op.commits))
           IN  /\ Result = [s EXCEPT ![first] = Append(@, Edited)]
               /\ ResultIndexes = {first}
<1> DEFINE s == refs[op.src]
           x == Earliest(op.commits)
           y == Amended(x)
           p == Len(x)
           v == Append(s[p], Edited)
           below == Keep(s, (1..p) \ {p})
           above == Keep(s, (p + 1 .. Len(s)) \ {p})
<1>1. /\ call = [dst |-> s, add |-> {y}, position |-> x, remove |-> {x}]
      /\ s \in Commits /\ x \in Ancestors(s)
  BY CallCases
<1>2. /\ p \in 1..Len(s) /\ s \in Seq(Patches) /\ x \in Commits \ {Null} /\ Last(x) = s[p]
      /\ Last(x) \in Patches
  <2>1. Ancestors(s) \in SUBSET Ancestors(s)
    OBVIOUS
  <2> HIDE DEF s, x
  <2>2. /\ Len(x) \in 1..Len(s) /\ s \in Seq(Patches) /\ x \in Commits \ {Null}
        /\ Last(x) = s[Len(x)] /\ Last(x) \in Patches
    BY <1>1, <2>1, Round
  <2> QED  BY <2>2
<1>3. v \in Patches
  <2>1. Edited \in Changes
    BY ModifyAssumption
  <2> QED  BY <1>2, <2>1 DEF Patches
<1>4. y \in Commits \ {Null} /\ Len(y) = p /\ Last(y) = v /\ AddSource = y
  BY <1>2, AmendedIsCommit DEF AddSource
<1>5. Picked = <<v>>
  <2>1. Lengths({y}) = {p}
    BY <1>4 DEF Lengths
  <2>2. y \in Seq(Patches) /\ p \in 1..Len(y) /\ y[p] = v
    <3>1. y \in Seq(Patches) /\ p \in 1..Len(y)
      BY <1>2, <1>4 DEF Commits, Patches
    <3>2. Last(y) = y[Len(y)]
      BY DEF Last
    <3> QED  BY <1>4, <3>1, <3>2
  <2> HIDE DEF y, p, v
  <2>3. Keep(y, {p}) = <<y[p]>>
    BY <2>2, KeepOne
  <2> QED  BY <1>1, <1>4, <2>1, <2>2, <2>3 DEF Picked
<1>6. Lengths(call.remove) = {p}
  BY <1>1 DEF Lengths
<1>7. Below = below /\ Kept(Len(call.position) + 1, Len(call.dst)) = above
  BY <1>1, <1>6 DEF Below, Kept
<1>8. Result = Cat(Cat(below, <<v>>), above)
  BY <1>5, <1>7 DEF Result, CallResult, Cat
<1>9. ResultIndexes = {p}
  <2>1. Len(below) = p - 1
    BY <1>2, <1>3, ExceptInPlace
  <2>2. ResultIndexes = Len(Below) + 1 .. Len(Below) + Len(Picked)
    BY CallResultFits
  <2>3. Len(Picked) = 1
    BY <1>5
  <2> HIDE DEF p, below
  <2>4. ResultIndexes = p..p
    BY <1>2, <1>7, <2>1, <2>2, <2>3
  <2> QED  BY <1>2, <2>4
<1>10. Result = [s EXCEPT ![p] = v]
  BY <1>2, <1>3, <1>8, ExceptInPlace
<1>11. QED  BY <1>9, <1>10

\* The commit that the others were combined with keeps its index.
LEMMA CombinedFits ==
    ASSUME ModifyInv, pc = "apply", op.type = "Combine"
    PROVE  {k \in ResultIndexes : k <= Len(Result)} = ResultIndexes
<1> DEFINE from == refs[op.src]
           I == Lengths(op.commits)
           m == Len(from)
           first == Len(Earliest(op.commits))
           chosen == Keep(from, I)
           base == SubSeq(from, 1, first - 1)
           F == FlattenSeq(chosen)
           top == Keep(from, (first + 1 .. m) \ I)
<1>1. /\ from \in Commits /\ op.commits \in SUBSET Ancestors(from) /\ op.commits # {}
      /\ op.src \in Refs /\ refs \in [Refs -> Commits]
  BY DEF ModifyInv, OpFits, TypeOK
<1>2. /\ I \in SUBSET (1..m) /\ first \in I /\ (\A j \in I : first <= j) /\ from \in Seq(Patches)
  BY <1>1, EarliestAndLatest, LengthsAreIndexes DEF Lengths
<1>3. Result = Into(Without(from, I), <<F>>, first - 1) /\ ResultIndexes = {first}
  <2>1. Asked(refs, op)[op.src] = Into(Without(from, I), <<F>>, first - 1)
    BY <1>1 DEF Asked, Lengths
  <2> QED  BY <2>1 DEF Result, ResultIndexes
<1> HIDE DEF from, I, first
<1>4. F \in Patches
  <2>1. chosen \in Seq(Patches) /\ Len(chosen) = Cardinality(I) /\ IsFiniteSet(I)
    BY <1>2, KeepType DEF m
  <2>2. Cardinality(I) # 0 /\ Cardinality(I) \in Nat
    BY <1>2, <2>1, FS_EmptySet, FS_CardinalityType
  <2> HIDE DEF chosen
  <2>3. Len(chosen) \in 1..Len(chosen) /\ SubSeq(chosen, 1, Len(chosen)) = chosen
    BY <2>1, <2>2, SubSeqProperties
  <2>4. chosen \in Seq(Seq(Changes))
    BY <2>1 DEF Patches
  <2>5. \A n \in 1..Len(chosen) : FlattenSeq(SubSeq(chosen, 1, n)) \in Seq(Changes)
    BY <2>4, FlattenFirst
  <2> QED  BY <2>3, <2>5 DEF Patches
<1> HIDE DEF F
<1>5. /\ base \in Seq(Patches) /\ Len(base) = first - 1 /\ top \in Seq(Patches)
      /\ Result = Cat(Append(base, F), top)
  BY <1>1, <1>2, <1>3, <1>4, CombinedPatchInPlace DEF m
<1> HIDE DEF base, top
<1>6. Append(base, F) \in Seq(Patches) /\ Len(Append(base, F)) = first /\ first \in Int
  <2>1. Append(base, F) \in Seq(Patches) /\ Len(Append(base, F)) = Len(base) + 1
    BY <1>4, <1>5, AppendMore
  <2>2. first \in Int
    BY <1>2
  <2> QED  BY <1>5, <2>1, <2>2
<1>7. first <= Len(Result)
  <2> DEFINE a == Append(base, F)
  <2>1. a \in Seq(Patches) /\ Len(a) = first /\ first \in Int
    BY <1>6
  <2> HIDE DEF a
  <2>2. Len(Cat(a, top)) = Len(a) + Len(top) /\ Len(top) \in Nat
    BY <1>5, <2>1, CatType
  <2> QED  BY <1>5, <2>1, <2>2 DEF a
<1>8. QED  BY <1>3, <1>7

\* The refs and the selection that Replace leaves, in terms of what the loops have built.
LEMMA ReplacedByResult ==
    ASSUME InductiveInv, Replace
    PROVE  /\ refs' = [r \in Refs |-> IF r = Target THEN Result
                                      ELSE IF r = op.src /\ Between
                                           THEN Without(refs[op.src], Lengths(op.commits))
                                           ELSE refs[r]]
           /\ selection' = [rev |-> Target,
                            commits |-> {SubSeq(Result, 1, i) : i \in ResultIndexes}]
           /\ refs \in [Refs -> Commits] /\ op.src \in Refs
           /\ op.type \in {"Move", "Copy", "Delete", "Combine", "Edit"}
           /\ op.type \in {"Move", "Copy"} => op.dst \in Refs
           /\ op.type \in {"Delete", "Combine", "Edit"} => op.dst = None
           /\ None \notin Refs
           /\ ModifyInv /\ CallIsOps /\ OpIsKept /\ pc = "apply" /\ ~SourceOnly
<1>1. /\ pc = "apply" /\ combined = <<>> /\ ~SourceOnly
      /\ refs' = Replaced /\ selection' = [rev |-> Target, commits |-> added]
  BY DEF Replace
<1>2. ModifyInv /\ CallIsOps /\ OpIsKept
  BY DEF InductiveInv, BuiltInv
<1>3. /\ head = Result
      /\ added = {SubSeq(Result, 1, i) : i \in {k \in ResultIndexes : k <= Len(Result)}}
  BY <1>1, AllIsBuilt
<1>4. {k \in ResultIndexes : k <= Len(Result)} = ResultIndexes
  <2>1. op.type = "Combine" \/ op.type # "Combine"
    OBVIOUS
  <2> QED  BY <1>1, <1>2, <2>1, CallResultFits, CombinedFits
<1>5. Between => removed = Without(refs[op.src], Lengths(op.commits))
  BY <1>1, <1>2 DEF SourceOnly, OpIsKept
<1>6. /\ refs \in [Refs -> Commits] /\ op.src \in Refs
      /\ op.type \in {"Move", "Copy", "Delete", "Combine", "Edit"}
      /\ op.type \in {"Move", "Copy"} => op.dst \in Refs
      /\ op.type \in {"Delete", "Combine", "Edit"} => op.dst = None
  BY <1>1, <1>2 DEF ModifyInv, TypeOK, OpFits, OpIsKept
<1>7. Replaced = [r \in Refs |-> IF r = Target THEN Result
                                 ELSE IF r = op.src /\ Between
                                      THEN Without(refs[op.src], Lengths(op.commits))
                                      ELSE refs[r]]
  BY <1>3, <1>5 DEF Replaced
<1>8. None \notin Refs
  BY ModifyAssumption
<1>9. QED  BY <1>1, <1>2, <1>3, <1>4, <1>6, <1>7, <1>8

\* One step of the program, however many rounds of its loops led to it, does what was asked for.
LEMMA ReplacesAsAsked ==
    ASSUME InductiveInv, Replace
    PROVE  refs' = Asked(refs, op) /\ selection' = AskedSelection(refs, op)
<1> DEFINE s == refs[op.src]
           I == Lengths(op.commits)
           p == Len(op.position)
           first == Len(Earliest(op.commits))
           chosen == Keep(s, I)
           W == Without(s, I)
           from == p - Cardinality({i \in I : i <= p})
           New(r) == IF r = Target THEN Result
                     ELSE IF r = op.src /\ Between THEN W ELSE refs[r]
<1>1. /\ refs' = [r \in Refs |-> New(r)]
      /\ selection' = [rev |-> Target, commits |-> {SubSeq(Result, 1, i) : i \in ResultIndexes}]
      /\ refs \in [Refs -> Commits] /\ op.src \in Refs
      /\ op.type \in {"Move", "Copy", "Delete", "Combine", "Edit"}
      /\ op.type \in {"Move", "Copy"} => op.dst \in Refs
      /\ op.type \in {"Delete", "Combine", "Edit"} => op.dst = None
      /\ None \notin Refs
  BY ReplacedByResult
<1>2. ModifyInv /\ CallIsOps /\ OpIsKept /\ pc = "apply" /\ ~SourceOnly
  BY ReplacedByResult
<1>3. Target = IF op.dst = None THEN op.src ELSE op.dst
  BY DEF Target
<1>4. Target \in Refs
  BY <1>1, <1>3
<1>5. I = {Len(x) : x \in op.commits}
  BY DEF Lengths
\* It is enough that the ref that was asked for is the result, at the indexes asked for.
<1> DEFINE Shows(indexes) == [rev |-> Target,
                              commits |-> {SubSeq(Asked(refs, op)[Target], 1, i) : i \in indexes}]
<1>6. ASSUME refs' = Asked(refs, op), AskedSelection(refs, op) = Shows(ResultIndexes)
      PROVE  selection' = AskedSelection(refs, op)
  <2>1. refs'[Target] = Result
    BY <1>1, <1>4
  <2> QED  BY <1>1, <1>6, <2>1
<1>7. CASE op.type = "Delete"
  <2>1. Result = W /\ ResultIndexes = {} /\ Target = op.src /\ ~Between
    BY <1>1, <1>2, <1>3, <1>7, RemovalIsWithout DEF Between
  <2> HIDE DEF W
  <2>2. refs' = [refs EXCEPT ![op.src] = W]
    BY <1>1, <2>1
  <2>3. Asked(refs, op) = [refs EXCEPT ![op.src] = W]
    BY <1>5, <1>7 DEF Asked, W
  <2>4. AskedSelection(refs, op) = Shows({})
    BY <1>3, <1>7 DEF AskedSelection
  <2> QED  BY <1>6, <2>1, <2>2, <2>3, <2>4
<1>8. CASE op.type = "Combine"
  <2> DEFINE X == Into(W, <<FlattenSeq(chosen)>>, first - 1)
  <2>1. Asked(refs, op) = [refs EXCEPT ![op.src] = X]
    BY <1>5, <1>8 DEF Asked
  <2> HIDE DEF X
  <2>2. Result = X /\ ResultIndexes = {first} /\ Target = op.src /\ ~Between
    BY <1>1, <1>3, <1>8, <2>1 DEF Result, ResultIndexes, Between
  <2>3. refs' = [refs EXCEPT ![op.src] = X]
    BY <1>1, <2>2
  <2>4. AskedSelection(refs, op) = Shows({first})
    BY <1>3, <1>8 DEF AskedSelection
  <2> QED  BY <1>6, <2>1, <2>2, <2>3, <2>4
<1>9. CASE op.type = "Edit"
  <2> DEFINE X == [s EXCEPT ![first] = Append(@, Edited)]
  <2>1. Asked(refs, op) = [refs EXCEPT ![op.src] = X]
    BY <1>5, <1>9 DEF Asked
  <2>2. Result = X /\ ResultIndexes = {first}
    BY <1>2, <1>9, EditedInPlace
  <2> HIDE DEF X
  <2>3. Target = op.src /\ ~Between
    BY <1>1, <1>3, <1>9 DEF Between
  <2>4. refs' = [refs EXCEPT ![op.src] = X]
    BY <1>1, <2>2, <2>3
  <2>5. AskedSelection(refs, op) = Shows({first})
    BY <1>3, <1>9 DEF AskedSelection
  <2> QED  BY <1>6, <2>1, <2>2, <2>4, <2>5
<1>10. CASE op.type = "Move" /\ op.dst = op.src
  <2> DEFINE X == Gathered(s, I, p)
             indexes == from + 1 .. from + Cardinality(I)
  <2>1. Asked(refs, op) = [refs EXCEPT ![op.src] = X]
    BY <1>5, <1>10 DEF Asked
  <2>2. Result = X /\ ResultIndexes = indexes
    BY <1>2, <1>10, GatheredInPlace
  <2>3. AskedSelection(refs, op) = Shows(indexes)
    BY <1>3, <1>5, <1>10 DEF AskedSelection
  <2> HIDE DEF X, indexes
  <2>4. Target = op.src /\ ~Between
    BY <1>1, <1>3, <1>10 DEF Between
  <2>5. refs' = [refs EXCEPT ![op.src] = X]
    BY <1>1, <2>2, <2>4
  <2> QED  BY <1>6, <2>1, <2>2, <2>3, <2>5
<1>11. CASE op.type = "Move" /\ op.dst # op.src
  <2> DEFINE X == Into(refs[op.dst], chosen, p)
             indexes == p + 1 .. p + Cardinality(I)
  <2>1. Asked(refs, op) = [refs EXCEPT ![op.src] = W, ![op.dst] = X]
    BY <1>5, <1>11 DEF Asked
  <2>2. Result = X /\ ResultIndexes = indexes /\ Between
    BY <1>2, <1>11, AddedInPlace DEF Between
  <2>3. AskedSelection(refs, op) = Shows(indexes)
    BY <1>3, <1>5, <1>11 DEF AskedSelection
  <2> HIDE DEF X, indexes, W
  <2>4. Target = op.dst
    BY <1>1, <1>3, <1>11
  <2>5. refs' = [refs EXCEPT ![op.src] = W, ![op.dst] = X]
    BY <1>1, <1>11, <2>2, <2>4
  <2> QED  BY <1>6, <2>1, <2>2, <2>3, <2>5
<1>12. CASE op.type = "Copy"
  <2> DEFINE X == Into(refs[op.dst], chosen, p)
             indexes == p + 1 .. p + Cardinality(I)
  <2>1. Asked(refs, op) = [refs EXCEPT ![op.dst] = X]
    BY <1>5, <1>12 DEF Asked
  <2>2. Result = X /\ ResultIndexes = indexes
    BY <1>2, <1>12, AddedInPlace
  <2>3. AskedSelection(refs, op) = Shows(indexes)
    BY <1>3, <1>5, <1>12 DEF AskedSelection
  <2> HIDE DEF X, indexes, W
  <2>4. Target = op.dst /\ ~Between
    BY <1>1, <1>3, <1>12 DEF Between
  <2>5. refs' = [refs EXCEPT ![op.dst] = X]
    BY <1>1, <1>12, <2>2, <2>4
  <2> QED  BY <1>6, <2>1, <2>2, <2>3, <2>5
<1>13. QED  BY <1>1, <1>7, <1>8, <1>9, <1>10, <1>11, <1>12

----------------------------------------------------------------------------
(* The theorems                                                            *)

LEMMA InitHolds == Init => ModifyInv
<1> SUFFICES ASSUME Init PROVE ModifyInv
  OBVIOUS
<1> USE DEF ModifyInv
<1>1. /\ refs \in [Refs -> Commits \ {Null}] /\ selection = NoSelection /\ op = NoOp
      /\ call = NoCall /\ pc = "idle" /\ c = Null /\ rem = {} /\ addv = <<>> /\ found = FALSE
      /\ combined = <<>> /\ integrate = <<>> /\ head = Null /\ added = {} /\ removed = None
      /\ ops = 0
  BY ModifyAssumption DEF Init
<1>2. /\ <<>> \in Seq(Commits \ {Null}) /\ <<>> \in Seq(CommitAdded) /\ Null \in Commits
      /\ 0 \in 0..MaxOps
  BY AncestorsAreCommits, EmptySeq, ModifyAssumption
<1>3. TypeOK
  BY <1>1, <1>2 DEF TypeOK, NoSelection, NoOp, NoCall
<1>4. OpFits /\ CallFits /\ SelectionExists /\ SortFinds /\ WalkFinds /\ GatherFinds
  BY <1>1 DEF OpFits, CallFits, SelectionExists, SortFinds, WalkFinds, GatherFinds, NoSelection
<1>5. AddsWhatItShould /\ AddedIsBuilt /\ ResultIsACommit
  BY <1>1 DEF AddsWhatItShould, AddedIsBuilt, ResultIsACommit, Between, NoOp
<1>6. QED  BY <1>1, <1>3, <1>4, <1>5

LEMMA StepKeeps == ModifyInv /\ [Next]_vars => ModifyInv'
<1> SUFFICES ASSUME ModifyInv, [Next]_vars PROVE ModifyInv'
  OBVIOUS
<1>1. CASE Ask
  BY <1>1, SelectKeeps, MoveKeeps, CopyKeeps, DeleteKeeps, CombineKeeps, EditKeeps DEF Ask
<1>2. CASE Run
  BY <1>2, SortKeeps, SortEndsKeeps, WalkKeeps, WalkEndsKeeps, ApplyKeeps, GatherKeeps,
     GatherEndsKeeps, IntegrateKeeps, IntegrateEndsKeeps, LastCommitKeeps, SourceReadyKeeps,
     ReplaceKeeps DEF Run
<1>3. CASE Cancel
  BY <1>3, LastCommitKeeps
<1>4. CASE UNCHANGED vars
  BY <1>4 DEF vars, loop, ModifyInv, TypeOK, OpFits, CallFits, SortFinds, WalkFinds, GatherFinds,
              AddsWhatItShould, Adding, ResultIsACommit, LastCommitChecked, SourceOnly, Between,
              AddedIsBuilt, SelectionExists
<1>5. QED  BY <1>1, <1>2, <1>3, <1>4 DEF Next

\* The inductive invariant of Modify holds in every reachable state, whatever the histories are.
THEOREM ModifyInvariant == Spec => []ModifyInv
BY InitHolds, StepKeeps, PTL DEF Spec

LEMMA StepBuilds == InductiveInv /\ [Next]_vars => InductiveInv'
<1> SUFFICES ASSUME InductiveInv, [Next]_vars PROVE BuiltInv'
  BY StepKeeps DEF InductiveInv
<1>1. CASE Ask
  <2>1. ASSUME NEW r \in Refs, NEW S \in SUBSET Ancestors(refs[r]), Select(r, S)
        PROVE  BuiltInv'
    BY <2>1, IdleBuilds DEF Select
  <2>2. ASSUME Deselect PROVE BuiltInv'
    BY <2>2, IdleBuilds DEF Deselect
  <2> QED  BY <1>1, <2>1, <2>2, MoveBuilds, CopyBuilds, DeleteBuilds, CombineBuilds, EditBuilds
           DEF Ask
<1>2. CASE Run
  <2>1. ASSUME LastCommit \/ Replace PROVE BuiltInv'
    BY <2>1, IdleBuilds DEF LastCommit, Replace, Goto
  <2> QED  BY <1>2, <2>1, SortBuilds, SortEndsBuilds, WalkBuilds, WalkEndsBuilds, ApplyBuilds,
              GatherBuilds, GatherEndsBuilds, IntegrateBuilds, IntegrateEndsBuilds,
              SourceReadyBuilds DEF Run
<1>3. CASE Cancel
  BY <1>3, IdleBuilds DEF Cancel, Goto
<1>4. CASE UNCHANGED vars
  <2>1. UNCHANGED <<refs, op, call, pc, loop, removed>>
    BY <1>4 DEF vars
  <2>2. CASE pc = "idle"
    BY <2>1, <2>2, IdleBuilds
  <2>3. CASE pc # "idle"
    <3>1. /\ UNCHANGED <<refs, op, call, pc, removed, c, rem, addv, found, combined, integrate,
                         head, added>>
      BY <2>1 DEF loop
    <3>2. ModifyInv /\ BuiltInv
      BY DEF InductiveInv
    <3>3. /\ CallIsOps' /\ OpIsKept' /\ AddSource' = AddSource /\ Picked' = Picked
          /\ Result' = Result /\ ResultIndexes' = ResultIndexes
      BY <2>3, <3>1, <3>2, SameOperation DEF BuiltInv
    <3>4. /\ Combined' = Combined /\ (Adding' <=> Adding)
          /\ PatchesOf(addv') = PatchesOf(addv) /\ PatchesOf(integrate') = PatchesOf(integrate)
      BY <3>1 DEF Combined, Adding
    <3>5. SortBuilt' /\ WalkBuilt'
      BY <3>1, <3>2, <3>3, <3>4 DEF BuiltInv, SortBuilt, WalkBuilt, Kept
    <3>6. GatherBuilt' /\ IntegrateBuilt'
      BY <3>1, <3>2, <3>4 DEF BuiltInv, GatherBuilt, IntegrateBuilt
    <3>7. ApplyBuilt'
      BY <3>1, <3>2, <3>3, <3>4 DEF BuiltInv, ApplyBuilt
    <3> QED  BY <3>3, <3>5, <3>6, <3>7 DEF BuiltInv
  <2> QED  BY <2>2, <2>3
<1>5. QED  BY <1>1, <1>2, <1>3, <1>4 DEF Next

\* In every reachable state what the loops have built so far, together with what they still have
\* to do, is what the user asked for: the inductive invariant that the run checks.
THEOREM Inductive == Spec => []InductiveInv
<1>1. Init => InductiveInv
  BY InitHolds, NothingIsBuilt DEF Init, InductiveInv
<1>2. QED  BY <1>1, StepBuilds, PTL DEF Spec

\* Whatever the histories are, however long, and wherever the selected commits stand in them: an
\* operation of Git::Modify that replaces refs replaces them with what the user asked for, and
\* selects what the user had selected, wherever it went; one that ends without replacing them
\* changes neither.
THEOREM EveryResultIsWhatWasAsked == Spec => ResultIsWhatWasAsked
<1> DEFINE Act == pc = "apply" /\ pc' = "idle" =>
                      \/ refs' = refs /\ selection' = selection
                      \/ refs' = Asked(refs, op) /\ selection' = AskedSelection(refs, op)
<1>1. InductiveInv /\ [Next]_vars => [Act]_vars
  <2> SUFFICES ASSUME InductiveInv, Next, pc = "apply", pc' = "idle"
               PROVE  \/ refs' = refs /\ selection' = selection
                      \/ refs' = Asked(refs, op) /\ selection' = AskedSelection(refs, op)
    OBVIOUS
  <2>1. ASSUME Ask PROVE FALSE
    <3>1. pc = "idle"
      BY <2>1 DEF Ask, Select, Deselect, Move, Copy, Delete, Combine, Edit, Begin
    <3> QED  BY <3>1
  <2>2. ASSUME Run PROVE LastCommit \/ Replace
    <3>1. ~Sort /\ ~SortEnds /\ ~Walk /\ ~WalkEnds /\ ~Apply
      BY DEF Sort, SortEnds, Walk, WalkEnds, Apply
    <3>2. ~Gather /\ ~GatherEnds /\ ~Integrate /\ ~IntegrateEnds /\ ~SourceReady
      BY DEF Gather, GatherEnds, Integrate, IntegrateEnds, SourceReady, Call, Goto
    <3> QED  BY <2>2, <3>1, <3>2 DEF Run
  <2>3. ASSUME LastCommit \/ Cancel PROVE refs' = refs /\ selection' = selection
    BY <2>3 DEF LastCommit, Cancel
  <2>4. QED  BY <2>1, <2>2, <2>3, ReplacesAsAsked DEF Next
<1>2. QED  BY <1>1, Inductive, PTL DEF Spec, ResultIsWhatWasAsked

\* _AddRemoveCommits finds the insertion point once and every commit it has to remove before the
\* history ends, and _CombineCommits never runs out of commits.
THEOREM AssertionsAlwaysHold == Spec => []AssertionsHold
<1>1. ModifyInv => AssertionsHold
  BY AncestorsAreCommits DEF ModifyInv, GatherFinds, AssertionsHold
<1>2. QED  BY <1>1, ModifyInvariant, PTL

\* What is selected is in the history of the column it is selected in, after every operation.
THEOREM SelectionAlwaysExists == Spec => []SelectionExists
<1>1. ModifyInv => SelectionExists
  BY DEF ModifyInv
<1>2. QED  BY <1>1, ModifyInvariant, PTL

\* A move that _MoveIsNop() refuses would have left the history as it is, for every history and
\* every selection: without a gap the selected patches are next to each other, and the positions
\* it refuses are those around and among them.
THEOREM NopMovesAreNops == Spec => []NopMovesChangeNothing
<1>1. ModifyInv => NopMovesChangeNothing
  <2> SUFFICES ASSUME ModifyInv, selection.commits # {},
                      NEW p \in Ancestors(refs[selection.rev]) \cup {Null},
                      MoveIsNop(selection.rev, selection.commits, selection.rev, p)
               PROVE  Gathered(refs[selection.rev], {Len(x) : x \in selection.commits}, Len(p))
                         = refs[selection.rev]
    BY DEF NopMovesChangeNothing
  <2>1. refs[selection.rev] \in Commits /\ selection.commits \in SUBSET Ancestors(refs[selection.rev])
    BY DEF ModifyInv, SelectionExists, TypeOK
  <2>2. QED  BY <2>1, NopMoveKeeps, Zenon
<1>2. QED  BY <1>1, ModifyInvariant, PTL
=============================================================================
