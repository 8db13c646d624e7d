------------------------------ MODULE History ------------------------------
(***************************************************************************)
(* T_History<T> (History.h): the undo and redo stacks of one ref.          *)
(*                                                                         *)
(* A history is a record: prev and next are the two deques, the front of a *)
(* deque being the head of the sequence (push_front is a Cons), and cur is *)
(* the current element.                                                    *)
(***************************************************************************)
EXTENDS Sequences

\* The histories whose elements are members of S.
HistoryOf(S) == [prev : Seq(S), cur : S, next : Seq(S)]

Fresh(x) == [prev |-> <<>>, cur |-> x, next |-> <<>>]

\* Mutant: push() without clearing the redo stack.
PushKeepsRedo(h, x) == [prev |-> <<h.cur>> \o h.prev, cur |-> x, next |-> h.next]

\* push(): a new present forgets the redo stack.
Push(h, x) == [prev |-> <<h.cur>> \o h.prev, cur |-> x, next |-> <<>>]

CanUndo(h) == h.prev # <<>>
CanRedo(h) == h.next # <<>>

PrevPeek(h) == Head(h.prev)
NextPeek(h) == Head(h.next)

\* prev() and next(): only called when CanUndo, respectively CanRedo.
StepBack(h) == [prev |-> Tail(h.prev), cur |-> PrevPeek(h), next |-> <<h.cur>> \o h.next]
StepForth(h) == [prev |-> <<h.cur>> \o h.prev, cur |-> NextPeek(h), next |-> Tail(h.next)]
=============================================================================
