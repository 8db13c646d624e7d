----------------------------- MODULE TextField -----------------------------
(***************************************************************************)
(* The name field of a column (ui/TextField.h, UTF8.h): the text is bytes, *)
(* the cursor and the left edge of the view are offsets in bytes, and what *)
(* the terminal draws and the keys move over are codepoints.  A codepoint  *)
(* that is typed arrives byte by byte.  The view tree is laid out before   *)
(* every event (Screen.h:189), so both offsets are clamped by then.        *)
(*                                                                         *)
(* A byte is <<codepoint, index>>; the byte that starts a codepoint has    *)
(* index 1, the others are continuations.                                  *)
(*                                                                         *)
(* (The specification's parts are named for the field, so that one module  *)
(* can speak of it and of CommitText.)                                     *)
(***************************************************************************)
EXTENDS Integers, Sequences, FiniteSets

CONSTANTS
    Codepoints,     \* what can be typed
    BytesOf,        \* function: the number of bytes that encode a codepoint
    Names,          \* names that refs have when a column is loaded
    Suffix,         \* what the column shows after the name (" (HEAD)"), or <<>>
    Width,          \* columns of the terminal that the field takes
    MaxBytes        \* bound: bytes of the text

VARIABLES
    field,          \* [value, left, cursor]: _value, _offLeft, _offCursor
    name,           \* the name of the ref
    focused, drag,  \* _focused, _drag
    pending,        \* bytes of a codepoint that the terminal is yet to send
    slipped         \* history: the view did not follow a deletion (Slips)

fieldVars == <<field, name, focused, drag, pending, slipped>>

Encoded(c) == [i \in 1..BytesOf[c] |-> <<c, i>>]
Bytes == {b \in Codepoints \X Nat : b[2] \in 1..BytesOf[b[1]]}

(***************************************************************************)
(* Walking over codepoints.  One past the last byte is read as the NUL     *)
(* that ends a string: it starts a codepoint.                              *)
(***************************************************************************)

CodepointStart(v, p) == p = Len(v) \/ v[p + 1][2] = 1

\* UTF8::NextN towards the end, for n >= 0.
NextN(v, p, n) ==
    LET later == {q \in p + 1..Len(v) : CodepointStart(v, q)}
    IN  IF n = 0 THEN p
        ELSE IF Cardinality(later) <= n THEN Len(v)
        ELSE CHOOSE q \in later : Cardinality({r \in later : r <= q}) = n

\* UTF8::NextN towards the begin, by n codepoints.
PrevN(v, p, n) ==
    LET earlier == {0} \cup {q \in 0..p - 1 : CodepointStart(v, q)}
    IN  IF n = 0 THEN p
        ELSE IF Cardinality(earlier) <= n THEN 0
        ELSE CHOOSE q \in earlier : Cardinality({r \in earlier : r >= q}) = n

\* Mutant: only bytes are counted.
Next1ByByte(v, p) == IF p = Len(v) THEN p ELSE p + 1

Next1(v, p) == IF p = Len(v) THEN p ELSE NextN(v, p, 1)
Prev1(v, p) == IF p = 0 THEN p ELSE PrevN(v, p, 1)

\* UTF8::Len of the bytes from p up to q.
Length(v, p, q) == Cardinality({r \in p..q - 1 : v[r + 1][2] = 1})

\* UTF-8: codepoints with all their bytes, one behind the other.
Whole(v) ==
    /\ CodepointStart(v, 0)
    /\ \A p \in 1..Len(v) :
          v[p][2] = 1 => \E c \in Codepoints :
             LET end == p + BytesOf[c] - 1
             IN  /\ end <= Len(v) /\ SubSeq(v, p, end) = Encoded(c)
                 /\ CodepointStart(v, end)

\* Terminals and git hand over UTF-8, and the field is as wide as its column
\* (_ColumnWidth, 32): wider than the one codepoint that is typed.
ASSUME FieldAssumption ==
    /\ \A c \in Codepoints : BytesOf[c] \in Nat \ {0}
    /\ \A n \in Names \cup {Suffix} : n \in Seq(Bytes) /\ Whole(n)
    /\ Width \in Nat \ {0, 1}
    /\ MaxBytes \in Nat

----------------------------------------------------------------------------
Clamp(x, lo, hi) == IF x < lo THEN lo ELSE IF x > hi THEN hi ELSE x

LeftMax(v) == PrevN(v, Len(v), Width)
CursorMax(f) == NextN(f.value, f.left, Width)

\* Mutant: the cursor is clamped before the view is.
OffUpdateCursorFirst(f) ==
    [f EXCEPT !.left = Clamp(@, 0, LeftMax(f.value)),
              !.cursor = Clamp(@, f.left, NextN(f.value, f.left, Width))]

\* _offUpdate: the last thing before an event is read.
OffUpdate(f) ==
    LET left == Clamp(f.left, 0, LeftMax(f.value))
    IN  [f EXCEPT !.left = left,
                  !.cursor = Clamp(@, left, NextN(f.value, left, Width))]

\* seek(Right)
AtTheEnd(v) == OffUpdate([value |-> v, left |-> Len(v), cursor |-> Len(v)])

\* value(x): the cursor moves only if the text changes.
WithValue(f, v) == IF v = f.value THEN f ELSE AtTheEnd(v)

\* Where the text starts: it is centered while it is shorter than the field.
AlignOff(v) ==
    LET len == Length(v, 0, Len(v))
    IN  IF len < Width THEN (Width - len) \div 2 ELSE 0

Shown(n) == n \o Suffix

----------------------------------------------------------------------------
(***************************************************************************)
(* Keys, in a focused field and not while the mouse drags.                 *)
(***************************************************************************)

Cut(v, p, q) == SubSeq(v, 1, p) \o SubSeq(v, q + 1, Len(v))
Insert(v, p, b) == SubSeq(v, 1, p) \o <<b>> \o SubSeq(v, p + 1, Len(v))

Deleted(f) ==
    LET begin == Prev1(f.value, f.cursor)
    IN  OffUpdate([f EXCEPT !.value = Cut(@, begin, f.cursor), !.cursor = begin])

FnDeleted(f) ==
    OffUpdate([f EXCEPT !.value = Cut(@, f.cursor, Next1(f.value, f.cursor))])

\* The view shifts to the left if the cursor is at its left edge.
MovedLeft(f) ==
    OffUpdate([f EXCEPT !.left = IF f.cursor = @ THEN Prev1(f.value, @) ELSE @,
                        !.cursor = Prev1(f.value, @)])

\* Mutant: the view never shifts.
ShiftedRightNever(f) == f

\* The view shifts to the right if the cursor is at its right edge.
ShiftedRight(f) ==
    [f EXCEPT !.left = IF f.cursor = CursorMax(f) THEN Next1(f.value, @) ELSE @]

MovedRight(f) ==
    OffUpdate([ShiftedRight(f) EXCEPT !.cursor = Next1(f.value, @)])

MovedUp(f) == OffUpdate([f EXCEPT !.left = 0, !.cursor = 0])

\* The view is scrolled first, and the cursor goes to the right edge that it has then.
MovedDown(f) ==
    LET scrolled == [f EXCEPT !.left = LeftMax(f.value)]
    IN  OffUpdate([scrolled EXCEPT !.cursor = CursorMax(scrolled)])

Typed(f, b) ==
    OffUpdate([ShiftedRight(f) EXCEPT !.value = Insert(@, f.cursor, b), !.cursor = @ + 1])

Listening == focused /\ ~drag /\ pending = <<>>

\* Deleting at the left edge of a view that is scrolled, though not to the
\* end: _offLeft stays where it is, and the cursor is clamped to it.
Slips == 0 < field.left /\ field.left < LeftMax(field.value) /\ field.cursor = field.left

KeyDelete ==
    /\ Listening /\ field.cursor > 0
    /\ field' = Deleted(field)
    /\ slipped' = (slipped \/ Slips)
    /\ UNCHANGED <<name, focused, drag, pending>>

Key(f) ==
    /\ Listening
    /\ field' = f
    /\ UNCHANGED <<name, focused, drag, pending, slipped>>

KeyFnDelete == field.cursor < Len(field.value) /\ Key(FnDeleted(field))
KeyLeft == field.cursor > 0 /\ Key(MovedLeft(field))
KeyRight == field.cursor < Len(field.value) /\ Key(MovedRight(field))
KeyUp == Key(MovedUp(field))
KeyDown == Key(MovedDown(field))

\* The terminal sends the bytes of a codepoint one after the other.
KeyStarts(c) ==
    /\ Listening
    /\ Len(field.value) + BytesOf[c] <= MaxBytes
    /\ field' = Typed(field, <<c, 1>>)
    /\ pending' = Tail(Encoded(c))
    /\ UNCHANGED <<name, focused, drag, slipped>>

KeyContinues ==
    /\ pending # <<>>
    /\ field' = Typed(field, Head(pending))
    /\ pending' = Tail(pending)
    /\ UNCHANGED <<name, focused, drag, slipped>>

----------------------------------------------------------------------------
(***************************************************************************)
(* The mouse, and the focus.                                               *)
(***************************************************************************)

\* Mutant: the text is taken to start at the left of the field.
PointedUnaligned(f, x) == {IF x < 0 THEN 0 ELSE NextN(f.value, f.left, x)}

\* Where the cursor may be put for a click on column x of the field.  To the
\* left of the text UTF8::NextN walks out of the string: where it ends depends
\* on the bytes it finds there.
Pointed(f, x) ==
    IF x >= AlignOff(f.value)
    THEN {NextN(f.value, f.left, x - AlignOff(f.value))}
    ELSE IF f.value = <<>> THEN {0}
    ELSE {p \in -MaxBytes..f.left - 1 : f.left - p >= AlignOff(f.value) - x}

\* A click on the field while it has no focus gives it the focus, and the name
\* to edit: without what is only shown.
Press(x) ==
    /\ pending = <<>> /\ ~drag
    /\ drag' = TRUE
    /\ focused' = TRUE
    /\ \E p \in Pointed(field, x) :
          LET f == [field EXCEPT !.cursor = p]
          IN  field' = OffUpdate(IF focused THEN f ELSE WithValue(f, name))
    /\ UNCHANGED <<name, pending, slipped>>

\* The mouse may leave the field while it drags.
Drag(x) ==
    /\ drag
    /\ \E p \in Pointed(field, x) : field' = OffUpdate([field EXCEPT !.cursor = p])
    /\ UNCHANGED <<name, focused, drag, pending, slipped>>

Release ==
    /\ drag /\ drag' = FALSE
    /\ UNCHANGED <<field, name, focused, pending, slipped>>

\* The column takes the focus away, and shows the name that the ref has then.
Blur(n) ==
    /\ Listening
    /\ focused' = FALSE
    /\ name' = n
    /\ field' = WithValue(field, Shown(n))
    /\ UNCHANGED <<drag, pending, slipped>>

Escape == Blur(name)

\* Return, or a click elsewhere: the ref is renamed, or git refuses the name
\* and the user gives it up.  (If the user goes on editing, nothing changes.)
Return ==
    \/ Blur(name)
    \/ field.value # <<>> /\ Blur(field.value)

\* Tab on the column, as opposed to a click: the cursor goes to the end.
TabFocus ==
    /\ ~focused /\ ~drag
    /\ focused' = TRUE
    /\ field' = AtTheEnd(name)
    /\ UNCHANGED <<name, drag, pending, slipped>>

----------------------------------------------------------------------------
FieldInit ==
    /\ name \in Names
    /\ field = AtTheEnd(Shown(name))
    /\ focused = FALSE /\ drag = FALSE
    /\ pending = <<>>
    /\ slipped = FALSE

Columns == -1..Width

FieldNext ==
    \/ KeyDelete \/ KeyFnDelete \/ KeyLeft \/ KeyRight \/ KeyUp \/ KeyDown
    \/ \E c \in Codepoints : KeyStarts(c)
    \/ KeyContinues
    \/ \E x \in 0..Width - 1 : Press(x)
    \/ \E x \in Columns : Drag(x)
    \/ Release \/ Escape \/ Return \/ TabFocus

FieldSpec == FieldInit /\ [][FieldNext]_fieldVars

----------------------------------------------------------------------------
Before(f) == SubSeq(f.value, 1, f.cursor)
After(f) == SubSeq(f.value, f.cursor + 1, Len(f.value))

(***************************************************************************)
(* The field between two events, unless its view slipped: both offsets are *)
(* at codepoints of the text that the view can show, and the text is whole *)
(* once the bytes that the terminal is yet to send are put at the cursor.  *)
(* Those that it has sent lie before the cursor, and in the view.          *)
(***************************************************************************)
Placed(f) ==
    /\ f.left \in 0..LeftMax(f.value) /\ f.cursor \in f.left..CursorMax(f)
    /\ \A p \in {0, f.left, f.cursor} : CodepointStart(f.value, p)

Sent(c, k) ==
    /\ pending = SubSeq(Encoded(c), k + 1, BytesOf[c])
    /\ k <= field.cursor - field.left
    /\ \A i \in 1..k : field.value[field.cursor - k + i] = <<c, i>>

FieldFits ==
    /\ field \in [value : Seq(Bytes), left : Nat, cursor : Nat] /\ Placed(field)
    /\ name \in Seq(Bytes) /\ Whole(name)
    /\ Whole(Before(field) \o pending \o After(field))
    /\ pending # <<>> => focused /\ ~drag
    /\ pending = <<>> \/ \E c \in Codepoints : \E k \in 1..BytesOf[c] - 1 : Sent(c, k)

FieldInv ==
    /\ focused \in BOOLEAN /\ drag \in BOOLEAN /\ slipped \in BOOLEAN
    /\ ~slipped => FieldFits

----------------------------------------------------------------------------
(***************************************************************************)
(* A key acts on the codepoint at the cursor and on nothing else,          *)
(* wherever the view is scrolled to: the text on the other side of the     *)
(* cursor stays, and so does the place of the cursor between the two.      *)
(* KeyUp and KeyDown go to the ends of the text, also of the part of it    *)
(* that is not in view.  The one exception is the deletion that the view   *)
(* does not follow (Slips).                                                *)
(***************************************************************************)
ActsAtTheCursor ==
    LET before == Before(field) after == After(field)
        before2 == Before(field') after2 == After(field')
    IN  /\ KeyDelete => after2 = after /\ \E c \in Codepoints : before = before2 \o Encoded(c)
        /\ KeyFnDelete => before2 = before /\ \E c \in Codepoints : after = Encoded(c) \o after2
        /\ KeyLeft => field'.value = field.value
                      /\ \E c \in Codepoints : before = before2 \o Encoded(c)
        /\ KeyRight => field'.value = field.value
                       /\ \E c \in Codepoints : after = Encoded(c) \o after2
        /\ KeyUp => field'.value = field.value /\ before2 = <<>>
        /\ KeyDown => field'.value = field.value /\ after2 = <<>>
        /\ KeyContinues => before2 = Append(before, Head(pending)) /\ after2 = after
        /\ \A c \in Codepoints :
              KeyStarts(c) => before2 = Append(before, <<c, 1>>) /\ after2 = after

KeysActAtTheCursor == [][slipped' \/ ActsAtTheCursor]_fieldVars

(***************************************************************************)
(* Unless the view slipped, the text is whole codepoints between two       *)
(* events of the terminal, and neither the cursor nor the left edge of the *)
(* view cuts one: no ref gets a name that is not UTF-8.                    *)
(***************************************************************************)
WholeCodepoints ==
    ~slipped /\ pending = <<>> =>
        /\ Whole(field.value) /\ Whole(name)
        /\ CodepointStart(field.value, field.left)
        /\ CodepointStart(field.value, field.cursor)

(***************************************************************************)
(* The mouse puts the cursor on the column it points at, or at the nearest *)
(* end of the text that is visible, in a field that is centered or         *)
(* scrolled; and it never scrolls the view.  (Again unless it slipped.)    *)
(***************************************************************************)
CursorColumn(f) == AlignOff(f.value) + Length(f.value, f.left, f.cursor)

PointedAt(f, x) ==
    Clamp(x, AlignOff(f.value), AlignOff(f.value) + Length(f.value, f.left, CursorMax(f)))

MouseActsWhereItPoints ==
    [][\A x \in Columns :
          ~slipped /\ (Drag(x) \/ (Press(x) /\ focused)) =>
             /\ CursorColumn(field') = PointedAt(field, x)
             /\ field'.left = field.left /\ field'.value = field.value]_fieldVars
=============================================================================
