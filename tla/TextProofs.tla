----------------------------- MODULE TextProofs -----------------------------
(***************************************************************************)
(* Proofs about the two texts that the user edits.                         *)
(*                                                                         *)
(* CommitText: which offsets survive the text, for every offset, and what  *)
(* is read back from it, for every commit and date.                        *)
(*                                                                         *)
(* TextField: the name field of a column acts on whole codepoints, for     *)
(* every encoding, text and width.                                         *)
(***************************************************************************)
EXTENDS CommitText, TextField, FiniteSetTheorems, SequenceTheorems, WellFoundedInduction, TLAPS

(***************************************************************************)
(* Offsets                                                                 *)
(***************************************************************************)
LEMMA EastOfGreenwich ==
    ASSUME NEW o \in Int, o >= 0
    PROVE  ZoneOffset(ZoneNumber(ZoneText(o))) = o
<1>. DEFINE h == o \div 60
            m == o % 60
<1>1. h \in Nat /\ m \in 0..59 /\ o = 60 * h + m
  OBVIOUS
<1>2. ZoneText(o) = [sign |-> 1, hours |-> h, minutes |-> m]
  BY <1>1 DEF ZoneText, Quotient, Remainder
<1>3. ZoneNumber(ZoneText(o)) = 100 * h + m
  BY <1>1, <1>2 DEF ZoneNumber
<1>4. (100 * h + m) \div 100 = h /\ (100 * h + m) % 100 = m
  BY <1>1
<1>. HIDE DEF h, m
<1>. QED  BY <1>1, <1>3, <1>4 DEF ZoneOffset

LEMMA WholeHoursWest ==
    ASSUME NEW o \in Int, o < 0, o % 60 = 0
    PROVE  ZoneOffset(ZoneNumber(ZoneText(o))) = o
<1>. DEFINE h == (-o) \div 60
<1>1. h \in Nat \ {0} /\ o = -(60 * h)
  OBVIOUS
<1>2. ZoneText(o) = [sign |-> -1, hours |-> h, minutes |-> 0]
  BY <1>1 DEF ZoneText, Quotient, Remainder
<1>3. ZoneNumber(ZoneText(o)) = -(100 * h)
  BY <1>1, <1>2 DEF ZoneNumber
<1>4. (100 * h) \div 100 = h /\ (100 * h) % 100 = 0 /\ ~(-(100 * h) >= 0)
  BY <1>1
<1>. HIDE DEF h
<1>. QED  BY <1>1, <1>3, <1>4 DEF ZoneOffset

LEMMA MinutesWest ==
    ASSUME NEW o \in Int, o < 0, o % 60 # 0
    PROVE  ZoneOffset(ZoneNumber(ZoneText(o))) # o
<1>. DEFINE h == (-o) \div 60
            q == h \div 100
            r == h % 100
<1>1. h \in Nat /\ 60 * h < -o /\ -o < 60 * h + 60
  OBVIOUS
<1>2. ZoneText(o) = [sign |-> IF h = 0 THEN 1 ELSE -1, hours |-> h, minutes |-> o + 60 * h]
  BY <1>1 DEF ZoneText, Quotient, Remainder
<1>3. ZoneNumber(ZoneText(o)) = -h
  BY <1>1, <1>2 DEF ZoneNumber
<1>4. q \in Nat /\ r \in 0..99 /\ h = 100 * q + r
  BY <1>1
<1>. HIDE DEF h, q, r
<1>5. ZoneOffset(-h) = -(60 * q) + r
  <2>1. CASE h = 0
    <3>1. q = 0 /\ r = 0
      BY <1>4, <2>1
    <3>. QED  BY <2>1, <3>1 DEF ZoneOffset, q, r
  <2>2. CASE h # 0
    BY <1>1, <1>4, <2>2 DEF ZoneOffset, q, r
  <2>. QED  BY <2>1, <2>2
<1>. QED  BY <1>1, <1>3, <1>4, <1>5

(***************************************************************************)
(* An offset survives being written and read if, and only if, it is east   *)
(* of Greenwich or of whole hours.                                         *)
(***************************************************************************)
THEOREM ZonesThatSurvive ==
    \A o \in Int : ZoneOffset(ZoneNumber(ZoneText(o))) = o <=> o >= 0 \/ o % 60 = 0
BY EastOfGreenwich, WholeHoursWest, MinutesWest

LEMMA ZoneIsTaken ==
    ASSUME NEW z \in [sign : {-1, 1}, hours : Nat, minutes : 0..59],
           z.sign = 1 \/ z.minutes = 0
    PROVE  ZoneOffset(ZoneNumber(z)) = Meant(z)
<1>. DEFINE h == z.hours
            m == z.minutes
<1>1. h \in Nat /\ m \in 0..59 /\ z.sign \in {-1, 1}
  OBVIOUS
<1>2. (100 * h + m) \div 100 = h /\ (100 * h + m) % 100 = m
  BY <1>1
<1>3. ZoneNumber(z) = z.sign * (100 * h + m)
  BY <1>1 DEF ZoneNumber
<1>4. CASE z.sign = 1
  BY <1>1, <1>2, <1>3, <1>4 DEF ZoneOffset, Meant
<1>5. CASE z.sign = -1 /\ m = 0
  BY <1>1, <1>2, <1>3, <1>5 DEF ZoneOffset, Meant
<1>. QED  BY <1>1, <1>4, <1>5

(***************************************************************************)
(* Reading the text back                                                   *)
(***************************************************************************)
LEMMA NonBlankHere ==
    ASSUME NEW s, Len(s) \in Nat, NEW i \in 1..(Len(s) + 1), i <= Len(s) => s[i] # Blank
    PROVE  NonBlank(s, i) = i
<1>. DEFINE P(k) == /\ k <= Len(s) => s[k] # Blank
                    /\ \A j \in i..(k - 1) : s[j] = Blank
<1>1. i \in i..(Len(s) + 1) /\ P(i)
  OBVIOUS
<1>2. ASSUME NEW k \in i..(Len(s) + 1), P(k) PROVE k = i
  <2>1. SUFFICES ASSUME k > i PROVE FALSE
    OBVIOUS
  <2>2. i \in i..(k - 1) /\ i <= Len(s)
    BY <2>1
  <2>. QED  BY <1>2, <2>2
<1>3. NonBlank(s, i) = CHOOSE k \in i..(Len(s) + 1) : P(k)
  BY DEF NonBlank
<1>. HIDE DEF P
<1>. QED  BY <1>1, <1>2, <1>3

LEMMA NonBlankNext ==
    ASSUME NEW s, Len(s) \in Nat, NEW i \in 1..Len(s), s[i] = Blank,
           i + 1 <= Len(s) => s[i + 1] # Blank
    PROVE  NonBlank(s, i) = i + 1
<1>. DEFINE P(k) == /\ k <= Len(s) => s[k] # Blank
                    /\ \A j \in i..(k - 1) : s[j] = Blank
<1>1. i + 1 \in i..(Len(s) + 1) /\ P(i + 1)
  OBVIOUS
<1>2. ASSUME NEW k \in i..(Len(s) + 1), P(k) PROVE k = i + 1
  <2>1. k # i
    BY <1>2
  <2>2. SUFFICES ASSUME k > i + 1 PROVE FALSE
    BY <2>1
  <2>3. i + 1 \in i..(k - 1) /\ i + 1 <= Len(s)
    BY <2>2
  <2>. QED  BY <1>2, <2>3
<1>3. NonBlank(s, i) = CHOOSE k \in i..(Len(s) + 1) : P(k)
  BY DEF NonBlank
<1>. HIDE DEF P
<1>. QED  BY <1>1, <1>2, <1>3

LEMMA Prefixes ==
    ASSUME NEW x
    PROVE  /\ AuthorLine(x).prefix = "Author:" /\ AuthorLine(x).rest = x
           /\ DateLine(x).prefix = "Date:" /\ DateLine(x).rest = x
           /\ Blank.prefix = ""
           /\ AuthorLine(x) # Blank /\ DateLine(x) # Blank
<1>1. AuthorLine(x).prefix = "Author:" /\ AuthorLine(x).rest = x
  BY DEF AuthorLine
<1>2. DateLine(x).prefix = "Date:" /\ DateLine(x).rest = x
  BY DEF DateLine
<1>3. Blank.prefix = ""
  BY DEF Blank
<1>4. "Author:" # "" /\ "Date:" # ""
  OBVIOUS
<1>. QED  BY <1>1, <1>2, <1>3, <1>4

\* Whatever is behind them, the two header lines are found where they are.
LEMMA HeaderIsFound ==
    ASSUME NEW s, Len(s) \in Nat, Len(s) >= 2, NEW a, NEW d,
           s[1] = AuthorLine(a), s[2] = DateLine(d)
    PROVE  /\ CommitMessageFromString(s).author = AuthorFrom(a)
           /\ CommitMessageFromString(s).time = TimeFromString(d)
           /\ Sought(s, DateStarts(s), "Date:") = 3
<1>1. /\ s[1].prefix = "Author:" /\ s[1].rest = a
      /\ s[2].prefix = "Date:" /\ s[2].rest = d
      /\ s[1] # Blank /\ s[2] # Blank
  <2>1. s[1].prefix = "Author:" /\ s[1].rest = a /\ s[1] # Blank
    BY Prefixes
  <2>2. s[2].prefix = "Date:" /\ s[2].rest = d /\ s[2] # Blank
    BY Prefixes
  <2>. QED  BY <2>1, <2>2
<1>2. 1 \in 1..(Len(s) + 1) /\ 2 \in 1..(Len(s) + 1) /\ 1 <= Len(s) /\ 2 <= Len(s)
  OBVIOUS
<1>3. NonBlank(s, 1) = 1 /\ NonBlank(s, 2) = 2
  BY <1>1, <1>2, NonBlankHere
<1>4. HasPrefix(s, 1, "Author:") /\ HasPrefix(s, 2, "Date:")
  BY <1>1, <1>2 DEF HasPrefix
<1>5. DateStarts(s) = 2
  BY <1>3, <1>4 DEF DateStarts, Sought
<1>6. Sought(s, 2, "Date:") = 3
  BY <1>3, <1>4 DEF Sought
<1>. QED  BY <1>1, <1>3, <1>4, <1>5, <1>6 DEF CommitMessageFromString

LEMMA OriginalTypes ==
    ASSUME NEW c \in Originals
    PROVE  /\ c = [author |-> c.author, time |-> c.time, message |-> c.message]
           /\ c.author # None /\ c.time \in Time
           /\ c.message \in Seq(LinesOf(c))
           /\ c.message # <<>> => c.message[1] # Blank
<1>. DEFINE M == {c.message[i] : i \in DOMAIN c.message}
<1>1. /\ c = [author |-> c.author, time |-> c.time, message |-> c.message]
      /\ c.author # None /\ c.time \in Time
      /\ c.message \in Seq(M)
      /\ c.message # <<>> => c.message[1] # Blank
  BY CommitTextAssumption
<1>2. M \subseteq LinesOf(c)
  BY DEF LinesOf
<1>. HIDE DEF M
<1>3. c.message \in Seq(LinesOf(c))
  BY <1>1, <1>2
<1>. QED  BY <1>1, <1>3

\* The text of a commit, line by line.
LEMMA TextOfACommit ==
    ASSUME NEW c \in Originals
    PROVE  LET s == StringFromCommitMessage(c)
           IN  /\ s \in Seq(LinesOf(c)) /\ Len(s) = 3 + Len(c.message) /\ Len(c.message) \in Nat
               /\ s[1] = AuthorLine(c.author) /\ s[2] = DateLine(StringFromTime(c.time))
               /\ s[3] = Blank
               /\ \A j \in 1..Len(c.message) : s[3 + j] = c.message[j]
<1>. DEFINE A == AuthorLine(c.author)
            D == DateLine(StringFromTime(c.time))
            h == <<A, D, Blank>>
            L == LinesOf(c)
            m == c.message
<1>1. A \in L /\ D \in L /\ Blank \in L
  BY DEF LinesOf
<1>2. m \in Seq(L)
  BY OriginalTypes
<1>3. StringFromCommitMessage(c) = h \o m
  BY DEF StringFromCommitMessage
<1>. HIDE DEF A, D, L, m
<1>4. h \in Seq(L) /\ Len(h) = 3 /\ h[1] = A /\ h[2] = D /\ h[3] = Blank
  BY <1>1
<1>. HIDE DEF h
<1>5. /\ h \o m \in Seq(L)
      /\ Len(h \o m) = Len(h) + Len(m)
      /\ \A i \in 1..(Len(h) + Len(m)) : (h \o m)[i] = IF i <= Len(h) THEN h[i] ELSE m[i - Len(h)]
  BY <1>2, <1>4, ConcatProperties
<1>6. Len(m) \in Nat
  BY <1>2, LenProperties
<1>7. (h \o m)[1] = A /\ (h \o m)[2] = D /\ (h \o m)[3] = Blank
  BY <1>4, <1>5, <1>6
<1>8. ASSUME NEW j \in 1..Len(m) PROVE (h \o m)[3 + j] = m[j]
  BY <1>4, <1>5, <1>6
<1>. QED  BY <1>3, <1>4, <1>5, <1>6, <1>7, <1>8 DEF A, D, L, m

\* What is read back from the text of a commit: its message, and what survives of its author and
\* its time.
LEMMA ReadBack ==
    ASSUME NEW c \in Originals
    PROVE  CommitMessageFromString(StringFromCommitMessage(c)) =
               [author |-> AuthorFrom(c.author),
                time |-> TimeFromString(StringFromTime(c.time)),
                message |-> c.message]
<1>. DEFINE s == StringFromCommitMessage(c)
            m == c.message
            L == LinesOf(c)
            t == StringFromTime(c.time)
<1>1. /\ s \in Seq(L) /\ Len(s) = 3 + Len(m) /\ Len(m) \in Nat
      /\ s[1] = AuthorLine(c.author) /\ s[2] = DateLine(t) /\ s[3] = Blank
      /\ \A j \in 1..Len(m) : s[3 + j] = m[j]
  BY TextOfACommit
<1>2. m \in Seq(L) /\ (m # <<>> => m[1] # Blank)
  BY OriginalTypes
<1>. HIDE DEF s, m, L, t
<1>3. /\ CommitMessageFromString(s).author = AuthorFrom(c.author)
      /\ CommitMessageFromString(s).time = TimeFromString(t)
      /\ Sought(s, DateStarts(s), "Date:") = 3
  <2>1. Len(s) \in Nat /\ Len(s) >= 2
    BY <1>1
  <2>. QED  BY <1>1, <2>1, HeaderIsFound, Zenon
<1>4. 4 <= Len(s) => s[4] # Blank
  <2>1. SUFFICES ASSUME 4 <= Len(s) PROVE s[4] # Blank
    OBVIOUS
  <2>2. 1 \in 1..Len(m) /\ 3 + 1 = 4
    BY <1>1, <2>1
  <2>3. s[4] = m[1]
    BY <1>1, <2>2
  <2>4. m # <<>>
    BY <2>2
  <2>. QED  BY <1>2, <2>3, <2>4
<1>5. NonBlank(s, 3) = 4
  <2>1. Len(s) \in Nat /\ 3 \in 1..Len(s) /\ (3 + 1 <= Len(s) => s[3 + 1] # Blank)
    BY <1>1, <1>4
  <2>2. NonBlank(s, 3) = 3 + 1
    BY <1>1, <2>1, NonBlankNext, Zenon
  <2>. QED  BY <2>2
<1>6. SubSeq(s, 4, Len(s)) = m
  <2>1. Len(s) \in Int /\ 4 \in Int /\ \A i \in 4..Len(s) : s[i] \in L
    BY <1>1
  <2>2. /\ SubSeq(s, 4, Len(s)) \in Seq(L)
        /\ Len(SubSeq(s, 4, Len(s))) = IF 4 <= Len(s) THEN Len(s) - 4 + 1 ELSE 0
        /\ \A i \in 1..(Len(s) - 4 + 1) : SubSeq(s, 4, Len(s))[i] = s[4 + i - 1]
    BY <2>1, SubSeqProperties
  <2>. DEFINE q == SubSeq(s, 4, Len(s))
  <2>. HIDE DEF q
  <2>3. q \in Seq(L) /\ Len(q) = Len(m)
    BY <1>1, <2>2 DEF q
  <2>4. \A i \in 1..Len(q) : q[i] = m[i]
    <3>1. SUFFICES ASSUME NEW i \in 1..Len(q) PROVE q[i] = m[i]
      OBVIOUS
    <3>2. i \in 1..Len(m) /\ i \in 1..(Len(s) - 4 + 1) /\ 4 + i - 1 = 3 + i
      BY <1>1, <2>3
    <3>. QED  BY <1>1, <2>2, <3>2 DEF q
  <2>. QED  BY <1>2, <2>3, <2>4, SeqEqual, Zenon DEF q
<1>. QED  BY <1>3, <1>5, <1>6 DEF CommitMessageFromString, s, m, t

LEMMA TimesThatSurvive ==
    ASSUME NEW t \in Time
    PROVE  TimeFromString(StringFromTime(t)) = t <=> Readable(t)
<1>. DEFINE o == t.offset
            d == StringFromTime(t)
            p == ZoneOffset(ZoneNumber(ZoneText(o)))
<1>1. /\ t = [time |-> t.time, offset |-> o]
      /\ t.time \in Int /\ o \in Int /\ t # None
  BY CommitTextAssumption DEF Time
<1>2. d.wall = t.time + 60 * o /\ d.zone = ZoneText(o)
  BY DEF StringFromTime
<1>3. d # None
  <2>1. ZoneText(o) \in [sign : {-1, 1}, hours : Nat, minutes : Int]
    <3>. DEFINE h == Quotient(o, 60)
    <3>1. h \in Int /\ Remainder(o, 60) \in Int
      BY <1>1 DEF Quotient, Remainder
    <3>. HIDE DEF h
    <3>2. (IF h < 0 THEN -1 ELSE 1) \in {-1, 1} /\ (IF h < 0 THEN -h ELSE h) \in Nat
      BY <3>1
    <3>3. ZoneText(o) = [sign |-> IF h < 0 THEN -1 ELSE 1, hours |-> IF h < 0 THEN -h ELSE h,
                         minutes |-> Remainder(o, 60)]
      BY DEF ZoneText, h
    <3>. QED  BY <3>1, <3>2, <3>3
  <2>2. d = [wall |-> t.time + 60 * o, zone |-> ZoneText(o)] /\ t.time + 60 * o \in Int
    BY <1>1 DEF StringFromTime
  <2>3. d \in Written
    BY <2>1, <2>2 DEF Written
  <2>. QED  BY <2>3, CommitTextAssumption
<1>4. TimeFromString(d) = IF d.wall = -1 THEN None ELSE [time |-> d.wall - 60 * p, offset |-> p]
  BY <1>2, <1>3 DEF TimeFromString
<1>5. p = o <=> o >= 0 \/ o % 60 = 0
  BY <1>1, ZonesThatSurvive
<1>6. Readable(t) <=> p = o /\ d.wall # -1
  BY <1>2, <1>5 DEF Readable
<1>. HIDE DEF d, p, o
<1>7. CASE d.wall = -1
  BY <1>1, <1>4, <1>6, <1>7 DEF d
<1>8. CASE d.wall # -1 /\ p = o
  <2>1. d.wall - 60 * p = t.time
    BY <1>1, <1>2, <1>8
  <2>. QED  BY <1>1, <1>4, <1>6, <1>8, <2>1 DEF d
<1>9. CASE d.wall # -1 /\ p # o
  <2>1. TimeFromString(d).offset = p
    BY <1>4, <1>9
  <2>. QED  BY <1>6, <1>9, <2>1 DEF d, o
<1>. QED  BY <1>7, <1>8, <1>9

LEMMA DateIsTaken ==
    ASSUME NEW d \in Dates, d # None, d.wall # -1, d.zone.sign = 1 \/ d.zone.minutes = 0
    PROVE  LET t == [time |-> d.wall - 60 * Meant(d.zone), offset |-> Meant(d.zone)]
           IN  TimeFromString(d) = t /\ t # None
<1>1. d \in Date
  BY CommitTextAssumption
<1>2. d.wall \in Int /\ d.zone \in [sign : {-1, 1}, hours : Nat, minutes : 0..59]
  BY <1>1 DEF Date
<1>3. ZoneOffset(ZoneNumber(d.zone)) = Meant(d.zone)
  BY <1>2, ZoneIsTaken
<1>4. Meant(d.zone) \in Int
  BY <1>2 DEF Meant
<1>. DEFINE o == Meant(d.zone)
<1>. HIDE DEF o
<1>5. d.wall - 60 * o \in Int
  BY <1>2, <1>4 DEF o
<1>6. [time |-> d.wall - 60 * o, offset |-> o] \in Time
  BY <1>4, <1>5 DEF Time, o
<1>7. TimeFromString(d) = [time |-> d.wall - 60 * o, offset |-> o]
  BY <1>3 DEF TimeFromString, o
<1>. QED  BY <1>6, <1>7, CommitTextAssumption DEF o

(***************************************************************************)
(* The steps                                                               *)
(***************************************************************************)
LEMMA Start == Init => CommitTextInv
BY DEF Init, CommitTextInv, UntouchedStays, WrittenDateIsTaken

LEMMA OpenKeeps == CommitTextInv /\ Open => CommitTextInv'
<1>. SUFFICES ASSUME CommitTextInv, Open PROVE CommitTextInv'
  OBVIOUS
<1>1. orig' = orig /\ touched' = {} /\ phase' = "editor" /\ outcome' # "amended"
  BY DEF CommitTextInv, Open
<1>2. text' = StringFromCommitMessage(orig)
  BY DEF Open
<1>3. UntouchedStays' /\ WrittenDateIsTaken'
  BY <1>1 DEF UntouchedStays, WrittenDateIsTaken
<1>. QED  BY <1>1, <1>2, <1>3 DEF CommitTextInv, Open

LEMMA LeaveKeepsUntouched == CommitTextInv /\ Leave => UntouchedStays'
<1>. SUFFICES ASSUME CommitTextInv, Leave, touched = {} PROVE UntouchedStays'
  BY DEF Leave, UntouchedStays
<1>. DEFINE new == CommitMessageFromString(text)
            a == AuthorFrom(orig.author)
            t == TimeFromString(StringFromTime(orig.time))
<1>1. orig \in Originals /\ orig' = orig /\ text = StringFromCommitMessage(orig)
  BY DEF CommitTextInv, Leave
<1>2. /\ orig = [author |-> orig.author, time |-> orig.time, message |-> orig.message]
      /\ orig.author # None /\ orig.time \in Time
  BY <1>1, OriginalTypes
<1>3. new = [author |-> a, time |-> t, message |-> orig.message]
  BY <1>1, ReadBack
<1>4. a = orig.author <=> a # None
  BY <1>2 DEF AuthorFrom
<1>5. t = orig.time <=> Readable(orig.time)
  BY <1>2, TimesThatSurvive
<1>6. outcome' = "nop" <=> new = orig
  <2>1. CASE new = orig
    BY <2>1 DEF Leave
  <2>2. CASE new # orig /\ Invalid(OrOriginal(new.author, "author"))
    BY <2>2 DEF Leave
  <2>3. CASE new # orig /\ ~Invalid(OrOriginal(new.author, "author"))
    BY <2>3 DEF Leave
  <2>. QED  BY <2>1, <2>2, <2>3
<1>. HIDE DEF new, a, t
<1>7. new = orig <=> a = orig.author /\ t = orig.time
  BY <1>2, <1>3
<1>. QED  BY <1>1, <1>4, <1>5, <1>6, <1>7 DEF UntouchedStays, a

LEMMA LeaveKeepsDate == CommitTextInv /\ Leave => WrittenDateIsTaken'
<1>. SUFFICES ASSUME CommitTextInv, Leave, outcome' = "amended", touched = {"date"},
                     NEW i \in DOMAIN text,
                     i <= 2, text[i].prefix = "Date:",
                     text[i].rest # None, text[i].rest.wall # -1,
                     text[i].rest.zone.sign = 1 \/ text[i].rest.zone.minutes = 0
              PROVE  result'.time = [time |-> text[i].rest.wall - 60 * Meant(text[i].rest.zone),
                                     offset |-> Meant(text[i].rest.zone)]
  BY DEF Leave, WrittenDateIsTaken
<1>. DEFINE d == text[i].rest
            new == CommitMessageFromString(text)
<1>1. OnlyDateTouched(Dates)
  BY DEF CommitTextInv
<1>2. Len(text) \in Nat /\ i \in 1..Len(text)
  BY <1>1, LenProperties DEF OnlyDateTouched
<1>3. i # 1
  <2>1. text[1] = AuthorLine(orig.author)
    BY <1>1 DEF OnlyDateTouched
  <2>2. text[1].prefix = "Author:"
    BY ONLY <2>1, Prefixes
  <2>. QED  BY <2>2
<1>4. i = 2 /\ text[2] # Blank
  <2>1. i = 2
    BY <1>2, <1>3
  <2>2. Blank.prefix = "" /\ "" # "Date:"
    BY DEF Blank
  <2>. QED  BY <2>1, <2>2
<1>5. PICK e \in Dates : text[2] = DateLine(e)
  BY <1>1, <1>4 DEF OnlyDateTouched
<1>6. d = e
  BY <1>4, <1>5, Prefixes
<1>7. Len(text) >= 2 /\ text[1] = AuthorLine(orig.author)
  BY <1>1 DEF OnlyDateTouched
<1>8. new.time = TimeFromString(d)
  BY <1>2, <1>5, <1>6, <1>7, HeaderIsFound
<1>9. /\ TimeFromString(d) = [time |-> d.wall - 60 * Meant(d.zone), offset |-> Meant(d.zone)]
      /\ TimeFromString(d) # None
  BY <1>6, DateIsTaken
<1>10. result'.time = OrOriginal(new.time, "time")
  BY DEF Leave
<1>. QED  BY <1>8, <1>9, <1>10 DEF OrOriginal

LEMMA LeaveKeeps == CommitTextInv /\ Leave => CommitTextInv'
<1>. SUFFICES ASSUME CommitTextInv, Leave PROVE CommitTextInv'
  OBVIOUS
<1>1. UntouchedStays' /\ WrittenDateIsTaken'
  BY LeaveKeepsUntouched, LeaveKeepsDate
<1>2. phase' = "done" /\ orig' = orig /\ text' = text /\ touched' = touched
  BY DEF Leave
<1>3. OnlyDateTouched(Dates)' <=> OnlyDateTouched(Dates)
  BY <1>2 DEF OnlyDateTouched
<1>. QED  BY <1>1, <1>2, <1>3 DEF CommitTextInv

\* A text of which only the date was touched has the header of its commit, with the date there
\* was or one that the user may write.
LEMMA DateTouched ==
    ASSUME CommitTextInv, phase = "editor", touched \in {{}, {"date"}}
    PROVE  OnlyDateTouched(Dates \cup {StringFromTime(orig.time)})
<1>1. CASE touched = {}
  <2>1. text = StringFromCommitMessage(orig) /\ orig \in Originals
    BY <1>1 DEF CommitTextInv
  <2>2. /\ text \in Seq(LinesOf(orig)) /\ Len(text) = 3 + Len(orig.message)
        /\ Len(orig.message) \in Nat
        /\ text[1] = AuthorLine(orig.author) /\ text[2] = DateLine(StringFromTime(orig.time))
        /\ text[3] = Blank
    BY <2>1, TextOfACommit
  <2>. QED  BY <2>2 DEF OnlyDateTouched
<1>2. CASE touched = {"date"}
  BY <1>2 DEF CommitTextInv, OnlyDateTouched
<1>. QED  BY <1>1, <1>2

\* A change that is the first, or the next, of the date only.
LEMMA ChangeKeeps ==
    ASSUME CommitTextInv, NEW new, NEW what, Change(new, what),
           what = "date" /\ touched \in {{}, {"date"}} => OnlyDateTouched(Dates)'
    PROVE  CommitTextInv'
<1>1. /\ phase = "editor" /\ phase' = "editor" /\ orig' = orig /\ outcome' = outcome
      /\ touched' = touched \cup {what}
  BY DEF Change
<1>2. outcome' # "amended" /\ touched' # {}
  BY <1>1 DEF CommitTextInv
<1>3. touched' = {"date"} => OnlyDateTouched(Dates)'
  <2>1. SUFFICES ASSUME touched' = {"date"} PROVE what = "date" /\ touched \in {{}, {"date"}}
    OBVIOUS
  <2>. QED  BY <1>1, <2>1
<1>4. UntouchedStays' /\ WrittenDateIsTaken'
  BY <1>1, <1>2 DEF UntouchedStays, WrittenDateIsTaken
<1>. QED  BY <1>1, <1>2, <1>3, <1>4 DEF CommitTextInv

LEMMA WriteDateKeeps ==
    ASSUME CommitTextInv, NEW i \in 1..2, NEW d \in Dates, WriteDate(i, d)
    PROVE  CommitTextInv'
<1>1. Change([text EXCEPT ![i] = DateLine(d)], "date") /\ HasPrefix(text, i, "Date:")
  BY DEF WriteDate
<1>2. ASSUME touched \in {{}, {"date"}} PROVE OnlyDateTouched(Dates)'
  <2>. DEFINE L == LinesOf(orig)
  <2>1. OnlyDateTouched(Dates \cup {StringFromTime(orig.time)})
    BY <1>1, <1>2, DateTouched DEF Change
  <2>2. text[i].prefix = "Date:" /\ i <= Len(text)
    BY <1>1 DEF HasPrefix
  <2>3. i = 2
    <3>1. text[1] = AuthorLine(orig.author)
      BY <2>1 DEF OnlyDateTouched
    <3>2. text[1].prefix = "Author:"
      BY <3>1, Prefixes
    <3>. QED  BY <2>2, <3>2
  <2>4. text[2] # Blank
    <3>1. Blank.prefix = "" /\ "" # "Date:"
      BY DEF Blank
    <3>. QED  BY <2>2, <2>3, <3>1
  <2>5. /\ text \in Seq(L) /\ Len(text) \in Nat /\ Len(text) >= 3
        /\ text[1] = AuthorLine(orig.author) /\ text[3] = Blank
    BY <2>1, <2>4, LenProperties DEF OnlyDateTouched
  <2>6. DateLine(d) \in L
    BY DEF LinesOf
  <2>7. text' = [text EXCEPT ![2] = DateLine(d)] /\ orig' = orig
    BY <1>1, <2>3 DEF Change
  <2>. HIDE DEF L
  <2>8. /\ text' \in Seq(L) /\ Len(text') = Len(text)
        /\ text'[1] = text[1] /\ text'[2] = DateLine(d) /\ text'[3] = text[3]
    BY <2>5, <2>6, <2>7
  <2>. QED  BY <2>5, <2>7, <2>8 DEF OnlyDateTouched, L
<1>. QED  BY <1>1, <1>2, ChangeKeeps

LEMMA DeleteLineKeeps ==
    ASSUME CommitTextInv, NEW i \in 1..2, DeleteLine(i)
    PROVE  CommitTextInv'
<1>1. CASE HasPrefix(text, i, "Author:") /\ Change(Without(text, i), "author")
  BY <1>1, ChangeKeeps
<1>2. CASE HasPrefix(text, i, "Date:") /\ Change(Without(text, i), "date")
  <2>1. ASSUME touched \in {{}, {"date"}} PROVE OnlyDateTouched(Dates)'
    <3>. DEFINE L == LinesOf(orig)
                p == SubSeq(text, 1, 1)
                q == SubSeq(text, 3, Len(text))
    <3>1. OnlyDateTouched(Dates \cup {StringFromTime(orig.time)})
      BY <1>2, <2>1, DateTouched DEF Change
    <3>2. text[i].prefix = "Date:" /\ i <= Len(text)
      BY <1>2 DEF HasPrefix
    <3>3. i = 2
      <4>1. text[1] = AuthorLine(orig.author)
        BY <3>1 DEF OnlyDateTouched
      <4>2. text[1].prefix = "Author:"
        BY <4>1, Prefixes
      <4>. QED  BY <3>2, <4>2
    <3>4. text[2] # Blank
      <4>1. Blank.prefix = "" /\ "" # "Date:"
        BY DEF Blank
      <4>. QED  BY <3>2, <3>3, <4>1
    <3>5. /\ text \in Seq(L) /\ Len(text) \in Nat /\ Len(text) >= 3
          /\ text[1] = AuthorLine(orig.author) /\ text[3] = Blank
      BY <3>1, <3>4, LenProperties DEF OnlyDateTouched
    <3>6. text' = p \o q /\ orig' = orig
      BY <1>2, <3>3 DEF Change, Without
    <3>. HIDE DEF L
    <3>7. p \in Seq(L) /\ Len(p) = 1 /\ p[1] = text[1]
      BY <3>5
    <3>8. q \in Seq(L) /\ Len(q) >= 1 /\ Len(q) \in Nat /\ q[1] = text[3]
      BY <3>5
    <3>. HIDE DEF p, q
    <3>9. /\ p \o q \in Seq(L) /\ Len(p \o q) >= 2
          /\ (p \o q)[1] = text[1] /\ (p \o q)[2] = text[3]
      <4>1. /\ p \o q \in Seq(L)
            /\ Len(p \o q) = Len(p) + Len(q)
            /\ \A k \in 1..(Len(p) + Len(q)) : (p \o q)[k] = IF k <= Len(p) THEN p[k] ELSE q[k - Len(p)]
        BY <3>7, <3>8, ConcatProperties
      <4>2. 1 \in 1..(Len(p) + Len(q)) /\ 2 \in 1..(Len(p) + Len(q))
        BY <3>7, <3>8
      <4>. QED  BY <3>7, <3>8, <4>1, <4>2
    <3>. QED  BY <3>5, <3>6, <3>9 DEF OnlyDateTouched, L
  <2>. QED  BY <1>2, <2>1, ChangeKeeps
<1>. QED  BY <1>1, <1>2 DEF DeleteLine

LEMMA OthersKeep ==
    ASSUME CommitTextInv,
           \/ \E i \in 1..2, a \in Authors : WriteAuthor(i, a)
           \/ \E m \in Messages : WriteMessage(m)
           \/ Swap
           \/ Unprefix
    PROVE  CommitTextInv'
<1>1. ASSUME NEW i \in 1..2, NEW a \in Authors, WriteAuthor(i, a) PROVE CommitTextInv'
  <2>1. Change([text EXCEPT ![i] = AuthorLine(a)], "author")
    BY <1>1 DEF WriteAuthor
  <2>. QED  BY <2>1, ChangeKeeps
<1>2. ASSUME NEW m \in Messages, WriteMessage(m) PROVE CommitTextInv'
  <2>1. Change(SubSeq(text, 1, 3) \o m, "message")
    BY <1>2 DEF WriteMessage
  <2>. QED  BY <2>1, ChangeKeeps
<1>3. CASE Swap
  <2>1. Change(<<text[2], text[1]>> \o SubSeq(text, 3, Len(text)), "order")
    BY <1>3 DEF Swap
  <2>. QED  BY <2>1, ChangeKeeps
<1>4. CASE Unprefix
  <2>1. Change([text EXCEPT ![1].prefix = "text"], "order")
    BY <1>4 DEF Unprefix
  <2>. QED  BY <2>1, ChangeKeeps
<1>. QED  BY <1>1, <1>2, <1>3, <1>4

LEMMA StutterKeeps == CommitTextInv /\ UNCHANGED vars => CommitTextInv'
BY DEF vars, CommitTextInv, OnlyDateTouched, UntouchedStays, WrittenDateIsTaken

LEMMA StepKeeps == CommitTextInv /\ [Next]_vars => CommitTextInv'
<1>. SUFFICES ASSUME CommitTextInv, [Next]_vars PROVE CommitTextInv'
  OBVIOUS
<1>1. CASE Open
  BY <1>1, OpenKeeps
<1>2. CASE Leave
  BY <1>2, LeaveKeeps
<1>3. ASSUME NEW i \in 1..2, NEW d \in Dates, WriteDate(i, d) PROVE CommitTextInv'
  BY <1>3, WriteDateKeeps
<1>4. ASSUME NEW i \in 1..2, DeleteLine(i) PROVE CommitTextInv'
  BY <1>4, DeleteLineKeeps
<1>5. CASE \/ \E i \in 1..2, a \in Authors : WriteAuthor(i, a)
           \/ \E m \in Messages : WriteMessage(m)
           \/ Swap
           \/ Unprefix
  BY <1>5, OthersKeep
<1>6. CASE UNCHANGED vars
  BY <1>6, StutterKeeps
<1>. QED  BY <1>1, <1>2, <1>3, <1>4, <1>5, <1>6 DEF Next, User

(***************************************************************************)
(* What the user leaves alone                                              *)
(***************************************************************************)

\* Where the loops of _CommitMessageFromString() find a header of k lines and what is below it.
LEMMA HeaderIsParsed ==
    ASSUME NEW s, Len(s) \in Nat, NEW k \in 0..2, k + 1 <= Len(s), s[k + 1] = Blank,
           k = 1 => s[1].prefix \in {"Author:", "Date:"},
           k = 2 => s[1].prefix = "Author:" /\ s[2].prefix = "Date:"
    PROVE  /\ k > 0 => NonBlank(s, 1) = 1
           /\ k = 1 /\ s[1].prefix = "Date:" => DateStarts(s) = 1
           /\ k = 2 => DateStarts(s) = 2 /\ NonBlank(s, 2) = 2
           /\ (k + 2 <= Len(s) => s[k + 2] # Blank /\ s[k + 2].prefix \notin {"Author:", "Date:"})
                 => NonBlank(s, Sought(s, DateStarts(s), "Date:")) = k + 2
<1>. DEFINE Plain2(i) == i <= Len(s) => s[i] # Blank /\ s[i].prefix \notin {"Author:", "Date:"}
<1>1. /\ Blank.prefix = "" /\ "" # "Author:" /\ "" # "Date:" /\ "Author:" # "Date:"
  BY Prefixes
<1>2. CASE k = 0
  <2>1. SUFFICES ASSUME Plain2(2)
                 PROVE  NonBlank(s, Sought(s, DateStarts(s), "Date:")) = 2
    BY <1>2
  <2>2. s[1] = Blank /\ 1 \in 1..Len(s) /\ 2 \in 1..(Len(s) + 1)
    BY <1>2
  <2>3. NonBlank(s, 1) = 2
    <3>1. NonBlank(s, 1) = 1 + 1
      BY <2>1, <2>2, NonBlankNext
    <3>. QED  BY <3>1
  <2>4. NonBlank(s, 2) = 2
    BY <2>1, <2>2, NonBlankHere
  <2>5. ~HasPrefix(s, 2, "Author:") /\ ~HasPrefix(s, 2, "Date:")
    BY <2>1 DEF HasPrefix
  <2>6. DateStarts(s) = 2
    BY <2>3, <2>5 DEF DateStarts, Sought
  <2>7. Sought(s, 2, "Date:") = 2
    BY <2>4, <2>5 DEF Sought
  <2>. QED  BY <2>4, <2>6, <2>7
<1>3. CASE k = 1
  <2>1. s[1] # Blank /\ s[2] = Blank /\ 1 \in 1..(Len(s) + 1) /\ 2 \in 1..Len(s) /\ 1 <= Len(s)
    <3>1. k + 1 = 2 /\ 1 \in 1..(Len(s) + 1) /\ 2 \in 1..Len(s) /\ 1 <= Len(s)
      BY <1>3
    <3>2. s[1].prefix = "Author:" \/ s[1].prefix = "Date:"
      BY <1>3
    <3>3. s[1] # Blank
      BY <1>1, <3>2, Zenon
    <3>4. s[2] = Blank
      BY <3>1, Zenon
    <3>. QED  BY <3>1, <3>3, <3>4
  <2>2. NonBlank(s, 1) = 1
    BY <2>1, NonBlankHere
  <2>3. HasPrefix(s, 1, "Author:") <=> s[1].prefix = "Author:"
    BY <2>1 DEF HasPrefix
  <2>4. HasPrefix(s, 1, "Date:") <=> s[1].prefix = "Date:"
    BY <2>1 DEF HasPrefix
  <2>5. s[1].prefix = "Date:" => DateStarts(s) = 1
    <3>1. SUFFICES ASSUME s[1].prefix = "Date:" PROVE DateStarts(s) = 1
      OBVIOUS
    <3>2. ~HasPrefix(s, 1, "Author:")
      BY <1>1, <2>3, <3>1, Zenon
    <3>. QED  BY <2>2, <3>2 DEF DateStarts, Sought
  <2>6. ASSUME Plain2(3) PROVE NonBlank(s, Sought(s, DateStarts(s), "Date:")) = 3
    <3>1. NonBlank(s, 2) = 3
      <4>1. 2 + 1 <= Len(s) => s[2 + 1] # Blank
        BY <2>6
      <4>2. NonBlank(s, 2) = 2 + 1
        BY <2>1, <4>1, NonBlankNext
      <4>. QED  BY <4>2
    <3>2. CASE s[1].prefix = "Author:"
      <4>1. DateStarts(s) = 2
        BY <2>2, <2>3, <3>2 DEF DateStarts, Sought
      <4>2. ~HasPrefix(s, 3, "Date:")
        BY <2>6 DEF HasPrefix
      <4>3. Sought(s, 2, "Date:") = 3
        BY <3>1, <4>2 DEF Sought
      <4>4. 3 \in 1..(Len(s) + 1)
        BY <2>1
      <4>5. NonBlank(s, 3) = 3
        BY <2>6, <4>4, NonBlankHere
      <4>. QED  BY <4>1, <4>3, <4>5
    <3>3. CASE s[1].prefix = "Date:"
      <4>1. Sought(s, 1, "Date:") = 2
        BY <2>2, <2>4, <3>3 DEF Sought
      <4>. QED  BY <2>5, <3>1, <3>3, <4>1
    <3>. QED  BY <1>3, <3>2, <3>3
  <2>. QED  BY <1>3, <2>2, <2>5, <2>6
<1>4. CASE k = 2
  <2>1. /\ s[1] # Blank /\ s[2] # Blank /\ s[3] = Blank
        /\ 1 \in 1..(Len(s) + 1) /\ 2 \in 1..(Len(s) + 1) /\ 3 \in 1..Len(s)
        /\ 1 <= Len(s) /\ 2 <= Len(s)
    <3>1. /\ k + 1 = 3 /\ 1 \in 1..(Len(s) + 1) /\ 2 \in 1..(Len(s) + 1) /\ 3 \in 1..Len(s)
          /\ 1 <= Len(s) /\ 2 <= Len(s)
      BY <1>4
    <3>2. s[1].prefix = "Author:" /\ s[2].prefix = "Date:"
      BY <1>4
    <3>3. s[1] # Blank /\ s[2] # Blank
      BY <1>1, <3>2, Zenon
    <3>4. s[3] = Blank
      BY <3>1, Zenon
    <3>. QED  BY <3>1, <3>3, <3>4
  <2>2. NonBlank(s, 1) = 1 /\ NonBlank(s, 2) = 2
    BY <2>1, NonBlankHere
  <2>3. HasPrefix(s, 1, "Author:") /\ HasPrefix(s, 2, "Date:")
    BY <1>4, <2>1 DEF HasPrefix
  <2>4. DateStarts(s) = 2
    BY <2>2, <2>3 DEF DateStarts, Sought
  <2>5. Sought(s, 2, "Date:") = 3
    BY <2>2, <2>3 DEF Sought
  <2>6. ASSUME Plain2(4) PROVE NonBlank(s, 3) = 4
    <3>1. 3 + 1 <= Len(s) => s[3 + 1] # Blank
      BY <2>6
    <3>2. NonBlank(s, 3) = 3 + 1
      BY <2>1, <3>1, NonBlankNext
    <3>. QED  BY <3>2
  <2>. QED  BY <1>4, <2>2, <2>4, <2>5, <2>6
<1>. QED  BY <1>2, <1>3, <1>4

\* The text without one of its lines.
LEMMA WithoutLine ==
    ASSUME NEW T, NEW s \in Seq(T), NEW i \in 1..Len(s)
    PROVE  /\ Len(s) \in Nat
           /\ Without(s, i) \in Seq(T) /\ Len(Without(s, i)) = Len(s) - 1
           /\ \A j \in 1..(Len(s) - 1) : Without(s, i)[j] = IF j < i THEN s[j] ELSE s[j + 1]
<1>. DEFINE n == Len(s)
            p == SubSeq(s, 1, i - 1)
            q == SubSeq(s, i + 1, n)
<1>1. n \in Nat /\ i \in Nat /\ 1 <= i /\ i <= n /\ \A j \in 1..n : s[j] \in T
  BY LenProperties, ElementOfSeq
<1>2. p \in Seq(T) /\ Len(p) = i - 1 /\ \A j \in 1..(i - 1) : p[j] = s[j]
  BY <1>1
<1>3. q \in Seq(T) /\ Len(q) = n - i /\ \A j \in 1..(n - i) : q[j] = s[i + j]
  BY <1>1
<1>4. Without(s, i) = p \o q
  BY DEF Without
<1>. HIDE DEF p, q, n
<1>5. /\ p \o q \in Seq(T) /\ Len(p \o q) = Len(p) + Len(q)
      /\ \A j \in 1..(Len(p) + Len(q)) : (p \o q)[j] = IF j <= Len(p) THEN p[j] ELSE q[j - Len(p)]
  BY <1>2, <1>3, ConcatProperties
<1>. DEFINE t == p \o q
<1>. HIDE DEF t
<1>6. t \in Seq(T) /\ Len(t) = n - 1
  BY <1>1, <1>2, <1>3, <1>5 DEF t
<1>7. ASSUME NEW j \in 1..(n - 1) PROVE t[j] = IF j < i THEN s[j] ELSE s[j + 1]
  <2>1. j \in 1..(Len(p) + Len(q))
    BY <1>1, <1>2, <1>3
  <2>2. CASE j < i
    <3>1. j \in 1..(i - 1) /\ j <= Len(p)
      BY <1>1, <1>2, <2>2
    <3>. QED  BY <1>2, <1>5, <2>1, <2>2, <3>1 DEF t
  <2>3. CASE ~(j < i)
    <3>. DEFINE l == j - (i - 1)
    <3>1. ~(j <= Len(p)) /\ j - Len(p) = l /\ l \in 1..(n - i) /\ i + l = j + 1
      BY <1>1, <1>2, <2>3
    <3>. HIDE DEF l
    <3>2. t[j] = q[l]
      BY <1>5, <2>1, <3>1 DEF t
    <3>3. q[l] = s[j + 1]
      BY <1>3, <3>1
    <3>. QED  BY <2>3, <3>2, <3>3
  <2>. QED  BY <2>2, <2>3
<1>. QED  BY <1>1, <1>4, <1>6, <1>7 DEF t, n

LEMMA LinesStay ==
    ASSUME orig' = orig
    PROVE  AllLines' = AllLines
BY DEF AllLines, LinesOf

\* The text that is opened.
LEMMA OpenedText == orig \in Originals /\ text = StringFromCommitMessage(orig) => HeaderLeft(2)
<1>. SUFFICES ASSUME orig \in Originals, text = StringFromCommitMessage(orig) PROVE HeaderLeft(2)
  OBVIOUS
<1>. DEFINE m == orig.message
            d == StringFromTime(orig.time)
<1>1. /\ text \in Seq(LinesOf(orig)) /\ Len(text) = 3 + Len(m) /\ Len(m) \in Nat
      /\ text[1] = AuthorLine(orig.author) /\ text[2] = DateLine(d) /\ text[3] = Blank
      /\ \A j \in 1..Len(m) : text[3 + j] = m[j]
  BY TextOfACommit
<1>2. text \in Seq(AllLines)
  <2>. DEFINE L == LinesOf(orig)
              A == AllLines
  <2>1. L \subseteq A
    BY DEF AllLines
  <2>. HIDE DEF L, A
  <2>. QED  BY <1>1, <2>1, SeqMonotonic DEF L, A
<1>3. text[1].prefix = "Author:" /\ text[2].prefix = "Date:"
  <2>1. \A x : AuthorLine(x).prefix = "Author:" /\ DateLine(x).prefix = "Date:"
    BY Prefixes
  <2>. HIDE DEF m, d
  <2>. QED  BY <1>1, <2>1, Zenon
<1>. HIDE DEF m, d
<1>. QED  BY <1>1, <1>2, <1>3 DEF HeaderLeft, m, d

\* A header line is written anew.
LEMMA WriteLeaves ==
    ASSUME NEW k \in 0..2, HeaderLeft(k), NEW i \in 1..2, NEW line, NEW p, NEW what,
           \/ p = "Author:" /\ what = "author"
           \/ p = "Date:" /\ what = "date",
           HasPrefix(text, i, p), line.prefix = p, line \in AllLines,
           orig' = orig, touched' = touched \cup {what}, text' = [text EXCEPT ![i] = line],
           orig \in Originals
    PROVE  HeaderLeft(k)'
<1>1. /\ text \in Seq(AllLines) /\ Len(text) \in Nat /\ i \in 1..Len(text) /\ text[i].prefix = p
      /\ k + 1 <= Len(text) /\ text[k + 1] = Blank
  BY LenProperties DEF HeaderLeft, HasPrefix
<1>2. /\ text' \in Seq(AllLines) /\ Len(text') = Len(text)
      /\ \A j \in 1..Len(text) : text'[j] = IF j = i THEN line ELSE text[j]
  <2>. DEFINE A == AllLines
  <2>1. text \in [1..Len(text) -> A]
    BY <1>1, LenProperties
  <2>. HIDE DEF A
  <2>. QED  BY <1>1, <2>1 DEF A
<1>3. /\ \A x : Blank.prefix # p /\ AuthorLine(x).prefix = "Author:" /\ DateLine(x).prefix = "Date:"
      /\ "Author:" # "Date:" /\ "author" # "date" /\ what # "message"
  BY Prefixes
<1>4. \A j \in 1..Len(text) : text'[j].prefix = text[j].prefix
  BY <1>1, <1>2
<1>5. text'[k + 1] = Blank
  BY <1>1, <1>2, <1>3
<1>6. /\ k = 1 => text'[1].prefix \in {"Author:", "Date:"}
      /\ k = 2 => text'[1].prefix = "Author:" /\ text'[2].prefix = "Date:"
  BY <1>1, <1>4 DEF HeaderLeft
<1>7. "author" \notin touched' => k > 0 /\ text'[1] = AuthorLine(orig.author)
  <2>1. SUFFICES ASSUME "author" \notin touched' PROVE k > 0 /\ text'[1] = AuthorLine(orig.author)
    OBVIOUS
  <2>2. what = "date" /\ p = "Date:" /\ k > 0 /\ text[1] = AuthorLine(orig.author)
    BY <2>1 DEF HeaderLeft
  <2>3. i # 1 /\ 1 \in 1..Len(text)
    BY <1>1, <1>3, <2>2
  <2>. QED  BY <1>2, <2>2, <2>3
<1>8. "date" \notin touched' => k > 0 /\ text'[k] = DateLine(StringFromTime(orig.time))
  <2>1. SUFFICES ASSUME "date" \notin touched'
                 PROVE  k > 0 /\ text'[k] = DateLine(StringFromTime(orig.time))
    OBVIOUS
  <2>2. what = "author" /\ p = "Author:" /\ k > 0 /\ text[k] = DateLine(StringFromTime(orig.time))
    BY <2>1 DEF HeaderLeft
  <2>3. i # k /\ k \in 1..Len(text)
    BY <1>1, <1>3, <2>2
  <2>. QED  BY <1>2, <2>2, <2>3
<1>9. ASSUME "message" \notin touched', Plain(orig.message)
      PROVE  /\ Len(text') = k + 1 + Len(orig.message)
             /\ \A j \in 1..Len(orig.message) : text'[k + 1 + j] = orig.message[j]
  <2>. DEFINE m == orig.message
  <2>1. Len(text) = k + 1 + Len(m) /\ \A j \in 1..Len(m) : text[k + 1 + j] = m[j]
    BY <1>9 DEF HeaderLeft
  <2>2. Len(m) \in Nat /\ DOMAIN m = 1..Len(m)
    BY OriginalTypes, LenProperties
  <2>3. ASSUME NEW j \in 1..Len(m) PROVE text'[k + 1 + j] = m[j]
    <3>. DEFINE l == k + 1 + j
    <3>4. \A x \in DOMAIN m : m[x].prefix # "Author:" /\ m[x].prefix # "Date:"
      BY <1>9 DEF Plain
    <3>. HIDE DEF m
    <3>5. text[l] = m[j] /\ m[j].prefix # p
      BY <2>1, <2>2, <3>4
    <3>6. l \in 1..Len(text)
      BY <1>1, <2>1, <2>2
    <3>. HIDE DEF l
    <3>1. l \in 1..Len(text) /\ text[l] = m[j] /\ m[j].prefix # p
      BY <3>5, <3>6
    <3>2. l # i
      BY <1>1, <3>1
    <3>3. text'[l] = m[j]
      BY <1>2, <3>1, <3>2
    <3>. QED  BY <3>3 DEF l
  <2>. QED  BY <1>2, <2>1, <2>3
<1>. QED  BY <1>1, <1>2, <1>5, <1>6, <1>7, <1>8, <1>9, LinesStay DEF HeaderLeft

\* A header line is deleted.
LEMMA DeleteLeaves ==
    ASSUME NEW k \in 0..2, HeaderLeft(k), NEW i \in 1..2, NEW p, NEW what,
           \/ p = "Author:" /\ what = "author"
           \/ p = "Date:" /\ what = "date",
           HasPrefix(text, i, p),
           orig' = orig, touched' = touched \cup {what}, text' = Without(text, i),
           orig \in Originals
    PROVE  \E l \in 0..2 : HeaderLeft(l)'
<1>. DEFINE l == IF i <= k THEN k - 1 ELSE k
<1>1. /\ text \in Seq(AllLines) /\ Len(text) \in Nat /\ i \in 1..Len(text) /\ text[i].prefix = p
      /\ k + 1 <= Len(text) /\ text[k + 1] = Blank
  BY LenProperties DEF HeaderLeft, HasPrefix
<1>2. /\ text' \in Seq(AllLines) /\ Len(text') = Len(text) - 1
      /\ \A j \in 1..(Len(text) - 1) : text'[j] = IF j < i THEN text[j] ELSE text[j + 1]
  BY <1>1, WithoutLine
<1>3. /\ \A x : Blank.prefix # p /\ AuthorLine(x).prefix = "Author:" /\ DateLine(x).prefix = "Date:"
      /\ "Author:" # "Date:" /\ "author" # "date" /\ what # "message"
  BY Prefixes
<1>4. i # k + 1
  BY <1>1, <1>3
<1>5. /\ i <= k => l = k - 1 /\ l + 1 = k
      /\ ~(i <= k) => l = k /\ k = 0 /\ i = 2
      /\ l \in 0..2
  BY <1>4
<1>. HIDE DEF l
<1>6. l + 1 <= Len(text') /\ text'[l + 1] = Blank
  <2>1. CASE i <= k
    BY <1>1, <1>2, <1>5, <2>1
  <2>2. CASE ~(i <= k)
    BY <1>1, <1>2, <1>5, <2>2
  <2>. QED  BY <2>1, <2>2
<1>7. /\ l = 1 => text'[1].prefix \in {"Author:", "Date:"}
      /\ l # 2
  <2>1. ASSUME l = 1 PROVE text'[1].prefix \in {"Author:", "Date:"}
    <3>1. k = 2 /\ text[1].prefix = "Author:" /\ text[2].prefix = "Date:"
      BY <1>5, <2>1 DEF HeaderLeft
    <3>2. text'[1] = IF 1 < i THEN text[1] ELSE text[2]
      BY <1>1, <1>2, <3>1
    <3>. QED  BY <3>1, <3>2
  <2>. QED  BY <1>5, <2>1
<1>8. "author" \notin touched' => l > 0 /\ text'[1] = AuthorLine(orig.author)
  <2>1. SUFFICES ASSUME "author" \notin touched' PROVE l > 0 /\ text'[1] = AuthorLine(orig.author)
    OBVIOUS
  <2>2. what = "date" /\ p = "Date:" /\ k > 0 /\ text[1] = AuthorLine(orig.author)
    BY <2>1 DEF HeaderLeft
  <2>3. i # 1
    BY <1>1, <1>3, <2>2
  <2>4. i = 2 /\ k = 2 /\ l = 1
    BY <1>5, <2>2, <2>3
  <2>. QED  BY <1>1, <1>2, <2>2, <2>4
<1>9. "date" \notin touched' => l > 0 /\ text'[l] = DateLine(StringFromTime(orig.time))
  <2>1. SUFFICES ASSUME "date" \notin touched'
                 PROVE  l > 0 /\ text'[l] = DateLine(StringFromTime(orig.time))
    OBVIOUS
  <2>2. what = "author" /\ p = "Author:" /\ k > 0 /\ text[k] = DateLine(StringFromTime(orig.time))
    BY <2>1 DEF HeaderLeft
  <2>3. i # k
    BY <1>1, <1>3, <2>2
  <2>4. i = 1 /\ k = 2 /\ l = 1
    BY <1>5, <2>2, <2>3
  <2>5. text'[1] = text[2]
    BY <1>1, <1>2, <2>4
  <2>. QED  BY <2>2, <2>4, <2>5
<1>10. ASSUME "message" \notin touched', Plain(orig.message)
       PROVE  /\ Len(text') = l + 1 + Len(orig.message)
              /\ \A j \in 1..Len(orig.message) : text'[l + 1 + j] = orig.message[j]
  <2>. DEFINE m == orig.message
  <2>1. Len(text) = k + 1 + Len(m) /\ \A j \in 1..Len(m) : text[k + 1 + j] = m[j]
    BY <1>10 DEF HeaderLeft
  <2>2. Len(m) \in Nat /\ DOMAIN m = 1..Len(m)
    BY OriginalTypes, LenProperties
  <2>3. i <= k
    <3>1. SUFFICES ASSUME ~(i <= k) PROVE FALSE
      OBVIOUS
    <3>2. k = 0 /\ i = 2 /\ 1 \in 1..Len(m)
      BY <1>1, <1>5, <2>1, <2>2, <3>1
    <3>3. text[2] = m[1] /\ m[1].prefix # p
      <4>1. text[k + 1 + 1] = m[1] /\ k + 1 + 1 = 2
        BY <2>1, <3>2
      <4>. QED  BY <1>10, <2>2, <3>2, <4>1 DEF Plain
    <3>. QED  BY <1>1, <3>2, <3>3
  <2>4. ASSUME NEW j \in 1..Len(m) PROVE text'[l + 1 + j] = m[j]
    <3>. DEFINE x == l + 1 + j
    <3>. HIDE DEF m
    <3>1. x \in 1..(Len(text) - 1) /\ ~(x < i) /\ x + 1 = k + 1 + j
      BY <1>1, <1>5, <2>1, <2>2, <2>3
    <3>. HIDE DEF x
    <3>2. text'[x] = text[x + 1]
      BY <1>2, <3>1
    <3>3. text'[x] = m[j]
      BY <2>1, <3>1, <3>2
    <3>. QED  BY <3>3 DEF x
  <2>5. Len(text') = l + 1 + Len(m)
    <3>. HIDE DEF m
    <3>. QED  BY <1>1, <1>2, <1>5, <2>1, <2>2, <2>3
  <2>. QED  BY <2>4, <2>5
<1>11. HeaderLeft(l)'
  BY <1>2, <1>6, <1>7, <1>8, <1>9, <1>10, LinesStay DEF HeaderLeft
<1>. QED  BY <1>5, <1>11

\* The user writes another message.
LEMMA WriteMessageLeaves ==
    ASSUME orig \in Originals, text = StringFromCommitMessage(orig), NEW m \in Messages,
           orig' = orig, touched' = touched \cup {"message"}, text' = SubSeq(text, 1, 3) \o m
    PROVE  HeaderLeft(2)'
<1>. DEFINE A == AllLines
            M == {m[i] : i \in DOMAIN m}
            h == SubSeq(text, 1, 3)
<1>1. HeaderLeft(2)
  BY OpenedText
<1>2. /\ text \in Seq(A) /\ Len(text) \in Nat /\ 3 <= Len(text)
      /\ text[1].prefix = "Author:" /\ text[2].prefix = "Date:" /\ text[3] = Blank
      /\ "author" \notin touched => text[1] = AuthorLine(orig.author)
      /\ "date" \notin touched => text[2] = DateLine(StringFromTime(orig.time))
  BY <1>1, LenProperties DEF HeaderLeft
<1>3. m \in Seq(A) /\ Len(m) \in Nat
  <2>1. m \in Seq(M)
    BY CommitTextAssumption
  <2>2. M \subseteq A
    BY DEF AllLines
  <2>. HIDE DEF M, A
  <2>. QED  BY <2>1, <2>2, LenProperties
<1>. HIDE DEF A, M
<1>4. h \in Seq(A) /\ Len(h) = 3 /\ h[1] = text[1] /\ h[2] = text[2] /\ h[3] = text[3]
  BY <1>2
<1>. HIDE DEF h
<1>5. /\ h \o m \in Seq(A)
      /\ Len(h \o m) = Len(h) + Len(m)
      /\ \A i \in 1..(Len(h) + Len(m)) : (h \o m)[i] = IF i <= Len(h) THEN h[i] ELSE m[i - Len(h)]
  BY <1>3, <1>4, ConcatProperties
<1>. DEFINE t == h \o m
<1>. HIDE DEF t
<1>6. t \in Seq(A) /\ 3 <= Len(t) /\ t[1] = text[1] /\ t[2] = text[2] /\ t[3] = text[3]
  BY <1>3, <1>4, <1>5 DEF t
<1>7. text' = t
  BY DEF h, t
<1>8. text' \in Seq(AllLines')
  BY <1>6, <1>7, LinesStay DEF A
<1>. QED  BY <1>2, <1>6, <1>7, <1>8 DEF HeaderLeft

\* What is left of the blank lines.
LEMMA NonBlankIn ==
    ASSUME NEW s, Len(s) \in Nat, NEW i \in 1..(Len(s) + 1)
    PROVE  NonBlank(s, i) \in i..(Len(s) + 1)
<1>. DEFINE P(k) == /\ k <= Len(s) => s[k] # Blank
                    /\ \A j \in i..(k - 1) : s[j] = Blank
            T == {k \in i..(Len(s) + 1) : k <= Len(s) => s[k] # Blank}
<1>1. T \in SUBSET Nat /\ T # {}
  <2>1. Len(s) + 1 \in T
    OBVIOUS
  <2>. QED  BY <2>1
<1>2. PICK k \in T : \A n \in T : ~(<<n, k>> \in OpToRel(<, Nat))
  BY <1>1, NatLessThanWellFounded, WFMin, Zenon
<1>3. k \in Nat /\ \A n \in T : n \in Nat /\ ~(n < k)
  BY <1>1, <1>2, Zenon DEF OpToRel
<1>6. k \in i..(Len(s) + 1) /\ (k <= Len(s) => s[k] # Blank)
  BY <1>2
<1>4. k \in i..(Len(s) + 1) /\ P(k)
  <2>1. ASSUME NEW j \in i..(k - 1) PROVE s[j] = Blank
    <3>1. j \in i..(Len(s) + 1) /\ j < k /\ j <= Len(s)
      <4>. HIDE DEF T
      <4>. QED  BY <1>6
    <3>2. j \notin T
      BY <1>3, <3>1
    <3>. QED  BY <3>1, <3>2
  <2>. QED  BY <1>6, <2>1
<1>5. NonBlank(s, i) = CHOOSE x \in i..(Len(s) + 1) : P(x)
  BY DEF NonBlank
<1>. HIDE DEF P
<1>. QED  BY <1>4, <1>5

LEMMA SoughtIn ==
    ASSUME NEW s, Len(s) \in Nat, NEW i \in 1..(Len(s) + 1), NEW p
    PROVE  Sought(s, i, p) \in i..(Len(s) + 1)
<1>1. NonBlank(s, i) \in i..(Len(s) + 1)
  BY NonBlankIn
<1>. QED  BY <1>1 DEF Sought, HasPrefix

\* Where there is no line to read an author or a date from, none is read.
LEMMA NothingToRead ==
    ASSUME Len(text) \in Nat, DOMAIN text = 1..Len(text)
    PROVE  /\ AuthorLines = {} => CommitMessageFromString(text).author = None
           /\ DateLines = {} => CommitMessageFromString(text).time = None
<1>. DEFINE a == NonBlank(text, 1)
            d == NonBlank(text, DateStarts(text))
<1>1. a \in 1..(Len(text) + 1)
  BY NonBlankIn
<1>2. DateStarts(text) \in 1..(Len(text) + 1)
  BY SoughtIn DEF DateStarts
<1>3. d \in 1..(Len(text) + 1)
  <2>. DEFINE i == DateStarts(text)
  <2>1. i \in 1..(Len(text) + 1)
    BY <1>2
  <2>. HIDE DEF i
  <2>2. NonBlank(text, i) \in i..(Len(text) + 1)
    BY <2>1, NonBlankIn
  <2>. QED  BY <2>1, <2>2 DEF i
<1>. HIDE DEF a, d
<1>4. /\ HasPrefix(text, a, "Author:") => a \in DOMAIN text /\ text[a].prefix = "Author:"
      /\ HasPrefix(text, d, "Date:") => d \in DOMAIN text /\ text[d].prefix = "Date:"
  BY <1>1, <1>3 DEF HasPrefix
<1>5. AuthorLines = {} => (HasPrefix(text, a, "Author:") => AuthorFrom(text[a].rest) = None)
  BY <1>4, Zenon DEF AuthorLines
<1>6. DateLines = {} => (HasPrefix(text, d, "Date:") => TimeFromString(text[d].rest) = None)
  BY <1>4, Zenon DEF DateLines
<1>. QED  BY <1>5, <1>6 DEF CommitMessageFromString, a, d

\* What is read of the fields that the user left alone.
LEMMA WhatIsLeftIsRead ==
    ASSUME orig \in Originals, NEW k \in 0..2, HeaderLeft(k)
    PROVE  LET new == CommitMessageFromString(text)
           IN  /\ "author" \notin touched => new.author \in {None, orig.author}
               /\ "date" \notin touched /\ Readable(orig.time) => new.time = orig.time
               /\ "message" \notin touched /\ Plain(orig.message) => new.message = orig.message
<1>. DEFINE s == text
            m == orig.message
            D == StringFromTime(orig.time)
            Below == k + 2 <= Len(s) => s[k + 2] # Blank /\ s[k + 2].prefix \notin {"Author:", "Date:"}
            A == AllLines
<1>1. /\ s \in Seq(A) /\ Len(s) \in Nat /\ k + 1 <= Len(s) /\ s[k + 1] = Blank
      /\ k = 1 => s[1].prefix \in {"Author:", "Date:"}
      /\ k = 2 => s[1].prefix = "Author:" /\ s[2].prefix = "Date:"
  BY LenProperties DEF HeaderLeft
<1>. HIDE DEF A
<1>2. /\ k > 0 => NonBlank(s, 1) = 1
      /\ k = 1 /\ s[1].prefix = "Date:" => DateStarts(s) = 1
      /\ k = 2 => DateStarts(s) = 2 /\ NonBlank(s, 2) = 2
      /\ Below => NonBlank(s, Sought(s, DateStarts(s), "Date:")) = k + 2
  <2>. HIDE DEF s
  <2>. QED  BY <1>1, HeaderIsParsed
<1>3. /\ orig.author # None /\ orig.time \in Time /\ Len(m) \in Nat /\ DOMAIN m = 1..Len(m)
      /\ m # <<>> => m[1] # Blank
      /\ m \in Seq(A)
  <2>1. m \in Seq(LinesOf(orig)) /\ LinesOf(orig) \subseteq A
    BY OriginalTypes DEF AllLines, A
  <2>2. m \in Seq(A)
    BY <2>1, SeqMonotonic, Zenon
  <2>. QED  BY <2>1, <2>2, OriginalTypes, LenProperties
<1>4. \A x : /\ AuthorLine(x).prefix = "Author:" /\ AuthorLine(x).rest = x
             /\ DateLine(x).prefix = "Date:" /\ DateLine(x).rest = x
  BY Prefixes
<1>. DEFINE new == CommitMessageFromString(s)
<1>5. ASSUME "author" \notin touched PROVE new.author \in {None, orig.author}
  <2>1. k > 0 /\ s[1] = AuthorLine(orig.author)
    BY <1>5 DEF HeaderLeft
  <2>2. HasPrefix(s, 1, "Author:") /\ s[1].rest = orig.author
    BY <1>1, <1>4, <2>1 DEF HasPrefix
  <2>3. new.author = AuthorFrom(orig.author)
    BY <1>2, <2>1, <2>2 DEF CommitMessageFromString
  <2>. QED  BY <2>3 DEF AuthorFrom
<1>6. ASSUME "date" \notin touched, Readable(orig.time) PROVE new.time = orig.time
  <2>1. k > 0 /\ s[k] = DateLine(D)
    BY <1>6 DEF HeaderLeft
  <2>2. s[k].prefix = "Date:" /\ s[k].rest = D
    BY <1>4, <2>1, Zenon
  <2>3. k = 1 \/ k = 2
    BY <2>1
  <2>4. NonBlank(s, DateStarts(s)) = k
    BY <1>2, <2>2, <2>3
  <2>5. HasPrefix(s, k, "Date:")
    BY <1>1, <2>2 DEF HasPrefix
  <2>6. new.time = TimeFromString(D)
    BY <2>2, <2>4, <2>5 DEF CommitMessageFromString
  <2>. QED  BY <1>3, <1>6, <2>6, TimesThatSurvive
<1>7. ASSUME "message" \notin touched, Plain(m) PROVE new.message = m
  <2>1. Len(s) = k + 1 + Len(m) /\ \A j \in 1..Len(m) : s[k + 1 + j] = m[j]
    BY <1>7 DEF HeaderLeft
  <2>2. \A x \in DOMAIN m : m[x].prefix \notin {"Author:", "Date:"}
    BY <1>7 DEF Plain
  <2>3. Below
    <3>1. SUFFICES ASSUME k + 2 <= Len(s)
                   PROVE  s[k + 2] # Blank /\ s[k + 2].prefix \notin {"Author:", "Date:"}
      OBVIOUS
    <3>. HIDE DEF s, m
    <3>2. 1 \in 1..Len(m) /\ k + 1 + 1 = k + 2
      BY <1>1, <1>3, <2>1, <3>1
    <3>3. s[k + 2] = m[1]
      BY <2>1, <3>2
    <3>4. m # <<>>
      BY <3>2
    <3>. QED  BY <1>3, <2>2, <3>2, <3>3, <3>4
  <2>4. new.message = SubSeq(s, k + 2, Len(s))
    BY <1>2, <2>3 DEF CommitMessageFromString
  <2>. DEFINE x == k + 2
              q == SubSeq(s, x, Len(s))
  <2>5. x \in Int /\ x = k + 2 /\ x >= 1 /\ Len(s) - x + 1 = Len(m) /\ (x <= Len(s) <=> Len(m) > 0)
    <3>. HIDE DEF s, m
    <3>. QED  BY <1>1, <1>3, <2>1
  <2>. HIDE DEF s, m, x
  <2>6. /\ q \in Seq(A)
        /\ Len(q) = IF x <= Len(s) THEN Len(s) - x + 1 ELSE 0
        /\ \A i \in 1..(Len(s) - x + 1) : q[i] = s[x + i - 1]
    <3>1. Len(s) \in Int /\ x \in Int /\ \A i \in x..Len(s) : s[i] \in A
      BY <1>1, <2>5
    <3>. QED  BY <3>1, SubSeqProperties
  <2>. HIDE DEF q
  <2>7. Len(q) = Len(m)
    BY <1>3, <2>5, <2>6
  <2>8. \A i \in 1..Len(q) : q[i] = m[i]
    <3>1. SUFFICES ASSUME NEW i \in 1..Len(q) PROVE q[i] = m[i]
      OBVIOUS
    <3>2. i \in 1..Len(m) /\ i \in 1..(Len(s) - x + 1) /\ x + i - 1 = k + 1 + i
      BY <1>3, <2>5, <2>7
    <3>3. q[i] = s[k + 1 + i]
      BY <2>6, <3>2
    <3>. QED  BY <2>1, <3>2, <3>3
  <2>9. q = m
    BY <1>3, <2>6, <2>7, <2>8, SeqEqual, Zenon
  <2>. QED  BY <2>4, <2>9 DEF q, x
<1>. QED  BY <1>5, <1>6, <1>7 DEF s, m

LEMMA LeaveOthers == CommitTextInv /\ OthersInv /\ Leave => OthersStay'
<1>. SUFFICES ASSUME CommitTextInv, OthersInv, Leave PROVE OthersStay'
  OBVIOUS
<1>. DEFINE new == CommitMessageFromString(text)
            author == OrOriginal(new.author, "author")
            time == OrOriginal(new.time, "time")
            message == IF new.message = <<>> THEN orig.message ELSE new.message
<1>. SUFFICES ASSUME outcome' = "amended", "order" \notin touched, Plain(orig.message)
              PROVE  OthersStay'
  BY DEF Leave, OthersStay
<1>1. /\ orig \in Originals /\ phase = "editor"
      /\ orig' = orig /\ text' = text /\ touched' = touched
      /\ result' = [author |-> author, time |-> time, message |-> message]
  BY DEF Leave, CommitTextInv
<1>2. PICK k \in 0..2 : HeaderLeft(k)
  BY <1>1 DEF OthersInv
<1>3. Len(text) \in Nat /\ DOMAIN text = 1..Len(text)
  BY <1>2, LenProperties DEF HeaderLeft
<1>4. /\ AuthorLines = {} => new.author = None
      /\ DateLines = {} => new.time = None
  BY <1>3, NothingToRead
<1>5. /\ "author" \notin touched => new.author \in {None, orig.author}
      /\ "date" \notin touched /\ Readable(orig.time) => new.time = orig.time
      /\ "message" \notin touched => new.message = orig.message
  BY <1>1, <1>2, WhatIsLeftIsRead
<1>6. result'.author = author /\ result'.time = time /\ result'.message = message
  BY <1>1
<1>7. AuthorLines' = AuthorLines /\ DateLines' = DateLines
  BY <1>1 DEF AuthorLines, DateLines
<1>. HIDE DEF new
<1>8. "author" \notin touched \/ AuthorLines = {} => author = orig.author
  BY <1>4, <1>5 DEF OrOriginal
<1>9. ("date" \notin touched /\ Readable(orig.time)) \/ DateLines = {} => time = orig.time
  BY <1>4, <1>5 DEF OrOriginal
<1>10. "message" \notin touched => message = orig.message
  BY <1>5
<1>. HIDE DEF author, time, message
<1>11. /\ "author" \notin touched' \/ AuthorLines' = {} => result'.author = orig'.author
       /\ ("date" \notin touched' /\ Readable(orig'.time)) \/ DateLines' = {} => result'.time = orig'.time
       /\ "message" \notin touched' => result'.message = orig'.message
  BY <1>1, <1>6, <1>7, <1>8, <1>9, <1>10
<1>. QED  BY <1>11 DEF OthersStay

Opened == orig \in Originals /\ text = StringFromCommitMessage(orig)
HeaderOpened == HeaderLeft(2)

LEMMA OpenedLater == Opened' => HeaderOpened'
<1>1. Opened => HeaderOpened
  BY OpenedText DEF Opened, HeaderOpened
<1>. QED  BY <1>1, PTL

\* A change of the user's: no commit is amended yet.
LEMMA ChangeLeaves ==
    ASSUME CommitTextInv, NEW new, NEW what, Change(new, what),
           (what # "order" /\ "order" \notin touched) => \E k \in 0..2 : HeaderLeft(k)'
    PROVE  OthersInv'
<1>1. /\ phase = "editor" /\ phase' = phase /\ outcome' = outcome /\ outcome # "amended"
      /\ touched' = touched \cup {what}
  BY DEF Change, CommitTextInv
<1>2. OthersStay'
  BY <1>1 DEF OthersStay
<1>. QED  BY <1>1, <1>2 DEF OthersInv

LEMMA UserLeaves == CommitTextInv /\ OthersInv /\ User => OthersInv'
<1>. SUFFICES ASSUME CommitTextInv, OthersInv, User PROVE OthersInv'
  OBVIOUS
<1>1. orig \in Originals
  BY DEF CommitTextInv
<1>2. ASSUME phase = "editor", "order" \notin touched PROVE \E k \in 0..2 : HeaderLeft(k)
  BY <1>2 DEF OthersInv
<1>3. ASSUME NEW i \in 1..2, NEW a \in Authors, WriteAuthor(i, a) PROVE OthersInv'
  <2>. DEFINE line == AuthorLine(a)
              new == [text EXCEPT ![i] = line]
  <2>1. HasPrefix(text, i, "Author:") /\ Change(new, "author")
    BY <1>3 DEF WriteAuthor
  <2>2. /\ phase = "editor" /\ orig' = orig /\ text' = new /\ touched' = touched \cup {"author"}
    BY <2>1 DEF Change
  <2>3. line.prefix = "Author:" /\ line \in AllLines
    BY Prefixes DEF AllLines
  <2>4. ASSUME "order" \notin touched PROVE \E k \in 0..2 : HeaderLeft(k)'
    <3>1. PICK k \in 0..2 : HeaderLeft(k)
      BY <1>2, <2>2, <2>4
    <3>. HIDE DEF line
    <3>2. HeaderLeft(k)'
      BY <1>1, <2>1, <2>2, <2>3, <3>1, WriteLeaves
    <3>. QED  BY <3>2
  <2>. HIDE DEF new
  <2>. QED  BY <2>1, <2>4, ChangeLeaves
<1>4. ASSUME NEW i \in 1..2, NEW d \in Dates, WriteDate(i, d) PROVE OthersInv'
  <2>. DEFINE line == DateLine(d)
              new == [text EXCEPT ![i] = line]
  <2>1. HasPrefix(text, i, "Date:") /\ Change(new, "date")
    BY <1>4 DEF WriteDate
  <2>2. /\ phase = "editor" /\ orig' = orig /\ text' = new /\ touched' = touched \cup {"date"}
    BY <2>1 DEF Change
  <2>3. line.prefix = "Date:" /\ line \in AllLines
    BY Prefixes DEF AllLines, LinesOf
  <2>4. ASSUME "order" \notin touched PROVE \E k \in 0..2 : HeaderLeft(k)'
    <3>1. PICK k \in 0..2 : HeaderLeft(k)
      BY <1>2, <2>2, <2>4
    <3>. HIDE DEF line
    <3>2. HeaderLeft(k)'
      BY <1>1, <2>1, <2>2, <2>3, <3>1, WriteLeaves
    <3>. QED  BY <3>2
  <2>. HIDE DEF new
  <2>. QED  BY <2>1, <2>4, ChangeLeaves
<1>5. ASSUME NEW i \in 1..2, NEW p, NEW what,
             (p = "Author:" /\ what = "author") \/ (p = "Date:" /\ what = "date"),
             HasPrefix(text, i, p), Change(Without(text, i), what)
      PROVE  OthersInv'
  <2>1. phase = "editor" /\ orig' = orig /\ text' = Without(text, i) /\ touched' = touched \cup {what}
    BY <1>5 DEF Change
  <2>2. ASSUME "order" \notin touched PROVE \E k \in 0..2 : HeaderLeft(k)'
    <3>1. PICK k \in 0..2 : HeaderLeft(k)
      BY <1>2, <2>1, <2>2
    <3>. QED  BY <1>1, <1>5, <2>1, <3>1, DeleteLeaves
  <2>. QED  BY <1>5, <2>2, ChangeLeaves
<1>6. ASSUME NEW i \in 1..2, DeleteLine(i) PROVE OthersInv'
  BY <1>5, <1>6 DEF DeleteLine
<1>7. ASSUME NEW m \in Messages, WriteMessage(m) PROVE OthersInv'
  <2>. DEFINE new == SubSeq(text, 1, 3) \o m
  <2>1. text = StringFromCommitMessage(orig) /\ Change(new, "message")
    BY <1>7 DEF WriteMessage
  <2>2. orig' = orig /\ text' = new /\ touched' = touched \cup {"message"}
    BY <2>1 DEF Change
  <2>3. HeaderLeft(2)'
    BY <1>1, <2>1, <2>2, WriteMessageLeaves
  <2>4. \E k \in 0..2 : HeaderLeft(k)'
    BY <2>3
  <2>. HIDE DEF new
  <2>. QED  BY <2>1, <2>4, ChangeLeaves
<1>8. CASE Swap
  <2>1. Change(<<text[2], text[1]>> \o SubSeq(text, 3, Len(text)), "order")
    BY <1>8 DEF Swap
  <2>. QED  BY <2>1, ChangeLeaves
<1>9. CASE Unprefix
  <2>1. Change([text EXCEPT ![1].prefix = "text"], "order")
    BY <1>9 DEF Unprefix
  <2>. QED  BY <2>1, ChangeLeaves
<1>. QED  BY <1>3, <1>4, <1>6, <1>7, <1>8, <1>9 DEF User

LEMMA StepLeaves == CommitTextInv /\ OthersInv /\ [Next]_vars => OthersInv'
<1>. SUFFICES ASSUME CommitTextInv, OthersInv, [Next]_vars PROVE OthersInv'
  OBVIOUS
<1>1. CASE Open
  <2>1. /\ orig \in Originals /\ orig' = orig /\ text' = StringFromCommitMessage(orig)
        /\ outcome' = outcome /\ outcome # "amended"
    BY <1>1 DEF Open, CommitTextInv
  <2>2. OthersStay'
    BY <2>1 DEF OthersStay
  <2>3. Opened'
    BY <2>1 DEF Opened
  <2>4. HeaderLeft(2)'
    BY <2>3, OpenedLater DEF HeaderOpened
  <2>. QED  BY <2>2, <2>4 DEF OthersInv
<1>2. CASE Leave
  <2>1. phase' # "editor"
    BY <1>2 DEF Leave
  <2>2. OthersStay'
    BY <1>2, LeaveOthers
  <2>. QED  BY <2>1, <2>2 DEF OthersInv
<1>3. CASE User
  BY <1>3, UserLeaves
<1>4. CASE UNCHANGED vars
  BY <1>4 DEF vars, OthersInv, OthersStay, HeaderLeft, AllLines, LinesOf, AuthorLines, DateLines
<1>. QED  BY <1>1, <1>2, <1>3, <1>4 DEF Next

(***************************************************************************)
(* Properties, of every commit and of every date that the user may write   *)
(***************************************************************************)
LEMMA Always == Spec => []CommitTextInv
BY Start, StepKeeps, PTL DEF Spec

\* The edit of a commit that is left alone changes nothing if, and only if, its time can be
\* written and its author be read: _EditCommit() compares what it reads back.
THEOREM LeftAloneStays == Spec => []UntouchedStays
<1>1. CommitTextInv => UntouchedStays
  BY DEF CommitTextInv
<1>. QED  BY <1>1, Always, PTL

\* A date that is the only thing that the user wrote is the time of the amended commit.
THEOREM DateWrittenIsTaken == Spec => []WrittenDateIsTaken
<1>1. CommitTextInv => WrittenDateIsTaken
  BY DEF CommitTextInv
<1>. QED  BY <1>1, Always, PTL

\* A field that the user left alone, deleted or made unreadable keeps its value, and a header
\* line that is gone takes neither the other one nor the message with it: the loops of
\* _CommitMessageFromString() look for each header where the one before it ended.
THEOREM OthersAreLeft == Spec => []OthersStay
<1>1. Init => OthersInv
  BY DEF Init, OthersInv, OthersStay
<1>2. CommitTextInv /\ OthersInv /\ [Next]_vars => OthersInv'
  BY StepLeaves
<1>3. OthersInv => OthersStay
  BY DEF OthersInv
<1>. QED  BY <1>1, <1>2, <1>3, Always, PTL DEF Spec
----------------------------------------------------------------------------
(***************************************************************************)
(* The text field.                                                         *)
(***************************************************************************)

(***************************************************************************)
(* Ranks: how many codepoints start before a position.  They turn what the *)
(* field does with offsets into arithmetic.                                *)
(***************************************************************************)
Starts(v) == {q \in 0..Len(v) : CodepointStart(v, q)}
Rank(v, q) == Length(v, 0, q)
Count(v) == Rank(v, Len(v))

LEMMA LengthIsNat ==
    ASSUME NEW v, NEW p \in Int, NEW q \in Int
    PROVE  /\ IsFiniteSet({r \in p..q - 1 : v[r + 1][2] = 1}) /\ Length(v, p, q) \in Nat
           /\ p >= q => Length(v, p, q) = 0
<1> DEFINE A == {r \in p..q - 1 : v[r + 1][2] = 1}
<1>1. IsFiniteSet(p..q - 1)
  BY FS_Interval
<1>2. A \in SUBSET (p..q - 1)
  OBVIOUS
<1>3. IsFiniteSet(A)
  BY <1>1, <1>2, FS_Subset
<1>4. Cardinality(A) \in Nat
  BY <1>3, FS_CardinalityType
<1>5. p >= q => A = {}
  OBVIOUS
<1>6. p >= q => Cardinality(A) = 0
  BY <1>5, FS_EmptySet
<1> QED  BY <1>3, <1>4, <1>6 DEF Length

LEMMA LengthSplits ==
    ASSUME NEW v, NEW p \in Int, NEW q \in Int, NEW s \in Int, p <= q, q <= s
    PROVE  Length(v, p, s) = Length(v, p, q) + Length(v, q, s)
<1> DEFINE A == {r \in p..q - 1 : v[r + 1][2] = 1}
           B == {r \in q..s - 1 : v[r + 1][2] = 1}
           C == {r \in p..s - 1 : v[r + 1][2] = 1}
<1>1. IsFiniteSet(A) /\ IsFiniteSet(B)
  BY LengthIsNat
<1>2. A \cup B = C
  OBVIOUS
<1>3. A \cap B = {}
  OBVIOUS
<1>4. Cardinality(A) \in Nat /\ Cardinality(B) \in Nat
  BY <1>1, FS_CardinalityType
<1> HIDE DEF A, B, C
<1>5. Cardinality(C) = Cardinality(A) + Cardinality(B) - Cardinality({})
  BY <1>1, <1>2, <1>3, FS_Union
<1>6. Cardinality(C) = Cardinality(A) + Cardinality(B)
  BY <1>4, <1>5, FS_EmptySet
<1> QED  BY <1>6 DEF Length, A, B, C

LEMMA LengthOfOne ==
    ASSUME NEW v, NEW p \in Int
    PROVE  Length(v, p, p + 1) = IF v[p + 1][2] = 1 THEN 1 ELSE 0
<1> DEFINE A == {r \in p..(p + 1) - 1 : v[r + 1][2] = 1}
<1>1. A = IF v[p + 1][2] = 1 THEN {p} ELSE {}
  OBVIOUS
<1> HIDE DEF A
<1>2. Cardinality(A) = IF v[p + 1][2] = 1 THEN 1 ELSE 0
  BY <1>1, FS_Singleton, FS_EmptySet
<1> QED  BY <1>2 DEF Length, A

LEMMA RankIsNat ==
    ASSUME NEW v, NEW q \in Nat
    PROVE  Rank(v, q) \in Nat /\ Rank(v, 0) = 0
<1>1. 0 \in Int /\ q \in Int /\ 0 >= 0
  OBVIOUS
<1>2. Length(v, 0, q) \in Nat
  BY <1>1, LengthIsNat
<1>3. Length(v, 0, 0) = 0
  BY <1>1, LengthIsNat
<1> QED  BY <1>2, <1>3 DEF Rank

LEMMA RankStep ==
    ASSUME NEW v, NEW q \in Nat
    PROVE  Rank(v, q + 1) = Rank(v, q) + (IF v[q + 1][2] = 1 THEN 1 ELSE 0)
<1>1. Length(v, 0, q + 1) = Length(v, 0, q) + Length(v, q, q + 1)
  BY LengthSplits
<1> QED  BY <1>1, LengthOfOne DEF Rank

\* What lies between two positions is the difference of their ranks.
LEMMA LengthIsRanks ==
    ASSUME NEW v, NEW p \in Nat, NEW q \in Nat, p <= q
    PROVE  Length(v, p, q) = Rank(v, q) - Rank(v, p) /\ Rank(v, p) <= Rank(v, q)
<1>1. Length(v, 0, q) = Length(v, 0, p) + Length(v, p, q)
  BY LengthSplits
<1>2. Rank(v, q) \in Nat /\ Rank(v, p) \in Nat
  BY RankIsNat
<1>3. p \in Int /\ q \in Int
  OBVIOUS
<1>4. Length(v, p, q) \in Nat
  BY <1>3, LengthIsNat
<1> QED  BY <1>1, <1>2, <1>4 DEF Rank

\* Ranks order the starts of codepoints.
LEMMA RankOrders ==
    ASSUME NEW v, Len(v) \in Nat, NEW p \in Starts(v), NEW q \in Starts(v)
    PROVE  /\ p \in Nat /\ q \in Nat /\ Rank(v, p) \in 0..Count(v) /\ Count(v) \in Nat
           /\ p <= q <=> Rank(v, p) <= Rank(v, q)
           /\ p = q <=> Rank(v, p) = Rank(v, q)
<1>1. p \in 0..Len(v) /\ q \in 0..Len(v) /\ p \in Nat /\ q \in Nat
  BY DEF Starts
<1>2. ASSUME NEW x \in Starts(v), NEW y \in Starts(v), x < y PROVE Rank(v, x) < Rank(v, y)
  <2>1. x \in Nat /\ y \in Nat /\ x + 1 <= y /\ v[x + 1][2] = 1
    BY <1>2 DEF Starts, CodepointStart
  <2>2. Rank(v, x + 1) = Rank(v, x) + 1
    BY <2>1, RankStep
  <2>3. Rank(v, x + 1) <= Rank(v, y)
    BY <2>1, LengthIsRanks
  <2>4. Rank(v, x) \in Nat /\ Rank(v, y) \in Nat
    BY <2>1, RankIsNat
  <2> QED  BY <2>2, <2>3, <2>4
<1>3. Rank(v, p) \in Nat /\ Rank(v, q) \in Nat /\ Count(v) \in Nat
  BY <1>1, RankIsNat DEF Count
<1>4. Rank(v, p) <= Count(v)
  BY <1>1, LengthIsRanks DEF Count
<1>5. /\ p < q => Rank(v, p) < Rank(v, q)
      /\ q < p => Rank(v, q) < Rank(v, p)
  BY <1>2
<1> QED  BY <1>1, <1>3, <1>4, <1>5

LEMMA LeastNatural ==
    ASSUME NEW T \in SUBSET Nat, T # {}
    PROVE  \E m \in T : \A n \in T : m <= n
<1>1. PICK m \in T : \A n \in T : ~(<<n, m>> \in OpToRel(<, Nat))
  BY NatLessThanWellFounded, WFMin, Zenon
<1>2. \A n \in T : ~(n < m)
  BY <1>1, Zenon DEF OpToRel
<1> QED  BY <1>2

\* Every rank is that of a codepoint, or of the end.
LEMMA AtRank ==
    ASSUME NEW v, Len(v) \in Nat, NEW k \in 0..Count(v)
    PROVE  \E q \in Starts(v) : Rank(v, q) = k
<1> DEFINE n == Len(v)
           T == {d \in 0..n : Rank(v, n - d) <= k}
<1>1. Count(v) \in Nat
  BY RankIsNat DEF Count
<1>2. n \in T
  BY <1>1, RankIsNat
<1>3. T \in SUBSET Nat /\ T # {}
  BY <1>2
<1> HIDE DEF T
<1>4. PICK d \in T : \A e \in T : d <= e
  BY <1>3, LeastNatural
<1> DEFINE q == n - d
<1>5. d \in 0..n /\ q \in 0..n /\ q \in Nat /\ Rank(v, q) <= k /\ Rank(v, q) \in Nat
  BY <1>4, RankIsNat DEF T
<1>6. CASE q = n
  <2>1. Rank(v, q) = k
    BY <1>1, <1>5, <1>6, LengthIsRanks DEF Count
  <2> QED  BY <1>5, <1>6, <2>1 DEF Starts, CodepointStart
<1>7. CASE q # n
  <2>1. d - 1 \in 0..n /\ n - (d - 1) = q + 1 /\ ~(d <= d - 1)
    BY <1>5, <1>7
  <2>2. ~(Rank(v, q + 1) <= k)
    BY <1>4, <2>1 DEF T
  <2>3. Rank(v, q + 1) = Rank(v, q) + (IF v[q + 1][2] = 1 THEN 1 ELSE 0)
    BY <1>5, RankStep
  <2> HIDE DEF q
  <2>4. v[q + 1][2] = 1 /\ Rank(v, q) = k
    BY <1>5, <2>2, <2>3
  <2> QED  BY <1>5, <2>4 DEF Starts, CodepointStart
<1> QED  BY <1>6, <1>7
----------------------------------------------------------------------------
\* Walking towards the end goes up in rank, one codepoint at a time.
LEMMA NextNRank ==
    ASSUME NEW v, Len(v) \in Nat, NEW p \in Starts(v), NEW n \in Nat
    PROVE  /\ NextN(v, p, n) \in Starts(v)
           /\ Rank(v, NextN(v, p, n)) = IF Rank(v, p) + n <= Count(v) THEN Rank(v, p) + n ELSE Count(v)
<1> DEFINE later == {q \in p + 1..Len(v) : CodepointStart(v, q)}
           Upto(q) == {r \in later : r <= q}
<1>1. /\ p \in Nat /\ p \in 0..Len(v) /\ Rank(v, p) \in 0..Count(v) /\ Count(v) \in Nat
      /\ Len(v) \in Starts(v)
  <2>1. Len(v) \in Starts(v) /\ p \in 0..Len(v)
    BY DEF Starts, CodepointStart
  <2> QED  BY <2>1, RankOrders
<1>2. ASSUME NEW q \in Starts(v), p <= q PROVE Cardinality(Upto(q)) = Rank(v, q) - Rank(v, p)
  <2> DEFINE A == {r \in p..q : CodepointStart(v, r)}
             B == {r \in p..q - 1 : v[r + 1][2] = 1}
  <2>1. q \in 0..Len(v) /\ p \in A /\ q \in A
    BY <1>1, <1>2 DEF Starts
  <2>2. IsFiniteSet(p..q)
    BY <1>1, <2>1, FS_Interval
  <2>3. IsFiniteSet(A) /\ Cardinality(A) \in Nat
    <3>1. A \in SUBSET (p..q)
      OBVIOUS
    <3>2. IsFiniteSet(A)
      BY <2>2, <3>1, FS_Subset
    <3> QED  BY <3>2, FS_CardinalityType
  <2>4. A \ {p} = Upto(q)
    BY <1>1, <2>1
  <2>5. A \ {q} = B
    BY <1>1, <2>1 DEF CodepointStart
  <2>6. Cardinality(B) = Rank(v, q) - Rank(v, p)
    BY <1>1, <1>2, <2>1, LengthIsRanks DEF Length
  <2> HIDE DEF A, B, Upto
  <2>7. Cardinality(Upto(q)) = Cardinality(A) - 1
    BY <2>1, <2>3, <2>4, FS_RemoveElement
  <2>8. Cardinality(B) = Cardinality(A) - 1
    BY <2>1, <2>3, <2>5, FS_RemoveElement
  <2> QED  BY <2>6, <2>7, <2>8
<1>3. Cardinality(later) = Count(v) - Rank(v, p)
  <2>1. Upto(Len(v)) = later /\ p <= Len(v)
    BY <1>1
  <2> HIDE DEF later
  <2> QED  BY <1>1, <1>2, <2>1 DEF Count
<1>4. CASE n = 0
  BY <1>1, <1>4 DEF NextN
<1>5. CASE n # 0 /\ Cardinality(later) <= n
  <2>1. NextN(v, p, n) = Len(v)
    BY <1>5 DEF NextN
  <2> HIDE DEF later
  <2> QED  BY <1>1, <1>3, <1>5, <2>1 DEF Count
<1>6. CASE n # 0 /\ ~(Cardinality(later) <= n)
  <2>1. NextN(v, p, n) = CHOOSE q \in later : Cardinality(Upto(q)) = n
    BY <1>6 DEF NextN
  <2>2. Rank(v, p) + n \in 0..Count(v)
    <3> HIDE DEF later
    <3> QED  BY <1>1, <1>3, <1>6
  <2>3. PICK q \in Starts(v) : Rank(v, q) = Rank(v, p) + n
    BY <2>2, AtRank
  <2>4. p < q
    <3>1. q \in Nat /\ ~(Rank(v, q) <= Rank(v, p))
      BY <1>1, <1>6, <2>2, <2>3 DEF Starts
    <3>2. ~(q <= p)
      BY <3>1, RankOrders
    <3> QED  BY <1>1, <3>1, <3>2
  <2>5. q \in later
    BY <1>1, <2>4 DEF Starts
  <2>6. Cardinality(Upto(q)) = n
    <3> HIDE DEF Upto, later
    <3>1. q \in Nat
      BY DEF Starts
    <3>2. Cardinality(Upto(q)) = Rank(v, q) - Rank(v, p)
      BY <1>1, <1>2, <2>4, <3>1
    <3> QED  BY <1>1, <2>3, <3>2
  <2> DEFINE x == CHOOSE x \in later : Cardinality(Upto(x)) = n
  <2>7. x \in later /\ Cardinality(Upto(x)) = n
    <3> HIDE DEF later, Upto
    <3> QED  BY <2>5, <2>6
  <2>8. x \in Starts(v) /\ p <= x
    <3> HIDE DEF x
    <3> QED  BY <1>1, <2>7 DEF Starts
  <2> HIDE DEF x, Upto
  <2>9. Rank(v, x) = Rank(v, p) + n
    <3>1. Rank(v, x) \in Nat
      BY <2>8, RankIsNat DEF Starts
    <3>2. Cardinality(Upto(x)) = Rank(v, x) - Rank(v, p)
      BY <1>2, <2>8
    <3> QED  BY <1>1, <2>7, <3>1, <3>2
  <2> QED  BY <1>1, <2>1, <2>2, <2>8, <2>9 DEF x
<1> QED  BY <1>4, <1>5, <1>6

\* Walking towards the begin goes down in rank.
LEMMA PrevNRank ==
    ASSUME NEW v, Len(v) \in Nat, NEW p \in Starts(v), 0 \in Starts(v), NEW n \in Nat
    PROVE  /\ PrevN(v, p, n) \in Starts(v)
           /\ Rank(v, PrevN(v, p, n)) = IF n <= Rank(v, p) THEN Rank(v, p) - n ELSE 0
<1> DEFINE earlier == {0} \cup {q \in 0..p - 1 : CodepointStart(v, q)}
           From(q) == {r \in earlier : r >= q}
<1>1. /\ p \in Nat /\ p \in 0..Len(v) /\ Rank(v, p) \in 0..Count(v) /\ Count(v) \in Nat
      /\ Rank(v, 0) = 0
  BY RankOrders, RankIsNat DEF Starts
<1>2. CASE n = 0
  BY <1>1, <1>2 DEF PrevN
<1>3. CASE n # 0 /\ p = 0
  <2>1. earlier = {0}
    BY <1>3
  <2>2. Cardinality(earlier) = 1
    BY <2>1, FS_Singleton
  <2>3. PrevN(v, p, n) = 0
    <3>1. Cardinality(earlier) <= n
      BY <1>3, <2>2
    <3> QED  BY <1>3, <3>1 DEF PrevN
  <2> QED  BY <1>1, <1>3, <2>3
<1>4. CASE n # 0 /\ p # 0
  <2>1. ASSUME NEW q \in Starts(v), q < p
        PROVE  q \in earlier /\ Cardinality(From(q)) = Rank(v, p) - Rank(v, q)
    <3>1. q \in 0..Len(v) /\ q \in Nat /\ CodepointStart(v, q)
      BY DEF Starts
    <3>2. From(q) = {r \in q..p - 1 : v[r + 1][2] = 1}
      <4>1. CodepointStart(v, 0)
        BY DEF Starts
      <4>2. \A r \in 0..p - 1 : CodepointStart(v, r) <=> v[r + 1][2] = 1
        BY <1>1 DEF CodepointStart
      <4>3. \A r \in From(q) : r \in q..p - 1 /\ v[r + 1][2] = 1
        BY <1>1, <1>4, <2>1, <3>1, <4>1, <4>2
      <4>4. \A r \in q..p - 1 : v[r + 1][2] = 1 => r \in From(q)
        BY <1>1, <3>1, <4>2
      <4> HIDE DEF From
      <4> QED  BY <4>3, <4>4 DEF From
    <3>3. q \in earlier
      BY <1>1, <2>1, <3>1
    <3>4. Length(v, q, p) = Rank(v, p) - Rank(v, q)
      BY <1>1, <2>1, <3>1, LengthIsRanks
    <3>5. Cardinality(From(q)) = Length(v, q, p)
      BY <3>2, Zenon DEF Length
    <3> QED  BY <3>3, <3>4, <3>5, Zenon
  <2>2. Cardinality(earlier) = Rank(v, p)
    <3>1. From(0) = earlier
      BY <1>1
    <3> HIDE DEF From, earlier
    <3> QED  BY <1>1, <1>4, <2>1, <3>1
  <2>3. CASE Rank(v, p) <= n
    <3>1. PrevN(v, p, n) = 0
      BY <1>4, <2>2, <2>3 DEF PrevN
    <3> QED  BY <1>1, <2>3, <3>1
  <2>4. CASE ~(Rank(v, p) <= n)
    <3>1. PrevN(v, p, n) = CHOOSE q \in earlier : Cardinality(From(q)) = n
      BY <1>4, <2>2, <2>4 DEF PrevN
    <3>2. Rank(v, p) - n \in 0..Count(v)
      BY <1>1, <2>4
    <3>3. PICK q \in Starts(v) : Rank(v, q) = Rank(v, p) - n
      BY <3>2, AtRank
    <3>4. q < p
      <4>1. q \in Nat /\ ~(Rank(v, p) <= Rank(v, q))
        BY <1>1, <1>4, <3>3 DEF Starts
      <4>2. ~(p <= q)
        BY <4>1, RankOrders
      <4> QED  BY <1>1, <4>1, <4>2
    <3>5. q \in earlier /\ Cardinality(From(q)) = n
      <4> HIDE DEF earlier, From
      <4>1. q \in earlier /\ Cardinality(From(q)) = Rank(v, p) - Rank(v, q)
        BY <2>1, <3>4
      <4> QED  BY <1>1, <3>3, <4>1
    <3> DEFINE x == CHOOSE x \in earlier : Cardinality(From(x)) = n
    <3>6. x \in earlier /\ Cardinality(From(x)) = n
      <4> HIDE DEF earlier, From
      <4> QED  BY <3>5
    <3>7. x \in Starts(v) /\ x < p
      <4> HIDE DEF x
      <4> QED  BY <1>1, <1>4, <3>6 DEF Starts
    <3> HIDE DEF x, earlier, From
    <3>8. Rank(v, x) = Rank(v, p) - n
      <4>1. Rank(v, x) \in Nat
        BY <3>7, RankIsNat DEF Starts
      <4>2. Cardinality(From(x)) = Rank(v, p) - Rank(v, x)
        BY <2>1, <3>7
      <4> QED  BY <1>1, <3>6, <4>1, <4>2
    <3> QED  BY <1>1, <2>4, <3>1, <3>7, <3>8 DEF x
  <2> QED  BY <1>1, <2>3, <2>4
<1> QED  BY <1>2, <1>3, <1>4

LEMMA StepRank ==
    ASSUME NEW v, Len(v) \in Nat, NEW p \in Starts(v), 0 \in Starts(v)
    PROVE  /\ Next1(v, p) \in Starts(v) /\ Prev1(v, p) \in Starts(v)
           /\ Rank(v, Next1(v, p)) = IF Rank(v, p) < Count(v) THEN Rank(v, p) + 1 ELSE Count(v)
           /\ Rank(v, Prev1(v, p)) = IF Rank(v, p) > 0 THEN Rank(v, p) - 1 ELSE 0
           /\ p = Len(v) <=> Rank(v, p) = Count(v)
           /\ p = 0 <=> Rank(v, p) = 0
<1>1. Len(v) \in Starts(v)
  BY DEF Starts, CodepointStart
<1>2. Rank(v, p) \in 0..Count(v) /\ Count(v) \in Nat /\ Rank(v, 0) = 0
  BY RankOrders, RankIsNat
<1>3. p = Len(v) <=> Rank(v, p) = Count(v)
  BY <1>1, RankOrders DEF Count
<1>4. p = 0 <=> Rank(v, p) = 0
  BY <1>2, RankOrders
<1>5. /\ NextN(v, p, 1) \in Starts(v)
      /\ Rank(v, NextN(v, p, 1)) = IF Rank(v, p) + 1 <= Count(v) THEN Rank(v, p) + 1 ELSE Count(v)
  BY NextNRank
<1>6. /\ PrevN(v, p, 1) \in Starts(v)
      /\ Rank(v, PrevN(v, p, 1)) = IF 1 <= Rank(v, p) THEN Rank(v, p) - 1 ELSE 0
  BY PrevNRank
<1>7. /\ Next1(v, p) \in Starts(v)
      /\ Rank(v, Next1(v, p)) = IF Rank(v, p) < Count(v) THEN Rank(v, p) + 1 ELSE Count(v)
  <2> HIDE DEF Count
  <2> QED  BY <1>2, <1>3, <1>5 DEF Next1
<1>8. /\ Prev1(v, p) \in Starts(v)
      /\ Rank(v, Prev1(v, p)) = IF Rank(v, p) > 0 THEN Rank(v, p) - 1 ELSE 0
  BY <1>2, <1>4, <1>6 DEF Prev1
<1> QED  BY <1>3, <1>4, <1>7, <1>8
----------------------------------------------------------------------------
(***************************************************************************)
(* _offUpdate, in ranks: the view shows Width codepoints, and the cursor   *)
(* is one of them or behind the last.                                      *)
(***************************************************************************)
Fields == [value : Seq(Bytes), left : Int, cursor : Int]
Last(v) == IF Count(v) <= Width THEN 0 ELSE Count(v) - Width
Shows(v, l) == IF l + Width <= Count(v) THEN l + Width ELSE Count(v)

LEMMA LeftMaxRank ==
    ASSUME NEW v, Len(v) \in Nat, 0 \in Starts(v)
    PROVE  /\ LeftMax(v) \in Starts(v) /\ Rank(v, LeftMax(v)) = Last(v)
           /\ Last(v) \in Nat /\ Count(v) \in Nat /\ Count(v) <= Last(v) + Width
<1>1. Width \in Nat
  BY FieldAssumption
<1>2. Len(v) \in Starts(v) /\ Rank(v, Len(v)) = Count(v) /\ Count(v) \in Nat
  BY RankIsNat DEF Starts, CodepointStart, Count
<1>3. /\ PrevN(v, Len(v), Width) \in Starts(v)
      /\ Rank(v, PrevN(v, Len(v), Width)) =
            IF Width <= Rank(v, Len(v)) THEN Rank(v, Len(v)) - Width ELSE 0
  BY <1>1, <1>2, PrevNRank
<1> QED  BY <1>1, <1>2, <1>3 DEF LeftMax, Last

LEMMA CursorMaxRank ==
    ASSUME NEW f, Len(f.value) \in Nat, f.left \in Starts(f.value)
    PROVE  /\ CursorMax(f) \in Starts(f.value)
           /\ Rank(f.value, CursorMax(f)) = Shows(f.value, Rank(f.value, f.left))
           /\ f.left <= CursorMax(f)
<1> DEFINE v == f.value
           l == f.left
<1>1. Width \in Nat
  BY FieldAssumption
<1>2. /\ NextN(v, l, Width) \in Starts(v)
      /\ Rank(v, NextN(v, l, Width)) = Shows(v, Rank(v, l))
  BY <1>1, NextNRank DEF Shows
<1>3. Rank(v, l) \in 0..Count(v) /\ Count(v) \in Nat
  BY RankOrders
<1> HIDE DEF v, l
<1>4. Rank(v, l) <= Shows(v, Rank(v, l))
  BY <1>1, <1>3 DEF Shows
<1>5. l <= NextN(v, l, Width)
  BY <1>2, <1>4, RankOrders DEF v, l
<1> QED  BY <1>2, <1>5 DEF CursorMax, v, l

LEMMA OffUpdateAt ==
    ASSUME NEW f \in Fields, NEW v, v = f.value, 0 \in Starts(v),
           f.left \in Starts(v) \/ f.left >= LeftMax(v), NEW g, g = OffUpdate(f)
    PROVE  /\ Len(v) \in Nat /\ g \in Fields /\ g.value = v
           /\ g.left \in Starts(v) /\ g.left <= f.left /\ g.left <= LeftMax(v)
           /\ Rank(v, g.left) = IF f.left \in Starts(v) /\ Rank(v, f.left) <= Last(v)
                                THEN Rank(v, f.left) ELSE Last(v)
           /\ CursorMax(g) \in Starts(v) /\ g.left <= CursorMax(g)
           /\ Rank(v, CursorMax(g)) = Shows(v, Rank(v, g.left))
           /\ g.cursor = Clamp(f.cursor, g.left, CursorMax(g))
<1> DEFINE l == Clamp(f.left, 0, LeftMax(v))
           c == Clamp(f.cursor, l, NextN(v, l, Width))
<1>1. v \in Seq(Bytes) /\ f.left \in Int /\ f.cursor \in Int /\ Len(v) \in Nat
  BY LenProperties DEF Fields
<1>2. LeftMax(v) \in Starts(v) /\ Rank(v, LeftMax(v)) = Last(v) /\ LeftMax(v) \in Nat
  BY <1>1, LeftMaxRank DEF Starts
<1>3. /\ l \in Starts(v) /\ l <= f.left /\ l <= LeftMax(v)
      /\ Rank(v, l) = IF f.left \in Starts(v) /\ Rank(v, f.left) <= Last(v)
                      THEN Rank(v, f.left) ELSE Last(v)
  <2>1. CASE f.left \in Starts(v) /\ f.left <= LeftMax(v)
    <3>1. l = f.left
      BY <1>2, <2>1 DEF Clamp, Starts
    <3>2. Rank(v, f.left) <= Last(v)
      BY <1>1, <1>2, <2>1, RankOrders
    <3> HIDE DEF l
    <3> QED  BY <1>1, <2>1, <3>1, <3>2
  <2>2. CASE f.left \in Starts(v) /\ ~(f.left <= LeftMax(v))
    <3>1. l = LeftMax(v)
      BY <1>1, <1>2, <2>2 DEF Clamp, Starts
    <3>2. ~(Rank(v, f.left) <= Last(v))
      BY <1>1, <1>2, <2>2, RankOrders
    <3> HIDE DEF l
    <3> QED  BY <1>1, <1>2, <2>2, <3>1, <3>2
  <2>3. CASE f.left \notin Starts(v) /\ f.left >= LeftMax(v)
    <3>1. l = LeftMax(v)
      BY <1>1, <1>2, <2>3 DEF Clamp
    <3> HIDE DEF l
    <3> QED  BY <1>1, <1>2, <2>3, <3>1
  <2> QED  BY <2>1, <2>2, <2>3
<1>4. g = [f EXCEPT !.left = l, !.cursor = c]
  BY DEF OffUpdate
<1> HIDE DEF l
<1>5. g.value = v /\ g.left = l /\ g.cursor = c
  BY <1>4 DEF Fields
<1>6. CursorMax(g) = NextN(v, l, Width)
  BY <1>5 DEF CursorMax
<1>7. /\ CursorMax(g) \in Starts(v) /\ l <= CursorMax(g)
      /\ Rank(v, CursorMax(g)) = Shows(v, Rank(v, l))
  BY <1>1, <1>3, <1>5, CursorMaxRank
<1>8. l \in Int /\ NextN(v, l, Width) \in Int
  BY <1>3, <1>6, <1>7 DEF Starts
<1>9. c \in Int
  BY <1>1, <1>8 DEF Clamp
<1>10. g \in Fields
  BY <1>4, <1>8, <1>9 DEF Fields
<1> QED  BY <1>1, <1>3, <1>5, <1>6, <1>7, <1>10

\* After _offUpdate the field is as it should be.
LEMMA OffUpdatePlaces ==
    ASSUME NEW f \in Fields, 0 \in Starts(f.value),
           f.left \in Starts(f.value) \/ f.left >= LeftMax(f.value),
           f.cursor \in Starts(f.value) \/ f.cursor <= OffUpdate(f).left
    PROVE  /\ OffUpdate(f) \in [value : Seq(Bytes), left : Nat, cursor : Nat]
           /\ Placed(OffUpdate(f))
<1> DEFINE v == f.value
           g == OffUpdate(f)
<1>1. /\ Len(v) \in Nat /\ g \in Fields /\ g.value = v
      /\ g.left \in Starts(v) /\ g.left <= LeftMax(v)
      /\ CursorMax(g) \in Starts(v) /\ g.left <= CursorMax(g)
      /\ g.cursor = Clamp(f.cursor, g.left, CursorMax(g))
  BY OffUpdateAt
<1>2. f.cursor \in Int /\ LeftMax(v) \in Nat
  BY <1>1, LeftMaxRank DEF Fields, Starts
<1> HIDE DEF g
<1>3. g.left \in Nat /\ CursorMax(g) \in Nat
  BY <1>1 DEF Starts
<1>4. g.cursor \in Starts(v) /\ g.left <= g.cursor /\ g.cursor <= CursorMax(g)
  <2>1. CASE f.cursor \in Starts(v)
    BY <1>1, <1>2, <1>3, <2>1 DEF Clamp
  <2>2. CASE f.cursor <= g.left
    BY <1>1, <1>2, <1>3, <2>2 DEF Clamp
  <2> QED  BY <2>1, <2>2 DEF g
<1>5. \A p \in Starts(v) : p \in Nat /\ CodepointStart(v, p)
  BY DEF Starts
<1>6. Placed(g)
  BY <1>1, <1>2, <1>3, <1>4, <1>5 DEF Placed
<1>7. g \in [value : Seq(Bytes), left : Nat, cursor : Nat]
  BY <1>1, <1>4, <1>5 DEF Fields
<1> QED  BY <1>6, <1>7 DEF g

\* A cursor that the view shows stays where it is.
LEMMA CursorStays ==
    ASSUME NEW f \in Fields, NEW v, v = f.value, 0 \in Starts(v),
           f.left \in Starts(v) \/ f.left >= LeftMax(v), NEW g, g = OffUpdate(f),
           f.cursor \in Starts(v), Rank(v, g.left) <= Rank(v, f.cursor),
           Rank(v, f.cursor) <= Rank(v, g.left) + Width
    PROVE  g.cursor = f.cursor
<1>1. /\ Len(v) \in Nat /\ g.left \in Starts(v)
      /\ CursorMax(g) \in Starts(v) /\ g.left <= CursorMax(g)
      /\ Rank(v, CursorMax(g)) = Shows(v, Rank(v, g.left))
      /\ g.cursor = Clamp(f.cursor, g.left, CursorMax(g))
  BY OffUpdateAt
<1>2. Rank(v, f.cursor) \in 0..Count(v) /\ Count(v) \in Nat /\ Rank(v, g.left) \in 0..Count(v)
  BY <1>1, RankOrders
<1>3. Rank(v, f.cursor) <= Rank(v, CursorMax(g))
  BY <1>1, <1>2, FieldAssumption DEF Shows
<1>4. f.cursor <= CursorMax(g) /\ g.left <= f.cursor
  BY <1>1, <1>3, RankOrders
<1>5. f.cursor \in Int /\ g.left \in Int /\ CursorMax(g) \in Int
  BY <1>1 DEF Starts
<1> QED  BY <1>1, <1>4, <1>5 DEF Clamp

\* What Placed says in ranks.
LEMMA PlacedRanks ==
    ASSUME NEW f \in Fields, Placed(f)
    PROVE  LET v == f.value
               l == Rank(v, f.left)
               c == Rank(v, f.cursor)
           IN  /\ v \in Seq(Bytes) /\ Len(v) \in Nat
               /\ 0 \in Starts(v) /\ f.left \in Starts(v) /\ f.cursor \in Starts(v)
               /\ CursorMax(f) \in Starts(v) /\ f.left <= f.cursor
               /\ Count(v) \in Nat /\ Last(v) \in Nat /\ l \in 0..Last(v)
               /\ c \in 0..Count(v) /\ l <= c /\ c <= l + Width
               /\ f.cursor = CursorMax(f) <=> c = Shows(v, l)
<1> DEFINE v == f.value
<1>1. v \in Seq(Bytes) /\ Len(v) \in Nat /\ f.left \in Int /\ f.cursor \in Int
  BY LenProperties DEF Fields
<1>2. 0 \in Starts(v)
  BY <1>1 DEF Placed, Starts
<1>3. LeftMax(v) \in Starts(v) /\ Rank(v, LeftMax(v)) = Last(v) /\ Last(v) \in Nat /\ Count(v) \in Nat
  BY <1>1, <1>2, LeftMaxRank
<1>4. f.left \in Starts(v)
  BY <1>1, <1>3 DEF Placed, Starts
<1>5. /\ CursorMax(f) \in Starts(v)
      /\ Rank(v, CursorMax(f)) = Shows(v, Rank(v, f.left))
  BY <1>1, <1>4, CursorMaxRank
<1>6. f.cursor \in Starts(v) /\ f.left <= LeftMax(v) /\ f.left <= f.cursor /\ f.cursor <= CursorMax(f)
  BY <1>1, <1>4, <1>5 DEF Placed, Starts
<1>7. /\ Rank(v, f.left) <= Last(v) /\ Rank(v, f.left) <= Rank(v, f.cursor)
      /\ Rank(v, f.cursor) <= Shows(v, Rank(v, f.left))
      /\ Rank(v, f.left) \in 0..Count(v) /\ Rank(v, f.cursor) \in 0..Count(v)
      /\ f.cursor = CursorMax(f) <=> Rank(v, f.cursor) = Shows(v, Rank(v, f.left))
  BY <1>1, <1>3, <1>4, <1>5, <1>6, RankOrders
<1>8. Rank(v, f.cursor) <= Rank(v, f.left) + Width
  BY <1>3, <1>7, FieldAssumption DEF Shows
<1> QED  BY <1>1, <1>2, <1>3, <1>4, <1>5, <1>6, <1>7, <1>8
----------------------------------------------------------------------------
(***************************************************************************)
(* Ranks in a text that is edited.                                         *)
(***************************************************************************)

\* Two stretches of bytes that start codepoints alike hold as many.
Alike(v, a, w, b, n) == \A i \in 0..n - 1 : v[a + i + 1][2] = 1 <=> w[b + i + 1][2] = 1

LEMMA SameStretch ==
    ASSUME NEW v, NEW w, NEW a \in Nat, NEW b \in Nat, NEW n \in Nat, Alike(v, a, w, b, n),
           NEW x, x = a + n, NEW y, y = b + n
    PROVE  Rank(v, x) - Rank(v, a) = Rank(w, y) - Rank(w, b)
<1> DEFINE Differ == {k \in 0..n : Rank(v, a + k) - Rank(v, a) # Rank(w, b + k) - Rank(w, b)}
<1>1. SUFFICES ASSUME Differ # {} PROVE FALSE
  <2>1. n \in 0..n
    OBVIOUS
  <2> QED  BY <2>1
<1>2. Differ \in SUBSET Nat
  OBVIOUS
<1> HIDE DEF Differ
<1>3. PICK k \in Differ : \A j \in Differ : k <= j
  BY <1>1, <1>2, LeastNatural
<1>4. k \in 0..n /\ Rank(v, a + k) - Rank(v, a) # Rank(w, b + k) - Rank(w, b)
  BY <1>3 DEF Differ
<1>5. Rank(v, a) \in Nat /\ Rank(w, b) \in Nat
  BY RankIsNat
<1>6. k # 0
  <2>1. a + 0 = a /\ b + 0 = b
    OBVIOUS
  <2> QED  BY <1>4, <1>5, <2>1
<1> DEFINE j == k - 1
<1>7. j \in 0..n - 1 /\ j \in 0..n /\ ~(k <= j) /\ a + j \in Nat /\ b + j \in Nat
      /\ a + k = (a + j) + 1 /\ b + k = (b + j) + 1
  BY <1>4, <1>6
<1> HIDE DEF j
<1>8. Rank(v, a + j) - Rank(v, a) = Rank(w, b + j) - Rank(w, b)
  BY <1>3, <1>7 DEF Differ
<1>9. v[(a + j) + 1][2] = 1 <=> w[(b + j) + 1][2] = 1
  BY <1>7 DEF Alike
<1>10. /\ Rank(v, a + k) = Rank(v, a + j) + (IF v[(a + j) + 1][2] = 1 THEN 1 ELSE 0)
       /\ Rank(w, b + k) = Rank(w, b + j) + (IF w[(b + j) + 1][2] = 1 THEN 1 ELSE 0)
  BY <1>7, RankStep
<1>11. Rank(v, a + j) \in Nat /\ Rank(w, b + j) \in Nat
  BY <1>7, RankIsNat
<1> QED  BY <1>4, <1>5, <1>8, <1>9, <1>10, <1>11

LEMMA PartsOf ==
    ASSUME NEW v \in Seq(Bytes), NEW p \in 0..Len(v)
    PROVE  LET s == SubSeq(v, 1, p)
               t == SubSeq(v, p + 1, Len(v))
           IN  /\ s \in Seq(Bytes) /\ t \in Seq(Bytes) /\ s \o t = v
               /\ Len(s) = p /\ Len(t) = Len(v) - p /\ Len(v) \in Nat
               /\ \A i \in 1..p : s[i] = v[i]
               /\ \A i \in 1..Len(v) - p : t[i] = v[p + i]
<1>1. Len(v) \in Nat /\ \A i \in 1..Len(v) : v[i] \in Bytes
  BY LenProperties, ElementOfSeq
<1>2. p \in Int /\ 1 \in Int /\ p + 1 \in Int /\ Len(v) \in Int /\ p <= Len(v)
  BY <1>1
<1>3. \A i \in 1..p : v[i] \in Bytes
  BY <1>1, <1>2
<1>4. \A i \in p + 1..Len(v) : v[i] \in Bytes
  BY <1>1, <1>2
<1> DEFINE s == SubSeq(v, 1, p)
           t == SubSeq(v, p + 1, Len(v))
<1>5. /\ s \in Seq(Bytes) /\ Len(s) = IF 1 <= p THEN p - 1 + 1 ELSE 0
      /\ \A i \in 1..p - 1 + 1 : s[i] = v[1 + i - 1]
  BY <1>2, <1>3, SubSeqProperties
<1>6. /\ t \in Seq(Bytes) /\ Len(t) = IF p + 1 <= Len(v) THEN Len(v) - (p + 1) + 1 ELSE 0
      /\ \A i \in 1..Len(v) - (p + 1) + 1 : t[i] = v[p + 1 + i - 1]
  BY <1>2, <1>4, SubSeqProperties
<1>7. s \o t = v
  <2>1. 1 \in 1..Len(v) + 1 /\ p \in 1 - 1..Len(v) /\ Len(v) \in p..Len(v)
    BY <1>1, <1>2
  <2>2. s \o t = SubSeq(v, 1, Len(v))
    BY <2>1, ConcatAdjacentSubSeq
  <2> QED  BY <2>2, SubSeqFull
<1> HIDE DEF s, t
<1>8. Len(s) = p /\ \A i \in 1..p : s[i] = v[i]
  <2>1. \A i \in 1..p : i \in 1..p - 1 + 1 /\ 1 + i - 1 = i
    BY <1>2
  <2> QED  BY <1>2, <1>5, <2>1
<1>9. Len(t) = Len(v) - p /\ \A i \in 1..Len(v) - p : t[i] = v[p + i]
  <2>1. \A i \in 1..Len(v) - p : i \in 1..Len(v) - (p + 1) + 1 /\ p + 1 + i - 1 = p + i
    BY <1>1, <1>2
  <2> QED  BY <1>1, <1>2, <1>6, <2>1
<1> QED  BY <1>1, <1>5, <1>6, <1>7, <1>8, <1>9 DEF s, t

\* A text whose bytes up to p are those of v, and whose bytes from q are those
\* of v from p2: codepoints start where they did, and ranks are shifted.
LEMMA RanksBefore ==
    ASSUME NEW v, NEW w, Len(v) \in Nat, Len(w) \in Nat, NEW p \in 0..Len(v), p <= Len(w),
           \A i \in 1..p : w[i] = v[i]
    PROVE  /\ \A q \in 0..p : Rank(w, q) = Rank(v, q)
           /\ \A q \in 0..p - 1 : q \in Starts(w) <=> q \in Starts(v)
<1>1. ASSUME NEW q \in 0..p PROVE Rank(w, q) = Rank(v, q)
  <2>1. q \in Nat /\ 0 \in Nat /\ 0 + q = q
    OBVIOUS
  <2>2. Alike(w, 0, v, 0, q)
    <3>1. \A i \in 0..q - 1 : 0 + i + 1 \in 1..p
      OBVIOUS
    <3> QED  BY <3>1 DEF Alike
  <2>3. Rank(w, q) - Rank(w, 0) = Rank(v, q) - Rank(v, 0)
    BY <2>1, <2>2, SameStretch
  <2>4. Rank(w, 0) = 0 /\ Rank(v, 0) = 0 /\ Rank(w, q) \in Nat /\ Rank(v, q) \in Nat
    BY <2>1, RankIsNat
  <2> QED  BY <2>1, <2>3, <2>4
<1>2. ASSUME NEW q \in 0..p - 1 PROVE q \in Starts(w) <=> q \in Starts(v)
  <2>1. q + 1 \in 1..p /\ q # Len(v) /\ q # Len(w) /\ q \in 0..Len(v) /\ q \in 0..Len(w)
    OBVIOUS
  <2> QED  BY <2>1 DEF Starts, CodepointStart
<1> QED  BY <1>1, <1>2

LEMMA RanksBehind ==
    ASSUME NEW v, NEW w, Len(v) \in Nat, Len(w) \in Nat, NEW a \in 0..Len(v), NEW b \in 0..Len(w),
           Len(w) - b = Len(v) - a,
           \A i \in 1..Len(v) - a : w[b + i] = v[a + i]
    PROVE  /\ \A q \in a..Len(v) : Rank(w, b + (q - a)) = Rank(w, b) + (Rank(v, q) - Rank(v, a))
           /\ \A q \in a..Len(v) : b + (q - a) \in Starts(w) <=> q \in Starts(v)
           /\ Count(w) = Rank(w, b) + (Count(v) - Rank(v, a))
<1>1. ASSUME NEW q \in a..Len(v)
      PROVE  Rank(w, b + (q - a)) = Rank(w, b) + (Rank(v, q) - Rank(v, a))
  <2> DEFINE n == q - a
  <2>1. n \in Nat /\ a \in Nat /\ b \in Nat /\ a + n = q /\ b + n \in Nat /\ q \in Nat
    OBVIOUS
  <2>2. Alike(w, b, v, a, n)
    <3>1. ASSUME NEW i \in 0..n - 1 PROVE w[b + i + 1] = v[a + i + 1]
      <4>1. i + 1 \in 1..Len(v) - a /\ b + (i + 1) = b + i + 1 /\ a + (i + 1) = a + i + 1
        OBVIOUS
      <4>2. w[b + (i + 1)] = v[a + (i + 1)]
        BY <4>1
      <4> QED  BY <4>1, <4>2, Zenon
    <3> QED  BY <3>1, Zenon DEF Alike
  <2> HIDE DEF n
  <2>3. ASSUME NEW y, y = b + n PROVE Rank(w, y) - Rank(w, b) = Rank(v, q) - Rank(v, a)
    BY <2>1, <2>2, <2>3, SameStretch
  <2>4. Rank(w, b) \in Nat /\ Rank(w, b + n) \in Nat /\ Rank(v, a) \in Nat /\ Rank(v, q) \in Nat
    BY <2>1, RankIsNat
  <2>5. Rank(w, b + n) = Rank(w, b) + (Rank(v, q) - Rank(v, a))
    <3>1. Rank(w, b + n) - Rank(w, b) = Rank(v, q) - Rank(v, a)
      BY <2>3
    <3> HIDE DEF Rank
    <3> QED  BY <2>4, <3>1
  <2> QED  BY <2>5 DEF n
<1>2. ASSUME NEW q \in a..Len(v)
      PROVE  b + (q - a) \in Starts(w) <=> q \in Starts(v)
  <2>1. /\ q \in 0..Len(v) /\ b + (q - a) \in 0..Len(w)
        /\ b + (q - a) = Len(w) <=> q = Len(v)
    OBVIOUS
  <2>2. q # Len(v) => w[b + (q - a) + 1] = v[q + 1]
    <3> SUFFICES ASSUME q # Len(v)
                 PROVE  w[b + (q - a) + 1] = v[q + 1]
      OBVIOUS
    <3> DEFINE j == (q - a) + 1
    <3>1. j \in 1..Len(v) - a
      OBVIOUS
    <3>2. b + j = b + (q - a) + 1 /\ a + j = q + 1
      OBVIOUS
    <3> HIDE DEF j
    <3>3. w[b + j] = v[a + j]
      BY <3>1
    <3> QED  BY <3>2, <3>3, Zenon
  <2> QED  BY <2>1, <2>2 DEF Starts, CodepointStart
<1>3. Count(w) = Rank(w, b) + (Count(v) - Rank(v, a))
  <2>1. Len(v) \in a..Len(v) /\ b + (Len(v) - a) = Len(w)
    OBVIOUS
  <2> QED  BY <1>1, <2>1 DEF Count
<1> QED  BY <1>1, <1>2, <1>3
----------------------------------------------------------------------------
(***************************************************************************)
(* Whole texts, byte by byte: a byte is followed by the next one of its    *)
(* codepoint, and the last byte of a codepoint by the first of another.    *)
(***************************************************************************)
LinkedAt(v, p) ==
    IF v[p][2] = BytesOf[v[p][1]] THEN CodepointStart(v, p)
    ELSE p < Len(v) /\ v[p + 1] = <<v[p][1], v[p][2] + 1>>

Linked(v) == CodepointStart(v, 0) /\ \A p \in 1..Len(v) : LinkedAt(v, p)

LEMMA BytesAre ==
    ASSUME NEW b \in Bytes
    PROVE  /\ b[1] \in Codepoints /\ b[2] \in 1..BytesOf[b[1]] /\ BytesOf[b[1]] \in Nat \ {0}
           /\ b = <<b[1], b[2]>>
BY FieldAssumption DEF Bytes

LEMMA EncodedIs ==
    ASSUME NEW c \in Codepoints
    PROVE  /\ Encoded(c) \in Seq(Bytes) /\ Len(Encoded(c)) = BytesOf[c] /\ BytesOf[c] \in Nat \ {0}
           /\ \A i \in 1..BytesOf[c] : Encoded(c)[i] = <<c, i>> /\ <<c, i>> \in Bytes
<1> DEFINE n == BytesOf[c]
           e == [i \in 1..n |-> <<c, i>>]
<1>1. n \in Nat \ {0}
  BY FieldAssumption
<1>2. \A i \in 1..n : <<c, i>> \in Bytes
  BY <1>1 DEF Bytes
<1> HIDE DEF n
<1>3. e \in [1..n -> Bytes]
  BY <1>2
<1>4. e \in Seq(Bytes)
  BY <1>1, <1>3, SeqDef
<1>5. Len(e) = n
  <2>1. DOMAIN e = 1..Len(e) /\ DOMAIN e = 1..n /\ Len(e) \in Nat
    BY <1>4, LenProperties
  <2> QED  BY <1>1, <2>1
<1>6. \A i \in 1..n : e[i] = <<c, i>>
  OBVIOUS
<1> QED  BY <1>1, <1>2, <1>4, <1>5, <1>6 DEF Encoded, n

\* A codepoint that lies in a text, byte by byte.
LEMMA EncodedLies ==
    ASSUME NEW v \in Seq(Bytes), NEW c \in Codepoints, NEW p \in 0..Len(v), p + BytesOf[c] <= Len(v)
    PROVE  SubSeq(v, p + 1, p + BytesOf[c]) = Encoded(c)
             <=> \A i \in 1..BytesOf[c] : v[p + i] = <<c, i>>
<1> DEFINE n == BytesOf[c]
           s == SubSeq(v, p + 1, p + n)
<1>1. Len(v) \in Nat /\ \A i \in 1..Len(v) : v[i] \in Bytes
  BY LenProperties, ElementOfSeq
<1>2. /\ Encoded(c) \in Seq(Bytes) /\ Len(Encoded(c)) = n /\ n \in Nat \ {0}
      /\ \A i \in 1..n : Encoded(c)[i] = <<c, i>>
  BY EncodedIs
<1> HIDE DEF n
<1>3. p + 1 \in Int /\ p + n \in Int /\ \A i \in p + 1..p + n : v[i] \in Bytes
  BY <1>1, <1>2 DEF n
<1> DEFINE e == p + n
<1>8. e \in Int /\ \A i \in p + 1..e : v[i] \in Bytes
  BY <1>3
<1> HIDE DEF e
<1>9. /\ SubSeq(v, p + 1, e) \in Seq(Bytes)
      /\ Len(SubSeq(v, p + 1, e)) = IF p + 1 <= e THEN e - (p + 1) + 1 ELSE 0
      /\ \A i \in 1..e - (p + 1) + 1 : SubSeq(v, p + 1, e)[i] = v[p + 1 + i - 1]
  BY <1>3, <1>8, SubSeqProperties
<1>10. s = SubSeq(v, p + 1, e) /\ e = p + n
  BY DEF e
<1> HIDE DEF s
<1>4. s \in Seq(Bytes)
  BY <1>9, <1>10
<1>5. Len(s) = n /\ \A i \in 1..n : s[i] = v[p + i]
  <2>1. e - (p + 1) + 1 = n /\ \A i \in 1..n : p + 1 + i - 1 = p + i
    BY <1>1, <1>2, <1>10
  <2>2. p + 1 <= e
    BY <1>1, <1>2, <1>10
  <2> QED  BY <1>9, <1>10, <2>1, <2>2
<1>6. ASSUME \A i \in 1..n : v[p + i] = <<c, i>> PROVE s = Encoded(c)
  BY <1>2, <1>4, <1>5, <1>6, SeqEqual
<1>7. ASSUME s = Encoded(c) PROVE \A i \in 1..n : v[p + i] = <<c, i>>
  BY <1>2, <1>5, <1>7
<1> QED  BY <1>6, <1>7 DEF s, n

LEMMA LinkedIsWhole ==
    ASSUME NEW v \in Seq(Bytes), Linked(v)
    PROVE  Whole(v)
<1>1. Len(v) \in Nat /\ \A i \in 1..Len(v) : v[i] \in Bytes
  BY LenProperties, ElementOfSeq
<1>2. ASSUME NEW p \in 1..Len(v), v[p][2] = 1
      PROVE  \E c \in Codepoints :
                LET end == p + BytesOf[c] - 1
                IN  end <= Len(v) /\ SubSeq(v, p, end) = Encoded(c) /\ CodepointStart(v, end)
  <2> DEFINE c == v[p][1]
             n == BytesOf[c]
             Bad == {i \in 1..n : ~(p + i - 1 <= Len(v) /\ v[p + i - 1] = <<c, i>>)}
  <2>1. c \in Codepoints /\ n \in Nat \ {0} /\ v[p] = <<c, 1>>
    BY <1>1, <1>2, BytesAre
  <2>2. Bad = {}
    <3>1. SUFFICES ASSUME Bad # {} PROVE FALSE
      OBVIOUS
    <3>2. Bad \in SUBSET Nat
      BY <2>1
    <3> HIDE DEF c, n, Bad
    <3>3. PICK i \in Bad : \A j \in Bad : i <= j
      BY <3>1, <3>2, LeastNatural
    <3>4. i \in 1..n /\ ~(p + i - 1 <= Len(v) /\ v[p + i - 1] = <<c, i>>)
      BY <3>3 DEF Bad
    <3>5. i # 1
      <4>1. p + 1 - 1 = p /\ p <= Len(v)
        BY <1>1
      <4> QED  BY <2>1, <3>4, <4>1
    <3> DEFINE j == i - 1
    <3>6. j \in 1..n /\ j \notin Bad /\ j + 1 = i /\ j # n
      BY <2>1, <3>3, <3>4, <3>5
    <3> DEFINE q == p + j - 1
    <3>7. q \in 1..Len(v) /\ v[q] = <<c, j>> /\ q + 1 = p + i - 1
      BY <1>1, <2>1, <3>4, <3>6 DEF Bad
    <3> HIDE DEF j, q
    <3>8. v[q][1] = c /\ v[q][2] = j
      BY <3>7
    <3>9. q < Len(v) /\ v[q + 1] = <<c, j + 1>>
      BY <3>6, <3>7, <3>8 DEF Linked, LinkedAt, n
    <3> QED  BY <1>1, <3>4, <3>6, <3>7, <3>9
  <2> DEFINE end == p + n - 1
  <2>3. end \in 1..Len(v) /\ v[end] = <<c, n>>
    <3>1. n \in 1..n /\ n \notin Bad
      BY <2>1, <2>2
    <3> HIDE DEF c, n
    <3> QED  BY <1>1, <2>1, <3>1
  <2>4. CodepointStart(v, end)
    <3>1. v[end][1] = c /\ v[end][2] = n
      <4> HIDE DEF c, n, end
      <4> QED  BY <2>3
    <3> HIDE DEF end
    <3> QED  BY <2>3, <3>1 DEF Linked, LinkedAt
  <2>5. SubSeq(v, p, end) = Encoded(c)
    <3> DEFINE o == p - 1
    <3>1. o \in 0..Len(v) /\ o + 1 = p /\ o + n = end
      <4> HIDE DEF c, n
      <4> QED  BY <1>1, <2>1
    <3>2. \A i \in 1..n : v[o + i] = <<c, i>>
      <4> HIDE DEF c, n
      <4>1. \A i \in 1..n : v[p + i - 1] = <<c, i>>
        BY <2>2
      <4>2. \A i \in 1..n : o + i = p + i - 1
        BY <2>1, <3>1
      <4> HIDE DEF o
      <4> QED  BY <4>1, <4>2
    <3> HIDE DEF o, c, end, Bad
    <3>3. o + n <= Len(v)
      BY <2>3, <3>1
    <3>4. SubSeq(v, o + 1, o + BytesOf[c]) = Encoded(c)
      BY <2>1, <3>1, <3>2, <3>3, EncodedLies
    <3> QED  BY <3>1, <3>4
  <2> HIDE DEF c, end, Bad
  <2>6. end <= Len(v)
    BY <1>1, <2>3
  <2>7. end = p + BytesOf[c] - 1
    BY DEF end
  <2> QED  BY <2>1, <2>4, <2>5, <2>6, <2>7
<1> QED  BY <1>2 DEF Linked, Whole

LEMMA WholeIsLinked ==
    ASSUME NEW v \in Seq(Bytes), Whole(v)
    PROVE  Linked(v)
<1>1. Len(v) \in Nat /\ \A i \in 1..Len(v) : v[i] \in Bytes
  BY LenProperties, ElementOfSeq
<1> DEFINE Lies(s, c) == /\ s + BytesOf[c] <= Len(v) /\ CodepointStart(v, s + BytesOf[c])
                         /\ \A i \in 1..BytesOf[c] : v[s + i] = <<c, i>>
           In(p) == \E s \in 0..p - 1, c \in Codepoints : Lies(s, c) /\ p <= s + BytesOf[c]
           Bad == {p \in 1..Len(v) : ~In(p)}
<1>2. ASSUME NEW p \in 1..Len(v), v[p][2] = 1 PROVE In(p)
  <2>1. PICK c \in Codepoints : /\ p + BytesOf[c] - 1 <= Len(v)
                                /\ SubSeq(v, p, p + BytesOf[c] - 1) = Encoded(c)
                                /\ CodepointStart(v, p + BytesOf[c] - 1)
    BY <1>2 DEF Whole
  <2> DEFINE s == p - 1
  <2>2. BytesOf[c] \in Nat \ {0}
    BY FieldAssumption
  <2>3. /\ s \in 0..Len(v) /\ s \in 0..p - 1 /\ s + 1 = p /\ s + BytesOf[c] = p + BytesOf[c] - 1
        /\ p <= s + BytesOf[c]
    BY <1>1, <2>2
  <2> HIDE DEF s
  <2>4. s + BytesOf[c] <= Len(v) /\ CodepointStart(v, s + BytesOf[c])
    BY <2>1, <2>3
  <2>5. SubSeq(v, s + 1, s + BytesOf[c]) = Encoded(c)
    BY <2>1, <2>3
  <2>6. \A i \in 1..BytesOf[c] : v[s + i] = <<c, i>>
    BY <2>3, <2>4, <2>5, EncodedLies
  <2> QED  BY <2>3, <2>4, <2>6
<1>3. Bad = {}
  <2>1. SUFFICES ASSUME Bad # {} PROVE FALSE
    OBVIOUS
  <2>2. Bad \in SUBSET Nat
    BY <1>1
  <2> HIDE DEF In, Bad
  <2>3. PICK p \in Bad : \A q \in Bad : p <= q
    BY <2>1, <2>2, LeastNatural
  <2>4. p \in 1..Len(v) /\ ~In(p)
    BY <2>3 DEF Bad
  <2>5. v[p][2] # 1
    BY <1>2, <2>4
  <2>6. p # 1
    BY <1>1, <2>4, <2>5 DEF Whole, CodepointStart
  <2>7. p - 1 \in 1..Len(v) /\ ~(p <= p - 1)
    BY <1>1, <2>4, <2>6
  <2>8. In(p - 1)
    BY <2>3, <2>7 DEF Bad
  <2>9. PICK s \in 0..(p - 1) - 1, c \in Codepoints : Lies(s, c) /\ p - 1 <= s + BytesOf[c]
    BY <2>8 DEF In
  <2>10. BytesOf[c] \in Nat /\ s \in 0..p - 1
    BY <2>7, FieldAssumption
  <2>11. p - 1 = s + BytesOf[c]
    <3>1. ~(p <= s + BytesOf[c])
      BY <2>4, <2>9, <2>10 DEF In
    <3>2. p \in Int /\ s \in Int /\ BytesOf[c] \in Int /\ p - 1 <= s + BytesOf[c]
      BY <2>4, <2>9, <2>10
    <3> HIDE DEF Lies
    <3> QED  BY <3>1, <3>2
  <2>12. CodepointStart(v, p - 1)
    BY <2>9, <2>11
  <2>13. p - 1 # Len(v) /\ (p - 1) + 1 = p
    BY <1>1, <2>4
  <2> QED  BY <2>5, <2>12, <2>13 DEF CodepointStart
<1>4. ASSUME NEW p \in 1..Len(v) PROVE LinkedAt(v, p)
  <2>1. In(p)
    BY <1>3
  <2>2. PICK s \in 0..p - 1, c \in Codepoints : Lies(s, c) /\ p <= s + BytesOf[c]
    BY <2>1
  <2> DEFINE i == p - s
  <2>3. BytesOf[c] \in Nat \ {0} /\ i \in 1..BytesOf[c] /\ s + i = p /\ s + (i + 1) = p + 1
    BY <1>1, <2>2, FieldAssumption
  <2> HIDE DEF i, In, Bad
  <2>4. v[p] = <<c, i>>
    BY <2>2, <2>3
  <2>5. v[p][1] = c /\ v[p][2] = i
    BY <2>4
  <2>6. CASE i = BytesOf[c]
    BY <2>2, <2>3, <2>5, <2>6 DEF LinkedAt
  <2>7. CASE i # BytesOf[c]
    <3>1. i + 1 \in 1..BytesOf[c] /\ p < Len(v)
      BY <1>1, <2>2, <2>3, <2>7
    <3>2. v[s + (i + 1)] = <<c, i + 1>>
      BY <2>2, <3>1
    <3>3. v[p + 1] = <<c, i + 1>>
      BY <2>3, <3>2
    <3> QED  BY <2>5, <2>7, <3>1, <3>3 DEF LinkedAt
  <2> QED  BY <2>6, <2>7
<1> QED  BY <1>4 DEF Linked, Whole
----------------------------------------------------------------------------
\* A whole text may be cut where codepoints start, and put together again.
LEMMA LinkedParts ==
    ASSUME NEW v \in Seq(Bytes), Linked(v), NEW p \in Starts(v)
    PROVE  Linked(SubSeq(v, 1, p)) /\ Linked(SubSeq(v, p + 1, Len(v)))
<1> DEFINE s == SubSeq(v, 1, p)
           t == SubSeq(v, p + 1, Len(v))
           n == Len(v) - p
<1>1. p \in 0..Len(v) /\ CodepointStart(v, p) /\ CodepointStart(v, 0)
  BY DEF Starts, Linked
<1>2. /\ Len(s) = p /\ Len(t) = n /\ Len(v) \in Nat
      /\ \A i \in 1..p : s[i] = v[i]
      /\ \A i \in 1..n : t[i] = v[p + i]
  BY <1>1, PartsOf
<1>3. \A i \in 1..Len(v) : v[i] \in Bytes
  BY ElementOfSeq
<1> HIDE DEF s, t
<1>4. Linked(s)
  <2>1. CodepointStart(s, 0)
    BY <1>1, <1>2 DEF CodepointStart
  <2>2. ASSUME NEW i \in 1..Len(s) PROVE LinkedAt(s, i)
    <3>1. /\ i \in 1..Len(v) /\ i \in 1..p /\ s[i] = v[i] /\ LinkedAt(v, i)
          /\ i # p => i + 1 \in 1..p /\ s[i + 1] = v[i + 1]
      BY <1>1, <1>2 DEF Linked
    <3>2. CASE v[i][2] = BytesOf[v[i][1]]
      BY <1>1, <1>2, <3>1, <3>2 DEF LinkedAt, CodepointStart
    <3>3. CASE v[i][2] # BytesOf[v[i][1]]
      <4>1. i < Len(v) /\ v[i + 1] = <<v[i][1], v[i][2] + 1>>
        BY <3>1, <3>3 DEF LinkedAt
      <4>2. v[i][2] \in Nat \ {0}
        BY <1>3, <3>1, BytesAre
      <4>3. v[i + 1][2] # 1
        BY <4>1, <4>2
      <4>4. i # p
        BY <1>1, <1>2, <4>1, <4>3 DEF CodepointStart
      <4> QED  BY <1>1, <1>2, <3>1, <3>3, <4>1, <4>4 DEF LinkedAt
    <3> QED  BY <3>2, <3>3
  <2> QED  BY <2>1, <2>2 DEF Linked
<1>5. Linked(t)
  <2>1. CodepointStart(t, 0)
    <3>1. CASE p = Len(v)
      BY <1>2, <3>1 DEF CodepointStart
    <3>2. CASE p # Len(v)
      <4>1. t[1] = v[p + 1] /\ v[p + 1][2] = 1
        BY <1>1, <1>2, <3>2 DEF CodepointStart
      <4> QED  BY <4>1 DEF CodepointStart
    <3> QED  BY <3>1, <3>2
  <2>2. ASSUME NEW i \in 1..Len(t) PROVE LinkedAt(t, i)
    <3>1. /\ p + i \in 1..Len(v) /\ i \in 1..n /\ t[i] = v[p + i] /\ LinkedAt(v, p + i)
          /\ p + i < Len(v) => i < n /\ t[i + 1] = v[p + i + 1]
          /\ i = n <=> p + i = Len(v)
      <4>1. i \in 1..n /\ p + i \in 1..Len(v) /\ (i = n <=> p + i = Len(v))
        BY <1>1, <1>2
      <4>2. p + i < Len(v) => i + 1 \in 1..n /\ i < n /\ p + (i + 1) = p + i + 1
        BY <1>1, <1>2, <4>1
      <4>3. p + i < Len(v) => t[i + 1] = v[p + (i + 1)]
        BY <1>2, <4>2
      <4> QED  BY <1>2, <4>1, <4>2, <4>3 DEF Linked
    <3>2. CASE v[p + i][2] = BytesOf[v[p + i][1]]
      <4>1. CodepointStart(v, p + i)
        BY <3>1, <3>2 DEF LinkedAt
      <4>2. CodepointStart(t, i)
        <5>1. CASE i = n
          BY <1>2, <5>1 DEF CodepointStart
        <5>2. CASE i # n
          <6>1. p + i < Len(v) /\ p + i # Len(v)
            BY <1>2, <3>1, <5>2
          <6>2. v[p + i + 1][2] = 1
            BY <4>1, <6>1 DEF CodepointStart
          <6> QED  BY <3>1, <6>1, <6>2 DEF CodepointStart
        <5> QED  BY <5>1, <5>2
      <4> QED  BY <3>1, <3>2, <4>2 DEF LinkedAt
    <3>3. CASE v[p + i][2] # BytesOf[v[p + i][1]]
      BY <1>2, <3>1, <3>3 DEF LinkedAt
    <3> QED  BY <3>2, <3>3
  <2> QED  BY <2>1, <2>2 DEF Linked
<1> QED  BY <1>4, <1>5 DEF s, t

LEMMA LinkedConcat ==
    ASSUME NEW s \in Seq(Bytes), NEW t \in Seq(Bytes), Linked(s), Linked(t)
    PROVE  s \o t \in Seq(Bytes) /\ Linked(s \o t)
<1> DEFINE v == s \o t
           m == Len(s)
           n == Len(t)
<1>1. m \in Nat /\ n \in Nat
  BY LenProperties
<1>2. /\ v \in Seq(Bytes) /\ Len(v) = m + n
      /\ \A i \in 1..m + n : v[i] = IF i <= m THEN s[i] ELSE t[i - m]
  BY ConcatProperties
<1> HIDE DEF v, m, n
<1>3. /\ \A i \in 1..m : v[i] = s[i]
      /\ \A i \in 1..n : v[m + i] = t[i]
  <2>1. \A i \in 1..m : i \in 1..m + n /\ i <= m
    BY <1>1
  <2>2. \A i \in 1..n : m + i \in 1..m + n /\ ~(m + i <= m) /\ (m + i) - m = i
    BY <1>1
  <2> QED  BY <1>2, <2>1, <2>2
<1>4. CodepointStart(s, 0) /\ CodepointStart(t, 0) /\ Len(s) = m /\ Len(t) = n
  BY DEF Linked, m, n
\* Where t begins, and where it ends, codepoints start.
<1>5. CodepointStart(v, m) /\ CodepointStart(v, 0)
  <2>1. n # 0 => v[m + 1][2] = 1
    <3>1. n # 0 => 1 \in 1..n /\ t[1][2] = 1
      BY <1>1, <1>4 DEF CodepointStart
    <3> QED  BY <1>3, <3>1
  <2>2. m # 0 => v[1][2] = 1
    BY <1>1, <1>3, <1>4 DEF CodepointStart
  <2> QED  BY <1>1, <1>2, <2>1, <2>2 DEF CodepointStart
<1>6. ASSUME NEW i \in 1..m PROVE LinkedAt(v, i)
  <2>1. LinkedAt(s, i) /\ v[i] = s[i] /\ (i # m => i + 1 \in 1..m /\ v[i + 1] = s[i + 1])
    BY <1>1, <1>3 DEF Linked, m
  <2>2. CASE s[i][2] = BytesOf[s[i][1]]
    <3>1. CASE i = m
      BY <1>5, <2>1, <2>2, <3>1 DEF LinkedAt
    <3>2. CASE i # m
      BY <1>1, <1>2, <1>4, <2>1, <2>2, <3>2 DEF LinkedAt, CodepointStart
    <3> QED  BY <3>1, <3>2
  <2>3. CASE s[i][2] # BytesOf[s[i][1]]
    <3>1. i < m /\ s[i + 1] = <<s[i][1], s[i][2] + 1>>
      BY <1>4, <2>1, <2>3 DEF LinkedAt
    <3> QED  BY <1>1, <1>2, <2>1, <2>3, <3>1 DEF LinkedAt
  <2> QED  BY <2>2, <2>3
<1>7. ASSUME NEW i \in 1..n PROVE LinkedAt(v, m + i)
  <2>1. LinkedAt(t, i) /\ v[m + i] = t[i] /\ (i # n => v[m + i + 1] = t[i + 1])
    <3>1. i # n => i + 1 \in 1..n /\ m + (i + 1) = m + i + 1
      BY <1>1
    <3>2. i # n => v[m + (i + 1)] = t[i + 1]
      BY <1>3, <3>1
    <3> QED  BY <1>3, <3>1, <3>2 DEF Linked, n
  <2>2. i = n <=> m + i = Len(v)
    BY <1>1, <1>2
  <2>3. CASE t[i][2] = BytesOf[t[i][1]]
    <3>1. CodepointStart(t, i)
      BY <2>1, <2>3 DEF LinkedAt
    <3>2. CodepointStart(v, m + i)
      BY <1>4, <2>1, <2>2, <3>1 DEF CodepointStart
    <3> QED  BY <2>1, <2>3, <3>2 DEF LinkedAt
  <2>4. CASE t[i][2] # BytesOf[t[i][1]]
    <3>1. i < n /\ t[i + 1] = <<t[i][1], t[i][2] + 1>>
      BY <1>4, <2>1, <2>4 DEF LinkedAt
    <3>2. m + i < Len(v) /\ i # n
      BY <1>1, <1>2, <3>1
    <3> QED  BY <2>1, <2>4, <3>1, <3>2 DEF LinkedAt
  <2> QED  BY <2>3, <2>4
<1>8. ASSUME NEW i \in 1..Len(v) PROVE LinkedAt(v, i)
  <2>1. CASE i \in 1..m
    BY <1>6, <2>1
  <2>2. CASE i \notin 1..m
    <3>1. i - m \in 1..n /\ m + (i - m) = i
      BY <1>1, <1>2, <2>2
    <3> QED  BY <1>7, <3>1
  <2> QED  BY <2>1, <2>2
<1> QED  BY <1>2, <1>5, <1>8 DEF Linked, v

LEMMA LinkedEncoded ==
    ASSUME NEW c \in Codepoints
    PROVE  Linked(Encoded(c))
<1> DEFINE e == Encoded(c)
           n == BytesOf[c]
<1>1. Len(e) = n /\ n \in Nat \ {0} /\ \A i \in 1..n : e[i] = <<c, i>>
  BY EncodedIs
<1> HIDE DEF e
<1>2. e[1] = <<c, 1>>
  BY <1>1
<1>3. CodepointStart(e, 0)
  BY <1>2 DEF CodepointStart
<1>4. ASSUME NEW i \in 1..Len(e) PROVE LinkedAt(e, i)
  <2>1. e[i] = <<c, i>> /\ (i # n => i < Len(e) /\ e[i + 1] = <<c, i + 1>>)
    <3> HIDE DEF n
    <3> QED  BY <1>1
  <2>2. e[i][1] = c /\ e[i][2] = i
    BY <2>1
  <2>3. i = n => CodepointStart(e, i)
    BY <1>1 DEF CodepointStart
  <2> QED  BY <2>1, <2>2, <2>3 DEF LinkedAt
<1> QED  BY <1>3, <1>4 DEF Linked, e

\* The codepoint behind a position, and the next position.
LEMMA CodepointBehind ==
    ASSUME NEW v \in Seq(Bytes), Linked(v), NEW p \in Starts(v), NEW q \in Starts(v),
           Rank(v, q) = Rank(v, p) + 1
    PROVE  \E c \in Codepoints : SubSeq(v, p + 1, q) = Encoded(c)
<1>1. Len(v) \in Nat /\ p \in Nat /\ q \in Nat /\ p \in 0..Len(v) /\ q \in 0..Len(v)
  BY LenProperties DEF Starts
<1>2. p < q
  <2>1. Rank(v, p) \in Nat
    BY <1>1, RankIsNat
  <2>2. ~(q <= p)
    BY <1>1, <2>1, RankOrders
  <2> QED  BY <1>1, <2>2
<1>3. p + 1 \in 1..Len(v) /\ v[p + 1][2] = 1
  BY <1>1, <1>2 DEF Starts, CodepointStart
<1>4. PICK c \in Codepoints :
          LET end == p + 1 + BytesOf[c] - 1
          IN  end <= Len(v) /\ SubSeq(v, p + 1, end) = Encoded(c) /\ CodepointStart(v, end)
  BY <1>3, LinkedIsWhole DEF Whole
<1> DEFINE n == BytesOf[c]
           e == p + n
<1>5. n \in Nat \ {0} /\ e \in 0..Len(v) /\ p + 1 + n - 1 = e
  <2>1. n \in Nat \ {0}
    BY FieldAssumption
  <2> HIDE DEF n
  <2>2. p + 1 + n - 1 = e
    BY <1>1, <2>1
  <2>3. e <= Len(v)
    BY <1>4, <2>2 DEF n
  <2> QED  BY <1>1, <2>1, <2>2, <2>3
<1>6. e <= Len(v) /\ SubSeq(v, p + 1, e) = Encoded(c) /\ CodepointStart(v, e)
  BY <1>4, <1>5, Zenon
<1>7. \A i \in 1..n : v[p + i] = <<c, i>>
  BY <1>1, <1>6, EncodedLies
<1> HIDE DEF n, e
<1>8. Rank(v, e) = Rank(v, p) + 1
  <2>1. Length(v, p + 1, e) = 0
    <3>1. \A r \in p + 1..e - 1 : v[r + 1][2] # 1
      <4>1. ASSUME NEW r \in p + 1..e - 1 PROVE v[r + 1][2] # 1
        <5>1. r - p + 1 \in 1..n /\ p + (r - p + 1) = r + 1 /\ r - p + 1 # 1
          BY <1>1, <1>5 DEF e
        <5>2. v[p + (r - p + 1)] = <<c, r - p + 1>>
          BY <1>7, <5>1
        <5>3. v[r + 1] = <<c, r - p + 1>>
          BY <5>1, <5>2
        <5> QED  BY <5>1, <5>3
      <4> QED  BY <4>1
    <3>2. {r \in p + 1..e - 1 : v[r + 1][2] = 1} = {}
      BY <3>1
    <3> QED  BY <3>2, FS_EmptySet, Zenon DEF Length
  <2>2. Rank(v, p + 1) = Rank(v, p) + 1
    BY <1>1, <1>3, RankStep
  <2>3. p + 1 \in Nat /\ e \in Nat /\ p + 1 <= e
    BY <1>1, <1>5 DEF e
  <2>4. Rank(v, e) - Rank(v, p + 1) = 0
    BY <2>1, <2>3, LengthIsRanks
  <2>5. Rank(v, e) \in Nat /\ Rank(v, p) \in Nat
    BY <1>1, <2>3, RankIsNat
  <2> QED  BY <2>2, <2>4, <2>5
<1>9. e = q
  <2>1. e \in Starts(v)
    BY <1>5, <1>6 DEF Starts
  <2> QED  BY <1>1, <1>8, <2>1, RankOrders
<1> QED  BY <1>6, <1>9
----------------------------------------------------------------------------
(***************************************************************************)
(* What is cut, and what is inserted.                                      *)
(***************************************************************************)
Joins(w, s, t) ==
    /\ w \in Seq(Bytes) /\ Len(w) = Len(s) + Len(t) /\ Len(s) \in Nat /\ Len(t) \in Nat
    /\ SubSeq(w, 1, Len(s)) = s /\ SubSeq(w, Len(s) + 1, Len(w)) = t
    /\ \A i \in 1..Len(s) : w[i] = s[i]
    /\ \A i \in 1..Len(t) : w[Len(s) + i] = t[i]

LEMMA JoinedParts ==
    ASSUME NEW s \in Seq(Bytes), NEW t \in Seq(Bytes), NEW w, w = s \o t
    PROVE  Joins(w, s, t)
<1> DEFINE m == Len(s)
           n == Len(t)
<1>1. m \in Nat /\ n \in Nat
  BY LenProperties
<1>2. /\ w \in Seq(Bytes) /\ Len(w) = m + n
      /\ \A i \in 1..m + n : w[i] = IF i <= m THEN s[i] ELSE t[i - m]
  BY ConcatProperties
<1>3. /\ \A i \in 1..m : w[i] = s[i]
      /\ \A i \in 1..n : w[m + i] = t[i]
  <2> HIDE DEF m, n
  <2>1. \A i \in 1..m : i \in 1..m + n /\ i <= m
    BY <1>1
  <2>2. \A i \in 1..n : m + i \in 1..m + n /\ ~(m + i <= m) /\ (m + i) - m = i
    BY <1>1
  <2> QED  BY <1>2, <2>1, <2>2
<1>4. m \in 0..Len(w)
  <2> HIDE DEF m, n
  <2> QED  BY <1>1, <1>2
<1> DEFINE x == SubSeq(w, 1, m)
           y == SubSeq(w, m + 1, Len(w))
<1>5. /\ x \in Seq(Bytes) /\ y \in Seq(Bytes) /\ Len(x) = m /\ Len(y) = Len(w) - m
      /\ \A i \in 1..m : x[i] = w[i]
      /\ \A i \in 1..Len(w) - m : y[i] = w[m + i]
  BY <1>2, <1>4, PartsOf
<1> HIDE DEF x, y
<1>6. x = s
  <2>1. \A i \in 1..Len(x) : x[i] = s[i]
    BY <1>3, <1>5
  <2> QED  BY <1>5, <2>1, SeqEqual
<1>7. y = t
  <2>1. Len(w) - m = n
    <3> HIDE DEF m, n
    <3> QED  BY <1>1, <1>2
  <2>2. \A i \in 1..Len(y) : y[i] = t[i]
    BY <1>3, <1>5, <2>1
  <2> QED  BY <1>5, <2>1, <2>2, SeqEqual
<1> QED  BY <1>1, <1>2, <1>3, <1>6, <1>7 DEF x, y, Joins

CutMakes(w, v, b, e) ==
    /\ w \in Seq(Bytes) /\ Len(w) = Len(v) - (e - b) /\ Len(v) \in Nat /\ Len(w) \in Nat
    /\ SubSeq(w, 1, b) = SubSeq(v, 1, b)
    /\ SubSeq(w, b + 1, Len(w)) = SubSeq(v, e + 1, Len(v))
    /\ \A i \in 1..b : w[i] = v[i]
    /\ \A i \in 1..Len(v) - e : w[b + i] = v[e + i]

LEMMA CutIs ==
    ASSUME NEW v \in Seq(Bytes), NEW b \in 0..Len(v), NEW e \in b..Len(v), NEW w, w = Cut(v, b, e)
    PROVE  CutMakes(w, v, b, e)
<1> DEFINE s == SubSeq(v, 1, b)
           t == SubSeq(v, e + 1, Len(v))
<1>1. Len(v) \in Nat /\ e \in 0..Len(v)
  BY LenProperties
<1>2. /\ s \in Seq(Bytes) /\ Len(s) = b
      /\ \A i \in 1..b : s[i] = v[i]
  BY PartsOf
<1>3. /\ t \in Seq(Bytes) /\ Len(t) = Len(v) - e
      /\ \A i \in 1..Len(v) - e : t[i] = v[e + i]
  BY <1>1, PartsOf
<1>4. w = s \o t
  BY DEF Cut
<1> HIDE DEF s, t
<1>5. /\ w \in Seq(Bytes) /\ Len(w) = Len(s) + Len(t)
      /\ SubSeq(w, 1, Len(s)) = s /\ SubSeq(w, Len(s) + 1, Len(w)) = t
      /\ \A i \in 1..Len(s) : w[i] = s[i]
      /\ \A i \in 1..Len(t) : w[Len(s) + i] = t[i]
  <2>1. s \in Seq(Bytes) /\ t \in Seq(Bytes)
    BY <1>2, <1>3
  <2>2. Joins(w, s, t)
    BY <1>4, <2>1, JoinedParts
  <2> QED  BY <2>2 DEF Joins
<1>6. Len(w) = Len(v) - (e - b) /\ Len(w) \in Nat
  BY <1>1, <1>2, <1>3, <1>5
<1>7. \A i \in 1..Len(v) - e : w[b + i] = v[e + i]
  BY <1>2, <1>3, <1>5
<1> QED  BY <1>1, <1>2, <1>5, <1>6, <1>7 DEF s, t, CutMakes

InsertMakes(w, v, p, b) ==
    /\ w \in Seq(Bytes) /\ Len(w) = Len(v) + 1 /\ Len(v) \in Nat /\ Len(w) \in Nat
    /\ SubSeq(w, 1, p + 1) = Append(SubSeq(v, 1, p), b)
    /\ SubSeq(w, (p + 1) + 1, Len(w)) = SubSeq(v, p + 1, Len(v))
    /\ \A i \in 1..p : w[i] = v[i]
    /\ w[p + 1] = b
    /\ \A i \in 1..Len(v) - p : w[(p + 1) + i] = v[p + i]

LEMMA InsertIs ==
    ASSUME NEW v \in Seq(Bytes), NEW p \in 0..Len(v), NEW b \in Bytes, NEW w, w = Insert(v, p, b)
    PROVE  InsertMakes(w, v, p, b)
<1> DEFINE s == SubSeq(v, 1, p)
           t == SubSeq(v, p + 1, Len(v))
           a == s \o <<b>>
<1>1. Len(v) \in Nat
  BY LenProperties
<1>2. /\ s \in Seq(Bytes) /\ Len(s) = p /\ t \in Seq(Bytes) /\ Len(t) = Len(v) - p
      /\ \A i \in 1..p : s[i] = v[i]
      /\ \A i \in 1..Len(v) - p : t[i] = v[p + i]
  BY PartsOf
<1>3. w = a \o t
  BY DEF Insert
<1> HIDE DEF s, t
<1>4. a = Append(s, b)
  BY <1>2, AppendIsConcat
<1>5. /\ a \in Seq(Bytes) /\ Len(a) = p + 1
      /\ \A i \in 1..p : a[i] = s[i]
      /\ a[p + 1] = b
  BY <1>2, <1>4, AppendProperties
<1> HIDE DEF a
<1>6. /\ w \in Seq(Bytes) /\ Len(w) = Len(a) + Len(t)
      /\ SubSeq(w, 1, Len(a)) = a /\ SubSeq(w, Len(a) + 1, Len(w)) = t
      /\ \A i \in 1..Len(a) : w[i] = a[i]
      /\ \A i \in 1..Len(t) : w[Len(a) + i] = t[i]
  <2>1. a \in Seq(Bytes) /\ t \in Seq(Bytes)
    BY <1>2, <1>5
  <2>2. Joins(w, a, t)
    BY <1>3, <2>1, JoinedParts
  <2> QED  BY <2>2 DEF Joins
<1>7. Len(w) = Len(v) + 1 /\ Len(w) \in Nat
  BY <1>1, <1>2, <1>5, <1>6
<1>8. (\A i \in 1..p : w[i] = v[i]) /\ w[p + 1] = b
  <2>1. p + 1 \in 1..Len(a) /\ \A i \in 1..p : i \in 1..Len(a)
    BY <1>5
  <2> QED  BY <1>2, <1>5, <1>6, <2>1
<1>9. \A i \in 1..Len(v) - p : w[(p + 1) + i] = v[p + i]
  <2>1. \A i \in 1..Len(v) - p : w[Len(a) + i] = v[p + i]
    BY <1>2, <1>6
  <2> QED  BY <1>5, <2>1, Zenon
<1> QED  BY <1>1, <1>4, <1>5, <1>6, <1>7, <1>8, <1>9 DEF s, t, InsertMakes

LEMMA CutRanks ==
    ASSUME NEW v \in Seq(Bytes), NEW b \in Starts(v), NEW e \in Starts(v), b <= e,
           NEW w, w = Cut(v, b, e)
    PROVE  /\ Count(w) = Count(v) - (Rank(v, e) - Rank(v, b)) /\ Count(w) \in Nat
           /\ \A q \in Starts(v) : q <= b => q \in Starts(w) /\ Rank(w, q) = Rank(v, q)
<1>1. b \in 0..Len(v) /\ e \in b..Len(v) /\ e \in 0..Len(v) /\ Len(v) \in Nat
  BY LenProperties DEF Starts
<1>2. /\ Len(w) = Len(v) - (e - b) /\ Len(w) \in Nat
      /\ \A i \in 1..b : w[i] = v[i]
      /\ \A i \in 1..Len(v) - e : w[b + i] = v[e + i]
  <2>1. CutMakes(w, v, b, e)
    BY <1>1, CutIs
  <2> QED  BY <2>1 DEF CutMakes
<1>3. b <= Len(w) /\ b \in 0..Len(w) /\ Len(w) - b = Len(v) - e
  BY <1>1, <1>2
<1>4. /\ \A q \in 0..b : Rank(w, q) = Rank(v, q)
      /\ \A q \in 0..b - 1 : q \in Starts(w) <=> q \in Starts(v)
  <2>1. Len(v) \in Nat /\ Len(w) \in Nat /\ b \in 0..Len(v) /\ b <= Len(w)
    BY <1>1, <1>2, <1>3
  <2>2. \A i \in 1..b : w[i] = v[i]
    BY <1>2
  <2> QED  BY <2>1, <2>2, RanksBefore
<1>5. /\ \A q \in e..Len(v) : b + (q - e) \in Starts(w) <=> q \in Starts(v)
      /\ Count(w) = Rank(w, b) + (Count(v) - Rank(v, e))
  BY <1>1, <1>2, <1>3, RanksBehind
<1>6. b \in Starts(w)
  <2>1. e \in e..Len(v) /\ b + (e - e) = b
    BY <1>1
  <2>2. b + (e - e) \in Starts(w)
    BY <1>5, <2>1
  <2> QED  BY <2>1, <2>2
<1>7. Rank(w, b) = Rank(v, b)
  BY <1>1, <1>4
<1>8. Rank(v, b) \in 0..Count(v) /\ Rank(v, e) \in 0..Count(v) /\ Count(v) \in Nat
  BY <1>1, RankOrders
<1>9. Count(w) = Count(v) - (Rank(v, e) - Rank(v, b)) /\ Count(w) \in Nat
  BY <1>5, <1>7, <1>8
<1>10. ASSUME NEW q \in Starts(v), q <= b PROVE q \in Starts(w) /\ Rank(w, q) = Rank(v, q)
  <2>1. q \in 0..b /\ (q # b => q \in 0..b - 1)
    BY <1>1, <1>10 DEF Starts
  <2> QED  BY <1>4, <1>6, <2>1
<1> QED  BY <1>9, <1>10

Inserted(w, v, p, d) ==
    /\ Count(w) = Count(v) + d /\ Count(w) \in Nat
    /\ p + 1 \in Starts(w) /\ Rank(w, p + 1) = Rank(v, p) + d
    /\ d = 1 => p \in Starts(w)
    /\ \A q \in Starts(v) : q <= p => Rank(w, q) = Rank(v, q)
    /\ \A q \in Starts(v) : q < p => q \in Starts(w)

LEMMA InsertRanks ==
    ASSUME NEW v \in Seq(Bytes), NEW p \in Starts(v), NEW b \in Bytes, NEW w, w = Insert(v, p, b),
           NEW d, d = IF b[2] = 1 THEN 1 ELSE 0
    PROVE  Inserted(w, v, p, d)
<1> DEFINE a == p + 1
<1>1. p \in 0..Len(v) /\ Len(v) \in Nat
  BY LenProperties DEF Starts
<1>2. /\ Len(w) = Len(v) + 1 /\ Len(w) \in Nat
      /\ \A i \in 1..p : w[i] = v[i]
      /\ w[p + 1] = b
      /\ \A i \in 1..Len(v) - p : w[a + i] = v[p + i]
  <2>1. InsertMakes(w, v, p, b)
    BY <1>1, InsertIs
  <2> QED  BY <2>1 DEF InsertMakes
<1>3. p <= Len(w) /\ a \in 0..Len(w) /\ Len(w) - a = Len(v) - p /\ p \in 0..Len(w) /\ p # Len(w)
  BY <1>1, <1>2
<1>4. /\ \A q \in 0..p : Rank(w, q) = Rank(v, q)
      /\ \A q \in 0..p - 1 : q \in Starts(w) <=> q \in Starts(v)
  BY <1>1, <1>2, <1>3, RanksBefore
<1> HIDE DEF a
<1>5. /\ \A q \in p..Len(v) : a + (q - p) \in Starts(w) <=> q \in Starts(v)
      /\ Count(w) = Rank(w, a) + (Count(v) - Rank(v, p))
  BY <1>1, <1>2, <1>3, RanksBehind
<1>6. a \in Starts(w)
  <2>1. p \in p..Len(v) /\ a + (p - p) = a
    BY <1>1, <1>3
  <2>2. a + (p - p) \in Starts(w)
    BY <1>5, <2>1
  <2> QED  BY <2>1, <2>2
<1>7. Rank(w, a) = Rank(v, p) + d
  <2>1. Rank(w, p) = Rank(v, p)
    BY <1>1, <1>4
  <2>2. p \in Nat /\ w[p + 1] = b
    BY <1>1, <1>2
  <2>3. Rank(w, p + 1) = Rank(w, p) + (IF w[p + 1][2] = 1 THEN 1 ELSE 0)
    BY <2>2, RankStep
  <2> QED  BY <2>1, <2>2, <2>3 DEF a
<1>8. Rank(v, p) \in 0..Count(v) /\ Count(v) \in Nat
  BY <1>1, RankOrders
<1>9. Count(w) = Count(v) + d /\ Count(w) \in Nat
  BY <1>5, <1>7, <1>8
<1>10. d = 1 => p \in Starts(w)
  BY <1>2, <1>3 DEF Starts, CodepointStart
<1>11. \A q \in Starts(v) : q <= p => Rank(w, q) = Rank(v, q)
  BY <1>1, <1>4 DEF Starts
<1>12. \A q \in Starts(v) : q < p => q \in Starts(w)
  <2>1. \A q \in Starts(v) : q < p => q \in 0..p - 1
    BY <1>1 DEF Starts
  <2> QED  BY <1>4, <2>1
<1> QED  BY <1>6, <1>7, <1>9, <1>10, <1>11, <1>12 DEF Inserted, a
----------------------------------------------------------------------------
(***************************************************************************)
(* What each operation does to a field that is as it should be.            *)
(***************************************************************************)
Settled == [value : Seq(Bytes), left : Nat, cursor : Nat]

\* _offUpdate leaves a cursor alone that the view shows, or that will be shown
\* when the view is clamped to the end of the text.
LEMMA Settles ==
    ASSUME NEW h \in Fields, NEW v, v = h.value, 0 \in Starts(v), h.cursor \in Starts(v),
           \/ /\ h.left \in Starts(v) /\ h.left <= h.cursor
              /\ Rank(v, h.cursor) <= Rank(v, h.left) + Width
           \/ h.left >= LeftMax(v) /\ LeftMax(v) <= h.cursor,
           NEW g, g = OffUpdate(h)
    PROVE  /\ g \in Settled /\ Placed(g) /\ g.value = v /\ g.cursor = h.cursor
           /\ g.left <= h.left /\ g.left <= LeftMax(v)
<1> DEFINE l == Rank(v, h.left)
           c == Rank(v, h.cursor)
           n == Count(v)
           m == Last(v)
           r == Rank(v, g.left)
<1>1. /\ Len(v) \in Nat /\ g.value = v /\ g.left \in Starts(v)
      /\ g.left <= h.left /\ g.left <= LeftMax(v)
      /\ r = IF h.left \in Starts(v) /\ l <= m THEN l ELSE m
  BY OffUpdateAt
<1>2. /\ LeftMax(v) \in Starts(v) /\ Rank(v, LeftMax(v)) = m
      /\ m \in Nat /\ n \in Nat /\ n <= m + Width /\ Width \in Nat
  BY <1>1, LeftMaxRank, FieldAssumption
<1>3. c \in 0..n
  BY <1>1, RankOrders
<1>4. r <= c /\ c <= r + Width
  <2>1. CASE h.left \in Starts(v) /\ h.left <= h.cursor /\ c <= l + Width
    <3>1. l <= c /\ l \in 0..n
      BY <1>1, <2>1, RankOrders
    <3> HIDE DEF l, c, n, m, r
    <3> QED  BY <1>1, <1>2, <1>3, <2>1, <3>1
  <2>2. CASE h.left >= LeftMax(v) /\ LeftMax(v) <= h.cursor
    <3>1. m <= c
      BY <1>1, <1>2, <2>2, RankOrders
    <3>2. h.left \in Starts(v) => m <= l /\ l \in Nat
      <4>1. h.left \in Int /\ LeftMax(v) \in Int
        BY <1>2 DEF Fields, Starts
      <4> QED  BY <1>1, <1>2, <2>2, <4>1, RankOrders
    <3> HIDE DEF l, c, n, m, r
    <3> QED  BY <1>1, <1>2, <1>3, <3>1, <3>2
  <2> QED  BY <2>1, <2>2
<1>5. h.left \in Starts(v) \/ h.left >= LeftMax(v)
  OBVIOUS
<1>6. g.cursor = h.cursor
  BY <1>4, <1>5, CursorStays
<1>7. g \in Settled /\ Placed(g)
  BY <1>5, OffUpdatePlaces DEF Settled
<1> QED  BY <1>1, <1>6, <1>7

LEMMA Between ==
    ASSUME NEW v \in Seq(Bytes), NEW p \in 0..Len(v), NEW q \in p..Len(v)
    PROVE  /\ SubSeq(v, 1, q) = SubSeq(v, 1, p) \o SubSeq(v, p + 1, q)
           /\ SubSeq(v, p + 1, Len(v)) = SubSeq(v, p + 1, q) \o SubSeq(v, q + 1, Len(v))
<1>1. Len(v) \in Nat
  BY LenProperties
<1>2. 1 \in 1..Len(v) + 1 /\ p \in 1 - 1..Len(v) /\ q \in p..Len(v)
  BY <1>1
<1>3. p + 1 \in 1..Len(v) + 1 /\ q \in (p + 1) - 1..Len(v) /\ Len(v) \in q..Len(v)
  BY <1>1
<1>4. SubSeq(v, 1, p) \o SubSeq(v, p + 1, q) = SubSeq(v, 1, q)
  BY <1>2, ConcatAdjacentSubSeq
<1>5. SubSeq(v, p + 1, q) \o SubSeq(v, q + 1, Len(v)) = SubSeq(v, p + 1, Len(v))
  BY <1>3, ConcatAdjacentSubSeq
<1> QED  BY <1>4, <1>5

\* The text around a codepoint, or behind one.
LEMMA CodepointAround ==
    ASSUME NEW v \in Seq(Bytes), Linked(v), NEW p \in Starts(v), NEW q \in Starts(v),
           Rank(v, q) = Rank(v, p) + 1
    PROVE  \E c \in Codepoints : /\ SubSeq(v, 1, q) = SubSeq(v, 1, p) \o Encoded(c)
                                 /\ SubSeq(v, p + 1, Len(v)) = Encoded(c) \o SubSeq(v, q + 1, Len(v))
<1>1. PICK c \in Codepoints : SubSeq(v, p + 1, q) = Encoded(c)
  BY CodepointBehind
<1>2. Len(v) \in Nat /\ p \in 0..Len(v) /\ q \in 0..Len(v)
  BY LenProperties DEF Starts
<1>3. Rank(v, p) \in Nat /\ Rank(v, q) \in Nat /\ (p <= q <=> Rank(v, p) <= Rank(v, q))
  BY <1>2, RankIsNat, RankOrders
<1>4. q \in p..Len(v)
  BY <1>2, <1>3
<1> QED  BY <1>1, <1>2, <1>4, Between

\* A codepoint is deleted behind the cursor ...
LEMMA DeletedIs ==
    ASSUME NEW f \in Fields, Placed(f), Linked(f.value), f.cursor > 0,
           ~(0 < f.left /\ f.left < LeftMax(f.value) /\ f.cursor = f.left),
           NEW g, g = Deleted(f)
    PROVE  /\ g \in Settled /\ Placed(g) /\ Linked(g.value) /\ After(g) = After(f)
           /\ \E c \in Codepoints : Before(f) = Before(g) \o Encoded(c)
<1> DEFINE v == f.value
           b == Prev1(v, f.cursor)
           w == Cut(v, b, f.cursor)
           h == [f EXCEPT !.value = w, !.cursor = b]
           l == Rank(v, f.left)
           c == Rank(v, f.cursor)
           n == Count(v)
           r == Rank(w, b)
<1>1. /\ v \in Seq(Bytes) /\ Len(v) \in Nat
      /\ 0 \in Starts(v) /\ f.left \in Starts(v) /\ f.cursor \in Starts(v)
      /\ n \in Nat /\ l \in 0..Last(v) /\ Last(v) \in Nat /\ c \in 0..n /\ l <= c /\ c <= l + Width
  BY PlacedRanks
<1>2. b \in Starts(v) /\ Rank(v, b) = (IF c > 0 THEN c - 1 ELSE 0) /\ (f.cursor = 0 <=> c = 0)
  BY <1>1, StepRank
<1>3. c > 0 /\ Rank(v, b) = c - 1
  <2> HIDE DEF c, b
  <2> QED  BY <1>1, <1>2
<1>4. b <= f.cursor /\ b \in 0..Len(v) /\ f.cursor \in b..Len(v) /\ f.left \in Nat
  <2>1. Rank(v, b) <= Rank(v, f.cursor)
    <3> HIDE DEF b
    <3> QED  BY <1>1, <1>3
  <2>2. b <= f.cursor
    BY <1>1, <1>2, <2>1, RankOrders
  <2> QED  BY <1>1, <1>2, <2>2 DEF Starts
<1>5. CutMakes(w, v, b, f.cursor)
  BY <1>1, <1>4, CutIs
<1>6. /\ Count(w) = n - (c - Rank(v, b)) /\ Count(w) \in Nat
      /\ \A q \in Starts(v) : q <= b => q \in Starts(w) /\ Rank(w, q) = Rank(v, q)
  BY <1>1, <1>2, <1>4, CutRanks
<1>7. /\ 0 \in Starts(w) /\ b \in Starts(w) /\ r = c - 1 /\ Count(w) = n - 1
      /\ w \in Seq(Bytes) /\ Len(w) \in Nat
  <2>1. 0 <= b /\ b <= b
    BY <1>4
  <2>2. 0 \in Starts(w) /\ b \in Starts(w) /\ r = Rank(v, b)
    BY <1>1, <1>2, <1>6, <2>1
  <2>3. w \in Seq(Bytes) /\ Len(w) \in Nat
    BY <1>5 DEF CutMakes
  <2> HIDE DEF b, w, c, n, r
  <2> QED  BY <1>1, <1>3, <1>6, <2>2, <2>3
<1>8. h \in Fields /\ h.value = w /\ h.left = f.left /\ h.cursor = b
  <2>1. b \in Int
    BY <1>4
  <2> HIDE DEF b, w
  <2> QED  BY <1>7, <2>1 DEF Fields
<1>9. \/ f.left \in Starts(w) /\ f.left <= b /\ r <= Rank(w, f.left) + Width
      \/ f.left >= LeftMax(w) /\ LeftMax(w) <= b
  <2>1. CASE l < c
    <3>1. f.left <= b
      <4>1. l <= Rank(v, b)
        <5> HIDE DEF b, l, c
        <5> QED  BY <1>1, <1>3, <2>1
      <4> QED  BY <1>1, <1>2, <4>1, RankOrders
    <3>2. f.left \in Starts(w) /\ Rank(w, f.left) = l
      BY <1>1, <1>6, <3>1
    <3>3. r <= l + Width
      <4> HIDE DEF r, l, c
      <4> QED  BY <1>1, <1>3, <1>7, FieldAssumption
    <3> QED  BY <3>1, <3>2, <3>3
  <2>2. CASE l = c
    <3>1. f.left = f.cursor
      BY <1>1, <2>2, RankOrders
    <3>2. LeftMax(v) \in Starts(v) /\ Rank(v, LeftMax(v)) = Last(v)
      BY <1>1, LeftMaxRank
    <3>3. LeftMax(v) <= f.left
      BY <1>4, <3>1, <3>2 DEF Starts
    <3>4. Last(v) <= l
      BY <1>1, <3>2, <3>3, RankOrders
    <3>5. LeftMax(w) \in Starts(w) /\ Rank(w, LeftMax(w)) = Last(w)
      BY <1>7, LeftMaxRank
    <3>6. Last(w) = c - 1
      <4> HIDE DEF l, c, n, w
      <4> QED  BY <1>1, <1>3, <1>7, <2>2, <3>4, FieldAssumption DEF Last, n
    <3>7. LeftMax(w) = b
      BY <1>7, <3>5, <3>6, RankOrders
    <3>8. b <= b /\ f.left >= b
      BY <1>4, <3>1
    <3> QED  BY <3>7, <3>8
  <2> QED  BY <1>1, <2>1, <2>2
<1>10. g = OffUpdate(h)
  BY DEF Deleted
<1>11. g \in Settled /\ Placed(g) /\ g.value = w /\ g.cursor = b
  <2>1. /\ 0 \in Starts(w) /\ h.cursor \in Starts(w)
        /\ \/ /\ h.left \in Starts(w) /\ h.left <= h.cursor
              /\ Rank(w, h.cursor) <= Rank(w, h.left) + Width
           \/ h.left >= LeftMax(w) /\ LeftMax(w) <= h.cursor
    BY <1>7, <1>8, <1>9
  <2> HIDE DEF h, w, b
  <2> QED  BY <1>8, <1>10, <2>1, Settles
<1>12. Before(g) = SubSeq(v, 1, b) /\ After(g) = After(f)
  BY <1>5, <1>11 DEF CutMakes, Before, After
<1>13. \E d \in Codepoints : Before(f) = Before(g) \o Encoded(d)
  <2>1. PICK d \in Codepoints : SubSeq(v, 1, f.cursor) = SubSeq(v, 1, b) \o Encoded(d)
    <3>1. Rank(v, f.cursor) = Rank(v, b) + 1
      <4> HIDE DEF b
      <4> QED  BY <1>1, <1>3
    <3> QED  BY <1>1, <1>2, <3>1, CodepointAround
  <2> QED  BY <1>12, <2>1 DEF Before
<1>14. Linked(w)
  <2>1. Linked(SubSeq(v, 1, b)) /\ Linked(SubSeq(v, f.cursor + 1, Len(v)))
    BY <1>1, <1>2, LinkedParts
  <2>2. SubSeq(v, 1, b) \in Seq(Bytes) /\ SubSeq(v, f.cursor + 1, Len(v)) \in Seq(Bytes)
    <3>1. SubSeq(v, 1, b) \in Seq(Bytes)
      <4> HIDE DEF b
      <4> QED  BY <1>1, <1>4, PartsOf
    <3>2. f.cursor \in 0..Len(v)
      BY <1>1 DEF Starts
    <3>3. SubSeq(v, f.cursor + 1, Len(v)) \in Seq(Bytes)
      BY <1>1, <3>2, PartsOf
    <3> QED  BY <3>1, <3>3
  <2> QED  BY <2>1, <2>2, LinkedConcat DEF Cut
<1> QED  BY <1>11, <1>12, <1>13, <1>14

\* ... or at the cursor.
LEMMA FnDeletedIs ==
    ASSUME NEW f \in Fields, Placed(f), Linked(f.value), f.cursor < Len(f.value),
           NEW g, g = FnDeleted(f)
    PROVE  /\ g \in Settled /\ Placed(g) /\ Linked(g.value) /\ Before(g) = Before(f)
           /\ \E c \in Codepoints : After(f) = Encoded(c) \o After(g)
<1> DEFINE v == f.value
           p == f.cursor
           e == Next1(v, p)
           w == Cut(v, p, e)
           h == [f EXCEPT !.value = w]
           l == Rank(v, f.left)
           c == Rank(v, p)
           n == Count(v)
<1>1. /\ v \in Seq(Bytes) /\ Len(v) \in Nat
      /\ 0 \in Starts(v) /\ f.left \in Starts(v) /\ p \in Starts(v) /\ f.left <= p
      /\ n \in Nat /\ l \in Nat /\ c \in 0..n /\ l <= c /\ c <= l + Width
  BY PlacedRanks
<1>2. e \in Starts(v) /\ Rank(v, e) = (IF c < n THEN c + 1 ELSE n) /\ (p = Len(v) <=> c = n)
  BY <1>1, StepRank
<1>3. c < n /\ Rank(v, e) = c + 1
  <2>1. p # Len(v)
    BY <1>1 DEF Starts
  <2> HIDE DEF p, c, n, e
  <2> QED  BY <1>1, <1>2, <2>1
<1>4. p <= e /\ p \in 0..Len(v) /\ e \in p..Len(v) /\ f.left \in Nat /\ p \in Nat
  <2>1. Rank(v, p) <= Rank(v, e)
    <3> HIDE DEF e, p
    <3> QED  BY <1>1, <1>3 DEF c
  <2>2. p <= e
    BY <1>1, <1>2, <2>1, RankOrders
  <2> QED  BY <1>1, <1>2, <2>2 DEF Starts
<1>5. CutMakes(w, v, p, e)
  BY <1>1, <1>4, CutIs
<1>6. \A q \in Starts(v) : q <= p => q \in Starts(w) /\ Rank(w, q) = Rank(v, q)
  BY <1>1, <1>2, <1>4, CutRanks
<1>7. /\ 0 \in Starts(w) /\ p \in Starts(w) /\ f.left \in Starts(w)
      /\ Rank(w, p) = c /\ Rank(w, f.left) = l
      /\ w \in Seq(Bytes) /\ Len(w) \in Nat
  <2>1. 0 <= p /\ p <= p
    BY <1>4
  <2>2. w \in Seq(Bytes) /\ Len(w) \in Nat
    BY <1>5 DEF CutMakes
  <2> QED  BY <1>1, <1>6, <2>1, <2>2
<1>8. h \in Fields /\ h.value = w /\ h.left = f.left /\ h.cursor = p
  <2> HIDE DEF w
  <2> QED  BY <1>7 DEF Fields
<1>9. g = OffUpdate(h)
  BY DEF FnDeleted
<1>10. g \in Settled /\ Placed(g) /\ g.value = w /\ g.cursor = p
  <2>1. /\ 0 \in Starts(w) /\ h.cursor \in Starts(w)
        /\ h.left \in Starts(w) /\ h.left <= h.cursor
        /\ Rank(w, h.cursor) <= Rank(w, h.left) + Width
    BY <1>1, <1>7, <1>8
  <2> HIDE DEF h, w
  <2> QED  BY <1>8, <1>9, <2>1, Settles
<1>11. Before(g) = Before(f) /\ After(g) = SubSeq(v, e + 1, Len(v))
  BY <1>5, <1>10 DEF CutMakes, Before, After
<1>12. \E d \in Codepoints : After(f) = Encoded(d) \o After(g)
  <2>1. PICK d \in Codepoints : SubSeq(v, p + 1, Len(v)) = Encoded(d) \o SubSeq(v, e + 1, Len(v))
    BY <1>1, <1>2, <1>3, CodepointAround
  <2> QED  BY <1>11, <2>1 DEF After
<1>13. Linked(w)
  <2>1. Linked(SubSeq(v, 1, p)) /\ Linked(SubSeq(v, e + 1, Len(v)))
    BY <1>1, <1>2, LinkedParts
  <2>2. SubSeq(v, 1, p) \in Seq(Bytes) /\ SubSeq(v, e + 1, Len(v)) \in Seq(Bytes)
    BY <1>1, <1>2, <1>4, PartsOf DEF Starts
  <2> QED  BY <2>1, <2>2, LinkedConcat DEF Cut
<1> QED  BY <1>10, <1>11, <1>12, <1>13

\* The cursor moves by a codepoint, and the view with it.
LEMMA MovedLeftIs ==
    ASSUME NEW f \in Fields, Placed(f), Linked(f.value), f.cursor > 0, NEW g, g = MovedLeft(f)
    PROVE  /\ g \in Settled /\ Placed(g) /\ g.value = f.value
           /\ \E c \in Codepoints : Before(f) = Before(g) \o Encoded(c)
<1> DEFINE v == f.value
           b == Prev1(v, f.cursor)
           k == IF f.cursor = f.left THEN Prev1(v, f.left) ELSE f.left
           h == [f EXCEPT !.left = k, !.cursor = b]
           l == Rank(v, f.left)
           c == Rank(v, f.cursor)
<1>1. /\ v \in Seq(Bytes) /\ Len(v) \in Nat
      /\ 0 \in Starts(v) /\ f.left \in Starts(v) /\ f.cursor \in Starts(v)
      /\ l \in Nat /\ c \in Nat /\ l <= c /\ c <= l + Width
  BY PlacedRanks
<1>2. b \in Starts(v) /\ Rank(v, b) = (IF c > 0 THEN c - 1 ELSE 0) /\ (f.cursor = 0 <=> c = 0)
  BY <1>1, StepRank
<1>3. c > 0 /\ Rank(v, b) = c - 1
  <2> HIDE DEF c, b
  <2> QED  BY <1>1, <1>2
<1>4. k \in Starts(v) /\ k <= b /\ Rank(v, b) <= Rank(v, k) + Width
  <2>1. CASE f.cursor = f.left
    <3>1. k = b
      BY <2>1
    <3>2. b <= b /\ Rank(v, b) <= Rank(v, b) + Width
      BY <1>1, <1>2, RankIsNat, FieldAssumption DEF Starts
    <3> HIDE DEF k, b
    <3> QED  BY <1>2, <3>1, <3>2
  <2>2. CASE f.cursor # f.left
    <3>1. l # c
      BY <1>1, <2>2, RankOrders
    <3>2. l <= c - 1 /\ c - 1 <= l + Width
      <4> HIDE DEF l, c
      <4> QED  BY <1>1, <3>1, FieldAssumption
    <3>3. Rank(v, f.left) <= Rank(v, b) /\ Rank(v, b) <= Rank(v, f.left) + Width
      BY <1>3, <3>2
    <3>4. f.left <= b
      BY <1>1, <1>2, <3>3, RankOrders
    <3>5. k = f.left
      BY <2>2
    <3> HIDE DEF k, b
    <3> QED  BY <1>1, <3>3, <3>4, <3>5
  <2> QED  BY <2>1, <2>2
<1>5. h \in Fields /\ h.value = v /\ h.left = k /\ h.cursor = b
  <2>1. b \in Int /\ k \in Int
    BY <1>2, <1>4 DEF Starts
  <2> HIDE DEF b, k
  <2> QED  BY <2>1 DEF Fields
<1>6. g = OffUpdate(h)
  BY DEF MovedLeft
<1>7. g \in Settled /\ Placed(g) /\ g.value = v /\ g.cursor = b
  <2>1. /\ 0 \in Starts(v) /\ h.cursor \in Starts(v)
        /\ h.left \in Starts(v) /\ h.left <= h.cursor
        /\ Rank(v, h.cursor) <= Rank(v, h.left) + Width
    BY <1>1, <1>2, <1>4, <1>5
  <2> HIDE DEF h, v, b
  <2> QED  BY <1>5, <1>6, <2>1, Settles
<1>8. PICK d \in Codepoints : SubSeq(v, 1, f.cursor) = SubSeq(v, 1, b) \o Encoded(d)
  <2>1. Rank(v, f.cursor) = Rank(v, b) + 1
    <3> HIDE DEF b
    <3> QED  BY <1>1, <1>3
  <2> QED  BY <1>1, <1>2, <2>1, CodepointAround
<1> QED  BY <1>7, <1>8 DEF Before

\* The view shifts far enough for the cursor to take a step to the right: its
\* left edge stays at or to the left of the cursor.
LEMMA ShiftedRightIs ==
    ASSUME NEW f \in Fields, Placed(f), NEW g, g = ShiftedRight(f)
    PROVE  /\ g \in Fields /\ g.value = f.value /\ g.cursor = f.cursor
           /\ g.left \in Starts(f.value) /\ g.left <= f.cursor
           /\ Rank(f.value, f.cursor) < Rank(f.value, g.left) + Width
           /\ g.left = f.left
                \/ /\ Rank(f.value, f.left) < Count(f.value)
                   /\ Rank(f.value, f.cursor) = Shows(f.value, Rank(f.value, f.left))
                   /\ Rank(f.value, g.left) = Rank(f.value, f.left) + 1
<1> DEFINE v == f.value
           k == IF f.cursor = CursorMax(f) THEN Next1(v, f.left) ELSE f.left
           l == Rank(v, f.left)
           c == Rank(v, f.cursor)
           n == Count(v)
<1>1. /\ v \in Seq(Bytes) /\ Len(v) \in Nat
      /\ 0 \in Starts(v) /\ f.left \in Starts(v) /\ f.cursor \in Starts(v) /\ f.left <= f.cursor
      /\ n \in Nat /\ Last(v) \in Nat /\ l \in 0..Last(v) /\ c \in 0..n /\ l <= c /\ c <= l + Width
      /\ f.cursor = CursorMax(f) <=> c = Shows(v, l)
  BY PlacedRanks
<1>2. /\ Next1(v, f.left) \in Starts(v)
      /\ Rank(v, Next1(v, f.left)) = (IF l < n THEN l + 1 ELSE n)
  BY <1>1, StepRank
<1>3. g = [f EXCEPT !.left = k]
  BY DEF ShiftedRight
<1>4. k \in Starts(v)
  BY <1>1, <1>2
<1>5. g \in Fields /\ g.value = v /\ g.cursor = f.cursor /\ g.left = k
  <2> HIDE DEF k
  <2>1. k \in Int
    BY <1>4 DEF Starts
  <2> QED  BY <1>3, <2>1 DEF Fields
<1>6. CASE f.cursor # CursorMax(f)
  <2>1. k = f.left
    BY <1>6
  <2>2. c # Shows(v, l)
    BY <1>1, <1>6
  <2>3. c < l + Width
    <3> HIDE DEF c, l, v, n
    <3> QED  BY <1>1, <2>2, FieldAssumption DEF Shows, n
  <2> HIDE DEF k
  <2> QED  BY <1>1, <1>5, <2>1, <2>3
<1>7. CASE f.cursor = CursorMax(f) /\ l < n
  <2>1. k = Next1(v, f.left) /\ c = Shows(v, l)
    BY <1>1, <1>7
  <2>2. Rank(v, k) = l + 1
    BY <1>2, <1>7, <2>1
  <2> HIDE DEF k
  <2>3. Rank(v, k) <= c /\ c < Rank(v, k) + Width
    <3> HIDE DEF c, l, v, n
    <3> QED  BY <1>1, <1>7, <2>1, <2>2, FieldAssumption DEF Shows, n
  <2>4. k <= f.cursor
    BY <1>1, <1>4, <2>3, RankOrders
  <2> QED  BY <1>4, <1>5, <1>7, <2>1, <2>2, <2>3, <2>4
<1>8. CASE f.cursor = CursorMax(f) /\ ~(l < n)
  <2>1. Last(v) = 0 /\ n = 0 /\ l = 0 /\ c = 0
    <3>1. Width \in Nat /\ Width > 0
      BY FieldAssumption
    <3>2. Last(v) = IF n <= Width THEN 0 ELSE n - Width
      BY DEF Last
    <3> HIDE DEF c, l, v, n
    <3> QED  BY <1>1, <1>8, <3>1, <3>2
  <2>2. k = Next1(v, f.left) /\ Rank(v, k) = 0
    <3> HIDE DEF l, n
    <3> QED  BY <1>2, <1>8, <2>1
  <2> HIDE DEF k
  <2>3. k = f.left
    BY <1>1, <1>4, <2>1, <2>2, RankOrders
  <2>4. c < Rank(v, k) + Width
    BY <2>1, <2>2, FieldAssumption
  <2> QED  BY <1>1, <1>5, <2>3, <2>4
<1> QED  BY <1>6, <1>7, <1>8

LEMMA MovedRightIs ==
    ASSUME NEW f \in Fields, Placed(f), Linked(f.value), f.cursor < Len(f.value),
           NEW g, g = MovedRight(f)
    PROVE  /\ g \in Settled /\ Placed(g) /\ g.value = f.value
           /\ \E c \in Codepoints : After(f) = Encoded(c) \o After(g)
<1> DEFINE v == f.value
           s == ShiftedRight(f)
           e == Next1(v, f.cursor)
           h == [s EXCEPT !.cursor = e]
           c == Rank(v, f.cursor)
           n == Count(v)
<1>1. /\ v \in Seq(Bytes) /\ Len(v) \in Nat
      /\ 0 \in Starts(v) /\ f.cursor \in Starts(v) /\ n \in Nat /\ c \in 0..n
  BY PlacedRanks
<1>2. /\ s \in Fields /\ s.value = v /\ s.cursor = f.cursor
      /\ s.left \in Starts(v) /\ s.left <= f.cursor /\ c < Rank(v, s.left) + Width
  BY ShiftedRightIs
<1>3. e \in Starts(v) /\ Rank(v, e) = (IF c < n THEN c + 1 ELSE n) /\ (f.cursor = Len(v) <=> c = n)
  BY <1>1, StepRank
<1>4. Rank(v, e) = c + 1
  <2>1. f.cursor # Len(v)
    BY <1>1 DEF Starts
  <2> HIDE DEF c, n, e
  <2> QED  BY <1>1, <1>3, <2>1
<1>5. s.left <= e /\ Rank(v, e) <= Rank(v, s.left) + Width
  <2>1. Rank(v, s.left) \in Nat /\ Rank(v, s.left) <= c
    BY <1>1, <1>2, RankOrders
  <2>2. Rank(v, s.left) <= Rank(v, e) /\ Rank(v, e) <= Rank(v, s.left) + Width
    <3> HIDE DEF c, e, s
    <3> QED  BY <1>1, <1>2, <1>4, <2>1, FieldAssumption
  <2> QED  BY <1>1, <1>2, <1>3, <2>2, RankOrders
<1>6. h \in Fields /\ h.value = v /\ h.left = s.left /\ h.cursor = e
  <2>1. e \in Int
    BY <1>3 DEF Starts
  <2> HIDE DEF e, s
  <2> QED  BY <1>2, <2>1 DEF Fields
<1>7. g = OffUpdate(h)
  <2>1. ShiftedRight(f).cursor = f.cursor
    BY <1>2
  <2> QED  BY <2>1 DEF MovedRight
<1>8. g \in Settled /\ Placed(g) /\ g.value = v /\ g.cursor = e
  <2>1. /\ 0 \in Starts(v) /\ h.cursor \in Starts(v)
        /\ h.left \in Starts(v) /\ h.left <= h.cursor
        /\ Rank(v, h.cursor) <= Rank(v, h.left) + Width
    BY <1>1, <1>2, <1>3, <1>5, <1>6
  <2> HIDE DEF h, v, e
  <2> QED  BY <1>6, <1>7, <2>1, Settles
<1>9. PICK d \in Codepoints : SubSeq(v, f.cursor + 1, Len(v)) = Encoded(d) \o SubSeq(v, e + 1, Len(v))
  BY <1>1, <1>3, <1>4, CodepointAround
<1> QED  BY <1>8, <1>9 DEF After

\* Both offsets are set to codepoints: Up, Down, Return, Tab and Escape.
LEMMA SetIs ==
    ASSUME NEW h \in Fields, 0 \in Starts(h.value), h.left \in Starts(h.value),
           h.cursor \in Starts(h.value), NEW g, g = OffUpdate(h)
    PROVE  g \in Settled /\ Placed(g) /\ g.value = h.value
BY OffUpdatePlaces, OffUpdateAt DEF Settled

LEMMA AgainIs ==
    ASSUME NEW f \in Fields, Placed(f), NEW g, g = OffUpdate(f)
    PROVE  g \in Settled /\ Placed(g) /\ g.value = f.value
BY PlacedRanks, SetIs

LEMMA AtTheEndIs ==
    ASSUME NEW v \in Seq(Bytes), CodepointStart(v, 0), NEW g, g = AtTheEnd(v)
    PROVE  g \in Settled /\ Placed(g) /\ g.value = v
<1> DEFINE h == [value |-> v, left |-> Len(v), cursor |-> Len(v)]
<1>1. Len(v) \in Nat /\ 0 \in Starts(v) /\ Len(v) \in Starts(v)
  BY LenProperties DEF Starts, CodepointStart
<1>2. h \in Fields /\ h.value = v /\ h.left = Len(v) /\ h.cursor = Len(v)
  BY <1>1 DEF Fields
<1>3. g = OffUpdate(h)
  BY DEF AtTheEnd
<1> HIDE DEF h
<1> QED  BY <1>1, <1>2, <1>3, SetIs

LEMMA UpIs ==
    ASSUME NEW f \in Fields, Placed(f), NEW g, g = MovedUp(f)
    PROVE  g \in Settled /\ Placed(g) /\ g.value = f.value /\ g.cursor = 0
<1> DEFINE h == [f EXCEPT !.left = 0, !.cursor = 0]
<1>1. 0 \in Starts(f.value)
  BY PlacedRanks
<1>2. h \in Fields /\ h.value = f.value /\ h.left = 0 /\ h.cursor = 0
  <2>1. PICK zero \in Int : zero = 0
    OBVIOUS
  <2>2. /\ [f EXCEPT !.left = zero, !.cursor = zero] \in Fields
        /\ [f EXCEPT !.left = zero, !.cursor = zero].value = f.value
        /\ [f EXCEPT !.left = zero, !.cursor = zero].left = zero
        /\ [f EXCEPT !.left = zero, !.cursor = zero].cursor = zero
    BY DEF Fields
  <2> QED  BY <2>1, <2>2
<1> HIDE DEF h
<1>3. g = OffUpdate(h)
  BY DEF h, MovedUp
<1>4. Rank(f.value, 0) \in Nat /\ Width \in Nat
  BY RankIsNat, FieldAssumption
<1>5. h.left <= h.cursor /\ Rank(h.value, h.cursor) <= Rank(h.value, h.left) + Width
  BY <1>2, <1>4
<1> QED  BY <1>1, <1>2, <1>3, <1>5, Settles

LEMMA DownIs ==
    ASSUME NEW f \in Fields, Placed(f), NEW g, g = MovedDown(f)
    PROVE  g \in Settled /\ Placed(g) /\ g.value = f.value /\ g.cursor = Len(f.value)
<1> DEFINE v == f.value
           s == [f EXCEPT !.left = LeftMax(v)]
           h == [s EXCEPT !.cursor = CursorMax(s)]
<1>1. 0 \in Starts(v) /\ Len(v) \in Nat /\ Len(v) \in Starts(v)
  BY PlacedRanks DEF Starts, CodepointStart
<1>2. /\ LeftMax(v) \in Starts(v) /\ Rank(v, LeftMax(v)) = Last(v)
      /\ Last(v) \in Nat /\ Count(v) \in Nat /\ Count(v) <= Last(v) + Width
  BY <1>1, LeftMaxRank
<1>3. LeftMax(v) \in Int
  BY <1>2 DEF Starts
<1>4. s \in Fields /\ s.value = v /\ s.left = LeftMax(v)
  BY <1>3 DEF Fields
\* The scrolled view shows the end of the text.
<1>5. CursorMax(s) = Len(v)
  <2>1. CursorMax(s) \in Starts(v) /\ Rank(v, CursorMax(s)) = Shows(v, Last(v))
    <3> HIDE DEF s, v
    <3> QED  BY <1>1, <1>2, <1>4, CursorMaxRank
  <2>2. Shows(v, Last(v)) = Count(v)
    BY <1>2, FieldAssumption DEF Shows
  <2>3. Rank(v, CursorMax(s)) = Rank(v, Len(v))
    BY <2>1, <2>2 DEF Count
  <2> HIDE DEF s
  <2> QED  BY <1>1, <2>1, <2>3, RankOrders
<1>6. h \in Fields /\ h.value = v /\ h.left = LeftMax(v) /\ h.cursor = Len(v)
  <2> HIDE DEF s
  <2> QED  BY <1>1, <1>4, <1>5 DEF Fields
<1>7. h.left >= LeftMax(v) /\ LeftMax(v) <= h.cursor
  BY <1>1, <1>2, <1>3, <1>6 DEF Starts
<1>8. g = OffUpdate(h)
  BY DEF MovedDown
<1> HIDE DEF h, s
<1> QED  BY <1>1, <1>6, <1>7, <1>8, Settles

LEMMA AlignOffIs ==
    ASSUME NEW v, Len(v) \in Nat
    PROVE  AlignOff(v) \in Nat
<1>1. Length(v, 0, Len(v)) \in Nat /\ Width \in Nat
  BY RankIsNat, FieldAssumption DEF Rank
<1>2. \A len \in Nat : len < Width => (Width - len) \div 2 \in Nat
  BY <1>1
<1> QED  BY <1>1, <1>2 DEF AlignOff

\* The mouse puts the cursor where it points, and leaves the rest alone.
LEMMA PointedIs ==
    ASSUME NEW f \in Fields, Placed(f), NEW x \in Int, NEW p \in Pointed(f, x),
           NEW g, g = OffUpdate([f EXCEPT !.cursor = p])
    PROVE  /\ g \in Settled /\ Placed(g) /\ g.value = f.value /\ g.left = f.left
           /\ CursorColumn(g) = PointedAt(f, x)
<1> DEFINE v == f.value
           h == [f EXCEPT !.cursor = p]
           a == AlignOff(v)
           l == Rank(v, f.left)
           n == Count(v)
           to == CursorMax(f)
<1>1. /\ v \in Seq(Bytes) /\ Len(v) \in Nat
      /\ 0 \in Starts(v) /\ f.left \in Starts(v) /\ n \in Nat /\ Last(v) \in Nat /\ l \in 0..Last(v)
      /\ to \in Starts(v)
  BY PlacedRanks
<1>2. /\ Rank(v, to) = Shows(v, l) /\ f.left <= to /\ f.left \in Nat /\ to \in Nat
      /\ Rank(v, to) \in 0..n /\ l \in 0..n /\ l <= Rank(v, to)
  <2>1. Rank(v, to) = Shows(v, l) /\ f.left <= to
    BY <1>1, CursorMaxRank
  <2>2. f.left \in Nat /\ to \in Nat
    BY <1>1 DEF Starts
  <2>3. Rank(v, to) \in 0..n /\ l \in 0..n /\ l <= Rank(v, to)
    BY <1>1, <2>1, RankOrders
  <2> QED  BY <2>1, <2>2, <2>3
<1>3. a \in Nat
  BY <1>1, AlignOffIs
<1>4. \/ x >= a /\ p = NextN(v, f.left, x - a)
      \/ x < a /\ v = <<>> /\ p = 0
      \/ x < a /\ p \in Int /\ p <= f.left - 1
  <2>1. CASE x >= a
    BY <2>1 DEF Pointed
  <2>2. CASE ~(x >= a) /\ v = <<>>
    BY <1>3, <2>2 DEF Pointed
  <2>3. CASE ~(x >= a) /\ v # <<>>
    <3>1. p \in -MaxBytes..f.left - 1
      BY <2>3 DEF Pointed
    <3>2. p \in Int /\ p <= f.left - 1
      <4>1. MaxBytes \in Nat
        BY FieldAssumption
      <4> QED  BY <1>2, <3>1, <4>1
    <3>3. x < a
      BY <1>3, <2>3
    <3> QED  BY <3>2, <3>3
  <2> QED  BY <2>1, <2>2, <2>3
<1>5. /\ p \in Int
      /\ \/ x >= a /\ p \in Starts(v) /\ Rank(v, p) = IF l + (x - a) <= n THEN l + (x - a) ELSE n
         \/ x < a /\ p \in Starts(v) /\ n = 0
         \/ x < a /\ p <= f.left
  <2>1. CASE x >= a /\ p = NextN(v, f.left, x - a)
    <3>1. x - a \in Nat
      BY <1>3, <2>1
    <3>2. p \in Starts(v) /\ Rank(v, p) = IF l + (x - a) <= n THEN l + (x - a) ELSE n
      <4> HIDE DEF a
      <4> QED  BY <1>1, <2>1, <3>1, NextNRank
    <3>3. p \in Int
      BY <3>2 DEF Starts
    <3> QED  BY <2>1, <3>2, <3>3
  <2>2. CASE x < a /\ v = <<>> /\ p = 0
    <3>1. Len(v) = 0
      BY <2>2
    <3>2. n = 0
      BY <3>1, RankIsNat DEF Count
    <3> QED  BY <1>1, <2>2, <3>2
  <2>3. CASE x < a /\ p \in Int /\ p <= f.left - 1
    BY <1>2, <2>3
  <2> QED  BY <1>4, <2>1, <2>2, <2>3
<1>6. h \in Fields /\ h.value = v /\ h.left = f.left /\ h.cursor = p
  BY <1>5 DEF Fields
<1>7. g = OffUpdate(h)
  OBVIOUS
<1> HIDE DEF h, to, a
<1>8. /\ g.value = v /\ g.left \in Starts(v)
      /\ Rank(v, g.left) = l /\ CursorMax(g) \in Starts(v)
      /\ Rank(v, CursorMax(g)) = Shows(v, l) /\ g.cursor = Clamp(p, g.left, CursorMax(g))
  <2>1. l <= Last(v)
    BY <1>1
  <2> QED  BY <1>1, <1>6, <1>7, <2>1, OffUpdateAt
<1>9. g.left = f.left
  BY <1>1, <1>8, RankOrders
<1>10. CursorMax(g) = to
  BY <1>1, <1>2, <1>8, RankOrders
<1>11. g \in Settled /\ Placed(g)
  <2>1. h.cursor \in Starts(v) \/ h.cursor <= OffUpdate(h).left
    BY <1>5, <1>6, <1>7, <1>9
  <2> QED  BY <1>1, <1>6, <1>7, <2>1, OffUpdatePlaces DEF Settled
<1>12. g.cursor = Clamp(p, f.left, to) /\ g.cursor \in Starts(v) /\ f.left <= g.cursor /\ g.cursor \in Nat
  <2>1. g.cursor = Clamp(p, f.left, to)
    BY <1>8, <1>9, <1>10
  <2>2. g \in Fields
    BY <1>11 DEF Settled, Fields
  <2>3. g.cursor \in Starts(v) /\ f.left <= g.cursor
    BY <1>8, <1>9, <1>11, <2>2, PlacedRanks
  <2> QED  BY <2>1, <2>3 DEF Starts
<1>13. /\ Length(v, f.left, g.cursor) = Rank(v, g.cursor) - l
       /\ Length(v, f.left, to) = Rank(v, to) - l
  BY <1>2, <1>12, LengthIsRanks
<1> DEFINE k == Rank(v, g.cursor)
           m == Rank(v, to)
<1>14. a + (k - l) = Clamp(x, a, a + (m - l))
  <2>1. l \in Nat /\ m \in Nat /\ n \in Nat /\ l <= m /\ m <= n /\ Width \in Nat /\ k \in Nat
    BY <1>1, <1>2, <1>12, RankIsNat, FieldAssumption
  <2>2. CASE x >= a /\ p \in Starts(v) /\ Rank(v, p) = IF l + (x - a) <= n THEN l + (x - a) ELSE n
    <3>1. f.left <= p
      <4>1. l <= Rank(v, p)
        <5> HIDE DEF l, n
        <5> QED  BY <1>3, <2>1, <2>2
      <4> QED  BY <1>1, <2>2, <4>1, RankOrders
    <3>2. CASE p <= to
      <4>1. g.cursor = p
        BY <1>2, <1>5, <1>12, <3>1, <3>2 DEF Clamp
      <4>2. k <= m
        BY <1>1, <2>2, <3>2, <4>1, RankOrders
      <4>3. k = IF l + (x - a) <= n THEN l + (x - a) ELSE n
        BY <2>2, <4>1
      <4> HIDE DEF k, m, n, l
      <4> QED  BY <1>3, <2>1, <2>2, <4>2, <4>3 DEF Clamp
    <3>3. CASE ~(p <= to)
      <4>1. g.cursor = to
        BY <1>2, <1>5, <1>12, <3>1, <3>3 DEF Clamp
      <4>2. k = m
        BY <4>1
      <4>3. ~(Rank(v, p) <= m)
        BY <1>1, <2>2, <3>3, RankOrders
      <4> HIDE DEF k, m, n, l
      <4> QED  BY <1>3, <2>1, <2>2, <4>2, <4>3 DEF Clamp
    <3> QED  BY <3>2, <3>3
  <2>3. CASE x < a /\ p \in Starts(v) /\ n = 0
    <3>1. k \in 0..n
      BY <1>1, <1>12, RankOrders
    <3>2. k = l /\ m = l
      <4> HIDE DEF k, m, n, l
      <4> QED  BY <2>1, <2>3, <3>1
    <3> HIDE DEF k, m, n, l
    <3> QED  BY <1>3, <2>1, <2>3, <3>2 DEF Clamp
  <2>4. CASE x < a /\ p <= f.left
    <3>1. g.cursor = f.left
      BY <1>2, <1>5, <1>12, <2>4 DEF Clamp
    <3>2. k = l
      BY <3>1
    <3> HIDE DEF k, m, n, l
    <3> QED  BY <1>3, <2>1, <2>4, <3>2 DEF Clamp
  <2> QED  BY <1>5, <2>2, <2>3, <2>4
<1>15. CursorColumn(g) = a + (k - l)
  BY <1>8, <1>9, <1>13 DEF CursorColumn, a
<1>16. PointedAt(f, x) = Clamp(x, a, a + (m - l))
  BY <1>13 DEF PointedAt, a, to
<1> QED  BY <1>8, <1>9, <1>11, <1>14, <1>15, <1>16

\* The first byte of a codepoint is typed: the text has one codepoint more.
LEMMA StartedIs ==
    ASSUME NEW f \in Fields, Placed(f), NEW b \in Bytes, b[2] = 1, NEW g, g = Typed(f, b)
    PROVE  /\ g \in Settled /\ Placed(g) /\ g.value = Insert(f.value, f.cursor, b)
           /\ g.cursor = f.cursor + 1 /\ g.left <= f.cursor
<1> DEFINE v == f.value
           p == f.cursor
           s == ShiftedRight(f)
           w == Insert(v, p, b)
           h == [s EXCEPT !.value = w, !.cursor = p + 1]
<1>1. /\ v \in Seq(Bytes) /\ Len(v) \in Nat
      /\ 0 \in Starts(v) /\ p \in Starts(v)
  BY PlacedRanks
<1>2. /\ s \in Fields /\ s.value = v /\ s.cursor = p
      /\ s.left \in Starts(v) /\ s.left <= p /\ Rank(v, p) < Rank(v, s.left) + Width
  BY ShiftedRightIs
<1>3. p \in 0..Len(v) /\ p \in Nat /\ s.left \in Nat
  BY <1>1, <1>2 DEF Starts
<1>4. InsertMakes(w, v, p, b)
  BY <1>1, <1>3, InsertIs
<1> HIDE DEF s, w, p, v
<1>5. /\ p + 1 \in Starts(w) /\ Rank(w, p + 1) = Rank(v, p) + 1 /\ p \in Starts(w)
      /\ \A q \in Starts(v) : q <= p => Rank(w, q) = Rank(v, q)
      /\ \A q \in Starts(v) : q < p => q \in Starts(w)
  <2>1. v \in Seq(Bytes) /\ p \in Starts(v) /\ w = Insert(v, p, b) /\ 1 = (IF b[2] = 1 THEN 1 ELSE 0)
    BY <1>1 DEF w
  <2>2. Inserted(w, v, p, 1)
    BY <2>1, InsertRanks
  <2> QED  BY <2>2 DEF Inserted
<1>6. /\ 0 \in Starts(w) /\ s.left \in Starts(w) /\ Rank(w, s.left) = Rank(v, s.left)
      /\ w \in Seq(Bytes) /\ Len(w) \in Nat
  <2>1. 0 \in Starts(w)
    <3>1. CASE p = 0
      BY <1>5, <3>1
    <3>2. CASE p # 0
      BY <1>1, <1>3, <1>5, <3>2
    <3> QED  BY <3>1, <3>2
  <2>2. s.left \in Starts(w)
    <3>1. CASE p = s.left
      BY <1>5, <3>1
    <3>2. CASE p # s.left
      BY <1>2, <1>3, <1>5, <3>2
    <3> QED  BY <3>1, <3>2
  <2> QED  BY <1>2, <1>4, <1>5, <2>1, <2>2 DEF InsertMakes
<1>7. Rank(w, p + 1) <= Rank(w, s.left) + Width
  <2>1. Rank(v, p) \in Nat /\ Rank(v, s.left) \in Nat
    BY <1>3, RankIsNat
  <2> QED  BY <1>2, <1>5, <1>6, <2>1, FieldAssumption
<1>8. h \in Fields /\ h.value = w /\ h.left = s.left /\ h.cursor = p + 1
  <2>1. p + 1 \in Int
    BY <1>3
  <2>2. \A j \in Int : /\ [s EXCEPT !.value = w, !.cursor = j] \in Fields
                       /\ [s EXCEPT !.value = w, !.cursor = j].value = w
                       /\ [s EXCEPT !.value = w, !.cursor = j].left = s.left
                       /\ [s EXCEPT !.value = w, !.cursor = j].cursor = j
    BY <1>2, <1>6 DEF Fields
  <2> QED  BY <2>1, <2>2
<1>9. g = OffUpdate(h)
  BY <1>2 DEF Typed, s, h, w, v, p
<1>10. g \in Settled /\ Placed(g) /\ g.value = w /\ g.cursor = p + 1 /\ g.left <= h.left
  <2>1. /\ 0 \in Starts(w) /\ h.cursor \in Starts(w)
        /\ h.left \in Starts(w) /\ h.left <= h.cursor
        /\ Rank(w, h.cursor) <= Rank(w, h.left) + Width
    BY <1>2, <1>3, <1>5, <1>6, <1>7, <1>8
  <2> HIDE DEF h
  <2> QED  BY <1>8, <1>9, <2>1, Settles
<1>11. g.left <= p
  <2>1. g.left \in Int
    BY <1>10 DEF Settled
  <2> HIDE DEF h
  <2> QED  BY <1>2, <1>3, <1>8, <1>10, <2>1
<1> QED  BY <1>10, <1>11 DEF w, v, p

\* Another byte of it is typed: no codepoint starts there, and the view, which
\* may shift once more, still shows all that has arrived.
Arrived(f, c, k) ==
    k <= f.cursor - f.left /\ \A i \in 1..k : f.value[f.cursor - k + i] = <<c, i>>

LEMMA ContinuedIs ==
    ASSUME NEW f \in Fields, Placed(f), NEW c \in Codepoints, NEW k \in Nat \ {0},
           NEW b \in Bytes, b = <<c, k + 1>>, Arrived(f, c, k), NEW g, g = Typed(f, b)
    PROVE  /\ g \in Settled /\ Placed(g) /\ g.value = Insert(f.value, f.cursor, b)
           /\ g.cursor = f.cursor + 1 /\ g.left <= f.cursor - k
<1> DEFINE v == f.value
           p == f.cursor
           s == ShiftedRight(f)
           w == Insert(v, p, b)
           h == [s EXCEPT !.value = w, !.cursor = p + 1]
           a == p - k
           l == Rank(v, f.left)
           n == Count(v)
           r == Rank(v, p)
<1>1. /\ v \in Seq(Bytes) /\ Len(v) \in Nat
      /\ 0 \in Starts(v) /\ f.left \in Starts(v) /\ p \in Starts(v) /\ f.left <= p
      /\ n \in Nat /\ l \in 0..Last(v) /\ Last(v) \in Nat /\ r \in 0..n /\ l <= r /\ r <= l + Width
  BY PlacedRanks
<1>2. /\ s \in Fields /\ s.value = v /\ s.cursor = p
      /\ s.left \in Starts(v) /\ s.left <= p /\ r < Rank(v, s.left) + Width
      /\ s.left = f.left \/ (l < n /\ r = Shows(v, l) /\ Rank(v, s.left) = l + 1)
  <2> HIDE DEF s
  <2>1. s = ShiftedRight(f)
    BY DEF s
  <2>2. /\ s \in Fields /\ s.value = f.value /\ s.cursor = f.cursor
        /\ s.left \in Starts(f.value) /\ s.left <= f.cursor
        /\ Rank(f.value, f.cursor) < Rank(f.value, s.left) + Width
    BY <2>1, ShiftedRightIs
  <2>3. s.left = f.left \/ /\ Rank(f.value, f.left) < Count(f.value)
                           /\ Rank(f.value, f.cursor) = Shows(f.value, Rank(f.value, f.left))
                           /\ Rank(f.value, s.left) = Rank(f.value, f.left) + 1
    BY <2>1, ShiftedRightIs
  <2> QED  BY <2>2, <2>3
<1>3. p \in 0..Len(v) /\ p \in Nat /\ f.left \in Nat /\ s.left \in Nat
  BY <1>1, <1>2 DEF Starts
<1>4. InsertMakes(w, v, p, b)
  BY <1>1, <1>3, InsertIs
<1> HIDE DEF s, w, p, v
<1>5. a \in Nat /\ f.left <= a /\ a < p /\ a \in 0..Len(v) /\ k >= 1
  <2>1. k <= p - f.left
    BY DEF Arrived, p
  <2> QED  BY <1>3, <2>1
<1>6. v[a + 1][2] = 1 /\ \A i \in a + 1..p - 1 : v[i + 1][2] # 1
  <2>1. 1 \in 1..k
    OBVIOUS
  <2>2. v[p - k + 1] = <<c, 1>>
    BY <2>1 DEF Arrived, v, p
  <2>3. ASSUME NEW i \in a + 1..p - 1
        PROVE  v[i + 1][2] # 1
    <3>1. i - a + 1 \in 1..k /\ p - k + (i - a + 1) = i + 1 /\ i - a + 1 # 1
      BY <1>3, <2>3
    <3>2. v[p - k + (i - a + 1)] = <<c, i - a + 1>>
      <4> DEFINE j == i - a + 1
      <4>1. j \in 1..k
        BY <3>1
      <4> HIDE DEF j
      <4>2. v[p - k + j] = <<c, j>>
        BY <4>1 DEF Arrived, v, p
      <4> QED  BY <4>2 DEF j
    <3> QED  BY <3>1, <3>2
  <2> QED  BY <2>2, <2>3
<1>7. a \in Starts(v) /\ r = Rank(v, a) + 1 /\ Rank(v, a) \in Nat
  <2>1. a \in Starts(v)
    BY <1>5, <1>6 DEF Starts, CodepointStart
  <2>2. Rank(v, a + 1) = Rank(v, a) + 1
    BY <1>5, <1>6, RankStep
  <2>3. Length(v, a + 1, p) = r - Rank(v, a + 1)
    <3>1. a + 1 \in Nat /\ a + 1 <= p
      BY <1>3, <1>5
    <3> HIDE DEF a
    <3> QED  BY <1>3, <3>1, LengthIsRanks
  <2>4. {i \in a + 1..p - 1 : v[i + 1][2] = 1} = {}
    BY <1>6
  <2>5. Length(v, a + 1, p) = 0
    BY <2>4, FS_EmptySet DEF Length
  <2>6. Rank(v, a) \in Nat
    BY <1>5, RankIsNat
  <2> HIDE DEF a, r
  <2> QED  BY <1>1, <2>1, <2>2, <2>3, <2>5, <2>6
<1>8. /\ Count(w) = n
      /\ p + 1 \in Starts(w) /\ Rank(w, p + 1) = r
      /\ \A q \in Starts(v) : q <= p => Rank(w, q) = Rank(v, q)
      /\ \A q \in Starts(v) : q < p => q \in Starts(w)
  <2>1. v \in Seq(Bytes) /\ p \in Starts(v) /\ w = Insert(v, p, b)
    BY <1>1 DEF w
  <2>2. b[2] # 1
    OBVIOUS
  <2>3. 0 = (IF b[2] = 1 THEN 1 ELSE 0)
    BY <2>2
  <2>4. Inserted(w, v, p, 0)
    <3> HIDE DEF n, r
    <3> QED  BY <2>1, <2>3, InsertRanks
  <2> QED  BY <1>1, <2>4 DEF Inserted
<1>9. 0 \in Starts(w) /\ w \in Seq(Bytes) /\ Len(w) \in Nat
  BY <1>1, <1>3, <1>4, <1>5, <1>8 DEF InsertMakes
<1>10. h \in Fields /\ h.value = w /\ h.left = s.left /\ h.cursor = p + 1
  <2>1. p + 1 \in Int
    BY <1>3
  <2>2. \A j \in Int : /\ [s EXCEPT !.value = w, !.cursor = j] \in Fields
                       /\ [s EXCEPT !.value = w, !.cursor = j].value = w
                       /\ [s EXCEPT !.value = w, !.cursor = j].left = s.left
                       /\ [s EXCEPT !.value = w, !.cursor = j].cursor = j
    BY <1>2, <1>9 DEF Fields
  <2> QED  BY <2>1, <2>2
<1>11. g = OffUpdate(h)
  BY <1>2 DEF Typed, s, h, w, v, p
<1> HIDE DEF h, a, r, n, l
<1>12. CASE s.left <= a
  <2>1. s.left < p
    BY <1>3, <1>5, <1>12
  <2>2. s.left \in Starts(w) /\ Rank(w, s.left) = Rank(v, s.left)
    BY <1>2, <1>8, <2>1
  <2>3. Rank(v, s.left) \in Nat
    BY <1>3, RankIsNat
  <2>4. Rank(w, p + 1) <= Rank(w, s.left) + Width
    BY <1>1, <1>2, <1>8, <2>2, <2>3, FieldAssumption
  <2>5. s.left <= p + 1
    BY <1>3, <2>1
  <2>6. /\ h.cursor \in Starts(w) /\ h.left \in Starts(w) /\ h.left <= h.cursor
        /\ Rank(w, h.cursor) <= Rank(w, h.left) + Width
    BY <1>8, <1>10, <2>2, <2>4, <2>5
  <2>7. g \in Settled /\ Placed(g) /\ g.value = w /\ g.cursor = p + 1 /\ g.left <= s.left
    BY <1>9, <1>10, <1>11, <2>6, Settles
  <2>8. g.left <= a
    BY <1>3, <1>5, <1>12, <2>7 DEF Settled
  <2> QED  BY <2>7, <2>8 DEF w, v, p, a
<1>13. CASE ~(s.left <= a)
  \* The text is this codepoint alone: a field that is wider shows it from the
  \* first byte on.
  <2>1. s.left # f.left
    BY <1>3, <1>5, <1>13
  <2>2. l < n /\ r = Shows(v, l) /\ Rank(v, s.left) = l + 1
    BY <1>2, <2>1
  <2>3. ~(Rank(v, s.left) <= Rank(v, a))
    BY <1>1, <1>2, <1>7, <1>13, RankOrders
  <2>4. r <= l + 1
    BY <1>1, <1>7, <2>2, <2>3
  <2>5. Last(v) = 0 /\ n <= Width
    <3>1. Width \in Nat \ {0, 1}
      BY FieldAssumption
    <3>2. Last(v) = (IF n <= Width THEN 0 ELSE n - Width) /\ Shows(v, l) = (IF l + Width <= n THEN l + Width ELSE n)
      BY DEF Last, Shows, n
    <3> QED  BY <1>1, <2>2, <2>4, <3>1, <3>2
  <2>6. Last(w) = 0
    BY <1>8, <2>5 DEF Last
  <2>7. LeftMax(w) = 0
    <3>1. LeftMax(w) \in Starts(w) /\ Rank(w, LeftMax(w)) = 0
      BY <1>9, <2>6, LeftMaxRank
    <3>2. Rank(w, 0) = 0
      BY RankIsNat
    <3> QED  BY <1>9, <3>1, <3>2, RankOrders
  <2>8. h.cursor \in Starts(w) /\ h.left >= LeftMax(w) /\ LeftMax(w) <= h.cursor
    BY <1>3, <1>8, <1>10, <2>7
  <2>9. g \in Settled /\ Placed(g) /\ g.value = w /\ g.cursor = p + 1 /\ g.left <= 0
    BY <1>9, <1>10, <1>11, <2>7, <2>8, Settles
  <2>10. g.left <= a
    BY <1>5, <2>9 DEF Settled
  <2> QED  BY <2>9, <2>10 DEF w, v, p, a
<1> QED  BY <1>12, <1>13
----------------------------------------------------------------------------
(***************************************************************************)
(* The steps of the field.                                                 *)
(***************************************************************************)
LEMMA NothingBetween ==
    ASSUME NEW v \in Seq(Bytes), NEW p \in 0..Len(v)
    PROVE  SubSeq(v, 1, p) \o <<>> \o SubSeq(v, p + 1, Len(v)) = v
BY PartsOf, ConcatEmptySeq

LEMMA FitsFacts ==
    ASSUME FieldFits
    PROVE  /\ field \in Settled /\ field \in Fields /\ Placed(field)
           /\ name \in Seq(Bytes) /\ Linked(name)
           /\ pending = <<>> => Linked(field.value)
<1>1. field \in Settled /\ Placed(field) /\ name \in Seq(Bytes) /\ Whole(name)
  BY DEF FieldFits, Settled
<1>2. field \in Fields
  BY <1>1 DEF Settled, Fields
<1>3. Linked(name)
  BY <1>1, WholeIsLinked
<1>4. ASSUME pending = <<>>
      PROVE  Linked(field.value)
  <2>1. field.value \in Seq(Bytes) /\ field.cursor \in 0..Len(field.value)
    BY <1>1, <1>2, PlacedRanks DEF Starts
  <2>2. Whole(SubSeq(field.value, 1, field.cursor) \o <<>>
                \o SubSeq(field.value, field.cursor + 1, Len(field.value)))
    BY <1>4 DEF FieldFits, Before, After
  <2> QED  BY <2>1, <2>2, NothingBetween, WholeIsLinked
<1> QED  BY <1>1, <1>2, <1>3, <1>4

LEMMA FitsAgain ==
    ASSUME pending' = <<>>, field' \in Settled, Placed(field'), Linked(field'.value),
           name' \in Seq(Bytes), Linked(name')
    PROVE  FieldFits'
<1>1. field' \in Fields
  BY DEF Settled, Fields
<1>2. field'.value \in Seq(Bytes) /\ field'.cursor \in 0..Len(field'.value)
  BY <1>1, PlacedRanks DEF Starts
<1>3. Before(field') \o <<>> \o After(field') = field'.value
  BY <1>2, NothingBetween DEF Before, After
<1>4. Whole(field'.value) /\ Whole(name')
  BY <1>2, LinkedIsWhole
<1>5. (Whole(Before(field) \o pending \o After(field)))'
  BY <1>3, <1>4
<1>6. (pending # <<>> => focused /\ ~drag)'
  OBVIOUS
<1>7. (pending = <<>> \/ \E c \in Codepoints : \E k \in 1..BytesOf[c] - 1 : Sent(c, k))'
  OBVIOUS
<1> QED  BY <1>4, <1>5, <1>6, <1>7 DEF FieldFits, Settled

LEMMA KeyDeleteActs ==
    ASSUME FieldFits, KeyDelete, ~slipped'
    PROVE  /\ FieldFits' /\ After(field') = After(field)
           /\ \E c \in Codepoints : Before(field) = Before(field') \o Encoded(c)
<1>1. /\ field \in Fields /\ Placed(field) /\ name \in Seq(Bytes) /\ Linked(name)
      /\ Linked(field.value)
  BY FitsFacts DEF KeyDelete, Listening
<1>2. field.cursor > 0 /\ ~Slips /\ field' = Deleted(field) /\ name' = name /\ pending' = <<>>
  BY DEF KeyDelete, Listening
<1>3. /\ field' \in Settled /\ Placed(field') /\ Linked(field'.value)
      /\ After(field') = After(field)
      /\ \E c \in Codepoints : Before(field) = Before(field') \o Encoded(c)
  BY <1>1, <1>2, DeletedIs DEF Slips
<1> QED  BY <1>1, <1>2, <1>3, FitsAgain

LEMMA KeyFnDeleteActs ==
    ASSUME FieldFits, KeyFnDelete
    PROVE  /\ FieldFits' /\ Before(field') = Before(field)
           /\ \E c \in Codepoints : After(field) = Encoded(c) \o After(field')
<1>1. /\ field \in Fields /\ Placed(field) /\ name \in Seq(Bytes) /\ Linked(name)
      /\ Linked(field.value)
  BY FitsFacts DEF KeyFnDelete, Key, Listening
<1>2. /\ field.cursor < Len(field.value) /\ field' = FnDeleted(field)
      /\ name' = name /\ pending' = <<>>
  BY DEF KeyFnDelete, Key, Listening
<1>3. /\ field' \in Settled /\ Placed(field') /\ Linked(field'.value)
      /\ Before(field') = Before(field)
      /\ \E c \in Codepoints : After(field) = Encoded(c) \o After(field')
  BY <1>1, <1>2, FnDeletedIs
<1> QED  BY <1>1, <1>2, <1>3, FitsAgain

LEMMA KeyLeftActs ==
    ASSUME FieldFits, KeyLeft
    PROVE  /\ FieldFits' /\ field'.value = field.value
           /\ \E c \in Codepoints : Before(field) = Before(field') \o Encoded(c)
<1>1. /\ field \in Fields /\ Placed(field) /\ name \in Seq(Bytes) /\ Linked(name)
      /\ Linked(field.value)
  BY FitsFacts DEF KeyLeft, Key, Listening
<1>2. field.cursor > 0 /\ field' = MovedLeft(field) /\ name' = name /\ pending' = <<>>
  BY DEF KeyLeft, Key, Listening
<1>3. /\ field' \in Settled /\ Placed(field') /\ field'.value = field.value
      /\ \E c \in Codepoints : Before(field) = Before(field') \o Encoded(c)
  BY <1>1, <1>2, MovedLeftIs
<1> QED  BY <1>1, <1>2, <1>3, FitsAgain

LEMMA KeyRightActs ==
    ASSUME FieldFits, KeyRight
    PROVE  /\ FieldFits' /\ field'.value = field.value
           /\ \E c \in Codepoints : After(field) = Encoded(c) \o After(field')
<1>1. /\ field \in Fields /\ Placed(field) /\ name \in Seq(Bytes) /\ Linked(name)
      /\ Linked(field.value)
  BY FitsFacts DEF KeyRight, Key, Listening
<1>2. /\ field.cursor < Len(field.value) /\ field' = MovedRight(field)
      /\ name' = name /\ pending' = <<>>
  BY DEF KeyRight, Key, Listening
<1>3. /\ field' \in Settled /\ Placed(field') /\ field'.value = field.value
      /\ \E c \in Codepoints : After(field) = Encoded(c) \o After(field')
  BY <1>1, <1>2, MovedRightIs
<1> QED  BY <1>1, <1>2, <1>3, FitsAgain

LEMMA KeyUpActs ==
    ASSUME FieldFits, KeyUp
    PROVE  FieldFits' /\ field'.value = field.value /\ Before(field') = <<>>
<1>1. /\ field \in Fields /\ Placed(field) /\ name \in Seq(Bytes) /\ Linked(name)
      /\ Linked(field.value)
  BY FitsFacts DEF KeyUp, Key, Listening
<1>2. field' = MovedUp(field) /\ name' = name /\ pending' = <<>>
  BY DEF KeyUp, Key, Listening
<1>3. /\ field' \in Settled /\ Placed(field') /\ field'.value = field.value
      /\ field'.cursor = 0
  BY <1>1, <1>2, UpIs
<1>4. field'.value \in Seq(Bytes)
  BY <1>3 DEF Settled
<1>5. Before(field') = <<>>
  BY <1>3, <1>4 DEF Before
<1> QED  BY <1>1, <1>2, <1>3, <1>5, FitsAgain

LEMMA KeyDownActs ==
    ASSUME FieldFits, KeyDown
    PROVE  FieldFits' /\ field'.value = field.value /\ After(field') = <<>>
<1>1. /\ field \in Fields /\ Placed(field) /\ name \in Seq(Bytes) /\ Linked(name)
      /\ Linked(field.value)
  BY FitsFacts DEF KeyDown, Key, Listening
<1>2. field' = MovedDown(field) /\ name' = name /\ pending' = <<>>
  BY DEF KeyDown, Key, Listening
<1>3. /\ field' \in Settled /\ Placed(field') /\ field'.value = field.value
      /\ field'.cursor = Len(field.value)
  BY <1>1, <1>2, DownIs
<1>4. field'.value \in Seq(Bytes) /\ field'.cursor = Len(field'.value)
  BY <1>3 DEF Settled
<1>5. After(field') = <<>>
  BY <1>4 DEF After
<1> QED  BY <1>1, <1>2, <1>3, <1>5, FitsAgain

\* What is left of a codepoint after k bytes of it.
LEMMA EncodedRest ==
    ASSUME NEW c \in Codepoints, NEW k \in 0..BytesOf[c] - 1,
           NEW r, r = SubSeq(Encoded(c), k + 1, BytesOf[c])
    PROVE  /\ r \in Seq(Bytes) /\ r # <<>> /\ Head(r) = <<c, k + 1>> /\ <<c, k + 1>> \in Bytes
           /\ Tail(r) = SubSeq(Encoded(c), (k + 1) + 1, BytesOf[c])
           /\ k + 1 = BytesOf[c] => Tail(r) = <<>>
<1> DEFINE e == Encoded(c)
           n == BytesOf[c]
<1>1. e \in Seq(Bytes) /\ Len(e) = n /\ n \in Nat \ {0} /\ \A i \in 1..n : e[i] = <<c, i>> /\ <<c, i>> \in Bytes
  BY EncodedIs
<1> HIDE DEF e, n
<1>2. k + 1 \in 1..Len(e) /\ Len(e) \in k + 1..Len(e) /\ k \in Int
  BY <1>1 DEF n
<1>3. r = SubSeq(e, k + 1, Len(e))
  BY <1>1 DEF e, n
<1>4. Head(r) = e[k + 1] /\ Tail(r) = SubSeq(e, (k + 1) + 1, Len(e))
  BY <1>1, <1>2, <1>3, HeadTailOfSubSeq
<1>5. r \in Seq(Bytes) /\ Len(r) = Len(e) - k /\ Len(r) \in Nat \ {0}
  <2>1. k \in 0..Len(e) /\ e \in Seq(Bytes)
    BY <1>1, <1>2
  <2>2. /\ SubSeq(e, k + 1, Len(e)) \in Seq(Bytes)
        /\ Len(SubSeq(e, k + 1, Len(e))) = Len(e) - k
    BY <2>1, PartsOf
  <2>3. r \in Seq(Bytes) /\ Len(r) = Len(e) - k
    BY <1>3, <2>2, Zenon
  <2>4. Len(e) \in Nat /\ k \in Nat /\ k < Len(e)
    BY <1>1, <1>2
  <2>5. Len(e) - k \in Nat \ {0}
    BY <2>4
  <2> QED  BY <2>3, <2>5
<1>6. r # <<>>
  <2>1. Len(r) # 0
    BY <1>5
  <2> QED  BY <2>1, EmptySeq
<1>7. ASSUME k + 1 = n
      PROVE  Tail(r) = <<>>
  <2>1. Tail(r) \in Seq(Bytes) /\ Len(Tail(r)) = Len(r) - 1
    BY <1>5, <1>6, HeadTailProperties
  <2>2. Len(Tail(r)) = 0
    BY <1>1, <1>2, <1>5, <1>7, <2>1
  <2> QED  BY <2>1, <2>2, EmptySeq
<1> QED  BY <1>1, <1>2, <1>4, <1>5, <1>6, <1>7 DEF e, n

LEMMA HeadMoves ==
    ASSUME NEW s \in Seq(Bytes), NEW r \in Seq(Bytes), r # <<>>
    PROVE  Append(s, Head(r)) \o Tail(r) = s \o r
<1>1. Head(r) \in Bytes /\ Tail(r) \in Seq(Bytes) /\ Len(Tail(r)) = Len(r) - 1 /\ Len(r) \in Nat \ {0}
      /\ \A i \in 1..Len(Tail(r)) : Tail(r)[i] = r[i + 1]
  BY HeadTailProperties, EmptySeq
<1>2. <<Head(r)>> \o Tail(r) = r
  <2> DEFINE t == <<Head(r)>> \o Tail(r)
  <2>1. <<Head(r)>> \in Seq(Bytes) /\ Len(<<Head(r)>>) = 1 /\ <<Head(r)>>[1] = r[1]
    BY <1>1
  <2>2. /\ t \in Seq(Bytes) /\ Len(t) = 1 + Len(Tail(r))
        /\ \A i \in 1..1 + Len(Tail(r)) :
              t[i] = IF i <= 1 THEN <<Head(r)>>[i] ELSE Tail(r)[i - 1]
    <3>1. /\ t \in Seq(Bytes) /\ Len(t) = Len(<<Head(r)>>) + Len(Tail(r))
          /\ \A i \in 1..Len(<<Head(r)>>) + Len(Tail(r)) :
                t[i] = IF i <= Len(<<Head(r)>>) THEN <<Head(r)>>[i] ELSE Tail(r)[i - Len(<<Head(r)>>)]
      BY <1>1, <2>1, ConcatProperties
    <3> HIDE DEF t
    <3> QED  BY <2>1, <3>1
  <2> HIDE DEF t
  <2>3. Len(t) = Len(r)
    BY <1>1, <2>2
  <2>4. ASSUME NEW i \in 1..Len(t)
        PROVE  t[i] = r[i]
    <3>1. CASE i = 1
      BY <1>1, <2>1, <2>2, <2>3, <3>1
    <3>2. CASE i # 1
      <4>1. i - 1 \in 1..Len(Tail(r)) /\ (i - 1) + 1 = i /\ ~(i <= 1) /\ i \in 1..1 + Len(Tail(r))
        BY <1>1, <2>3, <3>2
      <4>2. t[i] = Tail(r)[i - 1]
        BY <2>2, <4>1
      <4> QED  BY <1>1, <4>1, <4>2
    <3> QED  BY <3>1, <3>2
  <2> QED  BY <2>2, <2>3, <2>4, SeqEqual DEF t
<1>3. Append(s, Head(r)) = s \o <<Head(r)>> /\ <<Head(r)>> \in Seq(Bytes)
  BY <1>1, AppendIsConcat
<1>4. (s \o <<Head(r)>>) \o Tail(r) = s \o (<<Head(r)>> \o Tail(r))
  BY <1>1, <1>3, ConcatAssociative
<1> QED  BY <1>2, <1>3, <1>4

\* A byte moves from what the terminal is yet to send into the text.
LEMMA ByteArrives ==
    ASSUME field \in Settled, Placed(field), NEW r \in Seq(Bytes), r # <<>>,
           field'.value = Insert(field.value, field.cursor, Head(r)),
           field'.cursor = field.cursor + 1
    PROVE  /\ Before(field') = Append(Before(field), Head(r)) /\ After(field') = After(field)
           /\ Before(field') \o Tail(r) \o After(field') = Before(field) \o r \o After(field)
           /\ field'.value[field.cursor + 1] = Head(r)
           /\ \A i \in 1..field.cursor : field'.value[i] = field.value[i]
<1>1. field \in Fields
  BY DEF Settled, Fields
<1>2. field.value \in Seq(Bytes) /\ field.cursor \in 0..Len(field.value)
  BY <1>1, PlacedRanks DEF Starts
<1>3. Head(r) \in Bytes
  BY HeadTailProperties
<1>4. InsertMakes(field'.value, field.value, field.cursor, Head(r))
  BY <1>2, <1>3, InsertIs
<1>5. Before(field') = Append(Before(field), Head(r)) /\ After(field') = After(field)
  BY <1>4 DEF InsertMakes, Before, After
<1>6. Before(field) \in Seq(Bytes)
  BY <1>2, PartsOf DEF Before
<1>7. Before(field') \o Tail(r) = Before(field) \o r
  BY <1>5, <1>6, HeadMoves
<1>8. field'.value[field.cursor + 1] = Head(r) /\ \A i \in 1..field.cursor : field'.value[i] = field.value[i]
  BY <1>4 DEF InsertMakes
<1> QED  BY <1>5, <1>7, <1>8

LEMMA KeyStartsActs ==
    ASSUME FieldFits, NEW c \in Codepoints, KeyStarts(c)
    PROVE  /\ FieldFits' /\ After(field') = After(field)
           /\ Before(field') = Append(Before(field), <<c, 1>>)
<1> DEFINE e == Encoded(c)
<1>1. /\ field \in Settled /\ field \in Fields /\ Placed(field)
      /\ name \in Seq(Bytes) /\ Linked(name) /\ Linked(field.value)
  BY FitsFacts DEF KeyStarts, Listening
<1>2. /\ focused /\ ~drag /\ field' = Typed(field, <<c, 1>>) /\ pending' = Tail(e)
      /\ name' = name /\ focused' = focused /\ drag' = drag
  BY DEF KeyStarts, Listening
<1>3. e = SubSeq(e, 0 + 1, BytesOf[c]) /\ e \in Seq(Bytes) /\ BytesOf[c] \in Nat \ {0}
  BY EncodedIs
<1>4. /\ e # <<>> /\ Head(e) = <<c, 1>> /\ <<c, 1>> \in Bytes
      /\ Tail(e) = SubSeq(e, 1 + 1, BytesOf[c]) /\ (BytesOf[c] = 1 => Tail(e) = <<>>)
  <2>1. 0 \in 0..BytesOf[c] - 1
    BY <1>3
  <2>2. /\ e # <<>> /\ Head(e) = <<c, 0 + 1>> /\ <<c, 0 + 1>> \in Bytes
        /\ Tail(e) = SubSeq(e, (0 + 1) + 1, BytesOf[c]) /\ (0 + 1 = BytesOf[c] => Tail(e) = <<>>)
    BY <1>3, <2>1, EncodedRest
  <2>3. 0 + 1 = 1
    OBVIOUS
  <2> HIDE DEF e
  <2> QED  BY <2>2, <2>3
<1> HIDE DEF e
<1>5. /\ field' \in Settled /\ Placed(field')
      /\ field'.value = Insert(field.value, field.cursor, <<c, 1>>)
      /\ field'.cursor = field.cursor + 1 /\ field'.left <= field.cursor
  BY <1>1, <1>2, <1>4, StartedIs
<1>6. /\ Before(field') = Append(Before(field), <<c, 1>>) /\ After(field') = After(field)
      /\ Before(field') \o Tail(e) \o After(field') = Before(field) \o e \o After(field)
      /\ field'.value[field.cursor + 1] = <<c, 1>>
  BY <1>1, <1>3, <1>4, <1>5, ByteArrives
<1>7. Whole(Before(field) \o e \o After(field))
  <2>1. field.cursor \in Starts(field.value) /\ field.value \in Seq(Bytes)
    BY <1>1, PlacedRanks
  <2>2. Linked(Before(field)) /\ Linked(After(field))
    BY <1>1, <2>1, LinkedParts DEF Before, After
  <2>3. Before(field) \in Seq(Bytes) /\ After(field) \in Seq(Bytes)
    BY <2>1, PartsOf DEF Before, After, Starts
  <2>4. Before(field) \o e \in Seq(Bytes) /\ Linked(Before(field) \o e)
    BY <1>3, <2>2, <2>3, LinkedConcat, LinkedEncoded DEF e
  <2> QED  BY <2>2, <2>3, <2>4, LinkedConcat, LinkedIsWhole
<1>8. (Whole(Before(field) \o pending \o After(field)))'
  BY <1>2, <1>6, <1>7
<1>9. (pending # <<>> => focused /\ ~drag)'
  BY <1>2
<1>10. (pending = <<>> \/ \E d \in Codepoints : \E k \in 1..BytesOf[d] - 1 : Sent(d, k))'
  <2>1. CASE BytesOf[c] = 1
    BY <1>2, <1>4, <2>1
  <2>2. CASE BytesOf[c] # 1
    <3>1. 1 \in 1..BytesOf[c] - 1
      BY <1>3, <2>2
    <3>2. field.cursor \in Nat /\ field'.left \in Nat
      BY <1>1, <1>5 DEF Settled
    <3>3. 1 <= field'.cursor - field'.left
      BY <1>5, <3>2
    <3>4. \A i \in 1..1 : field'.value[field'.cursor - 1 + i] = <<c, i>>
      <4>1. field'.cursor - 1 + 1 = field.cursor + 1
        BY <1>5, <3>2
      <4>2. \A i \in 1..1 : i = 1
        OBVIOUS
      <4> QED  BY <1>6, <4>1, <4>2
    <3>5. (Sent(c, 1))'
      BY <1>2, <1>4, <3>3, <3>4 DEF Sent, e
    <3> QED  BY <3>1, <3>5
  <2> QED  BY <2>1, <2>2
<1>11. name' \in Seq(Bytes) /\ Whole(name')
  BY <1>1, <1>2, LinkedIsWhole
<1> QED  BY <1>5, <1>6, <1>8, <1>9, <1>10, <1>11 DEF FieldFits, Settled

LEMMA KeyContinuesActs ==
    ASSUME FieldFits, KeyContinues
    PROVE  /\ FieldFits' /\ After(field') = After(field)
           /\ Before(field') = Append(Before(field), Head(pending))
<1>1. field \in Settled /\ field \in Fields /\ Placed(field) /\ name \in Seq(Bytes) /\ Whole(name)
  BY FitsFacts DEF FieldFits
<1>2. /\ pending # <<>> /\ field' = Typed(field, Head(pending)) /\ pending' = Tail(pending)
      /\ name' = name /\ focused' = focused /\ drag' = drag
  BY DEF KeyContinues
<1>3. /\ focused /\ ~drag /\ Whole(Before(field) \o pending \o After(field))
  BY <1>2 DEF FieldFits
<1>0. PICK c \in Codepoints : \E k \in 1..BytesOf[c] - 1 : Sent(c, k)
  BY <1>2 DEF FieldFits
<1>4. PICK k \in 1..BytesOf[c] - 1 : Sent(c, k)
  BY <1>0
<1>5. /\ pending = SubSeq(Encoded(c), k + 1, BytesOf[c])
      /\ k <= field.cursor - field.left
      /\ \A i \in 1..k : field.value[field.cursor - k + i] = <<c, i>>
  BY <1>4 DEF Sent
<1>6. BytesOf[c] \in Nat \ {0} /\ k \in Nat \ {0} /\ k \in 0..BytesOf[c] - 1 /\ k < BytesOf[c]
  BY EncodedIs
<1>7. /\ pending \in Seq(Bytes) /\ Head(pending) = <<c, k + 1>> /\ <<c, k + 1>> \in Bytes
      /\ Tail(pending) = SubSeq(Encoded(c), (k + 1) + 1, BytesOf[c])
      /\ k + 1 = BytesOf[c] => Tail(pending) = <<>>
  BY <1>5, <1>6, EncodedRest
<1>8. /\ field' \in Settled /\ Placed(field')
      /\ field'.value = Insert(field.value, field.cursor, Head(pending))
      /\ field'.cursor = field.cursor + 1 /\ field'.left <= field.cursor - k
  <2> DEFINE b == Head(pending)
  <2>1. b \in Bytes /\ b = <<c, k + 1>>
    BY <1>7
  <2> HIDE DEF b
  <2>2. field' = Typed(field, b)
    BY <1>2 DEF b
  <2>3. /\ field' \in Settled /\ Placed(field')
        /\ field'.value = Insert(field.value, field.cursor, b)
        /\ field'.cursor = field.cursor + 1 /\ field'.left <= field.cursor - k
    <3>1. Arrived(field, c, k)
      BY <1>5 DEF Arrived
    <3> QED  BY <1>1, <1>6, <2>1, <2>2, <3>1, ContinuedIs
  <2> QED  BY <2>3 DEF b
<1>9. /\ Before(field') = Append(Before(field), Head(pending)) /\ After(field') = After(field)
      /\ Before(field') \o Tail(pending) \o After(field') = Before(field) \o pending \o After(field)
      /\ field'.value[field.cursor + 1] = Head(pending)
      /\ \A i \in 1..field.cursor : field'.value[i] = field.value[i]
  BY <1>1, <1>2, <1>7, <1>8, ByteArrives
<1>10. (Whole(Before(field) \o pending \o After(field)))'
  BY <1>2, <1>3, <1>9
<1>11. (pending # <<>> => focused /\ ~drag)'
  BY <1>2, <1>3
<1>12. (pending = <<>> \/ \E d \in Codepoints : \E j \in 1..BytesOf[d] - 1 : Sent(d, j))'
  <2>1. CASE k + 1 = BytesOf[c]
    BY <1>2, <1>7, <2>1
  <2>2. CASE k + 1 # BytesOf[c]
    <3>1. k + 1 \in 1..BytesOf[c] - 1
      BY <1>6, <2>2
    <3>2. field.cursor \in Nat /\ field.left \in Nat /\ field'.left \in Nat /\ field'.cursor \in Nat
      BY <1>1, <1>8 DEF Settled
    <3>3. k + 1 <= field'.cursor - field'.left
      BY <1>6, <1>8, <3>2
    <3>4. ASSUME NEW i \in 1..k + 1
          PROVE  field'.value[field'.cursor - (k + 1) + i] = <<c, i>>
      <4>1. CASE i = k + 1
        <5>1. field'.cursor - (k + 1) + i = field.cursor + 1
          BY <1>6, <1>8, <3>2, <4>1
        <5> QED  BY <1>7, <1>9, <4>1, <5>1
      <4>2. CASE i # k + 1
        <5> DEFINE j == field.cursor - k + i
        <5>1. i \in 1..k /\ field'.cursor - (k + 1) + i = j
          BY <1>6, <1>8, <3>2, <4>2
        <5>2. j \in 1..field.cursor
          <6>1. field.cursor - k \in Nat
            BY <1>5, <1>6, <3>2
          <6> QED  BY <1>6, <3>2, <5>1, <6>1
        <5>3. field.value[j] = <<c, i>>
          BY <1>5, <5>1
        <5> HIDE DEF j
        <5> QED  BY <1>9, <5>1, <5>2, <5>3
      <4> QED  BY <4>1, <4>2
    <3>5. (Sent(c, k + 1))'
      BY <1>2, <1>7, <3>3, <3>4 DEF Sent
    <3> QED  BY <3>1, <3>5
  <2> QED  BY <2>1, <2>2
<1> QED  BY <1>1, <1>2, <1>8, <1>9, <1>10, <1>11, <1>12 DEF FieldFits, Settled

LEMMA ShownIs ==
    ASSUME NEW s \in Seq(Bytes), Linked(s)
    PROVE  Shown(s) \in Seq(Bytes) /\ Linked(Shown(s))
<1>1. Suffix \in Seq(Bytes) /\ Whole(Suffix)
  BY FieldAssumption
<1>2. Linked(Suffix)
  BY <1>1, WholeIsLinked
<1> QED  BY <1>1, <1>2, LinkedConcat DEF Shown

LEMMA LinkedAtTheEnd ==
    ASSUME NEW v \in Seq(Bytes), Linked(v), NEW g, g = AtTheEnd(v)
    PROVE  g \in Settled /\ Placed(g) /\ Linked(g.value) /\ g.value = v
<1>1. CodepointStart(v, 0)
  BY DEF Linked
<1> QED  BY <1>1, AtTheEndIs

LEMMA WithValueIs ==
    ASSUME NEW f \in Settled, Placed(f), NEW v \in Seq(Bytes), Linked(v),
           NEW g, g = WithValue(f, v)
    PROVE  g \in Settled /\ Placed(g) /\ Linked(g.value)
<1>1. CASE v = f.value
  BY <1>1 DEF WithValue
<1>2. CASE v # f.value
  BY <1>2, LinkedAtTheEnd DEF WithValue
<1> QED  BY <1>1, <1>2

LEMMA BlurActs ==
    ASSUME FieldFits, NEW s \in Seq(Bytes), Linked(s), Blur(s)
    PROVE  FieldFits'
<1>1. field \in Settled /\ Placed(field)
  BY FitsFacts
<1>2. field' = WithValue(field, Shown(s)) /\ name' = s /\ pending' = <<>>
  BY DEF Blur, Listening
<1>3. Shown(s) \in Seq(Bytes) /\ Linked(Shown(s))
  BY ShownIs
<1>4. field' \in Settled /\ Placed(field') /\ Linked(field'.value)
  BY <1>1, <1>2, <1>3, WithValueIs
<1> QED  BY <1>2, <1>4, FitsAgain

LEMMA FocusActs ==
    ASSUME FieldFits, Escape \/ Return \/ TabFocus \/ Release
    PROVE  FieldFits'
<1>1. /\ field \in Settled /\ field \in Fields /\ Placed(field)
      /\ name \in Seq(Bytes) /\ Linked(name)
      /\ pending = <<>> => Linked(field.value)
  BY FitsFacts
<1>2. CASE Escape
  BY <1>1, <1>2, BlurActs DEF Escape
<1>3. CASE Return
  <2>1. CASE Blur(name)
    BY <1>1, <2>1, BlurActs
  <2>2. CASE Blur(field.value)
    <3>1. field.value \in Seq(Bytes) /\ Linked(field.value)
      BY <1>1, <2>2 DEF Blur, Listening, Settled
    <3> QED  BY <2>2, <3>1, BlurActs
  <2> QED  BY <1>3, <2>1, <2>2 DEF Return
<1>4. CASE TabFocus
  <2>1. field' = AtTheEnd(name) /\ name' = name /\ pending' = pending /\ ~focused
    BY <1>4 DEF TabFocus
  <2>2. pending = <<>>
    BY <2>1 DEF FieldFits
  <2>3. field' \in Settled /\ Placed(field') /\ Linked(field'.value)
    BY <1>1, <2>1, LinkedAtTheEnd
  <2> QED  BY <1>1, <2>1, <2>2, <2>3, FitsAgain
<1>5. CASE Release
  <2>1. field' = field /\ name' = name /\ pending' = pending /\ drag
    BY <1>5 DEF Release
  <2>2. pending = <<>>
    BY <2>1 DEF FieldFits
  <2> QED  BY <1>1, <2>1, <2>2, FitsAgain
<1> QED  BY <1>2, <1>3, <1>4, <1>5

LEMMA MouseActs ==
    ASSUME FieldFits, NEW x \in Int, Press(x) \/ Drag(x)
    PROVE  /\ FieldFits'
           /\ Drag(x) \/ focused =>
                 /\ CursorColumn(field') = PointedAt(field, x)
                 /\ field'.left = field.left /\ field'.value = field.value
<1>1. /\ field \in Settled /\ field \in Fields /\ Placed(field)
      /\ name \in Seq(Bytes) /\ Linked(name)
      /\ pending = <<>> => Linked(field.value)
  BY FitsFacts
<1>2. pending = <<>> /\ pending' = <<>> /\ name' = name
  BY DEF Press, Drag, FieldFits
<1>3. PICK p \in Pointed(field, x) :
         \/ field' = OffUpdate([field EXCEPT !.cursor = p])
         \/ ~focused /\ Press(x) /\ field' = OffUpdate(WithValue([field EXCEPT !.cursor = p], name))
  BY DEF Press, Drag
<1>4. CASE field' = OffUpdate([field EXCEPT !.cursor = p])
  <2>1. /\ field' \in Settled /\ Placed(field') /\ field'.value = field.value
        /\ field'.left = field.left /\ CursorColumn(field') = PointedAt(field, x)
    BY <1>1, <1>4, PointedIs
  <2> QED  BY <1>1, <1>2, <2>1, FitsAgain
<1>5. CASE ~focused /\ Press(x) /\ field' = OffUpdate(WithValue([field EXCEPT !.cursor = p], name))
  <2>1. ~Drag(x)
    BY <1>5 DEF Press, Drag
  <2> DEFINE f == [field EXCEPT !.cursor = p]
  <2>2. f.value = field.value
    BY <1>1 DEF Settled
  <2>3. CASE name = field.value
    <3>1. WithValue(f, name) = f
      BY <2>2, <2>3 DEF WithValue
    <3> QED  BY <1>4, <1>5, <3>1
  <2>4. CASE name # field.value
    <3>1. WithValue(f, name) = AtTheEnd(name)
      <4> HIDE DEF f
      <4> QED  BY <2>2, <2>4 DEF WithValue
    <3> DEFINE g == AtTheEnd(name)
    <3>2. g \in Settled /\ Placed(g) /\ Linked(g.value)
      BY <1>1, LinkedAtTheEnd
    <3>3. g \in Fields /\ field' = OffUpdate(g)
      BY <1>5, <3>1, <3>2 DEF Settled, Fields
    <3> HIDE DEF g
    <3>4. field' \in Settled /\ Placed(field') /\ Linked(field'.value)
      BY <3>2, <3>3, AgainIs
    <3> QED  BY <1>1, <1>2, <1>5, <2>1, <3>4, FitsAgain
  <2> QED  BY <2>3, <2>4
<1> QED  BY <1>3, <1>4, <1>5

LEMMA FieldStarts == FieldInit => FieldInv
<1> SUFFICES ASSUME FieldInit
             PROVE  FieldInv
  OBVIOUS
<1>1. /\ name \in Names /\ field = AtTheEnd(Shown(name))
      /\ focused = FALSE /\ drag = FALSE /\ pending = <<>> /\ slipped = FALSE
  BY DEF FieldInit
<1>2. name \in Seq(Bytes) /\ Whole(name) /\ Linked(name)
  BY <1>1, FieldAssumption, WholeIsLinked
<1>3. Shown(name) \in Seq(Bytes) /\ Linked(Shown(name))
  BY <1>2, ShownIs
<1>4. field \in Settled /\ Placed(field) /\ Linked(field.value)
  BY <1>1, <1>3, LinkedAtTheEnd
<1>5. field.value \in Seq(Bytes) /\ field.cursor \in 0..Len(field.value)
  <2>1. field \in Fields
    BY <1>4 DEF Settled, Fields
  <2> QED  BY <1>4, <2>1, PlacedRanks DEF Starts
<1>6. Whole(Before(field) \o pending \o After(field))
  <2>1. Before(field) \o <<>> \o After(field) = field.value
    BY <1>5, NothingBetween DEF Before, After
  <2>2. Whole(field.value)
    BY <1>4, <1>5, LinkedIsWhole
  <2> QED  BY <1>1, <2>1, <2>2
<1> QED  BY <1>1, <1>2, <1>4, <1>6 DEF FieldInv, FieldFits, Settled

\* The field has slipped for good, and has a type whether it slipped or not.
LEMMA SlippedStays ==
    ASSUME FieldInv, [FieldNext]_fieldVars
    PROVE  /\ focused' \in BOOLEAN /\ drag' \in BOOLEAN /\ slipped' \in BOOLEAN
           /\ ~slipped' => ~slipped
<1>1. focused \in BOOLEAN /\ drag \in BOOLEAN /\ slipped \in BOOLEAN
  BY DEF FieldInv
<1>2. CASE KeyDelete
  BY <1>1, <1>2 DEF KeyDelete
<1>3. CASE KeyFnDelete \/ KeyLeft \/ KeyRight \/ KeyUp \/ KeyDown
  BY <1>1, <1>3 DEF KeyFnDelete, KeyLeft, KeyRight, KeyUp, KeyDown, Key
<1>4. CASE \E c \in Codepoints : KeyStarts(c)
  BY <1>1, <1>4 DEF KeyStarts
<1>5. CASE KeyContinues
  BY <1>1, <1>5 DEF KeyContinues
<1>6. CASE \E x \in 0..Width - 1 : Press(x)
  BY <1>1, <1>6 DEF Press
<1>7. CASE \E x \in Columns : Drag(x)
  BY <1>1, <1>7 DEF Drag
<1>8. CASE Release \/ TabFocus
  BY <1>1, <1>8 DEF Release, TabFocus
<1>9. CASE Escape \/ Return
  BY <1>1, <1>9 DEF Escape, Return, Blur
<1>10. CASE UNCHANGED fieldVars
  BY <1>1, <1>10 DEF fieldVars
<1> QED  BY <1>2, <1>3, <1>4, <1>5, <1>6, <1>7, <1>8, <1>9, <1>10 DEF FieldNext

LEMMA FieldStep == FieldInv /\ [FieldNext]_fieldVars => FieldInv'
<1> SUFFICES ASSUME FieldInv, [FieldNext]_fieldVars, ~slipped'
             PROVE  FieldFits'
  BY SlippedStays DEF FieldInv
<1>1. ~slipped /\ FieldFits
  BY SlippedStays DEF FieldInv
<1>2. CASE KeyDelete
  BY <1>1, <1>2, KeyDeleteActs
<1>3. CASE KeyFnDelete
  BY <1>1, <1>3, KeyFnDeleteActs
<1>4. CASE KeyLeft
  BY <1>1, <1>4, KeyLeftActs
<1>5. CASE KeyRight
  BY <1>1, <1>5, KeyRightActs
<1>6. CASE KeyUp \/ KeyDown
  BY <1>1, <1>6, KeyUpActs, KeyDownActs
<1>7. CASE \E c \in Codepoints : KeyStarts(c)
  BY <1>1, <1>7, KeyStartsActs
<1>8. CASE KeyContinues
  BY <1>1, <1>8, KeyContinuesActs
<1>9. CASE (\E x \in 0..Width - 1 : Press(x)) \/ (\E x \in Columns : Drag(x))
  <2>1. PICK x \in Int : Press(x) \/ Drag(x)
    BY <1>9, FieldAssumption DEF Columns
  <2> QED  BY <1>1, <2>1, MouseActs
<1>10. CASE Escape \/ Return \/ TabFocus \/ Release
  BY <1>1, <1>10, FocusActs
<1>11. CASE UNCHANGED fieldVars
  BY <1>1, <1>11 DEF fieldVars, FieldFits, Placed, LeftMax, CursorMax, Before, After, Sent
<1> QED
  BY <1>2, <1>3, <1>4, <1>5, <1>6, <1>7, <1>8, <1>9, <1>10, <1>11 DEF FieldNext

\* Between two events the field fits its text, as far as it is followed: it is
\* never scrolled behind the text, its cursor is in view, and both offsets are
\* at codepoints (_offUpdate, and the handlers of TextField.h).
THEOREM FieldFitsItsText == FieldSpec => []FieldInv
<1>1. FieldInit => FieldInv
  BY FieldStarts
<1>2. FieldInv /\ [FieldNext]_fieldVars => FieldInv'
  BY FieldStep
<1> QED  BY <1>1, <1>2, PTL DEF FieldSpec

\* No key and no click leaves part of a codepoint in the text, and so no ref
\* gets a name that is not UTF-8: for every encoding, name and width.
THEOREM CodepointsStayWhole == FieldSpec => []WholeCodepoints
<1>1. FieldInv => WholeCodepoints
  <2> SUFFICES ASSUME FieldFits, pending = <<>>
               PROVE  /\ Whole(field.value) /\ Whole(name)
                      /\ CodepointStart(field.value, field.left)
                      /\ CodepointStart(field.value, field.cursor)
    BY DEF FieldInv, WholeCodepoints
  <2>1. Linked(field.value) /\ field.value \in Seq(Bytes) /\ Placed(field)
    BY FitsFacts DEF Settled
  <2>2. Whole(field.value) /\ Whole(name)
    BY <2>1, LinkedIsWhole DEF FieldFits
  <2> QED  BY <2>1, <2>2 DEF Placed
<1> QED  BY <1>1, FieldFitsItsText, PTL

\* Every key acts on the codepoint at the cursor and on nothing else, unless
\* the view slipped: for every text, wherever it is scrolled to.
THEOREM KeysActThere == FieldSpec => KeysActAtTheCursor
<1>1. FieldInv /\ [FieldNext]_fieldVars => [slipped' \/ ActsAtTheCursor]_fieldVars
  <2> SUFFICES ASSUME FieldInv, [FieldNext]_fieldVars, ~slipped'
               PROVE  ActsAtTheCursor
    OBVIOUS
  <2>1. ~slipped /\ FieldFits
    BY SlippedStays DEF FieldInv
  <2>2. KeyDelete => /\ After(field') = After(field)
                     /\ \E c \in Codepoints : Before(field) = Before(field') \o Encoded(c)
    BY <2>1, KeyDeleteActs
  <2>3. KeyFnDelete => /\ Before(field') = Before(field)
                       /\ \E c \in Codepoints : After(field) = Encoded(c) \o After(field')
    BY <2>1, KeyFnDeleteActs
  <2>4. KeyLeft => /\ field'.value = field.value
                   /\ \E c \in Codepoints : Before(field) = Before(field') \o Encoded(c)
    BY <2>1, KeyLeftActs
  <2>5. KeyRight => /\ field'.value = field.value
                    /\ \E c \in Codepoints : After(field) = Encoded(c) \o After(field')
    BY <2>1, KeyRightActs
  <2>6. KeyContinues => Before(field') = Append(Before(field), Head(pending)) /\ After(field') = After(field)
    BY <2>1, KeyContinuesActs
  <2>7. \A c \in Codepoints :
           KeyStarts(c) => Before(field') = Append(Before(field), <<c, 1>>) /\ After(field') = After(field)
    BY <2>1, KeyStartsActs
  <2>8. KeyUp => field'.value = field.value /\ Before(field') = <<>>
    BY <2>1, KeyUpActs
  <2>9. KeyDown => field'.value = field.value /\ After(field') = <<>>
    BY <2>1, KeyDownActs
  <2> QED
    BY <2>2, <2>3, <2>4, <2>5, <2>6, <2>7, <2>8, <2>9, Zenon DEF ActsAtTheCursor
<1> QED  BY <1>1, FieldFitsItsText, PTL DEF FieldSpec, KeysActAtTheCursor

\* A click or a drag puts the cursor on the column it points at, or at the end
\* of the visible text that is nearest, and never scrolls the view.
THEOREM MouseActsThere == FieldSpec => MouseActsWhereItPoints
<1> DEFINE There == \A x \in Columns :
                      ~slipped /\ (Drag(x) \/ (Press(x) /\ focused)) =>
                         /\ CursorColumn(field') = PointedAt(field, x)
                         /\ field'.left = field.left /\ field'.value = field.value
<1>1. FieldInv /\ [FieldNext]_fieldVars => [There]_fieldVars
  <2> SUFFICES ASSUME FieldInv, NEW x \in Columns, ~slipped, Drag(x) \/ (Press(x) /\ focused)
               PROVE  /\ CursorColumn(field') = PointedAt(field, x)
                      /\ field'.left = field.left /\ field'.value = field.value
    OBVIOUS
  <2>1. FieldFits
    BY DEF FieldInv
  <2>2. x \in Int
    BY FieldAssumption DEF Columns
  <2> QED  BY <2>1, <2>2, MouseActs
<1> QED  BY <1>1, FieldFitsItsText, PTL DEF FieldSpec, MouseActsWhereItPoints
=============================================================================
