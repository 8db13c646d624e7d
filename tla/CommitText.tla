----------------------------- MODULE CommitText -----------------------------
(***************************************************************************)
(* Editing a commit's author, date and message: _EditCommit() of           *)
(* git/Modify.h writes them to a text, runs the user's editor and reads    *)
(* the text back; StringFromTime() and TimeFromString() of git/Git.h       *)
(* convert the date.                                                       *)
(*                                                                         *)
(* A text is a sequence of lines, a line what it starts with and what is   *)
(* behind that.  A date is a number of seconds, what gmtime_r() and        *)
(* timegm() convert a calendar date from and to, and the digits of a UTC   *)
(* offset.                                                                 *)
(***************************************************************************)
EXTENDS Integers, Sequences

CONSTANTS Originals,  \* the commits that may be edited
          Authors,    \* what the user may write behind "Author:"
          Dates,      \* what the user may write behind "Date:"
          Messages,   \* the messages that the user may write
          MaxEdits,   \* bound: lines that the user changes
          None        \* what cannot be read

VARIABLES
    orig,    \* the commit: its author, time and message
    text,    \* the lines of the file
    phase,   \* "begin", "editor" while the editor runs, then "done"
    outcome, \* "none", "nop", "failed", or "amended"
    result,  \* the commit there is then
    touched, \* ghost: what the user changed
    edits    \* the lines changed

vars == <<orig, text, phase, outcome, result, touched, edits>>
----------------------------------------------------------------------------
(* Times                                                                   *)

\* C's / and %, which round towards zero.
Quotient(a, b) == IF a >= 0 THEN a \div b ELSE -((-a) \div b)
Remainder(a, b) == a - b * Quotient(a, b)

\* "%+03d%02d" of the hours and the minutes of an offset: a sign, digits, and digits that a
\* minus sign is in front of if they are negative.
ZoneText(offset) ==
    LET hours == Quotient(offset, 60)
    IN  [sign |-> IF hours < 0 THEN -1 ELSE 1,
         hours |-> IF hours < 0 THEN -hours ELSE hours,
         minutes |-> Remainder(offset, 60)]

\* "%d" reads up to the second sign.
ZoneNumber(z) == z.sign * (IF z.minutes < 0 THEN z.hours ELSE 100 * z.hours + z.minutes)

\* Mutant: the minutes are dropped.
ZoneOffsetOfHours(n) == IF n >= 0 THEN (n \div 100) * 60 ELSE -((-n) \div 100) * 60

\* The sign is that of the hours only.
ZoneOffset(n) ==
    LET abs == IF n >= 0 THEN n ELSE -n
    IN  (IF n >= 0 THEN 1 ELSE -1) * (abs \div 100) * 60 + (abs % 100)

StringFromTime(t) == [wall |-> t.time + 60 * t.offset, zone |-> ZoneText(t.offset)]

\* timegm() returns -1 if it fails, and for the second before the epoch.
TimeFromString(d) ==
    IF d = None \/ d.wall = -1 THEN None
    ELSE LET offset == ZoneOffset(ZoneNumber(d.zone))
         IN  [time |-> d.wall - 60 * offset, offset |-> offset]
----------------------------------------------------------------------------
(* Messages                                                                *)

AuthorLine(a) == [prefix |-> "Author:", rest |-> a]
DateLine(d) == [prefix |-> "Date:", rest |-> d]
Blank == [prefix |-> "", rest |-> None]

\* _StringFromCommitMessage()
StringFromCommitMessage(c) ==
    <<AuthorLine(c.author), DateLine(StringFromTime(c.time)), Blank>> \o c.message

Time == [time : Int, offset : Int]
Date == [wall : Int, zone : [sign : {-1, 1}, hours : Nat, minutes : 0..59]]
Written == [wall : Int, zone : [sign : {-1, 1}, hours : Nat, minutes : Int]]

\* A message does not start with a blank line: git removes it when a commit is made.
ASSUME CommitTextAssumption ==
    /\ \A c \in Originals :
          /\ c = [author |-> c.author, time |-> c.time, message |-> c.message]
          /\ c.author # None /\ c.time \in Time
          /\ c.message \in Seq({c.message[i] : i \in DOMAIN c.message})
          /\ c.message # <<>> => c.message[1] # Blank
    /\ Dates \subseteq Date \cup {None}
    /\ \A m \in Messages : m \in Seq({m[i] : i \in DOMAIN m})
    /\ None \notin Time \cup Written

\* The first line from i on that is not blank, or the end.
NonBlank(s, i) ==
    CHOOSE k \in i..(Len(s) + 1) :
        /\ k <= Len(s) => s[k] # Blank
        /\ \A j \in i..(k - 1) : s[j] = Blank

HasPrefix(s, i, prefix) == i <= Len(s) /\ s[i].prefix = prefix

\* A loop that looks for prefix from line i on: the line where it ends.
Sought(s, i, prefix) == NonBlank(s, i) + IF HasPrefix(s, NonBlank(s, i), prefix) THEN 1 ELSE 0

\* _CommitAuthorParse()
AuthorFrom(a) == IF a = None \/ a.name = "" \/ a.email = "" THEN None ELSE a

\* Mutant: the date is looked for from the start of the text again.
DateStartsAtTop(s) == 1

DateStarts(s) == Sought(s, 1, "Author:")

\* _CommitMessageFromString()
CommitMessageFromString(s) ==
    LET a == NonBlank(s, 1)
        d == NonBlank(s, DateStarts(s))
        message == NonBlank(s, Sought(s, DateStarts(s), "Date:"))
    IN  [author |-> IF HasPrefix(s, a, "Author:") THEN AuthorFrom(s[a].rest) ELSE None,
         time |-> IF HasPrefix(s, d, "Date:") THEN TimeFromString(s[d].rest) ELSE None,
         message |-> SubSeq(s, message, Len(s))]
----------------------------------------------------------------------------
(* _EditCommit()                                                           *)

Open ==
    /\ phase = "begin"
    /\ text' = StringFromCommitMessage(orig)
    /\ phase' = "editor"
    /\ UNCHANGED <<orig, outcome, result, touched, edits>>

\* Mutant: a date that is not read is the epoch.
OrOriginalOrEpoch(new, field) ==
    CASE new # None -> new
      [] new = None /\ field = "author" -> orig.author
      [] new = None /\ field = "time" -> [time |-> 0, offset |-> 0]

OrOriginal(new, field) == IF new = None THEN orig[field] ELSE new

\* An author that git_signature_new() refuses.
Invalid(author) == author.name = "" \/ author.email = ""

\* The editor ends: nothing was changed, or the commit gets what could be read.  An empty message
\* makes git_commit_amend() keep the one there is.
Leave ==
    LET new == CommitMessageFromString(text)
        author == OrOriginal(new.author, "author")
        message == IF new.message = <<>> THEN orig.message ELSE new.message
    IN  /\ phase = "editor"
        /\ phase' = "done"
        /\ outcome' = CASE new = orig -> "nop"
                        [] new # orig /\ Invalid(author) -> "failed"
                        [] new # orig /\ ~Invalid(author) -> "amended"
        /\ result' = IF outcome' # "amended" THEN orig
                     ELSE [author |-> author, time |-> OrOriginal(new.time, "time"), message |-> message]
        /\ UNCHANGED <<orig, text, touched, edits>>
----------------------------------------------------------------------------
(* The user                                                                *)

Change(new, what) ==
    /\ phase = "editor" /\ edits < MaxEdits /\ edits' = edits + 1
    /\ text' = new /\ touched' = touched \cup {what}
    /\ UNCHANGED <<orig, phase, outcome, result>>

Without(s, i) == SubSeq(s, 1, i - 1) \o SubSeq(s, i + 1, Len(s))

\* A header line is written anew or deleted; the message is replaced; a header line is moved, or
\* what it starts with is deleted.
WriteAuthor(i, a) ==
    HasPrefix(text, i, "Author:") /\ Change([text EXCEPT ![i] = AuthorLine(a)], "author")
WriteDate(i, d) ==
    HasPrefix(text, i, "Date:") /\ Change([text EXCEPT ![i] = DateLine(d)], "date")
DeleteLine(i) ==
    \/ HasPrefix(text, i, "Author:") /\ Change(Without(text, i), "author")
    \/ HasPrefix(text, i, "Date:") /\ Change(Without(text, i), "date")
WriteMessage(m) ==
    text = StringFromCommitMessage(orig) /\ Change(SubSeq(text, 1, 3) \o m, "message")
Swap == Len(text) > 1 /\ Change(<<text[2], text[1]>> \o SubSeq(text, 3, Len(text)), "order")
Unprefix == Len(text) > 0 /\ Change([text EXCEPT ![1].prefix = "text"], "order")
----------------------------------------------------------------------------
Init ==
    /\ orig \in Originals
    /\ result = orig /\ text = <<>> /\ phase = "begin" /\ outcome = "none" /\ touched = {} /\ edits = 0

User ==
    \/ \E i \in 1..2, a \in Authors : WriteAuthor(i, a)
    \/ \E i \in 1..2, d \in Dates : WriteDate(i, d)
    \/ \E i \in 1..2 : DeleteLine(i)
    \/ \E m \in Messages : WriteMessage(m)
    \/ Swap \/ Unprefix

Next == Open \/ Leave \/ User

Spec == Init /\ [][Next]_vars
----------------------------------------------------------------------------
(* Properties                                                              *)

\* The offsets that the text can stand for, and the times.
Readable(t) ==
    /\ t.offset >= 0 \/ t.offset % 60 = 0
    /\ t.time + 60 * t.offset # -1

\* "Nop if the message wasn't changed" (Modify.h:609).
UntouchedIsANop == phase = "done" /\ touched = {} => outcome = "nop"

\* A commit that is opened in the editor and left alone stays as it is if, and only if, its time
\* can be written and its author be read: otherwise it is rewritten, or the edit fails.
UntouchedStays ==
    phase = "done" /\ touched = {} =>
        (outcome = "nop" <=> Readable(orig.time) /\ AuthorFrom(orig.author) # None)

\* Plain: no line of a message is taken for a header.
Plain(m) == \A i \in DOMAIN m : m[i].prefix \notin {"Author:", "Date:"}

\* The lines of the text that an author, or a date, can be read from.
AuthorLines == {i \in DOMAIN text : text[i].prefix = "Author:" /\ AuthorFrom(text[i].rest) # None}
DateLines == {i \in DOMAIN text : text[i].prefix = "Date:" /\ TimeFromString(text[i].rest) # None}

\* A field that the user left alone, deleted or made unreadable keeps its value ("using the
\* original signature values if a new value didn't exist", Modify.h:612), and a header line
\* that is gone does not take the other one, or a line of the message, with it.
OthersStay ==
    outcome = "amended" /\ "order" \notin touched /\ Plain(orig.message) =>
        /\ "author" \notin touched \/ AuthorLines = {} => result.author = orig.author
        /\ ("date" \notin touched /\ Readable(orig.time)) \/ DateLines = {} =>
              result.time = orig.time
        /\ "message" \notin touched => result.message = orig.message

\* What "+0530" means to whoever writes it.
Meant(z) == z.sign * (60 * z.hours + z.minutes)

\* A date that the user wrote is the commit's date, where its offset is east of Greenwich or of
\* whole hours.
WrittenDateIsTaken ==
    outcome = "amended" /\ touched = {"date"} =>
        \A i \in DOMAIN text :
            LET d == text[i].rest
            IN  (/\ i <= 2 /\ text[i].prefix = "Date:"
                 /\ d # None /\ d.wall # -1
                 /\ d.zone.sign = 1 \/ d.zone.minutes = 0)
                => result.time = [time |-> d.wall - 60 * Meant(d.zone), offset |-> Meant(d.zone)]
----------------------------------------------------------------------------
(* What the proofs rest on                                                 *)

LinesOf(c) ==
    {AuthorLine(c.author), DateLine(StringFromTime(c.time)), Blank}
    \cup {DateLine(d) : d \in Dates} \cup {c.message[i] : i \in DOMAIN c.message}

\* The text while the user changes nothing but the date: the author is in the first line; in the
\* second there is a date of ds, or it is deleted and the blank line came up.
OnlyDateTouched(ds) ==
    /\ text \in Seq(LinesOf(orig)) /\ Len(text) >= 2
    /\ text[1] = AuthorLine(orig.author)
    /\ \/ text[2] = Blank
       \/ Len(text) >= 3 /\ text[3] = Blank /\ \E d \in ds : text[2] = DateLine(d)

CommitTextInv ==
    /\ orig \in Originals
    /\ phase = "begin" => touched = {}
    /\ phase = "editor" /\ touched = {} => text = StringFromCommitMessage(orig)
    /\ touched = {"date"} => OnlyDateTouched(Dates)
    /\ outcome = "amended" => phase = "done"
    /\ UntouchedStays
    /\ WrittenDateIsTaken

AllLines ==
    LinesOf(orig) \cup {AuthorLine(a) : a \in Authors} \cup UNION {{m[i] : i \in DOMAIN m} : m \in Messages}

\* The text has k header lines, in their order, and a blank line below them.  What the user left
\* alone is what it was: the author in the first line, the date in the last one of the header, the
\* message below the blank line.
HeaderLeft(k) ==
    /\ text \in Seq(AllLines) /\ k + 1 <= Len(text) /\ text[k + 1] = Blank
    /\ k = 1 => text[1].prefix \in {"Author:", "Date:"}
    /\ k = 2 => text[1].prefix = "Author:" /\ text[2].prefix = "Date:"
    /\ "author" \notin touched => k > 0 /\ text[1] = AuthorLine(orig.author)
    /\ "date" \notin touched => k > 0 /\ text[k] = DateLine(StringFromTime(orig.time))
    /\ "message" \notin touched /\ Plain(orig.message) =>
          /\ Len(text) = k + 1 + Len(orig.message)
          /\ \A j \in 1..Len(orig.message) : text[k + 1 + j] = orig.message[j]

OthersInv ==
    /\ phase = "editor" /\ "order" \notin touched => \E k \in 0..2 : HeaderLeft(k)
    /\ OthersStay
=============================================================================
