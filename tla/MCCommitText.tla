---------------------------- MODULE MCCommitText ----------------------------
(***************************************************************************)
(* CommitText for TLC: every offset that libgit2 reads, up to 14:59, for a *)
(* commit that is left alone; half hours, a quarter, and the minutes      *)
(* beside whole hours, for commits of different authors and messages that  *)
(* are edited.                                                             *)
(***************************************************************************)
EXTENDS CommitText

Person == [name |-> "ann", email |-> "ann@x"]
Other == [name |-> "bob", email |-> "bob@x"]
Nobody == [name |-> "", email |-> "ann@x"]

Text(s) == [prefix |-> "text", rest |-> s]
Fix == <<Text("fix"), Blank, Text("more"), Blank>>

Commit(a, time, offset, m) == [author |-> a, time |-> [time |-> time, offset |-> offset], message |-> m]

Halves == {30 * k : k \in -29..29} \cup {-885, 345, -61, -1, 1, 61}
\* A message whose first line looks like a header, and none.
Headed == <<DateLine(None), Text("fix")>>
MCOriginals ==
    {Commit(Person, 100000, o, Fix) : o \in -899..899}
    \cup {Commit(a, 3599, o, m) : a \in {Person, Nobody}, o \in Halves, m \in {Fix, Headed, <<>>}}

\* Commits that differ in their offset only, with an author and a date that can be read again:
\* whole hours, and Newfoundland, India and Nepal.
ZoneOriginals ==
    {Commit(Person, 100000, o, Fix) : o \in {60 * k : k \in -11..12} \cup {-210, 330, 345}}

MCAuthors == {Other, Nobody, None}
Zone(sign, hours, minutes) == [sign |-> sign, hours |-> hours, minutes |-> minutes]
MCDates ==
    {None} \cup {[wall |-> w, zone |-> z] :
        w \in {-1, 7200}, z \in {Zone(1, 5, 30), Zone(-1, 3, 30), Zone(-1, 3, 0), Zone(-1, 0, 30)}}
MCMessages == {<<>>, <<Text("other")>>, <<Blank, Text("other")>>}
=============================================================================
