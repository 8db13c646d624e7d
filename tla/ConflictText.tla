---------------------------- MODULE ConflictText ----------------------------
(***************************************************************************)
(* Conflict text (git/Conflict.h): how the conflicts of a merged index     *)
(* become hunks, and hunks become text with conflict markers.              *)
(*                                                                         *)
(* A text is the sequence of its lines, which is what Split and Join of    *)
(* Toastbox::String convert to and from; it has one line at least, the     *)
(* empty one if it is empty.  Of a line only the marker it starts with     *)
(* matters.  Files end in a newline, so their last line is empty.          *)
(***************************************************************************)
EXTENDS SequencesExt

CONSTANT None  \* no file, no text

Sides == {"ours", "theirs"}
OtherSide(side) == IF side = "ours" THEN "theirs" ELSE "ours"

\* Repo::MergeMarkerBare*, and the markers that carry _DebaseProductId; the separator of seven
\* signs is named by three.
Bare   == [start |-> "<<<<<<<", separator |-> "===", end |-> ">>>>>>>"]
Tagged == [start |-> "<<<<<<< debase", separator |-> "===", end |-> ">>>>>>> debase"]

\* That a literal is a string is true in TLA+, and not known to the provers.
ASSUME MarkersAreStrings ==
    {"", Bare.start, Bare.separator, Bare.end, Tagged.start, Tagged.separator, Tagged.end} \subseteq STRING

StartsWith(marker, line) ==
    \/ line = marker
    \/ marker = Bare.start /\ line = Tagged.start
    \/ marker = Bare.end /\ line = Tagged.end

EmptyText == <<"">>
Join(lines) == IF lines = <<>> THEN EmptyText ELSE lines
----------------------------------------------------------------------------
(* Hunks                                                                   *)

HunkTypes == {"Normal", "Conflict"}
Lines == Seq(STRING)
Hunk == [type : HunkTypes, normal : Lines, ours : Lines, theirs : Lines]

EmptyHunk(type) == [type |-> type, normal |-> <<>>, ours |-> <<>>, theirs |-> <<>>]

\* Hunk::empty() and Hunk::lines()
HunkIsEmpty(h) == IF h.type = "Normal" THEN h.normal = <<>> ELSE h.ours = <<>> /\ h.theirs = <<>>
HunkLines(h, side) == IF h.type = "Normal" THEN h.normal ELSE h[side]

\* The parser pushes its hunk, if it has lines, and starts one of another type.
Turn(p, state, type) ==
    [state |-> state, hunk |-> EmptyHunk(type),
     hunks |-> IF HunkIsEmpty(p.hunk) THEN p.hunks ELSE Append(p.hunks, p.hunk)]

Parser == [state : {"Normal", "Ours", "Theirs"}, hunk : Hunk, hunks : Seq(Hunk)]

\* What one line does to the parser.
ParseLine(m, line) ==
    [p \in Parser |->
        CASE p.state = "Normal" /\ StartsWith(m.start, line)    -> Turn(p, "Ours", "Conflict")
          [] p.state = "Ours" /\ StartsWith(m.separator, line)  -> [p EXCEPT !.state = "Theirs"]
          [] p.state = "Theirs" /\ StartsWith(m.end, line)      -> Turn(p, "Normal", "Normal")
          [] p.state = "Normal" /\ ~StartsWith(m.start, line)   ->
                [p EXCEPT !.hunk.normal = Append(@, line)]
          [] p.state = "Ours" /\ ~StartsWith(m.separator, line) ->
                [p EXCEPT !.hunk.ours = Append(@, line)]
          [] p.state = "Theirs" /\ ~StartsWith(m.end, line)     ->
                [p EXCEPT !.hunk.theirs = Append(@, line)]]

HunksFromConflictString(m, text) ==
    LET begin == [state |-> "Normal", hunk |-> EmptyHunk("Normal"), hunks |-> <<>>]
        end == FoldLeft(LAMBDA p, line : ParseLine(m, line)[p], begin, text)
    IN  Turn(end, "Normal", "Normal").hunks

\* Mutant: the conflict is written without its separator.
HunkTextUnseparated(m, h) ==
    IF h.type = "Normal" THEN h.normal ELSE <<m.start>> \o h.ours \o h.theirs \o <<m.end>>

HunkText(m, h) ==
    IF h.type = "Normal" THEN h.normal
    ELSE <<m.start>> \o h.ours \o <<m.separator>> \o h.theirs \o <<m.end>>

ConflictStringFromHunks(m, hunks) ==
    Join(FlattenSeq([i \in DOMAIN hunks |-> HunkText(m, hunks[i])]))

IsMarker(m, line) ==
    StartsWith(m.start, line) \/ StartsWith(m.separator, line) \/ StartsWith(m.end, line)

\* Mutant: only the markers debase writes itself are looked for.
ContainsTaggedMarkers(m, text) == \E i \in DOMAIN text : IsMarker(Tagged, text[i])

ConflictStringContainsConflictMarkers(m, text) == \E i \in DOMAIN text : IsMarker(m, text[i])
----------------------------------------------------------------------------
(* Conflicts                                                               *)

\* The conflict of one path: its type and hunks.
Conflict == [type : {"File", "Submodule"}, hunks : Seq(Hunk)]

\* Mutant: a side that exists counts as no file when any hunk of it is empty.
NoFileIfAnyHunkEmpty(fc, side) ==
    fc.type = "File" /\ \E i \in DOMAIN fc.hunks : HunkLines(fc.hunks[i], side) = <<>>

\* noFile()
NoFile(fc, side) ==
    /\ fc.type = "File" /\ Len(fc.hunks) = 1
    /\ fc.hunks[1].type = "Conflict" /\ HunkLines(fc.hunks[1], side) = <<>>

SideLines(fc, side) == FlattenSeq([i \in DOMAIN fc.hunks |-> HunkLines(fc.hunks[i], side)])

\* content()
Content(fc, side) == IF NoFile(fc, side) THEN None ELSE Join(SideLines(fc, side))

\* conflictCount(), and of the hunks before the k-th.
ConflictsBefore(fc, k) == {i \in 1..(k - 1) : fc.hunks[i].type = "Conflict"}
ConflictCount(fc) == Cardinality(ConflictsBefore(fc, Len(fc.hunks) + 1))
----------------------------------------------------------------------------
(* The index after a merge.  A merge of one path is the type of the object *)
(* that each side has there, and its segments: what the sides have in      *)
(* common and where they differ, in order.                                 *)

Types == {"none", "file", "gitlink", "other"}
Segment == [ours : Lines, theirs : Lines]
Merge == [ours : Types, theirs : Types, segments : Seq(Segment)]

\* A merge that ConflictsGet() can represent.
Supported(merge) ==
    \/ merge.ours = "file" /\ merge.theirs \in {"file", "none"}
    \/ merge.ours = "none" /\ merge.theirs = "file"
    \/ merge.ours = "gitlink" /\ merge.theirs = "gitlink"

\* Of two files the last lines are common: the empty one behind the last newline at least.  Of
\* anything else there is one segment, of the whole object, empty where there is none.
Merged(merge) ==
    LET s == merge.segments
    IN  IF merge.ours = "file" /\ merge.theirs = "file"
        THEN s # <<>> /\ s[Len(s)].ours = s[Len(s)].theirs /\ s[Len(s)].ours # <<>>
        ELSE /\ Len(s) = 1 /\ s[1].ours # s[1].theirs
             /\ \A side \in Sides : s[1][side] = <<>> <=> merge[side] = "none"

SegmentText(s) ==
    IF s.ours = s.theirs THEN s.ours
    ELSE <<Tagged.start>> \o s.ours \o <<Tagged.separator>> \o s.theirs \o <<Tagged.end>>

\* git_merge_file_from_index()
MergeText(segments) == FlattenSeq([i \in DOMAIN segments |-> SegmentText(segments[i])])

AsConflict(s) == [EmptyHunk("Conflict") EXCEPT !.ours = s.ours, !.theirs = s.theirs]

\* ConflictsGet(), of one path.
ConflictOf(merge) ==
    IF merge.ours = "file" /\ merge.theirs = "file"
    THEN [type |-> "File", hunks |-> HunksFromConflictString(Tagged, MergeText(merge.segments))]
    ELSE [type |-> IF merge.ours = "gitlink" THEN "Submodule" ELSE "File",
          hunks |-> <<AsConflict(merge.segments[1])>>]
=============================================================================
