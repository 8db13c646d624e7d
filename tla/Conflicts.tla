----------------------------- MODULE Conflicts -----------------------------
(***************************************************************************)
(* How the conflicts of one commit are resolved: _ConflictsHandle() of     *)
(* git/Modify.h, and the dialog that App runs for each hunk of each path,  *)
(* with the user's editor (App.h, _gitConflictsResolve and what it calls). *)
(* It ends with an index without conflicts, or the operation ends and the  *)
(* index, which is in memory only, is dropped.                             *)
(***************************************************************************)
EXTENDS ConflictText, Naturals

CONSTANTS Merges,  \* the indexes there may be: sequences of merges, one for each path
          Texts,   \* what the user may write in the editor besides what the text suggests
          Hashes   \* the commits of the submodule

ASSUME ConflictsAssumption ==
    /\ \A ms \in Merges : \A i \in DOMAIN ms : Supported(ms[i]) => Merged(ms[i])
    /\ Merges \subseteq Seq(Merge) \ {<<>>}
    /\ Texts \subseteq Lines \ {<<>>}
    /\ Hashes \subseteq STRING
    /\ None \notin Lines

VARIABLES
    merges,     \* the paths that conflict
    favor,      \* fileFavor: "NORMAL" or "THEIRS"
    layout,     \* which side is on the left of the panels
    conflicts,  \* std::vector<Conflict>
    index,      \* what the index holds at each path: "conflict", "nothing" or an entry
    phase,      \* "get", "next" between two steps of the loops, what waits for the user, or the end
    file, hunk, \* the loops of _gitConflictsResolve and _gitRunConflictPanel
    lines,      \* what the hunks before this one contribute
    counted,    \* conflictIdx of _gitConflictsResolve: conflicts of the files before
    asked,      \* conflictIdx of _gitRunConflictPanel: conflicts before this one
    text,       \* conflictStr of _gitConflictResolveInEditor, or None
    picks,      \* ghost: the sides chosen in this file
    answers     \* ghost: how each file was resolved, by picks or in the editor

vars == <<merges, favor, layout, conflicts, index, phase, file, hunk, lines, counted, asked, text,
          picks, answers>>

input == <<merges, favor, layout>>

Layouts == {"LeftOurs", "RightOurs"}
Buttons == {"left", "right"}
Waiting == {"panel", "editor", "markersAlert", "hashAlert"}
Ended   == {"done", "canceled", "failed"}

Current == conflicts[file]
CurrentHunk == Current.hunks[hunk]
----------------------------------------------------------------------------
(* ConflictResolve()                                                       *)

\* The mode of what is left comes from THEIRS, if it exists there.
Mode(merge) == IF merge.theirs # "none" THEN "theirs" ELSE "ours"

Resolved(i, content) ==
    IF content = None THEN [state |-> "nothing"]
    ELSE [state |-> "entry", mode |-> Mode(merges[i]), content |-> content]

\* Mutant: the last file is left as it is.
MoreFilesOffByOne == file + 1 < Len(conflicts)

MoreFiles == file < Len(conflicts)

\* The end of a round of the loop over the files: the file is resolved with content.
FileResolved(content, answer) ==
    /\ index' = [index EXCEPT ![file] = Resolved(file, content)]
    /\ answers' = Append(answers, answer)
    /\ file' = file + 1 /\ hunk' = 1 /\ lines' = <<>> /\ picks' = <<>> /\ text' = None
    /\ counted' = counted + ConflictCount(Current)
    /\ asked' = counted + ConflictCount(Current)
    /\ phase' = IF MoreFiles THEN "next" ELSE "done"
    /\ UNCHANGED <<input, conflicts>>
----------------------------------------------------------------------------
(* _ConflictsHandle()                                                      *)

\* ConflictsGet(): "unsupported conflict scenario", or all of them.
Get ==
    /\ phase = "get"
    /\ IF \A i \in DOMAIN merges : Supported(merges[i])
       THEN /\ phase' = "next"
            /\ conflicts' = [i \in DOMAIN merges |-> ConflictOf(merges[i])]
       ELSE phase' = "failed" /\ UNCHANGED conflicts
    /\ UNCHANGED <<input, index, file, hunk, lines, counted, asked, text, picks, answers>>

\* GIT_MERGE_FILE_FAVOR_THEIRS: nobody is asked.
TakeTheirs ==
    /\ phase = "next" /\ favor = "THEIRS"
    /\ index' = [i \in DOMAIN conflicts |-> Resolved(i, Content(conflicts[i], "theirs"))]
    /\ phase' = "done"
    /\ UNCHANGED <<input, conflicts, file, hunk, lines, counted, asked, text, picks, answers>>
----------------------------------------------------------------------------
(* _gitRunConflictPanel()                                                  *)

Running == phase = "next" /\ favor = "NORMAL"
MoreHunks == hunk <= Len(Current.hunks)

NormalHunk ==
    /\ Running /\ MoreHunks /\ CurrentHunk.type = "Normal"
    /\ lines' = lines \o CurrentHunk.normal
    /\ hunk' = hunk + 1
    /\ UNCHANGED <<input, conflicts, index, phase, file, counted, asked, text, picks, answers>>

Present ==
    /\ Running /\ MoreHunks /\ CurrentHunk.type = "Conflict"
    /\ phase' = "panel"
    /\ UNCHANGED <<input, conflicts, index, file, hunk, lines, counted, asked, text, picks, answers>>

\* No lines: no file.
FileEnds ==
    /\ Running /\ ~MoreHunks
    /\ FileResolved(IF lines = <<>> THEN None ELSE Join(lines), [picks |-> picks, text |-> None])

\* ConflictPanel::_hunkLinesGet(): what the panel shows above a button.
ShownAbove(button) ==
    IF (layout = "LeftOurs") = (button = "left") THEN CurrentHunk.ours ELSE CurrentHunk.theirs

\* Mutant: the left button always chooses ours.
LeftIsOurs(button) == IF button = "left" THEN "ours" ELSE "theirs"

\* ConflictPanel::_done(): the side a button chooses.
Chosen(button) ==
    CASE button = "left"  -> IF layout = "LeftOurs" THEN "ours" ELSE "theirs"
      [] button = "right" -> IF layout = "LeftOurs" THEN "theirs" ELSE "ours"

\* Mutant: the lines that were chosen are not kept.
LinesWithNormal(side) == lines

AskedAfterPanel == asked + 1
LinesWith(side) == lines \o CurrentHunk[side]

Choose(button) ==
    /\ phase = "panel"
    /\ lines' = LinesWith(Chosen(button))
    /\ picks' = Append(picks, Chosen(button))
    /\ hunk' = hunk + 1 /\ asked' = AskedAfterPanel
    /\ phase' = "next"
    /\ UNCHANGED <<input, conflicts, index, file, counted, text, answers>>

\* ConflictResolveCanceled leaves the loops; so does Ctrl-C, with the program.
Cancel ==
    /\ phase = "panel"
    /\ phase' = "canceled"
    /\ UNCHANGED <<input, conflicts, index, file, hunk, lines, counted, asked, text, picks, answers>>
----------------------------------------------------------------------------
(* _gitConflictResolveInEditor()                                           *)

OpenEditor ==
    /\ phase = "panel"
    /\ text' = ConflictStringFromHunks(Bare, Current.hunks)
    /\ phase' = "editor"
    /\ UNCHANGED <<input, conflicts, index, file, hunk, lines, counted, asked, picks, answers>>

\* What the user may leave in the file: what it was, nothing, one side of every conflict, a
\* hash, or another text.
Edits ==
    {text, EmptyText} \cup {Join(SideLines(Current, side)) : side \in Sides}
        \cup {<<h, "">> : h \in Hashes} \cup Texts

\* Toastbox::String::Trim(), of a text that is to be one line.
Trim(t) ==
    LET kept == {i \in DOMAIN t : t[i] # ""}
    IN  IF kept = {} THEN EmptyText ELSE SubSeq(t, Min(kept), Max(kept))

\* IdFromString(), commitLookup()
IsHash(t) == Len(t) = 1 /\ t[1] \in Hashes

\* An empty file stands for no file where one side has none.
Edited(t) ==
    IF t = EmptyText /\ (NoFile(Current, "ours") \/ NoFile(Current, "theirs")) THEN None ELSE t

LeftMarkers(t) == ConflictStringContainsConflictMarkers(Bare, t)

Alert(which, t) ==
    /\ phase' = which /\ text' = t
    /\ UNCHANGED <<input, conflicts, index, file, hunk, lines, counted, asked, picks, answers>>

\* What the editor returns: the text still has markers, is no hash, or is what the file shall be.
LeaveMarkers(t) ==
    LeftMarkers(t) /\ Alert("markersAlert", t)

LeaveBadHash(t) ==
    /\ ~LeftMarkers(t) /\ Current.type = "Submodule" /\ ~IsHash(Trim(t))
    /\ Alert("hashAlert", Trim(t))

LeaveHash(t) ==
    /\ ~LeftMarkers(t) /\ Current.type = "Submodule" /\ IsHash(Trim(t))
    /\ FileResolved(Edited(Trim(t)), [picks |-> picks, text |-> Trim(t)])

LeaveFile(t) ==
    /\ ~LeftMarkers(t) /\ Current.type = "File"
    /\ FileResolved(Edited(t), [picks |-> picks, text |-> t])

\* The editor cannot be spawned, or its file not be read.
EditorFails ==
    /\ phase = "editor"
    /\ phase' = "failed"
    /\ UNCHANGED <<input, conflicts, index, file, hunk, lines, counted, asked, text, picks, answers>>

\* The buttons of the alert: 'Edit', and back to the panel.
EditAgain ==
    /\ phase \in {"markersAlert", "hashAlert"}
    /\ phase' = "editor"
    /\ UNCHANGED <<input, conflicts, index, file, hunk, lines, counted, asked, text, picks, answers>>

Dismiss ==
    /\ phase \in {"markersAlert", "hashAlert"}
    /\ phase' = "panel" /\ text' = None
    /\ UNCHANGED <<input, conflicts, index, file, hunk, lines, counted, asked, picks, answers>>
----------------------------------------------------------------------------
Init ==
    /\ merges \in Merges
    /\ favor \in {"NORMAL", "THEIRS"} /\ layout \in Layouts
    /\ conflicts = <<>>
    /\ index = [i \in DOMAIN merges |-> [state |-> "conflict"]]
    /\ phase = "get"
    /\ file = 1 /\ hunk = 1 /\ lines = <<>> /\ counted = 0 /\ asked = 0
    /\ text = None /\ picks = <<>> /\ answers = <<>>

EditorReturns ==
    /\ phase = "editor"
    /\ \E t \in Edits : LeaveMarkers(t) \/ LeaveBadHash(t) \/ LeaveHash(t) \/ LeaveFile(t)

User ==
    \/ \E button \in Buttons : Choose(button)
    \/ Cancel
    \/ OpenEditor
    \/ EditorReturns \/ EditorFails
    \/ EditAgain \/ Dismiss

Program == Get \/ TakeTheirs \/ NormalHunk \/ Present \/ FileEnds

Next == User \/ Program

Spec == Init /\ [][Next]_vars
----------------------------------------------------------------------------
(* Properties                                                              *)

\* Type invariant, of what the loops go by.
TypeOK ==
    /\ merges \in Merges /\ favor \in {"NORMAL", "THEIRS"} /\ layout \in Layouts
    /\ conflicts \in Seq(Conflict)
    /\ DOMAIN index = DOMAIN merges
    /\ phase \in {"get", "next"} \cup Waiting \cup Ended
    /\ file \in Nat \ {0} /\ hunk \in Nat \ {0} /\ counted \in Nat /\ asked \in Nat

\* The loops are inside what they go through, and what waits for the user is about a conflict.
LoopsInside ==
    /\ phase = "next" => file \in DOMAIN conflicts
    /\ phase \in Waiting => /\ file \in DOMAIN conflicts /\ hunk \in DOMAIN Current.hunks
                            /\ CurrentHunk.type = "Conflict" /\ favor = "NORMAL"
    /\ phase = "next" => hunk <= Len(Current.hunks) + 1
    /\ phase \notin {"get", "failed"} => DOMAIN conflicts = DOMAIN merges
    /\ phase = "get" => /\ hunk = 1 /\ file = 1 /\ asked = 0 /\ counted = 0
                       /\ \A i \in DOMAIN index : index[i].state = "conflict"

\* Files are resolved in order, each once: those before the current one no longer conflict.
ResolvedInOrder ==
    favor = "NORMAL" /\ phase \notin {"get", "failed"} =>
        \A i \in DOMAIN conflicts : index[i].state = "conflict" <=> i >= file

\* Only an index without conflicts is made a tree of: the loops end when all are resolved.
AllResolved == phase = "done" => \A i \in DOMAIN index : index[i].state # "conflict"

\* The number in the title of a panel counts the conflicts of all files before it
\* (conflictIdx of two nested functions, one of which may return early).
ConflictsOf(i, k) == {i} \X ConflictsBefore(conflicts[i], k)
FilesBefore == UNION {ConflictsOf(i, Len(conflicts[i].hunks) + 1) : i \in 1..(file - 1)}
TitleCounts ==
    phase \in {"next"} \cup Waiting =>
        /\ IsFiniteSet(FilesBefore) /\ counted = Cardinality(FilesBefore)
        /\ asked = counted + Cardinality(ConflictsBefore(Current, hunk))

ConflictsInv == TypeOK /\ LoopsInside /\ ResolvedInOrder /\ AllResolved /\ TitleCounts

\* What the loop over the hunks has put together: the common lines, and of each conflict the side
\* that was picked for it.
LinesBefore(fc, sides, k) ==
    FlattenSeq([i \in 1..(k - 1) |->
                   HunkLines(fc.hunks[i], sides[Cardinality(ConflictsBefore(fc, i + 1))])])

\* What the loops have of the merges, so far; a text that waits for the user is one.
LoopsHave ==
    /\ phase \notin {"get", "failed"} =>
          /\ \A i \in DOMAIN merges : Supported(merges[i])
          /\ conflicts = [i \in DOMAIN merges |-> ConflictOf(merges[i])]
    /\ answers = [i \in 1..(file - 1) |-> answers[i]]
    /\ picks \in Seq(Sides) /\ (phase = "get" => lines = <<>> /\ picks = <<>>)
    /\ phase \in {"next"} \cup Waiting =>
          Len(picks) = asked - counted /\ lines = LinesBefore(Current, picks, hunk)
    /\ phase \in Waiting \ {"panel"} => text \in Lines

InductiveInv == ConflictsInv /\ LoopsHave

\* A merge whose sides have no line that is taken for a marker when it is parsed.
NoLine(s, marker) == \A i \in DOMAIN s : ~StartsWith(marker, s[i])
Plain(merge) ==
    \A i \in DOMAIN merge.segments :
        LET s == merge.segments[i]
        IN  IF s.ours = s.theirs THEN NoLine(s.ours, Tagged.start)
            ELSE NoLine(s.ours, Tagged.separator) /\ NoLine(s.theirs, Tagged.end)

\* The file that has, of each segment in which the sides differ, the side that was picked.
Differing(segments, k) == Cardinality({i \in 1..k : segments[i].ours # segments[i].theirs})
Picked(merge, sides) ==
    LET s == merge.segments
        side(k) == IF s[k].ours = s[k].theirs THEN "ours" ELSE sides[Differing(s, k)]
    IN  IF \E i \in DOMAIN sides : merge[sides[i]] = "none" THEN None
        ELSE FlattenSeq([k \in DOMAIN s |-> s[k][side(k)]])

Stored(i) == IF index[i].state = "entry" THEN index[i].content ELSE None

\* A file that was resolved in panels has, hunk for hunk, the side that the user chose, and
\* does not exist if the user chose the side on which it does not ("Selecting the no-file side
\* results in no file", notes/TestChecklist.txt).  Not so if lines look like markers.
ResultIsWhatWasPicked ==
    \A i \in DOMAIN answers :
        answers[i].text = None /\ Plain(merges[i]) => Stored(i) = Picked(merges[i], answers[i].picks)

\* A file that both sides have is never removed, not by an empty text either; and clearing the
\* text removes a file that one side lacks ("deleting entire content causes the file to be
\* deleted (ie not an empty file)", notes/TestChecklist.txt).  Not so if lines look like markers.
RemovedIffOneSideLacksIt ==
    /\ \A i \in DOMAIN index :
          index[i].state = "nothing" /\ Plain(merges[i]) => "none" \in {merges[i].ours, merges[i].theirs}
    /\ \A i \in DOMAIN answers :
          answers[i].text = EmptyText /\ "none" \in {merges[i].ours, merges[i].theirs}
          => index[i].state = "nothing"

\* Whatever the user leaves in the editor, a line of the result that looks like a marker is a
\* line of one of the sides: no marker of debase gets into a commit.
SideHas(merge, line) ==
    \E i \in DOMAIN merge.segments, side \in Sides : line \in Range(merge.segments[i][side])
NoMarkerIsStored ==
    \A i \in DOMAIN answers :
        Stored(i) # None => \A line \in Range(Stored(i)) :
            IsMarker(Bare, line) => SideHas(merges[i], line)

\* What is written to the editor can be read back as the same hunks, where no line is a marker.
\* Not so if a common text that looks like a conflict was taken for one.
RenderedParsesBack ==
    \A i \in DOMAIN conflicts :
        LET hunks == conflicts[i].hunks
        IN  Plain(merges[i]) /\ (\A k \in DOMAIN hunks, side \in Sides :
                ~ConflictStringContainsConflictMarkers(Bare, HunkLines(hunks[k], side)))
            => HunksFromConflictString(Bare, ConflictStringFromHunks(Bare, hunks)) = hunks

\* The text that a button adds is the text that the panel shows above it, in both layouts.
ButtonGivesWhatItShows ==
    [][\A button \in Buttons : Choose(button) => lines' = lines \o ShownAbove(button)]_vars
=============================================================================
