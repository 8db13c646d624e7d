---------------------------- MODULE MCConflicts ----------------------------
(***************************************************************************)
(* Instances of Conflicts for TLC.  Lines are short strings; every file    *)
(* ends in a newline, so in an empty line.                                 *)
(***************************************************************************)
EXTENDS Conflicts

Same(line) == [ours |-> <<line>>, theirs |-> <<line>>]
End == Same("")
Differ(ours, theirs) == [ours |-> ours, theirs |-> theirs]

Texted(segments) == [ours |-> "file", theirs |-> "file", segments |-> Append(segments, End)]
Removed(content) == [ours |-> "file", theirs |-> "none", segments |-> <<Differ(content, <<>>)>>]
Added(content)   == [ours |-> "none", theirs |-> "file", segments |-> <<Differ(<<>>, content)>>]
Gitlinks == [ours |-> "gitlink", theirs |-> "gitlink", segments |-> <<Differ(<<"h1">>, <<"h2">>)>>]
Odd(ours, theirs) == [ours |-> ours, theirs |-> theirs, segments |-> <<>>]

\* Conflicts in which a side is empty, has a heading underlined like a separator, or a marker.
Rule == Bare.separator
Differs == {Differ(<<"b">>, <<"c">>), Differ(<<>>, <<"c">>), Differ(<<"b", "d">>, <<>>)}
Marked == {Differ(<<"b">>, <<Rule>>), Differ(<<"b", Rule>>, <<"c">>),
           Differ(<<Tagged.start>>, <<Bare.end>>)}
Files ==
    {Texted(<<d>>) : d \in Differs \cup Marked}
    \cup {Texted(<<Same("a"), d, Same(c), e>>) : d, e \in Differs, c \in {"a", Rule}}
Paths ==
    Files \cup {Removed(<<"b", "">>), Removed(EmptyText), Added(<<"c", Rule, "">>), Gitlinks}

\* Few, for two paths.
Few == {Texted(<<Differ(<<"b">>, <<"c">>)>>), Added(<<"c", "">>), Gitlinks,
        Texted(<<Differ(<<>>, <<"c">>), Same("a"), Differ(<<"b">>, <<"c">>)>>)}

\* Scenarios that ConflictsGet() does not support.
Unsupported == {Odd("other", "file"), Odd("gitlink", "none"), Odd("file", "gitlink"),
                Odd("none", "none")}

AllMerges ==
    {<<p>> : p \in Paths} \cup {<<p, q>> : p, q \in Few} \cup {<<Gitlinks, u>> : u \in Unsupported}

\* Texts written by hand: both sides, a line left out, a marker forgotten.
ByHand == {<<"b", "c", "">>, <<"x">>, <<"b", Bare.end, "">>, <<Rule, "">>}
=============================================================================
