---------------------------- MODULE MCTextField ----------------------------
(***************************************************************************)
(* A field three columns wide, codepoints of one and of two bytes, a name  *)
(* that fits, one that does not, and one that fits only while it is edited *)
(* (the column is that of HEAD).                                           *)
(***************************************************************************)
EXTENDS TextField

CONSTANTS n, w  \* a narrow codepoint (one byte), and a wide one (two bytes)

MCCodepoints == {n, w}
MCBytesOf == [c \in MCCodepoints |-> IF c = n THEN 1 ELSE 2]

MCSuffix == <<<<n, 1>>>>
MCNames ==
    {<<<<n, 1>>>>, <<<<n, 1>>, <<w, 1>>, <<w, 2>>, <<n, 1>>>>,
     <<<<w, 1>>, <<w, 2>>, <<n, 1>>, <<w, 1>>, <<w, 2>>>>}

\* Nothing is said of a field once it has slipped: it is followed no further.
NotSlipped == ~slipped
=============================================================================
