----------------------------- MODULE MCSettings -----------------------------
(***************************************************************************)
(* Two sessions, of which one may be older, and a user who sets the theme. *)
(***************************************************************************)
EXTENDS Settings

CONSTANTS old, new, setter

MCSessions == {old, new}
MCSetters == {setter}
MCVersion == [p \in MCSessions |-> IF p = old THEN 2 ELSE 3]
MCChoice == [p \in MCSetters |-> "light"]
=============================================================================
