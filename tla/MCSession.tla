----------------------------- MODULE MCSession -----------------------------
(***************************************************************************)
(* Session on three small instances, each bounded in another direction:    *)
(* several sessions, long histories, or three names.  The sessions, and    *)
(* what disturbs them (a handler that throws, a use of git between two     *)
(* sessions), are counted and bounded.  Names and commits are              *)
(* interchangeable, so both are symmetry sets.                             *)
(***************************************************************************)
EXTENDS Session, TLC, FiniteSets

CONSTANTS MaxDisturbances  \* bound: handlers that throw, and git commands

VARIABLES sessions, disturbances,
          instance  \* the instance that this behaviour is of

counters == <<sessions, disturbances, instance>>

\* The names that refs have, the depth of undo, and the number of sessions.
Instances ==
    {[pool |-> S, depth |-> 1, sessions |-> 2] : S \in {x \in SUBSET Names : Cardinality(x) = 2}}
    \cup {[pool |-> S, depth |-> MaxHistory, sessions |-> 1] :
             S \in {x \in SUBSET Names : Cardinality(x) = 2}}
    \cup {[pool |-> Names, depth |-> 1, sessions |-> 1]}

MCInit ==
    /\ Init
    /\ sessions = 0 /\ disturbances = 0
    /\ instance \in {x \in Instances : DOMAIN refs \subseteq x.pool}

Count(n, max) == n < max /\ n' = n + 1

Within ==
    /\ DOMAIN refs' \subseteq instance.pool
    /\ \A n \in DOMAIN loaded' : Len(loaded'[n].history.prev) <= instance.depth

MCNext ==
    /\ \/ (Handle \/ End) /\ UNCHANGED <<sessions, disturbances>>
       \/ Start /\ Count(sessions, instance.sessions) /\ UNCHANGED disturbances
       \/ (Fail \/ UseGit) /\ Count(disturbances, MaxDisturbances) /\ UNCHANGED sessions
    /\ Within
    /\ UNCHANGED instance

MCSpec == MCInit /\ [][MCNext]_<<vars, counters>>

Symmetry == Permutations(Names) \cup Permutations(Commits)
=============================================================================
