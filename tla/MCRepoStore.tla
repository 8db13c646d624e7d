---------------------------- MODULE MCRepoStore ----------------------------
(***************************************************************************)
(* RepoStore on small instances, each bounded in another direction: three  *)
(* sessions on one ref or with one new commit, or two sessions with two    *)
(* refs and two new commits.  Liveness is checked with the rest, so there  *)
(* is no symmetry; instead the sessions are launched for the first time in *)
(* a fixed order.                                                          *)
(***************************************************************************)
EXTENDS RepoStore, TLC

CONSTANTS a, b, c1, c2, s1, s2, s3

VARIABLES instance  \* the instance that this behaviour is of

Instances ==
    {[sessions |-> <<s1, s2, s3>>, names |-> {a}, commits |-> {c1, c2}],
     [sessions |-> <<s1, s2, s3>>, names |-> {a, b}, commits |-> {c1}],
     [sessions |-> <<s1, s2>>, names |-> {a, b}, commits |-> {c1, c2}]}

MCInit == Init /\ instance \in Instances

Within ==
    /\ \A i \in DOMAIN instance.sessions :
          pc'[instance.sessions[i]] # "off"
             => \A j \in 1..i : pc'[instance.sessions[j]] # "off"
    /\ \A s \in Sessions :
          /\ DOMAIN looked'[s] \subseteq instance.names
          /\ pc'[s] # "off" => \E i \in DOMAIN instance.sessions : instance.sessions[i] = s
    /\ \A n \in Names : refs'[n] \in instance.commits \cup {Root}

MCNext == Next /\ Within /\ UNCHANGED instance

MCSpec == MCInit /\ [][MCNext]_<<vars, instance>> /\ Fairness

=============================================================================
