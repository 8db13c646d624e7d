---------------------------- MODULE StoreAtomic ----------------------------
(***************************************************************************)
(* What the files under debase's state directory promise to the sessions   *)
(* that share them: one store of histories, loaded and saved atomically.   *)
(* Saving touches only the refs that the session created or changed.       *)
(***************************************************************************)
EXTENDS Sequences

CONSTANTS Sessions, None, Lost

VARIABLES contents,  \* the histories stored, or Lost
          views      \* what each session has loaded, or None

Entry(h, created) == [history |-> h, historyPrev |-> h, created |-> created]

\* A session's entry for n: the stored history, or a fresh one of its own.
LoadedEntry(n, e) ==
    IF n \in DOMAIN contents
    THEN \/ e = Entry(contents[n], FALSE)
         \/ Len(e.history) = 1 /\ e = Entry(e.history, FALSE)
    ELSE Len(e.history) = 1 /\ e = Entry(e.history, TRUE)

SetView(s, v) == views' = [views EXCEPT ![s] = v]

Init == contents = [n \in {} |-> <<>>] /\ views = [s \in Sessions |-> None]

Load(s) ==
    /\ views[s] = None /\ views'[s] # None /\ contents # Lost
    /\ SetView(s, views'[s])
    /\ \A n \in DOMAIN views'[s] : LoadedEntry(n, views'[s][n])
    /\ UNCHANGED contents

\* A session changes the history of one of its refs.
Change(s) ==
    /\ views[s] # None /\ views'[s] # None
    /\ \E n \in DOMAIN views[s] : SetView(s, [views[s] EXCEPT ![n].history = views'[s][n].history])
    /\ UNCHANGED contents

Save(s) ==
    /\ views[s] # None /\ contents # Lost
    /\ LET own == {n \in DOMAIN views[s] :
                      views[s][n].created \/ views[s][n].history # views[s][n].historyPrev}
       IN contents' = [n \in DOMAIN contents \cup own |->
                          IF n \in own THEN views[s][n].history ELSE contents[n]]
    /\ SetView(s, None)

\* A session ends without saving, for whatever reason.
Leave(s) == views[s] # None /\ SetView(s, None) /\ UNCHANGED contents

\* A session is killed while it saves.
Lose(s) == views[s] # None /\ SetView(s, None) /\ contents' = Lost

Next == \E s \in Sessions : Load(s) \/ Change(s) \/ Save(s) \/ Leave(s) \/ Lose(s)

Spec == Init /\ [][Next]_<<contents, views>>
=============================================================================
