----------------------------- MODULE RepoStore -----------------------------
(***************************************************************************)
(* Several debase processes on one repository, sharing its state file      *)
(* (State.h, RepoState).  Every access to it is made while holding a       *)
(* flock() on the version file, which is created and locked in two steps;  *)
(* the state file itself is read whole, truncated, and written in place.   *)
(*                                                                         *)
(* What a session does to its histories is Session's subject: here every   *)
(* change is an edit, which gives one ref a new commit.  A history is the  *)
(* sequence of the commits a ref had, the current one last.                *)
(***************************************************************************)
EXTENDS Naturals, Sequences

CONSTANTS Sessions,  \* debase processes, each of which runs once
          Names,     \* the refs of the repository
          Commits,   \* bound: the commits there are to be made, each by one edit
          Root,      \* the commit that every ref has at first
          None,      \* nobody, nothing
          Torn       \* the content of a state file that was truncated, not yet written

ASSUME RepoStoreAssumption ==
    /\ Root \in Commits
    /\ None \notin Sessions
    /\ \A S \in SUBSET Names :
          /\ Torn \notin [S -> Seq(Commits)]
          /\ None \notin [S -> [history : Seq(Commits), historyPrev : Seq(Commits),
                               created : BOOLEAN]]

VARIABLES
    refs,     \* git: the commit of every ref
    version,  \* the version file: "absent", "empty" or "written"
    lock,     \* the process that holds the flock on it, or None
    file,     \* the repository's state file
    pc,       \* where each process is
    looked,   \* the refs a process shows, with the commits its Git::Ref objects have
    loaded,   \* RepoState::_loadedRefs
    base,     \* what write() has read from the file
    log,      \* ghost: every commit a ref has had, in order
    shared    \* ghost: refs whose history the code does not promise to keep whole

vars == <<refs, version, lock, file, pc, looked, loaded, base, log, shared>>

Histories == Seq(Commits)
Current(h) == h[Len(h)]
EmptyMap  == [n \in {} |-> <<>>]

Waiting(s) == pc[s] \in {"waitLoad", "waitSave"}
Locked(s)  == pc[s] \in {"load", "merge", "merged", "truncated"}
Live(s)    == Waiting(s) \/ Locked(s) \/ pc[s] = "running"
Shown(s)   == DOMAIN looked[s]
Shows(s, n) == Live(s) /\ n \in Shown(s)

Goto(s, where) == pc' = [pc EXCEPT ![s] = where]
----------------------------------------------------------------------------
(* The version lock                                                        *)

\* open(O_CREAT)
VersionCreated == IF version = "absent" THEN "empty" ELSE version

\* Mutant: a version that cannot be read is an error.
VersionIsThere == version = "written"

\* AcquireVersionLock() under the lock: a version that is there is the right one, and one that
\* cannot be read is written.
VersionAccepted == version \in {"empty", "written"}

\* Mutants: flock() shared instead of exclusive; a descriptor that outlives its owner.
LockShared == TRUE
KeepLock == UNCHANGED lock /\ version' = "written"

\* flock(LOCK_EX)
LockFree == lock = None

\* The version file's stream is destroyed: what was written to it is flushed, the lock goes.
Unlock == lock' = None /\ version' = "written"

\* A process gets the lock, to load the histories or to save them.
Lock(s) ==
    /\ Waiting(s) /\ LockFree
    /\ lock' = IF VersionAccepted THEN s ELSE None
    /\ Goto(s, IF ~VersionAccepted THEN "failed"
               ELSE IF pc[s] = "waitLoad" THEN "load" ELSE "merge")
    /\ UNCHANGED <<refs, version, file, looked, loaded, base, log, shared>>
----------------------------------------------------------------------------
(* A session                                                               *)

\* The refs of a session are looked up (main.cpp) before their histories are loaded.
Launch(s, S) ==
    /\ pc[s] = "off"
    /\ looked' = [looked EXCEPT ![s] = [n \in S |-> refs[n]]]
    /\ version' = VersionCreated
    /\ shared' = shared \cup {n \in S : \E t \in Sessions \ {s} : Shows(t, n)}
    /\ Goto(s, "waitLoad")
    /\ UNCHANGED <<refs, lock, file, loaded, base, log>>

\* _loadRef(): the stored history is used if it ends in the commit that was looked up.
LoadedRef(s, n) ==
    LET h == IF n \in DOMAIN file /\ Current(file[n]) = looked[s][n] THEN file[n]
             ELSE <<looked[s][n]>>
    IN [history |-> h, historyPrev |-> h, created |-> n \notin DOMAIN file]

\* A process stops without saving: what it did is not promised to be kept.
Abandon(s, how) ==
    /\ Goto(s, how)
    /\ loaded' = [loaded EXCEPT ![s] = None]
    /\ shared' = shared \cup Shown(s)

\* RepoState's constructor.
Load(s) ==
    /\ pc[s] = "load" /\ file # Torn
    /\ loaded' = [loaded EXCEPT ![s] = [n \in Shown(s) |-> LoadedRef(s, n)]]
    /\ Unlock
    /\ Goto(s, "running")
    /\ UNCHANGED <<refs, file, looked, base, log, shared>>

\* An operation makes commit c and gives it to ref n: git's ref, then the history.
Edit(s, n, c) ==
    /\ pc[s] = "running" /\ n \in Shown(s)
    /\ \A m \in Names : \A i \in DOMAIN log[m] : log[m][i] # c
    /\ refs' = [refs EXCEPT ![n] = c]
    /\ loaded' = [loaded EXCEPT ![s][n].history = Append(@, c)]
    /\ log' = [log EXCEPT ![n] = Append(@, c)]
    /\ UNCHANGED <<version, lock, file, pc, looked, base, shared>>

\* The user exits: write() is called.
Quit(s) ==
    /\ pc[s] = "running"
    /\ Goto(s, "waitSave")
    /\ UNCHANGED <<refs, version, lock, file, looked, loaded, base, log, shared>>
----------------------------------------------------------------------------
(* write()                                                                 *)

\* Mutant: what the constructor would have found is not read again.
ReadBefore(s) == [n \in {m \in Shown(s) : ~loaded[s][m].created} |-> loaded[s][n].historyPrev]

ReadFile(s) == file

\* _RepoStateRead()
Read(s) ==
    /\ pc[s] = "merge" /\ file # Torn
    /\ base' = [base EXCEPT ![s] = ReadFile(s)]
    /\ Goto(s, "merged")
    /\ UNCHANGED <<refs, version, lock, file, looked, loaded, log, shared>>

\* _RepoStateRead() throws, in the constructor or in write().
ReadFails(s) ==
    /\ pc[s] \in {"load", "merge"} /\ file = Torn
    /\ Abandon(s, "failed")
    /\ Unlock
    /\ UNCHANGED <<refs, file, looked, base, log>>

\* std::ofstream's constructor truncates the file.
Truncate(s) ==
    /\ pc[s] = "merged"
    /\ file' = Torn
    /\ Goto(s, "truncated")
    /\ UNCHANGED <<refs, version, lock, looked, loaded, base, log, shared>>

ToWrite(s) == {n \in Shown(s) :
                  loaded[s][n].created \/ loaded[s][n].history # loaded[s][n].historyPrev}

\* Mutant: every loaded entry is stored.
MergedAll(s) == [n \in DOMAIN base[s] \cup Shown(s) |->
                    IF n \in Shown(s) THEN loaded[s][n].history ELSE base[s][n]]

Merged(s) == [n \in DOMAIN base[s] \cup ToWrite(s) |->
                 IF n \in ToWrite(s) THEN loaded[s][n].history ELSE base[s][n]]

\* The stream is flushed and closed, then the lock is released.
Flush(s) ==
    /\ pc[s] = "truncated"
    /\ file' = Merged(s)
    /\ loaded' = [loaded EXCEPT ![s] = None]
    /\ Unlock
    /\ Goto(s, "done")
    /\ UNCHANGED <<refs, looked, base, log, shared>>

\* The process is killed: the kernel releases its lock, nothing buffered is written.
Crash(s) ==
    /\ Live(s)
    /\ lock' = IF lock = s THEN None ELSE lock
    /\ Abandon(s, "killed")
    /\ UNCHANGED <<refs, version, file, looked, base, log>>
----------------------------------------------------------------------------
Init ==
    /\ refs = [n \in Names |-> Root]
    /\ version = "absent"
    /\ lock = None
    /\ file = EmptyMap
    /\ pc = [s \in Sessions |-> "off"]
    /\ looked = [s \in Sessions |-> EmptyMap]
    /\ loaded = [s \in Sessions |-> None]
    /\ base = [s \in Sessions |-> EmptyMap]
    /\ log = [n \in Names |-> <<Root>>]
    /\ shared = {}

\* What a process does by itself, once it has been started or told to exit.
Proceed(s) == Lock(s) \/ Load(s) \/ Read(s) \/ ReadFails(s) \/ Truncate(s) \/ Flush(s)

Next ==
    \E s \in Sessions :
        \/ \E S \in SUBSET Names : Launch(s, S)
        \/ \E n \in Names, c \in Commits : Edit(s, n, c)
        \/ Quit(s)
        \/ Proceed(s)
        \/ Crash(s)

\* A process that can run does, flock() included: every process takes the lock twice at most,
\* and releases it without waiting for anybody.  Users need not do anything.
Fairness == \A s \in Sessions : WF_vars(Proceed(s))

Spec == Init /\ [][Next]_vars /\ Fairness
----------------------------------------------------------------------------
(* Properties                                                              *)

MapOf(D, R, f) == DOMAIN f \subseteq D /\ f \in [DOMAIN f -> R]

Stages == {"off", "waitLoad", "load", "running", "waitSave", "merge", "merged", "truncated",
           "done", "failed", "killed"}

Entries == [history : Histories, historyPrev : Histories, created : BOOLEAN]

\* Every variable has its type.
TypeOK ==
    /\ refs \in [Names -> Commits]
    /\ version \in {"absent", "empty", "written"}
    /\ lock \in Sessions \cup {None}
    /\ file = Torn \/ MapOf(Names, Histories, file)
    /\ pc \in [Sessions -> Stages]
    /\ DOMAIN looked = Sessions /\ DOMAIN base = Sessions
    /\ loaded = [s \in Sessions |-> loaded[s]]
    /\ \A s \in Sessions :
          /\ MapOf(Names, Commits, looked[s])
          /\ loaded[s] = None \/ loaded[s] \in [Shown(s) -> Entries]
          /\ MapOf(Names, Histories, base[s])
    /\ log \in [Names -> Histories]
    /\ shared \subseteq Names

Writing(s) == pc[s] = "truncated"

\* The file was torn by a process that was killed while it wrote it.
Damaged == file = Torn /\ \A s \in Sessions : ~Writing(s)

\* The lock is held by the process that is between locking and releasing it, what that
\* process has read is what the file holds, and the file is torn only while it is written
\* or after its writer was killed.  This is inductive.
StoreInv ==
    /\ TypeOK
    /\ \A s \in Sessions :
          /\ Locked(s) <=> lock = s
          /\ loaded[s] = None <=> pc[s] \notin {"running", "waitSave", "merge", "merged", "truncated"}
          /\ pc[s] = "merged" => file = base[s]
          /\ Writing(s) => file = Torn
          /\ pc[s] # "off" => version # "absent"

Contents == IF \E s \in Sessions : Writing(s)
            THEN base[CHOOSE s \in Sessions : Writing(s)]
            ELSE file

Stored(n) == IF n \in DOMAIN Contents THEN Contents[n] ELSE <<Root>>

\* No process sees the state file while another one is rewriting it, nor an empty version
\* file as an error: a process that fails found a file that a killed process left torn.
FailsOnlyIfDamaged ==
    [][\A s \in Sessions : (pc[s] # "failed" /\ pc'[s] = "failed") => Damaged]_vars

\* "We use this strategy so that we don't clobber data written by another debase session, for
\* unrelated refs" (State.h:517).  A ref that no two sessions ever showed at once, and that no
\* killed session showed, keeps its whole history: in the session that shows it, and in the
\* file once there is none, whatever sessions on other refs do meanwhile.
UnsharedHistoriesAreWhole ==
    ~Damaged =>
        \A n \in Names \ shared :
            /\ \A s \in Sessions :
                  (Shows(s, n) /\ loaded[s] # None) => loaded[s][n].history = log[n]
            /\ (\A s \in Sessions : ~Shows(s, n)) => Stored(n) = log[n]

\* What this needs besides: a ref that only one session shows has the commit that the session
\* looked up, or the history that it loaded; the file holds the whole history as long as no
\* session has loaded it, and afterwards what was loaded.
WholeInv ==
    /\ \A n \in Names : log[n] # <<>> /\ Current(log[n]) = refs[n]
    /\ \A n \in Names \ shared :
          /\ \A s, t \in Sessions : Shows(s, n) /\ Shows(t, n) => s = t
          /\ \A s \in Sessions : Shows(s, n) =>
                IF loaded[s] = None THEN looked[s][n] = refs[n]
                ELSE /\ loaded[s][n].history = log[n]
                     /\ ~Damaged /\ ~loaded[s][n].created =>
                           n \in DOMAIN Contents /\ Contents[n] = loaded[s][n].historyPrev
          /\ ~Damaged /\ (\A s \in Sessions : Shows(s, n) => loaded[s] = None) =>
                Stored(n) = log[n]

InductiveInv == StoreInv /\ WholeInv

\* Whoever waits for the lock gets it, or was killed: no process keeps it.
EveryWaitEnds == \A s \in Sessions : Waiting(s) ~> ~Waiting(s)

\* Sessions that share the file load and save as if each did so in one step.
A == INSTANCE StoreAtomic WITH contents <- Contents, views <- loaded, Lost <- Torn

ImplementsStoreAtomic == A!Spec

\* "We don't want to save histories that didn't change to help prevent clobbering changes from
\* another session" (State.h:477): a session that did not change the history of a ref does not
\* overwrite what the file has of it.  It does, if the file had nothing of it at launch.
UnchangedNotOverwritten ==
    [][\A s \in Sessions : Flush(s) =>
          \A n \in Shown(s) \cap DOMAIN base[s] :
              loaded[s][n].history = loaded[s][n].historyPrev => file'[n] = base[s][n]]_vars
=============================================================================
