-------------------------- MODULE RepoStoreProofs --------------------------
(***************************************************************************)
(* What RepoStore promises for every set of processes, refs and commits.   *)
(*                                                                         *)
(* StoreInv is inductive: the lock is held by exactly the process that is  *)
(* between flock() and the release, so nobody changes the file between a   *)
(* process's read and its write.  From it follow that a process only fails *)
(* on a file that a killed process tore, and that reading, merging,        *)
(* truncating and writing are, to the other sessions, one atomic step.     *)
(***************************************************************************)
EXTENDS RepoStore, TLAPS

(* Values *)

\* A state file that holds histories is not a torn one.
LEMMA HistoriesNotTorn ==
    ASSUME NEW f, MapOf(Names, Histories, f)
    PROVE  f # Torn
BY RepoStoreAssumption DEF MapOf, Histories

\* What a session has loaded is not nothing.
LEMMA EntriesNotNone ==
    ASSUME NEW S \in SUBSET Names, NEW v \in [S -> Entries]
    PROVE  v # None
BY RepoStoreAssumption DEF Entries, Histories

LEMMA EmptyMapType ==
    /\ MapOf(Names, Histories, EmptyMap)
    /\ MapOf(Names, Commits, EmptyMap)
BY DEF MapOf, EmptyMap

\* A ref's entry, stored or fresh, is an entry.
LEMMA LoadedRefType ==
    ASSUME StoreInv, NEW s \in Sessions, NEW n \in Shown(s), file # Torn
    PROVE  LoadedRef(s, n) \in Entries
<1>1. looked[s][n] \in Commits
  BY DEF StoreInv, TypeOK, MapOf, Shown
<1>2. <<looked[s][n]>> \in Histories
  BY <1>1 DEF Histories
<1>3. n \in DOMAIN file => file[n] \in Histories
  BY DEF StoreInv, TypeOK, MapOf
<1> QED
  BY <1>2, <1>3 DEF LoadedRef, Entries

\* What write() stores is a map of histories.
LEMMA MergedType ==
    ASSUME StoreInv, NEW s \in Sessions, loaded[s] # None
    PROVE  MapOf(Names, Histories, Merged(s))
<1>1. MapOf(Names, Histories, base[s]) /\ loaded[s] \in [Shown(s) -> Entries]
  BY DEF StoreInv, TypeOK
<1>2. Shown(s) \subseteq Names
  BY DEF StoreInv, TypeOK, MapOf, Shown
<1>3. \A n \in Shown(s) : loaded[s][n].history \in Histories
  BY <1>1 DEF Entries
<1> QED
  BY <1>1, <1>2, <1>3 DEF MapOf, Merged, ToWrite
-----------------------------------------------------------------------------
(* The inductive invariant *)

LEMMA InitInv == Init => StoreInv
<1> SUFFICES ASSUME Init PROVE StoreInv
  OBVIOUS
<1>1. <<Root>> \in Histories /\ Root \in Commits
  BY RepoStoreAssumption DEF Histories
<1>2. None \notin Sessions
  BY RepoStoreAssumption
<1>3. TypeOK
  BY <1>1, EmptyMapType DEF Init, TypeOK, Stages
<1> QED
  BY <1>2, <1>3 DEF Init, StoreInv, Locked, Writing

LEMMA LockInv ==
    ASSUME StoreInv, NEW s \in Sessions, Lock(s)
    PROVE  StoreInv'
<1>1. VersionAccepted
  BY DEF StoreInv, TypeOK, Lock, Waiting, VersionAccepted, Stages
<1>2. TypeOK'
  BY <1>1 DEF StoreInv, TypeOK, Lock, Waiting, Goto, Stages, Shown
<1> QED
  BY <1>1, <1>2, RepoStoreAssumption
  DEF StoreInv, TypeOK, Lock, LockFree, Waiting, Goto, Locked, Writing, Stages

LEMMA LaunchInv ==
    ASSUME StoreInv, NEW s \in Sessions, NEW S \in SUBSET Names, Launch(s, S)
    PROVE  StoreInv'
<1>1. MapOf(Names, Commits, [n \in S |-> refs[n]])
  BY DEF StoreInv, TypeOK, MapOf
<1>2. loaded[s] = None
  BY DEF StoreInv, Launch
<1>3. TypeOK'
  BY <1>1, <1>2 DEF StoreInv, TypeOK, Launch, VersionCreated, Goto, Stages, Shown
<1> QED
  BY <1>3 DEF StoreInv, TypeOK, Launch, VersionCreated, Goto, Locked, Writing, Stages

LEMMA LoadInv ==
    ASSUME StoreInv, NEW s \in Sessions, Load(s)
    PROVE  StoreInv'
<1> DEFINE v == [n \in Shown(s) |-> LoadedRef(s, n)]
<1>1. v \in [Shown(s) -> Entries]
  BY LoadedRefType DEF Load
<1>2. Shown(s) \in SUBSET Names
  BY DEF StoreInv, TypeOK, MapOf, Shown
<1>3. v # None
  BY <1>1, <1>2, EntriesNotNone
<1>4. loaded' = [loaded EXCEPT ![s] = v]
  BY DEF Load
<1> HIDE DEF v
<1>5. TypeOK'
  BY <1>1, <1>4 DEF StoreInv, TypeOK, Load, Unlock, Goto, Stages, Shown
<1> QED
  BY <1>3, <1>4, <1>5, RepoStoreAssumption
  DEF StoreInv, TypeOK, Load, Unlock, Goto, Locked, Writing, Stages

LEMMA EditInv ==
    ASSUME StoreInv, NEW s \in Sessions, NEW n \in Names, NEW c \in Commits, Edit(s, n, c)
    PROVE  StoreInv'
<1> DEFINE e == [loaded[s][n] EXCEPT !.history = Append(@, c)]
           v == [loaded[s] EXCEPT ![n] = e]
<1>1. loaded[s] \in [Shown(s) -> Entries] /\ n \in Shown(s)
  BY DEF StoreInv, TypeOK, Edit
<1>2. e \in Entries
  <2>1. loaded[s][n] \in Entries
    BY <1>1
  <2>2. Append(loaded[s][n].history, c) \in Histories
    BY <2>1 DEF Entries, Histories
  <2> QED
    BY <2>1, <2>2 DEF Entries
<1>3. loaded' = [loaded EXCEPT ![s] = v]
  BY DEF Edit
<1>4. v \in [Shown(s) -> Entries]
  BY <1>1, <1>2
<1>5. Shown(s) \in SUBSET Names
  BY DEF StoreInv, TypeOK, MapOf, Shown
<1>6. v # None
  BY <1>4, <1>5, EntriesNotNone
<1>7. refs' \in [Names -> Commits] /\ log' \in [Names -> Histories]
  BY DEF StoreInv, TypeOK, Edit, Histories
<1> HIDE DEF v, e
<1>8. TypeOK'
  BY <1>3, <1>4, <1>7 DEF StoreInv, TypeOK, Edit, Shown
<1>9. loaded[s] # None
  BY <1>1, <1>5, EntriesNotNone
<1>10. pc[s] = "running" /\ UNCHANGED <<version, lock, file, pc, looked, base, shared>>
  BY DEF Edit
<1>11. \A t \in Sessions : loaded'[t] = None <=> loaded[t] = None
  BY <1>3, <1>6, <1>9 DEF StoreInv, TypeOK
<1> QED
  BY <1>8, <1>10, <1>11 DEF StoreInv, Locked, Writing

LEMMA QuitInv ==
    ASSUME StoreInv, NEW s \in Sessions, Quit(s)
    PROVE  StoreInv'
<1>1. TypeOK'
  BY DEF StoreInv, TypeOK, Quit, Goto, Stages, Shown
<1> QED
  BY <1>1 DEF StoreInv, TypeOK, Quit, Goto, Locked, Writing, Stages

LEMMA ReadInv ==
    ASSUME StoreInv, NEW s \in Sessions, Read(s)
    PROVE  StoreInv'
<1>1. MapOf(Names, Histories, file)
  BY DEF StoreInv, TypeOK, Read
<1>2. TypeOK'
  BY <1>1 DEF StoreInv, TypeOK, Read, ReadFile, Goto, Stages, Shown
<1> QED
  BY <1>2 DEF StoreInv, TypeOK, Read, ReadFile, Goto, Locked, Writing, Stages

LEMMA ReadFailsInv ==
    ASSUME StoreInv, NEW s \in Sessions, ReadFails(s)
    PROVE  StoreInv'
<1>1. Shown(s) \subseteq Names
  BY DEF StoreInv, TypeOK, MapOf, Shown
<1>2. TypeOK'
  BY <1>1 DEF StoreInv, TypeOK, ReadFails, Abandon, Unlock, Goto, Stages, Shown
<1> QED
  BY <1>2, RepoStoreAssumption
  DEF StoreInv, TypeOK, ReadFails, Abandon, Unlock, Goto, Locked, Writing, Stages

LEMMA TruncateInv ==
    ASSUME StoreInv, NEW s \in Sessions, Truncate(s)
    PROVE  StoreInv'
<1>1. TypeOK'
  BY DEF StoreInv, TypeOK, Truncate, Goto, Stages, Shown
<1>2. \A t \in Sessions \ {s} : ~Locked(t)
  BY DEF StoreInv, Truncate, Locked
<1> QED
  BY <1>1, <1>2 DEF StoreInv, TypeOK, Truncate, Goto, Locked, Writing, Stages

LEMMA FlushInv ==
    ASSUME StoreInv, NEW s \in Sessions, Flush(s)
    PROVE  StoreInv'
<1>1. loaded[s] # None
  BY DEF StoreInv, Flush
<1>2. MapOf(Names, Histories, Merged(s))
  BY <1>1, MergedType
<1>3. TypeOK'
  BY <1>2 DEF StoreInv, TypeOK, Flush, Unlock, Goto, Stages, Shown
<1>4. \A t \in Sessions \ {s} : ~Locked(t)
  BY DEF StoreInv, Flush, Locked
<1> QED
  BY <1>3, <1>4, RepoStoreAssumption
  DEF StoreInv, TypeOK, Flush, Unlock, Goto, Locked, Writing, Stages

LEMMA CrashInv ==
    ASSUME StoreInv, NEW s \in Sessions, Crash(s)
    PROVE  StoreInv'
<1>1. Shown(s) \subseteq Names
  BY DEF StoreInv, TypeOK, MapOf, Shown
<1>2. TypeOK'
  BY <1>1 DEF StoreInv, TypeOK, Crash, Abandon, Goto, Stages, Shown
<1>3. pc[s] # "off"
  BY DEF Crash, Live, Waiting, Locked
<1> QED
  BY <1>2, <1>3, RepoStoreAssumption
  DEF StoreInv, TypeOK, Crash, Abandon, Goto, Locked, Writing, Stages

LEMMA StutterInv ==
    ASSUME StoreInv, UNCHANGED vars
    PROVE  StoreInv'
BY DEF StoreInv, TypeOK, vars, Shown, Locked, Writing

LEMMA NextInv ==
    ASSUME StoreInv, [Next]_vars
    PROVE  StoreInv'
BY LockInv, LaunchInv, LoadInv, EditInv, QuitInv, ReadInv, ReadFailsInv, TruncateInv, FlushInv,
   CrashInv, StutterInv
DEF Next, Proceed

\* StoreInv holds in every reachable state: flock() on the version file excludes other
\* processes for as long as write() needs between its read and the end of its write.
THEOREM StoreInvariant == Spec => []StoreInv
<1>1. StoreInv /\ [Next]_vars => StoreInv'
  BY NextInv
<1> QED
  BY <1>1, InitInv, PTL DEF Spec
-----------------------------------------------------------------------------
(* Failing *)

\* A process fails only because it read a file that a killed process left torn.
THEOREM FailuresMeanDamage == Spec => FailsOnlyIfDamaged
<1> DEFINE P == \A s \in Sessions : (pc[s] # "failed" /\ pc'[s] = "failed") => Damaged
<1>1. ASSUME StoreInv, [Next]_vars PROVE [P]_vars
  <2> SUFFICES ASSUME NEW t \in Sessions, pc[t] # "failed", pc'[t] = "failed", Next
               PROVE  Damaged
    BY <1>1 DEF vars
  <2>1. PICK s \in Sessions :
            \/ \E S \in SUBSET Names : Launch(s, S)
            \/ \E n \in Names, c \in Commits : Edit(s, n, c)
            \/ Quit(s) \/ Lock(s) \/ Load(s) \/ Read(s) \/ ReadFails(s)
            \/ Truncate(s) \/ Flush(s) \/ Crash(s)
    BY DEF Next, Proceed
  <2>2. CASE Lock(s)
    <3>1. VersionAccepted
      BY <1>1, <2>2 DEF StoreInv, TypeOK, Lock, Waiting, VersionAccepted, Stages
    <3> QED
      BY <1>1, <2>2, <3>1 DEF StoreInv, TypeOK, Lock, Goto, Stages
  <2>3. CASE ReadFails(s)
    <3>1. \A r \in Sessions : ~Writing(r)
      BY <1>1, <2>3 DEF StoreInv, ReadFails, Locked, Writing
    <3> QED
      BY <2>3, <3>1 DEF ReadFails, Damaged
  <2>4. CASE \E n \in Names, c \in Commits : Edit(s, n, c)
    BY <2>4 DEF Edit
  <2> QED
    BY <1>1, <2>1, <2>2, <2>3, <2>4
    DEF StoreInv, TypeOK, Launch, Quit, Load, Read, Truncate, Flush, Crash, Abandon, Goto
<1> QED
  BY <1>1, StoreInvariant, PTL DEF Spec, FailsOnlyIfDamaged
-----------------------------------------------------------------------------
(* One atomic store *)

\* While a process rewrites the file, the store's contents are what that process has read.
LEMMA ContentsWhileWriting ==
    ASSUME StoreInv, NEW s \in Sessions, Writing(s)
    PROVE  Contents = base[s]
<1>1. \A t \in Sessions : Writing(t) => t = s
  BY DEF StoreInv, Locked, Writing
<1> QED
  BY <1>1 DEF Contents

LEMMA ContentsAtRest ==
    ASSUME \A s \in Sessions : ~Writing(s)
    PROVE  Contents = file
BY DEF Contents

\* The process that has the lock is the only one that may be writing.
LEMMA NobodyElseWrites ==
    ASSUME StoreInv, NEW s \in Sessions, Locked(s) \/ lock = None
    PROVE  \A t \in Sessions \ {s} : ~Writing(t)
BY RepoStoreAssumption DEF StoreInv, Locked, Writing

\* A step that neither begins nor ends writing, nor touches a file, leaves the contents alone.
LEMMA ContentsKept ==
    ASSUME StoreInv, \A s \in Sessions : Writing(s)' = Writing(s), file' = file,
           \A s \in Sessions : Writing(s) => base'[s] = base[s], StoreInv'
    PROVE  Contents' = Contents
<1>1. CASE \A s \in Sessions : ~Writing(s)
  BY <1>1, ContentsAtRest DEF Contents
<1>2. ASSUME NEW s \in Sessions, Writing(s) PROVE Contents' = Contents
  <2>1. Contents = base[s]
    BY <1>2, ContentsWhileWriting
  <2>2. \A t \in Sessions : Writing(t)' => t = s
    BY <1>2 DEF StoreInv, Locked, Writing
  <2>3. Contents' = base'[s]
    BY <1>2, <2>2 DEF Contents
  <2> QED
    BY <1>2, <2>1, <2>3
<1> QED
  BY <1>1, <1>2

LEMMA RefineSilent ==
    ASSUME StoreInv, StoreInv', NEW s \in Sessions,
           \/ Lock(s) \/ Quit(s) \/ Read(s)
           \/ \E S \in SUBSET Names : Launch(s, S)
    PROVE  UNCHANGED <<Contents, loaded>>
<1>1. loaded' = loaded /\ file' = file
  BY DEF Lock, Quit, Read, Launch
<1>2. \A t \in Sessions : Writing(t)' = Writing(t)
  BY DEF StoreInv, TypeOK, Lock, Quit, Read, Launch, Writing, Goto, Waiting
<1>3. \A t \in Sessions : Writing(t) => base'[t] = base[t]
  BY DEF StoreInv, TypeOK, Lock, Quit, Read, Launch, Writing
<1> QED
  BY <1>1, <1>2, <1>3, ContentsKept

LEMMA RefineLoad ==
    ASSUME StoreInv, StoreInv', NEW s \in Sessions, Load(s)
    PROVE  A!Load(s)
<1>1. Contents = file /\ Contents' = file'
  <2>1. \A t \in Sessions : ~Writing(t)
    BY NobodyElseWrites DEF Load, Locked, Writing
  <2>2. \A t \in Sessions : ~Writing(t)'
    BY <2>1 DEF Load, Goto, Writing, StoreInv, TypeOK
  <2> QED
    BY <2>1, <2>2 DEF Contents
<1> DEFINE v == [n \in Shown(s) |-> LoadedRef(s, n)]
<1>2. loaded' = [loaded EXCEPT ![s] = v] /\ loaded'[s] = v
  BY DEF Load, StoreInv, TypeOK
<1>3. loaded[s] = None /\ v # None
  BY <1>2 DEF Load, StoreInv, TypeOK, Goto
<1>4. ASSUME NEW n \in Shown(s) PROVE A!LoadedEntry(n, v[n])
  <2> DEFINE fresh == <<looked[s][n]>>
  <2>1. Len(fresh) = 1
    OBVIOUS
  <2>2. v[n] = LoadedRef(s, n)
    OBVIOUS
  <2> HIDE DEF v, fresh
  <2>3. CASE n \in DOMAIN file
    <3>1. LoadedRef(s, n) = A!Entry(file[n], FALSE) \/ LoadedRef(s, n) = A!Entry(fresh, FALSE)
      BY <2>3 DEF A!Entry, LoadedRef, fresh
    <3>2. A!Entry(fresh, FALSE).history = fresh
      BY DEF A!Entry
    <3> QED
      BY <1>1, <2>1, <2>2, <2>3, <3>1, <3>2 DEF A!LoadedEntry
  <2>4. CASE n \notin DOMAIN file
    <3>1. LoadedRef(s, n) = A!Entry(fresh, TRUE)
      <4>1. (n \notin DOMAIN file) = TRUE
        BY <2>4
      <4> QED
        BY <2>4, <4>1, Zenon DEF LoadedRef, fresh, A!Entry
    <3>2. LoadedRef(s, n).history = fresh
      BY <3>1 DEF A!Entry
    <3> QED
      BY <1>1, <2>1, <2>2, <2>4, <3>1, <3>2 DEF A!LoadedEntry
  <2> QED
    BY <2>3, <2>4
<1>5. DOMAIN v = Shown(s)
  OBVIOUS
<1>6. Contents # Torn /\ UNCHANGED Contents
  BY <1>1 DEF Load
<1> HIDE DEF v
<1> QED
  BY <1>2, <1>3, <1>4, <1>5, <1>6 DEF A!Load, A!SetView

LEMMA RefineEdit ==
    ASSUME StoreInv, StoreInv', NEW s \in Sessions, NEW n \in Names, NEW c \in Commits,
           Edit(s, n, c)
    PROVE  A!Change(s)
<1> DEFINE v == [loaded[s] EXCEPT ![n].history = Append(@, c)]
<1>1. loaded' = [loaded EXCEPT ![s] = v] /\ loaded'[s] = v
  BY DEF Edit, StoreInv, TypeOK
<1>2. UNCHANGED Contents
  BY ContentsKept DEF Edit, Writing
<1>3. loaded[s] # None /\ v # None
  BY <1>1 DEF Edit, StoreInv
<1>4. loaded[s] \in [Shown(s) -> Entries] /\ n \in Shown(s)
  BY <1>3 DEF Edit, StoreInv, TypeOK
<1>5. v[n].history = Append(loaded[s][n].history, c)
  BY <1>4 DEF Entries
<1>6. v = [loaded[s] EXCEPT ![n].history = v[n].history]
  BY <1>5
<1>7. n \in DOMAIN loaded[s]
  BY <1>4
<1> HIDE DEF v
<1> QED
  BY <1>1, <1>2, <1>3, <1>6, <1>7 DEF A!Change, A!SetView

LEMMA RefineTruncate ==
    ASSUME StoreInv, StoreInv', NEW s \in Sessions, Truncate(s)
    PROVE  UNCHANGED <<Contents, loaded>>
<1>1. Contents = base[s]
  <2>1. \A t \in Sessions : ~Writing(t)
    BY NobodyElseWrites DEF Truncate, Locked, Writing
  <2> QED
    BY <2>1, ContentsAtRest DEF Truncate, StoreInv
<1>2. Contents' = base'[s]
  <2>1. \A t \in Sessions : Writing(t)' <=> t = s
    BY NobodyElseWrites DEF Truncate, Goto, Locked, Writing, StoreInv, TypeOK
  <2> QED
    BY <2>1 DEF Contents
<1> QED
  BY <1>1, <1>2 DEF Truncate

LEMMA RefineFlush ==
    ASSUME StoreInv, StoreInv', NEW s \in Sessions, Flush(s)
    PROVE  A!Save(s)
<1>1. Contents = base[s]
  BY ContentsWhileWriting DEF Flush, Writing
<1>2. Contents # Torn
  BY <1>1, HistoriesNotTorn DEF StoreInv, TypeOK
<1>3. Contents' = Merged(s)
  <2>1. \A t \in Sessions : ~Writing(t)'
    BY NobodyElseWrites DEF Flush, Goto, Locked, Writing, StoreInv, TypeOK
  <2> QED
    BY <2>1 DEF Contents, Flush
<1>4. loaded[s] # None
  BY DEF Flush, StoreInv
<1>5. DOMAIN loaded[s] = Shown(s)
  BY <1>4 DEF StoreInv, TypeOK
<1>6. loaded' = [loaded EXCEPT ![s] = None]
  BY DEF Flush
<1> QED
  BY <1>1, <1>2, <1>3, <1>4, <1>5, <1>6 DEF A!Save, A!SetView, Merged, ToWrite

\* A process that fails or is killed leaves the store as it was, or tears the file.
LEMMA RefineAbandon ==
    ASSUME StoreInv, StoreInv', NEW s \in Sessions, ReadFails(s) \/ Crash(s)
    PROVE  A!Leave(s) \/ A!Lose(s) \/ UNCHANGED <<Contents, loaded>>
<1>1. loaded' = [loaded EXCEPT ![s] = None] /\ file' = file /\ base' = base
  BY DEF ReadFails, Crash, Abandon
<1>2. ~Writing(s)'
  BY DEF ReadFails, Crash, Abandon, Goto, Writing, StoreInv, TypeOK
<1>3. \A t \in Sessions \ {s} : Writing(t)' = Writing(t)
  BY DEF ReadFails, Crash, Abandon, Goto, Writing, StoreInv, TypeOK
<1>4. CASE Writing(s)
  <2>1. \A t \in Sessions : ~Writing(t)'
    BY <1>2, <1>3, <1>4, NobodyElseWrites DEF Locked, Writing
  <2>2. Contents' = Torn
    BY <1>1, <1>4, <2>1 DEF Contents, StoreInv
  <2>3. loaded[s] # None
    BY <1>4 DEF StoreInv, Writing
  <2> QED
    BY <1>1, <2>2, <2>3 DEF A!Lose, A!SetView
<1>5. CASE ~Writing(s)
  <2>1. \A t \in Sessions : Writing(t)' = Writing(t)
    BY <1>2, <1>3, <1>5 DEF Writing
  <2>2. Contents' = Contents
    BY <1>1, <2>1, ContentsKept
  <2>3. CASE loaded[s] = None
    BY <1>1, <2>2, <2>3 DEF StoreInv, TypeOK
  <2>4. CASE loaded[s] # None
    BY <1>1, <2>2, <2>4 DEF A!Leave, A!SetView
  <2> QED
    BY <2>3, <2>4
<1> QED
  BY <1>4, <1>5

LEMMA RefineStutter ==
    ASSUME UNCHANGED vars
    PROVE  UNCHANGED <<Contents, loaded>>
BY DEF vars, Contents, Writing

LEMMA RefineInit == Init => A!Init
BY DEF Init, A!Init, Contents, Writing, EmptyMap

\* To the sessions that share the state file, each load and each save is one atomic step that
\* touches only the refs the session created or changed.
THEOREM StoreIsAtomic == Spec => ImplementsStoreAtomic
<1>1. ASSUME StoreInv, StoreInv', [Next]_vars
      PROVE  [A!Next]_<<Contents, loaded>>
  BY <1>1, RefineSilent, RefineLoad, RefineEdit, RefineTruncate, RefineFlush, RefineAbandon,
     RefineStutter
  DEF Next, Proceed, A!Next
<1> QED
  BY <1>1, RefineInit, StoreInvariant, PTL DEF Spec, ImplementsStoreAtomic, A!Spec
-----------------------------------------------------------------------------
(* Refs that no two sessions share *)

\* Nobody repairs a file that was left torn.
LEMMA DamageStays ==
    ASSUME StoreInv, Next, Damaged
    PROVE  Damaged'
<1>1. PICK s \in Sessions :
        \/ \E S \in SUBSET Names : Launch(s, S)
        \/ \E n \in Names, c \in Commits : Edit(s, n, c)
        \/ Quit(s) \/ Lock(s) \/ Load(s) \/ Read(s) \/ ReadFails(s) \/ Truncate(s) \/ Flush(s)
        \/ Crash(s)
  BY DEF Next, Proceed
<1>2. ~Truncate(s) /\ ~Flush(s)
  <2>1. ASSUME Truncate(s) PROVE FALSE
    BY <2>1, HistoriesNotTorn DEF Truncate, Damaged, StoreInv, TypeOK
  <2> QED BY <2>1 DEF Flush, Damaged, Writing
<1>3. file' = file
  BY <1>1, <1>2 DEF Launch, Edit, Quit, Lock, Load, Read, ReadFails, Crash
<1>4. \A t \in Sessions : ~Writing(t)'
  BY <1>1, <1>2
     DEF Launch, Edit, Quit, Lock, Load, Read, ReadFails, Crash, Abandon, Goto, Waiting,
         Damaged, Writing, StoreInv, TypeOK
<1> QED BY <1>3, <1>4 DEF Damaged

\* A step that makes no commit, and that leaves refs which stay unshared to whoever shows them.
LEMMA WholeStep ==
    ASSUME WholeInv, UNCHANGED <<refs, log>>, shared \subseteq shared',
           Damaged' \/ (~Damaged /\ Contents' = Contents),
           \A n \in Names \ shared' : \A s \in Sessions :
              /\ Shows(s, n)' <=> Shows(s, n)
              /\ Shows(s, n) => looked'[s] = looked[s] /\ loaded'[s] = loaded[s]
    PROVE  WholeInv'
<1>1. ASSUME NEW n \in Names \ shared'
      PROVE  /\ \A s, t \in Sessions : Shows(s, n)' /\ Shows(t, n)' => s = t
             /\ \A s \in Sessions : Shows(s, n)' =>
                   IF loaded'[s] = None THEN looked'[s][n] = refs'[n]
                   ELSE /\ loaded'[s][n].history = log'[n]
                        /\ ~Damaged' /\ ~loaded'[s][n].created =>
                              n \in DOMAIN Contents' /\ Contents'[n] = loaded'[s][n].historyPrev
             /\ ~Damaged' /\ (\A s \in Sessions : Shows(s, n)' => loaded'[s] = None) =>
                   Stored(n)' = log'[n]
  <2>1. n \in Names \ shared
    BY <1>1
  <2> HIDE DEF Shows
  <2>2. Contents' = Contents => Stored(n)' = Stored(n)
    BY DEF Stored
  <2> QED BY <1>1, <2>1, <2>2 DEF WholeInv
<1>2. \A n \in Names : log'[n] # <<>> /\ Current(log'[n]) = refs'[n]
  BY DEF WholeInv
<1> QED BY <1>1, <1>2 DEF WholeInv

LEMMA InitWhole == Init => WholeInv
<1> SUFFICES ASSUME Init PROVE WholeInv
  OBVIOUS
<1>1. \A s \in Sessions, n \in Names : ~Shows(s, n)
  BY DEF Init, Shows, Live, Waiting, Locked
<1>2. \A n \in Names : Stored(n) = <<Root>> /\ log[n] = <<Root>> /\ refs[n] = Root
  BY DEF Init, Stored, Contents, Writing, EmptyMap
<1>3. <<Root>> # <<>> /\ Current(<<Root>>) = Root
  BY DEF Current
<1> QED BY <1>1, <1>2, <1>3 DEF WholeInv

LEMMA SilentWhole ==
    ASSUME StoreInv, StoreInv', WholeInv, NEW s \in Sessions, Lock(s) \/ Quit(s) \/ Read(s) \/ Truncate(s)
    PROVE  WholeInv'
<1>1. UNCHANGED <<Contents, loaded, looked, refs, log, shared>>
  BY RefineSilent, RefineTruncate DEF Lock, Quit, Read, Truncate
<1>2. \A t \in Sessions : Live(t)' <=> Live(t)
  BY DEF Lock, Quit, Read, Truncate, Goto, Live, Waiting, Locked, VersionAccepted, StoreInv, TypeOK
<1>3. \A n : \A t \in Sessions : Shows(t, n)' <=> Shows(t, n)
  BY <1>1, <1>2 DEF Shows, Shown
<1>4. Damaged => Damaged'
  BY DamageStays DEF Next, Proceed
<1> QED BY <1>1, <1>3, <1>4, WholeStep

LEMMA AbandonWhole ==
    ASSUME StoreInv, StoreInv', WholeInv, NEW s \in Sessions, ReadFails(s) \/ Crash(s)
    PROVE  WholeInv'
<1>1. /\ UNCHANGED <<refs, log, looked, file, base>> /\ shared' = shared \cup Shown(s)
      /\ loaded' = [loaded EXCEPT ![s] = None]
  BY DEF ReadFails, Crash, Abandon
<1>2. \A t \in Sessions \ {s} : pc'[t] = pc[t] /\ loaded'[t] = loaded[t]
  BY DEF ReadFails, Crash, Abandon, Goto, StoreInv, TypeOK
<1>3. pc'[s] \in {"failed", "killed"}
  BY DEF ReadFails, Crash, Abandon, Goto, StoreInv, TypeOK
<1>4. ASSUME NEW n \in Names \ shared', NEW t \in Sessions
      PROVE  /\ Shows(t, n)' <=> Shows(t, n)
             /\ Shows(t, n) => looked'[t] = looked[t] /\ loaded'[t] = loaded[t]
  BY <1>1, <1>2 DEF Shows, Shown, Live, Waiting, Locked
<1>5. Damaged' \/ (~Damaged /\ Contents' = Contents)
  <2>1. CASE Writing(s)
    <3>1. \A t \in Sessions : ~Writing(t)'
      BY <1>2, <1>3, <2>1, NobodyElseWrites DEF Locked, Writing
    <3> QED BY <1>1, <2>1, <3>1 DEF Damaged, StoreInv
  <2>2. CASE ~Writing(s)
    <3>1. \A t \in Sessions : Writing(t)' = Writing(t)
      BY <1>2, <1>3, <2>2 DEF Writing
    <3>2. Contents' = Contents
      BY <1>1, <3>1, ContentsKept
    <3>3. Damaged => Damaged'
      BY <1>1, <3>1 DEF Damaged
    <3> QED BY <3>2, <3>3
  <2> QED BY <2>1, <2>2
<1> QED BY <1>1, <1>4, <1>5, WholeStep

LEMMA LaunchWhole ==
    ASSUME StoreInv, StoreInv', WholeInv, NEW s \in Sessions, NEW S \in SUBSET Names, Launch(s, S)
    PROVE  WholeInv'
<1>1. /\ UNCHANGED <<Contents, loaded, refs, log>>
      /\ shared' = shared \cup {n \in S : \E t \in Sessions \ {s} : Shows(t, n)}
      /\ looked'[s] = [n \in S |-> refs[n]] /\ loaded[s] = None
      /\ ~Live(s) /\ Live(s)'
      /\ \A t \in Sessions \ {s} : looked'[t] = looked[t] /\ (Live(t)' <=> Live(t))
  BY RefineSilent DEF Launch, Goto, Live, Waiting, Locked, StoreInv, TypeOK
<1>2. Damaged => Damaged'
  BY DamageStays DEF Next
<1>3. \A n : \A t \in Sessions \ {s} : Shows(t, n)' <=> Shows(t, n)
  BY <1>1 DEF Shows, Shown
<1>4. \A n : (Shows(s, n)' <=> n \in S) /\ ~Shows(s, n)
  BY <1>1 DEF Shows, Shown
<1>5. ASSUME NEW n \in Names \ shared'
      PROVE  /\ \A t, u \in Sessions : Shows(t, n)' /\ Shows(u, n)' => t = u
             /\ \A t \in Sessions : Shows(t, n)' =>
                   IF loaded'[t] = None THEN looked'[t][n] = refs'[n]
                   ELSE /\ loaded'[t][n].history = log'[n]
                        /\ ~Damaged' /\ ~loaded'[t][n].created =>
                              n \in DOMAIN Contents' /\ Contents'[n] = loaded'[t][n].historyPrev
             /\ ~Damaged' /\ (\A t \in Sessions : Shows(t, n)' => loaded'[t] = None) =>
                   Stored(n)' = log'[n]
  <2>1. n \in Names \ shared /\ (n \in S => \A t \in Sessions \ {s} : ~Shows(t, n))
    BY <1>1, <1>5
  <2>2. \A t, u \in Sessions : Shows(t, n)' /\ Shows(u, n)' => t = u
    BY <1>3, <1>4, <2>1 DEF WholeInv
  <2>3. ASSUME NEW t \in Sessions, Shows(t, n)'
        PROVE  IF loaded'[t] = None THEN looked'[t][n] = refs'[n]
               ELSE /\ loaded'[t][n].history = log'[n]
                    /\ ~Damaged' /\ ~loaded'[t][n].created =>
                          n \in DOMAIN Contents' /\ Contents'[n] = loaded'[t][n].historyPrev
    <3>1. CASE t = s
      BY <1>1, <1>4, <2>3, <3>1
    <3>2. CASE t # s
      BY <1>1, <1>2, <1>3, <2>1, <2>3, <3>2 DEF WholeInv
    <3> QED BY <3>1, <3>2
  <2>4. ASSUME ~Damaged', \A t \in Sessions : Shows(t, n)' => loaded'[t] = None
        PROVE  Stored(n)' = log'[n]
    <3>1. \A t \in Sessions : Shows(t, n) => loaded[t] = None
      BY <1>1, <1>3, <1>4, <2>4
    <3>2. Stored(n) = log[n]
      BY <1>2, <2>1, <2>4, <3>1 DEF WholeInv
    <3> QED BY <1>1, <3>2 DEF Stored
  <2> QED BY <2>2, <2>3, <2>4
<1>6. \A n \in Names : log'[n] # <<>> /\ Current(log'[n]) = refs'[n]
  BY <1>1 DEF WholeInv
<1> QED BY <1>5, <1>6 DEF WholeInv

\* What is loaded of an unshared ref is its history: the file holds it, and it ends in the
\* commit that was looked up.
LEMMA LoadWhole ==
    ASSUME StoreInv, StoreInv', WholeInv, NEW s \in Sessions, Load(s)
    PROVE  WholeInv'
<1> DEFINE v == [n \in Shown(s) |-> LoadedRef(s, n)]
<1>1. /\ UNCHANGED <<looked, refs, log, shared>>
      /\ loaded[s] = None /\ loaded'[s] = v
      /\ \A t \in Sessions \ {s} : loaded'[t] = loaded[t]
      /\ \A t \in Sessions : Live(t)' <=> Live(t)
      /\ Live(s)
  BY DEF Load, Goto, Live, Waiting, Locked, StoreInv, TypeOK
<1>2. Contents = file /\ Contents' = file
  <2>1. \A t \in Sessions : ~Writing(t)
    BY NobodyElseWrites DEF Load, Locked, Writing
  <2>2. \A t \in Sessions : ~Writing(t)'
    BY <2>1 DEF Load, Goto, Writing, StoreInv, TypeOK
  <2> QED BY <2>1, <2>2 DEF Contents, Load
<1>3. ~Damaged
  BY DEF Load, Damaged
<1>4. \A n : \A t \in Sessions : Shows(t, n)' <=> Shows(t, n)
  BY <1>1 DEF Shows, Shown
<1>5. \A n \in Shown(s) : Shows(s, n)
  BY <1>1 DEF Shows
<1>6. v # None
  BY <1>1 DEF StoreInv, Load, Goto, TypeOK
<1>7. ASSUME NEW n \in Names \ shared, n \in Shown(s)
      PROVE  /\ v[n].history = log[n]
             /\ ~v[n].created => n \in DOMAIN file /\ file[n] = v[n].historyPrev
  <2>1. \A t \in Sessions : Shows(t, n) => t = s
    BY <1>5, <1>7 DEF WholeInv
  <2>2. Stored(n) = log[n] /\ looked[s][n] = refs[n] /\ Current(log[n]) = refs[n]
    BY <1>1, <1>3, <1>5, <1>7, <2>1 DEF WholeInv
  <2>3. v[n] = LoadedRef(s, n)
    BY <1>7
  <2> HIDE DEF v
  <2>4. CASE n \in DOMAIN file
    <3>1. file[n] = log[n]
      BY <1>2, <2>2, <2>4 DEF Stored
    <3> QED BY <2>2, <2>3, <2>4, <3>1 DEF LoadedRef
  <2>5. CASE n \notin DOMAIN file
    <3>1. log[n] = <<Root>>
      BY <1>2, <2>2, <2>5 DEF Stored
    <3>2. looked[s][n] = Root
      BY <2>2, <3>1 DEF Current
    <3>3. v[n].history = <<Root>>
      BY <2>3, <2>5, <3>2 DEF LoadedRef
    <3>4. v[n].created = TRUE
      <4>1. (n \notin DOMAIN file) = TRUE
        BY <2>5
      <4> DEFINE fresh == <<looked[s][n]>>
      <4>2. LoadedRef(s, n) = [history |-> fresh, historyPrev |-> fresh, created |-> TRUE]
        BY <2>5, <4>1, Zenon DEF LoadedRef
      <4> HIDE DEF fresh
      <4> QED BY <2>3, <4>2
    <3> QED BY <3>1, <3>3, <3>4
  <2> QED BY <2>4, <2>5
<1> HIDE DEF v
<1>8. ASSUME NEW n \in Names \ shared
      PROVE  /\ \A t, u \in Sessions : Shows(t, n)' /\ Shows(u, n)' => t = u
             /\ \A t \in Sessions : Shows(t, n)' =>
                   IF loaded'[t] = None THEN looked'[t][n] = refs'[n]
                   ELSE /\ loaded'[t][n].history = log'[n]
                        /\ ~Damaged' /\ ~loaded'[t][n].created =>
                              n \in DOMAIN Contents' /\ Contents'[n] = loaded'[t][n].historyPrev
             /\ ~Damaged' /\ (\A t \in Sessions : Shows(t, n)' => loaded'[t] = None) =>
                   Stored(n)' = log'[n]
  <2>1. \A t, u \in Sessions : Shows(t, n)' /\ Shows(u, n)' => t = u
    BY <1>4, <1>8 DEF WholeInv
  <2>2. ASSUME NEW t \in Sessions, Shows(t, n)'
        PROVE  IF loaded'[t] = None THEN looked'[t][n] = refs'[n]
               ELSE /\ loaded'[t][n].history = log'[n]
                    /\ ~Damaged' /\ ~loaded'[t][n].created =>
                          n \in DOMAIN Contents' /\ Contents'[n] = loaded'[t][n].historyPrev
    <3>1. CASE t = s
      <4>1. n \in Shown(s)
        BY <1>4, <2>2, <3>1 DEF Shows
      <4> QED BY <1>1, <1>2, <1>6, <1>7, <1>8, <3>1, <4>1
    <3>2. CASE t # s
      BY <1>1, <1>2, <1>3, <1>4, <1>8, <2>2, <3>2 DEF WholeInv
    <3> QED BY <3>1, <3>2
  <2>3. ASSUME \A t \in Sessions : Shows(t, n)' => loaded'[t] = None
        PROVE  Stored(n)' = log'[n]
    <3>1. \A t \in Sessions : Shows(t, n) => loaded[t] = None
      BY <1>1, <1>4, <2>3
    <3>2. Stored(n) = log[n]
      BY <1>3, <1>8, <3>1 DEF WholeInv
    <3> QED BY <1>1, <1>2, <3>2 DEF Stored
  <2> QED BY <2>1, <2>2, <2>3
<1>9. \A n \in Names : log'[n] # <<>> /\ Current(log'[n]) = refs'[n]
  BY <1>1 DEF WholeInv
<1> QED BY <1>1, <1>8, <1>9 DEF WholeInv

LEMMA EditWhole ==
    ASSUME StoreInv, StoreInv', WholeInv, NEW s \in Sessions, NEW n \in Names, NEW c \in Commits,
           Edit(s, n, c)
    PROVE  WholeInv'
<1>1. /\ UNCHANGED <<looked, pc, file, base, shared>> /\ Shows(s, n) /\ loaded[s] # None
      /\ log' = [log EXCEPT ![n] = Append(@, c)] /\ refs' = [refs EXCEPT ![n] = c]
      /\ loaded' = [loaded EXCEPT ![s] = [loaded[s] EXCEPT ![n].history = Append(@, c)]]
  BY DEF Edit, Shows, Live, StoreInv, TypeOK
<1>2. UNCHANGED Contents /\ (Damaged' <=> Damaged)
  BY <1>1, ContentsKept DEF Writing, Damaged
<1>3. \A m : \A t \in Sessions : Shows(t, m)' <=> Shows(t, m)
  BY <1>1 DEF Shows, Shown, Live, Waiting, Locked
<1>4. loaded[s] \in [Shown(s) -> Entries] /\ n \in Shown(s) /\ log[n] \in Seq(Commits)
  BY <1>1 DEF StoreInv, TypeOK, Shows, Histories
<1>5. /\ loaded'[s][n].history = Append(loaded[s][n].history, c)
      /\ loaded'[s][n].created = loaded[s][n].created
      /\ loaded'[s][n].historyPrev = loaded[s][n].historyPrev
      /\ \A m \in Shown(s) \ {n} : loaded'[s][m] = loaded[s][m]
      /\ loaded'[s] # None
      /\ \A t \in Sessions \ {s} : loaded'[t] = loaded[t]
  <2>1. loaded'[s] = [loaded[s] EXCEPT ![n].history = Append(@, c)]
    BY <1>1 DEF StoreInv, TypeOK
  <2>2. loaded[s][n] \in Entries
    BY <1>4
  <2>3. loaded'[s] # None
    BY <1>1 DEF StoreInv
  <2> QED BY <1>1, <1>4, <2>1, <2>2, <2>3 DEF Entries
<1>6. /\ \A m \in Names : log'[m] # <<>> /\ Current(log'[m]) = refs'[m]
      /\ log'[n] = Append(log[n], c)
  <2>1. /\ log'[n] = Append(log[n], c) /\ refs'[n] = c
        /\ \A m \in Names \ {n} : log'[m] = log[m] /\ refs'[m] = refs[m]
    BY <1>1 DEF StoreInv, TypeOK
  <2>2. Append(log[n], c) # <<>> /\ Current(Append(log[n], c)) = c
    BY <1>4 DEF Current
  <2> QED BY <2>1, <2>2 DEF WholeInv
<1>7. \A m \in Names \ {n} : log'[m] = log[m] /\ refs'[m] = refs[m]
  BY <1>1 DEF StoreInv, TypeOK
<1>8. ASSUME NEW m \in Names \ shared
      PROVE  /\ \A t, u \in Sessions : Shows(t, m)' /\ Shows(u, m)' => t = u
             /\ \A t \in Sessions : Shows(t, m)' =>
                   IF loaded'[t] = None THEN looked'[t][m] = refs'[m]
                   ELSE /\ loaded'[t][m].history = log'[m]
                        /\ ~Damaged' /\ ~loaded'[t][m].created =>
                              m \in DOMAIN Contents' /\ Contents'[m] = loaded'[t][m].historyPrev
             /\ ~Damaged' /\ (\A t \in Sessions : Shows(t, m)' => loaded'[t] = None) =>
                   Stored(m)' = log'[m]
  <2>1. \A t, u \in Sessions : Shows(t, m)' /\ Shows(u, m)' => t = u
    BY <1>3, <1>8 DEF WholeInv
  <2>2. ASSUME NEW t \in Sessions, Shows(t, m)'
        PROVE  IF loaded'[t] = None THEN looked'[t][m] = refs'[m]
               ELSE /\ loaded'[t][m].history = log'[m]
                    /\ ~Damaged' /\ ~loaded'[t][m].created =>
                          m \in DOMAIN Contents' /\ Contents'[m] = loaded'[t][m].historyPrev
    <3>0. Shows(t, m)
      BY <1>3, <2>2
    <3>1. CASE m = n
      <4>1. t = s
        BY <1>1, <1>8, <3>0, <3>1 DEF WholeInv
      <4>2. /\ loaded[s][n].history = log[n]
            /\ ~Damaged /\ ~loaded[s][n].created =>
                  n \in DOMAIN Contents /\ Contents[n] = loaded[s][n].historyPrev
        BY <1>1, <1>8, <3>1 DEF WholeInv
      <4> QED BY <1>2, <1>5, <1>6, <3>1, <4>1, <4>2
    <3>2. CASE m # n
      <4>1. /\ loaded'[t] = None <=> loaded[t] = None
            /\ loaded[t] # None => loaded'[t][m] = loaded[t][m]
        BY <1>1, <1>5, <3>0, <3>2 DEF Shows
      <4> QED BY <1>1, <1>2, <1>7, <1>8, <3>0, <3>2, <4>1 DEF WholeInv
    <3> QED BY <3>1, <3>2
  <2>3. ASSUME ~Damaged', \A t \in Sessions : Shows(t, m)' => loaded'[t] = None
        PROVE  Stored(m)' = log'[m]
    <3>1. m # n
      BY <1>1, <1>3, <1>5, <2>3
    <3>2. \A t \in Sessions : Shows(t, m) => loaded[t] = None
      BY <1>1, <1>3, <1>5, <2>3
    <3>3. Stored(m) = log[m]
      BY <1>2, <1>8, <2>3, <3>2 DEF WholeInv
    <3> QED BY <1>2, <1>7, <3>1, <3>3 DEF Stored
  <2> QED BY <2>1, <2>2, <2>3
<1> QED BY <1>1, <1>6, <1>8 DEF WholeInv

LEMMA FlushWhole ==
    ASSUME StoreInv, StoreInv', WholeInv, NEW s \in Sessions, Flush(s)
    PROVE  WholeInv'
<1>1. /\ UNCHANGED <<looked, refs, log, shared>>
      /\ loaded[s] # None /\ Live(s) /\ ~Live(s)'
      /\ \A t \in Sessions \ {s} : loaded'[t] = loaded[t] /\ (Live(t)' <=> Live(t))
  BY DEF Flush, Goto, Live, Waiting, Locked, StoreInv, TypeOK
<1>2. Contents = base[s] /\ ~Damaged
  BY ContentsWhileWriting DEF Flush, Writing, Damaged
<1>3. Contents' = Merged(s)
  <2>1. \A t \in Sessions : ~Writing(t)'
    BY NobodyElseWrites DEF Flush, Goto, Locked, Writing, StoreInv, TypeOK
  <2> QED BY <2>1 DEF Contents, Flush
<1>4. \A n : \A t \in Sessions \ {s} : Shows(t, n)' <=> Shows(t, n)
  BY <1>1 DEF Shows, Shown
<1>5. \A n : (Shows(s, n) <=> n \in Shown(s)) /\ ~Shows(s, n)'
  BY <1>1 DEF Shows
<1>6. ASSUME NEW n \in Names \ shared
      PROVE  /\ \A t, u \in Sessions : Shows(t, n)' /\ Shows(u, n)' => t = u
             /\ \A t \in Sessions : Shows(t, n)' =>
                   IF loaded'[t] = None THEN looked'[t][n] = refs'[n]
                   ELSE /\ loaded'[t][n].history = log'[n]
                        /\ ~Damaged' /\ ~loaded'[t][n].created =>
                              n \in DOMAIN Contents' /\ Contents'[n] = loaded'[t][n].historyPrev
             /\ ~Damaged' /\ (\A t \in Sessions : Shows(t, n)' => loaded'[t] = None) =>
                   Stored(n)' = log'[n]
  <2>1. CASE n \in Shown(s)
    <3>1. \A t \in Sessions : ~Shows(t, n)'
      BY <1>4, <1>5, <1>6, <2>1 DEF WholeInv
    <3>2. /\ loaded[s][n].history = log[n]
          /\ ~loaded[s][n].created => n \in DOMAIN base[s] /\ base[s][n] = loaded[s][n].historyPrev
      BY <1>1, <1>2, <1>5, <1>6, <2>1 DEF WholeInv
    <3>3. n \in DOMAIN Merged(s) /\ Merged(s)[n] = log[n]
      <4>1. CASE n \in ToWrite(s)
        BY <3>2, <4>1 DEF Merged
      <4>2. CASE n \notin ToWrite(s)
        <5>1. ~loaded[s][n].created /\ loaded[s][n].history = loaded[s][n].historyPrev
          BY <2>1, <4>2 DEF ToWrite
        <5> QED BY <3>2, <4>2, <5>1 DEF Merged
      <4> QED BY <4>1, <4>2
    <3>4. Stored(n)' = log'[n]
      BY <1>1, <1>3, <3>3 DEF Stored
    <3> QED BY <3>1, <3>4
  <2>2. CASE n \notin Shown(s)
    <3>1. n \notin ToWrite(s)
      BY <2>2 DEF ToWrite
    <3>2. (n \in DOMAIN Contents' <=> n \in DOMAIN Contents)
          /\ (n \in DOMAIN Contents => Contents'[n] = Contents[n])
      BY <1>2, <1>3, <3>1 DEF Merged
    <3>3. Stored(n)' = Stored(n)
      BY <3>2 DEF Stored
    <3>4. \A t \in Sessions : /\ Shows(t, n)' <=> Shows(t, n)
                              /\ Shows(t, n) => loaded'[t] = loaded[t]
      BY <1>1, <1>4, <1>5, <2>2
    <3> HIDE DEF Shows
    <3> QED BY <1>1, <1>2, <1>6, <3>2, <3>3, <3>4 DEF WholeInv
  <2> QED BY <2>1, <2>2
<1>7. \A n \in Names : log'[n] # <<>> /\ Current(log'[n]) = refs'[n]
  BY <1>1 DEF WholeInv
<1> QED BY <1>1, <1>6, <1>7 DEF WholeInv

LEMMA StutterWhole ==
    ASSUME WholeInv, UNCHANGED vars
    PROVE  WholeInv'
<1>1. \A s \in Sessions : (Live(s)' <=> Live(s)) /\ (Writing(s)' <=> Writing(s))
  BY DEF vars, Live, Waiting, Locked, Writing
<1>2. \A n : \A s \in Sessions : Shows(s, n)' <=> Shows(s, n)
  BY <1>1 DEF vars, Shows, Shown
<1>3. Damaged' <=> Damaged
  BY <1>1 DEF vars, Damaged
<1>4. UNCHANGED Contents
  BY RefineStutter
<1> HIDE DEF Shows, Damaged, Contents
<1> QED BY <1>2, <1>3, <1>4, WholeStep DEF vars

\* InductiveInv holds in every state of every behaviour.
THEOREM Inductive == Spec => []InductiveInv
<1>1. Init => InductiveInv
  BY InitInv, InitWhole DEF InductiveInv
<1>2. InductiveInv /\ [Next]_vars => InductiveInv'
  <2> SUFFICES ASSUME StoreInv, WholeInv, [Next]_vars PROVE StoreInv' /\ WholeInv'
    BY DEF InductiveInv
  <2>1. StoreInv'
    BY NextInv
  <2>2. WholeInv'
    <3>1. CASE UNCHANGED vars
      BY <3>1, StutterWhole
    <3> QED BY <2>1, <3>1, SilentWhole, AbandonWhole, LaunchWhole, LoadWhole, EditWhole, FlushWhole
            DEF Next, Proceed
  <2> QED BY <2>1, <2>2
<1> QED BY <1>1, <1>2, PTL DEF Spec

\* "so that we don't clobber data written by another debase session, for unrelated refs"
\* (RepoState::write): for any number of sessions and refs.
THEOREM UnsharedAreWhole == Spec => []UnsharedHistoriesAreWhole
<1>1. InductiveInv => UnsharedHistoriesAreWhole
  BY DEF InductiveInv, WholeInv, UnsharedHistoriesAreWhole
<1> QED BY <1>1, Inductive, PTL
=============================================================================
