--------------------------- MODULE SessionProofs ---------------------------
(***************************************************************************)
(* What Session promises for every set of names and commits and for every  *)
(* bound on the histories.                                                 *)
(*                                                                         *)
(* SessionInv is inductive; each action has a lemma saying so.  Type       *)
(* correctness alone is not: that Exit checks out a commit, for example,   *)
(* needs head.ref to exist, which needs HEAD to have been detached before  *)
(* its ref was renamed or deleted.  HeadInv and FileInv, which two         *)
(* properties need besides, are proved on top of it.                       *)
(***************************************************************************)
EXTENDS Session, TLAPS

(* Histories *)

\* A history stays one of S's when an element of S is pushed, and on undo and redo.
LEMMA PushType ==
    ASSUME NEW S, NEW h \in HistoryOf(S), NEW x \in S
    PROVE  Push(h, x) \in HistoryOf(S) /\ Push(h, x).cur = x
BY DEF Push, HistoryOf

LEMMA FreshType ==
    ASSUME NEW S, NEW x \in S
    PROVE  Fresh(x) \in HistoryOf(S) /\ Fresh(x).cur = x
BY DEF Fresh, HistoryOf

LEMMA StepBackType ==
    ASSUME NEW S, NEW h \in HistoryOf(S), CanUndo(h)
    PROVE  /\ PrevPeek(h) \in S
           /\ StepBack(h) \in HistoryOf(S)
           /\ StepBack(h).cur = PrevPeek(h)
BY DEF StepBack, PrevPeek, HistoryOf, CanUndo

LEMMA StepForthType ==
    ASSUME NEW S, NEW h \in HistoryOf(S), CanRedo(h)
    PROVE  /\ NextPeek(h) \in S
           /\ StepForth(h) \in HistoryOf(S)
           /\ StepForth(h).cur = NextPeek(h)
BY DEF StepForth, NextPeek, HistoryOf, CanRedo
-----------------------------------------------------------------------------
(* Maps and RepoState's entries *)

\* Whatever the file says of a ref, what is loaded is its current state.
LEMMA LoadRefType ==
    ASSUME MapOf(Names, Commits, refs), MapOf(Names, DiskEntry, disk),
           \A m \in DOMAIN disk : disk[m].history.cur.name = m,
           NEW n \in DOMAIN refs
    PROVE  /\ LoadRef(refs, n) \in LoadedRef
           /\ LoadRef(refs, n).history.cur = StateOf(refs, n)
           /\ LoadRef(refs, n).snapshotInitial = StateOf(refs, n)
<1> DEFINE st == StateOf(refs, n)
<1>1. st \in RefState
  BY DEF MapOf, StateOf, RefState
<1>2. Fresh(st) \in HistoryOf(RefState) /\ Fresh(st).cur = st
  BY <1>1, FreshType
<1>3. CASE n \notin DOMAIN disk
  BY <1>1, <1>2, <1>3 DEF LoadRef, CreatedRef, LoadedRef
<1>4. CASE n \in DOMAIN disk
  <2>1. disk[n] \in DiskEntry
    BY <1>4 DEF MapOf
  <2>2. disk[n].history \in HistoryOf(RefState) /\ disk[n].snapshots \in SUBSET RefState
    BY <2>1 DEF DiskEntry
  <2>3. disk[n].history.cur \in RefState /\ disk[n].history.cur.name = n
    BY <2>2, <1>4 DEF HistoryOf
  <2>4. disk[n].history.cur.head = refs[n] => disk[n].history.cur = st
    BY <2>3 DEF RefState, StateOf
  <2>5. LoadRef(refs, n) = StoredRef(refs, n)
    BY <1>4 DEF LoadRef
  <2> QED
    BY <1>1, <1>2, <2>2, <2>4, <2>5 DEF StoredRef, LoadedRef
<1> QED BY <1>3, <1>4

\* A recorded modification ends the history in the ref's new state.
LEMMA RecordedType ==
    ASSUME NEW l \in LoadedRef, NEW h \in HistoryOf(RefState)
    PROVE  /\ WithSnapshot([l EXCEPT !.history = h]) \in LoadedRef
           /\ WithSnapshot([l EXCEPT !.history = h]).history = h
           /\ WithSnapshot([l EXCEPT !.history = h]).snapshotInitial = l.snapshotInitial
           /\ l.snapshotInitial \in WithSnapshot([l EXCEPT !.history = h]).snapshots
BY DEF WithSnapshot, LoadedRef

\* What write() stores has the file's type, and ends in a state of its own ref.
LEMMA WrittenType ==
    ASSUME SessionInv
    PROVE  /\ MapOf(Names, DiskEntry, Written)
           /\ \A n \in DOMAIN Written : Written[n].history.cur.name = n
<1>1. \A n \in ToWrite : n \in DOMAIN loaded /\ n \in Names /\ loaded[n] \in LoadedRef
  BY DEF ToWrite, SessionInv, TypeOK, MapOf
<1>2. \A n \in ToWrite : [history |-> loaded[n].history, snapshots |-> loaded[n].snapshots] \in DiskEntry
  BY <1>1 DEF LoadedRef, DiskEntry
<1>3. DOMAIN Written = DOMAIN disk \cup ToWrite
  BY DEF Written
<1>4. \A n \in DOMAIN Written : Written[n] \in DiskEntry /\ Written[n].history.cur.name = n
  BY <1>1, <1>2 DEF Written, SessionInv, TypeOK, MapOf
<1> QED BY <1>1, <1>3, <1>4 DEF Written, SessionInv, TypeOK, MapOf
-----------------------------------------------------------------------------
(* App's helpers *)

\* SessionStartIsKept for one ref.
Kept(l, st) == st # l.snapshotInitial => l.snapshotInitial \in l.snapshots

IsMap(f) == f = [x \in DOMAIN f |-> f[x]]
HeadType == [ref : Names \cup {None}, commit : Commits \cup {None}]

\* If HEAD still names a ref, it was not detached, and its ref is not one of S.
LEMMA DetachHead ==
    ASSUME SessionInv, running, NEW S, S \subseteq Names, DetachHeadIfIn(S)
    PROVE  /\ HEAD' \in Names \cup Commits
           /\ headReattach' \in BOOLEAN
           /\ headReattach' => HEAD' \notin Names
           /\ HEAD' \in Names => HEAD' = HEAD /\ head.ref = HEAD /\ HEAD \notin S
           /\ headReattach' => head.ref # None \/ head = NoHead
<1>1. HeadCommit \in Commits \cup {HEAD} /\ (HEAD \in Names => HeadCommit \in Commits)
  BY DEF SessionInv, HeadResolves, TypeOK, MapOf, HeadCommit
<1>2. HeadCommit \notin Names
  BY <1>1, SessionAssumption DEF SessionInv, TypeOK, HeadCommit
<1>3. CASE head.ref \in S
  BY <1>1, <1>2, <1>3, SessionAssumption DEF DetachHeadIfIn, SessionInv, TypeOK
<1>4. CASE head.ref \notin S
  BY <1>4 DEF DetachHeadIfIn, SessionInv, TypeOK
<1> QED BY <1>3, <1>4

\* After _reload, head and the columns show what git says.
LEMMA ReloadType ==
    ASSUME NEW r, MapOf(Names, Commits, r), NEW S, S \subseteq DOMAIN r,
           NEW h \in HeadType, h.ref # None => h.ref \in DOMAIN r,
           Reload(r, S, h)
    PROVE  /\ head' \in HeadType
           /\ head'.ref = h.ref /\ (h.ref = None => head' = h)
           /\ head'.ref # None => head'.ref \in DOMAIN r /\ head'.commit \in Commits
           /\ revs' \in [S -> Commits]
           /\ \A n \in S : revs'[n] = r[n]
<1>1. head'.ref = h.ref /\ head' \in HeadType /\ (h.ref = None => head' = h)
  BY DEF Reload, HeadType, MapOf
<1>2. head'.ref # None => head'.ref \in DOMAIN r /\ head'.commit \in Commits
  BY DEF Reload, HeadType, MapOf
<1> QED BY <1>1, <1>2 DEF Reload, MapOf
-----------------------------------------------------------------------------
(* Each action preserves SessionInv *)

\* Rewrite and MoveBetween.
LEMMA GitOpExecInv ==
    ASSUME SessionInv, running, NEW new, MapOf(Names, Commits, new), GitOpExec(new)
    PROVE  SessionInv'
<1> DEFINE changed == {n \in DOMAIN new : new[n] # revs[n]}
<1>1. DOMAIN new \subseteq DOMAIN refs /\ DOMAIN new \subseteq DOMAIN loaded
  BY DEF GitOpExec, Mutable, Columns, SessionInv, TypeOK, MapOf
<1>2. MapOf(Names, Commits, refs') /\ DOMAIN refs' = DOMAIN refs
  BY DEF GitOpExec, SessionInv, TypeOK, MapOf
<1>3. \A n \in DOMAIN refs : refs'[n] = IF n \in DOMAIN new THEN new[n] ELSE refs[n]
  BY DEF GitOpExec
<1>4. /\ HEAD' \in Names \cup Commits
      /\ headReattach' \in BOOLEAN
      /\ headReattach' => HEAD' \notin Names
      /\ HEAD' \in Names => HEAD' = HEAD /\ head.ref = HEAD
      /\ headReattach' => head.ref # None \/ head = NoHead
  BY DetachHead DEF GitOpExec, MapOf
<1>5. /\ head' \in HeadType
      /\ head'.ref = head.ref /\ (head.ref = None => head' = head)
      /\ head'.ref # None => head'.ref \in DOMAIN refs' /\ head'.commit \in Commits
      /\ revs' \in [Columns -> Commits]
      /\ \A n \in Columns : revs'[n] = refs'[n]
  <2>1. Columns \subseteq DOMAIN refs' /\ head \in HeadType /\ (head.ref # None => head.ref \in DOMAIN refs')
    BY <1>2 DEF Columns, SessionInv, TypeOK, MapOf, HeadType
  <2>2. Reload(refs', Columns, head)
    BY DEF GitOpExec
  <2> QED BY <1>2, <2>1, <2>2, ReloadType
<1>6. /\ DOMAIN loaded' = DOMAIN loaded
      /\ \A n \in DOMAIN loaded \ changed : loaded'[n] = loaded[n]
      /\ \A n \in changed : loaded'[n] = Recorded(loaded[n], [name |-> n, head |-> new[n]])
  BY <1>1 DEF GitOpExec
<1>7. \A n \in changed : /\ loaded'[n] \in LoadedRef
                         /\ loaded'[n].history.cur = [name |-> n, head |-> new[n]]
                         /\ loaded'[n].snapshotInitial \in loaded'[n].snapshots
  <2> TAKE n \in changed
  <2> DEFINE st == [name |-> n, head |-> new[n]]
  <2>1. st \in RefState /\ loaded[n] \in LoadedRef
    BY <1>1 DEF RefState, SessionInv, TypeOK, MapOf
  <2>2. Push(loaded[n].history, st) \in HistoryOf(RefState) /\ Push(loaded[n].history, st).cur = st
    BY <2>1, PushType DEF LoadedRef
  <2> DEFINE r == WithSnapshot([loaded[n] EXCEPT !.history = Push(loaded[n].history, st)])
  <2>3. r \in LoadedRef /\ r.history = Push(loaded[n].history, st) /\ r.snapshotInitial \in r.snapshots
    BY <2>1, <2>2, RecordedType
  <2>4. loaded'[n] = r
    BY <1>6 DEF Recorded
  <2> HIDE DEF r
  <2> QED BY <2>2, <2>3, <2>4
<1>8. torn' = torn \ changed /\ UNCHANGED <<worktree, disk, running, frozen, checkedOut>>
  BY DEF GitOpExec
<1>9. \A n \in DOMAIN loaded' \ torn' : /\ loaded'[n].history.cur = StateOf(refs', n)
                                        /\ Kept(loaded'[n], StateOf(refs', n))
  <2> TAKE n \in DOMAIN loaded' \ torn'
  <2>1. CASE n \in changed
    BY <1>1, <1>3, <1>7, <2>1 DEF StateOf, Kept
  <2>2. CASE n \notin changed
    <3>1. n \in DOMAIN loaded \ torn /\ n \in Columns /\ n \in DOMAIN refs
      BY <1>6, <1>8, <2>2 DEF Columns, SessionInv, TypeOK, MapOf
    <3>2. refs'[n] = refs[n]
      BY <1>3, <2>2, <3>1 DEF SessionInv
    <3> QED BY <1>6, <2>2, <3>1, <3>2 DEF SessionInv, HistoryTracksRef, SessionStartIsKept, Kept, StateOf
  <2> QED BY <2>1, <2>2
<1>10. MapOf(Names, LoadedRef, loaded') /\ \A n \in DOMAIN loaded' : loaded'[n].history.cur.name = n
  <2>1. \A n \in DOMAIN loaded' : loaded'[n] \in LoadedRef /\ loaded'[n].history.cur.name = n
    <3> TAKE n \in DOMAIN loaded'
    <3>1. CASE n \in changed
      <4>1. loaded'[n] \in LoadedRef /\ loaded'[n].history.cur = [name |-> n, head |-> new[n]]
        BY <1>7, <3>1
      <4> QED BY <4>1
    <3>2. CASE n \notin changed
      BY <1>6, <3>2 DEF SessionInv, TypeOK, MapOf
    <3> QED BY <3>1, <3>2
  <2>2. IsMap(loaded')
    BY DEF GitOpExec, IsMap
  <2> QED BY <1>6, <2>1, <2>2 DEF SessionInv, TypeOK, MapOf, IsMap
<1>11. TypeOK'
  <2>1. MapOf(DOMAIN refs', Commits, revs') /\ DOMAIN loaded' = Columns'
    BY <1>2, <1>5, <1>6 DEF SessionInv, TypeOK, MapOf, Columns
  <2>2. worktree' \in Commits /\ MapOf(Names, DiskEntry, disk)' /\ running' \in BOOLEAN /\ torn' \subseteq Names
    BY <1>8 DEF SessionInv, TypeOK, MapOf
  <2> QED BY <1>2, <1>4, <1>5, <1>8, <1>10, <2>1, <2>2 DEF SessionInv, TypeOK, HeadType
<1> QED
  BY <1>2, <1>4, <1>5, <1>6, <1>8, <1>9, <1>10, <1>11
     DEF SessionInv, HeadResolves, HistoryTracksRef, SessionStartIsKept, Kept, Columns

\* A handler that throws: HEAD may have been detached and one ref changed, which is torn.
LEMMA FailInv ==
    ASSUME SessionInv, running, NEW n \in Names, NEW c \in Commits, NEW S \in SUBSET Names,
           refs' = refs \/ (refs' = [refs EXCEPT ![n] = c] /\ torn' = torn \cup {n}),
           torn \subseteq torn', torn' \subseteq Names,
           DetachHeadIfIn(S),
           UNCHANGED <<worktree, disk, running, head, frozen, revs, loaded, checkedOut>>
    PROVE  SessionInv'
<1>1. MapOf(Names, Commits, refs') /\ DOMAIN refs' = DOMAIN refs
  BY DEF SessionInv, TypeOK, MapOf
<1>2. \A m \in DOMAIN refs \ torn' : refs'[m] = refs[m]
  BY DEF SessionInv, TypeOK, MapOf
<1>3. /\ HEAD' \in Names \cup Commits
      /\ headReattach' \in BOOLEAN
      /\ headReattach' => HEAD' \notin Names
      /\ HEAD' \in Names => HEAD' = HEAD /\ head.ref = HEAD
      /\ headReattach' => head.ref # None \/ head = NoHead
  BY DetachHead
<1>4. \A m \in Columns \ torn' : m \in DOMAIN refs \ torn' /\ m \in Columns \ torn
  BY DEF Columns, SessionInv, TypeOK, MapOf
<1>5. \A m \in DOMAIN loaded' \ torn' : /\ loaded'[m].history.cur = StateOf(refs', m)
                                        /\ Kept(loaded'[m], StateOf(refs', m))
  BY <1>2, <1>4 DEF SessionInv, TypeOK, HistoryTracksRef, SessionStartIsKept, Kept, StateOf
<1>6. TypeOK'
  BY <1>1, <1>3 DEF SessionInv, TypeOK, MapOf, Columns
<1> QED
  BY <1>1, <1>2, <1>3, <1>4, <1>5, <1>6 DEF SessionInv, HeadResolves, HistoryTracksRef, SessionStartIsKept, Kept, Columns

\* Undo, redo, restoring a snapshot and renaming: n becomes st, and its history ends in st.
LEMMA RestoreInv ==
    ASSUME SessionInv, NEW n \in Names, NEW st \in RefState,
           NEW h \in HistoryOf(RefState), h.cur = st, Restore(n, st, h)
    PROVE  SessionInv'
<1> DEFINE m == st.name
           l == WithSnapshot([loaded[n] EXCEPT !.history = h])
           h2 == [head EXCEPT !.ref = Renamed(@, n, st)]
<1>1. /\ n \in Columns /\ n \in DOMAIN refs /\ n \in DOMAIN loaded /\ loaded[n] \in LoadedRef
      /\ m \in Names /\ st.head \in Commits /\ running
  BY DEF Restore, Mutable, Columns, RefState, SessionInv, TypeOK, MapOf
<1>2. /\ MapOf(Names, Commits, refs')
      /\ DOMAIN refs' = (DOMAIN refs \ {n}) \cup {m}
      /\ \A x \in DOMAIN refs \ {n, m} : refs'[x] = refs[x]
      /\ refs'[m] = st.head \/ (m = n /\ revs[n] = st.head /\ refs'[n] = refs[n])
  <2> DEFINE replaced == IF revs[n] # st.head THEN [refs EXCEPT ![n] = st.head] ELSE refs
  <2>1. /\ MapOf(Names, Commits, replaced) /\ DOMAIN replaced = DOMAIN refs
        /\ \A x \in DOMAIN refs \ {n} : replaced[x] = refs[x]
        /\ IF revs[n] # st.head THEN replaced[n] = st.head ELSE replaced[n] = refs[n]
    BY <1>1 DEF SessionInv, TypeOK, MapOf
  <2>2. refs' = IF m = n THEN replaced ELSE Rekey(replaced, n, m, st.head)
    BY DEF Restore, RestoredRefs
  <2> HIDE DEF replaced
  <2>3. CASE m = n
    BY <1>1, <2>1, <2>2, <2>3
  <2>4. CASE m # n
    <3>1. /\ MapOf(Names, Commits, Rekey(replaced, n, m, st.head))
          /\ DOMAIN Rekey(replaced, n, m, st.head) = (DOMAIN replaced \ {n}) \cup {m}
          /\ Rekey(replaced, n, m, st.head)[m] = st.head
          /\ \A x \in DOMAIN replaced \ {n, m} : Rekey(replaced, n, m, st.head)[x] = replaced[x]
      BY <1>1, <2>1 DEF MapOf, Rekey
    <3> QED BY <2>1, <2>2, <2>4, <3>1
  <2> QED BY <2>3, <2>4
<1>3. /\ HEAD' \in Names \cup Commits
      /\ headReattach' \in BOOLEAN
      /\ headReattach' => HEAD' \notin Names
      /\ HEAD' \in Names => HEAD' = HEAD /\ head.ref = HEAD /\ (m # n => HEAD # n)
      /\ headReattach' => head.ref # None \/ head = NoHead
  <2>1. PICK S \in SUBSET Names : DetachHeadIfIn(S) /\ (m # n => n \in S)
    <3>1. m # n => st # StateOf(revs, n)
      BY DEF StateOf
    <3> QED BY <3>1 DEF Restore
  <2> QED BY <1>1, <2>1, DetachHead
<1>4. h2 \in HeadType /\ h2.ref = Renamed(head.ref, n, st) /\ (head.ref = None => h2 = head) /\ (h2.ref # None => h2.ref \in DOMAIN refs')
  <2>1. None \notin Names /\ head \in HeadType
    BY SessionAssumption DEF SessionInv, TypeOK, HeadType
  <2>2. h2 \in HeadType /\ h2.ref = Renamed(head.ref, n, st) /\ h2.commit = head.commit
    BY <1>1, <2>1 DEF HeadType, Renamed
  <2>3. head.ref = None => h2 = head
    BY <2>1, <2>2 DEF HeadType, Renamed
  <2>4. h2.ref # None => h2.ref \in DOMAIN refs'
    BY <1>2, <2>2 DEF SessionInv, Renamed
  <2> QED BY <2>2, <2>3, <2>4
<1>5. /\ head' \in HeadType
      /\ head'.ref = h2.ref /\ (h2.ref = None => head' = h2)
      /\ head'.ref # None => head'.ref \in DOMAIN refs' /\ head'.commit \in Commits
      /\ revs' \in [(Columns \ {n}) \cup {m} -> Commits]
      /\ \A x \in (Columns \ {n}) \cup {m} : revs'[x] = refs'[x]
  <2>1. (Columns \ {n}) \cup {m} \subseteq DOMAIN refs'
    BY <1>2 DEF Columns, SessionInv, TypeOK, MapOf
  <2>2. Reload(refs', (Columns \ {n}) \cup {m}, h2)
    BY DEF Restore
  <2> HIDE DEF h2
  <2> QED BY <1>2, <1>4, <2>1, <2>2, ReloadType
<1>6. /\ l \in LoadedRef /\ l.history = h /\ l.snapshotInitial \in l.snapshots
      /\ MapOf(Names, LoadedRef, loaded')
      /\ DOMAIN loaded' = (DOMAIN loaded \ {n}) \cup {m}
      /\ loaded'[m] = l
      /\ \A x \in DOMAIN loaded \ {n, m} : loaded'[x] = loaded[x]
  <2>1. l \in LoadedRef /\ l.history = h /\ l.snapshotInitial \in l.snapshots
    BY <1>1, RecordedType
  <2>2. loaded' = Rekey(loaded, n, m, l) /\ MapOf(Names, LoadedRef, loaded)
    BY DEF Restore, SessionInv, TypeOK
  <2> HIDE DEF l
  <2>3. /\ MapOf(Names, LoadedRef, Rekey(loaded, n, m, l))
        /\ DOMAIN Rekey(loaded, n, m, l) = (DOMAIN loaded \ {n}) \cup {m}
        /\ Rekey(loaded, n, m, l)[m] = l
        /\ \A x \in DOMAIN loaded \ {n, m} : Rekey(loaded, n, m, l)[x] = loaded[x]
    BY <1>1, <2>1, <2>2 DEF MapOf, Rekey
  <2> QED BY <2>1, <2>2, <2>3
<1> HIDE DEF l, h2
<1>7. /\ torn' = IF refs'[m] = st.head THEN torn \ {n, m} ELSE torn
      /\ UNCHANGED <<worktree, disk, running, frozen>>
      /\ checkedOut' \in Names \cup {None}
  BY <1>1 DEF Restore, Renamed, SessionInv, TypeOK
<1>8. m \notin torn' => refs'[m] = st.head
  BY <1>1, <1>2, <1>7 DEF SessionInv
<1>9. \A x \in DOMAIN loaded' \ torn' : /\ loaded'[x].history.cur = StateOf(refs', x)
                                        /\ Kept(loaded'[x], StateOf(refs', x))
  <2> TAKE x \in DOMAIN loaded' \ torn'
  <2>1. CASE x = m
    <3>1. st = [name |-> m, head |-> st.head]
      BY DEF RefState
    <3> QED BY <1>6, <1>8, <2>1, <3>1 DEF StateOf, Kept
  <2>2. CASE x # m
    <3>1. x \in DOMAIN loaded \ torn /\ x \in DOMAIN refs \ {n, m}
      BY <1>6, <1>7, <2>2 DEF Columns, SessionInv, TypeOK, MapOf
    <3> QED BY <1>2, <1>6, <3>1 DEF SessionInv, HistoryTracksRef, SessionStartIsKept, Kept, StateOf
  <2> QED BY <2>1, <2>2
<1>10. \A x \in DOMAIN loaded' : loaded'[x].history.cur.name = x
  BY <1>6 DEF SessionInv
<1>11. TypeOK'
  <2>1. MapOf(DOMAIN refs', Commits, revs') /\ DOMAIN loaded' = Columns'
    BY <1>1, <1>2, <1>5, <1>6 DEF SessionInv, TypeOK, MapOf, Columns
  <2>2. worktree' \in Commits /\ MapOf(Names, DiskEntry, disk)' /\ running' \in BOOLEAN /\ torn' \subseteq Names
    BY <1>7 DEF SessionInv, TypeOK, MapOf
  <2> QED BY <1>2, <1>3, <1>5, <1>6, <1>7, <2>1, <2>2 DEF SessionInv, TypeOK, HeadType
<1>12. HeadResolves' /\ (HEAD' \in Names => head'.ref = HEAD')
  BY <1>1, <1>2, <1>3, <1>4, <1>5 DEF SessionInv, HeadResolves, Renamed
<1>13. headReattach' => head'.ref # None \/ head' = NoHead
  <2>1. CASE head.ref = None
    BY <1>3, <1>4, <1>5, <2>1 DEF Renamed
  <2>2. CASE head.ref # None
    BY <1>1, <1>4, <1>5, <2>2, SessionAssumption DEF Renamed
  <2> QED BY <2>1, <2>2
<1> QED
  BY <1>1, <1>3, <1>5, <1>7, <1>9, <1>10, <1>11, <1>12, <1>13 DEF SessionInv, HistoryTracksRef, SessionStartIsKept, Kept, Columns

\* _revCreate adds a column whose history starts at its commit.
LEMMA RevCreateInv ==
    ASSUME SessionInv, NEW m \in Names, NEW c \in Commits, RevCreate(m, c)
    PROVE  SessionInv'
<1> DEFINE l == CreatedRef(refs', m)
<1>1. /\ running /\ m \notin DOMAIN refs
      /\ torn' = torn \ {m}
      /\ UNCHANGED <<HEAD, worktree, disk, running, headReattach, frozen, checkedOut>>
  BY DEF RevCreate
<1>2. /\ MapOf(Names, Commits, refs')
      /\ DOMAIN refs' = DOMAIN refs \cup {m}
      /\ refs'[m] = c
      /\ \A x \in DOMAIN refs : refs'[x] = refs[x]
  BY <1>1 DEF RevCreate, Rekey, SessionInv, TypeOK, MapOf
<1>3. l \in LoadedRef /\ l.history.cur = StateOf(refs', m) /\ l.snapshotInitial = StateOf(refs', m)
  <2>1. StateOf(refs', m) \in RefState
    BY <1>2 DEF StateOf, RefState
  <2>2. Fresh(StateOf(refs', m)) \in HistoryOf(RefState) /\ Fresh(StateOf(refs', m)).cur = StateOf(refs', m)
    BY <2>1, FreshType
  <2> QED BY <2>1, <2>2 DEF CreatedRef, LoadedRef
<1>4. loaded' = Rekey(loaded, m, m, l)
  BY DEF RevCreate
<1> HIDE DEF l
<1>5. /\ MapOf(Names, LoadedRef, loaded')
      /\ DOMAIN loaded' = DOMAIN loaded \cup {m}
      /\ loaded'[m] = l
      /\ \A x \in DOMAIN loaded \ {m} : loaded'[x] = loaded[x]
  BY <1>3, <1>4 DEF Rekey, SessionInv, TypeOK, MapOf
<1>6. /\ head' \in HeadType
      /\ head'.ref = head.ref /\ (head.ref = None => head' = head)
      /\ head'.ref # None => head'.ref \in DOMAIN refs' /\ head'.commit \in Commits
      /\ revs' \in [Columns \cup {m} -> Commits]
      /\ \A x \in Columns \cup {m} : revs'[x] = refs'[x]
  <2>1. Columns \cup {m} \subseteq DOMAIN refs' /\ head \in HeadType /\ (head.ref # None => head.ref \in DOMAIN refs')
    BY <1>2 DEF Columns, SessionInv, TypeOK, MapOf, HeadType
  <2>2. Reload(refs', Columns \cup {m}, head)
    BY DEF RevCreate
  <2> QED BY <1>2, <2>1, <2>2, ReloadType
<1>7. \A x \in DOMAIN loaded' \ torn' : /\ loaded'[x].history.cur = StateOf(refs', x)
                                        /\ Kept(loaded'[x], StateOf(refs', x))
  <2> TAKE x \in DOMAIN loaded' \ torn'
  <2>1. CASE x = m
    BY <1>3, <1>5, <2>1 DEF Kept
  <2>2. CASE x # m
    <3>1. x \in DOMAIN loaded \ torn /\ x \in DOMAIN refs
      BY <1>1, <1>5, <2>2 DEF Columns, SessionInv, TypeOK, MapOf
    <3> QED BY <1>2, <1>5, <2>2, <3>1 DEF SessionInv, HistoryTracksRef, SessionStartIsKept, Kept, StateOf
  <2> QED BY <2>1, <2>2
<1>8. \A x \in DOMAIN loaded' : loaded'[x].history.cur.name = x
  BY <1>3, <1>5 DEF SessionInv, StateOf
<1>9. TypeOK'
  <2>1. MapOf(DOMAIN refs', Commits, revs') /\ DOMAIN loaded' = Columns'
    BY <1>2, <1>5, <1>6 DEF SessionInv, TypeOK, MapOf, Columns
  <2> QED BY <1>1, <1>2, <1>5, <1>6, <2>1 DEF SessionInv, TypeOK, HeadType
<1> QED BY <1>1, <1>2, <1>6, <1>7, <1>8, <1>9 DEF SessionInv, HeadResolves, HistoryTracksRef, SessionStartIsKept, Kept, Columns

\* _gitRefDelete: HEAD was detached if it named the ref.
LEMMA RefDeleteInv ==
    ASSUME SessionInv, NEW n \in Names, RefDelete(n)
    PROVE  SessionInv'
<1> DEFINE h2 == IF head.ref = n THEN NoHead ELSE head
<1>1. /\ running /\ torn' = torn \ {n}
      /\ UNCHANGED <<worktree, disk, running, frozen>>
      /\ checkedOut' \in Names \cup {None}
  BY DEF RefDelete, SessionInv, TypeOK
<1>2. /\ MapOf(Names, Commits, refs')
      /\ DOMAIN refs' = DOMAIN refs \ {n}
      /\ \A x \in DOMAIN refs' : refs'[x] = refs[x]
  BY DEF RefDelete, SessionInv, TypeOK, MapOf
<1>3. /\ HEAD' \in Names \cup Commits
      /\ headReattach' \in BOOLEAN
      /\ headReattach' => HEAD' \notin Names
      /\ HEAD' \in Names => HEAD' = HEAD /\ head.ref = HEAD /\ HEAD # n
      /\ headReattach' => head.ref # None \/ head = NoHead
  BY <1>1, DetachHead DEF RefDelete
<1>4. /\ MapOf(Names, LoadedRef, loaded')
      /\ DOMAIN loaded' = DOMAIN loaded \ {n}
      /\ \A x \in DOMAIN loaded' : loaded'[x] = loaded[x]
  BY DEF RefDelete, SessionInv, TypeOK, MapOf
<1>5. h2 \in HeadType /\ (h2.ref # None => h2.ref = head.ref /\ h2.ref \in DOMAIN refs') /\ (head.ref # n => h2 = head)
  BY <1>2 DEF SessionInv, TypeOK, HeadType, NoHead
<1>6. /\ head' \in HeadType
      /\ head'.ref = h2.ref /\ (h2.ref = None => head' = h2)
      /\ head'.ref # None => head'.ref \in DOMAIN refs' /\ head'.commit \in Commits
      /\ revs' \in [Columns \ {n} -> Commits]
      /\ \A x \in Columns \ {n} : revs'[x] = refs'[x]
  <2>1. Columns \ {n} \subseteq DOMAIN refs'
    BY <1>2 DEF Columns, SessionInv, TypeOK, MapOf
  <2>2. Reload(refs', Columns \ {n}, h2)
    BY DEF RefDelete
  <2> HIDE DEF h2
  <2> QED BY <1>2, <1>5, <2>1, <2>2, ReloadType
<1> HIDE DEF h2
<1>7. \A x \in DOMAIN loaded' \ torn' : /\ loaded'[x].history.cur = StateOf(refs', x)
                                        /\ Kept(loaded'[x], StateOf(refs', x))
  <2> TAKE x \in DOMAIN loaded' \ torn'
  <2>1. x \in DOMAIN loaded \ torn /\ x \in DOMAIN refs'
    BY <1>1, <1>2, <1>4 DEF Columns, SessionInv, TypeOK, MapOf
  <2> QED BY <1>2, <1>4, <2>1 DEF SessionInv, HistoryTracksRef, SessionStartIsKept, Kept, StateOf
<1>8. TypeOK'
  <2>1. MapOf(DOMAIN refs', Commits, revs') /\ DOMAIN loaded' = Columns'
    BY <1>2, <1>4, <1>6 DEF SessionInv, TypeOK, MapOf, Columns
  <2>2. worktree' \in Commits /\ MapOf(Names, DiskEntry, disk)' /\ running' \in BOOLEAN /\ torn' \subseteq Names
    BY <1>1 DEF SessionInv, TypeOK, MapOf
  <2> QED BY <1>1, <1>2, <1>3, <1>4, <1>6, <2>1, <2>2 DEF SessionInv, TypeOK, HeadType
<1>9. HeadResolves' /\ (HEAD' \in Names => head'.ref = HEAD')
  BY <1>2, <1>3, <1>5, <1>6 DEF SessionInv, HeadResolves
<1>10. headReattach' => head'.ref # None \/ head' = NoHead
  BY <1>3, <1>6 DEF h2
<1> QED BY <1>1, <1>3, <1>4, <1>6, <1>7, <1>8, <1>9, <1>10 DEF SessionInv, HistoryTracksRef, SessionStartIsKept, Kept, Columns

LEMMA ResizeInv ==
    ASSUME SessionInv, Resize
    PROVE  SessionInv'
<1>1. /\ head' \in HeadType
      /\ head'.ref = head.ref /\ (head.ref = None => head' = head)
      /\ head'.ref # None => head'.ref \in DOMAIN refs /\ head'.commit \in Commits
      /\ revs' \in [Columns -> Commits]
      /\ \A x \in Columns : revs'[x] = refs[x]
  <2>1. /\ MapOf(Names, Commits, refs) /\ Columns \subseteq DOMAIN refs
        /\ head \in HeadType /\ (head.ref # None => head.ref \in DOMAIN refs)
    BY DEF Columns, SessionInv, TypeOK, MapOf, HeadType
  <2> QED BY <2>1, ReloadType DEF Resize
<1>2. UNCHANGED <<refs, HEAD, worktree, disk, running, headReattach, frozen, loaded, torn, checkedOut>>
  BY DEF Resize, git, ghosts
<1>3. MapOf(DOMAIN refs', Commits, revs') /\ Columns' = Columns
  BY <1>1, <1>2 DEF SessionInv, TypeOK, MapOf, Columns
<1>4. TypeOK'
  BY <1>1, <1>2, <1>3 DEF SessionInv, TypeOK, HeadType
<1> QED
  BY <1>1, <1>2, <1>3, <1>4 DEF Resize, SessionInv, HeadResolves, HistoryTracksRef, SessionStartIsKept, StateOf, Columns

\* What a session loads is what git says, whatever was stored.
LEMMA LaunchInv ==
    ASSUME SessionInv, NEW S \in SUBSET Names, NEW dirty \in BOOLEAN, Launch(S, dirty)
    PROVE  SessionInv'
<1>1. /\ S \subseteq DOMAIN refs
      /\ running' = TRUE /\ headReattach' = FALSE /\ torn' = {}
      /\ UNCHANGED <<refs, HEAD, worktree, disk>>
      /\ head' = [ref |-> IF HEAD \in Names THEN HEAD ELSE None, commit |-> HeadCommit]
      /\ revs' = [n \in S |-> refs[n]]
      /\ loaded' = [n \in S |-> LoadRef(refs, n)]
      /\ frozen' \in Names \cup {None} /\ checkedOut' \in Names \cup {None}
  BY DEF Launch, git
<1>2. HeadCommit \in Commits
  BY DEF HeadCommit, SessionInv, HeadResolves, TypeOK, MapOf
<1>3. \A n \in S : /\ loaded'[n] \in LoadedRef
                   /\ loaded'[n].history.cur = StateOf(refs, n)
                   /\ loaded'[n].snapshotInitial = StateOf(refs, n)
  BY <1>1, LoadRefType DEF SessionInv, TypeOK
<1>4. MapOf(DOMAIN refs', Commits, revs') /\ DOMAIN revs' = S /\ \A n \in S : revs'[n] = refs'[n]
  BY <1>1 DEF SessionInv, TypeOK, MapOf
<1>5. MapOf(Names, LoadedRef, loaded') /\ DOMAIN loaded' = S
  BY <1>1, <1>3 DEF MapOf
<1>6. head' \in HeadType /\ (head'.ref # None => head'.ref \in DOMAIN refs' /\ head'.commit \in Commits)
  BY <1>1, <1>2 DEF SessionInv, HeadResolves, HeadType
<1>7. TypeOK'
  BY <1>1, <1>4, <1>5, <1>6 DEF SessionInv, TypeOK, MapOf, HeadType, Columns
<1>8. /\ HistoryTracksRef' /\ SessionStartIsKept'
      /\ \A n \in DOMAIN loaded' : loaded'[n].history.cur.name = n
  <2>1. \A n \in DOMAIN loaded' : /\ loaded'[n].history.cur = [name |-> n, head |-> refs'[n]]
                                  /\ loaded'[n].snapshotInitial = [name |-> n, head |-> refs'[n]]
    BY <1>1, <1>3, <1>5 DEF StateOf
  <2>2. \A n \in DOMAIN loaded' : loaded'[n].history.cur.name = n
    <3> TAKE n \in DOMAIN loaded'
    <3>1. loaded'[n].history.cur = [name |-> n, head |-> refs'[n]]
      BY <2>1
    <3> QED BY <3>1
  <2> QED BY <2>1, <2>2 DEF HistoryTracksRef, SessionStartIsKept, StateOf
<1> QED
  BY <1>1, <1>4, <1>6, <1>7, <1>8 DEF SessionInv, HeadResolves, Columns

\* Exit, ExitLeavesDetached and Crash: HEAD is left alone or set to head.ref, and the file is
\* left alone or written.
LEMMA EndInv ==
    ASSUME SessionInv, End
    PROVE  SessionInv'
<1>1. /\ ForgetSession /\ UNCHANGED <<refs, torn>>
      /\ disk' = disk \/ disk' = Written
      /\ \/ UNCHANGED <<HEAD, worktree>>
         \/ Reattaching /\ HEAD' = head.ref /\ worktree' = head.commit
  BY DEF End, Exit, ExitLeavesDetached, Crash, git
<1>2. /\ running' = FALSE /\ head' = NoHead /\ headReattach' = FALSE /\ frozen' = None
      /\ checkedOut' = None /\ DOMAIN revs' = {} /\ DOMAIN loaded' = {}
      /\ MapOf(DOMAIN refs', Commits, revs') /\ MapOf(Names, LoadedRef, loaded')
  BY <1>1 DEF ForgetSession, EmptyMap, MapOf
<1>3. MapOf(Names, DiskEntry, disk') /\ \A n \in DOMAIN disk' : disk'[n].history.cur.name = n
  BY <1>1, WrittenType DEF SessionInv, TypeOK
<1>4. HEAD' \in Names \cup Commits /\ worktree' \in Commits /\ (HEAD' \in Names => HEAD' \in DOMAIN refs')
  <2>1. CASE UNCHANGED <<HEAD, worktree>>
    BY <1>1, <2>1 DEF SessionInv, TypeOK, HeadResolves
  <2>2. CASE Reattaching /\ HEAD' = head.ref /\ worktree' = head.commit
    <3>1. head.ref # None
      BY <2>2 DEF Reattaching, NoHead, SessionInv, TypeOK
    <3> QED BY <1>1, <2>2, <3>1 DEF SessionInv, TypeOK, MapOf
  <2> QED BY <1>1, <2>1, <2>2
<1>5. TypeOK'
  BY <1>1, <1>2, <1>3, <1>4 DEF SessionInv, TypeOK, NoHead, Columns
<1> QED
  BY <1>1, <1>2, <1>3, <1>4, <1>5 DEF SessionInv, HeadResolves, HistoryTracksRef, SessionStartIsKept, NoHead, Columns

\* git, while no session runs.
LEMMA UseGitInv ==
    ASSUME SessionInv, UseGit
    PROVE  SessionInv'
<1>1. /\ ~running /\ UNCHANGED <<disk, running, head, headReattach, frozen, revs, loaded, torn, checkedOut>>
  BY DEF UseGit, GitWrite, GitCheckout, app, ghosts
<1>2. MapOf(Names, Commits, refs') /\ DOMAIN refs \subseteq DOMAIN refs' /\ worktree' \in Commits
  <2>1. CASE \E n \in Names, c \in Commits : GitWrite(n, c)
    BY <2>1 DEF GitWrite, Rekey, SessionInv, TypeOK, MapOf
  <2>2. CASE \E n \in Names : GitCheckout(n)
    BY <2>2 DEF GitCheckout, SessionInv, TypeOK, MapOf
  <2> QED BY <2>1, <2>2 DEF UseGit
<1>3. HEAD' \in Names \cup Commits /\ (HEAD' \in Names => HEAD' \in DOMAIN refs')
  BY <1>2 DEF UseGit, GitWrite, GitCheckout, SessionInv, TypeOK, HeadResolves
<1>4. Columns = {} /\ Columns' = {} /\ DOMAIN loaded' = {}
  BY <1>1 DEF SessionInv, TypeOK, Columns
<1>5. TypeOK'
  BY <1>1, <1>2, <1>3, <1>4 DEF SessionInv, TypeOK, MapOf, Columns
<1> QED
  BY <1>1, <1>2, <1>3, <1>4, <1>5 DEF SessionInv, HeadResolves, HistoryTracksRef, SessionStartIsKept
-----------------------------------------------------------------------------
(* The specification *)

\* What a click restores is a state, and the history that results ends in it.
LEMMA TargetType ==
    ASSUME SessionInv, NEW n \in Columns,
           NEW t \in UndoTarget(n) \cup RedoTarget(n) \cup SnapshotTarget(n) \cup RenameTarget(n)
    PROVE  t.st \in RefState /\ t.history \in HistoryOf(RefState) /\ t.history.cur = t.st
<1>1. loaded[n] \in LoadedRef
  BY DEF SessionInv, TypeOK, MapOf
<1>2. /\ loaded[n].history \in HistoryOf(RefState)
      /\ loaded[n].snapshots \cup {loaded[n].snapshotInitial} \subseteq RefState
  BY <1>1 DEF LoadedRef
<1>3. CASE t \in UndoTarget(n)
  BY <1>2, <1>3, StepBackType DEF UndoTarget
<1>4. CASE t \in RedoTarget(n)
  BY <1>2, <1>4, StepForthType DEF RedoTarget
<1>5. CASE t \in SnapshotTarget(n)
  BY <1>2, <1>5, PushType DEF SnapshotTarget
<1>6. CASE t \in RenameTarget(n)
  BY <1>2, <1>6, PushType DEF RenameTarget
<1> QED BY <1>3, <1>4, <1>5, <1>6

LEMMA InitInv == Init => SessionInv
<1> SUFFICES ASSUME Init PROVE SessionInv
  OBVIOUS
<1>1. PICK S \in SUBSET Names : refs \in [S -> Commits] /\ HEAD \in S
  BY DEF Init
<1>2. MapOf(Names, Commits, refs) /\ HEAD \in DOMAIN refs /\ HEAD \in Names /\ worktree \in Commits
  BY <1>1 DEF Init, MapOf
<1>3. /\ disk = EmptyMap /\ running = FALSE /\ head = NoHead /\ headReattach = FALSE /\ frozen = None
      /\ revs = EmptyMap /\ loaded = EmptyMap /\ torn = {} /\ checkedOut = None
  BY DEF Init
<1>4. \A D, R : MapOf(D, R, EmptyMap) /\ DOMAIN EmptyMap = {}
  BY DEF MapOf, EmptyMap
<1>5. TypeOK
  BY <1>2, <1>3, <1>4 DEF TypeOK, NoHead, Columns
<1> QED BY <1>2, <1>3, <1>4, <1>5 DEF SessionInv, HeadResolves, HistoryTracksRef, SessionStartIsKept, NoHead, Columns

LEMMA HandleInv ==
    ASSUME SessionInv, Handle
    PROVE  SessionInv'
<1>1. CASE \E n \in Names, c \in Commits : Rewrite(n, c)
  <2>1. PICK n \in Names, c \in Commits : Rewrite(n, c)
    BY <1>1
  <2>2. MapOf(Names, Commits, [x \in {n} |-> c])
    BY DEF MapOf
  <2> QED BY <2>1, <2>2, GitOpExecInv DEF Rewrite
<1>2. CASE \E s, d \in Names, cs, cd \in Commits : MoveBetween(s, d, cs, cd)
  <2>1. PICK s, d \in Names, cs, cd \in Commits : MoveBetween(s, d, cs, cd)
    BY <1>2
  <2>2. MapOf(Names, Commits, [x \in {s, d} |-> IF x = s THEN cs ELSE cd])
    BY DEF MapOf
  <2> QED BY <2>1, <2>2, GitOpExecInv DEF MoveBetween
<1>3. CASE \E n \in Names : UndoRedo(n) \/ RestoreSnapshot(n) \/ RenameRef(n)
  <2>1. PICK n \in Names : UndoRedo(n) \/ RestoreSnapshot(n) \/ RenameRef(n)
    BY <1>3
  <2>2. PICK t \in UndoTarget(n) \cup RedoTarget(n) \cup SnapshotTarget(n) \cup RenameTarget(n) :
           n \in Columns /\ Restore(n, t.st, t.history)
    BY <2>1 DEF UndoRedo, RestoreSnapshot, RenameRef
  <2>3. t.st \in RefState /\ t.history \in HistoryOf(RefState) /\ t.history.cur = t.st
    BY <2>2, TargetType
  <2> QED BY <2>2, <2>3, RestoreInv
<1>4. CASE \E m \in Names, c \in Commits : RevCreate(m, c)
  BY <1>4, RevCreateInv
<1>5. CASE \E n \in Names : RefDelete(n)
  BY <1>5, RefDeleteInv
<1>6. CASE Resize
  BY <1>6, ResizeInv
<1> QED BY <1>1, <1>2, <1>3, <1>4, <1>5, <1>6 DEF Handle

LEMMA FailsInv ==
    ASSUME SessionInv, Fail
    PROVE  SessionInv'
<1>0. torn \subseteq Names
  BY DEF SessionInv, TypeOK
<1>1. CASE \E s, d \in Names, c \in Commits : MoveFailsHalfWay(s, d, c)
  <2>1. PICK s, d \in Names, c \in Commits : MoveFailsHalfWay(s, d, c)
    BY <1>1
  <2>2. {s, d} \in SUBSET Names
    OBVIOUS
  <2> QED BY <1>0, <2>1, <2>2, FailInv DEF MoveFailsHalfWay
<1>2. CASE \E n \in Names : ReplaceFails(n)
  <2>1. PICK n \in Names : ReplaceFails(n)
    BY <1>2
  <2>2. {n} \in SUBSET Names /\ running /\ n \in DOMAIN refs /\ refs[n] \in Commits
    BY <2>1 DEF ReplaceFails, Mutable, Columns, SessionInv, TypeOK, MapOf
  <2> QED BY <1>0, <2>1, <2>2, FailInv DEF ReplaceFails, ghosts
<1>3. CASE \E n \in Names : FailedRestore(n)
  <2>1. PICK n \in Names : FailedRestore(n)
    BY <1>3
  <2>2. PICK t \in UndoTarget(n) \cup RedoTarget(n) \cup SnapshotTarget(n) :
           n \in Columns /\ RestoreFails(n, t.st)
    BY <2>1 DEF FailedRestore
  <2>3. t.st.head \in Commits /\ {n} \in SUBSET Names
    BY <2>2, TargetType DEF RefState
  <2> QED BY <1>0, <2>2, <2>3, FailInv DEF RestoreFails
<1> QED BY <1>1, <1>2, <1>3 DEF Fail

LEMMA StutterInv ==
    ASSUME SessionInv, UNCHANGED vars
    PROVE  SessionInv'
<1>1. UNCHANGED <<refs, HEAD, worktree, disk, running, head, headReattach, frozen, revs, loaded,
                  torn, checkedOut>>
  BY DEF vars, git, app, ghosts
<1>2. TypeOK'
  BY <1>1 DEF SessionInv, TypeOK, MapOf, Columns
<1> QED
  BY <1>1, <1>2 DEF SessionInv, HeadResolves, HistoryTracksRef, SessionStartIsKept, StateOf, Columns

LEMMA NextInv ==
    ASSUME SessionInv, [Next]_vars
    PROVE  SessionInv'
<1>1. CASE Start
  BY <1>1, LaunchInv DEF Start
<1> QED BY <1>1, HandleInv, FailsInv, EndInv, UseGitInv, StutterInv DEF Next

\* SessionInv holds in every state of every behaviour.
THEOREM SessionInvariant == Spec => []SessionInv
<1>1. SessionInv /\ [Next]_vars => SessionInv'
  BY NextInv
<1> QED BY <1>1, InitInv, PTL DEF Spec

\* Every variable keeps its type, and the columns and RepoState's entries stay in step.
THEOREM TypeCorrect == Spec => []TypeOK
BY SessionInvariant, PTL DEF SessionInv

\* Whatever is done in whatever order, a history's current element is what git says the ref is,
\* unless a handler failed on that ref (_undoRedo, _gitOpExec, _trackSnapshotsMenu, RepoState).
THEOREM HistoriesTrackRefs == Spec => []HistoryTracksRef
BY SessionInvariant, PTL DEF SessionInv

\* HEAD never names a ref that was renamed away or deleted (_gitDetachHeadIfEqual).
THEOREM HeadAlwaysResolves == Spec => []HeadResolves
BY SessionInvariant, PTL DEF SessionInv

\* What the ref was when the session started can be restored later (snapshotInitialPush).
THEOREM SessionStartsAreKept == Spec => []SessionStartIsKept
BY SessionInvariant, PTL DEF SessionInv

-----------------------------------------------------------------------------
(* HEAD at the end of a session *)

LEMMA ReloadHead ==
    ASSUME NEW r, NEW S, NEW h \in HeadType, Reload(r, S, h)
    PROVE  head'.ref = h.ref /\ (h.ref # None => head'.commit = r[h.ref])
BY DEF Reload, HeadType

\* A step that detaches HEAD from the refs it changes, and none of them has uncommitted changes.
LEMMA HeadStep ==
    ASSUME SessionInv, HeadInv, running, UNCHANGED <<worktree, frozen>>,
           NEW S, DetachHeadIfIn(S), frozen \notin S,
           head.ref \notin S => head'.ref = head.ref,
           head.ref # None /\ head.ref \notin S => refs'[head.ref] = refs[head.ref],
           head.ref = None => head'.ref = None,
           checkedOut' = head'.ref,
           head'.ref # None /\ head'.ref \notin torn' => head'.commit = refs'[head'.ref]
    PROVE  HeadInv'
<1>1. CASE head.ref \in S
  BY <1>1 DEF HeadInv, DetachHeadIfIn
<1>2. CASE head.ref \notin S
  BY <1>2 DEF HeadInv, DetachHeadIfIn
<1> QED BY <1>1, <1>2

LEMMA HandleHead ==
    ASSUME SessionInv, HeadInv, Handle
    PROVE  HeadInv'
<1>0. /\ head \in HeadType /\ MapOf(Names, Commits, refs) /\ None \notin Names
      /\ head.ref # None => head.ref \in DOMAIN refs
      /\ frozen # None => frozen = head.ref
      /\ running
  BY SessionAssumption
     DEF SessionInv, TypeOK, HeadType, HeadInv, Handle, Rewrite, MoveBetween, UndoRedo,
         RestoreSnapshot, RenameRef, Restore, RevCreate, RefDelete, Resize
<1>1. ASSUME NEW new, DOMAIN new \subseteq Names, GitOpExec(new) PROVE HeadInv'
  <2>1. head'.ref = head.ref /\ (head.ref # None => head'.commit = refs'[head.ref])
    BY <1>0, <1>1, ReloadHead DEF GitOpExec
  <2>2. frozen \notin DOMAIN new /\ checkedOut' = head'.ref
    BY <1>0, <1>1, <2>1 DEF GitOpExec, Mutable, HeadInv
  <2>3. head.ref # None /\ head.ref \notin DOMAIN new => refs'[head.ref] = refs[head.ref]
    BY <1>0, <1>1 DEF GitOpExec
  <2> QED BY <1>0, <1>1, <2>1, <2>2, <2>3, HeadStep DEF GitOpExec
<1>2. ASSUME NEW n \in Names, NEW st \in RefState, NEW h, Restore(n, st, h) PROVE HeadInv'
  <2> DEFINE S == IF st = StateOf(revs, n) THEN {} ELSE {n}
             h2 == [head EXCEPT !.ref = Renamed(@, n, st)]
  <2>1. h2 \in HeadType /\ h2.ref = Renamed(head.ref, n, st) /\ st.name \in Names
    BY <1>0 DEF HeadType, Renamed, RefState
  <2>2. head'.ref = Renamed(head.ref, n, st) /\ (head'.ref # None => head'.commit = refs'[head'.ref])
    BY <1>2, <2>1, ReloadHead DEF Restore
  <2>3. frozen \notin S /\ checkedOut' = head'.ref
    BY <1>0, <1>2, <2>2 DEF Restore, Mutable, HeadInv
  <2>4. CASE st = StateOf(revs, n)
    <3>1. st.name = n /\ revs[n] = st.head
      BY <2>4 DEF StateOf
    <3>2. refs' = refs /\ head'.ref = head.ref
      BY <1>2, <2>2, <3>1 DEF Restore, RestoredRefs, Renamed
    <3> QED BY <1>0, <1>2, <2>2, <2>3, <2>4, <3>2, HeadStep DEF Restore
  <2>5. CASE st # StateOf(revs, n)
    <3>1. head.ref # n => head'.ref = head.ref
      BY <2>2 DEF Renamed
    <3>2. ASSUME head.ref # None, head.ref # n PROVE refs'[head.ref] = refs[head.ref]
      BY <1>0, <1>2, <3>2 DEF Restore, RestoredRefs, NameFree, Rekey, MapOf
    <3>3. DetachHeadIfIn({n}) /\ UNCHANGED <<worktree, frozen>>
      BY <1>2, <2>5 DEF Restore
    <3> QED BY <1>0, <2>2, <2>3, <2>5, <3>1, <3>2, <3>3, HeadStep
  <2> QED BY <2>4, <2>5
<1>3. ASSUME NEW m \in Names, NEW c, RevCreate(m, c) PROVE HeadInv'
  <2>1. head'.ref = head.ref /\ (head.ref # None => head'.commit = refs'[head.ref])
    BY <1>0, <1>3, ReloadHead DEF RevCreate
  <2>2. head.ref # None => refs'[head.ref] = refs[head.ref]
    BY <1>0, <1>3 DEF RevCreate, Rekey
  <2>3. DetachHeadIfIn({}) /\ checkedOut' = head'.ref
    BY <1>0, <1>3, <2>1 DEF RevCreate, DetachHeadIfIn, HeadInv
  <2> QED BY <1>0, <1>3, <2>1, <2>2, <2>3, HeadStep DEF RevCreate
<1>4. ASSUME NEW n \in Names, RefDelete(n) PROVE HeadInv'
  <2> DEFINE h2 == IF head.ref = n THEN NoHead ELSE head
  <2>1. h2 \in HeadType /\ h2.ref = IF head.ref = n THEN None ELSE head.ref
    BY <1>0 DEF HeadType, NoHead
  <2>2. head'.ref = h2.ref /\ (h2.ref # None => head'.commit = refs'[h2.ref])
    BY <1>4, <2>1, ReloadHead DEF RefDelete
  <2>3. frozen \notin {n} /\ checkedOut' = head'.ref
    BY <1>0, <1>4, <2>1, <2>2 DEF RefDelete, Mutable, HeadInv
  <2>4. head.ref # None /\ head.ref \notin {n} => refs'[head.ref] = refs[head.ref]
    BY <1>0, <1>4 DEF RefDelete
  <2> QED BY <1>0, <1>4, <2>1, <2>2, <2>3, <2>4, HeadStep DEF RefDelete
<1>5. CASE Resize
  <2>1. head'.ref = head.ref /\ (head.ref # None => head'.commit = refs[head.ref])
    BY <1>0, <1>5, ReloadHead DEF Resize
  <2>2. DetachHeadIfIn({}) /\ UNCHANGED <<refs, worktree, frozen>> /\ checkedOut' = head'.ref
    BY <1>0, <1>5, <2>1 DEF Resize, DetachHeadIfIn, HeadInv, git, ghosts
  <2> QED BY <1>0, <2>1, <2>2, HeadStep
<1>6. CASE \E n \in Names : UndoRedo(n) \/ RestoreSnapshot(n) \/ RenameRef(n)
  <2>1. PICK n \in Names : UndoRedo(n) \/ RestoreSnapshot(n) \/ RenameRef(n)
    BY <1>6
  <2>2. PICK t \in UndoTarget(n) \cup RedoTarget(n) \cup SnapshotTarget(n) \cup RenameTarget(n) :
           n \in Columns /\ Restore(n, t.st, t.history)
    BY <2>1 DEF UndoRedo, RestoreSnapshot, RenameRef
  <2> QED BY <1>2, <2>2, TargetType
<1> QED BY <1>1, <1>3, <1>4, <1>5, <1>6 DEF Handle, Rewrite, MoveBetween

LEMMA FailHead ==
    ASSUME SessionInv, HeadInv, Fail
    PROVE  HeadInv'
<1>1. PICK S \in SUBSET Names :
        /\ DetachHeadIfIn(S) /\ frozen \notin S /\ running /\ torn \subseteq torn'
        /\ \A n \in DOMAIN refs \ S : refs'[n] = refs[n]
        /\ \A n \in DOMAIN refs \ torn' : refs'[n] = refs[n]
        /\ UNCHANGED <<worktree, head, frozen, checkedOut>>
  <2>1. CASE \E s, d \in Names, c \in Commits : MoveFailsHalfWay(s, d, c)
    <3>1. PICK s, d \in Names, c \in Commits : MoveFailsHalfWay(s, d, c)
      BY <2>1
    <3> WITNESS {s, d} \in SUBSET Names
    <3> QED BY <3>1 DEF MoveFailsHalfWay, Mutable
  <2>2. CASE \E n \in Names : ReplaceFails(n)
    <3>1. PICK n \in Names : ReplaceFails(n)
      BY <2>2
    <3> WITNESS {n} \in SUBSET Names
    <3> QED BY <3>1 DEF ReplaceFails, Mutable, ghosts
  <2>3. CASE \E n \in Names : FailedRestore(n)
    <3>1. PICK n \in Names : FailedRestore(n)
      BY <2>3
    <3> WITNESS {n} \in SUBSET Names
    <3> QED BY <3>1 DEF FailedRestore, RestoreFails, Mutable
  <2> QED BY <2>1, <2>2, <2>3 DEF Fail
<1>2. head.ref # None => head.ref \in DOMAIN refs
  BY DEF SessionInv
<1>3. head'.ref # None /\ head'.ref \notin torn' => head'.commit = refs'[head'.ref]
  BY <1>1, <1>2 DEF HeadInv
<1>4. checkedOut' = head'.ref
  BY <1>1 DEF HeadInv
<1> QED BY <1>1, <1>2, <1>3, <1>4, HeadStep

LEMMA LaunchHead ==
    ASSUME SessionInv, NEW S \in SUBSET Names, NEW dirty \in BOOLEAN, Launch(S, dirty)
    PROVE  HeadInv'
BY SessionAssumption DEF Launch, git, HeadInv, HeadCommit

-----------------------------------------------------------------------------
(* The file during a session *)

LEMMA FileStep ==
    ASSUME FileInv, disk' = disk,
           \A n \in DOMAIN loaded' :
              \/ loaded'[n].created
              \/ \E k \in DOMAIN loaded : /\ loaded'[n].created = loaded[k].created
                                          /\ loaded'[n].historyPrev = loaded[k].historyPrev
    PROVE  FileInv'
BY DEF FileInv, Loadable

LEMMA RecordedKeeps ==
    ASSUME NEW l \in LoadedRef, NEW h
    PROVE  /\ WithSnapshot([l EXCEPT !.history = h]).created = l.created
           /\ WithSnapshot([l EXCEPT !.history = h]).historyPrev = l.historyPrev
BY DEF WithSnapshot, LoadedRef

LEMMA HandleFile ==
    ASSUME SessionInv, FileInv, Handle
    PROVE  FileInv'
<1>0. \A n \in DOMAIN loaded : loaded[n] \in LoadedRef
  BY DEF SessionInv, TypeOK, MapOf
<1>1. ASSUME NEW new, GitOpExec(new) PROVE FileInv'
  <2>1. disk' = disk /\ DOMAIN loaded' = DOMAIN loaded
    BY <1>1 DEF GitOpExec
  <2>2. ASSUME NEW n \in DOMAIN loaded
        PROVE  /\ loaded'[n].created = loaded[n].created
               /\ loaded'[n].historyPrev = loaded[n].historyPrev
    <3>1. \/ loaded'[n] = loaded[n]
          \/ loaded'[n] = Recorded(loaded[n], [name |-> n, head |-> new[n]])
      BY <1>1 DEF GitOpExec
    <3>2. loaded[n] \in LoadedRef
      BY <1>0
    <3> QED  BY <3>1, <3>2, RecordedKeeps DEF Recorded
  <2> QED  BY <2>1, <2>2, FileStep
<1>2. ASSUME NEW n, NEW st, NEW h, Restore(n, st, h) PROVE FileInv'
  <2>1. n \in DOMAIN loaded
    BY <1>2 DEF Restore, Mutable, SessionInv, TypeOK
  <2>2. disk' = disk /\ loaded' = Rekey(loaded, n, st.name, WithSnapshot([loaded[n] EXCEPT !.history = h]))
    BY <1>2 DEF Restore
  <2>3. \A x \in DOMAIN loaded' : \E k \in DOMAIN loaded :
           /\ loaded'[x].created = loaded[k].created
           /\ loaded'[x].historyPrev = loaded[k].historyPrev
    <3> TAKE x \in DOMAIN loaded'
    <3>1. CASE x = st.name
      <4>1. loaded'[x] = WithSnapshot([loaded[n] EXCEPT !.history = h])
        BY <2>2, <3>1 DEF Rekey
      <4> QED BY <1>0, <2>1, <4>1, RecordedKeeps
    <3>2. CASE x # st.name
      <4>1. x \in DOMAIN loaded /\ loaded'[x] = loaded[x]
        BY <2>2, <3>2 DEF Rekey
      <4> QED BY <4>1
    <3> QED BY <3>1, <3>2
  <2> QED BY <2>2, <2>3, FileStep
<1>3. ASSUME NEW m, NEW c, RevCreate(m, c) PROVE FileInv'
  <2>1. \A x \in DOMAIN loaded' : loaded'[x].created \/ (x \in DOMAIN loaded /\ loaded'[x] = loaded[x])
    BY <1>3 DEF RevCreate, Rekey, CreatedRef
  <2> QED BY <1>3, <2>1, FileStep DEF RevCreate
<1>4. ASSUME NEW n, RefDelete(n) PROVE FileInv'
  <2>1. \A x \in DOMAIN loaded' : x \in DOMAIN loaded /\ loaded'[x] = loaded[x]
    BY <1>4 DEF RefDelete
  <2> QED BY <1>4, <2>1, FileStep DEF RefDelete
<1>5. CASE Resize
  BY <1>5, FileStep DEF Resize
<1> QED
  BY <1>1, <1>2, <1>3, <1>4, <1>5
     DEF Handle, Rewrite, MoveBetween, UndoRedo, RestoreSnapshot, RenameRef

LEMMA LaunchFile ==
    ASSUME SessionInv, NEW S \in SUBSET Names, NEW dirty \in BOOLEAN, Launch(S, dirty)
    PROVE  FileInv'
<1> SUFFICES ASSUME NEW n \in DOMAIN loaded', ~loaded'[n].created
             PROVE  Loadable(loaded'[n].historyPrev)
  BY DEF FileInv, Loadable, Launch
<1>1. loaded'[n] = LoadRef(refs, n) /\ disk' = disk
  BY DEF Launch
<1>2. n \in DOMAIN disk
  BY <1>1 DEF LoadRef, CreatedRef
<1>3. loaded'[n].historyPrev = IF disk[n].history.cur.head = refs[n] THEN disk[n].history
                               ELSE Fresh(StateOf(refs, n))
  BY <1>1, <1>2 DEF LoadRef, StoredRef
<1>4. disk[n].history.cur.name = n
  BY <1>2 DEF SessionInv
<1>5. CASE disk[n].history.cur.head = refs[n]
  BY <1>1, <1>2, <1>3, <1>4, <1>5 DEF Loadable
<1>6. CASE disk[n].history.cur.head # refs[n]
  <2>1. /\ loaded'[n].historyPrev = Fresh(StateOf(refs, n))
        /\ loaded'[n].historyPrev.cur = StateOf(refs, n)
    BY <1>3, <1>6 DEF Fresh
  <2>2. loaded'[n].historyPrev.cur.name = n /\ loaded'[n].historyPrev.cur.head = refs[n]
    BY <2>1 DEF StateOf
  <2> QED BY <1>1, <1>2, <1>6, <2>1, <2>2 DEF Loadable
<1> QED BY <1>5, <1>6

LEMMA NextFile ==
    ASSUME SessionInv, FileInv, [Next]_vars
    PROVE  FileInv'
<1>1. CASE Fail
  BY <1>1, FileStep DEF Fail, MoveFailsHalfWay, ReplaceFails, FailedRestore, RestoreFails
<1>2. CASE Start
  BY <1>2, LaunchFile DEF Start
<1>3. CASE End
  BY <1>3 DEF End, Exit, ExitLeavesDetached, Crash, ForgetSession, EmptyMap, FileInv
<1>4. CASE UseGit
  BY <1>4, FileStep DEF UseGit, GitWrite, GitCheckout, app
<1>5. CASE UNCHANGED vars
  BY <1>5, FileStep DEF vars, app
<1> QED BY <1>1, <1>2, <1>3, <1>4, <1>5, HandleFile DEF Next
-----------------------------------------------------------------------------
(* InductiveInv and HeadComesBack *)

\* InductiveInv holds in every state of every behaviour.
THEOREM Inductive == Spec => []InductiveInv
<1>1. Init => InductiveInv
  BY InitInv DEF Init, InductiveInv, HeadInv, FileInv, EmptyMap
<1>2. InductiveInv /\ [Next]_vars => InductiveInv'
  <2> SUFFICES ASSUME SessionInv, HeadInv, FileInv, [Next]_vars
               PROVE  SessionInv' /\ HeadInv' /\ FileInv'
    BY DEF InductiveInv
  <2>1. SessionInv'
    BY NextInv
  <2>2. HeadInv'
    <3>1. CASE Start
      BY <3>1, LaunchHead DEF Start
    <3>2. CASE End
      BY <3>2 DEF End, Exit, ExitLeavesDetached, Crash, ForgetSession, HeadInv
    <3>3. CASE UseGit
      BY <3>3 DEF UseGit, GitWrite, GitCheckout, HeadInv
    <3>4. CASE UNCHANGED vars
      BY <3>4 DEF vars, git, app, ghosts, HeadInv
    <3> QED BY <3>1, <3>2, <3>3, <3>4, HandleHead, FailHead DEF Next
  <2> QED BY <2>1, <2>2, NextFile
<1> QED BY <1>1, <1>2, PTL DEF Spec

\* The branch that was checked out at launch is checked out again at exit, under the name it
\* has by then and with a work tree as clean as it was (App::run, headAttach in its Defer).
THEOREM HeadReturns == Spec => HeadComesBack
<1> DEFINE Back == \A saved \in BOOLEAN : Exit(saved) =>
                      IF checkedOut = None THEN HEAD' \notin Names
                      ELSE /\ HEAD' = checkedOut
                           /\ IF frozen = checkedOut THEN UNCHANGED <<worktree, refs>>
                              ELSE checkedOut \notin torn => worktree' = refs[checkedOut]
<1>1. InductiveInv /\ [Next]_vars => [Back]_vars
  <2> SUFFICES ASSUME SessionInv, HeadInv, NEW saved \in BOOLEAN, Exit(saved)
               PROVE  IF checkedOut = None THEN HEAD' \notin Names
                      ELSE /\ HEAD' = checkedOut
                           /\ IF frozen = checkedOut THEN UNCHANGED <<worktree, refs>>
                              ELSE checkedOut \notin torn => worktree' = refs[checkedOut]
    BY DEF InductiveInv
  <2>1. /\ running /\ checkedOut = head.ref /\ refs' = refs
        /\ HEAD' = IF Reattaching THEN head.ref ELSE HEAD
        /\ worktree' = IF Reattaching THEN head.commit ELSE worktree
    BY DEF Exit, HeadInv
  <2>2. CASE head.ref = None
    <3>1. ~Reattaching
      BY <2>2 DEF Reattaching, SessionInv
    <3> QED BY <2>1, <2>2, <3>1, SessionAssumption DEF SessionInv
  <2>3. CASE head.ref # None
    <3>1. Reattaching <=> headReattach
      BY <2>3 DEF Reattaching, NoHead
    <3> QED BY <2>1, <2>3, <3>1 DEF HeadInv
  <2> QED BY <2>2, <2>3
<1> QED BY <1>1, Inductive, PTL DEF Spec, HeadComesBack
-----------------------------------------------------------------------------
(* What handlers may change *)

\* No handler, whether it succeeds or throws, moves, replaces or deletes a ref that is not a
\* column the user may change (Rev::isMutable, refCopy without force).
THEOREM OnlyMutableColumns == Spec => OnlyMutableColumnsChange
<1> DEFINE Guarded == running => \A n \in DOMAIN refs : (n \notin DOMAIN refs' \/ refs'[n] # refs[n]) => Mutable(n)
<1>1. SessionInv /\ [Next]_vars => [Guarded]_vars
  <2> SUFFICES ASSUME SessionInv, Next, running, NEW n \in DOMAIN refs,
                      n \notin DOMAIN refs' \/ refs'[n] # refs[n]
               PROVE  Mutable(n)
    BY DEF vars
  <2>1. CASE Handle
    <3>1. ASSUME NEW new, GitOpExec(new) PROVE Mutable(n)
      BY <3>1 DEF GitOpExec
    <3>2. ASSUME NEW m \in Names, NEW st, NEW h, Restore(m, st, h) PROVE Mutable(n)
      <4>1. CASE n = m
        BY <3>2, <4>1 DEF Restore
      <4>2. CASE n # m
        BY <3>2, <4>2 DEF Restore, RestoredRefs, NameFree, Rekey, SessionInv, TypeOK, MapOf
      <4> QED BY <4>1, <4>2
    <3>3. ASSUME NEW m, NEW c, RevCreate(m, c) PROVE FALSE
      BY <3>3 DEF RevCreate, Rekey
    <3>4. ASSUME NEW m, RefDelete(m) PROVE Mutable(n)
      BY <3>4 DEF RefDelete
    <3>5. CASE Resize
      BY <3>5 DEF Resize, git
    <3> QED BY <2>1, <3>1, <3>2, <3>3, <3>4, <3>5
           DEF Handle, Rewrite, MoveBetween, UndoRedo, RestoreSnapshot, RenameRef
  <2>2. CASE Fail
    BY <2>2 DEF Fail, MoveFailsHalfWay, ReplaceFails, FailedRestore, RestoreFails, SessionInv, TypeOK, MapOf
  <2>3. CASE Start \/ End \/ UseGit
    BY <2>3 DEF Start, Launch, End, Exit, ExitLeavesDetached, Crash, UseGit, GitWrite, GitCheckout, git
  <2> QED BY <2>1, <2>2, <2>3 DEF Next
<1> QED BY <1>1, SessionInvariant, PTL DEF Spec, OnlyMutableColumnsChange
-----------------------------------------------------------------------------
(***************************************************************************)
(* Session implements Timelines.  Two refs never have equal timelines, as  *)
(* they differ in the name, so replacing the timeline of one leaves those  *)
(* of the others (LinesOutside); what is left is which timelines a step    *)
(* changes, and that each change is one that Timelines knows.              *)
(***************************************************************************)
Whole == DOMAIN refs \ torn
Lines == {Timeline(n) : n \in Whole}

LEMMA LineNow ==
    ASSUME NEW n, NEW m
    PROVE  /\ Timeline(n).now.name = n
           /\ Timeline(n) = Timeline(m) => n = m
<1>1. \A k : Timeline(k).now.name = k
  BY DEF Timeline, StateOf
<1> QED BY <1>1

LEMMA LineOfLoaded ==
    ASSUME NEW n, n \in DOMAIN loaded
    PROVE  Timeline(n) = [past |-> loaded[n].history.prev, now |-> StateOf(refs, n),
                          future |-> loaded[n].history.next]
BY DEF Timeline

LEMMA LineKept ==
    ASSUME NEW n, UNCHANGED disk, refs'[n] = refs[n],
           n \in DOMAIN loaded' <=> n \in DOMAIN loaded,
           n \in DOMAIN loaded => loaded'[n].history = loaded[n].history
    PROVE  Timeline(n)' = Timeline(n)
BY DEF Timeline, StateOf, LoadRef, StoredRef, CreatedRef

\* The refs of K were replaced by those of K2, and the others kept their timelines.
LEMMA LinesOutside ==
    ASSUME NEW K, NEW K2, Whole' \ K2 = Whole \ K, K2 \subseteq Whole',
           \A n \in Whole \ K : Timeline(n)' = Timeline(n)
    PROVE  Lines' = (Lines \ {Timeline(n) : n \in K}) \cup {Timeline(n)' : n \in K2}
<1>1. Lines' = {Timeline(n)' : n \in Whole'}
  BY DEF Lines
<1>2. Lines \ {Timeline(n) : n \in K} = {Timeline(n) : n \in Whole \ K}
  BY LineNow DEF Lines
<1>3. {Timeline(n)' : n \in Whole \ K} = {Timeline(n) : n \in Whole \ K}
  OBVIOUS
<1>4. Whole' = (Whole \ K) \cup K2
  OBVIOUS
<1>5. {Timeline(n)' : n \in Whole'} = {Timeline(n)' : n \in Whole \ K} \cup {Timeline(n)' : n \in K2}
  BY <1>4
<1> QED BY <1>1, <1>2, <1>3, <1>5

\* A timeline that joins is about a ref that was not answered for.
LEMMA NewNow ==
    ASSUME NEW n, n \notin Whole, NEW st, st.name = n
    PROVE  st \notin T!Nows(Lines)
BY LineNow DEF T!Nows, Lines

\* A modification of a ref whose history tracks it is an edit of its timeline.
LEMMA LineEdited ==
    ASSUME SessionInv, NEW n \in DOMAIN loaded \ torn, NEW m \in DOMAIN loaded', NEW x,
           loaded'[m].history = Push(loaded[n].history, x)
    PROVE  T!Edited(Timeline(n), Timeline(m)')
<1>1. loaded[n].history.cur = StateOf(refs, n)
  BY DEF SessionInv, HistoryTracksRef
<1>2. Timeline(n) = [past |-> loaded[n].history.prev, now |-> StateOf(refs, n),
                     future |-> loaded[n].history.next]
  BY LineOfLoaded
<1>3. Timeline(m)' = [past |-> loaded'[m].history.prev, now |-> StateOf(refs', m),
                      future |-> loaded'[m].history.next]
  BY DEF Timeline
<1>4. loaded'[m].history.prev = <<loaded[n].history.cur>> \o loaded[n].history.prev
      /\ loaded'[m].history.next = <<>>
  BY DEF Push
<1> HIDE DEF Timeline
<1> QED BY <1>1, <1>2, <1>3, <1>4 DEF T!Edited

LEMMA GitOpExecLines ==
    ASSUME SessionInv, running, NEW s \in Names, NEW d \in Names,
           NEW new, new \in [{s, d} -> Commits], GitOpExec(new)
    PROVE  T!Next \/ UNCHANGED <<running, Lines>>
<1> DEFINE changed == {n \in {s, d} : new[n] # revs[n]}
<1>1. /\ running' /\ running' = running /\ disk' = disk /\ torn' = torn \ changed
      /\ DOMAIN refs' = DOMAIN refs /\ DOMAIN loaded' = DOMAIN loaded
      /\ {s, d} \subseteq DOMAIN refs /\ {s, d} \subseteq DOMAIN loaded
      /\ \A n \in {s, d} \ torn : revs[n] = refs[n]
      /\ \A n \in DOMAIN refs : refs'[n] = IF n \in {s, d} THEN new[n] ELSE refs[n]
      /\ \A n \in DOMAIN loaded \ changed : loaded'[n] = loaded[n]
  BY DEF GitOpExec, Mutable, Columns, SessionInv, TypeOK, MapOf
<1>2. \A n \in changed : loaded'[n].history = Push(loaded[n].history, [name |-> n, head |-> new[n]])
  <2> TAKE n \in changed
  <2>1. loaded[n] \in LoadedRef /\ loaded'[n] = Recorded(loaded[n], [name |-> n, head |-> new[n]])
    BY <1>1 DEF GitOpExec, SessionInv, TypeOK, MapOf
  <2> QED BY <2>1 DEF Recorded, WithSnapshot, LoadedRef
<1>3. \A n \in changed \ torn : T!Edited(Timeline(n), Timeline(n)')
  BY <1>1, <1>2, LineEdited
<1>4. \A n \in changed \cap torn : Timeline(n)'.now \notin T!Nows(Lines)
  <2> TAKE n \in changed \cap torn
  <2>1. Timeline(n)'.now.name = n /\ n \notin Whole
    BY DEF Timeline, StateOf, Whole
  <2> QED BY <2>1, NewNow
<1>5. Lines' = (Lines \ {Timeline(n) : n \in changed \ torn}) \cup {Timeline(n)' : n \in changed}
  <2>1. Whole' \ changed = Whole \ (changed \ torn) /\ changed \subseteq Whole'
    BY <1>1 DEF Whole
  <2>2. \A n \in Whole \ (changed \ torn) : Timeline(n)' = Timeline(n)
    <3> TAKE n \in Whole \ (changed \ torn)
    <3>1. n \in DOMAIN refs /\ n \notin torn /\ n \notin changed /\ refs'[n] = refs[n]
      BY <1>1 DEF Whole
    <3> QED BY <1>1, <3>1, LineKept
  <2> HIDE DEF changed
  <2> QED BY <2>1, <2>2, LinesOutside
<1>6. \A n \in changed : (n \notin torn => Timeline(n) \in Lines) /\ Timeline(n)' \in Lines'
  BY <1>1 DEF Lines, Whole
<1>7. CASE changed = {}
  <2>1. Lines' = Lines
    BY <1>5, <1>7
  <2> QED BY <1>1, <2>1
<1>8. ASSUME NEW n, changed = {n}, n \notin torn PROVE T!Edit
  <2>1. Lines' = (Lines \ {Timeline(n)}) \cup {Timeline(n)'}
    BY <1>5, <1>8
  <2> HIDE DEF changed
  <2> QED BY <1>1, <1>3, <1>6, <1>8, <2>1 DEF T!Edit, T!Replaced, Lines, Whole
<1>9. ASSUME NEW n, changed = {n}, n \in torn PROVE T!Join
  <2>1. Lines' = Lines \cup {Timeline(n)'}
    BY <1>5, <1>9
  <2> HIDE DEF changed
  <2> QED BY <1>1, <1>4, <1>6, <1>9, <2>1 DEF T!Join, Lines, Whole
<1>10. ASSUME s # d, changed = {s, d}, s \notin torn, d \notin torn PROVE T!Edit
  <2>1. Lines' = (Lines \ {Timeline(s), Timeline(d)}) \cup {Timeline(s)', Timeline(d)'}
    BY <1>5, <1>10
  <2>2. Timeline(s) # Timeline(d)
    BY <1>10, LineNow
  <2> HIDE DEF changed
  <2>3. /\ Timeline(s) \in Lines /\ Timeline(d) \in Lines
        /\ Timeline(s)' \in Lines' /\ Timeline(d)' \in Lines'
    BY <1>6, <1>10
  <2>4. T!Edited(Timeline(s), Timeline(s)') /\ T!Edited(Timeline(d), Timeline(d)')
    BY <1>3, <1>10
  <2>5. \E a, b \in Lines, a2, b2 \in Lines' :
           /\ a # b /\ T!Edited(a, a2) /\ T!Edited(b, b2)
           /\ Lines' = (Lines \ {a, b}) \cup {a2, b2}
    BY <2>1, <2>2, <2>3, <2>4
  <2>6. running /\ running'
    BY <1>1
  <2> QED BY <2>5, <2>6, Zenon DEF T!Edit, Lines, Whole
<1>11. ASSUME NEW a, NEW b, a # b, changed = {a, b}, a \notin torn, b \in torn PROVE T!JoinAndEdit
  <2>1. Lines' = (Lines \ {Timeline(a)}) \cup {Timeline(a)', Timeline(b)'}
    BY <1>5, <1>11
  <2> HIDE DEF changed
  <2> QED BY <1>1, <1>3, <1>4, <1>6, <1>11, <2>1 DEF T!JoinAndEdit, Lines, Whole
<1>12. ASSUME changed = {s, d}, s \in torn, d \in torn PROVE T!JoinBoth
  <2>1. Lines' = Lines \cup {Timeline(s)', Timeline(d)'}
    BY <1>5, <1>12
  <2>2. {Timeline(s)'.now, Timeline(d)'.now} \cap T!Nows(Lines) = {}
    BY <1>4, <1>12
  <2> HIDE DEF changed
  <2> QED BY <1>1, <1>6, <1>12, <2>1, <2>2 DEF T!JoinBoth, Lines, Whole
<1>13. changed = {} \/ changed = {s} \/ changed = {d} \/ (s # d /\ changed = {s, d})
  OBVIOUS
<1>14. changed = {s, d} => {d, s} = changed
  OBVIOUS
<1> HIDE DEF changed
<1> QED BY <1>7, <1>8, <1>9, <1>10, <1>11, <1>12, <1>13, <1>14 DEF T!Next

\* One timeline is replaced by another: what kind of step this is depends on the history.
LEMMA RestoreLines ==
    ASSUME SessionInv, NEW n \in Columns,
           NEW t \in UndoTarget(n) \cup RedoTarget(n) \cup SnapshotTarget(n) \cup RenameTarget(n),
           Restore(n, t.st, t.history)
    PROVE  T!Next \/ UNCHANGED <<running, Lines>>
<1> DEFINE m == t.st.name
           h == t.history
<1>1. /\ running /\ running' /\ running' = running /\ disk' = disk
      /\ n \in DOMAIN refs /\ n \in DOMAIN loaded /\ loaded[n] \in LoadedRef
      /\ t.st \in RefState /\ h \in HistoryOf(RefState) /\ h.cur = t.st
      /\ m = n \/ (m \notin DOMAIN refs /\ m \notin DOMAIN loaded)
      /\ torn' = IF refs'[m] = t.st.head THEN torn \ {n, m} ELSE torn
      /\ refs' = RestoredRefs(n, t.st)
  BY TargetType DEF Restore, Mutable, NameFree, SessionInv, TypeOK, MapOf, Columns
<1>2. /\ DOMAIN refs' = (DOMAIN refs \ {n}) \cup {m}
      /\ \A x \in DOMAIN refs \ {n, m} : refs'[x] = refs[x]
      /\ refs'[m] = t.st.head \/ (m = n /\ revs[n] = t.st.head /\ refs' = refs)
  BY <1>1 DEF RestoredRefs, Rekey
<1>3. /\ DOMAIN loaded' = (DOMAIN loaded \ {n}) \cup {m}
      /\ loaded'[m].history = h
      /\ \A x \in DOMAIN loaded \ {n, m} : loaded'[x] = loaded[x]
  <2>1. loaded' = Rekey(loaded, n, m, WithSnapshot([loaded[n] EXCEPT !.history = h]))
    BY DEF Restore
  <2>2. WithSnapshot([loaded[n] EXCEPT !.history = h]).history = h
    BY <1>1, RecordedType
  <2> HIDE DEF h
  <2> QED BY <2>1, <2>2 DEF Rekey
<1>4. \A x \in Whole \ {n, m} : Timeline(x)' = Timeline(x)
  <2> TAKE x \in Whole \ {n, m}
  <2>1. x \in DOMAIN refs \ {n, m} /\ refs'[x] = refs[x]
    BY <1>2 DEF Whole
  <2> QED BY <1>1, <1>3, <2>1, LineKept
<1>5. CASE refs'[m] # t.st.head
  <2>1. m = n /\ revs[n] = t.st.head /\ refs' = refs /\ torn' = torn
    BY <1>1, <1>2, <1>5
  <2>2. n \in torn
    BY <1>1, <1>5, <2>1 DEF SessionInv, Columns
  <2>3. Whole' \ {} = Whole \ {} /\ \A x \in Whole \ {} : Timeline(x)' = Timeline(x)
    BY <1>4, <2>1, <2>2 DEF Whole
  <2>4. Lines' = (Lines \ {Timeline(x) : x \in {}}) \cup {Timeline(x)' : x \in {}}
    BY <2>3, LinesOutside
  <2>5. Lines' = Lines
    BY <2>4
  <2> QED BY <1>1, <2>5
<1>6. CASE refs'[m] = t.st.head
  <2>1. Whole' \ {m} = Whole \ {n} /\ m \in Whole'
    BY <1>1, <1>2, <1>6 DEF Whole
  <2>2. \A x \in Whole \ {n} : Timeline(x)' = Timeline(x)
    BY <1>1, <1>4 DEF Whole
  <2>3. Lines' = (Lines \ {Timeline(n)}) \cup {Timeline(m)'}
    <3>1. Lines' = (Lines \ {Timeline(x) : x \in {n}}) \cup {Timeline(x)' : x \in {m}}
      BY <2>1, <2>2, LinesOutside
    <3> QED BY <3>1
  <2>4. Timeline(m)' \in Lines'
    BY <2>3
  <2>5. CASE n \in torn
    <3>1. Timeline(n) \notin Lines
      BY <2>5, LineNow DEF Lines, Whole
    <3>2. Timeline(m)'.now.name = m /\ m \notin Whole
      BY <1>1, <2>5 DEF Timeline, StateOf, Whole
    <3>3. Timeline(m)'.now \notin T!Nows(Lines)
      BY <3>2, NewNow
    <3>4. Lines' = Lines \cup {Timeline(m)'}
      BY <2>3, <3>1
    <3>5. T!Join
      BY <1>1, <2>4, <3>3, <3>4, Zenon DEF T!Join, Lines, Whole
    <3> QED BY <3>5 DEF T!Next
  <2>6. CASE n \notin torn
    <3>1. Timeline(n) \in Lines /\ loaded[n].history.cur = StateOf(refs, n)
      BY <1>1, <2>6 DEF Lines, Whole, SessionInv, HistoryTracksRef
    <3>2. Timeline(n) = [past |-> loaded[n].history.prev, now |-> loaded[n].history.cur,
                         future |-> loaded[n].history.next]
      BY <1>1, <3>1, LineOfLoaded
    <3>3. Timeline(m)' = [past |-> h.prev, now |-> t.st, future |-> h.next]
      <4>1. StateOf(refs', m) = t.st
        BY <1>1, <1>6 DEF StateOf, RefState
      <4>2. Timeline(m)' = [past |-> loaded'[m].history.prev, now |-> StateOf(refs', m),
                            future |-> loaded'[m].history.next]
        BY <1>3 DEF Timeline
      <4> QED BY <1>3, <4>1, <4>2
    <3>4. CASE t \in UndoTarget(n)
      <4>1. CanUndo(loaded[n].history) /\ t.st = PrevPeek(loaded[n].history) /\ h = StepBack(loaded[n].history)
        BY <3>4 DEF UndoTarget
      <4>2. T!Undone(Timeline(n), Timeline(m)')
        BY <3>2, <3>3, <4>1 DEF T!Undone, CanUndo, PrevPeek, StepBack
      <4>3. T!Undo
        BY <1>1, <2>3, <2>4, <3>1, <4>2, Zenon DEF T!Undo, T!Replaced, Lines, Whole
      <4> QED BY <4>3 DEF T!Next
    <3>5. CASE t \in RedoTarget(n)
      <4>1. CanRedo(loaded[n].history) /\ t.st = NextPeek(loaded[n].history) /\ h = StepForth(loaded[n].history)
        BY <3>5 DEF RedoTarget
      <4>2. T!Redone(Timeline(n), Timeline(m)')
        BY <3>2, <3>3, <4>1 DEF T!Redone, CanRedo, NextPeek, StepForth
      <4>3. T!Redo
        BY <1>1, <2>3, <2>4, <3>1, <4>2, Zenon DEF T!Redo, T!Replaced, Lines, Whole
      <4> QED BY <4>3 DEF T!Next
    <3>6. CASE t \in SnapshotTarget(n) \cup RenameTarget(n)
      <4>1. h = Push(loaded[n].history, t.st)
        BY <3>6 DEF SnapshotTarget, RenameTarget
      <4>2. T!Edited(Timeline(n), Timeline(m)')
        BY <3>2, <3>3, <4>1 DEF T!Edited, Push
      <4>3. T!Edit
        BY <1>1, <2>3, <2>4, <3>1, <4>2, Zenon DEF T!Edit, T!Replaced, Lines, Whole
      <4> QED BY <4>3 DEF T!Next
    <3> QED BY <3>4, <3>5, <3>6
  <2> QED BY <2>5, <2>6
<1> QED BY <1>5, <1>6

LEMMA RevCreateLines ==
    ASSUME SessionInv, NEW m \in Names, NEW c \in Commits, RevCreate(m, c)
    PROVE  T!Next
<1>1. /\ running /\ running' /\ m \notin DOMAIN refs /\ m \notin DOMAIN loaded
      /\ disk' = disk /\ torn' = torn \ {m}
      /\ DOMAIN refs' = DOMAIN refs \cup {m} /\ \A x \in DOMAIN refs : refs'[x] = refs[x]
      /\ DOMAIN loaded' = DOMAIN loaded \cup {m} /\ \A x \in DOMAIN loaded : loaded'[x] = loaded[x]
  BY DEF RevCreate, Rekey, SessionInv, TypeOK, MapOf, Columns
<1>2. Whole' \ {m} = Whole \ {} /\ m \in Whole' /\ m \notin Whole
  BY <1>1 DEF Whole
<1>3. \A x \in Whole \ {} : Timeline(x)' = Timeline(x)
  <2> TAKE x \in Whole \ {}
  <2>1. x \in DOMAIN refs /\ x # m
    BY <1>1 DEF Whole
  <2> QED BY <1>1, <2>1, LineKept
<1>4. Lines' = (Lines \ {Timeline(x) : x \in {}}) \cup {Timeline(x)' : x \in {m}}
  BY <1>2, <1>3, LinesOutside
<1>5. Lines' = Lines \cup {Timeline(m)'} /\ Timeline(m)' \in Lines'
  BY <1>4
<1>6. Timeline(m)'.now.name = m
  BY DEF Timeline, StateOf
<1>7. Timeline(m)'.now \notin T!Nows(Lines)
  BY <1>2, <1>6, NewNow
<1>8. T!Join
  BY <1>1, <1>5, <1>7, Zenon DEF T!Join, Lines, Whole
<1> QED BY <1>8 DEF T!Next

\* One ref is answered for no longer.
LEMMA LeaveLines ==
    ASSUME running, UNCHANGED running, NEW n, Whole' = Whole \ {n},
           \A x \in Whole \ {n} : Timeline(x)' = Timeline(x)
    PROVE  T!Next \/ UNCHANGED <<running, Lines>>
<1>0. running' /\ running
  OBVIOUS
<1>1. Whole' \ {} = Whole \ {n}
  OBVIOUS
<1>2. Lines' = (Lines \ {Timeline(x) : x \in {n}}) \cup {Timeline(x)' : x \in {}}
  BY <1>1, LinesOutside
<1>3. Lines' = Lines \ {Timeline(n)}
  BY <1>2
<1>4. CASE Timeline(n) \in Lines
  <2>1. T!Leave
    BY <1>0, <1>3, <1>4, Zenon DEF T!Leave, Lines, Whole
  <2> QED BY <2>1 DEF T!Next
<1>5. CASE Timeline(n) \notin Lines
  <2>1. Lines' = Lines
    BY <1>3, <1>5
  <2> QED BY <2>1
<1> QED BY <1>4, <1>5

LEMMA HandleLines ==
    ASSUME SessionInv, Handle
    PROVE  T!Next \/ UNCHANGED <<running, Lines>>
<1>1. CASE \E n \in Names, c \in Commits : Rewrite(n, c)
  <2>1. PICK n \in Names, c \in Commits : Rewrite(n, c)
    BY <1>1
  <2>2. running /\ GitOpExec([x \in {n} |-> c]) /\ [x \in {n} |-> c] \in [{n, n} -> Commits]
    BY <2>1 DEF Rewrite
  <2> QED BY <2>2, GitOpExecLines
<1>2. CASE \E s, d \in Names, cs, cd \in Commits : MoveBetween(s, d, cs, cd)
  <2>1. PICK s, d \in Names, cs, cd \in Commits : MoveBetween(s, d, cs, cd)
    BY <1>2
  <2> DEFINE new == [x \in {s, d} |-> IF x = s THEN cs ELSE cd]
  <2>2. running /\ GitOpExec(new) /\ new \in [{s, d} -> Commits]
    BY <2>1 DEF MoveBetween
  <2> HIDE DEF new
  <2> QED BY <2>2, GitOpExecLines
<1>3. CASE \E n \in Names : UndoRedo(n) \/ RestoreSnapshot(n) \/ RenameRef(n)
  <2>1. PICK n \in Names : UndoRedo(n) \/ RestoreSnapshot(n) \/ RenameRef(n)
    BY <1>3
  <2>2. PICK t \in UndoTarget(n) \cup RedoTarget(n) \cup SnapshotTarget(n) \cup RenameTarget(n) :
           n \in Columns /\ Restore(n, t.st, t.history)
    BY <2>1 DEF UndoRedo, RestoreSnapshot, RenameRef
  <2> QED BY <2>2, RestoreLines
<1>4. CASE \E m \in Names, c \in Commits : RevCreate(m, c)
  BY <1>4, RevCreateLines
<1>5. CASE \E n \in Names : RefDelete(n)
  <2>1. PICK n \in Names : RefDelete(n)
    BY <1>5
  <2>2. /\ running /\ UNCHANGED <<running, disk>> /\ torn' = torn \ {n}
        /\ DOMAIN refs' = DOMAIN refs \ {n} /\ \A x \in DOMAIN refs' : refs'[x] = refs[x]
        /\ DOMAIN loaded' = DOMAIN loaded \ {n} /\ \A x \in DOMAIN loaded' : loaded'[x] = loaded[x]
    BY <2>1 DEF RefDelete
  <2>3. Whole' = Whole \ {n}
    BY <2>2 DEF Whole
  <2>4. \A x \in Whole \ {n} : Timeline(x)' = Timeline(x)
    <3> TAKE x \in Whole \ {n}
    <3>1. x \in DOMAIN refs' /\ x # n
      BY <2>2 DEF Whole
    <3> QED BY <2>2, <3>1, LineKept
  <2> QED BY <2>2, <2>3, <2>4, LeaveLines
<1>6. CASE Resize
  <2>1. UNCHANGED <<running, refs, disk, loaded, torn>>
    BY <1>6 DEF Resize, git, ghosts
  <2> QED BY <2>1 DEF Lines, Whole, Timeline, StateOf, LoadRef, StoredRef, CreatedRef
<1> QED BY <1>1, <1>2, <1>3, <1>4, <1>5, <1>6 DEF Handle

LEMMA FailLines ==
    ASSUME SessionInv, Fail
    PROVE  T!Next \/ UNCHANGED <<running, Lines>>
<1>1. CASE \E n \in Names : ReplaceFails(n)
  <2>1. UNCHANGED <<running, refs, disk, loaded, torn>>
    BY <1>1 DEF ReplaceFails, ghosts
  <2> QED BY <2>1 DEF Lines, Whole, Timeline, StateOf, LoadRef, StoredRef, CreatedRef
<1>2. ASSUME NEW n \in Names, NEW c, running, refs' = [refs EXCEPT ![n] = c], torn' = torn \cup {n},
             UNCHANGED <<running, disk, loaded>>
      PROVE  T!Next \/ UNCHANGED <<running, Lines>>
  <2>1. Whole' = Whole \ {n}
    BY <1>2 DEF Whole
  <2>2. \A x \in Whole \ {n} : Timeline(x)' = Timeline(x)
    <3> TAKE x \in Whole \ {n}
    <3>1. refs'[x] = refs[x]
      BY <1>2 DEF Whole
    <3> QED BY <1>2, <3>1, LineKept
  <2> QED BY <1>2, <2>1, <2>2, LeaveLines
<1> QED BY <1>1, <1>2 DEF Fail, MoveFailsHalfWay, FailedRestore, RestoreFails

\* A new session answers for every ref, and answers what was answered before.
LEMMA LaunchLines ==
    ASSUME SessionInv, NEW S \in SUBSET Names, NEW dirty \in BOOLEAN, Launch(S, dirty)
    PROVE  T!Next
<1>1. /\ ~running /\ running' /\ torn' = {} /\ UNCHANGED <<refs, disk>>
      /\ loaded' = [n \in S |-> LoadRef(refs, n)] /\ DOMAIN loaded = {}
  BY DEF Launch, git, SessionInv, TypeOK
<1>2. \A n \in Whole : Timeline(n)' = Timeline(n)
  <2> TAKE n \in Whole
  <2>1. Timeline(n) = [past |-> LoadRef(refs, n).history.prev, now |-> StateOf(refs, n),
                       future |-> LoadRef(refs, n).history.next]
    BY <1>1 DEF Timeline
  <2>2. Timeline(n)' = [past |-> LoadRef(refs, n).history.prev, now |-> StateOf(refs, n),
                        future |-> LoadRef(refs, n).history.next]
    <3>1. LoadRef(refs, n)' = LoadRef(refs, n)
      BY <1>1 DEF LoadRef, StoredRef, CreatedRef
    <3> QED BY <1>1, <3>1 DEF Timeline, StateOf
  <2> QED BY <2>1, <2>2
<1>3. Lines \subseteq Lines'
  BY <1>1, <1>2 DEF Lines, Whole
<1>4. \A t, u \in Lines' : t.now = u.now => t = u
  BY DEF Lines, Timeline, StateOf
<1>5. T!Open
  BY <1>1, <1>3, <1>4 DEF T!Open, Lines, Whole
<1> QED BY <1>5 DEF T!Next

\* What write() leaves in the file of a ref is what the session had of it.
LEMMA WrittenIsLoaded ==
    ASSUME SessionInv, FileInv, running, NEW n \in Whole, UNCHANGED refs, disk' = Written,
           DOMAIN loaded' = {}
    PROVE  Timeline(n)' = Timeline(n)
<1>1. Timeline(n)' = [past |-> LoadRef(refs, n)'.history.prev, now |-> StateOf(refs, n),
                      future |-> LoadRef(refs, n)'.history.next]
  BY DEF Timeline, StateOf
<1>2. CASE n \notin DOMAIN loaded
  <2>1. n \notin ToWrite
    BY <1>2 DEF ToWrite
  <2>2. (n \in DOMAIN disk' <=> n \in DOMAIN disk) /\ (n \in DOMAIN disk => disk'[n] = disk[n])
    BY <2>1 DEF Written
  <2>3. LoadRef(refs, n)' = LoadRef(refs, n)
    BY <2>2 DEF LoadRef, StoredRef, CreatedRef, StateOf
  <2> QED BY <1>1, <1>2, <2>3 DEF Timeline
<1>3. CASE n \in DOMAIN loaded
  <2>1. /\ loaded[n] \in LoadedRef /\ loaded[n].history.cur = StateOf(refs, n)
        /\ loaded[n].history.cur.name = n /\ loaded[n].history.cur.head = refs[n]
    <3>1. loaded[n] \in LoadedRef /\ loaded[n].history.cur = StateOf(refs, n)
      BY <1>3 DEF Whole, SessionInv, TypeOK, MapOf, HistoryTracksRef
    <3> QED BY <3>1 DEF StateOf
  <2>2. LoadRef(refs, n)'.history = loaded[n].history
    <3>1. CASE n \in ToWrite
      <4>1. n \in DOMAIN disk' /\ disk'[n].history = loaded[n].history
        BY <3>1 DEF Written
      <4> QED BY <2>1, <4>1 DEF LoadRef, StoredRef
    <3>2. CASE n \notin ToWrite
      <4>1. ~loaded[n].created /\ loaded[n].historyPrev = loaded[n].history
        BY <1>3, <3>2 DEF ToWrite
      <4>2. Loadable(loaded[n].history)
        BY <1>3, <4>1 DEF FileInv
      <4>3. /\ n \in DOMAIN disk
            /\ loaded[n].history = IF disk[n].history.cur.head = refs[n] THEN disk[n].history
                                   ELSE Fresh(StateOf(refs, n))
        BY <2>1, <4>2 DEF Loadable
      <4>4. n \in DOMAIN disk' /\ disk'[n] = disk[n]
        BY <3>2, <4>3 DEF Written
      <4> QED BY <4>3, <4>4 DEF LoadRef, StoredRef, StateOf
    <3> QED BY <3>1, <3>2
  <2> QED BY <1>1, <1>3, <2>2, LineOfLoaded
<1> QED BY <1>2, <1>3

LEMMA EndLines ==
    ASSUME SessionInv, FileInv, End
    PROVE  T!Next
<1>1. /\ running /\ ~running' /\ UNCHANGED <<refs, torn>> /\ DOMAIN loaded' = {}
  BY DEF End, Exit, ExitLeavesDetached, Crash, ForgetSession, EmptyMap, git
<1>2. CASE disk' = Written
  <2>1. \A n \in Whole : Timeline(n)' = Timeline(n)
    BY <1>1, <1>2, WrittenIsLoaded
  <2>2. Whole' = Whole
    BY <1>1 DEF Whole
  <2>3. Lines' = Lines
    BY <2>1, <2>2 DEF Lines
  <2>4. T!Close
    BY <1>1, <2>3, Zenon DEF T!Close, Lines, Whole
  <2> QED BY <2>4 DEF T!Next
<1>3. CASE disk' = disk
  <2>1. T!Nows(Lines)' = {StateOf(refs', n) : n \in Whole'}
    <3>1. \A n : Timeline(n)'.now = StateOf(refs', n)
      BY DEF Timeline, StateOf
    <3>2. Lines' = {Timeline(n)' : n \in Whole'}
      BY DEF Lines
    <3>3. T!Nows(Lines)' = {t.now : t \in Lines'}
      BY DEF T!Nows
    <3>4. {t.now : t \in Lines'} = {Timeline(n)'.now : n \in Whole'}
      BY <3>2
    <3> QED BY <3>1, <3>3, <3>4
  <2>2. T!Nows(Lines) = {StateOf(refs, n) : n \in Whole}
    <3>1. \A n : Timeline(n).now = StateOf(refs, n)
      BY DEF Timeline
    <3>2. T!Nows(Lines) = {t.now : t \in Lines}
      BY DEF T!Nows
    <3>3. {t.now : t \in Lines} = {Timeline(n).now : n \in Whole}
      BY DEF Lines
    <3> QED BY <3>1, <3>2, <3>3
  <2>3. T!Nows(Lines)' = T!Nows(Lines)
    BY <1>1, <2>1, <2>2 DEF Whole, StateOf
  <2>4. T!Forget
    BY <1>1, <2>3 DEF T!Forget, T!Nows, Lines, Whole
  <2> QED BY <2>4 DEF T!Next
<1> QED BY <1>2, <1>3 DEF End, Exit, ExitLeavesDetached, Crash

LEMMA UseGitLines ==
    ASSUME SessionInv, UseGit
    PROVE  T!Next \/ UNCHANGED <<running, Lines>>
<1>1. ~running /\ UNCHANGED <<running, disk, loaded, torn>> /\ DOMAIN loaded = {}
  BY DEF UseGit, GitWrite, GitCheckout, app, ghosts, SessionInv, TypeOK
<1>2. CASE \E n \in Names : GitCheckout(n)
  <2>1. refs' = refs
    BY <1>2 DEF GitCheckout
  <2> QED BY <1>1, <2>1 DEF Lines, Whole, Timeline, StateOf, LoadRef, StoredRef, CreatedRef
<1>3. CASE \E n \in Names, c \in Commits : GitWrite(n, c)
  <2>1. PICK n \in Names, c \in Commits : GitWrite(n, c)
    BY <1>3
  <2>2. /\ DOMAIN refs \subseteq DOMAIN refs' /\ DOMAIN refs' \subseteq DOMAIN refs \cup {n}
        /\ \A x \in DOMAIN refs \ {n} : refs'[x] = refs[x]
    BY <2>1 DEF GitWrite, Rekey
  <2>3. \A x \in Whole \ {n} : Timeline(x)' = Timeline(x)
    <3> TAKE x \in Whole \ {n}
    <3>1. refs'[x] = refs[x]
      BY <2>2 DEF Whole
    <3> QED BY <1>1, <3>1, LineKept
  <2>4. Whole \ {n} = Whole' \ {n}
    BY <1>1, <2>2 DEF Whole
  <2>5. Lines \ Lines' \subseteq {Timeline(n)}
    BY <2>3, <2>4 DEF Lines
  <2>6. Lines' \ Lines \subseteq {Timeline(n)'}
    BY <2>3, <2>4 DEF Lines
  <2>7. (\A t, u \in Lines \ Lines' : t = u) /\ (\A t, u \in Lines' \ Lines : t = u)
    BY <2>5, <2>6
  <2>8. T!Elsewhere
    BY <1>1, <2>7, Zenon DEF T!Elsewhere, Lines, Whole
  <2> QED BY <2>8 DEF T!Next
<1> QED BY <1>2, <1>3 DEF UseGit

\* Undo and redo put git's refs exactly where they were, also after restarts, and an operation
\* changes the timelines of its refs only: every step of Session is one of Timelines.
THEOREM TimelinesRefined == Spec => ImplementsTimelines
<1>1. Init => T!Init
  BY DEF Init, T!Init
<1>2. InductiveInv /\ [Next]_vars => [T!Next]_<<running, Lines>>
  <2> SUFFICES ASSUME SessionInv, FileInv, [Next]_vars
               PROVE  T!Next \/ UNCHANGED <<running, Lines>>
    BY DEF InductiveInv
  <2>1. CASE Start
    BY <2>1, LaunchLines DEF Start
  <2>2. CASE UNCHANGED vars
    <3>1. UNCHANGED <<running, refs, disk, loaded, torn>>
      BY <2>2 DEF vars, git, app, ghosts
    <3> QED BY <3>1 DEF Lines, Whole, Timeline, StateOf, LoadRef, StoredRef, CreatedRef
  <2> QED BY <2>1, <2>2, HandleLines, FailLines, EndLines, UseGitLines DEF Next
<1>3. InductiveInv /\ [Next]_vars => [T!Next]_<<running, {Timeline(n) : n \in DOMAIN refs \ torn}>>
  BY <1>2 DEF Lines, Whole
<1> QED BY <1>1, <1>3, Inductive, PTL DEF Spec, ImplementsTimelines, T!Spec
=============================================================================
