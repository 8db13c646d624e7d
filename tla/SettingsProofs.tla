--------------------------- MODULE SettingsProofs ---------------------------
(***************************************************************************)
(* Proofs about Settings: for every set of sessions and setters, every     *)
(* version and every theme.                                                *)
(***************************************************************************)
EXTENDS Settings, TLAPS

USE DEF Runs, Goto, None, Dark, NoVersion, Default, Torn, executable

\* Where a run of any kind can be.
Places == Locking \cup OfSession \cup {"start", "ended", "failed", "killed"}

LEMMA InitEstablishes ==
    Init => SettingsInv
<1>. SUFFICES ASSUME Init PROVE SettingsInv
  OBVIOUS
<1>1. TypeOK
  <2>1. Default \in Contents
    BY DEF Contents, Themes
  <2>2. bin \in [complete : BOOLEAN, by : Runs \cup {Nobody}]
    BY DEF Init
  <2>. QED  BY <2>1, <2>2 DEF Init, TypeOK
<1>2. LockProtects
  BY SettingsAssumption DEF Init, LockProtects, Locking
<1>3. MovesAreSessions
  BY DEF Init, MovesAreSessions, Locking, OfSession
<1>4. CopiesComeFirst
  BY DEF Init, CopiesComeFirst
<1>. QED  BY <1>1, <1>2, <1>3, <1>4 DEF SettingsInv

(***************************************************************************)
(* Steps that leave the file and the lock alone, and move one run between  *)
(* places outside of the lock.                                             *)
(***************************************************************************)
LEMMA MovingPreserves ==
    ASSUME SettingsInv, NEW p \in Runs, NEW place \in Places \ Locking,
           pc[p] \notin Locking, Goto(p, place),
           place \in OfSession => p \in Sessions,
           place # "removing",
           UNCHANGED <<file, lock, mem, after, recorded, executable>>
    PROVE  SettingsInv'
<1>1. TypeOK'
  BY DEF SettingsInv, TypeOK, Places
<1>2. LockProtects'
  BY DEF SettingsInv, TypeOK, LockProtects, Places, Locking, Change
<1>3. MovesAreSessions'
  BY DEF SettingsInv, TypeOK, MovesAreSessions, Places, Locking, OfSession
<1>4. CopiesComeFirst'
  BY DEF SettingsInv, TypeOK, CopiesComeFirst
<1>. QED  BY <1>1, <1>2, <1>3, <1>4 DEF SettingsInv

\* A run that reads and writes: a change of what is recorded.
LEMMA ReadingToWritePreserves ==
    ASSUME SettingsInv, NEW p \in Runs, NEW s, NEW place \in {"themed", "running", "moving", "ended"},
           ReadToWrite(p, s, place),
           pc[p] \notin Locking,
           s \in Contents, Change(p, file, s),
           place # "ended" => p \in Sessions
    PROVE  SettingsInv'
<1>. file = recorded
  BY DEF SettingsInv, LockProtects, ReadToWrite
<1>1. TypeOK'
  BY DEF SettingsInv, TypeOK, ReadToWrite, Locking
<1>2. LockProtects'
  <2>1. \A q \in Runs : lock' = q <=> pc'[q] \in Locking
    BY SettingsAssumption DEF SettingsInv, TypeOK, LockProtects, ReadToWrite, Goto, Locking
  <2>2. file' # Torn => file' = recorded'
    BY DEF SettingsInv, LockProtects, ReadToWrite
  <2>3. ASSUME NEW q \in Runs
        PROVE  /\ pc'[q] = "asking terminal" => mem'[q] = recorded' /\ recorded'.theme = None
               /\ pc'[q] \in {"writing", "flushing"} => Change(q, recorded', mem'[q])
    <3>1. CASE q = p
      BY <3>1 DEF SettingsInv, TypeOK, ReadToWrite, Goto
    <3>2. CASE q # p
      BY <3>2 DEF SettingsInv, TypeOK, LockProtects, ReadToWrite, Goto
    <3>. QED  BY <3>1, <3>2
  <2>. QED  BY <2>1, <2>2, <2>3 DEF LockProtects, Change
<1>3. MovesAreSessions'
  BY DEF SettingsInv, TypeOK, MovesAreSessions, ReadToWrite, Locking, OfSession
<1>4. CopiesComeFirst'
  BY DEF SettingsInv, TypeOK, CopiesComeFirst, ReadToWrite
<1>. QED  BY <1>1, <1>2, <1>3, <1>4 DEF SettingsInv

LEMMA FreeLock ==
    ASSUME SettingsInv, NEW p \in Runs, lock = Nobody
    PROVE  pc[p] \notin Locking
BY SettingsAssumption DEF SettingsInv, LockProtects

LEMMA ReadingPreserves ==
    ASSUME SettingsInv, NEW p \in Runs, NEW place \in {"themed", "running", "offering"},
           p \in Sessions, CannotRead(p) \/ Peek(p, place)
    PROVE  SettingsInv'
<1>1. lock = Nobody
  BY DEF CannotRead, Peek
<1>2. pc[p] \notin Locking
  BY <1>1, FreeLock
<1>3. CASE CannotRead(p)
  <2>. "failed" \in Places \ Locking /\ "failed" \notin OfSession
    BY DEF Places, Locking, OfSession
  <2>. QED  BY <1>2, <1>3, MovingPreserves DEF CannotRead
<1>4. CASE Peek(p, place)
  <2>. place \in Places \ Locking
    BY DEF Places, Locking, OfSession
  <2>. QED  BY <1>2, <1>4, MovingPreserves DEF Peek
<1>. QED  BY <1>3, <1>4

(***************************************************************************)
(* The actions                                                             *)
(***************************************************************************)
LEMMA ThemeReadPreserves ==
    ASSUME SettingsInv, NEW p \in Runs, ThemeRead(p)
    PROVE  SettingsInv'
<1>1. CASE CannotRead(p) \/ Peek(p, "themed")
  BY <1>1, ReadingPreserves DEF ThemeRead
<1>2. CASE ~(CannotRead(p) \/ Peek(p, "themed"))
  <2>1. /\ pc[p] = "start" /\ p \in Sessions
        /\ lock = Nobody /\ file.theme = None
        /\ lock' = p /\ mem' = [mem EXCEPT ![p] = file]
        /\ Goto(p, "asking terminal")
        /\ UNCHANGED <<file, after, recorded, executable>>
    BY <1>2 DEF ThemeRead
  <2>2. file # Torn /\ file = recorded
    <3>1. Torn.theme # None
      OBVIOUS
    <3>. HIDE DEF Torn, None
    <3>. QED  BY <2>1, <3>1 DEF SettingsInv, LockProtects
  <2>3. TypeOK'
    BY <2>1 DEF SettingsInv, TypeOK, Locking
  <2>4. LockProtects'
    BY <2>1, <2>2, SettingsAssumption DEF SettingsInv, TypeOK, LockProtects, Locking, Change
  <2>5. MovesAreSessions'
    BY <2>1 DEF SettingsInv, TypeOK, MovesAreSessions, Locking, OfSession
  <2>6. CopiesComeFirst'
    BY <2>1 DEF SettingsInv, TypeOK, CopiesComeFirst
  <2>. QED  BY <2>3, <2>4, <2>5, <2>6 DEF SettingsInv
<1>. QED  BY <1>1, <1>2

LEMMA TerminalAnswersPreserves ==
    ASSUME SettingsInv, NEW p \in Runs, TerminalAnswers(p)
    PROVE  SettingsInv'
<1>1. TypeOK'
  BY DEF SettingsInv, TypeOK, TerminalAnswers, Locking, OfSession
<1>2. LockProtects'
  BY SettingsAssumption
     DEF SettingsInv, TypeOK, LockProtects, TerminalAnswers, Locking, Change
<1>3. MovesAreSessions'
  BY DEF SettingsInv, TypeOK, MovesAreSessions, TerminalAnswers, Locking, OfSession
<1>4. CopiesComeFirst'
  BY DEF SettingsInv, TypeOK, CopiesComeFirst, TerminalAnswers
<1>. QED  BY <1>1, <1>2, <1>3, <1>4 DEF SettingsInv

\* The default is a change of what was recorded: no theme was.
LEMMA TerminalFailsPreserves ==
    ASSUME SettingsInv, NEW p \in Runs, TerminalFails(p)
    PROVE  SettingsInv'
<1>1. TypeOK'
  <2>1. mem' \in [Runs -> Contents]
    <3>1. [mem[p] EXCEPT !.theme = Dark] \in Contents
      BY DEF SettingsInv, TypeOK, Contents, Themes
    <3>. QED  BY <3>1 DEF SettingsInv, TypeOK, TerminalFails
  <2>2. /\ pc' \in [Runs -> Locking \cup OfSession \cup {"start", "ended", "failed", "killed"}]
        /\ after' \in [Runs -> {"start", "themed", "running", "moving", "ended"}]
    BY DEF SettingsInv, TypeOK, TerminalFails, Goto, Locking, OfSession
  <2>. QED  BY <2>1, <2>2 DEF SettingsInv, TypeOK, TerminalFails, executable
<1>2. LockProtects'
  <2>1. mem'[p] = [recorded EXCEPT !.theme = Dark] /\ recorded.theme = None
    BY DEF SettingsInv, TypeOK, LockProtects, TerminalFails
  <2>. QED
    BY <2>1, SettingsAssumption
       DEF SettingsInv, TypeOK, LockProtects, TerminalFails, Locking, Change
<1>3. MovesAreSessions'
  BY DEF SettingsInv, TypeOK, MovesAreSessions, TerminalFails, Locking, OfSession
<1>4. CopiesComeFirst'
  BY DEF SettingsInv, TypeOK, CopiesComeFirst, TerminalFails
<1>. QED  BY <1>1, <1>2, <1>3, <1>4 DEF SettingsInv

LEMMA OfferCheckPreserves ==
    ASSUME SettingsInv, NEW p \in Runs, OfferCheck(p)
    PROVE  SettingsInv'
<1>1. p \in Sessions
  BY DEF OfferCheck, SettingsInv, MovesAreSessions, OfSession
<1>2. CannotRead(p) \/ Peek(p, "running") \/ Peek(p, "offering")
  BY DEF OfferCheck
<1>. QED  BY <1>1, <1>2, ReadingPreserves

LEMMA OfferQuitPreserves ==
    ASSUME SettingsInv, NEW p \in Runs, OfferQuit(p)
    PROVE  SettingsInv'
<1>1. pc[p] \notin Locking /\ "ended" \in Places \ Locking /\ "ended" \notin OfSession
  BY DEF OfferQuit, Places, Locking, OfSession
<1>. QED  BY <1>1, MovingPreserves DEF OfferQuit

LEMMA EndPreserves ==
    ASSUME SettingsInv, NEW p \in Runs, End(p)
    PROVE  SettingsInv'
<1>1. pc[p] \notin Locking /\ "ended" \in Places \ Locking /\ "ended" \notin OfSession
  BY DEF End, Places, Locking, OfSession
<1>. QED  BY <1>1, MovingPreserves DEF End

LEMMA OfferAnswerPreserves ==
    ASSUME SettingsInv, NEW p \in Runs, NEW move \in BOOLEAN, OfferAnswer(p, move)
    PROVE  SettingsInv'
<1>1. TypeOK'
  BY DEF SettingsInv, TypeOK, OfferAnswer, Locking, OfSession
<1>2. LockProtects'
  BY DEF SettingsInv, TypeOK, LockProtects, OfferAnswer, Locking, Change
<1>3. MovesAreSessions'
  BY DEF SettingsInv, TypeOK, MovesAreSessions, OfferAnswer, Locking, OfSession
<1>4. CopiesComeFirst'
  BY DEF SettingsInv, TypeOK, CopiesComeFirst, OfferAnswer
<1>. QED  BY <1>1, <1>2, <1>3, <1>4 DEF SettingsInv

\* A State that cannot be read ends the run, whatever it is.
LEMMA CannotReadPreserves ==
    ASSUME SettingsInv, NEW p \in Runs, CannotRead(p)
    PROVE  SettingsInv'
<1>1. pc[p] \notin Locking
  BY FreeLock DEF CannotRead
<1>2. "failed" \in Places \ Locking /\ "failed" \notin OfSession
  BY DEF Places, Locking, OfSession
<1>. QED  BY <1>1, <1>2, MovingPreserves DEF CannotRead

LEMMA OfferRecordPreserves ==
    ASSUME SettingsInv, NEW p \in Runs, OfferRecord(p)
    PROVE  SettingsInv'
<1>. DEFINE s == [file EXCEPT !.last = Version[p]]
            place == IF p \in moves THEN "moving" ELSE "running"
<1>1. CASE CannotRead(p)
  BY <1>1, CannotReadPreserves
<1>2. CASE ReadToWrite(p, s, place)
  <2>1. p \in Sessions /\ pc[p] \notin Locking
    BY DEF OfferRecord, SettingsInv, MovesAreSessions, Locking, OfSession
  <2>2. s \in Contents /\ Change(p, file, s)
    BY <2>1, SettingsAssumption DEF SettingsInv, TypeOK, Contents, Change
  <2>3. place \in {"running", "moving"}
    OBVIOUS
  <2>. HIDE DEF s, place
  <2>. QED  BY <1>2, <2>1, <2>2, <2>3, ReadingToWritePreserves
<1>. QED  BY <1>1, <1>2 DEF OfferRecord

LEMMA ThemeWritePreserves ==
    ASSUME SettingsInv, NEW p \in Runs, ThemeWrite(p)
    PROVE  SettingsInv'
<1>. DEFINE s == [file EXCEPT !.theme = Choice[p]]
<1>1. CASE CannotRead(p)
  BY <1>1, CannotReadPreserves
<1>2. CASE ReadToWrite(p, s, "ended")
  <2>1. p \in Setters /\ pc[p] \notin Locking
    BY DEF ThemeWrite, Locking
  <2>2. s \in Contents /\ Change(p, file, s)
    BY <2>1, SettingsAssumption DEF SettingsInv, TypeOK, Contents, Change
  <2>. HIDE DEF s
  <2>. QED  BY <1>2, <2>1, <2>2, ReadingToWritePreserves
<1>. QED  BY <1>1, <1>2 DEF ThemeWrite

LEMMA TruncatePreserves ==
    ASSUME SettingsInv, NEW p \in Runs, Truncate(p)
    PROVE  SettingsInv'
<1>1. TypeOK'
  BY DEF SettingsInv, TypeOK, Truncate, Locking, Contents
<1>2. LockProtects'
  BY DEF SettingsInv, TypeOK, LockProtects, Truncate, Locking, Change
<1>3. MovesAreSessions'
  BY DEF SettingsInv, TypeOK, MovesAreSessions, Truncate, Locking, OfSession
<1>4. CopiesComeFirst'
  BY DEF SettingsInv, TypeOK, CopiesComeFirst, Truncate
<1>. QED  BY <1>1, <1>2, <1>3, <1>4 DEF SettingsInv

\* Where a run goes on when it has written: without the lock.
LEMMA WhereItGoesOn ==
    ASSUME SettingsInv, NEW p \in Runs, pc[p] = "flushing"
    PROVE  /\ lock = p
           /\ after[p] \in {"start", "themed", "running", "moving", "ended"}
           /\ after[p] \in OfSession => p \in Sessions
BY DEF SettingsInv, TypeOK, LockProtects, MovesAreSessions, Locking, OfSession

LEMMA FlushPreserves ==
    ASSUME SettingsInv, NEW p \in Runs, Flush(p) \/ FlushIsLost(p)
    PROVE  SettingsInv'
<1>0. /\ pc[p] = "flushing" /\ lock' = Nobody
      /\ pc' = [pc EXCEPT ![p] = after[p]]
      /\ UNCHANGED <<mem, after, moves, source, bin, overlapped>>
      /\ (file' = mem[p] /\ recorded' = mem[p]) \/ UNCHANGED <<file, recorded>>
  BY DEF Flush, FlushIsLost
<1>1. TypeOK'
  <2>1. file' \in Contents /\ recorded' \in Contents
    BY <1>0 DEF SettingsInv, TypeOK
  <2>2. after[p] \in Locking \cup OfSession \cup {"start", "ended", "failed", "killed"}
    BY <1>0, WhereItGoesOn DEF OfSession
  <2>3. pc' \in [Runs -> Locking \cup OfSession \cup {"start", "ended", "failed", "killed"}]
    BY <1>0, <2>2 DEF SettingsInv, TypeOK
  <2>. QED  BY <1>0, <2>1, <2>3 DEF SettingsInv, TypeOK
<1>2. LockProtects'
  BY <1>0, WhereItGoesOn, SettingsAssumption
     DEF SettingsInv, TypeOK, LockProtects, Locking, Change
<1>3. MovesAreSessions'
  BY <1>0, WhereItGoesOn DEF SettingsInv, TypeOK, MovesAreSessions, Locking, OfSession
<1>4. CopiesComeFirst'
  BY <1>0 DEF SettingsInv, TypeOK, CopiesComeFirst
<1>. QED  BY <1>1, <1>2, <1>3, <1>4 DEF SettingsInv

LEMMA CopyOpenPreserves ==
    ASSUME SettingsInv, NEW p \in Runs, CopyOpen(p)
    PROVE  SettingsInv'
<1>0. pc[p] = "moving" /\ UNCHANGED <<file, lock, mem, after, recorded, moves, source, overlapped>>
      /\ \/ source /\ bin' = [complete |-> FALSE, by |-> p] /\ Goto(p, "copying")
         \/ Goto(p, "failed") /\ UNCHANGED bin
  BY DEF CopyOpen
<1>1. TypeOK'
  <2>1. bin' \in [complete : BOOLEAN, by : Runs \cup {Nobody}]
    <3>1. [complete |-> FALSE, by |-> p] \in [complete : BOOLEAN, by : Runs \cup {Nobody}]
      OBVIOUS
    <3>2. bin \in [complete : BOOLEAN, by : Runs \cup {Nobody}]
      BY DEF SettingsInv, TypeOK
    <3>. QED  BY <1>0, <3>1, <3>2
  <2>2. pc' \in [Runs -> Locking \cup OfSession \cup {"start", "ended", "failed", "killed"}]
    BY <1>0 DEF SettingsInv, TypeOK, OfSession
  <2>. QED  BY <1>0, <2>1, <2>2 DEF SettingsInv, TypeOK
<1>2. LockProtects'
  BY <1>0 DEF SettingsInv, TypeOK, LockProtects, Locking, Change
<1>3. MovesAreSessions'
  BY <1>0 DEF SettingsInv, TypeOK, MovesAreSessions, Locking, OfSession
<1>4. CopiesComeFirst'
  BY <1>0 DEF SettingsInv, TypeOK, CopiesComeFirst
<1>. QED  BY <1>1, <1>2, <1>3, <1>4 DEF SettingsInv

\* The copy is whole, unless another run has truncated it.
LEMMA CopyEndPreserves ==
    ASSUME SettingsInv, NEW p \in Runs, CopyEnd(p)
    PROVE  SettingsInv'
<1>1. TypeOK'
  BY DEF SettingsInv, TypeOK, CopyEnd, Locking, OfSession
<1>2. LockProtects'
  BY DEF SettingsInv, TypeOK, LockProtects, CopyEnd, Locking, Change
<1>3. MovesAreSessions'
  BY DEF SettingsInv, TypeOK, MovesAreSessions, CopyEnd, Locking, OfSession
<1>4. CopiesComeFirst'
  <2>1. bin'.by = bin.by /\ bin'.complete = (bin.complete \/ bin.by = p)
    BY DEF SettingsInv, TypeOK, CopyEnd
  <2>. QED  BY <2>1 DEF SettingsInv, TypeOK, CopiesComeFirst, CopyEnd
<1>. QED  BY <1>1, <1>2, <1>3, <1>4 DEF SettingsInv

LEMMA CopyFailsPreserves ==
    ASSUME SettingsInv, NEW p \in Runs, CopyFails(p)
    PROVE  SettingsInv'
<1>1. pc[p] \notin Locking /\ "failed" \in Places \ Locking /\ "failed" \notin OfSession
  BY DEF CopyFails, Places, Locking, OfSession
<1>. QED  BY <1>1, MovingPreserves DEF CopyFails

\* What is removed was copied: bin is whole, or the removal is one of an overlap.
LEMMA RemovePreserves ==
    ASSUME SettingsInv, NEW p \in Runs, Remove(p)
    PROVE  SettingsInv'
<1>1. TypeOK'
  BY DEF SettingsInv, TypeOK, Remove, Locking, OfSession
<1>2. LockProtects'
  BY DEF SettingsInv, TypeOK, LockProtects, Remove, Locking, Change
<1>3. MovesAreSessions'
  BY DEF SettingsInv, TypeOK, MovesAreSessions, Remove, Locking, OfSession
<1>4. CopiesComeFirst'
  BY DEF SettingsInv, TypeOK, CopiesComeFirst, Remove
<1>. QED  BY <1>1, <1>2, <1>3, <1>4 DEF SettingsInv

LEMMA KillPreserves ==
    ASSUME SettingsInv, NEW p \in Runs, Kill(p)
    PROVE  SettingsInv'
<1>1. TypeOK'
  BY DEF SettingsInv, TypeOK, Kill
<1>2. LockProtects'
  BY SettingsAssumption DEF SettingsInv, TypeOK, LockProtects, Kill, Locking, Change
<1>3. MovesAreSessions'
  BY DEF SettingsInv, TypeOK, MovesAreSessions, Kill, Locking, OfSession
<1>4. CopiesComeFirst'
  BY DEF SettingsInv, TypeOK, CopiesComeFirst, Kill
<1>. QED  BY <1>1, <1>2, <1>3, <1>4 DEF SettingsInv

(***************************************************************************)
(* The theorems                                                            *)
(***************************************************************************)
LEMMA NextPreserves ==
    SettingsInv /\ [Next]_vars => SettingsInv'
<1>. SUFFICES ASSUME SettingsInv, [Next]_vars PROVE SettingsInv'
  OBVIOUS
<1>1. ASSUME NEW p \in Runs, Step(p)
      PROVE  SettingsInv'
  <2>. USE <1>1
  <2>1. CASE ThemeRead(p)        BY <2>1, ThemeReadPreserves
  <2>2. CASE TerminalAnswers(p)  BY <2>2, TerminalAnswersPreserves
  <2>3. CASE TerminalFails(p)    BY <2>3, TerminalFailsPreserves
  <2>4. CASE OfferCheck(p)       BY <2>4, OfferCheckPreserves
  <2>5. CASE OfferRecord(p)      BY <2>5, OfferRecordPreserves
  <2>6. CASE ThemeWrite(p)       BY <2>6, ThemeWritePreserves
  <2>7. CASE Truncate(p)         BY <2>7, TruncatePreserves
  <2>8. CASE Flush(p) \/ FlushIsLost(p)
    BY <2>8, FlushPreserves
  <2>9. CASE CopyOpen(p)         BY <2>9, CopyOpenPreserves
  <2>10. CASE CopyEnd(p)         BY <2>10, CopyEndPreserves
  <2>11. CASE CopyFails(p)       BY <2>11, CopyFailsPreserves
  <2>12. CASE Remove(p)          BY <2>12, RemovePreserves
  <2>. QED
    BY <2>1, <2>2, <2>3, <2>4, <2>5, <2>6, <2>7, <2>8, <2>9, <2>10, <2>11, <2>12 DEF Step
<1>2. ASSUME NEW p \in Runs, Outside(p)
      PROVE  SettingsInv'
  BY <1>2, OfferQuitPreserves, EndPreserves, KillPreserves, OfferAnswerPreserves DEF Outside
<1>3. CASE UNCHANGED vars
  <2>1. TypeOK'
    BY <1>3 DEF SettingsInv, TypeOK, vars
  <2>2. LockProtects'
    BY <1>3 DEF SettingsInv, LockProtects, Change, vars
  <2>3. MovesAreSessions' /\ CopiesComeFirst'
    BY <1>3 DEF SettingsInv, MovesAreSessions, CopiesComeFirst, vars
  <2>. QED  BY <2>1, <2>2, <2>3 DEF SettingsInv
<1>. QED  BY <1>1, <1>2, <1>3 DEF Next

(***************************************************************************)
(* The lock protects the file, only sessions move the executable, and      *)
(* every executable that is removed was copied.                            *)
(***************************************************************************)
THEOREM SettingsInvariant == Spec => []SettingsInv
<1>1. SettingsInv /\ [Next]_vars => SettingsInv'
  BY NextPreserves
<1>. QED  BY InitEstablishes, <1>1, PTL DEF Spec

(***************************************************************************)
(* _moveOffer() never leaves the user without an executable, whatever      *)
(* fails or is killed, unless two sessions move it at once.                *)
(***************************************************************************)
THEOREM ExecutableKept == Spec => []ExecutableIsKept
<1>1. SettingsInv => ExecutableIsKept
  BY DEF SettingsInv, TypeOK, CopiesComeFirst, ExecutableIsKept
<1>. QED  BY <1>1, SettingsInvariant, PTL

(***************************************************************************)
(* Whoever writes the State file changes what was recorded last, and only  *)
(* the one field it is to change: nothing another run stored is lost.      *)
(***************************************************************************)
THEOREM NothingTakenBack == Spec => NothingIsTakenBack
<1>1. SettingsInv /\ [Next]_vars =>
         [recorded' # recorded =>
             \E p \in Runs : /\ pc[p] = "flushing"
                             /\ Change(p, recorded, recorded')]_vars
  <2>. SUFFICES ASSUME SettingsInv, Next, recorded' # recorded
                PROVE  \E p \in Runs : pc[p] = "flushing" /\ Change(p, recorded, recorded')
    BY DEF vars
  <2>1. PICK p \in Runs : Step(p) \/ Outside(p)
    BY DEF Next
  <2>2. Flush(p)
    BY <2>1
       DEF Step, Outside, ThemeRead, CannotRead, Peek, ReadToWrite, TerminalAnswers,
           TerminalFails, OfferCheck, OfferQuit, OfferAnswer, OfferRecord, ThemeWrite, Truncate,
           FlushIsLost, CopyOpen, CopyEnd, CopyFails, Remove, End, Kill
  <2>3. pc[p] = "flushing" /\ recorded' = mem[p] /\ Change(p, recorded, mem[p])
    BY <2>2 DEF Flush, SettingsInv, LockProtects
  <2>. QED  BY <2>3
<1>. QED  BY <1>1, SettingsInvariant, PTL DEF Spec, NothingIsTakenBack
=============================================================================
