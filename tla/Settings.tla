------------------------------ MODULE Settings ------------------------------
(***************************************************************************)
(* The program-wide state (state/State.h, class State; Theme.h) and the    *)
(* offer to move the executable to ~/bin (App.h, _moveOffer), for several  *)
(* runs of debase at once: sessions, and runs of `debase --theme`.         *)
(*                                                                         *)
(* Every access constructs a State, which takes the version lock for as    *)
(* long as the object lives and reads the file at once; write() truncates  *)
(* the file, and its contents arrive when the stream is closed.  A run     *)
(* that dies loses the lock, and whatever the stream still buffered.       *)
(***************************************************************************)
EXTENDS Naturals, FiniteSets

CONSTANTS
    Sessions,       \* runs of debase in a repository
    Setters,        \* runs of `debase --theme <choice>`
    Version,        \* function: the version of debase that a session is
    Choice,         \* function: the theme that a setter asks for
    Nobody          \* no run

None == "none"  \* what `--theme auto` sets
Dark == "dark"
Themes == {None, Dark, "light"}

ASSUME SettingsAssumption ==
    /\ Sessions \cap Setters = {} /\ Nobody \notin Sessions \cup Setters
    /\ \A p \in Sessions : Version[p] \in Nat
    /\ \A p \in Setters : Choice[p] \in Themes


Runs == Sessions \cup Setters
NoVersion == 0

Default == [theme |-> None, last |-> NoVersion]
Torn == [theme |-> "torn", last |-> NoVersion]  \* a file without contents

VARIABLES
    file,           \* the State file: theme, lastMoveOfferVersion
    lock,           \* the run that holds the version lock, or Nobody
    pc,             \* function: where a run is
    mem,            \* function: the _State that a run has read
    after,          \* function: where a run goes on when it has written
    moves,          \* sessions whose user chose to move the executable
    source,         \* the executable is where it was started
    bin,            \* ~/bin/debase: [complete, by], by: who truncated it last
    recorded,       \* history: the last contents that reached the file
    overlapped      \* history: an executable was removed that another run
                    \* had begun to copy

vars == <<file, lock, pc, mem, after, moves, source, bin, recorded, overlapped>>
executable == <<moves, source, bin, overlapped>>

----------------------------------------------------------------------------
Goto(p, place) == pc' = [pc EXCEPT ![p] = place]

\* State(): waits for the lock.  A file that cannot be read throws, and the
\* run ends.
CannotRead(p) ==
    /\ lock = Nobody /\ file = Torn
    /\ Goto(p, "failed")
    /\ UNCHANGED <<file, lock, mem, after, recorded, executable>>

\* A State that is asked something and destroyed at once.
Peek(p, place) ==
    /\ lock = Nobody /\ file # Torn
    /\ Goto(p, place)
    /\ UNCHANGED <<file, lock, mem, after, recorded, executable>>

\* A State that is to be written with s: the run goes on at `place` then.
ReadToWrite(p, s, place) ==
    /\ lock = Nobody /\ file # Torn
    /\ lock' = p
    /\ mem' = [mem EXCEPT ![p] = s]
    /\ after' = [after EXCEPT ![p] = place]
    /\ Goto(p, "writing")
    /\ UNCHANGED <<file, recorded, executable>>

\* write() opens the file, which truncates it.
Truncate(p) ==
    /\ pc[p] = "writing"
    /\ file' = Torn
    /\ Goto(p, "flushing")
    /\ UNCHANGED <<lock, mem, after, recorded, executable>>

\* The stream is closed, then the State releases the lock.
Flush(p) ==
    /\ pc[p] = "flushing"
    /\ file' = mem[p] /\ recorded' = mem[p]
    /\ lock' = Nobody
    /\ Goto(p, after[p])
    /\ UNCHANGED <<mem, after, executable>>

\* The disk is full: an ofstream does not say so when it is destroyed.
FlushIsLost(p) ==
    /\ pc[p] = "flushing"
    /\ lock' = Nobody
    /\ Goto(p, after[p])
    /\ UNCHANGED <<file, mem, after, recorded, executable>>

----------------------------------------------------------------------------
(***************************************************************************)
(* A session: ThemeRead, then _moveOffer, then the rest of it.             *)
(***************************************************************************)

\* A theme that is set is taken.  Otherwise the terminal is asked, under the
\* lock.
ThemeRead(p) ==
    /\ pc[p] = "start" /\ p \in Sessions
    /\ \/ CannotRead(p)
       \/ file.theme # None /\ Peek(p, "themed")
       \/ /\ lock = Nobody /\ file.theme = None
          /\ lock' = p
          /\ mem' = [mem EXCEPT ![p] = file]
          /\ Goto(p, "asking terminal")
          /\ UNCHANGED <<file, after, recorded, executable>>

\* What the terminal answers is used, and not written.
TerminalAnswers(p) ==
    /\ pc[p] = "asking terminal"
    /\ lock' = Nobody
    /\ Goto(p, "themed")
    /\ UNCHANGED <<file, mem, after, recorded, executable>>

\* It does not answer within 500 ms, or not what was expected.
TerminalFails(p) ==
    /\ pc[p] = "asking terminal"
    /\ mem' = [mem EXCEPT ![p].theme = Dark]
    /\ after' = [after EXCEPT ![p] = "themed"]
    /\ Goto(p, "writing")
    /\ UNCHANGED <<file, lock, recorded, executable>>

\* Mutant: the State that was asked lives on while the dialog is shown.
OfferCheckHolding(p) ==
    /\ pc[p] = "themed"
    /\ \/ CannotRead(p)
       \/ Peek(p, "running")
       \/ /\ lock = Nobody /\ file.last < Version[p]
          /\ lock' = p
          /\ Goto(p, "offering")
          /\ UNCHANGED <<file, mem, after, recorded, executable>>

\* Whether this version, or a newer one, was offered already.  Other reasons
\* not to offer (PATH, HOME, the shell, the name of the executable) do not
\* depend on what is modelled here.
OfferCheck(p) ==
    /\ pc[p] = "themed"
    /\ \/ CannotRead(p)
       \/ Peek(p, "running")
       \/ file.last < Version[p] /\ Peek(p, "offering")

\* Control-C at the dialog: nothing is remembered.
OfferQuit(p) ==
    /\ pc[p] = "offering"
    /\ Goto(p, "ended")
    /\ UNCHANGED <<file, lock, mem, after, recorded, executable>>

OfferAnswer(p, move) ==
    /\ pc[p] = "offering"
    /\ moves' = IF move THEN moves \cup {p} ELSE moves
    /\ Goto(p, "answered")
    /\ UNCHANGED <<file, lock, mem, after, recorded, source, bin, overlapped>>

\* Mutant: what the session read first is written.
OfferRecordStale(p) ==
    /\ pc[p] = "answered"
    /\ \/ CannotRead(p)
       \/ ReadToWrite(p, [mem[p] EXCEPT !.last = Version[p]],
                      IF p \in moves THEN "moving" ELSE "running")

\* A second State: what was read before the dialog is not used again.
OfferRecord(p) ==
    /\ pc[p] = "answered"
    /\ \/ CannotRead(p)
       \/ ReadToWrite(p, [file EXCEPT !.last = Version[p]],
                      IF p \in moves THEN "moving" ELSE "running")

\* fs::copy opens what it copies, and truncates what it overwrites.
CopyOpen(p) ==
    /\ pc[p] = "moving"
    /\ IF source
       THEN /\ bin' = [complete |-> FALSE, by |-> p]
            /\ Goto(p, "copying")
       ELSE Goto(p, "failed") /\ UNCHANGED bin
    /\ UNCHANGED <<file, lock, mem, after, recorded, moves, source, overlapped>>

\* All bytes are there, unless another run has truncated the file since.
CopyEnd(p) ==
    /\ pc[p] = "copying"
    /\ bin' = [bin EXCEPT !.complete = @ \/ bin.by = p]
    /\ Goto(p, "removing")
    /\ UNCHANGED <<file, lock, mem, after, recorded, moves, source, overlapped>>

\* Mutant: the error is ignored.
CopyFailsQuietly(p) ==
    /\ pc[p] = "copying"
    /\ Goto(p, "removing")
    /\ UNCHANGED <<file, lock, mem, after, recorded, executable>>

\* fs::copy throws: the disk is full.
CopyFails(p) ==
    /\ pc[p] = "copying"
    /\ Goto(p, "failed")
    /\ UNCHANGED <<file, lock, mem, after, recorded, executable>>

\* fs::remove does not mind if there is nothing to remove.
Remove(p) ==
    /\ pc[p] = "removing"
    /\ source' = FALSE
    /\ overlapped' = (overlapped \/ bin.by # p)
    /\ Goto(p, "running")
    /\ UNCHANGED <<file, lock, mem, after, recorded, moves, bin>>

End(p) ==
    /\ pc[p] = "running"
    /\ Goto(p, "ended")
    /\ UNCHANGED <<file, lock, mem, after, recorded, executable>>

----------------------------------------------------------------------------
\* debase --theme
ThemeWrite(p) ==
    /\ pc[p] = "start" /\ p \in Setters
    /\ \/ CannotRead(p)
       \/ ReadToWrite(p, [file EXCEPT !.theme = Choice[p]], "ended")

Alive(p) == pc[p] \notin {"ended", "failed", "killed"}

\* The run is killed, or the machine stops: the lock is free again.
Kill(p) ==
    /\ Alive(p)
    /\ Goto(p, "killed")
    /\ lock' = IF lock = p THEN Nobody ELSE lock
    /\ UNCHANGED <<file, mem, after, recorded, executable>>

----------------------------------------------------------------------------
Init ==
    /\ file = Default /\ recorded = Default
    /\ lock = Nobody
    /\ pc = [p \in Runs |-> "start"]
    /\ mem = [p \in Runs |-> Default]
    /\ after = [p \in Runs |-> "start"]
    /\ moves = {}
    /\ source = TRUE
    /\ bin = [complete |-> FALSE, by |-> Nobody]
    /\ overlapped = FALSE

\* What a run does by itself.
Step(p) ==
    \/ ThemeRead(p) \/ TerminalAnswers(p) \/ TerminalFails(p)
    \/ OfferCheck(p) \/ OfferRecord(p) \/ ThemeWrite(p)
    \/ Truncate(p) \/ Flush(p) \/ FlushIsLost(p)
    \/ CopyOpen(p) \/ CopyEnd(p) \/ CopyFails(p) \/ Remove(p)

\* What its user does, or what happens to it.
Outside(p) ==
    \/ OfferQuit(p) \/ End(p) \/ Kill(p)
    \/ \E move \in BOOLEAN : OfferAnswer(p, move)

Next == \E p \in Runs : Step(p) \/ Outside(p)

\* A run goes on by itself; nobody has to answer a dialog.
Spec == Init /\ [][Next]_vars /\ \A p \in Runs : WF_vars(Step(p))

----------------------------------------------------------------------------
(***************************************************************************)
(* What the proofs rest on.                                                *)
(***************************************************************************)
Contents == [theme : Themes \cup {"torn"}, last : Nat]
Locking == {"asking terminal", "writing", "flushing"}
OfSession == {"themed", "offering", "answered", "moving", "copying", "removing", "running"}

TypeOK ==
    /\ file \in Contents /\ recorded \in Contents
    /\ lock \in Runs \cup {Nobody}
    /\ pc \in [Runs -> Locking \cup OfSession \cup {"start", "ended", "failed", "killed"}]
    /\ mem \in [Runs -> Contents]
    /\ after \in [Runs -> {"start", "themed", "running", "moving", "ended"}]
    /\ moves \subseteq Runs
    /\ source \in BOOLEAN /\ overlapped \in BOOLEAN
    /\ bin \in [complete : BOOLEAN, by : Runs \cup {Nobody}]

\* What run p may make of the contents r.
Change(p, r, s) ==
    \/ p \in Setters /\ s = [r EXCEPT !.theme = Choice[p]]
    \/ r.theme = None /\ s = [r EXCEPT !.theme = Dark]
    \/ p \in Sessions /\ s = [r EXCEPT !.last = Version[p]]

\* The run that holds the lock, and only it, is between reading and writing; what it read is
\* what was recorded last, which the file holds unless it is torn.
LockProtects ==
    /\ \A p \in Runs : lock = p <=> pc[p] \in Locking
    /\ file # Torn => file = recorded
    /\ \A p \in Runs :
          /\ pc[p] = "asking terminal" => mem[p] = recorded /\ recorded.theme = None
          /\ pc[p] \in {"writing", "flushing"} => Change(p, recorded, mem[p])

\* Only sessions move the executable, and they have the whole copy before they remove it,
\* unless another session has truncated it.
MovesAreSessions ==
    \A p \in Runs :
        /\ pc[p] \in OfSession \cup {"asking terminal"} => p \in Sessions
        /\ pc[p] \in {"writing", "flushing"} /\ after[p] # "ended" => p \in Sessions

CopiesComeFirst ==
    /\ ~source => bin.complete \/ overlapped
    /\ \A p \in Runs : pc[p] = "removing" => bin.complete \/ bin.by # p

SettingsInv == TypeOK /\ LockProtects /\ MovesAreSessions /\ CopiesComeFirst

(***************************************************************************)
(* No run takes back what another has recorded, though all rewrite the     *)
(* whole file: the theme changes only by `debase --theme`, or from none to *)
(* the default; and the version that was last offered drops only by an     *)
(* older debase that was offering before.                                  *)
(***************************************************************************)
NothingIsTakenBack ==
    [][recorded' # recorded =>
          \E p \in Runs :
             /\ pc[p] = "flushing"
             /\ Change(p, recorded, recorded')]_vars

(***************************************************************************)
(* There is always a whole executable, whatever fails or is killed while   *)
(* it is copied and removed, unless two sessions move it at once.          *)
(***************************************************************************)
ExecutableIsKept == source \/ bin.complete \/ overlapped

(***************************************************************************)
(* Every wait for the lock ends, however long the user of another session  *)
(* looks at a dialog, and whoever dies: a run that is started gets its     *)
(* theme or ends, and an answer to the offer is recorded or the run ends.  *)
(***************************************************************************)
WaitsEnd ==
    \A p \in Runs :
        \A place \in {"start", "answered"} : pc[p] = place ~> pc[p] # place
=============================================================================
