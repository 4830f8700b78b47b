------------------------------ MODULE Restart ------------------------------
(***************************************************************************)
(* The separation engine across a restart of the voice process.  The board *)
(* lives in that process; the flights table keeps a row per aircraft, and  *)
(* a pilot's turn ends by writing the speaker's row -- and no other.  A    *)
(* restart rebuilds the board, and the letdown, from the rows.             *)
(*                                                                         *)
(* The clock is left out, as in Fields: nothing in the voice process calls *)
(* tick.  A restart is taken to come within the hour for which rows are    *)
(* restored.                                                               *)
(***************************************************************************)
EXTENDS Stack

CONSTANT MaxLost        \* a bound: how many writes to the flights service fail

ASSUME MaxLostAssumption == MaxLost \in Nat

VARIABLES
    row,        \* what the flights table holds of each aircraft
    lost,       \* how many writes have failed
    kept,       \* those to whom nothing has happened since their row was written
    overruled   \* of those, the ones radar saw in another phase than the engine's

rvars == <<vars, row, lost, kept, overruled>>

Rows == [phase : Phases, level : Levels, tries : 0 .. MaxApproaches]

\* A row as it is bound, before anything was agreed.
BareRow == [phase |-> "UNKNOWN", level |-> NoLevel, tries |-> 0]

RestartInit ==
    /\ Init
    /\ row = [c \in Callsigns |-> BareRow]
    /\ lost = 0
    /\ kept = {} /\ overruled = {}

\* What radar's geometry may call him: on the final, or on the missed approach.
SeenAs == {"CLEARED", "MISSED"}

\* The phase the end of c's turn writes: the engine's, or what radar saw when he
\* was on a procedure it flies him down.
PhasesWritten(c) == {phase'[c]} \cup IF phase'[c] = "LANDED" THEN {} ELSE SeenAs

\* What the end of c's turn writes.  An assigned level of None is not written:
\* the row keeps the last one there was.
Written(c, seen) ==
    [phase |-> seen,
     level |-> IF level'[c] = NoLevel THEN row[c].level ELSE level'[c],
     tries |-> tries'[c]]

\* The row of c becomes r, unless the write fails: any write may.
Stored(c, r) == row' = [row EXCEPT ![c] = r] /\ UNCHANGED lost
WriteFails == lost < MaxLost /\ lost' = lost + 1 /\ UNCHANGED row
Write(c, r) == Stored(c, r) \/ WriteFails

Moved == {d \in Callsigns : \/ phase'[d] # phase[d] \/ level'[d] # level[d]
                            \/ tries'[d] # tries[d] \/ (letdown' = d) # (letdown = d)}

\* The calls of a pilot's turn, radar's look at the final among them.
Calls(c) ==
    \/ CheckIn(c) \/ ReportBeacon(c) \/ ReportMissed(c) \/ ReportLanded(c)
    \/ RequestVisual(c) \/ RequestApproach(c) \/ RequestBreakup(c) \/ SeenOnFinal(c)

\* A turn may come to nothing in the engine (a read-back): the row is still written.
Turn(c) ==
    /\ Calls(c) \/ UNCHANGED vars
    /\ \/ \E seen \in PhasesWritten(c) :
            /\ Stored(c, Written(c, seen))
            /\ kept' = (kept \ Moved) \cup {c}
            /\ overruled' = ((overruled \ Moved) \ {c}) \cup {d \in {c} : seen # phase'[d]}
       \/ /\ WriteFails
          /\ kept' = kept \ Moved
          /\ overruled' = overruled \ Moved

\* What the radar thread and other aerodromes' turns do: nothing is written.
OffTurn ==
    /\ \/ \E c \in Callsigns : ReportDown(c) \/ \E l \in VectorLevels : NoteVectored(c, l)
       \/ TryEveryStack
    /\ UNCHANGED <<row, lost>>
    /\ kept' = kept \ Moved
    /\ overruled' = overruled \ Moved

\* The sweep takes the silent off the board, and deletes the row.
Swept(c) ==
    /\ Release(c)
    /\ Write(c, BareRow)
    /\ kept' = kept \ ({c} \cup Moved)
    /\ overruled' = overruled \ ({c} \cup Moved)

\* A bug: the phases are restored and the letdown is left empty.
LetdownForgotten(cleared) == {NoOne}

\* The letdown goes to the last aircraft restored as CLEARED.
LetdownRestored(cleared) == IF cleared = {} THEN {NoOne} ELSE cleared

\* The rows of landed aircraft are not handed out; every other row is believed.
BridgeRestarts ==
    LET back == [c \in Callsigns |-> IF row[c].phase = "LANDED" THEN BareRow ELSE row[c]]
        lv == [c \in Callsigns |-> back[c].level]
    IN  /\ phase' = [c \in Callsigns |-> back[c].phase]
        /\ level' = lv
        /\ tries' = [c \in Callsigns |-> back[c].tries]
        /\ timed' = {}
        /\ letdown' \in LetdownRestored({c \in Callsigns : back[c].phase = "CLEARED"})
        /\ told' = {c \in told : lv[c] = level[c]}
        /\ doubled' = (doubled \/ \E c \in Callsigns : lv[c] # NoLevel
                                    /\ \E d \in Callsigns \ {c} : lv[d] = lv[c])
        /\ kept' = {c \in kept : row[c].phase # "LANDED"}
        /\ overruled' = {}
        /\ UNCHANGED <<row, lost>>

RestartNext ==
    \/ \E c \in Callsigns : Turn(c) \/ Swept(c)
    \/ OffTurn
    \/ BridgeRestarts

RestartSpec == RestartInit /\ [][RestartNext]_rvars

---------------------------------------------------------------------------
RestartTypeOK ==
    /\ TypeOK
    /\ row \in [Callsigns -> Rows]
    /\ lost \in 0 .. MaxLost
    /\ kept \in SUBSET Callsigns
    /\ overruled \in SUBSET kept

Flying(c) == phase[c] # "LANDED"

\* An aircraft to whom nothing has happened since its own last turn is restored
\* as it was -- its approaches, its level if it had one, its phase unless radar saw
\* another -- and if it was on the approach, and radar did not see otherwise, the
\* letdown is not empty afterwards, whoever else's row says the same of him.
\* Whom radar overruled comes back on the final or on the missed approach.
SpeakerSurvives ==
    [][ BridgeRestarts =>
          \A c \in kept : Flying(c) =>
            /\ tries'[c] = tries[c]
            /\ level[c] # NoLevel => level'[c] = level[c]
            /\ IF c \in overruled THEN phase'[c] \in SeenAs ELSE phase'[c] = phase[c]
            /\ letdown = c /\ c \notin overruled =>
                 /\ letdown' # NoOne
                 /\ (\A d \in Callsigns \ {c} : row[d].phase # "CLEARED") => letdown' = c ]_rvars
=============================================================================
