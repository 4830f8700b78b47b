-------------------------------- MODULE Atis --------------------------------
(***************************************************************************)
(* One aerodrome's broadcast.  A loop reads the weather, decides whether it *)
(* is news, records it under a letter and plays it; the table holds what    *)
(* was recorded, and the controllers read the runway and the letter there.  *)
(* The letter is how a pilot knows that what he copied is what is on the    *)
(* air.  The loop restarts with the bridge and stands by while nobody flies.*)
(*                                                                         *)
(* Weather is the wind, in steps of which two are a shift worth a letter;   *)
(* time goes in polls.                                                      *)
(***************************************************************************)
EXTENDS Integers

CONSTANTS
    Winds,          \* the winds there are
    Turned,         \* those that put the other runway in use
    Declared,       \* the one the mission was built with
    LetterCount,    \* the letters
    Hour,           \* ROTATE_AFTER_SEC, in polls
    MaxChanges, MaxFaults, MaxRestarts  \* bounds

ASSUME WindsAssumption == Winds \subseteq Nat /\ Turned \subseteq Winds /\ Declared \in Winds
ASSUME CountsAssumption ==
    /\ LetterCount \in Nat \ {0} /\ Hour \in Nat \ {0}
    /\ MaxChanges \in Nat /\ MaxFaults \in Nat /\ MaxRestarts \in Nat

VARIABLES
    wind,       \* what the simulator would say
    flying,     \* there is a player on the server
    up,         \* the bridge runs
    due,        \* the loop has not polled since the clock moved
    tape,       \* on_air: its letter, the wind it speaks of, its age
    seen,       \* the wind of the loop's last poll
    row,        \* the table
    failed,     \* history: the last recording was not rendered or not published
    said,       \* atis_letter: what the pilot took down and told a controller,
                \* and from how many recordings ago
    changes, faults, restarts

vars == <<wind, flying, up, due, tape, seen, row, failed, said, changes, faults, restarts>>
world == <<wind, flying, changes>>
loop == <<up, tape, seen, row, failed, restarts>>

None == -1
Letters == 0 .. LetterCount - 1
Off == [letter |-> None, wind |-> None, age |-> 0]
Nothing == [letter |-> None, wind |-> None, since |-> 0, whole |-> FALSE]

Recordings == [letter : Letters \cup {None}, wind : Winds \cup {None}, age : 0..Hour]
Copies == [letter : Letters \cup {None}, wind : Winds \cup {None},
           since : 0..LetterCount, whole : BOOLEAN]

Runway(w) == IF w \in Turned THEN "turned" ELSE "usual"

Init ==
    /\ wind \in Winds /\ flying \in BOOLEAN
    /\ up = TRUE /\ due = TRUE
    /\ tape = Off /\ seen = None /\ row = Off /\ failed = FALSE
    /\ said = Nothing
    /\ changes = 0 /\ faults = 0 /\ restarts = 0

---------------------------------------------------------------------------
(* What of the weather is news.                                              *)

SameAs(w, v) == Runway(w) = Runway(v) /\ w - v \in -1..1

\* A bug: a recording that is an hour old is no reason for a new one.
DueWhenMoved(was, previous) == previous # None /\ ~SameAs(wind, previous)

DueForRotation(was, previous) ==
    was.age >= Hour \/ (previous # None /\ ~SameAs(wind, previous))

\* A bug: what has moved is recorded under the letter of before.
LetterAtTheHour(was) == IF was.age >= Hour THEN (was.letter + 1) % LetterCount ELSE was.letter

NextLetter(was) == (was.letter + 1) % LetterCount

\* The letter, whatever it is, of a field that has been on the air all day; the
\* next; or the same again for a letter that has no recording.
Rerecord ==
    IF tape.letter = None THEN Letters
    ELSE IF DueForRotation(tape, seen) THEN {NextLetter(tape)}
    ELSE IF tape.wind = None THEN {tape.letter}
    ELSE {}

---------------------------------------------------------------------------
(* The loop.                                                                 *)

\* Bound: renders, publications and reads that fail.
Fails(ok) == IF ok THEN UNCHANGED faults ELSE faults < MaxFaults /\ faults' = faults + 1

\* A bug: a recording under the letter of before is not written to the table.
PublishNewLetter(letter) ==
    IF letter = row.letter THEN UNCHANGED row
    ELSE row' = [letter |-> letter, wind |-> wind, age |-> 0]

\* The wind just read goes to the table, with the letter that is on the air.
Publish(letter) == row' = [letter |-> letter, wind |-> wind, age |-> 0]

\* A recording that cannot be rendered leaves the old one on the air, with a new age.
Record(letter, rendered, published) ==
    /\ tape' = IF rendered THEN [letter |-> letter, wind |-> wind, age |-> 0]
               ELSE [tape EXCEPT !.age = 0]
    /\ IF published THEN Publish(tape'.letter) ELSE UNCHANGED row
    /\ Fails(rendered /\ published)
    /\ failed' = ~(rendered /\ published)
    /\ said' = [said EXCEPT !.since = IF @ < LetterCount THEN @ + 1 ELSE @,
                            !.whole = @ /\ rendered /\ published]

Polls == up /\ due /\ due' = FALSE

Observe ==
    /\ Polls /\ flying
    /\ seen' = wind
    /\ IF Rerecord = {} THEN UNCHANGED <<tape, row, failed, said, faults>>
       ELSE \E letter \in Rerecord, rendered, published \in BOOLEAN :
                Record(letter, rendered, published)
    /\ UNCHANGED <<world, up, restarts>>

\* The weather cannot be read: what is on the air stays on the air.
ReadFails ==
    /\ Polls /\ flying /\ Fails(FALSE)
    /\ UNCHANGED <<world, loop, said>>

\* Nobody to hear it.
StandBy ==
    /\ Polls /\ ~flying
    /\ UNCHANGED <<world, loop, said, faults>>

\* Bound: the times the bridge goes down.
GoesDown ==
    /\ up /\ restarts < MaxRestarts /\ restarts' = restarts + 1
    /\ up' = FALSE /\ due' = FALSE /\ tape' = Off /\ seen' = None
    /\ UNCHANGED <<world, row, failed, said, faults>>

\* The letter and its age come back from the table, the recording does not.  A
\* table that cannot be read is a field that was never on the air.
ComesUp(readable) ==
    /\ ~up /\ up' = TRUE /\ due' = TRUE
    /\ tape' = IF readable /\ row.letter # None THEN [row EXCEPT !.wind = None] ELSE Off
    /\ Fails(readable)
    /\ said' = [said EXCEPT !.whole = FALSE]
    /\ UNCHANGED <<world, seen, row, failed, restarts>>

---------------------------------------------------------------------------
(* The world, and the pilot.                                                 *)

\* Bound: the times the wind changes.
Blows ==
    /\ changes < MaxChanges /\ changes' = changes + 1
    /\ wind' \in Winds \ {wind}
    /\ UNCHANGED <<flying, loop, due, said, faults>>

JoinsOrLeaves ==
    /\ flying' = ~flying
    /\ UNCHANGED <<wind, changes, loop, due, said, faults>>

\* Time goes by for the tape and for the row; a loop that runs polls in between.
Aged(recording) == [recording EXCEPT !.age = IF @ < Hour THEN @ + 1 ELSE @]
Tick ==
    /\ ~due
    /\ due' = up
    /\ tape' = IF up THEN Aged(tape) ELSE tape
    /\ row' = Aged(row)
    /\ UNCHANGED <<world, up, seen, failed, restarts, said, faults>>

\* He takes down what is on the air and tells the controller, who keeps it.
TellsInformation ==
    /\ up /\ flying /\ tape.wind # None
    /\ said' = [letter |-> tape.letter, wind |-> tape.wind, since |-> 0, whole |-> ~failed]
    /\ UNCHANGED <<world, loop, due, faults>>

\* What a controller answers who reads the table: no broadcast, current, not
\* current, or which one to have.
Answer ==
    IF row.letter = None THEN "say your request"
    ELSE IF said.letter = row.letter THEN "current"
    ELSE IF said.letter # None THEN "current now" ELSE "advise"

\* The runway he names, asked of the table and computed only if it has none.
RunwaySpoken == Runway(IF row.wind = None THEN Declared ELSE row.wind)

---------------------------------------------------------------------------
Loop == Observe \/ ReadFails \/ StandBy

Next ==
    \/ Loop \/ GoesDown \/ ComesUp(TRUE) \/ ComesUp(FALSE)
    \/ Blows \/ JoinsOrLeaves \/ Tick \/ TellsInformation

\* The loop polls, time passes, and a bridge that is down is started again.
Spec == Init /\ [][Next]_vars /\ WF_vars(Loop) /\ WF_vars(Tick) /\ WF_vars(ComesUp(TRUE))

---------------------------------------------------------------------------
(* Properties.                                                               *)

\* The type of every variable.
TypeOK ==
    /\ wind \in Winds /\ flying \in BOOLEAN /\ up \in BOOLEAN /\ due \in BOOLEAN
    /\ tape \in Recordings /\ seen \in Winds \cup {None} /\ row \in Recordings
    /\ failed \in BOOLEAN /\ said \in Copies

\* HAZARD: two authors of one runway.  While a recording is on the air that was
\* rendered and published, the letter and the runway the controllers read in the
\* table are those the broadcast says -- after restarts, and whoever reads.
OneSourceOfTruth ==
    up /\ tape.wind # None /\ ~failed
        => row.letter = tape.letter /\ RunwaySpoken = Runway(tape.wind)

\* HAZARD: the letter stands for the words.  A pilot who is told that his letter
\* is current has the runway that is in use, if he copied it since the bridge came
\* up, nothing failed, and the letters have not gone all the way round.
CurrentIsCurrent ==
    Answer = "current" /\ said.whole /\ said.since < LetterCount
        => Runway(said.wind) = RunwaySpoken

\* HAZARD: a change that was missed, in a poll that failed, an outage or a slow
\* drift.  Once somebody flies for good and the wind has settled, the broadcast
\* and the table come to speak of the wind there is, under one letter.
CatchesUp ==
    <>[]flying => <>[](tape.wind = wind /\ row.wind = wind /\ row.letter = tape.letter)
=============================================================================
