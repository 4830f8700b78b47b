------------------------------ MODULE AtisProofs ------------------------------
(***************************************************************************)
(* For any winds, letters and hours, and any number of faults, restarts and *)
(* changes of the wind: the table says what the broadcast says, and a pilot *)
(* told that his letter is current has the runway in use.                   *)
(*                                                                         *)
(* The second is about two moments, the one he copied at and now.  What     *)
(* links them (CopyFollowed) is that the letter on the air is his advanced  *)
(* once for each recording made since, as long as he has been told the      *)
(* whole of each; so that it is his again only when none was made, or when  *)
(* the letters have gone all the way round.                                 *)
(***************************************************************************)
EXTENDS Atis, TLAPS

\* The letter that comes s recordings after l.
After(l, s) == IF l + s < LetterCount THEN l + s ELSE l + s - LetterCount

TapeIsRow ==
    up /\ tape.wind # None /\ ~failed =>
        row.letter = tape.letter /\ row.wind = tape.wind

\* What is on the air has a letter.
TapeHasLetter == tape.wind # None => tape.letter # None

CopyFollowed ==
    said.whole =>
        /\ ~failed
        /\ up => tape.wind # None
        /\ said.letter \in Letters /\ row.letter \in Letters /\ row.wind # None
        /\ said.since < LetterCount => row.letter = After(said.letter, said.since)
        /\ said.since = 0 => row.wind = said.wind

IInv == TypeOK /\ TapeHasLetter /\ TapeIsRow /\ CopyFollowed

-----------------------------------------------------------------------------
LEMMA ConstantsAre ==
    /\ LetterCount \in Nat \ {0} /\ Hour \in Nat \ {0} /\ Winds \subseteq Nat
    /\ Letters = 0 .. LetterCount - 1 /\ None \notin Letters /\ None \notin Winds
BY WindsAssumption, CountsAssumption DEF Letters, None

LEMMA NextIsAfter ==
    ASSUME NEW was, was.letter \in Letters
    PROVE  NextLetter(was) = After(was.letter, 1) /\ NextLetter(was) \in Letters
BY CountsAssumption DEF NextLetter, After, Letters

LEMMA AfterAgain ==
    ASSUME NEW l \in Letters, NEW n \in 0..LetterCount, n + 1 < LetterCount
    PROVE  After(After(l, n), 1) = After(l, n + 1) /\ After(l, n) \in Letters
BY CountsAssumption DEF After, Letters

LEMMA AfterAll ==
    ASSUME NEW l \in Letters, NEW n \in 0..LetterCount, n < LetterCount, After(l, n) = l
    PROVE  n = 0
BY CountsAssumption DEF After, Letters

LEMMA TypesOfParts ==
    ASSUME TypeOK
    PROVE  /\ tape.letter \in Letters \cup {None} /\ tape.wind \in Winds \cup {None}
           /\ row.letter \in Letters \cup {None} /\ row.wind \in Winds \cup {None}
           /\ said.since \in 0..LetterCount /\ said.whole \in BOOLEAN
           /\ wind \in Winds /\ wind # None
BY ConstantsAre DEF TypeOK, Recordings, Copies

\* Made out of its three parts, a recording is one.
LEMMA RecordingIs ==
    ASSUME NEW l \in Letters \cup {None}, NEW w \in Winds \cup {None}, NEW a \in 0..Hour
    PROVE  [letter |-> l, wind |-> w, age |-> a] \in Recordings
BY DEF Recordings

LEMMA ZeroIsAnAge == 0 \in 0..Hour /\ 0 \in 0..LetterCount
BY CountsAssumption

LEMMA InitHolds == Init => IInv
<1> SUFFICES ASSUME Init PROVE IInv
  OBVIOUS
<1>1. Off \in Recordings
  BY RecordingIs, ZeroIsAnAge DEF Off
<1>2. Nothing \in Copies
  BY ZeroIsAnAge DEF Nothing, Copies
<1>3. TypeOK
  BY <1>1, <1>2 DEF Init, TypeOK
<1>4. TapeHasLetter /\ TapeIsRow /\ CopyFollowed
  BY DEF Init, TapeHasLetter, TapeIsRow, CopyFollowed, Off, Nothing
<1>5. QED
  BY <1>3, <1>4 DEF IInv

-----------------------------------------------------------------------------
(* A recording.                                                              *)

LEMMA RerecordIs ==
    ASSUME TypeOK, NEW letter \in Rerecord
    PROVE  /\ letter \in Letters
           /\ tape.letter \in Letters /\ tape.wind # None => letter = After(tape.letter, 1)
<1>1. CASE tape.letter = None
  BY <1>1, ConstantsAre DEF Rerecord
<1>2. CASE tape.letter # None
  <2>1. tape.letter \in Letters
    BY <1>2, TypesOfParts
  <2>2. NextLetter(tape) = After(tape.letter, 1) /\ NextLetter(tape) \in Letters
    BY <2>1, NextIsAfter
  <2>3. letter = NextLetter(tape) \/ (tape.wind = None /\ letter = tape.letter)
    BY <1>2 DEF Rerecord
  <2>4. QED
    BY <2>1, <2>2, <2>3
<1>3. QED
  BY <1>1, <1>2

LEMMA RecordKeeps ==
    ASSUME IInv, up = TRUE, NEW letter \in Rerecord,
           NEW rendered \in BOOLEAN, NEW published \in BOOLEAN,
           Record(letter, rendered, published)
    PROVE  /\ tape' \in Recordings /\ row' \in Recordings /\ failed' \in BOOLEAN
           /\ said' \in Copies
           /\ TapeHasLetter'
           /\ tape'.wind # None /\ ~failed' =>
                  row'.letter = tape'.letter /\ row'.wind = tape'.wind
           /\ (up' = TRUE => CopyFollowed')
<1>1. TypeOK /\ letter \in Letters /\ wind \in Winds /\ wind # None
  BY RerecordIs, TypesOfParts DEF IInv
<1>2. ASSUME rendered
      PROVE  tape' = [letter |-> letter, wind |-> wind, age |-> 0]
  BY <1>2 DEF Record
<1>3. tape' \in Recordings
  <2>1. CASE rendered
    BY <1>1, <1>2, <2>1, RecordingIs, ZeroIsAnAge
  <2>2. CASE ~rendered
    BY <1>1, <2>2, ZeroIsAnAge DEF Record, TypeOK, Recordings
  <2>3. QED
    BY <2>1, <2>2
<1>4. ASSUME published
      PROVE  row' = [letter |-> tape'.letter, wind |-> wind, age |-> 0]
  BY <1>4 DEF Record, Publish
<1>5. row' \in Recordings
  <2>1. tape'.letter \in Letters \cup {None}
    BY <1>3 DEF Recordings
  <2>2. CASE published
    BY <1>1, <1>4, <2>1, <2>2, RecordingIs, ZeroIsAnAge
  <2>3. CASE ~published
    BY <1>1, <2>3 DEF Record, TypeOK
  <2>4. QED
    BY <2>2, <2>3
<1>6. failed' = ~(rendered /\ published)
  BY DEF Record
<1>7. /\ said'.letter = said.letter /\ said'.wind = said.wind
      /\ said'.since = IF said.since < LetterCount THEN said.since + 1 ELSE said.since
      /\ said'.whole = (said.whole /\ rendered /\ published)
      /\ said' \in Copies
  <2>1. IF said.since < LetterCount THEN said.since + 1 \in 0..LetterCount
                                    ELSE said.since \in 0..LetterCount
    BY <1>1, TypesOfParts, CountsAssumption
  <2>2. said' = [said EXCEPT !.since = IF said.since < LetterCount THEN said.since + 1
                                       ELSE said.since,
                             !.whole = said.whole /\ rendered /\ published]
    BY DEF Record
  <2>3. said \in Copies /\ said.whole \in BOOLEAN
    BY <1>1, TypesOfParts DEF TypeOK
  <2>4. QED
    BY <2>1, <2>2, <2>3 DEF Copies
<1>8. tape'.wind # None /\ ~failed' => row'.letter = tape'.letter /\ row'.wind = tape'.wind
  <2>1. ASSUME ~failed' PROVE rendered /\ published
    BY <1>6, <2>1
  <2>2. ASSUME rendered, published
        PROVE  row'.letter = tape'.letter /\ row'.wind = tape'.wind
    BY <1>2, <1>4, <2>2
  <2>3. QED
    BY <2>1, <2>2
<1>9. ASSUME up' = TRUE PROVE CopyFollowed'
  <2>1. SUFFICES ASSUME said.whole, rendered, published
                 PROVE  /\ ~failed' /\ tape'.wind # None
                        /\ said'.letter \in Letters /\ row'.letter \in Letters /\ row'.wind # None
                        /\ said'.since < LetterCount => row'.letter = After(said'.letter, said'.since)
                        /\ said'.since = 0 => row'.wind = said'.wind
    BY <1>7 DEF CopyFollowed
  <2>2. tape'.letter = letter /\ tape'.wind = wind /\ row'.letter = letter /\ row'.wind = wind
    BY <1>2, <1>4, <2>1
  <2>3. /\ tape.wind # None /\ tape.letter = row.letter
        /\ row.letter \in Letters /\ said.letter \in Letters
        /\ said.since < LetterCount => row.letter = After(said.letter, said.since)
    BY <2>1 DEF IInv, CopyFollowed, TapeIsRow
  <2>4. letter = After(row.letter, 1)
    BY <1>1, <2>3, RerecordIs
  <2>5. said.since \in 0..LetterCount
    BY <1>1, TypesOfParts
  <2>6. said'.since # 0
    BY <1>7, <2>5, CountsAssumption
  <2>7. ASSUME said'.since < LetterCount
        PROVE  letter = After(said.letter, said'.since)
    <3>1. said.since + 1 < LetterCount /\ said'.since = said.since + 1
      BY <1>7, <2>5, <2>7, CountsAssumption
    <3>2. said.since < LetterCount
      BY <2>5, <3>1, CountsAssumption
    <3>3. After(After(said.letter, said.since), 1) = After(said.letter, said.since + 1)
      BY <2>3, <2>5, <3>1, AfterAgain
    <3>4. QED
      BY <2>3, <2>4, <3>1, <3>2, <3>3
  <2>8. QED
    BY <1>1, <1>6, <1>7, <2>1, <2>2, <2>3, <2>6, <2>7
<1>10. TapeHasLetter'
  <2>1. CASE rendered
    BY <1>1, <1>2, <2>1, ConstantsAre DEF TapeHasLetter
  <2>2. CASE ~rendered
    BY <2>2 DEF Record, IInv, TypeOK, Recordings, TapeHasLetter
  <2>3. QED
    BY <2>1, <2>2
<1>11. QED
  BY <1>3, <1>5, <1>6, <1>7, <1>8, <1>9, <1>10

LEMMA ObserveKeeps == ASSUME IInv, Observe PROVE IInv'
<1>1. up = TRUE /\ up' = TRUE /\ due' = FALSE /\ seen' = wind /\ wind' = wind /\ flying' = flying
  BY DEF Observe, Polls, world, IInv, TypeOK
<1>2. CASE Rerecord = {}
  <2>1. UNCHANGED <<tape, row, failed, said>>
    BY <1>2 DEF Observe
  <2>2. QED
    BY <1>1, <2>1 DEF IInv, TypeOK, TapeHasLetter, TapeIsRow, CopyFollowed
<1>3. CASE Rerecord # {}
  <2>1. PICK letter \in Rerecord, rendered \in BOOLEAN, published \in BOOLEAN :
            Record(letter, rendered, published)
    BY <1>3 DEF Observe
  <2>2. /\ tape' \in Recordings /\ row' \in Recordings /\ failed' \in BOOLEAN
        /\ said' \in Copies /\ TapeHasLetter'
        /\ tape'.wind # None /\ ~failed' =>
               row'.letter = tape'.letter /\ row'.wind = tape'.wind
        /\ CopyFollowed'
    BY <1>1, <2>1, RecordKeeps
  <2>3. TypeOK'
    BY <1>1, <2>2 DEF IInv, TypeOK
  <2>4. TapeIsRow'
    BY <2>2 DEF TapeIsRow
  <2>5. QED
    BY <2>2, <2>3, <2>4 DEF IInv
<1>4. QED
  BY <1>2, <1>3

-----------------------------------------------------------------------------
(* The other steps leave the recording, or have none.                        *)

LEMMA ComesUpKeeps == ASSUME IInv, NEW readable \in BOOLEAN, ComesUp(readable) PROVE IInv'
<1>1. /\ up' = TRUE /\ due' = TRUE /\ tape'.wind = None /\ tape' \in Recordings
  BY RecordingIs, ZeroIsAnAge DEF ComesUp, Off, IInv, TypeOK, Recordings
<1>2. said' \in Copies /\ ~said'.whole
  BY DEF ComesUp, IInv, TypeOK, Copies
<1>3. UNCHANGED <<wind, flying, seen, row, failed>>
  BY DEF ComesUp, world
<1>4. TypeOK'
  BY <1>1, <1>2, <1>3 DEF IInv, TypeOK
<1>5. TapeHasLetter' /\ TapeIsRow' /\ CopyFollowed'
  BY <1>1, <1>2 DEF TapeHasLetter, TapeIsRow, CopyFollowed
<1>6. QED
  BY <1>4, <1>5 DEF IInv

LEMMA AgedIs ==
    ASSUME NEW r \in Recordings
    PROVE  Aged(r) \in Recordings /\ Aged(r).letter = r.letter /\ Aged(r).wind = r.wind
<1>1. r.age \in 0..Hour /\ Hour \in Nat
  BY CountsAssumption DEF Recordings
<1>2. (IF r.age < Hour THEN r.age + 1 ELSE r.age) \in 0..Hour
  BY <1>1
<1>3. QED
  BY <1>2 DEF Aged, Recordings

LEMMA TickKeeps == ASSUME IInv, Tick PROVE IInv'
<1>1. /\ tape' \in Recordings /\ tape'.letter = tape.letter /\ tape'.wind = tape.wind
      /\ row' \in Recordings /\ row'.letter = row.letter /\ row'.wind = row.wind
  BY AgedIs DEF Tick, IInv, TypeOK
<1>2. UNCHANGED <<wind, flying, up, seen, failed, said>> /\ due' \in BOOLEAN
  BY DEF Tick, world, IInv, TypeOK
<1>3. TypeOK'
  BY <1>1, <1>2 DEF IInv, TypeOK
<1>4. TapeHasLetter' /\ TapeIsRow'
  BY <1>1, <1>2 DEF IInv, TapeHasLetter, TapeIsRow
<1>5. CopyFollowed'
  BY <1>1, <1>2 DEF IInv, CopyFollowed
<1>6. QED
  BY <1>3, <1>4, <1>5 DEF IInv

LEMMA TellsKeeps == ASSUME IInv, TellsInformation PROVE IInv'
<1>1. /\ up = TRUE /\ tape.wind # None
      /\ said' = [letter |-> tape.letter, wind |-> tape.wind, since |-> 0, whole |-> ~failed]
      /\ UNCHANGED <<wind, flying, up, due, tape, seen, row, failed>>
  BY DEF TellsInformation, world, loop, IInv, TypeOK
<1>2. TypeOK'
  BY <1>1, TypesOfParts, ZeroIsAnAge DEF IInv, TypeOK, Copies
<1>3. TapeHasLetter' /\ TapeIsRow'
  BY <1>1 DEF IInv, TapeHasLetter, TapeIsRow
<1>4. CopyFollowed'
  <2>1. /\ said'.whole = ~failed /\ said'.letter = tape.letter /\ said'.wind = tape.wind
        /\ said'.since = 0
    BY <1>1
  <2>2. ASSUME ~failed
        PROVE  row.letter = tape.letter /\ row.wind = tape.wind /\ tape.letter \in Letters
    BY <1>1, <2>2, TypesOfParts DEF IInv, TapeIsRow, TapeHasLetter
  <2>3. tape.letter \in Letters => After(tape.letter, 0) = tape.letter
    BY CountsAssumption DEF After, Letters
  <2>4. ASSUME said'.whole PROVE ~failed
    BY <2>1, <2>4
  <2>5. QED
    BY <1>1, <2>1, <2>2, <2>3, <2>4 DEF CopyFollowed
<1>5. QED
  BY <1>2, <1>3, <1>4 DEF IInv

LEMMA OthersKeep ==
    ASSUME IInv, ReadFails \/ StandBy \/ Blows \/ JoinsOrLeaves
    PROVE  IInv'
<1>1. /\ UNCHANGED <<up, tape, seen, row, failed, said>>
      /\ wind' \in Winds /\ flying' \in BOOLEAN /\ due' \in BOOLEAN
  BY DEF ReadFails, StandBy, Blows, JoinsOrLeaves, Polls, world, loop, IInv, TypeOK
<1>2. TypeOK'
  BY <1>1 DEF IInv, TypeOK
<1>3. TapeHasLetter' /\ TapeIsRow' /\ CopyFollowed'
  BY <1>1 DEF IInv, TapeHasLetter, TapeIsRow, CopyFollowed
<1>4. QED
  BY <1>2, <1>3 DEF IInv

LEMMA GoesDownKeeps == ASSUME IInv, GoesDown PROVE IInv'
<1>1. /\ up' = FALSE /\ due' = FALSE /\ seen' = None /\ tape' = Off
      /\ UNCHANGED <<wind, flying, row, failed, said>>
  BY DEF GoesDown, world
<1>2. Off \in Recordings
  BY RecordingIs, ZeroIsAnAge DEF Off
<1>3. TypeOK'
  BY <1>1, <1>2 DEF IInv, TypeOK
<1>4. TapeHasLetter' /\ TapeIsRow' /\ CopyFollowed'
  BY <1>1 DEF IInv, TapeHasLetter, TapeIsRow, CopyFollowed, Off
<1>5. QED
  BY <1>3, <1>4 DEF IInv

-----------------------------------------------------------------------------
LEMMA StepHolds == IInv /\ [Next]_vars => IInv'
<1>1. ASSUME IInv, UNCHANGED vars PROVE IInv'
  BY <1>1 DEF vars, IInv, TypeOK, TapeHasLetter, TapeIsRow, CopyFollowed
<1>2. QED
  BY <1>1, ObserveKeeps, ComesUpKeeps, TickKeeps, TellsKeeps, OthersKeep, GoesDownKeeps
  DEF Next, Loop

LEMMA AlwaysHolds == Spec => []IInv
BY InitHolds, StepHolds, PTL DEF Spec

\* The loop, the table and what the pilot knows are well-formed, for any winds,
\* letters and bounds.
THEOREM AtisTypeCorrect == Spec => []TypeOK
<1>1. IInv => TypeOK
  BY DEF IInv
<1>2. QED
  BY <1>1, AlwaysHolds, PTL

\* While a recording that was rendered and published is on the air, the letter and
\* the runway that controllers read (store.current) are those it says.
THEOREM AtisOneSourceOfTruth == Spec => []OneSourceOfTruth
<1>1. IInv => OneSourceOfTruth
  BY DEF IInv, TapeIsRow, OneSourceOfTruth, RunwaySpoken
<1>2. QED
  BY <1>1, AlwaysHolds, PTL

\* A pilot who is told that his letter is current has the runway in use, if he
\* copied it since the bridge came up, nothing failed then or since, and the
\* letters have not gone all the way round.
THEOREM AtisCurrentIsCurrent == Spec => []CurrentIsCurrent
<1>1. ASSUME IInv, Answer = "current", said.whole, said.since < LetterCount
      PROVE  Runway(said.wind) = RunwaySpoken
  <2>1. said.letter = row.letter
    BY <1>1 DEF Answer
  <2>2. said.since = 0
    BY <1>1, <2>1, TypesOfParts, AfterAll DEF IInv, CopyFollowed
  <2>3. row.wind = said.wind /\ row.wind # None
    BY <1>1, <2>2 DEF IInv, CopyFollowed
  <2>4. QED
    BY <2>3 DEF RunwaySpoken
<1>2. IInv => CurrentIsCurrent
  BY <1>1 DEF CurrentIsCurrent
<1>3. QED
  BY <1>2, AlwaysHolds, PTL
===============================================================================
