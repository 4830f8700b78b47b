------------------------------ MODULE Clearance ------------------------------
(***************************************************************************)
(* One flight's IFR clearance: filed, issued, read back, agreed, and the    *)
(* taxi that waits for it.  Four copies of it exist.  The row of the        *)
(* flights table is the durable one; the language model's tool writes it    *)
(* at the END of a turn, while the reply is being composed.  The bridge     *)
(* keeps a cache that each turn fills from the row as it was BEFORE that.   *)
(* The Controller keeps whether it is agreed, and his rung.  The pilot      *)
(* keeps what he was read.                                                  *)
(*                                                                         *)
(* A turn is the steps of the main loop in their order (Hear, File, Reply), *)
(* with a request to the board failing, or failing half way, at any of      *)
(* them, and the bridge restarted between any two.                          *)
(***************************************************************************)
EXTENDS Naturals, FiniteSets

CONSTANTS Levels,      \* the first levels of the plans on file
          Seats,       \* the seats he may call, each the set of roles it answers
          Utterances,  \* what he may say in one read-back: sets of Elements
          MaxIssues,   \* bound: clearances the model reads him
          MaxFaults,   \* bound: requests to the board that fail
          MaxRestarts, \* bound: restarts of the bridge
          MaxStray     \* bound: taxi requests to a seat that is not Ground's

ASSUME ClearanceConstants ==
    /\ Levels # {}
    /\ Seats \subseteq SUBSET {"clearance", "ground"}
    /\ Utterances \subseteq SUBSET (Levels \cup {"squawk", "departure frequency"})
    /\ {MaxIssues, MaxFaults, MaxRestarts, MaxStray} \subseteq Nat

NoLevel == "none"
NoPlan == [elements |-> {}, ack |-> FALSE, rung |-> ""]   \* the code's {}
Code == "squawk"                \* one per flight: squawk_for() is a function of its id
Mhz == "departure frequency"    \* only the cache has it: the row does not
Elements == Levels \cup {Code, Mhz}

VARIABLES
    row,       \* the board: [issued, level, ack, rung]
    engine,    \* the Controller: [agreed, rung, level]
    cache,     \* bridge.cleared_plan: NoPlan, or what the row said then
    said,      \* bridge.read_back_said: the elements he has spoken so far
    turn,      \* where the main loop is: [step, seat, read, taxi]
    given,     \* history: the clearance last read to him, and the words since
    spent      \* the bounded counters: [issues, faults, restarts, stray]

vars == <<row, engine, cache, said, turn, given, spent>>

-----------------------------------------------------------------------------
Idle == [step |-> "idle", seat |-> {}, read |-> FALSE, taxi |-> FALSE]

Init ==
    /\ row = [issued |-> FALSE, level |-> NoLevel, ack |-> FALSE, rung |-> ""]
    /\ engine = [agreed |-> "never", rung |-> "", level |-> NoLevel]
    /\ cache = NoPlan
    /\ said = {}
    /\ turn = Idle
    /\ given = [level |-> NoLevel, words |-> {}]
    /\ spent = [issues |-> 0, faults |-> 0, restarts |-> 0, stray |-> 0]

\* What he has said of the clearance he was given.
Hears(words) == given' = [given EXCEPT !.words = @ \cup (words \cap {given.level, Code})]

\* A request to the board that fails, or whose answer is lost, costs a fault.
Costs(n) == /\ spent.faults + n <= MaxFaults
            /\ spent' = [spent EXCEPT !.faults = @ + n]
Cost(ok) == IF ok THEN 0 ELSE 1

\* A bug: the level he is given is not on the board's account of it.
PlanWithoutLevel == IF row.issued
                    THEN [elements |-> {Code}, ack |-> row.ack, rung |-> row.rung]
                    ELSE NoPlan

\* The board's own account of his clearance: nothing until one is issued.
PlanNow == IF row.issued
           THEN [elements |-> {row.level, Code} \ {NoLevel}, ack |-> row.ack, rung |-> row.rung]
           ELSE NoPlan

\* At the top of a turn that could read the board (ok) the Controller is told
\* whether the clearance on it has been agreed.
Noted(ok) == IF ok /\ row.issued
             THEN IF row.ack THEN "yes" ELSE "no"
             ELSE engine.agreed

\* What he is judged against: the cache if there is one, else the board.
Judged(ok) == IF cache # NoPlan THEN cache
              ELSE IF ok THEN PlanNow ELSE NoPlan

\* Nothing is judged once it is agreed, nor on another rung than Clearance's.
IsJudged(plan) ==
    /\ plan # NoPlan
    /\ ~plan.ack
    /\ plan.rung \in {"", "clearance"}

-----------------------------------------------------------------------------
(* Hear: the row is read and the Controller hears the call.                  *)

Heard(seat, ok, taxi) ==
    turn' = [step |-> "heard", seat |-> seat, read |-> ok, taxi |-> taxi]

RequestClearance(seat, ok) ==
    /\ turn = Idle
    /\ engine' = [engine EXCEPT !.agreed = Noted(ok), !.rung = "clearance"]
    /\ Heard(seat, ok, FALSE)
    /\ Costs(Cost(ok))
    /\ UNCHANGED <<row, cache, said, given>>

\* A call that asks nothing of this: it reads the board and is filed all the same.
OtherCall(seat, ok) ==
    /\ turn = Idle
    /\ engine' = [engine EXCEPT !.agreed = Noted(ok)]
    /\ Heard(seat, ok, FALSE)
    /\ Costs(Cost(ok))
    /\ UNCHANGED <<row, cache, said, given>>

\* He reads it back and it is not judged, or what he has said so far leaves
\* something out: he is asked for that, and keeps what he has said.
ReadBackShort(seat, ok, words) ==
    LET plan == Judged(ok) IN
    /\ turn = Idle
    /\ IF IsJudged(plan)
       THEN /\ ~(plan.elements \subseteq said \cup words)
            /\ said' = said \cup words
       ELSE UNCHANGED said
    /\ engine' = [engine EXCEPT !.agreed = Noted(ok)]
    /\ Heard(seat, ok, FALSE)
    /\ Hears(words)
    /\ Costs(Cost(ok))
    /\ UNCHANGED <<row, cache>>

\* Everything has been said.  The agreement is posted; only an answer to the
\* post makes it one, and then what he said is forgotten.
Record(answer, ok, words) ==
    /\ row' = [row EXCEPT !.ack = @ \/ answer # "failed"]
    /\ IF answer = "done"
       THEN /\ engine' = [engine EXCEPT !.agreed = "yes", !.rung = "taxi"]
            /\ said' = {}
       ELSE /\ engine' = [engine EXCEPT !.agreed = Noted(ok)]
            /\ said' = said \cup words

ReadBackWhole(seat, ok, words, answer) ==
    LET plan == Judged(ok) IN
    /\ turn = Idle
    /\ IsJudged(plan)
    /\ plan.elements \subseteq said \cup words
    /\ Record(answer, ok, words)
    /\ Heard(seat, ok, FALSE)
    /\ Hears(words)
    /\ Costs(Cost(ok) + Cost(answer = "done"))
    /\ UNCHANGED cache

\* As it was (#181): only an issued clearance that was not read back stops him.
MayTaxiUnlessFalse(agreed) == agreed # "no"

\* Ground clears him to taxi on an agreement and on nothing else.
MayTaxi(agreed) == agreed = "yes"

\* As it was (#82): he is taxiing though he is refused.
RungAlways(may) == "taxi"

\* Refused, he is back on Clearance's rung.
RungAfter(may) == IF may THEN "taxi" ELSE "clearance"

RequestTaxi(seat, ok) ==
    /\ turn = Idle
    /\ "ground" \in seat
    /\ LET may == MayTaxi(Noted(ok)) IN
       /\ engine' = [engine EXCEPT !.agreed = Noted(ok),
                                   !.rung = RungAfter(may)]
       /\ Heard(seat, ok, may)
    /\ Costs(Cost(ok))
    /\ UNCHANGED <<row, cache, said, given>>

\* At any other seat it is refused as another's, and his rung is taxi already.
RequestTaxiAstray(seat) ==
    /\ turn = Idle
    /\ "ground" \notin seat
    /\ spent.stray < MaxStray
    /\ engine' = [engine EXCEPT !.agreed = Noted(TRUE), !.rung = "taxi"]
    /\ Heard(seat, TRUE, FALSE)
    /\ spent' = [spent EXCEPT !.stray = @ + 1]
    /\ UNCHANGED <<row, cache, said, given>>

-----------------------------------------------------------------------------
(* File: the turn is filed.  The row that comes back from the binding is the *)
(* one before this turn: it is cached.  Then the Controller's rung, and its  *)
(* own level when it has one, are written on the row.                        *)

\* As a bug would have it: the cache is never filled again.
CachedOnce == IF cache # NoPlan THEN cache
              ELSE IF row.issued
              THEN [elements |-> {row.level, Mhz, Code} \ {NoLevel},
                    ack |-> row.ack, rung |-> row.rung]
              ELSE cache

Cached == IF row.issued \/ row.level # NoLevel
          THEN [elements |-> ({row.level, Mhz} \cup IF row.issued THEN {Code} ELSE {}) \ {NoLevel},
                ack |-> row.ack, rung |-> row.rung]
          ELSE cache

Filed(bound, written) ==
    /\ cache' = IF bound THEN Cached ELSE cache
    /\ row' = IF bound /\ written
              THEN [row EXCEPT !.rung = engine.rung,
                               !.level = IF engine.level = NoLevel THEN @ ELSE engine.level]
              ELSE row

File(bound, written) ==
    /\ turn.step = "heard"
    /\ bound \/ ~written
    /\ Filed(bound, written)
    /\ turn' = [turn EXCEPT !.step = "filed"]
    /\ Costs(Cost(bound /\ written))
    /\ UNCHANGED <<engine, said, given>>

-----------------------------------------------------------------------------
(* Reply: the model answers.  At Clearance's seat it may call the tool that  *)
(* issues a plan: the plan is copied, which takes back the agreement, and    *)
(* then its first level is put on the row.  Either write may fail after the  *)
(* one before; the words are spoken unless the first did.                    *)

Issued(level, done) ==
    row' = [row EXCEPT !.issued = TRUE,
                       !.ack = IF done >= 2 THEN FALSE ELSE @,
                       !.level = IF done = 3 THEN level ELSE @]

Issue(level, done) ==
    /\ turn.step = "filed"
    /\ "clearance" \in turn.seat
    /\ spent.issues < MaxIssues
    /\ spent.faults + Cost(done = 3) <= MaxFaults
    /\ spent' = [spent EXCEPT !.issues = @ + 1, !.faults = @ + Cost(done = 3)]
    /\ Issued(level, done)
    /\ given' = IF done >= 2 THEN [level |-> level, words |-> {}] ELSE given
    /\ turn' = Idle
    /\ UNCHANGED <<engine, cache, said>>

Reply ==
    /\ turn.step = "filed"
    /\ turn' = Idle
    /\ UNCHANGED <<row, engine, cache, said, given, spent>>

-----------------------------------------------------------------------------
(* The bridge restarts between any two steps: the cache and the words are    *)
(* gone, and the Controller is rebuilt from the board if it answers.         *)

Hydrated == [agreed |-> IF row.ack THEN "yes" ELSE IF row.issued THEN "no" ELSE "never",
             rung |-> row.rung,
             level |-> row.level]

Restart(ok) ==
    /\ spent.restarts < MaxRestarts
    /\ spent.faults + Cost(ok) <= MaxFaults
    /\ spent' = [spent EXCEPT !.restarts = @ + 1, !.faults = @ + Cost(ok)]
    /\ engine' = IF ok THEN Hydrated ELSE [agreed |-> "never", rung |-> "", level |-> NoLevel]
    /\ cache' = NoPlan
    /\ said' = {}
    /\ turn' = Idle
    /\ UNCHANGED <<row, given>>

-----------------------------------------------------------------------------
Answers == {"done", "lost", "failed"}

Hear == \E seat \in Seats, ok \in BOOLEAN :
    \/ RequestClearance(seat, ok)
    \/ OtherCall(seat, ok)
    \/ RequestTaxi(seat, ok)
    \/ RequestTaxiAstray(seat)
    \/ \E words \in Utterances :
          \/ ReadBackShort(seat, ok, words)
          \/ \E answer \in Answers : ReadBackWhole(seat, ok, words, answer)

Next ==
    \/ Hear
    \/ \E bound, written \in BOOLEAN : File(bound, written)
    \/ \E level \in Levels, done \in 1..3 : Issue(level, done)
    \/ Reply
    \/ \E ok \in BOOLEAN : Restart(ok)

\* The main loop finishes the turns it begins.  The pilot goes on: he reads back
\* to Clearance all that is on the board (he is told what he missed), and asks
\* Ground for taxi, again and again, whatever else is said in between.
ReadsItBack == \E seat \in Seats :
    /\ "clearance" \in seat
    /\ LET words == {row.level, Code, Mhz} \ {NoLevel} IN
       \/ ReadBackShort(seat, TRUE, words)
       \/ ReadBackWhole(seat, TRUE, words, "done")
AsksForTaxi == \E seat \in Seats : RequestTaxi(seat, TRUE)

Fairness ==
    /\ WF_vars(File(TRUE, TRUE))
    /\ WF_vars(Reply \/ \E level \in Levels : Issue(level, 3))
    /\ SF_vars(ReadsItBack)
    /\ SF_vars(AsksForTaxi)

Spec == Init /\ [][Next]_vars /\ Fairness

-----------------------------------------------------------------------------
(* Properties.                                                               *)

Plans == [elements : SUBSET Elements, ack : BOOLEAN, rung : {"", "clearance", "taxi"}]

\* The four copies are well-formed.
TypeOK ==
    /\ row \in [issued : BOOLEAN, level : Levels \cup {NoLevel}, ack : BOOLEAN,
                rung : {"", "clearance", "taxi"}]
    /\ engine \in [agreed : {"never", "no", "yes"}, rung : {"", "clearance", "taxi"},
                   level : Levels \cup {NoLevel}]
    /\ cache \in Plans
    /\ said \subseteq Elements
    /\ turn \in [step : {"idle", "heard", "filed"}, seat : SUBSET {"clearance", "ground"},
                 read : BOOLEAN, taxi : BOOLEAN]
    /\ given \in [level : Levels \cup {NoLevel}, words : SUBSET Elements]
    /\ spent \in [issues : 0..MaxIssues, faults : 0..MaxFaults,
                  restarts : 0..MaxRestarts, stray : 0..MaxStray]

\* HAZARDS: the agreement lives in the row and in the Controller, and each can
\* be written without the other.  Nobody is cleared to taxi (request_taxi) on a
\* clearance the board does not hold as agreed; the one exception is a turn that
\* could not read the board, after an amendment of a clearance that was agreed.
TaxiIsAgreed ==
    turn.taxi => row.ack \/ (~turn.read /\ spent.issues >= 2)

\* HAZARD: bridge.cleared_plan is consulted before the board and is filled from
\* the row before the turn.  As long as the board answers it is never more than
\* one turn behind: once a turn is filed it knows of every agreement, of every
\* amendment, and the level, that the turns before left on the row.
CacheIsOneTurnOld ==
    turn.step = "filed" /\ spent.faults = 0 /\ cache # NoPlan =>
        /\ cache.ack = row.ack
        /\ engine.level = NoLevel => row.level \in cache.elements \cup {NoLevel}

\* HAZARD: a read-back that nothing judges, for a copy that is out of date, is a
\* pilot who waits on the ramp for ever.  One who keeps reading back what the
\* board holds and asking Ground is cleared to taxi, whatever went wrong before.
EventuallyTaxis == row.issued ~> turn.taxi

\* HAZARD: words and clearance drift apart over failed turns, a lost answer and a
\* restart.  What is recorded as agreed (clearance.agree), while there has been one
\* clearance and its level has reached the board, is that clearance, from words he
\* has spoken since it was read to him.
AgreedToWhatWasGiven ==
    [][~row.ack /\ row'.ack /\ spent.issues = 1 /\ row.level = given.level /\ row.level # NoLevel
          => {given.level, Code} \subseteq given'.words]_vars
==============================================================================
