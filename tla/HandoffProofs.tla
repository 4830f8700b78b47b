---------------------------- MODULE HandoffProofs ----------------------------
(***************************************************************************)
(* For any aerodrome whose ground seats work only the ground and where one *)
(* seat claims each role, any procedure and any other traffic: the types;  *)
(* that radar's poll sends nobody who flies to Clearance or Ground -- a    *)
(* seat is offered by a verdict or by the airspace, both name a role of    *)
(* the air, and the seat that answers to such a role is not one of the     *)
(* ground's (StationOfTheAir); and that it hands nobody who stays where he *)
(* is in a circle (the invariant is CircleInv).                            *)
(***************************************************************************)
EXTENDS Handoff, WellFoundedInduction, TLAPS

LEMMA FirstExists ==
    ASSUME NEW T \in SUBSET Nat, T # {}
    PROVE  \E i \in T : \A j \in T : i <= j
<1>1. PICK i \in T : \A j \in T : ~(<<j, i>> \in OpToRel(<, Nat))
  BY WFMin, NatLessThanWellFounded
<1>2. \A j \in T : ~(j < i)
  BY <1>1 DEF OpToRel
<1>3. QED
  BY <1>2

LEMMA StationIs ==
    ASSUME NEW role
    PROVE  /\ StationFor(role) \in Seats \cup {None}
           /\ StationFor(role) # None =>
                StationFor(role) = role \/ role \in layout[StationFor(role)]
<1>1. CASE role \in Seats
  BY <1>1 DEF StationFor
<1>2. CASE role \notin Seats /\ \E seat \in Seats : role \in layout[seat]
  <2>1. StationFor(role) = CHOOSE seat \in Seats : role \in layout[seat]
    BY <1>2 DEF StationFor
  <2>2. StationFor(role) \in Seats /\ role \in layout[StationFor(role)]
    BY <1>2, <2>1
  <2>3. QED
    BY <2>2
<1>3. CASE role \notin Seats /\ ~\E seat \in Seats : role \in layout[seat]
  BY <1>3 DEF StationFor
<1>4. QED
  BY <1>1, <1>2, <1>3

LEMMA NamedIs ==
    ASSUME NEW seat, NEW role
    PROVE  Named(seat, role) \in {None, "same", StationFor(role)}
BY DEF Named

\* What a verdict can be: nobody, or the station of some role.
LEMMA TableIs ==
    ASSUME NEW seat, NEW r
    PROVE  \/ ByTheTable(seat, r) \in {None, "same", "keep"}
           \/ \E i \in DOMAIN Rules(r) : ByTheTable(seat, r) = StationFor(Rules(r)[i].to)
<1> DEFINE rules == Rules(r)
           mine == {i \in DOMAIN rules : rules[i].from \in Answers(seat)}
           firing == {i \in mine : rules[i].fires /\ Named(seat, rules[i].to) # None}
           first == CHOOSE i \in firing : \A j \in firing : i <= j
<1>1. CASE firing = {}
  BY <1>1 DEF ByTheTable
<1>2. CASE firing # {}
  <2>1. ByTheTable(seat, r) = Named(seat, rules[first].to)
    BY <1>2 DEF ByTheTable
  <2>2. firing \subseteq 1..9 /\ DOMAIN rules = 1..9
    BY DEF Rules
  <2>3. first \in firing
    <3> HIDE DEF firing
    <3>1. \E i \in firing : \A j \in firing : i <= j
      <4>1. firing \in SUBSET Nat
        BY <2>2
      <4>2. QED
        BY <1>2, <4>1, FirstExists
    <3>2. QED
      BY <3>1
  <2>4. first \in DOMAIN rules
    BY <2>3
  <2> HIDE DEF first, firing, mine, rules
  <2>5. QED
    BY <2>1, <2>4, NamedIs DEF rules
<1>3. QED
  BY <1>1, <1>2

LEMMA LeavingIs ==
    ASSUME NEW seat
    PROVE  LeavingMyAirspace(seat) \in {None, StationFor(volume)}
BY DEF LeavingMyAirspace

\* The next controller is nobody or a seat of this aerodrome.
LEMMA NextIs ==
    ASSUME NEW seat, NEW r
    PROVE  NextController(seat, r) \in Seats \cup {None}
<1>1. \/ Due(seat, r) \in {None, "same", "keep"}
      \/ Due(seat, r) \in Seats
  <2>1. CASE OwnedOnTheGround(seat, r)
    BY <2>1, NamedIs, StationIs DEF Due
  <2>2. CASE ~OwnedOnTheGround(seat, r)
    BY <2>2, TableIs, StationIs DEF Due
  <2>3. QED
    BY <2>1, <2>2
<1>2. QED
  BY <1>1, LeavingIs, StationIs DEF NextController

-----------------------------------------------------------------------------
(* The rung and the phase stay ones the code knows.                          *)

LEMMA PhaseNowIs ==
    ASSUME NEW r \in Rungs, NEW phase \in Phases, NEW role,
           NEW seen \in BOOLEAN, NEW been \in BOOLEAN
    PROVE  PhaseNow(r, phase, role, seen, been) \in Rungs
<1>1. Wanted(r, phase, role, seen, been) \in Rungs
  BY DEF Wanted, Rungs
<1>2. QED
  BY <1>1 DEF PhaseNow

LEMMA ParkedIs ==
    ASSUME NEW seat, NEW r PROVE ParkedRung(seat, r) \in Rungs
BY DEF ParkedRung, Rungs

LEMMA OutcomeIs ==
    ASSUME NEW r, NEW phase
    PROVE  Outcome(r, phase).rung = r /\ Outcome(r, phase).sep = phase
BY DEF Outcome

LEMMA OutcomesAre ==
    ASSUME NEW seat, NEW r \in Rungs, NEW been \in BOOLEAN, sep \in Phases
    PROVE  \A o \in Outcomes(seat, r, been) : o.rung \in Rungs /\ o.sep \in Phases
<1> SUFFICES ASSUME NEW o \in Outcomes(seat, r, been)
             PROVE  o.rung \in Rungs /\ o.sep \in Phases
  OBVIOUS
<1>1. CASE o \in ReportLanded(seat, r, been)
  BY <1>1, ParkedIs DEF ReportLanded, Outcome, Phases
<1>2. CASE o \in RequestTaxi(seat, r) \cup RequestTakeoff(seat, r)
  <2>1. o \in {Outcome("taxi_in", sep), Outcome("taxi", sep), Outcome("clearance", sep),
               Outcome(r, sep), Outcome("departure", sep)}
    BY <1>2 DEF RequestTaxi, RequestTakeoff
  <2>2. \E s \in Rungs : o = Outcome(s, sep)
    BY <2>1 DEF Rungs
  <2>3. QED
    BY <2>2, OutcomeIs
<1>3. CASE o \in {Outcome(r, phase) : phase \in Phases \ {"landed"}}
  BY <1>3 DEF Outcome
<1>4. CASE o \in {Outcome(r, sep), Outcome("taxi", sep), Outcome("clearance", sep),
                  Outcome("holding_short", sep)}
  <2>1. \E s \in Rungs : o = Outcome(s, sep)
    BY <1>4 DEF Rungs
  <2>2. QED
    BY <2>1, OutcomeIs
<1>5. CASE place = "down"
  <2>1. o \in {Outcome(r, sep), Outcome("taxi", sep), Outcome("clearance", sep),
               Outcome("holding_short", sep)}
          \cup ReportLanded(seat, r, been) \cup RequestTaxi(seat, r) \cup RequestTakeoff(seat, r)
    BY <1>5 DEF Outcomes
  <2>2. QED
    BY <2>1, <1>1, <1>2, <1>4
<1>6. CASE place # "down"
  <2>1. o \in {Outcome(r, sep), Outcome("taxi", sep)} \cup ReportLanded(seat, r, been)
          \cup {Outcome(r, phase) : phase \in Phases \ {"landed"}}
    BY <1>6 DEF Outcomes
  <2>2. QED
    BY <2>1, <1>1, <1>3, <1>4
<1>7. QED
  BY <1>5, <1>6

-----------------------------------------------------------------------------
LEMMA InitTypes == Init => TypeOK
<1> SUFFICES ASSUME Init PROVE TypeOK
  OBVIOUS
<1>1. at \in Seats
  <2>1. layout \in Layouts /\ "center" \in DOMAIN layout
    BY LayoutsAssumption DEF Init
  <2>2. QED
    BY <2>1 DEF Init, Seats
<1>2. rung \in Rungs /\ sep \in Phases /\ place \in Places /\ inbound \in BOOLEAN
  BY DEF Init, Rungs, Phases, Places
<1>3. QED
  BY <1>1, <1>2 DEF Init, TypeOK

LEMMA StepTypes == TypeOK /\ [Next]_vars => TypeOK'
<1> SUFFICES ASSUME TypeOK, [Next]_vars PROVE TypeOK'
  OBVIOUS
<1>1. CASE Moves
  <2>1. place' \in Places
    BY <1>1 DEF Moves, Neighbours, TypeOK, Places
  <2>2. volume' \in Roles \cup {None}
    BY <1>1, <2>1 DEF Moves, Volumes, Roles, Places
  <2>3. inbound' \in BOOLEAN /\ offers' = {}
        /\ UNCHANGED <<field, me, at, given, giver, rung, sep, flown, grounded, airborne>>
    BY <1>1 DEF Moves
  <2>4. QED
    BY <2>1, <2>2, <2>3 DEF TypeOK, field, Seats
<1>2. CASE OtherTurn
  <2>1. me' \in Seats
    BY <1>2, OthersAssumption DEF OtherTurn, TypeOK, Seats
  <2>2. QED
    BY <1>2, <2>1 DEF OtherTurn, TypeOK, field, where, Seats
<1>3. CASE Goodbye
  <2>1. rung' \in Rungs /\ sep' \in Phases
    BY <1>3, ParkedIs DEF Goodbye, Phases
  <2>2. /\ given' \in Seats \cup {None} /\ giver' \in Seats \cup {None}
        /\ offers' \in SUBSET Seats
    <3>1. CASE MustBeTold(at, rung)
      <4>1. StationFor("ground") \in Seats
        BY <3>1, StationIs DEF MustBeTold, HasGround
      <4>2. given' = StationFor("ground") /\ giver' = me
            /\ offers' = offers \cup {StationFor("ground")}
        BY <1>3, <3>1 DEF Goodbye, Offer
      <4>3. QED
        BY <4>1, <4>2 DEF TypeOK
    <3>2. CASE ~MustBeTold(at, rung)
      BY <1>3, <3>2 DEF Goodbye, TypeOK
    <3>3. QED
      BY <3>1, <3>2
  <2>3. grounded' \in BOOLEAN /\ UNCHANGED <<field, me, at, where, flown, airborne>>
    BY <1>3 DEF Goodbye
  <2>4. QED
    BY <2>1, <2>2, <2>3 DEF TypeOK, field, where, Seats
<1>4. ASSUME NEW free \in BOOLEAN, Watch(free) PROVE TypeOK'
  <2>1. NextController(at, rung) \in Seats \cup {None}
    BY NextIs
  <2>2. /\ given' \in Seats \cup {None} /\ giver' \in Seats \cup {None}
        /\ offers' \in SUBSET Seats
    BY <1>4, <2>1 DEF Watch, Offer, TypeOK
  <2>3. /\ flown' \in BOOLEAN /\ grounded' \in BOOLEAN
        /\ UNCHANGED <<field, me, at, rung, sep, where, airborne>>
    BY <1>4 DEF Watch
  <2>4. QED
    BY <2>2, <2>3 DEF TypeOK, field, where, Seats
<1>5. ASSUME NEW seat \in Seats, NEW seen \in BOOLEAN, Turn(seat, seen) PROVE TypeOK'
  <2> DEFINE been == airborne \/ (seen /\ place # "down")
             before == PhaseNow(rung, sep, seat, seen, been)
  <2>1. been \in BOOLEAN
    BY DEF TypeOK
  <2>2. before \in Rungs
    <3> HIDE DEF been
    <3>1. QED
      BY <2>1, PhaseNowIs DEF TypeOK
  <2>3. /\ me' = seat /\ at' = seat /\ airborne' = been
        /\ UNCHANGED <<field, where, given, giver, flown, grounded>>
    BY <1>5 DEF Turn
  <2>4. PICK o \in Outcomes(seat, before, been) :
          /\ sep' = o.sep
          /\ rung' = PhaseNow(o.rung, o.sep, seat, seen, been)
    BY <1>5 DEF Turn
  <2>5. offers' = offers \/ offers' = {}
    BY <1>5 DEF Turn
  <2> HIDE DEF been, before
  <2>6. o.rung \in Rungs /\ o.sep \in Phases
    BY <2>1, <2>2, OutcomesAre DEF TypeOK
  <2>7. rung' \in Rungs /\ sep' \in Phases
    BY <2>1, <2>4, <2>6, PhaseNowIs
  <2>8. QED
    BY <2>1, <2>3, <2>5, <2>7 DEF TypeOK, field, where, Seats
<1>6. CASE UNCHANGED vars
  BY <1>6 DEF vars, TypeOK, Seats
<1>7. QED
  BY <1>1, <1>2, <1>3, <1>4, <1>5, <1>6 DEF Next, Poll

\* Whoever is called, offered or remembered is a seat of the aerodrome, whatever
\* its layout, the procedure and the other traffic.
THEOREM HandoffTypeCorrect == Spec => []TypeOK
BY InitTypes, StepTypes, PTL DEF Spec

-----------------------------------------------------------------------------
(* Nobody who flies is sent to the ground.                                   *)

\* The seat that answers to a role of the air is not one of the ground's.
LEMMA StationOfTheAir ==
    ASSUME TypeOK, NEW role, role \notin GroundSeats
    PROVE  StationFor(role) \notin GroundSeats
<1> SUFFICES ASSUME StationFor(role) \in GroundSeats PROVE FALSE
  OBVIOUS
<1>1. StationFor(role) # None
  BY DEF GroundSeats, None
<1>2. role \in layout[StationFor(role)] /\ StationFor(role) \in Seats
  BY <1>1, StationIs
<1>3. layout[StationFor(role)] \subseteq GroundSeats
  BY <1>2, GroundAssumption DEF TypeOK, Seats
<1>4. QED
  BY <1>2, <1>3

LEMMA AirVerdict ==
    ASSUME TypeOK, place # "down", NEW seat, NEW r \in Rungs
    PROVE  Due(seat, r) \notin GroundSeats
<1>1. {None, "same", "keep"} \cap GroundSeats = {}
  BY DEF None, GroundSeats
<1>2. CASE OwnedOnTheGround(seat, r)
  <2>1. Owner[r] \notin GroundSeats
    BY <1>2 DEF OwnedOnTheGround
  <2>2. QED
    BY <1>1, <1>2, <2>1, NamedIs, StationOfTheAir DEF Due
<1>3. CASE ~OwnedOnTheGround(seat, r)
  <2>1. \A i \in DOMAIN Rules(r) : Rules(r)[i].to \notin GroundSeats
    BY DEF Rules, GroundSeats
  <2>2. QED
    BY <1>1, <1>3, <2>1, TableIs, StationOfTheAir DEF Due
<1>4. QED
  BY <1>2, <1>3

LEMMA AirspaceOfTheAir ==
    ASSUME TypeOK, NEW seat \in Seats
    PROVE  LeavingMyAirspace(seat) \notin GroundSeats
<1>1. seat \in Roles
  BY LayoutsAssumption DEF TypeOK, Seats
<1>2. CASE LeavingMyAirspace(seat) = None
  BY <1>2 DEF None, GroundSeats
<1>3. CASE LeavingMyAirspace(seat) # None
  <2>1. /\ LeavingMyAirspace(seat) = StationFor(volume)
        /\ volume # None /\ Order[volume] < Order[seat]
    BY <1>3 DEF LeavingMyAirspace
  <2>2. volume \notin GroundSeats
    BY <1>1, <2>1 DEF TypeOK, Order, Roles, GroundSeats
  <2>3. QED
    BY <2>1, <2>2, StationOfTheAir
<1>4. QED
  BY <1>2, <1>3

LEMMA NextInTheAir ==
    ASSUME TypeOK, place # "down"
    PROVE  NextController(at, rung) \notin GroundSeats
<1>1. Due(at, rung) \notin GroundSeats
  BY AirVerdict DEF TypeOK
<1>2. LeavingMyAirspace(at) \notin GroundSeats
  BY AirspaceOfTheAir DEF TypeOK
<1>3. None \notin GroundSeats
  BY DEF None, GroundSeats
<1>4. QED
  BY <1>1, <1>2, <1>3 DEF NextController

LEMMA StepNeverGrounds ==
    TypeOK /\ [Next]_vars =>
      [place # "down" /\ offers' # offers /\ where' = where
       => offers' \cap GroundSeats \subseteq offers]_vars
<1> SUFFICES ASSUME TypeOK, Next, place # "down", offers' # offers, where' = where
             PROVE  offers' \cap GroundSeats \subseteq offers
  OBVIOUS
<1>1. CASE Moves
  BY <1>1 DEF Moves
<1>2. CASE OtherTurn
  BY <1>2 DEF OtherTurn
<1>3. CASE Goodbye
  BY <1>3 DEF Goodbye
<1>4. ASSUME NEW free \in BOOLEAN, Watch(free) PROVE offers' \cap GroundSeats \subseteq offers
  BY <1>4, NextInTheAir DEF Watch, Offer
<1>5. ASSUME NEW seat \in Seats, NEW seen \in BOOLEAN, Turn(seat, seen)
      PROVE  offers' \cap GroundSeats \subseteq offers
  <2>1. offers' = offers \/ offers' = {}
    BY <1>5 DEF Turn
  <2>2. QED
    BY <2>1
<1>6. QED
  BY <1>1, <1>2, <1>3, <1>4, <1>5 DEF Next, Poll

\* The poll offers nobody who flies to Clearance or Ground: the owner of his rung
\* is not asked once he is up, and no rule and no airspace names them.
THEOREM HandoffNeverGroundsAloft == Spec => NeverGroundsAloft
BY StepNeverGrounds, HandoffTypeCorrect, PTL DEF Spec, NeverGroundsAloft

-----------------------------------------------------------------------------
(* No circle.  While he stays where he is, whom a seat would send him on to   *)
(* does not change.  Coming in, the way ends at Tower; going out, the seats   *)
(* of the air send him to Tower, to Center, where it ends, or to whom Tower   *)
(* sends him: so only two seats can ever send him to one another, and the     *)
(* poll does not offer the way back.                                         *)

\* Whom a seat would send him on to, with the rung he is on.
NextFor(seat) == NextController(seat, rung)

\* A seat that somebody who works the air sends him to.
FromTheAir(seat) == \E s \in Seats \ GroundSeats : NextFor(s) = seat

LEMMA SeatsAreRoles ==
    ASSUME TypeOK
    PROVE  Seats \subseteq Roles /\ None \notin Seats /\ "center" \in Seats
           /\ layout["center"] = {}
BY LayoutsAssumption, AnswersAssumption DEF TypeOK, Seats, Roles, None

\* One seat answers to Tower, and the answer to "Tower" is that seat.
LEMMA OneTower ==
    ASSUME TypeOK, NEW s \in Seats, "tower" \in Answers(s)
    PROVE  StationFor("tower") = s
<1>1. /\ \A a \in Seats : layout[a] \subseteq Roles \ Seats
      /\ \A a, b \in Seats : a # b => layout[a] \cap layout[b] = {}
  BY LayoutsAssumption, AnswersAssumption DEF TypeOK, Seats
<1>2. CASE "tower" \in Seats
  <2>1. s = "tower"
    BY <1>1, <1>2 DEF Answers
  <2> QED BY <1>2, <2>1 DEF StationFor
<1>3. CASE "tower" \notin Seats
  <2>1. "tower" \in layout[s]
    BY <1>3 DEF Answers
  <2>2. \A b \in Seats : "tower" \in layout[b] => b = s
    BY <1>1, <2>1
  <2>3. StationFor("tower") = CHOOSE seat \in Seats : "tower" \in layout[seat]
    BY <1>3, <2>1 DEF StationFor
  <2> QED BY <2>1, <2>2, <2>3
<1> QED BY <1>2, <1>3

LEMMA CenterIsCenter ==
    ASSUME TypeOK PROVE StationFor("center") = "center" /\ Answers("center") = {"center"}
BY SeatsAreRoles DEF StationFor, Answers

\* The rule that decides has the seat for its subject, and what it asks for holds.
LEMMA RuleDecides ==
    ASSUME NEW seat, NEW r
    PROVE  \/ ByTheTable(seat, r) \in {None, "same", "keep"}
           \/ \E i \in 1 .. 9 :
                /\ Rules(r)[i].from \in Answers(seat) /\ Rules(r)[i].fires
                /\ ByTheTable(seat, r) = StationFor(Rules(r)[i].to)
                /\ StationFor(Rules(r)[i].to) # seat
<1> DEFINE rules == Rules(r)
           mine == {i \in DOMAIN rules : rules[i].from \in Answers(seat)}
           firing == {i \in mine : rules[i].fires /\ Named(seat, rules[i].to) # None}
           first == CHOOSE i \in firing : \A j \in firing : i <= j
<1>1. CASE firing = {}
  BY <1>1 DEF ByTheTable
<1>2. CASE firing # {}
  <2>1. ByTheTable(seat, r) = Named(seat, rules[first].to)
    BY <1>2 DEF ByTheTable
  <2>2. firing \subseteq 1..9 /\ DOMAIN rules = 1..9
    BY DEF Rules
  <2>3. first \in firing
    <3> HIDE DEF firing
    <3>1. firing \in SUBSET Nat
      BY <2>2
    <3>2. \E i \in firing : \A j \in firing : i <= j
      BY <1>2, <3>1, FirstExists
    <3> QED BY <3>2
  <2>4. first \in 1 .. 9 /\ rules[first].from \in Answers(seat) /\ rules[first].fires
    BY <2>2, <2>3
  <2> HIDE DEF first, firing, mine
  <2>5. \/ Named(seat, rules[first].to) \in {None, "same"}
        \/ /\ Named(seat, rules[first].to) = StationFor(rules[first].to)
           /\ StationFor(rules[first].to) # seat
    BY DEF Named
  <2> QED BY <2>1, <2>4, <2>5
<1> QED BY <1>1, <1>2

\* The same read off the table, for an aircraft that flies.
LEMMA AirRuleDecides ==
    ASSUME place # "down", NEW seat, NEW r,
           ByTheTable(seat, r) \notin {None, "same", "keep"}
    PROVE  /\ ByTheTable(seat, r) # seat
           /\ \/ ~inbound /\ "tower" \in Answers(seat)
              \/ inbound /\ "center" \in Answers(seat)
                   /\ ByTheTable(seat, r) = StationFor("approach")
              \/ ~inbound /\ ByTheTable(seat, r) = StationFor("center")
              \/ ByTheTable(seat, r) = StationFor("tower")
<1>1. PICK i \in 1 .. 9 :
        /\ Rules(r)[i].from \in Answers(seat) /\ Rules(r)[i].fires
        /\ ByTheTable(seat, r) = StationFor(Rules(r)[i].to)
        /\ StationFor(Rules(r)[i].to) # seat
  BY RuleDecides
<1>2. /\ Rules(r)[1].from = "tower" /\ Rules(r)[2].from = "tower"
      /\ Rules(r)[1].fires => Beyond(PastCircuit)
      /\ Rules(r)[2].fires => Beyond(PastCircuit)
  BY DEF Rules
<1>3. /\ Rules(r)[3].from = "center" /\ Rules(r)[3].to = "approach"
      /\ Rules(r)[3].fires => Within({"circuit", "terminal"})
  BY DEF Rules
<1>4. Rules(r)[4].to = "center" /\ (Rules(r)[4].fires => Beyond({"enroute"}))
  BY DEF Rules
<1>5. i \in {5, 6, 7, 8, 9} => Rules(r)[i].to = "tower"
  BY DEF Rules
<1>6. i = 1 \/ i = 2 \/ i = 3 \/ i = 4 \/ i \in {5, 6, 7, 8, 9}
  OBVIOUS
<1>7. (\A limit : Beyond(limit) => ~inbound) /\ (\A limit : Within(limit) => inbound)
  BY DEF Beyond, Within
<1> QED BY <1>1, <1>2, <1>3, <1>4, <1>5, <1>6, <1>7


\* Whose rung he is on is asked of an aircraft that flies only where it is Tower's.
LEMMA AirOwner ==
    ASSUME TypeOK, place # "down", NEW seat \in Seats, NEW r \in Rungs,
           OwnedOnTheGround(seat, r)
    PROVE  /\ "tower" \notin Answers(seat)
           /\ Due(seat, r) = StationFor("tower")
           /\ StationFor("tower") # None
<1>1. Owner[r] \in {"delivery", "ground", "tower", None}
  BY DEF Owner
<1>2. Owner[r] = "tower"
  BY <1>1 DEF OwnedOnTheGround, GroundSeats
<1>3. StationFor("tower") # None /\ "tower" \notin Answers(seat)
  BY <1>2 DEF OwnedOnTheGround
<1>4. StationFor("tower") # seat
  BY <1>3, StationIs DEF Answers
<1> QED BY <1>2, <1>3, <1>4 DEF Due, Named

\* Due is none of the words that are not a seat.
LEMMA WordsAreNoSeats ==
    ASSUME TypeOK PROVE {None, "same", "keep"} \cap Seats = {}
BY SeatsAreRoles DEF Roles, None

\* What decides where he goes next when he flies.
LEMMA AirNext ==
    ASSUME TypeOK, place # "down", NEW s \in Seats, NextFor(s) # None
    PROVE  \/ OwnedOnTheGround(s, rung) /\ NextFor(s) = StationFor("tower")
           \/ /\ ~OwnedOnTheGround(s, rung)
              /\ ByTheTable(s, rung) \notin {None, "same", "keep"}
              /\ NextFor(s) = ByTheTable(s, rung)
           \/ /\ ~OwnedOnTheGround(s, rung)
              /\ ByTheTable(s, rung) \in {None, "same"}
              /\ NextFor(s) = LeavingMyAirspace(s)
<1>1. CASE OwnedOnTheGround(s, rung)
  <2>1. Due(s, rung) = StationFor("tower") /\ StationFor("tower") \in Seats
    BY <1>1, AirOwner, StationIs DEF TypeOK
  <2>2. Due(s, rung) \notin {None, "same", "keep"}
    BY <2>1, WordsAreNoSeats
  <2> QED BY <1>1, <2>1, <2>2 DEF NextFor, NextController
<1>2. CASE ~OwnedOnTheGround(s, rung)
  BY <1>2 DEF NextFor, NextController, Due
<1> QED BY <1>1, <1>2

\* Coming in he is sent to Approach and to Tower, and Tower keeps him.
LEMMA TheWayIn ==
    ASSUME TypeOK, place # "down", inbound
    PROVE  /\ \A s \in Seats : NextFor(s) \in {None, StationFor("approach"), StationFor("tower")}
           /\ StationFor("tower") # None => NextFor(StationFor("tower")) = None
<1>1. \A s : LeavingMyAirspace(s) = None
  BY DEF LeavingMyAirspace
<1>2. ASSUME NEW s \in Seats
      PROVE  NextFor(s) \in {None, StationFor("approach"), StationFor("tower")}
  BY <1>1, AirNext, AirRuleDecides
<1>3. ASSUME StationFor("tower") # None, NextFor(StationFor("tower")) # None PROVE FALSE
  <2> DEFINE t == StationFor("tower")
  <2>1. t \in Seats /\ "tower" \in Answers(t)
    BY <1>3, StationIs DEF Answers
  <2>2. t # "center"
    BY <2>1, CenterIsCenter
  <2>3. "center" \notin Answers(t)
    <3>1. layout[t] \subseteq Roles \ Seats
      BY <2>1, LayoutsAssumption DEF TypeOK, Seats
    <3> QED BY <2>2, <3>1, SeatsAreRoles DEF Answers
  <2>4. ~OwnedOnTheGround(t, rung)
    BY <2>1, AirOwner DEF TypeOK
  <2>5. ByTheTable(t, rung) \in {None, "same", "keep"}
    BY <2>3, AirRuleDecides
  <2> QED BY <1>1, <1>3, <2>1, <2>4, <2>5, AirNext
<1> QED BY <1>2, <1>3

\* Going out, a seat of the air that is not Tower sends him to Tower or to Center,
\* and where it is Center, Center keeps him.
LEMMA TheWayOut ==
    ASSUME TypeOK, place # "down", ~inbound,
           NEW s \in Seats \ GroundSeats, s # StationFor("tower")
    PROVE  \/ NextFor(s) \in {None, StationFor("tower")}
           \/ NextFor(s) = "center" /\ NextFor("center") = None
<1>1. "tower" \notin Answers(s)
  BY OneTower
<1>2. s # "tower"
  BY <1>1 DEF Answers
<1>3. s \in {"approach", "departure", "center"}
  BY <1>2, SeatsAreRoles DEF Roles, GroundSeats
<1>4. LeavingMyAirspace(s) \in {None, "center"}
  <2> SUFFICES ASSUME LeavingMyAirspace(s) # None PROVE LeavingMyAirspace(s) = "center"
    OBVIOUS
  <2>1. LeavingMyAirspace(s) = StationFor(volume) /\ Order[volume] < Order[s] /\ volume # None
    BY DEF LeavingMyAirspace
  <2>2. volume \in Roles
    BY <2>1 DEF TypeOK
  <2>3. volume = "center"
    BY <1>3, <2>1, <2>2 DEF Order, Roles
  <2> QED BY <2>1, <2>3, CenterIsCenter
<1>5. ASSUME NextFor(s) = "center", NextFor(s) # StationFor("tower") PROVE NextFor("center") = None
  <2>1. ~OwnedOnTheGround(s, rung)
    BY <1>5, AirNext, SeatsAreRoles
  <2>2. "center" \in Seats /\ StationFor("center") = "center" /\ Answers("center") = {"center"}
    BY SeatsAreRoles, CenterIsCenter
  <2>3. ~OwnedOnTheGround("center", rung)
    <3> SUFFICES ASSUME OwnedOnTheGround("center", rung) PROVE FALSE
      OBVIOUS
    <3>1. Owner[rung] \in {"delivery", "ground", "tower", None}
      BY DEF Owner, TypeOK
    <3>2. Owner[rung] = "tower" /\ StationFor(Owner[rung]) # None
      BY <3>1 DEF OwnedOnTheGround, GroundSeats
    <3> QED BY <1>1, <2>1, <3>2 DEF OwnedOnTheGround, GroundSeats
  <2>4. ByTheTable("center", rung) = "keep"
    <3> DEFINE rules == Rules(rung)
               mine == {i \in DOMAIN rules : rules[i].from \in Answers("center")}
               firing == {i \in mine : rules[i].fires /\ Named("center", rules[i].to) # None}
    <3>1. DOMAIN rules = 1 .. 9
      BY DEF Rules
    <3>2. rules[3].from = "center" /\ rules[3].fires = Within({"circuit", "terminal"})
      BY DEF Rules
    <3>3. \A i \in 1 .. 9 : rules[i].from = "center" => i = 3
      BY DEF Rules
    <3>4. ~rules[3].fires
      BY <3>2 DEF Within
    <3> HIDE DEF rules
    <3>5. mine = {3}
      BY <2>2, <3>1, <3>2, <3>3
    <3>6. firing = {}
      BY <3>4, <3>5
    <3> QED BY <3>4, <3>5, <3>6 DEF ByTheTable, rules
  <2> QED BY <2>3, <2>4 DEF NextFor, NextController, Due, None
<1>6. NextFor(s) \in {None, StationFor("tower"), "center"}
  BY <1>1, <1>4, AirNext, AirRuleDecides, CenterIsCenter
<1> QED BY <1>5, <1>6


-----------------------------------------------------------------------------
\* What the offers of one stay are, for an aircraft that flies: the last is the
\* one remembered, and a seat has offered it, or nothing more is due; whoever is
\* on it now was called last; every earlier one sends him further.
LastOffer ==
    /\ given \in (offers \ GroundSeats) \cup {None}
    /\ given = None => NextFor(at) = None
    /\ given # None =>
         /\ at = given \/ NextFor(at) = given
         /\ at = given => me = at \/ NextFor(at) \in {None, at}
         /\ \A o \in offers \ {given} : NextFor(o) # None

\* Of the offers that a seat of the air can make, only the last and the one that
\* made it count, while there is a further one to come.
NoWayBack ==
    given # None =>
      /\ NextFor(given) # None =>
           \A o \in offers : FromTheAir(o) => o \in {given, giver}
      /\ ~FromTheAir(given) => offers = {given}

Chain == place # "down" /\ offers # {} => LastOffer /\ NoWayBack

\* On the ground nothing has been offered but the one goodbye.
Parked == place = "down" /\ ~grounded => offers = {}

CircleInv == TypeOK /\ Chain /\ Parked

\* While he stays and his rung is the same, everybody's verdict is the same.
LEMMA SameNext ==
    ASSUME UNCHANGED <<field, where, rung>>, NEW s
    PROVE  NextFor(s)' = NextFor(s)
<1>1. layout' = layout /\ profile' = profile /\ place' = place /\ inbound' = inbound
      /\ volume' = volume /\ rung' = rung
  BY DEF field, where
<1>2. \A role : StationFor(role)' = StationFor(role)
  BY <1>1 DEF StationFor, Seats
<1>3. \A a : Answers(a)' = Answers(a)
  BY <1>1 DEF Answers
<1>4. Rules(rung)' = Rules(rung)
  BY <1>1 DEF Rules, Beyond, Within
<1>5. Due(s, rung)' = Due(s, rung)
  <2>1. \A role : Named(s, role)' = Named(s, role)
    BY <1>2 DEF Named
  <2>2. OwnedOnTheGround(s, rung)' = OwnedOnTheGround(s, rung)
    BY <1>1, <1>2, <1>3 DEF OwnedOnTheGround
  <2>3. ByTheTable(s, rung)' = ByTheTable(s, rung)
    <3> DEFINE rules == Rules(rung)
               mine == {i \in DOMAIN rules : rules[i].from \in Answers(s)}
               firing == {i \in mine : rules[i].fires /\ Named(s, rules[i].to) # None}
               first == CHOOSE i \in firing : \A j \in firing : i <= j
               verdict == IF firing # {} THEN Named(s, rules[first].to)
                          ELSE IF \E i \in mine : ~rules[i].fires THEN "keep" ELSE None
    <3>1. rules' = rules
      BY <1>4
    <3>2. ByTheTable(s, rung) = verdict /\ ByTheTable(s, rung)' = verdict'
      BY DEF ByTheTable
    <3> HIDE DEF rules
    <3>3. mine' = mine
      BY <1>3, <3>1
    <3> HIDE DEF mine
    <3>4. firing' = firing
      BY <2>1, <3>1, <3>3
    <3> HIDE DEF firing
    <3>5. first' = first
      BY <3>4
    <3> HIDE DEF first
    <3>6. verdict' = verdict
      BY <2>1, <3>1, <3>3, <3>4, <3>5
    <3> HIDE DEF verdict
    <3> QED BY <3>2, <3>6
  <2> QED BY <1>1, <2>1, <2>2, <2>3 DEF Due
<1>6. LeavingMyAirspace(s)' = LeavingMyAirspace(s)
  BY <1>1, <1>2 DEF LeavingMyAirspace
<1> QED BY <1>1, <1>5, <1>6 DEF NextFor, NextController


\* Only two seats ever send him to one another: of three different seats, each
\* with somebody to send him to, one is no seat that the air sends him to.
LEMMA TwoSendOnly ==
    ASSUME TypeOK, place # "down", NEW a, NEW b, NEW c,
           FromTheAir(a), FromTheAir(b), FromTheAir(c),
           a # None, b # None, c # None,
           NextFor(a) # None, NextFor(b) # None, NextFor(c) # None,
           a # b, a # c
    PROVE  b = c
<1>1. CASE inbound
  <2>1. \A o \in {a, b, c} : o = StationFor("approach") \/ o = StationFor("tower")
    BY <1>1, TheWayIn DEF FromTheAir
  <2>2. \A o \in {a, b, c} : o = StationFor("approach")
    BY <1>1, <2>1, TheWayIn
  <2> QED BY <2>2
<1>2. CASE ~inbound
  <2> DEFINE t == StationFor("tower")
  <2>1. ASSUME NEW o, FromTheAir(o), o # None, NextFor(o) # None
        PROVE  o = t \/ o = NextFor(t)
    <3>1. PICK s \in Seats \ GroundSeats : NextFor(s) = o
      BY <2>1 DEF FromTheAir
    <3>2. CASE s = t
      BY <3>1, <3>2
    <3>3. CASE s # t
      BY <1>2, <2>1, <3>1, <3>3, TheWayOut
    <3> QED BY <3>2, <3>3
  <2>2. (a = t \/ a = NextFor(t)) /\ (b = t \/ b = NextFor(t)) /\ (c = t \/ c = NextFor(t))
    BY <2>1
  <2> QED BY <2>2
<1> QED BY <1>1, <1>2

\* A poll that offers him a seat offers one that nobody has while he stays.
LEMMA WatchOffers ==
    ASSUME CircleInv, NEW free \in BOOLEAN, Watch(free), given' # given, given' # None
    PROVE  given' \notin offers
<1>1. /\ place # "down" /\ given' = NextFor(at) /\ NextFor(at) # giver /\ NextFor(at) # given
      /\ NextFor(at) # None
  BY DEF Watch, Offer, AFreshOffer, NextFor
<1>2. CASE offers = {}
  BY <1>2
<1>3. CASE offers # {}
  <2>1. LastOffer /\ NoWayBack
    BY <1>1, <1>3 DEF CircleInv, Chain
  <2>2. given # None /\ at = given /\ given \notin GroundSeats
    BY <1>1, <2>1 DEF LastOffer
  <2>3. FromTheAir(NextFor(at))
    BY <2>2 DEF FromTheAir, CircleInv, TypeOK
  <2> QED BY <1>1, <2>1, <2>2, <2>3 DEF NoWayBack
<1> QED BY <1>2, <1>3

LEMMA WatchKeepsChain ==
    ASSUME CircleInv, NEW free \in BOOLEAN, Watch(free)
    PROVE  Chain'
<1>1. /\ place # "down" /\ UNCHANGED <<field, where, rung, me, at>> /\ layout' = layout
  BY DEF Watch, field
<1>2. /\ \A s : NextFor(s)' = NextFor(s)
      /\ Seats' = Seats
  BY <1>1, SameNext DEF Seats
<1>3. \A o : FromTheAir(o)' <=> FromTheAir(o)
  BY <1>2 DEF FromTheAir
<1>4. NextFor(at)' = NextFor(at)
  BY <1>1, <1>2
<1>5. CASE UNCHANGED <<given, giver, offers>>
  <2>1. NextFor(given)' = NextFor(given) /\ (FromTheAir(given)' <=> FromTheAir(given))
    BY <1>2, <1>3, <1>5
  <2> QED BY <1>1, <1>2, <1>3, <1>4, <1>5, <2>1 DEF CircleInv, Chain, LastOffer, NoWayBack
<1>6. CASE NextFor(at) = None /\ given' = None /\ UNCHANGED <<giver, offers>>
  BY <1>1, <1>4, <1>6 DEF Chain, LastOffer, NoWayBack
<1>7. CASE AFreshOffer(NextFor(at)) /\ NextFor(at) # None /\ Offer(NextFor(at))
  <2>0. PICK y : y = NextFor(at)
    OBVIOUS
  <2>1. /\ y # None /\ y # giver /\ y # given
        /\ given' = y /\ giver' = me /\ offers' = offers \cup {y}
    BY <1>7, <2>0 DEF AFreshOffer, Offer
  <2>2. y \notin GroundSeats
    BY <1>1, <2>0, NextInTheAir DEF NextFor, CircleInv
  <2>3. ASSUME offers # {}
        PROVE  /\ given # None /\ at = given /\ (me = at \/ y = at)
               /\ LastOffer /\ NoWayBack /\ FromTheAir(y)
    <3>1. LastOffer /\ NoWayBack
      BY <1>1, <2>3 DEF CircleInv, Chain
    <3>2. given # None /\ at = given
      BY <2>0, <2>1, <3>1 DEF LastOffer
    <3>3. me = at \/ y = at
      BY <2>0, <2>1, <3>1, <3>2 DEF LastOffer
    <3>4. FromTheAir(y)
      BY <2>0, <3>1, <3>2 DEF FromTheAir, CircleInv, TypeOK, LastOffer
    <3> QED BY <3>1, <3>2, <3>3, <3>4
  <2>4. \A o \in offers \ {y} : NextFor(o) # None
    BY <2>0, <2>1, <2>3 DEF LastOffer
  <2>5. NextFor(y)' = NextFor(y) /\ (FromTheAir(y)' <=> FromTheAir(y))
    BY <1>2, <1>3
  <2>6. LastOffer'
    <3>1. NextFor(given)' = NextFor(y) /\ NextFor(at)' = y
      BY <1>4, <2>0, <2>1, <2>5
    <3>2. given' = y /\ y \in offers' \ GroundSeats
      BY <2>1, <2>2
    <3>3. at' = at
      BY <1>1
    <3>4. at = y => NextFor(at)' = at'
      BY <3>1, <3>3
    <3>5. \A o \in offers' \ {y} : NextFor(o)' # None
      BY <1>2, <2>1, <2>4
    <3> QED BY <2>1, <3>1, <3>2, <3>3, <3>4, <3>5 DEF LastOffer
  <2>7. NoWayBack'
    <3>1. ASSUME NextFor(y) # None, NEW o \in offers \cup {y}, FromTheAir(o)
          PROVE  o \in {y, me}
      <4> SUFFICES ASSUME o # y, o # me PROVE FALSE
        OBVIOUS
      <4>1. o \in offers
        BY <3>1
      <4>2. /\ given # None /\ at = given /\ (me = at \/ y = at)
            /\ LastOffer /\ NoWayBack /\ FromTheAir(y)
        BY <2>3, <4>1
      <4>3. me = at
        BY <2>1, <4>2
      <4>4. o = giver /\ o # given
        BY <2>0, <2>1, <3>1, <4>1, <4>2, <4>3 DEF NoWayBack
      <4>5. FromTheAir(given)
        BY <4>1, <4>2, <4>4 DEF NoWayBack
      <4>6. NextFor(o) # None /\ NextFor(given) # None
        BY <2>0, <2>1, <4>1, <4>2, <4>4 DEF LastOffer
      <4>7. o # None
        BY <2>1, <4>1, SeatsAreRoles DEF CircleInv, TypeOK
      <4> QED BY <1>1, <2>1, <3>1, <4>2, <4>4, <4>5, <4>6, <4>7, TwoSendOnly DEF CircleInv
    <3>2. ASSUME ~FromTheAir(y) PROVE offers = {}
      BY <2>3, <3>2
    <3>3. NextFor(given)' = NextFor(y) /\ (FromTheAir(given)' <=> FromTheAir(y))
      BY <2>1, <2>5 DEF FromTheAir
    <3>4. ASSUME NextFor(given)' # None, NEW o \in offers', FromTheAir(o)'
          PROVE  o \in {given, giver}'
      BY <1>3, <2>1, <3>1, <3>3, <3>4
    <3> QED BY <2>1, <3>2, <3>3, <3>4 DEF NoWayBack
  <2> QED BY <2>6, <2>7 DEF Chain
<1> QED BY <1>5, <1>6, <1>7 DEF Watch, NextFor


LEMMA TurnKeepsChain ==
    ASSUME CircleInv, NEW seat \in Seats, NEW seen \in BOOLEAN, Turn(seat, seen)
    PROVE  Chain'
<1>1. /\ me' = seat /\ at' = seat
      /\ UNCHANGED <<field, where, given, giver>>
      /\ offers' = IF seat \in {at, given} /\ rung' = rung THEN offers ELSE {}
  BY DEF Turn
<1>2. CASE offers' = {}
  BY <1>2 DEF Chain
<1>3. CASE offers' = offers /\ seat \in {at, given} /\ rung' = rung
  <2>1. /\ \A s : NextFor(s)' = NextFor(s)
        /\ Seats' = Seats /\ place' = place /\ given' = given /\ giver' = giver
    BY <1>1, <1>3, SameNext DEF Seats, field, where
  <2>2. \A o : FromTheAir(o)' <=> FromTheAir(o)
    BY <2>1 DEF FromTheAir
  <2> SUFFICES ASSUME place # "down", offers # {} PROVE LastOffer' /\ NoWayBack'
    BY <1>3, <2>1 DEF Chain
  <2>3. LastOffer /\ NoWayBack
    BY DEF CircleInv, Chain
  <2>4. seat # None
    BY SeatsAreRoles DEF CircleInv
  <2>5. NextFor(given)' = NextFor(given) /\ (FromTheAir(given)' <=> FromTheAir(given))
    BY <2>1, <2>2
  <2>6. NextFor(at)' = NextFor(seat)
    BY <1>1, <2>1
  <2>7. LastOffer'
    <3>1. given = None => NextFor(seat) = None
      BY <1>3, <2>3, <2>4 DEF LastOffer
    <3>2. given # None => seat = given \/ NextFor(seat) = given
      BY <1>3, <2>3 DEF LastOffer
    <3> QED BY <1>1, <1>3, <2>1, <2>3, <2>6, <3>1, <3>2 DEF LastOffer
  <2>8. NoWayBack'
    BY <1>1, <1>3, <2>1, <2>2, <2>3, <2>5 DEF NoWayBack
  <2> QED BY <2>7, <2>8
<1> QED BY <1>1, <1>2, <1>3

LEMMA InitCircleInv == Init => CircleInv
BY InitTypes DEF Init, CircleInv, Chain, Parked

LEMMA StepCircleInv == CircleInv /\ [Next]_vars => CircleInv'
<1> SUFFICES ASSUME CircleInv, [Next]_vars PROVE CircleInv'
  OBVIOUS
<1>1. TypeOK'
  BY StepTypes DEF CircleInv
<1>2. CASE Moves \/ OtherTurn
  BY <1>1, <1>2 DEF Moves, OtherTurn, CircleInv, Chain, Parked
<1>3. CASE Goodbye
  <2>1. place' = "down" /\ grounded' = TRUE
    BY <1>3 DEF Goodbye, where
  <2> QED BY <1>1, <2>1 DEF CircleInv, Chain, Parked
<1>4. ASSUME NEW free \in BOOLEAN, Watch(free) PROVE CircleInv'
  <2>1. place' # "down"
    BY <1>4 DEF Watch, where
  <2> QED BY <1>1, <1>4, <2>1, WatchKeepsChain DEF CircleInv, Parked
<1>5. ASSUME NEW seat \in Seats, NEW seen \in BOOLEAN, Turn(seat, seen) PROVE CircleInv'
  <2>1. Parked'
    BY <1>5 DEF Turn, where, CircleInv, Parked
  <2> QED BY <1>1, <1>5, <2>1, TurnKeepsChain DEF CircleInv
<1>6. CASE UNCHANGED vars
  <2>1. UNCHANGED <<field, where, rung, me, at, given, giver, offers, grounded>>
    BY <1>6 DEF vars, field, where
  <2>2. /\ \A s : NextFor(s)' = NextFor(s)
        /\ Seats' = Seats /\ place' = place
    BY <2>1, SameNext DEF Seats, field, where
  <2>3. \A o : FromTheAir(o)' <=> FromTheAir(o)
    BY <2>2 DEF FromTheAir
  <2>4. /\ NextFor(given)' = NextFor(given) /\ (FromTheAir(given)' <=> FromTheAir(given))
        /\ NextFor(at)' = NextFor(at)
    BY <2>1, <2>2, <2>3
  <2>5. LastOffer <=> LastOffer'
    BY <2>1, <2>2, <2>4 DEF LastOffer
  <2>6. NoWayBack <=> NoWayBack'
    BY <2>1, <2>2, <2>3, <2>4 DEF NoWayBack
  <2> QED BY <1>1, <2>1, <2>2, <2>5, <2>6 DEF CircleInv, Chain, Parked
<1> QED BY <1>2, <1>3, <1>4, <1>5, <1>6 DEF Next, Poll

\* The offers of one stay are a chain that ends, whoever else speaks and however
\* often he is offered the same: CircleInv holds in every state the poll reaches.
THEOREM HandoffChain == Spec => []CircleInv
BY InitCircleInv, StepCircleInv, PTL DEF Spec

LEMMA StepNoCircle ==
    CircleInv /\ [Next]_vars =>
      [given' # given /\ given' # None /\ where' = where => given' \notin offers]_vars
<1> SUFFICES ASSUME CircleInv, Next, given' # given, given' # None, where' = where
             PROVE  given' \notin offers
  OBVIOUS
<1>1. CASE Moves \/ OtherTurn
  BY <1>1 DEF Moves, OtherTurn
<1>2. CASE Goodbye
  BY <1>2 DEF Goodbye, CircleInv, Parked
<1>3. ASSUME NEW free \in BOOLEAN, Watch(free) PROVE given' \notin offers
  BY <1>3, WatchOffers
<1>4. ASSUME NEW seat \in Seats, NEW seen \in BOOLEAN, Turn(seat, seen) PROVE given' = given
  BY <1>4 DEF Turn
<1> QED BY <1>1, <1>2, <1>3, <1>4 DEF Next, Poll

\* The poll never hands a man who stays where he is in a circle, on any aerodrome
\* where one seat claims each role.  What a_fresh_offer remembers is one seat back;
\* that is enough because only two seats ever send him to one another.
THEOREM HandoffNoCircle == Spec => NoCircle
BY StepNoCircle, HandoffChain, PTL DEF Spec, NoCircle

=============================================================================
