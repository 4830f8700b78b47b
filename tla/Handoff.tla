------------------------------ MODULE Handoff ------------------------------
(***************************************************************************)
(* Whose an aircraft is, and how he is told: one aircraft, the seats of    *)
(* his aerodrome and the fieldless Center, radar's poll and his own calls. *)
(*                                                                         *)
(* The poll offers him the seat that is due, once, and remembers whom it   *)
(* named and who gave him away.  He calls whom he likes, whatever he was   *)
(* told.  The other aircraft are only here for whom they speak to: the     *)
(* Controller has one "me".                                                *)
(***************************************************************************)
EXTENDS Naturals

CONSTANTS
    Layouts,        \* the aerodromes: each seat with the other roles it answers to
    Profiles,       \* his procedure: none, one he flies himself, a talkdown
    Others          \* a bound: the seats the other aircraft call

Roles == {"clearance", "delivery", "ground", "tower", "approach", "departure", "center"}
GroundSeats == {"clearance", "delivery", "ground"}
None == "none"

ASSUME LayoutsAssumption ==
    \A layout \in Layouts :
        /\ DOMAIN layout \subseteq Roles /\ "center" \in DOMAIN layout
        /\ \A seat \in DOMAIN layout : layout[seat] \subseteq Roles \ DOMAIN layout
\* No seat of the ground works the runway or the radar as well, as on every plate
\* the configuration has.  (Where one did, a flyer would be sent back to it.)
ASSUME GroundAssumption ==
    \A layout \in Layouts : \A seat \in DOMAIN layout \cap GroundSeats :
        layout[seat] \subseteq GroundSeats
\* "A role is only unique within a field, and only if one seat claims it": no two
\* seats answer to one role, and Center is nothing else.
ASSUME AnswersAssumption ==
    \A layout \in Layouts :
        /\ layout["center"] = {}
        /\ \A a, b \in DOMAIN layout : a # b => layout[a] \cap layout[b] = {}
ASSUME ProfilesAssumption == Profiles \subseteq {None, "plate", "talkdown"}
ASSUME OthersAssumption == \A layout \in Layouts : Others \subseteq DOMAIN layout

VARIABLES
    layout,         \* who works the aerodrome
    profile,        \* his procedure
    me,             \* whom the Controller was last called on, by anybody
    at,             \* the seat he was last heard on
    given,          \* handed_off[cs]: whom the poll last offered
    giver,          \* handed_off[from cs]: whose he was, as far as the poll knew
    rung,           \* sortie_phase
    sep,            \* the separation engine's phase
    place,          \* where he really is
    inbound,        \* coming towards the field
    volume,         \* whose airspace the map says he is in
    flown,          \* the monitor has seen him fly
    grounded,       \* the monitor has seen him land
    airborne,       \* has_been_airborne
    offers          \* history: the seats he was offered since he moved, or anybody spoke out of turn

vars == <<layout, profile, me, at, given, giver, rung, sep, place, inbound, volume,
          flown, grounded, airborne, offers>>
where == <<place, inbound, volume>>
field == <<layout, profile>>

Seats == DOMAIN layout
Places == {"down", "circuit", "terminal", "enroute"}
Rungs == {"", "clearance", "taxi", "holding_short", "departure", "enroute", "arrival",
          "holding", "approach", "missed", "landed", "taxi_in"}
Phases == {"enroute", "holding", "cleared", "missed", "landed"}

Init ==
    /\ layout \in Layouts
    /\ profile \in Profiles
    /\ given = None /\ giver = None
    /\ sep = "enroute" /\ volume = None
    /\ flown = FALSE /\ grounded = FALSE /\ airborne = FALSE /\ offers = {}
    /\ \/ /\ place = "down" /\ inbound = FALSE
          /\ rung = "clearance" /\ at \in GroundSeats \cap Seats
       \/ /\ place = "enroute" /\ inbound = TRUE
          /\ rung = "enroute" /\ at = "center"
    /\ me = at

---------------------------------------------------------------------------
(* Who is due: the rung's owner on the ground, the table in the air. *)

Answers(seat) == {seat} \cup layout[seat]

\* The seat whose own role it is, or else one that also answers to it.
StationFor(role) ==
    IF role \in Seats THEN role
    ELSE IF \E seat \in Seats : role \in layout[seat]
         THEN CHOOSE seat \in Seats : role \in layout[seat] ELSE None

\* The owner of a rung with no geometry to argue with.
Owner == [r \in Rungs |->
    CASE r = "clearance" -> "delivery" [] r = "holding_short" -> "tower"
      [] r \in {"taxi", "taxi_in"} -> "ground" [] r = "landed" -> "tower" [] OTHER -> None]

Beyond(limit) == place # "down" /\ ~inbound /\ place \in limit
Within(limit) == place # "down" /\ inbound /\ place \in limit
PastCircuit == {"terminal", "enroute"}
InCircuit == {"circuit"}

\* The table of rules in the order they are asked, for an aircraft radar sees.
Rules(r) == <<
    [from |-> "tower", to |-> "approach",  fires |-> r = "missed" /\ Beyond(PastCircuit)],
    [from |-> "tower", to |-> "departure", fires |-> Beyond(PastCircuit)],
    [from |-> "center", to |-> "approach", fires |-> Within({"circuit", "terminal"})],
    [from |-> "departure", to |-> "center", fires |-> Beyond({"enroute"})],
    [from |-> "approach", to |-> "tower",
     fires |-> Within(InCircuit) /\ profile # "talkdown"],
    [from |-> "approach", to |-> "tower",  fires |-> place = "down"],
    [from |-> "departure", to |-> "tower", fires |-> place = "down"],
    [from |-> "ground", to |-> "tower",    fires |-> place # "down"],
    [from |-> "clearance", to |-> "tower", fires |-> place # "down"] >>

\* A verdict: a seat, "same" (he has that man already), "keep" (a rule says not
\* yet) or none.
Named(seat, role) ==
    IF StationFor(role) = None THEN None
    ELSE IF StationFor(role) = seat THEN "same" ELSE StationFor(role)

ByTheTable(seat, r) ==
    LET rules == Rules(r)
        mine == {i \in DOMAIN rules : rules[i].from \in Answers(seat)}
        firing == {i \in mine : rules[i].fires /\ Named(seat, rules[i].to) # None}
    IN  IF firing # {}
        THEN Named(seat, rules[CHOOSE i \in firing : \A j \in firing : i <= j].to)
        ELSE IF \E i \in mine : ~rules[i].fires THEN "keep" ELSE None

OwnedOnTheGround(seat, r) ==
    /\ Owner[r] # None /\ Owner[r] \notin Answers(seat)
    /\ ~(Owner[r] \in GroundSeats /\ place # "down")
    /\ StationFor(Owner[r]) # None

\* A bug: the rung owns an aircraft that flies.
DueByRung(seat, r) ==
    IF Owner[r] # None /\ Owner[r] \notin Answers(seat) /\ StationFor(Owner[r]) # None
    THEN Named(seat, Owner[r]) ELSE ByTheTable(seat, r)

Due(seat, r) ==
    IF OwnedOnTheGround(seat, r) THEN Named(seat, Owner[r]) ELSE ByTheTable(seat, r)

\* The map's airspace decides where no rule does, and only further out.  That he is
\* being vectored would keep him, but the poll looks for it in a field that no
\* Aircraft has, assigned_hdg, which is only a column of the board.
Order == [r \in Roles |-> CASE r = "center" -> 0 [] r \in {"approach", "departure"} -> 1
                            [] r = "tower" -> 2 [] OTHER -> 9]
LeavingMyAirspace(seat) ==
    IF inbound \/ (profile # None /\ seat \in {"approach", "tower"}) \/ volume = None
    THEN None
    ELSE IF Order[volume] < Order[seat] THEN StationFor(volume) ELSE None

\* The verdict first, then the airspace.
NextController(seat, r) ==
    LET due == Due(seat, r)
    IN  IF due \notin {None, "same", "keep"} THEN due
        ELSE IF due = "keep" \/ place = "down" THEN None
        ELSE LeavingMyAirspace(seat)

---------------------------------------------------------------------------
(* The rung, derived from what is seen on every turn. *)

Follows == [r \in Rungs |->
    CASE r = "clearance" -> {"taxi"} [] r = "taxi" -> {"holding_short"}
      [] r = "holding_short" -> {"departure", "taxi"}
      [] r = "departure" -> {"enroute", "arrival", "landed"}
      [] r = "enroute" -> {"arrival", "holding", "landed"}
      [] r = "arrival" -> {"holding", "approach", "landed"}
      [] r = "holding" -> {"approach", "landed"} [] r = "approach" -> {"missed", "landed"}
      [] r = "missed" -> {"holding", "approach", "enroute", "landed"}
      [] r = "landed" -> {"taxi_in"} [] r = "taxi_in" -> {} [] OTHER -> Rungs]
HasFlown(r) == r \in {"enroute", "arrival", "holding", "approach", "missed"}

Wanted(r, phase, role, seen, been) ==
    IF seen /\ place = "down"
    THEN IF been \/ HasFlown(r) \/ phase = "landed" THEN "landed"
         ELSE IF r = "" THEN "clearance" ELSE r
    ELSE IF phase = "landed" THEN "landed"
    ELSE IF seen /\ r \in {"clearance", "taxi", "holding_short"} THEN "departure"
    ELSE IF phase = "missed" THEN "missed"
    ELSE IF phase = "cleared" THEN "approach"
    ELSE IF phase = "holding" THEN "holding"
    ELSE IF role = "approach" /\ r \in {"departure", "enroute", ""} THEN "arrival"
    ELSE IF role = "center" /\ r \in {"departure", ""} THEN "enroute"
    ELSE r

PhaseNow(r, phase, role, seen, been) ==
    LET want == Wanted(r, phase, role, seen, been)
    IN  IF r = "" \/ want \in Follows[r] THEN want ELSE r

---------------------------------------------------------------------------
(* What a call does to the rung and the separation engine's phase. *)

Outcome(r, phase) == [rung |-> r, sep |-> phase]

\* Off the runway he is Ground's, where there is a Ground, and told so once.
HasGround(seat) == seat # "center" /\ StationFor("ground") # None
ParkedRung(seat, r) ==
    IF HasGround(seat) THEN "taxi_in" ELSE IF r = "taxi_in" THEN r ELSE "landed"
MustBeTold(seat, r) == HasGround(seat) /\ r # "taxi_in" /\ "ground" \notin Answers(seat)

\* A clearance that is not read back sends him to Clearance again; a seat that is
\* not Ground says so, and has put him on the taxi rung already.
RequestTaxi(seat, r) ==
    IF r \in {"landed", "taxi_in"} THEN {Outcome("taxi_in", sep)}
    ELSE {Outcome("taxi", sep)}
         \cup (IF "ground" \in Answers(seat) THEN {Outcome("clearance", sep)} ELSE {})

RequestTakeoff(seat, r) ==
    IF "tower" \in Answers(seat) THEN {Outcome(r, sep), Outcome("departure", sep)} ELSE {}

ReportLanded(seat, r, been) ==
    IF sep = "landed" THEN {Outcome(ParkedRung(seat, r), sep)}
    ELSE IF r \in {"clearance", "taxi", "holding_short"} /\ ~been THEN {}
    ELSE {Outcome(r, "landed")}

\* What he may ask on the ground, what he may ask in the air, and what always.
Outcomes(seat, r, been) ==
    {Outcome(r, sep)}
    \cup ReportLanded(seat, r, been)
    \cup (IF r = "clearance" THEN {Outcome("taxi", sep)} ELSE {})
    \cup (IF place = "down"
          THEN {Outcome("clearance", sep), Outcome("holding_short", sep)}
               \cup RequestTaxi(seat, r) \cup RequestTakeoff(seat, r)
          ELSE {Outcome(r, phase) : phase \in Phases \ {"landed"}})

---------------------------------------------------------------------------
\* He flies where he likes; whose airspace it is goes with where he is.
Neighbours == [p \in Places |->
    CASE p = "down" -> {"circuit"} [] p = "circuit" -> {"down", "circuit", "terminal"}
      [] p = "terminal" -> Places \ {"down"} [] OTHER -> {"terminal", "enroute"}]
Volumes == [p \in Places |->
    CASE p = "down" -> {None} [] p = "circuit" -> {"tower", "approach"}
      [] p = "terminal" -> {"approach"} [] OTHER -> {None, "center"}]
Moves ==
    /\ place' \in Neighbours[place]
    /\ inbound' \in (IF place' = "down" THEN {FALSE} ELSE BOOLEAN)
    /\ volume' \in Volumes[place']
    /\ where' # where
    /\ offers' = {}
    /\ UNCHANGED <<field, me, at, given, giver, rung, sep, flown, grounded, airborne>>

\* Somebody else calls: the Controller is now that seat.
OtherTurn ==
    /\ me' \in Others /\ me' # me
    /\ offers' = {}
    /\ UNCHANGED <<field, at, rung, sep, where, airborne, given, giver, flown, grounded>>

\* He calls a seat.  His rung is derived before the call is worked and after it.
Turn(seat, seen) ==
    LET been == airborne \/ (seen /\ place # "down")
        before == PhaseNow(rung, sep, seat, seen, been)
    IN  /\ me' = seat /\ at' = seat
        /\ airborne' = been
        /\ \E o \in Outcomes(seat, before, been) :
              /\ sep' = o.sep
              /\ rung' = PhaseNow(o.rung, o.sep, seat, seen, been)
        /\ offers' = IF seat \in {at, given} /\ rung' = rung THEN offers ELSE {}
        /\ UNCHANGED <<field, where, given, giver, flown, grounded>>

---------------------------------------------------------------------------
\* The poll.

\* Is that something he has not been told, and not a way back?
AFreshOffer(seat) == seat # giver /\ seat # given

\* A bug: who gave him away is not remembered.
OfferForgetsGiver(seat) ==
    /\ given' = seat
    /\ offers' = offers \cup {seat}
    /\ UNCHANGED giver

\* The offer is made in the name of whoever was called last, by anybody.
Offer(seat) ==
    /\ given' = seat /\ giver' = me
    /\ offers' = offers \cup {seat}

\* On the ground: nothing, until he has flown; then one goodbye.
Goodbye ==
    /\ place = "down" /\ flown /\ ~grounded
    /\ grounded' = TRUE
    /\ rung' = ParkedRung(at, rung) /\ sep' = "landed"
    /\ IF MustBeTold(at, rung) THEN Offer(StationFor("ground"))
       ELSE UNCHANGED <<given, giver, offers>>
    /\ UNCHANGED <<field, me, at, where, flown, airborne>>

Watch(free) ==
    /\ place # "down"
    /\ flown' = TRUE /\ grounded' = FALSE
    /\ LET next == NextController(at, rung)
       IN  IF next = None THEN given' = None /\ UNCHANGED <<giver, offers>>
           ELSE IF AFreshOffer(next) /\ free THEN Offer(next)
           ELSE UNCHANGED <<given, giver, offers>>
    /\ UNCHANGED <<field, me, at, rung, sep, where, airborne>>

Poll == Goodbye \/ Watch(TRUE) \/ Watch(FALSE)

Next ==
    \/ Moves \/ OtherTurn \/ Poll
    \/ \E seat \in Seats, seen \in BOOLEAN : Turn(seat, seen)

Spec == Init /\ [][Next]_vars

---------------------------------------------------------------------------
\* Everybody is a seat of this aerodrome, and the rung and the phase are ones the
\* code knows.
TypeOK ==
    /\ layout \in Layouts /\ profile \in Profiles
    /\ me \in Seats /\ at \in Seats
    /\ given \in Seats \cup {None} /\ giver \in Seats \cup {None}
    /\ rung \in Rungs /\ sep \in Phases
    /\ place \in Places /\ inbound \in BOOLEAN /\ volume \in Roles \cup {None}
    /\ flown \in BOOLEAN /\ grounded \in BOOLEAN /\ airborne \in BOOLEAN
    /\ offers \in SUBSET Seats

\* The poll offers nobody who flies to Clearance or Ground, whatever his rung says.
NeverGroundsAloft ==
    [][ place # "down" /\ offers' # offers /\ where' = where
        => offers' \cap GroundSeats \subseteq offers ]_vars

\* The poll never hands a man who stays where he is in a circle: a seat it has
\* offered is not offered again after another, until he moves.
NoCircle ==
    [][ given' # given /\ given' # None /\ where' = where => given' \notin offers ]_vars
=============================================================================
