------------------------------- MODULE Runway -------------------------------
(***************************************************************************)
(* The runway of one aerodrome (atc/controller.py): who holds it, what the *)
(* engine believes of each aircraft, what radar sees standing on the strip, *)
(* and the aircraft themselves.  A pilot's call is a turn: the rung of his  *)
(* sortie is derived first (agent_atc.phase_now, phases.derive), then the   *)
(* call is made.  Pilots move as they please, except that nobody lines up   *)
(* without a take-off clearance.                                            *)
(*                                                                         *)
(* Rungs are taken together where the runway treats them alike: "ramp" is   *)
(* clearance and taxi, "flying" every rung of phases.AIRBORNE_ONLY, "" a    *)
(* rung nobody has established.                                             *)
(***************************************************************************)
EXTENDS Integers

CONSTANTS Aircraft, NoOne

ASSUME RunwayAssumption == NoOne \notin Aircraft

VARIABLES
    known,    \* Controller.aircraft
    board,    \* sortie_phase, phase is LANDED, has_been_airborne, runway_vacated
    holder,   \* _runway_by[key]
    looking,  \* there is a _seen_on_runway[key]: the last poll of the strip was answered
    seen,     \* whom that poll saw
    at,       \* where each aircraft is: off the strip, lined up, airborne, rolling out
    using,    \* the aircraft cleared for take-off or to land and not done with it
    void      \* those of them whose clearance the engine has stopped protecting

vars == <<known, board, holder, looking, seen, at, using, void>>
ghosts == <<using, void>>

Rungs == {"", "ramp", "short", "departure", "flying", "landed", "taxi_in"}
Records == [rung : Rungs, down : BOOLEAN, flown : BOOLEAN, vacated : BOOLEAN]
Fresh == [rung |-> "", down |-> FALSE, flown |-> FALSE, vacated |-> FALSE]
OnStrip == {"lined", "rolled"}

Init ==
    /\ known = {}
    /\ board = [a \in Aircraft |-> Fresh]
    /\ holder = NoOne
    /\ looking = FALSE
    /\ seen = {}
    /\ at \in [Aircraft -> {"off", "air"}]
    /\ using = {} /\ void = {}

---------------------------------------------------------------------------
(* What a turn makes of the speaker's rung before his call is looked at.   *)

\* The rungs that may follow a rung.
Follows(r) ==
    CASE r = ""          -> Rungs
      [] r = "ramp"      -> {"ramp", "short"}
      [] r = "short"     -> {"departure", "ramp"}
      [] r = "departure" -> {"flying", "landed"}
      [] r = "flying"    -> {"flying", "landed"}
      [] r = "landed"    -> {"taxi_in"}
      [] r = "taxi_in"   -> {}

\* What radar says of him, if it has him: "down", "aloft", or nothing.
Sights(a) == {"nothing", IF at[a] = "air" THEN "aloft" ELSE "down"}

\* The seat he talks to; nobody on the ground talks to one that works traffic in
\* the air.
Seats(a) == IF at[a] = "air" THEN {"field", "air"} ELSE {"field"}

\* The rung the facts point at.  A seat in the air, or the approach, makes him
\* somebody in flight.
Wanted(p, sight, seat) ==
    CASE sight = "down" -> IF p.flown \/ p.rung = "flying" \/ p.down THEN "landed"
                           ELSE IF p.rung = "" THEN "ramp" ELSE p.rung
      [] sight # "down" /\ p.down -> "landed"
      [] sight = "aloft" /\ ~p.down /\ p.rung \in {"ramp", "short"} -> "departure"
      [] OTHER -> IF seat = "air" /\ p.rung \in {"", "departure", "flying"}
                  THEN "flying" ELSE p.rung

\* A bug: an aircraft that is not seen on the ground counts as airborne.
DerivedUnseen(p, sight, seat) ==
    LET q == [p EXCEPT !.flown = @ \/ sight # "down"]
        want == Wanted(q, sight, seat)
    IN  [q EXCEPT !.rung = IF want \in Follows(@) THEN want ELSE @]

Derived(p, sight, seat) ==
    LET q == [p EXCEPT !.flown = @ \/ sight = "aloft"]
        want == Wanted(q, sight, seat)
    IN  [q EXCEPT !.rung = IF want \in Follows(@) THEN want ELSE @]

\* What is on record of the speaker when his call is looked at.
Heard(a) ==
    IF a \notin known THEN {Fresh}
    ELSE {Derived(board[a], sight, seat) : sight \in Sights(a), seat \in Seats(a)}

---------------------------------------------------------------------------
(* Who is on the runway.                                                   *)

Done(p) ==
    IF p.rung \in {"landed", "taxi_in"} \/ p.down THEN p.vacated
    ELSE p.rung = "departure" => p.flown

\* The aircraft of the board that radar sees on the strip.
SeenHolders(a) == (seen \cap known) \ {a}

Found(who, hold, b) == [busy |-> who, holder |-> hold, board |-> b]

\* A bug: the recorded hold alone is asked, nobody is adopted.
LookedForHolder(a, b) ==
    LET onIt == SeenHolders(a)
        held == holder \in known /\ ~Done(b[holder])
    IN  CASE onIt # {} -> {Found(o, IF holder = NoOne THEN o ELSE holder, b) : o \in onIt}
          [] onIt = {} /\ held /\ ~looking ->
               {Found(IF holder = a THEN NoOne ELSE holder, holder, b)}
          [] OTHER -> {Found(NoOne, NoOne, b)}

\* A bug: what radar sees does not count.
LookedForUnseen(a, b) ==
    LET claims == {o \in known \ {a} : ~Done(b[o])}
    IN  IF holder \in known /\ ~Done(b[holder])
        THEN {Found(IF holder = a THEN NoOne ELSE holder, holder, b)}
        ELSE IF claims = {} THEN {Found(NoOne, NoOne, b)}
        ELSE {Found(o, o, b) : o \in claims}

\* who_is_on_the_runway(a): the answer, and what looking does to the hold.
LookedFor(a, b) ==
    LET others == known \ {a}
        onIt == SeenHolders(a)
        held == holder \in known /\ ~Done(b[holder])
        claims == {o \in others : ~Done(b[o])}
    IN  CASE onIt # {} ->
               {Found(o, IF holder = NoOne THEN o ELSE holder, b) : o \in onIt}
          [] looking /\ onIt = {} ->
               IF holder \in {NoOne, a} THEN {Found(NoOne, holder, b)}
               ELSE {Found(NoOne, NoOne,
                       IF held THEN [b EXCEPT ![holder].vacated = TRUE] ELSE b)}
          [] ~looking /\ held ->
               {Found(IF holder = a THEN NoOne ELSE holder, holder, b)}
          [] OTHER ->
               IF claims = {} THEN {Found(NoOne, NoOne, b)}
               ELSE {Found(o, o, b) : o \in claims}

\* A clearance is given to a; b is the board it leaves.
Clears(a, b) ==
    /\ holder' = a
    /\ board' = b
    /\ using' = using \cup {a}
    /\ void' = (void \ {a}) \cup {o \in using' : ~board[o].vacated /\ b[o].vacated}
                            \cup (IF Done(b[a]) THEN {a} ELSE {})

\* The clearance of a, if he has one, is over.
Over(a) == using' = using \ {a} /\ void' = void \ {a}

---------------------------------------------------------------------------
(* The pilots' calls.                                                      *)

\* A call that says nothing of the runway, or that another seat answers.
OtherCall(a) ==
    /\ \E p \in Heard(a) : board' = [board EXCEPT ![a] = p]
    /\ known' = known \cup {a}
    /\ UNCHANGED <<holder, looking, seen, at, ghosts>>

\* request_taxi, request_clearance and the read-back of one (the ramp), and
\* report_holding_short.
GroundCall(a, rung) ==
    /\ at[a] = "off"
    /\ \E p \in Heard(a) : board' = [board EXCEPT ![a] = [p EXCEPT !.rung = rung]]
    /\ known' = known \cup {a}
    /\ Over(a)
    /\ UNCHANGED <<holder, looking, seen, at>>

RequestTakeoff(a) ==
    /\ at[a] \in {"off", "lined"}
    /\ \E p \in Heard(a) :
         \E w \in LookedFor(a, [board EXCEPT ![a] = p]) :
            \/ /\ w.busy # NoOne
               /\ board' = w.board /\ holder' = w.holder
               /\ UNCHANGED <<using, void>>
            \/ /\ w.busy = NoOne
               /\ Clears(a, [w.board EXCEPT ![a].rung = "departure"])
    /\ known' = known \cup {a}
    /\ UNCHANGED <<looking, seen, at>>

\* What report_down makes of him; the rung is "landed" where there is no Ground.
Greeted(p) ==
    {[p EXCEPT !.down = TRUE, !.rung = r] :
        r \in {"taxi_in"} \cup (IF p.rung = "taxi_in" THEN {} ELSE {"landed"})}

\* Field in sight, landing, down.
ReportLanded(a) ==
    /\ at[a] \in {"air", "rolled"}
    /\ \E p \in Heard(a) :
         LET q == [p EXCEPT !.down = TRUE]
         IN  \/ /\ p.down
                /\ \E g \in Greeted(p) : board' = [board EXCEPT ![a] = g]
                /\ UNCHANGED <<holder, using, void>>
             \/ /\ ~p.down /\ p.rung \in {"ramp", "short"} /\ ~p.flown
                /\ board' = [board EXCEPT ![a] = p]
                /\ UNCHANGED <<holder, using, void>>
             \/ /\ ~p.down /\ (p.rung \in {"ramp", "short"} => p.flown)
                /\ \/ /\ board' = [board EXCEPT ![a] = q]   \* sent on to Tower
                      /\ UNCHANGED <<holder, using, void>>
                   \/ \E w \in LookedFor(a, [board EXCEPT ![a] = q]) :
                        \/ /\ w.busy # NoOne
                           /\ board' = w.board /\ holder' = w.holder
                           /\ UNCHANGED <<using, void>>
                        \/ /\ w.busy = NoOne
                           /\ Clears(a, w.board)
    /\ known' = known \cup {a}
    /\ UNCHANGED <<looking, seen, at>>

ReportMissed(a) ==
    /\ at[a] = "air"
    /\ \E p \in Heard(a) : board' = [board EXCEPT ![a] = [p EXCEPT !.down = FALSE]]
    /\ known' = known \cup {a}
    /\ holder' = NoOne
    /\ Over(a)
    /\ UNCHANGED <<looking, seen, at>>

\* request_approach, report_beacon or request_visual: he is an arrival again.
Rejoin(a) ==
    /\ at[a] = "air"
    /\ \E p \in Heard(a) : board' = [board EXCEPT ![a] = [p EXCEPT !.down = FALSE]]
    /\ known' = known \cup {a}
    /\ Over(a)
    /\ UNCHANGED <<holder, looking, seen, at>>

\* A taxi request of somebody who has landed: he says he is clear.  Tower compares
\* the first name radar has on the strip with his.
TaxiIn(a) ==
    /\ at[a] # "air"
    /\ \E p \in Heard(a) :
         /\ p.rung \in {"landed", "taxi_in"}
         /\ \/ /\ a \in SeenHolders(NoOne)
               /\ board' = [board EXCEPT ![a] = [p EXCEPT !.rung = "taxi_in"]]
               /\ UNCHANGED <<holder, using, void>>
            \/ /\ a \notin SeenHolders(NoOne) \/ SeenHolders(a) # {}
               /\ board' = [board EXCEPT ![a] = [p EXCEPT !.rung = "taxi_in",
                                                          !.vacated = TRUE]]
               /\ holder' = NoOne
               /\ Over(a)
    /\ known' = known \cup {a}
    /\ UNCHANGED <<looking, seen, at>>

---------------------------------------------------------------------------
(* Radar, the simulator and the clock.                                     *)

\* The radar thread sees a known aircraft that flew on the ground.
ReportDown(a) ==
    /\ a \in known /\ at[a] = "rolled"
    /\ \E g \in Greeted(board[a]) : board' = [board EXCEPT ![a] = g]
    /\ UNCHANGED <<known, holder, looking, seen, at, ghosts>>

\* One poll of the runway polygons; a poll that fails is silence.
WatchTheRunways ==
    /\ \/ looking' = TRUE /\ seen' = {a \in Aircraft : at[a] \in OnStrip}
       \/ looking' = FALSE /\ seen' = {}
    /\ UNCHANGED <<known, board, holder, at, ghosts>>

\* The pilot has left his slot.
Release(a) ==
    /\ a \in known
    /\ known' = known \ {a}
    /\ board' = [board EXCEPT ![a] = Fresh]
    /\ holder' = IF holder = a THEN NoOne ELSE holder
    /\ at' = [at EXCEPT ![a] = "off"]
    /\ Over(a)
    /\ UNCHANGED <<looking, seen>>

\* tick: a hold of more than RUNWAY_HOLD_SEC is assumed over.
HoldTimesOut ==
    /\ holder # NoOne
    /\ board' = IF holder \in known THEN [board EXCEPT ![holder].vacated = TRUE]
                ELSE board
    /\ holder' = NoOne
    /\ void' = void \cup ({holder} \cap using)
    /\ UNCHANGED <<known, looking, seen, at, using>>

---------------------------------------------------------------------------
(* The aircraft.                                                           *)

Moves(a, there) ==
    at' = [at EXCEPT ![a] = there] /\ UNCHANGED <<known, board, holder, looking, seen>>

LinesUp(a) ==
    /\ at[a] = "off" /\ a \in using
    /\ Moves(a, "lined") /\ UNCHANGED ghosts

TakesOff(a) ==
    /\ at[a] \in OnStrip
    /\ Moves(a, "air") /\ Over(a)

TouchesDown(a) ==
    /\ at[a] = "air"
    /\ Moves(a, "rolled")
    /\ UNCHANGED <<using, void>>

LeavesTheStrip(a) ==
    /\ at[a] \in OnStrip
    /\ Moves(a, "off") /\ Over(a)

---------------------------------------------------------------------------
Speaks(a) ==
    \/ OtherCall(a)
    \/ \E rung \in {"ramp", "short"} : GroundCall(a, rung)
    \/ RequestTakeoff(a)
    \/ ReportLanded(a)
    \/ ReportMissed(a)
    \/ Rejoin(a)
    \/ TaxiIn(a)

Flies(a) == LinesUp(a) \/ TakesOff(a) \/ TouchesDown(a) \/ LeavesTheStrip(a)

Next ==
    \/ \E a \in Aircraft : Speaks(a) \/ Flies(a) \/ ReportDown(a) \/ Release(a)
    \/ WatchTheRunways
    \/ HoldTimesOut

Spec == Init /\ [][Next]_vars

---------------------------------------------------------------------------
TypeOK ==
    /\ known \subseteq Aircraft
    /\ board \in [Aircraft -> Records]
    /\ holder \in known \cup {NoOne}
    /\ looking \in BOOLEAN /\ seen \subseteq Aircraft /\ (seen # {} => looking)
    /\ at \in [Aircraft -> {"off", "air"} \cup OnStrip]
    /\ void \subseteq using /\ using \subseteq Aircraft

\* An aircraft with a clearance the engine protects is one that a look at the
\* board still finds on the runway, whatever became of the recorded hold: others'
\* missed approaches and reports of being clear delete it without asking whose it
\* is (report_missed, taxi_in), and the next question has to adopt him again.
StillFound == \A a \in using \ void : a \in known /\ ~Done(board[a])

\* While nobody can see the strip, a clearance to somebody who does not already
\* hold the runway is given only when no other protected clearance is in use.
ClearedAlone ==
    [][ \A a, b \in Aircraft :
          (b \in using' \ using /\ a \in using \ {b} /\ ~looking /\ holder # b)
              => a \in void ]_vars

\* While radar sees another aircraft of the board on the strip, nobody is cleared
\* onto it, whatever anybody has reported and whoever holds it.
SeenStandsFirst ==
    [][ \A b \in Aircraft : b \in using' \ using => SeenHolders(b) = {} ]_vars
=============================================================================
