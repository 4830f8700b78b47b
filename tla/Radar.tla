------------------------------- MODULE Radar -------------------------------
(***************************************************************************)
(* A radar approach flown to the ground.  Every few seconds the monitor     *)
(* looks at the aircraft, works out what it should be doing, and says so    *)
(* when that is new, not too soon after the last time, not a sudden         *)
(* reversal, and the channel is free.  The pilot does what he was last      *)
(* told.  Whether that brings him to the runway is a question about the     *)
(* sequence: each look is only about where he is now.                       *)
(*                                                                         *)
(* Distances are thousandths of a mile, headings whole degrees off the      *)
(* final approach course (so the course is 0), altitudes hundreds of feet,  *)
(* time the polls of the monitor.  The sines and tangents are tables.       *)
(***************************************************************************)
EXTENDS Integers, FiniteSets

CONSTANTS
    Starts,         \* where he is first seen: [x, y, hdg, alt]
    Guidances,      \* "talkdown" and "intercept" approaches to try
    FinalIntercept, \* the plate: where the final approach begins,
    FAP,            \*   its final approach point,
    MAP,            \*   its missed approach point,
    Platform, MDA,  \*   the altitudes of the two,
    MissedHeading, MissedStraight, MissedClimb,  \* and its missed approach
    MaxBusy,        \* bound: transmissions held for a channel in use
    MaxMisses       \* bound: approaches he does not land from

\* Bound: nobody is followed off the scope.
Area == -40000..40000
ASSUME PlateConstants ==
    /\ Starts \subseteq [x : Area, y : Area, hdg : 0..359, alt : Nat]
    /\ Guidances \subseteq {"talkdown", "intercept"}
    /\ 0 < MAP /\ MAP < FAP /\ FAP <= FinalIntercept
    /\ 0 < MDA /\ MDA < Platform /\ Platform <= MissedClimb
    /\ MissedHeading \in 0..359 /\ MissedStraight \in Nat
    /\ MaxBusy \in Nat /\ MaxMisses \in Nat

VARIABLES
    guidance,   \* his procedure's: is he talked down or does he have needles
    plane,      \* [x, y, hdg, alt]: right of the course, short of the runway
    told,       \* [hdg, alt]: what he was last told to fly
    mode,       \* flying what he is told, going around, or down
    vectored,   \* vectored[cs]: the last heading spoken to him
    wait,       \* polls since vec_at[cs], as far as anybody counts
    pending,    \* pending[cs]: a reversal held to see if it persists
    called,     \* called[cs]: the last mile called to him
    cleared,    \* cs in cleared_ils
    latch,      \* cs in bridge.flying_missed
    seen,       \* bridge.missed_count[cs]: go-arounds the latch knows of
    count,      \* ac.approaches: go-arounds the engine knows of
    looked,     \* the monitor has looked, and the pilot flies on
    busy, misses

vars == <<guidance, plane, told, mode, vectored, wait, pending, called, cleared, latch,
          seen, count, looked, busy, misses>>
radar == <<vectored, pending, called, cleared, latch, seen>>

None == -1

---------------------------------------------------------------------------
(* Arithmetic.                                                               *)

Sines == <<
    0, 17, 35, 52, 70, 87, 105, 122, 139, 156, 174, 191, 208, 225, 242, 259, 276, 292,
    309, 326, 342, 358, 375, 391, 407, 423, 438, 454, 469, 485, 500, 515, 530, 545,
    559, 574, 588, 602, 616, 629, 643, 656, 669, 682, 695, 707, 719, 731, 743, 755,
    766, 777, 788, 799, 809, 819, 829, 839, 848, 857, 866, 875, 883, 891, 899, 906,
    914, 921, 927, 934, 940, 946, 951, 956, 961, 966, 970, 974, 978, 982, 985, 988,
    990, 993, 995, 996, 998, 999, 999, 1000, 1000 >>

HalfTangents == <<
    9, 26, 44, 61, 79, 96, 114, 132, 149, 167, 185, 203, 222, 240, 259, 277, 296, 315,
    335, 354, 374, 394, 414, 435, 456, 477, 499, 521, 543, 566, 589, 613, 637, 662,
    687, 713, 740, 767, 795, 824, 854, 885, 916, 949, 983, 1018, 1054, 1091, 1130,
    1171, 1213, 1257, 1303, 1351, 1402, 1455, 1511, 1570, 1632, 1698, 1767, 1842,
    1921, 2006, 2097, 2194, 2300, 2414, 2539, 2675, 2824, 2989, 3172, 3376, 3606,
    3867, 4165, 4511, 4915, 5396, 5976, 6691, 7596, 8777, 10385, 12706, 16350, 22904,
    38188, 114589 >>

Abs(n) == IF n < 0 THEN -n ELSE n
Sign(n) == IF n < 0 THEN -1 ELSE 1
Least(a, b) == IF a < b THEN a ELSE b
Most(a, b) == IF a < b THEN b ELSE a
Clip(n, limit) == Most(-limit, Least(limit, n))
Heading(deg) == deg % 360

Sine(deg) == LET h == Heading(deg) IN
    IF h <= 90 THEN Sines[h + 1] ELSE IF h <= 180 THEN Sines[181 - h]
    ELSE IF h <= 270 THEN -Sines[h - 179] ELSE -Sines[361 - h]
Cosine(deg) == Sine(deg + 90)

\* The angle whose tangent is n / d, to the nearest degree.
Angle(n, d) == Cardinality({k \in 1..90 : 1000 * n > d * HalfTangents[k]})

\* The short way round from one heading to another: right is positive.
Turn(to, from) == ((to - from + 180) % 360) - 180

\* Headings are spoken in fives.
Fives(deg) == ((deg + 2) \div 5) * 5

\* The range is compared by its square, in hundredths of a mile.
Square(p) == (p.x \div 10) * (p.x \div 10) + (p.y \div 10) * (p.y \div 10)
Within(p, range) == Square(p) <= (range \div 10) * (range \div 10)
Mile(p) == Cardinality({m \in 0..50 : Square(p) >= (100 * m + 50) * (100 * m + 50)})

---------------------------------------------------------------------------
(* One look (asr.guide): where he is decides what he should be doing.        *)

TurnIn == 2000
Downwind == 3000
LegTolerance == 1500
Overshoot == 1000

\* Near enough the course to be steered on to it: an angle, but never less than
\* a quarter of the turn.
OnTheCourse(p) ==
    /\ Abs(p.x) <= Most((p.y * 26) \div 1000, TurnIn \div 4)
    /\ Abs(Turn(p.hdg, 0)) <= 60
    /\ p.y > -Overshoot

InPosition(p) ==
    /\ p.y > 0
    /\ \/ Abs(p.x) <= (p.y * 306) \div 1000 /\ p.y >= Abs(p.x) + TurnIn
       \/ p.y >= FinalIntercept + Abs(p.x) + TurnIn

\* Blend on to the course: aim at it a mile or two ahead.
Intercept(p) ==
    Heading(-Sign(p.x) * Angle(Abs(p.x), Least(2000, Most(1000, p.y \div 2))))

\* The pattern: downwind three miles off the course, then a base leg across it.
Side(p) == IF Abs(p.x) > TurnIn THEN Sign(p.x) ELSE -1

BaseInwards(side) == Heading(-90 * side)

BaseLeg(p) ==
    LET side == Side(p)
        beyond == p.y - (FinalIntercept + Downwind + TurnIn + 500)
        drift == (Downwind * side - p.x) * side
        back == Angle(Abs(drift) - LegTolerance, 3000) * Sign(drift)
    IN  CASE beyond < -500 /\ Abs(drift) <= LegTolerance -> 180
          [] beyond < -500 /\ Abs(drift) > LegTolerance -> Heading(180 - back * side)
          [] beyond \in -500..LegTolerance -> BaseInwards(side)
          [] OTHER -> Heading(BaseInwards(side) + Angle(beyond - LegTolerance, 3000) * side)

\* The descent he is to be on, this far out on the final approach.
Advisory(range) ==
    IF range >= FAP THEN Platform
    ELSE Most(MDA, MDA + (Most(0, range - MAP) * (Platform - MDA) + (FAP - MAP) \div 2)
                           \div (FAP - MAP))

\* Vectored, he is kept up until he has to start down to the platform: at five
\* hundred feet a minute, and half a mile of lead.
DescentStarts(p) == Within(p, FinalIntercept + 500 + 600 * (p.alt - Platform))
SafeAlt(p) ==
    IF p.alt <= Platform \/ DescentStarts(p) THEN Platform ELSE Most(Platform, Fives(p.alt))

MissedCourse(p) == IF p.alt < MissedStraight THEN 0 ELSE MissedHeading

\* Low, just off the far end and lined up with it, he has gone around.
PastTheField(p) ==
    /\ p.y <= 0 /\ Abs(p.x) <= TurnIn
    /\ Within(p, FinalIntercept) /\ p.alt < MissedClimb

Guidance(phase, hdg, alt) ==
    [phase |-> phase, alt |-> alt,
     hdg |-> IF phase \in {"final", "map"} \/ Abs(Turn(hdg, 0)) < 1 THEN hdg
             ELSE Heading(Fives(hdg))]

Guide(p, onMissed) ==
    IF OnTheCourse(p)
    THEN IF p.y <= MAP THEN Guidance("map", Intercept(p), MDA)
         ELSE IF p.y <= FinalIntercept THEN Guidance("final", Intercept(p), Advisory(p.y))
         ELSE Guidance("vector", Intercept(p), SafeAlt(p))
    ELSE IF onMissed /\ p.alt < MissedClimb /\ Within(p, FinalIntercept)
    THEN Guidance("missed", MissedCourse(p), MissedClimb)
    ELSE IF InPosition(p)
    THEN Guidance("vector",
                  IF Abs(p.x) > TurnIn THEN Heading(-45 * Sign(p.x)) ELSE Intercept(p),
                  SafeAlt(p))
    ELSE IF PastTheField(p) THEN Guidance("missed", MissedCourse(p), MissedClimb)
    ELSE Guidance("vector", BaseLeg(p), SafeAlt(p))

---------------------------------------------------------------------------
(* The poll (asr_monitor): what of it is said.                               *)

\* The latch lets go of him at the missed approach altitude, or out of the area;
\* it takes him when the engine has counted a go-around it does not know of.
Released(p) == p.alt >= MissedClimb \/ ~Within(p, FinalIntercept)
Latched(p) == ~Released(p) /\ (latch \/ count > seen)

\* A vector that puts him on the localizer, from where he may be cleared for it.
IsTheIntercept(g) ==
    /\ Abs(Turn(g.hdg, 0)) <= 30
    /\ ~Within(plane, FAP + 2000) /\ Within(plane, FinalIntercept + TurnIn + 4000)
    /\ plane.alt >= Platform
    /\ \E nm \in 0..40 : /\ Within(plane, 1000 * nm + 999) /\ ~Within(plane, 1000 * nm)
                         /\ plane.alt * 1000 <= 550 + 3184 * nm

Silent == UNCHANGED <<vectored, wait, pending, told, mode, busy>>

Drifted(g) == vectored = None \/ Abs(Turn(g.hdg, vectored)) >= 12
Reverses(g) == vectored # None /\ Abs(Turn(g.hdg, vectored)) > 60

Persists(g) == pending # None /\ Abs(Turn(g.hdg, pending)) <= 20

\* A bug: a vector that nobody heard is remembered as spoken.
HeldAsSpoken(g) ==
    /\ busy < MaxBusy /\ busy' = busy + 1
    /\ vectored' = g.hdg /\ wait' = 0 /\ pending' = None
    /\ UNCHANGED <<told, mode, cleared>>

\* Somebody is using the channel: he is told at a later poll, if it still stands.
Held(g) ==
    /\ busy < MaxBusy /\ busy' = busy + 1
    /\ UNCHANGED <<vectored, wait, pending, told, mode, cleared>>

SpeakVector(g) ==
    /\ vectored' = g.hdg /\ wait' = 0 /\ pending' = None
    /\ told' = [hdg |-> g.hdg, alt |-> g.alt]
    /\ mode' = "flying"
    /\ cleared' = (cleared \/ (guidance = "intercept" /\ IsTheIntercept(g)))
    /\ UNCHANGED busy

Vector(g) ==
    /\ called' = None
    /\ IF ~Drifted(g) \/ wait < 5
       THEN Silent /\ UNCHANGED cleared
       ELSE IF Reverses(g) /\ ~Persists(g)
       THEN pending' = g.hdg /\ UNCHANGED <<vectored, wait, told, mode, busy, cleared>>
       ELSE SpeakVector(g) \/ Held(g)

\* Off the course he is turned by so many degrees, in fives and forty-five at
\* most; on it he holds what he has.  The altitude is the next mile's.
Correction(g) ==
    IF Abs(plane.x) <= Most(20, (plane.y * 26) \div 1000) THEN told.hdg
    ELSE LET step == Fives(Turn(g.hdg, plane.hdg))
         IN  IF step = 0 THEN g.hdg ELSE Heading(plane.hdg + Clip(step, 45))

SpeakMile(g, mile) ==
    /\ called' = mile
    /\ told' = IF g.phase = "map" THEN [told EXCEPT !.hdg = Correction(g)]
               ELSE [hdg |-> Correction(g), alt |-> Advisory(Most(MAP, plane.y - 1000))]
    /\ UNCHANGED busy

\* A bug: the miles go on being counted past the missed approach point.
MileByRange(g) == Mile(plane)

MileNow(g) == IF g.phase = "map" THEN 0 ELSE Mile(plane)

MileCall(g) ==
    LET mile == MileNow(g) IN
    /\ vectored' = None
    /\ IF called = mile THEN UNCHANGED <<called, told, busy>>
       ELSE \/ SpeakMile(g, mile)
            \/ /\ busy < MaxBusy /\ busy' = busy + 1
               /\ UNCHANGED <<called, told>>
    /\ UNCHANGED <<wait, pending, mode, cleared>>

\* A bug: the second approach is flown on the clearance of the first.
OnTheMissedStillCleared ==
    /\ called' = None /\ UNCHANGED cleared
    /\ Silent

\* On the needles, or on the missed approach: not a word.
Established ==
    /\ called' = None /\ vectored' = None
    /\ UNCHANGED <<wait, pending, told, mode, busy, cleared>>
OnTheMissed ==
    /\ called' = None /\ cleared' = FALSE
    /\ Silent

Look ==
    LET missing == Latched(plane)
        g == Guide(plane, missing)
    IN  /\ ~looked /\ mode # "down"
        /\ looked' = TRUE
        /\ latch' = (missing \/ g.phase = "missed")
        /\ seen' = IF Released(plane) THEN seen ELSE Most(seen, count)
        /\ CASE g.phase = "missed" -> OnTheMissed
             [] g.phase = "vector" -> Vector(g)
             [] g.phase \in {"final", "map"} /\ guidance = "intercept" -> Established
             [] g.phase \in {"final", "map"} /\ guidance = "talkdown" -> MileCall(g)
        /\ UNCHANGED <<guidance, plane, count, misses>>

---------------------------------------------------------------------------
(* The pilot.  He flies what he was told, on the needles what they show once  *)
(* he is cleared for it, and the plate's missed approach when he goes around. *)

OnTheNeedles == guidance = "intercept" /\ cleared /\ OnTheCourse(plane) /\ mode = "flying"
Glidepath(p) == (55 + (Most(0, p.y) * 318) \div 1000) \div 100

Flies ==
    CASE mode = "around" -> [hdg |-> MissedCourse(plane), alt |-> MissedClimb]
      [] OnTheNeedles -> [hdg |-> Intercept(plane), alt |-> Least(told.alt, Glidepath(plane))]
      [] OTHER -> told

\* Four seconds at three miles a minute, turning three degrees a second.
Moved(to) ==
    LET hdg == Heading(plane.hdg + Clip(Turn(to.hdg, plane.hdg), 12))
    IN  [x |-> plane.x + (200 * Sine(hdg)) \div 1000,
         y |-> plane.y - (200 * Cosine(hdg)) \div 1000,
         hdg |-> hdg,
         alt |-> plane.alt + Clip(to.alt - plane.alt, 1)]

AtTheRunway ==
    /\ mode = "flying" /\ OnTheCourse(plane) /\ plane.y <= MAP
    /\ guidance = "talkdown" \/ cleared

Fly ==
    /\ looked /\ ~AtTheRunway
    /\ looked' = FALSE
    /\ plane' = Moved(Flies) /\ {plane'.x, plane'.y} \subseteq Area
    /\ wait' = Least(5, wait + 1)
    /\ UNCHANGED <<guidance, told, mode, radar, count, busy, misses>>

Land ==
    /\ looked /\ AtTheRunway
    /\ looked' = FALSE /\ mode' = "down"
    /\ UNCHANGED <<guidance, plane, told, radar, wait, count, busy, misses>>

\* He says so, and the engine counts it, or he does not.
GoAround(says) ==
    /\ looked /\ AtTheRunway
    /\ misses < MaxMisses /\ misses' = misses + 1
    /\ looked' = FALSE /\ mode' = "around"
    /\ count' = IF says THEN count + 1 ELSE count
    /\ UNCHANGED <<guidance, plane, told, radar, wait, busy>>

---------------------------------------------------------------------------
Init ==
    /\ guidance \in Guidances
    /\ plane \in Starts
    /\ told = [hdg |-> plane.hdg, alt |-> plane.alt]
    /\ mode = "flying"
    /\ vectored = None /\ pending = None /\ called = None /\ wait = 5
    /\ cleared = FALSE /\ latch = FALSE
    /\ seen = 0 /\ count = 0 /\ busy = 0 /\ misses = 0
    /\ looked = FALSE

Pilot == Fly \/ Land \/ \E says \in BOOLEAN : GoAround(says)

Next == Look \/ Pilot

\* The monitor polls for ever, and an aeroplane does not stop.
Spec == Init /\ [][Next]_vars /\ WF_vars(Next)

---------------------------------------------------------------------------
(* Properties.                                                               *)

\* HAZARD: every look is right by itself and the sequence of them leads nowhere.
\* An aircraft that does as it is told is on the ground in the end, from wherever
\* it was first seen, though calls are held and approaches missed.
EventuallyDown == <>(mode = "down")

\* HAZARD: two mile calls out of order are a pilot who is told he moved away from
\* the runway.  On one approach the miles count down.
MilesCountDown ==
    [][called # None /\ called' \notin {None, called} => called' < called]_vars

\* HAZARD: a clearance for the needles that outlives the approach it was for.  An
\* aircraft vectored again after a missed approach is cleared again.
ClearedAgain == [][mode = "around" /\ mode' = "flying" => ~cleared]_vars
=============================================================================
