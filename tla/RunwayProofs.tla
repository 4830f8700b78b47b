---------------------------- MODULE RunwayProofs ----------------------------
(***************************************************************************)
(* Theorems about the runway of one aerodrome, for any set of aircraft.    *)
(***************************************************************************)
EXTENDS Runway, TLAPS

\* An aircraft is down as far as the engine knows.
Landed(p) == p.down \/ p.rung \in {"landed", "taxi_in"}

\* A protected clearance of an aircraft that is not down is one to take off, and
\* it has not left the ground with it.
NotYetAirborne ==
    \A a \in using \ void : Landed(board[a]) \/ at[a] \in {"off", "lined"}

IInv == TypeOK /\ StillFound /\ NotYetAirborne

\* Deriving the rung tells nothing of landings that was not known, and takes a
\* departure that is still on the ground for nothing else.
LEMMA DerivedKeeps ==
    ASSUME NEW p \in Records, NEW sight, NEW seat, NEW q, q = Derived(p, sight, seat)
    PROVE  /\ q \in Records
           /\ q.down = p.down /\ q.vacated = p.vacated
           /\ p.rung \in {"landed", "taxi_in"} => q.rung = p.rung
           /\ (/\ sight \in {"nothing", "down"} /\ seat = "field"
               /\ p.rung = "departure" /\ ~p.down /\ ~p.flown)
                 => q.rung = "departure" /\ ~q.flown
<1> DEFINE r == [p EXCEPT !.flown = @ \/ sight = "aloft"]
           want == Wanted(r, sight, seat)
<1>1. /\ r \in Records
      /\ r.rung = p.rung /\ r.down = p.down /\ r.vacated = p.vacated
      /\ r.flown = (p.flown \/ sight = "aloft")
  BY DEF Records
<1>2. want \in Rungs /\ want \in {"landed", "ramp", "departure", "flying", r.rung}
  BY <1>1 DEF Wanted, Records, Rungs
<1>3. q = [r EXCEPT !.rung = IF want \in Follows(r.rung) THEN want ELSE r.rung]
  BY <1>1 DEF Derived, Records
<1>4. q \in Records /\ q.down = p.down /\ q.vacated = p.vacated /\ q.flown = r.flown
  BY <1>1, <1>2, <1>3 DEF Records
<1>5. ASSUME p.rung \in {"landed", "taxi_in"} PROVE q.rung = p.rung
  <2>1. want \notin Follows(r.rung) \/ want = r.rung
    BY <1>1, <1>2, <1>5 DEF Follows
  <2>2. QED
    BY <1>1, <1>3, <2>1 DEF Records
<1>6. ASSUME sight \in {"nothing", "down"}, seat = "field",
             p.rung = "departure", ~p.down, ~p.flown
      PROVE  q.rung = "departure" /\ ~q.flown
  <2>1. want = "departure"
    BY <1>1, <1>6 DEF Wanted
  <2>2. QED
    BY <1>1, <1>3, <1>4, <1>6, <2>1 DEF Records
<1>7. QED
  BY <1>4, <1>5, <1>6

\* What a turn has on record of the speaker before his call is looked at.
LEMMA HeardKeeps ==
    ASSUME IInv, NEW a \in Aircraft, NEW p \in Heard(a)
    PROVE  /\ p \in Records
           /\ a \in using \ void => ~Done(p)
           /\ (a \in using \ void /\ Landed(board[a])) => Landed(p)
<1>1. CASE a \notin known
  <2>1. p = Fresh
    BY <1>1 DEF Heard
  <2>2. a \notin using \ void
    BY <1>1 DEF IInv, StillFound
  <2>3. QED
    BY <2>1, <2>2 DEF Fresh, Records, Rungs
<1>2. CASE a \in known
  <2>1. PICK sight \in Sights(a), seat \in Seats(a) : p = Derived(board[a], sight, seat)
    BY <1>2 DEF Heard
  <2>2. board[a] \in Records
    BY DEF IInv, TypeOK
  <2>3. /\ p \in Records
        /\ p.down = board[a].down /\ p.vacated = board[a].vacated
        /\ board[a].rung \in {"landed", "taxi_in"} => p.rung = board[a].rung
        /\ (/\ at[a] # "air"
            /\ board[a].rung = "departure" /\ ~board[a].down /\ ~board[a].flown)
               => p.rung = "departure" /\ ~p.flown
    <3>1. at[a] # "air" => sight \in {"nothing", "down"} /\ seat = "field"
      BY DEF Sights, Seats
    <3>2. QED
      BY <2>1, <2>2, <3>1, DerivedKeeps
  <2>4. ASSUME a \in using \ void PROVE ~Done(p)
    <3>1. ~Done(board[a]) /\ (Landed(board[a]) \/ at[a] \in {"off", "lined"})
      BY <2>4 DEF IInv, StillFound, NotYetAirborne
    <3>2. CASE Landed(board[a])
      BY <2>3, <3>1, <3>2 DEF Landed, Done
    <3>3. CASE ~Landed(board[a])
      <4>1. at[a] # "air"
        BY <3>1, <3>3
      <4>2. board[a].rung = "departure" /\ ~board[a].down /\ ~board[a].flown
        BY <3>1, <3>3 DEF Landed, Done
      <4>3. p.rung = "departure" /\ ~p.flown /\ ~p.down
        BY <2>3, <4>1, <4>2
      <4>4. QED
        BY <4>3 DEF Done
    <3>4. QED
      BY <3>2, <3>3
  <2>5. QED
    BY <2>3, <2>4 DEF Landed
<1>3. QED
  BY <1>1, <1>2

\* who_is_on_the_runway changes nobody but the holder, and him only by taking him
\* for gone; when it finds nobody and nobody can see, all the others are done.
LEMMA LookedForGives ==
    ASSUME IInv, NEW a \in Aircraft, NEW b \in [Aircraft -> Records],
           NEW w \in LookedFor(a, b)
    PROVE  /\ w.board \in [Aircraft -> Records]
           /\ w.holder \in known \cup {NoOne}
           /\ w.busy # NoOne => w.board = b
           /\ w.board[a] = b[a]
           /\ \A o \in Aircraft :
                 w.board[o] = b[o] \/ w.board[o] = [b[o] EXCEPT !.vacated = TRUE]
           /\ (w.busy = NoOne /\ ~looking /\ holder # a)
                 => \A o \in known \ {a} : Done(b[o])
<1> DEFINE others == known \ {a}
           onIt == SeenHolders(a)
           held == holder \in known /\ ~Done(b[holder])
           claims == {o \in others : ~Done(b[o])}
<1>0. /\ known \subseteq Aircraft /\ NoOne \notin Aircraft
      /\ holder \in known \cup {NoOne}
      /\ onIt \subseteq known
      /\ ~looking => onIt = {}
  BY RunwayAssumption DEF IInv, TypeOK, SeenHolders
<1>1. \/ onIt # {} /\ \E o \in onIt : w = Found(o, IF holder = NoOne THEN o ELSE holder, b)
      \/ looking /\ holder \in {NoOne, a} /\ w = Found(NoOne, holder, b)
      \/ /\ looking /\ holder \notin {NoOne, a}
         /\ w = Found(NoOne, NoOne,
                  IF held THEN [b EXCEPT ![holder].vacated = TRUE] ELSE b)
      \/ held /\ w = Found(IF holder = a THEN NoOne ELSE holder, holder, b)
      \/ claims = {} /\ w = Found(NoOne, NoOne, b)
      \/ \E o \in claims : w = Found(o, o, b)
  <2>1. CASE onIt # {}
    BY <2>1 DEF LookedFor
  <2>2. CASE looking /\ onIt = {}
    BY <2>2 DEF LookedFor
  <2>3. CASE ~looking /\ held
    BY <1>0, <2>3 DEF LookedFor
  <2>4. CASE ~looking /\ ~held
    <3>1. LookedFor(a, b) = IF claims = {} THEN {Found(NoOne, NoOne, b)}
                            ELSE {Found(o, o, b) : o \in claims}
      BY <1>0, <2>4 DEF LookedFor
    <3>2. QED
      BY <3>1
  <2>5. QED
    BY <2>1, <2>2, <2>3, <2>4
<1> HIDE DEF onIt, held, claims, others
<1>2. CASE onIt # {} /\ \E o \in onIt : w = Found(o, IF holder = NoOne THEN o ELSE holder, b)
  <2>1. PICK o \in onIt : w = Found(o, IF holder = NoOne THEN o ELSE holder, b)
    BY <1>2
  <2>2. w.busy = o /\ w.board = b /\ w.holder \in known \cup {NoOne} /\ o # NoOne
    BY <1>0, <2>1 DEF Found
  <2>3. QED
    BY <2>2
<1>3. CASE looking /\ holder \in {NoOne, a} /\ w = Found(NoOne, holder, b)
  BY <1>0, <1>3 DEF Found
<1>4. CASE /\ looking /\ holder \notin {NoOne, a}
           /\ w = Found(NoOne, NoOne, IF held THEN [b EXCEPT ![holder].vacated = TRUE] ELSE b)
  <2>1. holder \in Aircraft /\ holder # a /\ w.busy = NoOne /\ w.holder = NoOne
    BY <1>0, <1>4 DEF Found
  <2>2. w.board = b \/ w.board = [b EXCEPT ![holder].vacated = TRUE]
    BY <1>4 DEF Found
  <2>3. [b EXCEPT ![holder].vacated = TRUE] \in [Aircraft -> Records]
    BY <2>1 DEF Records
  <2>4. \A o \in Aircraft :
           w.board[o] = b[o] \/ w.board[o] = [b[o] EXCEPT !.vacated = TRUE]
    BY <2>1, <2>2
  <2>5. QED
    BY <1>4, <2>1, <2>2, <2>3, <2>4
<1>5. CASE held /\ w = Found(IF holder = a THEN NoOne ELSE holder, holder, b)
  <2>1. w.holder = holder /\ w.board = b
    BY <1>5 DEF Found
  <2>2. holder # a => w.busy # NoOne
    BY <1>0, <1>5 DEF Found, held
  <2>3. QED
    BY <1>0, <2>1, <2>2
<1>6. CASE claims = {} /\ w = Found(NoOne, NoOne, b)
  <2>1. \A o \in known \ {a} : Done(b[o])
    BY <1>6 DEF claims, others
  <2>2. QED
    BY <1>6, <2>1 DEF Found
<1>7. CASE \E o \in claims : w = Found(o, o, b)
  <2>1. PICK o \in claims : w = Found(o, o, b)
    BY <1>7
  <2>2. o \in known /\ w.busy = o /\ w.holder = o /\ w.board = b /\ o # NoOne
    BY <1>0, <2>1 DEF Found, claims, others
  <2>3. QED
    BY <2>2
<1>8. QED
  BY <1>1, <1>2, <1>3, <1>4, <1>5, <1>6, <1>7

---------------------------------------------------------------------------
\* A step that is about one aircraft keeps the invariant if it leaves every other
\* protected clearance and its aircraft as they were.
LEMMA OneAtATime ==
    ASSUME IInv, NEW a \in Aircraft, TypeOK',
           \A o \in (using' \ void') \ {a} :
               /\ o \in using \ void
               /\ o \in known' /\ board'[o] = board[o] /\ at'[o] = at[o],
           a \in using' \ void' =>
               /\ a \in known' /\ ~Done(board'[a])
               /\ Landed(board'[a]) \/ at'[a] \in {"off", "lined"}
    PROVE  IInv'
<1>1. \A o \in using' \ void' : o \in known' /\ ~Done(board'[o])
  BY DEF IInv, StillFound
<1>2. \A o \in using' \ void' : Landed(board'[o]) \/ at'[o] \in {"off", "lined"}
  BY DEF IInv, NotYetAirborne
<1>3. QED
  BY <1>1, <1>2 DEF IInv, StillFound, NotYetAirborne

\* A look at the runway that finds somebody changes no protected clearance.
LEMMA BusyKeeps ==
    ASSUME IInv, NEW a \in Aircraft, NEW q \in Records,
           a \in using \ void =>
               ~Done(q) /\ (Landed(q) \/ at[a] \in {"off", "lined"}),
           NEW w \in LookedFor(a, [board EXCEPT ![a] = q]), w.busy # NoOne,
           board' = w.board, holder' = w.holder, known' = known \cup {a},
           UNCHANGED <<using, void, looking, seen, at>>
    PROVE  IInv'
<1> DEFINE b0 == [board EXCEPT ![a] = q]
<1>1. b0 \in [Aircraft -> Records] /\ w \in LookedFor(a, b0)
  BY DEF IInv, TypeOK
<1>2. /\ board' = b0 /\ holder' \in known' \cup {NoOne}
  <2> HIDE DEF b0
  <2>1. QED
    BY <1>1, LookedForGives
<1>3. TypeOK'
  BY <1>1, <1>2 DEF IInv, TypeOK
<1>4. \A o \in (using' \ void') \ {a} :
         /\ o \in using \ void
         /\ o \in known' /\ board'[o] = board[o] /\ at'[o] = at[o]
  BY <1>2 DEF IInv, TypeOK, StillFound
<1>5. board'[a] = q
  BY <1>2 DEF IInv, TypeOK
<1>6. a \in using' \ void' =>
         /\ a \in known' /\ ~Done(board'[a])
         /\ Landed(board'[a]) \/ at'[a] \in {"off", "lined"}
  BY <1>5
<1>7. QED
  BY <1>3, <1>4, <1>6, OneAtATime

\* A look that finds nobody, and the clearance that follows it.
LEMMA ClearsKeeps ==
    ASSUME IInv, NEW a \in Aircraft, NEW q \in Records,
           NEW w \in LookedFor(a, [board EXCEPT ![a] = q]), w.busy = NoOne,
           NEW b \in [Aircraft -> Records],
           \A o \in Aircraft \ {a} : b[o] = w.board[o],
           Clears(a, b), Landed(b[a]) \/ at[a] \in {"off", "lined"},
           known' = known \cup {a},
           UNCHANGED <<looking, seen, at>>
    PROVE  IInv'
<1> DEFINE b0 == [board EXCEPT ![a] = q]
<1>1. b0 \in [Aircraft -> Records] /\ w \in LookedFor(a, b0)
  BY DEF IInv, TypeOK
<1>2. \A o \in Aircraft \ {a} :
         b[o] = board[o] \/ b[o] = [board[o] EXCEPT !.vacated = TRUE]
  <2>1. \A o \in Aircraft \ {a} : b0[o] = board[o]
    BY DEF IInv, TypeOK
  <2> HIDE DEF b0
  <2>2. \A o \in Aircraft :
           w.board[o] = b0[o] \/ w.board[o] = [b0[o] EXCEPT !.vacated = TRUE]
    BY <1>1, LookedForGives
  <2>3. QED
    BY <2>1, <2>2
<1>3. TypeOK'
  <2>1. using' \subseteq Aircraft /\ void' \subseteq using'
    BY DEF Clears, IInv, TypeOK
  <2>2. holder' \in known' /\ board' \in [Aircraft -> Records]
    BY DEF Clears
  <2>3. QED
    BY <2>1, <2>2 DEF IInv, TypeOK
<1>4. ASSUME NEW o \in (using' \ void') \ {a}
      PROVE  /\ o \in using \ void
             /\ o \in known' /\ board'[o] = board[o] /\ at'[o] = at[o]
  <2>1. o \in using \ void /\ o \in Aircraft \ {a} /\ o \in known'
    BY <1>4 DEF Clears, IInv, TypeOK, StillFound
  <2>2. board[o].vacated \/ ~b[o].vacated
    BY <1>4 DEF Clears
  <2>3. board[o] \in Records
    BY <2>1 DEF IInv, TypeOK
  <2>4. b[o] = board[o]
    BY <1>2, <2>1, <2>2, <2>3 DEF Records
  <2>5. QED
    BY <2>1, <2>4 DEF Clears
<1>5. a \in using' \ void' =>
         /\ a \in known' /\ ~Done(board'[a])
         /\ Landed(board'[a]) \/ at'[a] \in {"off", "lined"}
  BY DEF Clears
<1>6. QED
  BY <1>3, <1>4, <1>5, OneAtATime

---------------------------------------------------------------------------
(* Every step keeps the invariant.                                         *)

LEMMA OtherCallKeeps ==
    ASSUME IInv, NEW a \in Aircraft, OtherCall(a) PROVE IInv'
<1>1. PICK p \in Heard(a) : board' = [board EXCEPT ![a] = p]
  BY DEF OtherCall
<1>2. p \in Records
  BY HeardKeeps
<1>3. TypeOK'
  BY <1>1, <1>2 DEF OtherCall, ghosts, IInv, TypeOK
<1>4. \A o \in (using' \ void') \ {a} :
         /\ o \in using \ void
         /\ o \in known' /\ board'[o] = board[o] /\ at'[o] = at[o]
  BY <1>1 DEF OtherCall, ghosts, IInv, TypeOK, StillFound
<1>5. a \in using' \ void' =>
         /\ a \in known' /\ ~Done(board'[a])
         /\ Landed(board'[a]) \/ at'[a] \in {"off", "lined"}
  BY <1>1, HeardKeeps DEF OtherCall, ghosts, IInv, TypeOK, NotYetAirborne
<1>6. QED
  BY <1>3, <1>4, <1>5, OneAtATime

\* A call that ends the speaker's clearance.
LEMMA OverKeeps ==
    ASSUME IInv, NEW a \in Aircraft, TypeOK', Over(a),
           \A o \in (using \ void) \ {a} :
               o \in known' /\ board'[o] = board[o] /\ at'[o] = at[o]
    PROVE  IInv'
<1>1. a \notin using' /\ using' \ void' = (using \ void) \ {a}
  BY DEF Over
<1>2. QED
  BY <1>1, OneAtATime

LEMMA GroundCallKeeps ==
    ASSUME IInv, NEW a \in Aircraft, NEW rung \in Rungs, GroundCall(a, rung)
    PROVE  IInv'
<1>1. PICK p \in Heard(a) : board' = [board EXCEPT ![a] = [p EXCEPT !.rung = rung]]
  BY DEF GroundCall
<1>2. [p EXCEPT !.rung = rung] \in Records
  BY HeardKeeps DEF Records
<1>3. TypeOK' /\ Over(a)
  BY <1>1, <1>2 DEF GroundCall, Over, IInv, TypeOK
<1>4. \A o \in (using \ void) \ {a} :
         o \in known' /\ board'[o] = board[o] /\ at'[o] = at[o]
  BY <1>1 DEF GroundCall, IInv, TypeOK, StillFound
<1>5. QED
  BY <1>3, <1>4, OverKeeps

LEMMA RequestTakeoffKeeps ==
    ASSUME IInv, NEW a \in Aircraft, RequestTakeoff(a) PROVE IInv'
<1>1. PICK p \in Heard(a) :
         \E w \in LookedFor(a, [board EXCEPT ![a] = p]) :
            \/ /\ w.busy # NoOne
               /\ board' = w.board /\ holder' = w.holder
               /\ UNCHANGED <<using, void>>
            \/ /\ w.busy = NoOne
               /\ Clears(a, [w.board EXCEPT ![a].rung = "departure"])
  BY DEF RequestTakeoff
<1> DEFINE b0 == [board EXCEPT ![a] = p]
<1>2. PICK w \in LookedFor(a, b0) :
         \/ /\ w.busy # NoOne
            /\ board' = w.board /\ holder' = w.holder
            /\ UNCHANGED <<using, void>>
         \/ /\ w.busy = NoOne
            /\ Clears(a, [w.board EXCEPT ![a].rung = "departure"])
  BY <1>1
<1>3. /\ p \in Records /\ b0 \in [Aircraft -> Records] /\ b0[a] = p
  BY HeardKeeps DEF IInv, TypeOK
<1>4. /\ known' = known \cup {a} /\ UNCHANGED <<looking, seen, at>>
      /\ at[a] \in {"off", "lined"}
  BY DEF RequestTakeoff, IInv, TypeOK
<1>5. CASE w.busy # NoOne
  <2>1. a \in using \ void => ~Done(p) /\ (Landed(p) \/ at[a] \in {"off", "lined"})
    BY <1>4, HeardKeeps
  <2>2. QED
    BY <1>2, <1>3, <1>4, <1>5, <2>1, BusyKeeps
<1>6. CASE w.busy = NoOne
  <2> DEFINE b == [w.board EXCEPT ![a].rung = "departure"]
  <2>1. w.board \in [Aircraft -> Records] /\ w.board[a] = p
    <3> HIDE DEF b0
    <3>1. QED
      BY <1>2, <1>3, LookedForGives
  <2>2. /\ b \in [Aircraft -> Records]
        /\ \A o \in Aircraft \ {a} : b[o] = w.board[o]
    BY <2>1 DEF Records, Rungs
  <2>3. Clears(a, b)
    BY <1>2, <1>6
  <2> HIDE DEF b
  <2>4. QED
    BY <1>2, <1>3, <1>4, <1>6, <2>2, <2>3, ClearsKeeps
<1>7. QED
  BY <1>5, <1>6

LEMMA GreetedIsDown ==
    ASSUME NEW p \in Records, NEW g \in Greeted(p)
    PROVE  g \in Records /\ g.down /\ g.vacated = p.vacated
BY DEF Greeted, Records, Rungs

LEMMA ReportLandedKeeps ==
    ASSUME IInv, NEW a \in Aircraft, ReportLanded(a) PROVE IInv'
<1>1. /\ known' = known \cup {a} /\ UNCHANGED <<looking, seen, at>>
  BY DEF ReportLanded, IInv, TypeOK
<1>2. PICK p \in Heard(a) :
         LET q == [p EXCEPT !.down = TRUE]
         IN  \/ /\ p.down
                /\ \E g \in Greeted(p) : board' = [board EXCEPT ![a] = g]
                /\ UNCHANGED <<holder, using, void>>
             \/ /\ board' = [board EXCEPT ![a] = p]
                /\ UNCHANGED <<holder, using, void>>
             \/ /\ ~p.down
                /\ board' = [board EXCEPT ![a] = q]
                /\ UNCHANGED <<holder, using, void>>
             \/ /\ ~p.down
                /\ \E w \in LookedFor(a, [board EXCEPT ![a] = q]) :
                     \/ /\ w.busy # NoOne
                        /\ board' = w.board /\ holder' = w.holder
                        /\ UNCHANGED <<using, void>>
                     \/ /\ w.busy = NoOne
                        /\ Clears(a, w.board)
  BY DEF ReportLanded
<1> DEFINE q == [p EXCEPT !.down = TRUE]
<1>3. /\ p \in Records /\ (a \in using \ void => ~Done(p))
      /\ (a \in using \ void /\ Landed(board[a])) => Landed(p)
  BY HeardKeeps
<1>4. q \in Records /\ q.down /\ q.vacated = p.vacated /\ q.rung = p.rung
  BY <1>3 DEF Records
<1>5. Landed(q) /\ (Done(q) <=> q.vacated)
  BY <1>4 DEF Landed, Done
<1>6. ASSUME NEW g \in Records, board' = [board EXCEPT ![a] = g],
             UNCHANGED <<holder, using, void>>,
             (a \in using \ void) => ~Done(g) /\ (Landed(g) \/ at[a] \in {"off", "lined"})
      PROVE  IInv'
  <2>1. TypeOK'
    BY <1>1, <1>6 DEF IInv, TypeOK
  <2>2. \A o \in (using' \ void') \ {a} :
           /\ o \in using \ void
           /\ o \in known' /\ board'[o] = board[o] /\ at'[o] = at[o]
    BY <1>1, <1>6 DEF IInv, TypeOK, StillFound
  <2>3. a \in using' \ void' =>
           /\ a \in known' /\ ~Done(board'[a])
           /\ Landed(board'[a]) \/ at'[a] \in {"off", "lined"}
    BY <1>1, <1>6 DEF IInv, TypeOK
  <2>4. QED
    BY <2>1, <2>2, <2>3, OneAtATime
<1>7. a \in using \ void => Landed(p) /\ ~p.vacated
  <2>1. at[a] \in {"air", "rolled"}
    BY DEF ReportLanded
  <2>2. QED
    BY <1>3, <2>1 DEF IInv, NotYetAirborne, Landed, Done
<1>8. CASE /\ p.down /\ \E g \in Greeted(p) : board' = [board EXCEPT ![a] = g]
           /\ UNCHANGED <<holder, using, void>>
  <2>1. PICK g \in Greeted(p) : board' = [board EXCEPT ![a] = g]
    BY <1>8
  <2>2. g \in Records /\ g.down /\ g.vacated = p.vacated
    BY <1>3, <2>1, GreetedIsDown
  <2>3. (a \in using \ void) => ~Done(g) /\ Landed(g)
    BY <1>7, <2>2 DEF Done, Landed
  <2>4. QED
    BY <1>6, <1>8, <2>1, <2>2, <2>3
<1>9. CASE board' = [board EXCEPT ![a] = p] /\ UNCHANGED <<holder, using, void>>
  BY <1>3, <1>6, <1>7, <1>9
<1>10. CASE board' = [board EXCEPT ![a] = q] /\ UNCHANGED <<holder, using, void>>
  BY <1>4, <1>5, <1>6, <1>7, <1>10
<1>11. CASE \E w \in LookedFor(a, [board EXCEPT ![a] = q]) :
              \/ /\ w.busy # NoOne
                 /\ board' = w.board /\ holder' = w.holder
                 /\ UNCHANGED <<using, void>>
              \/ /\ w.busy = NoOne
                 /\ Clears(a, w.board)
  <2> HIDE DEF q
  <2>1. PICK w \in LookedFor(a, [board EXCEPT ![a] = q]) :
           \/ /\ w.busy # NoOne
              /\ board' = w.board /\ holder' = w.holder
              /\ UNCHANGED <<using, void>>
           \/ /\ w.busy = NoOne
              /\ Clears(a, w.board)
    BY <1>11
  <2>2. CASE w.busy # NoOne
    BY <1>1, <1>4, <1>5, <1>7, <1>11, <2>1, <2>2, BusyKeeps
  <2>3. CASE w.busy = NoOne
    <3> DEFINE b0 == [board EXCEPT ![a] = q]
    <3>1. b0 \in [Aircraft -> Records] /\ b0[a] = q
      BY <1>4 DEF IInv, TypeOK
    <3>2. w.board \in [Aircraft -> Records] /\ w.board[a] = q
      <4>1. w \in LookedFor(a, b0)
        OBVIOUS
      <4> HIDE DEF b0
      <4>2. QED
        BY <3>1, <4>1, LookedForGives
    <3>3. QED
      BY <1>1, <1>4, <1>5, <1>11, <2>1, <2>3, <3>2, ClearsKeeps
  <2>4. QED
    BY <2>2, <2>3
<1>12. QED
  BY <1>2, <1>8, <1>9, <1>10, <1>11

LEMMA ReportMissedKeeps ==
    ASSUME IInv, NEW a \in Aircraft, ReportMissed(a) \/ Rejoin(a) PROVE IInv'
<1>1. PICK p \in Heard(a) : board' = [board EXCEPT ![a] = [p EXCEPT !.down = FALSE]]
  BY DEF ReportMissed, Rejoin
<1>2. [p EXCEPT !.down = FALSE] \in Records
  BY HeardKeeps DEF Records
<1>3. TypeOK' /\ Over(a)
  BY <1>1, <1>2 DEF ReportMissed, Rejoin, Over, IInv, TypeOK
<1>4. \A o \in (using \ void) \ {a} :
         o \in known' /\ board'[o] = board[o] /\ at'[o] = at[o]
  BY <1>1 DEF ReportMissed, Rejoin, IInv, TypeOK, StillFound
<1>5. QED
  BY <1>3, <1>4, OverKeeps

LEMMA TaxiInKeeps ==
    ASSUME IInv, NEW a \in Aircraft, TaxiIn(a) PROVE IInv'
<1>1. PICK p \in Heard(a) :
         /\ p.rung \in {"landed", "taxi_in"}
         /\ \/ /\ board' = [board EXCEPT ![a] = [p EXCEPT !.rung = "taxi_in"]]
               /\ UNCHANGED <<holder, using, void>>
            \/ /\ board' = [board EXCEPT ![a] = [p EXCEPT !.rung = "taxi_in",
                                                          !.vacated = TRUE]]
               /\ holder' = NoOne
               /\ Over(a)
  BY DEF TaxiIn
<1>2. /\ p \in Records /\ (a \in using \ void => ~Done(p))
  BY HeardKeeps
<1>3. CASE /\ board' = [board EXCEPT ![a] = [p EXCEPT !.rung = "taxi_in"]]
           /\ UNCHANGED <<holder, using, void>>
  <2> DEFINE g == [p EXCEPT !.rung = "taxi_in"]
  <2>1. g \in Records /\ Landed(g) /\ (a \in using \ void => ~Done(g))
    BY <1>1, <1>2 DEF Records, Rungs, Landed, Done
  <2> HIDE DEF g
  <2>2. board' = [board EXCEPT ![a] = g]
    BY <1>3 DEF g
  <2>3. TypeOK'
    BY <1>3, <2>1, <2>2 DEF TaxiIn, IInv, TypeOK
  <2>4. \A o \in (using' \ void') \ {a} :
           /\ o \in using \ void
           /\ o \in known' /\ board'[o] = board[o] /\ at'[o] = at[o]
    BY <1>3, <2>2 DEF TaxiIn, IInv, TypeOK, StillFound
  <2>5. a \in using' \ void' =>
           /\ a \in known' /\ ~Done(board'[a])
           /\ Landed(board'[a]) \/ at'[a] \in {"off", "lined"}
    BY <1>3, <2>1, <2>2 DEF TaxiIn, IInv, TypeOK
  <2>6. QED
    BY <2>3, <2>4, <2>5, OneAtATime
<1>4. CASE /\ board' = [board EXCEPT ![a] = [p EXCEPT !.rung = "taxi_in", !.vacated = TRUE]]
           /\ holder' = NoOne
           /\ Over(a)
  <2> DEFINE g == [p EXCEPT !.rung = "taxi_in", !.vacated = TRUE]
  <2>1. g \in Records
    BY <1>2 DEF Records, Rungs
  <2> HIDE DEF g
  <2>2. board' = [board EXCEPT ![a] = g]
    BY <1>4 DEF g
  <2>3. TypeOK'
    BY <1>4, <2>1, <2>2 DEF TaxiIn, Over, IInv, TypeOK
  <2>4. \A o \in (using \ void) \ {a} :
           o \in known' /\ board'[o] = board[o] /\ at'[o] = at[o]
    BY <2>2 DEF TaxiIn, IInv, TypeOK, StillFound
  <2>5. QED
    BY <1>4, <2>3, <2>4, OverKeeps
<1>5. QED
  BY <1>1, <1>3, <1>4

\* Being taken for down disturbs no clearance: only somebody who rolls out, and
\* whose clearance the engine already takes for one to land, is greeted.
LEMMA ReportDownKeeps ==
    ASSUME IInv, NEW a \in Aircraft, ReportDown(a) PROVE IInv'
<1>1. PICK g \in Greeted(board[a]) : board' = [board EXCEPT ![a] = g]
  BY DEF ReportDown
<1>2. board[a] \in Records
  BY DEF IInv, TypeOK
<1>3. g \in Records /\ g.down /\ g.vacated = board[a].vacated
  BY <1>1, <1>2, GreetedIsDown
<1>4. a \in using \ void => ~board[a].vacated
  BY DEF ReportDown, IInv, StillFound, NotYetAirborne, Landed, Done
<1>5. TypeOK'
  BY <1>1, <1>3 DEF ReportDown, ghosts, IInv, TypeOK
<1>6. \A o \in (using' \ void') \ {a} :
         /\ o \in using \ void
         /\ o \in known' /\ board'[o] = board[o] /\ at'[o] = at[o]
  BY <1>1 DEF ReportDown, ghosts, IInv, TypeOK, StillFound
<1>7. a \in using' \ void' =>
         /\ a \in known' /\ ~Done(board'[a])
         /\ Landed(board'[a]) \/ at'[a] \in {"off", "lined"}
  <2>1. board'[a] = g
    BY <1>1 DEF IInv, TypeOK
  <2>2. QED
    BY <1>3, <1>4, <2>1 DEF ReportDown, ghosts, Landed, Done
<1>8. QED
  BY <1>5, <1>6, <1>7, OneAtATime

LEMMA WatchTheRunwaysKeeps ==
    ASSUME IInv, WatchTheRunways PROVE IInv'
<1>1. TypeOK'
  BY DEF WatchTheRunways, ghosts, IInv, TypeOK
<1>2. QED
  BY <1>1 DEF WatchTheRunways, ghosts, IInv, StillFound, NotYetAirborne

LEMMA ReleaseKeepsIt ==
    ASSUME IInv, NEW a \in Aircraft, Release(a) PROVE IInv'
<1>1. TypeOK' /\ Over(a)
  <2>1. Fresh \in Records
    BY DEF Fresh, Records, Rungs
  <2>2. QED
    BY <2>1 DEF Release, Over, IInv, TypeOK
<1>2. \A o \in (using \ void) \ {a} :
         o \in known' /\ board'[o] = board[o] /\ at'[o] = at[o]
  BY DEF Release, IInv, TypeOK, StillFound
<1>3. QED
  BY <1>1, <1>2, OverKeeps

\* The hold that times out is the only one whose clearance loses its protection.
LEMMA HoldTimesOutKeeps ==
    ASSUME IInv, HoldTimesOut PROVE IInv'
<1>1. holder \in known /\ holder \in Aircraft
  BY DEF HoldTimesOut, IInv, TypeOK
<1>2. board' = [board EXCEPT ![holder].vacated = TRUE]
  BY <1>1 DEF HoldTimesOut
<1>3. TypeOK'
  <2>1. [board EXCEPT ![holder].vacated = TRUE] \in [Aircraft -> Records]
    BY <1>1 DEF IInv, TypeOK, Records
  <2>2. QED
    BY <1>1, <1>2, <2>1 DEF HoldTimesOut, IInv, TypeOK
<1>4. \A o \in using' \ void' :
         o \in using \ void /\ o # holder
         /\ known' = known /\ board'[o] = board[o] /\ at'[o] = at[o]
  BY <1>2 DEF HoldTimesOut, IInv, TypeOK
<1>5. QED
  BY <1>3, <1>4 DEF IInv, StillFound, NotYetAirborne

\* What the aircraft do by themselves.
LEMMA FliesKeeps ==
    ASSUME IInv, NEW a \in Aircraft, Flies(a) PROVE IInv'
<1>1. CASE LinesUp(a)
  <2>1. TypeOK'
    BY <1>1 DEF LinesUp, Moves, ghosts, OnStrip, IInv, TypeOK
  <2>2. QED
    BY <1>1, <2>1 DEF LinesUp, Moves, ghosts, IInv, TypeOK, StillFound, NotYetAirborne
<1>2. CASE TakesOff(a) \/ LeavesTheStrip(a)
  <2>1. TypeOK' /\ Over(a)
    BY <1>2 DEF TakesOff, LeavesTheStrip, Moves, Over, OnStrip, IInv, TypeOK
  <2>2. \A o \in (using \ void) \ {a} :
           o \in known' /\ board'[o] = board[o] /\ at'[o] = at[o]
    BY <1>2 DEF TakesOff, LeavesTheStrip, Moves, IInv, TypeOK, StillFound
  <2>3. QED
    BY <2>1, <2>2, OverKeeps
<1>3. CASE TouchesDown(a)
  <2>1. TypeOK'
    BY <1>3 DEF TouchesDown, Moves, OnStrip, IInv, TypeOK
  <2>2. QED
    BY <1>3, <2>1 DEF TouchesDown, Moves, IInv, TypeOK, StillFound, NotYetAirborne
<1>4. QED
  BY <1>1, <1>2, <1>3 DEF Flies

LEMMA StepKeeps ==
    ASSUME IInv, [Next]_vars PROVE IInv'
<1>1. ASSUME NEW a \in Aircraft, Speaks(a) PROVE IInv'
  <2>1. {"ramp", "short"} \subseteq Rungs
    BY DEF Rungs
  <2>2. QED
    BY <1>1, <2>1, OtherCallKeeps, GroundCallKeeps, RequestTakeoffKeeps,
       ReportLandedKeeps, ReportMissedKeeps, TaxiInKeeps DEF Speaks
<1>2. ASSUME NEW a \in Aircraft, Flies(a) \/ ReportDown(a) \/ Release(a) PROVE IInv'
  BY <1>2, FliesKeeps, ReportDownKeeps, ReleaseKeepsIt
<1>3. CASE UNCHANGED vars
  BY <1>3 DEF vars, IInv, TypeOK, StillFound, NotYetAirborne
<1>4. QED
  BY <1>1, <1>2, <1>3, WatchTheRunwaysKeeps, HoldTimesOutKeeps DEF Next

LEMMA InitHolds == Init => IInv
<1>1. SUFFICES ASSUME Init PROVE IInv
  OBVIOUS
<1>2. TypeOK
  <2>1. Fresh \in Records
    BY DEF Fresh, Records, Rungs
  <2>2. QED
    BY <1>1, <2>1 DEF Init, TypeOK, OnStrip
<1>3. QED
  BY <1>1, <1>2 DEF Init, IInv, StillFound, NotYetAirborne

LEMMA Invariant == Spec => []IInv
<1>1. IInv /\ [Next]_vars => IInv'
  BY StepKeeps
<1>2. QED
  BY InitHolds, <1>1, PTL DEF Spec

---------------------------------------------------------------------------
(* The properties.                                                         *)

\* The type invariant; with it, whoever holds the runway is on the board, which a
\* release must keep true when it forgets an aircraft.
THEOREM RunwayTypeCorrect == Spec => []TypeOK
<1>1. IInv => TypeOK
  BY DEF IInv
<1>2. QED
  BY Invariant, <1>1, PTL

\* An aircraft with a clearance the engine protects is found by every look at the
\* board, whatever others' reports have done to the recorded hold (_done_with_it).
THEOREM RunwayStillFound == Spec => []StillFound
<1>1. IInv => StillFound
  BY DEF IInv
<1>2. QED
  BY Invariant, <1>1, PTL

\* Whom radar has on the strip is an answer (who_is_on_the_runway).
LEMMA SeenIsBusy ==
    ASSUME IInv, NEW a \in Aircraft, NEW b, NEW w \in LookedFor(a, b),
           SeenHolders(a) # {}
    PROVE  w.busy # NoOne
<1>1. LookedFor(a, b) =
        {Found(o, IF holder = NoOne THEN o ELSE holder, b) : o \in SeenHolders(a)}
  <2>1. looking
    BY DEF SeenHolders, IInv, TypeOK
  <2>2. QED
    BY <2>1 DEF LookedFor
<1>2. SeenHolders(a) \subseteq Aircraft
  BY DEF SeenHolders, IInv, TypeOK
<1>3. QED
  BY <1>1, <1>2, RunwayAssumption DEF Found

\* The clearance that follows a look that found nobody.
LEMMA ClearsAlone ==
    ASSUME IInv, NEW c \in Aircraft, NEW q \in Records,
           NEW w \in LookedFor(c, [board EXCEPT ![c] = q]), w.busy = NoOne,
           NEW b0, Clears(c, b0), NEW a \in Aircraft, NEW b \in using' \ using
    PROVE  /\ SeenHolders(b) = {}
           /\ (a \in using \ {b} /\ ~looking /\ holder # b) => a \in void
<1>1. b = c
  BY DEF Clears
<1>2. SeenHolders(b) = {}
  BY <1>1, SeenIsBusy
<1>3. ASSUME a \in using \ {b}, ~looking, holder # b, a \notin void PROVE FALSE
  <2> DEFINE d == [board EXCEPT ![c] = q]
  <2>1. d \in [Aircraft -> Records] /\ w \in LookedFor(c, d) /\ d[a] = board[a]
    BY <1>1, <1>3 DEF IInv, TypeOK
  <2>2. a \in known \ {c} /\ ~Done(board[a])
    BY <1>1, <1>3 DEF IInv, StillFound
  <2> HIDE DEF d
  <2>3. \A o \in known \ {c} : Done(d[o])
    BY <1>1, <1>3, <2>1, LookedForGives
  <2>4. QED
    BY <2>1, <2>2, <2>3
<1>4. QED
  BY <1>2, <1>3

\* Nobody is put on the runway by a step other than a clearance.
LEMMA ClearedWhenClear ==
    ASSUME IInv, [Next]_vars, NEW a \in Aircraft, NEW b \in using' \ using
    PROVE  /\ SeenHolders(b) = {}
           /\ (a \in using \ {b} /\ ~looking /\ holder # b) => a \in void
<1>1. PICK c \in Aircraft : RequestTakeoff(c) \/ ReportLanded(c)
  BY DEF Next, vars, Speaks, Flies, OtherCall, GroundCall, ReportMissed, Rejoin, TaxiIn,
         ReportDown, Release, WatchTheRunways, HoldTimesOut, LinesUp, TakesOff,
         TouchesDown, LeavesTheStrip, Moves, Over, ghosts
<1>2. CASE RequestTakeoff(c)
  <2>1. PICK p \in Heard(c) : \E w \in LookedFor(c, [board EXCEPT ![c] = p]) :
           /\ w.busy = NoOne
           /\ Clears(c, [w.board EXCEPT ![c].rung = "departure"])
    BY <1>2 DEF RequestTakeoff
  <2>2. p \in Records
    BY HeardKeeps
  <2>3. QED
    BY <2>1, <2>2, ClearsAlone
<1>3. CASE ReportLanded(c)
  <2>1. PICK p \in Heard(c) :
           \E w \in LookedFor(c, [board EXCEPT ![c] = [p EXCEPT !.down = TRUE]]) :
              w.busy = NoOne /\ Clears(c, w.board)
    BY <1>3 DEF ReportLanded
  <2>2. [p EXCEPT !.down = TRUE] \in Records
    BY HeardKeeps DEF Records
  <2>3. QED
    BY <2>1, <2>2, ClearsAlone
<1>4. QED
  BY <1>1, <1>2, <1>3

\* With radar silent, nobody who does not hold the runway is cleared onto it while
\* another clearance the engine protects is in use (request_takeoff, report_landed).
THEOREM RunwayClearedAlone == Spec => ClearedAlone
<1>1. IInv /\ [Next]_vars =>
        [ \A a, b \in Aircraft :
            (b \in using' \ using /\ a \in using \ {b} /\ ~looking /\ holder # b)
                => a \in void ]_vars
  BY ClearedWhenClear
<1>2. QED
  BY Invariant, <1>1, PTL DEF Spec, ClearedAlone

\* With radar looking, nobody is cleared onto a strip that it sees another aircraft
\* of the board on.
THEOREM RunwaySeenStandsFirst == Spec => SeenStandsFirst
<1>1. IInv /\ [Next]_vars =>
        [ \A b \in Aircraft : b \in using' \ using => SeenHolders(b) = {} ]_vars
  BY ClearedWhenClear
<1>2. QED
  BY Invariant, <1>1, PTL DEF Spec, SeenStandsFirst
=============================================================================
