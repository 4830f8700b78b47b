------------------------------ MODULE Identity ------------------------------
(***************************************************************************)
(* Who is speaking: a radio is bound to an aeroplane, the aeroplane's      *)
(* pilot may be in a flight, and the flight or the pilot has a row on the  *)
(* controller's board.                                                     *)
(*                                                                         *)
(* Everything is keyed by names.  An aeroplane on radar is called after    *)
(* the player who sits in it, so a pilot stands for his aeroplane too.  A  *)
(* radio has its owner's name, or (a guest's) one that resembles nobody's. *)
(***************************************************************************)
EXTENDS Naturals, FiniteSets

CONSTANTS
    Pilots,         \* the people flying, one radio and one aeroplane each
    Alias,          \* what a radio calls itself: its pilot, or a name of its own
    FlightNames,    \* the flights somebody may form
    None

Handles == Pilots \cup {Alias[p] : p \in Pilots}
Names == Handles \cup FlightNames

ASSUME NamesAssumption ==
    /\ None \notin Names /\ FlightNames \cap Handles = {}
    /\ DOMAIN Alias = Pilots
    /\ \A p \in Pilots : Alias[p] \in Pilots => Alias[p] = p

VARIABLES
    painted,        \* the aeroplanes on the scope
    bound,          \* the registry: the aeroplane each radio was resolved to
    lead,           \* each flight's lead, None while it does not exist
    members,        \* each flight's members
    board           \* each row's bound track, None where there is no row

ivars == <<painted, bound, lead, members, board>>

IdentityInit ==
    /\ painted = {}
    /\ bound = [p \in Pilots |-> None]
    /\ lead = [f \in FlightNames |-> None]
    /\ members = [f \in FlightNames |-> {}]
    /\ board = [n \in Names |-> None]

---------------------------------------------------------------------------
(* The radio and the aeroplane. *)

\* The aeroplane the radio's own name names.
UnitForRadio(p) == IF Alias[p] = p /\ p \in painted THEN p ELSE None

\* A bug: what the other radios were resolved to is not taken into account.
ByEliminationOfNone(p) ==
    IF Cardinality(painted) = 1 THEN CHOOSE t \in painted : TRUE ELSE None

\* The one person flying that no other radio was resolved to.
ByElimination(p) ==
    LET free == painted \ {bound[q] : q \in Pilots \ {p}}
    IN  IF Cardinality(free) = 1 THEN CHOOSE t \in free : TRUE ELSE None

\* The physical chain first; then a name that is on the board, which needs no
\* aeroplane and gives up the one he had; then what he was resolved to before.
Resolve(p, claims) ==
    IF UnitForRadio(p) # None THEN [track |-> UnitForRadio(p), label |-> UnitForRadio(p)]
    ELSE IF bound[p] = None /\ ByElimination(p) # None
    THEN [track |-> ByElimination(p), label |-> ByElimination(p)]
    ELSE IF claims /\ \E n \in Names : board[n] # None
    THEN [track |-> None, label |-> Alias[p]]
    ELSE [track |-> bound[p], label |-> bound[p]]

---------------------------------------------------------------------------
(* The flight. *)

FlightsOf(who) == {f \in FlightNames : lead[f] # None /\ who \in members[f]}

Create(f, who) ==
    /\ lead[f] = None /\ FlightsOf(who) = {}
    /\ lead' = [lead EXCEPT ![f] = who]
    /\ members' = [members EXCEPT ![f] = {who}]

\* Radar has to show him with the lead; the lead's name is his aeroplane's.
Join(f, who, track) ==
    /\ lead[f] # None /\ FlightsOf(who) = {}
    /\ track \in painted /\ lead[f] \in painted
    /\ members' = [members EXCEPT ![f] = @ \cup {who}]
    /\ UNCHANGED lead

\* Anybody may ask for it.
Dissolve(f) ==
    /\ lead[f] # None
    /\ lead' = [lead EXCEPT ![f] = None]
    /\ members' = [members EXCEPT ![f] = {}]

\* With its lead the flight ends.
Leave(f, who) ==
    /\ f \in FlightsOf(who)
    /\ IF lead[f] = who THEN Dissolve(f)
       ELSE /\ members' = [members EXCEPT ![f] = @ \ {who}]
            /\ UNCHANGED lead

\* What he asks of a flight, granted, refused or not asked at all.
Membership(who, track) ==
    \/ /\ who # None
       /\ \E f \in FlightNames :
            Create(f, who) \/ Join(f, who, track) \/ Dissolve(f) \/ Leave(f, who)
    \/ UNCHANGED <<lead, members>>

\* Whom the controller takes him for: his flight, if he is in one by now.
SpeakingAs(who) ==
    IF \E f \in FlightNames : lead'[f] # None /\ who \in members'[f]
    THEN CHOOSE f \in FlightNames : lead'[f] # None /\ who \in members'[f]
    ELSE who

---------------------------------------------------------------------------
(* The board. *)

\* A bug: a row is opened whatever rows there are.
TrackedAgain(known, track) ==
    board' = IF known # None /\ track # None THEN [board EXCEPT ![known] = track] ELSE board

\* One aeroplane, one row; and the row's track is that of whoever spoke.
BecomeTracked(known, track) ==
    board' = IF /\ known # None /\ track # None
                /\ \A n \in Names \ {known} : board[n] # track
             THEN [board EXCEPT ![known] = track] ELSE board

\* A transmission.
Speak(p, claims) ==
    LET ident == Resolve(p, claims)
    IN  /\ bound' = [bound EXCEPT ![p] = ident.track]
        /\ Membership(ident.label, ident.track)
        /\ BecomeTracked(SpeakingAs(ident.label), ident.track)
        /\ UNCHANGED painted

\* A row goes when nothing on the scope accounts for it, by track or by name; an
\* empty scope that was answered is a scope.
ReleaseStale(n) ==
    /\ board[n] # None /\ board[n] \notin painted /\ n \notin painted
    /\ board' = [board EXCEPT ![n] = None]
    /\ UNCHANGED <<painted, bound, lead, members>>

Appears(p) ==
    /\ p \notin painted /\ painted' = painted \cup {p}
    /\ UNCHANGED <<bound, lead, members, board>>

Vanishes(p) ==
    /\ p \in painted /\ painted' = painted \ {p}
    /\ UNCHANGED <<bound, lead, members, board>>

IdentityNext ==
    \/ \E p \in Pilots, claims \in BOOLEAN : Speak(p, claims)
    \/ \E p \in Pilots : Appears(p) \/ Vanishes(p)
    \/ \E n \in Names : ReleaseStale(n)

IdentitySpec == IdentityInit /\ [][IdentityNext]_ivars

---------------------------------------------------------------------------
\* The registry, the roster and the board hold pilots, handles and names.
IdentityTypeOK ==
    /\ painted \in SUBSET Pilots
    /\ bound \in [Pilots -> Pilots \cup {None}]
    /\ lead \in [FlightNames -> Handles \cup {None}]
    /\ members \in [FlightNames -> SUBSET Handles]
    /\ board \in [Names -> Pilots \cup {None}]

\* An aeroplane has one row, whatever its pilot is called by then: two rows would
\* have the engine separate him from himself.
OneRowEach ==
    \A m, n \in Names : board[m] = board[n] /\ board[m] # None => m = n

\* Two radios are taken for one aeroplane only when one of them is its pilot's and
\* bears his name: elimination never gives away what another radio has, be that
\* another guest in his own aeroplane.
EliminatedOnce ==
    \A p, q \in Pilots :
        bound[p] = bound[q] /\ bound[p] # None /\ p # q =>
            bound[p] \in {p, q} /\ Alias[bound[p]] = bound[p]
=============================================================================
