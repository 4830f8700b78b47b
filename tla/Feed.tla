-------------------------------- MODULE Feed --------------------------------
(***************************************************************************)
(* The scope: the table of tracks the director keeps of what the simulator  *)
(* flies, and the rows of the board that stand on it.  Three threads write   *)
(* the table and none waits for another: the stream of units (which only     *)
(* reports what is new or has moved, and what is gone), the stream of events *)
(* (which only knows what changed while it was connected), and a sweep that  *)
(* asks the simulator for everything and then applies the answer in three    *)
(* transactions, while the world goes on.                                    *)
(*                                                                         *)
(* A mission may be loaded anew at any time: both streams go down with the   *)
(* mission they belonged to, and the sweep notices by the clock.             *)
(*                                                                         *)
(* Any write may fail.  Most failures are made good by a later sweep; two    *)
(* are not, and "lost" remembers them: a wipe that fails after the clock was *)
(* noted, and a unit that cannot be written, which ends the stream's thread. *)
(***************************************************************************)
EXTENDS Integers, Sequences, FiniteSets, SequencesExt

CONSTANTS Units,       \* the names of units: the next world's may be the same
          MinAge,      \* the age (in sweeps) a world has been looked at before it is replaced
          MaxAge,      \* the mission clock saturates here
          MaxWorlds,   \* bound: worlds
          MaxChanges,  \* bound: births, deaths, take-offs and landings
          MaxDrops,    \* bound: streams that break without a new world
          MaxFails,    \* bound: answers and writes that fail
          MaxQueue     \* bound: reports on their way

ASSUME FeedConstants ==
    /\ {MinAge, MaxAge, MaxWorlds, MaxChanges, MaxDrops, MaxFails, MaxQueue} \subseteq Nat
    /\ MaxWorlds >= 1

ASSUME UnitsAssumption == IsFiniteSet(Units) /\ Units # {}

\* The clock of a new world has not caught up with the age at which the old one
\* was looked at last when a sweep gets through.
ASSUME AgeAssumption == MinAge > MaxFails + 1

Never == -1                                \* _world before the first look
Rows == {"none", "unknown", "air", "ground"}  \* a row's in_air: NULL until something knows

VARIABLES
    sim,      \* the simulator: [alive, flying, clock, world]
    tracks,   \* the table: is there a row, and its in_air
    board,    \* flights: the world in which the row for this unit was made, 0 for no row
    units,    \* the stream of units: [up, queue]
    events,   \* the stream of events: [up, queue]
    sweep,    \* the sweep: [pc, alive, flying, clock], what it was answered
    was,      \* the clock it saw last
    lost,     \* what a failed write has cost for good: a "wipe", the "stream" of units
    spent     \* the bounded counters: [changes, drops, fails]

fvars == <<sim, tracks, board, units, events, sweep, was, lost, spent>>

-----------------------------------------------------------------------------
Seen(u) == [kind |-> "seen", unit |-> u]
Gone(u) == [kind |-> "gone", unit |-> u]
Event(kind, u) == [kind |-> kind, unit |-> u]
Reset == [kind |-> "mission", unit |-> CHOOSE u \in Units : TRUE]

FeedInit ==
    /\ sim = [alive |-> {}, flying |-> {}, clock |-> 0, world |-> 1]
    /\ tracks = [u \in Units |-> "none"]
    /\ board = [u \in Units |-> 0]
    /\ units = [up |-> TRUE, queue |-> <<>>]
    /\ events = [up |-> TRUE, queue |-> <<>>]
    /\ sweep = [pc |-> "rest", alive |-> {}, flying |-> {}, clock |-> 0]
    /\ was = Never
    /\ lost = {}
    /\ spent = [changes |-> 0, drops |-> 0, fails |-> 0]

\* A report goes to who is connected, and to nobody else.
Told(stream, report) ==
    IF stream.up THEN [stream EXCEPT !.queue = Append(@, report)] ELSE stream

\* A write fails, or the simulator does not answer.
Fails == /\ spent.fails < MaxFails
         /\ spent' = [spent EXCEPT !.fails = @ + 1]

HasRoom(stream) == Len(stream.queue) < MaxQueue

-----------------------------------------------------------------------------
(* The simulator.                                                            *)

Change == /\ spent.changes < MaxChanges
          /\ spent' = [spent EXCEPT !.changes = @ + 1]
          /\ HasRoom(units) /\ HasRoom(events)

Born(u, flying) ==
    /\ Change
    /\ u \notin sim.alive
    /\ sim' = [sim EXCEPT !.alive = @ \cup {u}, !.flying = IF flying THEN @ \cup {u} ELSE @]
    /\ units' = Told(units, Seen(u))
    /\ UNCHANGED <<tracks, board, events, sweep, was, lost>>

Dies(u) ==
    /\ Change
    /\ u \in sim.alive
    /\ sim' = [sim EXCEPT !.alive = @ \ {u}, !.flying = @ \ {u}]
    /\ units' = Told(units, Gone(u))
    /\ UNCHANGED <<tracks, board, events, sweep, was, lost>>

TakesOff(u) ==
    /\ Change
    /\ u \in sim.alive \ sim.flying
    /\ sim' = [sim EXCEPT !.flying = @ \cup {u}]
    /\ units' = Told(units, Seen(u))
    /\ events' = Told(events, Event("takeoff", u))
    /\ UNCHANGED <<tracks, board, sweep, was, lost>>

Lands(u) ==
    /\ Change
    /\ u \in sim.flying
    /\ sim' = [sim EXCEPT !.flying = @ \ {u}]
    /\ units' = Told(units, Seen(u))
    /\ events' = Told(events, Event("land", u))
    /\ UNCHANGED <<tracks, board, sweep, was, lost>>

\* A unit that moves is reported again; one that stands is not.
Moves(u) ==
    /\ u \in sim.alive
    /\ units.up /\ HasRoom(units)
    /\ units' = Told(units, Seen(u))
    /\ UNCHANGED <<sim, tracks, board, events, sweep, was, lost, spent>>

\* A new world.  What was on its way is lost with the streams, but for the
\* word that the mission ended, which may have come through before that.
Reload(alive, flying, heard) ==
    /\ sim.world < MaxWorlds
    /\ was >= MinAge
    /\ sim' = [alive |-> alive, flying |-> flying, clock |-> 0, world |-> sim.world + 1]
    /\ units' = [up |-> FALSE, queue |-> <<>>]
    /\ events' = [up |-> FALSE, queue |-> IF heard /\ events.up THEN <<Reset>> ELSE <<>>]
    /\ UNCHANGED <<tracks, board, sweep, was, lost, spent>>

-----------------------------------------------------------------------------
(* The two streams.                                                          *)

Drop ==
    /\ spent.drops < MaxDrops
    /\ spent' = [spent EXCEPT !.drops = @ + 1]
    /\ \/ units.up /\ units' = [up |-> FALSE, queue |-> <<>>] /\ UNCHANGED events
       \/ events.up /\ events' = [up |-> FALSE, queue |-> <<>>] /\ UNCHANGED units
    /\ UNCHANGED <<sim, tracks, board, sweep, was, lost>>

\* A new stream of units begins with every unit there is, if its thread lives.
ReconnectUnits ==
    /\ ~units.up /\ "stream" \notin lost
    /\ units' = [up |-> TRUE,
                 queue |-> [i \in 1..Cardinality(sim.alive) |-> Seen(SetToSeq(sim.alive)[i])]]
    /\ UNCHANGED <<sim, tracks, board, events, sweep, was, lost, spent>>

\* A new stream of events begins with what happens next.
ReconnectEvents ==
    /\ ~events.up
    /\ events' = [events EXCEPT !.up = TRUE]
    /\ UNCHANGED <<sim, tracks, board, units, sweep, was, lost, spent>>

\* As it would be if only rows that are there were written.
UpdatedOnly(u) == tracks

\* _upsert: a row that is there keeps its in_air, a new one has none.
Upserted(u) == [tracks EXCEPT ![u] = IF @ = "none" THEN "unknown" ELSE @]

ApplyUnit ==
    /\ units.queue # <<>>
    /\ LET report == Head(units.queue) IN
       tracks' = IF report.kind = "seen" THEN Upserted(report.unit)
                 ELSE [tracks EXCEPT ![report.unit] = "none"]
    /\ units' = [units EXCEPT !.queue = Tail(@)]
    /\ UNCHANGED <<sim, board, events, sweep, was, lost, spent>>

\* Only a broken stream is caught: a write that fails ends the thread.
ApplyUnitFails ==
    /\ units.queue # <<>>
    /\ Fails
    /\ units' = [up |-> FALSE, queue |-> <<>>]
    /\ lost' = lost \cup {"stream"}
    /\ UNCHANGED <<sim, tracks, board, events, sweep, was>>

\* set_in_air: nothing to write on if the row is not there yet.
InAir(u, flying) ==
    [tracks EXCEPT ![u] = IF @ = "none" THEN @ ELSE IF flying THEN "air" ELSE "ground"]

\* clear_all: the world, and everything the board held of it.
NoBoard == [u \in Units |-> 0]
Wiped == tracks' = [u \in Units |-> "none"] /\ board' = NoBoard

\* One table that cannot be cleared takes back those cleared before it, and leaves
\* those after it: the tracks come first, then the board.
HalfWiped == UNCHANGED tracks /\ board' \in {board, NoBoard}

ApplyEvent ==
    /\ events.queue # <<>>
    /\ LET event == Head(events.queue) IN
       \/ event.kind = "mission" /\ Wiped
       \/ /\ event.kind # "mission"
          /\ tracks' = InAir(event.unit, event.kind = "takeoff")
          /\ UNCHANGED board
    /\ events' = [events EXCEPT !.queue = Tail(@)]
    /\ UNCHANGED <<sim, units, sweep, was, lost, spent>>

\* An event that cannot be written is logged, and over.
ApplyEventFails ==
    /\ events.queue # <<>>
    /\ Fails
    /\ IF Head(events.queue).kind = "mission" THEN HalfWiped ELSE UNCHANGED <<tracks, board>>
    /\ events' = [events EXCEPT !.queue = Tail(@)]
    /\ UNCHANGED <<sim, units, sweep, was, lost>>

-----------------------------------------------------------------------------
(* The sweep.  The mission clock advances by one from sweep to sweep.        *)

Tick ==
    /\ sweep.pc = "rest"
    /\ sweep' = [sweep EXCEPT !.pc = "due"]
    /\ sim' = [sim EXCEPT !.clock = IF @ < MaxAge THEN @ + 1 ELSE @]
    /\ UNCHANGED <<tracks, board, units, events, was, lost, spent>>

\* The simulator answers for this moment; what follows applies that answer.
Ask ==
    /\ sweep.pc = "due"
    /\ sweep' = [pc |-> "asked", alive |-> sim.alive, flying |-> sim.flying, clock |-> sim.clock]
    /\ UNCHANGED <<sim, tracks, board, units, events, was, lost, spent>>

\* The simulator does not answer, or a write fails: the rest is left to the next.
SweepFails ==
    /\ sweep.pc \in {"due", "wiped", "noted"}
    /\ Fails
    /\ sweep' = [sweep EXCEPT !.pc = "rest"]
    /\ UNCHANGED <<sim, tracks, board, units, events, was, lost>>

\* As it was: the reset is only listened for, on a stream that goes down with it.
OnlyListenedFor(clock) == FALSE

\* _world_changed: the clock ran backwards.  The first look is not a change.
WorldChanged(clock) == was # Never /\ clock < was

Wipe ==
    /\ sweep.pc = "asked"
    /\ was' = sweep.clock
    /\ IF WorldChanged(sweep.clock) THEN Wiped ELSE UNCHANGED <<tracks, board>>
    /\ sweep' = [sweep EXCEPT !.pc = "wiped"]
    /\ UNCHANGED <<sim, units, events, lost, spent>>

\* clear_all fails, at once or at a table.  The clock was noted before it, so nothing
\* will wipe this world again.
WipeFails ==
    /\ sweep.pc = "asked"
    /\ WorldChanged(sweep.clock)
    /\ Fails
    /\ was' = sweep.clock
    /\ \/ sweep' = [sweep EXCEPT !.pc = "rest"] /\ UNCHANGED <<tracks, board>>
       \/ sweep' = [sweep EXCEPT !.pc = "wiped"] /\ HalfWiped
    /\ lost' = lost \cup {"wipe"}
    /\ UNCHANGED <<sim, units, events>>

\* _note_in_air: only the units that have a row.
Note ==
    /\ sweep.pc = "wiped"
    /\ tracks' = [u \in Units |->
                    IF tracks[u] = "none" \/ u \notin sweep.alive THEN tracks[u]
                    ELSE IF u \in sweep.flying THEN "air" ELSE "ground"]
    /\ sweep' = [sweep EXCEPT !.pc = "noted"]
    /\ UNCHANGED <<sim, board, units, events, was, lost, spent>>

\* As it was: an empty answer is taken for no answer.
ReapedUnlessEmpty(alive) ==
    [u \in Units |-> IF alive = {} \/ u \in alive THEN tracks[u] ELSE "none"]

\* reconcile: rows of units the answer does not name.
Reaped(alive) == [u \in Units |-> IF u \in alive THEN tracks[u] ELSE "none"]

Reap ==
    /\ sweep.pc = "noted"
    /\ tracks' = Reaped(sweep.alive)
    /\ sweep' = [sweep EXCEPT !.pc = "rest"]
    /\ UNCHANGED <<sim, board, units, events, was, lost, spent>>

-----------------------------------------------------------------------------
\* The bridge makes a row on the board for the aircraft it has been called from.
Bind(u) ==
    /\ tracks[u] # "none"
    /\ board[u] = 0
    /\ board' = [board EXCEPT ![u] = sim.world]
    /\ UNCHANGED <<sim, tracks, units, events, sweep, was, lost, spent>>

Sim == \E u \in Units :
    \/ \E flying \in BOOLEAN : Born(u, flying)
    \/ Dies(u)
    \/ TakesOff(u)
    \/ Lands(u)
    \/ Moves(u)

NewWorld == \E alive \in SUBSET Units, heard \in BOOLEAN :
                \E flying \in SUBSET alive : Reload(alive, flying, heard)

FeedNext ==
    \/ Sim
    \/ NewWorld
    \/ Drop
    \/ ReconnectUnits
    \/ ReconnectEvents
    \/ ApplyUnit
    \/ ApplyUnitFails
    \/ ApplyEvent
    \/ ApplyEventFails
    \/ Tick
    \/ Ask
    \/ SweepFails
    \/ Wipe
    \/ WipeFails
    \/ Note
    \/ Reap
    \/ \E u \in Units : Bind(u)

\* The director's threads run, the streams are dialled again, and a sweep is
\* asked for and answered in the end.
Threads ==
    /\ WF_fvars(ReconnectUnits) /\ WF_fvars(ReconnectEvents)
    /\ WF_fvars(ApplyUnit \/ ApplyUnitFails) /\ WF_fvars(ApplyEvent \/ ApplyEventFails)
    /\ WF_fvars(Tick) /\ WF_fvars(Ask \/ SweepFails)
    /\ WF_fvars(Wipe \/ WipeFails) /\ WF_fvars(Note) /\ WF_fvars(Reap)

\* Aircraft move, if not always.
Moving == \A u \in Units : SF_fvars(Moves(u))

FeedSpec == FeedInit /\ [][FeedNext]_fvars /\ Threads /\ Moving

-----------------------------------------------------------------------------
(* Properties.                                                               *)

Reports == [kind : {"seen", "gone", "takeoff", "land", "mission"}, unit : Units]

\* Queues hold reports, a row's state is one of four, flying units are alive.
FeedTypeOK ==
    /\ sim \in [alive : SUBSET Units, flying : SUBSET Units, clock : 0..MaxAge, world : 1..MaxWorlds]
    /\ sim.flying \subseteq sim.alive
    /\ tracks \in [Units -> Rows]
    /\ board \in [Units -> 0..MaxWorlds]
    /\ {units, events} \subseteq [up : BOOLEAN, queue : Seq(Reports)]
    /\ sweep \in [pc : {"rest", "due", "asked", "wiped", "noted"},
                  alive : SUBSET Units, flying : SUBSET Units, clock : 0..MaxAge]
    /\ was \in {Never} \cup 0..MaxAge
    /\ lost \subseteq {"wipe", "stream"}
    /\ spent \in [changes : 0..MaxChanges, drops : 0..MaxDrops, fails : 0..MaxFails]

\* HAZARD: three writers, reports that are lost and writes that fail.  When the
\* world stops changing, the scope comes to hold nobody who is gone (reconcile) and
\* says of everybody it holds whether he flies (set_in_air, _note_in_air).
ScopeSettles ==
    <>[](\A u \in Units : tracks[u] # "none" =>
            /\ u \in sim.alive
            /\ tracks[u] = IF u \in sim.flying THEN "air" ELSE "ground")

\* HAZARD: a reconcile or a wipe may take a row the stream has just written, and
\* the stream does not repeat itself.  An aircraft that moves is seen again, as
\* long as the thread of the stream lives.
AliveIsSeen ==
    \A u \in Units :
        u \in sim.alive ~> (tracks[u] # "none" \/ u \notin sim.alive \/ "stream" \in lost)

\* HAZARD: the word of a reset is lost with the stream that carries it
\* (_world_changed).  A row made in a world that has been looked at at an age of
\* MinAge does not outlive that world, unless the wipe itself failed.
OldWorldForgotten ==
    \A u \in Units : \A w \in 1..MaxWorlds :
        (board[u] = w /\ w < sim.world) ~> (board[u] # w \/ "wipe" \in lost)
==============================================================================
