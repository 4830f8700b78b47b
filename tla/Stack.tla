------------------------------- MODULE Stack -------------------------------
(***************************************************************************)
(* The separation engine at one aerodrome (atc/controller.py, where every  *)
(* published approach shares one stack and one letdown): the holding       *)
(* stack, the letdown that takes one aircraft at a time, missed approaches *)
(* and the clock's two safety nets.  One action is one call of the         *)
(* Controller, with every _try_clear and _step_down it ends in.            *)
(*                                                                         *)
(* An aircraft the Controller has never heard of and one it knows as       *)
(* UNKNOWN with nothing assigned are the same state here: every call       *)
(* creates the aircraft it names.                                          *)
(***************************************************************************)
EXTENDS StackLevels

CONSTANTS Callsigns,    \* the aircraft that may call
          NoOne,        \* the letdown is free
          VectorLevels  \* where the radar thread may vector an aircraft to

ASSUME NoOneAssumption == NoOne \notin Callsigns
ASSUME VectorLevelsAssumption == VectorLevels \subseteq MissedLevel .. N

VARIABLES
    phase,      \* Aircraft.phase
    level,      \* Aircraft.assigned_ft
    tries,      \* Aircraft.approaches, saturating at MaxApproaches
    timed,      \* the aircraft whose map_t is set
    letdown,    \* _letdown_by[key]
    told,       \* the aircraft whose assigned level is the last one they were told
    doubled     \* an assignment that looked at nobody has landed on a level in use

vars == <<phase, level, tries, timed, letdown, told, doubled>>

Init ==
    /\ phase = [c \in Callsigns |-> "UNKNOWN"]
    /\ level = [c \in Callsigns |-> NoLevel]
    /\ tries = [c \in Callsigns |-> 0]
    /\ timed = {}
    /\ letdown = NoOne
    /\ told = {}
    /\ doubled = FALSE

FreeSlot(s) == IsFreeSlot(s, Callsigns, phase, level)
StackFull == OpenSlots(Callsigns, phase, level) = {}

\* Another aircraft is at level l and has not landed.
Taken(l, c) == \E d \in Callsigns \ {c} : level[d] = l /\ phase[d] # "LANDED"

\* A bug: the stack steps down and nobody is told.
NotAnnounced(tl, old, lv) == tl \ {c \in Callsigns : lv[c] # old[c]}

\* The new levels are read to those whose level has changed.
Announced(tl, old, lv) == tl \cup {c \in Callsigns : lv[c] # old[c]}

---------------------------------------------------------------------------
(* The tail of almost every call: with the letdown free the next aircraft  *)
(* is cleared, and if he came out of the stack the stack steps down.       *)

TryClear(ph, lv, tl, ld) ==
    \/ /\ ld # NoOne \/ NextUp(Callsigns, ph, lv) = {}
       /\ phase' = ph /\ level' = lv /\ told' = tl /\ letdown' = ld
    \/ /\ ld = NoOne
       /\ \E c \in NextUp(Callsigns, ph, lv) :
            LET cleared == [ph EXCEPT ![c] = "CLEARED"]
                after == IF ph[c] = "HOLDING"
                         THEN SteppedDown(Callsigns, cleared, lv) ELSE lv
            IN  /\ phase' = cleared
                /\ level' = after
                /\ told' = Announced(tl, lv, after)
                /\ letdown' = c

\* The same on behalf of the aircraft that asked: a holder of the letdown
\* found HOLDING is put back to CLEARED.
TryClearFor(c, ph, lv, tl, ld) ==
    \/ /\ ld = c /\ ph[c] = "HOLDING"
       /\ phase' = [ph EXCEPT ![c] = "CLEARED"]
       /\ level' = lv /\ told' = tl /\ letdown' = ld
    \/ /\ ~(ld = c /\ ph[c] = "HOLDING")
       /\ TryClear(ph, lv, tl, ld)

\* c gives up the letdown if it is his.
LetdownWithout(c) == IF letdown = c THEN NoOne ELSE letdown

---------------------------------------------------------------------------
(* Calls that pilots make.                                                 *)

\* A bug: any phase is admitted to the arrival flow.
CheckInAnyway(c) ==
    /\ phase' = [phase EXCEPT ![c] = "ENROUTE"]
    /\ UNCHANGED <<level, tries, timed, letdown, told, doubled>>

\* Admitted to the arrival flow -- only once radar has seen him fly, and never
\* out of a clearance or off the ground.
CheckIn(c) ==
    /\ phase[c] \notin {"CLEARED", "LANDED"}
    /\ phase' = [phase EXCEPT ![c] = "ENROUTE"]
    /\ UNCHANGED <<level, tries, timed, letdown, told, doubled>>

\* A first report over the beacon takes the lowest free level.
EnterStack(c) ==
    /\ phase[c] \in {"UNKNOWN", "ENROUTE"}
    /\ \E s \in Slots :
        /\ FreeSlot(s)
        /\ TryClear([phase EXCEPT ![c] = "HOLDING"], [level EXCEPT ![c] = s],
                    told \cup {c}, letdown)
    /\ UNCHANGED <<tries, timed, doubled>>

\* Station passage on the approach starts the missed-approach clock.
StationPassage(c) ==
    /\ phase[c] = "CLEARED"
    /\ timed' = timed \cup {c}
    /\ UNCHANGED <<phase, level, tries, letdown, told, doubled>>

\* Anybody else over the beacon only has his level read back to him.
LevelCheck(c) ==
    /\ phase[c] \in {"HOLDING", "MISSED", "LANDED"}
    /\ level[c] # NoLevel
    /\ told' = told \cup {c}
    /\ UNCHANGED <<phase, level, tries, timed, letdown, doubled>>

ReportBeacon(c) == EnterStack(c) \/ StationPassage(c) \/ LevelCheck(c)

SentTo(banished) == IF banished THEN N ELSE MissedLevel

\* The first miss climbs below the stack and goes to the front of the queue;
\* the next one is sent to the top of the stack to be sequenced again.
DoMissed(c) ==
    LET banished == tries[c] + 1 >= MaxApproaches
        to == SentTo(banished)
    IN  /\ tries' = [tries EXCEPT ![c] = IF banished THEN MaxApproaches ELSE @ + 1]
        /\ timed' = timed \ {c}
        /\ doubled' = (doubled \/ Taken(to, c))
        /\ TryClear([phase EXCEPT ![c] = IF banished THEN "HOLDING" ELSE "MISSED"],
                    [level EXCEPT ![c] = to], told \cup {c}, LetdownWithout(c))

ReportMissed(c) == DoMissed(c)

\* A bug: the letdown is given back and nobody is called.
LandedQuietly(c) ==
    /\ timed' = timed \ {c}
    /\ phase' = [phase EXCEPT ![c] = "LANDED"]
    /\ letdown' = LetdownWithout(c)
    /\ UNCHANGED <<level, told, tries, doubled>>

\* Off the approach and onto the field.
Landed(c) ==
    /\ timed' = timed \ {c}
    /\ TryClear([phase EXCEPT ![c] = "LANDED"], level, told, LetdownWithout(c))
    /\ UNCHANGED <<tries, doubled>>

ReportLanded(c) == phase[c] # "LANDED" /\ Landed(c)
ReportDown(c) == Landed(c)

\* A visual takes the letdown when it can, with whatever level he has -- after a
\* landing, the one he landed with.  Otherwise he holds: at the level he has, at
\* the lowest free one, or at the bottom when the stack is full.
VisualCleared(c) ==
    /\ letdown \in {NoOne, c}
    /\ letdown' = c
    /\ phase' = [phase EXCEPT ![c] = "CLEARED"]
    /\ doubled' = (doubled \/ (level[c] # NoLevel /\ Taken(level[c], c)))
    /\ UNCHANGED <<level, tries, timed, told>>

VisualHolds(c) ==
    /\ letdown \notin {NoOne, c}
    /\ phase' = [phase EXCEPT ![c] = "HOLDING"]
    /\ \E s \in Slots \cup {MissedLevel} :
        /\ \/ level[c] = s
           \/ level[c] = NoLevel /\ FreeSlot(s)
           \/ level[c] = NoLevel /\ StackFull /\ s = 1
        /\ level' = [level EXCEPT ![c] = s]
        /\ told' = told \cup {c}
        /\ doubled' = (doubled \/ Taken(s, c))
    /\ UNCHANGED <<tries, timed, letdown>>

RequestVisual(c) == VisualCleared(c) \/ VisualHolds(c)

\* Asking for the approach.  Cleared, and naming another one at this aerodrome,
\* c gives up the letdown and is an arrival again, at the level he has.
Asking(c) == IF phase[c] = "CLEARED" THEN "ENROUTE" ELSE phase[c]
LetdownAsking(c) == IF phase[c] = "CLEARED" THEN LetdownWithout(c) ELSE letdown

\* An arrival takes a level first, and is told it only when he is not cleared in
\* the same breath.
RequestFromArrival(c) ==
    /\ Asking(c) \in {"UNKNOWN", "ENROUTE"}
    /\ \E s \in Slots :
        LET ph == [phase EXCEPT ![c] = "HOLDING"]
            lv == [level EXCEPT ![c] = s]
            first == LetdownAsking(c) = NoOne /\ NextUp(Callsigns, ph, lv) = {c}
        IN  /\ FreeSlot(s)
            /\ TryClearFor(c, ph, lv, IF first THEN told \ {c} ELSE told \cup {c},
                           LetdownAsking(c))
    /\ UNCHANGED <<tries, timed, doubled>>

RequestAgain(c) ==
    /\ Asking(c) \in {"UNKNOWN", "ENROUTE"} => StackFull
    /\ TryClearFor(c, [phase EXCEPT ![c] = Asking(c)], level, told, LetdownAsking(c))
    /\ UNCHANGED <<tries, timed, doubled>>

\* Radar does not have him any more: the change leaves him without the approach
\* and without a place in the queue, and nobody is called.
ChangeRefused(c) ==
    /\ phase[c] = "CLEARED"
    /\ phase' = [phase EXCEPT ![c] = "ENROUTE"]
    /\ letdown' = LetdownWithout(c)
    /\ UNCHANGED <<level, tries, timed, told, doubled>>

RequestApproach(c) == RequestFromArrival(c) \/ RequestAgain(c) \/ ChangeRefused(c)

\* The flight becomes its members: the entity goes, and gives back the letdown.
RequestBreakup(c) ==
    /\ timed' = timed \ {c}
    /\ tries' = [tries EXCEPT ![c] = 0]
    /\ TryClear([phase EXCEPT ![c] = "UNKNOWN"], [level EXCEPT ![c] = NoLevel],
                told \ {c}, LetdownWithout(c))
    /\ UNCHANGED doubled

---------------------------------------------------------------------------
(* Calls that radar, the scheduler and the clock make.                     *)

\* Radar shows him established: he IS the approach, whoever had it.
SeenOnFinal(c) ==
    /\ phase[c] \notin {"CLEARED", "LANDED"}
    /\ phase' = [phase EXCEPT ![c] = "CLEARED"]
    /\ level' = [level EXCEPT ![c] = NoLevel]
    /\ letdown' = c
    /\ told' = told \ {c}
    /\ UNCHANGED <<tries, timed, doubled>>

\* The radar thread records and speaks the altitude it vectored him to: it works
\* the owner of the letdown, or anybody when there is no other aircraft.
NoteVectored(c, l) ==
    /\ letdown = c \/ \A d \in Callsigns \ {c} : phase[d] = "UNKNOWN"
    /\ level' = [level EXCEPT ![c] = l]
    /\ told' = told \cup {c}
    /\ doubled' = (doubled \/ Taken(l, c))
    /\ UNCHANGED <<phase, tries, timed, letdown>>

\* The sweep of silent aircraft gives back what he had and clears nobody.
Release(c) ==
    /\ phase' = [phase EXCEPT ![c] = "UNKNOWN"]
    /\ level' = [level EXCEPT ![c] = NoLevel]
    /\ told' = told \ {c}
    /\ tries' = [tries EXCEPT ![c] = 0]
    /\ timed' = timed \ {c}
    /\ letdown' = LetdownWithout(c)
    /\ UNCHANGED doubled

\* tick: the missed-approach clock of the aircraft in the letdown has run out.
TickPassage ==
    /\ letdown \in timed
    /\ DoMissed(letdown)

\* A bug: the aircraft nobody heard from keeps his level.
TimeoutKeepsLevel ==
    /\ letdown # NoOne
    /\ TryClear(phase, level, told, NoOne)
    /\ UNCHANGED <<tries, timed, doubled>>

\* tick: nothing heard from the aircraft in the letdown for CLEARANCE_TIMEOUT_SEC.
TickTimeout ==
    /\ letdown # NoOne
    /\ TryClear(phase, [level EXCEPT ![letdown] = NoLevel], told \ {letdown}, NoOne)
    /\ UNCHANGED <<tries, timed, doubled>>

\* A call at another aerodrome ends in _try_clear(), which visits every stack.
TryEveryStack ==
    /\ TryClear(phase, level, told, letdown)
    /\ UNCHANGED <<tries, timed, doubled>>

Tick == TickPassage \/ TickTimeout

Next ==
    \/ \E c \in Callsigns :
        \/ CheckIn(c) \/ ReportBeacon(c) \/ ReportMissed(c)
        \/ ReportLanded(c) \/ ReportDown(c)
        \/ RequestVisual(c) \/ RequestApproach(c) \/ RequestBreakup(c)
        \/ SeenOnFinal(c) \/ Release(c)
        \/ \E l \in VectorLevels : NoteVectored(c, l)
    \/ Tick
    \/ TryEveryStack

Spec == Init /\ [][Next]_vars

---------------------------------------------------------------------------
(* What the engine promises.                                               *)

TypeOK ==
    /\ phase \in [Callsigns -> Phases]
    /\ level \in [Callsigns -> Levels]
    /\ tries \in [Callsigns -> 0 .. MaxApproaches]
    /\ timed \in SUBSET Callsigns
    /\ letdown \in Callsigns \cup {NoOne}
    /\ told \in SUBSET Callsigns
    /\ doubled \in BOOLEAN

\* Whoever the letdown names is CLEARED: nothing demotes him while he holds it,
\* so the "something demoted a cleared aircraft" branch of _try_clear_one is dead.
LetdownHolderCleared == letdown # NoOne => phase[letdown] = "CLEARED"

\* No two aircraft that have not landed are assigned one level.
DistinctLevels ==
    \A a, b \in Callsigns :
        (/\ a # b /\ level[a] = level[b] /\ level[a] # NoLevel
         /\ phase[a] # "LANDED") => phase[b] = "LANDED"

\* The checked assignments -- a free slot, a step down -- never put two aircraft
\* on one level: it takes an assignment that looked at nobody (the missed
\* approach, the outer hold, a visual's fallback, a vector) to do that.
CheckedLevelsDistinct == ~doubled => DistinctLevels

\* The level the engine separates a holder at is the last level he was told.
ToldWhatIsHeld == \A c \in Callsigns : phase[c] = "HOLDING" => c \in told

\* The letdown passes to another aircraft only when the one that had it is off
\* the approach, or by what radar sees or the clock runs out on -- and the clock
\* runs out on one aircraft only, who then keeps no level.
LetdownHandedOn ==
    [][ (letdown # NoOne /\ letdown' \notin {letdown, NoOne})
        => \/ phase'[letdown] # "CLEARED"
           \/ level'[letdown] = NoLevel /\ phase[letdown'] \in {"HOLDING", "MISSED"}
           \/ \E c \in Callsigns : SeenOnFinal(c) ]_vars

Waiting == {c \in Callsigns : phase[c] = "MISSED" \/ (phase[c] = "HOLDING" /\ level[c] # NoLevel)}

\* No call but a release, or a change of approach that is refused, leaves the
\* letdown free with somebody waiting for it.
ApproachNeverIdles ==
    [][ (letdown' = NoOne /\ Waiting' # {})
        => \/ letdown = NoOne /\ Waiting # {}
           \/ \E c \in Callsigns : Release(c) \/ ChangeRefused(c) ]_vars

\* While somebody is on the missed approach no holder is given the approach,
\* except one who asks for a visual or goes missed himself.
MissedGoesFirst ==
    [][ \A c, m \in Callsigns :
          (/\ phase[c] = "HOLDING" /\ letdown # c /\ letdown' = c
           /\ m # c /\ phase[m] = "MISSED" /\ phase'[m] = "MISSED")
          => SeenOnFinal(c) \/ RequestVisual(c) \/ ReportMissed(c) ]_vars

\* With no level doubled, a holder who stays a holder is moved up only by his
\* own missed approach or a vector, and no two holders change places or merge.
OwnLevelChange(c) == ReportMissed(c) \/ \E l \in VectorLevels : NoteVectored(c, l)

StaysHolder(c) == phase[c] = "HOLDING" /\ phase'[c] = "HOLDING"

StepDownKeepsOrder ==
    [][ \A a, b \in Callsigns :
          (/\ ~doubled /\ StaysHolder(a) /\ StaysHolder(b)
           /\ \/ level'[a] > level[a]
              \/ level[a] < level[b] /\ level'[a] >= level'[b])
          => OwnLevelChange(a) \/ OwnLevelChange(b) ]_vars
=============================================================================
