---------------------------- MODULE StackLevels ----------------------------
(***************************************************************************)
(* The pure part of the separation engine: who holds which level of one    *)
(* holding stack, who is next for the approach, and how the stack closes   *)
(* up when somebody leaves it.  Every operator takes the aircraft the code *)
(* would scan (its "same stack" filter) as a set P, their phases ph and    *)
(* their assigned levels lv.                                               *)
(*                                                                         *)
(* A level of the stack is its index: 1 is bottom_ft, N is top_ft, and 0   *)
(* is missed_ft, which lies below the stack.                               *)
(***************************************************************************)
EXTENDS Integers, FiniteSets

CONSTANTS N             \* how many levels the procedure's stack has

ASSUME NAssumption == N \in Nat \ {0}

NoLevel == -1           \* assigned_ft is None
MissedLevel == 0        \* missed_ft
Slots == 1 .. N         \* stack_ft, bottom first
Levels == NoLevel .. N

Phases == {"UNKNOWN", "ENROUTE", "HOLDING", "CLEARED", "MISSED", "LANDED"}

\* MAX_APPROACHES: the approach he misses that sends him to the outer hold.
MaxApproaches == 2

\* The holders: HOLDING at some level.
Holders(P, ph, lv) == {a \in P : ph[a] = "HOLDING" /\ lv[a] # NoLevel}
Held(P, ph, lv) == {lv[a] : a \in Holders(P, ph, lv)}

\* A bug: only the holders' levels are looked at.
NobodySpokenFor(P, ph, lv) == {}

\* Levels of aircraft that are not holding and have not landed.
SpokenFor(P, ph, lv) ==
    {lv[a] : a \in {b \in P : lv[b] # NoLevel /\ ph[b] \notin {"HOLDING", "LANDED"}}}

\* The levels _free_slot may hand out, and the one it picks.
OpenSlots(P, ph, lv) == Slots \ (Held(P, ph, lv) \cup SpokenFor(P, ph, lv))
IsFreeSlot(s, P, ph, lv) ==
    /\ s \in OpenSlots(P, ph, lv)
    /\ \A t \in OpenSlots(P, ph, lv) : s <= t

\* Who is on the missed approach, and who is lowest in the stack.
Missed(P, ph) == {a \in P : ph[a] = "MISSED"}
LowestHolders(P, ph, lv) ==
    {a \in Holders(P, ph, lv) : \A b \in Holders(P, ph, lv) : lv[a] <= lv[b]}

\* A bug: the aircraft on the missed approach waits behind the stack.
HoldersFirst(P, ph, lv) ==
    IF Holders(P, ph, lv) # {} THEN LowestHolders(P, ph, lv) ELSE Missed(P, ph)

\* Who _next_up may return: any MISSED aircraft (all of them have missed once,
\* so the code's minimum is a tie broken by its dictionary order), otherwise a
\* lowest holder (a tie is broken by callsign there, and left open here).
NextUp(P, ph, lv) ==
    IF Missed(P, ph) # {} THEN Missed(P, ph) ELSE LowestHolders(P, ph, lv)

---------------------------------------------------------------------------
(* _step_down.  The i-th held level, from the bottom, moves to the i-th    *)
(* level that is not spoken for; when there are fewer of those it stays.   *)

Below(S, x) == {y \in S : y < x}

Unspoken(P, ph, lv) == Slots \ SpokenFor(P, ph, lv)

\* A bug: the bottom of the stack is skipped.
ReachOneUp(P, ph, lv, x) ==
    {f \in Unspoken(P, ph, lv) :
        Cardinality(Below(Unspoken(P, ph, lv), f)) > Cardinality(Below(Held(P, ph, lv), x))}

Reach(P, ph, lv, x) ==
    {f \in Unspoken(P, ph, lv) :
        Cardinality(Below(Unspoken(P, ph, lv), f)) >= Cardinality(Below(Held(P, ph, lv), x))}

Target(P, ph, lv, x) ==
    IF Reach(P, ph, lv, x) = {} THEN x
    ELSE CHOOSE f \in Reach(P, ph, lv, x) : \A g \in Reach(P, ph, lv, x) : f <= g

\* The loop reads the holders again for every level, so a level that is moved
\* UP onto one that is still held is carried on with it when its turn comes.
Carries(P, ph, lv, x, y) ==
    /\ y = Target(P, ph, lv, x)
    /\ y \in Held(P, ph, lv)
    /\ y > x

CarriedThrough(P, ph, lv, x) ==
    {y \in Held(P, ph, lv) :
        \A T \in SUBSET Held(P, ph, lv) :
            (/\ x \in T
             /\ \A u \in T, w \in Held(P, ph, lv) : Carries(P, ph, lv, u, w) => w \in T)
            => y \in T}

LevelAfter(P, ph, lv, x) ==
    LET last == CHOOSE y \in CarriedThrough(P, ph, lv, x) :
                    \A w \in CarriedThrough(P, ph, lv, x) : w <= y
    IN  Target(P, ph, lv, last)

SteppedDown(P, ph, lv) ==
    [a \in DOMAIN lv |->
        IF a \in Holders(P, ph, lv) THEN LevelAfter(P, ph, lv, lv[a]) ELSE lv[a]]
=============================================================================
