------------------------------- MODULE Fields -------------------------------
(***************************************************************************)
(* One bridge, several aerodromes.  The Controller of the voice process    *)
(* has no procedure of its own: each aircraft carries the one it was       *)
(* assigned, and the letdowns are kept by the aerodrome of that procedure  *)
(* -- "" (NoField) for an aircraft that has none.  This module is about    *)
(* that key: who is in whose stack, and whose letdown a call looks at.     *)
(*                                                                         *)
(* The stack of one aerodrome is StackLevels; every procedure is given the *)
(* same ladder of N levels.  The clock is left out: nothing in the voice   *)
(* process calls tick.                                                     *)
(***************************************************************************)
EXTENDS StackLevels

CONSTANTS Callsigns,
          Aerodromes,   \* where a procedure can lead
          NoField,      \* no procedure: the key ""
          NoOne,        \* a free letdown
          Filed,        \* the approach each flight's plan names, or NoField
          Asks          \* the approaches pilots ask for by name

Keys == Aerodromes \cup {NoField}

ASSUME FiledAssumption == Filed \in [Callsigns -> Keys]
ASSUME AsksAssumption == Asks \subseteq Aerodromes /\ NoField \notin Aerodromes
ASSUME NoOneAssumption == NoOne \notin Callsigns
ASSUME AerodromesAssumption == IsFiniteSet(Aerodromes)

VARIABLES
    known,      \* the keys of Controller.aircraft
    proc,       \* the aerodrome of each aircraft's procedure
    phase, level, tries,
    letdown,    \* _letdown_by
    strayed     \* somebody has been worked without a procedure, or has changed his

vars == <<known, proc, phase, level, tries, letdown, strayed>>

\* A start from the flights table: some filed flights are on the board already.
Init ==
    /\ known \in SUBSET {c \in Callsigns : Filed[c] # NoField}
    /\ proc = [c \in Callsigns |-> IF c \in known THEN Filed[c] ELSE NoField]
    /\ phase = [c \in Callsigns |-> "UNKNOWN"]
    /\ level = [c \in Callsigns |-> NoLevel]
    /\ tries = [c \in Callsigns |-> 0]
    /\ letdown = [k \in Keys |-> NoOne]
    /\ strayed = FALSE

---------------------------------------------------------------------------
(* The engine's helpers, over a board K, its procedures pr and a state s   *)
(* of phases, levels and letdowns.                                         *)

Here == [ph |-> phase, lv |-> level, ld |-> letdown]

\* A bug: one stack for every aerodrome.
EverybodysStack(k, pr, K) == K

\* An aircraft without a procedure is in everybody's stack, and everybody in his.
SameStack(k, pr, K) == {a \in K : k = NoField \/ pr[a] = NoField \/ pr[a] = k}

FreeSlotFor(x, c, pr, K, s) ==
    pr[c] # NoField /\ IsFreeSlot(x, SameStack(pr[c], pr, K), s.ph, s.lv)
HasNoSlot(c, pr, K, s) ==
    pr[c] = NoField \/ OpenSlots(SameStack(pr[c], pr, K), s.ph, s.lv) = {}

\* The letdown of c's present key is given up if it is his; any other key is not.
Without(c, pr, ld) == IF ld[pr[c]] = c THEN [ld EXCEPT ![pr[c]] = NoOne] ELSE ld

\* Clear n: the letdown taken is the one of HIS key, and his stack steps down.
Clear(n, pr, K, s) ==
    LET ph == [s.ph EXCEPT ![n] = "CLEARED"]
        closesUp == s.ph[n] = "HOLDING" /\ pr[n] # NoField
    IN  [ph |-> ph,
         lv |-> IF closesUp THEN SteppedDown(SameStack(pr[n], pr, K), ph, s.lv) ELSE s.lv,
         ld |-> [s.ld EXCEPT ![pr[n]] = n]]

\* Look at the letdown of key k, and clear the next of k's stack if it is free.
ClearAt(k, pr, K, s) ==
    LET next == NextUp(SameStack(k, pr, K), s.ph, s.lv)
    IN  IF s.ld[k] # NoOne \/ next = {} THEN {s} ELSE {Clear(n, pr, K, s) : n \in next}

\* _try_clear with no aircraft named: every key on the board, one at a time.
EveryStack(pr, K, s) ==
    LET keys == {pr[a] : a \in K}
        after[done \in SUBSET keys] ==
            IF done = {} THEN {s}
            ELSE UNION {UNION {ClearAt(k, pr, K, t) : t \in after[done \ {k}]} : k \in done}
    IN  after[keys]

\* _try_clear for the aircraft that asked.
ClearFor(c, pr, K, s) ==
    IF s.ld[pr[c]] = c /\ s.ph[c] = "HOLDING"
    THEN {[s EXCEPT !.ph[c] = "CLEARED"]}
    ELSE ClearAt(pr[c], pr, K, s)

---------------------------------------------------------------------------
(* A pilot's turn.  Before the engine hears him the plan he filed gives    *)
(* him its approach, if he is on the board by then; an approach he names   *)
(* is his if he still has none.                                            *)

PlanGives(c) ==
    IF c \in known /\ Filed[c] # NoField THEN [proc EXCEPT ![c] = Filed[c]] ELSE proc

Procedures(c, w) ==
    LET pr == PlanGives(c)
    IN  IF pr[c] = NoField /\ w # NoField THEN [pr EXCEPT ![c] = w] ELSE pr

Board(c) == known \cup {c}

\* The call leaves the board K, the procedures pr and one of the states S.
Becomes(K, pr, S) ==
    /\ known' = K
    /\ proc' = pr
    /\ \E t \in S : phase' = t.ph /\ level' = t.lv /\ letdown' = t.ld
    /\ strayed' = (\/ strayed
                   \/ \E a \in K : pr[a] = NoField
                   \/ \E a \in known \cap K : pr[a] # proc[a])

\* A bug: any phase is admitted to the arrival flow.
CheckInAnyway(c, w) ==
    /\ Becomes(Board(c), Procedures(c, w), {[Here EXCEPT !.ph[c] = "ENROUTE"]})
    /\ UNCHANGED tries

CheckIn(c, w) ==
    LET pr == Procedures(c, w)
        s == IF phase[c] \in {"CLEARED", "LANDED"} THEN Here
             ELSE [Here EXCEPT !.ph[c] = "ENROUTE"]
    IN  /\ Becomes(Board(c), pr, {Here, s})
        /\ UNCHANGED tries

\* A first report over the beacon: a level of his stack, and a look at every stack.
EnterStack(c, w) ==
    LET pr == Procedures(c, w)
        K == Board(c)
    IN  /\ phase[c] \in {"UNKNOWN", "ENROUTE"}
        /\ \/ \E x \in Slots :
                /\ FreeSlotFor(x, c, pr, K, Here)
                /\ Becomes(K, pr, EveryStack(pr, K, [Here EXCEPT !.ph[c] = "HOLDING",
                                                                 !.lv[c] = x]))
           \/ HasNoSlot(c, pr, K, Here) /\ Becomes(K, pr, {Here})
        /\ UNCHANGED tries

\* Without a procedure there is no level to miss to.
ReportMissed(c, w) ==
    LET pr == Procedures(c, w)
        K == Board(c)
        banished == tries[c] + 1 >= MaxApproaches
        to == CASE pr[c] = NoField -> NoLevel
                [] banished /\ pr[c] # NoField -> N
                [] OTHER -> MissedLevel
        s == [ph |-> [phase EXCEPT ![c] = IF banished THEN "HOLDING" ELSE "MISSED"],
              lv |-> [level EXCEPT ![c] = to],
              ld |-> Without(c, pr, letdown)]
    IN  /\ tries' = [tries EXCEPT ![c] = IF banished THEN MaxApproaches ELSE @ + 1]
        /\ Becomes(K, pr, EveryStack(pr, K, s))

ReportLanded(c, w) ==
    LET pr == Procedures(c, w)
        s == [Here EXCEPT !.ph[c] = "LANDED", !.ld = Without(c, pr, letdown)]
    IN  /\ Becomes(Board(c), pr, EveryStack(pr, Board(c), s))
        /\ UNCHANGED tries

RequestVisual(c, w) ==
    LET pr == Procedures(c, w)
        K == Board(c)
        k == pr[c]
        holding == [Here EXCEPT !.ph[c] = "HOLDING"]
    IN  /\ IF letdown[k] \in {NoOne, c}
           THEN Becomes(K, pr, {[Here EXCEPT !.ph[c] = "CLEARED", !.ld[k] = c]})
           ELSE \E x \in Levels :
                  /\ \/ level[c] # NoLevel /\ x = level[c]
                     \/ level[c] = NoLevel /\ FreeSlotFor(x, c, pr, K, holding)
                     \/ /\ level[c] = NoLevel /\ HasNoSlot(c, pr, K, holding)
                        /\ x = IF k = NoField THEN NoLevel ELSE 1
                  /\ Becomes(K, pr, {[holding EXCEPT !.lv[c] = x]})
        /\ UNCHANGED tries

\* Whether he asks for another approach than the one he is cleared for: that of
\* another aerodrome is another, and there may be two at his own.
AsksAgain(c, w) ==
    IF phase[c] # "CLEARED" \/ w = NoField THEN {FALSE}
    ELSE IF w = PlanGives(c)[c] THEN BOOLEAN ELSE {TRUE}

\* Cleared already, he is told to continue -- or, asking for another approach, is
\* given it and starts again: the letdown he gives up is the one of the NEW key.
\* Not identified by radar he gets no further than that, nor does anybody else.
RequestApproach(c, w) ==
    /\ \E again \in AsksAgain(c, w) :
        LET pr == IF w # NoField THEN [PlanGives(c) EXCEPT ![c] = w] ELSE PlanGives(c)
            K == Board(c)
            s == IF again
                 THEN [Here EXCEPT !.ph[c] = "ENROUTE", !.ld = Without(c, pr, letdown)]
                 ELSE Here
        IN  \/ ~again /\ Becomes(K, PlanGives(c), {s})
            \/ again /\ Becomes(K, pr, {s})
            \/ /\ phase[c] # "CLEARED" \/ again
               /\ \/ \E x \in Slots :
                       /\ s.ph[c] \in {"UNKNOWN", "ENROUTE"} /\ FreeSlotFor(x, c, pr, K, s)
                       /\ Becomes(K, pr, ClearFor(c, pr, K, [s EXCEPT !.ph[c] = "HOLDING",
                                                                      !.lv[c] = x]))
                  \/ /\ s.ph[c] \in {"UNKNOWN", "ENROUTE"} => HasNoSlot(c, pr, K, s)
                     /\ Becomes(K, pr, ClearFor(c, pr, K, s))
    /\ UNCHANGED tries

---------------------------------------------------------------------------
(* Radar, and the sweep of the silent.                                     *)

\* Radar needs his procedure to see him established on it.
SeenOnFinal(c) ==
    /\ c \in known /\ proc[c] # NoField
    /\ phase[c] \notin {"CLEARED", "LANDED"}
    /\ Becomes(known, proc, {[Here EXCEPT !.ph[c] = "CLEARED", !.lv[c] = NoLevel,
                                          !.ld[proc[c]] = c]})
    /\ UNCHANGED tries

Release(c) ==
    /\ c \in known
    /\ tries' = [tries EXCEPT ![c] = 0]
    /\ Becomes(known \ {c}, [proc EXCEPT ![c] = NoField],
               {[ph |-> [phase EXCEPT ![c] = "UNKNOWN"], lv |-> [level EXCEPT ![c] = NoLevel],
                 ld |-> Without(c, proc, letdown)]})

Call(c) ==
    \/ \E w \in Asks \cup {NoField} :
        \/ CheckIn(c, w) \/ EnterStack(c, w) \/ ReportMissed(c, w) \/ ReportLanded(c, w)
        \/ RequestVisual(c, w) \/ RequestApproach(c, w)
    \/ SeenOnFinal(c) \/ Release(c)

Next == \E c \in Callsigns : Call(c)

Spec == Init /\ [][Next]_vars

---------------------------------------------------------------------------

TypeOK ==
    /\ known \in SUBSET Callsigns
    /\ proc \in [Callsigns -> Keys]
    /\ phase \in [Callsigns -> Phases]
    /\ level \in [Callsigns -> Levels]
    /\ tries \in [Callsigns -> 0 .. MaxApproaches]
    /\ letdown \in [Keys -> Callsigns \cup {NoOne}]
    /\ strayed \in BOOLEAN

\* As long as everybody on the board has kept the procedure he came with, the
\* letdown of an aerodrome names an aircraft cleared for the approach THERE.
LetdownIsHis ==
    ~strayed => \A k \in Keys : letdown[k] # NoOne =>
        letdown[k] \in known /\ phase[letdown[k]] = "CLEARED" /\ proc[letdown[k]] = k

\* ... and a call about one aerodrome changes nothing at another where somebody
\* is on the approach: not its letdown, nor a phase, nor a level.
FieldsIndependent ==
    [][ ~strayed' => \A f \in Aerodromes :
          (/\ letdown[f] # NoOne
           /\ \/ letdown'[f] # letdown[f]
              \/ \E d \in known : proc[d] = f /\ (phase'[d] # phase[d] \/ level'[d] # level[d]))
          => \E c \in Callsigns : proc[c] = f /\ Call(c) ]_vars
=============================================================================
