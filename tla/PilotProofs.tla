----------------------------- MODULE PilotProofs -----------------------------
(***************************************************************************)
(* Theorems about what is on record of a pilot: first who he is taken for  *)
(* (Identity), then what he was cleared for and agreed to (Clearance).     *)
(* The two specifications share no variable and are proved about apart.    *)
(***************************************************************************)
EXTENDS Identity, Clearance, FiniteSetTheorems, TLAPS

-----------------------------------------------------------------------------
(* Identity, for any pilots, radios and flights: the types, one row for an   *)
(* aeroplane, and no aeroplane given away twice by elimination.  Each is     *)
(* inductive on top of the types; what a transmission does is stated once.   *)

LEMMA InitTypes == IdentityInit => IdentityTypeOK
BY NamesAssumption DEF IdentityInit, IdentityTypeOK, Names, Handles

\* A radio is resolved to an aeroplane or to none, under a handle or none.
LEMMA ResolvedTo ==
    ASSUME IdentityTypeOK, NEW p \in Pilots, NEW claims \in BOOLEAN
    PROVE  /\ Resolve(p, claims).track \in Pilots \cup {None}
           /\ Resolve(p, claims).label \in Handles \cup {None}
<1>1. UnitForRadio(p) \in Pilots \cup {None}
  BY DEF UnitForRadio
<1>2. ByElimination(p) \in Pilots \cup {None}
  <2> DEFINE free == painted \ {bound[q] : q \in Pilots \ {p}}
  <2>1. CASE Cardinality(free) = 1 /\ \E t \in free : TRUE
    <3>1. (CHOOSE t \in free : TRUE) \in free
      BY <2>1
    <3>2. QED
      BY <2>1, <3>1 DEF ByElimination, IdentityTypeOK
  <2>2. CASE Cardinality(free) # 1
    BY <2>2 DEF ByElimination
  <2>3. CASE free = {}
    <3>1. Cardinality(free) = 0
      BY <2>3, FS_EmptySet
    <3>2. QED
      BY <3>1 DEF ByElimination
  <2>4. QED
    BY <2>1, <2>2, <2>3
<1>3. bound[p] \in Pilots \cup {None} /\ Alias[p] \in Handles /\ Pilots \subseteq Handles
  BY DEF IdentityTypeOK, Handles
<1>4. QED
  BY <1>1, <1>2, <1>3 DEF Resolve

\* The controller takes somebody with a handle for a name the board may have.
LEMMA SpokenFor ==
    ASSUME NEW who \in Handles \cup {None}
    PROVE  SpeakingAs(who) \in Names \cup {None}
BY DEF SpeakingAs, Names

\* A transmission leaves the flights and the board well-typed.
LEMMA SpeakTypes ==
    ASSUME IdentityTypeOK, NEW p \in Pilots, NEW claims \in BOOLEAN, Speak(p, claims)
    PROVE  IdentityTypeOK'
<1> DEFINE who == Resolve(p, claims).label
           track == Resolve(p, claims).track
<1>1. who \in Handles \cup {None} /\ track \in Pilots \cup {None}
  BY ResolvedTo
<1>2. /\ bound' = [bound EXCEPT ![p] = track]
      /\ Membership(who, track)
      /\ BecomeTracked(SpeakingAs(who), track)
      /\ painted' = painted
  BY DEF Speak
<1>3. SpeakingAs(who) \in Names \cup {None}
  BY <1>1, SpokenFor
<1> HIDE DEF who, track
<1>4. bound' \in [Pilots -> Pilots \cup {None}]
  BY <1>1, <1>2 DEF IdentityTypeOK
<1>5. board' \in [Names -> Pilots \cup {None}]
  BY <1>1, <1>2, <1>3 DEF IdentityTypeOK, BecomeTracked
<1>6. /\ lead' \in [FlightNames -> Handles \cup {None}]
      /\ members' \in [FlightNames -> SUBSET Handles]
  <2>1. CASE UNCHANGED <<lead, members>>
    BY <2>1 DEF IdentityTypeOK
  <2>2. ASSUME who # None, NEW f \in FlightNames,
               Create(f, who) \/ Join(f, who, track) \/ Dissolve(f) \/ Leave(f, who)
        PROVE  /\ lead' \in [FlightNames -> Handles \cup {None}]
               /\ members' \in [FlightNames -> SUBSET Handles]
    <3>1. who \in Handles
      BY <1>1, <2>2
    <3>2. CASE Create(f, who)
      BY <3>1, <3>2 DEF Create, IdentityTypeOK
    <3>3. CASE Join(f, who, track)
      BY <3>1, <3>3 DEF Join, IdentityTypeOK
    <3>4. CASE Dissolve(f)
      BY <3>4 DEF Dissolve, IdentityTypeOK
    <3>5. CASE Leave(f, who)
      BY <3>1, <3>5 DEF Leave, Dissolve, IdentityTypeOK
    <3>6. QED
      BY <2>2, <3>2, <3>3, <3>4, <3>5
  <2>3. QED
    BY <1>2, <2>1, <2>2 DEF Membership
<1>7. QED
  BY <1>2, <1>4, <1>5, <1>6 DEF IdentityTypeOK

LEMMA StepTypes == IdentityTypeOK /\ [IdentityNext]_ivars => IdentityTypeOK'
<1> SUFFICES ASSUME IdentityTypeOK, [IdentityNext]_ivars PROVE IdentityTypeOK'
  OBVIOUS
<1>1. ASSUME NEW p \in Pilots, NEW claims \in BOOLEAN, Speak(p, claims) PROVE IdentityTypeOK'
  BY <1>1, SpeakTypes
<1>2. ASSUME NEW p \in Pilots, Appears(p) \/ Vanishes(p) PROVE IdentityTypeOK'
  BY <1>2 DEF Appears, Vanishes, IdentityTypeOK
<1>3. ASSUME NEW n \in Names, ReleaseStale(n) PROVE IdentityTypeOK'
  BY <1>3 DEF ReleaseStale, IdentityTypeOK
<1>4. CASE UNCHANGED ivars
  BY <1>4 DEF ivars, IdentityTypeOK
<1>5. QED
  BY <1>1, <1>2, <1>3, <1>4 DEF IdentityNext

\* The registry, the roster and the board are well-typed, for any pilots, radios
\* and flights.
THEOREM IdentityTypeCorrect == IdentitySpec => []IdentityTypeOK
BY InitTypes, StepTypes, PTL DEF IdentitySpec

-----------------------------------------------------------------------------
LEMMA StepOneRow == IdentityTypeOK /\ OneRowEach /\ [IdentityNext]_ivars => OneRowEach'
<1> SUFFICES ASSUME IdentityTypeOK, OneRowEach, [IdentityNext]_ivars PROVE OneRowEach'
  OBVIOUS
<1>1. ASSUME NEW p \in Pilots, NEW claims \in BOOLEAN, Speak(p, claims) PROVE OneRowEach'
  <2> DEFINE known == SpeakingAs(Resolve(p, claims).label)
             track == Resolve(p, claims).track
  <2>1. known \in Names \cup {None} /\ BecomeTracked(known, track)
    BY <1>1, ResolvedTo, SpokenFor DEF Speak
  <2> HIDE DEF known, track
  <2>2. CASE board' = board
    BY <2>2 DEF OneRowEach
  <2>3. CASE /\ known \in Names
             /\ board' = [board EXCEPT ![known] = track]
             /\ \A n \in Names \ {known} : board[n] # track
    BY <2>3 DEF OneRowEach, IdentityTypeOK
  <2>4. QED
    BY <2>1, <2>2, <2>3 DEF BecomeTracked
<1>2. ASSUME NEW p \in Pilots, Appears(p) \/ Vanishes(p) PROVE OneRowEach'
  BY <1>2 DEF Appears, Vanishes, OneRowEach
<1>3. ASSUME NEW n \in Names, ReleaseStale(n) PROVE OneRowEach'
  BY <1>3 DEF ReleaseStale, OneRowEach, IdentityTypeOK
<1>4. CASE UNCHANGED ivars
  BY <1>4 DEF ivars, OneRowEach
<1>5. QED
  BY <1>1, <1>2, <1>3, <1>4 DEF IdentityNext

\* However names, radios and flights change, no aeroplane has two rows on the
\* board: become_tracked looks at every row before it makes one.
THEOREM IdentityOneRowEach == IdentitySpec => []OneRowEach
<1>1. IdentityInit => OneRowEach
  BY DEF IdentityInit, OneRowEach
<1>2. QED
  BY <1>1, StepOneRow, IdentityTypeCorrect, PTL DEF IdentitySpec

-----------------------------------------------------------------------------
\* What elimination gives away nobody else has.
LEMMA EliminatedIsFree ==
    ASSUME IdentityTypeOK, NEW p \in Pilots, ByElimination(p) # None
    PROVE  \A q \in Pilots \ {p} : bound[q] # ByElimination(p)
<1> DEFINE free == painted \ {bound[q] : q \in Pilots \ {p}}
<1>1. Cardinality(free) = 1 /\ ByElimination(p) = CHOOSE t \in free : TRUE
  BY DEF ByElimination
<1>2. free # {}
  BY <1>1, FS_EmptySet
<1>3. ByElimination(p) \in free
  BY <1>1, <1>2
<1>4. QED
  BY <1>3

LEMMA StepEliminated == IdentityTypeOK /\ EliminatedOnce /\ [IdentityNext]_ivars => EliminatedOnce'
<1> SUFFICES ASSUME IdentityTypeOK, EliminatedOnce, [IdentityNext]_ivars PROVE EliminatedOnce'
  OBVIOUS
<1>1. ASSUME NEW p \in Pilots, NEW claims \in BOOLEAN, Speak(p, claims) PROVE EliminatedOnce'
  <2> DEFINE track == Resolve(p, claims).track
  <2>1. bound' = [bound EXCEPT ![p] = track]
    BY <1>1 DEF Speak
  <2>2. \/ track = None
        \/ track = p /\ Alias[p] = p
        \/ track = bound[p]
        \/ \A q \in Pilots \ {p} : bound[q] # track
    <3>1. CASE UnitForRadio(p) # None
      <4>1. UnitForRadio(p) = p /\ Alias[p] = p
        BY <3>1 DEF UnitForRadio
      <4>2. track = UnitForRadio(p)
        BY <3>1 DEF Resolve
      <4>3. QED
        BY <4>1, <4>2
    <3>2. CASE UnitForRadio(p) = None /\ bound[p] = None /\ ByElimination(p) # None
      <4>1. track = ByElimination(p)
        BY <3>2 DEF Resolve
      <4>2. QED
        BY <3>2, <4>1, EliminatedIsFree
    <3>3. CASE UnitForRadio(p) = None /\ ~(bound[p] = None /\ ByElimination(p) # None)
      BY <3>3 DEF Resolve
    <3>4. QED
      BY <3>1, <3>2, <3>3
  <2> HIDE DEF track
  <2>3. QED
    BY <2>1, <2>2 DEF EliminatedOnce, IdentityTypeOK
<1>2. ASSUME NEW p \in Pilots, Appears(p) \/ Vanishes(p) PROVE EliminatedOnce'
  BY <1>2 DEF Appears, Vanishes, EliminatedOnce
<1>3. ASSUME NEW n \in Names, ReleaseStale(n) PROVE EliminatedOnce'
  BY <1>3 DEF ReleaseStale, EliminatedOnce
<1>4. CASE UNCHANGED ivars
  BY <1>4 DEF ivars, EliminatedOnce
<1>5. QED
  BY <1>1, <1>2, <1>3, <1>4 DEF IdentityNext

\* Two radios are taken for one aeroplane only if it is one of theirs and that one
\* bears its pilot's name: by_elimination gives away what no other radio was
\* resolved to, so that no two radios come to one person by elimination.
THEOREM IdentityEliminatedOnce == IdentitySpec => []EliminatedOnce
<1>1. IdentityInit => EliminatedOnce
  BY DEF IdentityInit, EliminatedOnce
<1>2. QED
  BY <1>1, StepEliminated, IdentityTypeCorrect, PTL DEF IdentitySpec

-----------------------------------------------------------------------------
(* Clearance, for any plans, seats and read-backs, and any number of faults *)
(* and restarts: the types, and that nobody is cleared to taxi on a          *)
(* clearance the board does not hold as agreed.                             *)
(*                                                                         *)
(* The agreement has two copies that are written at different times, the    *)
(* row's and the engine's, so TaxiIsAgreed does not keep itself.  What does  *)
(* (IInv) is that the engine believes in an agreement only if the row has   *)
(* it or has been amended since (OnceAgreed), and that nothing of a          *)
(* clearance is anywhere before the first is issued (NothingBefore).        *)
(*                                                                         *)
(* On top of that stand the two properties of the copies he is judged by.    *)
(* CacheIsOneTurnOld keeps itself, given IInv.  AgreedToWhatWasGiven needs   *)
(* what links the copies while there has been one clearance (OfTheFirst):    *)
(* the engine and the cache have its level or none, and no word of it counts *)
(* that he has not spoken since it was read to him.                         *)

OnceAgreed ==
    engine.agreed = "yes" => row.issued /\ (row.ack \/ spent.issues >= 2)

NothingBefore ==
    /\ row.issued => spent.issues >= 1
    /\ (row.ack \/ row.level # NoLevel \/ engine.level # NoLevel \/ cache # NoPlan)
         => row.issued

IInv == TypeOK /\ OnceAgreed /\ NothingBefore /\ TaxiIsAgreed

-----------------------------------------------------------------------------
LEMMA BoundsAre ==
    MaxIssues \in Nat /\ MaxFaults \in Nat /\ MaxRestarts \in Nat /\ MaxStray \in Nat
BY ClearanceConstants

LEMMA InitHolds == Init => IInv
<1> SUFFICES ASSUME Init PROVE IInv
  OBVIOUS
<1>1. /\ row.issued = FALSE /\ row.ack = FALSE /\ row.level = NoLevel
      /\ engine.agreed = "never" /\ engine.level = NoLevel /\ cache = NoPlan
      /\ turn.taxi = FALSE
  BY DEF Init, Idle
<1>2. OnceAgreed /\ NothingBefore /\ TaxiIsAgreed
  BY <1>1 DEF OnceAgreed, NothingBefore, TaxiIsAgreed
<1>3. cache \in Plans /\ turn \in [step : {"idle", "heard", "filed"},
                                  seat : SUBSET {"clearance", "ground"},
                                  read : BOOLEAN, taxi : BOOLEAN]
  BY DEF Init, Plans, NoPlan, Idle
<1>4. spent \in [issues : 0..MaxIssues, faults : 0..MaxFaults,
                restarts : 0..MaxRestarts, stray : 0..MaxStray]
  <2>1. 0 \in 0..MaxIssues /\ 0 \in 0..MaxFaults /\ 0 \in 0..MaxRestarts /\ 0 \in 0..MaxStray
    BY BoundsAre
  <2>2. QED
    BY <2>1 DEF Init
<1>5. TypeOK
  BY <1>3, <1>4 DEF Init, TypeOK
<1>6. QED
  BY <1>2, <1>5 DEF IInv

LEMMA SpentIs ==
    ASSUME TypeOK
    PROVE  /\ spent.issues \in 0..MaxIssues /\ spent.faults \in 0..MaxFaults
           /\ spent.restarts \in 0..MaxRestarts /\ spent.stray \in 0..MaxStray
BY DEF TypeOK

\* Faults are the only count a turn's request adds to.
LEMMA CostsKeeps ==
    ASSUME TypeOK, NEW n \in 0..2, Costs(n)
    PROVE  /\ spent' \in [issues : 0..MaxIssues, faults : 0..MaxFaults,
                          restarts : 0..MaxRestarts, stray : 0..MaxStray]
           /\ spent'.issues = spent.issues
<1>1. spent.faults + n \in 0..MaxFaults
  BY BoundsAre, SpentIs DEF Costs
<1>2. QED
  BY <1>1 DEF Costs, TypeOK

LEMMA CostIs == \A ok \in BOOLEAN : Cost(ok) \in 0..1
BY DEF Cost

\* What a turn's first read tells the engine is as true as the row.
LEMMA NotedIs ==
    ASSUME IInv, NEW ok \in BOOLEAN
    PROVE  /\ Noted(ok) \in {"never", "no", "yes"}
           /\ Noted(ok) = "yes" => row.issued /\ (row.ack \/ (~ok /\ spent.issues >= 2))
BY DEF Noted, IInv, TypeOK, OnceAgreed, NothingBefore

\* What is judged has been issued.
LEMMA JudgedIs ==
    ASSUME IInv, NEW ok \in BOOLEAN, Judged(ok) # NoPlan
    PROVE  row.issued
BY DEF Judged, PlanNow, IInv, NothingBefore

LEMMA GivenKept ==
    ASSUME TypeOK, NEW words \in SUBSET Elements, Hears(words)
    PROVE  given' \in [level : Levels \cup {NoLevel}, words : SUBSET Elements]
<1>1. given.words \cup (words \cap {given.level, Code}) \in SUBSET Elements
  BY DEF TypeOK
<1>2. QED
  BY <1>1 DEF Hears, TypeOK

\* A turn that leaves the row and the cache alone: the engine is told what the
\* row says, goes to some rung, and a taxi clearance needs what it was told.
LEMMA HeardKeeps ==
    ASSUME IInv, NEW seat \in Seats, NEW ok \in BOOLEAN, NEW taxi \in BOOLEAN,
           NEW rung \in {"", "clearance", "taxi"},
           engine' = [engine EXCEPT !.agreed = Noted(ok), !.rung = rung],
           Heard(seat, ok, taxi), taxi => Noted(ok) = "yes",
           UNCHANGED <<row, cache>>,
           said' \in SUBSET Elements,
           given' \in [level : Levels \cup {NoLevel}, words : SUBSET Elements],
           spent' \in [issues : 0..MaxIssues, faults : 0..MaxFaults,
                       restarts : 0..MaxRestarts, stray : 0..MaxStray],
           spent'.issues = spent.issues
    PROVE  IInv'
<1>1. /\ Noted(ok) \in {"never", "no", "yes"}
      /\ Noted(ok) = "yes" => row.issued /\ (row.ack \/ (~ok /\ spent.issues >= 2))
  BY NotedIs
<1>2. /\ engine' \in [agreed : {"never", "no", "yes"}, rung : {"", "clearance", "taxi"},
                      level : Levels \cup {NoLevel}]
      /\ engine'.agreed = Noted(ok) /\ engine'.level = engine.level
  BY <1>1 DEF IInv, TypeOK
<1>3. /\ turn' \in [step : {"idle", "heard", "filed"}, seat : SUBSET {"clearance", "ground"},
                    read : BOOLEAN, taxi : BOOLEAN]
      /\ turn'.taxi = taxi /\ turn'.read = ok
  BY ClearanceConstants DEF Heard
<1>4. TypeOK'
  BY <1>2, <1>3 DEF IInv, TypeOK
<1>5. OnceAgreed' /\ TaxiIsAgreed'
  BY <1>1, <1>2, <1>3 DEF OnceAgreed, TaxiIsAgreed
<1>6. NothingBefore'
  BY <1>2 DEF IInv, NothingBefore
<1>7. QED
  BY <1>4, <1>5, <1>6 DEF IInv

\* Nothing said of a clearance: the engine's rung is what the call leaves.
LEMMA SilentTurnKeeps ==
    ASSUME IInv, NEW seat \in Seats, NEW ok \in BOOLEAN,
           RequestClearance(seat, ok) \/ OtherCall(seat, ok) \/ RequestTaxi(seat, ok)
    PROVE  IInv'
<1>1. /\ spent' \in [issues : 0..MaxIssues, faults : 0..MaxFaults,
                     restarts : 0..MaxRestarts, stray : 0..MaxStray]
      /\ spent'.issues = spent.issues
  <2>1. Costs(Cost(ok)) /\ Cost(ok) \in 0..2
    <3>1. Cost(ok) \in 0..2
      BY CostIs
    <3>2. Costs(Cost(ok))
      BY Zenon DEF RequestClearance, OtherCall, RequestTaxi
    <3>3. QED
      BY <3>1, <3>2
  <2>2. QED
    BY <2>1, CostsKeeps DEF IInv
<1>2. UNCHANGED <<row, cache, said, given>>
  BY DEF RequestClearance, OtherCall, RequestTaxi
<1>3. said' \in SUBSET Elements /\ given' \in [level : Levels \cup {NoLevel}, words : SUBSET Elements]
  BY <1>2 DEF IInv, TypeOK
<1>4. \E rung \in {"", "clearance", "taxi"}, taxi \in BOOLEAN :
         /\ engine' = [engine EXCEPT !.agreed = Noted(ok), !.rung = rung]
         /\ Heard(seat, ok, taxi) /\ (taxi => Noted(ok) = "yes")
  <2>1. CASE RequestClearance(seat, ok)
    BY <2>1 DEF RequestClearance
  <2>2. CASE OtherCall(seat, ok)
    <3>1. engine' = [engine EXCEPT !.agreed = Noted(ok), !.rung = engine.rung]
          /\ engine.rung \in {"", "clearance", "taxi"}
      BY <2>2 DEF OtherCall, IInv, TypeOK
    <3>2. QED
      BY <2>2, <3>1 DEF OtherCall
  <2>3. CASE RequestTaxi(seat, ok)
    BY <2>3 DEF RequestTaxi, MayTaxi, RungAfter
  <2>4. QED
    BY <2>1, <2>2, <2>3
<1>5. QED
  BY <1>1, <1>2, <1>3, <1>4, HeardKeeps

LEMMA AstrayKeeps ==
    ASSUME IInv, NEW seat \in Seats, RequestTaxiAstray(seat)
    PROVE  IInv'
<1>1. /\ spent' \in [issues : 0..MaxIssues, faults : 0..MaxFaults,
                     restarts : 0..MaxRestarts, stray : 0..MaxStray]
      /\ spent'.issues = spent.issues
  <2>1. spent.stray + 1 \in 0..MaxStray
    BY BoundsAre, SpentIs DEF RequestTaxiAstray, IInv
  <2>2. QED
    BY <2>1 DEF RequestTaxiAstray, IInv, TypeOK
<1>2. said' \in SUBSET Elements /\ given' \in [level : Levels \cup {NoLevel}, words : SUBSET Elements]
  BY DEF RequestTaxiAstray, IInv, TypeOK
<1>3. QED
  BY <1>1, <1>2, HeardKeeps DEF RequestTaxiAstray

LEMMA ShortKeeps ==
    ASSUME IInv, NEW seat \in Seats, NEW ok \in BOOLEAN, NEW words \in SUBSET Elements,
           ReadBackShort(seat, ok, words)
    PROVE  IInv'
<1>1. /\ spent' \in [issues : 0..MaxIssues, faults : 0..MaxFaults,
                     restarts : 0..MaxRestarts, stray : 0..MaxStray]
      /\ spent'.issues = spent.issues
  <2>1. Costs(Cost(ok)) /\ Cost(ok) \in 0..2
    BY CostIs DEF ReadBackShort
  <2>2. QED
    BY <2>1, CostsKeeps DEF IInv
<1>2. said' \in SUBSET Elements /\ UNCHANGED <<row, cache>>
  BY DEF ReadBackShort, IInv, TypeOK
<1>3. given' \in [level : Levels \cup {NoLevel}, words : SUBSET Elements]
  BY GivenKept DEF ReadBackShort, IInv
<1>4. /\ engine' = [engine EXCEPT !.agreed = Noted(ok), !.rung = engine.rung]
      /\ engine.rung \in {"", "clearance", "taxi"} /\ Heard(seat, ok, FALSE)
  BY DEF ReadBackShort, IInv, TypeOK
<1>5. QED
  BY <1>1, <1>2, <1>3, <1>4, HeardKeeps

\* The agreement is written on a row that has a clearance, and believed by the
\* engine only with the board's answer.
LEMMA WholeKeeps ==
    ASSUME IInv, NEW seat \in Seats, NEW ok \in BOOLEAN, NEW words \in SUBSET Elements,
           NEW answer \in Answers, ReadBackWhole(seat, ok, words, answer)
    PROVE  IInv'
<1>1. row.issued
  BY JudgedIs DEF ReadBackWhole, IsJudged
<1>2. /\ spent' \in [issues : 0..MaxIssues, faults : 0..MaxFaults,
                     restarts : 0..MaxRestarts, stray : 0..MaxStray]
      /\ spent'.issues = spent.issues
  <2>1. Cost(ok) + Cost(answer = "done") \in 0..2
    BY DEF Cost
  <2>2. QED
    BY <2>1, CostsKeeps DEF ReadBackWhole, IInv
<1>3. given' \in [level : Levels \cup {NoLevel}, words : SUBSET Elements]
  BY GivenKept DEF ReadBackWhole, IInv
<1>4. row' = [row EXCEPT !.ack = row.ack \/ answer # "failed"] /\ UNCHANGED cache
  BY DEF ReadBackWhole, Record
<1>5. /\ row' \in [issued : BOOLEAN, level : Levels \cup {NoLevel}, ack : BOOLEAN,
                   rung : {"", "clearance", "taxi"}]
      /\ row'.issued = row.issued /\ row'.level = row.level
      /\ row'.ack = (row.ack \/ answer # "failed")
  BY <1>4 DEF IInv, TypeOK
<1>6. /\ Noted(ok) \in {"never", "no", "yes"}
      /\ Noted(ok) = "yes" => row.issued /\ (row.ack \/ (~ok /\ spent.issues >= 2))
  BY NotedIs
<1>7. /\ engine' \in [agreed : {"never", "no", "yes"}, rung : {"", "clearance", "taxi"},
                      level : Levels \cup {NoLevel}]
      /\ engine'.agreed = IF answer = "done" THEN "yes" ELSE Noted(ok)
      /\ engine'.level = engine.level
      /\ said' \in SUBSET Elements
  <2>1. CASE answer = "done"
    <3>1. engine' = [engine EXCEPT !.agreed = "yes", !.rung = "taxi"] /\ said' = {}
      BY <2>1 DEF ReadBackWhole, Record
    <3>2. QED
      BY <2>1, <3>1 DEF IInv, TypeOK
  <2>2. CASE answer # "done"
    BY <2>2, <1>6 DEF ReadBackWhole, Record, IInv, TypeOK
  <2>3. QED
    BY <2>1, <2>2
<1>8. /\ turn' \in [step : {"idle", "heard", "filed"}, seat : SUBSET {"clearance", "ground"},
                    read : BOOLEAN, taxi : BOOLEAN]
      /\ ~turn'.taxi
  BY ClearanceConstants DEF ReadBackWhole, Heard
<1>9. TypeOK'
  BY <1>2, <1>3, <1>4, <1>5, <1>7, <1>8 DEF IInv, TypeOK
<1>10. OnceAgreed' /\ TaxiIsAgreed'
  BY <1>1, <1>2, <1>5, <1>6, <1>7, <1>8 DEF OnceAgreed, TaxiIsAgreed
<1>11. NothingBefore'
  BY <1>1, <1>2, <1>4, <1>5, <1>7 DEF IInv, NothingBefore
<1>12. QED
  BY <1>9, <1>10, <1>11 DEF IInv

LEMMA FileKeeps ==
    ASSUME IInv, NEW found \in BOOLEAN, NEW written \in BOOLEAN, File(found, written)
    PROVE  IInv'
<1>1. /\ spent' \in [issues : 0..MaxIssues, faults : 0..MaxFaults,
                     restarts : 0..MaxRestarts, stray : 0..MaxStray]
      /\ spent'.issues = spent.issues
  <2>1. Cost(found /\ written) \in 0..2
    BY DEF Cost
  <2>2. QED
    BY <2>1, CostsKeeps DEF File, IInv
<1>2. Cached \in Plans /\ (Cached # NoPlan => row.issued)
  <2>1. ({row.level, Mhz} \cup IF row.issued THEN {Code} ELSE {}) \ {NoLevel} \in SUBSET Elements
    BY DEF IInv, TypeOK, Elements
  <2>2. QED
    BY <2>1 DEF Cached, Plans, IInv, TypeOK, NothingBefore
<1>3. cache' \in Plans /\ (cache' # NoPlan => row.issued)
  BY <1>2 DEF File, Filed, IInv, TypeOK, NothingBefore
<1>4. /\ row' \in [issued : BOOLEAN, level : Levels \cup {NoLevel}, ack : BOOLEAN,
                   rung : {"", "clearance", "taxi"}]
      /\ row'.issued = row.issued /\ row'.ack = row.ack
      /\ row'.level \in {row.level, engine.level}
  BY DEF File, Filed, IInv, TypeOK
<1>5. /\ turn' \in [step : {"idle", "heard", "filed"}, seat : SUBSET {"clearance", "ground"},
                    read : BOOLEAN, taxi : BOOLEAN]
      /\ turn'.taxi = turn.taxi /\ turn'.read = turn.read
      /\ UNCHANGED <<engine, said, given>>
  BY DEF File, IInv, TypeOK
<1>6. TypeOK'
  BY <1>1, <1>3, <1>4, <1>5 DEF IInv, TypeOK
<1>7. OnceAgreed' /\ TaxiIsAgreed'
  BY <1>1, <1>4, <1>5 DEF IInv, OnceAgreed, TaxiIsAgreed
<1>8. NothingBefore'
  BY <1>1, <1>3, <1>4, <1>5 DEF IInv, NothingBefore
<1>9. QED
  BY <1>6, <1>7, <1>8 DEF IInv

\* An amendment takes the agreement off the row and leaves the engine its own:
\* by then two clearances have been issued.
LEMMA IssueKeeps ==
    ASSUME IInv, NEW level \in Levels, NEW done \in 1..3, Issue(level, done)
    PROVE  IInv'
<1>1. /\ spent' \in [issues : 0..MaxIssues, faults : 0..MaxFaults,
                     restarts : 0..MaxRestarts, stray : 0..MaxStray]
      /\ spent'.issues = spent.issues + 1
  <2>1. spent.issues + 1 \in 0..MaxIssues
    BY BoundsAre, SpentIs DEF Issue, IInv
  <2>2. spent.faults + Cost(done = 3) \in 0..MaxFaults
    BY BoundsAre, SpentIs DEF Issue, IInv, Cost
  <2>3. QED
    BY <2>1, <2>2 DEF Issue, IInv, TypeOK
<1>2. /\ row' \in [issued : BOOLEAN, level : Levels \cup {NoLevel}, ack : BOOLEAN,
                   rung : {"", "clearance", "taxi"}]
      /\ row'.issued
  BY DEF Issue, Issued, IInv, TypeOK
<1>3. /\ given' \in [level : Levels \cup {NoLevel}, words : SUBSET Elements]
      /\ turn' = Idle /\ UNCHANGED <<engine, cache, said>>
  BY DEF Issue, IInv, TypeOK
<1>4. TypeOK'
  BY <1>1, <1>2, <1>3 DEF IInv, TypeOK, Idle
<1>5. OnceAgreed'
  <2>1. engine.agreed = "yes" => spent.issues + 1 >= 2
    BY BoundsAre, SpentIs DEF IInv, OnceAgreed, NothingBefore
  <2>2. QED
    BY <1>1, <1>2, <1>3, <2>1 DEF OnceAgreed
<1>6. TaxiIsAgreed'
  BY <1>3 DEF TaxiIsAgreed, Idle
<1>7. NothingBefore'
  <2>1. spent.issues + 1 >= 1
    BY BoundsAre, SpentIs DEF IInv
  <2>2. QED
    BY <1>1, <1>2, <2>1 DEF NothingBefore
<1>8. QED
  BY <1>4, <1>5, <1>6, <1>7 DEF IInv

LEMMA RestartKeeps ==
    ASSUME IInv, NEW ok \in BOOLEAN, Restart(ok) PROVE IInv'
<1>1. /\ spent' \in [issues : 0..MaxIssues, faults : 0..MaxFaults,
                     restarts : 0..MaxRestarts, stray : 0..MaxStray]
      /\ spent'.issues = spent.issues
  <2>1. /\ spent.restarts < MaxRestarts /\ spent.faults + Cost(ok) <= MaxFaults
        /\ spent' = [spent EXCEPT !.restarts = @ + 1, !.faults = @ + Cost(ok)]
    BY DEF Restart
  <2>2. /\ TypeOK /\ Cost(ok) \in 0..1
    BY CostIs DEF IInv
  <2>3. spent.restarts + 1 \in 0..MaxRestarts
    BY <2>1, <2>2, BoundsAre, SpentIs
  <2>4. spent.faults + Cost(ok) \in 0..MaxFaults
    BY <2>1, <2>2, BoundsAre, SpentIs
  <2>5. QED
    BY <2>1, <2>2, <2>3, <2>4 DEF TypeOK
<1>2. /\ engine' \in [agreed : {"never", "no", "yes"}, rung : {"", "clearance", "taxi"},
                      level : Levels \cup {NoLevel}]
      /\ engine'.agreed = "yes" => row.ack
      /\ engine'.level # NoLevel => row.level # NoLevel
  BY DEF Restart, Hydrated, IInv, TypeOK
<1>3. cache' = NoPlan /\ said' = {} /\ turn' = Idle /\ UNCHANGED <<row, given>>
  BY DEF Restart
<1>4. TypeOK'
  BY <1>1, <1>2, <1>3 DEF IInv, TypeOK, Idle, NoPlan, Plans
<1>5. OnceAgreed' /\ NothingBefore'
  BY <1>1, <1>2, <1>3 DEF IInv, OnceAgreed, NothingBefore
<1>6. TaxiIsAgreed'
  BY <1>3 DEF TaxiIsAgreed, Idle
<1>7. QED
  BY <1>4, <1>5, <1>6 DEF IInv

-----------------------------------------------------------------------------
LEMMA StepHolds == IInv /\ [Next]_vars => IInv'
<1> SUFFICES ASSUME IInv, [Next]_vars PROVE IInv'
  OBVIOUS
<1>1. ASSUME NEW seat \in Seats, NEW ok \in BOOLEAN,
             RequestClearance(seat, ok) \/ OtherCall(seat, ok) \/ RequestTaxi(seat, ok)
      PROVE  IInv'
  BY <1>1, SilentTurnKeeps
<1>2. ASSUME NEW seat \in Seats, RequestTaxiAstray(seat) PROVE IInv'
  BY <1>2, AstrayKeeps
<1>3. ASSUME NEW seat \in Seats, NEW ok \in BOOLEAN, NEW words \in Utterances,
             \/ ReadBackShort(seat, ok, words)
             \/ \E answer \in Answers : ReadBackWhole(seat, ok, words, answer)
      PROVE  IInv'
  <2>1. words \in SUBSET Elements
    BY ClearanceConstants DEF Elements, Code, Mhz
  <2>2. QED
    BY <1>3, <2>1, ShortKeeps, WholeKeeps
<1>4. ASSUME NEW found \in BOOLEAN, NEW written \in BOOLEAN, File(found, written) PROVE IInv'
  BY <1>4, FileKeeps
<1>5. ASSUME NEW level \in Levels, NEW done \in 1..3, Issue(level, done) PROVE IInv'
  BY <1>5, IssueKeeps
<1>6. CASE Reply
  BY <1>6 DEF Reply, IInv, TypeOK, OnceAgreed, NothingBefore, TaxiIsAgreed, Idle
<1>7. ASSUME NEW ok \in BOOLEAN, Restart(ok) PROVE IInv'
  BY <1>7, RestartKeeps
<1>8. CASE UNCHANGED vars
  <2>1. UNCHANGED <<row, engine, cache, said, turn, given, spent>>
    BY <1>8 DEF vars
  <2>2. TypeOK'
    <3>1. TypeOK
      BY DEF IInv
    <3>2. row' = row /\ engine' = engine /\ cache' = cache /\ said' = said
      BY <2>1
    <3>3. turn' = turn /\ given' = given /\ spent' = spent
      BY <2>1
    <3>4. /\ row' \in [issued : BOOLEAN, level : Levels \cup {NoLevel}, ack : BOOLEAN,
                      rung : {"", "clearance", "taxi"}]
          /\ engine' \in [agreed : {"never", "no", "yes"}, rung : {"", "clearance", "taxi"},
                         level : Levels \cup {NoLevel}]
          /\ cache' \in Plans /\ said' \subseteq Elements
      BY <3>1, <3>2 DEF TypeOK
    <3>5. /\ turn' \in [step : {"idle", "heard", "filed"}, seat : SUBSET {"clearance", "ground"},
                       read : BOOLEAN, taxi : BOOLEAN]
          /\ given' \in [level : Levels \cup {NoLevel}, words : SUBSET Elements]
          /\ spent' \in [issues : 0..MaxIssues, faults : 0..MaxFaults,
                        restarts : 0..MaxRestarts, stray : 0..MaxStray]
      BY <3>1, <3>3 DEF TypeOK
    <3>6. QED
      BY <3>4, <3>5 DEF TypeOK
  <2>3. OnceAgreed' /\ TaxiIsAgreed'
    BY <2>1 DEF IInv, OnceAgreed, TaxiIsAgreed
  <2>4. NothingBefore'
    BY <2>1 DEF IInv, NothingBefore
  <2>5. QED
    BY <2>2, <2>3, <2>4 DEF IInv
<1>9. QED
  BY <1>1, <1>2, <1>3, <1>4, <1>5, <1>6, <1>7, <1>8 DEF Next, Hear

LEMMA AlwaysHolds == Spec => []IInv
BY InitHolds, StepHolds, PTL DEF Spec

\* The row, the engine, the cache and the turn are well-formed, for any plans,
\* seats, read-backs and bounds.
THEOREM ClearanceTypeCorrect == Spec => []TypeOK
<1>1. IInv => TypeOK
  BY DEF IInv
<1>2. QED
  BY <1>1, AlwaysHolds, PTL

\* Nobody is cleared to taxi (request_taxi) on a clearance the board does not hold
\* as agreed, but in a turn that could not read the board after an amendment.
THEOREM ClearanceTaxiIsAgreed == Spec => []TaxiIsAgreed
<1>1. IInv => TaxiIsAgreed
  BY DEF IInv
<1>2. QED
  BY <1>1, AlwaysHolds, PTL

-----------------------------------------------------------------------------
(* The copies.                                                               *)

OfTheFirst ==
    /\ spent.issues = 0 => said = {}
    /\ spent.issues = 1 =>
        /\ engine.level \in {NoLevel, row.level}
        /\ cache # NoPlan /\ row.level # NoLevel => {row.level, Code} \subseteq cache.elements
        /\ said \cap {given.level, Code} \subseteq given.words

Copies == CacheIsOneTurnOld /\ OfTheFirst

LEMMA CodeIsSome == Code # NoLevel
BY DEF Code, NoLevel

LEMMA CopiesInit == Init => Copies
<1>1. ASSUME Init PROVE turn.step = "idle" /\ spent.issues = 0 /\ said = {}
  <2>1. turn = Idle /\ said = {}
    BY <1>1 DEF Init
  <2>2. spent.issues = 0
    BY <1>1 DEF Init
  <2>3. QED
    BY <2>1, <2>2 DEF Idle
<1>2. QED
  BY <1>1 DEF Copies, CacheIsOneTurnOld, OfTheFirst

\* Before the first clearance there is nothing to judge a read-back by.
LEMMA NothingToJudge ==
    ASSUME IInv, spent.issues = 0, NEW ok \in BOOLEAN
    PROVE  ~row.issued /\ Judged(ok) = NoPlan /\ cache = NoPlan /\ row.level = NoLevel
           /\ engine.level = NoLevel
BY JudgedIs DEF IInv, NothingBefore

\* What he is judged by, the first clearance once it is on the row, holds it whole.
LEMMA JudgedByTheFirst ==
    ASSUME IInv, Copies, NEW ok \in BOOLEAN, spent.issues = 1, row.level # NoLevel,
           Judged(ok) # NoPlan
    PROVE  {row.level, Code} \subseteq Judged(ok).elements
<1>1. CASE cache # NoPlan
  BY <1>1 DEF Judged, Copies, OfTheFirst
<1>2. CASE cache = NoPlan
  <2>1. Judged(ok) = PlanNow /\ row.issued
    BY <1>2 DEF Judged, PlanNow
  <2>2. PlanNow.elements = {row.level, Code} \ {NoLevel}
    BY <2>1 DEF PlanNow
  <2>3. QED
    BY <2>1, <2>2, CodeIsSome
<1>3. QED
  BY <1>1, <1>2

\* What a call leaves of the copies: the row and the cache as they were, and of
\* what he has said nothing that he has not said of this clearance.
LEMMA HearingKeeps ==
    ASSUME IInv, Copies,
           turn'.step = "heard", cache' = cache, row'.level = row.level,
           engine'.level = engine.level, spent'.issues = spent.issues,
           spent.issues = 0 => said' = {},
           spent.issues = 1 => said' \cap {given'.level, Code} \subseteq given'.words
    PROVE  Copies'
<1>1. CacheIsOneTurnOld'
  BY DEF CacheIsOneTurnOld
<1>2. OfTheFirst'
  BY DEF Copies, OfTheFirst
<1>3. QED
  BY <1>1, <1>2 DEF Copies

LEMMA SilentKeepsCopies ==
    ASSUME IInv, Copies, NEW seat \in Seats, NEW ok \in BOOLEAN,
           \/ RequestClearance(seat, ok) \/ OtherCall(seat, ok)
           \/ RequestTaxi(seat, ok) \/ RequestTaxiAstray(seat)
    PROVE  Copies' /\ row' = row
<1>1. UNCHANGED <<row, cache, said, given>>
  BY DEF RequestClearance, OtherCall, RequestTaxi, RequestTaxiAstray
<1>2. engine'.level = engine.level
  BY DEF RequestClearance, OtherCall, RequestTaxi, RequestTaxiAstray, IInv, TypeOK
<1>3. turn'.step = "heard"
  BY DEF RequestClearance, OtherCall, RequestTaxi, RequestTaxiAstray, Heard
<1>4. spent'.issues = spent.issues
  BY DEF RequestClearance, OtherCall, RequestTaxi, RequestTaxiAstray, Costs, IInv, TypeOK
<1>5. QED
  BY <1>1, <1>2, <1>3, <1>4, HearingKeeps DEF Copies, OfTheFirst

LEMMA ShortKeepsCopies ==
    ASSUME IInv, Copies, NEW seat \in Seats, NEW ok \in BOOLEAN, NEW words \in SUBSET Elements,
           ReadBackShort(seat, ok, words)
    PROVE  Copies' /\ row' = row
<1>1. row' = row /\ cache' = cache /\ turn'.step = "heard"
  BY DEF ReadBackShort, Heard
<1>2. engine'.level = engine.level /\ spent'.issues = spent.issues
  BY DEF ReadBackShort, Costs, IInv, TypeOK
<1>3. /\ given'.level = given.level
      /\ given'.words = given.words \cup (words \cap {given.level, Code})
  BY DEF ReadBackShort, Hears, IInv, TypeOK
<1>4. said' \in {said, said \cup words}
  BY DEF ReadBackShort
<1>5. spent.issues = 0 => said' = {}
  BY NothingToJudge DEF ReadBackShort, IsJudged, Copies, OfTheFirst
<1>6. spent.issues = 1 => said' \cap {given'.level, Code} \subseteq given'.words
  BY <1>3, <1>4 DEF Copies, OfTheFirst
<1>7. QED
  BY <1>1, <1>2, <1>5, <1>6, HearingKeeps

\* The one step that makes an agreement.
LEMMA WholeAgrees ==
    ASSUME IInv, Copies, NEW seat \in Seats, NEW ok \in BOOLEAN, NEW words \in SUBSET Elements,
           NEW answer \in Answers, ReadBackWhole(seat, ok, words, answer)
    PROVE  /\ Copies'
           /\ spent.issues = 1 /\ row.level = given.level /\ row.level # NoLevel
                => {given.level, Code} \subseteq given'.words
<1>1. cache' = cache /\ turn'.step = "heard" /\ row'.level = row.level
  BY DEF ReadBackWhole, Record, Heard, IInv, TypeOK
<1>2. engine'.level = engine.level /\ spent'.issues = spent.issues
  BY DEF ReadBackWhole, Record, Costs, IInv, TypeOK
<1>3. /\ given'.level = given.level
      /\ given'.words = given.words \cup (words \cap {given.level, Code})
  BY DEF ReadBackWhole, Hears, IInv, TypeOK
<1>4. said' \in {{}, said \cup words}
  BY DEF ReadBackWhole, Record
<1>5. spent.issues # 0
  BY NothingToJudge DEF ReadBackWhole, IsJudged
<1>6. spent.issues = 1 => said' \cap {given'.level, Code} \subseteq given'.words
  BY <1>3, <1>4 DEF Copies, OfTheFirst
<1>7. ASSUME spent.issues = 1, row.level = given.level, row.level # NoLevel
      PROVE  {given.level, Code} \subseteq given'.words
  <2>1. {row.level, Code} \subseteq said \cup words
    BY <1>7, JudgedByTheFirst DEF ReadBackWhole, IsJudged
  <2>2. QED
    BY <1>3, <1>7, <2>1 DEF Copies, OfTheFirst
<1>8. QED
  BY <1>1, <1>2, <1>5, <1>6, <1>7, HearingKeeps

LEMMA FileKeepsCopies ==
    ASSUME IInv, Copies, NEW found \in BOOLEAN, NEW written \in BOOLEAN, File(found, written)
    PROVE  Copies' /\ row'.ack = row.ack
<1>1. UNCHANGED <<engine, said, given>> /\ spent'.issues = spent.issues
  BY DEF File, Costs, IInv, TypeOK
<1>2. /\ row'.ack = row.ack /\ row'.issued = row.issued
      /\ row'.level \in {row.level, engine.level}
      /\ engine.level = NoLevel => row'.level = row.level
  BY DEF File, Filed, IInv, TypeOK
<1>3. row.level # NoLevel \/ engine.level # NoLevel => row.issued
  BY DEF IInv, NothingBefore
<1>4. ASSUME row.issued
      PROVE  /\ Cached.ack = row.ack
             /\ Cached.elements = {row.level, Mhz, Code} \ {NoLevel}
  BY <1>4 DEF Cached
<1>5. ASSUME spent'.faults = 0 PROVE found /\ cache' = Cached
  <2>1. spent.faults \in 0..MaxFaults /\ MaxFaults \in Nat
    BY BoundsAre, SpentIs DEF IInv
  <2>2. spent'.faults = spent.faults + Cost(found /\ written)
    BY DEF File, Costs, IInv, TypeOK
  <2>3. Cost(found /\ written) = 0
    BY <1>5, <2>1, <2>2 DEF Cost
  <2>4. found /\ written
    BY <2>3 DEF Cost
  <2>5. QED
    BY <2>4 DEF File, Filed
<1>6. CacheIsOneTurnOld'
  <2>1. SUFFICES ASSUME spent'.faults = 0, cache' # NoPlan
                 PROVE  /\ cache'.ack = row'.ack
                        /\ engine'.level = NoLevel => row'.level \in cache'.elements \cup {NoLevel}
    BY DEF CacheIsOneTurnOld
  <2>2. row.issued
    BY <1>5, <2>1, <1>3 DEF Cached, IInv, NothingBefore
  <2>3. QED
    BY <1>1, <1>2, <1>4, <1>5, <2>1, <2>2
<1>7. OfTheFirst'
  <2>1. CASE spent.issues # 1
    BY <1>1, <2>1 DEF Copies, OfTheFirst
  <2>2. CASE spent.issues = 1
    <3>1. row'.level = row.level
      BY <1>2, <2>2 DEF Copies, OfTheFirst
    <3>2. cache' \in {cache, Cached}
      BY DEF File, Filed
    <3>3. row.level # NoLevel => {row.level, Code} \subseteq Cached.elements
      BY <1>3, <1>4, CodeIsSome
    <3>4. QED
      BY <1>1, <2>2, <3>1, <3>2, <3>3 DEF Copies, OfTheFirst
  <2>3. QED
    BY <2>1, <2>2
<1>8. QED
  BY <1>2, <1>6, <1>7 DEF Copies

LEMMA IssueKeepsCopies ==
    ASSUME IInv, Copies, NEW level \in Levels, NEW done \in 1..3, Issue(level, done)
    PROVE  Copies' /\ (row'.ack => row.ack)
<1>1. /\ UNCHANGED <<engine, cache, said>> /\ turn'.step = "idle"
      /\ row'.ack => row.ack
  BY DEF Issue, Issued, Idle, IInv, TypeOK
<1>2. spent'.issues = spent.issues + 1 /\ spent.issues \in Nat
  <2>1. spent.issues \in 0..MaxIssues
    BY SpentIs DEF IInv
  <2>2. spent'.issues = spent.issues + 1
    BY DEF Issue, IInv, TypeOK
  <2>3. QED
    BY <2>1, <2>2, BoundsAre
<1>3. ASSUME spent'.issues = 1
      PROVE  cache = NoPlan /\ engine.level = NoLevel /\ said = {}
  <2>1. spent.issues = 0
    BY <1>2, <1>3
  <2>2. QED
    BY <2>1, NothingToJudge DEF Copies, OfTheFirst
<1>4. OfTheFirst'
  <2>1. spent'.issues # 0
    BY <1>2
  <2>2. ASSUME spent'.issues = 1
        PROVE  cache' = NoPlan /\ engine'.level = NoLevel /\ said' = {}
    BY <1>1, <1>3, <2>2
  <2>3. QED
    BY <2>1, <2>2 DEF OfTheFirst
<1>5. QED
  BY <1>1, <1>4 DEF Copies, CacheIsOneTurnOld

LEMMA RestartKeepsCopies ==
    ASSUME IInv, Copies, NEW ok \in BOOLEAN, Restart(ok)
    PROVE  Copies' /\ row' = row
<1>1. /\ cache' = NoPlan /\ said' = {} /\ turn'.step = "idle" /\ row' = row
      /\ engine'.level \in {NoLevel, row.level}
      /\ spent'.issues = spent.issues
  BY DEF Restart, Hydrated, Idle, IInv, TypeOK
<1>2. QED
  BY <1>1 DEF Copies, CacheIsOneTurnOld, OfTheFirst

AgreementStep ==
    ~row.ack /\ row'.ack /\ spent.issues = 1 /\ row.level = given.level /\ row.level # NoLevel
        => {given.level, Code} \subseteq given'.words

LEMMA CopiesStep == IInv /\ Copies /\ [Next]_vars => Copies' /\ (AgreementStep \/ UNCHANGED vars)
<1> SUFFICES ASSUME IInv, Copies, [Next]_vars
             PROVE  Copies' /\ (AgreementStep \/ UNCHANGED vars)
  OBVIOUS
<1>1. ASSUME NEW seat \in Seats, NEW ok \in BOOLEAN,
             \/ RequestClearance(seat, ok) \/ OtherCall(seat, ok)
             \/ RequestTaxi(seat, ok) \/ RequestTaxiAstray(seat)
      PROVE  Copies' /\ AgreementStep
  BY <1>1, SilentKeepsCopies DEF AgreementStep
<1>2. ASSUME NEW seat \in Seats, NEW ok \in BOOLEAN, NEW words \in Utterances,
             \/ ReadBackShort(seat, ok, words)
             \/ \E answer \in Answers : ReadBackWhole(seat, ok, words, answer)
      PROVE  Copies' /\ AgreementStep
  <2>1. words \in SUBSET Elements
    BY ClearanceConstants DEF Elements, Code, Mhz
  <2>2. QED
    BY <1>2, <2>1, ShortKeepsCopies, WholeAgrees DEF AgreementStep
<1>3. ASSUME NEW found \in BOOLEAN, NEW written \in BOOLEAN, File(found, written)
      PROVE  Copies' /\ AgreementStep
  BY <1>3, FileKeepsCopies DEF AgreementStep
<1>4. ASSUME NEW level \in Levels, NEW done \in 1..3, Issue(level, done)
      PROVE  Copies' /\ AgreementStep
  BY <1>4, IssueKeepsCopies DEF AgreementStep
<1>5. CASE Reply
  BY <1>5 DEF Reply, Idle, Copies, CacheIsOneTurnOld, OfTheFirst, AgreementStep
<1>6. ASSUME NEW ok \in BOOLEAN, Restart(ok) PROVE Copies' /\ AgreementStep
  BY <1>6, RestartKeepsCopies DEF AgreementStep
<1>7. CASE UNCHANGED vars
  BY <1>7 DEF vars, Copies, CacheIsOneTurnOld, OfTheFirst
<1>8. QED
  BY <1>1, <1>2, <1>3, <1>4, <1>5, <1>6, <1>7 DEF Next, Hear

LEMMA CopiesHold == Spec => [](IInv /\ Copies)
<1>1. Init => IInv /\ Copies
  BY InitHolds, CopiesInit
<1>2. IInv /\ Copies /\ [Next]_vars => (IInv /\ Copies)'
  BY StepHolds, CopiesStep
<1>3. QED
  BY <1>1, <1>2, PTL DEF Spec

\* As long as the board has answered, a turn that is filed leaves the cache with
\* every agreement, amendment and level the turns before it left on the row.
THEOREM ClearanceCacheIsOneTurnOld == Spec => []CacheIsOneTurnOld
<1>1. Copies => CacheIsOneTurnOld
  BY DEF Copies
<1>2. QED
  BY <1>1, CopiesHold, PTL

\* What is recorded as agreed of the first clearance is what he has read back of it.
THEOREM ClearanceAgreedToWhatWasGiven == Spec => AgreedToWhatWasGiven
<1>1. IInv /\ Copies /\ [Next]_vars => [AgreementStep]_vars
  BY CopiesStep
<1>2. Spec => [][AgreementStep]_vars
  BY <1>1, CopiesHold, PTL DEF Spec
<1>3. QED
  BY <1>2 DEF AgreedToWhatWasGiven, AgreementStep
=============================================================================
