----------------------------- MODULE StackProofs -----------------------------
(***************************************************************************)
(* Theorems about the separation engine at one aerodrome, for any number   *)
(* of aircraft and any height of the stack.  First the lemmas about the    *)
(* operators of StackLevels: the choices they make are choices among       *)
(* something, what they return is a level, and a stack whose lowest has    *)
(* left closes up without anybody meeting anybody.  Then the inductive     *)
(* invariant, call by call, then what no call may do, and last the same    *)
(* of a stack that is written down and read back across a restart.         *)
(***************************************************************************)
EXTENDS Restart, FiniteSetTheorems, WellFoundedInduction, TLAPS

\* A nonempty set of naturals has a least member: what _free_slot, _next_up and
\* _step_down rely on when they take the lowest of something.
LEMMA MinExists ==
    ASSUME NEW S \in SUBSET Nat, S # {}
    PROVE  \E x \in S : \A y \in S : x <= y
<1> DEFINE R == OpToRel(<, Nat)
<1>1. IsWellFoundedOn(R, Nat)
  BY NatLessThanWellFounded
<1>2. \A T \in SUBSET Nat : T # {} => \E x \in T : \A y \in T : ~(<<y, x>> \in R)
  <2> HIDE DEF R
  <2> QED BY <1>1, WFMin
<1>3. PICK x \in S : \A y \in S : ~(<<y, x>> \in R)
  <2> HIDE DEF R
  <2> QED BY <1>2
<1>4. \A y \in S : ~(y < x)
  BY <1>3 DEF OpToRel
<1> HIDE DEF R
<1> QED BY <1>4

\* A nonempty set of levels has a highest member.
LEMMA MaxExists ==
    ASSUME NEW S \in SUBSET (0 .. N), S # {}
    PROVE  \E x \in S : \A y \in S : y <= x
<1> USE NAssumption
<1> DEFINE T == {N - y : y \in S}
<1>1. T \in SUBSET Nat /\ T # {}
  <2>1. \A y \in S : N - y \in Nat
    OBVIOUS
  <2>2. T \in SUBSET Nat
    BY <2>1
  <2> QED BY <2>2
<1>2. PICK t \in T : \A u \in T : t <= u
  <2> HIDE DEF T
  <2> QED BY <1>1, MinExists
<1>3. PICK x \in S : t = N - x
  OBVIOUS
<1>4. \A y \in S : N - x <= N - y
  BY <1>2, <1>3
<1> QED BY <1>4

\* What the lemmas below ask of a population and what it is assigned.
Population(P, ph, lv) ==
    /\ ph \in [P -> Phases]
    /\ lv \in [P -> Levels]

\* Every holder is at a level a stack has, the missed-approach level included.
LEMMA HeldIsLevels ==
    ASSUME NEW P, NEW ph, NEW lv, Population(P, ph, lv)
    PROVE  Held(P, ph, lv) \in SUBSET (0 .. N)
BY NAssumption DEF Population, Held, Holders, Levels, NoLevel

\* Where there are holders, somebody is the lowest of them: _next_up finds him.
LEMMA LowestHolderExists ==
    ASSUME NEW P, NEW ph, NEW lv, Population(P, ph, lv), Holders(P, ph, lv) # {}
    PROVE  LowestHolders(P, ph, lv) # {}
<1> DEFINE H == Holders(P, ph, lv)
           L == Held(P, ph, lv)
<1>1. L \in SUBSET Nat
  BY HeldIsLevels, NAssumption
<1>2. L # {}
  BY DEF Held
<1>3. PICK x \in L : \A y \in L : x <= y
  <2> HIDE DEF L
  <2> QED BY <1>1, <1>2, MinExists
<1>4. PICK a \in H : lv[a] = x
  BY DEF Held
<1>5. \A b \in H : lv[a] <= lv[b]
  BY <1>3, <1>4 DEF Held
<1> QED BY <1>4, <1>5 DEF LowestHolders

\* The level a held level closes up to is a level: a step down assigns a level.
LEMMA TargetType ==
    ASSUME NEW P, NEW ph, NEW lv, Population(P, ph, lv), NEW x \in 0 .. N
    PROVE  Target(P, ph, lv, x) \in 0 .. N
<1> DEFINE R == Reach(P, ph, lv, x)
<1>1. CASE R = {}
  BY <1>1 DEF Target
<1>2. CASE R # {}
  <2>1. R \in SUBSET Slots
    BY DEF Reach, Unspoken
  <2>2. \E f \in R : \A g \in R : f <= g
    <3>1. R \in SUBSET Nat
      BY <2>1, NAssumption DEF Slots
    <3> HIDE DEF R
    <3> QED BY <1>2, <3>1, MinExists
  <2>3. Target(P, ph, lv, x) \in R
    BY <1>2, <2>2 DEF Target
  <2> QED BY <2>1, <2>3, NAssumption DEF Slots
<1> QED BY <1>1, <1>2

\* The same of the level a holder ends at when his level is carried on.
LEMMA LevelAfterType ==
    ASSUME NEW P, NEW ph, NEW lv, Population(P, ph, lv), NEW x \in Held(P, ph, lv)
    PROVE  LevelAfter(P, ph, lv, x) \in 0 .. N
<1> DEFINE C == CarriedThrough(P, ph, lv, x)
<1>1. C \in SUBSET Held(P, ph, lv) /\ x \in C
  BY DEF CarriedThrough
<1>2. C \in SUBSET (0 .. N)
  BY <1>1, HeldIsLevels
<1>3. \E y \in C : \A w \in C : w <= y
  <2> HIDE DEF C
  <2> QED BY <1>1, <1>2, MaxExists
<1> DEFINE last == CHOOSE y \in C : \A w \in C : w <= y
<1>4. last \in C
  BY <1>3
<1>5. last \in 0 .. N
  BY <1>2, <1>4
<1>6. LevelAfter(P, ph, lv, x) = Target(P, ph, lv, last)
  BY DEF LevelAfter
<1> HIDE DEF last
<1> QED BY <1>5, <1>6, TargetType

\* _step_down assigns levels, takes nobody's level away, and touches nobody but
\* holders.
LEMMA SteppedDownType ==
    ASSUME NEW P, NEW ph, NEW lv, Population(P, ph, lv)
    PROVE  /\ SteppedDown(P, ph, lv) \in [P -> Levels]
           /\ \A a \in P : ph[a] # "HOLDING" => SteppedDown(P, ph, lv)[a] = lv[a]
           /\ \A a \in P : lv[a] # NoLevel => SteppedDown(P, ph, lv)[a] # NoLevel
<1>1. DOMAIN lv = P
  BY DEF Population
<1>2. ASSUME NEW a \in P, a \in Holders(P, ph, lv)
      PROVE  LevelAfter(P, ph, lv, lv[a]) \in Levels \ {NoLevel}
  <2>1. lv[a] \in Held(P, ph, lv)
    BY <1>2 DEF Held
  <2>2. LevelAfter(P, ph, lv, lv[a]) \in 0 .. N
    BY <2>1, LevelAfterType
  <2> QED BY <2>2, NAssumption DEF Levels, NoLevel
<1>3. \A a \in P : lv[a] \in Levels
  BY DEF Population
<1>4. \A a \in P : SteppedDown(P, ph, lv)[a] =
          IF a \in Holders(P, ph, lv) THEN LevelAfter(P, ph, lv, lv[a]) ELSE lv[a]
  BY <1>1 DEF SteppedDown
<1>5. SteppedDown(P, ph, lv) \in [P -> Levels]
  BY <1>1, <1>2, <1>3 DEF SteppedDown
<1>6. \A a \in P : lv[a] # NoLevel => SteppedDown(P, ph, lv)[a] # NoLevel
  BY <1>2, <1>4
<1> QED BY <1>4, <1>5, <1>6 DEF Holders

---------------------------------------------------------------------------
(* The stack closes up.  *)

\* Counting what is below a level: for sets of levels these are finite.
LEMMA BelowCounts ==
    ASSUME NEW S \in SUBSET (0 .. N), NEW x
    PROVE  IsFiniteSet(Below(S, x)) /\ Cardinality(Below(S, x)) \in Nat
<1>1. IsFiniteSet(0 .. N)
  BY FS_Interval, NAssumption
<1>2. Below(S, x) \in SUBSET (0 .. N)
  BY DEF Below
<1>3. IsFiniteSet(Below(S, x))
  BY <1>1, <1>2, FS_Subset
<1> QED BY <1>3, FS_CardinalityType

\* Of two members the higher has more below it.
LEMMA BelowGrows ==
    ASSUME NEW S \in SUBSET (0 .. N), NEW x \in S, NEW y \in S, x < y
    PROVE  Cardinality(Below(S, y)) >= Cardinality(Below(S, x)) + 1
<1>1. IsFiniteSet(Below(S, x)) /\ IsFiniteSet(Below(S, y))
      /\ Cardinality(Below(S, x)) \in Nat /\ Cardinality(Below(S, y)) \in Nat
  BY BelowCounts
<1>2. x \notin Below(S, x) /\ Below(S, x) \cup {x} \in SUBSET Below(S, y)
  <2>1. x \in Int /\ y \in Int /\ \A z \in S : z \in Int
    BY NAssumption
  <2>2. \A z \in S : z < x => z < y
    BY <2>1
  <2>3. ~(x < x)
    BY <2>1
  <2> QED BY <2>2, <2>3 DEF Below
<1>3. Cardinality(Below(S, x) \cup {x}) = Cardinality(Below(S, x)) + 1
  BY <1>1, <1>2, FS_AddElement
<1>4. Cardinality(Below(S, x) \cup {x}) <= Cardinality(Below(S, y))
  BY <1>1, <1>2, FS_Subset
<1> QED BY <1>1, <1>3, <1>4

\* With n of a set below a member, and n at least one, the next member down has
\* n - 1: the stack closes up without a gap.
LEMMA NextBelow ==
    ASSUME NEW S \in SUBSET (0 .. N), NEW y \in S, Cardinality(Below(S, y)) >= 1
    PROVE  \E x \in S : x < y /\ Cardinality(Below(S, x)) = Cardinality(Below(S, y)) - 1
<1> DEFINE B == Below(S, y)
<1>1. IsFiniteSet(B) /\ Cardinality(B) \in Nat /\ B \in SUBSET (0 .. N)
  BY BelowCounts DEF Below
<1>2. B # {}
  BY FS_EmptySet
<1>3. PICK x \in B : \A z \in B : z <= x
  <2> HIDE DEF B
  <2> QED BY <1>1, <1>2, MaxExists
<1>4. x \in S /\ x < y
  BY <1>3 DEF Below
<1>5. Below(S, x) = B \ {x}
  <2>1. x \in Int /\ y \in Int /\ \A z \in S : z \in Int
    BY <1>4, NAssumption
  <2>2. \A z \in S : z < x => z < y /\ z # x
    BY <1>4, <2>1
  <2>3. \A z \in B : z # x => z < x
    <3>1. B \in SUBSET S
      BY DEF Below
    <3> HIDE DEF B
    <3> QED BY <1>3, <2>1, <3>1
  <2>4. \A z : z \in Below(S, x) <=> z \in S /\ z < x
    BY DEF Below
  <2>5. \A z : z \in B <=> z \in S /\ z < y
    BY DEF Below
  <2> HIDE DEF B
  <2> QED BY <2>2, <2>3, <2>4, <2>5
<1>6. Cardinality(B \ {x}) = Cardinality(B) - 1
  <2> HIDE DEF B
  <2> QED BY <1>1, <1>3, FS_RemoveElement
<1> QED BY <1>4, <1>5, <1>6

---------------------------------------------------------------------------
\* Two aircraft that have not landed share no level.
Apart(P, ph, lv) ==
    \A a, b \in P :
        (/\ a # b /\ lv[a] = lv[b] /\ lv[a] # NoLevel
         /\ ph[a] # "LANDED" /\ ph[b] # "LANDED") => FALSE

\* Two aircraft that have not landed share no level, but perhaps the top one.
NearlyApart(P, ph, lv) ==
    \A a, b \in P :
        (/\ a # b /\ lv[a] = lv[b] /\ lv[a] # NoLevel
         /\ ph[a] # "LANDED" /\ ph[b] # "LANDED") => lv[a] = N

\* The stack as _step_down finds it: every held level is one of the stack, and
\* nobody else is at it, but perhaps at the top.
Open(P, ph, lv) ==
    /\ Population(P, ph, lv)
    /\ \A x \in Held(P, ph, lv) : x \in Slots /\ (x \in Unspoken(P, ph, lv) \/ x = N)

\* Among such levels the target of the i-th is the i-th unspoken one or, where
\* there are not so many, itself.
LEMMA TargetIsNotAbove ==
    ASSUME NEW P, NEW ph, NEW lv, Open(P, ph, lv), NEW x \in Held(P, ph, lv)
    PROVE  /\ Target(P, ph, lv, x) <= x
           /\ Target(P, ph, lv, x) \in 0 .. N
           /\ Reach(P, ph, lv, x) # {} =>
                 /\ Target(P, ph, lv, x) \in Reach(P, ph, lv, x)
                 /\ \A g \in Reach(P, ph, lv, x) : Target(P, ph, lv, x) <= g
           /\ x \in Unspoken(P, ph, lv) => x \in Reach(P, ph, lv, x)
<1> DEFINE H == Held(P, ph, lv)
           U == Unspoken(P, ph, lv)
           R == Reach(P, ph, lv, x)
           t == Target(P, ph, lv, x)
<1>1. x \in Slots /\ (x \in U \/ x = N) /\ H \in SUBSET (0 .. N) /\ U \in SUBSET (0 .. N)
      /\ x \in 0 .. N
  BY HeldIsLevels, NAssumption DEF Open, Unspoken, Slots
<1>2. R \in SUBSET U
  BY DEF Reach
<1>3. ASSUME R # {} PROVE t \in R /\ \A g \in R : t <= g
  <2>1. R \in SUBSET Nat
    BY <1>1, <1>2, NAssumption
  <2>2. \E f \in R : \A g \in R : f <= g
    <3> HIDE DEF R
    <3> QED BY <1>3, <2>1, MinExists
  <2> QED BY <1>3, <2>2 DEF Target
<1>4. ASSUME x \in U PROVE x \in R
  <2>1. Below(H, x) \in SUBSET Below(U, x)
    <3> SUFFICES ASSUME NEW y \in H, y < x PROVE y \in U
      BY DEF Below
    <3>1. y # N
      BY <1>1, NAssumption
    <3> QED BY <3>1 DEF Open
  <2>2. Cardinality(Below(H, x)) <= Cardinality(Below(U, x))
    BY <1>1, <2>1, BelowCounts, FS_Subset
  <2>3. Cardinality(Below(H, x)) \in Nat /\ Cardinality(Below(U, x)) \in Nat
    BY <1>1, BelowCounts
  <2> QED BY <1>4, <2>2, <2>3 DEF Reach
<1>5. t \in 0 .. N
  BY <1>1, TargetType DEF Open
<1>6. t <= x
  <2>1. CASE x \in U
    BY <1>3, <1>4, <2>1
  <2>2. CASE x = N
    BY <1>5, <2>2, NAssumption
  <2> QED BY <1>1, <2>1, <2>2
<1> QED BY <1>3, <1>4, <1>5, <1>6

\* Nothing is carried up, so a holder's level becomes its own target.
LEMMA NothingCarried ==
    ASSUME NEW P, NEW ph, NEW lv, Open(P, ph, lv), NEW x \in Held(P, ph, lv)
    PROVE  LevelAfter(P, ph, lv, x) = Target(P, ph, lv, x)
<1> DEFINE C == CarriedThrough(P, ph, lv, x)
<1>1. \A w \in Held(P, ph, lv) : ~Carries(P, ph, lv, x, w)
  <2> SUFFICES ASSUME NEW w \in Held(P, ph, lv), Carries(P, ph, lv, x, w) PROVE FALSE
    OBVIOUS
  <2>1. w = Target(P, ph, lv, x) /\ w > x
    BY DEF Carries
  <2>2. Target(P, ph, lv, x) <= x /\ x \in Int /\ w \in Int
    BY <2>1, TargetIsNotAbove, NAssumption DEF Open, Slots
  <2> QED BY <2>1, <2>2
<1>2. {x} \in SUBSET Held(P, ph, lv) /\ x \in {x}
  OBVIOUS
<1>3. \A u \in {x}, w \in Held(P, ph, lv) : Carries(P, ph, lv, u, w) => w \in {x}
  BY <1>1
<1>4. C = {x}
  <2>1. \A y \in C : y \in {x}
    BY <1>2, <1>3 DEF CarriedThrough
  <2>2. x \in C
    BY DEF CarriedThrough
  <2> QED BY <2>1, <2>2
<1>5. x <= x
  BY NAssumption DEF Open, Slots
<1>6. (CHOOSE y \in C : \A w \in C : w <= y) = x
  BY <1>4, <1>5
<1> QED BY <1>6 DEF LevelAfter

\* Of two held levels the lower ends lower.
LEMMA TargetsKeepOrder ==
    ASSUME NEW P, NEW ph, NEW lv, Open(P, ph, lv),
           NEW x \in Held(P, ph, lv), NEW y \in Held(P, ph, lv), x < y
    PROVE  Target(P, ph, lv, x) < Target(P, ph, lv, y)
<1> DEFINE H == Held(P, ph, lv)
           U == Unspoken(P, ph, lv)
           s == Target(P, ph, lv, x)
           t == Target(P, ph, lv, y)
<1>1. H \in SUBSET (0 .. N) /\ U \in SUBSET (0 .. N) /\ s \in 0 .. N /\ t \in 0 .. N
  BY HeldIsLevels, TargetIsNotAbove, NAssumption DEF Open, Unspoken, Slots
<1>2. x \in Int /\ y \in Int /\ s \in Int /\ t \in Int /\ s <= x
  BY <1>1, TargetIsNotAbove, NAssumption
<1>3. CASE Reach(P, ph, lv, y) = {}
  <2>1. t = y
    BY <1>3 DEF Target
  <2> QED BY <1>2, <2>1
<1>4. CASE Reach(P, ph, lv, y) # {}
  <2>1. t \in U /\ Cardinality(Below(U, t)) >= Cardinality(Below(H, y))
    BY <1>4, TargetIsNotAbove DEF Reach
  <2>2. /\ Cardinality(Below(U, t)) \in Nat
        /\ Cardinality(Below(H, y)) \in Nat /\ Cardinality(Below(H, x)) \in Nat
    BY <1>1, BelowCounts
  <2>3. Cardinality(Below(H, y)) >= Cardinality(Below(H, x)) + 1
    BY <1>1, BelowGrows
  <2>4. Cardinality(Below(U, t)) >= 1
    BY <2>1, <2>2, <2>3
  <2>5. PICK f \in U : f < t /\ Cardinality(Below(U, f)) = Cardinality(Below(U, t)) - 1
    <3> HIDE DEF U, t
    <3> QED BY <1>1, <2>1, <2>4, NextBelow
  <2>6. f \in Reach(P, ph, lv, x)
    BY <2>1, <2>2, <2>3, <2>5 DEF Reach
  <2>7. s <= f /\ f \in Int
    BY <1>1, <2>6, TargetIsNotAbove
  <2> QED BY <1>2, <2>5, <2>7
<1> QED BY <1>3, <1>4

\* What the stack is like once its lowest aircraft has left it for the approach.
LEMMA LowestLeaves ==
    ASSUME NEW P, NEW ph, NEW lv, Population(P, ph, lv), NearlyApart(P, ph, lv),
           NEW d \in LowestHolders(P, ph, lv)
    PROVE  Open(P, [ph EXCEPT ![d] = "CLEARED"], lv)
<1> DEFINE cl == [ph EXCEPT ![d] = "CLEARED"]
<1>1. d \in P /\ ph[d] = "HOLDING" /\ lv[d] # NoLevel
  BY DEF LowestHolders, Holders
<1>2. cl \in [P -> Phases] /\ cl[d] = "CLEARED" /\ \A a \in P \ {d} : cl[a] = ph[a]
  BY <1>1 DEF Population, Phases
<1>3. Population(P, cl, lv)
  BY <1>2 DEF Population
<1> HIDE DEF cl
<1>4. \A a \in P : lv[a] \in Levels
  BY DEF Population
<1> SUFFICES ASSUME NEW a \in Holders(P, cl, lv)
             PROVE  lv[a] \in Slots /\ (lv[a] \in Unspoken(P, cl, lv) \/ lv[a] = N)
  BY <1>3 DEF Open, Held, cl
<1>5. a \in P /\ a # d /\ ph[a] = "HOLDING" /\ lv[a] # NoLevel
  BY <1>2 DEF Holders
<1>6. lv[d] <= lv[a]
  BY <1>5 DEF LowestHolders, Holders
<1>7. lv[a] # lv[d] \/ lv[a] = N
  BY <1>1, <1>5 DEF NearlyApart
<1>8. lv[a] \in Slots
  BY <1>1, <1>4, <1>5, <1>6, <1>7, NAssumption DEF Levels, NoLevel, Slots
<1>9. ASSUME lv[a] \in SpokenFor(P, cl, lv) PROVE lv[a] = N
  <2>1. PICK b \in P : lv[b] = lv[a] /\ cl[b] \notin {"HOLDING", "LANDED"}
    BY <1>9 DEF SpokenFor
  <2>2. b # a /\ ph[b] # "LANDED"
    BY <1>1, <1>2, <1>5, <2>1
  <2> QED BY <1>5, <2>1, <2>2 DEF NearlyApart
<1> QED BY <1>8, <1>9 DEF Unspoken

\* Nobody is lifted, nobody overtakes, nobody but holders is moved, and those
\* who shared no level share none.
ClosedUp(P, ph, lv, cl, after) ==
    /\ \A a \in P : cl[a] = "HOLDING" /\ lv[a] # NoLevel => after[a] <= lv[a]
    /\ \A a, b \in P :
         (/\ cl[a] = "HOLDING" /\ cl[b] = "HOLDING"
          /\ lv[a] # NoLevel /\ lv[b] # NoLevel /\ lv[a] < lv[b])
         => after[a] < after[b]
    /\ \A a \in P : cl[a] # "HOLDING" \/ lv[a] = NoLevel => after[a] = lv[a]
    /\ Apart(P, ph, lv) => Apart(P, cl, after)

\* That is what _step_down does when the lowest aircraft has left.
LEMMA StackClosesUp ==
    ASSUME NEW P, NEW ph, NEW lv, Population(P, ph, lv), NearlyApart(P, ph, lv),
           NEW d \in LowestHolders(P, ph, lv),
           NEW cl, cl = [ph EXCEPT ![d] = "CLEARED"],
           NEW after, after = SteppedDown(P, cl, lv)
    PROVE  ClosedUp(P, ph, lv, cl, after)
<1> DEFINE H == Holders(P, cl, lv)
<1>1. Open(P, cl, lv)
  BY LowestLeaves
<1>2. d \in P /\ ph[d] = "HOLDING" /\ ph \in [P -> Phases] /\ lv \in [P -> Levels]
  BY DEF LowestHolders, Holders, Population
<1>3. \A a \in P : cl[a] = IF a = d THEN "CLEARED" ELSE ph[a]
  BY <1>2
<1>4. H \in SUBSET P /\ \A a \in P : a \in H <=> cl[a] = "HOLDING" /\ lv[a] # NoLevel
  BY DEF Holders
<1>5. \A a \in H : lv[a] \in Held(P, cl, lv)
  BY DEF Held
<1>6. \A a \in H : after[a] = Target(P, cl, lv, lv[a]) /\ after[a] <= lv[a] /\ after[a] \in 0 .. N
  <2> SUFFICES ASSUME NEW a \in H
               PROVE  after[a] = Target(P, cl, lv, lv[a]) /\ after[a] <= lv[a] /\ after[a] \in 0 .. N
    OBVIOUS
  <2>1. after[a] = LevelAfter(P, cl, lv, lv[a])
    BY <1>2 DEF SteppedDown, Holders
  <2>2. LevelAfter(P, cl, lv, lv[a]) = Target(P, cl, lv, lv[a])
    BY <1>1, <1>5, NothingCarried
  <2>3. Target(P, cl, lv, lv[a]) <= lv[a] /\ Target(P, cl, lv, lv[a]) \in 0 .. N
    BY <1>1, <1>5, TargetIsNotAbove
  <2> QED BY <2>1, <2>2, <2>3
<1>7. \A a, b \in H : lv[a] < lv[b] => after[a] < after[b]
  <2> SUFFICES ASSUME NEW a \in H, NEW b \in H, lv[a] < lv[b] PROVE after[a] < after[b]
    OBVIOUS
  <2>1. Target(P, cl, lv, lv[a]) < Target(P, cl, lv, lv[b])
    BY <1>1, <1>5, TargetsKeepOrder
  <2> QED BY <1>6, <2>1
<1>8. \A a \in P \ H : after[a] = lv[a]
  BY <1>2 DEF SteppedDown
<1>9. ASSUME Apart(P, ph, lv) PROVE Apart(P, cl, after)
  <2> SUFFICES ASSUME NEW a \in P, NEW b \in P, a # b, after[a] = after[b], after[a] # NoLevel,
                      cl[a] # "LANDED", cl[b] # "LANDED"
               PROVE  FALSE
    BY DEF Apart
  <2>1. ph[a] # "LANDED" /\ ph[b] # "LANDED"
    BY <1>2, <1>3
  <2>2. ASSUME NEW x \in H, NEW y \in P \ H, after[x] = after[y], lv[y] # NoLevel,
               ph[y] # "LANDED", cl[y] # "LANDED"
        PROVE  FALSE
    <3>1. cl[y] # "HOLDING" /\ lv[y] = after[y]
      BY <1>4, <1>8, <2>2
    <3>2. after[y] \in SpokenFor(P, cl, lv)
      BY <2>2, <3>1 DEF SpokenFor
    <3>3. lv[x] \notin SpokenFor(P, cl, lv)
      <4>1. x \in P /\ ph[x] = "HOLDING" /\ lv[x] # NoLevel
        <5>1. cl[x] = "HOLDING" /\ x \in P
          BY <1>4
        <5>2. x # d /\ ph[x] = cl[x]
          BY <1>3, <5>1
        <5>3. lv[x] # NoLevel
          BY <1>4, <5>1
        <5> QED BY <5>1, <5>2, <5>3
      <4> SUFFICES ASSUME NEW z \in P, lv[z] = lv[x], cl[z] \notin {"HOLDING", "LANDED"}
                   PROVE  FALSE
        BY DEF SpokenFor
      <4>2. z # x /\ ph[z] # "LANDED"
        BY <1>2, <1>3, <1>4
      <4> QED BY <1>9, <4>1, <4>2 DEF Apart
    <3>4. lv[x] \in Unspoken(P, cl, lv)
      BY <1>1, <1>5, <3>3 DEF Open, Unspoken
    <3>5. Target(P, cl, lv, lv[x]) \in Unspoken(P, cl, lv)
      BY <1>1, <1>5, <3>4, TargetIsNotAbove DEF Reach
    <3> QED BY <1>6, <2>2, <3>2, <3>5 DEF Unspoken
  <2>3. CASE a \in H /\ b \in H
    <3>1. lv[a] # NoLevel /\ lv[a] # lv[b]
      BY <1>4, <1>9, <2>1, <2>3 DEF Apart
    <3>3. lv[a] \in Int /\ lv[b] \in Int
      BY <1>2, NAssumption DEF Levels, NoLevel
    <3>2. after[a] \in Int /\ after[b] \in Int
      <4>1. after[a] \in 0 .. N /\ after[b] \in 0 .. N
        BY <1>6, <2>3
      <4> QED BY <4>1, NAssumption
    <3>4. CASE lv[a] < lv[b]
      <4>1. after[a] < after[b]
        BY <1>7, <2>3, <3>4
      <4> QED BY <3>2, <4>1
    <3>5. CASE lv[b] < lv[a]
      <4>1. after[b] < after[a]
        BY <1>7, <2>3, <3>5
      <4> QED BY <3>2, <4>1
    <3> QED BY <3>1, <3>3, <3>4, <3>5
  <2>4. CASE a \in H /\ b \notin H
    BY <1>8, <2>1, <2>2, <2>4
  <2>5. CASE a \notin H /\ b \in H
    BY <1>8, <2>1, <2>2, <2>5
  <2>6. CASE a \notin H /\ b \notin H
    BY <1>8, <1>9, <2>1, <2>6 DEF Apart
  <2> QED BY <2>3, <2>4, <2>5, <2>6
<1> QED BY <1>4, <1>6, <1>7, <1>8, <1>9 DEF ClosedUp

-----------------------------------------------------------------------------

\* Nobody holds without a level.
HoldersAtALevel == \A c \in Callsigns : phase[c] = "HOLDING" => level[c] # NoLevel

\* What every call keeps: types, the aircraft in the letdown is cleared, and
\* every holder has a level and has been told it.
IInv == TypeOK /\ LetdownHolderCleared /\ ToldWhatIsHeld /\ HoldersAtALevel

\* The arguments a call hands _try_clear, once it has made its own changes.
Handed(ph, lv, tl, ld) ==
    /\ ph \in [Callsigns -> Phases]
    /\ lv \in [Callsigns -> Levels]
    /\ tl \in SUBSET Callsigns
    /\ ld \in Callsigns \cup {NoOne}
    /\ ld # NoOne => ph[ld] = "CLEARED"
    /\ \A c \in Callsigns : ph[c] = "HOLDING" => c \in tl /\ lv[c] # NoLevel

\* What _try_clear leaves behind.
Left ==
    /\ phase' \in [Callsigns -> Phases]
    /\ level' \in [Callsigns -> Levels]
    /\ told' \in SUBSET Callsigns
    /\ letdown' \in Callsigns \cup {NoOne}
    /\ letdown' # NoOne => phase'[letdown'] = "CLEARED"
    /\ \A c \in Callsigns : phase'[c] = "HOLDING" => c \in told' /\ level'[c] # NoLevel

\* Only a missed approach or a holder is ever next.
LEMMA NextUpWaits ==
    ASSUME NEW ph, NEW lv, NEW c \in NextUp(Callsigns, ph, lv)
    PROVE  c \in Callsigns /\ ph[c] \in {"MISSED", "HOLDING"}
BY DEF NextUp, Missed, LowestHolders, Holders

\* _try_clear keeps its callers' promises.
LEMMA TryClearKeeps ==
    ASSUME NEW ph, NEW lv, NEW tl, NEW ld, Handed(ph, lv, tl, ld),
           TryClear(ph, lv, tl, ld)
    PROVE  Left
<1>1. CASE phase' = ph /\ level' = lv /\ told' = tl /\ letdown' = ld
  BY <1>1 DEF Handed, Left
<1>2. ASSUME ld = NoOne,
             NEW c \in NextUp(Callsigns, ph, lv),
             phase' = [ph EXCEPT ![c] = "CLEARED"],
             level' = IF ph[c] = "HOLDING"
                      THEN SteppedDown(Callsigns, [ph EXCEPT ![c] = "CLEARED"], lv)
                      ELSE lv,
             told' = Announced(tl, lv, level'),
             letdown' = c
      PROVE  Left
  <2>1. c \in Callsigns
    BY NextUpWaits
  <2>2. phase' \in [Callsigns -> Phases] /\ phase'[c] = "CLEARED"
    BY <1>2, <2>1 DEF Handed, Phases
  <2>3. /\ level' \in [Callsigns -> Levels]
        /\ \A d \in Callsigns : lv[d] # NoLevel => level'[d] # NoLevel
    <3>1. Population(Callsigns, [ph EXCEPT ![c] = "CLEARED"], lv)
      BY <1>2, <2>2 DEF Handed, Population
    <3>2. SteppedDown(Callsigns, [ph EXCEPT ![c] = "CLEARED"], lv) \in [Callsigns -> Levels]
      BY <3>1, SteppedDownType
    <3>3. \A d \in Callsigns : lv[d] # NoLevel =>
            SteppedDown(Callsigns, [ph EXCEPT ![c] = "CLEARED"], lv)[d] # NoLevel
      BY <3>1, SteppedDownType
    <3>4. level' = lv \/ level' = SteppedDown(Callsigns, [ph EXCEPT ![c] = "CLEARED"], lv)
      BY <1>2, Zenon
    <3> QED BY <3>2, <3>3, <3>4, Zenon DEF Handed
  <2>4. told' \in SUBSET Callsigns /\ tl \subseteq told'
    BY <1>2 DEF Handed, Announced
  <2>5. \A d \in Callsigns : phase'[d] = "HOLDING" => d \in told' /\ level'[d] # NoLevel
    BY <1>2, <2>3, <2>4 DEF Handed
  <2> QED BY <1>2, <2>1, <2>2, <2>3, <2>4, <2>5 DEF Left
<1> QED BY <1>1, <1>2 DEF TryClear, Handed

\* And so does _try_clear on behalf of the caller.
LEMMA TryClearForKeeps ==
    ASSUME NEW c \in Callsigns, NEW ph, NEW lv, NEW tl, NEW ld,
           Handed(ph, lv, tl, ld), TryClearFor(c, ph, lv, tl, ld)
    PROVE  Left
<1>1. ~(ld = c /\ ph[c] = "HOLDING")
  BY NoOneAssumption DEF Handed
<1>2. TryClear(ph, lv, tl, ld)
  BY <1>1 DEF TryClearFor
<1> QED BY <1>2, TryClearKeeps

---------------------------------------------------------------------------
\* What is left to show of a step once _try_clear has done its part.
LEMMA LeftIsIInv ==
    ASSUME Left, tries' \in [Callsigns -> 0 .. MaxApproaches],
           timed' \in SUBSET Callsigns, doubled' \in BOOLEAN
    PROVE  IInv'
BY DEF Left, IInv, TypeOK, LetdownHolderCleared, ToldWhatIsHeld, HoldersAtALevel

\* A level of the stack, or the missed approach's, is a level.
LEMMA LevelsOfTheStack ==
    /\ Slots \subseteq Levels \ {NoLevel}
    /\ VectorLevels \subseteq Levels \ {NoLevel}
    /\ {MissedLevel, N} \subseteq Levels \ {NoLevel}
    /\ NoLevel \in Levels
BY NAssumption, VectorLevelsAssumption DEF Slots, Levels, MissedLevel, NoLevel

LEMMA InitIInv == Init => IInv
<1> SUFFICES ASSUME Init PROVE IInv
  OBVIOUS
<1>1. NoLevel \in Levels /\ 0 \in 0 .. MaxApproaches
  BY NAssumption DEF Levels, NoLevel, MaxApproaches
<1>2. TypeOK
  BY <1>1 DEF Init, TypeOK, Phases
<1>3. LetdownHolderCleared /\ ToldWhatIsHeld /\ HoldersAtALevel
  BY DEF Init, LetdownHolderCleared, ToldWhatIsHeld, HoldersAtALevel
<1> QED BY <1>2, <1>3 DEF IInv

LEMMA DoMissedKeeps ==
    ASSUME IInv, NEW c \in Callsigns, DoMissed(c)
    PROVE  IInv'
<1> DEFINE banished == tries[c] + 1 >= MaxApproaches
           to == SentTo(banished)
           ph == [phase EXCEPT ![c] = IF banished THEN "HOLDING" ELSE "MISSED"]
           lv == [level EXCEPT ![c] = to]
<1>1. Handed(ph, lv, told \cup {c}, LetdownWithout(c))
  BY LevelsOfTheStack, NoOneAssumption
     DEF IInv, TypeOK, LetdownHolderCleared, ToldWhatIsHeld, HoldersAtALevel, Handed, LetdownWithout, Phases, SentTo
<1>2. Left
  BY <1>1, TryClearKeeps DEF DoMissed
<1>3. tries' \in [Callsigns -> 0 .. MaxApproaches]
  BY DEF DoMissed, IInv, TypeOK, MaxApproaches
<1>4. timed' \in SUBSET Callsigns /\ doubled' \in BOOLEAN
  BY DEF DoMissed, IInv, TypeOK
<1> QED BY <1>2, <1>3, <1>4, LeftIsIInv

LEMMA LandedKeeps ==
    ASSUME IInv, NEW c \in Callsigns, Landed(c)
    PROVE  IInv'
<1>1. Handed([phase EXCEPT ![c] = "LANDED"], level, told, LetdownWithout(c))
  BY NoOneAssumption DEF IInv, TypeOK, LetdownHolderCleared, ToldWhatIsHeld, HoldersAtALevel, Handed,
     LetdownWithout, Phases
<1>2. Left
  BY <1>1, TryClearKeeps DEF Landed
<1> QED BY <1>2, LeftIsIInv DEF Landed, IInv, TypeOK

LEMMA EnterStackKeeps ==
    ASSUME IInv, NEW c \in Callsigns, EnterStack(c)
    PROVE  IInv'
<1>1. PICK s \in Slots :
        TryClear([phase EXCEPT ![c] = "HOLDING"], [level EXCEPT ![c] = s],
                 told \cup {c}, letdown)
  BY DEF EnterStack
<1>2. Handed([phase EXCEPT ![c] = "HOLDING"], [level EXCEPT ![c] = s],
             told \cup {c}, letdown)
  BY LevelsOfTheStack DEF EnterStack, IInv, TypeOK, LetdownHolderCleared,
     ToldWhatIsHeld, HoldersAtALevel, Handed, Phases
<1>3. Left
  BY <1>1, <1>2, TryClearKeeps
<1> QED BY <1>3, LeftIsIInv DEF EnterStack, IInv, TypeOK

\* Whoever asks for an approach does not hold the letdown once he has: it was
\* never an arrival's, and one who changes approaches has given it up.
LEMMA AskingHasNoLetdown ==
    ASSUME phase \in [Callsigns -> Phases], letdown \in Callsigns \cup {NoOne},
           LetdownHolderCleared, NEW c \in Callsigns
    PROVE  /\ LetdownAsking(c) \in {letdown, NoOne} \ {c}
           /\ LetdownAsking(c) # letdown => letdown = c
           /\ LetdownAsking(c) # NoOne => phase[LetdownAsking(c)] = "CLEARED"
           /\ Asking(c) \in Phases \ {"CLEARED"}
           /\ Asking(c) = phase[c] \/ (phase[c] = "CLEARED" /\ Asking(c) = "ENROUTE")
BY NoOneAssumption DEF LetdownAsking, LetdownWithout, Asking, LetdownHolderCleared, Phases

\* An arrival that is not told his level is one that is cleared at once.
LEMMA RequestFromArrivalKeeps ==
    ASSUME IInv, NEW c \in Callsigns, RequestFromArrival(c)
    PROVE  IInv'
<1> DEFINE ld == LetdownAsking(c)
<1>1. PICK s \in Slots :
        LET ph == [phase EXCEPT ![c] = "HOLDING"]
            lv == [level EXCEPT ![c] = s]
            first == ld = NoOne /\ NextUp(Callsigns, ph, lv) = {c}
        IN  TryClearFor(c, ph, lv, IF first THEN told \ {c} ELSE told \cup {c}, ld)
  BY DEF RequestFromArrival
<1> DEFINE ph == [phase EXCEPT ![c] = "HOLDING"]
           lv == [level EXCEPT ![c] = s]
           first == ld = NoOne /\ NextUp(Callsigns, ph, lv) = {c}
<1>2. ld \in {letdown, NoOne} \ {c} /\ (ld # NoOne => phase[ld] = "CLEARED")
  BY AskingHasNoLetdown DEF IInv, TypeOK
<1> HIDE DEF ld
<1>3. Handed(ph, lv, told \cup {c}, ld)
  BY <1>2, LevelsOfTheStack DEF IInv, TypeOK, LetdownHolderCleared,
     ToldWhatIsHeld, HoldersAtALevel, Handed, Phases
<1>4. Left
  <2>1. CASE ~first
    BY <1>1, <1>3, <2>1, TryClearForKeeps
  <2>2. CASE first
    <3>1. TryClear(ph, lv, told \ {c}, ld)
      BY <1>1, <1>2, <2>2 DEF TryClearFor
    <3>2. /\ phase' = [ph EXCEPT ![c] = "CLEARED"]
          /\ level' = IF ph[c] = "HOLDING"
                      THEN SteppedDown(Callsigns, [ph EXCEPT ![c] = "CLEARED"], lv) ELSE lv
          /\ told' = Announced(told \ {c}, lv, level')
          /\ letdown' = c
      BY <2>2, <3>1, Zenon DEF TryClear
    <3>3. phase' \in [Callsigns -> Phases] /\ phase'[c] = "CLEARED"
      BY <1>3, <3>2 DEF Handed, Phases
    <3>4. /\ level' \in [Callsigns -> Levels]
          /\ \A d \in Callsigns : lv[d] # NoLevel => level'[d] # NoLevel
      <4>1. Population(Callsigns, [ph EXCEPT ![c] = "CLEARED"], lv)
        BY <1>3, <3>2, <3>3 DEF Handed, Population
      <4> HIDE DEF ph, lv
      <4>2. SteppedDown(Callsigns, [ph EXCEPT ![c] = "CLEARED"], lv) \in [Callsigns -> Levels]
        BY <4>1, SteppedDownType
      <4>3. \A d \in Callsigns : lv[d] # NoLevel =>
            SteppedDown(Callsigns, [ph EXCEPT ![c] = "CLEARED"], lv)[d] # NoLevel
        BY <4>1, SteppedDownType
      <4>4. level' = lv \/ level' = SteppedDown(Callsigns, [ph EXCEPT ![c] = "CLEARED"], lv)
        BY <3>2, Zenon
      <4> QED BY <1>3, <4>2, <4>3, <4>4, Zenon DEF Handed
    <3>5. told' \in SUBSET Callsigns /\ told \ {c} \subseteq told'
      BY <3>2 DEF IInv, TypeOK, Announced
    <3>6. \A d \in Callsigns : phase'[d] = "HOLDING" => d \in told' /\ level'[d] # NoLevel
      BY <1>3, <3>2, <3>3, <3>4, <3>5 DEF IInv, TypeOK, ToldWhatIsHeld, Handed
    <3> QED BY <3>2, <3>3, <3>4, <3>5, <3>6 DEF Left
  <2> QED BY <2>1, <2>2
<1> QED BY <1>4, LeftIsIInv DEF RequestFromArrival, IInv, TypeOK

LEMMA RequestAgainKeeps ==
    ASSUME IInv, NEW c \in Callsigns, RequestAgain(c)
    PROVE  IInv'
<1> DEFINE ph == [phase EXCEPT ![c] = Asking(c)]
<1>1. Handed(ph, level, told, LetdownAsking(c))
  BY AskingHasNoLetdown, NoOneAssumption
     DEF IInv, TypeOK, LetdownHolderCleared, ToldWhatIsHeld, HoldersAtALevel, Handed
<1>2. Left
  BY <1>1, TryClearForKeeps DEF RequestAgain
<1> QED BY <1>2, LeftIsIInv DEF RequestAgain, IInv, TypeOK

LEMMA RequestBreakupKeeps ==
    ASSUME IInv, NEW c \in Callsigns, RequestBreakup(c)
    PROVE  IInv'
<1>1. Handed([phase EXCEPT ![c] = "UNKNOWN"], [level EXCEPT ![c] = NoLevel],
             told \ {c}, LetdownWithout(c))
  BY LevelsOfTheStack, NoOneAssumption DEF IInv, TypeOK, LetdownHolderCleared,
     ToldWhatIsHeld, HoldersAtALevel, Handed, LetdownWithout, Phases
<1>2. Left
  BY <1>1, TryClearKeeps DEF RequestBreakup
<1>3. tries' \in [Callsigns -> 0 .. MaxApproaches]
  BY DEF RequestBreakup, IInv, TypeOK, MaxApproaches
<1> QED BY <1>2, <1>3, LeftIsIInv DEF RequestBreakup, IInv, TypeOK

LEMMA TickTimeoutKeeps ==
    ASSUME IInv, TickTimeout
    PROVE  IInv'
<1>1. letdown \in Callsigns /\ phase[letdown] = "CLEARED"
  BY DEF TickTimeout, IInv, TypeOK, LetdownHolderCleared
<1>2. Handed(phase, [level EXCEPT ![letdown] = NoLevel], told \ {letdown}, NoOne)
  BY <1>1, LevelsOfTheStack DEF IInv, TypeOK, LetdownHolderCleared,
     ToldWhatIsHeld, HoldersAtALevel, Handed
<1>3. Left
  BY <1>2, TryClearKeeps DEF TickTimeout
<1> QED BY <1>3, LeftIsIInv DEF TickTimeout, IInv, TypeOK

LEMMA TryEveryStackKeeps ==
    ASSUME IInv, TryEveryStack
    PROVE  IInv'
<1>1. Handed(phase, level, told, letdown)
  BY DEF IInv, TypeOK, LetdownHolderCleared, ToldWhatIsHeld, HoldersAtALevel, Handed
<1>2. Left
  BY <1>1, TryClearKeeps DEF TryEveryStack
<1> QED BY <1>2, LeftIsIInv DEF TryEveryStack, IInv, TypeOK

\* The calls that do not end in _try_clear.
LEMMA QuietCallsKeep ==
    ASSUME IInv, NEW c \in Callsigns,
           \/ CheckIn(c) \/ StationPassage(c) \/ LevelCheck(c)
           \/ RequestVisual(c) \/ ChangeRefused(c) \/ SeenOnFinal(c) \/ Release(c)
           \/ \E l \in VectorLevels : NoteVectored(c, l)
    PROVE  IInv'
<1> USE DEF IInv, TypeOK, LetdownHolderCleared, ToldWhatIsHeld, HoldersAtALevel, Phases
<1>1. CASE CheckIn(c)
  BY <1>1 DEF CheckIn
<1>2. CASE StationPassage(c)
  BY <1>2 DEF StationPassage
<1>3. CASE LevelCheck(c)
  BY <1>3 DEF LevelCheck
<1>4. CASE VisualCleared(c)
  BY <1>4 DEF VisualCleared
<1>5. CASE VisualHolds(c)
  <2>1. PICK s \in Slots \cup {MissedLevel} :
          level' = [level EXCEPT ![c] = s] /\ told' = told \cup {c}
    BY <1>5 DEF VisualHolds
  <2>2. level' \in [Callsigns -> Levels] /\ s # NoLevel
    BY <2>1, LevelsOfTheStack
  <2> QED BY <1>5, <2>1, <2>2 DEF VisualHolds
<1>6. CASE SeenOnFinal(c)
  BY <1>6, LevelsOfTheStack DEF SeenOnFinal
<1>7. CASE Release(c)
  BY <1>7, LevelsOfTheStack, NoOneAssumption DEF Release, LetdownWithout, MaxApproaches
<1>9. CASE ChangeRefused(c)
  BY <1>9, NoOneAssumption DEF ChangeRefused, LetdownWithout
<1>8. ASSUME NEW l \in VectorLevels, NoteVectored(c, l)
      PROVE  IInv'
  <2>1. l \in Levels /\ l # NoLevel
    BY LevelsOfTheStack
  <2> QED BY <1>8, <2>1 DEF NoteVectored
<1> QED BY <1>1, <1>2, <1>3, <1>4, <1>5, <1>6, <1>7, <1>8, <1>9 DEF RequestVisual

LEMMA NextIInv == IInv /\ [Next]_vars => IInv'
<1> SUFFICES ASSUME IInv, [Next]_vars PROVE IInv'
  OBVIOUS
<1>1. ASSUME NEW c \in Callsigns, ReportBeacon(c) PROVE IInv'
  BY <1>1, EnterStackKeeps, QuietCallsKeep DEF ReportBeacon
<1>2. ASSUME NEW c \in Callsigns, ReportMissed(c) PROVE IInv'
  BY <1>2, DoMissedKeeps DEF ReportMissed
<1>3. ASSUME NEW c \in Callsigns, ReportLanded(c) \/ ReportDown(c) PROVE IInv'
  BY <1>3, LandedKeeps DEF ReportLanded, ReportDown
<1>4. ASSUME NEW c \in Callsigns, RequestApproach(c) PROVE IInv'
  BY <1>4, RequestFromArrivalKeeps, RequestAgainKeeps, QuietCallsKeep DEF RequestApproach
<1>5. ASSUME Tick PROVE IInv'
  <2>1. CASE TickTimeout
    BY <2>1, TickTimeoutKeeps
  <2>2. CASE TickPassage
    <3>1. letdown \in Callsigns
      BY <2>2 DEF TickPassage, IInv, TypeOK
    <3> QED BY <2>2, <3>1, DoMissedKeeps DEF TickPassage
  <2> QED BY <1>5, <2>1, <2>2 DEF Tick
<1>6. CASE UNCHANGED vars
  BY <1>6 DEF vars, IInv, TypeOK, LetdownHolderCleared, ToldWhatIsHeld, HoldersAtALevel
<1> QED
  BY <1>1, <1>2, <1>3, <1>4, <1>5, <1>6, RequestBreakupKeeps, QuietCallsKeep,
     TryEveryStackKeeps DEF Next

\* The inductive invariant holds in every state the engine reaches.
THEOREM InvariantHolds == Spec => []IInv
BY InitIInv, NextIInv, PTL DEF Spec

\* Every call leaves phases, levels and the letdown what they may be: the moves
\* of a step down in particular always find a level to move to.
THEOREM TypeCorrect == Spec => []TypeOK
<1>1. IInv => TypeOK
  BY DEF IInv
<1> QED BY <1>1, InvariantHolds, PTL

\* Whoever has the letdown is CLEARED, for any number of aircraft: no call takes
\* a clearance away from the aircraft that flies it and keeps it in the letdown.
THEOREM LetdownIsCleared == Spec => []LetdownHolderCleared
<1>1. IInv => LetdownHolderCleared
  BY DEF IInv
<1> QED BY <1>1, InvariantHolds, PTL

\* Every holder was told the level he is separated at, whichever call, his own
\* or another aircraft's, assigned it last.
THEOREM HoldersAreTold == Spec => []ToldWhatIsHeld
<1>1. IInv => ToldWhatIsHeld
  BY DEF IInv
<1> QED BY <1>1, InvariantHolds, PTL

-----------------------------------------------------------------------------
(* What no call may do: theorems about steps, from the same invariant. *)

\* _try_clear either changes nothing, and then nobody was waiting for a free
\* letdown, or gives the free letdown to the next aircraft.
LEMMA TryClearOutcome ==
    ASSUME NEW ph, NEW lv, NEW tl, NEW ld, TryClear(ph, lv, tl, ld)
    PROVE  \/ /\ phase' = ph /\ level' = lv /\ letdown' = ld
              /\ ld = NoOne => NextUp(Callsigns, ph, lv) = {}
           \/ /\ ld = NoOne
              /\ letdown' \in NextUp(Callsigns, ph, lv)
              /\ phase' = [ph EXCEPT ![letdown'] = "CLEARED"]
BY Zenon DEF TryClear

\* What these proofs ask of the board, and the part of the invariant that a
\* restart leaves true as well.
Board == TypeOK /\ LetdownHolderCleared

LEMMA IInvIsBoard == IInv => Board
BY DEF IInv, Board

\* The calls that do not end in _try_clear, and the ones that do.
Quiet(c) ==
    \/ CheckIn(c) \/ StationPassage(c) \/ LevelCheck(c)
    \/ VisualCleared(c) \/ VisualHolds(c) \/ ChangeRefused(c)
    \/ SeenOnFinal(c) \/ Release(c)
    \/ \E l \in VectorLevels : NoteVectored(c, l)

Sequencing(c) ==
    \/ EnterStack(c) \/ DoMissed(c) \/ Landed(c)
    \/ RequestFromArrival(c) \/ RequestAgain(c) \/ RequestBreakup(c)

LEMMA NextCases ==
    ASSUME Board, [Next]_vars
    PROVE  \/ \E c \in Callsigns : Quiet(c) \/ Sequencing(c)
           \/ TickTimeout \/ TryEveryStack \/ UNCHANGED vars
<1>1. ASSUME TickPassage PROVE letdown \in Callsigns /\ DoMissed(letdown)
  BY <1>1 DEF TickPassage, Board, TypeOK
<1> QED
  BY <1>1, Zenon DEF Next, Quiet, Sequencing, ReportBeacon, ReportMissed, ReportLanded,
     ReportDown, RequestVisual, RequestApproach, Tick

\* Where a call puts the aircraft that makes it, before _try_clear: where it was,
\* at no level, at one nobody is at, or where a missed approach goes.
Placed(c, ph, lv) ==
    \/ lv[c] = level[c] /\ (phase[c] = "LANDED" => ph[c] = "LANDED")
    \/ lv[c] = NoLevel
    \/ ~Taken(lv[c], c)
    \/ doubled' /\ (ph[c] = "MISSED" \/ lv[c] = N)

\* What a sequencing call hands to _try_clear: it moves nobody else, and gives the letdown back only for
\* an aircraft that it takes off the approach, it leaves everybody else's phase
\* alone, and it makes an aircraft MISSED only by a missed approach.
Made(c, ph, lv, ld) ==
    /\ ph \in [Callsigns -> Phases] /\ lv \in [Callsigns -> Levels]
    /\ \A d \in Callsigns \ {c} : lv[d] = level[d]
    /\ Placed(c, ph, lv)
    /\ phase[c] = "HOLDING" /\ ph[c] = "HOLDING" => lv[c] = level[c] \/ ReportMissed(c)
    /\ ld \in {letdown, NoOne} \ {c}
    /\ ld # letdown => letdown = c /\ ph[c] # "CLEARED"
    /\ \A d \in Callsigns \ {c} : ph[d] = phase[d]
    /\ ph[c] = "MISSED" => phase[c] = "MISSED" \/ ReportMissed(c)

LEMMA SequencingMakes ==
    ASSUME Board, NEW c \in Callsigns, Sequencing(c)
    PROVE  \E ph, lv, tl, ld : TryClear(ph, lv, tl, ld) /\ Made(c, ph, lv, ld)
<1> USE DEF Made, LetdownWithout
<1>0. /\ phase \in [Callsigns -> Phases] /\ level \in [Callsigns -> Levels]
      /\ letdown # NoOne => phase[letdown] = "CLEARED"
  BY DEF Board, TypeOK, LetdownHolderCleared
<1>c. /\ LetdownAsking(c) \in {letdown, NoOne} \ {c}
      /\ LetdownAsking(c) # letdown => letdown = c
      /\ Asking(c) \in Phases \ {"CLEARED"}
      /\ Asking(c) = phase[c] \/ (phase[c] = "CLEARED" /\ Asking(c) = "ENROUTE")
  BY AskingHasNoLetdown DEF Board, TypeOK
<1>b. /\ LetdownWithout(c) \in {letdown, NoOne} \ {c}
      /\ phase[c] # "CLEARED" => letdown \in {letdown, NoOne} \ {c}
  BY <1>0, NoOneAssumption
<1>a. ASSUME NEW s \in Slots, FreeSlot(s), phase[c] \in {"UNKNOWN", "ENROUTE", "CLEARED"},
             NEW ld \in {letdown, NoOne} \ {c}, ld # letdown => letdown = c
      PROVE  Made(c, [phase EXCEPT ![c] = "HOLDING"], [level EXCEPT ![c] = s], ld)
  <2> DEFINE ph == [phase EXCEPT ![c] = "HOLDING"]
             lv == [level EXCEPT ![c] = s]
  <2>1. ph \in [Callsigns -> Phases] /\ lv \in [Callsigns -> Levels] /\ lv[c] = s
    BY <1>0, LevelsOfTheStack DEF Phases
  <2>2. ~Taken(s, c)
    <3> SUFFICES ASSUME NEW d \in Callsigns, level[d] = s, phase[d] # "LANDED" PROVE FALSE
      BY DEF Taken
    <3>1. s # NoLevel
      BY LevelsOfTheStack
    <3>2. s \notin Held(Callsigns, phase, level) \cup SpokenFor(Callsigns, phase, level)
      BY <1>a DEF FreeSlot, IsFreeSlot, OpenSlots
    <3> QED BY <3>1, <3>2 DEF Held, Holders, SpokenFor
  <2>3. Placed(c, ph, lv)
    BY <2>1, <2>2 DEF Placed
  <2> QED BY <1>0, <1>a, <1>b, <2>1, <2>3
<1>1. CASE EnterStack(c)
  <2>1. PICK s \in Slots :
          /\ FreeSlot(s)
          /\ TryClear([phase EXCEPT ![c] = "HOLDING"], [level EXCEPT ![c] = s],
                      told \cup {c}, letdown)
    BY <1>1 DEF EnterStack
  <2>2. Made(c, [phase EXCEPT ![c] = "HOLDING"], [level EXCEPT ![c] = s], letdown)
    BY <1>1, <1>a, <1>b, <2>1 DEF EnterStack
  <2> QED BY <2>1, <2>2
<1>2. CASE DoMissed(c)
  <2> DEFINE banished == tries[c] + 1 >= MaxApproaches
             ph == [phase EXCEPT ![c] = IF banished THEN "HOLDING" ELSE "MISSED"]
             lv == [level EXCEPT ![c] = SentTo(banished)]
  <2>1. TryClear(ph, lv, told \cup {c}, LetdownWithout(c))
        /\ doubled' = (doubled \/ Taken(SentTo(banished), c))
    BY <1>2, Zenon DEF DoMissed
  <2>2. /\ ph \in [Callsigns -> Phases] /\ lv \in [Callsigns -> Levels]
        /\ lv[c] = SentTo(banished) /\ ph[c] = IF banished THEN "HOLDING" ELSE "MISSED"
        /\ \A d \in Callsigns \ {c} : ph[d] = phase[d] /\ lv[d] = level[d]
    BY <1>0, LevelsOfTheStack DEF Phases, SentTo
  <2>3. ph[c] = "MISSED" \/ lv[c] = N
    BY <2>2 DEF SentTo
  <2>4. Placed(c, ph, lv)
    <3>1. CASE ~Taken(lv[c], c)
      BY <3>1 DEF Placed
    <3>2. CASE Taken(lv[c], c)
      <4>1. doubled'
        <5> HIDE DEF lv, ph, banished
        <5> QED BY <2>1, <2>2, <3>2
      <4> QED BY <2>3, <4>1 DEF Placed
    <3> QED BY <3>1, <3>2
  <2>5. Made(c, ph, lv, LetdownWithout(c))
    <3>1. ReportMissed(c) /\ ph[c] # "CLEARED"
      BY <1>2, <2>2 DEF ReportMissed
    <3> HIDE DEF lv, ph, banished
    <3> QED BY <1>b, <2>2, <2>4, <3>1
  <2> QED BY <2>1, <2>5
<1>3. CASE Landed(c)
  <2>1. TryClear([phase EXCEPT ![c] = "LANDED"], level, told, LetdownWithout(c))
    BY <1>3 DEF Landed
  <2>2. Made(c, [phase EXCEPT ![c] = "LANDED"], level, LetdownWithout(c))
    BY <1>0, <1>b DEF Placed, Phases
  <2> QED BY <2>1, <2>2
<1>4. CASE RequestFromArrival(c)
  <2>1. phase[c] \in {"UNKNOWN", "ENROUTE", "CLEARED"}
    BY <1>4, <1>c DEF RequestFromArrival
  <2>2. PICK s \in Slots :
          /\ FreeSlot(s)
          /\ \E tl : TryClear([phase EXCEPT ![c] = "HOLDING"], [level EXCEPT ![c] = s], tl,
                             LetdownAsking(c))
    BY <1>4, <1>c, Zenon DEF RequestFromArrival, TryClearFor
  <2>3. Made(c, [phase EXCEPT ![c] = "HOLDING"], [level EXCEPT ![c] = s], LetdownAsking(c))
    BY <1>a, <1>c, <2>1, <2>2
  <2> QED BY <2>2, <2>3
<1>5. CASE RequestAgain(c)
  <2> DEFINE ph == [phase EXCEPT ![c] = Asking(c)]
  <2>1. TryClear(ph, level, told, LetdownAsking(c))
    BY <1>5, <1>c DEF RequestAgain, TryClearFor
  <2>2. /\ ph \in [Callsigns -> Phases] /\ ph[c] = Asking(c)
        /\ \A d \in Callsigns \ {c} : ph[d] = phase[d]
    BY <1>0, <1>c
  <2> HIDE DEF ph
  <2>3. Placed(c, ph, level)
    BY <1>c, <2>2 DEF Placed
  <2>4. Made(c, ph, level, LetdownAsking(c))
    BY <1>0, <1>c, <2>2, <2>3
  <2> QED BY <2>1, <2>4
<1>6. CASE RequestBreakup(c)
  <2>1. TryClear([phase EXCEPT ![c] = "UNKNOWN"], [level EXCEPT ![c] = NoLevel],
                 told \ {c}, LetdownWithout(c))
    BY <1>6 DEF RequestBreakup
  <2>2. Made(c, [phase EXCEPT ![c] = "UNKNOWN"], [level EXCEPT ![c] = NoLevel], LetdownWithout(c))
    BY <1>0, <1>b, LevelsOfTheStack DEF Placed, Phases
  <2> QED BY <2>1, <2>2
<1> QED BY <1>1, <1>2, <1>3, <1>4, <1>5, <1>6 DEF Sequencing

---------------------------------------------------------------------------
\* When _try_clear leaves the letdown free nobody is waiting for it.
LEMMA NobodyWaits ==
    ASSUME IInv', NEW ph, NEW lv, NEW tl, NEW ld, TryClear(ph, lv, tl, ld),
           letdown' = NoOne
    PROVE  Waiting' = {}
<1>1. \A c \in NextUp(Callsigns, ph, lv) : c # NoOne
  BY NextUpWaits, NoOneAssumption
<1>2. phase' = ph /\ level' = lv /\ NextUp(Callsigns, ph, lv) = {}
  BY <1>1, TryClearOutcome
<1>3. Population(Callsigns, ph, lv)
  BY <1>2 DEF IInv, TypeOK, Population
<1>4. Missed(Callsigns, ph) = {} /\ Holders(Callsigns, ph, lv) = {}
  BY <1>2, <1>3, LowestHolderExists DEF NextUp
<1> QED BY <1>2, <1>4 DEF Waiting, Missed, Holders

\* Only a release, or a change of approach that is refused, leaves the approach
\* idle with aircraft waiting for it.
THEOREM NeverIdle == Spec => ApproachNeverIdles
<1> DEFINE A == (letdown' = NoOne /\ Waiting' # {})
                  => \/ letdown = NoOne /\ Waiting # {}
                     \/ \E c \in Callsigns : Release(c) \/ ChangeRefused(c)
<1>1. ASSUME IInv, IInv', [Next]_vars PROVE A
  <2> SUFFICES ASSUME letdown' = NoOne, Waiting' # {},
                      \A c \in Callsigns : ~Release(c) /\ ~ChangeRefused(c)
               PROVE  letdown = NoOne /\ Waiting # {}
    OBVIOUS
  <2>1. ~TryEveryStack /\ ~TickTimeout /\ \A c \in Callsigns : ~Sequencing(c)
    BY <1>1, NobodyWaits, SequencingMakes, IInvIsBoard DEF TryEveryStack, TickTimeout
  <2>2. CASE UNCHANGED vars
    BY <2>2 DEF vars, Waiting
  <2>3. ASSUME NEW c \in Callsigns, Quiet(c) PROVE letdown = NoOne /\ Waiting # {}
    <3> USE DEF IInv, TypeOK, Waiting
    <3>1. CASE CheckIn(c)
      BY <3>1 DEF CheckIn
    <3>2. CASE StationPassage(c) \/ LevelCheck(c)
      BY <3>2 DEF StationPassage, LevelCheck
    <3>3. CASE VisualCleared(c) \/ VisualHolds(c) \/ SeenOnFinal(c)
      BY <3>3, NoOneAssumption DEF VisualCleared, VisualHolds, SeenOnFinal
    <3>4. ASSUME NEW l \in VectorLevels, NoteVectored(c, l)
          PROVE  letdown = NoOne /\ Waiting # {}
      BY <1>1, <3>4 DEF NoteVectored, HoldersAtALevel
    <3> QED BY <2>3, <3>1, <3>2, <3>3, <3>4 DEF Quiet
  <2> QED BY <1>1, <2>1, <2>2, <2>3, NextCases, IInvIsBoard
<1>2. IInv /\ IInv' /\ [Next]_vars => [A]_vars
  BY <1>1
<1> QED BY <1>2, InvariantHolds, PTL DEF Spec, ApproachNeverIdles

\* The letdown changes hands only as an aircraft leaves the approach, by what
\* radar sees, or by the clock -- which takes the loser's level and gives the
\* approach to somebody who was waiting for it.
THEOREM HandedOn == Spec => LetdownHandedOn
<1> DEFINE A == (letdown # NoOne /\ letdown' \notin {letdown, NoOne})
                  => \/ phase'[letdown] # "CLEARED"
                     \/ level'[letdown] = NoLevel /\ phase[letdown'] \in {"HOLDING", "MISSED"}
                     \/ \E c \in Callsigns : SeenOnFinal(c)
<1>1. ASSUME IInv, [Next]_vars PROVE A
  <2> SUFFICES ASSUME letdown # NoOne, letdown' \notin {letdown, NoOne},
                      \A c \in Callsigns : ~SeenOnFinal(c)
               PROVE  \/ phase'[letdown] # "CLEARED"
                      \/ level'[letdown] = NoLevel /\ phase[letdown'] \in {"HOLDING", "MISSED"}
    OBVIOUS
  <2>0. letdown \in Callsigns /\ phase[letdown] = "CLEARED"
    BY <1>1 DEF IInv, TypeOK, LetdownHolderCleared
  <2>1. ASSUME NEW c \in Callsigns, Quiet(c) PROVE FALSE
    BY <2>1 DEF Quiet, CheckIn, StationPassage, LevelCheck, VisualCleared, VisualHolds,
       ChangeRefused, Release, NoteVectored, LetdownWithout
  <2>2. ASSUME NEW c \in Callsigns, Sequencing(c) PROVE phase'[letdown] # "CLEARED"
    <3>1. PICK ph, lv, tl, ld : TryClear(ph, lv, tl, ld) /\ Made(c, ph, lv, ld)
      BY <1>1, <2>2, SequencingMakes, IInvIsBoard
    <3>2. letdown' \in NextUp(Callsigns, ph, lv) /\ phase' = [ph EXCEPT ![letdown'] = "CLEARED"]
      BY <3>1, TryClearOutcome DEF Made
    <3>3. ld = NoOne
      BY <3>1, TryClearOutcome DEF Made
    <3>4. ph[letdown] # "CLEARED"
      BY <3>1, <3>3 DEF Made
    <3> QED BY <3>2, <3>4
  <2>3. CASE TickTimeout
    <3> DEFINE lv == [level EXCEPT ![letdown] = NoLevel]
    <3>1. TryClear(phase, lv, told \ {letdown}, NoOne)
      BY <2>3 DEF TickTimeout
    <3>2. letdown' \in NextUp(Callsigns, phase, lv)
      BY <3>1, TryClearOutcome
    <3>3. phase[letdown'] \in {"HOLDING", "MISSED"}
      BY <3>2, NextUpWaits
    <3>4. level'[letdown] = NoLevel
      <4>1. lv \in [Callsigns -> Levels] /\ lv[letdown] = NoLevel
        BY <1>1, <2>0, LevelsOfTheStack DEF IInv, TypeOK
      <4>2. ASSUME NEW c \in NextUp(Callsigns, phase, lv)
            PROVE  SteppedDown(Callsigns, [phase EXCEPT ![c] = "CLEARED"], lv)[letdown] = NoLevel
        <5> DEFINE ph == [phase EXCEPT ![c] = "CLEARED"]
        <5>1. ph \in [Callsigns -> Phases] /\ ph[letdown] # "HOLDING"
          BY <1>1, <2>0 DEF IInv, TypeOK, Phases
        <5>2. Population(Callsigns, ph, lv)
          BY <4>1, <5>1 DEF Population
        <5>3. SteppedDown(Callsigns, ph, lv)[letdown] = lv[letdown]
          <6> HIDE DEF ph, lv
          <6> QED BY <2>0, <5>1, <5>2, SteppedDownType
        <5> QED BY <4>1, <5>3
      <4>3. \/ level' = lv
            \/ \E c \in NextUp(Callsigns, phase, lv) :
                 level' = SteppedDown(Callsigns, [phase EXCEPT ![c] = "CLEARED"], lv)
        <5> HIDE DEF lv
        <5> QED BY <3>1, Zenon DEF TryClear
      <4>4. CASE level' = lv
        BY <4>1, <4>4
      <4>5. ASSUME NEW c \in NextUp(Callsigns, phase, lv),
                   level' = SteppedDown(Callsigns, [phase EXCEPT ![c] = "CLEARED"], lv)
            PROVE  level'[letdown] = NoLevel
        BY <4>2, <4>5
      <4> HIDE DEF lv
      <4> QED BY <4>3, <4>4, <4>5
    <3> QED BY <3>3, <3>4
  <2>4. ~TryEveryStack
    BY TryClearOutcome DEF TryEveryStack
  <2>5. ~UNCHANGED vars
    BY DEF vars
  <2> QED BY <1>1, <2>1, <2>2, <2>3, <2>4, <2>5, NextCases, IInvIsBoard
<1>2. IInv /\ [Next]_vars => [A]_vars
  BY <1>1
<1> QED BY <1>2, InvariantHolds, PTL DEF Spec, LetdownHandedOn

\* While somebody is on the missed approach, the approach goes to a holder only
\* by his own visual, his own missed approach or what radar sees of him.
THEOREM MissedFirst == Spec => MissedGoesFirst
<1> DEFINE A == \A c, m \in Callsigns :
                  (/\ phase[c] = "HOLDING" /\ letdown # c /\ letdown' = c
                   /\ m # c /\ phase[m] = "MISSED" /\ phase'[m] = "MISSED")
                  => SeenOnFinal(c) \/ RequestVisual(c) \/ ReportMissed(c)
<1>1. ASSUME IInv, [Next]_vars PROVE A
  <2> SUFFICES ASSUME NEW c \in Callsigns, NEW m \in Callsigns,
                      phase[c] = "HOLDING", letdown # c, letdown' = c,
                      m # c, phase[m] = "MISSED", phase'[m] = "MISSED"
               PROVE  SeenOnFinal(c) \/ RequestVisual(c) \/ ReportMissed(c)
    OBVIOUS
  <2>1. ASSUME NEW x \in Callsigns, Quiet(x) PROVE SeenOnFinal(c) \/ RequestVisual(c)
    BY <2>1, NoOneAssumption DEF Quiet, CheckIn, StationPassage, LevelCheck, VisualCleared,
       VisualHolds, ChangeRefused, Release, NoteVectored, LetdownWithout, SeenOnFinal, RequestVisual
  <2>2. ASSUME NEW ph, NEW lv, NEW tl, NEW ld, TryClear(ph, lv, tl, ld),
               ld \in {letdown, NoOne}, ph[m] = "MISSED" \/ m = c
        PROVE  ph[c] = "MISSED"
    <3>1. c \in NextUp(Callsigns, ph, lv)
      BY <2>2, TryClearOutcome, NoOneAssumption
    <3>2. Missed(Callsigns, ph) # {}
      BY <2>2 DEF Missed
    <3> QED BY <3>1, <3>2 DEF NextUp, Missed
  <2>3. ASSUME NEW x \in Callsigns, Sequencing(x) PROVE ReportMissed(c)
    <3>1. PICK ph, lv, tl, ld : TryClear(ph, lv, tl, ld) /\ Made(x, ph, lv, ld)
      BY <1>1, <2>3, SequencingMakes, IInvIsBoard
    <3>2. c \in NextUp(Callsigns, ph, lv) /\ phase' = [ph EXCEPT ![c] = "CLEARED"]
      BY <3>1, TryClearOutcome, NoOneAssumption DEF Made
    <3>3. ph[m] = "MISSED"
      BY <3>2
    <3>4. ph[c] = "MISSED"
      BY <2>2, <3>1, <3>3 DEF Made
    <3> QED BY <3>1, <3>4 DEF Made
  <2>4. ~TryEveryStack
    BY <2>2 DEF TryEveryStack
  <2>5. ~TickTimeout
    BY <2>2 DEF TickTimeout
  <2>6. ~UNCHANGED vars
    BY DEF vars
  <2> QED BY <1>1, <2>1, <2>3, <2>4, <2>5, <2>6, NextCases, IInvIsBoard
<1>2. IInv /\ [Next]_vars => [A]_vars
  BY <1>1
<1> QED BY <1>2, InvariantHolds, PTL DEF Spec, MissedGoesFirst

---------------------------------------------------------------------------
(* Levels. *)

\* _try_clear moves levels only when a holder leaves the stack, and then he was
\* the lowest and nobody was on the missed approach.
LEMMA TryClearLevels ==
    ASSUME NEW ph, NEW lv, NEW tl, NEW ld, ph \in [Callsigns -> Phases],
           TryClear(ph, lv, tl, ld)
    PROVE  \/ phase' = ph /\ level' = lv
           \/ \E d \in Missed(Callsigns, ph) :
                phase' = [ph EXCEPT ![d] = "CLEARED"] /\ level' = lv
           \/ \E d \in LowestHolders(Callsigns, ph, lv) :
                /\ Missed(Callsigns, ph) = {}
                /\ phase' = [ph EXCEPT ![d] = "CLEARED"]
                /\ level' = SteppedDown(Callsigns, [ph EXCEPT ![d] = "CLEARED"], lv)
<1>1. CASE phase' = ph /\ level' = lv
  BY <1>1
<1>2. ASSUME NEW d \in NextUp(Callsigns, ph, lv),
             phase' = [ph EXCEPT ![d] = "CLEARED"],
             level' = IF ph[d] = "HOLDING"
                      THEN SteppedDown(Callsigns, [ph EXCEPT ![d] = "CLEARED"], lv)
                      ELSE lv
      PROVE  \/ \E e \in Missed(Callsigns, ph) :
                  phase' = [ph EXCEPT ![e] = "CLEARED"] /\ level' = lv
             \/ \E e \in LowestHolders(Callsigns, ph, lv) :
                  /\ Missed(Callsigns, ph) = {}
                  /\ phase' = [ph EXCEPT ![e] = "CLEARED"]
                  /\ level' = SteppedDown(Callsigns, [ph EXCEPT ![e] = "CLEARED"], lv)
  <2>1. CASE Missed(Callsigns, ph) # {}
    <3>1. d \in Missed(Callsigns, ph) /\ ph[d] # "HOLDING"
      BY <2>1 DEF NextUp, Missed
    <3> QED BY <1>2, <3>1, Zenon
  <2>2. CASE Missed(Callsigns, ph) = {}
    <3>1. d \in LowestHolders(Callsigns, ph, lv) /\ ph[d] = "HOLDING"
      BY <2>2 DEF NextUp, LowestHolders, Holders
    <3> QED BY <1>2, <2>2, <3>1, Zenon
  <2> QED BY <2>1, <2>2
<1>3. \/ phase' = ph /\ level' = lv
      \/ \E d \in NextUp(Callsigns, ph, lv) :
           /\ phase' = [ph EXCEPT ![d] = "CLEARED"]
           /\ level' = IF ph[d] = "HOLDING"
                       THEN SteppedDown(Callsigns, [ph EXCEPT ![d] = "CLEARED"], lv)
                       ELSE lv
  BY Zenon DEF TryClear
<1> QED BY <1>1, <1>2, <1>3

\* A board that is handed over apart is left apart.
LEMMA TryClearApart ==
    ASSUME NEW ph, NEW lv, NEW tl, NEW ld, Population(Callsigns, ph, lv),
           Apart(Callsigns, ph, lv), TryClear(ph, lv, tl, ld)
    PROVE  Apart(Callsigns, phase', level')
<1>1. CASE phase' = ph /\ level' = lv
  BY <1>1
<1>2. ASSUME NEW d \in Missed(Callsigns, ph),
             phase' = [ph EXCEPT ![d] = "CLEARED"], level' = lv
      PROVE  Apart(Callsigns, phase', level')
  <2>1. \A a \in Callsigns : phase'[a] # "LANDED" => ph[a] # "LANDED"
    BY <1>2 DEF Population, Missed
  <2> QED BY <1>2, <2>1 DEF Apart
<1>3. ASSUME NEW d \in LowestHolders(Callsigns, ph, lv),
             phase' = [ph EXCEPT ![d] = "CLEARED"],
             level' = SteppedDown(Callsigns, [ph EXCEPT ![d] = "CLEARED"], lv)
      PROVE  Apart(Callsigns, phase', level')
  <2>1. NearlyApart(Callsigns, ph, lv)
    BY DEF Apart, NearlyApart
  <2>2. level' = SteppedDown(Callsigns, phase', lv)
    BY <1>3, Zenon
  <2> QED BY <1>3, <2>1, <2>2, StackClosesUp DEF ClosedUp
<1> QED BY <1>1, <1>2, <1>3, TryClearLevels DEF Population

\* Nothing undoubles a level.
LEMMA DoubledStays == [Next]_vars /\ doubled => doubled'
BY DEF Next, vars, CheckIn, ReportBeacon, EnterStack, StationPassage, LevelCheck, ReportMissed,
   DoMissed, ReportLanded, ReportDown, Landed, RequestVisual, VisualCleared, VisualHolds,
   RequestApproach, RequestFromArrival, RequestAgain, ChangeRefused, RequestBreakup, SeenOnFinal, Release,
   NoteVectored, Tick, TickPassage, TickTimeout, TryEveryStack

LEMMA DistinctIsApart == DistinctLevels <=> Apart(Callsigns, phase, level)
BY DEF DistinctLevels, Apart

LEMMA DistinctIsApartNext == DistinctLevels' <=> Apart(Callsigns, phase', level')
BY DEF DistinctLevels, Apart

\* A call that does not end in _try_clear and doubles no level leaves all apart.
LEMMA QuietApart ==
    ASSUME IInv, Apart(Callsigns, phase, level), ~doubled',
           NEW c \in Callsigns, Quiet(c)
    PROVE  Apart(Callsigns, phase', level')
<1>1. phase \in [Callsigns -> Phases] /\ level \in [Callsigns -> Levels]
  BY DEF IInv, TypeOK
<1>2. CASE CheckIn(c) \/ StationPassage(c) \/ LevelCheck(c)
  BY <1>1, <1>2 DEF CheckIn, StationPassage, LevelCheck, Apart
<1>3. CASE VisualCleared(c)
  BY <1>1, <1>3 DEF VisualCleared, Apart, Taken
<1>4. CASE VisualHolds(c)
  <2>1. PICK s \in Slots \cup {MissedLevel} :
          level' = [level EXCEPT ![c] = s] /\ ~Taken(s, c)
    BY <1>4 DEF VisualHolds
  <2>2. phase' = [phase EXCEPT ![c] = "HOLDING"]
    BY <1>4 DEF VisualHolds
  <2> QED BY <1>1, <2>1, <2>2 DEF Apart, Taken
<1>5. CASE SeenOnFinal(c) \/ Release(c) \/ ChangeRefused(c)
  BY <1>1, <1>5 DEF SeenOnFinal, Release, ChangeRefused, Apart
<1>6. ASSUME NEW l \in VectorLevels, NoteVectored(c, l)
      PROVE  Apart(Callsigns, phase', level')
  BY <1>1, <1>6 DEF NoteVectored, Apart, Taken
<1> QED BY <1>2, <1>3, <1>4, <1>5, <1>6 DEF Quiet

\* And so does the aircraft that a call moves before _try_clear.
LEMMA PlacedApart ==
    ASSUME Apart(Callsigns, phase, level), NEW c \in Callsigns,
           NEW ph, NEW lv, NEW ld, Made(c, ph, lv, ld)
    PROVE  /\ ~doubled' => Apart(Callsigns, ph, lv)
           /\ ph[c] # "MISSED" => NearlyApart(Callsigns, ph, lv)
<1>1. \A d \in Callsigns \ {c} : ph[d] = phase[d] /\ lv[d] = level[d]
  BY DEF Made
<1>2. ASSUME \/ lv[c] = level[c] /\ (phase[c] = "LANDED" => ph[c] = "LANDED")
             \/ lv[c] = NoLevel
             \/ ~Taken(lv[c], c)
      PROVE  Apart(Callsigns, ph, lv)
  BY <1>1, <1>2 DEF Apart, Taken
<1>3. ASSUME lv[c] = N PROVE NearlyApart(Callsigns, ph, lv)
  BY <1>1, <1>3 DEF Apart, NearlyApart
<1>4. Apart(Callsigns, ph, lv) => NearlyApart(Callsigns, ph, lv)
  BY DEF Apart, NearlyApart
<1> QED BY <1>2, <1>3, <1>4 DEF Made, Placed

\* A free slot and a step down put nobody where somebody is: as long as no
\* assignment that looked at nobody has doubled a level, no level is shared.
THEOREM LevelsAreDistinct == Spec => []CheckedLevelsDistinct
<1>1. Init => CheckedLevelsDistinct
  BY DEF Init, CheckedLevelsDistinct, DistinctLevels
<1>2. ASSUME IInv, CheckedLevelsDistinct, [Next]_vars PROVE CheckedLevelsDistinct'
  <2> SUFFICES ASSUME ~doubled' PROVE Apart(Callsigns, phase', level')
    BY DistinctIsApartNext DEF CheckedLevelsDistinct
  <2>1. Apart(Callsigns, phase, level)
    BY <1>2, DoubledStays, DistinctIsApart DEF CheckedLevelsDistinct
  <2>2. phase \in [Callsigns -> Phases] /\ level \in [Callsigns -> Levels]
    BY <1>2 DEF IInv, TypeOK
  <2>3. ASSUME NEW c \in Callsigns, Quiet(c) PROVE Apart(Callsigns, phase', level')
    BY <1>2, <2>1, <2>3, QuietApart
  <2>4. ASSUME NEW c \in Callsigns, Sequencing(c) PROVE Apart(Callsigns, phase', level')
    <3>1. PICK ph, lv, tl, ld : TryClear(ph, lv, tl, ld) /\ Made(c, ph, lv, ld)
      BY <1>2, <2>4, SequencingMakes, IInvIsBoard
    <3>2. Apart(Callsigns, ph, lv)
      BY <2>1, <3>1, PlacedApart
    <3>3. Population(Callsigns, ph, lv)
      BY <3>1 DEF Made, Population
    <3> QED BY <3>1, <3>2, <3>3, TryClearApart
  <2>5. CASE TickTimeout
    <3> DEFINE lv == [level EXCEPT ![letdown] = NoLevel]
    <3>1. TryClear(phase, lv, told \ {letdown}, NoOne)
      BY <2>5 DEF TickTimeout
    <3>2. Population(Callsigns, phase, lv)
      BY <2>2, LevelsOfTheStack DEF Population
    <3>3. Apart(Callsigns, phase, lv)
      BY <2>1, <2>2 DEF Apart
    <3> QED BY <3>1, <3>2, <3>3, TryClearApart
  <2>6. CASE TryEveryStack
    BY <2>1, <2>2, <2>6, TryClearApart DEF TryEveryStack, Population
  <2>7. CASE UNCHANGED vars
    BY <2>1, <2>7 DEF vars
  <2> QED BY <1>2, <2>3, <2>4, <2>5, <2>6, <2>7, NextCases, IInvIsBoard
<1> QED BY <1>1, <1>2, InvariantHolds, PTL DEF Spec

\* What _try_clear does to two holders it leaves in the stack.
LEMMA TryClearOrder ==
    ASSUME NEW ph, NEW lv, NEW tl, NEW ld, Population(Callsigns, ph, lv),
           NearlyApart(Callsigns, ph, lv) \/ Missed(Callsigns, ph) # {},
           TryClear(ph, lv, tl, ld),
           NEW a \in Callsigns, NEW b \in Callsigns,
           phase'[a] = "HOLDING", phase'[b] = "HOLDING",
           lv[a] # NoLevel, lv[b] # NoLevel
    PROVE  level'[a] <= lv[a] /\ (lv[a] < lv[b] => level'[a] < level'[b])
<1>1. lv[a] \in Int /\ lv[b] \in Int
  BY NAssumption DEF Population, Levels, NoLevel
<1>2. CASE level' = lv
  BY <1>1, <1>2
<1>3. ASSUME NEW d \in LowestHolders(Callsigns, ph, lv),
             Missed(Callsigns, ph) = {},
             phase' = [ph EXCEPT ![d] = "CLEARED"],
             level' = SteppedDown(Callsigns, [ph EXCEPT ![d] = "CLEARED"], lv)
      PROVE  level'[a] <= lv[a] /\ (lv[a] < lv[b] => level'[a] < level'[b])
  <2>1. NearlyApart(Callsigns, ph, lv)
    BY <1>3
  <2> DEFINE cl == [ph EXCEPT ![d] = "CLEARED"]
             after == SteppedDown(Callsigns, cl, lv)
  <2>2. ClosedUp(Callsigns, ph, lv, cl, after)
    <3> HIDE DEF cl, after
    <3> QED BY <2>1, StackClosesUp DEF cl, after
  <2> HIDE DEF cl, after
  <2>3. /\ cl[a] = "HOLDING" => after[a] <= lv[a]
        /\ cl[a] = "HOLDING" /\ cl[b] = "HOLDING" /\ lv[a] < lv[b] => after[a] < after[b]
    BY <2>2 DEF ClosedUp
  <2>4. phase' = cl /\ level' = after
    BY <1>3, Zenon DEF cl, after
  <2> QED BY <2>3, <2>4
<1> QED BY <1>2, <1>3, TryClearLevels DEF Population

\* A step down lifts no holder, and no two change places or merge.
THEOREM StepDownOrder == Spec => StepDownKeepsOrder
<1> DEFINE A == \A a, b \in Callsigns :
                  (/\ ~doubled /\ StaysHolder(a) /\ StaysHolder(b)
                   /\ \/ level'[a] > level[a]
                      \/ level[a] < level[b] /\ level'[a] >= level'[b])
                  => OwnLevelChange(a) \/ OwnLevelChange(b)
<1>1. ASSUME IInv, IInv', CheckedLevelsDistinct, [Next]_vars PROVE A
  <2> SUFFICES ASSUME NEW a \in Callsigns, NEW b \in Callsigns,
                      ~doubled, StaysHolder(a), StaysHolder(b),
                      ~OwnLevelChange(a), ~OwnLevelChange(b)
               PROVE  ~(\/ level'[a] > level[a]
                        \/ level[a] < level[b] /\ level'[a] >= level'[b])
    OBVIOUS
  <2> SUFFICES ~(level'[a] > level[a]) /\ (level[a] < level[b] => level'[a] < level'[b])
    <3>1. level'[a] \in Int /\ level'[b] \in Int
      BY <1>1, NAssumption DEF IInv, TypeOK, Levels, NoLevel
    <3> QED BY <3>1
  <2>1. /\ phase \in [Callsigns -> Phases] /\ level \in [Callsigns -> Levels]
        /\ level' \in [Callsigns -> Levels]
        /\ level[a] # NoLevel /\ level[b] # NoLevel
        /\ letdown # NoOne => phase[letdown] = "CLEARED"
    BY <1>1 DEF IInv, TypeOK, HoldersAtALevel, StaysHolder, LetdownHolderCleared
  <2>2. level[a] \in Int /\ level[b] \in Int /\ level'[a] \in Int /\ level'[b] \in Int
    BY <2>1, NAssumption DEF Levels, NoLevel
  <2>3. Apart(Callsigns, phase, level)
    BY <1>1, DistinctIsApart DEF CheckedLevelsDistinct
  <2>4. ASSUME level'[a] = level[a], level'[b] = level[b]
        PROVE  ~(level'[a] > level[a]) /\ (level[a] < level[b] => level'[a] < level'[b])
    BY <2>2, <2>4
  <2>5. ASSUME NEW ph, NEW lv, NEW tl, NEW ld, TryClear(ph, lv, tl, ld),
               Population(Callsigns, ph, lv),
               NearlyApart(Callsigns, ph, lv) \/ Missed(Callsigns, ph) # {},
               lv[a] = level[a], lv[b] = level[b]
        PROVE  ~(level'[a] > level[a]) /\ (level[a] < level[b] => level'[a] < level'[b])
    <3>1. level'[a] <= lv[a] /\ (lv[a] < lv[b] => level'[a] < level'[b])
      BY <2>1, <2>5, TryClearOrder DEF StaysHolder
    <3> QED BY <2>2, <2>5, <3>1
  <2>6. ASSUME NEW c \in Callsigns, Quiet(c)
        PROVE  level'[a] = level[a] /\ level'[b] = level[b]
    <3>1. CASE \/ CheckIn(c) \/ StationPassage(c) \/ LevelCheck(c) \/ VisualCleared(c)
               \/ ChangeRefused(c)
      BY <3>1 DEF CheckIn, StationPassage, LevelCheck, VisualCleared, ChangeRefused
    <3>2. CASE VisualHolds(c)
      <4>1. \E s : level' = [level EXCEPT ![c] = s] /\ (level[c] = s \/ level[c] = NoLevel)
        BY <3>2 DEF VisualHolds
      <4> QED BY <2>1, <4>1
    <3>3. CASE SeenOnFinal(c) \/ Release(c)
      <4>1. c # a /\ c # b
        BY <2>1, <3>3 DEF SeenOnFinal, Release, StaysHolder
      <4>2. level' = [level EXCEPT ![c] = NoLevel]
        BY <3>3 DEF SeenOnFinal, Release
      <4> QED BY <2>1, <4>1, <4>2
    <3>4. ASSUME NEW l \in VectorLevels, NoteVectored(c, l)
          PROVE  level'[a] = level[a] /\ level'[b] = level[b]
      <4>1. c # a /\ c # b
        BY <3>4 DEF OwnLevelChange
      <4>2. level' = [level EXCEPT ![c] = l]
        BY <3>4 DEF NoteVectored
      <4> QED BY <2>1, <4>1, <4>2
    <3> QED BY <2>6, <3>1, <3>2, <3>3, <3>4 DEF Quiet
  <2>7. ASSUME NEW c \in Callsigns, Sequencing(c)
        PROVE  ~(level'[a] > level[a]) /\ (level[a] < level[b] => level'[a] < level'[b])
    <3>1. PICK ph, lv, tl, ld : TryClear(ph, lv, tl, ld) /\ Made(c, ph, lv, ld)
      BY <1>1, <2>7, SequencingMakes, IInvIsBoard
    <3>2. Population(Callsigns, ph, lv)
      BY <3>1 DEF Made, Population
    <3>3. NearlyApart(Callsigns, ph, lv) \/ Missed(Callsigns, ph) # {}
      BY <2>3, <3>1, PlacedApart DEF Missed
    <3>4. ASSUME NEW x \in {a, b} PROVE lv[x] = level[x]
      <4>1. CASE x # c
        BY <3>1, <4>1 DEF Made
      <4>2. CASE x = c
        <5>1. phase[c] = "HOLDING" /\ phase'[c] = "HOLDING" /\ ~ReportMissed(c)
          BY <4>2 DEF StaysHolder, OwnLevelChange
        <5>2. ph[c] = "HOLDING"
          <6>1. \/ phase' = ph
                \/ \E d : phase' = [ph EXCEPT ![d] = "CLEARED"]
            BY <3>1, Zenon DEF TryClear
          <6>2. ph \in [Callsigns -> Phases]
            BY <3>1 DEF Made
          <6> QED BY <5>1, <6>1, <6>2
        <5> QED BY <3>1, <4>2, <5>1, <5>2 DEF Made
      <4> QED BY <4>1, <4>2
    <3> QED BY <2>5, <3>1, <3>2, <3>3, <3>4
  <2>8. CASE TickTimeout
    <3> DEFINE lv == [level EXCEPT ![letdown] = NoLevel]
    <3>1. TryClear(phase, lv, told \ {letdown}, NoOne)
      BY <2>8 DEF TickTimeout
    <3>2. Population(Callsigns, phase, lv)
      BY <2>1, LevelsOfTheStack DEF Population
    <3>3. NearlyApart(Callsigns, phase, lv)
      BY <2>1, <2>3 DEF Apart, NearlyApart
    <3>4. lv[a] = level[a] /\ lv[b] = level[b]
      BY <2>1, <2>8 DEF TickTimeout, StaysHolder
    <3> HIDE DEF lv
    <3> QED BY <2>5, <3>1, <3>2, <3>3, <3>4
  <2>9. CASE TryEveryStack
    <3>1. NearlyApart(Callsigns, phase, level) /\ Population(Callsigns, phase, level)
      BY <2>1, <2>3 DEF Apart, NearlyApart, Population
    <3> QED BY <2>5, <2>9, <3>1 DEF TryEveryStack
  <2>x. CASE UNCHANGED vars
    BY <2>4, <2>x DEF vars
  <2> QED BY <1>1, <2>4, <2>6, <2>7, <2>8, <2>9, <2>x, NextCases, IInvIsBoard
<1>2. IInv /\ IInv' /\ CheckedLevelsDistinct /\ [Next]_vars => [A]_vars
  BY <1>1
<1> QED BY <1>2, InvariantHolds, LevelsAreDistinct, PTL DEF Spec, StepDownKeepsOrder

---------------------------------------------------------------------------
(* The restart.  A restart breaks part of the invariant above -- two rows   *)
(* may give one level, and nobody has been told anything -- so what follows *)
(* rests on Board alone, which every call keeps from any board.             *)

\* _try_clear hands on a board: whoever it clears is CLEARED.
LEMMA TryClearBoard ==
    ASSUME NEW ph, NEW lv, NEW tl, NEW ld, Population(Callsigns, ph, lv),
           ld \in Callsigns \cup {NoOne}, ld # NoOne => ph[ld] = "CLEARED",
           TryClear(ph, lv, tl, ld)
    PROVE  /\ phase' \in [Callsigns -> Phases] /\ level' \in [Callsigns -> Levels]
           /\ letdown' \in Callsigns \cup {NoOne}
           /\ letdown' # NoOne => phase'[letdown'] = "CLEARED"
<1>1. CASE phase' = ph /\ level' = lv /\ letdown' = ld
  BY <1>1 DEF Population
<1>2. ASSUME NEW c \in NextUp(Callsigns, ph, lv), letdown' = c,
             phase' = [ph EXCEPT ![c] = "CLEARED"],
             level' = IF ph[c] = "HOLDING"
                      THEN SteppedDown(Callsigns, [ph EXCEPT ![c] = "CLEARED"], lv) ELSE lv
      PROVE  /\ phase' \in [Callsigns -> Phases] /\ level' \in [Callsigns -> Levels]
             /\ letdown' \in Callsigns \cup {NoOne}
             /\ letdown' # NoOne => phase'[letdown'] = "CLEARED"
  <2> DEFINE cl == [ph EXCEPT ![c] = "CLEARED"]
  <2>1. c \in Callsigns
    BY NextUpWaits
  <2>2. cl \in [Callsigns -> Phases] /\ cl[c] = "CLEARED"
    BY <2>1 DEF Population, Phases
  <2>3. Population(Callsigns, cl, lv)
    BY <2>2 DEF Population
  <2> HIDE DEF cl
  <2>4. SteppedDown(Callsigns, cl, lv) \in [Callsigns -> Levels]
    BY <2>3, SteppedDownType
  <2>5. level' = lv \/ level' = SteppedDown(Callsigns, cl, lv)
    BY <1>2, Zenon DEF cl
  <2>6. level' \in [Callsigns -> Levels]
    BY <2>3, <2>4, <2>5 DEF Population
  <2>7. phase' = cl
    BY <1>2 DEF cl
  <2> QED BY <1>2, <2>1, <2>2, <2>6, <2>7
<1>3. \/ phase' = ph /\ level' = lv /\ letdown' = ld
      \/ \E c \in NextUp(Callsigns, ph, lv) :
           /\ letdown' = c /\ phase' = [ph EXCEPT ![c] = "CLEARED"]
           /\ level' = IF ph[c] = "HOLDING"
                       THEN SteppedDown(Callsigns, [ph EXCEPT ![c] = "CLEARED"], lv) ELSE lv
  BY Zenon DEF TryClear
<1> QED BY <1>1, <1>2, <1>3

\* What a call writes besides has its type too.
LEMMA TriesAndTimed ==
    ASSUME Board, [Next]_vars
    PROVE  /\ tries' \in [Callsigns -> 0 .. MaxApproaches]
           /\ timed' \in SUBSET Callsigns /\ doubled' \in BOOLEAN
<1> DEFINE Fine == /\ tries' \in [Callsigns -> 0 .. MaxApproaches]
                   /\ timed' \in SUBSET Callsigns /\ doubled' \in BOOLEAN
<1>1. /\ tries \in [Callsigns -> 0 .. MaxApproaches]
      /\ timed \in SUBSET Callsigns /\ doubled \in BOOLEAN
  BY DEF Board, TypeOK
<1>2. \A c \in Callsigns : timed \cup {c} \in SUBSET Callsigns /\ timed \ {c} \in SUBSET Callsigns
  BY <1>1
<1>3. CASE UNCHANGED <<tries, timed, doubled>>
  BY <1>1, <1>3
<1>4. ASSUME NEW c \in Callsigns, Quiet(c) PROVE Fine
  <2>1. CASE CheckIn(c) \/ LevelCheck(c) \/ SeenOnFinal(c) \/ ChangeRefused(c)
    BY <1>3, <2>1 DEF CheckIn, LevelCheck, SeenOnFinal, ChangeRefused
  <2>2. CASE StationPassage(c)
    BY <1>1, <1>2, <2>2 DEF StationPassage
  <2>3. CASE VisualCleared(c) \/ VisualHolds(c) \/ \E l \in VectorLevels : NoteVectored(c, l)
    <3>1. tries' = tries /\ timed' = timed
      BY <2>3 DEF VisualCleared, VisualHolds, NoteVectored
    <3>2. doubled' \in BOOLEAN
      BY <2>3, Zenon DEF VisualCleared, VisualHolds, NoteVectored
    <3> QED BY <1>1, <3>1, <3>2
  <2>4. CASE Release(c)
    <3>1. tries' = [tries EXCEPT ![c] = 0] /\ timed' = timed \ {c} /\ doubled' = doubled
      BY <2>4 DEF Release
    <3> QED BY <1>1, <1>2, <3>1 DEF MaxApproaches
  <2> QED BY <1>4, <2>1, <2>2, <2>3, <2>4, Zenon DEF Quiet
<1>5. ASSUME NEW c \in Callsigns, Sequencing(c) PROVE Fine
  <2>1. CASE EnterStack(c) \/ RequestFromArrival(c) \/ RequestAgain(c)
    BY <1>3, <2>1 DEF EnterStack, RequestFromArrival, RequestAgain
  <2>2. CASE DoMissed(c)
    <3>1. timed' = timed \ {c}
      BY <2>2 DEF DoMissed
    <3>2. doubled' \in BOOLEAN
      BY <2>2, Zenon DEF DoMissed
    <3>3. tries' \in [Callsigns -> 0 .. MaxApproaches]
      BY <1>1, <2>2 DEF DoMissed, MaxApproaches
    <3> QED BY <1>2, <3>1, <3>2, <3>3
  <2>3. CASE Landed(c)
    BY <1>1, <1>2, <2>3 DEF Landed
  <2>4. CASE RequestBreakup(c)
    <3>1. tries' = [tries EXCEPT ![c] = 0] /\ timed' = timed \ {c} /\ doubled' = doubled
      BY <2>4 DEF RequestBreakup
    <3> QED BY <1>1, <1>2, <3>1 DEF MaxApproaches
  <2> QED BY <1>5, <2>1, <2>2, <2>3, <2>4, Zenon DEF Sequencing
<1>6. CASE TickTimeout \/ TryEveryStack \/ UNCHANGED vars
  BY <1>3, <1>6 DEF TickTimeout, TryEveryStack, vars
<1> QED BY <1>4, <1>5, <1>6, NextCases

\* Only aircraft are told anything.
LEMMA ToldAircraft ==
    ASSUME Board, [Next]_vars
    PROVE  told' \in SUBSET Callsigns
<1> USE DEF Board, TypeOK
<1>1. ASSUME NEW ph, NEW lv, NEW tl \in SUBSET Callsigns, NEW ld, TryClear(ph, lv, tl, ld)
      PROVE  told' \in SUBSET Callsigns
  BY <1>1 DEF TryClear, Announced
<1>2. ASSUME NEW c \in Callsigns, NEW ph, NEW lv, NEW tl \in SUBSET Callsigns, NEW ld,
             TryClearFor(c, ph, lv, tl, ld)
      PROVE  told' \in SUBSET Callsigns
  BY <1>1, <1>2 DEF TryClearFor
<1>3. ASSUME NEW c \in Callsigns, Quiet(c) PROVE told' \in SUBSET Callsigns
  BY <1>3 DEF Quiet, CheckIn, StationPassage, LevelCheck, VisualCleared, VisualHolds,
     ChangeRefused, SeenOnFinal, Release, NoteVectored
<1>4. ASSUME NEW c \in Callsigns, Sequencing(c) PROVE told' \in SUBSET Callsigns
  <2>1. told \cup {c} \in SUBSET Callsigns /\ told \ {c} \in SUBSET Callsigns
        /\ told \in SUBSET Callsigns
    OBVIOUS
  <2>2. CASE EnterStack(c) \/ DoMissed(c) \/ Landed(c) \/ RequestBreakup(c)
    BY <1>1, <2>1, <2>2 DEF EnterStack, DoMissed, Landed, RequestBreakup
  <2>3. CASE RequestFromArrival(c)
    <3>1. \E ph, lv, ld : \/ TryClearFor(c, ph, lv, told \cup {c}, ld)
                           \/ TryClearFor(c, ph, lv, told \ {c}, ld)
      BY <2>3, Zenon DEF RequestFromArrival
    <3> QED BY <1>2, <2>1, <3>1
  <2>4. CASE RequestAgain(c)
    BY <1>2, <2>1, <2>4 DEF RequestAgain
  <2> QED BY <1>4, <2>2, <2>3, <2>4 DEF Sequencing
<1>5. CASE TickTimeout \/ TryEveryStack \/ UNCHANGED vars
  <2>1. told \ {letdown} \in SUBSET Callsigns /\ told \in SUBSET Callsigns
    OBVIOUS
  <2> QED BY <1>1, <1>5, <2>1 DEF TickTimeout, TryEveryStack, vars
<1> QED BY <1>3, <1>4, <1>5, NextCases

\* Every call leaves a board, whatever board it finds.
LEMMA NextBoard == Board /\ [Next]_vars => Board'
<1> SUFFICES ASSUME Board, [Next]_vars PROVE Board'
  OBVIOUS
<1>1. /\ phase \in [Callsigns -> Phases] /\ level \in [Callsigns -> Levels]
      /\ letdown \in Callsigns \cup {NoOne}
      /\ letdown # NoOne => phase[letdown] = "CLEARED"
  BY DEF Board, TypeOK, LetdownHolderCleared
<1> SUFFICES /\ phase' \in [Callsigns -> Phases] /\ level' \in [Callsigns -> Levels]
             /\ letdown' \in Callsigns \cup {NoOne}
             /\ letdown' # NoOne => phase'[letdown'] = "CLEARED"
  BY TriesAndTimed, ToldAircraft DEF Board, TypeOK, LetdownHolderCleared
<1>2. ASSUME NEW c \in Callsigns, Quiet(c)
      PROVE  /\ phase' \in [Callsigns -> Phases] /\ level' \in [Callsigns -> Levels]
             /\ letdown' \in Callsigns \cup {NoOne}
             /\ letdown' # NoOne => phase'[letdown'] = "CLEARED"
  <2> USE <1>1 DEF Phases
  <2>1. CASE CheckIn(c) \/ StationPassage(c) \/ LevelCheck(c) \/ VisualCleared(c)
    BY <2>1 DEF CheckIn, StationPassage, LevelCheck, VisualCleared
  <2>2. CASE VisualHolds(c)
    <3>1. PICK s \in Slots \cup {MissedLevel} : level' = [level EXCEPT ![c] = s]
      BY <2>2 DEF VisualHolds
    <3> QED BY <2>2, <3>1, LevelsOfTheStack DEF VisualHolds
  <2>3. CASE SeenOnFinal(c) \/ Release(c) \/ ChangeRefused(c)
    BY <2>3, LevelsOfTheStack, NoOneAssumption
       DEF SeenOnFinal, Release, ChangeRefused, LetdownWithout
  <2>4. ASSUME NEW l \in VectorLevels, NoteVectored(c, l)
        PROVE  /\ phase' \in [Callsigns -> Phases] /\ level' \in [Callsigns -> Levels]
               /\ letdown' \in Callsigns \cup {NoOne}
               /\ letdown' # NoOne => phase'[letdown'] = "CLEARED"
    BY <2>4, LevelsOfTheStack DEF NoteVectored
  <2> QED BY <1>2, <2>1, <2>2, <2>3, <2>4 DEF Quiet
<1>3. ASSUME NEW c \in Callsigns, Sequencing(c)
      PROVE  /\ phase' \in [Callsigns -> Phases] /\ level' \in [Callsigns -> Levels]
             /\ letdown' \in Callsigns \cup {NoOne}
             /\ letdown' # NoOne => phase'[letdown'] = "CLEARED"
  <2>1. PICK ph, lv, tl, ld : TryClear(ph, lv, tl, ld) /\ Made(c, ph, lv, ld)
    BY <1>3, SequencingMakes
  <2>2. Population(Callsigns, ph, lv)
    BY <2>1 DEF Made, Population
  <2>3. ld \in Callsigns \cup {NoOne} /\ (ld # NoOne => ph[ld] = "CLEARED")
    BY <1>1, <2>1 DEF Made
  <2> QED BY <2>1, <2>2, <2>3, TryClearBoard
<1>4. CASE TickTimeout
  <2> DEFINE lv == [level EXCEPT ![letdown] = NoLevel]
  <2>1. TryClear(phase, lv, told \ {letdown}, NoOne)
    BY <1>4 DEF TickTimeout
  <2>2. Population(Callsigns, phase, lv)
    BY <1>1, LevelsOfTheStack DEF Population
  <2> HIDE DEF lv
  <2> QED BY <2>1, <2>2, TryClearBoard
<1>5. CASE TryEveryStack
  <2>1. Population(Callsigns, phase, level)
    BY <1>1 DEF Population
  <2> QED BY <1>1, <1>5, <2>1, TryClearBoard DEF TryEveryStack
<1>6. CASE UNCHANGED vars
  BY <1>1, <1>6 DEF vars
<1> QED BY <1>2, <1>3, <1>4, <1>5, <1>6, NextCases

\* What a row must still say of an aircraft to whom nothing has happened since it
\* was written: his approaches, his level if he has one, and his phase -- or, of
\* those whom radar overruled, what radar saw.
Agrees(c, r) ==
    /\ r.tries = tries[c]
    /\ level[c] # NoLevel => r.level = level[c]
    /\ IF c \in overruled THEN r.phase \in SeenAs ELSE r.phase = phase[c]

Remember == \A c \in kept : Agrees(c, row[c])

RestartInv == RestartTypeOK /\ LetdownHolderCleared /\ Remember

\* But for a restart, every step is a call of the engine, or none, and writes the
\* row of one aircraft at most.
LEMMA RestartCases ==
    ASSUME RestartInv, RestartNext
    PROVE  \/ [Next]_vars /\ \E c \in Callsigns : Turn(c)
           \/ [Next]_vars /\ \E c \in Callsigns : Swept(c)
           \/ [Next]_vars /\ OffTurn
           \/ BridgeRestarts
<1>1. ASSUME NEW c \in Callsigns, Turn(c) PROVE [Next]_vars
  BY <1>1, Zenon DEF Turn, Calls, Next
<1>2. ASSUME NEW c \in Callsigns, Swept(c) PROVE [Next]_vars
  BY <1>2, Zenon DEF Swept, Next
<1>3. ASSUME OffTurn PROVE [Next]_vars
  BY <1>3, Zenon DEF OffTurn, Next
<1> QED BY <1>1, <1>2, <1>3, Zenon DEF RestartNext

\* A row that is written is a row, whether it is bound afresh or at the end of a turn.
LEMMA RowsAreRows ==
    ASSUME RestartTypeOK, Board', NEW c \in Callsigns, NEW r \in Rows, Write(c, r)
    PROVE  row' \in [Callsigns -> Rows] /\ lost' \in 0 .. MaxLost
BY MaxLostAssumption DEF RestartTypeOK, Write, Stored, WriteFails

LEMMA PhasesWrittenArePhases ==
    ASSUME Board', NEW c \in Callsigns
    PROVE  phase'[c] \in Phases /\ PhasesWritten(c) \subseteq Phases
<1>1. phase'[c] \in Phases
  BY DEF Board, TypeOK
<1>2. SeenAs \subseteq Phases
  BY DEF SeenAs, Phases
<1> QED BY <1>1, <1>2 DEF PhasesWritten

LEMMA WrittenIsARow ==
    ASSUME RestartTypeOK, Board', NEW c \in Callsigns, NEW seen \in PhasesWritten(c)
    PROVE  Written(c, seen) \in Rows
<1>1. row[c].level \in Levels
  BY DEF RestartTypeOK, Rows
<1>2. seen \in Phases /\ level'[c] \in Levels /\ tries'[c] \in 0 .. MaxApproaches
  BY PhasesWrittenArePhases DEF Board, TypeOK
<1> DEFINE l == IF level'[c] = NoLevel THEN row[c].level ELSE level'[c]
<1>3. l \in Levels
  BY <1>1, <1>2
<1>4. Written(c, seen) = [phase |-> seen, level |-> l, tries |-> tries'[c]]
  BY DEF Written
<1> HIDE DEF l
<1> QED BY <1>2, <1>3, <1>4 DEF Rows

LEMMA BareRowIsARow == BareRow \in Rows
BY LevelsOfTheStack DEF BareRow, Rows, Phases, MaxApproaches

\* An aircraft that is not moved keeps what its row says of it.
LEMMA UnmovedRemembered ==
    ASSUME Remember, NEW c \in kept \ Moved, c \in Callsigns, row'[c] = row[c],
           c \in overruled' <=> c \in overruled
    PROVE  Agrees(c, row[c])'
BY DEF Remember, Agrees, Moved

\* What the end of a turn writes agrees with the engine, radar's word aside.
LEMMA WrittenAgrees ==
    ASSUME NEW c \in Callsigns, NEW seen \in PhasesWritten(c), row'[c] = Written(c, seen),
           c \in overruled' <=> seen # phase'[c]
    PROVE  Agrees(c, row[c])'
<1>1. seen # phase'[c] => seen \in SeenAs
  BY DEF PhasesWritten
<1>2. /\ row'[c].phase = seen /\ row'[c].tries = tries'[c]
      /\ level'[c] # NoLevel => row'[c].level = level'[c]
  BY DEF Written
<1> QED BY <1>1, <1>2 DEF Agrees

LEMMA StoredRemembers ==
    ASSUME RestartInv, NEW c \in Callsigns, Board', NEW seen \in PhasesWritten(c),
           Stored(c, Written(c, seen)), kept' = (kept \ Moved) \cup {c},
           overruled' = ((overruled \ Moved) \ {c}) \cup {d \in {c} : seen # phase'[d]}
    PROVE  Remember' /\ RestartTypeOK'
<1>1. /\ RestartTypeOK /\ Remember /\ row \in [Callsigns -> Rows]
      /\ kept \in SUBSET Callsigns /\ overruled \in SUBSET kept
  BY DEF RestartInv, RestartTypeOK
<1>2. kept' \in SUBSET Callsigns /\ overruled' \in SUBSET kept'
  BY <1>1
<1>3. Write(c, Written(c, seen)) /\ row' = [row EXCEPT ![c] = Written(c, seen)]
  BY DEF Stored, Write
<1>4. row' \in [Callsigns -> Rows] /\ lost' \in 0 .. MaxLost
  BY <1>1, <1>3, RowsAreRows, WrittenIsARow
<1>5. RestartTypeOK'
  BY <1>2, <1>4 DEF RestartTypeOK, Board
<1>6. ASSUME NEW d \in kept' PROVE Agrees(d, row[d])'
  <2>1. CASE d = c
    <3>1. row'[c] = Written(c, seen) /\ (c \in overruled' <=> seen # phase'[c])
      BY <1>1, <1>3
    <3> QED BY <2>1, <3>1, WrittenAgrees
  <2>2. CASE d # c
    <3>1. /\ d \in kept \ Moved /\ d \in Callsigns /\ row'[d] = row[d]
          /\ d \in overruled' <=> d \in overruled
      BY <1>1, <1>3, <1>6, <2>2
    <3> QED BY <1>1, <3>1, UnmovedRemembered
  <2> QED BY <2>1, <2>2
<1> QED BY <1>5, <1>6 DEF Remember

\* Whatever moves somebody and writes no row -- a write that failed, a call outside
\* a turn -- leaves the rows of the unmoved as they were.
LEMMA UnwrittenRemembers ==
    ASSUME RestartInv, Board', row' = row, lost' \in 0 .. MaxLost,
           kept' = kept \ Moved, overruled' = overruled \ Moved
    PROVE  Remember' /\ RestartTypeOK'
<1>1. /\ Remember /\ row \in [Callsigns -> Rows]
      /\ kept \in SUBSET Callsigns /\ overruled \in SUBSET kept
  BY DEF RestartInv, RestartTypeOK
<1>2. RestartTypeOK'
  BY <1>1 DEF RestartTypeOK, Board
<1>3. ASSUME NEW d \in kept' PROVE Agrees(d, row[d])'
  <2>1. d \in kept \ Moved /\ d \in Callsigns /\ (d \in overruled' <=> d \in overruled)
    BY <1>1, <1>3
  <2> QED BY <1>1, <2>1, UnmovedRemembered
<1> QED BY <1>2, <1>3 DEF Remember

LEMMA TurnRemembers ==
    ASSUME RestartInv, NEW c \in Callsigns, Turn(c), Board'
    PROVE  Remember' /\ RestartTypeOK'
<1>1. CASE \E seen \in PhasesWritten(c) :
              /\ Stored(c, Written(c, seen))
              /\ kept' = (kept \ Moved) \cup {c}
              /\ overruled' = ((overruled \ Moved) \ {c}) \cup {d \in {c} : seen # phase'[d]}
  BY <1>1, StoredRemembers
<1>2. CASE WriteFails /\ kept' = kept \ Moved /\ overruled' = overruled \ Moved
  <2>1. row' = row /\ lost' \in 0 .. MaxLost
    BY <1>2, MaxLostAssumption DEF WriteFails, RestartInv, RestartTypeOK
  <2> QED BY <1>2, <2>1, UnwrittenRemembers
<1> QED BY <1>1, <1>2, Zenon DEF Turn

LEMMA OffTurnRemembers ==
    ASSUME RestartInv, OffTurn, Board'
    PROVE  Remember' /\ RestartTypeOK'
<1>1. row' = row /\ lost' = lost /\ kept' = kept \ Moved /\ overruled' = overruled \ Moved
  BY Zenon DEF OffTurn
<1> QED BY <1>1, UnwrittenRemembers DEF RestartInv, RestartTypeOK

LEMMA SweptRemembers ==
    ASSUME RestartInv, NEW c \in Callsigns, Swept(c), Board'
    PROVE  Remember' /\ RestartTypeOK'
<1>1. /\ Write(c, BareRow) /\ kept' = kept \ ({c} \cup Moved)
      /\ overruled' = overruled \ ({c} \cup Moved)
  BY DEF Swept
<1>2. /\ row \in [Callsigns -> Rows] /\ kept \in SUBSET Callsigns /\ overruled \in SUBSET kept
      /\ RestartTypeOK /\ Remember
  BY DEF RestartInv, RestartTypeOK
<1>3. kept' \in SUBSET Callsigns /\ overruled' \in SUBSET kept'
  BY <1>1, <1>2
<1>4. row' \in [Callsigns -> Rows] /\ lost' \in 0 .. MaxLost
  BY <1>1, <1>2, RowsAreRows, BareRowIsARow
<1>5. RestartTypeOK'
  BY <1>3, <1>4 DEF RestartTypeOK, Board
<1>6. ASSUME NEW d \in kept' PROVE Agrees(d, row[d])'
  <2>1. /\ d \in kept \ Moved /\ d # c /\ d \in Callsigns
        /\ d \in overruled' <=> d \in overruled
    BY <1>1, <1>2, <1>6
  <2>2. row'[d] = row[d]
    BY <1>1, <1>2, <2>1 DEF Write, Stored, WriteFails
  <2> QED BY <1>2, <2>1, <2>2, UnmovedRemembered
<1> QED BY <1>5, <1>6 DEF Remember

\* The aircraft as the rows give it back.
Back == [c \in Callsigns |-> IF row[c].phase = "LANDED" THEN BareRow ELSE row[c]]

LEMMA WhatComesBack ==
    ASSUME RestartTypeOK, BridgeRestarts
    PROVE  /\ \A c \in Callsigns : /\ Back[c] \in Rows
                                   /\ phase'[c] = Back[c].phase
                                   /\ level'[c] = Back[c].level
                                   /\ tries'[c] = Back[c].tries
           /\ phase' \in [Callsigns -> Phases] /\ level' \in [Callsigns -> Levels]
           /\ tries' \in [Callsigns -> 0 .. MaxApproaches]
           /\ LET S == {c \in Callsigns : Back[c].phase = "CLEARED"}
              IN  letdown' \in IF S = {} THEN {NoOne} ELSE S
<1>1. \A c \in Callsigns : row[c] \in Rows
  BY DEF RestartTypeOK
<1>2. \A c \in Callsigns : Back[c] \in Rows
  BY <1>1, BareRowIsARow DEF Back
<1>3. \A c \in Callsigns : /\ Back[c].phase \in Phases /\ Back[c].level \in Levels
                           /\ Back[c].tries \in 0 .. MaxApproaches
  BY <1>2 DEF Rows
<1>4. /\ phase' = [c \in Callsigns |-> Back[c].phase]
      /\ level' = [c \in Callsigns |-> Back[c].level]
      /\ tries' = [c \in Callsigns |-> Back[c].tries]
      /\ letdown' \in LetdownRestored({c \in Callsigns : Back[c].phase = "CLEARED"})
  BY DEF BridgeRestarts, Back
<1>5. LET S == {c \in Callsigns : Back[c].phase = "CLEARED"}
      IN  letdown' \in IF S = {} THEN {NoOne} ELSE S
  BY <1>4 DEF LetdownRestored
<1>6. /\ phase' \in [Callsigns -> Phases] /\ level' \in [Callsigns -> Levels]
      /\ tries' \in [Callsigns -> 0 .. MaxApproaches]
  BY <1>3, <1>4
<1> QED BY <1>2, <1>4, <1>5, <1>6

LEMMA RestartRemembers ==
    ASSUME RestartInv, BridgeRestarts
    PROVE  RestartInv'
<1>1. RestartTypeOK /\ row \in [Callsigns -> Rows] /\ lost \in 0 .. MaxLost
      /\ told \in SUBSET Callsigns /\ kept \in SUBSET Callsigns
  BY DEF RestartInv, RestartTypeOK, TypeOK
<1>2. /\ timed' = {} /\ told' \in SUBSET Callsigns /\ row' = row /\ lost' = lost
      /\ kept' = {c \in kept : row[c].phase # "LANDED"} /\ overruled' = {}
  BY <1>1 DEF BridgeRestarts
<1>3. doubled' \in BOOLEAN
  BY Zenon DEF BridgeRestarts
<1>4. letdown' \in Callsigns \cup {NoOne} /\ (letdown' # NoOne => phase'[letdown'] = "CLEARED")
  BY <1>1, WhatComesBack
<1>5. TypeOK'
  BY <1>1, <1>2, <1>3, <1>4, WhatComesBack DEF TypeOK
<1>6. RestartTypeOK'
  BY <1>1, <1>2, <1>5 DEF RestartTypeOK
<1>7. Remember'
  <2>1. ASSUME NEW c \in kept'
        PROVE  phase'[c] = row[c].phase /\ level'[c] = row[c].level /\ tries'[c] = row[c].tries
    <3>1. c \in Callsigns /\ row[c].phase # "LANDED"
      BY <1>1, <1>2, <2>1
    <3>2. Back[c] = row[c]
      BY <3>1 DEF Back
    <3> QED BY <1>1, <3>1, <3>2, WhatComesBack
  <2> QED BY <1>2, <2>1 DEF Remember, Agrees
<1> QED BY <1>4, <1>6, <1>7 DEF RestartInv, LetdownHolderCleared

LEMMA RestartInitially == RestartInit => RestartInv
<1> SUFFICES ASSUME RestartInit PROVE RestartInv
  OBVIOUS
<1>1. Init /\ row = [c \in Callsigns |-> BareRow] /\ lost = 0
       /\ kept = {} /\ overruled = {}
  BY DEF RestartInit
<1>2. TypeOK /\ LetdownHolderCleared
  BY <1>1, InitIInv, IInvIsBoard DEF Board
<1> QED BY <1>1, <1>2, BareRowIsARow, MaxLostAssumption
        DEF RestartInv, RestartTypeOK, Remember

LEMMA RestartStep == RestartInv /\ [RestartNext]_rvars => RestartInv'
<1> SUFFICES ASSUME RestartInv, [RestartNext]_rvars PROVE RestartInv'
  OBVIOUS
<1>1. Board
  BY DEF RestartInv, RestartTypeOK, Board
<1>2. [Next]_vars => Board'
  BY <1>1, NextBoard
<1>3. Board' => LetdownHolderCleared'
  BY DEF Board
<1>4. CASE UNCHANGED rvars
  BY <1>4 DEF rvars, vars, RestartInv, RestartTypeOK, TypeOK, LetdownHolderCleared,
              Remember, Agrees
<1>5. CASE RestartNext
  BY <1>2, <1>3, <1>5, RestartCases, TurnRemembers, SweptRemembers, OffTurnRemembers,
     RestartRemembers, Zenon DEF RestartInv
<1> QED BY <1>4, <1>5

\* The invariant of the engine with restarts: the row of an aircraft to whom
\* nothing has happened since his own turn still says what the engine knows of
\* him -- his phase only if radar did not see another, which the turn writes over
\* the engine's -- whoever else has spoken and whatever writes have failed.
THEOREM RestartInvariant == RestartSpec => []RestartInv
<1> QED BY RestartInitially, RestartStep, PTL DEF RestartSpec

\* The board a restart brings back is a board: every phase, level, count and row
\* is one that the engine and the flights table can hold, for any number of
\* restarts and of writes that fail.
THEOREM RestartTypeCorrect == RestartSpec => []RestartTypeOK
<1>1. RestartInv => RestartTypeOK
  BY DEF RestartInv
<1> QED BY <1>1, RestartInvariant, PTL

\* The letdown is only ever in the hands of an aircraft that is CLEARED, restarts
\* included: the restored owner is one whose restored phase says so.
THEOREM RestoredHolderCleared == RestartSpec => []LetdownHolderCleared
<1>1. RestartInv => LetdownHolderCleared
  BY DEF RestartInv
<1> QED BY <1>1, RestartInvariant, PTL

\* An aircraft to whom nothing has happened since its own last turn is restored
\* as it was: its approaches, its level, and its phase unless radar saw another at
\* the end of that turn, when it comes back on the final or on the missed approach.
\* When it was on the approach, and radar did not see otherwise, the letdown is its
\* own again unless another row says CLEARED too.
THEOREM SpeakerIsRestored == RestartSpec => SpeakerSurvives
<1> DEFINE Restored(c) ==
      /\ tries'[c] = tries[c]
      /\ level[c] # NoLevel => level'[c] = level[c]
      /\ IF c \in overruled THEN phase'[c] \in SeenAs ELSE phase'[c] = phase[c]
      /\ letdown = c /\ c \notin overruled =>
           /\ letdown' # NoOne
           /\ (\A d \in Callsigns \ {c} : row[d].phase # "CLEARED") => letdown' = c
<1>1. ASSUME RestartInv, BridgeRestarts, NEW c \in kept, Flying(c) PROVE Restored(c)
  <2>1. c \in Callsigns /\ RestartTypeOK /\ Agrees(c, row[c]) /\ row[c] \in Rows
    BY <1>1 DEF RestartInv, RestartTypeOK, Remember
  <2>2. row[c].phase # "LANDED"
    BY <1>1, <2>1 DEF Flying, Agrees, SeenAs
  <2>3. Back[c] = row[c]
    BY <2>1, <2>2 DEF Back
  <2>4. phase'[c] = row[c].phase /\ tries'[c] = row[c].tries /\ level'[c] = row[c].level
    BY <1>1, <2>1, <2>3, WhatComesBack
  <2>5. /\ tries'[c] = tries[c]
        /\ level[c] # NoLevel => level'[c] = level[c]
        /\ IF c \in overruled THEN phase'[c] \in SeenAs ELSE phase'[c] = phase[c]
    BY <2>1, <2>4 DEF Agrees
  <2>6. ASSUME letdown = c, c \notin overruled
        PROVE  /\ letdown' # NoOne
               /\ (\A d \in Callsigns \ {c} : row[d].phase # "CLEARED") => letdown' = c
    <3> DEFINE S == {d \in Callsigns : Back[d].phase = "CLEARED"}
    <3>1. row[c].phase = "CLEARED"
      BY <1>1, <2>1, <2>6, NoOneAssumption DEF RestartInv, LetdownHolderCleared, Agrees
    <3>2. c \in S
      BY <2>1, <2>3, <3>1
    <3>3. letdown' \in S
      BY <1>1, <2>1, <3>2, WhatComesBack
    <3>4. \A d \in S : row[d].phase = "CLEARED"
      BY DEF Back, BareRow
    <3> HIDE DEF S
    <3>5. letdown' \in Callsigns
      BY <3>3 DEF S
    <3> QED BY <3>3, <3>4, <3>5, NoOneAssumption
  <2> QED BY <2>5, <2>6
<1>2. RestartInv => [BridgeRestarts => \A c \in kept : Flying(c) => Restored(c)]_rvars
  BY <1>1
<1>3. SpeakerSurvives <=> [][BridgeRestarts => \A c \in kept : Flying(c) => Restored(c)]_rvars
  BY DEF SpeakerSurvives
<1> QED BY <1>2, <1>3, RestartInvariant, PTL

=============================================================================
