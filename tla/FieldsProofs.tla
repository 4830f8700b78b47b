---------------------------- MODULE FieldsProofs ----------------------------
(***************************************************************************)
(* Theorems about several aerodromes behind one bridge, for any number of  *)
(* aircraft, aerodromes and levels.  A look at one stack touches nothing   *)
(* but that stack and only if its letdown is free, so a look at every      *)
(* stack, one at a time and in any order, leaves alone whoever was on the  *)
(* approach anywhere.  From that, call by call: the letdown of an          *)
(* aerodrome names an aircraft cleared for the approach there, and a call  *)
(* about one aerodrome changes nothing at another.                         *)
(***************************************************************************)
EXTENDS Fields, FiniteSetTheorems, WellFoundedInduction, TLAPS

---------------------------------------------------------------------------
(* The look at every stack is a recursion over the keys on the board; it   *)
(* is one, and it ends.                                                    *)

\* A nonempty set of naturals has a least member.
LEMMA LeastExists ==
    ASSUME NEW S \in SUBSET Nat, S # {}
    PROVE  \E x \in S : \A y \in S : x <= y
<1> DEFINE R == OpToRel(<, Nat)
<1>1. \A T \in SUBSET Nat : T # {} => \E x \in T : \A y \in T : ~(<<y, x>> \in R)
  <2>1. IsWellFoundedOn(R, Nat)
    BY NatLessThanWellFounded
  <2> HIDE DEF R
  <2> QED BY <2>1, WFMin
<1>2. PICK x \in S : \A y \in S : ~(<<y, x>> \in R)
  <2> HIDE DEF R
  <2> QED BY <1>1
<1>3. \A y \in S : ~(y < x)
  BY <1>2 DEF OpToRel
<1> HIDE DEF R
<1> QED BY <1>3

\* What is reached from what g says of the keys but one.
After(g, d, pr, K, s) ==
    IF d = {} THEN {s}
    ELSE UNION {UNION {ClearAt(k, pr, K, t) : t \in g[d \ {k}]} : k \in d}

\* It depends on nothing else.
LEMMA AfterLooksBack ==
    ASSUME NEW pr, NEW K, NEW s, NEW d, NEW g, NEW h, \A k \in d : g[d \ {k}] = h[d \ {k}]
    PROVE  After(g, d, pr, K, s) = After(h, d, pr, K, s)
<1>1. CASE d = {}
  BY <1>1 DEF After
<1>2. CASE d # {}
  <2> DEFINE A(k) == UNION {ClearAt(k, pr, K, t) : t \in g[d \ {k}]}
             B(k) == UNION {ClearAt(k, pr, K, t) : t \in h[d \ {k}]}
  <2>1. \A k \in d : A(k) = B(k)
    OBVIOUS
  <2>2. After(g, d, pr, K, s) = UNION {A(k) : k \in d}
        /\ After(h, d, pr, K, s) = UNION {B(k) : k \in d}
    BY <1>2 DEF After
  <2> HIDE DEF A, B
  <2>3. {A(k) : k \in d} = {B(k) : k \in d}
    BY <2>1
  <2> QED BY <2>2, <2>3
<1> QED BY <1>1, <1>2

\* The sets of at most n keys.
Small(n, keys) == {d \in SUBSET keys : Cardinality(d) <= n}

\* The recursion defines a function on the sets D.
IsAfter(g, D, pr, K, s) == g = [d \in D |-> After(g, d, pr, K, s)]
Recurs(D, pr, K, s) == \E g : IsAfter(g, D, pr, K, s)

LEMMA SmallerKeys ==
    ASSUME NEW keys, IsFiniteSet(keys), NEW d \in SUBSET keys, NEW k \in d
    PROVE  /\ d \ {k} \in SUBSET keys
           /\ Cardinality(d) \in Nat /\ Cardinality(d \ {k}) = Cardinality(d) - 1
BY FS_Subset, FS_RemoveElement, FS_CardinalityType

\* The recursion defines something, on sets of any size.
LEMMA AfterOnSmall ==
    ASSUME NEW pr, NEW K, NEW s, NEW keys, IsFiniteSet(keys)
    PROVE  \A n \in Nat : Recurs(Small(n, keys), pr, K, s)
<1> DEFINE Has(n) == Recurs(Small(n, keys), pr, K, s)
           Bad == {n \in Nat : ~Has(n)}
<1>1. Has(0)
  <2> DEFINE g == [d \in Small(0, keys) |-> {s}]
  <2>1. \A d \in Small(0, keys) : d = {}
    <3> SUFFICES ASSUME NEW d \in SUBSET keys, Cardinality(d) <= 0 PROVE d = {}
      BY DEF Small
    <3>1. IsFiniteSet(d) /\ Cardinality(d) \in Nat
      BY FS_Subset, FS_CardinalityType
    <3>2. Cardinality(d) = 0
      BY <3>1
    <3> QED BY <3>1, <3>2, FS_EmptySet
  <2>2. g = [d \in Small(0, keys) |-> After(g, d, pr, K, s)]
    BY <2>1 DEF After
  <2> QED BY <2>2 DEF Recurs, IsAfter
<1>2. ASSUME NEW n \in Nat, Has(n) PROVE Has(n + 1)
  <2>1. PICK g : g = [d \in Small(n, keys) |-> After(g, d, pr, K, s)]
    BY <1>2 DEF Recurs, IsAfter
  <2> DEFINE h == [d \in Small(n + 1, keys) |-> After(g, d, pr, K, s)]
  <2>2. \A d \in Small(n + 1, keys) : \A k \in d : d \ {k} \in Small(n, keys)
    <3> SUFFICES ASSUME NEW d \in SUBSET keys, Cardinality(d) <= n + 1, NEW k \in d
                 PROVE  d \ {k} \in SUBSET keys /\ Cardinality(d \ {k}) <= n
      BY DEF Small
    <3> QED BY SmallerKeys
  <2>3. \A d \in Small(n, keys) : d \in Small(n + 1, keys) /\ h[d] = g[d]
    <3>1. \A d \in Small(n, keys) : d \in Small(n + 1, keys)
      BY FS_Subset, FS_CardinalityType DEF Small
    <3>2. \A d \in Small(n, keys) : g[d] = After(g, d, pr, K, s)
      BY <2>1
    <3> QED BY <3>1, <3>2
  <2>4. h = [d \in Small(n + 1, keys) |-> After(g, d, pr, K, s)]
    OBVIOUS
  <2> HIDE DEF h
  <2>5. \A d \in Small(n + 1, keys) : After(g, d, pr, K, s) = After(h, d, pr, K, s)
    <3> SUFFICES ASSUME NEW d \in Small(n + 1, keys)
                 PROVE  After(g, d, pr, K, s) = After(h, d, pr, K, s)
      OBVIOUS
    <3>1. \A k \in d : g[d \ {k}] = h[d \ {k}]
      BY <2>2, <2>3
    <3> QED BY <3>1, AfterLooksBack
  <2>6. h = [d \in Small(n + 1, keys) |-> After(h, d, pr, K, s)]
    BY <2>4, <2>5
  <2> QED BY <2>6 DEF Recurs, IsAfter
<1>3. ASSUME Bad # {} PROVE FALSE
  <2>1. PICK n \in Bad : \A m \in Bad : n <= m
    <3> HIDE DEF Has
    <3> QED BY <1>3, LeastExists
  <2> HIDE DEF Has
  <2>2. n \in Nat /\ ~Has(n) /\ n # 0
    BY <1>1, <2>1
  <2>3. n - 1 \in Nat /\ ~(n - 1 \in Bad)
    BY <2>1, <2>2
  <2>4. Has(n - 1)
    BY <2>3
  <2>5. Has((n - 1) + 1)
    BY <1>2, <2>3, <2>4
  <2>6. (n - 1) + 1 = n
    BY <2>2
  <2> QED BY <2>2, <2>5, <2>6
<1>4. \A n \in Nat : Has(n)
  <2> HIDE DEF Has
  <2> QED BY <1>3
<1> QED BY <1>4

\* So EveryStack is what its recursion says.
KeysOf(pr, K) == {pr[a] : a \in K}

LEMMA EveryStackIs ==
    ASSUME NEW pr, NEW K, NEW s, IsFiniteSet(KeysOf(pr, K))
    PROVE  \E g : /\ IsAfter(g, SUBSET KeysOf(pr, K), pr, K, s)
                  /\ EveryStack(pr, K, s) = g[KeysOf(pr, K)]
<1> DEFINE keys == KeysOf(pr, K)
           g == CHOOSE f : f = [d \in SUBSET keys |->
                    IF d = {} THEN {s}
                    ELSE UNION {UNION {ClearAt(k, pr, K, t) : t \in f[d \ {k}]} : k \in d}]
<1>1. EveryStack(pr, K, s) = g[keys]
  BY Zenon DEF EveryStack, KeysOf
<1>2. Small(Cardinality(keys), keys) = SUBSET keys /\ Cardinality(keys) \in Nat
  <2>1. Cardinality(keys) \in Nat
    BY FS_CardinalityType
  <2>2. \A d \in SUBSET keys : Cardinality(d) <= Cardinality(keys)
    BY FS_Subset
  <2> QED BY <2>1, <2>2 DEF Small
<1>3. \E f : f = [d \in SUBSET keys |-> After(f, d, pr, K, s)]
  <2> HIDE DEF g
  <2>1. Recurs(Small(Cardinality(keys), keys), pr, K, s)
    BY <1>2, AfterOnSmall
  <2> QED BY <1>2, <2>1 DEF Recurs, IsAfter
<1>4. \E f : f = [d \in SUBSET keys |->
                    IF d = {} THEN {s}
                    ELSE UNION {UNION {ClearAt(k, pr, K, t) : t \in f[d \ {k}]} : k \in d}]
  BY <1>3 DEF After
<1>5. g = [d \in SUBSET keys |->
              IF d = {} THEN {s}
              ELSE UNION {UNION {ClearAt(k, pr, K, t) : t \in g[d \ {k}]} : k \in d}]
  BY <1>4, Zenon
<1> HIDE DEF g
<1>6. g = [d \in SUBSET keys |-> After(g, d, pr, K, s)]
  BY <1>5 DEF After
<1> QED BY <1>1, <1>6 DEF IsAfter

---------------------------------------------------------------------------
(* A look at one stack.                                                    *)

\* K and pr are a board on which everybody is worked on the procedure he had.
Straight(K, pr) ==
    /\ K \in SUBSET Callsigns /\ pr \in [Callsigns -> Keys]
    /\ \A a \in K : pr[a] # NoField
    /\ \A a \in known \cap K : pr[a] = proc[a]

Shaped(s) ==
    /\ s.ph \in [Callsigns -> Phases] /\ DOMAIN s.lv = Callsigns
    /\ s.ld \in [Keys -> Callsigns \cup {NoOne}]

\* Every letdown names an aircraft of the board, cleared, and on that procedure.
Proper(K, pr, s) ==
    \A k \in Keys : s.ld[k] # NoOne =>
        s.ld[k] \in K /\ s.ph[s.ld[k]] = "CLEARED" /\ pr[s.ld[k]] = k

\* s is what there is now, wherever somebody is on the approach, but where c is.
LeftAlone(c, s) ==
    \A f \in Aerodromes : (letdown[f] # NoOne /\ proc[c] # f) =>
        /\ s.ld[f] = letdown[f]
        /\ \A d \in known : proc[d] = f => s.ph[d] = phase[d] /\ s.lv[d] = level[d]

Worked(c, K, pr, s) == Shaped(s) /\ Proper(K, pr, s) /\ LeftAlone(c, s)

\* Who is next is somebody of the stack that was looked at.
LEMMA NextIsOfTheStack ==
    ASSUME NEW P, NEW ph, NEW lv, NEW n \in NextUp(P, ph, lv)
    PROVE  n \in P
BY DEF NextUp, Missed, LowestHolders, Holders

\* Closing up a stack moves nobody outside it.
LEMMA OthersKeepTheirLevel ==
    ASSUME NEW P, NEW ph, NEW lv
    PROVE  /\ DOMAIN SteppedDown(P, ph, lv) = DOMAIN lv
           /\ \A a \in DOMAIN lv : a \notin P => SteppedDown(P, ph, lv)[a] = lv[a]
BY DEF SteppedDown, Holders

\* Clearing the next of one stack, its letdown being free, is done there and
\* nowhere else.
LEMMA ClearKeeps ==
    ASSUME NEW c, NEW K, NEW pr, NEW s, NEW k \in Keys \ {NoField}, known \in SUBSET Callsigns,
           Straight(K, pr), Worked(c, K, pr, s),
           s.ld[k] = NoOne, NEW n \in SameStack(k, pr, K)
    PROVE  Worked(c, K, pr, Clear(n, pr, K, s))
<1> DEFINE t == Clear(n, pr, K, s)
<1>1. n \in K /\ n \in Callsigns /\ pr[n] = k /\ K \in SUBSET Callsigns
  BY DEF SameStack, Straight
<1>2. /\ t.ph = [s.ph EXCEPT ![n] = "CLEARED"]
      /\ t.ld = [s.ld EXCEPT ![k] = n]
      /\ \/ t.lv = s.lv
         \/ t.lv = SteppedDown(SameStack(k, pr, K), [s.ph EXCEPT ![n] = "CLEARED"], s.lv)
  BY <1>1 DEF Clear
<1> HIDE DEF t
<1>3. /\ s.ph \in [Callsigns -> Phases] /\ DOMAIN s.lv = Callsigns
      /\ s.ld \in [Keys -> Callsigns \cup {NoOne}]
  BY DEF Worked, Shaped
<1>4. Shaped(t)
  <2>1. t.ph \in [Callsigns -> Phases] /\ t.ld \in [Keys -> Callsigns \cup {NoOne}]
    BY <1>1, <1>2, <1>3 DEF Phases
  <2>2. DOMAIN t.lv = Callsigns
    BY <1>2, <1>3, OthersKeepTheirLevel
  <2> QED BY <2>1, <2>2 DEF Shaped
<1>5. Proper(K, pr, t)
  <2> SUFFICES ASSUME NEW l \in Keys, t.ld[l] # NoOne
               PROVE  t.ld[l] \in K /\ t.ph[t.ld[l]] = "CLEARED" /\ pr[t.ld[l]] = l
    BY DEF Proper
  <2>1. CASE l = k
    BY <1>1, <1>2, <1>3, <2>1
  <2>2. CASE l # k
    <3>1. t.ld[l] = s.ld[l]
      BY <1>2, <1>3, <2>2
    <3>2. s.ld[l] \in K /\ s.ph[s.ld[l]] = "CLEARED" /\ pr[s.ld[l]] = l
      BY <3>1 DEF Worked, Proper
    <3> QED BY <1>1, <1>2, <1>3, <3>1, <3>2
  <2> QED BY <2>1, <2>2
<1>6. LeftAlone(c, t)
  <2> SUFFICES ASSUME NEW f \in Aerodromes, letdown[f] # NoOne, proc[c] # f
               PROVE  /\ t.ld[f] = letdown[f]
                      /\ \A d \in known : proc[d] = f => t.ph[d] = phase[d] /\ t.lv[d] = level[d]
    BY DEF LeftAlone
  <2>1. /\ s.ld[f] = letdown[f]
        /\ \A d \in known : proc[d] = f => s.ph[d] = phase[d] /\ s.lv[d] = level[d]
    BY DEF Worked, LeftAlone
  <2>2. f # k
    BY <2>1
  <2>3. t.ld[f] = letdown[f]
    BY <1>2, <1>3, <2>1, <2>2 DEF Keys
  <2>4. ASSUME NEW d \in known, proc[d] = f
        PROVE  t.ph[d] = phase[d] /\ t.lv[d] = level[d]
    <3>1. d \notin SameStack(k, pr, K) /\ d # n /\ d \in Callsigns
      BY <1>1, <2>2, <2>4, Zenon DEF SameStack, Straight
    <3>2. t.ph[d] = s.ph[d]
      BY <1>2, <1>3, <3>1
    <3>3. t.lv[d] = s.lv[d]
      BY <1>2, <1>3, <3>1, OthersKeepTheirLevel
    <3> QED BY <2>1, <2>4, <3>2, <3>3
  <2> QED BY <2>3, <2>4
<1> QED BY <1>4, <1>5, <1>6 DEF Worked, t

LEMMA ClearAtKeeps ==
    ASSUME NEW c, NEW K, NEW pr, NEW s, NEW k \in Keys \ {NoField}, known \in SUBSET Callsigns,
           Straight(K, pr), Worked(c, K, pr, s), NEW t \in ClearAt(k, pr, K, s)
    PROVE  Worked(c, K, pr, t)
<1>1. t = s \/ \E n \in SameStack(k, pr, K) : s.ld[k] = NoOne /\ t = Clear(n, pr, K, s)
  <2>1. CASE s.ld[k] # NoOne \/ NextUp(SameStack(k, pr, K), s.ph, s.lv) = {}
    BY <2>1 DEF ClearAt
  <2>2. CASE ~(s.ld[k] # NoOne \/ NextUp(SameStack(k, pr, K), s.ph, s.lv) = {})
    <3>1. PICK n \in NextUp(SameStack(k, pr, K), s.ph, s.lv) : t = Clear(n, pr, K, s)
      BY <2>2 DEF ClearAt
    <3> QED BY <2>2, <3>1, NextIsOfTheStack
  <2> QED BY <2>1, <2>2
<1> QED BY <1>1, ClearKeeps

\* A look at every stack, in any order.
LEMMA EveryStackKeeps ==
    ASSUME NEW c, NEW K, NEW pr, NEW s, known \in SUBSET Callsigns,
           Straight(K, pr), Worked(c, K, pr, s), NEW t \in EveryStack(pr, K, s)
    PROVE  Worked(c, K, pr, t)
<1> DEFINE keys == KeysOf(pr, K)
<1>1. keys \in SUBSET (Keys \ {NoField}) /\ IsFiniteSet(keys)
  <2>1. keys \in SUBSET (Keys \ {NoField})
    BY DEF Straight, KeysOf
  <2>2. keys \in SUBSET Aerodromes
    BY <2>1 DEF Keys
  <2> QED BY <2>1, <2>2, AerodromesAssumption, FS_Subset
<1>2. PICK g : IsAfter(g, SUBSET keys, pr, K, s) /\ EveryStack(pr, K, s) = g[keys]
  BY <1>1, EveryStackIs
<1> HIDE DEF keys
<1> DEFINE Bad == {n \in Nat : \E d \in SUBSET keys :
                      Cardinality(d) = n /\ \E u \in g[d] : ~Worked(c, K, pr, u)}
<1>3. ASSUME Bad # {} PROVE FALSE
  <2>1. PICK n \in Bad : \A m \in Bad : n <= m
    BY <1>3, LeastExists
  <2>2. PICK d \in SUBSET keys : Cardinality(d) = n /\ \E u \in g[d] : ~Worked(c, K, pr, u)
    BY <2>1
  <2>3. PICK u \in g[d] : ~Worked(c, K, pr, u)
    BY <2>2
  <2>4. g[d] = After(g, d, pr, K, s)
    BY <1>2 DEF IsAfter
  <2>5. d # {}
    BY <2>3, <2>4 DEF After
  <2>6. PICK k \in d : \E v \in g[d \ {k}] : u \in ClearAt(k, pr, K, v)
    BY <2>3, <2>4, <2>5 DEF After
  <2>7. PICK v \in g[d \ {k}] : u \in ClearAt(k, pr, K, v)
    BY <2>6
  <2>8. /\ d \ {k} \in SUBSET keys
        /\ Cardinality(d) \in Nat /\ Cardinality(d \ {k}) = Cardinality(d) - 1
    BY <1>1, SmallerKeys
  <2>9. Worked(c, K, pr, v)
    <3>1. n - 1 \in Int /\ ~(n - 1 \in Bad) /\ Cardinality(d \ {k}) = n - 1
      BY <2>1, <2>2, <2>8
    <3>2. n - 1 \in Nat
      BY <1>1, <2>8, <3>1, FS_Subset, FS_CardinalityType
    <3> QED BY <2>7, <2>8, <3>1, <3>2
  <2>10. k \in Keys \ {NoField}
    BY <1>1, <2>2
  <2> QED BY <2>3, <2>7, <2>9, <2>10, ClearAtKeeps
<1>4. Cardinality(keys) \in Nat
  BY <1>1, FS_CardinalityType
<1> QED BY <1>2, <1>3, <1>4

\* A look for the aircraft that asked: a holder of the letdown is cleared, so it
\* is a look at his stack.
LEMMA ClearForKeeps ==
    ASSUME NEW K, NEW c \in K, NEW pr, NEW s, known \in SUBSET Callsigns,
           Straight(K, pr), Worked(c, K, pr, s), NEW t \in ClearFor(c, pr, K, s)
    PROVE  Worked(c, K, pr, t)
<1>1. pr[c] \in Keys \ {NoField}
  BY DEF Straight
<1>2. ~(s.ld[pr[c]] = c /\ s.ph[c] = "HOLDING")
  BY <1>1, NoOneAssumption DEF Worked, Proper, Straight
<1>3. t \in ClearAt(pr[c], pr, K, s)
  BY <1>2 DEF ClearFor
<1> QED BY <1>1, <1>3, ClearAtKeeps

---------------------------------------------------------------------------
(* The calls.  Each leaves a board, procedures and one of a set of states; *)
(* all that a call does itself it does to the aircraft that makes it.      *)

\* The invariant, and what it says as long as nobody has strayed.
Upright ==
    /\ known \in SUBSET Callsigns /\ proc \in [Callsigns -> Keys]
    /\ Shaped(Here) /\ Proper(known, proc, Here)

FieldsInv == ~strayed => Upright

\* c's call is one that keeps the aerodromes apart.
KeepsApart(c, K, pr, S) ==
    /\ K \in SUBSET Callsigns /\ pr \in [Callsigns -> Keys]
    /\ Straight(K, pr) => \A t \in S : Worked(c, K, pr, t)

Orderly(c) == \E K, pr, S : Becomes(K, pr, S) /\ KeepsApart(c, K, pr, S)

LEMMA ProceduresAreKeys ==
    ASSUME Upright, NEW c \in Callsigns, NEW w \in Asks \cup {NoField}
    PROVE  /\ PlanGives(c) \in [Callsigns -> Keys] /\ Procedures(c, w) \in [Callsigns -> Keys]
           /\ [PlanGives(c) EXCEPT ![c] = w] \in [Callsigns -> Keys]
           /\ Board(c) \in SUBSET Callsigns
<1>1. w \in Keys /\ \A d \in Callsigns : Filed[d] \in Keys
  BY AsksAssumption, FiledAssumption DEF Keys
<1>2. PlanGives(c) \in [Callsigns -> Keys]
  BY <1>1 DEF PlanGives, Upright
<1>3. Procedures(c, w) \in [Callsigns -> Keys]
  BY <1>1, <1>2 DEF Procedures
<1> QED BY <1>1, <1>2, <1>3 DEF Board, Upright

\* Whoever has a letdown has the one of the procedure he is worked on.
LEMMA HisLetdown ==
    ASSUME Upright, NEW c \in Callsigns, NEW pr, Straight(Board(c), pr),
           NEW k \in Keys, letdown[k] = c
    PROVE  c \in known /\ proc[c] = k /\ pr[c] = k /\ phase[c] = "CLEARED"
<1>1. letdown[k] # NoOne
  BY NoOneAssumption
<1>2. c \in known /\ proc[c] = k /\ phase[c] = "CLEARED"
  BY <1>1 DEF Upright, Proper, Here
<1> QED BY <1>2 DEF Straight, Board

\* What a call does to its caller before anybody is cleared.
LEMMA OnlyHisOwn ==
    ASSUME Upright, NEW c \in Callsigns, NEW pr, NEW s, Straight(Board(c), pr),
           s.ph \in [Callsigns -> Phases], DOMAIN s.lv = Callsigns,
           \A d \in Callsigns \ {c} : s.ph[d] = phase[d] /\ s.lv[d] = level[d],
           \/ /\ s.ld = letdown
              /\ (phase[c] = "CLEARED" /\ letdown[pr[c]] = c) => s.ph[c] = "CLEARED"
           \/ s.ld = Without(c, pr, letdown)
           \/ /\ s.ld = [letdown EXCEPT ![pr[c]] = c] /\ s.ph[c] = "CLEARED"
              /\ letdown[pr[c]] \in {NoOne, c} \/ proc[c] = pr[c]
    PROVE  Worked(c, Board(c), pr, s)
<1>1. /\ known \in SUBSET Callsigns /\ letdown \in [Keys -> Callsigns \cup {NoOne}]
      /\ pr[c] \in Keys /\ c \in Board(c) /\ known \subseteq Board(c)
  BY DEF Upright, Shaped, Here, Straight, Board
<1>2. \A k \in Keys : letdown[k] # NoOne =>
          letdown[k] \in known /\ phase[letdown[k]] = "CLEARED" /\ pr[letdown[k]] = k
                               /\ proc[letdown[k]] = k
  BY <1>1 DEF Upright, Proper, Here, Straight
<1>3. \A k \in Keys : letdown[k] = c => proc[c] = k /\ pr[c] = k /\ phase[c] = "CLEARED"
  BY HisLetdown
<1>4. CASE /\ s.ld = letdown
           /\ (phase[c] = "CLEARED" /\ letdown[pr[c]] = c) => s.ph[c] = "CLEARED"
  <2>1. Shaped(s)
    BY <1>1, <1>4 DEF Shaped
  <2>2. Proper(Board(c), pr, s)
    BY <1>1, <1>2, <1>3, <1>4 DEF Proper
  <2>3. LeftAlone(c, s)
    BY <1>1, <1>4 DEF LeftAlone
  <2> QED BY <2>1, <2>2, <2>3 DEF Worked
<1>5. CASE s.ld = Without(c, pr, letdown)
  <2>1. /\ s.ld \in [Keys -> Callsigns \cup {NoOne}]
        /\ \A k \in Keys : s.ld[k] = IF letdown[k] = c THEN NoOne ELSE letdown[k]
    BY <1>1, <1>3, <1>5 DEF Without
  <2>2. Shaped(s)
    BY <2>1 DEF Shaped
  <2>3. Proper(Board(c), pr, s)
    BY <1>1, <1>2, <2>1 DEF Proper
  <2>4. LeftAlone(c, s)
    BY <1>1, <1>3, <2>1 DEF LeftAlone, Keys
  <2> QED BY <2>2, <2>3, <2>4 DEF Worked
<1>6. CASE /\ s.ld = [letdown EXCEPT ![pr[c]] = c] /\ s.ph[c] = "CLEARED"
           /\ letdown[pr[c]] \in {NoOne, c} \/ proc[c] = pr[c]
  <2>1. Shaped(s)
    BY <1>1, <1>6 DEF Shaped
  <2>2. Proper(Board(c), pr, s)
    BY <1>1, <1>2, <1>6 DEF Proper
  <2>3. LeftAlone(c, s)
    BY <1>1, <1>3, <1>6 DEF LeftAlone, Keys
  <2> QED BY <2>1, <2>2, <2>3 DEF Worked
<1> QED BY <1>4, <1>5, <1>6

\* Nothing done at all, and a level or a phase of his own.
LEMMA HereWorked ==
    ASSUME Upright, NEW c \in Callsigns, NEW pr, Straight(Board(c), pr)
    PROVE  Worked(c, Board(c), pr, Here)
BY OnlyHisOwn DEF Upright, Shaped, Here

LEMMA CheckInOrderly ==
    ASSUME Upright, NEW c \in Callsigns, NEW w \in Asks \cup {NoField}, CheckIn(c, w)
    PROVE  Orderly(c)
<1> DEFINE pr == Procedures(c, w)
           s == [Here EXCEPT !.ph[c] = "ENROUTE"]
<1>1. /\ Becomes(Board(c), pr, {Here, IF phase[c] \in {"CLEARED", "LANDED"} THEN Here ELSE s})
      /\ Board(c) \in SUBSET Callsigns /\ pr \in [Callsigns -> Keys]
  BY ProceduresAreKeys DEF CheckIn
<1>2. s.ph = [phase EXCEPT ![c] = "ENROUTE"] /\ s.lv = level /\ s.ld = letdown
  BY DEF Here
<1> HIDE DEF s, pr
<1>3. ASSUME Straight(Board(c), pr), phase[c] # "CLEARED" PROVE Worked(c, Board(c), pr, s)
  <2>1. phase \in [Callsigns -> Phases] /\ DOMAIN level = Callsigns
    BY DEF Upright, Shaped, Here
  <2>2. /\ s.ph \in [Callsigns -> Phases] /\ DOMAIN s.lv = Callsigns
        /\ \A d \in Callsigns \ {c} : s.ph[d] = phase[d] /\ s.lv[d] = level[d]
    BY <1>2, <2>1 DEF Phases
  <2> QED BY <1>2, <1>3, <2>2, OnlyHisOwn
<1>4. \A t \in {Here, IF phase[c] \in {"CLEARED", "LANDED"} THEN Here ELSE s} :
         t = Here \/ (t = s /\ phase[c] # "CLEARED")
  OBVIOUS
<1>5. KeepsApart(c, Board(c), pr, {Here, IF phase[c] \in {"CLEARED", "LANDED"} THEN Here ELSE s})
  BY <1>1, <1>3, <1>4, HereWorked DEF KeepsApart
<1> QED BY <1>1, <1>5, Zenon DEF Orderly

LEMMA EnterStackOrderly ==
    ASSUME Upright, NEW c \in Callsigns, NEW w \in Asks \cup {NoField}, EnterStack(c, w)
    PROVE  Orderly(c)
<1> DEFINE pr == Procedures(c, w)
           s(x) == [Here EXCEPT !.ph[c] = "HOLDING", !.lv[c] = x]
<1>1. Board(c) \in SUBSET Callsigns /\ pr \in [Callsigns -> Keys] /\ known \in SUBSET Callsigns
  BY ProceduresAreKeys DEF Upright
<1>2. phase[c] # "CLEARED"
  BY DEF EnterStack
<1>3. \A x : /\ s(x).ph = [phase EXCEPT ![c] = "HOLDING"]
             /\ s(x).lv = [level EXCEPT ![c] = x] /\ s(x).ld = letdown
  BY DEF Here
<1>4. \/ \E x \in Slots : Becomes(Board(c), pr, EveryStack(pr, Board(c), s(x)))
      \/ Becomes(Board(c), pr, {Here})
  BY DEF EnterStack
<1> HIDE DEF s, pr
<1>5. ASSUME Straight(Board(c), pr), NEW x PROVE Worked(c, Board(c), pr, s(x))
  <2>1. phase \in [Callsigns -> Phases] /\ DOMAIN level = Callsigns
    BY DEF Upright, Shaped, Here
  <2>2. /\ s(x).ph \in [Callsigns -> Phases] /\ DOMAIN s(x).lv = Callsigns
        /\ \A d \in Callsigns \ {c} : s(x).ph[d] = phase[d] /\ s(x).lv[d] = level[d]
    <3>1. s(x).ph = [phase EXCEPT ![c] = "HOLDING"] /\ s(x).lv = [level EXCEPT ![c] = x]
      BY <1>3
    <3>2. s(x).ph \in [Callsigns -> Phases] /\ DOMAIN s(x).lv = Callsigns
      BY <2>1, <3>1 DEF Phases
    <3> QED BY <2>1, <3>1, <3>2
  <2>3. s(x).ld = letdown
    BY <1>3
  <2> QED BY <1>2, <1>5, <2>2, <2>3, OnlyHisOwn
<1>6. ASSUME Straight(Board(c), pr), NEW x, NEW t \in EveryStack(pr, Board(c), s(x))
      PROVE  Worked(c, Board(c), pr, t)
  BY <1>1, <1>5, <1>6, EveryStackKeeps
<1> QED BY <1>1, <1>4, <1>6, HereWorked, Zenon DEF Orderly, KeepsApart

LEMMA ReportMissedOrderly ==
    ASSUME Upright, NEW c \in Callsigns, NEW w \in Asks \cup {NoField}, ReportMissed(c, w)
    PROVE  Orderly(c)
<1> DEFINE pr == Procedures(c, w)
           s(p, l) == [ph |-> [phase EXCEPT ![c] = p], lv |-> [level EXCEPT ![c] = l],
                       ld |-> Without(c, pr, letdown)]
<1>1. Board(c) \in SUBSET Callsigns /\ pr \in [Callsigns -> Keys] /\ known \in SUBSET Callsigns
  BY ProceduresAreKeys DEF Upright
<1>2. \E p \in Phases : \E l : Becomes(Board(c), pr, EveryStack(pr, Board(c), s(p, l)))
  BY DEF ReportMissed, Phases
<1>3. PICK p \in Phases : \E l : Becomes(Board(c), pr, EveryStack(pr, Board(c), s(p, l)))
  BY <1>2
<1>4. PICK l : Becomes(Board(c), pr, EveryStack(pr, Board(c), s(p, l)))
  BY <1>3
<1>5. /\ s(p, l).ph = [phase EXCEPT ![c] = p]
      /\ s(p, l).lv = [level EXCEPT ![c] = l] /\ s(p, l).ld = Without(c, pr, letdown)
  OBVIOUS
<1> HIDE DEF s, pr
<1>6. ASSUME Straight(Board(c), pr) PROVE Worked(c, Board(c), pr, s(p, l))
  <2>1. phase \in [Callsigns -> Phases] /\ DOMAIN level = Callsigns
    BY DEF Upright, Shaped, Here
  <2>2. /\ s(p, l).ph \in [Callsigns -> Phases] /\ DOMAIN s(p, l).lv = Callsigns
        /\ \A d \in Callsigns \ {c} : s(p, l).ph[d] = phase[d] /\ s(p, l).lv[d] = level[d]
    BY <1>5, <2>1
  <2> QED BY <1>5, <1>6, <2>2, OnlyHisOwn
<1>7. ASSUME Straight(Board(c), pr), NEW t \in EveryStack(pr, Board(c), s(p, l))
      PROVE  Worked(c, Board(c), pr, t)
  BY <1>1, <1>6, <1>7, EveryStackKeeps
<1> QED BY <1>1, <1>4, <1>7, Zenon DEF Orderly, KeepsApart

LEMMA ReportLandedOrderly ==
    ASSUME Upright, NEW c \in Callsigns, NEW w \in Asks \cup {NoField}, ReportLanded(c, w)
    PROVE  Orderly(c)
<1> DEFINE pr == Procedures(c, w)
           s == [Here EXCEPT !.ph[c] = "LANDED", !.ld = Without(c, pr, letdown)]
<1>1. Board(c) \in SUBSET Callsigns /\ pr \in [Callsigns -> Keys] /\ known \in SUBSET Callsigns
  BY ProceduresAreKeys DEF Upright
<1>2. Becomes(Board(c), pr, EveryStack(pr, Board(c), s))
  BY DEF ReportLanded
<1>3. s.ph = [phase EXCEPT ![c] = "LANDED"] /\ s.lv = level /\ s.ld = Without(c, pr, letdown)
  BY DEF Here
<1> HIDE DEF s, pr
<1>4. ASSUME Straight(Board(c), pr) PROVE Worked(c, Board(c), pr, s)
  <2>1. phase \in [Callsigns -> Phases] /\ DOMAIN level = Callsigns
    BY DEF Upright, Shaped, Here
  <2>2. /\ s.ph \in [Callsigns -> Phases] /\ DOMAIN s.lv = Callsigns
        /\ \A d \in Callsigns \ {c} : s.ph[d] = phase[d] /\ s.lv[d] = level[d]
    BY <1>3, <2>1 DEF Phases
  <2> QED BY <1>3, <1>4, <2>2, OnlyHisOwn
<1>5. ASSUME Straight(Board(c), pr), NEW t \in EveryStack(pr, Board(c), s)
      PROVE  Worked(c, Board(c), pr, t)
  BY <1>1, <1>4, <1>5, EveryStackKeeps
<1> QED BY <1>1, <1>2, <1>5, Zenon DEF Orderly, KeepsApart

LEMMA RequestVisualOrderly ==
    ASSUME Upright, NEW c \in Callsigns, NEW w \in Asks \cup {NoField}, RequestVisual(c, w)
    PROVE  Orderly(c)
<1> DEFINE pr == Procedures(c, w)
           cleared == [Here EXCEPT !.ph[c] = "CLEARED", !.ld[pr[c]] = c]
           holds(x) == [[Here EXCEPT !.ph[c] = "HOLDING"] EXCEPT !.lv[c] = x]
<1>1. Board(c) \in SUBSET Callsigns /\ pr \in [Callsigns -> Keys]
  BY ProceduresAreKeys
<1>2. phase \in [Callsigns -> Phases] /\ DOMAIN level = Callsigns
  BY DEF Upright, Shaped, Here
<1>3. /\ cleared.ph = [phase EXCEPT ![c] = "CLEARED"] /\ cleared.lv = level
      /\ cleared.ld = [letdown EXCEPT ![pr[c]] = c]
  BY DEF Here
<1>4. \A x : /\ holds(x).ph = [phase EXCEPT ![c] = "HOLDING"]
             /\ holds(x).lv = [level EXCEPT ![c] = x] /\ holds(x).ld = letdown
  BY DEF Here
<1>5. \/ letdown[pr[c]] \in {NoOne, c} /\ Becomes(Board(c), pr, {cleared})
      \/ /\ letdown[pr[c]] # c
         /\ \E x \in Levels : Becomes(Board(c), pr, {holds(x)})
  BY DEF RequestVisual
<1> HIDE DEF cleared, holds, pr
<1>6. ASSUME Straight(Board(c), pr), letdown[pr[c]] \in {NoOne, c}
      PROVE  Worked(c, Board(c), pr, cleared)
  <2>1. /\ cleared.ph \in [Callsigns -> Phases] /\ DOMAIN cleared.lv = Callsigns
        /\ cleared.ph[c] = "CLEARED"
        /\ \A d \in Callsigns \ {c} : cleared.ph[d] = phase[d] /\ cleared.lv[d] = level[d]
    BY <1>2, <1>3 DEF Phases
  <2> QED BY <1>3, <1>6, <2>1, OnlyHisOwn
<1>7. ASSUME Straight(Board(c), pr), letdown[pr[c]] # c, NEW x
      PROVE  Worked(c, Board(c), pr, holds(x))
  <2>1. /\ holds(x).ph = [phase EXCEPT ![c] = "HOLDING"]
        /\ holds(x).lv = [level EXCEPT ![c] = x] /\ holds(x).ld = letdown
    BY <1>4
  <2>2. holds(x).ph \in [Callsigns -> Phases] /\ DOMAIN holds(x).lv = Callsigns
    BY <1>2, <2>1 DEF Phases
  <2>3. \A d \in Callsigns \ {c} : holds(x).ph[d] = phase[d] /\ holds(x).lv[d] = level[d]
    BY <1>2, <2>1
  <2> QED BY <1>7, <2>1, <2>2, <2>3, OnlyHisOwn
<1>8. CASE letdown[pr[c]] \in {NoOne, c} /\ Becomes(Board(c), pr, {cleared})
  <2>1. KeepsApart(c, Board(c), pr, {cleared})
    BY <1>1, <1>6, <1>8 DEF KeepsApart
  <2> QED BY <1>8, <2>1, Zenon DEF Orderly
<1>9. ASSUME letdown[pr[c]] # c, NEW x, Becomes(Board(c), pr, {holds(x)}) PROVE Orderly(c)
  <2>1. KeepsApart(c, Board(c), pr, {holds(x)})
    BY <1>1, <1>7, <1>9 DEF KeepsApart
  <2> QED BY <1>9, <2>1, Zenon DEF Orderly
<1> QED BY <1>5, <1>8, <1>9

\* Asking for the approach looks at his own stack, from where he is or from the
\* level he is given first; and if he asks for another, once he has given up
\* the letdown of the one he now has.
LEMMA RequestApproachOrderly ==
    ASSUME Upright, NEW c \in Callsigns, NEW w \in Asks \cup {NoField}, RequestApproach(c, w)
    PROVE  Orderly(c)
<1> DEFINE pr == IF w # NoField THEN [PlanGives(c) EXCEPT ![c] = w] ELSE PlanGives(c)
           from(again) == IF again
                          THEN [Here EXCEPT !.ph[c] = "ENROUTE", !.ld = Without(c, pr, letdown)]
                          ELSE Here
           by(again, x) == [from(again) EXCEPT !.ph[c] = "HOLDING", !.lv[c] = x]
<1>1. /\ Board(c) \in SUBSET Callsigns /\ pr \in [Callsigns -> Keys]
      /\ PlanGives(c) \in [Callsigns -> Keys] /\ known \in SUBSET Callsigns
      /\ c \in Board(c)
  BY ProceduresAreKeys DEF Upright, Board
<1>2. phase \in [Callsigns -> Phases] /\ DOMAIN level = Callsigns
  BY DEF Upright, Shaped, Here
<1>3. PICK again \in AsksAgain(c, w) :
         \/ ~again /\ Becomes(Board(c), PlanGives(c), {from(again)})
         \/ again /\ Becomes(Board(c), pr, {from(again)})
         \/ /\ phase[c] # "CLEARED" \/ again
            /\ \/ \E x \in Slots :
                    Becomes(Board(c), pr, ClearFor(c, pr, Board(c), by(again, x)))
               \/ Becomes(Board(c), pr, ClearFor(c, pr, Board(c), from(again)))
  BY Zenon DEF RequestApproach
<1> DEFINE s == from(again)
           takes(x) == by(again, x)
<1>4. /\ again \in BOOLEAN
      /\ again => /\ s.ph = [phase EXCEPT ![c] = "ENROUTE"] /\ s.lv = level
                  /\ s.ld = Without(c, pr, letdown)
      /\ ~again => s = Here /\ s.ph = phase /\ s.lv = level /\ s.ld = letdown
  BY DEF Here, AsksAgain
<1>5. \A x : /\ takes(x).ph = [s.ph EXCEPT ![c] = "HOLDING"]
             /\ takes(x).lv = [s.lv EXCEPT ![c] = x] /\ takes(x).ld = s.ld
  BY DEF Here
<1> HIDE DEF takes, s, by, from, pr
<1>6. ASSUME Straight(Board(c), pr), phase[c] # "CLEARED" \/ again
      PROVE  Worked(c, Board(c), pr, s)
  <2>1. /\ s.ph \in [Callsigns -> Phases] /\ DOMAIN s.lv = Callsigns
        /\ \A d \in Callsigns \ {c} : s.ph[d] = phase[d] /\ s.lv[d] = level[d]
    BY <1>2, <1>4 DEF Phases
  <2> QED BY <1>4, <1>6, <2>1, OnlyHisOwn
<1>7. ASSUME Straight(Board(c), pr), phase[c] # "CLEARED" \/ again, NEW x
      PROVE  Worked(c, Board(c), pr, takes(x))
  <2>1. /\ takes(x).ph = [s.ph EXCEPT ![c] = "HOLDING"]
        /\ takes(x).lv = [s.lv EXCEPT ![c] = x] /\ takes(x).ld = s.ld
    BY <1>5
  <2>2. /\ s.ph \in [Callsigns -> Phases] /\ DOMAIN s.lv = Callsigns
        /\ \A d \in Callsigns \ {c} : s.ph[d] = phase[d] /\ s.lv[d] = level[d]
    BY <1>2, <1>4 DEF Phases
  <2>3. takes(x).ph \in [Callsigns -> Phases] /\ DOMAIN takes(x).lv = Callsigns
    BY <2>1, <2>2 DEF Phases
  <2>4. \A d \in Callsigns \ {c} : takes(x).ph[d] = phase[d] /\ takes(x).lv[d] = level[d]
    BY <2>1, <2>2
  <2>5. \/ takes(x).ld = letdown /\ phase[c] # "CLEARED"
        \/ takes(x).ld = Without(c, pr, letdown)
    BY <1>4, <1>7, <2>1
  <2> QED BY <1>7, <2>3, <2>4, <2>5, OnlyHisOwn
<1>8. CASE ~again /\ Becomes(Board(c), PlanGives(c), {s})
  <2>1. KeepsApart(c, Board(c), PlanGives(c), {s})
    BY <1>1, <1>4, <1>8, HereWorked DEF KeepsApart
  <2> QED BY <1>8, <2>1, Zenon DEF Orderly
<1>9. ASSUME NEW x, phase[c] # "CLEARED" \/ again,
             Becomes(Board(c), pr, ClearFor(c, pr, Board(c), takes(x)))
      PROVE  Orderly(c)
  <2>1. KeepsApart(c, Board(c), pr, ClearFor(c, pr, Board(c), takes(x)))
    BY <1>1, <1>7, <1>9, ClearForKeeps DEF KeepsApart
  <2> QED BY <1>9, <2>1, Zenon DEF Orderly
<1>10. ASSUME phase[c] # "CLEARED" \/ again,
              Becomes(Board(c), pr, ClearFor(c, pr, Board(c), s))
       PROVE  Orderly(c)
  <2>1. KeepsApart(c, Board(c), pr, ClearFor(c, pr, Board(c), s))
    BY <1>1, <1>6, <1>10, ClearForKeeps DEF KeepsApart
  <2> QED BY <1>10, <2>1, Zenon DEF Orderly
<1>11. CASE again /\ Becomes(Board(c), pr, {s})
  <2>1. KeepsApart(c, Board(c), pr, {s})
    BY <1>1, <1>6, <1>11 DEF KeepsApart
  <2> QED BY <1>11, <2>1, Zenon DEF Orderly
<1>12. \/ ~again /\ Becomes(Board(c), PlanGives(c), {s})
       \/ again /\ Becomes(Board(c), pr, {s})
       \/ /\ phase[c] # "CLEARED" \/ again
          /\ \/ \E x \in Slots : Becomes(Board(c), pr, ClearFor(c, pr, Board(c), takes(x)))
             \/ Becomes(Board(c), pr, ClearFor(c, pr, Board(c), s))
  BY <1>3, Zenon DEF s, takes
<1> QED BY <1>8, <1>9, <1>10, <1>11, <1>12

\* Radar sees somebody only on the procedure he has.
LEMMA SeenOnFinalOrderly ==
    ASSUME Upright, NEW c \in Callsigns, SeenOnFinal(c)
    PROVE  Orderly(c)
<1> DEFINE s == [Here EXCEPT !.ph[c] = "CLEARED", !.lv[c] = NoLevel, !.ld[proc[c]] = c]
<1>1. /\ Board(c) = known /\ known \in SUBSET Callsigns /\ proc \in [Callsigns -> Keys]
      /\ Becomes(known, proc, {s})
  BY DEF SeenOnFinal, Upright, Board
<1>2. phase \in [Callsigns -> Phases] /\ DOMAIN level = Callsigns
  BY DEF Upright, Shaped, Here
<1>3. /\ s.ph = [phase EXCEPT ![c] = "CLEARED"] /\ s.lv = [level EXCEPT ![c] = NoLevel]
      /\ s.ld = [letdown EXCEPT ![proc[c]] = c]
  BY DEF Here
<1> HIDE DEF s
<1>4. ASSUME Straight(known, proc) PROVE Worked(c, known, proc, s)
  <2>1. /\ s.ph \in [Callsigns -> Phases] /\ DOMAIN s.lv = Callsigns /\ s.ph[c] = "CLEARED"
        /\ \A d \in Callsigns \ {c} : s.ph[d] = phase[d] /\ s.lv[d] = level[d]
    BY <1>2, <1>3 DEF Phases
  <2>2. Straight(Board(c), proc)
    BY <1>1, <1>4
  <2>3. Worked(c, Board(c), proc, s)
    BY <1>3, <2>1, <2>2, OnlyHisOwn
  <2> QED BY <1>1, <2>3
<1>5. KeepsApart(c, known, proc, {s})
  BY <1>1, <1>4 DEF KeepsApart
<1> QED BY <1>1, <1>5, Zenon DEF Orderly

LEMMA ReleaseOrderly ==
    ASSUME Upright, NEW c \in Callsigns, Release(c)
    PROVE  Orderly(c)
<1> DEFINE K == known \ {c}
           pr == [proc EXCEPT ![c] = NoField]
           s == [ph |-> [phase EXCEPT ![c] = "UNKNOWN"], lv |-> [level EXCEPT ![c] = NoLevel],
                 ld |-> Without(c, proc, letdown)]
<1>1. /\ K \in SUBSET Callsigns /\ pr \in [Callsigns -> Keys] /\ Becomes(K, pr, {s})
      /\ known \in SUBSET Callsigns /\ proc \in [Callsigns -> Keys]
  BY DEF Release, Upright, Keys
<1>2. /\ phase \in [Callsigns -> Phases] /\ DOMAIN level = Callsigns
      /\ letdown \in [Keys -> Callsigns \cup {NoOne}]
  BY DEF Upright, Shaped, Here
<1>3. \A k \in Keys : letdown[k] # NoOne =>
          letdown[k] \in known /\ phase[letdown[k]] = "CLEARED" /\ proc[letdown[k]] = k
  BY DEF Upright, Proper, Here
<1>4. /\ s.ld \in [Keys -> Callsigns \cup {NoOne}]
      /\ \A k \in Keys : s.ld[k] = IF letdown[k] = c THEN NoOne ELSE letdown[k]
  BY <1>1, <1>2, <1>3, NoOneAssumption DEF Without
<1>5. Shaped(s)
  BY <1>2, <1>4 DEF Shaped, Phases
<1>6. Proper(K, pr, s)
  BY <1>1, <1>2, <1>3, <1>4 DEF Proper
<1>7. LeftAlone(c, s)
  BY <1>1, <1>2, <1>3, <1>4, NoOneAssumption DEF LeftAlone, Keys
<1>8. KeepsApart(c, K, pr, {s})
  BY <1>1, <1>5, <1>6, <1>7 DEF KeepsApart, Worked
<1> QED BY <1>1, <1>8, Zenon DEF Orderly

LEMMA CallOrderly ==
    ASSUME Upright, NEW c \in Callsigns, Call(c)
    PROVE  Orderly(c)
BY CheckInOrderly, EnterStackOrderly, ReportMissedOrderly, ReportLandedOrderly,
   RequestVisualOrderly, RequestApproachOrderly, SeenOnFinalOrderly, ReleaseOrderly, Zenon
   DEF Call

\* As long as nobody strays, a call leaves the board upright, and alone where
\* somebody is on the approach, but for the aerodrome of whoever called.
LEMMA OrderlyKeeps ==
    ASSUME Upright, NEW c \in Callsigns, Orderly(c), ~strayed'
    PROVE  Upright' /\ LeftAlone(c, Here')
<1>1. PICK K, pr, S : Becomes(K, pr, S) /\ KeepsApart(c, K, pr, S)
  BY DEF Orderly
<1>2. PICK t \in S : phase' = t.ph /\ level' = t.lv /\ letdown' = t.ld
  BY <1>1 DEF Becomes
<1>3. known' = K /\ proc' = pr /\ K \in SUBSET Callsigns /\ pr \in [Callsigns -> Keys]
  BY <1>1 DEF Becomes, KeepsApart
<1>4. (\A a \in K : pr[a] # NoField) /\ \A a \in known \cap K : pr[a] = proc[a]
  BY <1>1 DEF Becomes
<1>5. Worked(c, K, pr, t)
  BY <1>1, <1>3, <1>4 DEF KeepsApart, Straight
<1>6. Upright'
  BY <1>2, <1>3, <1>5 DEF Upright, Worked, Shaped, Proper, Here
<1>7. LeftAlone(c, Here')
  BY <1>2, <1>5 DEF Worked, LeftAlone, Here
<1> QED BY <1>6, <1>7

---------------------------------------------------------------------------
(* The theorems.                                                           *)

LEMMA FieldsInitially == Init => FieldsInv
<1> SUFFICES ASSUME Init PROVE Upright
  BY DEF FieldsInv
<1>1. known \in SUBSET Callsigns /\ proc \in [Callsigns -> Keys]
  BY FiledAssumption DEF Init, Keys
<1>2. Shaped(Here) /\ Proper(known, proc, Here)
  BY DEF Init, Shaped, Proper, Here, Phases
<1> QED BY <1>1, <1>2 DEF Upright

\* Straying is for good.
LEMMA StrayedForGood == [Next]_vars /\ ~strayed' => ~strayed
<1> SUFFICES ASSUME [Next]_vars, strayed PROVE strayed'
  OBVIOUS
<1>1. ASSUME NEW K, NEW pr, NEW S, Becomes(K, pr, S) PROVE strayed'
  BY <1>1 DEF Becomes
<1>2. ASSUME NEW c \in Callsigns, Call(c) PROVE strayed'
  <2>1. ASSUME NEW w \in Asks \cup {NoField}, RequestApproach(c, w) PROVE strayed'
    BY <1>1, <2>1, Zenon DEF RequestApproach
  <2> QED BY <1>1, <1>2, <2>1, Zenon DEF Call, CheckIn, EnterStack, ReportMissed, ReportLanded,
             RequestVisual, SeenOnFinal, Release
<1> QED BY <1>2 DEF Next, vars

LEMMA FieldsStep == FieldsInv /\ [Next]_vars => FieldsInv'
<1> SUFFICES ASSUME FieldsInv, [Next]_vars, ~strayed' PROVE Upright'
  BY DEF FieldsInv
<1>1. Upright
  BY StrayedForGood DEF FieldsInv
<1>2. CASE UNCHANGED vars
  BY <1>1, <1>2 DEF vars, Upright, Shaped, Proper, Here
<1>3. ASSUME NEW c \in Callsigns, Call(c) PROVE Upright'
  BY <1>1, <1>3, CallOrderly, OrderlyKeeps
<1> QED BY <1>2, <1>3 DEF Next

\* The invariant: as long as nobody is worked without a procedure or changes his,
\* phases, levels and letdowns are those of aircraft, and every letdown names an
\* aircraft on the board that is cleared on the procedure it is the letdown of.
THEOREM FieldsInvariant == Spec => []FieldsInv
<1> QED BY FieldsInitially, FieldsStep, PTL DEF Spec

\* As long as everybody on the board has kept the procedure he came with, the
\* letdown of an aerodrome is in the hands of an aircraft cleared for the approach
\* there, for any aircraft and aerodromes, and whatever order the stacks are looked
\* at in.
THEOREM LetdownBelongs == Spec => []LetdownIsHis
<1>1. FieldsInv => LetdownIsHis
  BY DEF FieldsInv, Upright, Proper, Here, LetdownIsHis
<1> QED BY <1>1, FieldsInvariant, PTL

\* Under the same condition a call about one aerodrome changes nothing at another
\* where somebody is on the approach: neither the letdown, nor the phase or the
\* level of anybody there.
THEOREM FieldsStayApart == Spec => FieldsIndependent
<1>1. ASSUME FieldsInv, [Next]_vars, ~strayed', NEW f \in Aerodromes, letdown[f] # NoOne,
             \/ letdown'[f] # letdown[f]
             \/ \E d \in known : proc[d] = f /\ (phase'[d] # phase[d] \/ level'[d] # level[d])
      PROVE  \E c \in Callsigns : proc[c] = f /\ Call(c)
  <2>1. Upright
    BY <1>1, StrayedForGood DEF FieldsInv
  <2>2. ~(UNCHANGED vars)
    BY <1>1 DEF vars
  <2>3. PICK c \in Callsigns : Call(c)
    BY <1>1, <2>2 DEF Next
  <2>4. LeftAlone(c, Here')
    BY <1>1, <2>1, <2>3, CallOrderly, OrderlyKeeps
  <2>5. proc[c] = f
    BY <1>1, <2>4 DEF LeftAlone, Here
  <2> QED BY <2>3, <2>5
<1>2. FieldsInv /\ [Next]_vars => [ ~strayed' => \A f \in Aerodromes :
          (/\ letdown[f] # NoOne
           /\ \/ letdown'[f] # letdown[f]
              \/ \E d \in known : proc[d] = f /\ (phase'[d] # phase[d] \/ level'[d] # level[d]))
          => \E c \in Callsigns : proc[c] = f /\ Call(c) ]_vars
  BY <1>1
<1> QED BY <1>2, FieldsInvariant, PTL DEF Spec, FieldsIndependent

=============================================================================
