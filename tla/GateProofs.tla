----------------------------- MODULE GateProofs -----------------------------
(***************************************************************************)
(* Proofs about the threads of the voice process, for any number of calls: *)
(* that nobody says another's words, that radar waits for answers, and     *)
(* that a decision there are words for is said before it is forgotten.     *)
(***************************************************************************)
EXTENDS ChannelGate, TLAPS

\* The places of a turn that has the outbox, and of one that has decisions to
\* voice.
Boxed == {"deciding", "outbox"}
Voicing == {"settling", "thinking", "verified"}

\* With the receive loop the process ends; and a hook only ever interacts.
EndsTogether ==
    /\ pc["turn"] = "dead" => \A x \in Threads : pc[x] = "dead"
    /\ pc["hook"] \in {"idle", "thinking", "verified", "ready", "speaking", "dead"}

\* A thread that says nothing has nothing to say, and a hook has nothing before
\* the model has answered it.
Wordless ==
    /\ \A x \in Threads : pc[x] = "idle" => words[x] = {}
    /\ pc["hook"] = "thinking" => words["hook"] = {}
    /\ pc["hook"] = "dead" /\ pc["turn"] # "dead" => words["hook"] = {}

\* A hook composes only while no turn does.
OneComposes ==
    ~muddled /\ Interacting("hook") => pc["turn"] \in {"idle", "reply", "replying", "dead"}

\* The flag is up whenever somebody is being answered.
FlagIsUp ==
    ~muddled /\ (Interacting("turn") \/ Interacting("hook")) => answering

\* What the outbox holds is its one owner's.
OutIsOwned ==
    ~muddled /\ pc["turn"] # "dead" =>
        /\ pc["turn"] \in Boxed => pc["monitor"] # "outbox"
        /\ pc["turn"] = "outbox" => out \subseteq Own
        /\ pc["turn"] # "outbox" /\ pc["monitor"] = "outbox" => out \subseteq {"monitor"}
        /\ pc["turn"] # "outbox" /\ pc["monitor"] # "outbox" => out = {}

\* So is what is to be voiced.
DecidedIsOwned ==
    ~muddled => /\ decided \subseteq Own
                /\ pc["turn"] \notin Voicing => decided = {}

\* A reply that was checked says all on the list that can be repaired.
CheckedSaysAll ==
    pc["turn"] = "verified" => ("turn" \in decided => "turn" \in words["turn"])

\* What was keyed has been counted.
KeyedCalls == waiting + (IF talking THEN 1 ELSE 0) + left["pilots"] <= MaxCalls

IInv ==
    /\ TypeOK /\ KeyedCalls /\ EndsTogether /\ Wordless /\ OneComposes /\ FlagIsUp
    /\ OutIsOwned /\ DecidedIsOwned /\ OwnWords /\ CheckedSaysAll

USE DEF Threads, Places, Own, Tags, Sources, Nobody, Boxed, Voicing

LEMMA AgedIs ==
    ASSUME NEW m \in SUBSET Tags
    PROVE  /\ Aged(m) \in SUBSET Tags
           /\ m \subseteq {"monitor"} => Aged(m) = m
BY DEF Aged

\* What the engine's call leaves in the outbox is its own, or was there.
LEMMA DispatchPuts ==
    ASSUME IInv, Dispatch
    PROVE  out' \in SUBSET Tags /\ out' \subseteq out \cup Own /\ decided' = decided
<1>1. out' = out \/ \E m \in SUBSET Own : out' = out \cup m
  BY DEF Dispatch
<1>2. out \in SUBSET Tags /\ Own \in SUBSET Tags
  BY DEF IInv, TypeOK
<1>3. decided' = decided
  BY DEF Dispatch
<1> QED BY <1>1, <1>2, <1>3

\* Settled decisions are of those there were, or the turn's own.
LEMMA SettledIs ==
    ASSUME IInv, NEW d \in Settled
    PROVE  d \in SUBSET Tags /\ d \subseteq decided \cup Own
<1>1. PICK kept \in SUBSET decided, vector \in {{}, {"turn"}, {"mute"}} : d = kept \cup vector
  BY DEF Settled
<1>2. decided \in SUBSET Tags /\ vector \subseteq Own
  BY DEF IInv, TypeOK
<1> QED BY <1>1, <1>2

---------------------------------------------------------------------------
(* Each action keeps the invariant, part by part. *)

LEMMA PilotKeysKeeps ==
    ASSUME IInv, PilotKeys
    PROVE  IInv'
<1> USE DEF IInv, TypeOK, PilotKeys, Goes, Spends
<1>1. TypeOK'
  BY BoundsAssumption DEF KeyedCalls
<1>2. KeyedCalls'
  BY BoundsAssumption DEF KeyedCalls
<1>3. EndsTogether'
  BY DEF EndsTogether
<1>4. Wordless'
  BY DEF Wordless, EndsTogether
<1>5. OneComposes'
  BY DEF OneComposes, EndsTogether, DecidedIsOwned, Interacting
<1>6. FlagIsUp'
  BY DEF FlagIsUp, OneComposes, EndsTogether, Interacting
<1>7. OutIsOwned'
  BY DEF OutIsOwned, EndsTogether, Interacting
<1>8. DecidedIsOwned'
  BY DEF DecidedIsOwned, OutIsOwned, OneComposes, EndsTogether, Interacting
<1>9. OwnWords'
  BY DEF OwnWords, Wordless, OutIsOwned, DecidedIsOwned, OneComposes, EndsTogether, Interacting
<1>10. CheckedSaysAll'
  BY DEF CheckedSaysAll, EndsTogether
<1>11. QED
  BY <1>1, <1>2, <1>3, <1>4, <1>5, <1>6, <1>7, <1>8, <1>9, <1>10 DEF IInv

LEMMA PilotUnkeysKeeps ==
    ASSUME IInv, PilotUnkeys
    PROVE  IInv'
<1> USE DEF IInv, TypeOK, PilotUnkeys, Goes, Spends
<1>1. TypeOK'
  <2>1. left["pilots"] \in Nat
    OBVIOUS
  <2>2. waiting' \in 0..MaxCalls
    BY <2>1, BoundsAssumption DEF KeyedCalls
  <2>3. QED
    BY <2>2
<1>2. KeyedCalls'
  BY BoundsAssumption DEF KeyedCalls
<1>3. EndsTogether'
  BY DEF EndsTogether
<1>4. Wordless'
  BY DEF Wordless, EndsTogether
<1>5. OneComposes'
  BY DEF OneComposes, EndsTogether, DecidedIsOwned, Interacting
<1>6. FlagIsUp'
  BY DEF FlagIsUp, OneComposes, EndsTogether, Interacting
<1>7. OutIsOwned'
  BY DEF OutIsOwned, EndsTogether, Interacting
<1>8. DecidedIsOwned'
  BY DEF DecidedIsOwned, OutIsOwned, OneComposes, EndsTogether, Interacting
<1>9. OwnWords'
  BY DEF OwnWords, Wordless, OutIsOwned, DecidedIsOwned, OneComposes, EndsTogether, Interacting
<1>10. CheckedSaysAll'
  BY DEF CheckedSaysAll, EndsTogether
<1>11. QED
  BY <1>1, <1>2, <1>3, <1>4, <1>5, <1>6, <1>7, <1>8, <1>9, <1>10 DEF IInv

LEMMA VoiceAgesKeeps ==
    ASSUME IInv, VoiceAges
    PROVE  IInv'
<1> USE DEF IInv, TypeOK, VoiceAges, Goes, Spends
<1>1. TypeOK'
  BY BoundsAssumption DEF KeyedCalls
<1>2. KeyedCalls'
  BY BoundsAssumption DEF KeyedCalls
<1>3. EndsTogether'
  BY DEF EndsTogether
<1>4. Wordless'
  BY DEF Wordless, EndsTogether
<1>5. OneComposes'
  BY DEF OneComposes, EndsTogether, DecidedIsOwned, Interacting
<1>6. FlagIsUp'
  BY DEF FlagIsUp, OneComposes, EndsTogether, Interacting
<1>7. OutIsOwned'
  BY DEF OutIsOwned, EndsTogether, Interacting
<1>8. DecidedIsOwned'
  BY DEF DecidedIsOwned, OutIsOwned, OneComposes, EndsTogether, Interacting
<1>9. OwnWords'
  BY DEF OwnWords, Wordless, OutIsOwned, DecidedIsOwned, OneComposes, EndsTogether, Interacting
<1>10. CheckedSaysAll'
  BY DEF CheckedSaysAll, EndsTogether
<1>11. QED
  BY <1>1, <1>2, <1>3, <1>4, <1>5, <1>6, <1>7, <1>8, <1>9, <1>10 DEF IInv

LEMMA WindowClosesKeeps ==
    ASSUME IInv, WindowCloses
    PROVE  IInv'
<1> USE DEF IInv, TypeOK, WindowCloses, Goes, Spends
<1>1. TypeOK'
  BY BoundsAssumption DEF KeyedCalls
<1>2. KeyedCalls'
  BY BoundsAssumption DEF KeyedCalls
<1>3. EndsTogether'
  BY DEF EndsTogether
<1>4. Wordless'
  BY DEF Wordless, EndsTogether
<1>5. OneComposes'
  BY DEF OneComposes, EndsTogether, DecidedIsOwned, Interacting
<1>6. FlagIsUp'
  BY DEF FlagIsUp, OneComposes, EndsTogether, Interacting
<1>7. OutIsOwned'
  BY DEF OutIsOwned, EndsTogether, Interacting
<1>8. DecidedIsOwned'
  BY DEF DecidedIsOwned, OutIsOwned, OneComposes, EndsTogether, Interacting
<1>9. OwnWords'
  BY DEF OwnWords, Wordless, OutIsOwned, DecidedIsOwned, OneComposes, EndsTogether, Interacting
<1>10. CheckedSaysAll'
  BY DEF CheckedSaysAll, EndsTogether
<1>11. QED
  BY <1>1, <1>2, <1>3, <1>4, <1>5, <1>6, <1>7, <1>8, <1>9, <1>10 DEF IInv

LEMMA HearKeeps ==
    ASSUME IInv, Hear
    PROVE  IInv'
<1> USE DEF IInv, TypeOK, Hear, Goes, Spends
<1>1. TypeOK'
  BY BoundsAssumption DEF KeyedCalls
<1>2. KeyedCalls'
  BY BoundsAssumption DEF KeyedCalls
<1>3. EndsTogether'
  BY DEF EndsTogether
<1>4. Wordless'
  BY DEF Wordless, EndsTogether
<1>5. OneComposes'
  BY DEF OneComposes, EndsTogether, DecidedIsOwned, Interacting
<1>6. FlagIsUp'
  BY DEF FlagIsUp, OneComposes, EndsTogether, Interacting
<1>7. OutIsOwned'
  BY DEF OutIsOwned, EndsTogether, Interacting
<1>8. DecidedIsOwned'
  BY DEF DecidedIsOwned, OutIsOwned, OneComposes, EndsTogether, Interacting
<1>9. OwnWords'
  <2>1. CASE muddled /\ (out # {} \/ decided # {})
    BY <2>1 DEF OwnWords
  <2>2. CASE Interacting("hook") \/ pc["monitor"] # "idle"
    BY <2>2 DEF OwnWords
  <2>3. CASE ~Interacting("hook") /\ pc["monitor"] = "idle"
    <3>1. pc["hook"] \in {"idle", "dead"} /\ pc["turn"] = "idle"
      BY <2>3 DEF EndsTogether, Interacting
    <3>2. words["turn"] = {} /\ words["monitor"] = {}
      BY <2>3 DEF Wordless
    <3>3. words["hook"] = {}
      BY <3>1 DEF Wordless
    <3>4. QED
      BY <3>2, <3>3 DEF OwnWords
  <2>4. QED
    BY <2>1, <2>2, <2>3
<1>10. CheckedSaysAll'
  BY DEF CheckedSaysAll, EndsTogether
<1>11. QED
  BY <1>1, <1>2, <1>3, <1>4, <1>5, <1>6, <1>7, <1>8, <1>9, <1>10 DEF IInv

LEMMA DispatchKeeps ==
    ASSUME IInv, Dispatch
    PROVE  IInv'
<1> USE DEF IInv, TypeOK, Dispatch, Goes, Spends
<1>1. TypeOK'
  <2>1. out' \in SUBSET Tags /\ muddled' \in BOOLEAN
    BY DispatchPuts
  <2>2. pc' \in [Threads -> Places]
    OBVIOUS
  <2>3. QED
    BY <2>1, <2>2
<1>2. KeyedCalls'
  BY BoundsAssumption DEF KeyedCalls
<1>3. EndsTogether'
  BY DEF EndsTogether
<1>4. Wordless'
  BY DEF Wordless, EndsTogether
<1>5. OneComposes'
  BY DEF OneComposes, EndsTogether, DecidedIsOwned, Interacting
<1>6. FlagIsUp'
  BY DEF FlagIsUp, OneComposes, EndsTogether, Interacting
<1>7. OutIsOwned'
  BY DispatchPuts DEF OutIsOwned, EndsTogether, Interacting
<1>8. DecidedIsOwned'
  BY DEF DecidedIsOwned, OutIsOwned, OneComposes, EndsTogether, Interacting
<1>9. OwnWords'
  BY DEF OwnWords, Wordless, OutIsOwned, DecidedIsOwned, OneComposes, EndsTogether, Interacting
<1>10. CheckedSaysAll'
  BY DEF CheckedSaysAll, EndsTogether
<1>11. QED
  BY <1>1, <1>2, <1>3, <1>4, <1>5, <1>6, <1>7, <1>8, <1>9, <1>10 DEF IInv

LEMMA TakeOutKeeps ==
    ASSUME IInv, TakeOut
    PROVE  IInv'
<1> USE DEF IInv, TypeOK, TakeOut, Goes, Spends
<1>1. TypeOK'
  BY BoundsAssumption DEF KeyedCalls
<1>2. KeyedCalls'
  BY BoundsAssumption DEF KeyedCalls
<1>3. EndsTogether'
  BY DEF EndsTogether
<1>4. Wordless'
  BY DEF Wordless, EndsTogether
<1>5. OneComposes'
  BY DEF OneComposes, EndsTogether, DecidedIsOwned, Interacting
<1>6. FlagIsUp'
  BY DEF FlagIsUp, OneComposes, EndsTogether, Interacting
<1>7. OutIsOwned'
  BY DEF OutIsOwned, EndsTogether, Interacting
<1>8. DecidedIsOwned'
  BY DEF DecidedIsOwned, OutIsOwned, OneComposes, EndsTogether, Interacting
<1>9. OwnWords'
  BY DEF OwnWords, Wordless, OutIsOwned, DecidedIsOwned, OneComposes, EndsTogether, Interacting
<1>10. CheckedSaysAll'
  BY DEF CheckedSaysAll, EndsTogether
<1>11. QED
  BY <1>1, <1>2, <1>3, <1>4, <1>5, <1>6, <1>7, <1>8, <1>9, <1>10 DEF IInv

LEMMA SettleKeeps ==
    ASSUME IInv, Settle
    PROVE  IInv'
<1> USE DEF IInv, TypeOK, Settle, Goes, Spends
<1>1. TypeOK'
  <2>1. decided' \in SUBSET Tags
    BY SettledIs
  <2>2. pc' \in [Threads -> Places] /\ answering' \in BOOLEAN
    <3>1. CASE pc' = [pc EXCEPT !["turn"] = "reply"] /\ answering' = answering
      BY <3>1
    <3>2. CASE pc' = [pc EXCEPT !["turn"] = "thinking"] /\ answering' = TRUE
      BY <3>2
    <3> QED BY <3>1, <3>2, Zenon DEF Settle, Goes
  <2>3. muddled' \in BOOLEAN
    OBVIOUS
  <2>4. QED
    BY <2>1, <2>2, <2>3
<1>2. KeyedCalls'
  BY BoundsAssumption DEF KeyedCalls
<1>3. EndsTogether'
  BY DEF EndsTogether
<1>4. Wordless'
  BY DEF Wordless, EndsTogether
<1>5. OneComposes'
  BY DEF OneComposes, EndsTogether, DecidedIsOwned, Interacting
<1>6. FlagIsUp'
  BY DEF FlagIsUp, OneComposes, EndsTogether, Interacting
<1>7. OutIsOwned'
  BY DEF OutIsOwned, EndsTogether, Interacting
<1>8. DecidedIsOwned'
  <2>1. ~muddled => decided' \subseteq Own
    BY SettledIs DEF DecidedIsOwned
  <2>2. CASE pc'["turn"] = "thinking" /\ UNCHANGED muddled
    BY <2>1, <2>2 DEF DecidedIsOwned
  <2>3. CASE pc'["turn"] = "reply" /\ muddled' = (muddled \/ decided' # {})
    BY <2>1, <2>3 DEF DecidedIsOwned
  <2>4. QED
    BY <2>2, <2>3
<1>9. OwnWords'
  BY DEF OwnWords, Wordless, OutIsOwned, DecidedIsOwned, OneComposes, EndsTogether, Interacting
<1>10. CheckedSaysAll'
  BY DEF CheckedSaysAll, EndsTogether
<1>11. QED
  BY <1>1, <1>2, <1>3, <1>4, <1>5, <1>6, <1>7, <1>8, <1>9, <1>10 DEF IInv

LEMMA HookFiresKeeps ==
    ASSUME IInv, HookFires
    PROVE  IInv'
<1> USE DEF IInv, TypeOK, HookFires, Goes, Spends
<1>1. TypeOK'
  BY BoundsAssumption DEF KeyedCalls
<1>2. KeyedCalls'
  BY BoundsAssumption DEF KeyedCalls
<1>3. EndsTogether'
  BY DEF EndsTogether
<1>4. Wordless'
  BY DEF Wordless, EndsTogether
<1>5. OneComposes'
  BY DEF OneComposes, EndsTogether, DecidedIsOwned, Interacting
<1>6. FlagIsUp'
  BY DEF FlagIsUp, OneComposes, EndsTogether, Interacting
<1>7. OutIsOwned'
  BY DEF OutIsOwned, EndsTogether, Interacting
<1>8. DecidedIsOwned'
  BY DEF DecidedIsOwned, OutIsOwned, OneComposes, EndsTogether, Interacting
<1>9. OwnWords'
  BY DEF OwnWords, Wordless, OutIsOwned, DecidedIsOwned, OneComposes, EndsTogether, Interacting
<1>10. CheckedSaysAll'
  BY DEF CheckedSaysAll, EndsTogether
<1>11. QED
  BY <1>1, <1>2, <1>3, <1>4, <1>5, <1>6, <1>7, <1>8, <1>9, <1>10 DEF IInv

LEMMA GoodbyeKeeps ==
    ASSUME IInv, Goodbye
    PROVE  IInv'
<1> USE DEF IInv, TypeOK, Goodbye, MonitorSpends, ChannelIsFree, Goes, Spends
<1>1. TypeOK'
  BY BoundsAssumption DEF KeyedCalls
<1>2. KeyedCalls'
  BY BoundsAssumption DEF KeyedCalls
<1>3. EndsTogether'
  BY DEF EndsTogether
<1>4. Wordless'
  BY DEF Wordless, EndsTogether
<1>5. OneComposes'
  BY DEF OneComposes, EndsTogether, DecidedIsOwned, Interacting
<1>6. FlagIsUp'
  BY DEF FlagIsUp, OneComposes, EndsTogether, Interacting
<1>7. OutIsOwned'
  BY DEF OutIsOwned, EndsTogether, Interacting
<1>8. DecidedIsOwned'
  BY DEF DecidedIsOwned, OutIsOwned, OneComposes, EndsTogether, Interacting
<1>9. OwnWords'
  BY DEF OwnWords, Wordless, OutIsOwned, DecidedIsOwned, OneComposes, EndsTogether, Interacting
<1>10. CheckedSaysAll'
  BY DEF CheckedSaysAll, EndsTogether
<1>11. QED
  BY <1>1, <1>2, <1>3, <1>4, <1>5, <1>6, <1>7, <1>8, <1>9, <1>10 DEF IInv

LEMMA RadarCallKeeps ==
    ASSUME IInv, RadarCall
    PROVE  IInv'
<1> USE DEF IInv, TypeOK, RadarCall, MonitorSpends, ChannelIsFree, Goes, Spends
<1>1. TypeOK'
  BY BoundsAssumption DEF KeyedCalls
<1>2. KeyedCalls'
  BY BoundsAssumption DEF KeyedCalls
<1>3. EndsTogether'
  BY DEF EndsTogether
<1>4. Wordless'
  BY DEF Wordless, EndsTogether
<1>5. OneComposes'
  BY DEF OneComposes, EndsTogether, DecidedIsOwned, Interacting
<1>6. FlagIsUp'
  BY DEF FlagIsUp, OneComposes, EndsTogether, Interacting
<1>7. OutIsOwned'
  BY DEF OutIsOwned, EndsTogether, Interacting
<1>8. DecidedIsOwned'
  BY DEF DecidedIsOwned, OutIsOwned, OneComposes, EndsTogether, Interacting
<1>9. OwnWords'
  BY DEF OwnWords, Wordless, OutIsOwned, DecidedIsOwned, OneComposes, EndsTogether, Interacting
<1>10. CheckedSaysAll'
  BY DEF CheckedSaysAll, EndsTogether
<1>11. QED
  BY <1>1, <1>2, <1>3, <1>4, <1>5, <1>6, <1>7, <1>8, <1>9, <1>10 DEF IInv

LEMMA FollowHimKeeps ==
    ASSUME IInv, FollowHim
    PROVE  IInv'
<1> USE DEF IInv, TypeOK, FollowHim, MonitorSpends, Goes, Spends
<1>1. TypeOK'
  BY BoundsAssumption DEF KeyedCalls
<1>2. KeyedCalls'
  BY BoundsAssumption DEF KeyedCalls
<1>3. EndsTogether'
  BY DEF EndsTogether
<1>4. Wordless'
  BY DEF Wordless, EndsTogether
<1>5. OneComposes'
  BY DEF OneComposes, EndsTogether, DecidedIsOwned, Interacting
<1>6. FlagIsUp'
  BY DEF FlagIsUp, OneComposes, EndsTogether, Interacting
<1>7. OutIsOwned'
  BY DEF OutIsOwned, EndsTogether, Interacting
<1>8. DecidedIsOwned'
  BY DEF DecidedIsOwned, OutIsOwned, OneComposes, EndsTogether, Interacting
<1>9. OwnWords'
  BY DEF OwnWords, Wordless, OutIsOwned, DecidedIsOwned, OneComposes, EndsTogether, Interacting
<1>10. CheckedSaysAll'
  BY DEF CheckedSaysAll, EndsTogether
<1>11. QED
  BY <1>1, <1>2, <1>3, <1>4, <1>5, <1>6, <1>7, <1>8, <1>9, <1>10 DEF IInv

LEMMA MonitorTakesOutKeeps ==
    ASSUME IInv, MonitorTakesOut
    PROVE  IInv'
<1> USE DEF IInv, TypeOK, MonitorTakesOut, Goes, Spends
<1>1. TypeOK'
  BY BoundsAssumption DEF KeyedCalls
<1>2. KeyedCalls'
  BY BoundsAssumption DEF KeyedCalls
<1>3. EndsTogether'
  BY DEF EndsTogether
<1>4. Wordless'
  BY DEF Wordless, EndsTogether
<1>5. OneComposes'
  BY DEF OneComposes, EndsTogether, DecidedIsOwned, Interacting
<1>6. FlagIsUp'
  BY DEF FlagIsUp, OneComposes, EndsTogether, Interacting
<1>7. OutIsOwned'
  BY DEF OutIsOwned, EndsTogether, Interacting
<1>8. DecidedIsOwned'
  BY DEF DecidedIsOwned, OutIsOwned, OneComposes, EndsTogether, Interacting
<1>9. OwnWords'
  BY DEF OwnWords, Wordless, OutIsOwned, DecidedIsOwned, OneComposes, EndsTogether, Interacting
<1>10. CheckedSaysAll'
  BY DEF CheckedSaysAll, EndsTogether
<1>11. QED
  BY <1>1, <1>2, <1>3, <1>4, <1>5, <1>6, <1>7, <1>8, <1>9, <1>10 DEF IInv

LEMMA FollowEndsKeeps ==
    ASSUME IInv, FollowEnds
    PROVE  IInv'
<1> USE DEF IInv, TypeOK, FollowEnds, Goes, Spends
<1>1. TypeOK'
  BY BoundsAssumption DEF KeyedCalls
<1>2. KeyedCalls'
  BY BoundsAssumption DEF KeyedCalls
<1>3. EndsTogether'
  BY DEF EndsTogether
<1>4. Wordless'
  BY DEF Wordless, EndsTogether
<1>5. OneComposes'
  BY DEF OneComposes, EndsTogether, DecidedIsOwned, Interacting
<1>6. FlagIsUp'
  BY DEF FlagIsUp, OneComposes, EndsTogether, Interacting
<1>7. OutIsOwned'
  BY DEF OutIsOwned, EndsTogether, Interacting
<1>8. DecidedIsOwned'
  BY DEF DecidedIsOwned, OutIsOwned, OneComposes, EndsTogether, Interacting
<1>9. OwnWords'
  BY DEF OwnWords, Wordless, OutIsOwned, DecidedIsOwned, OneComposes, EndsTogether, Interacting
<1>10. CheckedSaysAll'
  BY DEF CheckedSaysAll, EndsTogether
<1>11. QED
  BY <1>1, <1>2, <1>3, <1>4, <1>5, <1>6, <1>7, <1>8, <1>9, <1>10 DEF IInv

LEMMA EngineeringReadsKeeps ==
    ASSUME IInv, EngineeringReads
    PROVE  IInv'
<1> USE DEF IInv, TypeOK, EngineeringReads, Goes, Spends
<1>1. TypeOK'
  BY BoundsAssumption DEF KeyedCalls
<1>2. KeyedCalls'
  BY BoundsAssumption DEF KeyedCalls
<1>3. EndsTogether'
  BY DEF EndsTogether
<1>4. Wordless'
  BY DEF Wordless, EndsTogether
<1>5. OneComposes'
  BY DEF OneComposes, EndsTogether, DecidedIsOwned, Interacting
<1>6. FlagIsUp'
  BY DEF FlagIsUp, OneComposes, EndsTogether, Interacting
<1>7. OutIsOwned'
  BY DEF OutIsOwned, EndsTogether, Interacting
<1>8. DecidedIsOwned'
  BY DEF DecidedIsOwned, OutIsOwned, OneComposes, EndsTogether, Interacting
<1>9. OwnWords'
  BY DEF OwnWords, Wordless, OutIsOwned, DecidedIsOwned, OneComposes, EndsTogether, Interacting
<1>10. CheckedSaysAll'
  BY DEF CheckedSaysAll, EndsTogether
<1>11. QED
  BY <1>1, <1>2, <1>3, <1>4, <1>5, <1>6, <1>7, <1>8, <1>9, <1>10 DEF IInv

LEMMA NoCallKeeps ==
    ASSUME NEW x \in {"turn", "hook"}, IInv, NoCall(x)
    PROVE  IInv'
<1> USE DEF IInv, TypeOK, NoCall, TurnIsOver, Goes, Spends
<1>1. TypeOK'
  <2>1. out' \in SUBSET Tags /\ decided' \in SUBSET Tags
    <3>1. Aged(out) \in SUBSET Tags /\ Aged(decided) \in SUBSET Tags
      BY AgedIs
    <3>2. QED
      BY <3>1
  <2>2. words' \in [Threads -> SUBSET Tags]
    <3>1. \A y \in Threads : Aged(words[y]) \in SUBSET Tags
      BY AgedIs
    <3>2. CASE x = "turn"
      <4>1. words' = [y \in Threads |-> IF y = "turn" THEN {} ELSE Aged(words[y])]
        BY <3>2
      <4>2. QED
        BY <3>1, <4>1
    <3>3. CASE x # "turn"
      BY <3>3
    <3>4. QED
      BY <3>2, <3>3
  <2>3. pc' \in [Threads -> Places] /\ muddled' \in BOOLEAN
    OBVIOUS
  <2>4. QED
    BY <2>1, <2>2, <2>3
<1>2. KeyedCalls'
  BY BoundsAssumption DEF KeyedCalls
<1>3. EndsTogether'
  BY DEF EndsTogether
<1>4. Wordless'
  <2>1. CASE x = "turn"
    <3>1. words' = [y \in Threads |-> IF y = "turn" THEN {} ELSE Aged(words[y])]
      BY <2>1
    <3>2. Aged({}) = {}
      BY AgedIs
    <3>3. QED
      BY <2>1, <3>1, <3>2 DEF Wordless, EndsTogether
  <2>2. CASE x = "hook"
    BY <2>2 DEF Wordless, EndsTogether
  <2>3. QED
    BY <2>1, <2>2
<1>5. OneComposes'
  BY AgedIs DEF OneComposes, EndsTogether, DecidedIsOwned, Interacting
<1>6. FlagIsUp'
  BY AgedIs DEF FlagIsUp, OneComposes, EndsTogether, Interacting
<1>7. OutIsOwned'
  BY AgedIs DEF OutIsOwned, EndsTogether, Interacting
<1>8. DecidedIsOwned'
  BY AgedIs DEF DecidedIsOwned, OutIsOwned, OneComposes, EndsTogether, Interacting
<1>9. OwnWords'
  BY AgedIs DEF OwnWords, Wordless, OutIsOwned, DecidedIsOwned, OneComposes, EndsTogether, Interacting
<1>10. CheckedSaysAll'
  BY AgedIs DEF CheckedSaysAll, EndsTogether
<1>11. QED
  BY <1>1, <1>2, <1>3, <1>4, <1>5, <1>6, <1>7, <1>8, <1>9, <1>10 DEF IInv

LEMMA ReplyKeeps ==
    ASSUME NEW x \in {"turn", "hook"}, IInv, Reply(x)
    PROVE  IInv'
<1> USE DEF IInv, TypeOK, Reply, Goes, Spends
<1>1. TypeOK'
  BY BoundsAssumption DEF KeyedCalls
<1>2. KeyedCalls'
  BY BoundsAssumption DEF KeyedCalls
<1>3. EndsTogether'
  BY DEF EndsTogether
<1>4. Wordless'
  BY DEF Wordless, EndsTogether
<1>5. OneComposes'
  BY DEF OneComposes, EndsTogether, DecidedIsOwned, Interacting
<1>6. FlagIsUp'
  BY DEF FlagIsUp, OneComposes, EndsTogether, Interacting
<1>7. OutIsOwned'
  BY DEF OutIsOwned, EndsTogether, Interacting
<1>8. DecidedIsOwned'
  BY DEF DecidedIsOwned, OutIsOwned, OneComposes, EndsTogether, Interacting
<1>9. OwnWords'
  <2>1. PICK voiced \in SUBSET decided : words' = [words EXCEPT ![x] = voiced]
    OBVIOUS
  <2>2. CASE x = "turn"
    BY <2>1, <2>2 DEF OwnWords, DecidedIsOwned
  <2>3. CASE x = "hook"
    <3>1. ~muddled => voiced = {}
      BY <2>1, <2>3 DEF DecidedIsOwned, OneComposes, Interacting
    <3> QED BY <2>1, <2>3, <3>1 DEF OwnWords
  <2> QED BY <2>2, <2>3
<1>10. CheckedSaysAll'
  BY DEF CheckedSaysAll, EndsTogether
<1>11. QED
  BY <1>1, <1>2, <1>3, <1>4, <1>5, <1>6, <1>7, <1>8, <1>9, <1>10 DEF IInv

LEMMA ForgetDecidedKeeps ==
    ASSUME NEW x \in {"turn", "hook"}, IInv, ForgetDecided(x)
    PROVE  IInv'
<1> USE DEF IInv, TypeOK, ForgetDecided, Goes, Spends
<1>1. TypeOK'
  BY BoundsAssumption DEF KeyedCalls
<1>2. KeyedCalls'
  BY BoundsAssumption DEF KeyedCalls
<1>3. EndsTogether'
  BY DEF EndsTogether
<1>4. Wordless'
  BY DEF Wordless, EndsTogether
<1>5. OneComposes'
  BY DEF OneComposes, EndsTogether, DecidedIsOwned, Interacting
<1>6. FlagIsUp'
  BY DEF FlagIsUp, OneComposes, EndsTogether, Interacting
<1>7. OutIsOwned'
  BY DEF OutIsOwned, EndsTogether, Interacting
<1>8. DecidedIsOwned'
  BY DEF DecidedIsOwned, OutIsOwned, OneComposes, EndsTogether, Interacting
<1>9. OwnWords'
  BY DEF OwnWords, Wordless, OutIsOwned, DecidedIsOwned, OneComposes, EndsTogether, Interacting
<1>10. CheckedSaysAll'
  BY DEF CheckedSaysAll, EndsTogether
<1>11. QED
  BY <1>1, <1>2, <1>3, <1>4, <1>5, <1>6, <1>7, <1>8, <1>9, <1>10 DEF IInv

LEMMA TakeRadioKeeps ==
    ASSUME NEW x \in Threads, IInv, TakeRadio(x)
    PROVE  IInv'
<1> USE DEF IInv, TypeOK, TakeRadio, Goes, Spends
<1>1. TypeOK'
  BY BoundsAssumption DEF KeyedCalls
<1>2. KeyedCalls'
  BY BoundsAssumption DEF KeyedCalls
<1>3. EndsTogether'
  BY DEF EndsTogether
<1>4. Wordless'
  BY DEF Wordless, EndsTogether
<1>5. OneComposes'
  BY DEF OneComposes, EndsTogether, DecidedIsOwned, Interacting
<1>6. FlagIsUp'
  BY DEF FlagIsUp, OneComposes, EndsTogether, Interacting
<1>7. OutIsOwned'
  BY DEF OutIsOwned, EndsTogether, Interacting
<1>8. DecidedIsOwned'
  BY DEF DecidedIsOwned, OutIsOwned, OneComposes, EndsTogether, Interacting
<1>9. OwnWords'
  BY DEF OwnWords, Wordless, OutIsOwned, DecidedIsOwned, OneComposes, EndsTogether, Interacting
<1>10. CheckedSaysAll'
  BY DEF CheckedSaysAll, EndsTogether
<1>11. QED
  BY <1>1, <1>2, <1>3, <1>4, <1>5, <1>6, <1>7, <1>8, <1>9, <1>10 DEF IInv

LEMMA SpokenKeeps ==
    ASSUME NEW x \in Threads, IInv, Spoken(x)
    PROVE  IInv'
<1> USE DEF IInv, TypeOK, Spoken, TurnIsOver, Goes, Spends
<1>1. TypeOK'
  <2>1. out' \in SUBSET Tags /\ decided' \in SUBSET Tags
    <3>1. Aged(out) \in SUBSET Tags /\ Aged(decided) \in SUBSET Tags
      BY AgedIs
    <3>2. QED
      BY <3>1
  <2>2. words' \in [Threads -> SUBSET Tags]
    <3>1. \A y \in Threads : Aged(words[y]) \in SUBSET Tags
      BY AgedIs
    <3>2. CASE x = "turn"
      <4>1. words' = [y \in Threads |-> IF y = "turn" THEN {} ELSE Aged(words[y])]
        BY <3>2
      <4>2. QED
        BY <3>1, <4>1
    <3>3. CASE x # "turn"
      BY <3>3
    <3>4. QED
      BY <3>2, <3>3
  <2>3. pc' \in [Threads -> Places] /\ muddled' \in BOOLEAN
    OBVIOUS
  <2>4. QED
    BY <2>1, <2>2, <2>3
<1>2. KeyedCalls'
  BY BoundsAssumption DEF KeyedCalls
<1>3. EndsTogether'
  BY DEF EndsTogether
<1>4. Wordless'
  BY AgedIs DEF Wordless, EndsTogether
<1>5. OneComposes'
  BY AgedIs DEF OneComposes, EndsTogether, DecidedIsOwned, Interacting
<1>6. FlagIsUp'
  BY AgedIs DEF FlagIsUp, OneComposes, EndsTogether, Interacting
<1>7. OutIsOwned'
  BY AgedIs DEF OutIsOwned, EndsTogether, Interacting
<1>8. DecidedIsOwned'
  BY AgedIs DEF DecidedIsOwned, OutIsOwned, OneComposes, EndsTogether, Interacting
<1>9. OwnWords'
  BY AgedIs DEF OwnWords, Wordless, OutIsOwned, DecidedIsOwned, OneComposes, EndsTogether, Interacting
<1>10. CheckedSaysAll'
  BY AgedIs DEF CheckedSaysAll, EndsTogether
<1>11. QED
  BY <1>1, <1>2, <1>3, <1>4, <1>5, <1>6, <1>7, <1>8, <1>9, <1>10 DEF IInv

LEMMA RaisesKeeps ==
    ASSUME NEW x \in Threads, IInv, Raises(x)
    PROVE  IInv'
<1> USE DEF IInv, TypeOK, Raises, Goes, Spends
<1>1. TypeOK'
  BY BoundsAssumption DEF KeyedCalls
<1>2. KeyedCalls'
  BY BoundsAssumption DEF KeyedCalls
<1>3. EndsTogether'
  BY DEF EndsTogether
<1>4. Wordless'
  <2>1. CASE x = "turn"
    BY <2>1 DEF Wordless
  <2>2. CASE x # "turn"
    <3>1. pc["turn"] # "dead"
      BY DEF EndsTogether
    <3>2. \A t \in Threads : t # x => pc'[t] = pc[t] /\ words'[t] = words[t]
      BY <2>2
    <3>3. words'[x] = {}
      OBVIOUS
    <3>4. QED
      BY <2>2, <3>1, <3>2, <3>3 DEF Wordless
  <2>3. QED
    BY <2>1, <2>2
<1>5. OneComposes'
  BY DEF OneComposes, EndsTogether, DecidedIsOwned, Interacting
<1>6. FlagIsUp'
  BY DEF FlagIsUp, OneComposes, EndsTogether, Interacting
<1>7. OutIsOwned'
  <2>1. CASE x = "turn"
    BY <2>1 DEF OutIsOwned
  <2>2. CASE x # "turn"
    <3>1. \A t \in Threads : t # x => pc'[t] = pc[t]
      BY <2>2
    <3>2. pc[x] # "outbox" /\ pc'[x] # "outbox"
      BY <2>2
    <3>3. pc'["turn"] = pc["turn"] /\ (pc'["monitor"] = "outbox" <=> pc["monitor"] = "outbox")
      BY <2>2, <3>1, <3>2
    <3>4. QED
      BY <3>3 DEF OutIsOwned
  <2>3. QED
    BY <2>1, <2>2
<1>8. DecidedIsOwned'
  BY DEF DecidedIsOwned, OutIsOwned, OneComposes, EndsTogether, Interacting
<1>9. OwnWords'
  BY DEF OwnWords, Wordless, OutIsOwned, DecidedIsOwned, OneComposes, EndsTogether, Interacting
<1>10. CheckedSaysAll'
  BY DEF CheckedSaysAll, EndsTogether
<1>11. QED
  BY <1>1, <1>2, <1>3, <1>4, <1>5, <1>6, <1>7, <1>8, <1>9, <1>10 DEF IInv

---------------------------------------------------------------------------
(* The invariant, and what follows from it. *)

LEMMA NextKeeps == ASSUME IInv, [Next]_vars PROVE IInv'
<1>1. CASE Pilots
  BY <1>1, PilotKeysKeeps, PilotUnkeysKeeps, VoiceAgesKeeps, WindowClosesKeeps DEF Pilots
<1>2. CASE Turn
  BY <1>2, HearKeeps, DispatchKeeps, TakeOutKeeps, SettleKeeps DEF Turn
<1>3. CASE HookFires
  BY <1>3, HookFiresKeeps
<1>4. CASE Monitor
  BY <1>4, GoodbyeKeeps, RadarCallKeeps, FollowHimKeeps, MonitorTakesOutKeeps, FollowEndsKeeps DEF Monitor
<1>5. CASE EngineeringReads
  BY <1>5, EngineeringReadsKeeps
<1>6. CASE \E x \in {"turn", "hook"} : Interact(x)
  BY <1>6, NoCallKeeps, ReplyKeeps, ForgetDecidedKeeps DEF Interact
<1>7. CASE \E x \in Threads : Air(x)
  BY <1>7, TakeRadioKeeps, SpokenKeeps, RaisesKeeps DEF Air
<1>8. CASE UNCHANGED vars
  BY <1>8 DEF IInv, vars, TypeOK, KeyedCalls, EndsTogether, Wordless, OneComposes, FlagIsUp,
              OutIsOwned, DecidedIsOwned, OwnWords, CheckedSaysAll, Interacting
<1>9. QED
  BY <1>1, <1>2, <1>3, <1>4, <1>5, <1>6, <1>7, <1>8 DEF Next

LEMMA InitHolds == ASSUME Init PROVE IInv
<1>1. TypeOK
  <2>1. left \in [Sources -> Nat]
    BY BoundsAssumption DEF Init
  <2>2. pc \in [Threads -> Places] /\ words \in [Threads -> SUBSET Tags]
    BY DEF Init
  <2>3. waiting \in 0 .. MaxCalls
    BY BoundsAssumption DEF Init
  <2>4. QED
    BY <2>1, <2>2, <2>3 DEF Init, TypeOK
<1>2. KeyedCalls
  BY BoundsAssumption DEF Init, KeyedCalls
<1>3. QED
  BY <1>1, <1>2 DEF Init, IInv, EndsTogether, Wordless, OneComposes, FlagIsUp, OutIsOwned,
                    DecidedIsOwned, OwnWords, CheckedSaysAll, Interacting

THEOREM InvariantHolds == Spec => []IInv
<1>1. Init => IInv
  BY InitHolds
<1>2. IInv /\ [Next]_vars => IInv'
  BY NextKeeps
<1>3. QED
  BY <1>1, <1>2, PTL DEF Spec

\* Every state of the four threads, the flags and the mailboxes is well-typed,
\* for any number of calls, polls, hooks and failures.
THEOREM GateTypeCorrect == Spec => []TypeOK
<1>1. IInv => TypeOK
  BY DEF IInv
<1>2. QED
  BY <1>1, InvariantHolds, PTL

\* As long as no two threads had a mailbox at once and no turn left one full,
\* nobody says a message that another turn, or radar, had the Controller make.
THEOREM NobodySaysAnothers == Spec => []OwnWords
<1>1. IInv => OwnWords
  BY DEF IInv
<1>2. QED
  BY <1>1, InvariantHolds, PTL

\* Under the same condition radar's monitor passes the gate only while no answer
\* is being composed or spoken.
THEOREM RadarWaitsForAnswers == Spec => AnswersAreWaitedFor
<1>1. ASSUME IInv, [Next]_vars
      PROVE  [PassesGate /\ ~muddled => ~Interacting("turn") /\ ~Interacting("hook")]_vars
  <2>1. CASE Goodbye \/ RadarCall
    BY <1>1, <2>1 DEF Goodbye, RadarCall, MonitorSpends, ChannelIsFree, IInv, FlagIsUp
  <2>2. CASE ~(Goodbye \/ RadarCall)
    <3>1. CASE Pilots \/ Turn \/ HookFires \/ EngineeringReads \/ UNCHANGED vars
      BY <1>1, <3>1 DEF Pilots, Turn, PilotKeys, PilotUnkeys, VoiceAges, WindowCloses, Hear, Dispatch,
         TakeOut, Settle, HookFires, EngineeringReads, Goes, PassesGate, vars, IInv, TypeOK
    <3>2. CASE FollowHim \/ MonitorTakesOut \/ FollowEnds
      BY <1>1, <3>2 DEF FollowHim, MonitorSpends, MonitorTakesOut, FollowEnds, Goes, PassesGate, IInv, TypeOK
    <3>3. CASE \E x \in {"turn", "hook"} : Interact(x)
      BY <1>1, <3>3 DEF Interact, NoCall, Reply, ForgetDecided, Goes, PassesGate, IInv, TypeOK
    <3>4. CASE \E x \in Threads : Air(x)
      BY <1>1, <3>4 DEF Air, TakeRadio, Spoken, Raises, Goes, PassesGate, IInv, TypeOK
    <3>5. QED
      BY <1>1, <2>2, <3>1, <3>2, <3>3, <3>4 DEF Next, Monitor
  <2>3. QED
    BY <2>1, <2>2
<1>2. QED
  BY <1>1, InvariantHolds, PTL DEF Spec, AnswersAreWaitedFor

\* A decision that settle() kept, and that the bridge has words for, leaves the list,
\* while the reply it belongs to is composed, only into the words of a reply: what
\* was checked says all of the list that can be repaired.
THEOREM DecisionsAreNotLost == Spec => DecisionsAreVoiced
<1> DEFINE Loses == /\ "turn" \in decided /\ "turn" \notin decided'
                    /\ Interacting("turn") /\ pc'["turn"] \notin {"idle", "dead"}
                    /\ pc["hook"] # "verified"
<1>1. ASSUME IInv, [Next]_vars
      PROVE  [Loses => \E x \in Threads : "turn" \in words'[x]]_vars
  <2>1. CASE ForgetDecided("turn")
    BY <1>1, <2>1 DEF ForgetDecided, Goes, IInv, CheckedSaysAll
  <2>2. CASE ForgetDecided("hook")
    BY <2>2 DEF ForgetDecided
  <2>3. CASE Pilots \/ HookFires \/ Monitor \/ EngineeringReads \/ UNCHANGED vars
    BY <2>3 DEF Pilots, PilotKeys, PilotUnkeys, VoiceAges, WindowCloses, HookFires, EngineeringReads, Monitor,
       Goodbye, RadarCall, FollowHim, MonitorSpends, MonitorTakesOut, FollowEnds, vars
  <2>4. CASE Turn
    BY <1>1, <2>4 DEF Turn, Hear, Dispatch, TakeOut, Settle, Interacting
  <2>5. CASE \E x \in {"turn", "hook"} : NoCall(x) \/ Reply(x)
    BY <1>1, <2>5 DEF NoCall, Reply, Goes, IInv, TypeOK
  <2>6. CASE \E x \in Threads : Air(x)
    BY <1>1, <2>6 DEF Air, TakeRadio, Spoken, Raises, Goes, IInv, TypeOK
  <2>7. QED
    BY <1>1, <2>1, <2>2, <2>3, <2>4, <2>5, <2>6 DEF Next, Interact
<1>2. QED
  BY <1>1, InvariantHolds, PTL DEF Spec, DecisionsAreVoiced

=============================================================================
