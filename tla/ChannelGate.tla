---------------------------- MODULE ChannelGate ----------------------------
(***************************************************************************)
(* The four threads of the voice process and what they share: the receive  *)
(* loop that works a pilot's turn, the scheduler that fires hooks, the     *)
(* radar monitor and the engineering radio.                                *)
(*                                                                         *)
(* They meet in three courtesies (whether somebody is talking, whether a   *)
(* pilot is being answered, whether a read-back is owed), in radio_lock,   *)
(* and in two mailboxes none of them owns: the Controller's outbox and the *)
(* list of decisions the next reply has to voice.                          *)
(*                                                                         *)
(* A message is known by the turn it was made in: the one on hand, "stale" *)
(* any earlier one, "monitor" what radar had the Controller say.  One of   *)
(* the turn on hand is "turn" if the bridge will say it when the model     *)
(* does not, and "mute" if it will not: there are no words for it, or it   *)
(* is a vector and radar has just spoken one to him.                       *)
(***************************************************************************)
EXTENDS Naturals

CONSTANTS
    MaxCalls,       \* a bound: how often pilots key their radios
    MaxPolls,       \* a bound: how many calls radar has to make
    MaxOthers,      \* a bound: hooks that fall due and lines engineering sends
    MaxFails        \* a bound: how many transmissions raise

ASSUME BoundsAssumption ==
    /\ MaxCalls \in Nat /\ MaxPolls \in Nat
    /\ MaxOthers \in Nat /\ MaxFails \in Nat

VARIABLES
    pc,             \* where each thread is
    radio,          \* who holds radio_lock
    answering,      \* the flag: a pilot is being answered
    readback,       \* the read-back window is open
    out,            \* the Controller's outbox
    decided,        \* the decisions the next reply is checked for
    words,          \* the messages in what each thread is about to say
    talking,        \* a pilot has the channel
    fresh,          \* his voice was heard within the last second and a half
    waiting,        \* transmissions that are over and have not been read
    left,           \* what each source may still ask for
    muddled         \* two threads have had a mailbox at once, or a turn left it full

vars == <<pc, radio, answering, readback, out, decided, words,
          talking, fresh, waiting, left, muddled>>

Threads == {"turn", "hook", "monitor", "engineering"}
Nobody == "nobody"
Places == {"idle", "deciding", "outbox", "settling", "thinking", "verified",
           "ready", "speaking", "reply", "replying", "following", "dead"}
Own == {"turn", "mute"}
Tags == Own \cup {"stale", "monitor"}
Sources == {"pilots", "radar", "others", "fails"}

Init ==
    /\ pc = [x \in Threads |-> "idle"]
    /\ radio = Nobody
    /\ answering = FALSE /\ readback = FALSE
    /\ out = {} /\ decided = {}
    /\ words = [x \in Threads |-> {}]
    /\ talking = FALSE /\ fresh = FALSE /\ waiting = 0
    /\ left = [pilots |-> MaxCalls, radar |-> MaxPolls, others |-> MaxOthers, fails |-> MaxFails]
    /\ muddled = FALSE

\* Inside interact(): from setting the answering flag to clearing it.
Interacting(x) == pc[x] \in {"thinking", "verified", "ready", "speaking"}

Goes(x, place) == pc' = [pc EXCEPT ![x] = place]
Spends(x) == left[x] > 0 /\ left' = [left EXCEPT ![x] = @ - 1]

---------------------------------------------------------------------------
(* The pilots, and the socket only the receive loop reads. *)

PilotKeys ==
    /\ ~talking /\ Spends("pilots")
    /\ talking' = TRUE
    /\ fresh' = (fresh \/ pc["turn"] = "idle")
    /\ UNCHANGED <<pc, radio, answering, readback, out, decided, words, waiting, muddled>>

PilotUnkeys ==
    /\ talking
    /\ talking' = FALSE
    /\ waiting' = waiting + 1
    /\ UNCHANGED <<pc, radio, answering, readback, out, decided, words, fresh, left, muddled>>

\* The last packet read ages in a second and a half.  Nobody reads packets while
\* a turn is worked; a loop that listens reads them all, and returns before that.
VoiceAges ==
    /\ fresh /\ ~(pc["turn"] = "idle" /\ (talking \/ waiting > 0))
    /\ fresh' = FALSE
    /\ UNCHANGED <<pc, radio, answering, readback, out, decided, words, talking, waiting, left, muddled>>

WindowCloses ==
    /\ readback
    /\ readback' = FALSE
    /\ UNCHANGED <<pc, radio, answering, out, decided, words, talking, fresh, waiting, left, muddled>>

---------------------------------------------------------------------------
(* The receive loop.  Everything unread is one utterance.  It may come to  *)
(* nothing (no words in it, a debug note, one of our own stations), be     *)
(* answered at once (a radio check), or be taken to the engine.            *)
Hear ==
    /\ pc["turn"] = "idle" /\ waiting > 0 /\ ~talking
    /\ waiting' = 0
    /\ fresh' = TRUE
    /\ \E place \in {"idle", "reply", "deciding"} : Goes("turn", place)
    /\ muddled' = \/ muddled /\ (out # {} \/ decided # {})
                  \/ Interacting("hook") \/ pc["monitor"] # "idle"
    /\ UNCHANGED <<radio, answering, readback, out, decided, words, talking, left>>

\* The engine's call.  It raises before it is done, or there is no intent to
\* dispatch: then the outbox and the decisions stay as they are.
Dispatch ==
    /\ pc["turn"] = "deciding"
    /\ \/ Goes("turn", "outbox") /\ out' \in {out \cup m : m \in SUBSET Own} /\ UNCHANGED muddled
       \/ Goes("turn", "settling") /\ out' \in {out \cup m : m \in (SUBSET Own) \ {{}}} /\ muddled' = TRUE
       \/ Goes("turn", "settling") /\ UNCHANGED <<out, muddled>>
    /\ UNCHANGED <<radio, answering, readback, decided, words, talking, fresh, waiting, left>>

\* Whoever reads the outbox takes all of it.
TakeOut ==
    /\ pc["turn"] = "outbox"
    /\ Goes("turn", "settling")
    /\ decided' = out /\ out' = {}
    /\ UNCHANGED <<radio, answering, readback, words, talking, fresh, waiting, left, muddled>>

\* The next turn begins: what this one leaves in the outbox, on the list and in other
\* threads' words stays where it is, and belongs to no turn on hand any more.
Aged(messages) ==
    IF messages \cap Own = {} THEN messages ELSE (messages \ Own) \cup {"stale"}
TurnIsOver ==
    /\ out' = Aged(out)
    /\ decided' = Aged(decided)
    /\ words' = [x \in Threads |-> IF x = "turn" THEN {} ELSE Aged(words[x])]

\* Some of the decisions are suppressed, a vector may be added.
Settled == {kept \cup vector : kept \in SUBSET decided, vector \in {{}, {"turn"}, {"mute"}}}

\* A bug: a turn goes to the model without raising the flag.
SettleQuietly ==
    /\ pc["turn"] = "settling"
    /\ decided' \in Settled
    /\ Goes("turn", "thinking")
    /\ UNCHANGED <<radio, answering, readback, out, words, talking, fresh, waiting, left, muddled>>

\* What he may be told is settled.  Then the model composes his answer; or he is
\* only asked who he is, and what was decided stays on the list.
Settle ==
    /\ pc["turn"] = "settling"
    /\ decided' \in Settled
    /\ \/ /\ Goes("turn", "reply")
          /\ muddled' = (muddled \/ decided' # {})
          /\ UNCHANGED answering
       \/ /\ Goes("turn", "thinking")
          /\ answering' = TRUE
          /\ UNCHANGED muddled
    /\ UNCHANGED <<radio, readback, out, words, talking, fresh, waiting, left>>

---------------------------------------------------------------------------
(* interact(): the reply of a turn, or of a hook. *)

HookFires ==
    /\ pc["hook"] = "idle" /\ Spends("others")
    /\ Goes("hook", "thinking")
    /\ answering' = TRUE
    /\ muddled' = (muddled \/ pc["turn"] \notin {"idle", "reply", "replying"})
    /\ UNCHANGED <<radio, readback, out, decided, words, talking, fresh, waiting>>

\* A bug: the flag is not cleared on the way out that says nothing.
NoCallKeepsFlag(x) ==
    /\ pc[x] = "thinking"
    /\ Goes(x, "idle")
    /\ muddled' = (muddled \/ decided # {})
    /\ IF x = "turn" THEN TurnIsOver ELSE UNCHANGED <<out, decided, words>>
    /\ UNCHANGED <<radio, answering, readback, talking, fresh, waiting, left>>

\* "(no call)": nothing is said, and the decisions stay where they are.
NoCall(x) ==
    /\ pc[x] = "thinking"
    /\ Goes(x, "idle")
    /\ answering' = FALSE
    /\ muddled' = (muddled \/ decided # {})
    /\ IF x = "turn" THEN TurnIsOver ELSE UNCHANGED <<out, decided, words>>
    /\ UNCHANGED <<radio, readback, talking, fresh, waiting, left>>

\* A bug: a decision the model left out is noted and not said.
ReplyUnrepaired(x) ==
    /\ pc[x] = "thinking"
    /\ Goes(x, "verified")
    /\ \E voiced \in SUBSET decided : words' = [words EXCEPT ![x] = voiced]
    /\ UNCHANGED <<radio, answering, readback, out, decided, talking, fresh, waiting, left, muddled>>

\* The model voices what it likes.  Of the decisions on the list that it left out,
\* whoever's they are, those that can be repaired are said after it; what is stale
\* or radar's may be mute too.
Reply(x) ==
    /\ pc[x] = "thinking"
    /\ Goes(x, "verified")
    /\ \E voiced \in SUBSET decided :
        /\ "turn" \in decided => "turn" \in voiced
        /\ words' = [words EXCEPT ![x] = voiced]
    /\ UNCHANGED <<radio, answering, readback, out, decided, talking, fresh, waiting, left, muddled>>

\* A bug: the decisions that were just said are kept for the next reply.
ForgetNothing(x) ==
    /\ pc[x] = "verified"
    /\ Goes(x, "ready")
    /\ UNCHANGED <<radio, answering, readback, out, decided, words, talking, fresh, waiting, left, muddled>>

ForgetDecided(x) ==
    /\ pc[x] = "verified"
    /\ Goes(x, "ready")
    /\ decided' = {}
    /\ UNCHANGED <<radio, answering, readback, out, words, talking, fresh, waiting, left, muddled>>

---------------------------------------------------------------------------
(* Radar's own calls.  The gate is asked first; what it says is used after *)
(* the wait for the radio.                                                 *)
ChannelIsFree == ~fresh /\ ~answering /\ ~readback

MonitorSpends ==
    /\ pc["monitor"] = "idle" /\ Spends("radar")
    /\ UNCHANGED <<radio, answering, readback, decided, talking, fresh, waiting>>

\* The goodbye is made by the Controller, and taken from its outbox.
Goodbye ==
    /\ MonitorSpends /\ ChannelIsFree
    /\ Goes("monitor", "outbox")
    /\ out' = out \cup {"monitor"}
    /\ muddled' = (muddled \/ pc["turn"] \in {"deciding", "outbox"})
    /\ UNCHANGED words

\* An offer, a vector, a mile: all but the offer want a read-back.
RadarCall ==
    /\ MonitorSpends /\ ChannelIsFree
    /\ \E place \in {"reply", "ready"} : Goes("monitor", place)
    /\ UNCHANGED <<out, words, muddled>>

\* An aircraft followed along its route: no gate, and no lock afterwards.
FollowHim ==
    /\ MonitorSpends
    /\ Goes("monitor", "following")
    /\ words' = [words EXCEPT !["monitor"] = out \cup {"monitor"}]
    /\ out' = {}
    /\ muddled' = (muddled \/ pc["turn"] \in {"deciding", "outbox"})

MonitorTakesOut ==
    /\ pc["monitor"] = "outbox"
    /\ Goes("monitor", "reply")
    /\ words' = [words EXCEPT !["monitor"] = out]
    /\ out' = {}
    /\ UNCHANGED <<radio, answering, readback, decided, talking, fresh, waiting, left, muddled>>

FollowEnds ==
    /\ pc["monitor"] = "following"
    /\ Goes("monitor", "idle")
    /\ words' = [words EXCEPT !["monitor"] = {}]
    /\ readback' = TRUE
    /\ UNCHANGED <<radio, answering, out, decided, talking, fresh, waiting, left, muddled>>

EngineeringReads ==
    /\ pc["engineering"] = "idle" /\ Spends("others")
    /\ Goes("engineering", "reply")
    /\ UNCHANGED <<radio, answering, readback, out, decided, words, talking, fresh, waiting, muddled>>

---------------------------------------------------------------------------
(* On the air, one at a time: radio_lock. *)

TakeRadio(x) ==
    /\ pc[x] \in {"ready", "reply"} /\ radio = Nobody
    /\ radio' = x
    /\ Goes(x, IF pc[x] = "ready" THEN "speaking" ELSE "replying")
    /\ UNCHANGED <<answering, readback, out, decided, words, talking, fresh, waiting, left, muddled>>

\* A call of interact() and radar's vectors and miles leave room for a read-back.
Spoken(x) ==
    /\ pc[x] \in {"speaking", "replying"}
    /\ radio' = Nobody
    /\ readback' = (readback \/ pc[x] = "speaking")
    /\ answering' = (answering /\ ~(Interacting(x) /\ x \in {"turn", "hook"}))
    /\ Goes(x, "idle")
    /\ IF x = "turn" THEN TurnIsOver
       ELSE words' = [words EXCEPT ![x] = {}] /\ UNCHANGED <<out, decided>>
    /\ UNCHANGED <<talking, fresh, waiting, left, muddled>>

\* A bug: a transmission that raises keeps the radio.
RaisesWithRadio(x) ==
    /\ pc[x] \in {"speaking", "replying"} /\ Spends("fails")
    /\ answering' = (answering /\ ~(Interacting(x) /\ x \in {"turn", "hook"}))
    /\ pc' = [t \in Threads |-> IF x = "turn" \/ (t = x /\ x = "hook") THEN "dead"
                               ELSE IF t = x THEN "idle" ELSE pc[t]]
    /\ words' = [words EXCEPT ![x] = {}]
    /\ UNCHANGED <<radio, readback, out, decided, talking, fresh, waiting, muddled>>

\* A transmission that raises lets go of the radio.  Radar and engineering go on
\* to their next poll, the scheduler's thread is gone for good, and with the
\* receive loop the process ends.
Raises(x) ==
    /\ pc[x] \in {"speaking", "replying"} /\ Spends("fails")
    /\ radio' = Nobody
    /\ answering' = (answering /\ ~(Interacting(x) /\ x \in {"turn", "hook"}))
    /\ pc' = [t \in Threads |-> IF x = "turn" \/ (t = x /\ x = "hook") THEN "dead"
                               ELSE IF t = x THEN "idle" ELSE pc[t]]
    /\ words' = [words EXCEPT ![x] = {}]
    /\ UNCHANGED <<readback, out, decided, talking, fresh, waiting, muddled>>

Turn == Hear \/ Dispatch \/ TakeOut \/ Settle
Interact(x) == NoCall(x) \/ Reply(x) \/ ForgetDecided(x)
Monitor == Goodbye \/ RadarCall \/ FollowHim \/ MonitorTakesOut \/ FollowEnds
Air(x) == TakeRadio(x) \/ Spoken(x) \/ Raises(x)
Pilots == PilotKeys \/ PilotUnkeys \/ VoiceAges \/ WindowCloses

Next ==
    \/ Pilots \/ Turn \/ HookFires \/ Monitor \/ EngineeringReads
    \/ \E x \in {"turn", "hook"} : Interact(x)
    \/ \E x \in Threads : Air(x)

\* A thread that can go on does, wherever it is; a model that is asked answers (or
\* times out); and a pilot lets go of his switch.
Fairness ==
    /\ WF_vars(PilotUnkeys) /\ WF_vars(VoiceAges) /\ WF_vars(WindowCloses)
    /\ WF_vars(Turn \/ Interact("turn") \/ Air("turn"))
    /\ WF_vars(Interact("hook") \/ Air("hook"))
    /\ WF_vars(MonitorTakesOut \/ FollowEnds \/ Air("monitor"))
    /\ WF_vars(Air("engineering"))

Spec == Init /\ [][Next]_vars /\ Fairness

---------------------------------------------------------------------------
\* The threads are at places they have, and the mailboxes hold tagged messages.
TypeOK ==
    /\ pc \in [Threads -> Places]
    /\ radio \in Threads \cup {Nobody}
    /\ answering \in BOOLEAN /\ readback \in BOOLEAN
    /\ out \in SUBSET Tags /\ decided \in SUBSET Tags
    /\ words \in [Threads -> SUBSET Tags]
    /\ talking \in BOOLEAN /\ fresh \in BOOLEAN
    /\ waiting \in 0 .. MaxCalls
    /\ left \in [Sources -> Nat]
    /\ muddled \in BOOLEAN

\* As long as no two threads had a mailbox at once, and no turn ended with one
\* full, nobody says another's words: a reply has its own turn's messages, a
\* hook has none, radar has what radar made.
OwnWords ==
    ~muddled => /\ words["turn"] \subseteq Own
                /\ words["hook"] = {}
                /\ words["monitor"] \subseteq {"monitor"}

\* While a turn's reply is composed, a decision that settle() has kept, and that the
\* bridge has words for, leaves the list only into the words of a reply, his own or
\* a hook's -- unless a hook had checked its words already, and empties a list that
\* has been filled since.  A "mute" one leaves it unsaid if the model left it out.
DecisionsAreVoiced ==
    [][ /\ "turn" \in decided /\ "turn" \notin decided'
        /\ Interacting("turn") /\ pc'["turn"] \notin {"idle", "dead"}
        /\ pc["hook"] # "verified"
        => \E x \in Threads : "turn" \in words'[x] ]_vars

\* Radar passes the gate.
PassesGate == pc["monitor"] = "idle" /\ pc'["monitor"] \in {"outbox", "reply", "ready"}

\* Radar starts nothing of its own between the moment the model is asked and the
\* moment the answer is over -- as long as no other reply cleared the flag.
AnswersAreWaitedFor ==
    [][ PassesGate /\ ~muddled => ~Interacting("turn") /\ ~Interacting("hook") ]_vars

\* A pilot's transmission is taken to a turn in the end, unless a transmission of
\* a turn raised and the process is gone.
CallsAreHeard == (waiting > 0) ~> (waiting = 0 \/ pc["turn"] = "dead")

\* When everybody has said what he had to say, the channel is free for radar: no
\* flag stays behind, whatever raised or said nothing.
GateReopens == <>[](ChannelIsFree \/ pc["turn"] = "dead")

=============================================================================
