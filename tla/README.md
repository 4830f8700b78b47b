# Verification of Marshall's air traffic control engine

Marshall is a voice ATC for a flight simulator: it listens to pilots on SRS
radio channels, decides what a controller would do, and speaks. What it must
not get wrong is separation: who is at which level, who is on the approach, and
that a decision reaches the pilot it was made for. This directory holds TLA+
models of the code that decides that, TLC runs over small instances, and proofs
checked by TLAPS for instances of any size. Paths below are relative to
`src/marshall/` in the repository unless they say otherwise.

## 1. The system

### Components, their state and their operations

| component | state | operations | what makes it correct | here |
|---|---|---|---|---|
| separation engine (`atc/controller.py`) | `aircraft` (phase, `assigned_ft`, approaches, `map_t`), `_letdown_by` keyed by aerodrome, `out` | one method per kind of call (`check_in`, `report_beacon`, `report_missed`, `report_landed`, `report_down`, `request_visual`, `request_approach`, `request_breakup`), radar's (`seen_on_final`, `note_vectored`), the sweep's (`release`), the clock's (`tick`), a restart's (`hydrate`) | one aircraft in a letdown; one aircraft per level; everybody has been told the level he is separated at; nobody waits beside a free approach | `Stack`, `Fields`, `Restart` |
| runway and ground ladder (`controller.py`, `atc/phases.py`) | `_runway_by`, `_seen_on_runway`, `sortie_phase`, `has_been_airborne`, `runway_vacated` | taxi, holding short, take-off, landing, vacated, radar's poll of the strip | one holder per runway; a held runway comes back; nobody is cleared onto an occupied strip | `Runway` |
| flights table (`atc/board.py`, `atc/flights.py`) | one row per aircraft | `bind`, `agree`, `working`, `forget`, `expire` | a restart does not lose a clearance | `Restart`, `Clearance` |
| clearances (`atc/clearance.py`, the turn in `agent_atc.py`) | the row, `bridge.cleared_plan`, `bridge.read_back_said`, the Controller's `clearance_agreed` | issue, amend, judge a read-back, agree, taxi | nobody taxies on what was not agreed; what is agreed is what was given; a pilot who does what he is told gets to taxi | `Clearance` |
| transmit pool (`radio/pool.py`) | a lock per channel, a semaphore, a free list | `transmit` | one voice per frequency, one stream per client, no deadlock | `TransmitPool`, `Airwaves` |
| voice process (`atc/agent_atc.py`) | `Bridge`, `answering`, `readback_until`, `radio_lock`, `Controller.out`, `bridge.decided`, hooks | the receive loop (a pilot's turn), `scheduler`, `asr_monitor`, `engineering_radio` | an unprompted call does not land on an answer; nobody says another's words; the channel is free again | `ChannelGate` |
| handoff (`atc/handoff.py`, the poll in `agent_atc.py`) | whom each pilot was last heard by, `handed_off`, the Controller's `_me` | the rung's owner, the airspace rule, the poll's offer, the turn that takes it | nobody in the air is sent to Ground; nobody is handed in circles | `Handoff` |
| identity (`atc/identity.py`, `identify.py`, `callsign.py`, `addressing.py`) | radio, callsign and track bound to each other; flights and their members | bind, release, resolve; form, join, leave, dissolve | one row per aeroplane; elimination gives nobody away twice | `Identity` |
| radar approach (`atc/asr.py`, `talkdown.py`, `descent.py`, the monitor in `agent_atc.py`) | per aircraft: last vector, last mile, ILS clearance, missed latch | guide, speak, hold a reversal, establish, go around | the instructions together bring him to the runway | `Radar` |
| simulator feed (`feed/tracks.py`, `events.py`, `dcs.py`) | the table of tracks, the world's clock | two streams, sweep, reset | an old answer does not undo a newer event for good; an old world is forgotten | `Feed` |
| ATIS (`atis/`) | the recording, the letter, the row controllers read | observe, rotate, record, publish, resume | the letter, the tape and the row say one thing | `Atis` |
| agent service (`services/`) | sessions, a lock per seat | a call of the model, hooks | one call per agent at a time | no (a call turned away is `NoCall` of `ChannelGate`) |
| progress, briefing, phrasebook | none of their own | text for the model and for the pilot | | no |
| procedures, approaches, filed plans | none that changes | lookups and parsing | | constants of `Fields` |
| theatre data (`core/`), kneeboard, mission builder, tools, generated gRPC | none that changes | | | no |

### How they interact

A pilot's turn runs on the receive loop. The radio's name is resolved to an
aeroplane (`Identity`), the utterance is turned into an intent, the flight's
plan gives the aircraft its approach (`separation_context`, in `Fields`),
`phase_now` derives its rung (`Runway`, `Handoff`), `dispatch` calls one method
of the Controller (`Stack`, `Runway`), the read-back is judged (`Clearance`),
the messages the Controller queued and the model's answer are spoken
(`ChannelGate`) through the transmit pool (`TransmitPool`), and at the end the
row of *the speaker* is written to the flights table (`Restart`). The radar
thread reads the scope (`Feed`), vectors aircraft (`Radar`), offers the next
seat (`Handoff`) and reports aircraft down; the scheduler fires hooks and sweeps
aircraft nobody has heard from; the engineering radio answers on its own
channel; each ATIS station plays on its own (`Atis`) and the controllers read
its row. All share one Controller without a lock; they meet on the air at
`radio_lock` and the pool.

### What is hard in it

* **Long sequences of legal calls.** The level an aircraft is given depends on
  the phases and levels of all the others; every call that frees the letdown
  must look for the next aircraft and close up the stack.
* **One Controller, many aerodromes.** The letdown is looked up under a key
  computed from an aircraft's *present* procedure, which changes, or is absent.
* **Threads.** A call may go out on two channels while another thread has one
  of them; a check made before a wait is used after it; two threads empty one
  outbox; three writers share one table of tracks.
* **Copies.** A clearance is kept in four places and written in one turn's
  order; a letter stands for words that are kept elsewhere.
* **Restarts and lost requests.** The process that holds the board is restarted
  in flight, and is rebuilt from rows that only some calls write. A request to
  the board may be lost, or only its answer.
* **Silence.** A pilot may never speak again while he holds the letdown, a
  level, or the runway. The clock's safety nets are in `tick`, and nothing in
  the voice process calls it (`docs/AUDIT-2026-07-29.md`, lines 181-191).
* **Sequences of right answers.** Radar's guidance is a function of where the
  aircraft is now; whether it leads anywhere is a question about all of them.

`PROJECT.json` lists every hazard with its line and the properties that guard it.

## 2. The modules

| module | models | notes |
|---|---|---|
| `StackLevels` | the pure part of the engine: `_holders`, `_spoken_for`, `_free_slot`, `_next_up`, `_step_down` | operators over a set of aircraft, their phases and levels; no variables |
| `Stack` | every Controller call at one aerodrome, with the `_try_clear` and `_step_down` it ends in, and `tick` | extends `StackLevels` |
| `Fields` | the same calls with several aerodromes: `_key`, `_same_stack`, `_try_clear` over every key, procedures from plans and from requests | extends `StackLevels`; the look at every stack (`EveryStack`) is a recursive function on the sets of keys |
| `Restart` | the flights table, the write at the end of a turn, `hydrate` | extends `Stack` |
| `Runway` | the runway of one aerodrome: `_take_runway`, `_free_runway`, `who_is_on_the_runway`, `_done_with_it`, every call that uses them, the rung `phase_now` derives before a call, the poll of the strip, and the aircraft | on its own, not composed with `Stack` |
| `TransmitPool` | the threads inside `TransmitPool.transmit` | one action per lock, semaphore or list operation |
| `Airwaves` | what the pool promises: a transmission comes up on all its channels at once, alone on each, with a radio of its own | abstract specification of `TransmitPool` |
| `ChannelGate` | the receive loop, the scheduler, the radar monitor and the engineering radio around the flag, the read-back window, `radio_lock` and the two mailboxes | one action per stretch of code between two waits |
| `Handoff` | `handoff.py`, the rung `phase_now` wants, and the monitor's offers, for one aircraft and one Controller | |
| `Identity` | the registry of radios, the roster of flights, and the rows they make on the board | |
| `Clearance` | one flight's clearance in its four copies, a turn step by step | |
| `Feed` | the table of tracks under two streams and a sweep, and the reset of the world | |
| `Radar` | `asr.guide` in integers, what the monitor says of it, the missed approach and the aircraft | |
| `Atis` | one aerodrome's broadcast loop, its row, and a pilot who has copied it | |
| `MC*` | the constants, symmetries and constraints of the TLC runs | |
| `*Proofs` | the theorems: `StackProofs`, `RunwayProofs`, `EdgeProofs`, `GateProofs`, `HandoffProofs`, `FieldsProofs`, `PilotProofs`, `AtisProofs` | `StackProofs` is about `StackLevels`, `Stack` and `Restart`; `PilotProofs` about `Identity` and `Clearance`, `EdgeProofs` about `TransmitPool` and `Feed`: two modules each that share nothing |

### State and actions against the code

**Stack.** `phase`, `level`, `tries` are `Aircraft.phase`, `assigned_ft`
and `approaches`. A level is its index in the procedure's stack: 1 is
`bottom_ft`, `N` is `top_ft`, 0 is `missed_ft` below the stack, -1 is `None`.
`letdown` is `_letdown_by` of the one aerodrome, `timed` the aircraft whose
`map_t` is set. Two variables are not in the code: `told` are the aircraft
whose assigned level is the last one they were told, `doubled` says that an
assignment that looked at nobody (the missed approach, the outer hold, a
visual's fallback, a radar vector) has landed on a level in use. An aircraft
the Controller has never heard of is the same state as one it knows as UNKNOWN
with nothing assigned, because every call creates the aircraft it names.

An action is a whole call: `EnterStack` is `report_beacon` for an arrival,
including the search for a slot, the sentence that tells him, the look at the
letdown and, if somebody leaves the stack by it, the step down of everybody
else. `TryClear` takes the state the call has built so far and yields the state
the call returns with. What the code resolves by dictionary order or callsign
is left open. `RequestApproach` has the change of approach: an aircraft that is
CLEARED and names another one at this aerodrome gives up the letdown and is an
arrival again at the level it has, before anything else is asked; `ChangeRefused`
is the return that then follows when radar does not have it.

**Fields.** `known` are the keys of `Controller.aircraft`; `proc` the aerodrome
of each aircraft's procedure; `letdown` all of `_letdown_by`, `NoField` being
the key `""` of an aircraft without a procedure. A call first applies what the
turn applies before it (`PlanGives`: the plan's approach) and what the pilot
named; naming another approach of the same aerodrome is a change as well, and
either may be refused after the letdown was given up. `strayed` records that
somebody has been worked without a procedure or has changed his aerodrome.

**Restart.** `row` holds the columns `cleared`, `assigned_ft` and
`approaches_flown`. `Turn(c)` is a pilot's turn, including one that changes
nothing, followed by the write of his row; `OffTurn` are the calls radar and
other aerodromes make, which write nothing; `Swept` deletes the row;
`BridgeRestarts` rebuilds the board. A write may fail (`MaxLost` times). What is
written as the phase is the engine's, or what radar's geometry calls him
(`SeenAs`: on the final or on the map leg `approach`, on the missed approach
`missed`), which overwrites it. `kept` are the aircraft nothing has happened to
since their row was written, `overruled` those of them in whose row radar's word
is not the engine's. Both are history.

**Runway.** `known` are the aircraft on the board, `board` what it has on
record of each: `sortie_phase` (rungs the runway treats alike are one), `down`
for `phase is LANDED`, `flown` for `has_been_airborne`, `vacated` for
`runway_vacated`. `holder` is `_runway_by` of the aerodrome, `looking` and
`seen` its entry of `_seen_on_runway`, which may be missing. `at` is where the
aircraft really are, as the simulator has them. A call is a turn: `Heard(a)` is
what `phase_now` makes of the speaker (radar may have him or not, and the seat
he talks to may work traffic in the air), then the method runs. `LookedFor` is
`who_is_on_the_runway` with all it changes: whom it adopts as holder, whose hold
it drops, whom it marks as gone. Aircraft move as they please, except that
nobody lines up without a take-off clearance.

Two variables are not in the code. `using` are the aircraft that have been
cleared onto the runway and are not done with it; `void` those of them the
engine has stopped protecting, because it has marked them as gone (a poll that
saw nobody, the hold's timeout) or because the latches of an earlier sortie made
the hold void at birth. They say what the properties are about.

**TransmitPool.** `pc` is the thread's place in `transmit`, `lock` the
per-channel locks, `permits` the semaphore, `free` the list, `client` what each
thread has popped. A list operation under `_pick` is one step, because no other
thread can see the list in between. `Heard` and `Carried` map this state to
the variables of `Airwaves`.

**ChannelGate.** `pc[x]` is a thread's place between two waits, `radio` who has
`radio_lock`. `answering`, `readback`, `out` and `decided` are the flag, the
window, the Controller's outbox and `bridge.decided`. A message is only known by
the turn it was made in (`"stale"` any earlier one, `"monitor"` radar's), and
one of the turn on hand by whether the bridge says it when the model does not
(`"turn"`) or leaves it (`"mute"`: a decision without a rendering, a vector when
radar has just spoken one); `words[x]` are those in what a thread is about to
say. `talking` and `fresh` are the pilot on the channel and
`somebody_is_talking`, which ages out when nobody reads the socket; `waiting`
are transmissions nobody has read. `muddled` is history: two threads have had a
mailbox at once, or a turn left one full. One channel is modelled; channels
apart are `TransmitPool`'s business.

**Handoff.** `rung`, `sep`, `airborne`, `flown`, `grounded` are what the
Controller and the monitor know of him, `place`, `inbound`, `volume` where he
is, `me` the Controller's one `_me`, `at` the seat he was last heard on, `given`
and `giver` the two entries of `handed_off`. `Turn(seat, seen)` is a call of his
to any seat, `OtherTurn` anybody else's (which moves `me`), `Poll` the monitor's
look. `offers` is history: the seats he was offered since he moved or anybody
spoke out of turn. A fix is always there, and the poll's branch for blind
aircraft is left out.

**Identity.** `bound` is the registry, `lead` and `members` the roster, `board`
the track each row is bound to. A pilot stands for his radio and his aeroplane;
`Alias` is what the radio calls itself. `Speak(p, claims)` is a whole turn:
resolve the radio, find the flight he speaks for, form, join, leave or dissolve,
and what that does to the rows (`BecomeTracked`).

**Clearance.** `row` is the board's, `engine` the Controller's `clearance_agreed`
and rung, `cache` `bridge.cleared_plan`, `said` `bridge.read_back_said`. A turn
is `Hear` (the cache is consulted, the read-back judged, the agreement posted),
`File` (the plan is bound and the cache filled from the row as it was), and
`Reply`, in which the model may `Issue` a clearance. Each request may fail, an
issue may fail half way, and `Restart` may come between any two. `given` is
history: the last clearance read to him and what he has said since.

**Feed.** `sim` is the simulator, `tracks` the table, `board` the world each row
of the board was made in. Each stream is a queue; a stream that breaks loses
what is in it. The sweep is `Ask`, `Wipe`, `Note`, `Reap`: one question, three
transactions, with everything else between them. `was` is the clock it last saw.
Every write may fail (`ApplyUnitFails`, `ApplyEventFails`, `WipeFails`,
`SweepFails`); `lost` is history and holds the two failures nothing makes good: a
wipe that failed after its clock was noted, and the thread of the stream of units,
which a failed write ends.

**Radar.** Lengths are thousandths of a mile in a frame along the course, with
the touchdown point as origin; angles are whole degrees and trigonometry is
tables. `Guidance` is `asr.guide` for a talk-down or an ILS, `Look` one look of
the monitor (`vectored`, `wait`, `pending`, `called`, `cleared`, `latch` are its
dictionaries), `Fly` what the aeroplane does in a poll. Compared with the code on
20,000 random positions the phase is the same in all, and heading or altitude
differ in 5, by the rounding at a boundary.

**Atis.** Weather is the wind. `tape` is `on_air`, `seen` the poll's last
observation, `row` the table. `Observe` is a poll with the decision, the
recording and the publication, which may fail; `ReadFails`, `StandBy`,
`GoesDown` and `ComesUp` are what else a poll or the process does. `said` is what
a pilot took down and told a controller, `failed` says that the last recording
was not rendered or not published; both are history.

## 3. The runs

All twelve pass. The states are those TLC reports.

| run | what it shows |
|---|---|
| `stack` | Three aircraft, three levels, every order of calls. Nothing but a clearance's end demotes the one in the letdown; checked assignments never share a level; a holder has been told his level; the letdown is handed on only when its holder is off the approach, is seen off it, or timed out without a level; no call but `release`, or a change of approach that is refused, leaves it idle beside a waiting aircraft; a missed aircraft goes first; a step down never swaps, merges or lifts holders. |
| `fields` | Two aerodromes, three aircraft: while everybody keeps the aerodrome he came with, each letdown names an aircraft cleared for *that* approach (so nobody has two), and a call about one aerodrome changes nothing at another whose approach is occupied. |
| `restart` | Two aircraft, restarts at any time, one lost write: an aircraft nothing has happened to since its own last turn is restored as it was, but for the phase where radar's geometry overruled it in the row; the letdown is not lost unless it was overruled. |
| `runway` | Two aircraft, every order of calls, polls, failed polls and movements. An aircraft whose clearance the engine protects is found by a look at the board even after somebody else's go-around or report of being clear has deleted its hold; with radar silent nobody but the holder is cleared beside a protected clearance; with radar looking nobody is cleared onto a strip that another aircraft of the board is seen on. |
| `pool` | Three threads, two clients, overlapping two-channel calls: mutual exclusion on every channel, one stream per client, every call is spoken, everything is given back, and the whole implements `Airwaves`. |
| `gate` | Two pilots' transmissions, a hook or a line of engineering's, a call of radar's and one transmission that raises. Outside the overlap of two replies, a reply has its own turn's messages, a hook none, and radar those it made; a decision the bridge has words for leaves the list only into a reply; radar starts nothing between the question to the model and the end of the answer; a transmission is read in the end; the channel is free for radar in the end. |
| `handoff` | One aircraft from ramp to Center and back, any calls of his and of others, any polls: nobody in the air is offered a seat of the ground, whatever his rung says, and a seat once offered is not offered again after another until he moves. |
| `identity` | Three pilots, two with radios that bear nobody's name, who appear, vanish, speak and form or dissolve a flight in every order: no aeroplane has two rows, and elimination never gives away what another radio has, be that a guest's as well: two radios share an aeroplane only if one of them is its own pilot's under his own name. |
| `clearance` | One flight, two clearances, one request that fails or is half done, one restart: nobody taxies on a clearance the board does not have as agreed, the cache is never more than a turn old, what is agreed to is what was given, and a pilot who reads back and asks is cleared to taxi in the end. |
| `feed` | One name of a unit in two worlds, a broken stream, and one failure of the simulator's answer or of any write: the scope settles on the truth, whoever lives and moves is seen unless the thread of the stream died, and rows of an old world are forgotten unless the wipe itself failed. |
| `radar` | A talk-down and an ILS from five places around the area, one call held for a busy channel, one missed approach told or untold: he lands in the end, the miles count down, and after a miss he is cleared for the ILS again. |
| `atis` | Two changes of the weather or of who flies, one failure, one restart, three letters: letter, tape and row say one thing; "information C is current" means the runway he copied is the one in use; the broadcast catches up with the weather. |

Types are no property of a run. Where a module has a proof its type invariant is
proved (in `Restart` and `Feed` too); in `Fields` it is written down as
documentation, and `Radar` has none.

### Bounds, and why they are enough

* **Three aircraft, three levels (`stack`, 151,339 states).** One in the letdown
  and two in the stack above him are what it takes for a step down to move two
  levels at once and for a cleared aircraft to be between them; a missed
  aircraft, a holder and the one on the approach are the three roles of the
  queue. `MaxApproaches` is the code's own 2; the counter saturates there
  because the code only compares. `VectorLevels = {2}`: one level inside the
  stack a vector may double. `MaxMisses` is 2: two aircraft on the missed
  approach beside a third, or one that has been sent to the top of the stack.
  The constraint `NobodyDoubled` cuts behaviours at the first doubled level: the
  two properties about levels say nothing past it. All properties of the run are
  proved without either constraint.
* **Two levels (`fields`, 36,344 states).** The two flights filed to one
  aerodrome are interchangeable. The run is about keys, not about the order of
  the stack. The constraint `NobodyStrayed` cuts where every property of the run
  becomes vacuous.
* **Two aircraft (`restart`, 180,761 states)** are enough for one's call to move the
  other; one level of the stack (beside the one below it) and one that a vector may
  assign are enough, since the run is about rows and not about the order of levels;
  one write fails anywhere. The VIEW leaves out `told`, `timed` and `doubled`, on
  which nothing else in that run depends.
* **Two aircraft (`runway`)**: the one that is protected and the one that asks,
  or that deletes its hold. Nothing is counted, so the run is complete for two;
  the theorems hold for any number.
* **Two calls per thread (`pool`).** `MaxCalls` matters to liveness: Python's
  locks promise no order of service, so with endless calls a thread may be
  passed over for ever. What is checked is that nobody waits for ever when the
  others have finitely much to say, which is where a deadlock would show.
* **`gate`** (706,730 states): `MaxCalls` 2 (a second transmission while the
  first is answered), one call of radar's, one of a hook's or engineering's, one
  raise: every pair of threads meets, and three of them at the lock.
* **`handoff`** (443,584 states) counts nothing: one aircraft, the aerodrome
  whose Tower is Clearance as well, one seat others call. The theorem holds for
  every aerodrome of the assumed kind.
* **`identity`** (96,000 states): three pilots, because elimination needs a last
  one and two who may have been taken for him; one flight.
* **`clearance`** (155,952 states): two levels and `MaxIssues` 2 for an amendment,
  one fault anywhere, one restart, one stray taxi request.
* **`feed`** (266,583 states): one name suffices, because no row depends on
  another; two worlds in which the name may be used again; `MinAge` is how long
  a world is looked at before it goes, without which the clock cannot tell the
  worlds apart (3 is the least `AgeAssumption` allows where one sweep may fail);
  queues of one report, one drop, one failure anywhere.
* **`radar`** (74,204 states): five starts, one in each situation `guide` tells
  apart (straight in, from the side, abeam, past the field, inside the
  intercept); the values of Batumi's plate; nobody is followed off the 40-mile
  scope.
* **`atis`** (681,948 states): three letters so that they go round once, `Hour` 2
  polls so that both the weather and the clock make news, four winds of which one
  turns the runway and two that differ by one are the same weather.

### Fairness

Safety needs none, and the Controller's specifications are safety only: nothing
obliges a pilot to report, and the clock that would is not running in
production. Where liveness is checked:

* `TransmitPool`: each thread's next step (a thread that can run is run, a
  transmission ends when its frames are out). Calls are not fair.
* `ChannelGate`: the same for each thread; a pilot who keys unkeys in the end,
  his voice and the read-back window age. Nobody has to key, hooks and radar have
  nothing they must say.
* `Clearance`: a turn that was heard runs to its end; strong fairness of the
  pilot reading back what he was given and asking Ground for taxi, since it is a
  property about a pilot who keeps trying.
* `Feed`: a stream reconnects and its queue is applied, the sweep runs every
  tick, and its transactions go on; strong fairness of aircraft moving. Births,
  resets and failures are bounded, not fair.
* `Radar`: the monitor polls and an aeroplane does not stop: weak fairness of
  `Next`, whose pauses (a busy channel, a miss) are bounded.
* `Atis`: the loop polls, time passes, and a bridge that is down comes up.

`CHECK_DEADLOCK` is switched off where everything may stop: `pool` and `gate`
when every call is made, `radar` when he is down.

## 4. What is proved

The theorems hold for every set of aircraft (finite or not where the proof does
not count), every `N`, every bound, under the assumptions the modules name. In
every proof module `IInv` is the inductive invariant, each action is a lemma or a
step, and the last step is `PTL`.

* **`StackProofs`.** `IInv` is `TypeOK`, `LetdownHolderCleared`,
  `ToldWhatIsHeld` and `HoldersAtALevel` (a HOLDING aircraft has a level). The
  last is the strengthening: without it `_next_up` could return an aircraft that
  the step down then ignores. The work is in `TryClearKeeps`: whatever state a
  call hands to `_try_clear`, if that state is good except for the letdown, the
  outcome is good. Each call is then one lemma. `NeverIdle`, `HandedOn` and
  `MissedFirst` follow from the same invariant and one description of what a
  call hands to `_try_clear` (`SequencingMakes`). `LevelsAreDistinct` and
  `StepDownOrder` are about what the step down does to a whole stack. When the
  lowest holder leaves, the levels held are among the levels nobody else speaks
  for, so everyone's target is at or below his level (`TargetIsNotAbove`) and
  nothing is carried upwards (`NothingCarried`); counting the holders below
  makes the targets strictly increasing (`TargetsKeepOrder`), so the stack
  closes up without two aircraft meeting (`StackClosesUp`). A second missed
  approach may double the top level only, which is enough for the same argument
  (`NearlyApart`). Restarts (`RestartInvariant`) break most of `IInv`: two rows
  may give one level, and nobody has been told anything. What survives any call
  from any board is `Board`, the types and `LetdownHolderCleared` (`NextBoard`);
  the rest of the invariant is `Remember`, that the row of an aircraft in `kept`
  says of it what the engine does, the phase only if it was not overruled
  (`Agrees`). A turn establishes that for its speaker unless its write fails
  (`TurnRemembers`), every other step keeps it for whom it does not move
  (`UnmovedRemembered`), and a restart makes it true of everybody it restores.
  `SpeakerIsRestored` is then read off what comes back (`WhatComesBack`): the
  owner of the letdown was CLEARED, so his row is unless radar overruled it, so
  the letdown is not left empty. `NeverIdle` excepts the release and the refused
  change of approach by name.
* **`FieldsProofs`.** `LetdownBelongs` and `FieldsStayApart`. A look at one stack
  clears somebody of that stack only, and only if its letdown is free
  (`ClearAtKeeps`); by induction on how many keys have been looked at, so does a
  look at every stack, in any order (`EveryStackKeeps`). That the recursion of
  `EveryStack` defines anything is itself proved (`EveryStackIs`): this is where
  the aerodromes must be finitely many. What a call does before that look, it
  does to its caller and the letdown of his procedure (`OnlyHisOwn`), so each
  call is `Orderly`, and an orderly call on a board where nobody has strayed
  leaves every other aerodrome with somebody on the approach as it was. Both
  theorems say nothing once somebody has strayed, because then neither is true:
  an aircraft that changes its procedure leaves its letdown behind.
* **`RunwayProofs`.** `IInv` is `TypeOK`, `StillFound` and `NotYetAirborne`: a
  protected clearance of an aircraft that is not down is one for take-off, and
  it has not left the ground with it. That is what keeps a turn's derivation
  (`DerivedKeeps`) from latching an aircraft at the holding point as flown,
  which would make it done with the runway. A step about one aircraft leaves
  the protected clearances of the others alone (`OneAtATime`, `OverKeeps`); a
  look that finds nobody with radar silent has found everybody else done
  (`LookedForGives`), which with `StillFound` is `RunwayClearedAlone`.
* **`EdgeProofs`, `TransmitPool`.** The invariant says of each place in `transmit`
  which locks, which client and which permit a thread there has, that the free
  list and the borrowed clients are disjoint and that permits plus threads that
  have one count the list. From it follow `OneVoice`, `OneStream`,
  `PermitsAreClients`, and `PoolKeepsThePromise`: `Spec => AirView!Spec`, step
  by step.
* **`EdgeProofs`, `Feed`.** The safety half of `OldWorldForgotten`.
  `OldWorldIsBehind`: while the board has a row of a world that is gone, the
  clock seen last is ahead of the simulator's. `AnswerForgetsTheOld`: a sweep
  answered by the loaded world leaves no row of another. The invariant
  (`Unnoticed`) is a distance: however many of the sweeps that are left to fail
  do, the next answer finds the clock behind; or the answer in hand is from the
  old world, and the distance is kept to it as well. Both theorems except a wipe
  that failed (`lost`), after which the clock is no evidence any more. It rests
  on `AgeAssumption`, `MinAge > MaxFails + 1`: the old world has been seen at an
  age which the new one does not reach before a sweep gets through. With one
  less TLC finds the distance lost, and the end of the world with it
  (`_world_changed`, `tracks.py:519`). `InAirIsNotForgotten` says of all four
  writers of a row that none goes back to not knowing.
* **`GateProofs`.** `OwnWords`, `AnswersAreWaitedFor` and `DecisionsAreVoiced`,
  for any number of calls, hooks and failures. As long as nothing is muddled the
  invariant names each mailbox's one owner (`OutIsOwned`, `DecidedIsOwned`), lets a
  hook compose only while no turn does (`OneComposes`), and has the flag up
  whenever somebody composes (`FlagIsUp`); a reply that was checked says what is on
  the list and has words, muddled or not (`CheckedSaysAll`). What is `"mute"` it may
  leave unsaid, which section 5 tells.
* **`HandoffProofs`.** `NeverGroundsAloft`: what the poll may offer an aircraft
  that is up is a seat of the air, from `GroundAssumption` (no seat of the ground
  works the runway or the radar as well, as on every plate of the configuration)
  by cases over the rules of the table. `NoCircle` rests on `AnswersAssumption`,
  that one seat claims each role: with two seats answering for Tower, three
  could send an aircraft round, and `a_fresh_offer` remembers one seat back. Under
  it, coming in, every way ends at Tower; going out, the seats of the air send
  him to Tower, to Center where it ends, or to whom Tower sends him, so only two
  seats ever send him to one another. The invariant (`CircleInv`) follows the
  offers of one stay: each was made by a seat that sends him on (`LastOffer`), and
  the one seat he could be sent back to is the one that made the last offer
  (`NoWayBack`), which the poll does not repeat. `Parked` starts the chain empty.
* **`PilotProofs`, `Identity`.** `OneRowEach` and `EliminatedOnce`, for any
  pilots, names and flights. `OneRowEach` is nearly inductive, because a row is
  only bound by `BecomeTracked`, which refuses a track another row already has.
  `EliminatedOnce` is inductive (`StepEliminated`), because `Resolve` gives a
  radio only its namesake (the one aeroplane that may be somebody's already),
  one that nobody is bound to, or the one it had.
* **`PilotProofs`, `Clearance`.** `TaxiIsAgreed`, `CacheIsOneTurnOld` and
  `AgreedToWhatWasGiven`. The invariant relates the four copies: the engine's
  agreement to the row's, the cache to the row as the turn found it, and what was
  spoken to what was given while there has been one clearance.
* **`AtisProofs`.** `OneSourceOfTruth` and `CurrentIsCurrent`. The invariant says
  that a tape has a letter, that an unfailed tape is the row, and that a pilot's
  copy is the tape so many letters ago; the letters go round after `LetterCount`,
  which is why a copy that old is excepted.

**Only model-checked:**

* all liveness (`AlwaysSpoken`, `AllGivenBack`, `CallsAreHeard`, `GateReopens`,
  `EventuallyTaxis`, `ScopeSettles`, `AliveIsSeen`, `OldWorldForgotten`,
  `EventuallyDown`, `CatchesUp`), which is out of the prover's reach;
* `Radar`'s `MilesCountDown` and `ClearedAgain`: they are about flown paths over a
  given plate, and a proof would have to follow the table of sines step by step.
  `ClearedAgain` is moreover a fact about this plate, not about every one: with
  `MAP = 3000` and `MissedClimb = 20` TLC finds a missed approach that nobody
  reports, begun so far out that he has turned away before the radar could see
  it for what it is: he is vectored again and the clearance stays.

Every other property of the runs is a theorem.

## 5. Seen while modelling

Where the code and what is written about it part ways. They were found by
stating the promise and looking at the behaviour that breaks it; the runs above
state what holds.

* **Separation.** Two aircraft that miss twice are both sent to `top_ft` and hold
  there together (`controller.py:2384`; 1744-1773 calls a shared level no margin).
  When the next aircraft is cleared, the holder above him is told to descend to
  a level below him, through his (4024; `tests/test_controller.py:143-150` says
  not). An aircraft without a procedure makes the engine clear a second aircraft
  into an occupied letdown (3922). An aircraft that names another approach while it
  is cleared gives up the letdown (3781-3784) before it is asked whether radar has
  it; if not, the call returns (3785-3793), and the letdown stands free with the
  stack waiting beside it. The change does not clear `map_t` either, so an old
  missed-approach clock runs on. If the other approach is another aerodrome's, the
  letdown of the old one is never given back (3782).
* **Restart.** A level or a clearance that somebody else's call gave is not in the
  row and is lost by a restart (`agent_atc.py:8475`; `controller.py:823-827` says a
  restart is invisible). What radar's geometry calls the speaker overwrites the
  engine's phase in his row (`agent_atc.py:8458-8461`): one who has the letdown and
  is seen in the geometry of a missed approach at the end of his turn is restored
  MISSED, with the letdown empty.
* **Runway.** A poll that finds the strip empty takes the runway from the
  aircraft just cleared for it, and the next to ask is cleared too
  (`controller.py:3475`; 3531-3533). An aircraft that had reported landing and
  goes around is adopted as the runway's holder while it climbs away (2437). One
  told to continue its approach is welcomed as landed at its next report, still
  in the air (2528).
* **Who has the approach.** `owns_the_approach` is asked without an aircraft
  (1834, `agent_atc.py:6828`), so it looks under a key nobody has.
* **Clearance.** Amended between issue and read-back, the read-back of the first
  clearance is recorded as agreement to the amendment, because the cache is
  filled before the tool writes (`agent_atc.py:2800`, `clearance.py:211-212`).
  A level whose write failed leaves the code alone to be agreed. What was spoken
  accumulates across an amendment. A restart puts the row's level back over an
  amended one. A taxi request to a seat that is not Ground's leaves the rung at
  taxi.
* **Handoff.** A comment (`agent_atc.py:4296-4312`) says that a man under the
  controller's own vectors is not offered the next seat. The guard (4313) is
  given `assigned_hdg` of the Controller's `Aircraft` (4100), which has no such
  field (it is a column of the board, `board.py:68`): at the poll it is never
  true, and `Handoff` has no such guard. `handed_off` is not cleared by a call
  to another seat, so an offer that is due again may be held back
  (`agent_atc.py:3932`, 7667; `handoff.py:156-159`). An aircraft on a rung of
  the ground between Approach and Tower is sent from one to the other by its own
  calls.
* **Identity.** `registry.forget` is never called; anybody may dissolve a flight;
  a flight's row takes the track of whichever member spoke last.
* **Voice process.** A transmission that raises on the receive loop ends the
  process, on the scheduler ends every hook. `decided` is shared by a turn and a
  hook, and a hook that has checked its words empties a list filled since. Not every
  decision the model leaves out is said after it: a vector is not when the monitor
  has spoken one of late (`agent_atc.py:7104-7106`), and one that renders to nothing
  is skipped (7107-7109), "continue approach, traffic on the runway"
  (`controller.py:2581`) among them; the list is emptied all the same (7114). A turn
  that ends without a reply (who are you, "(no call)") leaves its decisions to be
  found missing from the next pilot's reply, and said in it. The monitor drains an
  outbox a turn is filling (7568). `answering` is one flag: of two overlapping
  `interact()` calls the first to end takes it down for both (6957-6961). The gate
  is asked before the wait for `radio_lock`, and not again (6900): a call of radar's
  may come on the air after a pilot's turn has begun. `follow_him` passes no gate.
* **Pool.** A station that listed one channel twice would wait for itself
  (`pool.py:107`).
* **Feed.** A sweep may take away a unit born after it asked
  (`tracks.py:371-374`) until it moves. A `clear_all` that fails is not tried again:
  `_world_changed` has noted the new clock before it (519, 577), so the rows of the
  old world stay. One table that cannot be cleared was to leave the rest of the
  reset alone (341-348), but the pool's connections do not commit each statement
  (`core/db.py:133`), so the `rollback()` takes back the tables cleared before it. A
  database error in `_upsert` is not the `grpc.RpcError` the stream's thread catches
  (438-446): the thread ends, and units are only seen again after a restart of the
  director. A world that is loaded anew before the old one
  has been looked at at a greater age is not noticed by the clock (519).
* **Radar.** From the far side, one is given the missed approach's heading at
  first contact (`asr.py:744-748`). A reversal that went away leaves `pending`
  behind. After a miss flown while somebody else had the approach, the note that
  the ILS was cleared is not withdrawn. Of 768 simulated ILS arrivals 38 were
  established without ever having been cleared, because the clearance rides on a
  new vector. After a restart the count of misses is empty, so an aircraft
  restored with one is held to be on the missed approach (2485).
* **ATIS.** A recording that cannot be rendered publishes the new runway under
  the old letter and resets its age (`serve.py:272-281`). A failed publication
  leaves tape and row apart until the next letter, and a restart then goes back
  to the row's. Weather is compared with the last poll (`broadcast.py:138`), so
  drift is news only on the hour, and every restart starts the hour anew
  (`broadcast.py:127-132` and `serve.py:150-165` say otherwise). While nobody
  flies the controllers read a stale row.

## 6. What is not modelled, and the plan

Left out for good: speech recognition and synthesis, the wording of messages,
the language model's answers, real-number geometry beyond `Radar`'s integers,
plates, mission files, the kneeboard, developer tools, generated code. That is
most of the lines of the repository (the mission builder, the kneeboard and the
tools are a third of it): file generation and display, which keep no state that
an operation could leave wrong. Within `agent_atc.py` the lines left out are
prompts, phrases, and their parsing. Pilots' obedience is assumed only in
`Radar`, and their persistence only in `EventuallyTaxis`.

Simplified within what is modelled:

* `Stack` and `Runway` each have their own side of landings and missed
  approaches and are not composed; the restart of the runway's state (the holder
  is not kept, the facts it is adopted from are) is left out; the hold's timeout
  is modelled although nothing in production calls `tick`. In `ClearedAlone` the
  aircraft that has the recorded hold is excepted, because it is: its own hold
  is never looked behind. Formations beyond the entity that breaks up are left
  out, and the refusals of a turn before it reaches the engine (which change
  nothing, as every specification allows).
* `Handoff`: one aerodrome and a fieldless Center. `Clearance`: one flight; a
  board that does not answer the first read of a turn does not answer the second.
  `Feed`: one sweep per tick. `Radar`: one aircraft; minimum altitudes are the
  platform's; speed control left out; altitude by at most 100 ft a poll; a pilot
  who obeys, and flies the localizer only when cleared. `Atis`: one aerodrome;
  the seat and phase that gate the answer are left out.

Next:

1. `Runway` composed with `Stack` for the calls both have a side of, and the
   restart of the runway's state.
2. The lock per seat of the agent service, beside `ChannelGate`: what is in
   flight when the world is reset, and a call that is turned away.
3. Progress along a route (`follow_him`) beside the vectors of `Radar`, and two
   aircraft under one radar.
4. The types and the levels of `Fields`: they need the lemmas of `StackProofs`
   about `StackLevels`, which would have to stand in a module both extend.
