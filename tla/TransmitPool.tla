---------------------------- MODULE TransmitPool ----------------------------
(***************************************************************************)
(* The pool of transmitting clients (radio/pool.py): a call locks every    *)
(* channel it goes out on, lowest first, then waits for a free client,     *)
(* speaks, gives the client back and unlocks its channels, highest first.  *)
(* One action is one step another thread can come between: a lock taken, a *)
(* semaphore taken, the free list popped or appended to under its guard.   *)
(*                                                                         *)
(* A station's channels are distinct (Station.freqs), so a call locks a    *)
(* set of them.                                                            *)
(***************************************************************************)
EXTENDS Naturals, FiniteSets, Sequences

CONSTANTS Talkers,      \* the threads that transmit
          Channels,     \* the frequencies, as numbers: the locks are sorted
          Clients,      \* the SRS clients
          Nobody,       \* a channel nobody has locked
          NoClient,     \* a thread that has no client
          Requests,     \* the sets of channels a call may go out on
          MaxCalls      \* a bound: the calls each thread makes

ASSUME TalkersAssumption == IsFiniteSet(Talkers)
ASSUME ChannelsAssumption == Channels \subseteq Nat /\ IsFiniteSet(Channels)
ASSUME RequestsAssumption == Requests \subseteq (SUBSET Channels) \ {{}}
ASSUME ClientsAssumption == IsFiniteSet(Clients) /\ Clients # {}
ASSUME NobodyAssumption == Nobody \notin Talkers
ASSUME NoClientAssumption == NoClient \notin Clients
ASSUME MaxCallsAssumption == MaxCalls \in Nat

VARIABLES
    pc,         \* where each thread is in transmit()
    wanted,     \* the channels of its call: freqs
    lock,       \* _chan: who holds each channel's lock
    permits,    \* _sem
    free,       \* _free
    client,     \* the client each thread has borrowed
    calls       \* how many calls it has made

vars == <<pc, wanted, lock, permits, free, client, calls>>

Steps == {"idle", "locking", "waiting", "picking", "speaking", "returning",
          "releasing", "unlocking"}

\* Every way of putting the clients in a list.
Orders == {s \in [1 .. Cardinality(Clients) -> Clients] :
              \A i, j \in DOMAIN s : i # j => s[i] # s[j]}

Init ==
    /\ pc = [t \in Talkers |-> "idle"]
    /\ wanted = [t \in Talkers |-> {}]
    /\ lock = [f \in Channels |-> Nobody]
    /\ permits = Cardinality(Clients)
    /\ free \in Orders
    /\ client = [t \in Talkers |-> NoClient]
    /\ calls = [t \in Talkers |-> 0]

Locked(t) == {f \in Channels : lock[f] = t}

Goes(t, from, to) == pc[t] = from /\ pc' = [pc EXCEPT ![t] = to]

\* transmit(frames, freqs)
Call(t, fs) ==
    /\ calls[t] < MaxCalls
    /\ Goes(t, "idle", "locking")
    /\ wanted' = [wanted EXCEPT ![t] = fs]
    /\ calls' = [calls EXCEPT ![t] = @ + 1]
    /\ UNCHANGED <<lock, permits, free, client>>

\* A bug: the locks are taken in the order the station lists its channels.
AnyNextToLock(t, f) == f \in wanted[t] \ Locked(t)

\* The locks are taken in sorted order, each waited for.
IsNextToLock(t, f) ==
    /\ f \in wanted[t] \ Locked(t)
    /\ \A g \in wanted[t] \ Locked(t) : f <= g

\* A bug: the channel a call came in on is the only one locked.
LockOneChannel(t) ==
    \E f \in Channels :
        /\ IsNextToLock(t, f)
        /\ lock[f] = Nobody
        /\ lock' = [lock EXCEPT ![f] = t]
        /\ Goes(t, "locking", "waiting")
        /\ UNCHANGED <<wanted, permits, free, client, calls>>

LockChannel(t) ==
    \E f \in Channels :
        /\ IsNextToLock(t, f)
        /\ lock[f] = Nobody
        /\ lock' = [lock EXCEPT ![f] = t]
        /\ Goes(t, "locking",
                IF wanted[t] \subseteq Locked(t) \cup {f} THEN "waiting" ELSE "locking")
        /\ UNCHANGED <<wanted, permits, free, client, calls>>

\* _sem.acquire(): waits until a client is free.
TakePermit(t) ==
    /\ permits > 0
    /\ permits' = permits - 1
    /\ Goes(t, "waiting", "picking")
    /\ UNCHANGED <<wanted, lock, free, client, calls>>

\* A bug: the client is used and left on the list.
PeekClient(t) ==
    /\ Goes(t, "picking", "speaking")
    /\ client' = [client EXCEPT ![t] = free[Len(free)]]
    /\ UNCHANGED <<wanted, lock, permits, free, calls>>

\* The last client of the free list.  An empty list would raise.
PickClient(t) ==
    /\ Goes(t, "picking", "speaking")
    /\ client' = [client EXCEPT ![t] = free[Len(free)]]
    /\ free' = SubSeq(free, 1, Len(free) - 1)
    /\ UNCHANGED <<wanted, lock, permits, calls>>

\* A bug: one channel is unlocked while the last frames go out.
StopUnlocksFirst(t) ==
    \/ /\ Goes(t, "speaking", "returning")
       /\ UNCHANGED <<wanted, lock, permits, free, client, calls>>
    \/ /\ pc[t] = "speaking"
       /\ \E f \in Locked(t) : lock' = [lock EXCEPT ![f] = Nobody]
       /\ UNCHANGED <<pc, wanted, permits, free, client, calls>>

\* A bug: a transmission that raises keeps its client and its permit.
StopLosesClient(t) ==
    \/ Goes(t, "speaking", "returning") /\ UNCHANGED <<wanted, lock, permits, free, client, calls>>
    \/ Goes(t, "speaking", "unlocking") /\ UNCHANGED <<wanted, lock, permits, free, client, calls>>

\* client.transmit is over: the last frame is out, or it raised.
StopSpeaking(t) ==
    /\ Goes(t, "speaking", "returning")
    /\ UNCHANGED <<wanted, lock, permits, free, client, calls>>

ReturnClient(t) ==
    /\ Goes(t, "returning", "releasing")
    /\ free' = Append(free, client[t])
    /\ client' = [client EXCEPT ![t] = NoClient]
    /\ UNCHANGED <<wanted, lock, permits, calls>>

ReleasePermit(t) ==
    /\ permits' = permits + 1
    /\ Goes(t, "releasing", "unlocking")
    /\ UNCHANGED <<wanted, lock, free, client, calls>>

UnlockChannel(t) ==
    \E f \in Locked(t) :
        /\ \A g \in Locked(t) : g <= f
        /\ lock' = [lock EXCEPT ![f] = Nobody]
        /\ Goes(t, "unlocking", IF Locked(t) = {f} THEN "idle" ELSE "unlocking")
        /\ wanted' = [wanted EXCEPT ![t] = IF Locked(t) = {f} THEN {} ELSE @]
        /\ UNCHANGED <<permits, free, client, calls>>

Work(t) ==
    \/ LockChannel(t) \/ TakePermit(t) \/ PickClient(t) \/ StopSpeaking(t)
    \/ ReturnClient(t) \/ ReleasePermit(t) \/ UnlockChannel(t)

Next == \E t \in Talkers : Work(t) \/ \E fs \in Requests : Call(t, fs)

\* A thread that can move does; Python's locks promise no order of service.
Fairness == \A t \in Talkers : WF_vars(Work(t))

Spec == Init /\ [][Next]_vars

FairSpec == Spec /\ Fairness

---------------------------------------------------------------------------
TypeOK ==
    /\ pc \in [Talkers -> Steps]
    /\ wanted \in [Talkers -> SUBSET Channels]
    /\ lock \in [Channels -> Talkers \cup {Nobody}]
    /\ permits \in 0 .. Cardinality(Clients)
    /\ free \in Seq(Clients)
    /\ client \in [Talkers -> Clients \cup {NoClient}]
    /\ calls \in [Talkers -> 0 .. MaxCalls]

Speaking(t) == pc[t] = "speaking"

\* One frequency, one voice: two threads that speak share no channel, even one
\* that only one of them reached by its second frequency.
OneVoicePerChannel ==
    \A s, t \in Talkers : s # t /\ Speaking(s) /\ Speaking(t) => wanted[s] \cap wanted[t] = {}

\* One client plays one stream: two threads never speak with the same client,
\* and a client somebody speaks with is not on the free list.
OneStreamPerClient ==
    \A t \in Talkers : Speaking(t) =>
        /\ client[t] \in Clients
        /\ \A s \in Talkers \ {t} : client[s] # client[t]
        /\ \A i \in DOMAIN free : free[i] # client[t]

\* The semaphore never says a client is free that the list does not have.
PermitsCovered ==
    Cardinality({t \in Talkers : pc[t] = "picking"}) + permits <= Len(free)

\* The pool as the air hears it.
Heard == [f \in Channels |->
            IF lock[f] # Nobody /\ Speaking(lock[f]) THEN lock[f] ELSE Nobody]

Carried == [t \in Talkers |-> IF Speaking(t) THEN client[t] ELSE NoClient]

AirView == INSTANCE Airwaves WITH
    Radios <- Clients, NoRadio <- NoClient, voice <- Heard, carrier <- Carried

\* Every step of the pool is, on the air, one transmission coming up on all its
\* channels at once, one going down, or nothing.
OnTheAir == AirView!Spec

\* Waiting, never dropping: a call that has been made is spoken.
AlwaysSpoken == \A t \in Talkers : pc[t] = "locking" ~> Speaking(t)

\* With nothing more to say everything is given back.
AllGivenBack ==
    <>[](/\ \A f \in Channels : lock[f] = Nobody
         /\ permits = Cardinality(Clients)
         /\ Len(free) = Cardinality(Clients))
=============================================================================
