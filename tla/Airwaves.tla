------------------------------ MODULE Airwaves ------------------------------
(***************************************************************************)
(* What the transmit pool promises the air (radio/pool.py): a transmission *)
(* comes up on all its channels at once, on each of them it is the only    *)
(* voice, it has a radio nobody else is speaking with, and it goes down    *)
(* everywhere at once.                                                     *)
(***************************************************************************)
CONSTANTS Talkers,      \* the threads that transmit
          Channels,     \* the frequencies
          Radios,       \* the clients of the pool
          Nobody,       \* nobody is on the channel
          NoRadio       \* the thread is not speaking

VARIABLES voice,        \* who is heard on each channel
          carrier       \* the radio that carries each thread's voice

vars == <<voice, carrier>>

Silent(t) == \A f \in Channels : voice[f] # t

Init ==
    /\ voice = [f \in Channels |-> Nobody]
    /\ carrier = [t \in Talkers |-> NoRadio]

Key(t, fs, r) ==
    /\ Silent(t)
    /\ \A f \in fs : voice[f] = Nobody
    /\ \A s \in Talkers : carrier[s] # r
    /\ voice' = [f \in Channels |-> IF f \in fs THEN t ELSE voice[f]]
    /\ carrier' = [carrier EXCEPT ![t] = r]

Unkey(t) ==
    /\ ~Silent(t)
    /\ voice' = [f \in Channels |-> IF voice[f] = t THEN Nobody ELSE voice[f]]
    /\ carrier' = [carrier EXCEPT ![t] = NoRadio]

Next ==
    \E t \in Talkers :
        \/ \E fs \in (SUBSET Channels) \ {{}}, r \in Radios : Key(t, fs, r)
        \/ Unkey(t)

Spec == Init /\ [][Next]_vars
=============================================================================
