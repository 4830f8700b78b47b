----------------------------- MODULE EdgeProofs -----------------------------
(***************************************************************************)
(* Theorems about the two edges of the program, which share nothing.       *)
(*                                                                         *)
(* The radio it speaks on: the transmit pool, for any number of threads,   *)
(* channels and clients and any number of calls.  One voice on a channel,  *)
(* one stream on a client, no client promised that is not there, and the   *)
(* pool implements Airwaves.                                               *)
(*                                                                         *)
(* The simulator it watches: the table of tracks and the board, for any    *)
(* units, worlds and losses.  What an aircraft was known to do is not      *)
(* forgotten, and the end of a world cannot be missed.                     *)
(***************************************************************************)
EXTENDS TransmitPool, Feed, FiniteSetTheorems, SequenceTheorems, TLAPS

---------------------------------------------------------------------------
(* The radio.                                                              *)

At(p, A) == {t \in Talkers : p[t] \in A}

\* Between its last lock and its first unlock a call has every channel it wants.
LocksHeld ==
    \A t \in Talkers :
        /\ Locked(t) \subseteq wanted[t]
        /\ pc[t] \in {"waiting", "picking", "speaking", "returning", "releasing"}
              => wanted[t] \subseteq Locked(t)
        /\ pc[t] = "idle" => wanted[t] = {}
        /\ pc[t] # "idle" => wanted[t] # {}

\* Clients are on the free list once, or borrowed by one thread that uses them.
ClientsKept ==
    /\ \A t \in Talkers : client[t] \in Clients <=> pc[t] \in {"speaking", "returning"}
    /\ \A s, t \in Talkers : s # t /\ client[s] \in Clients => client[s] # client[t]
    /\ \A i \in 1 .. Len(free) : \A t \in Talkers : free[i] # client[t]
    /\ \A i, j \in 1 .. Len(free) : i # j => free[i] # free[j]

\* A permit is a client that is free, or about to be taken from the list; one
\* put back on the list has its permit released a step later.
Permitted == {"picking", "speaking", "returning", "releasing"}
OnTheList == {"picking", "releasing"}

PermitsCounted ==
    /\ permits + Cardinality(At(pc, Permitted)) = Cardinality(Clients)
    /\ Len(free) = permits + Cardinality(At(pc, OnTheList))

IInv == TypeOK /\ LocksHeld /\ ClientsKept /\ PermitsCounted

---------------------------------------------------------------------------
\* Counting the threads that are somewhere in the call.
LEMMA AtFinite ==
    ASSUME NEW p, NEW A
    PROVE  IsFiniteSet(At(p, A)) /\ Cardinality(At(p, A)) \in Nat
BY TalkersAssumption, FS_Subset, FS_CardinalityType DEF At

LEMMA ClientsCount == Cardinality(Clients) \in Nat
BY ClientsAssumption, FS_CardinalityType

\* One thread moves: the count of a part of the call goes up by one as it enters,
\* down by one as it leaves, and is otherwise unchanged.
LEMMA CountMoves ==
    ASSUME pc \in [Talkers -> Steps], NEW t \in Talkers, NEW from, NEW to,
           Goes(t, from, to), NEW A
    PROVE  /\ (from \in A <=> to \in A)
                 => Cardinality(At(pc', A)) = Cardinality(At(pc, A))
           /\ from \notin A /\ to \in A
                 => Cardinality(At(pc', A)) = Cardinality(At(pc, A)) + 1
           /\ from \in A /\ to \notin A
                 => Cardinality(At(pc', A)) = Cardinality(At(pc, A)) - 1
<1>1. pc[t] = from /\ pc' = [pc EXCEPT ![t] = to]
  BY DEF Goes
<1>2. ASSUME from \in A <=> to \in A
      PROVE  Cardinality(At(pc', A)) = Cardinality(At(pc, A))
  <2>1. At(pc', A) = At(pc, A)
    BY <1>1, <1>2 DEF At
  <2> QED BY <2>1
<1>3. ASSUME from \notin A, to \in A
      PROVE  Cardinality(At(pc', A)) = Cardinality(At(pc, A)) + 1
  <2>1. At(pc', A) = At(pc, A) \cup {t} /\ t \notin At(pc, A)
    BY <1>1, <1>3 DEF At
  <2> QED BY <2>1, AtFinite, FS_AddElement
<1>4. ASSUME from \in A, to \notin A
      PROVE  Cardinality(At(pc', A)) = Cardinality(At(pc, A)) - 1
  <2>1. At(pc', A) = At(pc, A) \ {t} /\ t \in At(pc, A)
    BY <1>1, <1>4 DEF At
  <2> QED BY <2>1, AtFinite, FS_RemoveElement
<1> QED BY <1>2, <1>3, <1>4

\* Which steps of a call hold a permit, and which have a client of theirs on the list.
LEMMA PartsOfTheCall ==
    /\ {"picking", "speaking", "returning", "releasing"} \subseteq Permitted
    /\ \A s \in {"idle", "locking", "waiting", "unlocking"} : s \notin Permitted
    /\ {"picking", "releasing"} \subseteq OnTheList
    /\ \A s \in {"idle", "locking", "waiting", "speaking", "returning", "unlocking"} :
          s \notin OnTheList
BY DEF Permitted, OnTheList

LEMMA InitIInv == Init => IInv
<1> SUFFICES ASSUME Init PROVE IInv
  OBVIOUS
<1>1. At(pc, Permitted) = {} /\ At(pc, OnTheList) = {}
  BY DEF Init, At, Permitted, OnTheList
<1>2. free \in Seq(Clients) /\ Len(free) = Cardinality(Clients)
  BY ClientsCount DEF Init, Orders
<1>3. TypeOK
  BY <1>2, ClientsCount, MaxCallsAssumption DEF Init, TypeOK, Steps
<1>4. LocksHeld
  BY NobodyAssumption DEF Init, LocksHeld, Locked
<1>5. ClientsKept
  <2>1. \A i, j \in 1 .. Len(free) : i # j => free[i] # free[j]
    BY <1>2, ClientsCount DEF Init, Orders
  <2>2. \A i \in 1 .. Len(free) : free[i] \in Clients
    BY <1>2
  <2> QED BY <2>1, <2>2, NoClientAssumption DEF Init, ClientsKept
<1>6. PermitsCounted
  <2>1. Cardinality(At(pc, Permitted)) = 0 /\ Cardinality(At(pc, OnTheList)) = 0
    BY <1>1, FS_EmptySet
  <2>2. permits = Cardinality(Clients)
    BY DEF Init
  <2> QED BY <1>2, <2>1, <2>2, ClientsCount DEF PermitsCounted
<1> QED BY <1>3, <1>4, <1>5, <1>6 DEF IInv

---------------------------------------------------------------------------
\* The locks: only Call, LockChannel and UnlockChannel touch them.
LEMMA LocksStep ==
    ASSUME IInv, NEW t \in Talkers, Work(t) \/ \E fs \in Requests : Call(t, fs)
    PROVE  LocksHeld'
<1> USE NobodyAssumption DEF IInv, TypeOK, LocksHeld, Locked, Goes, Steps
<1>1. ASSUME NEW fs \in Requests, Call(t, fs) PROVE LocksHeld'
  <2>1. fs # {} /\ fs \in SUBSET Channels
    BY RequestsAssumption
  <2> QED BY <1>1, <2>1 DEF Call
<1>2. CASE LockChannel(t)
  <2>1. PICK f \in Channels : /\ f \in wanted[t] \ Locked(t)
                              /\ lock[f] = Nobody
                              /\ lock' = [lock EXCEPT ![f] = t]
                              /\ Goes(t, "locking",
                                   IF wanted[t] \subseteq Locked(t) \cup {f}
                                   THEN "waiting" ELSE "locking")
                              /\ wanted' = wanted
    BY <1>2 DEF LockChannel, IsNextToLock
  <2>2. Locked(t)' = Locked(t) \cup {f} /\ \A s \in Talkers \ {t} : Locked(s)' = Locked(s)
    BY <2>1
  <2>3. \A s \in Talkers \ {t} : pc'[s] = pc[s]
    BY <2>1
  <2>4. pc'[t] = "waiting" => wanted[t] \subseteq Locked(t) \cup {f}
    BY <2>1
  <2>5. pc'[t] \in {"waiting", "locking"} /\ pc[t] = "locking"
    BY <2>1
  <2> HIDE DEF Locked, Goes
  <2> QED BY <2>1, <2>2, <2>3, <2>4, <2>5
<1>3. CASE UnlockChannel(t)
  <2>1. PICK f \in Locked(t) : /\ lock' = [lock EXCEPT ![f] = Nobody]
                               /\ Goes(t, "unlocking",
                                    IF Locked(t) = {f} THEN "idle" ELSE "unlocking")
                               /\ wanted' = [wanted EXCEPT ![t] =
                                               IF Locked(t) = {f} THEN {} ELSE @]
    BY <1>3 DEF UnlockChannel
  <2>2. Locked(t)' = Locked(t) \ {f} /\ \A s \in Talkers \ {t} : Locked(s)' = Locked(s)
    BY <2>1
  <2>3. \A s \in Talkers \ {t} : pc'[s] = pc[s] /\ wanted'[s] = wanted[s]
    BY <2>1
  <2>4. CASE Locked(t) = {f}
    <3>1. pc'[t] = "idle" /\ wanted'[t] = {} /\ Locked(t)' = {}
      BY <2>1, <2>2, <2>4
    <3> HIDE DEF Locked, Goes
    <3> QED BY <2>2, <2>3, <3>1
  <2>5. CASE Locked(t) # {f}
    <3>1. pc'[t] = "unlocking" /\ wanted'[t] = wanted[t] /\ pc[t] = "unlocking"
      BY <2>1, <2>5
    <3> HIDE DEF Locked, Goes
    <3> QED BY <2>2, <2>3, <3>1
  <2> QED BY <2>4, <2>5
<1>4. CASE \/ TakePermit(t) \/ PickClient(t) \/ StopSpeaking(t)
           \/ ReturnClient(t) \/ ReleasePermit(t)
  <2>1. lock' = lock /\ wanted' = wanted
    BY <1>4 DEF TakePermit, PickClient, StopSpeaking, ReturnClient, ReleasePermit
  <2>2. \A s \in Talkers \ {t} : pc'[s] = pc[s]
    BY <1>4 DEF TakePermit, PickClient, StopSpeaking, ReturnClient, ReleasePermit
  <2>3. /\ pc[t] \in {"waiting", "picking", "speaking", "returning", "releasing"}
        /\ pc'[t] # "idle"
    BY <1>4 DEF TakePermit, PickClient, StopSpeaking, ReturnClient, ReleasePermit
  <2>4. \A s \in Talkers : Locked(s)' = Locked(s)
    BY <2>1
  <2> HIDE DEF Locked, Goes
  <2> QED BY <2>1, <2>2, <2>3, <2>4
<1> QED BY <1>1, <1>2, <1>3, <1>4 DEF Work

\* The clients and the permits: PickClient, ReturnClient, TakePermit, ReleasePermit.
LEMMA ListCovers == IInv => PermitsCovered
<1> SUFFICES ASSUME IInv PROVE PermitsCovered
  OBVIOUS
<1> DEFINE P == {t \in Talkers : pc[t] = "picking"}
<1>1. P \subseteq At(pc, OnTheList)
  BY DEF At, OnTheList
<1>2. Cardinality(P) <= Cardinality(At(pc, OnTheList)) /\ Cardinality(P) \in Nat
  <2> HIDE DEF P
  <2> QED BY <1>1, AtFinite, FS_Subset, FS_CardinalityType
<1>3. permits \in Nat /\ Len(free) \in Nat
  BY ClientsCount DEF IInv, TypeOK
<1> QED BY <1>2, <1>3, AtFinite DEF IInv, PermitsCounted, PermitsCovered

LEMMA ListNotEmpty ==
    ASSUME IInv, NEW t \in Talkers, pc[t] = "picking"
    PROVE  Len(free) > 0
<1>1. t \in At(pc, OnTheList)
  BY DEF At, OnTheList
<1>2. Cardinality(At(pc, OnTheList)) # 0
  BY <1>1, AtFinite, FS_EmptySet
<1>3. permits \in Nat
  BY ClientsCount DEF IInv, TypeOK
<1> QED BY <1>2, <1>3, AtFinite DEF IInv, PermitsCounted

\* pop() takes the last of the list and leaves the others where they were.
LEMMA ShorterList ==
    ASSUME NEW S, NEW q \in Seq(S), Len(q) > 0
    PROVE  /\ SubSeq(q, 1, Len(q) - 1) \in Seq(S)
           /\ Len(SubSeq(q, 1, Len(q) - 1)) = Len(q) - 1
           /\ \A i \in 1 .. Len(q) - 1 : SubSeq(q, 1, Len(q) - 1)[i] = q[i]
<1> DEFINE n == Len(q) - 1
<1>1. n \in Nat /\ \A i \in 1 .. n : q[i] \in S
  OBVIOUS
<1>2. /\ SubSeq(q, 1, n) \in Seq(S)
      /\ Len(SubSeq(q, 1, n)) = IF 1 <= n THEN n - 1 + 1 ELSE 0
      /\ \A i \in 1 .. n - 1 + 1 : SubSeq(q, 1, n)[i] = q[1 + i - 1]
  <2> HIDE DEF n
  <2> QED BY <1>1, SubSeqProperties
<1>3. \A i \in 1 .. n : 1 + i - 1 = i
  OBVIOUS
<1> HIDE DEF n
<1>4. n - 1 + 1 = n
  BY <1>1
<1>5. Len(SubSeq(q, 1, n)) = n
  BY <1>1, <1>2
<1>6. \A i \in 1 .. n : SubSeq(q, 1, n)[i] = q[i]
  BY <1>2, <1>3, <1>4
<1> QED BY <1>2, <1>5, <1>6 DEF n

LEMMA ClientsStep ==
    ASSUME IInv, NEW t \in Talkers, Work(t) \/ \E fs \in Requests : Call(t, fs)
    PROVE  ClientsKept' /\ free' \in Seq(Clients)
                        /\ client' \in [Talkers -> Clients \cup {NoClient}]
<1> USE DEF IInv, TypeOK, Goes, Steps
<1>1. CASE PickClient(t)
  <2> DEFINE n == Len(free)
             c == free[n]
  <2>1. n \in Nat /\ n > 0 /\ c \in Clients
    BY <1>1, ListNotEmpty DEF PickClient
  <2>2. /\ free' \in Seq(Clients)
        /\ Len(free') = n - 1
        /\ \A i \in 1 .. n - 1 : free'[i] = free[i]
    BY <1>1, <2>1, ShorterList DEF PickClient
  <2>3. /\ client' = [client EXCEPT ![t] = c]
        /\ pc' = [pc EXCEPT ![t] = "speaking"]
    BY <1>1 DEF PickClient
  <2>4. \A s \in Talkers : client[s] # c
    BY <2>1 DEF ClientsKept
  <2>5. \A i \in 1 .. n - 1 : free[i] # c
    BY <2>1 DEF ClientsKept
  <2> HIDE DEF n, c
  <2>6. \A s \in Talkers : client'[s] \in Clients <=> pc'[s] \in {"speaking", "returning"}
    BY <2>1, <2>3 DEF ClientsKept
  <2>7. \A r, s \in Talkers : r # s /\ client'[r] \in Clients => client'[r] # client'[s]
    BY <2>3, <2>4 DEF ClientsKept
  <2>8. \A i \in 1 .. n - 1 : i \in 1 .. Len(free)
    BY <2>1 DEF n
  <2>9. \A i \in 1 .. Len(free') : \A s \in Talkers : free'[i] # client'[s]
    BY <2>2, <2>3, <2>5, <2>8 DEF ClientsKept
  <2>10. \A i, j \in 1 .. Len(free') : i # j => free'[i] # free'[j]
    BY <2>2, <2>8 DEF ClientsKept
  <2> QED BY <2>1, <2>2, <2>3, <2>6, <2>7, <2>9, <2>10 DEF ClientsKept
<1>2. CASE ReturnClient(t)
  <2> DEFINE n == Len(free)
             c == client[t]
  <2>1. pc[t] = "returning" /\ c \in Clients /\ n \in Nat
    BY <1>2 DEF ReturnClient, ClientsKept
  <2>2. /\ free' \in Seq(Clients)
        /\ Len(free') = n + 1
        /\ \A i \in 1 .. n : free'[i] = free[i]
        /\ free'[n + 1] = c
    BY <1>2, <2>1 DEF ReturnClient
  <2>3. /\ client' = [client EXCEPT ![t] = NoClient]
        /\ pc' = [pc EXCEPT ![t] = "releasing"]
    BY <1>2 DEF ReturnClient
  <2>4. \A i \in 1 .. n + 1 : i = n + 1 \/ i \in 1 .. n
    BY <2>1
  <2>5. \A i \in 1 .. n : free[i] \in Clients /\ \A s \in Talkers : free[i] # client[s]
    BY DEF ClientsKept
  <2>6. \A i, j \in 1 .. n : i # j => free[i] # free[j]
    BY DEF ClientsKept
  <2>7. \A s \in Talkers \ {t} : client[s] # c
    BY <2>1 DEF ClientsKept
  <2> HIDE DEF n, c
  <2>8. \A s \in Talkers : client'[s] \in Clients <=> pc'[s] \in {"speaking", "returning"}
    BY <2>3, NoClientAssumption DEF ClientsKept
  <2>9. \A r, s \in Talkers : r # s /\ client'[r] \in Clients => client'[r] # client'[s]
    BY <2>3, NoClientAssumption DEF ClientsKept
  <2>10. \A i \in 1 .. n + 1 : \A s \in Talkers : free'[i] # client'[s]
    BY <2>1, <2>2, <2>3, <2>4, <2>5, <2>7, NoClientAssumption
  <2>11. \A i, j \in 1 .. n + 1 : i # j => free'[i] # free'[j]
    <3>1. \A i \in 1 .. n : free'[i] # c
      BY <2>2, <2>5 DEF c
    <3> QED BY <2>2, <2>4, <2>6, <3>1
  <2> QED BY <2>2, <2>3, <2>8, <2>9, <2>10, <2>11 DEF ClientsKept
<1>3. CASE \/ LockChannel(t) \/ TakePermit(t) \/ StopSpeaking(t)
           \/ ReleasePermit(t) \/ UnlockChannel(t) \/ \E fs \in Requests : Call(t, fs)
  <2>1. free' = free /\ client' = client
    BY <1>3 DEF LockChannel, TakePermit, StopSpeaking, ReleasePermit, UnlockChannel, Call
  <2>2. /\ \A s \in Talkers \ {t} : pc'[s] = pc[s]
        /\ pc'[t] \in {"speaking", "returning"} <=> pc[t] \in {"speaking", "returning"}
    BY <1>3 DEF LockChannel, TakePermit, StopSpeaking, ReleasePermit, UnlockChannel, Call
  <2> HIDE DEF Goes
  <2> QED BY <2>1, <2>2 DEF ClientsKept
<1> QED BY <1>1, <1>2, <1>3 DEF Work

LEMMA PermitsStep ==
    ASSUME IInv, NEW t \in Talkers, Work(t) \/ \E fs \in Requests : Call(t, fs)
    PROVE  PermitsCounted' /\ permits' \in 0 .. Cardinality(Clients)
<1> DEFINE a == Cardinality(At(pc, Permitted))
           b == Cardinality(At(pc, OnTheList))
           a1 == Cardinality(At(pc', Permitted))
           b1 == Cardinality(At(pc', OnTheList))
<1>0. /\ pc \in [Talkers -> Steps] /\ permits \in Nat /\ Cardinality(Clients) \in Nat
      /\ a \in Nat /\ b \in Nat /\ a1 \in Nat /\ b1 \in Nat /\ Len(free) \in Nat
      /\ permits + a = Cardinality(Clients) /\ Len(free) = permits + b
  BY ClientsCount, AtFinite DEF IInv, TypeOK, PermitsCounted
<1>1. CASE TakePermit(t)
  <2>1. Goes(t, "waiting", "picking")
    BY <1>1 DEF TakePermit
  <2>2. a1 = a + 1 /\ b1 = b + 1
    BY <1>0, <2>1, CountMoves, PartsOfTheCall
  <2>3. permits' = permits - 1 /\ permits > 0 /\ free' = free
    BY <1>1 DEF TakePermit
  <2> HIDE DEF a, b, a1, b1
  <2> QED BY <1>0, <2>2, <2>3 DEF PermitsCounted, a1, b1
<1>2. CASE PickClient(t)
  <2>1. Goes(t, "picking", "speaking")
    BY <1>2 DEF PickClient
  <2>2. a1 = a /\ b1 = b - 1
    BY <1>0, <2>1, CountMoves, PartsOfTheCall
  <2>3. permits' = permits /\ Len(free') = Len(free) - 1
    BY <1>0, <1>2, <2>1, ListNotEmpty, ShorterList DEF PickClient, Goes, IInv, TypeOK
  <2> HIDE DEF a, b, a1, b1
  <2> QED BY <1>0, <2>2, <2>3 DEF PermitsCounted, a1, b1
<1>3. CASE StopSpeaking(t)
  <2>1. Goes(t, "speaking", "returning")
    BY <1>3 DEF StopSpeaking
  <2>2. a1 = a /\ b1 = b
    BY <1>0, <2>1, CountMoves, PartsOfTheCall
  <2>3. permits' = permits /\ free' = free
    BY <1>3 DEF StopSpeaking
  <2> HIDE DEF a, b, a1, b1
  <2> QED BY <1>0, <2>2, <2>3 DEF PermitsCounted, a1, b1
<1>4. CASE ReturnClient(t)
  <2>1. Goes(t, "returning", "releasing")
    BY <1>4 DEF ReturnClient
  <2>2. a1 = a /\ b1 = b + 1
    BY <1>0, <2>1, CountMoves, PartsOfTheCall
  <2>3. permits' = permits /\ Len(free') = Len(free) + 1
    BY <1>4, <2>1 DEF ReturnClient, Goes, IInv, TypeOK, ClientsKept
  <2> HIDE DEF a, b, a1, b1
  <2> QED BY <1>0, <2>2, <2>3 DEF PermitsCounted, a1, b1
<1>5. CASE ReleasePermit(t)
  <2>1. Goes(t, "releasing", "unlocking")
    BY <1>5 DEF ReleasePermit
  <2>2. a1 = a - 1 /\ b1 = b - 1
    BY <1>0, <2>1, CountMoves, PartsOfTheCall
  <2>3. permits' = permits + 1 /\ free' = free
    BY <1>5 DEF ReleasePermit
  <2> HIDE DEF a, b, a1, b1
  <2> QED BY <1>0, <2>2, <2>3 DEF PermitsCounted, a1, b1
<1>6. CASE LockChannel(t) \/ UnlockChannel(t) \/ \E fs \in Requests : Call(t, fs)
  <2>1. \E from, to \in {"idle", "locking", "waiting", "unlocking"} : Goes(t, from, to)
    BY <1>6 DEF LockChannel, UnlockChannel, Call
  <2>2. a1 = a /\ b1 = b
    BY <1>0, <2>1, CountMoves, PartsOfTheCall
  <2>3. permits' = permits /\ free' = free
    BY <1>6 DEF LockChannel, UnlockChannel, Call
  <2> HIDE DEF a, b, a1, b1
  <2> QED BY <1>0, <2>2, <2>3 DEF PermitsCounted, a1, b1
<1> QED BY <1>1, <1>2, <1>3, <1>4, <1>5, <1>6 DEF Work

LEMMA NextIInv == IInv /\ [Next]_vars => IInv'
<1> SUFFICES ASSUME IInv, [Next]_vars PROVE IInv'
  OBVIOUS
<1>1. ASSUME NEW t \in Talkers, Work(t) \/ \E fs \in Requests : Call(t, fs)
      PROVE  IInv'
  <2>1. pc' \in [Talkers -> Steps]
    <3>1. \E from, to \in Steps : Goes(t, from, to)
      BY <1>1 DEF Steps, Work, Call, LockChannel, TakePermit, PickClient, StopSpeaking,
         ReturnClient, ReleasePermit, UnlockChannel
    <3> QED BY <3>1 DEF Goes, IInv, TypeOK
  <2>4. wanted' \in [Talkers -> SUBSET Channels]
    <3>1. \E w \in SUBSET Channels : wanted' = wanted \/ wanted' = [wanted EXCEPT ![t] = w]
      BY <1>1, RequestsAssumption DEF IInv, TypeOK, Work, Call, LockChannel, TakePermit,
         PickClient, StopSpeaking, ReturnClient, ReleasePermit, UnlockChannel
    <3> QED BY <3>1 DEF IInv, TypeOK
  <2>5. calls' \in [Talkers -> 0 .. MaxCalls]
    <3>1. \/ calls' = calls
          \/ calls[t] < MaxCalls /\ calls' = [calls EXCEPT ![t] = @ + 1]
      BY <1>1 DEF Work, Call, LockChannel, TakePermit, PickClient, StopSpeaking,
         ReturnClient, ReleasePermit, UnlockChannel
    <3> QED BY <3>1, MaxCallsAssumption DEF IInv, TypeOK
  <2>2. lock' \in [Channels -> Talkers \cup {Nobody}]
    BY <1>1 DEF IInv, TypeOK, Work, Call, LockChannel, TakePermit, PickClient, StopSpeaking,
       ReturnClient, ReleasePermit, UnlockChannel, Locked
  <2>3. TypeOK'
    BY <1>1, <2>1, <2>2, <2>4, <2>5, ClientsStep, PermitsStep DEF TypeOK
  <2> QED BY <1>1, <2>3, LocksStep, ClientsStep, PermitsStep DEF IInv
<1>2. CASE UNCHANGED vars
  BY <1>2 DEF vars, IInv, TypeOK, LocksHeld, Locked, ClientsKept, PermitsCounted
<1> QED BY <1>1, <1>2 DEF Next

\* The inductive invariant holds whatever the threads do.
THEOREM InvariantHolds == Spec => []IInv
BY InitIInv, NextIInv, PTL DEF Spec

\* Two calls on the air at once share no channel.
THEOREM OneVoice == Spec => []OneVoicePerChannel
<1>1. IInv => OneVoicePerChannel
  BY DEF IInv, TypeOK, LocksHeld, Locked, OneVoicePerChannel, Speaking
<1> QED BY <1>1, InvariantHolds, PTL

\* Two calls on the air at once have different clients, and neither of theirs is
\* on the free list.
THEOREM OneStream == Spec => []OneStreamPerClient
<1>1. ASSUME IInv, NEW t \in Talkers, Speaking(t)
      PROVE  /\ client[t] \in Clients
             /\ \A s \in Talkers \ {t} : client[s] # client[t]
             /\ \A i \in DOMAIN free : free[i] # client[t]
  <2>1. client[t] \in Clients
    BY <1>1 DEF IInv, ClientsKept, Speaking
  <2>2. \A s \in Talkers \ {t} : client[s] # client[t]
    BY <1>1, <2>1 DEF IInv, ClientsKept
  <2>3. DOMAIN free = 1 .. Len(free)
    BY <1>1 DEF IInv, TypeOK
  <2>4. \A i \in DOMAIN free : free[i] # client[t]
    BY <1>1, <2>3 DEF IInv, ClientsKept
  <2> QED BY <2>1, <2>2, <2>4
<1>2. IInv => OneStreamPerClient
  BY <1>1 DEF OneStreamPerClient
<1> QED BY <1>2, InvariantHolds, PTL

\* The free list is never popped empty: every permit has its client on the list.
THEOREM PermitsAreClients == Spec => []PermitsCovered
BY ListCovers, InvariantHolds, PTL

---------------------------------------------------------------------------
\* A thread is heard somewhere exactly while it speaks.
LEMMA HeardWhileSpeaking ==
    ASSUME IInv, NEW t \in Talkers
    PROVE  AirView!Silent(t) <=> pc[t] # "speaking"
<1>1. ASSUME pc[t] = "speaking" PROVE ~AirView!Silent(t)
  <2>1. PICK f \in Channels : lock[f] = t
    BY <1>1 DEF IInv, TypeOK, LocksHeld, Locked
  <2>2. Heard[f] = t
    BY <1>1, <2>1, NobodyAssumption DEF Heard, Speaking
  <2> QED BY <2>2 DEF AirView!Silent
<1>2. ASSUME NEW f \in Channels, Heard[f] = t PROVE pc[t] = "speaking"
  BY <1>2, NobodyAssumption DEF Heard, Speaking
<1> QED BY <1>1, <1>2 DEF AirView!Silent

\* The client a thread takes off the list carries no other voice.
LEMMA RadioIsSpare ==
    ASSUME IInv, NEW t \in Talkers, pc[t] = "picking"
    PROVE  /\ free[Len(free)] \in Clients
           /\ \A s \in Talkers : Carried[s] # free[Len(free)]
<1>1. Len(free) \in 1 .. Len(free) /\ free[Len(free)] \in Clients
  BY ListNotEmpty DEF IInv, TypeOK
<1>2. \A s \in Talkers : client[s] # free[Len(free)]
  BY <1>1 DEF IInv, ClientsKept
<1> QED BY <1>1, <1>2, NoClientAssumption DEF Carried

\* Speaking starts in PickClient and stops in StopSpeaking; no other step is heard.
LEMMA StepOnTheAir == IInv /\ [Next]_vars => [AirView!Next]_(AirView!vars)
<1> SUFFICES ASSUME IInv, [Next]_vars PROVE [AirView!Next]_(AirView!vars)
  OBVIOUS
<1>1. CASE UNCHANGED vars
  BY <1>1 DEF vars, Heard, Carried, Speaking, AirView!vars
<1>2. ASSUME NEW t \in Talkers, PickClient(t) PROVE AirView!Next
  <2> DEFINE c == free[Len(free)]
  <2>1. /\ pc[t] = "picking" /\ pc' = [pc EXCEPT ![t] = "speaking"] /\ lock' = lock
        /\ client' = [client EXCEPT ![t] = c]
    BY <1>2 DEF PickClient, Goes
  <2>2. Locked(t) = wanted[t] /\ wanted[t] \in (SUBSET Channels) \ {{}}
    BY <2>1 DEF IInv, TypeOK, LocksHeld
  <2>3. AirView!Silent(t)
    BY <2>1, HeardWhileSpeaking
  <2>4. \A f \in wanted[t] : Heard[f] = Nobody
    BY <2>1, <2>2 DEF Heard, Speaking, Locked
  <2>5. Heard' = [f \in Channels |-> IF f \in wanted[t] THEN t ELSE Heard[f]]
    BY <2>1, <2>2, NobodyAssumption DEF Heard, Speaking, Locked, IInv, TypeOK
  <2>6. c \in Clients /\ \A s \in Talkers : Carried[s] # c
    BY <2>1, RadioIsSpare
  <2> HIDE DEF c
  <2>7. Carried' = [Carried EXCEPT ![t] = c]
    BY <2>1 DEF Carried, Speaking, IInv, TypeOK
  <2>8. AirView!Key(t, wanted[t], c)
    BY <2>3, <2>4, <2>5, <2>6, <2>7 DEF AirView!Key
  <2> QED BY <2>2, <2>6, <2>8 DEF AirView!Next
<1>3. ASSUME NEW t \in Talkers, StopSpeaking(t) PROVE AirView!Next
  <2>1. /\ pc[t] = "speaking" /\ pc' = [pc EXCEPT ![t] = "returning"] /\ lock' = lock
        /\ client' = client
    BY <1>3 DEF StopSpeaking, Goes
  <2>2. ~AirView!Silent(t)
    BY <2>1, HeardWhileSpeaking
  <2>3. Heard' = [f \in Channels |-> IF Heard[f] = t THEN Nobody ELSE Heard[f]]
    BY <2>1, NobodyAssumption DEF Heard, Speaking, IInv, TypeOK
  <2>4. Carried' = [Carried EXCEPT ![t] = NoClient]
    BY <2>1 DEF Carried, Speaking, IInv, TypeOK
  <2> QED BY <2>2, <2>3, <2>4 DEF AirView!Next, AirView!Unkey
<1>4. ASSUME NEW t \in Talkers,
             \/ LockChannel(t) \/ UnlockChannel(t) \/ TakePermit(t) \/ ReturnClient(t)
             \/ ReleasePermit(t) \/ \E fs \in Requests : Call(t, fs)
      PROVE  UNCHANGED AirView!vars
  <2>1. \/ lock' = lock
        \/ \E f \in Channels, x \in {Nobody, t} :
             lock' = [lock EXCEPT ![f] = x] /\ lock[f] \in {Nobody, t}
    BY <1>4 DEF LockChannel, UnlockChannel, TakePermit, ReturnClient, ReleasePermit, Call,
       Locked
  <2>2. /\ pc[t] # "speaking" /\ pc'[t] # "speaking"
        /\ \A s \in Talkers \ {t} : pc'[s] = pc[s] /\ client'[s] = client[s]
    BY <1>4 DEF LockChannel, UnlockChannel, TakePermit, ReturnClient, ReleasePermit, Call,
       Goes, IInv, TypeOK
  <2>3. ASSUME NEW f \in Channels PROVE Heard'[f] = Heard[f]
    <3>1. lock'[f] = lock[f] \/ (lock[f] \in {Nobody, t} /\ lock'[f] \in {Nobody, t})
      BY <2>1 DEF IInv, TypeOK
    <3>2. lock[f] \in Talkers \cup {Nobody}
      BY DEF IInv, TypeOK
    <3> QED BY <2>2, <3>1, <3>2, NobodyAssumption DEF Heard, Speaking
  <2>5. Heard' = Heard
    BY <2>3 DEF Heard
  <2>4. Carried' = Carried
    BY <2>2 DEF Carried, Speaking
  <2> QED BY <2>4, <2>5 DEF AirView!vars
<1> QED BY <1>1, <1>2, <1>3, <1>4 DEF Next, Work

\* The pool implements its promise to the air: every behaviour of the threads,
\* locks and clients is one in which transmissions come up and go down whole.
THEOREM PoolKeepsThePromise == Spec => OnTheAir
<1>1. Init => AirView!Init
  BY DEF Init, AirView!Init, Heard, Carried, Speaking
<1> QED BY <1>1, StepOnTheAir, InvariantHolds, PTL DEF Spec, OnTheAir, AirView!Spec

---------------------------------------------------------------------------
(* The simulator.                                                          *)

\* SetToSeq of what there is lists members of it, one for each place.
LEMMA ListsMembers ==
    ASSUME NEW S, IsFiniteSet(S)
    PROVE  /\ Cardinality(S) \in Nat
           /\ \A i \in 1..Cardinality(S) : SetToSeq(S)[i] \in S
<1>1. Cardinality(S) \in Nat /\ ExistsBijection(1..Cardinality(S), S)
  BY FS_CardinalityType, FS_NatBijection, FS_CountingElements
<1>2. \E f \in [1..Cardinality(S) -> S] : IsInjective(f)
  BY <1>1 DEF ExistsBijection, Bijection, Injection, IsInjective
<1>3. SetToSeq(S) \in [1..Cardinality(S) -> S]
  BY <1>2 DEF SetToSeq
<1> QED BY <1>1, <1>3

\* The bounds, one by one.
LEMMA BoundsAreNumbers ==
    /\ MinAge \in Nat /\ MaxAge \in Nat /\ MaxWorlds \in Nat /\ MaxChanges \in Nat
    /\ MaxDrops \in Nat /\ MaxFails \in Nat /\ MaxWorlds >= 1
BY FeedConstants

\* The types, to begin with and step by step.
LEMMA FeedInitTypes == FeedInit => FeedTypeOK
BY FeedConstants, UnitsAssumption DEF FeedInit, FeedTypeOK, Rows, Never

\* A report is put on a stream, or taken off its head.
LEMMA ToldIsAStream ==
    ASSUME NEW s \in [up : BOOLEAN, queue : Seq(Reports)], NEW r \in Reports
    PROVE  Told(s, r) \in [up : BOOLEAN, queue : Seq(Reports)]
BY DEF Told

\* What is left of a stream, and what was taken off it.
LEMMA TailIsAStream ==
    ASSUME NEW s \in [up : BOOLEAN, queue : Seq(Reports)], s.queue # <<>>
    PROVE  /\ [s EXCEPT !.queue = Tail(@)] \in [up : BOOLEAN, queue : Seq(Reports)]
           /\ Head(s.queue) \in Reports
OBVIOUS

\* The reports the simulator makes.
LEMMA ReportsAre ==
    /\ Reset \in Reports
    /\ \A u \in Units : /\ Seen(u) \in Reports /\ Gone(u) \in Reports
                        /\ Event("takeoff", u) \in Reports /\ Event("land", u) \in Reports
BY UnitsAssumption DEF Reports, Reset, Seen, Gone, Event

\* A change is one of the changes there may be.
LEMMA ChangeCounts ==
    ASSUME FeedTypeOK, Change
    PROVE  /\ spent' \in [changes : 0..MaxChanges, drops : 0..MaxDrops, fails : 0..MaxFails]
           /\ spent'.fails = spent.fails
<1>1. spent \in [changes : 0..MaxChanges, drops : 0..MaxDrops, fails : 0..MaxFails]
  BY DEF FeedTypeOK
<1>2. spent.changes + 1 \in 0..MaxChanges /\ spent' = [spent EXCEPT !.changes = spent.changes + 1]
  BY <1>1, BoundsAreNumbers DEF Change
<1> QED BY <1>1, <1>2

\* A failure is one of those there may be.
LEMMA FailCounts ==
    ASSUME FeedTypeOK, Fails
    PROVE  /\ spent' \in [changes : 0..MaxChanges, drops : 0..MaxDrops, fails : 0..MaxFails]
           /\ spent'.fails = spent.fails + 1 /\ spent.fails < MaxFails
<1>1. spent \in [changes : 0..MaxChanges, drops : 0..MaxDrops, fails : 0..MaxFails]
  BY DEF FeedTypeOK
<1>2. spent.fails + 1 \in 0..MaxFails /\ spent' = [spent EXCEPT !.fails = spent.fails + 1]
  BY <1>1, BoundsAreNumbers DEF Fails
<1> QED BY <1>1, <1>2 DEF Fails

\* Every transaction, every loss and every new world keeps the types.
LEMMA FeedStepTypes == FeedTypeOK /\ [FeedNext]_fvars => FeedTypeOK'
<1> SUFFICES ASSUME FeedTypeOK, [FeedNext]_fvars PROVE FeedTypeOK'
  OBVIOUS
<1> USE BoundsAreNumbers
<1>a. /\ units \in [up : BOOLEAN, queue : Seq(Reports)]
      /\ events \in [up : BOOLEAN, queue : Seq(Reports)]
  BY DEF FeedTypeOK
<1>1. ASSUME NEW u \in Units, NEW flying \in BOOLEAN, Born(u, flying) PROVE FeedTypeOK'
  <2>1. units' \in [up : BOOLEAN, queue : Seq(Reports)]
    BY <1>a, <1>1, ToldIsAStream, ReportsAre DEF Born
  <2>2. /\ sim' \in [alive : SUBSET Units, flying : SUBSET Units, clock : 0..MaxAge,
                     world : 1..MaxWorlds]
        /\ sim'.flying \subseteq sim'.alive
    BY <1>1 DEF Born, FeedTypeOK
  <2> QED BY <1>1, <2>1, <2>2, ChangeCounts DEF Born, FeedTypeOK
<1>2. ASSUME NEW u \in Units, Dies(u) PROVE FeedTypeOK'
  <2>1. units' \in [up : BOOLEAN, queue : Seq(Reports)]
    BY <1>a, <1>2, ToldIsAStream, ReportsAre DEF Dies
  <2>2. /\ sim' \in [alive : SUBSET Units, flying : SUBSET Units, clock : 0..MaxAge,
                     world : 1..MaxWorlds]
        /\ sim'.flying \subseteq sim'.alive
    BY <1>2 DEF Dies, FeedTypeOK
  <2> QED BY <1>2, <2>1, <2>2, ChangeCounts DEF Dies, FeedTypeOK
<1>3. ASSUME NEW u \in Units, TakesOff(u) \/ Lands(u) PROVE FeedTypeOK'
  <2>1. /\ units' \in [up : BOOLEAN, queue : Seq(Reports)]
        /\ events' \in [up : BOOLEAN, queue : Seq(Reports)]
    BY <1>a, <1>3, ToldIsAStream, ReportsAre DEF TakesOff, Lands
  <2>2. /\ sim' \in [alive : SUBSET Units, flying : SUBSET Units, clock : 0..MaxAge,
                     world : 1..MaxWorlds]
        /\ sim'.flying \subseteq sim'.alive
    <3>1. CASE TakesOff(u)
      BY <3>1 DEF TakesOff, FeedTypeOK
    <3>2. CASE Lands(u)
      BY <3>2 DEF Lands, FeedTypeOK
    <3> QED BY <1>3, <3>1, <3>2
  <2> QED BY <1>3, <2>1, <2>2, ChangeCounts DEF TakesOff, Lands, FeedTypeOK
<1>4. ASSUME NEW u \in Units, Moves(u) PROVE FeedTypeOK'
  <2>1. units' \in [up : BOOLEAN, queue : Seq(Reports)]
    BY <1>a, <1>4, ToldIsAStream, ReportsAre DEF Moves
  <2> QED BY <1>4, <2>1 DEF Moves, FeedTypeOK
<1>5. ASSUME NEW alive \in SUBSET Units, NEW heard \in BOOLEAN, NEW flying \in SUBSET alive,
             Reload(alive, flying, heard)
      PROVE  FeedTypeOK'
  <2>1. events' \in [up : BOOLEAN, queue : Seq(Reports)]
    BY <1>5, ReportsAre DEF Reload
  <2> QED BY <1>5, <2>1 DEF Reload, FeedTypeOK
<1>6. CASE Drop
  <2>1. spent' \in [changes : 0..MaxChanges, drops : 0..MaxDrops, fails : 0..MaxFails]
    <3>1. spent \in [changes : 0..MaxChanges, drops : 0..MaxDrops, fails : 0..MaxFails]
      BY DEF FeedTypeOK
    <3>2. spent.drops + 1 \in 0..MaxDrops /\ spent' = [spent EXCEPT !.drops = spent.drops + 1]
      BY <1>6, <3>1 DEF Drop
    <3> QED BY <3>1, <3>2
  <2>2. /\ units' \in [up : BOOLEAN, queue : Seq(Reports)]
        /\ events' \in [up : BOOLEAN, queue : Seq(Reports)]
    <3>1. [up |-> FALSE, queue |-> <<>>] \in [up : BOOLEAN, queue : Seq(Reports)]
      OBVIOUS
    <3> QED BY <1>6, <1>a, <3>1 DEF Drop
  <2> QED BY <1>6, <2>1, <2>2 DEF Drop, FeedTypeOK
<1>7. CASE ReconnectUnits
  <2>1. IsFiniteSet(sim.alive) /\ sim.alive \subseteq Units
    BY UnitsAssumption, FS_Subset DEF FeedTypeOK
  <2>2. Cardinality(sim.alive) \in Nat
        /\ \A i \in 1..Cardinality(sim.alive) : Seen(SetToSeq(sim.alive)[i]) \in Reports
    BY <2>1, ListsMembers, ReportsAre
  <2>3. [i \in 1..Cardinality(sim.alive) |-> Seen(SetToSeq(sim.alive)[i])] \in Seq(Reports)
    BY <2>2, IsASeq
  <2> QED BY <1>7, <2>3 DEF ReconnectUnits, FeedTypeOK
<1>8. CASE ReconnectEvents
  BY <1>8 DEF ReconnectEvents, FeedTypeOK
<1>9. CASE ApplyUnit
  <2>1. /\ units' \in [up : BOOLEAN, queue : Seq(Reports)]
        /\ Head(units.queue).unit \in Units
    BY <1>9, <1>a, TailIsAStream DEF ApplyUnit, Reports
  <2>2. tracks' \in [Units -> Rows]
    BY <1>9, <2>1 DEF ApplyUnit, FeedTypeOK, Upserted, Rows
  <2> QED BY <1>9, <2>1, <2>2 DEF ApplyUnit, FeedTypeOK
<1>10. CASE ApplyEvent
  <2>1. /\ events' \in [up : BOOLEAN, queue : Seq(Reports)]
        /\ Head(events.queue).unit \in Units
    BY <1>10, <1>a, TailIsAStream DEF ApplyEvent, Reports
  <2>2. tracks' \in [Units -> Rows] /\ board' \in [Units -> 0..MaxWorlds]
    <3>1. CASE Wiped
      BY <3>1 DEF Wiped, NoBoard, Rows
    <3>2. CASE /\ tracks' = InAir(Head(events.queue).unit, Head(events.queue).kind = "takeoff")
               /\ UNCHANGED board
      BY <2>1, <3>2 DEF FeedTypeOK, InAir, Rows
    <3> QED BY <1>10, <3>1, <3>2 DEF ApplyEvent
  <2> QED BY <1>10, <2>1, <2>2 DEF ApplyEvent, FeedTypeOK
<1>11. CASE Tick
  <2>1. sim' \in [alive : SUBSET Units, flying : SUBSET Units, clock : 0..MaxAge,
                  world : 1..MaxWorlds]
        /\ sim'.flying \subseteq sim'.alive
    <3>1. sim.clock \in 0..MaxAge /\ sim.clock < MaxAge => sim.clock + 1 \in 0..MaxAge
      OBVIOUS
    <3> QED BY <1>11, <3>1 DEF Tick, FeedTypeOK
  <2>2. sweep' \in [pc : {"rest", "due", "asked", "wiped", "noted"},
                    alive : SUBSET Units, flying : SUBSET Units, clock : 0..MaxAge]
    BY <1>11 DEF Tick, FeedTypeOK
  <2> QED BY <1>11, <2>1, <2>2 DEF Tick, FeedTypeOK
<1>12. CASE Ask
  BY <1>12 DEF Ask, FeedTypeOK
<1>13. CASE SweepFails
  <2>1. sweep' \in [pc : {"rest", "due", "asked", "wiped", "noted"},
                    alive : SUBSET Units, flying : SUBSET Units, clock : 0..MaxAge]
    BY <1>13 DEF SweepFails, FeedTypeOK
  <2> QED BY <1>13, <2>1, FailCounts DEF SweepFails, FeedTypeOK
<1>14. CASE Wipe
  <2>1. tracks' \in [Units -> Rows] /\ board' \in [Units -> 0..MaxWorlds]
    <3>1. CASE Wiped
      BY <3>1 DEF Wiped, NoBoard, Rows
    <3>2. CASE UNCHANGED <<tracks, board>>
      BY <3>2 DEF FeedTypeOK
    <3> QED BY <1>14, <3>1, <3>2 DEF Wipe
  <2>2. /\ sweep' \in [pc : {"rest", "due", "asked", "wiped", "noted"},
                       alive : SUBSET Units, flying : SUBSET Units, clock : 0..MaxAge]
        /\ was' \in {Never} \cup 0..MaxAge
    BY <1>14 DEF Wipe, FeedTypeOK
  <2> QED BY <1>14, <2>1, <2>2 DEF Wipe, FeedTypeOK
<1>15. CASE Note
  BY <1>15 DEF Note, FeedTypeOK, Rows
<1>16. CASE Reap
  BY <1>16 DEF Reap, Reaped, FeedTypeOK, Rows
<1>17. ASSUME NEW u \in Units, Bind(u) PROVE FeedTypeOK'
  BY <1>17 DEF Bind, FeedTypeOK
<1>18. CASE UNCHANGED fvars
  BY <1>18 DEF fvars, FeedTypeOK
<1>19. CASE ApplyUnitFails
  <2>1. units' \in [up : BOOLEAN, queue : Seq(Reports)] /\ lost' \subseteq {"wipe", "stream"}
    BY <1>19 DEF ApplyUnitFails, FeedTypeOK
  <2> QED BY <1>19, <2>1, FailCounts DEF ApplyUnitFails, FeedTypeOK
<1>20. CASE ApplyEventFails
  <2>1. events' \in [up : BOOLEAN, queue : Seq(Reports)]
    BY <1>20, <1>a, TailIsAStream DEF ApplyEventFails
  <2>2. tracks' = tracks /\ board' \in [Units -> 0..MaxWorlds]
    <3>1. tracks' = tracks /\ board' \in {board, NoBoard}
      BY <1>20 DEF ApplyEventFails, HalfWiped
    <3>2. {board, NoBoard} \subseteq [Units -> 0..MaxWorlds]
      BY BoundsAreNumbers DEF FeedTypeOK, NoBoard
    <3> QED BY <3>1, <3>2
  <2> QED BY <1>20, <2>1, <2>2, FailCounts DEF ApplyEventFails, FeedTypeOK
<1>21. CASE WipeFails
  <2>1. /\ sweep' \in [pc : {"rest", "due", "asked", "wiped", "noted"},
                       alive : SUBSET Units, flying : SUBSET Units, clock : 0..MaxAge]
        /\ was' \in {Never} \cup 0..MaxAge /\ lost' \subseteq {"wipe", "stream"}
    BY <1>21 DEF WipeFails, FeedTypeOK
  <2>2. tracks' = tracks /\ board' \in [Units -> 0..MaxWorlds]
    BY <1>21 DEF WipeFails, HalfWiped, NoBoard, FeedTypeOK
  <2> QED BY <1>21, <2>1, <2>2, FailCounts DEF WipeFails, FeedTypeOK
<1> QED BY <1>1, <1>2, <1>3, <1>4, <1>5, <1>6, <1>7, <1>8, <1>9, <1>10, <1>11, <1>12, <1>13,
           <1>14, <1>15, <1>16, <1>17, <1>18, <1>19, <1>20, <1>21 DEF FeedNext, Sim, NewWorld

---------------------------------------------------------------------------
\* The rows on the board that were made in a world that is gone.
OldRows == {u \in Units : board[u] # 0 /\ board[u] < sim.world}

\* The wipe they are owed has not been tried in vain.
Owed == OldRows # {} /\ "wipe" \notin lost

FailsLeft == MaxFails - spent.fails

\* However many of the sweeps that are left to fail do, the next that is answered
\* finds the clock behind the one seen last.
Behind(clock, last) == clock + FailsLeft < last

\* While a row of an old world is owed its wipe, the end of that world has still to
\* be noticed, and will be: by the answer in hand, or after it by the next.
Unnoticed ==
    Owed =>
        /\ sweep.pc \in {"rest", "wiped", "noted"} => Behind(sim.clock + 1, was)
        /\ sweep.pc = "due" => Behind(sim.clock, was)
        /\ sweep.pc = "asked" => \/ sweep.clock < was
                                 \/ /\ Behind(sim.clock + 1, was)
                                    /\ Behind(sim.clock + 1, sweep.clock)
        /\ sweep.pc = "asked" => sim.clock <= sweep.clock

FeedIInv == FeedTypeOK /\ Unnoticed

\* Only a new world makes old rows, and it starts its clock anew; only the sweep and
\* its failures use up the distance, and the answer that closes it wipes the board.
LEMMA FeedStepUnnoticed == FeedIInv /\ [FeedNext]_fvars => Unnoticed'
<1> SUFFICES ASSUME FeedTypeOK, Unnoticed, [FeedNext]_fvars, Owed' PROVE Unnoticed'
  BY DEF FeedIInv, Unnoticed
<1> USE BoundsAreNumbers
<1>a. /\ sim.clock \in Nat /\ sweep.clock \in Nat /\ was \in Int
      /\ spent.fails \in 0..MaxFails /\ FailsLeft \in Nat
  BY DEF FeedTypeOK, FailsLeft, Never
<1>b. Fails => FailsLeft' = FailsLeft - 1 /\ FailsLeft' \in Nat
  <2> SUFFICES ASSUME Fails PROVE FailsLeft' = FailsLeft - 1 /\ FailsLeft' \in Nat
    OBVIOUS
  <2>1. spent'.fails = spent.fails + 1 /\ spent.fails < MaxFails
    BY FailCounts
  <2> QED BY <1>a, <2>1 DEF FailsLeft
<1>1. CASE UNCHANGED <<board, sim.world, sim.clock, sweep.pc, sweep.clock, was, lost, spent.fails>>
  BY <1>1 DEF Unnoticed, Owed, OldRows, Behind, FailsLeft
<1>2. ASSUME NEW alive \in SUBSET Units, NEW heard \in BOOLEAN, NEW flying \in SUBSET alive,
             Reload(alive, flying, heard)
      PROVE  Unnoticed'
  <2>1. sim'.clock = 0 /\ FailsLeft' = FailsLeft /\ FailsLeft <= MaxFails
        /\ was' = was /\ was >= MinAge /\ UNCHANGED sweep
    BY <1>2, <1>a DEF Reload, FailsLeft
  <2>2. 1 + FailsLeft < was
    BY <1>a, <2>1, AgeAssumption
  <2> QED BY <1>a, <2>1, <2>2 DEF Unnoticed, Behind
<1>3. CASE Tick
  <2>1. Owed
    BY <1>3 DEF Tick, Owed, OldRows
  <2>2. Behind(sim.clock + 1, was)
    BY <1>3, <2>1 DEF Tick, Unnoticed
  <2>3. /\ sim'.clock <= sim.clock + 1 /\ sim'.clock \in Nat
        /\ sweep'.pc = "due" /\ was' = was /\ FailsLeft' = FailsLeft
    <3>1. sim'.clock = IF sim.clock < MaxAge THEN sim.clock + 1 ELSE sim.clock
      BY <1>3 DEF Tick, FeedTypeOK
    <3>2. sweep'.pc = "due" /\ was' = was /\ FailsLeft' = FailsLeft
      BY <1>3 DEF Tick, FeedTypeOK, FailsLeft
    <3> QED BY <1>a, <3>1, <3>2
  <2> QED BY <1>a, <2>2, <2>3 DEF Unnoticed, Behind
<1>4. CASE Ask
  <2>1. Owed /\ sweep.pc = "due"
    BY <1>4 DEF Ask, Owed, OldRows
  <2>2. /\ sweep'.pc = "asked" /\ sweep'.clock = sim.clock
        /\ sim' = sim /\ was' = was
    BY <1>4 DEF Ask
  <2> QED BY <1>a, <2>1, <2>2 DEF Unnoticed, Behind
<1>5. CASE SweepFails
  <2>1. Owed /\ sweep.pc \in {"due", "wiped", "noted"}
    BY <1>5 DEF SweepFails, Owed, OldRows
  <2>2. /\ sweep'.pc = "rest" /\ sim' = sim /\ was' = was
    BY <1>5 DEF SweepFails, FeedTypeOK
  <2>3. FailsLeft' = FailsLeft - 1 /\ FailsLeft' \in Nat
    BY <1>5, <1>b DEF SweepFails
  <2> QED BY <1>a, <2>1, <2>2, <2>3 DEF Unnoticed, Behind
<1>6. CASE Wipe
  <2>1. CASE WorldChanged(sweep.clock)
    BY <1>6, <2>1 DEF Wipe, Wiped, NoBoard, Owed, OldRows
  <2>2. CASE ~WorldChanged(sweep.clock)
    <3>1. Owed /\ sweep.pc = "asked" /\ was' = sweep.clock /\ sweep'.pc = "wiped"
          /\ sim' = sim /\ FailsLeft' = FailsLeft
      BY <1>6, <2>2 DEF Wipe, Owed, OldRows, FailsLeft, FeedTypeOK
    <3>2. ~(sweep.clock < was)
      BY <1>a, <2>2 DEF WorldChanged, Never
    <3> QED BY <1>a, <3>1, <3>2 DEF Unnoticed, Behind
  <2> QED BY <2>1, <2>2
<1>7. CASE Note \/ Reap
  <2>1. Owed /\ sim' = sim /\ was' = was /\ FailsLeft' = FailsLeft
        /\ sweep.pc \in {"wiped", "noted"} /\ sweep'.pc \in {"noted", "rest"}
    BY <1>7 DEF Note, Reap, Owed, OldRows, FailsLeft, FeedTypeOK
  <2> QED BY <1>a, <2>1 DEF Unnoticed, Behind
<1>8. ASSUME NEW u \in Units, Bind(u) PROVE Unnoticed'
  <2>1. Owed
    BY <1>8 DEF Bind, Owed, OldRows, FeedTypeOK
  <2> QED BY <1>8, <2>1 DEF Bind, Unnoticed, Behind, FailsLeft
<1>9. CASE ApplyEvent
  <2>1. CASE Wiped
    BY <2>1 DEF Wiped, NoBoard, Owed, OldRows
  <2>2. CASE UNCHANGED board
    BY <1>9, <1>1, <2>2 DEF ApplyEvent
  <2> QED BY <1>9, <2>1, <2>2 DEF ApplyEvent
<1>10. ASSUME NEW u \in Units,
              \/ \E flying \in BOOLEAN : Born(u, flying)
              \/ Dies(u) \/ TakesOff(u) \/ Lands(u) \/ Moves(u)
       PROVE  Unnoticed'
  <2>1. UNCHANGED <<board, sim.world, sim.clock, sweep, was, lost, spent.fails>>
    <3>1. CASE Moves(u)
      BY <3>1 DEF Moves
    <3>2. CASE \E flying \in BOOLEAN : Born(u, flying)
      BY <3>2, ChangeCounts DEF Born, FeedTypeOK
    <3>3. CASE Dies(u)
      BY <3>3, ChangeCounts DEF Dies, FeedTypeOK
    <3>4. CASE TakesOff(u)
      BY <3>4, ChangeCounts DEF TakesOff, FeedTypeOK
    <3>5. CASE Lands(u)
      BY <3>5, ChangeCounts DEF Lands, FeedTypeOK
    <3> QED BY <1>10, <3>1, <3>2, <3>3, <3>4, <3>5
  <2> QED BY <1>1, <2>1
<1>11. CASE Drop \/ ReconnectUnits \/ ReconnectEvents \/ ApplyUnit \/ UNCHANGED fvars
  <2>1. UNCHANGED <<board, sim, sweep, was, lost, spent.fails>>
    BY <1>11 DEF Drop, ReconnectUnits, ReconnectEvents, ApplyUnit, fvars, FeedTypeOK
  <2> QED BY <1>1, <2>1
<1>12. CASE WipeFails
  BY <1>12 DEF WipeFails, Owed
<1>13. CASE ApplyUnitFails \/ ApplyEventFails
  <2>1. /\ UNCHANGED <<sim, sweep, was>> /\ board' \in {board, NoBoard} /\ Fails
        /\ "wipe" \in lost => "wipe" \in lost'
    BY <1>13 DEF ApplyUnitFails, ApplyEventFails, HalfWiped
  <2>2. Owed
    BY <2>1 DEF Owed, OldRows, NoBoard
  <2> QED BY <1>a, <1>b, <2>1, <2>2 DEF Unnoticed, Behind
<1> QED BY <1>2, <1>3, <1>4, <1>5, <1>6, <1>7, <1>8, <1>9, <1>10, <1>11, <1>12, <1>13
        DEF FeedNext, Sim, NewWorld

\* The inductive invariant, for any units, any number of worlds and any losses that
\* leave an old world's clock ahead: AgeAssumption.
THEOREM FeedInvariantHolds == FeedSpec => []FeedIInv
<1>1. FeedInit => FeedIInv
  BY FeedInitTypes DEF FeedInit, FeedIInv, Unnoticed, Owed, OldRows
<1>2. FeedIInv /\ [FeedNext]_fvars => FeedIInv'
  BY FeedStepTypes, FeedStepUnnoticed DEF FeedIInv
<1> QED BY <1>1, <1>2, PTL DEF FeedSpec

\* The table, the board, both queues and the answer in hand keep their types
\* whatever is lost, dialled again or loaded anew.
THEOREM FeedTypeCorrect == FeedSpec => []FeedTypeOK
BY FeedInvariantHolds, PTL DEF FeedIInv

\* The safety half of OldWorldForgotten (_world_changed): as long as a row of an old
\* world is on the board, and no wipe has failed, the clock seen last is ahead of the
\* simulator's, so that the end of that world cannot be missed by being looked at too
\* late.
OldRowsAreBehind == Owed => sim.clock < was

\* The clock that is compared stays ahead of the new world's for as long as it has to.
THEOREM OldWorldIsBehind == FeedSpec => []OldRowsAreBehind
<1>1. FeedIInv => OldRowsAreBehind
  <2> SUFFICES ASSUME FeedTypeOK, Unnoticed, Owed PROVE sim.clock < was
    BY DEF FeedIInv, OldRowsAreBehind
  <2>1. /\ sim.clock \in Nat /\ sweep.clock \in Nat /\ was \in Int /\ FailsLeft \in Nat
        /\ sweep.pc \in {"rest", "due", "asked", "wiped", "noted"}
    BY BoundsAreNumbers DEF FeedTypeOK, FailsLeft, Never
  <2> QED BY <2>1 DEF Unnoticed, Behind
<1> QED BY <1>1, FeedInvariantHolds, PTL

\* A sweep that was answered by the world that is loaded leaves no row of another
\* (_world_changed, then clear_all, before anything else of the answer is applied),
\* however many worlds those rows were made in -- if no clear_all has failed: the
\* clock is noted before it, and it is not tried again.
AnswerForgets ==
    /\ sweep.pc = "asked" /\ sweep'.pc = "wiped" /\ sweep.clock = sim.clock
    /\ "wipe" \notin lost'
    => OldRows' = {}

\* One answer of this world is enough.
THEOREM AnswerForgetsTheOld == FeedSpec => [][AnswerForgets]_fvars
<1>1. FeedIInv /\ [FeedNext]_fvars => [AnswerForgets]_fvars
  <2> SUFFICES ASSUME FeedTypeOK, Unnoticed, FeedNext,
                      sweep.pc = "asked", sweep'.pc = "wiped", sweep.clock = sim.clock,
                      "wipe" \notin lost'
               PROVE  OldRows' = {}
    BY DEF FeedIInv, AnswerForgets
  <2>1. Wipe
    BY DEF FeedNext, Sim, NewWorld, Born, Dies, TakesOff, Lands, Moves, Reload, Drop,
           ReconnectUnits, ReconnectEvents, ApplyUnit, ApplyUnitFails, ApplyEvent,
           ApplyEventFails, Tick, Ask, SweepFails, WipeFails, Note, Reap, Bind
  <2>2. sim.clock \in Nat /\ was \in Int /\ FailsLeft \in Nat
    BY BoundsAreNumbers DEF FeedTypeOK, FailsLeft, Never
  <2>3. CASE WorldChanged(sweep.clock)
    BY <2>1, <2>3 DEF Wipe, Wiped, NoBoard, OldRows
  <2>4. CASE ~WorldChanged(sweep.clock)
    <3>1. OldRows = {}
      BY <2>1, <2>2, <2>4 DEF Wipe, Owed, Unnoticed, Behind, WorldChanged, Never
    <3> QED BY <2>1, <2>4, <3>1 DEF Wipe, OldRows
  <2> QED BY <2>3, <2>4
<1> QED BY <1>1, FeedInvariantHolds, PTL DEF FeedSpec

\* What set_in_air or _note_in_air wrote of an aircraft is not taken back while the
\* row stays: a track written again (_upsert) leaves in_air as it was, and only a row
\* that was deleted and made anew has none.
InAirIsKept ==
    \A u \in Units : tracks[u] \in {"air", "ground"} => tracks'[u] # "unknown"

\* None of the writers of the table goes back to not knowing.
THEOREM InAirIsNotForgotten == FeedSpec => [][InAirIsKept]_fvars
<1>1. FeedTypeOK /\ [FeedNext]_fvars => [InAirIsKept]_fvars
  <2> SUFFICES ASSUME FeedTypeOK, FeedNext PROVE InAirIsKept
    OBVIOUS
  <2> USE DEF InAirIsKept
  <2>1. tracks \in [Units -> Rows]
    BY DEF FeedTypeOK
  <2>2. CASE UNCHANGED tracks
    BY <2>2
  <2>3. CASE Wiped
    BY <2>3 DEF Wiped
  <2>4. CASE ApplyUnit
    BY <2>1, <2>4 DEF ApplyUnit, Upserted
  <2>5. CASE ApplyEvent
    <3>1. ASSUME NEW u, NEW flying, tracks' = InAir(u, flying) PROVE InAirIsKept
      BY <2>1, <3>1 DEF InAir
    <3> QED BY <2>3, <2>5, <3>1 DEF ApplyEvent
  <2>6. CASE Wipe
    BY <2>2, <2>3, <2>6 DEF Wipe
  <2>7. CASE Note
    BY <2>1, <2>7 DEF Note
  <2>8. CASE Reap
    BY <2>1, <2>8 DEF Reap, Reaped
  <2> QED BY <2>2, <2>4, <2>5, <2>6, <2>7, <2>8
          DEF FeedNext, Sim, NewWorld, Born, Dies, TakesOff, Lands, Moves, Reload, Drop,
              ReconnectUnits, ReconnectEvents, ApplyUnitFails, ApplyEventFails, HalfWiped,
              Tick, Ask, SweepFails,
              WipeFails, Bind
<1> QED BY <1>1, FeedTypeCorrect, PTL DEF FeedSpec
==============================================================================
