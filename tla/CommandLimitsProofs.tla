------------------------ MODULE CommandLimitsProofs ------------------------
(***************************************************************************)
(* Theorems about CommandLimits, for any calls, actors, devices and any    *)
(* configuration.                                                          *)
(*                                                                         *)
(* PermitsConserved counts the calls that hold a permit.  A step changes   *)
(* the state of one call, so the set of holders of a device gains or loses *)
(* at most that call; what the proof adds to the property is the type of   *)
(* the state and that a call past its beginning has a device.              *)
(*                                                                         *)
(* RateIsBounded counts accepted requests by their stamps.  RateInv: the   *)
(* queue of an actor is the end of its history, and what was dropped from  *)
(* it expired at the latest now, so it is outside every window that a call *)
(* still to come can enter.                                                *)
(***************************************************************************)
EXTENDS CommandLimits, FiniteSetTheorems, SequenceTheorems, WellFoundedInduction, TLAPS

CallState ==
  [pc : {"idle", "rate", "look", "take", "work"}, actor : Actors \cup {"none"},
   device : Devices \cup {"none"}, now : Nat, rate : BOOLEAN, seen : BOOLEAN,
   permit : BOOLEAN]

LimitTypes ==
  /\ available \in [Devices -> Nat]
  /\ call \in [Calls -> CallState]
  /\ \A k \in Calls : call[k].pc # "idle" => call[k].device \in Devices
  /\ clock \in Nat

LimitInv == LimitTypes /\ PermitsConserved

\* The calls that hold a permit of a device, in a given state of the calls.
Holders(c, d) == {k \in Calls : c[k].pc = "work" /\ c[k].device = d /\ c[k].permit}

LEMMA HoldersOfState ==
  \A d : Holding(d) = Holders(call, d) /\ Holding(d)' = Holders(call', d)
  BY DEF Holding, Working, Holders

LEMMA HoldersFinite == \A c, d : IsFiniteSet(Holders(c, d))
  <1> TAKE c, d
  <1>1. Holders(c, d) \subseteq Calls
    BY DEF Holders
  <1> QED
    BY <1>1, CallsAssumption, FS_Subset

LEMMA IdleState == Idle \in CallState /\ Idle.pc = "idle"
  BY DEF Idle, CallState

\* A step of a call that neither takes nor gives back a permit.
LEMMA KeepsPermits ==
  ASSUME LimitInv, NEW k \in Calls, NEW w \in CallState, Goto(k, w), UNCHANGED available,
         clock' \in Nat, w.pc # "idle" => w.device \in Devices,
         \A d \in Devices : (k \in Holders(call, d)) <=> (w.pc = "work" /\ w.device = d /\ w.permit)
  PROVE  LimitInv'
  <1>1. call' = [call EXCEPT ![k] = w] /\ call \in [Calls -> CallState]
    BY DEF Goto, LimitInv, LimitTypes
  <1>2. LimitTypes'
    BY <1>1 DEF LimitInv, LimitTypes
  <1>3. \A d \in Devices : Holders(call', d) = Holders(call, d)
    BY <1>1 DEF Holders
  <1>4. PermitsConserved'
    BY <1>3, HoldersOfState DEF PermitsConserved, LimitInv
  <1> QED
    BY <1>2, <1>4 DEF LimitInv

\* A call takes a permit.
LEMMA TakesPermit ==
  ASSUME LimitInv, NEW k \in Calls, NEW w \in CallState, Goto(k, w), clock' \in Nat,
         NEW e \in Devices, w.pc = "work", w.device = e, w.permit, call[k].pc # "work",
         available[e] > 0, available' = [available EXCEPT ![e] = @ - 1]
  PROVE  LimitInv'
  <1>1. /\ call' = [call EXCEPT ![k] = w] /\ call \in [Calls -> CallState]
        /\ available \in [Devices -> Nat]
    BY DEF Goto, LimitInv, LimitTypes
  <1>2. LimitTypes'
    BY <1>1 DEF LimitInv, LimitTypes
  <1>3. /\ \A d \in Devices : d # e => Holders(call', d) = Holders(call, d)
        /\ Holders(call', e) = Holders(call, e) \cup {k} /\ k \notin Holders(call, e)
    BY <1>1 DEF Holders
  <1>4. Cardinality(Holders(call', e)) = Cardinality(Holders(call, e)) + 1
    BY <1>3, HoldersFinite, FS_AddElement
  <1>5. \A d \in Devices : Cardinality(Holders(call, d)) \in Nat
    BY HoldersFinite, FS_CardinalityType
  <1>6. \A d \in Devices : available[d] + Cardinality(Holders(call, d)) = DeviceConcurrency
    BY HoldersOfState DEF LimitInv, PermitsConserved
  <1>7. \A d \in Devices : available'[d] + Cardinality(Holders(call', d)) = DeviceConcurrency
    <2> TAKE d \in Devices
    <2>1. CASE d = e
      <3>1. available'[e] = available[e] - 1 /\ available[e] \in Nat
        BY <1>1
      <3> QED
        BY <1>4, <1>5, <1>6, <2>1, <3>1
    <2>2. CASE d # e
      <3>1. available'[d] = available[d] /\ Holders(call', d) = Holders(call, d)
        BY <1>1, <1>3, <2>2
      <3> QED
        BY <1>6, <3>1
    <2> QED
      BY <2>1, <2>2
  <1>8. PermitsConserved'
    BY <1>7, HoldersOfState DEF PermitsConserved
  <1> QED
    BY <1>2, <1>8 DEF LimitInv

\* A call drops its permit.
LEMMA DropsPermit ==
  ASSUME LimitInv, NEW k \in Calls, Goto(k, Idle), clock' \in Nat, call[k].pc = "work",
         call[k].permit, available' = [available EXCEPT ![call[k].device] = @ + 1]
  PROVE  LimitInv'
  <1> DEFINE e == call[k].device
  <1>1. /\ call' = [call EXCEPT ![k] = Idle] /\ call \in [Calls -> CallState]
        /\ available \in [Devices -> Nat] /\ e \in Devices
        /\ available' = [available EXCEPT ![e] = @ + 1]
    BY DEF Goto, LimitInv, LimitTypes
  <1>2. LimitTypes'
    BY <1>1, IdleState DEF LimitInv, LimitTypes
  <1>3. /\ \A d \in Devices : d # e => Holders(call', d) = Holders(call, d)
        /\ Holders(call', e) = Holders(call, e) \ {k} /\ k \in Holders(call, e)
    BY <1>1, IdleState DEF Holders
  <1> HIDE DEF e
  <1>4. Cardinality(Holders(call', e)) = Cardinality(Holders(call, e)) - 1
    BY <1>3, HoldersFinite, FS_RemoveElement
  <1>5. \A d \in Devices : Cardinality(Holders(call, d)) \in Nat
    BY HoldersFinite, FS_CardinalityType
  <1>6. \A d \in Devices : available[d] + Cardinality(Holders(call, d)) = DeviceConcurrency
    BY HoldersOfState DEF LimitInv, PermitsConserved
  <1>7. \A d \in Devices : available'[d] + Cardinality(Holders(call', d)) = DeviceConcurrency
    <2> TAKE d \in Devices
    <2>1. CASE d = e
      <3>1. available'[e] = available[e] + 1 /\ available[e] \in Nat
        BY <1>1
      <3> QED
        BY <1>4, <1>5, <1>6, <2>1, <3>1
    <2>2. CASE d # e
      <3>1. available'[d] = available[d] /\ Holders(call', d) = Holders(call, d)
        BY <1>1, <1>3, <2>2
      <3> QED
        BY <1>6, <3>1
    <2> QED
      BY <2>1, <2>2
  <1>8. PermitsConserved'
    BY <1>7, HoldersOfState DEF PermitsConserved
  <1> QED
    BY <1>2, <1>8 DEF LimitInv

\* Every step keeps the invariant.
LEMMA LimitStep == ASSUME LimitInv, [Next]_vars PROVE LimitInv'
  <1>0. /\ clock \in Nat /\ call \in [Calls -> CallState] /\ available \in [Devices -> Nat]
        /\ \A k \in Calls : call[k].pc # "idle" => call[k].device \in Devices
    BY DEF LimitInv, LimitTypes
  <1>1. ASSUME NEW k \in Calls, NEW a \in Actors, NEW d \in Devices,
               begin(k, a, d) \/ approve_unlock(k, a, d)
        PROVE  LimitInv'
    <2>1. PICK x \in {"rate", "work"} :
            Goto(k, [Idle EXCEPT !.pc = x, !.actor = a, !.device = d, !.now = clock])
      BY <1>1 DEF begin, approve_unlock
    <2> DEFINE w == [Idle EXCEPT !.pc = x, !.actor = a, !.device = d, !.now = clock]
    <2>2. w \in CallState /\ w.device = d /\ ~w.permit
      BY <1>0 DEF Idle, CallState
    <2>3. \A e \in Devices : k \notin Holders(call, e)
      BY <1>1, IdleState DEF begin, approve_unlock, Holders
    <2>4. UNCHANGED <<available, clock>>
      BY <1>1 DEF begin, approve_unlock
    <2> HIDE DEF w
    <2> QED
      BY <1>0, <2>1, <2>2, <2>3, <2>4, KeepsPermits DEF w
  <1>2. ASSUME NEW k \in Calls, try_acquire_rate(k) \/ try_acquire_look(k)
        PROVE  LimitInv'
    <2>1. call[k].pc \in {"rate", "look"} /\ UNCHANGED <<available, clock>>
      BY <1>2 DEF try_acquire_rate, try_acquire_look
    <2>2. \E b \in BOOLEAN : \/ Goto(k, [call[k] EXCEPT !.pc = "look", !.rate = b])
                             \/ Goto(k, [call[k] EXCEPT !.pc = "take", !.seen = b])
      <3>1. CASE try_acquire_look(k)
        <4> DEFINE b == available[call[k].device] > 0
        <4>1. b \in BOOLEAN /\ Goto(k, [call[k] EXCEPT !.pc = "take", !.seen = b])
          BY <3>1 DEF try_acquire_look
        <4> QED
          BY <4>1
      <3>2. CASE try_acquire_rate(k)
        <4> DEFINE b == Len(pop_expired(requests[call[k].actor], call[k].now)) < ActorRequests
        <4>1. b \in BOOLEAN /\ Goto(k, [call[k] EXCEPT !.pc = "look", !.rate = b])
          BY <3>2 DEF try_acquire_rate
        <4> HIDE DEF b
        <4> QED
          BY <4>1
      <3> QED
        BY <1>2, <3>1, <3>2
    <2>3. PICK b \in BOOLEAN : \/ Goto(k, [call[k] EXCEPT !.pc = "look", !.rate = b])
                               \/ Goto(k, [call[k] EXCEPT !.pc = "take", !.seen = b])
      BY <2>2
    <2> DEFINE w == [call[k] EXCEPT !.pc = "look", !.rate = b]
               v == [call[k] EXCEPT !.pc = "take", !.seen = b]
    <2>4. /\ w \in CallState /\ w.pc = "look" /\ w.device \in Devices
          /\ v \in CallState /\ v.pc = "take" /\ v.device \in Devices
      BY <1>0, <2>1 DEF CallState
    <2>5. \A e \in Devices : k \notin Holders(call, e)
      BY <2>1 DEF Holders
    <2>6. Goto(k, w) \/ Goto(k, v)
      BY <2>3
    <2> HIDE DEF w, v
    <2> QED
      BY <1>0, <2>1, <2>4, <2>5, <2>6, KeepsPermits
  <1>3. ASSUME NEW k \in Calls, try_acquire_take(k) PROVE LimitInv'
    <2> DEFINE d == call[k].device
               permit == call[k].rate /\ available[d] > 0
               w == [call[k] EXCEPT !.pc = "work", !.permit = permit]
    <2>1. /\ call[k].pc = "take" /\ UNCHANGED clock /\ d \in Devices
          /\ \A e \in Devices : k \notin Holders(call, e)
      BY <1>0, <1>3 DEF try_acquire_take, Holders
    <2>2. CASE Goto(k, w) /\ permit /\ available' = [available EXCEPT ![d] = @ - 1]
      <3>1. w \in CallState /\ w.pc = "work" /\ w.device = d /\ w.permit
        BY <1>0, <2>2 DEF CallState
      <3> HIDE DEF w, permit
      <3>2. available[d] > 0
        BY <2>2 DEF permit
      <3> HIDE DEF d
      <3>3. available' = [available EXCEPT ![d] = @ - 1] /\ Goto(k, w)
        BY <2>2
      <3> QED
        BY <1>0, <2>1, <3>1, <3>2, <3>3, TakesPermit
    <2>3. CASE Goto(k, w) /\ ~permit /\ UNCHANGED available
      <3>1. w \in CallState /\ w.pc = "work" /\ w.device = d /\ ~w.permit
        BY <1>0, <2>3 DEF CallState
      <3> HIDE DEF w, permit, d
      <3> QED
        BY <1>0, <2>1, <2>3, <3>1, KeepsPermits
    <2>4. CASE Goto(k, Idle) /\ UNCHANGED available
      BY <1>0, <2>1, <2>4, IdleState, KeepsPermits
    <2> QED
      BY <1>3, <2>2, <2>3, <2>4 DEF try_acquire_take
  <1>4. ASSUME NEW k \in Calls, drop_permit(k) PROVE LimitInv'
    <2>1. call[k].pc = "work" /\ Goto(k, Idle) /\ UNCHANGED clock
      BY <1>4 DEF drop_permit
    <2>2. CASE call[k].permit
      BY <1>0, <1>4, <2>1, <2>2, DropsPermit DEF drop_permit
    <2>3. CASE ~call[k].permit
      <3>1. \A e \in Devices : k \notin Holders(call, e)
        BY <2>3 DEF Holders
      <3> QED
        BY <1>0, <1>4, <2>1, <2>3, <3>1, IdleState, KeepsPermits DEF drop_permit
    <2> QED
      BY <2>2, <2>3
  <1>5. CASE Tick \/ UNCHANGED vars
    <2>1. UNCHANGED <<available, call>> /\ clock' \in Nat
      BY <1>0, <1>5 DEF Tick, vars
    <2>2. PermitsConserved'
      BY <2>1, HoldersOfState DEF LimitInv, PermitsConserved
    <2> QED
      BY <2>1, <2>2 DEF LimitInv, LimitTypes
  <1> QED
    BY <1>1, <1>2, <1>3, <1>4, <1>5 DEF Next

LEMMA LimitInitially == Init => LimitInv
  <1> SUFFICES ASSUME Init PROVE LimitInv
    OBVIOUS
  <1>1. LimitTypes
    BY ConfigAssumption, IdleState DEF Init, LimitTypes
  <1>2. \A d \in Devices : Holders(call, d) = {}
    BY IdleState DEF Init, Holders
  <1>3. \A d \in Devices : Cardinality(Holding(d)) = 0 /\ available[d] = DeviceConcurrency
    BY <1>2, HoldersOfState, FS_EmptySet DEF Init
  <1>4. PermitsConserved
    BY <1>3, ConfigAssumption DEF PermitsConserved
  <1> QED
    BY <1>1, <1>4 DEF LimitInv

\* No interleaving of try_acquire, dispatch, interactive approval and the drop
\* of a CommandPermit leaks or duplicates a permit of a device's semaphore,
\* whatever the number of calls and the configured concurrency.
THEOREM PermitsAreConserved == Spec => []PermitsConserved
  <1>1. Init => LimitInv
    BY LimitInitially
  <1>2. LimitInv /\ [Next]_vars => LimitInv'
    BY LimitStep
  <1>3. LimitInv => PermitsConserved
    BY DEF LimitInv
  <1> QED
    BY <1>1, <1>2, <1>3, PTL DEF Spec

-----------------------------------------------------------------------------
(* The sliding window                                                      *)

\* The queue is the end of the history; what is before it has expired.
QueueOK(queue, history, now) ==
  /\ queue \in Seq(Nat) /\ history \in Seq(Nat)
  /\ Len(queue) <= Len(history) /\ Len(queue) <= ActorRequests
  /\ \A i \in 1..Len(queue) : queue[i] = history[Len(history) - Len(queue) + i]
  /\ \A i \in 1..(Len(history) - Len(queue)) : history[i] + ActorWindow <= now

\* A call that has captured its instant is not older than MaxDelay.
StampOK(w, now) ==
  w.pc = "rate" => /\ w.actor \in Actors
                   /\ w.now \in Nat /\ w.now <= now /\ now <= w.now + MaxDelay

RateInv ==
  /\ clock \in Nat
  /\ DOMAIN call = Calls /\ DOMAIN requests = Actors /\ DOMAIN accepted = Actors
  /\ \A a \in Actors : QueueOK(requests[a], accepted[a], clock)
  /\ \A k \in Calls : StampOK(call[k], clock)
  /\ RateIsBounded

LEMMA NatMin ==
  ASSUME NEW S, S \subseteq Nat, S # {}
  PROVE  Min(S) \in S /\ \A y \in S : Min(S) <= y
  <1> DEFINE less == OpToRel(<, Nat)
  <1>1. IsWellFoundedOn(less, Nat)
    BY NatLessThanWellFounded
  <1>2. \A x, y \in Nat : x < y => <<x, y>> \in less
    BY DEF OpToRel
  <1> HIDE DEF less
  <1>3. PICK x \in S : \A y \in S : ~ (<<y, x>> \in less)
    BY <1>1, WFMin
  <1>4. ASSUME NEW y \in S PROVE x <= y
    <2>1. x \in Nat /\ y \in Nat /\ ~(y < x)
      BY <1>2, <1>3
    <2> QED
      BY <2>1
  <1> QED
    BY <1>4 DEF Min

\* pop_expired drops a front of the queue that has expired, and nothing else.
LEMMA PopExpired ==
  ASSUME NEW queue \in Seq(Nat), NEW now \in Nat
  PROVE  LET left == pop_expired(queue, now) IN
         /\ left \in Seq(Nat)
         /\ \E m \in 0..Len(queue) :
              /\ Len(left) = Len(queue) - m
              /\ \A i \in 1..Len(left) : left[i] = queue[m + i]
              /\ \A i \in 1..m : queue[i] + ActorWindow <= now
  <1> DEFINE fresh == {i \in DOMAIN queue : queue[i] + ActorWindow > now}
             first == IF fresh = {} THEN Len(queue) + 1 ELSE Min(fresh)
             left == SubSeq(queue, first, Len(queue))
             m == first - 1
  <1>1. pop_expired(queue, now) = left
    BY DEF pop_expired
  <1>2. ActorWindow \in Nat /\ Len(queue) \in Nat /\ DOMAIN queue = 1..Len(queue)
        /\ \A i \in 1..Len(queue) : queue[i] \in Nat
    BY ConfigAssumption
  <1>3. fresh \subseteq Nat
    BY <1>2
  <1>4. /\ first \in 1..(Len(queue) + 1)
        /\ \A i \in 1..Len(queue) : i < first => queue[i] + ActorWindow <= now
    <2>1. CASE fresh = {}
      <3>1. \A i \in 1..Len(queue) : queue[i] + ActorWindow <= now
        <4> TAKE i \in 1..Len(queue)
        <4>1. ~(queue[i] + ActorWindow > now)
          BY <1>2, <2>1
        <4> QED
          BY <1>2, <4>1
      <3> QED
        BY <1>2, <2>1, <3>1
    <2>2. CASE fresh # {}
      <3>1. first \in fresh /\ \A y \in fresh : first <= y
        BY <1>3, <2>2, NatMin
      <3>2. ASSUME NEW i \in 1..Len(queue), i < first
            PROVE  queue[i] + ActorWindow <= now
        <4> HIDE DEF first
        <4>1. i \notin fresh
          <5> HIDE DEF fresh
          <5>1. i \in Nat /\ first \in Nat
            BY <1>2, <1>3, <3>1
          <5> QED
            BY <3>1, <3>2, <5>1
        <4>2. ~(queue[i] + ActorWindow > now)
          BY <1>2, <4>1
        <4> QED
          BY <1>2, <4>2
      <3>3. first \in 1..Len(queue)
        BY <1>2, <3>1
      <3> HIDE DEF first
      <3> QED
        BY <1>2, <3>2, <3>3
    <2> QED
      BY <2>1, <2>2
  <1> HIDE DEF first
  <1>5. /\ left \in Seq(Nat) /\ Len(left) = Len(queue) - m
        /\ \A i \in 1..Len(left) : left[i] = queue[m + i]
    <2>1. first \in Nat /\ first >= 1 /\ first <= Len(queue) + 1
      BY <1>2, <1>4
    <2> QED
      BY <1>2, <2>1, SubSeqProperties
  <1>6. m \in 0..Len(queue) /\ \A i \in 1..m : queue[i] + ActorWindow <= now
    BY <1>2, <1>4
  <1> HIDE DEF left, m
  <1> QED
    BY <1>1, <1>5, <1>6

\* The indices of a history in a window.
Window(history, t) ==
  {i \in DOMAIN history : history[i] <= t /\ history[i] + (ActorWindow - MaxDelay) > t}

LEMMA WindowOfState ==
  \A a, t : /\ InWindow(a, t, ActorWindow - MaxDelay) = Window(accepted[a], t)
            /\ InWindow(a, t, ActorWindow - MaxDelay)' = Window(accepted'[a], t)
  BY DEF InWindow, Window

\* The section under the mutex, on the queue and the history of one actor: a
\* queue with room takes the request, and no window gets more than the queue
\* can hold.
LEMMA Accepts ==
  ASSUME NEW queue, NEW history, NEW time \in Nat, QueueOK(queue, history, time),
         NEW now \in Nat, now <= time, time <= now + MaxDelay,
         NEW left, left = pop_expired(queue, now)
  PROVE  /\ QueueOK(left, history, time)
         /\ Len(left) < ActorRequests =>
              /\ QueueOK(Append(left, now), Append(history, now), time)
              /\ \A t \in Nat :
                   Cardinality(Window(history, t)) <= ActorRequests =>
                     Cardinality(Window(Append(history, now), t)) <= ActorRequests
  <1>1. queue \in Seq(Nat) /\ history \in Seq(Nat) /\ left \in Seq(Nat)
    BY PopExpired DEF QueueOK
  <1>2. PICK m \in 0..Len(queue) :
          /\ Len(left) = Len(queue) - m
          /\ \A i \in 1..Len(left) : left[i] = queue[m + i]
          /\ \A i \in 1..m : queue[i] + ActorWindow <= now
    BY <1>1, PopExpired
  <1> DEFINE n == Len(history)
             q == Len(queue)
             p == n - Len(left)
  <1>3. /\ n \in Nat /\ q \in Nat /\ Len(left) \in Nat /\ q <= n /\ q <= ActorRequests
        /\ ActorWindow \in Nat /\ MaxDelay \in Nat /\ ActorRequests \in Nat
        /\ p = n - q + m /\ p \in 0..n
    <2>1. n \in Nat /\ q \in Nat /\ Len(left) \in Nat
      BY <1>1
    <2>2. q <= n /\ q <= ActorRequests
      BY DEF QueueOK
    <2>3. ActorWindow \in Nat /\ MaxDelay \in Nat /\ ActorRequests \in Nat
      BY ConfigAssumption, LimitBoundsAssumption
    <2> HIDE DEF n, q
    <2>4. Len(left) = q - m /\ m \in 0..q
      BY <1>2 DEF q
    <2> QED
      BY <2>1, <2>2, <2>3, <2>4
  <1>4. /\ \A i \in 1..q : queue[i] = history[n - q + i]
        /\ \A i \in 1..(n - q) : history[i] + ActorWindow <= time
        /\ \A i \in 1..n : history[i] \in Nat
    BY <1>1 DEF QueueOK
  <1>5. \A i \in 1..Len(left) : left[i] = history[p + i]
    <2> TAKE i \in 1..Len(left)
    <2>1. left[i] = queue[m + i] /\ m + i \in 1..q
      BY <1>2, <1>3
    <2>2. queue[m + i] = history[n - q + (m + i)]
      BY <1>4, <2>1
    <2>3. n - q + (m + i) = p + i
      BY <1>3
    <2> QED
      BY <2>1, <2>2, <2>3
  <1>6. \A i \in 1..p : history[i] + ActorWindow <= time
    <2> TAKE i \in 1..p
    <2>1. CASE i \in 1..(n - q)
      BY <1>4, <2>1
    <2>2. CASE i \notin 1..(n - q)
      <3> DEFINE j == i - (n - q)
      <3>1. j \in 1..m /\ j \in 1..q /\ n - q + j = i
        BY <1>2, <1>3, <2>2
      <3>2. queue[j] = history[i] /\ queue[j] + ActorWindow <= now
        BY <1>2, <1>4, <3>1
      <3>3. history[i] \in Nat
        BY <1>3, <1>4
      <3> HIDE DEF j
      <3> QED
        BY <1>3, <3>2, <3>3
    <2> QED
      BY <2>1, <2>2
  <1>7. QueueOK(left, history, time)
    BY <1>1, <1>2, <1>3, <1>5, <1>6 DEF QueueOK
  <1>8. ASSUME Len(left) < ActorRequests
        PROVE  QueueOK(Append(left, now), Append(history, now), time)
    <2> DEFINE new == Append(left, now)
               longer == Append(history, now)
    <2>1. /\ new \in Seq(Nat) /\ Len(new) = Len(left) + 1 /\ new[Len(left) + 1] = now
          /\ \A i \in 1..Len(left) : new[i] = left[i]
      BY <1>1, AppendProperties
    <2>2. /\ longer \in Seq(Nat) /\ Len(longer) = n + 1 /\ longer[n + 1] = now
          /\ \A i \in 1..n : longer[i] = history[i]
      BY <1>1, AppendProperties
    <2> HIDE DEF new, longer, n, p
    <2>3. Len(longer) - Len(new) = p
      BY <1>3, <2>1, <2>2 DEF p
    <2>4. \A i \in 1..Len(new) : new[i] = longer[p + i]
      <3> TAKE i \in 1..Len(new)
      <3>1. CASE i = Len(left) + 1
        <4>1. p + i = n + 1
          BY <1>3, <3>1 DEF p
        <4> QED
          BY <2>1, <2>2, <3>1, <4>1
      <3>2. CASE i \in 1..Len(left)
        <4>1. p + i \in 1..n
          BY <1>3, <3>2 DEF p
        <4> QED
          BY <1>5, <2>1, <2>2, <3>2, <4>1
      <3> QED
        BY <1>3, <2>1, <3>1, <3>2
    <2>5. \A i \in 1..p : longer[i] + ActorWindow <= time
      <3> TAKE i \in 1..p
      <3>1. i \in 1..n
        BY <1>3
      <3> QED
        BY <1>6, <2>2, <3>1
    <2>6. Len(new) <= Len(longer) /\ Len(new) <= ActorRequests
      BY <1>3, <1>8, <2>1, <2>2 DEF p
    <2>7. QueueOK(new, longer, time)
      <3> USE <2>3
      <3> QED
        BY <2>1, <2>2, <2>4, <2>5, <2>6 DEF QueueOK
    <2> QED
      BY <2>7 DEF new, longer
  <1>9. ASSUME Len(left) < ActorRequests, NEW t \in Nat,
               Cardinality(Window(history, t)) <= ActorRequests
        PROVE  Cardinality(Window(Append(history, now), t)) <= ActorRequests
    <2> DEFINE longer == Append(history, now)
               length == ActorWindow - MaxDelay
    <2>1. /\ longer \in Seq(Nat) /\ Len(longer) = n + 1 /\ longer[n + 1] = now
          /\ \A i \in 1..n : longer[i] = history[i]
          /\ DOMAIN longer = 1..(n + 1) /\ DOMAIN history = 1..n
      BY <1>1, AppendProperties
    <2> HIDE DEF longer, n, p
    <2>2. CASE now > t
      <3>1. Window(longer, t) = Window(history, t)
        <4>1. ASSUME NEW i \in 1..(n + 1), longer[i] <= t PROVE i \in 1..n
          <5>1. i # n + 1
            BY <2>1, <2>2, <4>1
          <5> QED
            BY <1>3, <5>1
        <4>2. 1..n \subseteq 1..(n + 1)
          BY <1>3
        <4> QED
          BY <2>1, <4>1, <4>2 DEF Window
      <3> QED
        BY <1>9, <3>1 DEF longer
    <2>3. CASE now <= t
      <3>1. Window(longer, t) \subseteq (p + 1)..(n + 1)
        <4> SUFFICES ASSUME NEW i \in Window(longer, t) PROVE i \in (p + 1)..(n + 1)
          OBVIOUS
        <4>1. i \in 1..(n + 1) /\ longer[i] + length > t
          BY <2>1 DEF Window
        <4>2. ASSUME i \in 1..p PROVE FALSE
          <5>1. i \in 1..n
            BY <1>3, <4>2
          <5>2. history[i] + ActorWindow <= time /\ longer[i] = history[i] /\ history[i] \in Nat
            BY <1>4, <1>6, <2>1, <4>2, <5>1 DEF n
          <5> QED
            BY <1>3, <2>3, <4>1, <5>2
        <4> QED
          BY <1>3, <4>1, <4>2
      <3>2. /\ IsFiniteSet((p + 1)..(n + 1))
            /\ Cardinality((p + 1)..(n + 1)) = IF p + 1 > n + 1 THEN 0 ELSE (n + 1) - (p + 1) + 1
        <4>1. p + 1 \in Int /\ n + 1 \in Int
          BY <1>3
        <4> DEFINE lo == p + 1
                   hi == n + 1
        <4> HIDE DEF lo, hi
        <4>2. IsFiniteSet(lo..hi) /\ Cardinality(lo..hi) = IF lo > hi THEN 0 ELSE hi - lo + 1
          BY <4>1, FS_Interval DEF lo, hi
        <4> QED
          BY <4>2 DEF lo, hi
      <3>3. /\ Cardinality(Window(longer, t)) <= Cardinality((p + 1)..(n + 1))
            /\ Cardinality(Window(longer, t)) \in Nat
        BY <3>1, <3>2, FS_Subset, FS_CardinalityType
      <3>4. Cardinality((p + 1)..(n + 1)) = Len(left) + 1
        BY <1>3, <3>2 DEF p
      <3>5. Cardinality(Window(longer, t)) <= ActorRequests
        BY <1>3, <1>9, <3>3, <3>4
      <3> QED
        BY <3>5 DEF longer
    <2> QED
      BY <1>3, <2>2, <2>3
  <1> QED
    BY <1>7, <1>8, <1>9

\* A step that leaves the queues alone.
LEMMA KeepsQueues ==
  ASSUME RateInv, UNCHANGED <<requests, accepted>>, clock' \in Nat, clock <= clock',
         DOMAIN call' = Calls, \A k \in Calls : StampOK(call'[k], clock')
  PROVE  RateInv'
  <1>1. RateIsBounded'
    BY WindowOfState DEF RateInv, RateIsBounded
  <1>2. ASSUME NEW a \in Actors PROVE QueueOK(requests'[a], accepted'[a], clock')
    <2>1. QueueOK(requests[a], accepted[a], clock)
      BY DEF RateInv
    <2>2. \A i \in 1..(Len(accepted[a]) - Len(requests[a])) :
             accepted[a][i] + ActorWindow <= clock'
      <3> TAKE i \in 1..(Len(accepted[a]) - Len(requests[a]))
      <3>1. accepted[a][i] + ActorWindow <= clock /\ accepted[a][i] \in Nat
        BY <2>1 DEF QueueOK
      <3> QED
        BY <3>1, ConfigAssumption DEF RateInv
    <2> QED
      BY <2>1, <2>2 DEF QueueOK
  <1> QED
    BY <1>1, <1>2 DEF RateInv

\* A call moves on; it is no longer, or has just begun to be, before the mutex.
LEMMA StampStep ==
  ASSUME RateInv, NEW k \in Calls, NEW w, StampOK(w, clock), Goto(k, w), UNCHANGED clock
  PROVE  DOMAIN call' = Calls /\ \A j \in Calls : StampOK(call'[j], clock')
  <1>1. DOMAIN call' = Calls /\ \A j \in Calls : call'[j] = IF j = k THEN w ELSE call[j]
    BY DEF Goto, RateInv
  <1> QED
    BY <1>1 DEF RateInv

LEMMA AcquireRate ==
  ASSUME LimitInv, RateInv, NEW k \in Calls, try_acquire_rate(k)
  PROVE  RateInv'
  <1> DEFINE a == call[k].actor
             now == call[k].now
             left == pop_expired(requests[a], now)
             rate == Len(left) < ActorRequests
             w == [call[k] EXCEPT !.pc = "look", !.rate = rate]
  <1>1. /\ a \in Actors /\ now \in Nat /\ now <= clock /\ clock <= now + MaxDelay
        /\ clock \in Nat
    BY DEF RateInv, StampOK, try_acquire_rate
  <1>2. /\ requests' = [requests EXCEPT ![a] = IF rate THEN Append(left, now) ELSE left]
        /\ accepted' = IF rate THEN [accepted EXCEPT ![a] = Append(@, now)] ELSE accepted
        /\ Goto(k, w) /\ UNCHANGED clock
    BY DEF try_acquire_rate
  <1>3. w.pc = "look"
    BY DEF LimitInv, LimitTypes, CallState
  <1>4. DOMAIN call' = Calls /\ \A j \in Calls : StampOK(call'[j], clock')
    <2>1. StampOK(w, clock)
      BY <1>3 DEF StampOK
    <2> HIDE DEF w
    <2> QED
      BY <1>2, <2>1, StampStep
  <1>5. QueueOK(requests[a], accepted[a], clock)
    BY <1>1 DEF RateInv
  <1>6. /\ DOMAIN requests' = Actors /\ DOMAIN accepted' = Actors
        /\ requests'[a] = IF rate THEN Append(left, now) ELSE left
        /\ accepted'[a] = IF rate THEN Append(accepted[a], now) ELSE accepted[a]
        /\ \A b \in Actors : b # a => requests'[b] = requests[b] /\ accepted'[b] = accepted[b]
    <2>1. DOMAIN requests = Actors /\ DOMAIN accepted = Actors
      BY DEF RateInv
    <2> HIDE DEF a, now, left, rate
    <2> QED
      BY <1>1, <1>2, <2>1
  <1>7. /\ QueueOK(left, accepted[a], clock)
        /\ rate =>
             /\ QueueOK(Append(left, now), Append(accepted[a], now), clock)
             /\ \A t \in Nat :
                  Cardinality(Window(accepted[a], t)) <= ActorRequests =>
                    Cardinality(Window(Append(accepted[a], now), t)) <= ActorRequests
    <2>1. left = pop_expired(requests[a], now)
      OBVIOUS
    <2> HIDE DEF a, now, left
    <2> QED
      BY <1>1, <1>5, <2>1, Accepts
  <1> HIDE DEF a, now, left, rate
  <1>8. \A b \in Actors : QueueOK(requests'[b], accepted'[b], clock')
    <2> TAKE b \in Actors
    <2>1. CASE b = a
      BY <1>2, <1>6, <1>7, <2>1
    <2>2. CASE b # a
      BY <1>2, <1>6, <2>2 DEF RateInv
    <2> QED
      BY <2>1, <2>2
  <1>9. RateIsBounded'
    <2> SUFFICES ASSUME NEW b \in Actors, NEW t \in 0..MaxTime
                 PROVE  Cardinality(Window(accepted'[b], t)) <= ActorRequests
      BY WindowOfState DEF RateIsBounded
    <2>1. Cardinality(Window(accepted[b], t)) <= ActorRequests
      BY WindowOfState DEF RateInv, RateIsBounded
    <2>2. t \in Nat
      BY LimitBoundsAssumption
    <2>3. CASE b = a /\ rate
      BY <1>6, <1>7, <2>1, <2>2, <2>3
    <2>4. CASE b # a \/ ~rate
      BY <1>6, <2>1, <2>4
    <2> QED
      BY <2>3, <2>4
  <1> QED
    BY <1>1, <1>2, <1>4, <1>6, <1>8, <1>9 DEF RateInv

LEMMA RateStep == ASSUME LimitInv, RateInv, [Next]_vars PROVE RateInv'
  <1>0. clock \in Nat /\ DOMAIN call = Calls /\ \A k \in Calls : StampOK(call[k], clock)
    BY DEF RateInv
  <1>1. ASSUME NEW k \in Calls, NEW a \in Actors, NEW d \in Devices,
               begin(k, a, d) \/ approve_unlock(k, a, d)
        PROVE  RateInv'
    <2>1. PICK x \in {"rate", "work"} :
            Goto(k, [Idle EXCEPT !.pc = x, !.actor = a, !.device = d, !.now = clock])
      BY <1>1 DEF begin, approve_unlock
    <2> DEFINE w == [Idle EXCEPT !.pc = x, !.actor = a, !.device = d, !.now = clock]
    <2>2. StampOK(w, clock)
      BY <1>0, LimitBoundsAssumption DEF StampOK, Idle
    <2>3. UNCHANGED <<requests, accepted, clock>>
      BY <1>1 DEF begin, approve_unlock
    <2> HIDE DEF w
    <2>4. DOMAIN call' = Calls /\ \A j \in Calls : StampOK(call'[j], clock')
      BY <2>1, <2>2, <2>3, StampStep DEF w
    <2> QED
      BY <1>0, <2>3, <2>4, KeepsQueues
  <1>2. ASSUME NEW k \in Calls, try_acquire_rate(k) PROVE RateInv'
    BY <1>2, AcquireRate
  <1>3. ASSUME NEW k \in Calls,
               try_acquire_look(k) \/ try_acquire_take(k) \/ drop_permit(k)
        PROVE  RateInv'
    <2>1. UNCHANGED <<requests, accepted, clock>>
      BY <1>3 DEF try_acquire_look, try_acquire_take, drop_permit
    <2>2. \E w : Goto(k, w) /\ w.pc # "rate"
      <3>1. call[k] \in CallState
        BY DEF LimitInv, LimitTypes
      <3>2. CASE try_acquire_look(k)
        <4> DEFINE w == [call[k] EXCEPT !.pc = "take", !.seen = available[call[k].device] > 0]
        <4>1. w.pc = "take"
          BY <3>1 DEF CallState
        <4>2. Goto(k, w)
          BY <3>2 DEF try_acquire_look
        <4> HIDE DEF w
        <4> QED
          BY <4>1, <4>2
      <3>3. CASE try_acquire_take(k)
        <4>1. \/ Goto(k, Idle)
              \/ \E permit : Goto(k, [call[k] EXCEPT !.pc = "work", !.permit = permit])
          BY <3>3 DEF try_acquire_take
        <4>2. ASSUME NEW permit, Goto(k, [call[k] EXCEPT !.pc = "work", !.permit = permit])
              PROVE  \E w : Goto(k, w) /\ w.pc # "rate"
          <5> DEFINE w == [call[k] EXCEPT !.pc = "work", !.permit = permit]
          <5>1. w.pc = "work"
            BY <3>1 DEF CallState
          <5>2. Goto(k, w)
            BY <4>2
          <5> HIDE DEF w
          <5> QED
            BY <5>1, <5>2
        <4> QED
          BY <4>1, <4>2, IdleState
      <3>4. CASE drop_permit(k)
        BY <3>4, IdleState DEF drop_permit
      <3> QED
        BY <1>3, <3>2, <3>3, <3>4
    <2>3. PICK w : Goto(k, w) /\ w.pc # "rate"
      BY <2>2
    <2>4. DOMAIN call' = Calls /\ \A j \in Calls : StampOK(call'[j], clock')
      BY <2>1, <2>3, StampStep DEF StampOK
    <2> QED
      BY <1>0, <2>1, <2>4, KeepsQueues
  <1>4. CASE Tick
    <2>1. UNCHANGED <<requests, accepted, call>> /\ clock' = clock + 1
      BY <1>4 DEF Tick
    <2>2. \A k \in Calls : StampOK(call'[k], clock')
      <3> TAKE k \in Calls
      <3>1. call[k].pc = "rate" => clock < call[k].now + MaxDelay
        BY <1>4 DEF Tick
      <3> QED
        BY <1>0, <2>1, <3>1, LimitBoundsAssumption DEF StampOK
    <2> QED
      BY <1>0, <2>1, <2>2, KeepsQueues
  <1>5. CASE UNCHANGED vars
    BY <1>0, <1>5, KeepsQueues DEF vars
  <1> QED
    BY <1>1, <1>2, <1>3, <1>4, <1>5 DEF Next

\* For any configuration, number of calls and interleaving of try_acquire, no
\* actor has more than actor_requests accepted requests stamped in a window of
\* actor_window less the longest wait of a call between its instant and the
\* mutex; calls that acquire at their instant are held to actor_window itself.
THEOREM RateIsKept == Spec => []RateIsBounded
  <1>1. Init => RateInv
    <2> SUFFICES ASSUME Init PROVE RateInv
      OBVIOUS
    <2>1. \A a \in Actors : requests[a] = <<>> /\ accepted[a] = <<>>
      BY DEF Init
    <2>2. \A a \in Actors : QueueOK(requests[a], accepted[a], clock)
      <3>1. QueueOK(<<>>, <<>>, clock)
        BY ConfigAssumption DEF QueueOK
      <3> QED
        BY <2>1, <3>1
    <2>3. \A a \in Actors : \A t : Window(accepted[a], t) = {}
      BY <2>1 DEF Window
    <2>4. RateIsBounded
      BY <2>3, WindowOfState, FS_EmptySet, ConfigAssumption DEF RateIsBounded
    <2>5. \A k \in Calls : StampOK(call[k], clock)
      BY IdleState DEF Init, StampOK
    <2> QED
      BY <2>2, <2>4, <2>5 DEF Init, RateInv
  <1>2. LimitInv /\ RateInv /\ [Next]_vars => RateInv'
    BY RateStep
  <1>3. RateInv => RateIsBounded
    BY DEF RateInv
  <1>4. LimitInv /\ [Next]_vars => LimitInv'
    BY LimitStep
  <1> QED
    BY <1>1, <1>2, <1>3, <1>4, LimitInitially, PTL DEF Spec
=============================================================================
