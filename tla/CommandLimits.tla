--------------------------- MODULE CommandLimits ---------------------------
(***************************************************************************)
(* CommandLimits: the in-memory admission state shared by all command      *)
(* calls.  try_acquire takes the state mutex for the actor's sliding       *)
(* window, releases it, and only then looks at and takes from the device's *)
(* semaphore: three steps of a call that others may separate.  An admitted *)
(* call works on the device until it drops its permit.                     *)
(***************************************************************************)
EXTENDS Integers, Sequences, FiniteSets, FiniteSetsExt

CONSTANTS
  Calls, Actors, Devices,
  ActorRequests,      \* CommandLimitConfig::actor_requests
  ActorWindow,        \* CommandLimitConfig::actor_window
  DeviceConcurrency,  \* CommandLimitConfig::device_concurrency
  MaxTime,            \* bound of the clock
  MaxDelay,           \* how long a call may wait between reading now and acquiring
  MaxApprovals        \* bound on interactive approvals

ASSUME ConfigAssumption ==
  /\ ActorRequests \in Nat \ {0}
  /\ ActorWindow \in Nat \ {0}
  /\ DeviceConcurrency \in Nat \ {0}
ASSUME LimitBoundsAssumption == {MaxTime, MaxDelay, MaxApprovals} \subseteq Nat
\* A process holds finitely many calls at a time.
ASSUME CallsAssumption == IsFiniteSet(Calls)

VARIABLES
  requests,   \* LimitState::actor_requests: the stamps of each actor
  available,  \* permits left in each device's semaphore
  call,       \* the private state of every call
  accepted,   \* history: the stamps of the actor's accepted requests, in their order
  approvals,  \* used bound
  clock

vars == <<requests, available, call, accepted, approvals, clock>>

Idle == [pc |-> "idle", actor |-> "none", device |-> "none", now |-> 0,
         rate |-> FALSE, seen |-> FALSE, permit |-> FALSE]

Goto(k, next) == call' = [call EXCEPT ![k] = next]

-----------------------------------------------------------------------------
\* Mutant: a stamp expires one tick early.
pop_expired_early(stamps, now) ==
  LET fresh == {i \in DOMAIN stamps : stamps[i] + ActorWindow > now + 1}
      first == IF fresh = {} THEN Len(stamps) + 1 ELSE Min(fresh)
  IN SubSeq(stamps, first, Len(stamps))

\* The stamps left after dropping the expired ones at the front.
pop_expired(stamps, now) ==
  LET fresh == {i \in DOMAIN stamps : stamps[i] + ActorWindow > now}
      first == IF fresh = {} THEN Len(stamps) + 1 ELSE Min(fresh)
  IN SubSeq(stamps, first, Len(stamps))

\* A call reaches try_acquire with the instant it captured when it began.
begin(k, a, d) ==
  /\ call[k] = Idle
  /\ Goto(k, [Idle EXCEPT !.pc = "rate", !.actor = a, !.device = d, !.now = clock])
  /\ UNCHANGED <<requests, available, accepted, approvals, clock>>

\* The section of try_acquire under the mutex.
try_acquire_rate(k) ==
  /\ call[k].pc = "rate"
  /\ LET a == call[k].actor
         now == call[k].now
         left == pop_expired(requests[a], now)
         rate == Len(left) < ActorRequests
     IN /\ requests' = [requests EXCEPT ![a] = IF rate THEN Append(left, now) ELSE left]
        /\ accepted' = IF rate THEN [accepted EXCEPT ![a] = Append(@, now)] ELSE accepted
        /\ Goto(k, [call[k] EXCEPT !.pc = "look", !.rate = rate])
  /\ UNCHANGED <<available, approvals, clock>>

\* device_was_available = device.available_permits() > 0
try_acquire_look(k) ==
  /\ call[k].pc = "look"
  /\ Goto(k, [call[k] EXCEPT !.pc = "take", !.seen = available[call[k].device] > 0])
  /\ UNCHANGED <<requests, available, accepted, approvals, clock>>

\* permit.is_some() || device_was_available
device_capacity(permit, seen) == permit \/ seen

\* try_acquire_owned, the capacities it yields, and the policy's verdict on
\* them: a call without capacity is rejected and drops what it holds.
try_acquire_take(k) ==
  /\ call[k].pc = "take"
  /\ LET d == call[k].device
         permit == call[k].rate /\ available[d] > 0
         admitted == call[k].rate /\ device_capacity(permit, call[k].seen)
     IN IF admitted
        THEN /\ Goto(k, [call[k] EXCEPT !.pc = "work", !.permit = permit])
             /\ available' = IF permit THEN [available EXCEPT ![d] = @ - 1] ELSE available
        ELSE /\ Goto(k, Idle)
             /\ UNCHANGED available
  /\ UNCHANGED <<requests, accepted, approvals, clock>>

\* approve_unlock dispatches without consulting the limits.
approve_unlock(k, a, d) ==
  /\ call[k] = Idle
  /\ approvals < MaxApprovals
  /\ approvals' = approvals + 1
  /\ Goto(k, [Idle EXCEPT !.pc = "work", !.actor = a, !.device = d, !.now = clock])
  /\ UNCHANGED <<requests, available, accepted, clock>>

\* Mutant: the permit is forgotten instead of dropped.
drop_permit_leaking(k) ==
  /\ call[k].pc = "work"
  /\ Goto(k, Idle)
  /\ UNCHANGED <<requests, available, accepted, approvals, clock>>

\* The call returns, with an error or not, and its CommandPermit is dropped.
drop_permit(k) ==
  /\ call[k].pc = "work"
  /\ available' = IF call[k].permit
                  THEN [available EXCEPT ![call[k].device] = @ + 1]
                  ELSE available
  /\ Goto(k, Idle)
  /\ UNCHANGED <<requests, accepted, approvals, clock>>

Tick ==
  /\ clock < MaxTime
  /\ \A k \in Calls : call[k].pc = "rate" => clock < call[k].now + MaxDelay
  /\ clock' = clock + 1
  /\ UNCHANGED <<requests, available, call, accepted, approvals>>

-----------------------------------------------------------------------------
Init ==
  /\ requests = [a \in Actors |-> <<>>]
  /\ available = [d \in Devices |-> DeviceConcurrency]
  /\ call = [k \in Calls |-> Idle]
  /\ accepted = [a \in Actors |-> <<>>]
  /\ approvals = 0
  /\ clock = 0

Next ==
  \/ \E k \in Calls, a \in Actors, d \in Devices : begin(k, a, d)
  \/ \E k \in Calls : try_acquire_rate(k)
  \/ \E k \in Calls : try_acquire_look(k)
  \/ \E k \in Calls : try_acquire_take(k)
  \/ \E k \in Calls, a \in Actors, d \in Devices : approve_unlock(k, a, d)
  \/ \E k \in Calls : drop_permit(k)
  \/ Tick

Spec == Init /\ [][Next]_vars

-----------------------------------------------------------------------------
(* Properties.                                                             *)

Working(d) == {k \in Calls : call[k].pc = "work" /\ call[k].device = d}
Holding(d) == {k \in Working(d) : call[k].permit}

\* No path of a call leaks or duplicates a device permit: what is available
\* and what working calls hold always add up to the configured concurrency
\* (try_acquire, CommandPermit).
PermitsConserved ==
  \A d \in Devices : available[d] + Cardinality(Holding(d)) = DeviceConcurrency

\* The accepted requests of an actor stamped in the window of a length that
\* ends at t.
InWindow(a, t, length) ==
  {i \in DOMAIN accepted[a] : accepted[a][i] <= t /\ accepted[a][i] + length > t}

\* CommandLimitConfig::actor_requests bounds the accepted requests per actor
\* in any window of actor_window, less the time a call may wait between
\* capturing its instant and try_acquire: a late call meets a queue from which
\* later ones have already dropped what still counts for its own instant.
RateIsBounded ==
  \A a \in Actors, t \in 0..MaxTime :
    Cardinality(InWindow(a, t, ActorWindow - MaxDelay)) <= ActorRequests
=============================================================================
