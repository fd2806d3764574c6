------------------------------- MODULE Foundation -------------------------------
(***************************************************************************)
(* The device foundation: what the daemon knows of its devices.  Every     *)
(* writer (the runtime worker, an RPC call, the WebSocket session of a     *)
(* device) reads a record from the registry in memory, changes its copy,   *)
(* commits the copy to the store and only then puts it into the registry,  *)
(* with no lock over the three; a refresh then replaces the sessions of    *)
(* the devices it found and a subscriber is woken.  The refresh of the     *)
(* worker runs under a deadline that may drop it at any await.             *)
(*                                                                         *)
(* Time is a small number.  A record keeps its lifecycle, availability,    *)
(* first sight, last success and the metadata people set; the snapshot     *)
(* (name, endpoints, addresses), repairs and observed values are left out. *)
(* No adapter reports a device as sleeping, so that state is left out too. *)
(***************************************************************************)
EXTENDS Integers, FiniteSets

CONSTANTS
  Devices,        \* identities a scan may find
  Tasks,          \* bound: session tasks alive at once
  None,           \* model value: no process, task or device
  StaleAfter,     \* FreshnessPolicy, in units of time
  OfflineAfter,
  GapCapacity,    \* capacity of the channel of refresh requests
  EventPage,      \* events per page of a subscription
  Loads           \* bounds of an instance: how often a scan finds devices, the clock
                  \* ticks, a device sends, a call is made ... in one behaviour

ASSUME FoundationAssumption ==
  /\ StaleAfter \in Nat \ {0} /\ OfflineAfter \in Nat /\ StaleAfter < OfflineAfter
  /\ GapCapacity \in Nat \ {0} /\ EventPage \in Nat \ {0}
  /\ None \notin Devices \cup Tasks \cup {"worker", "api"}
  /\ Tasks \cap {"worker", "api"} = {}
  /\ Loads \subseteq [{"scans", "ticks", "notes", "calls", "faults", "cuts", "crashes", "subs"}
                      -> Nat]

VARIABLES
  now,            \* the clock
  db, reg,        \* durable records and the DeviceRegistry, by device
  tail,           \* cursor of the last durable event
  proc,           \* what each process is doing, with its private copies
  sess,           \* device, cancellation flag and cached timestamp of a session task
  owned,          \* the supervisor's map from device to session task
  lock,           \* holder of the supervisor's mutex across an await
  gaps,           \* refresh requests pending
  orphan,         \* a write whose refresh was dropped while it was being committed
  sub,            \* one WebSocket subscription and its client
  load            \* what is left of the load of this behaviour

vars == <<now, db, reg, tail, proc, sess, owned, lock, gaps, orphan, sub, load>>

Services == {"worker", "api"}
Processes == Services \cup Tasks

Max2(a, b) == IF a < b THEN b ELSE a

NoRecord == [life |-> "Unknown", avail |-> "Unknown", first |-> 0, success |-> 0, meta |-> 0]
Nothing == [d \in Devices |-> NoRecord]
Over(write, table) ==
  [d \in Devices |-> IF write[d] = NoRecord THEN table[d] ELSE write[d]]
Only(d, record) == [Nothing EXCEPT ![d] = record]

Idle == [pc |-> "idle", kind |-> "none", at |-> 0, write |-> Nothing, n |-> 0,
         todo |-> {}, dev |-> None, join |-> None]

-----------------------------------------------------------------------------
(* Records: lifecycle, timestamps and freshness.                           *)

\* Lifecycle transitions; no caller asks for one that is an error.
transition(life, trigger) ==
  CASE trigger = "Enroll" /\ life = "Candidate" -> "Enrolled"
    [] trigger = "Rediscover" /\ life \in {"Enrolled", "Stale", "Removed"} -> "Enrolled"
    [] trigger = "Remove" /\ life \in {"Candidate", "Enrolled", "Stale"} -> "Removed"
    [] trigger = "MarkStale" /\ life = "Enrolled" -> "Stale"
    [] OTHER -> "Error"

\* record_seen and record_success refuse an instant before the first sight.
chronological(r, at) == at >= r.first
record_success(r, at) == [r EXCEPT !.success = Max2(@, at)]

\* FreshnessPolicy::evaluate for a device that has succeeded at least once.
evaluate(r) ==
  LET elapsed == Max2(now - r.success, 0)
  IN  IF elapsed >= OfflineAfter THEN "Offline"
      ELSE IF elapsed >= StaleAfter THEN "Stale" ELSE "Fresh"

\* Events that a changed lifecycle or availability gives rise to.
Changes(old, write) ==
  Cardinality({c \in Devices \X {"life", "avail"} :
                 write[c[1]] # NoRecord /\ write[c[1]][c[2]] # old[c[1]][c[2]]})

\* reconcile: a device not known becomes an enrolled candidate, a known one is
\* seen again, online and enrolled whatever it was before.
candidate(at) == [life |-> transition("Candidate", "Enroll"), avail |-> "Online",
                  first |-> at, success |-> at, meta |-> 0]
update_record(r, at) ==
  [record_success(r, at) EXCEPT
     !.life = IF @ = "Enrolled" THEN @ ELSE transition(@, "Rediscover"),
     !.avail = "Online"]
reconcile(found, at) ==
  [d \in Devices |-> IF d \notin found THEN NoRecord
                     ELSE IF reg[d] = NoRecord THEN candidate(at)
                     ELSE update_record(reg[d], at)]
reconcilable(found, at) ==
  \A d \in found : reg[d] # NoRecord => chronological(reg[d], at)

\* evaluate_freshness: what freshness says of one record, and the records it
\* changes.
freshened(r) ==
  CASE evaluate(r) = "Fresh" ->
         [r EXCEPT !.life = IF @ = "Stale" THEN transition(@, "Rediscover") ELSE @,
                   !.avail = "Online"]
    [] evaluate(r) = "Stale" ->
         [r EXCEPT !.life = IF @ = "Enrolled" THEN transition(@, "MarkStale") ELSE @,
                   !.avail = "Degraded"]
    [] evaluate(r) = "Offline" ->
         [r EXCEPT !.life = IF @ = "Enrolled" THEN transition(@, "MarkStale") ELSE @,
                   !.avail = "Offline"]
\* Mutant: a device that is already stale is left to the next scan.
freshness_skips_stale ==
  [d \in Devices |->
     IF reg[d].life # "Enrolled" \/ freshened(reg[d]) = reg[d] THEN NoRecord
     ELSE freshened(reg[d])]
freshness_write ==
  [d \in Devices |->
     IF reg[d].life \in {"Unknown", "Candidate", "Removed"} \/ freshened(reg[d]) = reg[d]
     THEN NoRecord ELSE freshened(reg[d])]

-----------------------------------------------------------------------------
(* The steps every writer shares.                                          *)

\* A service is done with a refresh (the worker then evaluates freshness) or
\* with the whole call; a session goes back to its socket.
Finished(p) ==
  IF p = "worker" /\ proc[p].kind = "refresh" THEN [Idle EXCEPT !.pc = "freshness"]
  ELSE Idle
\* supervise_session after run has returned: stop if told to, else back off.
RunEnded(s) == [Idle EXCEPT !.pc = IF sess[s].cancel THEN "none" ELSE "backoff"]
Failed(p) == IF p \in Tasks THEN RunEnded(p) ELSE Finished(p)

\* FoundationRepository::apply, one transaction; it may fail.
apply(write, n) == /\ db' = Over(write, db)
                   /\ tail' = tail + n
Apply(p) ==
  /\ proc[p].pc = "apply"
  /\ apply(proc[p].write, proc[p].n)
  /\ proc' = [proc EXCEPT ![p].pc = "upsert"]
  /\ UNCHANGED <<now, reg, sess, owned, lock, gaps, orphan, sub, load>>
ApplyFails(p) ==
  /\ proc[p].pc = "apply" /\ load.faults > 0
  /\ proc' = [proc EXCEPT ![p] = Failed(p)]
  /\ load' = [load EXCEPT !.faults = @ - 1]
  /\ UNCHANGED <<now, db, reg, tail, sess, owned, lock, gaps, orphan, sub>>

\* DeviceRegistry::upsert_all, and what the writer does next: a refresh starts
\* the sessions of the enrolled devices it wrote.
upsert_all(p) ==
  LET w == proc[p]
      todo == {d \in Devices : w.kind = "refresh" /\ w.write[d].life = "Enrolled"}
  IN
  /\ w.pc = "upsert"
  /\ reg' = Over(w.write, reg)
  /\ proc' = [proc EXCEPT ![p] =
       [w EXCEPT !.pc = IF todo # {} THEN "start" ELSE IF w.kind = "remove" THEN "stop" ELSE "wake",
                 !.todo = todo, !.write = Nothing]]
  /\ UNCHANGED <<now, db, tail, sess, owned, lock, gaps, orphan, sub, load>>

\* BroadcastDomainEventSink::publish wakes the subscriber if there are events.
Wake(p) ==
  /\ proc[p].pc = "wake"
  /\ sub' = [sub EXCEPT !.wake = @ \/ (proc[p].n > 0 /\ sub.pc # "off")]
  /\ proc' = [proc EXCEPT
       ![p] = IF p \in Tasks THEN [Idle EXCEPT !.pc = "listen"] ELSE Finished(p)]
  /\ UNCHANGED <<now, db, reg, tail, sess, owned, lock, gaps, orphan, load>>

-----------------------------------------------------------------------------
(* Refresh: scan, reconcile, commit, replace sessions.                     *)

\* runtime_worker: the interval fires, or a request arrives and takes every
\* other pending request with it.
runtime_worker ==
  /\ proc["worker"].pc = "idle"
  /\ gaps' \in IF gaps > 0 THEN {gaps, 0} ELSE {0}
  /\ proc' = [proc EXCEPT !["worker"] = [Idle EXCEPT !.pc = "scan", !.kind = "refresh"]]
  /\ UNCHANGED <<now, db, reg, tail, sess, owned, lock, orphan, sub, load>>

\* IntegrationScanner::scan finds some devices, or fails.  Scans carry the
\* instant they observe, so a device found is always a device changed.
Scan(p) ==
  /\ proc[p].pc = "scan"
  /\ \/ \E found \in SUBSET Devices :
          /\ found # {} => load.scans > 0
          /\ proc' = [proc EXCEPT ![p].pc = "reconcile", ![p].at = now, ![p].todo = found]
          /\ load' = IF found = {} THEN load ELSE [load EXCEPT !.scans = @ - 1]
     \/ proc' = [proc EXCEPT ![p] = Finished(p)] /\ UNCHANGED load
  /\ UNCHANGED <<now, db, reg, tail, sess, owned, lock, gaps, orphan, sub>>

\* reconcile against the registry as it is now; a candidate seen before the
\* first sight of its record fails the whole refresh.
Reconcile(p) ==
  /\ proc[p].pc = "reconcile"
  /\ LET write == reconcile(proc[p].todo, proc[p].at)
     IN  proc' = [proc EXCEPT
           ![p] = IF reconcilable(@.todo, @.at)
                  THEN [@ EXCEPT !.pc = "apply", !.write = write, !.todo = {},
                                 !.n = Changes(reg, write)]
                  ELSE Finished(p)]
  /\ UNCHANGED <<now, db, reg, tail, sess, owned, lock, gaps, orphan, sub, load>>

\* ShellySessionSupervisor::start takes the mutex, cancels the previous task
\* of the device and keeps the mutex until that task has ended.
Spawn(p, d) ==
  LET free == {t \in Tasks : proc[t].pc = "none" /\ \A q \in Services \ {p} : proc[q].join # t}
      s == CHOOSE t \in free : TRUE
  IN
    /\ free # {}
    /\ owned' = [owned EXCEPT ![d] = s]
    /\ sess' = [sess EXCEPT ![s] = [dev |-> d, cancel |-> FALSE, last |-> 0]]
    /\ proc' = [proc EXCEPT
         ![s].pc = "connect",
         ![p] = [proc[p] EXCEPT !.pc = IF proc[p].todo = {d} THEN "wake" ELSE "start",
                                !.todo = @ \ {d}, !.dev = None, !.join = None]]
\* Mutant: the handle of the task is dropped without telling it to stop.
detach(d) == owned' = [owned EXCEPT ![d] = None] /\ UNCHANGED sess
Cancel(d) ==
  /\ owned' = [owned EXCEPT ![d] = None]
  /\ sess' = [sess EXCEPT ![owned[d]].cancel = TRUE]
start(p) ==
  /\ proc[p].pc = "start" /\ lock = None
  /\ \E d \in proc[p].todo :
       IF owned[d] = None THEN Spawn(p, d) /\ UNCHANGED lock
       ELSE /\ Cancel(d)
            /\ lock' = p
            /\ proc' = [proc EXCEPT ![p].pc = "join", ![p].dev = d, ![p].join = owned[d]]
  /\ UNCHANGED <<now, db, reg, tail, gaps, orphan, sub, load>>
Joined(p) ==
  /\ proc[p].pc = "join" /\ proc[proc[p].join].pc = "none"
  /\ lock' = None
  /\ Spawn(p, proc[p].dev)
  /\ UNCHANGED <<now, db, reg, tail, gaps, orphan, sub, load>>

\* The refresh of the worker waits: for the mutex or for a task to end.
Waits ==
  LET w == proc["worker"] IN w.pc = "join" \/ (w.pc = "start" /\ lock # None)
\* Mutant: the mutex is a flag that only the end of start clears.
deadline_keeps_lock ==
  LET w == proc["worker"] IN
  /\ w.kind = "refresh" /\ (load.cuts > 0 \/ Waits) /\ w.pc # "apply"
  /\ proc' = [proc EXCEPT !["worker"] = Finished("worker")]
  /\ load' = [load EXCEPT !.cuts = IF Waits THEN @ ELSE @ - 1]
  /\ UNCHANGED <<now, db, reg, tail, sess, owned, lock, gaps, orphan, sub>>
\* The deadline of the worker drops its refresh at an await.  A transaction
\* under way is committed all the same, a task being joined is left to itself
\* and the mutex is free again.  The load bounds the deadlines that meet a
\* refresh on the move; one that waits may always be dropped.
Deadline ==
  LET w == proc["worker"] IN
  /\ w.kind = "refresh" /\ (load.cuts > 0 \/ Waits)
  /\ orphan' = IF w.pc = "apply" THEN [write |-> w.write, n |-> w.n] ELSE orphan
  /\ w.pc = "apply" => orphan.write = Nothing
  /\ lock' = IF lock = "worker" THEN None ELSE lock
  /\ proc' = [proc EXCEPT !["worker"] = Finished("worker")]
  /\ load' = [load EXCEPT !.cuts = IF Waits THEN @ ELSE @ - 1]
  /\ UNCHANGED <<now, db, reg, tail, sess, owned, gaps, sub>>
OrphanCommits ==
  /\ orphan.write # Nothing
  /\ apply(orphan.write, orphan.n)
  /\ orphan' = [write |-> Nothing, n |-> 0]
  /\ UNCHANGED <<now, reg, proc, sess, owned, lock, gaps, sub, load>>

\* evaluate_freshness over the registry.
evaluate_freshness ==
  /\ proc["worker"].pc = "freshness"
  /\ LET write == freshness_write
     IN  proc' = [proc EXCEPT
           !["worker"] = IF write = Nothing THEN Idle
                         ELSE [Idle EXCEPT !.pc = "apply", !.kind = "freshness",
                                           !.write = write, !.n = Changes(reg, write)]]
  /\ UNCHANGED <<now, db, reg, tail, sess, owned, lock, gaps, orphan, sub, load>>

-----------------------------------------------------------------------------
(* Calls on the application facade.                                        *)

\* devices.refresh, update_device_metadata or remove_device is called.
Called(next) ==
  /\ proc["api"].pc = "idle" /\ load.calls > 0
  /\ proc' = [proc EXCEPT !["api"] = next]
  /\ load' = [load EXCEPT !.calls = @ - 1]
  /\ UNCHANGED <<now, db, reg, tail, sess, owned, lock, gaps, orphan, sub>>
refresh == Called([Idle EXCEPT !.pc = "scan", !.kind = "refresh"])
update_device_metadata(d) ==
  /\ reg[d] # NoRecord
  /\ Called([Idle EXCEPT !.pc = "apply", !.kind = "update", !.n = 1,
                         !.write = Only(d, [reg[d] EXCEPT !.meta = @ + 1])])
remove_device(d) ==
  /\ reg[d] # NoRecord /\ reg[d].life # "Removed"
  /\ Called([Idle EXCEPT !.pc = "apply", !.kind = "remove", !.n = 2, !.dev = d,
                         !.write = Only(d, [reg[d] EXCEPT !.life = transition(@, "Remove"),
                                                          !.avail = "Offline"])])

\* ShellySessionSupervisor::stop holds the mutex only to take the task out of
\* the map, then waits for the task.
stop ==
  LET d == proc["api"].dev IN
  /\ proc["api"].pc = "stop" /\ lock = None
  /\ IF owned[d] = None
     THEN /\ proc' = [proc EXCEPT !["api"].pc = "wake"]
          /\ UNCHANGED <<sess, owned>>
     ELSE /\ Cancel(d)
          /\ proc' = [proc EXCEPT !["api"].pc = "stopping", !["api"].join = owned[d]]
  /\ UNCHANGED <<now, db, reg, tail, lock, gaps, orphan, sub, load>>
Stopped ==
  /\ proc["api"].pc = "stopping" /\ proc[proc["api"].join].pc = "none"
  /\ proc' = [proc EXCEPT !["api"].pc = "wake"]
  /\ UNCHANGED <<now, db, reg, tail, sess, owned, lock, gaps, orphan, sub, load>>

-----------------------------------------------------------------------------
(* Session tasks: supervise_session and ShellyWebSocketRunner::run.        *)

Moves(s, next) ==
  /\ proc' = [proc EXCEPT ![s] = next]
  /\ UNCHANGED <<now, db, reg, tail, owned, lock, orphan, sub>>
request_refresh == gaps' = IF gaps < GapCapacity THEN gaps + 1 ELSE gaps

\* Connecting and asking for the baseline does not look at the cancellation and
\* has no timeout: against a silent peer the task stays here for ever.  The
\* baseline is published with the local time and resets the cache.
Connect(s) ==
  /\ proc[s].pc = "connect"
  /\ \/ /\ Moves(s, [Idle EXCEPT !.pc = "read", !.kind = "publish", !.at = now])
        /\ sess' = [sess EXCEPT ![s].last = 0]
     \/ Moves(s, RunEnded(s)) /\ UNCHANGED sess
  /\ UNCHANGED <<gaps, load>>

\* RepositoryLiveObservationSink::publish of a status: the record of the
\* device succeeds and is online, its lifecycle is left as it is.  A stamp
\* before the first sight fails the publication and with it the session.
publish(s) ==
  LET d == sess[s].dev
      r == reg[d]
  IN
  /\ proc[s].pc = "read"
  /\ Moves(s, IF r = NoRecord THEN [proc[s] EXCEPT !.pc = "apply"]
              ELSE IF chronological(r, proc[s].at)
              THEN [proc[s] EXCEPT !.pc = "apply",
                      !.write = Only(d, [record_success(r, proc[s].at) EXCEPT !.avail = "Online"])]
              ELSE RunEnded(s))
  /\ UNCHANGED <<sess, gaps, load>>

\* A status notification carries the clock of the device; one older than the
\* last accepted ends the session and asks for a refresh.  One that changes no
\* field is not published.
requires_refresh(s, at) == at < sess[s].last
Noted(s) == /\ proc[s].pc = "listen" /\ load.notes > 0
            /\ load' = [load EXCEPT !.notes = @ - 1]
NotifyStatus(s) ==
  /\ Noted(s)
  /\ \E at \in 0..now :
       IF requires_refresh(s, at) THEN Moves(s, RunEnded(s)) /\ request_refresh /\ UNCHANGED sess
       ELSE /\ \/ Moves(s, [Idle EXCEPT !.pc = "read", !.kind = "publish", !.at = at])
               \/ Moves(s, proc[s])
            /\ sess' = [sess EXCEPT ![s].last = at]
            /\ UNCHANGED gaps
\* An event of the device is committed without touching its record.
NotifyEvent(s) ==
  /\ Noted(s)
  /\ Moves(s, [Idle EXCEPT !.pc = "apply", !.kind = "publish", !.n = 1])
  /\ UNCHANGED <<sess, gaps>>
\* The socket closes or a frame cannot be read (a refresh is asked for), or
\* the transport fails.
SocketLost(s) ==
  /\ Noted(s)
  /\ Moves(s, RunEnded(s))
  /\ \/ request_refresh
     \/ UNCHANGED gaps
  /\ UNCHANGED sess
Cancelled(s) ==
  /\ proc[s].pc = "listen" /\ sess[s].cancel
  /\ Moves(s, [Idle EXCEPT !.pc = "none"])
  /\ UNCHANGED <<sess, gaps, load>>
\* The delay passes or the cancellation interrupts it.
Backoff(s) ==
  /\ proc[s].pc = "backoff"
  /\ Moves(s, [Idle EXCEPT !.pc = IF sess[s].cancel THEN "none" ELSE "connect"])
  /\ UNCHANGED <<sess, gaps, load>>

-----------------------------------------------------------------------------
(* The event subscription of one WebSocket client.                         *)

Served(next) ==
  /\ sub' = next
  /\ UNCHANGED <<now, db, reg, tail, proc, sess, owned, lock, gaps, orphan>>

\* accept_subscription: after the current tail, or after the cursor the client
\* has processed when it comes back.
processed == CHOOSE c \in sub.got \cup {sub.start} : \A e \in sub.got : e <= c
accept_subscription ==
  /\ sub.pc = "off" /\ load.subs > 0
  /\ LET from == IF sub.start = -1 THEN tail ELSE processed
     IN  Served([sub EXCEPT !.pc = "drain", !.wake = FALSE, !.cursor = from,
                            !.start = IF @ = -1 THEN from ELSE @])
  /\ load' = [load EXCEPT !.subs = @ - 1]

\* drain_events sends page after page until one is not full.
page == {c \in 1..tail : sub.cursor < c /\ c <= sub.cursor + EventPage}
drain_events ==
  /\ sub.pc = "drain"
  /\ Served([sub EXCEPT !.got = @ \cup page, !.cursor = @ + Cardinality(page),
                        !.pc = IF Cardinality(page) < EventPage THEN "wait" ELSE "drain"])
  /\ UNCHANGED load
\* The page cannot be read, or the notification of one of its events cannot be
\* sent: the socket is closed.  The events modelled here are those of devices,
\* which every actor may see.
SendFails ==
  /\ sub.pc = "drain" /\ load.faults > 0
  /\ \E sent \in 0..Cardinality(page) :
       Served([sub EXCEPT !.pc = "off",
                          !.got = @ \cup {c \in page : c <= sub.cursor + sent}])
  /\ load' = [load EXCEPT !.faults = @ - 1]

\* event_socket waits for a wake-up or for its poll of the store.
Woken == sub.wake /\ Served([sub EXCEPT !.pc = "drain", !.wake = FALSE])
\* Mutant: the subscription relies on wake-ups alone.
never_polled == FALSE /\ UNCHANGED vars
Polled == Served([sub EXCEPT !.pc = "drain"])
event_socket ==
  /\ sub.pc = "wait"
  /\ Woken \/ Polled
  /\ UNCHANGED load

-----------------------------------------------------------------------------
Init ==
  /\ now = 0
  /\ db \in [Devices -> {NoRecord, candidate(0)}]
  /\ reg = db
  /\ tail = 0
  /\ proc = [p \in Processes |-> [Idle EXCEPT !.pc = IF p \in Tasks THEN "none" ELSE "idle"]]
  /\ sess = [s \in Tasks |-> [dev |-> None, cancel |-> FALSE, last |-> 0]]
  /\ owned = [d \in Devices |-> None]
  /\ lock = None
  /\ gaps = 0
  /\ orphan = [write |-> Nothing, n |-> 0]
  /\ sub = [pc |-> "off", start |-> -1, cursor |-> 0, got |-> {}, wake |-> FALSE]
  /\ load \in Loads

\* The process dies and starts again: from_repository loads the registry, no
\* session runs until a scan finds its device, sockets are closed.
Restart ==
  /\ load.crashes > 0
  /\ reg' = db
  /\ proc' = [p \in Processes |-> [Idle EXCEPT !.pc = IF p \in Tasks THEN "none" ELSE "idle"]]
  /\ sess' = [s \in Tasks |-> [dev |-> None, cancel |-> FALSE, last |-> 0]]
  /\ owned' = [d \in Devices |-> None]
  /\ lock' = None
  /\ gaps' = 0
  /\ orphan' = [write |-> Nothing, n |-> 0]
  /\ sub' = [sub EXCEPT !.pc = "off", !.wake = FALSE]
  /\ load' = [load EXCEPT !.crashes = @ - 1]
  /\ UNCHANGED <<now, db, tail>>

Clock ==
  /\ load.ticks > 0
  /\ now' = now + 1
  /\ load' = [load EXCEPT !.ticks = @ - 1]
  /\ UNCHANGED <<db, reg, tail, proc, sess, owned, lock, gaps, orphan, sub>>

Writer(p) == Apply(p) \/ upsert_all(p) \/ Wake(p)
Refresher(p) == Scan(p) \/ Reconcile(p) \/ start(p) \/ Joined(p)
Worker == runtime_worker \/ evaluate_freshness \/ Refresher("worker") \/ Writer("worker")
Api == Refresher("api") \/ Writer("api") \/ stop \/ Stopped
Session(s) == publish(s) \/ Writer(s) \/ Backoff(s)
Stream == drain_events \/ event_socket

Next ==
  \/ Worker \/ Api \/ OrphanCommits \/ Stream
  \/ \E s \in Tasks : Connect(s) \/ Session(s) \/ Cancelled(s)
  \/ \E s \in Tasks : NotifyStatus(s) \/ NotifyEvent(s) \/ SocketLost(s)
  \/ \E p \in Processes : ApplyFails(p)
  \/ refresh \/ \E d \in Devices : update_device_metadata(d) \/ remove_device(d)
  \/ accept_subscription \/ SendFails
  \/ Deadline \/ Restart \/ Clock

Spec == Init /\ [][Next]_vars

\* The interval of the worker and the poll of a subscription fire again and
\* again, tasks of the runtime are run, and the deadline of the worker passes
\* while its refresh waits.  A device owes nothing: Connect is not fair.
Fairness ==
  /\ WF_vars(Worker) /\ WF_vars(Api) /\ WF_vars(OrphanCommits) /\ WF_vars(Stream)
  /\ WF_vars(Waits /\ Deadline)
  /\ \A s \in Tasks : WF_vars(Session(s)) /\ WF_vars(Cancelled(s))
FairSpec == Spec /\ Fairness

-----------------------------------------------------------------------------
\* ADR-0010: at most one session of a device publishes on its own behalf.  A
\* second one may still be running after a replacement, a removal or a
\* refresh dropped at its deadline, but it has been told to stop; the one that
\* has not been told is the one the supervisor owns.
OneSessionPerDevice ==
  \A s \in Tasks :
    proc[s].pc # "none" /\ ~sess[s].cancel => owned[sess[s].dev] = s

\* ADR-0012: a subscriber receives every event committed after its start, in
\* cursor order and without a hole, even when the wake-up was lost with a
\* dropped refresh or it comes back after a failed send, unless its socket
\* stays closed.
EventsReachSubscriber ==
  LET Expected == {c \in 1..tail : sub.start < c}
      ordered == \A c \in sub.got, b \in Expected : b < c => b \in sub.got
  IN  []ordered /\ (~(Expected \subseteq sub.got) ~> (Expected \subseteq sub.got \/ sub.pc = "off"))

\* ADR-0011: once scans, notifications and the clock have stopped, the registry
\* settles on what the last success of each managed device says, although
\* freshness, scans and sessions overwrote one another before.
FreshnessConverges ==
  <>[](\A d \in Devices :
         reg[d].life \in {"Enrolled", "Stale"} => freshened(reg[d]) = reg[d])

\* A call returns: replacing or stopping a session waits for a task that ends
\* once it has been told to, also when the worker holds the mutex.  The one
\* exception is a task that waits for the connection or the baseline of a
\* device that never answers: the call that waits for it waits for ever too.
FacadeCallsEnd ==
  \/ \E s \in Tasks : <>[](proc["api"].join = s /\ proc[s].pc = "connect")
  \/ proc["api"].pc # "idle" ~> proc["api"].pc = "idle"
=============================================================================
