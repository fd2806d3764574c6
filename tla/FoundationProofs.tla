-------------------------- MODULE FoundationProofs --------------------------
(***************************************************************************)
(* Theorems about Foundation, for any devices, session tasks and loads.    *)
(*                                                                         *)
(* OneSessionPerDevice is not inductive.  A replacement spawns a task in   *)
(* the second of two steps, and between them the device has no owner only  *)
(* because the supervisor's mutex keeps every other start and stop out     *)
(* (Mutex).  A task that is owned has not been told to stop and therefore  *)
(* has not ended, so its slot is not given to another device (Owner).      *)
(***************************************************************************)
EXTENDS Foundation, TLAPS

\* A value with the fields of a process.
IsProcess(w) ==
  w \in [pc : {w.pc}, kind : {w.kind}, at : {w.at}, write : {w.write}, n : {w.n},
         todo : {w.todo}, dev : {w.dev}, join : {w.join}]

\* What a service is about to do fits what it was asked for.
ServiceOK(w) ==
  /\ IsProcess(w)
  /\ w.todo \subseteq Devices
  /\ w.pc \in {"start", "join"} => w.kind = "refresh"
  /\ w.pc = "stop" => w.kind = "remove"
  /\ w.kind = "remove" => w.dev \in Devices

Shape ==
  /\ proc = [p \in Processes |-> proc[p]]
  /\ \A p \in Services : ServiceOK(proc[p])
  /\ \A s \in Tasks : IsProcess(proc[s])
  /\ sess \in [Tasks -> [dev : Devices \cup {None}, cancel : BOOLEAN, last : Int]]
  /\ owned \in [Devices -> Tasks \cup {None}]
  /\ now \in Nat

\* A task that runs has a device.
Running == \A s \in Tasks : proc[s].pc # "none" => sess[s].dev \in Devices

\* An owned task runs for its device and has not been told to stop.
Owner ==
  \A d \in Devices : owned[d] # None =>
    /\ sess[owned[d]].dev = d /\ ~sess[owned[d]].cancel
    /\ proc[owned[d]].pc # "none"

\* A service that joins a replaced task holds the mutex, and the device it
\* replaces the session of has no owner.
Mutex ==
  \A p \in Services : proc[p].pc = "join" =>
    lock = p /\ proc[p].dev \in Devices /\ owned[proc[p].dev] = None

SessionInv == Shape /\ Running /\ Owner /\ Mutex /\ OneSessionPerDevice

\* Services, tasks and None are different things.
LEMMA Distinct ==
  /\ None \notin Devices /\ None \notin Tasks /\ None \notin Services
  /\ \A s \in Tasks : s \notin Services
  BY FoundationAssumption DEF Services

\* A process that has nothing to do.
LEMMA IdleProcess == IsProcess(Idle) /\ ServiceOK(Idle)
  BY DEF IsProcess, ServiceOK, Idle

\* A step of a service that leaves sessions alone and does not go on to join,
\* whether it keeps the mutex as it is or gives up its own.
LEMMA ServiceStep ==
  ASSUME SessionInv, NEW p \in Services, NEW w, ServiceOK(w), w.pc # "join",
         proc' = [proc EXCEPT ![p] = w],
         UNCHANGED <<sess, owned>>, now' \in Nat,
         lock' = lock \/ lock = p
  PROVE  SessionInv'
  <1>1. /\ proc' = [q \in Processes |-> proc'[q]] /\ proc'[p] = w
        /\ \A q \in Processes : q # p => proc'[q] = proc[q]
    BY DEF SessionInv, Shape, Processes
  <1>2. \A s \in Tasks : proc'[s] = proc[s]
    BY <1>1, Distinct DEF Processes
  <1>3. Shape'
    BY <1>1, <1>2 DEF SessionInv, Shape, Processes
  <1>4. Running' /\ Owner' /\ OneSessionPerDevice'
    BY <1>2 DEF SessionInv, Shape, Running, Owner, OneSessionPerDevice
  <1>5. Mutex'
    BY <1>1 DEF SessionInv, Mutex, Processes
  <1> QED
    BY <1>3, <1>4, <1>5 DEF SessionInv

\* A step of a session task, which ends only when it has been told to.
LEMMA TaskStep ==
  ASSUME SessionInv, NEW s \in Tasks, NEW w, IsProcess(w),
         proc[s].pc # "none", w.pc = "none" => sess[s].cancel,
         proc' = [proc EXCEPT ![s] = w],
         UNCHANGED <<owned, lock>>, now' \in Nat,
         \/ UNCHANGED sess
         \/ \E t \in Int : sess' = [sess EXCEPT ![s].last = t]
  PROVE  SessionInv'
  <1>1. /\ proc' = [q \in Processes |-> proc'[q]] /\ proc'[s] = w
        /\ \A q \in Processes : q # s => proc'[q] = proc[q]
    BY DEF SessionInv, Shape, Processes
  <1>2. \A p \in Services : proc'[p] = proc[p]
    BY <1>1, Distinct DEF Processes
  <1>3. /\ sess' \in [Tasks -> [dev : Devices \cup {None}, cancel : BOOLEAN, last : Int]]
        /\ \A t \in Tasks : sess'[t].dev = sess[t].dev /\ sess'[t].cancel = sess[t].cancel
    BY DEF SessionInv, Shape
  <1>4. \A t \in Tasks : t # s => proc'[t] = proc[t]
    BY <1>1 DEF Processes
  <1>5. Shape'
    BY <1>1, <1>2, <1>3, <1>4 DEF SessionInv, Shape
  <1>6. Running'
    BY <1>3, <1>4 DEF SessionInv, Running
  <1>7. Owner'
    BY <1>1, <1>3, <1>4 DEF SessionInv, Shape, Owner
  <1>8. Mutex'
    BY <1>2 DEF SessionInv, Mutex
  <1>9. OneSessionPerDevice'
    BY <1>3, <1>4 DEF SessionInv, OneSessionPerDevice
  <1> QED
    BY <1>5, <1>6, <1>7, <1>8, <1>9 DEF SessionInv

\* Telling the owned task of a device to stop.
LEMMA CancelStep ==
  ASSUME SessionInv, NEW p \in Services, NEW d \in Devices, owned[d] # None,
         lock = None, Cancel(d), NEW w, ServiceOK(w),
         proc' = [proc EXCEPT ![p] = w], now' \in Nat,
         \/ w.pc # "join" /\ lock' = lock
         \/ w.pc = "join" /\ w.dev = d /\ lock' = p
  PROVE  SessionInv'
  <1>1. /\ proc' = [q \in Processes |-> proc'[q]] /\ proc'[p] = w
        /\ \A q \in Processes : q # p => proc'[q] = proc[q]
    BY DEF SessionInv, Shape, Processes
  <1>2. \A s \in Tasks : proc'[s] = proc[s]
    BY <1>1, Distinct DEF Processes
  <1>3. owned[d] \in Tasks /\ sess[owned[d]].dev = d
    BY DEF SessionInv, Shape, Owner
  <1>4. /\ sess' \in [Tasks -> [dev : Devices \cup {None}, cancel : BOOLEAN, last : Int]]
        /\ \A t \in Tasks : sess'[t].dev = sess[t].dev
        /\ \A t \in Tasks : t # owned[d] => sess'[t].cancel = sess[t].cancel
        /\ sess'[owned[d]].cancel
    BY <1>3 DEF SessionInv, Shape, Cancel
  <1>5. /\ owned' \in [Devices -> Tasks \cup {None}] /\ owned'[d] = None
        /\ \A e \in Devices : e # d => owned'[e] = owned[e]
    BY DEF SessionInv, Shape, Cancel
  <1>6. Shape'
    BY <1>1, <1>2, <1>4, <1>5 DEF SessionInv, Shape, Processes
  <1>7. Running'
    BY <1>2, <1>4 DEF SessionInv, Running
  <1>8. Owner'
    <2> SUFFICES ASSUME NEW e \in Devices, owned'[e] # None
                 PROVE  /\ sess'[owned'[e]].dev = e /\ ~sess'[owned'[e]].cancel
                        /\ proc'[owned'[e]].pc # "none"
      BY DEF Owner
    <2>1. e # d /\ owned'[e] = owned[e] /\ owned[e] \in Tasks
      BY <1>5 DEF SessionInv, Shape
    <2>2. sess[owned[e]].dev = e /\ ~sess[owned[e]].cancel /\ proc[owned[e]].pc # "none"
      BY <2>1 DEF SessionInv, Owner
    <2> QED
      BY <1>2, <1>3, <1>4, <2>1, <2>2
  <1>9. Mutex'
    BY <1>1, <1>5, Distinct DEF SessionInv, Mutex, Processes
  <1>10. OneSessionPerDevice'
    BY <1>2, <1>3, <1>4, <1>5 DEF SessionInv, Running, OneSessionPerDevice
  <1> QED
    BY <1>6, <1>7, <1>8, <1>9, <1>10 DEF SessionInv

\* A device without an owner gets a task that was not running.
LEMMA SpawnStep ==
  ASSUME SessionInv, NEW p \in Services, NEW d \in Devices, owned[d] = None,
         Spawn(p, d), now' \in Nat, proc[p].kind = "refresh",
         lock = None \/ lock = p, lock' = lock \/ lock' = None,
         \A q \in Services \ {p} : proc[q].pc # "join"
  PROVE  SessionInv'
  <1> DEFINE free == {t \in Tasks : proc[t].pc = "none"
                                    /\ \A q \in Services \ {p} : proc[q].join # t}
             s == CHOOSE t \in free : TRUE
             w == [proc[p] EXCEPT !.pc = IF proc[p].todo = {d} THEN "wake" ELSE "start",
                                  !.todo = @ \ {d}, !.dev = None, !.join = None]
             v == [proc[s] EXCEPT !.pc = "connect"]
  <1>1. s \in Tasks /\ proc[s].pc = "none"
    BY DEF Spawn
  <1>2. s # p /\ s \in Processes /\ p \in Processes
    BY <1>1, Distinct DEF Processes
  <1>3. /\ owned' = [owned EXCEPT ![d] = s]
        /\ sess' = [sess EXCEPT ![s] = [dev |-> d, cancel |-> FALSE, last |-> 0]]
    BY DEF Spawn
  <1>4. proc' = [proc EXCEPT ![s].pc = "connect",
                   ![p] = w]
    BY DEF Spawn
  <1> HIDE DEF s
  <1>5. proc' = [q \in Processes |-> IF q = p THEN w ELSE IF q = s THEN v ELSE proc[q]]
    <2>1. proc = [q \in Processes |-> proc[q]]
      BY DEF SessionInv, Shape
    <2>2. proc' = [q \in Processes |-> proc'[q]]
      BY <1>4, <2>1
    <2>3. \A q \in Processes : q # p /\ q # s => proc'[q] = proc[q]
      BY <1>4, <2>1
    <2>4. proc'[s] = v
      BY <1>2, <1>4, <2>1
    <2>5. proc'[p] = w
      BY <1>2, <1>4, <2>1
    <2> QED
      BY <2>2, <2>3, <2>4, <2>5
  <1> HIDE DEF w
  <1>6. ServiceOK(w) /\ w.pc \in {"wake", "start"}
    <2>1. ServiceOK(proc[p])
      BY DEF SessionInv, Shape
    <2> QED
      BY <2>1 DEF ServiceOK, IsProcess, w
  <1>7. IsProcess(v) /\ v.pc = "connect"
    <2>1. IsProcess(proc[s])
      BY <1>1 DEF SessionInv, Shape
    <2> QED
      BY <2>1 DEF IsProcess
  <1> HIDE DEF v
  <1>8. /\ \A t \in Tasks : t # s => proc'[t] = proc[t] /\ sess'[t] = sess[t]
        /\ proc'[s] = v /\ sess'[s].dev = d /\ ~sess'[s].cancel
        /\ sess' \in [Tasks -> [dev : Devices \cup {None}, cancel : BOOLEAN, last : Int]]
    BY <1>1, <1>2, <1>3, <1>5, Distinct DEF SessionInv, Shape, Processes
  <1>9. /\ \A e \in Devices : e # d => owned'[e] = owned[e]
        /\ owned'[d] = s /\ owned' \in [Devices -> Tasks \cup {None}]
    BY <1>1, <1>3 DEF SessionInv, Shape
  <1>10. \A q \in Services : q # p => proc'[q] = proc[q]
    BY <1>1, <1>5, Distinct DEF Processes
  <1>11. \A e \in Devices : owned[e] # s
    BY <1>1, Distinct DEF SessionInv, Owner
  <1>12. Shape'
    BY <1>2, <1>5, <1>6, <1>7, <1>8, <1>9, <1>10 DEF SessionInv, Shape, Processes
  <1>13. Running'
    BY <1>8 DEF SessionInv, Running
  <1>14. Owner'
    <2> SUFFICES ASSUME NEW e \in Devices, owned'[e] # None
                 PROVE  /\ sess'[owned'[e]].dev = e /\ ~sess'[owned'[e]].cancel
                        /\ proc'[owned'[e]].pc # "none"
      BY DEF Owner
    <2>1. CASE e = d
      BY <1>7, <1>8, <1>9, <2>1
    <2>2. CASE e # d
      <3>1. owned'[e] = owned[e] /\ owned[e] \in Tasks /\ owned[e] # s
        BY <1>9, <1>11, <2>2 DEF SessionInv, Shape
      <3> QED
        BY <1>8, <3>1 DEF SessionInv, Owner
    <2> QED
      BY <2>1, <2>2
  <1>15. Mutex'
    BY <1>5, <1>6, <1>10 DEF SessionInv, Mutex, Processes
  <1>16. OneSessionPerDevice'
    BY <1>8, <1>9, Distinct DEF SessionInv, Running, OneSessionPerDevice
  <1> QED
    BY <1>12, <1>13, <1>14, <1>15, <1>16 DEF SessionInv

\* What a finished or failed process goes back to.
LEMMA EndOfWork ==
  ASSUME SessionInv
  PROVE  /\ \A p \in Services : ServiceOK(Finished(p)) /\ Finished(p).pc # "join"
         /\ \A s \in Tasks : IsProcess(RunEnded(s))
                             /\ (RunEnded(s).pc = "none" => sess[s].cancel)
  BY IdleProcess DEF Finished, RunEnded, ServiceOK, IsProcess, Idle

\* A process about to do something else with the same orders.
LEMMA SamePurpose ==
  ASSUME NEW w, ServiceOK(w), NEW x, x \notin {"start", "join", "stop"}
  PROVE  ServiceOK([w EXCEPT !.pc = x]) /\ [w EXCEPT !.pc = x].pc = x
  BY DEF ServiceOK, IsProcess

\* The steps of a writer, whoever it is.
LEMMA WriterStep ==
  ASSUME SessionInv, NEW p \in Processes, Writer(p) \/ ApplyFails(p)
  PROVE  SessionInv'
  <1>1. UNCHANGED <<sess, owned, lock>> /\ now' \in Nat
    BY DEF Writer, Apply, upsert_all, Wake, ApplyFails, SessionInv, Shape
  <1>2. proc[p].pc # "none"
    BY DEF Writer, Apply, upsert_all, Wake, ApplyFails
  <1>3. CASE p \in Services
    <2>1. ServiceOK(proc[p]) /\ proc = [q \in Processes |-> proc[q]]
      BY <1>3 DEF SessionInv, Shape
    <2>2. CASE Apply(p)
      <3>1. proc' = [proc EXCEPT ![p] = [proc[p] EXCEPT !.pc = "upsert"]]
        BY <2>2 DEF Apply
      <3> QED
        BY <1>1, <1>3, <2>1, <3>1, SamePurpose, ServiceStep
    <2>3. CASE upsert_all(p)
      <3> DEFINE todo == {d \in Devices : proc[p].kind = "refresh"
                                          /\ proc[p].write[d].life = "Enrolled"}
                 x == IF todo # {} THEN "start" ELSE IF proc[p].kind = "remove" THEN "stop"
                      ELSE "wake"
                 w == [proc[p] EXCEPT !.pc = x, !.todo = todo, !.write = Nothing]
      <3>1. proc' = [proc EXCEPT ![p] = w]
        BY <2>3 DEF upsert_all
      <3>2. /\ todo \subseteq Devices /\ (x = "start" => proc[p].kind = "refresh")
            /\ (x = "stop" => proc[p].kind = "remove") /\ x # "join"
        OBVIOUS
      <3> HIDE DEF x, todo
      <3>3. ServiceOK(w) /\ w.pc = x
        BY <2>1, <3>2 DEF ServiceOK, IsProcess
      <3> HIDE DEF w
      <3> QED
        BY <1>1, <1>3, <3>1, <3>2, <3>3, ServiceStep
    <2>4. CASE Wake(p)
      <3>1. proc' = [proc EXCEPT ![p] = Finished(p)]
        BY <1>3, <2>4, Distinct DEF Wake
      <3> QED
        BY <1>1, <1>3, <3>1, EndOfWork, ServiceStep
    <2>5. CASE ApplyFails(p)
      <3>1. proc' = [proc EXCEPT ![p] = Finished(p)]
        BY <1>3, <2>5, Distinct DEF ApplyFails, Failed
      <3> QED
        BY <1>1, <1>3, <3>1, EndOfWork, ServiceStep
    <2> QED
      BY <2>2, <2>3, <2>4, <2>5 DEF Writer
  <1>4. CASE p \in Tasks
    <2>1. \E w : IsProcess(w) /\ (w.pc = "none" => sess[p].cancel)
                 /\ proc' = [proc EXCEPT ![p] = w]
      <3>1. IsProcess(proc[p]) /\ proc = [q \in Processes |-> proc[q]]
        BY <1>4 DEF SessionInv, Shape
      <3>2. CASE Apply(p)
        <4>1. proc' = [proc EXCEPT ![p] = [proc[p] EXCEPT !.pc = "upsert"]]
          BY <3>2 DEF Apply
        <4> QED
          BY <3>1, <4>1 DEF IsProcess
      <3>3. CASE upsert_all(p)
        <4> DEFINE todo == {d \in Devices : proc[p].kind = "refresh"
                                            /\ proc[p].write[d].life = "Enrolled"}
                   x == IF todo # {} THEN "start" ELSE IF proc[p].kind = "remove" THEN "stop"
                        ELSE "wake"
                   w == [proc[p] EXCEPT !.pc = x, !.todo = todo, !.write = Nothing]
        <4>1. proc' = [proc EXCEPT ![p] = w]
          BY <3>3 DEF upsert_all
        <4>2. x # "none"
          OBVIOUS
        <4> HIDE DEF x, todo
        <4>3. IsProcess(w) /\ w.pc = x
          BY <3>1 DEF IsProcess
        <4> QED
          BY <4>1, <4>2, <4>3
      <3>4. CASE Wake(p)
        <4>1. proc' = [proc EXCEPT ![p] = [Idle EXCEPT !.pc = "listen"]]
          BY <1>4, <3>4 DEF Wake
        <4>2. IsProcess([Idle EXCEPT !.pc = "listen"])
              /\ [Idle EXCEPT !.pc = "listen"].pc = "listen"
          BY DEF Idle, IsProcess
        <4> QED
          BY <4>1, <4>2
      <3>5. CASE ApplyFails(p)
        <4>1. proc' = [proc EXCEPT ![p] = RunEnded(p)]
          BY <1>4, <3>5 DEF ApplyFails, Failed
        <4> QED
          BY <1>4, <4>1, EndOfWork
      <3> QED
        BY <3>2, <3>3, <3>4, <3>5 DEF Writer
    <2> QED
      BY <1>1, <1>2, <1>4, <2>1, TaskStep
  <1> QED
    BY <1>3, <1>4 DEF Processes

\* The steps of a refresh.
LEMMA RefresherStep ==
  ASSUME SessionInv, NEW p \in Services, Refresher(p)
  PROVE  SessionInv'
  <1>1. ServiceOK(proc[p]) /\ proc = [q \in Processes |-> proc[q]] /\ p \in Processes
    BY DEF SessionInv, Shape, Processes
  <1>2. now' \in Nat
    BY DEF Refresher, Scan, Reconcile, start, Joined, SessionInv, Shape
  <1>3. CASE Scan(p)
    <2>1. UNCHANGED <<sess, owned, lock>>
      BY <1>3 DEF Scan
    <2>2. CASE proc' = [proc EXCEPT ![p] = Finished(p)]
      BY <1>2, <2>1, <2>2, EndOfWork, ServiceStep
    <2>3. CASE \E found \in SUBSET Devices :
                 proc' = [proc EXCEPT ![p].pc = "reconcile", ![p].at = now, ![p].todo = found]
      <3>1. PICK found \in SUBSET Devices :
              proc' = [proc EXCEPT ![p].pc = "reconcile", ![p].at = now, ![p].todo = found]
        BY <2>3
      <3> DEFINE w == [proc[p] EXCEPT !.pc = "reconcile", !.at = now, !.todo = found]
      <3>2. proc' = [proc EXCEPT ![p] = w]
        BY <1>1, <3>1
      <3>3. ServiceOK(w) /\ w.pc = "reconcile"
        BY <1>1 DEF ServiceOK, IsProcess
      <3> HIDE DEF w
      <3> QED
        BY <1>2, <2>1, <3>2, <3>3, ServiceStep
    <2> QED
      BY <1>3, <2>2, <2>3 DEF Scan
  <1>4. CASE Reconcile(p)
    <2>1. UNCHANGED <<sess, owned, lock>>
      BY <1>4 DEF Reconcile
    <2> DEFINE r == proc[p]
               write == reconcile(r.todo, r.at)
               w == [r EXCEPT !.pc = "apply", !.write = write, !.todo = {},
                              !.n = Changes(reg, write)]
    <2>2. proc' = [proc EXCEPT ![p] = IF reconcilable(r.todo, r.at) THEN w ELSE Finished(p)]
      BY <1>4 DEF Reconcile
    <2>3. ServiceOK(w) /\ w.pc = "apply"
      BY <1>1 DEF ServiceOK, IsProcess
    <2> HIDE DEF w
    <2> QED
      BY <1>2, <2>1, <2>2, <2>3, EndOfWork, ServiceStep
  <1>5. CASE start(p)
    <2>1. lock = None /\ proc[p].pc = "start" /\ proc[p].kind = "refresh"
      BY <1>1, <1>5 DEF start, ServiceOK
    <2>2. \A q \in Services : proc[q].pc # "join"
      BY <2>1, Distinct DEF SessionInv, Mutex
    <2>3. PICK d \in proc[p].todo :
            IF owned[d] = None THEN Spawn(p, d) /\ UNCHANGED lock
            ELSE /\ Cancel(d) /\ lock' = p
                 /\ proc' = [proc EXCEPT ![p].pc = "join", ![p].dev = d, ![p].join = owned[d]]
      BY <1>5 DEF start
    <2>4. d \in Devices
      BY <1>1 DEF ServiceOK
    <2>5. CASE owned[d] = None
      BY <1>2, <2>1, <2>2, <2>3, <2>4, <2>5, SpawnStep
    <2>6. CASE owned[d] # None
      <3> DEFINE w == [proc[p] EXCEPT !.pc = "join", !.dev = d, !.join = owned[d]]
      <3>1. proc' = [proc EXCEPT ![p] = w]
        BY <1>1, <2>3, <2>6
      <3>2. ServiceOK(w) /\ w.pc = "join" /\ w.dev = d
        BY <1>1, <2>1, <2>4 DEF ServiceOK, IsProcess
      <3> HIDE DEF w
      <3> QED
        BY <1>2, <2>1, <2>3, <2>4, <2>6, <3>1, <3>2, CancelStep
    <2> QED
      BY <2>5, <2>6
  <1>6. CASE Joined(p)
    <2>1. /\ proc[p].pc = "join" /\ lock = p /\ proc[p].kind = "refresh"
          /\ proc[p].dev \in Devices /\ owned[proc[p].dev] = None
      BY <1>1, <1>6 DEF Joined, SessionInv, Mutex, ServiceOK
    <2>2. \A q \in Services \ {p} : proc[q].pc # "join"
      BY <2>1 DEF SessionInv, Mutex
    <2>3. Spawn(p, proc[p].dev) /\ lock' = None
      BY <1>6 DEF Joined
    <2> QED
      BY <1>2, <2>1, <2>2, <2>3, SpawnStep
  <1> QED
    BY <1>3, <1>4, <1>5, <1>6 DEF Refresher

\* The other steps of the worker and of a call.
LEMMA ServiceCalls ==
  ASSUME SessionInv,
         \/ runtime_worker \/ evaluate_freshness \/ stop \/ Stopped \/ Deadline \/ refresh
         \/ \E d \in Devices : update_device_metadata(d) \/ remove_device(d)
  PROVE  SessionInv'
  <1>1. "worker" \in Services /\ "api" \in Services /\ proc = [q \in Processes |-> proc[q]]
        /\ ServiceOK(proc["worker"]) /\ ServiceOK(proc["api"])
        /\ "worker" \in Processes /\ "api" \in Processes
    BY DEF Services, SessionInv, Shape, Processes
  <1>2. now' \in Nat
    BY DEF runtime_worker, evaluate_freshness, stop, Stopped, Deadline, refresh, Called,
           update_device_metadata, remove_device, SessionInv, Shape
  <1>3. CASE runtime_worker
    <2> DEFINE w == [Idle EXCEPT !.pc = "scan", !.kind = "refresh"]
    <2>1. ServiceOK(w) /\ w.pc = "scan"
      BY DEF ServiceOK, IsProcess, Idle
    <2>2. proc' = [proc EXCEPT !["worker"] = w] /\ UNCHANGED <<sess, owned, lock>>
      BY <1>3 DEF runtime_worker
    <2> HIDE DEF w
    <2> QED
      BY <1>1, <1>2, <2>1, <2>2, ServiceStep
  <1>4. CASE evaluate_freshness
    <2> DEFINE w == [Idle EXCEPT !.pc = "apply", !.kind = "freshness",
                       !.write = freshness_write, !.n = Changes(reg, freshness_write)]
    <2>1. ServiceOK(w) /\ w.pc = "apply"
      BY DEF ServiceOK, IsProcess, Idle
    <2>2. /\ proc' = [proc EXCEPT !["worker"] = IF freshness_write = Nothing THEN Idle ELSE w]
          /\ UNCHANGED <<sess, owned, lock>>
      BY <1>4 DEF evaluate_freshness
    <2>3. ServiceOK(Idle) /\ Idle.pc # "join"
      BY IdleProcess DEF Idle
    <2> HIDE DEF w
    <2> QED
      BY <1>1, <1>2, <2>1, <2>2, <2>3, ServiceStep
  <1>5. CASE stop
    <2> DEFINE d == proc["api"].dev
    <2>1. lock = None /\ d \in Devices /\ proc["api"].pc = "stop" /\ UNCHANGED lock
      BY <1>1, <1>5 DEF stop, ServiceOK
    <2>2. CASE owned[d] = None
      <3>1. proc' = [proc EXCEPT !["api"] = [proc["api"] EXCEPT !.pc = "wake"]]
            /\ UNCHANGED <<sess, owned>>
        BY <1>5, <2>2 DEF stop
      <3> DEFINE w == [proc["api"] EXCEPT !.pc = "wake"]
      <3>2. ServiceOK(w) /\ w.pc = "wake" /\ proc' = [proc EXCEPT !["api"] = w]
        BY <1>1, <3>1, SamePurpose
      <3> HIDE DEF w
      <3> QED
        BY <1>1, <1>2, <2>1, <3>1, <3>2, ServiceStep
    <2>3. CASE owned[d] # None
      <3> DEFINE w == [proc["api"] EXCEPT !.pc = "stopping", !.join = owned[d]]
      <3>1. Cancel(d) /\ proc' = [proc EXCEPT !["api"].pc = "stopping",
                                              !["api"].join = owned[d]]
        BY <1>5, <2>3 DEF stop
      <3>2. proc' = [proc EXCEPT !["api"] = w]
        BY <1>1, <3>1
      <3>3. ServiceOK(w) /\ w.pc = "stopping"
        BY <1>1 DEF ServiceOK, IsProcess
      <3> HIDE DEF w
      <3> QED
        BY <1>1, <1>2, <2>1, <2>3, <3>1, <3>2, <3>3, CancelStep
    <2> QED
      BY <2>2, <2>3
  <1>6. CASE Stopped
    <2>1. proc' = [proc EXCEPT !["api"] = [proc["api"] EXCEPT !.pc = "wake"]]
          /\ UNCHANGED <<sess, owned, lock>>
      BY <1>6 DEF Stopped
    <2> DEFINE w == [proc["api"] EXCEPT !.pc = "wake"]
    <2>2. ServiceOK(w) /\ w.pc = "wake" /\ proc' = [proc EXCEPT !["api"] = w]
      BY <1>1, <2>1, SamePurpose
    <2> HIDE DEF w
    <2> QED
      BY <1>1, <1>2, <2>1, <2>2, ServiceStep
  <1>7. CASE Deadline
    <2>1. /\ proc' = [proc EXCEPT !["worker"] = Finished("worker")]
          /\ UNCHANGED <<sess, owned>> /\ (lock' = lock \/ lock = "worker")
      BY <1>7 DEF Deadline
    <2> QED
      BY <1>1, <1>2, <2>1, EndOfWork, ServiceStep
  <1>8. CASE refresh
    <2> DEFINE w == [Idle EXCEPT !.pc = "scan", !.kind = "refresh"]
    <2>1. ServiceOK(w) /\ w.pc = "scan"
      BY DEF ServiceOK, IsProcess, Idle
    <2>2. proc' = [proc EXCEPT !["api"] = w] /\ UNCHANGED <<sess, owned, lock>>
      BY <1>8 DEF refresh, Called
    <2> HIDE DEF w
    <2> QED
      BY <1>1, <1>2, <2>1, <2>2, ServiceStep
  <1>9. ASSUME NEW d \in Devices, update_device_metadata(d) PROVE SessionInv'
    <2> DEFINE w == [Idle EXCEPT !.pc = "apply", !.kind = "update", !.n = 1,
                       !.write = Only(d, [reg[d] EXCEPT !.meta = @ + 1])]
    <2>1. ServiceOK(w) /\ w.pc = "apply"
      BY DEF ServiceOK, IsProcess, Idle
    <2>2. proc' = [proc EXCEPT !["api"] = w] /\ UNCHANGED <<sess, owned, lock>>
      BY <1>9 DEF update_device_metadata, Called
    <2> HIDE DEF w
    <2> QED
      BY <1>1, <1>2, <2>1, <2>2, ServiceStep
  <1>10. ASSUME NEW d \in Devices, remove_device(d) PROVE SessionInv'
    <2> DEFINE w == [Idle EXCEPT !.pc = "apply", !.kind = "remove", !.n = 2, !.dev = d,
                       !.write = Only(d, [reg[d] EXCEPT !.life = transition(@, "Remove"),
                                                        !.avail = "Offline"])]
    <2>1. ServiceOK(w) /\ w.pc = "apply"
      BY DEF ServiceOK, IsProcess, Idle
    <2>2. proc' = [proc EXCEPT !["api"] = w] /\ UNCHANGED <<sess, owned, lock>>
      BY <1>10 DEF remove_device, Called
    <2> HIDE DEF w
    <2> QED
      BY <1>1, <1>2, <2>1, <2>2, ServiceStep
  <1> QED
    BY <1>3, <1>4, <1>5, <1>6, <1>7, <1>8, <1>9, <1>10

\* The steps of a session between its writes.
LEMMA SessionStep ==
  ASSUME SessionInv, NEW s \in Tasks,
         \/ Connect(s) \/ publish(s) \/ Backoff(s) \/ Cancelled(s)
         \/ NotifyStatus(s) \/ NotifyEvent(s) \/ SocketLost(s)
  PROVE  SessionInv'
  <1> DEFINE next(w) == proc' = [proc EXCEPT ![s] = w]
             good(w) == IsProcess(w) /\ (w.pc = "none" => sess[s].cancel)
             Reads == \E at : next([Idle EXCEPT !.pc = "read", !.kind = "publish", !.at = at])
  <1>1. /\ proc[s].pc # "none" /\ UNCHANGED <<owned, lock>> /\ now' \in Nat
        /\ \/ UNCHANGED sess
           \/ \E t \in Int : sess' = [sess EXCEPT ![s].last = t]
    <2>0. now \in Nat
      BY DEF SessionInv, Shape
    <2>1. proc[s].pc # "none"
      BY DEF Connect, publish, Backoff, Cancelled, NotifyStatus, NotifyEvent, SocketLost, Noted
    <2>2. UNCHANGED <<owned, lock, now>>
      BY DEF Connect, publish, Backoff, Cancelled, NotifyStatus, NotifyEvent, SocketLost, Moves
    <2>3. UNCHANGED sess \/ \E t \in Int : sess' = [sess EXCEPT ![s].last = t]
      <3>1. CASE Connect(s)
        BY <3>1 DEF Connect
      <3>2. CASE NotifyStatus(s)
        <4>1. 0..now \subseteq Int
          BY <2>0
        <4> QED
          BY <3>2, <4>1 DEF NotifyStatus
      <3>3. CASE publish(s) \/ Backoff(s) \/ Cancelled(s) \/ NotifyEvent(s) \/ SocketLost(s)
        BY <3>3 DEF publish, Backoff, Cancelled, NotifyEvent, SocketLost
      <3> QED
        BY <3>1, <3>2, <3>3
    <2> QED
      BY <2>0, <2>1, <2>2, <2>3
  <1>2. IsProcess(proc[s])
    BY DEF SessionInv, Shape
  <1>3. CASE next(RunEnded(s))
    BY <1>1, <1>3, EndOfWork, TaskStep
  <1>4. CASE Reads
    <2>1. PICK at : next([Idle EXCEPT !.pc = "read", !.kind = "publish", !.at = at])
      BY <1>4
    <2>2. good([Idle EXCEPT !.pc = "read", !.kind = "publish", !.at = at])
      BY DEF IsProcess, Idle
    <2> QED
      BY <1>1, <2>1, <2>2, TaskStep
  <1>5. CASE publish(s) /\ ~next(RunEnded(s))
    <2> DEFINE w == [proc[s] EXCEPT !.pc = "apply"]
               row == Only(sess[s].dev, [record_success(reg[sess[s].dev], proc[s].at)
                                           EXCEPT !.avail = "Online"])
               v == [proc[s] EXCEPT !.pc = "apply", !.write = row]
    <2>1. next(w) \/ next(v)
      BY <1>5 DEF publish, Moves
    <2>2. good(w) /\ good(v)
      BY <1>2 DEF IsProcess
    <2> QED
      BY <1>1, <2>1, <2>2, TaskStep
  <1>6. CASE NotifyStatus(s) /\ next(proc[s])
    BY <1>1, <1>2, <1>6, TaskStep
  <1>7. CASE NotifyEvent(s)
    <2>1. next([Idle EXCEPT !.pc = "apply", !.kind = "publish", !.n = 1])
      BY <1>7 DEF NotifyEvent, Moves
    <2>2. good([Idle EXCEPT !.pc = "apply", !.kind = "publish", !.n = 1])
      BY DEF IsProcess, Idle
    <2> QED
      BY <1>1, <2>1, <2>2, TaskStep
  <1>8. CASE Cancelled(s)
    <2>1. next([Idle EXCEPT !.pc = "none"]) /\ sess[s].cancel
      BY <1>8 DEF Cancelled, Moves
    <2>2. IsProcess([Idle EXCEPT !.pc = "none"])
      BY DEF IsProcess, Idle
    <2> QED
      BY <1>1, <2>1, <2>2, TaskStep
  <1>9. CASE Backoff(s)
    <2> DEFINE w == [Idle EXCEPT !.pc = IF sess[s].cancel THEN "none" ELSE "connect"]
    <2>1. next(w)
      BY <1>9 DEF Backoff, Moves
    <2>2. good(w)
      BY DEF IsProcess, Idle
    <2> QED
      BY <1>1, <2>1, <2>2, TaskStep
  <1>10. CASE Connect(s)
    BY <1>3, <1>4, <1>10 DEF Connect, Moves
  <1>11. CASE NotifyStatus(s)
    BY <1>3, <1>4, <1>6, <1>11 DEF NotifyStatus, Moves
  <1>12. CASE SocketLost(s)
    BY <1>3, <1>12 DEF SocketLost, Moves
  <1> QED
    BY <1>3, <1>5, <1>7, <1>8, <1>9, <1>10, <1>11, <1>12

\* No session runs: the state at the start and after a restart.
Quiet ==
  /\ proc = [p \in Processes |-> [Idle EXCEPT !.pc = IF p \in Tasks THEN "none" ELSE "idle"]]
  /\ sess = [s \in Tasks |-> [dev |-> None, cancel |-> FALSE, last |-> 0]]
  /\ owned = [d \in Devices |-> None]
  /\ now \in Nat

\* With no session running the invariant holds.
LEMMA NoSessions == Quiet => SessionInv
  <1> SUFFICES ASSUME Quiet PROVE SessionInv
    OBVIOUS
  <1>1. \A p \in Services : proc[p] = [Idle EXCEPT !.pc = "idle"]
    BY Distinct DEF Processes, Quiet
  <1>2. \A s \in Tasks : proc[s] = [Idle EXCEPT !.pc = "none"]
    BY DEF Processes, Quiet
  <1>3. ServiceOK([Idle EXCEPT !.pc = "idle"]) /\ IsProcess([Idle EXCEPT !.pc = "none"])
        /\ [Idle EXCEPT !.pc = "idle"].pc = "idle" /\ [Idle EXCEPT !.pc = "none"].pc = "none"
    BY DEF ServiceOK, IsProcess, Idle
  <1>4. proc = [p \in Processes |-> proc[p]]
    BY DEF Quiet
  <1>5. /\ sess \in [Tasks -> [dev : Devices \cup {None}, cancel : BOOLEAN, last : Int]]
        /\ owned \in [Devices -> Tasks \cup {None}] /\ \A d \in Devices : owned[d] = None
    BY DEF Quiet
  <1>6. Shape
    BY <1>1, <1>2, <1>3, <1>4, <1>5 DEF Shape, Quiet
  <1> QED
    BY <1>1, <1>2, <1>3, <1>5, <1>6 DEF SessionInv, Running, Owner, Mutex, OneSessionPerDevice

\* Nothing of a session changes in the other steps.
LEMMA OtherStep ==
  ASSUME SessionInv, UNCHANGED <<proc, sess, owned, lock>>, now' \in Nat
  PROVE  SessionInv'
  BY DEF SessionInv, Shape, Running, Owner, Mutex, OneSessionPerDevice, ServiceOK, IsProcess

\* Every step keeps the invariant.
LEMMA SessionInvStep ==
  ASSUME SessionInv, [Next]_vars
  PROVE  SessionInv'
  <1>0. now \in Nat
    BY DEF SessionInv, Shape
  <1>1. CASE Worker
    BY <1>1, WriterStep, RefresherStep, ServiceCalls DEF Worker, Services, Processes
  <1>2. CASE Api
    BY <1>2, WriterStep, RefresherStep, ServiceCalls DEF Api, Services, Processes
  <1>3. CASE OrphanCommits \/ Stream \/ accept_subscription \/ SendFails \/ Clock
              \/ UNCHANGED vars
    <2>1. UNCHANGED <<proc, sess, owned, lock>> /\ (UNCHANGED now \/ now' = now + 1)
      <3>1. CASE Clock
        BY <3>1 DEF Clock
      <3>2. CASE OrphanCommits \/ UNCHANGED vars
        BY <3>2 DEF OrphanCommits, vars
      <3>3. CASE Stream
        BY <3>3 DEF Stream, drain_events, event_socket, Woken, Polled, Served
      <3>4. CASE accept_subscription \/ SendFails
        BY <3>4 DEF accept_subscription, SendFails, Served
      <3> QED
        BY <1>3, <3>1, <3>2, <3>3, <3>4
    <2> QED
      BY <1>0, <2>1, OtherStep
  <1>4. ASSUME NEW s \in Tasks,
               \/ Connect(s) \/ Session(s) \/ Cancelled(s)
               \/ NotifyStatus(s) \/ NotifyEvent(s) \/ SocketLost(s)
        PROVE  SessionInv'
    BY <1>4, SessionStep, WriterStep DEF Session, Processes
  <1>5. CASE \E p \in Processes : ApplyFails(p)
    BY <1>5, WriterStep
  <1>6. CASE Deadline \/ refresh \/ \E d \in Devices : update_device_metadata(d) \/ remove_device(d)
    BY <1>6, ServiceCalls
  <1>7. CASE Restart
    <2>1. Quiet'
      BY <1>0, <1>7 DEF Restart, Quiet
    <2> QED
      BY <2>1, NoSessions, PTL
  <1> QED
    BY <1>1, <1>2, <1>3, <1>4, <1>5, <1>6, <1>7 DEF Next

\* ADR-0010, for any devices and any number of tasks: of the sessions of a
\* device, only the one in ShellySessionSupervisor's map has not been told to
\* stop, through replacements, removals, refreshes dropped at their deadline
\* and restarts.
THEOREM SessionsAreUnique == Spec => []OneSessionPerDevice
  <1>1. Init => SessionInv
    BY NoSessions DEF Init, Quiet
  <1>2. SessionInv /\ [Next]_vars => SessionInv'
    BY SessionInvStep
  <1>3. SessionInv => OneSessionPerDevice
    BY DEF SessionInv
  <1> QED
    BY <1>1, <1>2, <1>3, PTL DEF Spec
=============================================================================
