-------------------------- MODULE CommandLifecycle --------------------------
(***************************************************************************)
(* What the command path promises of every command, whatever calls,        *)
(* crashes and retries happen: a command is received once, walks the       *)
(* documented lifecycle, and its adapter is invoked at most once, only     *)
(* after the dispatch was made durable.  Commands implements this.         *)
(***************************************************************************)
EXTENDS Naturals

CONSTANT CommandIds

VARIABLES
  status,   \* the durable state of every command, "Absent" before receipt
  invoked   \* how often the adapter was invoked for it

vars == <<status, invoked>>

Lifecycle ==
  [Absent       |-> {"Received"},
   Received     |-> {"Validated", "Rejected", "TimedOut", "Cancelled"},
   Validated    |-> {"Dispatched", "Rejected", "TimedOut", "Cancelled"},
   Dispatched   |-> {"Acknowledged", "Confirmed", "Failed", "TimedOut"},
   Acknowledged |-> {"Confirmed", "Failed", "TimedOut"},
   Rejected     |-> {},
   Confirmed    |-> {},
   Failed       |-> {},
   TimedOut     |-> {},
   Cancelled    |-> {}]

Init ==
  /\ status = [c \in CommandIds |-> "Absent"]
  /\ invoked = [c \in CommandIds |-> 0]

Advance(c) ==
  /\ \E next \in Lifecycle[status[c]] : status' = [status EXCEPT ![c] = next]
  /\ UNCHANGED invoked

Invoke(c) ==
  /\ status[c] \in {"Dispatched", "Acknowledged", "Confirmed", "Failed", "TimedOut"}
  /\ invoked[c] = 0
  /\ invoked' = [invoked EXCEPT ![c] = 1]
  /\ UNCHANGED status

Next == \E c \in CommandIds : Advance(c) \/ Invoke(c)

Spec == Init /\ [][Next]_vars
=============================================================================
