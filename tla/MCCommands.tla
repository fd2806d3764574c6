----------------------------- MODULE MCCommands -----------------------------
(* Instances of Commands for TLC: one Matter lock, one plain lamp, an owner  *)
(* who may approve unlocks and requests chosen per run.                      *)
EXTENDS Commands, TLC

CONSTANTS owner, lock, lamp

req(key, device, payload, deadline, dryRun) ==
  [actor |-> owner, key |-> key, device |-> device, payload |-> payload,
   deadline |-> deadline, dryRun |-> dryRun]

\* An unlock that waits for approval, and a lock that replaces it.
LockRequests ==
  {req(1, lock, "Unlock", 2, FALSE), req(2, lock, "Lock", 2, FALSE)}

\* The unlock expires before the lock does.
ExpiringRequests ==
  {req(1, lock, "Unlock", 1, FALSE), req(2, lock, "Lock", 2, FALSE)}

\* One key used for two requests of a plain device, and a dry-run unlock.
MixedRequests ==
  {req(1, lamp, "Level", 1, FALSE), req(1, lamp, "Toggle", 1, FALSE),
   req(2, lock, "Unlock", 1, TRUE)}

FullGrants == {Actions}
ChangingGrants == {Actions, {"Execute"}, {}}
ApprovalGrants == {Actions, {"Execute"}}

\* Calls and the fresh identities are interchangeable.
Symmetry ==
  Permutations(Calls) \cup Permutations(CommandIds) \cup Permutations(AuthIds)
=============================================================================
