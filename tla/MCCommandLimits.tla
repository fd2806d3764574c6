--------------------------- MODULE MCCommandLimits ---------------------------
(* Instances of CommandLimits for TLC.                                       *)
EXTENDS CommandLimits, TLC

\* Calls, actors and devices are interchangeable.
Symmetry == Permutations(Calls) \cup Permutations(Actors) \cup Permutations(Devices)
=============================================================================
