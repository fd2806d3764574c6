------------------------------ MODULE MCFoundation ------------------------------
(***************************************************************************)
(* An instance of Foundation for model checking: one device, known or not  *)
(* at the start, and the writers that race over its record.                *)
(***************************************************************************)
EXTENDS Foundation

CONSTANTS d1, s1, s2

Load(scans, ticks, notes, calls, faults, cuts, crashes, subs) ==
  [scans |-> scans, ticks |-> ticks, notes |-> notes, calls |-> calls, faults |-> faults,
   cuts |-> cuts, crashes |-> crashes, subs |-> subs]

\* Notifications out of order; freshness against scans; a call against a
\* passing clock, against the deadline, against a fault and a crash; the
\* subscriber against the deadline and against everything else, and one that
\* comes back after a failed send.
MCLoads == {
  Load(1, 1, 2, 0, 0, 0, 0, 0),
  Load(2, 2, 0, 0, 0, 0, 0, 0),
  Load(1, 1, 0, 1, 0, 0, 0, 0),
  Load(2, 0, 0, 1, 0, 1, 0, 0),
  Load(1, 0, 0, 1, 1, 0, 1, 0),
  Load(1, 1, 0, 0, 0, 1, 0, 1),
  Load(1, 0, 1, 0, 1, 0, 1, 1),
  Load(1, 1, 0, 0, 1, 0, 0, 2)}
=============================================================================
