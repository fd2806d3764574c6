-------------------------- MODULE MCMatterOperations --------------------------
(***************************************************************************)
(* The TLC instance of MatterOperations: three workloads, each with the    *)
(* faults that matter to it.                                               *)
(***************************************************************************)
EXTENDS MatterOperations, TLC

Nodewise == [offered |-> [commission |-> 2, cancel |-> 2, remove |-> 1],
             provisioned |-> TRUE, handlers |-> 1,
             disruptions |-> {"crash", "fault", "revoke"}]

Provisioning == [offered |-> [create |-> 2], provisioned |-> FALSE, handlers |-> 2,
                 disruptions |-> {"crash", "fault", "revoke"}]

Backup == [offered |-> [export |-> 1, restore |-> 2], provisioned |-> TRUE,
           handlers |-> 1, disruptions |-> {"fault", "replace"}]

MCWorkloads == {Nodewise, Provisioning, Backup}

\* Keys, handlers and nodes are interchangeable: they are compared, never ordered.
Symmetry == Permutations(Keys) \cup Permutations(Callers) \cup Permutations(Nodes)
=============================================================================
