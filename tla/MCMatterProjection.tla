-------------------------- MODULE MCMatterProjection --------------------------
(***************************************************************************)
(* TLC instances of MatterProjection: the simulator's light and lock       *)
(* fixtures, and a light that lacks a command and is not projected.        *)
(***************************************************************************)
EXTENDS MatterProjection, TLC

LightNode == [types |-> {"on_off_light"}, cluster |-> "on_off",
              attributes |-> {"on_off"}, commands |-> {"off", "on"}]
DeafLight == [LightNode EXCEPT !.commands = {"on"}]
LockNode == [types |-> {"door_lock"}, cluster |-> "door_lock",
             attributes |-> {"lock_state"}, commands |-> {"lock", "unlock"}]

Nodes == {LightNode, DeafLight, LockNode}
\* Two commands around one repair, and one command around two of them with
\* the time and the faults for a retry to come due and to fail.
MCLoads == {[commands |-> 2, repairs |-> 1, faults |-> 1, ticks |-> 1],
            [commands |-> 1, repairs |-> 2, faults |-> 2, ticks |-> 2]}

\* Commands are interchangeable: they are compared, never ordered.
Symmetry == Permutations(Cmds)
=============================================================================
