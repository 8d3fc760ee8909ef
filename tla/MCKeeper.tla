------------------------------ MODULE MCKeeper ------------------------------
(* The watchdogs of all tasks, and the rounds in which one of them is fed.    *)
(* The two modules share no variable, so each is explored with the other at   *)
(* rest (part says which), not in every interleaving.                         *)
(*                                                                            *)
(* A log of two messages and two tasks stuck at once: everything the watchdog *)
(* task does depends on one message held and one task stuck or starved.       *)
(* Three devices, one due in every round, so that all are due together in     *)
(* every sixth; their polls just fit between two feeds.                       *)
EXTENDS Keeper, Rounds
VARIABLE part
Periods == [d \in 1 .. 3 |-> d]

MCInit == part \in {"keeper", "rounds"} /\ KeeperInit /\ RoundsInit
MCKeeperStep == part = "keeper" /\ KeeperNext /\ UNCHANGED <<roundVars, part>>
MCRoundsStep == part = "rounds" /\ RoundsNext /\ UNCHANGED <<keeperVars, part>>
MCNext == MCKeeperStep \/ MCRoundsStep

\* The fairness is that of Keeper; of Rounds only safety is checked.
MCSpec == MCInit /\ [][MCNext]_<<keeperVars, roundVars, part>> /\ KeeperFairness
=============================================================================
