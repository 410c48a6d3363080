------------------------------ MODULE MCRollout ------------------------------
(* Instances of Rollout for TLC.  In the scenes "rule" and "faults" the    *)
(* app is published behind an HTTP rule, with more operations or with more *)
(* failing calls; in the scene "install" it is not deployed yet and one    *)
(* worker publishes under the image observer's guard.                      *)
EXTENDS Rollout, TLC

CONSTANTS Installer, Scenes

VARIABLE scene

Faulty == INSTANCE Rollout WITH MaxOps <- 2, MaxFaults <- 2
Install == INSTANCE Rollout WITH
    Workers <- {Installer}, Fresh <- {TRUE}, Guarded <- TRUE, MaxFaults <- 2

MCInit == /\ scene \in Scenes
          /\ \/ scene \in {"rule", "faults"} /\ Init
             \/ scene = "install" /\ Install!Init
MCNext == /\ \/ scene = "rule" /\ Next
             \/ scene = "faults" /\ Faulty!Next
             \/ scene = "install" /\ Install!Next
          /\ UNCHANGED scene
MCSpec == MCInit /\ [][MCNext]_<<vars, scene>>

\* Leases fence their holders off: an unexpired one is exclusive, and the token of a new one
\* is above every token the executor has seen.  Deleting the record of a failed first
\* install starts the tokens again, so the second part is about installed apps.
Fencing == [][LeaseExclusive /\ (scene # "install" => FencesIncrease)]_vars

Symmetry == Permutations(Workers) \cup Permutations(Images)
=============================================================================
