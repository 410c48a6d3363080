---------------------------- MODULE SdkGeneration ----------------------------
(***************************************************************************)
(* What an SDK update promises: the repository holds one whole generation  *)
(* of its files, and an update replaces it by another in one step or not   *)
(* at all (cmd/nre-ci/sdk_transaction.go).                                 *)
(***************************************************************************)
CONSTANT Generations

VARIABLES gen,      \* the generation the repository stands for
          pending   \* the generation an unfinished update may still install, if any

Init == gen \in Generations /\ pending = {}

Propose == pending = {} /\ gen' = gen /\ \E g \in Generations : pending' = {g}

Commit == gen' \in pending /\ pending' = {}

Abandon == pending # {} /\ gen' = gen /\ pending' = {}

Next == Propose \/ Commit \/ Abandon

Spec == Init /\ [][Next]_<<gen, pending>>
=============================================================================
