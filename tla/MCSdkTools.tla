----------------------------- MODULE MCSdkTools -----------------------------
(* The SDK tooling for TLC, one scene per initial state: an update that    *)
(* nobody interferes with ("update"), and the verification cache under     *)
(* hands that take no lock, used by two processes that share a result      *)
(* ("verify") or differ in what they require ("require").  The scenes      *)
(* share no state and never change.                                        *)
EXTENDS SdkTransaction

CONSTANT Scenes

VARIABLES
    scene,
    repo, remote, checkout, results, resultLock, checkoutLock, p, edits, vTampers, vCrashes,
    swung, replaced, tainted

verification == <<repo, remote, checkout, results, resultLock, checkoutLock, p, edits, vTampers,
                  vCrashes, swung, replaced, tainted>>

Verify == INSTANCE VerifyCache WITH
    Processes <- {"x1", "x2"}, Mode <- [x \in {"x1", "x2"} |-> "plain"],
    Versions <- {"v1", "v2"}, Good <- {"v1"}, Mismatched <- {}, Missing <- "no",
    MaxEdits <- 2, MaxTampers <- 1, MaxCrashes <- 1, tampers <- vTampers, crashes <- vCrashes
\* The lock misses a capability that x2 requires; v2 names other modules than the lock.
Require == INSTANCE VerifyCache WITH
    Processes <- {"x1", "x2"}, Mode <- [x \in {"x1", "x2"} |-> IF x = "x1" THEN "plain" ELSE "strict"],
    Versions <- {"v1", "v2"}, Good <- {"v1"}, Mismatched <- {"v2"}, Missing <- "yes",
    MaxEdits <- 1, MaxTampers <- 1, MaxCrashes <- 1, tampers <- vTampers, crashes <- vCrashes

MCInit ==
    /\ scene \in Scenes
    /\ Init /\ Verify!Init
    /\ scene # "update" => target = [f \in Files |-> CHOOSE c \in Content : TRUE]
    /\ scene = "update" => repo = "v1"
OfUpdate == UNCHANGED <<scene, verification>>
MCNext ==
    \/ scene = "update" /\ Next /\ OfUpdate
    \/ scene = "verify" /\ Verify!Next /\ UNCHANGED <<scene, vars>>
    \/ scene = "require" /\ Require!Next /\ UNCHANGED <<scene, vars>>
mcvars == <<scene, vars, verification>>
\* The fairness of FairSpec: the command is run again, and a running one runs on.
MCSpec ==
    /\ MCInit /\ [][MCNext]_mcvars
    /\ WF_mcvars(scene = "update" /\ Begin /\ OfUpdate)
    /\ WF_mcvars(scene = "update" /\ Step /\ OfUpdate)
-----------------------------------------------------------------------------
\* What the cache keeps as verified is verified, whoever edits, spoils or dies meanwhile
\* (verifyCached in cache.go).
CacheSound ==
    /\ scene = "verify" => Verify!TypeOK /\ Verify!CacheSound
    /\ scene = "require" => Require!TypeOK /\ Require!CacheSound
=============================================================================
