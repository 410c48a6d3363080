------------------------------ MODULE MCDocker ------------------------------
(* The docker-app plugin for TLC, one scene per initial state: supervised  *)
(* deploys of one app ("job"), the catalogue under one request at a time   *)
(* with restarts and failing calls ("serial"), the catalogue with the      *)
(* image observer ("observer"), backups of one app ("backup"), also over   *)
(* restarts ("restart"), the images of two apps that share one on a node   *)
(* ("images") and the versions of one service ("versions").  The scenes    *)
(* share no state and never change.                                        *)
EXTENDS DeployJob, TLC

CONSTANTS Scenes, NoApp, Nothing, Latest

VARIABLES
    scene,
    stored, mem, storedRun, memRun, node, rules, offers, rec, behind, aCache, refresh, token,
    epoch, imgLock, a, ops, obs, aFaults, restarts, pushes, tangled, confirmed,
    home, workdir, staged, arts, content, s3, records, w, bRuns, restores, deletes, bFaults,
    crashes, removing, removed, unsure, rejected, shared,
    file, used, published, cont, stopped, local, c, calls, cFaults, settled, raced, slipped,
    repo, image, lock, ignored, o, cache, auto, policies, manual, oFaults

apps == <<stored, mem, storedRun, memRun, node, rules, offers, rec, behind, aCache, refresh,
          token, epoch, imgLock, a, ops, obs, aFaults, restarts, pushes, tangled,
          confirmed>>
backup == <<home, workdir, staged, arts, content, s3, records, w, bRuns, restores, deletes,
            bFaults, crashes, removing, removed, unsure, rejected, shared>>
images == <<file, used, published, cont, stopped, local, c, calls, cFaults, settled, raced,
            slipped>>
versions == <<repo, image, lock, ignored, o, cache, auto, policies, manual, oFaults>>

Serial == INSTANCE AppCatalog WITH
    Apps <- {"a1", "a2"}, Agents <- {"n1", "n2"}, Docs <- {"d1", "d2"}, Handlers <- {"h1"},
    Slots <- {}, Ops <- {"deploy", "job", "compose", "policy", "delete", "start", "stop",
                         "rollback", "rule", "unrule", "digest", "restore"},
    MaxOps <- 2, MaxObs <- 0, MaxFaults <- 1, MaxRestarts <- 1, MaxPush <- 1,
    cache <- aCache, h <- a, faults <- aFaults
Observer == INSTANCE AppCatalog WITH
    Apps <- {"a1"}, Agents <- {"n1"}, Docs <- {"d1", "d2"}, Handlers <- {"h1"},
    Slots <- {"s1", "s2"}, Ops <- {"delete", "digest", "detail"},
    MaxOps <- 2, MaxObs <- 2, MaxFaults <- 0, MaxRestarts <- 0, MaxPush <- 1,
    cache <- aCache, h <- a, faults <- aFaults
B == INSTANCE Backup WITH
    Agents <- {"n1", "n2"}, Volumes <- {"v1", "v2"}, Workers <- {"w1", "w2"}, None <- Nothing,
    MaxRuns <- 2, MaxRecords <- 1, MaxRestores <- 1, MaxDeletes <- 1, MaxFaults <- 1,
    MaxCrashes <- 0, runs <- bRuns, faults <- bFaults
Restart == INSTANCE Backup WITH
    Agents <- {"n1", "n2"}, Volumes <- {"v1", "v2"}, Workers <- {"w1", "w2"}, None <- Nothing,
    MaxRuns <- 1, MaxRecords <- 1, MaxRestores <- 1, MaxDeletes <- 1, MaxFaults <- 1,
    MaxCrashes <- 1, runs <- bRuns, faults <- bFaults
I == INSTANCE NodeImages WITH
    Apps <- {"a1", "a2"}, Images <- {"i1", "i2"}, MaxCalls <- 3, MaxFaults <- 1, faults <- cFaults

Tag(major, minor, pre, variant, v) ==
    [major |-> major, minor |-> minor, pre |-> pre, variant |-> variant, v |-> v]
Old == Tag(0, 2, FALSE, "", FALSE)
Stable == Tag(1, 0, FALSE, "", FALSE)
Minor == Tag(1, 1, FALSE, "", TRUE)
Preview == Tag(1, 1, TRUE, "", FALSE)
V == INSTANCE ImageVersions WITH
    Tags <- {Old, Stable, Minor, Preview}, Moving <- Latest, Locks <- {"", "patch", "major"},
    PageSize <- 2, MaxListed <- 3, MaxPolicies <- 1, MaxManual <- 1, MaxFaults <- 1,
    faults <- oFaults

\* What a component that plays no part in a scene looks like.
AppsRest == Observer!Init /\ stored["a1"] = NoApp
BackupRests == B!Init /\ home = "n1"
ImagesRest == I!Init /\ file = [x \in {"a1", "a2"} |-> {}]
VersionsRest == V!Init /\ repo = {Old} /\ image = Old

\* The scenes begin where the interesting cases are near: one app is deployed and the
\* other is not; two apps run the same image; a service runs an old tag of two.
MCInit ==
    /\ scene \in Scenes
    /\ Init
    /\ IF scene = "serial"
       THEN Serial!Init /\ stored["a1"] = [agent |-> "n1", doc |-> "d1"] /\ stored["a2"] = NoApp
       ELSE IF scene = "observer"
       THEN Observer!Init /\ stored["a1"] = [agent |-> "n1", doc |-> "d1"]
       ELSE AppsRest
    /\ IF scene = "restart" THEN Restart!Init /\ home = "n1" ELSE BackupRests
    /\ IF scene = "images" THEN I!Init /\ file["a1"] = {"i1"} /\ file["a2"] = {"i1"} ELSE ImagesRest
    /\ IF scene = "versions" THEN V!Init /\ Cardinality(repo) = 2 /\ image = Old ELSE VersionsRest

Job == scene = "job" /\ Next /\ UNCHANGED <<apps, backup, images, versions, scene>>
MCNext ==
    \/ Job
    \/ /\ \/ scene = "serial" /\ Serial!Next /\ aFaults' + restarts' <= 1
          \/ scene = "observer" /\ Observer!Next /\ ops' + obs' <= 3
       /\ UNCHANGED <<vars, backup, images, versions, scene>>
    \/ /\ \/ scene = "backup" /\ B!Next /\ restores' + deletes' + bFaults' <= 2
          \/ scene = "restart" /\ Restart!Next
       /\ UNCHANGED <<vars, apps, images, versions, scene>>
    \/ /\ scene = "images" /\ I!Next /\ calls' + cFaults' <= 3
       /\ UNCHANGED <<vars, apps, backup, versions, scene>>
    \/ /\ scene = "versions" /\ V!Next /\ policies' + manual' + oFaults' <= 2
       /\ UNCHANGED <<vars, apps, backup, images, scene>>
mcvars == <<vars, apps, backup, images, versions, scene>>
MCSpec ==
    /\ MCInit /\ [][MCNext]_mcvars
    /\ \A r \in 1 .. MaxRuns :
         WF_vars(r \in DOMAIN runs /\ runs[r].proc # "up" /\ Finish(r)
                 /\ UNCHANGED <<apps, backup, images, versions, scene>>)
-----------------------------------------------------------------------------
\* Every variable of the component that plays has its type.
Types ==
    CASE scene = "job" -> TypeOK
      [] scene = "serial" -> Serial!TypeOK
      [] scene = "observer" -> Observer!TypeOK
      [] scene = "backup" -> B!TypeOK
      [] scene = "restart" -> Restart!TypeOK
      [] scene = "images" -> I!TypeOK
      [] scene = "versions" -> V!TypeOK

\* Between requests the catalogue in memory, at the host, the offers and the nodes agree,
\* and no deployment record outlives its app (app_ui.go, lifecycle.go).
CatalogueTrue ==
    /\ scene = "serial" => Serial!SerialAgreement /\ Serial!NoGhostRecord
    /\ scene = "observer" => Observer!NoGhostRecord

\* An observation that began before a manual update never takes its confirmation off the
\* page (applyManualServiceUpdate).
ConfirmationKept ==
    /\ scene = "serial" => Serial!ConfirmationKept
    /\ scene = "observer" => Observer!ConfirmationKept

\* A record is the only authority over a copy, an artifact holds the volumes of one run,
\* and a run that failed leaves nothing behind (backup_run.go, backup_restore.go).
BackupsTrue ==
    /\ scene = "backup" => B!RecordAuthority /\ B!OwnVolumes /\ B!CleanFailure
    /\ scene = "restart" => Restart!RecordAuthority /\ Restart!OwnVolumes /\ Restart!CleanFailure

\* Images that nothing needs are reclaimed and those a settled app needs are kept, however
\* the calls for two apps interleave (plugin_call.go, workdir.go).
ImagesKept == scene = "images" => I!NoLeak /\ I!SettledKept

\* The page's release state, default tag and candidates tell one story (release.go).
OneStory == scene = "versions" => V!OneStory

\* The observer only moves a service forward, within its policy (service_update.go).
AutoForward == V!AutoForward
=============================================================================
