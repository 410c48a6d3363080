------------------------------- MODULE Backup -------------------------------
(***************************************************************************)
(* Backups of one application of the docker-app plugin: the control plane  *)
(* (RunBackup, RestoreBackup, DeleteBackup and the persisted records) and  *)
(* the face it drives on the nodes (backup-pack, backup-s3, backup-restore *)
(* and the volume operations).                                             *)
(*                                                                         *)
(* A request works through "todo", the calls the code makes in that order. *)
(* Runs of one application exclude each other (lockBackupRun); restores    *)
(* and deletes take no lock.  A call ends in "ok", "fail" (no effect) or   *)
(* "late" (the effect happens, the caller sees an error).  S3 is           *)
(* configured and the node destination enabled throughout.                 *)
(***************************************************************************)
EXTENDS Integers, Sequences, FiniteSets

CONSTANTS
    Agents, Volumes, Workers,
    None,
    MaxRuns,       \* backup ids
    MaxRecords,    \* MaxBackupRecords
    MaxRestores, MaxDeletes, MaxFaults, MaxCrashes

Ids == 1..MaxRuns
Restored == 0      \* the content of a volume archive a restore has staged

VARIABLES
    home,          \* the node the application is bound to in the stored list
    workdir,       \* nodes with a workspace of the application
    staged,        \* backup-staging: whose archive of each volume is there
    arts,          \* backups/: the artifacts in each workspace
    content,       \* whose volume archives an artifact was packed from
    s3,            \* objects in the bucket
    records,       \* the persisted records
    w,             \* the requests in flight
    runs, restores, deletes, faults, crashes,    \* bounds
    removing,      \* records a delete has started on
    removed,       \* records a delete has removed, as they were
    unsure,        \* ids whose record or artifact was written, or cleaned up,
                   \* with an unknown outcome, or whose clean-up failed
    rejected,      \* ids whose run failed before its record was stored
    shared         \* ids whose run met a restore

system == <<home, workdir, staged, arts, content, s3, records>>
bounds == <<runs, restores, deletes, faults, crashes>>
history == <<removing, removed, unsure, rejected, shared>>
vars == <<system, w, bounds, history>>

Record == [type : {"s3", "node"}, origin : Agents, location : Agents]
Idle == [op |-> "none", id |-> 0, rec |-> None, target |-> None, todo |-> <<>>,
         left |-> {}, fresh |-> FALSE]

Busy(p) == w[p].op # "none"
Doing(p, call) == Busy(p) /\ w[p].todo # <<>> /\ Head(w[p].todo) = call
Continue(p, proc, rest) ==
    w' = [w EXCEPT ![p] = IF rest = <<>> THEN Idle ELSE [proc EXCEPT !.todo = rest]]
Advance(p) == Continue(p, w[p], Tail(w[p].todo))
Running(op) == {p \in Workers : w[p].op = op}
Outcomes == {"ok", "fail", "late"}
Outcome(o) == /\ o # "ok" => faults < MaxFaults
              /\ faults' = IF o = "ok" THEN faults ELSE faults + 1

\* an idle staging tree
Unstaged == [v \in Volumes |-> None]

(***************************************************************************)
(* What the nodes and the bucket do                                        *)
(***************************************************************************)
(* archiveDirToVolumeTar: the volume's archive appears in the staging tree *)
Archived(ag, v, id) == [staged EXCEPT ![ag][v] = id]

(* stageBackupMembers, hashStagedBackupMembers: every planned member is    *)
(* opened and hashed before anything is written                            *)
Whole(ag) == \A v \in Volumes : staged[ag][v] # None

(* CreateBackupArtifact: written beside its place, then renamed into it    *)
Created(ag, id) == [arts EXCEPT ![ag] = @ \cup {id}]

(* PushBackupArtifact: the target's copy is complete when the transfer     *)
(* reports so                                                              *)
Transferred(from, to, id) ==
    /\ arts' = IF id \in arts[from] THEN [arts EXCEPT ![to] = @ \cup {id}] ELSE arts
    /\ workdir' = IF id \in arts[from] THEN workdir \cup {to} ELSE workdir

(* backupS3PutObject, of an artifact that is there                         *)
Uploaded(from, id) == IF id \in arts[from] THEN s3 \cup {id} ELSE s3

(* backupS3Delete: an object that is not there is a success                *)
Unobject(id) == s3 \ {id}

(* backupPackDiscard, likewise                                             *)
Discarded(ag, id) == [arts EXCEPT ![ag] = @ \ {id}]

(* persistedBackupStore.Append refuses one record too many                 *)
Full == Cardinality({id \in Ids : records[id] # None}) >= MaxRecords

(***************************************************************************)
(* RunBackup                                                               *)
(***************************************************************************)
\* Mutant: two runs of the application at once.
BeginRunUnlocked(p, type, target) ==
    /\ ~Busy(p) /\ runs < MaxRuns
    /\ home # None
    /\ type = "s3" /\ target = home
    /\ runs' = runs + 1
    /\ w' = [w EXCEPT ![p] = [op |-> "run", id |-> runs + 1, target |-> target,
            rec |-> [type |-> type, origin |-> home, location |-> target],
            left |-> Volumes, fresh |-> FALSE,
            todo |-> <<"archive", "pack", "upload", "append">>]]
    /\ shared' = IF Running("restore") = {} THEN shared ELSE shared \cup {runs + 1}
    /\ UNCHANGED <<system, restores, deletes, faults, crashes, removing, removed, unsure, rejected>>

(* The destination is S3, the node itself, or another managed node the     *)
(* artifact is pushed to; a second run of the application is refused.      *)
BeginRun(p, type, target) ==
    /\ ~Busy(p) /\ runs < MaxRuns
    /\ Running("run") = {}
    /\ home # None
    /\ type = "s3" => target = home
    /\ runs' = runs + 1
    /\ w' = [w EXCEPT ![p] = [op |-> "run", id |-> runs + 1, target |-> target,
            rec |-> [type |-> type, origin |-> home, location |-> target],
            left |-> Volumes, fresh |-> FALSE,
            todo |-> <<"archive", "pack">>
                     \o (CASE type = "s3" -> <<"upload">>
                           [] target # home -> <<"push">>
                           [] OTHER -> <<>>)
                     \o <<"append">>]]
    /\ shared' = IF Running("restore") = {} THEN shared ELSE shared \cup {runs + 1}
    /\ UNCHANGED <<system, restores, deletes, faults, crashes,
                   removing, removed, unsure, rejected>>

\* the run of p failed before its record: what it cleans up
Reject(p, cleanup) ==
    /\ Continue(p, w[p], cleanup)
    /\ rejected' = rejected \cup {w[p].id}

(* One VolumeArchive call per volume of the plan                           *)
CallArchive(p) ==
    /\ Doing(p, "archive")
    /\ IF w[p].left = {}
       THEN Advance(p) /\ UNCHANGED <<staged, workdir, faults, rejected>>
       ELSE \E v \in w[p].left, o \in Outcomes :
              /\ Outcome(o)
              /\ staged' = IF o = "fail" THEN staged
                           ELSE Archived(w[p].rec.origin, v, w[p].id)
              /\ workdir' = workdir \cup {w[p].rec.origin}
              /\ IF o = "ok"
                 THEN /\ w' = [w EXCEPT ![p].left = @ \ {v}]
                      /\ UNCHANGED rejected
                 ELSE Reject(p, <<"clean">>)
    /\ UNCHANGED <<home, arts, content, s3, records, runs, restores, deletes, crashes,
                   removing, removed, unsure, shared>>

(* backup-pack: opens every staged archive, missing ones are an error, and *)
(* removes the ones it opened whether or not the artifact gets written.    *)
CallPack(p) ==
    LET ag == w[p].rec.origin
    IN  /\ Doing(p, "pack")
        /\ \E o \in Outcomes :
             /\ Outcome(o)
             /\ staged' = IF o = "fail" THEN staged ELSE [staged EXCEPT ![ag] = Unstaged]
             /\ IF Whole(ag) /\ o # "fail"
                THEN /\ arts' = Created(ag, w[p].id)
                     /\ content' = [content EXCEPT ![w[p].id] = staged[ag]]
                ELSE UNCHANGED <<arts, content>>
             /\ unsure' = IF o = "late" THEN unsure \cup {w[p].id} ELSE unsure
             /\ IF Whole(ag) /\ o = "ok" THEN Advance(p) /\ UNCHANGED rejected
                ELSE Reject(p, <<"clean">>)
        /\ UNCHANGED <<home, workdir, s3, records, runs, restores, deletes, crashes,
                       removing, removed, shared>>

(* uploadBackupArtifact and PushPackedBackupArtifact: after an error the   *)
(* staging tree and the local artifact go, what may have arrived stays.    *)
CallShip(p) ==
    LET from == w[p].rec.origin
        has == w[p].id \in arts[from]
    IN  /\ Doing(p, "upload") \/ Doing(p, "push")
        /\ \E o \in Outcomes :
             /\ Outcome(o)
             /\ s3' = IF Doing(p, "upload") /\ o # "fail" THEN Uploaded(from, w[p].id) ELSE s3
             /\ IF Doing(p, "push") /\ o # "fail" THEN Transferred(from, w[p].target, w[p].id)
                ELSE UNCHANGED <<arts, workdir>>
             /\ unsure' = IF o = "late" THEN unsure \cup {w[p].id} ELSE unsure
             /\ IF o = "ok" /\ has THEN Advance(p) /\ UNCHANGED rejected
                ELSE Reject(p, <<"clean", "discard">>)
        /\ UNCHANGED <<home, staged, content, records, runs, restores, deletes, crashes,
                       removing, removed, shared>>

(* appendBackupRecord, the last step; a store that failed, or is full, is  *)
(* compensated: the S3 object or the node copies are removed.              *)
CallAppend(p) ==
    LET copies == CASE w[p].rec.type = "s3" -> <<"unobject">>
                    [] w[p].rec.location # w[p].rec.origin -> <<"discardtarget", "discardhome">>
                    [] OTHER -> <<"discardhome">>
    IN  /\ Doing(p, "append")
        /\ \E o \in Outcomes :
             /\ Outcome(o)
             /\ records' = IF Full \/ o = "fail" THEN records
                           ELSE [records EXCEPT ![w[p].id] = w[p].rec]
             /\ unsure' = IF o = "late" THEN unsure \cup {w[p].id} ELSE unsure
             /\ IF o = "ok" /\ ~Full THEN Continue(p, w[p], <<>>) ELSE Continue(p, w[p], copies)
        /\ UNCHANGED <<home, workdir, staged, arts, content, s3, runs, restores, deletes, crashes,
                       removing, removed, rejected, shared>>

(* cleanBackupStaging and discardBackupArtifact of a failed run: each is   *)
(* tried once, with its own 15 s, and errors are ignored.                  *)
CallCleanup(p) ==
    LET ag == w[p].rec.origin
    IN  /\ Doing(p, "clean") \/ Doing(p, "discard")
        /\ \E o \in Outcomes :
             /\ Outcome(o)
             /\ staged' = IF Doing(p, "clean") /\ o # "fail"
                          THEN [staged EXCEPT ![ag] = Unstaged] ELSE staged
             /\ arts' = IF Doing(p, "discard") /\ o # "fail"
                        THEN Discarded(ag, w[p].id) ELSE arts
             /\ unsure' = IF o = "ok" THEN unsure ELSE unsure \cup {w[p].id}
        /\ Advance(p)
        /\ UNCHANGED <<home, workdir, content, s3, records, runs, restores, deletes, crashes,
                       removing, removed, rejected, shared>>

(***************************************************************************)
(* DeleteBackup, and the compensation of a run, share their calls.         *)
(***************************************************************************)
BeginDelete(p, id) ==
    /\ ~Busy(p) /\ deletes < MaxDeletes
    /\ records[id] # None
    /\ deletes' = deletes + 1
    /\ removing' = removing \cup {id}
    /\ w' = [w EXCEPT ![p] = [op |-> "delete", id |-> id, rec |-> records[id],
            target |-> None, left |-> {}, fresh |-> FALSE,
            todo |-> (CASE records[id].type = "s3" -> <<"unobject">>
                        [] records[id].location # records[id].origin ->
                             <<"discardhome", "discardtarget">>
                        [] OTHER -> <<"discardhome">>) \o <<"forget">>]]
    /\ UNCHANGED <<system, runs, restores, faults, crashes, removed, unsure, rejected, shared>>

(* deleteBackupObject and the checked discards: a missing object or file   *)
(* is a success; the first error ends the request.                         *)
CallRemove(p) ==
    LET id == w[p].id
        at == IF Doing(p, "discardhome") THEN w[p].rec.origin ELSE w[p].rec.location
    IN  /\ Doing(p, "unobject") \/ Doing(p, "discardhome") \/ Doing(p, "discardtarget")
        /\ \E o \in Outcomes :
             /\ Outcome(o)
             /\ s3' = IF Doing(p, "unobject") /\ o # "fail" THEN Unobject(id) ELSE s3
             /\ arts' = IF Doing(p, "unobject") \/ o = "fail" THEN arts
                        ELSE Discarded(at, id)
             /\ IF o = "ok" THEN Advance(p) ELSE Continue(p, w[p], <<>>)
        /\ UNCHANGED <<home, workdir, staged, content, records, runs, restores, deletes, crashes,
                       history>>

(* The record goes last; removing it may fail and the delete be repeated   *)
CallForget(p) ==
    LET id == w[p].id
    IN  /\ Doing(p, "forget")
        /\ \E o \in Outcomes :
             /\ Outcome(o)
             /\ records' = IF o = "fail" THEN records ELSE [records EXCEPT ![id] = None]
             /\ removed' = IF o = "fail" THEN removed ELSE removed \cup {<<id, w[p].rec>>}
        /\ Continue(p, w[p], <<>>)
        /\ UNCHANGED <<home, workdir, staged, arts, content, s3, runs, restores, deletes, crashes,
                       removing, unsure, rejected, shared>>

(***************************************************************************)
(* RestoreBackup                                                           *)
(***************************************************************************)
(* A cross-node restore of a node backup probes the target for the         *)
(* artifact and pushes it from its origin when it is not there.            *)
BeginRestore(p, id, target) ==
    /\ ~Busy(p) /\ restores < MaxRestores
    /\ records[id] # None
    /\ restores' = restores + 1
    /\ w' = [w EXCEPT ![p] = [op |-> "restore", id |-> id, rec |-> records[id],
            target |-> target, left |-> Volumes, fresh |-> FALSE,
            todo |-> (IF records[id].type = "node" /\ records[id].location # target
                      THEN <<"fetch">> ELSE <<>>)
                     \o <<"retrieve", "rebuild", "adopt">>]]
    /\ shared' = shared \cup {w[q].id : q \in Running("run")}
    /\ UNCHANGED <<system, runs, deletes, faults, crashes, removing, removed, unsure, rejected>>

CallFetch(p) ==
    LET id == w[p].id
        present == id \in arts[w[p].target]
    IN  /\ Doing(p, "fetch")
        /\ \E o \in Outcomes :
             /\ Outcome(o)
             /\ IF ~present /\ o # "fail" THEN Transferred(w[p].rec.origin, w[p].target, id)
                ELSE UNCHANGED <<arts, workdir>>
             /\ IF o = "ok" /\ (present \/ id \in arts[w[p].rec.origin])
                THEN Advance(p) ELSE Continue(p, w[p], <<>>)
        /\ UNCHANGED <<home, staged, content, s3, records, runs, restores, deletes, crashes, history>>

(* backupS3FetchObject, or the artifact that is already on the node        *)
Found(rec, ag, id) == IF rec.type = "s3" THEN id \in s3 ELSE id \in arts[ag]

(* stageBackupVolumeMember and restoreDirFromVolumeTar: a named volume is  *)
(* rebuilt from the artifact's member by way of the staging tree           *)
Extracted(ag, v) == [staged EXCEPT ![ag][v] = Restored]

(* backupRestoreRetrieve on the target: whether the workspace was there is *)
(* noted first; S3 objects are downloaded, node artifacts must be there.   *)
(* The digest is compared with the record's.                               *)
CallRetrieve(p) ==
    LET id == w[p].id
        ag == w[p].target
        found == Found(w[p].rec, ag, id)
    IN  /\ Doing(p, "retrieve")
        /\ Continue(p, [w[p] EXCEPT !.fresh = ag \notin workdir],
                    IF found THEN Tail(w[p].todo) ELSE <<"residue">>)
        /\ IF found /\ w[p].rec.type = "s3"
           THEN /\ arts' = [arts EXCEPT ![ag] = @ \cup {id}]
                /\ workdir' = workdir \cup {ag}
           ELSE UNCHANGED <<arts, workdir>>
        /\ UNCHANGED <<home, staged, content, s3, records, bounds, history>>

(* rebuildFromBackupArtifact: the workspace, then each named volume from   *)
(* the artifact's member, staged where a run stages its own archives.      *)
CallRebuild(p) ==
    LET ag == w[p].target
    IN  /\ Doing(p, "rebuild")
        /\ workdir' = workdir \cup {ag}
        /\ \/ /\ w[p].left = {}
              /\ Advance(p)
              /\ UNCHANGED <<staged, faults>>
           \/ \E v \in w[p].left, o \in {"ok", "fail"} :
                /\ Outcome(o)
                /\ staged' = Extracted(ag, v)
                /\ IF o = "ok" /\ w[p].id \in arts[ag]
                   THEN w' = [w EXCEPT ![p].left = @ \ {v}]
                   ELSE Continue(p, w[p], <<"residue">>)
        /\ UNCHANGED <<home, arts, content, s3, records, runs, restores, deletes, crashes, history>>

(* backupRestoreCleanResidue: the staging tree always; after a download    *)
(* the artifact, or the whole workspace if it was not there before.        *)
CallResidue(p) ==
    LET ag == w[p].target
        downloaded == w[p].rec.type = "s3"
    IN  /\ Doing(p, "residue")
        /\ staged' = [staged EXCEPT ![ag] = Unstaged]
        /\ IF downloaded /\ w[p].fresh
           THEN workdir' = workdir \ {ag} /\ arts' = [arts EXCEPT ![ag] = {}]
           ELSE /\ arts' = IF downloaded THEN [arts EXCEPT ![ag] = @ \ {w[p].id}] ELSE arts
                /\ UNCHANGED workdir
        /\ Continue(p, w[p], <<>>)
        /\ UNCHANGED <<home, content, s3, records, bounds, history>>

(* adoptRestoredApp: apply, start and record the application on the target *)
CallAdopt(p) ==
    /\ Doing(p, "adopt")
    /\ \E o \in Outcomes :
         /\ Outcome(o)
         /\ home' = IF o = "fail" THEN home ELSE w[p].target
    /\ Continue(p, w[p], <<>>)
    /\ UNCHANGED <<workdir, staged, arts, content, s3, records, runs, restores, deletes, crashes,
                   history>>

(* The control plane dies: the requests in flight stop where they are; the *)
(* calls already on the nodes have happened.                               *)
Crash ==
    /\ crashes < MaxCrashes
    /\ crashes' = crashes + 1
    /\ w' = [p \in Workers |-> Idle]
    /\ unsure' = unsure \cup {w[p].id : p \in Running("run")}
    /\ UNCHANGED <<system, runs, restores, deletes, faults, removing, removed, rejected, shared>>

Init ==
    /\ home \in Agents
    /\ workdir = {home}
    /\ staged = [ag \in Agents |-> Unstaged]
    /\ arts = [ag \in Agents |-> {}]
    /\ content = [id \in Ids |-> Unstaged]
    /\ s3 = {}
    /\ records = [id \in Ids |-> None]
    /\ w = [p \in Workers |-> Idle]
    /\ runs = 0 /\ restores = 0 /\ deletes = 0 /\ faults = 0 /\ crashes = 0
    /\ removing = {} /\ removed = {} /\ unsure = {} /\ rejected = {} /\ shared = {}

Next ==
    \/ \E p \in Workers :
         \/ \E type \in {"s3", "node"}, target \in Agents : BeginRun(p, type, target)
         \/ \E id \in Ids : BeginDelete(p, id) \/ \E target \in Agents : BeginRestore(p, id, target)
         \/ CallArchive(p) \/ CallPack(p) \/ CallShip(p) \/ CallAppend(p) \/ CallCleanup(p)
         \/ CallRemove(p) \/ CallForget(p)
         \/ CallFetch(p) \/ CallRetrieve(p) \/ CallRebuild(p) \/ CallResidue(p) \/ CallAdopt(p)
    \/ Crash

Spec == Init /\ [][Next]_vars

(***************************************************************************)
(* Properties                                                              *)
(***************************************************************************)
\* Every variable has its type.
TypeOK ==
    /\ home \in Agents /\ workdir \subseteq Agents
    /\ staged \in [Agents -> [Volumes -> Ids \cup {Restored, None}]]
    /\ arts \in [Agents -> SUBSET Ids] /\ s3 \subseteq Ids
    /\ content \in [Ids -> [Volumes -> Ids \cup {Restored, None}]]
    /\ records \in [Ids -> Record \cup {None}]
    /\ \A p \in Workers : w[p].rec \in Record \cup {None} /\ w[p].left \subseteq Volumes

\* the artifact is where the record says
Available(id, rec) == IF rec.type = "s3" THEN id \in s3 ELSE id \in arts[rec.location]

(* A record is the authority over its artifact: until a delete starts on   *)
(* it the artifact is at its destination, through failed and repeated      *)
(* runs, full stores and crashes, when no restore ran into its run; once a *)
(* delete has removed the record, neither the bucket nor the two nodes it  *)
(* names hold a copy.                                                      *)
RecordAuthority ==
    /\ \A id \in Ids : records[id] # None /\ id \notin removing \cup unsure \cup shared =>
         Available(id, records[id])
    /\ \A r \in removed : IF r[2].type = "s3" THEN r[1] \notin s3
                          ELSE r[1] \notin arts[r[2].origin] \cup arts[r[2].location]

(* Every recorded artifact holds exactly the archives its own run made,    *)
(* never another run's, when no restore ran into it.                       *)
OwnVolumes ==
    \A id \in Ids : records[id] # None /\ id \notin shared =>
        \A v \in Volumes : content[id][v] = id

(* A run that failed before its record, with every outcome known and its   *)
(* clean-up done, leaves no artifact anywhere and no staged archive.       *)
CleanFailure ==
    \A id \in rejected \ unsure :
        (\A p \in Workers : w[p].id # id) =>
            /\ id \notin s3 /\ \A ag \in Agents : id \notin arts[ag]
            /\ \A ag \in Agents, v \in Volumes : staged[ag][v] # id
=============================================================================
