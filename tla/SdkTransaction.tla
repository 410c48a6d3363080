--------------------------- MODULE SdkTransaction ---------------------------
(***************************************************************************)
(* The crash-safe promotion of an SDK update (cmd/nre-ci/                  *)
(* sdk_transaction.go): N repository files are replaced together by        *)
(* renames, under a durable manifest (the journal) that lets the next run  *)
(* complete the new generation or restore the old one.                     *)
(*                                                                         *)
(* One action is one file-system operation with the directory sync that    *)
(* follows it.  Its outcome oc is                                          *)
(*    "ok"      effect applied, no error returned,                         *)
(*    "before"  error returned, nothing changed,                           *)
(*    "after"   effect applied, then the directory sync returned an error. *)
(* The process may crash between any two operations; the exclusive update  *)
(* lock (sdk_update_lock.go) makes the process the only writer.            *)
(***************************************************************************)
EXTENDS Integers

CONSTANTS
    N,          \* number of files promoted together (four in the code)
    Content,    \* what a file can hold; two contents are equal iff their digests are
    Absent,     \* the file does not exist
    NoJournal,  \* no manifest is on disk
    Torn,       \* a write interrupted half-way
    MaxFaults,  \* bound: file-system errors in a behaviour
    MaxCrashes, \* bound: process crashes in a behaviour
    MaxTampers  \* bound: changes made behind the process's back

Files == 1 .. N

ASSUME NAssumption == N \in Nat \ {0}
ASSUME ContentAssumption == Absent \notin Content /\ Torn \notin Content /\ Absent # Torn
ASSUME BoundAssumption == MaxFaults \in Nat /\ MaxCrashes \in Nat /\ MaxTampers \in Nat

\* A manifest: the digest of every file before and after the update.
Manifest == [from : [Files -> Content], to : [Files -> Content]]

ASSUME NoJournalAssumption == NoJournal \notin Manifest

VARIABLES
    target,   \* the repository files
    new,      \* <file>.nre-sdk-update.new: the staged generation
    old,      \* <file>.nre-sdk-update.old: the backups
    temp,     \* the manifest's temporary file
    journal,  \* the durable manifest, or NoJournal
    pc, i,    \* where the process is, and its loop index
    m,        \* the manifest in the memory of the process
    next,     \* where the process continues once the journal is cleared
    caller,   \* which roll called the cleanup
    failures, \* the files for which the running loop has collected a failure
    faults, crashes, tampers

disk   == <<target, new, old, temp, journal>>
memory == <<m, next, caller>>
vars   == <<disk, pc, i, memory, failures, faults, crashes, tampers>>

Init ==
    /\ target \in [Files -> Content]
    /\ new = [f \in Files |-> Absent]
    /\ old = [f \in Files |-> Absent]
    /\ temp = NoJournal
    /\ journal = NoJournal
    /\ pc = "idle" /\ i = 1
    /\ m = [from |-> target, to |-> target]
    /\ next = "ready" /\ caller = "forward"
    /\ failures = {}
    /\ faults = 0 /\ crashes = 0 /\ tampers = 0

-----------------------------------------------------------------------------
(* The outcome of one file-system operation.                               *)

Outcomes == {"ok", "before", "after"}

Outcome(oc) ==
    /\ oc # "ok" => faults < MaxFaults
    /\ faults' = IF oc = "ok" THEN faults ELSE faults + 1

Goto(label, index) == pc' = label /\ i' = index

\* The run returns; the next one starts from what is on disk.
Return == Goto("idle", 1)

-----------------------------------------------------------------------------
(* Every file has a copy of the wanted generation.                         *)

CanRollForward(manifest) ==
    \A f \in Files : target[f] = manifest.to[f] \/ new[f] = manifest.to[f]

CanRollback(manifest) ==
    \A f \in Files : target[f] = manifest.from[f] \/ old[f] = manifest.from[f]

-----------------------------------------------------------------------------
(* updateSDKLock: take the lock, recover, build a staged tree, promote it. *)
(* Building may fail; promotion starts with a second recovery.             *)

Begin ==
    /\ pc = "idle"
    /\ Goto("recover", 1)
    /\ next' = "ready" /\ failures' = {}
    /\ UNCHANGED <<disk, m, caller, faults, crashes, tampers>>

GiveUp ==
    /\ pc = "ready"
    /\ Return
    /\ UNCHANGED <<disk, memory, failures, faults, crashes, tampers>>

Promote ==
    /\ pc = "ready"
    /\ Goto("recover", 1)
    /\ next' = "stage"
    /\ UNCHANGED <<disk, m, caller, failures, faults, crashes, tampers>>

-----------------------------------------------------------------------------
(* recoverSDKUpdateWithFS.  The manifest is decoded into m; a read error   *)
(* while a generation is assessed makes that generation unavailable.       *)

RecoverNoManifest ==
    /\ pc = "recover"
    /\ journal = NoJournal
    /\ Goto("orphans", 1)
    /\ UNCHANGED <<disk, memory, failures, faults, crashes, tampers>>

\* Mutant: recovery only ever rolls back.
RecoverManifestBackOnly(oc) ==
    /\ pc = "recover"
    /\ journal # NoJournal
    /\ Outcome(oc)
    /\ m' = journal
    /\ Goto("fallback", 1)
    /\ UNCHANGED <<disk, next, caller, failures, crashes, tampers>>

RecoverManifest(oc) ==
    /\ pc = "recover"
    /\ journal # NoJournal
    /\ Outcome(oc)
    /\ m' = journal
    /\ IF CanRollForward(journal) /\ oc = "ok" THEN Goto("forward", 1) ELSE Goto("fallback", 1)
    /\ UNCHANGED <<disk, next, caller, failures, crashes, tampers>>

\* After a failed roll forward, in a recovery and in a promotion alike.
Fallback(oc) ==
    /\ pc = "fallback"
    /\ Outcome(oc)
    /\ failures' = {}
    /\ IF CanRollback(m) /\ oc = "ok" THEN Goto("rollback", N) ELSE Return
    /\ UNCHANGED <<disk, memory, crashes, tampers>>

-----------------------------------------------------------------------------
(* cleanupSDKOrphans: without a manifest, staged files are leftovers of a  *)
(* promotion that never published; a backup is an error.                   *)

\* Mutant: an orphan backup is deleted like a staged leftover.
OrphanBackupDeleted ==
    /\ pc = "orphans" /\ i \in Files
    /\ old[i] # Absent
    /\ old' = [old EXCEPT ![i] = Absent]
    /\ Goto("orphans", i)
    /\ UNCHANGED <<target, new, temp, journal, memory, failures, faults, crashes, tampers>>

OrphanBackup ==
    /\ pc = "orphans" /\ i \in Files
    /\ old[i] # Absent
    /\ Return
    /\ UNCHANGED <<disk, memory, failures, faults, crashes, tampers>>

OrphanStaged(oc) ==
    /\ pc = "orphans" /\ i \in Files
    /\ old[i] = Absent
    /\ Outcome(oc)
    /\ new' = IF oc = "before" THEN new ELSE [new EXCEPT ![i] = Absent]
    /\ IF oc = "ok" THEN Goto("orphans", i + 1) ELSE Return
    /\ UNCHANGED <<target, old, temp, journal, memory, failures, crashes, tampers>>

OrphanTemp(oc) ==
    /\ pc = "orphans" /\ i > N
    /\ Outcome(oc)
    /\ temp' = IF oc = "before" THEN temp ELSE NoJournal
    /\ IF oc = "ok" THEN Goto(next, 1) ELSE Return
    /\ UNCHANGED <<target, new, old, journal, memory, failures, crashes, tampers>>

-----------------------------------------------------------------------------
(* promoteSDKUpdateWithFS up to the manifest: record the file's present    *)
(* content and the staged one (any content), write the staged copy.        *)

Stage(oc, content) ==
    /\ pc = "stage" /\ i \in Files
    /\ target[i] \in Content
    /\ Outcome(oc)
    /\ m' = [m EXCEPT !.from[i] = target[i], !.to[i] = content]
    /\ \/ oc = "ok" /\ new' = [new EXCEPT ![i] = content]
       \/ oc = "before" /\ new' = [new EXCEPT ![i] = Torn]
       \/ oc = "before" /\ new' = new
       \/ oc = "after" /\ new' = [new EXCEPT ![i] = content]
    /\ IF oc = "ok" THEN Goto("stage", i + 1) ELSE Goto("abort", 1)
    /\ UNCHANGED <<target, old, temp, journal, next, caller, failures, crashes, tampers>>

StageUnreadable ==
    /\ pc = "stage" /\ i \in Files
    /\ target[i] \notin Content
    /\ Goto("abort", 1)
    /\ UNCHANGED <<disk, memory, failures, faults, crashes, tampers>>

WriteManifestTemp(oc) ==
    /\ pc = "stage" /\ i > N
    /\ Outcome(oc)
    /\ \/ oc \in {"ok", "after"} /\ temp' = m
       \/ oc = "before" /\ temp' \in {temp, Torn}
    /\ IF oc = "ok" THEN Goto("publish", 1) ELSE Goto("abort", 1)
    /\ UNCHANGED <<target, new, old, journal, memory, failures, crashes, tampers>>

\* Mutant: the error of the publishing rename is ignored.
PublishManifestUnchecked(oc) ==
    /\ pc = "publish"
    /\ Outcome(oc)
    /\ temp' = IF oc = "before" THEN temp ELSE NoJournal
    /\ journal' = IF oc = "before" THEN journal ELSE temp
    /\ next' = "idle"
    /\ IF oc = "after" THEN Goto("fallback", 1) ELSE Goto("forward", 1)
    /\ UNCHANGED <<target, new, old, m, caller, failures, crashes, tampers>>

\* A failed rename aborts; a failed sync after it has a manifest to roll back from.
PublishManifest(oc) ==
    /\ pc = "publish"
    /\ Outcome(oc)
    /\ temp' = IF oc = "before" THEN temp ELSE NoJournal
    /\ journal' = IF oc = "before" THEN journal ELSE temp
    /\ next' = "idle"
    /\ CASE oc = "ok"     -> Goto("forward", 1)
         [] oc = "before" -> Goto("abort", 1)
         [] oc = "after"  -> Goto("fallback", 1)
    /\ UNCHANGED <<target, new, old, m, caller, failures, crashes, tampers>>

\* cleanupSDKPreManifest: failures are collected, never stop the loop.
AbortStaged(oc) ==
    /\ pc = "abort" /\ i \in Files
    /\ Outcome(oc)
    /\ new' = IF oc = "before" THEN new ELSE [new EXCEPT ![i] = Absent]
    /\ Goto("abort", i + 1)
    /\ UNCHANGED <<target, old, temp, journal, memory, failures, crashes, tampers>>

AbortTemp(oc) ==
    /\ pc = "abort" /\ i > N
    /\ Outcome(oc)
    /\ temp' = IF oc = "before" THEN temp ELSE NoJournal
    /\ Return
    /\ UNCHANGED <<target, new, old, journal, memory, failures, crashes, tampers>>

-----------------------------------------------------------------------------
(* rollSDKTransactionForward, file by file in order.                       *)

ForwardSkip ==
    /\ pc = "forward" /\ i \in Files
    /\ target[i] = m.to[i]
    /\ Goto("forward", i + 1)
    /\ UNCHANGED <<disk, memory, failures, faults, crashes, tampers>>

ForwardBackup(oc) ==
    /\ pc = "forward" /\ i \in Files
    /\ target[i] = m.from[i] /\ target[i] # m.to[i]
    /\ old[i] = Absent
    /\ Outcome(oc)
    /\ IF oc = "before" THEN UNCHANGED <<target, old>>
       ELSE /\ old' = [old EXCEPT ![i] = target[i]]
            /\ target' = [target EXCEPT ![i] = Absent]
    /\ IF oc = "ok" THEN Goto("forward", i) ELSE Goto("fallback", 1)
    /\ UNCHANGED <<new, temp, journal, memory, failures, crashes, tampers>>

ForwardPromote(oc) ==
    /\ pc = "forward" /\ i \in Files
    /\ target[i] = Absent
    /\ new[i] = m.to[i]
    /\ Outcome(oc)
    /\ IF oc = "before" THEN UNCHANGED <<target, new>>
       ELSE /\ target' = [target EXCEPT ![i] = new[i]]
            /\ new' = [new EXCEPT ![i] = Absent]
    /\ IF oc = "ok" THEN Goto("forward", i + 1) ELSE Goto("fallback", 1)
    /\ UNCHANGED <<old, temp, journal, memory, failures, crashes, tampers>>

\* Unknown content, a backup beside an old target, no staged copy, or a read error.
ForwardRefuse(oc) ==
    /\ pc = "forward" /\ i \in Files
    /\ \/ oc # "ok"
       \/ target[i] \notin {Absent, m.from[i], m.to[i]}
       \/ target[i] \notin {Absent, m.to[i]} /\ old[i] # Absent
       \/ target[i] = Absent /\ new[i] # m.to[i]
    /\ Outcome(oc)
    /\ Goto("fallback", 1)
    /\ UNCHANGED <<disk, memory, failures, crashes, tampers>>

\* The verification of the whole generation, then the cleanup.
ForwardVerify(oc) ==
    /\ pc = "forward" /\ i > N
    /\ Outcome(oc)
    /\ IF oc = "ok" /\ \A f \in Files : target[f] = m.to[f]
       THEN Goto("cleanup", 1) ELSE Goto("fallback", 1)
    /\ failures' = {} /\ caller' = "forward"
    /\ UNCHANGED <<disk, m, next, crashes, tampers>>

-----------------------------------------------------------------------------
(* rollbackSDKTransaction, in reverse order; a failure is collected and    *)
(* the loop goes on with the next file.                                    *)

\* Mutant: the index is decremented by the body and by the loop.
RollbackSkipTwice ==
    /\ pc = "rollback" /\ i \in Files
    /\ target[i] = m.from[i]
    /\ Goto("rollback", i - 2)
    /\ UNCHANGED <<disk, memory, failures, faults, crashes, tampers>>

RollbackSkip ==
    /\ pc = "rollback" /\ i \in Files
    /\ target[i] = m.from[i]
    /\ Goto("rollback", i - 1)
    /\ UNCHANGED <<disk, memory, failures, faults, crashes, tampers>>

RollbackUnavailable(oc) ==
    /\ pc = "rollback" /\ i \in Files
    /\ oc # "ok" \/ (target[i] # m.from[i] /\ old[i] # m.from[i])
    /\ Outcome(oc)
    /\ failures' = failures \cup {i}
    /\ Goto("rollback", i - 1)
    /\ UNCHANGED <<disk, memory, crashes, tampers>>

RollbackRemove(oc) ==
    /\ pc = "rollback" /\ i \in Files
    /\ target[i] \notin {Absent, m.from[i]} /\ old[i] = m.from[i]
    /\ Outcome(oc)
    /\ target' = IF oc = "before" THEN target ELSE [target EXCEPT ![i] = Absent]
    /\ failures' = IF oc = "ok" THEN failures ELSE failures \cup {i}
    /\ Goto("rollback", IF oc = "ok" THEN i ELSE i - 1)
    /\ UNCHANGED <<new, old, temp, journal, memory, crashes, tampers>>

RollbackRestore(oc) ==
    /\ pc = "rollback" /\ i \in Files
    /\ target[i] = Absent /\ old[i] = m.from[i]
    /\ Outcome(oc)
    /\ IF oc = "before" THEN UNCHANGED <<target, old>>
       ELSE /\ target' = [target EXCEPT ![i] = old[i]]
            /\ old' = [old EXCEPT ![i] = Absent]
    /\ failures' = IF oc = "ok" THEN failures ELSE failures \cup {i}
    /\ Goto("rollback", i - 1)
    /\ UNCHANGED <<new, temp, journal, memory, crashes, tampers>>

\* Mutant: cleanup without looking at the failures or at the restored files.
RollbackVerifySkipped(oc) ==
    /\ pc = "rollback" /\ i < 1
    /\ Outcome(oc)
    /\ Goto("cleanup", 1)
    /\ failures' = {} /\ caller' = "rollback"
    /\ UNCHANGED <<disk, m, next, crashes, tampers>>

RollbackVerify(oc) ==
    /\ pc = "rollback" /\ i < 1
    /\ Outcome(oc)
    /\ IF failures = {} /\ oc = "ok" /\ \A f \in Files : target[f] = m.from[f]
       THEN Goto("cleanup", 1) ELSE Return
    /\ failures' = {} /\ caller' = "rollback"
    /\ UNCHANGED <<disk, m, next, crashes, tampers>>

-----------------------------------------------------------------------------
(* cleanupSDKTransaction: staged copies and backups first, failures        *)
(* collected; the manifest last, and only if nothing failed.               *)

\* A failed cleanup is a failed roll: forward falls back, rollback returns.
CleanupFailed == IF caller = "forward" THEN Goto("fallback", 1) ELSE Return

CleanupNew(oc) ==
    /\ pc = "cleanup" /\ i \in Files
    /\ Outcome(oc)
    /\ new' = IF oc = "before" THEN new ELSE [new EXCEPT ![i] = Absent]
    /\ failures' = IF oc = "ok" THEN failures ELSE failures \cup {i}
    /\ Goto("cleanupOld", i)
    /\ UNCHANGED <<target, old, temp, journal, memory, crashes, tampers>>

CleanupOld(oc) ==
    /\ pc = "cleanupOld"
    /\ Outcome(oc)
    /\ old' = IF oc = "before" THEN old ELSE [old EXCEPT ![i] = Absent]
    /\ failures' = IF oc = "ok" THEN failures ELSE failures \cup {i}
    /\ Goto("cleanup", i + 1)
    /\ UNCHANGED <<target, new, temp, journal, memory, crashes, tampers>>

CleanupIncomplete ==
    /\ pc = "cleanup" /\ i > N
    /\ failures # {}
    /\ CleanupFailed
    /\ UNCHANGED <<disk, memory, failures, faults, crashes, tampers>>

\* Mutant: the manifest is removed although a file could not be cleaned up.
CleanupManifestAlways(oc) ==
    /\ pc = "cleanup" /\ i > N
    /\ Outcome(oc)
    /\ journal' = IF oc = "before" THEN journal ELSE NoJournal
    /\ IF oc = "ok" THEN Goto(next, 1) ELSE CleanupFailed
    /\ UNCHANGED <<target, new, old, temp, memory, failures, crashes, tampers>>

CleanupManifest(oc) ==
    /\ pc = "cleanup" /\ i > N
    /\ failures = {}
    /\ Outcome(oc)
    /\ journal' = IF oc = "before" THEN journal ELSE NoJournal
    /\ IF oc = "ok" THEN Goto(next, 1) ELSE CleanupFailed
    /\ UNCHANGED <<target, new, old, temp, memory, failures, crashes, tampers>>

-----------------------------------------------------------------------------
(* The environment.                                                        *)

\* The process dies between two operations; its memory is lost.
Crash ==
    /\ pc # "idle"
    /\ crashes < MaxCrashes
    /\ crashes' = crashes + 1
    /\ Return
    /\ UNCHANGED <<disk, memory, failures, faults, tampers>>

\* Between two runs somebody edits a target, or deletes a staged copy or the journal.
Tamper ==
    /\ pc = "idle"
    /\ tampers < MaxTampers
    /\ tampers' = tampers + 1
    /\ \/ \E f \in Files, c \in Content \cup {Absent} :
             target' = [target EXCEPT ![f] = c] /\ UNCHANGED <<new, journal>>
       \/ \E f \in Files : new' = [new EXCEPT ![f] = Absent] /\ UNCHANGED <<target, journal>>
       \/ journal' = NoJournal /\ UNCHANGED <<target, new>>
    /\ UNCHANGED <<old, temp, pc, i, memory, failures, faults, crashes>>

\* One operation of the process, with outcome oc.
Operation(oc) ==
    \/ RecoverManifest(oc) \/ Fallback(oc)
    \/ OrphanStaged(oc) \/ OrphanTemp(oc)
    \/ \E content \in Content : Stage(oc, content)
    \/ WriteManifestTemp(oc) \/ PublishManifest(oc)
    \/ AbortStaged(oc) \/ AbortTemp(oc)
    \/ ForwardRefuse(oc) \/ ForwardBackup(oc) \/ ForwardPromote(oc) \/ ForwardVerify(oc)
    \/ RollbackUnavailable(oc) \/ RollbackRemove(oc) \/ RollbackRestore(oc) \/ RollbackVerify(oc)
    \/ CleanupNew(oc) \/ CleanupOld(oc) \/ CleanupManifest(oc)

\* A step that decides without touching the disk.
Decision ==
    \/ RecoverNoManifest \/ OrphanBackup \/ StageUnreadable
    \/ ForwardSkip \/ RollbackSkip \/ CleanupIncomplete

Step == Decision \/ \E oc \in Outcomes : Operation(oc)

Next == Begin \/ GiveUp \/ Promote \/ Step \/ Crash \/ Tamper

Spec == Init /\ [][Next]_vars

\* The update command is run again after it stopped, and a running command runs on.
FairSpec == Spec /\ WF_vars(Begin) /\ WF_vars(Step)

-----------------------------------------------------------------------------
(* Properties.                                                             *)

File == Content \cup {Absent, Torn}

Labels ==
    {"idle", "ready", "recover", "fallback", "orphans", "stage", "publish", "abort",
     "forward", "rollback", "cleanup", "cleanupOld"}

\* The files of sdk_transaction.go hold known contents or none, and its loops stay within
\* the files of the manifest.
TypeOK ==
    /\ target \in [Files -> Content \cup {Absent}]
    /\ new \in [Files -> File]
    /\ old \in [Files -> Content \cup {Absent}]
    /\ temp \in Manifest \cup {NoJournal, Torn} /\ (pc = "publish" => temp \in Manifest)
    /\ journal \in Manifest \cup {NoJournal}
    /\ pc \in Labels
    /\ i \in 0 .. N + 1 /\ (pc = "cleanupOld" => i \in Files)
    /\ m \in Manifest
    /\ next \in {"ready", "stage", "idle"}
    /\ caller \in {"forward", "rollback"}
    /\ failures \subseteq Files
    /\ faults \in 0 .. MaxFaults /\ crashes \in 0 .. MaxCrashes /\ tampers \in 0 .. MaxTampers

\* Whenever no manifest is on disk every repository file exists and no backup is
\* left over: a crash anywhere in promote, roll or cleanup never strands a file
\* outside the journal's protection (cleanupSDKOrphans would refuse forever).
NothingStranded ==
    tampers = 0 /\ journal = NoJournal =>
        \A f \in Files : target[f] \in Content /\ old[f] = Absent

\* While a manifest is on disk, the files hold a complete new or a complete old
\* generation between them, so the next recoverSDKUpdateWithFS can finish:
\* "SDK transaction cannot recover a complete old or new generation" is never
\* the answer unless somebody else touched the files.
Recoverable ==
    tampers = 0 /\ journal # NoJournal =>
        CanRollForward(journal) \/ CanRollback(journal)

-----------------------------------------------------------------------------
(* The strengthening that makes the two invariants inductive.              *)

\* A journalled file is untouched, moved to its backup, or replaced.
Journalled ==
    journal # NoJournal => \A f \in Files :
        \/ target[f] = journal.from[f] /\ old[f] = Absent
        \/ target[f] = Absent /\ old[f] = journal.from[f]
        \/ target[f] = journal.to[f] /\ old[f] \in {journal.from[f], Absent}

\* Before the manifest is published nothing but staged copies was written.
StagedSoFar ==
    /\ pc \in {"orphans", "stage", "publish", "abort"} => journal = NoJournal
    /\ \A f \in Files : pc = "publish" \/ (pc = "stage" /\ f < i) =>
          m.from[f] = target[f] /\ m.to[f] = new[f]
    /\ pc = "publish" => temp = m

\* A roll works on the manifest that is on disk, or on the one it just removed
\* over the complete new generation.
RollsTheJournal ==
    /\ pc = "forward" => journal = m
    /\ pc \in {"fallback", "rollback", "cleanup", "cleanupOld"} =>
          journal = m \/ (journal = NoJournal /\ target = m.to)
    /\ pc = "rollback" => CanRollback(m)

\* Cleanup runs over a whole generation, and an error-free one leaves no backup behind it.
CleansUpWhole ==
    pc \in {"cleanup", "cleanupOld"} =>
        /\ target = IF caller = "forward" THEN m.to ELSE m.from
        /\ failures = {} => \A f \in Files : f < i => old[f] = Absent

Untampered ==
    /\ NothingStranded /\ Recoverable
    /\ Journalled /\ StagedSoFar /\ RollsTheJournal /\ CleansUpWhole

Inductive == TypeOK /\ (tampers = 0 => Untampered)

-----------------------------------------------------------------------------
\* The generation the repository stands for, and the one that may replace it.
Generation == INSTANCE SdkGeneration WITH
    Generations <- [Files -> Content],
    gen <- IF journal = NoJournal THEN target ELSE journal.from,
    pending <- IF journal = NoJournal THEN {} ELSE {journal.to}

\* The update is atomic: promote, roll forward, rollback, cleanup, crashes and
\* recoveries together replace the whole generation at once or keep it.
AtomicUpdate == Generation!Spec

\* The journal is given up only over a whole generation, even if files were edited
\* or deleted between two runs: cleanupSDKTransaction removes the manifest after
\* every target was verified against one of its two generations.
JournalOutlivesMixture ==
    [][pc # "idle" /\ journal # NoJournal /\ journal' = NoJournal =>
         target \in {journal.from, journal.to}]_vars

\* A backup is deleted only once a whole generation is in place, otherwise it is
\* moved back to its target, even if files were edited or deleted between two runs.
BackupKept ==
    [][\A f \in Files : old[f] # Absent /\ old'[f] = Absent =>
         target'[f] = old[f] \/ target \in {m.from, m.to}]_vars

\* An interrupted update is eventually decided by the runs that follow.
Decided == journal # NoJournal ~> journal = NoJournal
=============================================================================
