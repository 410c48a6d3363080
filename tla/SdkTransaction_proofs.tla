------------------------ MODULE SdkTransaction_proofs ------------------------
(***************************************************************************)
(* Proofs about SdkTransaction, for every number of files, every set of    *)
(* contents and every bound on errors, crashes and edits.                  *)
(***************************************************************************)
EXTENDS SdkTransaction, TLAPS

USE SMTT(20), ZenonT(20) DEF disk, memory, vars, Outcomes, Outcome, Goto, Return

\* Every step keeps the state well-typed.
LEMMA TypeStep == TypeOK /\ [Next]_vars => TypeOK'
<1> SUFFICES ASSUME TypeOK, [Next]_vars PROVE TypeOK'
  OBVIOUS
<1> USE NAssumption, ContentAssumption, BoundAssumption DEF Files, Manifest, File, Labels
<1>1. CASE Begin
  BY <1>1 DEF Begin, TypeOK
<1>2. CASE GiveUp
  BY <1>2 DEF GiveUp, TypeOK
<1>3. CASE Promote
  BY <1>3 DEF Promote, TypeOK
<1>4. CASE RecoverNoManifest
  BY <1>4 DEF RecoverNoManifest, TypeOK
<1>5. CASE OrphanBackup
  BY <1>5 DEF OrphanBackup, TypeOK
<1>6. CASE StageUnreadable
  BY <1>6 DEF StageUnreadable, TypeOK
<1>7. CASE ForwardSkip
  BY <1>7 DEF ForwardSkip, TypeOK
<1>8. CASE \E oc \in Outcomes : ForwardRefuse(oc)
  BY <1>8 DEF ForwardRefuse, TypeOK
<1>9. CASE RollbackSkip
  BY <1>9 DEF RollbackSkip, TypeOK
<1>10. CASE \E oc \in Outcomes : RollbackUnavailable(oc)
  BY <1>10 DEF RollbackUnavailable, TypeOK
<1>11. CASE CleanupIncomplete
  BY <1>11 DEF CleanupIncomplete, TypeOK, CleanupFailed
<1>12. CASE Crash
  BY <1>12 DEF Crash, TypeOK
<1>13. CASE Tamper
  BY <1>13 DEF Tamper, TypeOK
<1>14. CASE \E oc \in Outcomes : RecoverManifest(oc)
  BY <1>14 DEF RecoverManifest, TypeOK
<1>15. CASE \E oc \in Outcomes : Fallback(oc)
  BY <1>15 DEF Fallback, TypeOK
<1>16. CASE \E oc \in Outcomes : OrphanStaged(oc)
  BY <1>16 DEF OrphanStaged, TypeOK
<1>17. CASE \E oc \in Outcomes : OrphanTemp(oc)
  BY <1>17 DEF OrphanTemp, TypeOK
<1>18. CASE \E oc \in Outcomes, content \in Content : Stage(oc, content)
  <2>1. PICK oc \in Outcomes, content \in Content : Stage(oc, content)
    BY <1>18
  <2>2. m' \in Manifest
    BY Zenon, <2>1 DEF Stage, TypeOK
  <2>3. new' \in [Files -> File]
    BY Zenon, <2>1 DEF Stage, TypeOK
  <2>4. pc' \in {"stage", "abort"} /\ i' \in 0 .. N + 1
    BY <2>1 DEF Stage
  <2>5. faults' \in 0 .. MaxFaults
    BY <2>1 DEF Stage, TypeOK
  <2>6. UNCHANGED <<target, old, temp, journal, next, caller, failures, crashes, tampers>>
    BY <2>1 DEF Stage
  <2> QED
    BY <2>2, <2>3, <2>4, <2>5, <2>6 DEF TypeOK
<1>19. CASE \E oc \in Outcomes : WriteManifestTemp(oc)
  BY <1>19 DEF WriteManifestTemp, TypeOK
<1>20. CASE \E oc \in Outcomes : PublishManifest(oc)
  <2>1. PICK oc \in Outcomes : PublishManifest(oc)
    BY <1>20
  <2>2. pc' \in {"forward", "fallback", "abort"} /\ i' = 1
    BY Zenon, <2>1 DEF PublishManifest
  <2>3. journal' \in Manifest \cup {NoJournal}
    BY <2>1 DEF PublishManifest, TypeOK
  <2> QED
    BY <2>1, <2>2, <2>3 DEF PublishManifest, TypeOK
<1>21. CASE \E oc \in Outcomes : AbortStaged(oc)
  BY <1>21 DEF AbortStaged, TypeOK
<1>22. CASE \E oc \in Outcomes : AbortTemp(oc)
  BY <1>22 DEF AbortTemp, TypeOK
<1>23. CASE \E oc \in Outcomes : ForwardBackup(oc)
  BY <1>23 DEF ForwardBackup, TypeOK
<1>24. CASE \E oc \in Outcomes : ForwardPromote(oc)
  BY <1>24 DEF ForwardPromote, TypeOK
<1>25. CASE \E oc \in Outcomes : ForwardVerify(oc)
  BY <1>25 DEF ForwardVerify, TypeOK
<1>26. CASE \E oc \in Outcomes : RollbackRemove(oc)
  BY <1>26 DEF RollbackRemove, TypeOK
<1>27. CASE \E oc \in Outcomes : RollbackRestore(oc)
  BY <1>27 DEF RollbackRestore, TypeOK
<1>28. CASE \E oc \in Outcomes : RollbackVerify(oc)
  BY <1>28 DEF RollbackVerify, TypeOK
<1>29. CASE \E oc \in Outcomes : CleanupNew(oc)
  BY <1>29 DEF CleanupNew, TypeOK
<1>30. CASE \E oc \in Outcomes : CleanupOld(oc)
  BY <1>30 DEF CleanupOld, TypeOK
<1>31. CASE \E oc \in Outcomes : CleanupManifest(oc)
  BY <1>31 DEF CleanupManifest, TypeOK, CleanupFailed
<1>32. CASE UNCHANGED vars
  BY <1>32 DEF TypeOK
<1> HIDE DEF TypeOK, Outcomes, vars
<1> QED
  BY <1>1, <1>2, <1>3, <1>4, <1>5, <1>6, <1>7, <1>8, <1>9, <1>10, <1>11, <1>12,
     <1>13, <1>14, <1>15, <1>16, <1>17, <1>18, <1>19, <1>20, <1>21, <1>22, <1>23, <1>24,
     <1>25, <1>26, <1>27, <1>28, <1>29, <1>30, <1>31, <1>32
     DEF Next, Step, Decision, Operation

\* The two parts of Untampered: what the files hold, and where the process is with them.
Whole == NothingStranded /\ Recoverable /\ Journalled

Course == StagedSoFar /\ RollsTheJournal /\ CleansUpWhole

\* A roll works on the journal, or has removed it over the complete new generation.
Pursues == journal = m \/ (journal = NoJournal /\ target = m.to)

\* The files stay what they were; staged copies may go once they are not needed.
LEMMA FilesStay ==
    ASSUME Whole, UNCHANGED <<target, old, journal, tampers>>,
           new' = new \/ journal = NoJournal \/ target = journal.from \/ target = journal.to
    PROVE  Whole'
<1>1. NothingStranded'
  BY DEF Whole, NothingStranded
<1>2. Journalled'
  BY DEF Whole, Journalled
<1>3. Recoverable'
  <2>1. CASE new' = new
    BY <2>1 DEF Whole, Recoverable, CanRollForward, CanRollback
  <2>2. CASE journal = NoJournal
    BY <2>2 DEF Recoverable
  <2>3. CASE target = journal.from
    BY <2>3 DEF Recoverable, CanRollback
  <2>4. CASE target = journal.to
    BY <2>4 DEF Recoverable, CanRollForward
  <2> QED
    BY <2>1, <2>2, <2>3, <2>4
<1> QED
  BY <1>1, <1>2, <1>3 DEF Whole

\* What is to be shown of the process, by the label it goes to.
LEMMA AtRest ==
    ASSUME pc' \in {"idle", "ready", "recover"}
    PROVE  Course'
  BY DEF Course, StagedSoFar, RollsTheJournal, CleansUpWhole

LEMMA Unpublished ==
    ASSUME pc' \in {"orphans", "abort"}, journal' = NoJournal
    PROVE  Course'
  BY DEF Course, StagedSoFar, RollsTheJournal, CleansUpWhole

LEMMA GoesOn ==
    ASSUME pc' \in {"ready", "stage", "idle"}, i' = 1, journal' = NoJournal
    PROVE  Course'
<1>1. \A f \in Files : ~(f < i')
  BY NAssumption DEF Files
<1> QED
  BY <1>1 DEF Course, StagedSoFar, RollsTheJournal, CleansUpWhole

LEMMA Forwards ==
    ASSUME pc' \in {"forward", "fallback"}, journal' = m'
    PROVE  Course'
  BY DEF Course, StagedSoFar, RollsTheJournal, CleansUpWhole

LEMMA FallsBack ==
    ASSUME pc' = "fallback", Pursues'
    PROVE  Course'
  BY DEF Course, StagedSoFar, RollsTheJournal, CleansUpWhole, Pursues

LEMMA Backwards ==
    ASSUME pc' = "rollback", Pursues', CanRollback(m)'
    PROVE  Course'
  BY DEF Course, StagedSoFar, RollsTheJournal, CleansUpWhole, Pursues

LEMMA CleansUp ==
    ASSUME pc' \in {"cleanup", "cleanupOld"}, Pursues',
           target' = IF caller' = "forward" THEN m'.to ELSE m'.from,
           failures' = {} => \A f \in Files : f < i' => old'[f] = Absent
    PROVE  Course'
  BY DEF Course, StagedSoFar, RollsTheJournal, CleansUpWhole, Pursues

\* What Untampered says at the labels of a roll.
LEMMA Rolling ==
    ASSUME Course
    PROVE  /\ pc = "forward" => journal = m
           /\ pc \in {"fallback", "rollback", "cleanup", "cleanupOld"} => Pursues
           /\ pc = "rollback" => CanRollback(m)
           /\ pc \in {"orphans", "stage", "publish", "abort"} => journal = NoJournal
  BY DEF Course, StagedSoFar, RollsTheJournal, Pursues

LEMMA PursuesOn ==
    ASSUME Pursues, UNCHANGED <<target, journal, m>>
    PROVE  Pursues'
  BY DEF Pursues

\* Before the manifest: the loops over orphans and staged copies.
LEMMA StagingStep ==
    ASSUME TypeOK, Whole, Course, NEW oc \in Outcomes,
           \/ OrphanStaged(oc) \/ OrphanTemp(oc) \/ (\E content \in Content : Stage(oc, content))
           \/ WriteManifestTemp(oc) \/ AbortStaged(oc) \/ AbortTemp(oc)
    PROVE  Whole' /\ Course'
<1>1. journal = NoJournal /\ UNCHANGED <<target, old, journal, tampers>>
  <2>1. pc \in {"orphans", "stage", "abort"} /\ UNCHANGED <<target, old, journal, tampers>>
    BY Zenon DEF OrphanStaged, OrphanTemp, Stage, WriteManifestTemp, AbortStaged, AbortTemp
  <2> QED
    BY <2>1, Rolling
<1>2. Whole'
  BY Zenon, <1>1, FilesStay
<1>3. CASE OrphanStaged(oc)
  <2>1. pc' \in {"orphans", "idle"}
    BY <1>3 DEF OrphanStaged
  <2> QED
    BY <1>1, <1>2, <2>1, AtRest, Unpublished
<1>4. CASE OrphanTemp(oc)
  <2>1. next \in {"ready", "stage", "idle"}
    BY DEF TypeOK
  <2>2. pc' \in {"ready", "stage", "idle"} /\ i' = 1
    BY <1>4, <2>1 DEF OrphanTemp
  <2> QED
    BY <1>1, <1>2, <2>2, GoesOn
<1>5. CASE \E content \in Content : Stage(oc, content)
  <2>1. PICK content \in Content : Stage(oc, content)
    BY <1>5
  <2>2. CASE oc = "ok"
    <3>1. pc = "stage" /\ i \in Files /\ pc' = "stage" /\ i' = i + 1
      BY Zenon, <2>1, <2>2 DEF Stage
    <3>2. /\ m' = [m EXCEPT !.from[i] = target[i], !.to[i] = content]
          /\ new' = [new EXCEPT ![i] = content]
      BY Zenon, <2>1, <2>2 DEF Stage
    <3>3. m \in Manifest /\ new \in [Files -> File]
      BY DEF TypeOK
    <3>4. m'.from = [m.from EXCEPT ![i] = target[i]] /\ m'.to = [m.to EXCEPT ![i] = content]
      BY <3>2, <3>3 DEF Manifest
    <3>5. m.from \in [Files -> Content] /\ m.to \in [Files -> Content]
      BY <3>3 DEF Manifest
    <3>6. \A f \in Files : f < i' => f < i \/ f = i
      BY <3>1, NAssumption DEF Files
    <3>7. ASSUME NEW f \in Files, f < i' PROVE m'.from[f] = target'[f] /\ m'.to[f] = new'[f]
      <4>1. CASE f = i
        BY <1>1, <3>2, <3>3, <3>4, <3>5, <4>1
      <4>2. CASE f < i /\ f # i
        <5>1. m.from[f] = target[f] /\ m.to[f] = new[f]
          BY <3>1, <4>2 DEF Course, StagedSoFar
        <5> QED
          BY <1>1, <3>2, <3>3, <3>4, <3>5, <4>2, <5>1
      <4> QED
        BY <3>6, <3>7, <4>1, <4>2
    <3> QED
      BY Zenon, <1>1, <1>2, <3>1, <3>7 DEF Course, StagedSoFar, RollsTheJournal, CleansUpWhole
  <2>3. CASE oc # "ok"
    <3>1. pc' = "abort"
      BY Zenon, <2>1, <2>3 DEF Stage
    <3> QED
      BY <1>1, <1>2, <3>1, Unpublished
  <2> QED
    BY <2>2, <2>3
<1>6. CASE WriteManifestTemp(oc)
  <2>1. CASE oc = "ok"
    <3>1. pc = "stage" /\ i > N /\ pc' = "publish" /\ temp' = m /\ UNCHANGED <<m, new>>
      BY <1>6, <2>1 DEF WriteManifestTemp
    <3>2. \A f \in Files : f < i
      BY <3>1, NAssumption DEF TypeOK, Files
    <3>3. \A f \in Files : m'.from[f] = target'[f] /\ m'.to[f] = new'[f]
      BY <1>1, <3>1, <3>2 DEF Course, StagedSoFar
    <3> QED
      BY <1>1, <1>2, <3>1, <3>3 DEF Course, StagedSoFar, RollsTheJournal, CleansUpWhole
  <2>2. CASE oc # "ok"
    <3>1. pc' = "abort"
      BY <1>6, <2>2 DEF WriteManifestTemp
    <3> QED
      BY <1>1, <1>2, <3>1, Unpublished
  <2> QED
    BY <2>1, <2>2
<1>7. CASE AbortStaged(oc) \/ AbortTemp(oc)
  <2>1. pc' \in {"abort", "idle"}
    BY <1>7 DEF AbortStaged, AbortTemp
  <2> QED
    BY <1>1, <1>2, <2>1, AtRest, Unpublished
<1> QED
  BY <1>3, <1>4, <1>5, <1>6, <1>7

\* The manifest is published over the untouched files.
LEMMA PublishStep ==
    ASSUME TypeOK, Whole, Course, tampers = 0, NEW oc \in Outcomes, PublishManifest(oc)
    PROVE  Whole' /\ Course'
<1>1. /\ pc = "publish" /\ UNCHANGED <<target, new, old, m, tampers>> /\ journal = NoJournal
      /\ temp = m /\ \A f \in Files : m.from[f] = target[f] /\ m.to[f] = new[f]
  <2>1. pc = "publish" /\ UNCHANGED <<target, new, old, m, tampers>>
    BY DEF PublishManifest
  <2> QED
    BY <2>1 DEF Course, StagedSoFar
<1>2. CASE oc = "before"
  <2>1. journal' = journal /\ pc' = "abort"
    BY <1>2 DEF PublishManifest
  <2> QED
    BY <1>1, <2>1, FilesStay, Unpublished
<1>3. CASE oc # "before"
  <2>1. journal' = m /\ pc' \in {"forward", "fallback"}
    BY Zenon, <1>1, <1>3 DEF PublishManifest
  <2>2. \A f \in Files : old[f] = Absent
    BY <1>1 DEF Whole, NothingStranded
  <2>3. m # NoJournal
    BY NoJournalAssumption DEF TypeOK
  <2>4. NothingStranded' /\ Recoverable' /\ Journalled'
    BY <1>1, <2>1, <2>2, <2>3 DEF NothingStranded, Recoverable, Journalled, CanRollback
  <2> QED
    BY <1>1, <2>1, <2>4, Forwards DEF Whole
<1> QED
  BY <1>2, <1>3

\* Rolling forward: a file goes to its backup, or its staged copy takes its place.
LEMMA ForwardStep ==
    ASSUME TypeOK, Whole, Course, NEW oc \in Outcomes, ForwardBackup(oc) \/ ForwardPromote(oc)
    PROVE  Whole' /\ Course'
<1>1. /\ pc = "forward" /\ i \in Files /\ UNCHANGED <<journal, m, tampers>>
      /\ pc' \in {"forward", "fallback"}
  BY DEF ForwardBackup, ForwardPromote
<1>2. journal = m /\ journal # NoJournal
  BY <1>1, NoJournalAssumption, Rolling DEF TypeOK
<1>3. Course'
  BY <1>1, <1>2, Forwards
<1>4. NothingStranded'
  BY <1>1, <1>2 DEF NothingStranded
<1>5. CASE oc = "before"
  <2>1. UNCHANGED <<target, new, old>>
    BY <1>5 DEF ForwardBackup, ForwardPromote
  <2> QED
    BY <1>1, <1>3, <2>1, FilesStay
<1>6. CASE oc # "before" /\ ForwardBackup(oc)
  <2>1. /\ new' = new /\ target[i] = m.from[i] /\ target[i] # m.to[i] /\ old[i] = Absent
        /\ old' = [old EXCEPT ![i] = target[i]] /\ target' = [target EXCEPT ![i] = Absent]
    BY <1>6 DEF ForwardBackup
  <2>2. \A f \in Files : /\ target'[f] = IF f = i THEN Absent ELSE target[f]
                         /\ old'[f] = IF f = i THEN m.from[i] ELSE old[f]
    BY <1>1, <2>1 DEF TypeOK
  <2>3. Journalled'
    BY <1>1, <1>2, <2>2 DEF Whole, Journalled
  <2>4. CanRollback(journal) => CanRollback(journal)'
    BY <1>1, <1>2, <2>1, <2>2 DEF CanRollback
  <2>5. CanRollForward(journal) => CanRollForward(journal)'
    BY <1>1, <1>2, <2>1, <2>2 DEF CanRollForward
  <2>6. Recoverable'
    BY <1>1, <1>2, <2>4, <2>5 DEF Whole, Recoverable
  <2> QED
    BY <1>3, <1>4, <2>3, <2>6 DEF Whole
<1>7. CASE oc # "before" /\ ForwardPromote(oc)
  <2>1. /\ old' = old /\ target[i] = Absent /\ new[i] = m.to[i]
        /\ target' = [target EXCEPT ![i] = new[i]] /\ new' = [new EXCEPT ![i] = Absent]
    BY <1>7 DEF ForwardPromote
  <2>2. \A f \in Files : /\ target'[f] = IF f = i THEN m.to[i] ELSE target[f]
                         /\ new'[f] = IF f = i THEN Absent ELSE new[f]
    BY <1>1, <2>1 DEF TypeOK
  <2>3. m.from[i] \in Content /\ m.to[i] \in Content
    BY <1>1 DEF TypeOK, Manifest
  <2>4. old[i] = m.from[i]
    BY <1>1, <1>2, <2>1, <2>3, ContentAssumption DEF Whole, Journalled
  <2>5. Journalled'
    BY <1>1, <1>2, <2>1, <2>2, <2>4 DEF Whole, Journalled
  <2>6. CanRollback(journal) => CanRollback(journal)'
    BY <1>1, <1>2, <2>1, <2>2, <2>4 DEF CanRollback
  <2>7. CanRollForward(journal) => CanRollForward(journal)'
    BY <1>1, <1>2, <2>1, <2>2 DEF CanRollForward
  <2>8. Recoverable'
    BY <1>1, <1>2, <2>6, <2>7 DEF Whole, Recoverable
  <2> QED
    BY <1>3, <1>4, <2>5, <2>8 DEF Whole
<1> QED
  BY <1>5, <1>6, <1>7

\* Rolling back: a file that is not the old one is removed, a backup takes its place.
LEMMA BackwardStep ==
    ASSUME TypeOK, Whole, Course, tampers = 0, NEW oc \in Outcomes,
           RollbackRemove(oc) \/ RollbackRestore(oc)
    PROVE  Whole' /\ Course'
<1>1. /\ pc = "rollback" /\ i \in Files /\ UNCHANGED <<new, journal, m, tampers>>
      /\ pc' = "rollback" /\ old[i] = m.from[i]
  BY DEF RollbackRemove, RollbackRestore
<1>2. m.from[i] \in Content /\ m.from[i] # Absent /\ m \in Manifest
  BY <1>1, ContentAssumption DEF TypeOK, Manifest
<1>3. journal = m /\ journal # NoJournal /\ CanRollback(m)
  <2>1. Pursues /\ CanRollback(m)
    BY <1>1, Rolling
  <2>2. journal # NoJournal
    BY <1>1, <1>2 DEF Whole, NothingStranded
  <2> QED
    BY <2>1, <2>2 DEF Pursues
<1>4. Pursues'
  BY <1>1, <1>3 DEF Pursues
<1>5. NothingStranded'
  BY <1>1, <1>3 DEF NothingStranded
<1>6. ASSUME CanRollback(m)' PROVE Recoverable' /\ Course'
  BY <1>1, <1>3, <1>4, <1>6, Backwards DEF Recoverable
<1>7. CASE oc = "before"
  <2>1. UNCHANGED <<target, old>>
    BY <1>7 DEF RollbackRemove, RollbackRestore
  <2>2. CanRollback(m)'
    BY <1>1, <1>3, <2>1 DEF CanRollback
  <2> QED
    BY <1>1, <1>6, <2>1, <2>2, FilesStay
<1>8. CASE oc # "before" /\ RollbackRemove(oc)
  <2>1. old' = old /\ target' = [target EXCEPT ![i] = Absent]
    BY <1>8 DEF RollbackRemove
  <2>2. \A f \in Files : target'[f] = IF f = i THEN Absent ELSE target[f]
    BY <1>1, <2>1 DEF TypeOK
  <2>3. Journalled'
    BY <1>1, <1>3, <2>1, <2>2 DEF Whole, Journalled
  <2>4. CanRollback(m)'
    BY <1>1, <1>3, <2>1, <2>2 DEF CanRollback
  <2> QED
    BY <1>5, <1>6, <2>3, <2>4 DEF Whole
<1>9. CASE oc # "before" /\ RollbackRestore(oc)
  <2>1. target' = [target EXCEPT ![i] = old[i]] /\ old' = [old EXCEPT ![i] = Absent]
    BY <1>9 DEF RollbackRestore
  <2>2. \A f \in Files : /\ target'[f] = IF f = i THEN m.from[i] ELSE target[f]
                         /\ old'[f] = IF f = i THEN Absent ELSE old[f]
    BY <1>1, <2>1 DEF TypeOK
  <2>3. Journalled'
    BY <1>1, <1>3, <2>2 DEF Whole, Journalled
  <2>4. CanRollback(m)'
    BY <1>1, <1>3, <2>2 DEF CanRollback
  <2> QED
    BY <1>5, <1>6, <2>3, <2>4 DEF Whole
<1> QED
  BY <1>7, <1>8, <1>9

\* The two verifications: cleanup starts over a whole generation.
LEMMA VerifyStep ==
    ASSUME TypeOK, Whole, Course, NEW oc \in Outcomes, ForwardVerify(oc) \/ RollbackVerify(oc)
    PROVE  Whole' /\ Course'
<1>1. /\ UNCHANGED <<target, new, old, journal, m, tampers>> /\ pc \in {"forward", "rollback"}
      /\ failures' = {}
  BY DEF ForwardVerify, RollbackVerify
<1>2. Whole'
  BY <1>1, FilesStay
<1>3. /\ target \in [Files -> Content \cup {Absent}]
      /\ m.from \in [Files -> Content] /\ m.to \in [Files -> Content]
  BY DEF TypeOK, Manifest
<1>4. ASSUME i' = 1 PROVE \A f \in Files : ~(f < i')
  BY <1>4, NAssumption DEF Files
<1>5. Pursues'
  <2>1. Pursues
    BY <1>1, Rolling DEF Pursues
  <2> QED
    BY <1>1, <2>1, PursuesOn
<1>6. CASE ForwardVerify(oc)
  <2>1. CASE oc = "ok" /\ \A f \in Files : target[f] = m.to[f]
    <3>1. pc' = "cleanup" /\ i' = 1 /\ caller' = "forward"
      BY <1>6, <2>1 DEF ForwardVerify
    <3>2. target = m.to
      BY <1>3, <2>1
    <3> QED
      BY <1>1, <1>2, <1>4, <1>5, <3>1, <3>2, CleansUp
  <2>2. CASE ~(oc = "ok" /\ \A f \in Files : target[f] = m.to[f])
    <3>1. pc' = "fallback"
      BY <1>6, <2>2 DEF ForwardVerify
    <3> QED
      BY <1>2, <1>5, <3>1, FallsBack
  <2> QED
    BY <2>1, <2>2
<1>7. CASE RollbackVerify(oc)
  <2>1. CASE failures = {} /\ oc = "ok" /\ \A f \in Files : target[f] = m.from[f]
    <3>1. pc' = "cleanup" /\ i' = 1 /\ caller' = "rollback"
      BY <1>7, <2>1 DEF RollbackVerify
    <3>2. target = m.from
      BY <1>3, <2>1
    <3> QED
      BY <1>1, <1>2, <1>4, <1>5, <3>1, <3>2, CleansUp
  <2>2. CASE ~(failures = {} /\ oc = "ok" /\ \A f \in Files : target[f] = m.from[f])
    <3>1. pc' = "idle"
      BY <1>7, <2>2 DEF RollbackVerify
    <3> QED
      BY <1>2, <3>1, AtRest
  <2> QED
    BY <2>1, <2>2
<1> QED
  BY <1>6, <1>7

\* Cleanup removes staged copies and backups over a whole generation.
LEMMA CleanupStep ==
    ASSUME TypeOK, Whole, Course, NEW oc \in Outcomes, CleanupNew(oc) \/ CleanupOld(oc)
    PROVE  Whole' /\ Course'
<1>1. /\ pc \in {"cleanup", "cleanupOld"} /\ pc' \in {"cleanup", "cleanupOld"}
      /\ UNCHANGED <<target, journal, m, caller, tampers>>
      /\ failures' = IF oc = "ok" THEN failures ELSE failures \cup {i}
  BY DEF CleanupNew, CleanupOld
<1>2. i \in Files
  BY DEF CleanupNew, CleanupOld, TypeOK
<1>3. /\ target = IF caller = "forward" THEN m.to ELSE m.from
      /\ failures = {} => \A f \in Files : f < i => old[f] = Absent
  BY <1>1 DEF Course, CleansUpWhole
<1>4. failures' = {} => failures = {} /\ oc = "ok"
  BY <1>1
<1>5. Pursues /\ Pursues'
  BY <1>1, Rolling, PursuesOn
<1>6. journal = NoJournal \/ target = journal.from \/ target = journal.to
  BY <1>3, <1>5 DEF Pursues
<1>7. target' = IF caller' = "forward" THEN m'.to ELSE m'.from
  BY <1>1, <1>3
<1>8. CASE CleanupNew(oc)
  <2>1. old' = old /\ i' = i
    BY <1>8 DEF CleanupNew
  <2>2. Whole'
    BY <1>1, <1>6, <2>1, FilesStay
  <2>3. failures' = {} => \A f \in Files : f < i' => old'[f] = Absent
    BY <1>3, <1>4, <2>1
  <2> QED
    BY <1>1, <1>5, <1>7, <2>2, <2>3, CleansUp
<1>9. CASE CleanupOld(oc)
  <2>1. i' = i + 1 /\ new' = new /\ old' = IF oc = "before" THEN old ELSE [old EXCEPT ![i] = Absent]
    BY <1>9 DEF CleanupOld
  <2>2. \A f \in Files : old'[f] = old[f] \/ old'[f] = Absent
    BY <1>2, <2>1 DEF TypeOK
  <2>3. oc = "ok" => old'[i] = Absent
    BY <1>2, <2>1 DEF TypeOK
  <2>4. \A f \in Files : f < i' => f < i \/ f = i
    BY <1>2, <2>1, NAssumption DEF Files
  <2>5. failures' = {} => \A f \in Files : f < i' => old'[f] = Absent
    BY <1>3, <1>4, <2>2, <2>3, <2>4
  <2>6. NothingStranded'
    BY <1>1, <2>2 DEF Whole, NothingStranded
  <2>7. Recoverable'
    BY <1>1, <1>6 DEF Recoverable, CanRollForward, CanRollback
  <2>8. Journalled'
    <3>1. \A f \in Files : target[f] \in Content
      BY <1>3 DEF TypeOK, Manifest
    <3> QED
      BY <1>1, <2>2, <3>1, ContentAssumption DEF Whole, Journalled
  <2> QED
    BY <1>1, <1>5, <1>7, <2>5, <2>6, <2>7, <2>8, CleansUp DEF Whole
<1> QED
  BY <1>8, <1>9

\* At last the manifest goes, if nothing failed.
LEMMA FinishStep ==
    ASSUME TypeOK, Whole, Course, NEW oc \in Outcomes, CleanupManifest(oc)
    PROVE  Whole' /\ Course'
<1>1. /\ pc = "cleanup" /\ i > N /\ failures = {} /\ UNCHANGED <<target, new, old, m, tampers>>
      /\ journal' = IF oc = "before" THEN journal ELSE NoJournal
  BY DEF CleanupManifest
<1>2. /\ target = IF caller = "forward" THEN m.to ELSE m.from
      /\ \A f \in Files : f < i => old[f] = Absent
  BY <1>1 DEF Course, CleansUpWhole
<1>3. \A f \in Files : f < i
  BY <1>1, NAssumption DEF TypeOK, Files
<1>4. \A f \in Files : target[f] \in Content
  BY <1>2 DEF TypeOK, Manifest
<1>5. Whole'
  <2>1. CASE journal' = NoJournal
    BY <1>1, <1>2, <1>3, <1>4, <2>1 DEF Whole, NothingStranded, Recoverable, Journalled
  <2>2. CASE journal' = journal
    BY <1>1, <2>2, FilesStay
  <2> QED
    BY <1>1, <2>1, <2>2
<1>6. Pursues
  BY <1>1, Rolling
<1>7. CASE oc = "ok"
  <2>1. next \in {"ready", "stage", "idle"}
    BY DEF TypeOK
  <2>2. pc' \in {"ready", "stage", "idle"} /\ i' = 1 /\ journal' = NoJournal
    BY <1>7, <2>1 DEF CleanupManifest
  <2> QED
    BY <1>5, <2>2, GoesOn
<1>8. CASE oc # "ok" /\ caller = "forward"
  <2>1. pc' = "fallback"
    BY <1>8 DEF CleanupManifest, CleanupFailed
  <2>2. Pursues'
    BY <1>1, <1>2, <1>6, <1>8 DEF Pursues
  <2> QED
    BY <1>5, <2>1, <2>2, FallsBack
<1>9. CASE oc # "ok" /\ caller # "forward"
  <2>1. pc' = "idle"
    BY <1>9 DEF CleanupManifest, CleanupFailed
  <2> QED
    BY <1>5, <2>1, AtRest
<1> QED
  BY <1>7, <1>8, <1>9

\* The steps that leave the files alone.
LEMMA QuietStep ==
    ASSUME TypeOK, Whole, Course, NEW oc \in Outcomes,
           \/ Begin \/ GiveUp \/ Promote \/ OrphanBackup \/ Crash
           \/ RecoverNoManifest \/ StageUnreadable
           \/ RecoverManifest(oc) \/ ForwardSkip \/ ForwardRefuse(oc)
           \/ Fallback(oc) \/ RollbackSkip \/ RollbackUnavailable(oc) \/ CleanupIncomplete
    PROVE  Whole' /\ Course'
<1>1. UNCHANGED <<target, new, old, journal, tampers>>
  BY Zenon DEF Begin, GiveUp, Promote, OrphanBackup, Crash, RecoverNoManifest, StageUnreadable,
     RecoverManifest, ForwardSkip, ForwardRefuse, Fallback, RollbackSkip, RollbackUnavailable, CleanupIncomplete
<1>2. Whole'
  BY <1>1, FilesStay
<1>3. CASE Begin \/ GiveUp \/ Promote \/ OrphanBackup \/ Crash
  <2>1. pc' \in {"idle", "ready", "recover"}
    BY <1>3 DEF Begin, GiveUp, Promote, OrphanBackup, Crash
  <2> QED
    BY <1>2, <2>1, AtRest
<1>4. CASE RecoverNoManifest \/ StageUnreadable
  <2>1. pc' \in {"orphans", "abort"} /\ journal = NoJournal
    BY <1>4, Rolling DEF RecoverNoManifest, StageUnreadable
  <2> QED
    BY <1>1, <1>2, <2>1, Unpublished
<1>5. CASE RecoverManifest(oc)
  <2>1. m' = journal /\ pc' \in {"forward", "fallback"}
    BY <1>5 DEF RecoverManifest
  <2> QED
    BY <1>1, <1>2, <2>1, Forwards
<1>6. CASE ForwardSkip \/ ForwardRefuse(oc)
  <2>1. pc = "forward" /\ m' = m /\ pc' \in {"forward", "fallback"}
    BY Zenon, <1>6 DEF ForwardSkip, ForwardRefuse
  <2> QED
    BY <1>1, <1>2, <2>1, Rolling, Forwards
<1>7. CASE Fallback(oc)
  <2>1. pc = "fallback" /\ m' = m /\ (pc' = "idle" \/ (pc' = "rollback" /\ CanRollback(m)))
    BY <1>7 DEF Fallback
  <2>2. Pursues'
    BY <1>1, <2>1, Rolling, PursuesOn
  <2>3. CanRollback(m) => CanRollback(m)'
    BY <1>1, <2>1 DEF CanRollback
  <2> QED
    BY <1>2, <2>1, <2>2, <2>3, AtRest, Backwards
<1>8. CASE RollbackSkip \/ RollbackUnavailable(oc)
  <2>1. pc = "rollback" /\ m' = m /\ pc' = "rollback"
    BY <1>8 DEF RollbackSkip, RollbackUnavailable
  <2>2. Pursues' /\ CanRollback(m)
    BY <1>1, <2>1, Rolling, PursuesOn
  <2>3. CanRollback(m)'
    BY <1>1, <2>1, <2>2 DEF CanRollback
  <2> QED
    BY <1>2, <2>1, <2>2, <2>3, Backwards
<1>9. CASE CleanupIncomplete
  <2>1. pc = "cleanup" /\ m' = m /\ pc' \in {"fallback", "idle"}
    BY <1>9 DEF CleanupIncomplete, CleanupFailed
  <2>2. Pursues'
    BY <1>1, <2>1, Rolling, PursuesOn
  <2> QED
    BY <1>2, <2>1, <2>2, AtRest, FallsBack
<1> QED
  BY <1>3, <1>4, <1>5, <1>6, <1>7, <1>8, <1>9

\* Every step of an untampered repository keeps the strengthened invariant.
LEMMA UntamperedStep ==
    ASSUME TypeOK, tampers = 0, tampers' = 0, Untampered, [Next]_vars
    PROVE  Untampered'
<1>1. Whole /\ Course
  BY DEF Untampered, Whole, Course
<1>2. ASSUME Whole', Course' PROVE Untampered'
  BY <1>2 DEF Untampered, Whole, Course
<1> HIDE DEF Outcomes
<1>3. CASE Begin \/ GiveUp \/ Promote \/ Decision \/ Crash
  <2>1. "ok" \in Outcomes
    BY DEF Outcomes
  <2> QED
    BY Zenon, <1>1, <1>2, <1>3, <2>1, QuietStep DEF Decision
<1>4. CASE Tamper
  BY <1>4 DEF Tamper
<1>5. CASE \E oc \in Outcomes : Operation(oc)
  <2>1. PICK oc \in Outcomes : Operation(oc)
    BY <1>5
  <2>2. Whole' /\ Course'
    BY Zenon, <1>1, <2>1, StagingStep, PublishStep, ForwardStep, BackwardStep, VerifyStep,
       CleanupStep, FinishStep, QuietStep DEF Operation
  <2> QED
    BY <1>2, <2>2
<1>6. CASE UNCHANGED vars
  <2>1. Whole'
    BY <1>1, <1>6, FilesStay
  <2>2. Course'
    BY <1>1, <1>6 DEF Course, StagedSoFar, RollsTheJournal, CleansUpWhole, CanRollback
  <2> QED
    BY <1>2, <2>1, <2>2
<1> QED
  BY Zenon, <1>3, <1>4, <1>5, <1>6 DEF Next, Step

\* TypeOK and the strengthened invariant hold throughout every behaviour.
THEOREM InductiveInvariant == Spec => []Inductive
<1>1. Init => Inductive
  BY NAssumption, BoundAssumption
     DEF Init, Inductive, TypeOK, Untampered, NothingStranded, Recoverable, Journalled,
         StagedSoFar, RollsTheJournal, CleansUpWhole, Files, File, Labels, Manifest
<1>2. Inductive /\ [Next]_vars => Inductive'
  <2> SUFFICES ASSUME Inductive, [Next]_vars PROVE Inductive'
    OBVIOUS
  <2>1. TypeOK'
    BY TypeStep DEF Inductive
  <2>2. tampers' = 0 => tampers = 0
    <3>1. CASE Tamper
      BY <3>1 DEF Inductive, TypeOK, Tamper
    <3>2. CASE Begin \/ GiveUp \/ Promote \/ Decision \/ Crash \/ UNCHANGED vars
      BY <3>2 DEF Begin, GiveUp, Promote, Decision, RecoverNoManifest, OrphanBackup,
         StageUnreadable, ForwardSkip, RollbackSkip, CleanupIncomplete, Crash
    <3>3. CASE \E oc \in Outcomes : Operation(oc)
      <4> PICK oc \in Outcomes : Operation(oc)
        BY <3>3
      <4> QED
        BY Zenon DEF Operation, RecoverManifest, Fallback, OrphanStaged, OrphanTemp, Stage,
           WriteManifestTemp, PublishManifest, AbortStaged, AbortTemp, ForwardRefuse, ForwardBackup,
           ForwardPromote, ForwardVerify, RollbackUnavailable, RollbackRemove, RollbackRestore, RollbackVerify,
           CleanupNew, CleanupOld, CleanupManifest
    <3> QED
      BY <3>1, <3>2, <3>3 DEF Next, Step
  <2> QED
    BY <2>1, <2>2, UntamperedStep DEF Inductive
<1> QED
  BY <1>1, <1>2, PTL DEF Spec

\* Without a manifest no file is stranded, and a manifest on disk always leaves a
\* complete old or new generation to recover: for any number of files, errors and
\* crashes in promote, roll forward, rollback, cleanup and recovery.
THEOREM AlwaysRecoverable == Spec => [](NothingStranded /\ Recoverable)
<1>1. Inductive => NothingStranded /\ Recoverable
  BY DEF Inductive, Untampered, NothingStranded, Recoverable
<1> QED
  BY <1>1, InductiveInvariant, PTL

\* TypeOK for every value of the constants.
THEOREM TypeCorrect == Spec => []TypeOK
<1>1. Inductive => TypeOK
  BY DEF Inductive
<1> QED
  BY <1>1, InductiveInvariant, PTL

\* The operations that change neither a target nor the journal.
QuietOperation(oc) ==
    \/ RecoverManifest(oc) \/ Fallback(oc) \/ OrphanStaged(oc) \/ OrphanTemp(oc)
    \/ \E content \in Content : Stage(oc, content)
    \/ WriteManifestTemp(oc) \/ AbortStaged(oc) \/ AbortTemp(oc)
    \/ ForwardRefuse(oc) \/ RollbackUnavailable(oc)
    \/ ForwardVerify(oc) \/ RollbackVerify(oc) \/ CleanupNew(oc) \/ CleanupOld(oc)

\* An untampered step leaves the journal alone, and the files too if there is no
\* journal; or it publishes a manifest of the present files; or it removes the
\* manifest over one of its two generations.
LEMMA JournalStep ==
    ASSUME TypeOK, Untampered, tampers' = 0, [Next]_vars
    PROVE  \/ journal' = journal /\ (journal = NoJournal => target' = target)
           \/ /\ journal = NoJournal /\ journal' \in Manifest
              /\ target' = target /\ journal'.from = target
           \/ /\ journal # NoJournal /\ journal' = NoJournal
              /\ target' = target /\ target \in {journal.from, journal.to}
<1> USE NAssumption, ContentAssumption, NoJournalAssumption DEF TypeOK, Untampered
<1>1. CASE Begin \/ GiveUp \/ Promote \/ Decision \/ Crash \/ UNCHANGED vars
  BY <1>1 DEF Begin, GiveUp, Promote, Decision, RecoverNoManifest, OrphanBackup,
     StageUnreadable, ForwardSkip, RollbackSkip, CleanupIncomplete, Crash
<1>2. CASE Tamper
  BY <1>2 DEF Tamper
<1>3. CASE \E oc \in Outcomes : PublishManifest(oc)
  <2> PICK oc \in Outcomes : PublishManifest(oc)
    BY <1>3
  <2>1. temp = m /\ journal = NoJournal /\ target' = target
    BY DEF PublishManifest, StagedSoFar
  <2>2. \A f \in Files : m.from[f] = target[f]
    BY DEF PublishManifest, StagedSoFar
  <2>3. m.from \in [Files -> Content] /\ m \in Manifest
    BY DEF Manifest
  <2>4. m.from = target
    BY <2>2, <2>3
  <2> QED
    BY <2>1, <2>3, <2>4 DEF PublishManifest
<1>4. CASE \E oc \in Outcomes : CleanupManifest(oc)
  BY <1>4 DEF CleanupManifest, CleansUpWhole, RollsTheJournal
<1>5. CASE \E oc \in Outcomes : ForwardBackup(oc) \/ ForwardPromote(oc)
  BY <1>5 DEF ForwardBackup, ForwardPromote, RollsTheJournal
<1>6. CASE \E oc \in Outcomes : RollbackRemove(oc) \/ RollbackRestore(oc)
  BY <1>6 DEF RollbackRemove, RollbackRestore, NothingStranded, Next, Manifest, Files
<1>7. CASE \E oc \in Outcomes : QuietOperation(oc)
  <2> PICK oc \in Outcomes : QuietOperation(oc)
    BY <1>7
  <2> QED
    BY Zenon DEF QuietOperation, RecoverManifest, Fallback, OrphanStaged, OrphanTemp, Stage,
       WriteManifestTemp, AbortStaged, AbortTemp, ForwardRefuse, RollbackUnavailable,
       ForwardVerify, RollbackVerify, CleanupNew, CleanupOld
<1> HIDE DEF TypeOK, Untampered, Outcomes, vars
<1>8. CASE \E oc \in Outcomes : Operation(oc)
  <2> PICK oc \in Outcomes : Operation(oc)
    BY <1>8
  <2>1. CASE PublishManifest(oc)
    BY Zenon, <2>1, <1>3
  <2>2. CASE CleanupManifest(oc)
    BY <2>2, <1>4
  <2>3. CASE ForwardBackup(oc) \/ ForwardPromote(oc)
    BY <2>3, <1>5
  <2>4. CASE RollbackRemove(oc) \/ RollbackRestore(oc)
    BY <2>4, <1>6
  <2>5. CASE QuietOperation(oc)
    BY <2>5, <1>7
  <2> QED
    BY Zenon, <2>1, <2>2, <2>3, <2>4, <2>5 DEF Operation, QuietOperation
<1> QED
  BY <1>1, <1>2, <1>8 DEF Next, Step

\* The promotion with its crashes, errors and recoveries implements the atomic
\* switch of SdkGeneration, as long as nobody else edits the files.
THEOREM Refinement ==
    ASSUME MaxTampers = 0
    PROVE  Spec => AtomicUpdate
<1>1. Init => Generation!Init
  BY DEF Init, Generation!Init
<1>2. Inductive /\ Inductive' /\ [Next]_vars
      => [Generation!Next]_<<IF journal = NoJournal THEN target ELSE journal.from,
                            IF journal = NoJournal THEN {} ELSE {journal.to}>>
  <2> SUFFICES ASSUME Inductive, Inductive', [Next]_vars
               PROVE  [Generation!Next]_<<IF journal = NoJournal THEN target ELSE journal.from,
                                         IF journal = NoJournal THEN {} ELSE {journal.to}>>
    OBVIOUS
  <2>1. tampers = 0 /\ tampers' = 0
    BY DEF Inductive, TypeOK
  <2>2. TypeOK /\ Untampered
    BY <2>1 DEF Inductive
  <2>3. CASE journal' = journal /\ (journal = NoJournal => target' = target)
    BY <2>3
  <2>4. CASE /\ journal = NoJournal /\ journal' \in Manifest
             /\ target' = target /\ journal'.from = target
    BY <2>4, NoJournalAssumption DEF Generation!Next, Generation!Propose, Manifest
  <2>5. CASE /\ journal # NoJournal /\ journal' = NoJournal
             /\ target' = target /\ target \in {journal.from, journal.to}
    BY <2>5 DEF Generation!Next, Generation!Commit, Generation!Abandon
  <2> QED
    BY <2>1, <2>2, <2>3, <2>4, <2>5, JournalStep
<1> QED
  BY <1>1, <1>2, InductiveInvariant, PTL DEF Spec, AtomicUpdate, Generation!Spec

-----------------------------------------------------------------------------
(* What holds also when files are edited between two runs.                 *)

\* A roll works on the manifest that it read or published, and cleanup runs over the
\* generation that was verified before it.
Orderly ==
    /\ pc = "publish" => temp = m
    /\ pc \in {"forward", "fallback", "rollback", "cleanup", "cleanupOld"} => journal \in {m, NoJournal}
    /\ pc \in {"cleanup", "cleanupOld"} => target = IF caller = "forward" THEN m.to ELSE m.from

\* What no step gives up: the journal of a mixture, and a backup that is needed.
Kept ==
    /\ pc # "idle" /\ journal # NoJournal /\ journal' = NoJournal => target \in {journal.from, journal.to}
    /\ \A f \in Files : old[f] # Absent /\ old'[f] = Absent =>
         target'[f] = old[f] \/ target \in {m.from, m.to}

LEMMA OrderlyStep ==
    TypeOK /\ Orderly /\ [Next]_vars => Orderly' /\ Kept
<1> SUFFICES ASSUME TypeOK, Orderly, [Next]_vars PROVE Orderly' /\ Kept
  OBVIOUS
<1> USE NoJournalAssumption DEF TypeOK, Orderly, Kept
<1>1. CASE Begin \/ GiveUp \/ Promote \/ Crash \/ UNCHANGED vars
  BY Zenon, <1>1 DEF Begin, GiveUp, Promote, Crash
<1>2. CASE Tamper
  BY <1>2 DEF Tamper
<1>3. CASE Decision
  BY <1>3 DEF Decision, RecoverNoManifest, OrphanBackup, StageUnreadable, ForwardSkip, RollbackSkip,
     CleanupIncomplete, CleanupFailed
<1>4. CASE \E oc \in Outcomes : RecoverManifest(oc) \/ Fallback(oc)
  BY <1>4 DEF RecoverManifest, Fallback
<1>5. CASE \E oc \in Outcomes : OrphanStaged(oc) \/ OrphanTemp(oc)
  BY <1>5 DEF OrphanStaged, OrphanTemp
<1>6. CASE \E oc \in Outcomes, content \in Content : Stage(oc, content)
  BY <1>6 DEF Stage
<1>7. CASE \E oc \in Outcomes : WriteManifestTemp(oc) \/ AbortStaged(oc) \/ AbortTemp(oc)
  BY <1>7 DEF WriteManifestTemp, AbortStaged, AbortTemp
<1>8. CASE \E oc \in Outcomes : PublishManifest(oc)
  <2>1. PICK oc \in Outcomes : PublishManifest(oc)
    BY <1>8
  <2>2. pc' \in {"forward", "fallback"} => journal' = m'
    BY Zenon, <2>1 DEF PublishManifest
  <2>3. pc' \in {"forward", "fallback", "abort"}
    BY Zenon, <2>1 DEF PublishManifest
  <2>4. journal' = NoJournal => journal = NoJournal
    BY <2>1 DEF PublishManifest
  <2> QED
    BY <2>1, <2>2, <2>3, <2>4 DEF PublishManifest
<1>9. CASE \E oc \in Outcomes : ForwardRefuse(oc) \/ ForwardBackup(oc) \/ ForwardPromote(oc)
  BY <1>9 DEF ForwardRefuse, ForwardBackup, ForwardPromote
<1>10. CASE \E oc \in Outcomes : ForwardVerify(oc)
  BY <1>10 DEF ForwardVerify, Manifest
<1>11. CASE \E oc \in Outcomes : RollbackUnavailable(oc) \/ RollbackRemove(oc)
  BY <1>11 DEF RollbackUnavailable, RollbackRemove
<1>12. CASE \E oc \in Outcomes : RollbackRestore(oc)
  BY <1>12 DEF RollbackRestore
<1>13. CASE \E oc \in Outcomes : RollbackVerify(oc)
  BY <1>13 DEF RollbackVerify, Manifest
<1>14. CASE \E oc \in Outcomes : CleanupNew(oc) \/ CleanupOld(oc)
  BY Zenon, <1>14 DEF CleanupNew, CleanupOld
<1>15. CASE \E oc \in Outcomes : CleanupManifest(oc)
  BY <1>15 DEF CleanupManifest, CleanupFailed
<1> HIDE DEF TypeOK, Orderly, Kept, Outcomes, vars
<1> QED
  BY <1>1, <1>2, <1>3, <1>4, <1>5, <1>6, <1>7, <1>8, <1>9, <1>10, <1>11, <1>12, <1>13, <1>14, <1>15
     DEF Next, Step, Operation

LEMMA OrderlyInvariance == Spec => [](TypeOK /\ Orderly) /\ [][Kept]_vars
<1>1. Init => Orderly
  BY DEF Init, Orderly
<1> QED
  BY <1>1, OrderlyStep, TypeCorrect, PTL DEF Spec

\* cleanupSDKTransaction gives the journal up only over a whole generation, also when files
\* were edited or deleted between the runs: both rolls verify every target before it.
THEOREM MixtureKeepsJournal == Spec => JournalOutlivesMixture
<1>1. Kept => (pc # "idle" /\ journal # NoJournal /\ journal' = NoJournal =>
                 target \in {journal.from, journal.to})
  BY DEF Kept
<1> QED
  BY <1>1, OrderlyInvariance, PTL DEF JournalOutlivesMixture

\* A backup is renamed to its target by rollbackSDKTransaction or removed over a whole
\* generation by cleanupSDKTransaction, also when files were edited between the runs.
THEOREM BackupsKept == Spec => BackupKept
<1>1. Kept => \A f \in Files : old[f] # Absent /\ old'[f] = Absent =>
                target'[f] = old[f] \/ target \in {m.from, m.to}
  BY DEF Kept
<1> QED
  BY <1>1, OrderlyInvariance, PTL DEF BackupKept
=============================================================================
