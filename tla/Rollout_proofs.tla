--------------------------- MODULE Rollout_proofs ---------------------------
(***************************************************************************)
(* Rollouts behind an HTTP rule: the steps of a reconcile and of the       *)
(* observer keep the invariant, and the theorems follow.                   *)
(***************************************************************************)
EXTENDS RolloutRequests_proofs

\* The provers' time limits, in seconds, and what is expanded everywhere.
USE BoundsAssumption, SMTT(30), ZenonT(30) DEF Outcomes, Ids, AnyImage, Insts

-----------------------------------------------------------------------------
(* A reconcile.                                                            *)

LEMMA Decisions ==
    ASSUME HasRule, NEW r, NEW obs
    PROVE  /\ Decide(r, obs) \in {"release", "redrain", "confirm", "histRestore", "recut", "cleanup",
                                  "settle"}
           /\ Decide(r, obs) = "histRestore" =>
                obs.route = r.priorInst /\ HistoricalRollbackPending(r)
           /\ Decide(r, obs) = "cleanup" /\ r.priorInst # 0 =>
                /\ obs.route = r.priorInst /\ r.pend \in obs.up
                /\ ~HistoricalRollbackPending(r)
  BY Zenon DEF Decide, RestorePrior, CutOverComplete

LEMMA DecideSession ==
    ASSUME HasRule, Types', NEW p \in Workers, NEW obs, w'[p].pc = Decide(w'[p].r, obs),
           obs.route = host'.route, obs.up = Up', Sound(w[p].r)', w'[p].r.phase # "active",
           w'[p].r.pend = 0 => host'.cand = 0
    PROVE  Session(p)'
<1> DEFINE r == w'[p].r
<1>1. host'.served \subseteq Insts
  BY Zenon DEF Types, Host
<1>2. r.priorInst # 0
  BY Zenon, <1>1, InstIds DEF Sound
<1>3. Up' \subseteq Insts
  BY Zenon DEF Up
<1>4. /\ w'[p].pc \in {"release", "redrain", "confirm", "histRestore", "recut", "cleanup", "settle"}
      /\ w'[p].pc = "histRestore" => host'.route = r.priorInst /\ HistoricalRollbackPending(r)
      /\ w'[p].pc = "cleanup" =>
           /\ host'.route = r.priorInst /\ r.pend \in Up'
           /\ ~HistoricalRollbackPending(r)
  BY Zenon, <1>2, Decisions
<1>5. ASSUME w'[p].pc = "cleanup" PROVE r.pend \in Insts /\ r.pend # r.hist.inst
  <2>1. r.pend \in Insts
    BY Zenon, <1>3, <1>4, <1>5
  <2>2. r.pend # 0
    BY <2>1
  <2> QED
    BY Zenon, <1>4, <1>5, <2>1, <2>2 DEF HistoricalRollbackPending
<1> QED
  BY Zenon, <1>4, <1>5 DEF Session, RollingBackLabels, HistoricalRollbackPending

LEMMA ReconcileLeaseKeeps ==
    ASSUME Ruled, Types, Types', Protocol, Content, NEW p \in Workers, NEW oc \in Outcomes,
           ReconcileLease(p, oc)
    PROVE  Protocol' /\ Content' /\ Moves
<1> DEFINE r == w[p].r
<1>r. HasRule /\ ~Node /\ ~Guarded
  BY Zenon DEF Ruled
<1>t. /\ w[p] \in Worker /\ r \in Record /\ r.pend \in Ids /\ r.priorInst \in Ids
      /\ r.img \in AnyImage /\ r.priorImg \in AnyImage /\ r.hist \in Revision
      /\ w[p].obs.cand \in Ids /\ host \in Host /\ rec \in Record
  BY Zenon, WorkerTypes DEF Types
<1>1. /\ AcquireLease(p, r, oc) /\ UNCHANGED host /\ w[p].pc = "takeover"
      /\ IF oc = "ok" THEN Wrote(p, "inspect") ELSE Finish(p)
  BY Zenon DEF ReconcileLease, At
<1>2. Knows(p) /\ Sound(rec)
  BY Zenon DEF Protocol, Content
<1>3. r.phase # "active"
  BY Zenon, <1>1, <1>2 DEF Knows, Stands
<1>4. CASE oc # "ok"
  BY Zenon, <1>r, <1>t, <1>1, <1>2, <1>3, <1>4, EmptyTypes, LeaseKeeps DEF Finish, Become
<1>5. CASE oc = "ok"
  <2> DEFINE next == [w[p] EXCEPT !.pc = "inspect", !.r = rec']
  <2>1. rec' \in Record
    BY Zenon DEF Types
  <2>2. next \in Worker /\ next.pc = "inspect" /\ next.r = rec'
    BY Zenon, <1>t, <2>1 DEF Worker, Holding
  <2>3. w' = [w EXCEPT ![p] = next]
    BY Zenon, <1>1, <1>5 DEF Wrote, Become
  <2> HIDE DEF next
  <2>4. w'[p] = next
    BY Zenon, <2>3 DEF Types
  <2>5. Session(p)'
    BY Zenon, <2>2, <2>4 DEF Session, RollingBackLabels
  <2> QED
    BY Zenon, <1>r, <1>t, <1>1, <1>2, <1>3, <1>5, <2>2, <2>3, <2>5, LeaseKeeps
<1> QED
  BY Zenon, <1>4, <1>5

LEMMA ReconcileInspectKeeps ==
    ASSUME Ruled, Types, Types', Protocol, Content, NEW p \in Workers, NEW oc \in Outcomes,
           ReconcileInspect(p, oc)
    PROVE  Protocol' /\ Content' /\ Moves
<1> DEFINE r == w[p].r
<1>r. HasRule /\ ~Node /\ ~Guarded
  BY Zenon DEF Ruled
<1>t. /\ w[p] \in Worker /\ r \in Record /\ r.pend \in Ids /\ r.priorInst \in Ids
      /\ r.img \in AnyImage /\ r.priorImg \in AnyImage /\ r.hist \in Revision
      /\ w[p].obs.cand \in Ids /\ host \in Host /\ rec \in Record
  BY Zenon, WorkerTypes DEF Types
<1> DEFINE label == IF r.pend = 0 /\ Inspect.cand # 0 THEN "adopt" ELSE Decide(r, Inspect)
           seen == [w[p] EXCEPT !.pc = label, !.obs = Inspect]
           blind == [w[p] EXCEPT !.pc = "release"]
<1>1. /\ Call(p, host, oc) /\ UNCHANGED <<rec, fences>> /\ w[p].pc = "inspect"
      /\ w' = [w EXCEPT ![p] = IF oc = "ok" THEN seen ELSE blind]
  BY Zenon DEF ReconcileInspect, At, Goto, Become
<1>2. label \in Holding \ (FirstCall \cup {"seed", "tombstone"})
  BY <1>r, Decisions DEF Holding, FirstCall
<1>3. /\ Inspect \in [route : Ids, cand : Ids, up : SUBSET Insts]
      /\ Inspect.route = host.route /\ Inspect.cand = host.cand /\ Inspect.up = Up
  BY Zenon, <1>r, EffectTypes DEF Inspect
<1> HIDE DEF label
<1>4. /\ seen \in Worker /\ seen.pc = label /\ seen.r = r /\ seen.obs = Inspect
      /\ blind \in Worker /\ blind.pc = "release" /\ blind.r = r
  <2>1. ASSUME NEW l \in Holding, NEW obs \in [route : Ids, cand : Ids, up : SUBSET Insts]
        PROVE  /\ [w[p] EXCEPT !.pc = l, !.obs = obs] \in Worker
               /\ [w[p] EXCEPT !.pc = l, !.obs = obs].pc = l
               /\ [w[p] EXCEPT !.pc = l, !.obs = obs].r = r
               /\ [w[p] EXCEPT !.pc = l, !.obs = obs].obs = obs
    BY Zenon, <1>t DEF Worker
  <2>2. blind \in Worker /\ blind.pc = "release" /\ blind.r = r
    BY Zenon, <1>t DEF Worker, Holding
  <2>3. seen \in Worker /\ seen.pc = label /\ seen.r = r /\ seen.obs = Inspect
    BY ZenonT(40), <1>2, <1>3, <2>1
  <2> QED
    BY Zenon, <2>2, <2>3
<1> HIDE DEF seen, blind
<1> DEFINE next == IF oc = "ok" THEN seen ELSE blind
<1>5. w'[p] = next
  BY Zenon, <1>1 DEF Types
<1>6. next \in Worker /\ next.pc \in Holding \ (FirstCall \cup {"seed", "tombstone"}) /\ next.r = r
  BY <1>2, <1>4 DEF Holding, FirstCall
<1>7. ASSUME Sound(r), HostSound, Same(host), Up' = Up, r.phase # "active" PROVE Session(p)'
  <2>1. CASE oc # "ok"
    BY Zenon, <1>4, <1>5, <2>1 DEF Session, RollingBackLabels
  <2>2. CASE oc = "ok" /\ r.pend = 0 /\ host.cand # 0
    <3>1. w'[p].pc = "adopt" /\ w'[p].r = r /\ w'[p].obs = Inspect
      BY Zenon, <1>3, <1>4, <1>5, <2>2 DEF label
    <3> QED
      BY Zenon, <1>3, <1>7, <2>2, <3>1 DEF Session, RollingBackLabels, Same
  <2>3. CASE oc = "ok" /\ ~(r.pend = 0 /\ host.cand # 0)
    <3>1. w'[p].pc = Decide(w'[p].r, Inspect) /\ w'[p].r = r
      BY Zenon, <1>3, <1>4, <1>5, <2>3 DEF label
    <3>2. Sound(w[p].r)'
      BY Zenon, <1>7, <3>1 DEF Sound, Runs, Same
    <3>3. Inspect.route = host'.route /\ Inspect.up = Up' /\ host'.cand = host.cand
      BY Zenon, <1>3, <1>7 DEF Same
    <3> QED
      BY Zenon, <1>r, <1>7, <2>3, <3>1, <3>2, <3>3, DecideSession
  <2> QED
    BY Zenon, <2>1, <2>2, <2>3
<1> HIDE DEF next
<1>8. w' = [w EXCEPT ![p] = next]
  BY Zenon, <1>1 DEF next
<1>9. r.phase # "active" /\ w[p].pc \in Holding
  BY Zenon, <1>1 DEF Protocol, Knows, Stands, Holding
<1>10. Session(p) /\ Sound(w[p].r) /\ HostSound /\ Same(host) /\ Up' = Up => Session(p)'
  BY Zenon, <1>7, <1>9
<1> QED
  BY ZenonT(40), <1>r, <1>1, <1>6, <1>8, <1>9, <1>10, LookKeeps

LEMMA ReconcileAdoptKeeps ==
    ASSUME Ruled, Types, Types', Protocol, Content, NEW p \in Workers, NEW oc \in Outcomes,
           ReconcileAdopt(p, oc)
    PROVE  Protocol' /\ Content' /\ Moves
<1> DEFINE r == w[p].r
<1>r. HasRule /\ ~Node /\ ~Guarded
  BY Zenon DEF Ruled
<1>t. /\ w[p] \in Worker /\ r \in Record /\ r.pend \in Ids /\ r.priorInst \in Ids
      /\ r.img \in AnyImage /\ r.priorImg \in AnyImage /\ r.hist \in Revision
      /\ w[p].obs.cand \in Ids /\ host \in Host /\ rec \in Record
  BY Zenon, WorkerTypes DEF Types
<1> DEFINE value == [r EXCEPT !.pend = w[p].obs.cand]
<1>1. /\ value \in Record /\ value.phase = r.phase /\ value.inst = r.inst
      /\ value.pend = w[p].obs.cand /\ value.img = r.img /\ value.priorInst = r.priorInst
      /\ value.priorImg = r.priorImg /\ value.hist = r.hist
  BY Zenon, <1>t DEF Record
<1>2. /\ CompareAndSwap(p, value, oc) /\ UNCHANGED host /\ w[p].pc = "adopt"
      /\ IF oc = "ok" THEN Wrote(p, Decide(rec', w[p].obs)) ELSE Finish(p)
  BY Zenon DEF ReconcileAdopt, At
<1> HIDE DEF value
<1>3. w[p].pc \in Holding \ FirstCall
  BY Zenon, <1>2 DEF Holding, FirstCall
<1>4. r.phase # "active"
  BY Zenon, <1>3 DEF Protocol, Knows, Stands
<1>5. ASSUME Session(p), Sound(r), HostSound PROVE Sound(value)
  <2>1. /\ r.pend = 0 /\ w[p].obs.cand = host.cand /\ host.cand # 0
        /\ host.cand \notin host.served /\ host.img[host.cand] = r.img
    BY Zenon, <1>2, <1>5 DEF Session, HostSound, Sound
  <2>2. host.cand \in Insts /\ host.route # 0
    BY Zenon, <1>5, <2>1, InstIds DEF HostSound, Up
  <2>3. Runs(host.cand, r.img)
    BY Zenon, <2>1 DEF Runs
  <2> QED
    BY Zenon, <1>1, <1>4, <1>5, <2>1, <2>2, <2>3 DEF Sound
<1>6. CASE oc # "ok"
  BY Zenon, <1>r, <1>1, <1>2, <1>3, <1>5, <1>6, SwapEnds
<1>7. CASE oc = "ok"
  <2> DEFINE label == Decide(rec', w[p].obs)
  <2>1. label \in Holding \ {"pull", "histCut", "seed", "tombstone"}
    BY <1>r, Decisions DEF Holding
  <2>2. ASSUME Session(p), Sound(r), HostSound, Up' = Up, w'[p].pc = label,
               w'[p].r.pend = value.pend, w'[p].r.inst = value.inst, w'[p].r.img = value.img,
               w'[p].r.priorInst = value.priorInst, w'[p].r.priorImg = value.priorImg,
               w'[p].r.hist = value.hist, w'[p].r.phase = value.phase
        PROVE  Session(p)'
    <3>1. w'[p].r = rec'
      BY Zenon, <1>2, <1>7, WroteFields
    <3>2. Sound(w[p].r)'
      BY Zenon, <1>2, <1>5, <2>2 DEF Sound, Runs
    <3>3. /\ w[p].obs.route = host'.route /\ w[p].obs.up = Up' /\ w'[p].r.pend # 0
          /\ w'[p].r.phase # "active"
      BY Zenon, <1>1, <1>2, <1>4, <2>2 DEF Session
    <3> QED
      BY Zenon, <1>r, <2>2, <3>1, <3>2, <3>3, DecideSession
  <2>3. IF oc = "ok" THEN Wrote(p, label) ELSE Finish(p)
    BY Zenon, <1>2
  <2> HIDE DEF label
  <2> QED
    BY ZenonT(40), <1>r, <1>1, <1>2, <1>3, <1>4, <1>5, <2>1, <2>2, <2>3, SwapGoesOn
<1> QED
  BY Zenon, <1>6, <1>7

LEMMA ReconcileDrainKeeps ==
    ASSUME Ruled, Types, Types', Protocol, Content, NEW p \in Workers, NEW oc \in Outcomes,
           ReconcileDrain(p, oc)
    PROVE  Protocol' /\ Content' /\ Moves
<1> DEFINE r == w[p].r
<1>r. HasRule /\ ~Node /\ ~Guarded
  BY Zenon DEF Ruled
<1>t. /\ w[p] \in Worker /\ r \in Record /\ r.pend \in Ids /\ r.priorInst \in Ids
      /\ r.img \in AnyImage /\ r.priorImg \in AnyImage /\ r.hist \in Revision
      /\ w[p].obs.cand \in Ids /\ host \in Host /\ rec \in Record
  BY Zenon, WorkerTypes DEF Types
<1>1. PICK label \in {"confirm", "release"} : Goto(p, label)
  BY Zenon DEF ReconcileDrain
<1>2. Call(p, Drain(r.priorInst), oc) /\ UNCHANGED <<rec, fences>> /\ w[p].pc = "redrain"
  BY Zenon DEF ReconcileDrain, At
<1>3. label \in Holding \ (FirstCall \cup {"seed", "tombstone"}) /\ w[p].pc \in Holding
  BY Zenon, <1>2 DEF Holding, FirstCall
<1>4. ASSUME w'[p].pc = label PROVE Session(p)'
  BY Zenon, <1>4 DEF Session, RollingBackLabels
<1>5. ASSUME Sound(r), r.phase # "active" PROVE r.priorInst = r.inst
  BY Zenon, <1>5 DEF Sound
<1> QED
  BY Zenon, <1>r, <1>t, <1>1, <1>2, <1>3, <1>4, <1>5, DrainGoesOn

LEMMA ReconcileConfirmKeeps ==
    ASSUME Ruled, Types, Types', Protocol, Content, NEW p \in Workers, NEW oc \in Outcomes,
           ReconcileConfirm(p, oc)
    PROVE  Protocol' /\ Content' /\ Moves
<1> DEFINE r == w[p].r
<1>r. HasRule /\ ~Node /\ ~Guarded
  BY Zenon DEF Ruled
<1>1. PICK label \in {"complete", "release"} :
        Goto(p, label) /\ (label = "complete" => CutOverComplete(Inspect.route, r.pend))
  BY Zenon DEF ReconcileConfirm
<1>2. Call(p, host, oc) /\ UNCHANGED <<rec, fences>> /\ w[p].pc = "confirm"
  BY Zenon DEF ReconcileConfirm, At
<1>3. label \in Holding \ (FirstCall \cup {"seed", "tombstone"}) /\ w[p].pc \in Holding
  BY Zenon, <1>2 DEF Holding, FirstCall
<1>4. ASSUME Same(host), w'[p].pc = label, w'[p].r = r PROVE Session(p)'
  <2>1. label = "complete" => host'.route = r.pend
    BY Zenon, <1>r, <1>1, <1>4 DEF CutOverComplete, Inspect, Same
  <2> QED
    BY Zenon, <1>4, <2>1 DEF Session, RollingBackLabels
<1> QED
  BY Zenon, <1>r, <1>1, <1>2, <1>3, <1>4, LookGoesOn

LEMMA ReconcileCompleteKeeps ==
    ASSUME Ruled, Types, Types', Protocol, Content, NEW p \in Workers, NEW oc \in Outcomes,
           ReconcileComplete(p, oc)
    PROVE  Protocol' /\ Content' /\ Moves
<1> DEFINE r == w[p].r
<1>r. HasRule /\ ~Node /\ ~Guarded
  BY Zenon DEF Ruled
<1>t. /\ w[p] \in Worker /\ r \in Record /\ r.pend \in Ids /\ r.priorInst \in Ids
      /\ r.img \in AnyImage /\ r.priorImg \in AnyImage /\ r.hist \in Revision
      /\ w[p].obs.cand \in Ids /\ host \in Host /\ rec \in Record
  BY Zenon, WorkerTypes DEF Types
<1> DEFINE value == Active(r.pend, r.img, PublishedHistory(r))
<1>1. CompareAndSwap(p, value, oc) /\ Finish(p) /\ UNCHANGED host /\ w[p].pc = "complete"
  BY Zenon DEF ReconcileComplete, At
<1>2. ASSUME Session(p), Sound(r), HostSound, r.phase # "active" PROVE Sound(value)
  <2>1. host.route = r.pend
    BY Zenon, <1>1, <1>2 DEF Session
  <2> QED
    BY Zenon, <1>t, <1>2, <2>1, CompleteSound
<1>3. value \in Record
  BY Zenon, <1>t, ActiveTypes, HistoryTypes
<1> HIDE DEF value
<1>4. w[p].pc \in Holding \ FirstCall
  BY Zenon, <1>1 DEF Holding, FirstCall
<1> QED
  BY Zenon, <1>r, <1>1, <1>2, <1>3, <1>4, SwapEnds

LEMMA ReconcileRecutKeeps ==
    ASSUME Ruled, Types, Types', Protocol, Content, NEW p \in Workers, NEW oc \in Outcomes,
           ReconcileRecut(p, oc)
    PROVE  Protocol' /\ Content' /\ Moves
<1> DEFINE r == w[p].r
<1>r. HasRule /\ ~Node /\ ~Guarded
  BY Zenon DEF Ruled
<1>t. /\ w[p] \in Worker /\ r \in Record /\ r.pend \in Ids /\ r.priorInst \in Ids
      /\ r.img \in AnyImage /\ r.priorImg \in AnyImage /\ r.hist \in Revision
      /\ w[p].obs.cand \in Ids /\ host \in Host /\ rec \in Record
  BY Zenon, WorkerTypes DEF Types
<1>1. PICK label \in {"release", "histRestore", "cleanup", "settle"} :
        /\ Goto(p, label)
        /\ label # "release" => oc = "ok"
        /\ label = "histRestore" => HistoricalRollbackPending(r)
        /\ label = "cleanup" => ~HistoricalRollbackPending(r) /\ r.pend \in w[p].obs.up
  BY Zenon DEF ReconcileRecut
<1>2. CallIf(p, r.priorInst \in Up, Cut(r.priorInst), oc) /\ UNCHANGED <<rec, fences>>
      /\ w[p].pc = "recut"
  BY Zenon, <1>r DEF ReconcileRecut, At, CallCutover, Cut
<1>3. label \in Holding \ (FirstCall \cup {"seed", "tombstone"}) /\ w[p].pc \in Holding
  BY Zenon, <1>2 DEF Holding, FirstCall
<1>4. ASSUME Session(p), HostSound, Sound(r), r.phase # "active",
             host'.route = (IF oc = "fail" THEN host.route ELSE r.priorInst),
             host'.cand = (IF oc # "fail" /\ host.cand = r.priorInst THEN 0 ELSE host.cand),
             w'[p].pc = label, w'[p].r = r
      PROVE  Session(p)'
  <2>1. label # "release" => host'.route = r.priorInst /\ (r.pend = 0 => host'.cand = 0)
    BY Zenon, <1>1, <1>2, <1>4 DEF Session
  <2>2. ASSUME label = "cleanup" PROVE r.pend \in Insts /\ r.pend # r.hist.inst
    <3>1. r.pend \in Insts
      BY Zenon, <1>t, <1>1, <2>2 DEF Worker
    <3>2. r.pend # 0
      BY <3>1
    <3> QED
      BY Zenon, <1>1, <2>2, <3>1, <3>2 DEF HistoricalRollbackPending
  <2> QED
    BY Zenon, <1>1, <1>4, <2>1, <2>2 DEF Session, RollingBackLabels
<1>5. ASSUME Sound(r), r.phase # "active" PROVE r.priorInst \in {r.inst, r.hist.inst, r.pend}
  BY Zenon, <1>5 DEF Sound
<1> QED
  BY Zenon, <1>r, <1>t, <1>1, <1>2, <1>3, <1>4, <1>5, CutGoesOn

LEMMA ReconcileCleanupKeeps ==
    ASSUME Ruled, Types, Types', Protocol, Content, NEW p \in Workers, NEW oc \in Outcomes,
           ReconcileCleanup(p, oc)
    PROVE  Protocol' /\ Content' /\ Moves
<1> DEFINE r == w[p].r
<1>r. HasRule /\ ~Node /\ ~Guarded
  BY Zenon DEF Ruled
<1>t. /\ w[p] \in Worker /\ r \in Record /\ r.pend \in Ids /\ r.priorInst \in Ids
      /\ r.img \in AnyImage /\ r.priorImg \in AnyImage /\ r.hist \in Revision
      /\ w[p].obs.cand \in Ids /\ host \in Host /\ rec \in Record
  BY Zenon, WorkerTypes DEF Types
<1> DEFINE value == [r EXCEPT !.phase = "cleanup-pending"]
<1>1. /\ value \in Record /\ value.phase = "cleanup-pending" /\ value.inst = r.inst
      /\ value.pend = r.pend /\ value.img = r.img /\ value.priorInst = r.priorInst
      /\ value.priorImg = r.priorImg /\ value.hist = r.hist
  BY Zenon, <1>t DEF Record
<1>2. /\ CompareAndSwap(p, value, oc) /\ UNCHANGED host /\ w[p].pc = "cleanup"
      /\ IF oc = "ok" THEN Wrote(p, "remove") ELSE Finish(p)
  BY Zenon DEF ReconcileCleanup, At
<1> HIDE DEF value
<1>3. /\ "remove" \in Holding \ {"pull", "histCut", "seed", "tombstone"}
      /\ w[p].pc \in Holding \ FirstCall
  BY Zenon, <1>2 DEF Holding, FirstCall
<1>4. ASSUME Sound(r), r.phase # "active" PROVE Sound(value)
  BY Zenon, <1>1, <1>4 DEF Sound
<1>5. ASSUME Session(p), w'[p].pc = "remove", w'[p].r.pend = value.pend,
             w'[p].r.priorInst = value.priorInst, w'[p].r.hist = value.hist
      PROVE  Session(p)'
  BY Zenon, <1>1, <1>2, <1>5 DEF Session, RollingBackLabels
<1> QED
  BY ZenonT(40), <1>r, <1>1, <1>2, <1>3, <1>4, <1>5, SwapGoesOn

LEMMA ReconcileRemoveKeeps ==
    ASSUME Ruled, Types, Types', Protocol, Content, NEW p \in Workers, NEW oc \in Outcomes,
           ReconcileRemove(p, oc)
    PROVE  Protocol' /\ Content' /\ Moves
<1> DEFINE r == w[p].r
<1>r. HasRule /\ ~Node /\ ~Guarded
  BY Zenon DEF Ruled
<1>t. /\ w[p] \in Worker /\ r \in Record /\ r.pend \in Ids /\ r.priorInst \in Ids
      /\ r.img \in AnyImage /\ r.priorImg \in AnyImage /\ r.hist \in Revision
      /\ w[p].obs.cand \in Ids /\ host \in Host /\ rec \in Record
  BY Zenon, WorkerTypes DEF Types
<1>1. PICK label \in {"settle", "release"} : Goto(p, label)
  BY Zenon DEF ReconcileRemove
<1>2. /\ CallIf(p, TRUE, Remove(r.pend), oc) /\ UNCHANGED <<rec, fences>> /\ w[p].pc = "remove"
  BY Zenon DEF ReconcileRemove, Call, At
<1>3. Remove(r.pend) \in Host /\ Remove(r.pend).fence = host.fence
  <2>1. Remove(r.pend) \in Host
    BY Zenon, <1>t, EffectTypes
  <2> QED
    BY Zenon, <1>t, <2>1, EffectFence
<1>4. label \in Holding \ (FirstCall \cup {"seed", "tombstone"}) /\ w[p].pc \in Holding
      /\ label \in PreLease \cup Holding
  BY Zenon, <1>2 DEF Holding, FirstCall
<1>5. w'[p].pc = label /\ w'[p].r = r
  BY Zenon, <1>1, <1>4, GotoFields
<1>6. (oc = "fail" => Same(host)) /\ (oc # "fail" => Same(Remove(r.pend)))
  BY Zenon, <1>r, <1>2, <1>3, CallEffect
<1>7. ASSUME Accepts(p)
      PROVE  /\ HostSound' /\ Sound(rec)' /\ Session(p)'
             /\ {rec.inst, rec.hist.inst} \cap Up \subseteq Up'
  <2>1. /\ Session(p) /\ Sound(r) /\ Sound(rec) /\ HostSound /\ r.phase # "active"
        /\ rec.inst = r.inst /\ rec.hist = r.hist
    BY Zenon, <1>r, <1>4, <1>7, CallStarts
  <2>2. host.route = r.priorInst /\ r.pend \in Insts /\ r.pend # r.hist.inst
    BY Zenon, <1>2, <2>1 DEF Session
  <2>3. r.pend # 0
    BY <2>2
  <2>4. r.pend # r.inst /\ r.inst = r.priorInst
    BY Zenon, <2>1, <2>3 DEF Sound
  <2>5. Session(p)'
    BY Zenon, <1>5, <2>3 DEF Session, RollingBackLabels
  <2>6. CASE oc = "fail"
    BY Zenon, <1>t, <1>2, <1>6, <2>1, <2>5, <2>6, Unmoved
  <2>7. CASE oc # "fail"
    <3>1. HostSound' /\ Up' = Up \ {r.pend} /\ Sound(rec)'
      BY Zenon, <1>r, <1>t, <1>2, <1>6, <2>1, <2>2, <2>4, <2>7, RemoveSound
    <3> QED
      BY Zenon, <2>1, <2>2, <2>4, <2>5, <3>1
  <2> QED
    BY Zenon, <2>6, <2>7
<1> QED
  BY Zenon, <1>r, <1>1, <1>2, <1>3, <1>4, <1>7, GotoKeeps

LEMMA ReconcileSettleKeeps ==
    ASSUME Ruled, Types, Types', Protocol, Content, NEW p \in Workers, NEW oc \in Outcomes,
           ReconcileSettle(p, oc)
    PROVE  Protocol' /\ Content' /\ Moves
<1> DEFINE r == w[p].r
<1>r. HasRule /\ ~Node /\ ~Guarded
  BY Zenon DEF Ruled
<1>1. PICK label \in {"release", "tombstone", "restore"} :
        /\ Goto(p, label)
        /\ label # "release" => oc = "ok" /\ r.pend \notin Inspect.up
        /\ label = "restore" /\ r.priorInst # 0 => CutOverComplete(Inspect.route, r.priorInst)
        /\ label = "tombstone" => r.priorInst = 0 /\ r.priorImg = NoImage
  BY Zenon DEF ReconcileSettle
<1>2. Call(p, host, oc) /\ UNCHANGED <<rec, fences>> /\ w[p].pc = "settle"
  BY Zenon DEF ReconcileSettle, At
<1>3. w[p].pc \in Holding
  BY Zenon, <1>2 DEF Holding
<1>4. label \in Holding \ (FirstCall \cup {"seed", "tombstone"})
  <2>1. label # "tombstone"
    BY Zenon, <1>1, <1>3, ImagesAssumption DEF Content, Reading
  <2> QED
    BY Zenon, <2>1 DEF Holding, FirstCall
<1>5. ASSUME Session(p), Sound(r), HostSound, Same(host), w'[p].pc = label, w'[p].r = r,
             r.phase # "active"
      PROVE  Session(p)'
  <2>1. ASSUME label = "restore" PROVE host.route = r.priorInst /\ host.cand = 0
    <3>1. r.priorInst # 0
      BY Zenon, <1>5, HostFields, InstIds DEF Sound
    <3>2. host.route = r.priorInst /\ r.pend \notin Up
      BY Zenon, <1>r, <1>1, <2>1, <3>1 DEF CutOverComplete, Inspect
    <3>3. host.cand # 0 => host.cand \in Up /\ r.pend # 0 /\ host.cand = r.pend
      BY Zenon, <1>2, <1>5 DEF Session, Sound, HostSound
    <3> QED
      BY Zenon, <3>2, <3>3
  <2> QED
    BY Zenon, <1>4, <1>5, <2>1 DEF Session, RollingBackLabels, Same
<1>6. r.phase # "active"
  BY Zenon, <1>3 DEF Protocol, Knows, Stands
<1> QED
  BY Zenon, <1>r, <1>1, <1>2, <1>3, <1>4, <1>5, <1>6, LookGoesOn

LEMMA ReconcileRestoreKeeps ==
    ASSUME Ruled, Types, Types', Protocol, Content, NEW p \in Workers, NEW oc \in Outcomes,
           ReconcileRestore(p, oc)
    PROVE  Protocol' /\ Content' /\ Moves
<1> DEFINE r == w[p].r
<1>r. HasRule /\ ~Node /\ ~Guarded
  BY Zenon DEF Ruled
<1>t. /\ w[p] \in Worker /\ r \in Record /\ r.pend \in Ids /\ r.priorInst \in Ids
      /\ r.img \in AnyImage /\ r.priorImg \in AnyImage /\ r.hist \in Revision
      /\ w[p].obs.cand \in Ids /\ host \in Host /\ rec \in Record
  BY Zenon, WorkerTypes DEF Types
<1> DEFINE value == Active(r.priorInst, r.priorImg, r.hist)
<1>1. CompareAndSwap(p, value, oc) /\ Finish(p) /\ UNCHANGED host /\ w[p].pc = "restore"
  BY Zenon DEF ReconcileRestore, At
<1>2. /\ value \in Record /\ value.phase = "active" /\ value.inst = r.priorInst /\ value.pend = 0
      /\ value.img = r.priorImg /\ value.priorInst = 0 /\ value.hist = r.hist
  <2>1. r.priorInst \in Ids /\ r.priorImg \in AnyImage /\ r.hist \in Revision
    BY Zenon, <1>t
  <2>2. IsActive(value, r.priorInst, r.priorImg, r.hist)
    BY Zenon, <2>1, ActiveFields
  <2> HIDE DEF value
  <2> QED
    BY Zenon, <2>2 DEF IsActive
<1> HIDE DEF value
<1>3. ASSUME Session(p), Sound(r), r.phase # "active" PROVE Sound(value)
  <2>1. host.route = r.priorInst /\ host.cand = 0
    BY Zenon, <1>1, <1>3 DEF Session
  <2> QED
    BY Zenon, <1>2, <1>3, <2>1 DEF Sound
<1>4. w[p].pc \in Holding \ FirstCall
  BY Zenon, <1>1 DEF Holding, FirstCall
<1> QED
  BY Zenon, <1>r, <1>1, <1>2, <1>3, <1>4, SwapEnds

LEMMA ReleaseKeeps ==
    ASSUME Ruled, Types, Types', Protocol, Content, NEW p \in Workers, NEW oc \in Outcomes,
           Release(p, oc)
    PROVE  Protocol' /\ Content' /\ Moves
<1> DEFINE r == w[p].r
<1>r. HasRule /\ ~Node /\ ~Guarded
  BY Zenon DEF Ruled
<1>t. /\ w[p] \in Worker /\ r \in Record /\ r.pend \in Ids /\ r.priorInst \in Ids
      /\ r.img \in AnyImage /\ r.priorImg \in AnyImage /\ r.hist \in Revision
      /\ w[p].obs.cand \in Ids /\ host \in Host /\ rec \in Record
  BY Zenon, WorkerTypes DEF Types
<1> DEFINE value == [r EXCEPT !.lease = "none"]
<1>1. /\ value \in Record /\ value.phase = r.phase /\ value.inst = r.inst
      /\ value.pend = r.pend /\ value.img = r.img /\ value.priorInst = r.priorInst
      /\ value.priorImg = r.priorImg /\ value.hist = r.hist
  BY Zenon, <1>t DEF Record
<1>2. CompareAndSwap(p, value, oc) /\ UNCHANGED host /\ w[p].pc = "release" /\ Finish(p)
  BY Zenon DEF Release, At
<1> HIDE DEF value
<1>3. w[p].pc \in Holding \ FirstCall
  BY Zenon, <1>2 DEF Holding, FirstCall
<1>4. ASSUME Sound(r) PROVE Sound(value)
  BY Zenon, <1>1, <1>4 DEF Sound
<1> QED
  BY Zenon, <1>r, <1>1, <1>2, <1>3, <1>4, SwapEnds

LEMMA HistoricalRestoreKeeps ==
    ASSUME Ruled, Types, Types', Protocol, Content, NEW p \in Workers, NEW oc \in Outcomes,
           HistoricalRestore(p, oc)
    PROVE  Protocol' /\ Content' /\ Moves
<1> DEFINE r == w[p].r
<1>r. HasRule /\ ~Node /\ ~Guarded
  BY Zenon DEF Ruled
<1>t. /\ w[p] \in Worker /\ r \in Record /\ r.pend \in Ids /\ r.priorInst \in Ids
      /\ r.img \in AnyImage /\ r.priorImg \in AnyImage /\ r.hist \in Revision
      /\ w[p].obs.cand \in Ids /\ host \in Host /\ rec \in Record
  BY Zenon, WorkerTypes DEF Types
<1> DEFINE gone == [r.hist EXCEPT !.inst = 0]
<1>1. gone \in Revision /\ gone.inst = 0 /\ gone.img = r.hist.img
  BY <1>t DEF Revision
<1>2. PICK hist \in {r.hist, gone} : CompareAndSwap(p, Active(r.priorInst, r.priorImg, hist), oc)
  BY Zenon DEF HistoricalRestore
<1> HIDE DEF gone
<1>3. hist \in Revision /\ hist.img = r.hist.img /\ hist.inst \in {0, r.hist.inst}
  BY Zenon, <1>t, <1>1
<1> DEFINE value == Active(r.priorInst, r.priorImg, hist)
<1>4. /\ value \in Record /\ value.phase = "active" /\ value.inst = r.priorInst /\ value.pend = 0
      /\ value.img = r.priorImg /\ value.priorInst = 0 /\ value.hist = hist
  <2>1. r.priorInst \in Ids /\ r.priorImg \in AnyImage
    BY Zenon, <1>t
  <2>2. hist \in Revision
    BY Zenon, <1>3
  <2>3. IsActive(value, r.priorInst, r.priorImg, hist)
    BY Zenon, <2>1, <2>2, ActiveFields
  <2> HIDE DEF value
  <2> QED
    BY Zenon, <2>3 DEF IsActive
<1>5. CompareAndSwap(p, value, oc) /\ Finish(p) /\ UNCHANGED host /\ w[p].pc = "histRestore"
  BY Zenon, <1>2 DEF HistoricalRestore, At
<1> HIDE DEF value
<1>6. ASSUME Session(p), Sound(r), HostSound, r.phase # "active" PROVE Sound(value)
  <2>1. host.route = r.priorInst /\ HistoricalRollbackPending(r)
    BY Zenon, <1>5, <1>6 DEF Session
  <2>2. r.hist.inst # 0 /\ r.pend = r.hist.inst /\ r.hist.inst \in host.served
    BY Zenon, <1>6, <2>1 DEF HistoricalRollbackPending, Sound
  <2>3. r.hist.img \in Images
    <3>1. r.hist = NoRev \/ r.hist.img \in Images
      BY Zenon, <1>6 DEF Sound
    <3>2. NoRev.inst = 0
      BY Zenon DEF NoRev
    <3> QED
      BY Zenon, <2>2, <3>1, <3>2
  <2>4. host.cand = 0
    BY Zenon, <1>6, <2>2 DEF Sound, HostSound
  <2> QED
    BY Zenon, <1>3, <1>4, <1>6, <2>1, <2>2, <2>3, <2>4 DEF Sound
<1>7. w[p].pc \in Holding \ FirstCall
  BY Zenon, <1>5 DEF Holding, FirstCall
<1> QED
  BY Zenon, <1>r, <1>4, <1>5, <1>6, <1>7, SwapEnds

LEMMA ReconcilingKeeps ==
    ASSUME Ruled, Types, Types', Protocol, Content, NEW p \in Workers, NEW oc \in Outcomes,
           Reconciling(p, oc)
    PROVE  Protocol' /\ Content' /\ Moves
<1>12. CASE ReconcileTombstone(p, oc)
  BY Zenon, <1>12 DEF ReconcileTombstone, At, Protocol, Knows, Stands
<1> QED
  BY Zenon, ReconcileLeaseKeeps, ReconcileInspectKeeps, ReconcileAdoptKeeps, ReconcileDrainKeeps,
     ReconcileConfirmKeeps, ReconcileCompleteKeeps, ReconcileRecutKeeps, ReconcileCleanupKeeps,
     ReconcileRemoveKeeps, ReconcileSettleKeeps, ReconcileRestoreKeeps, <1>12, ReleaseKeeps,
     HistoricalRestoreKeeps
  DEF Reconciling

-----------------------------------------------------------------------------
(* The observer's digests, and the beginning of operations.                *)

LEMMA RememberingKeeps ==
    ASSUME Ruled, Types, Types', Protocol, Content, NEW p \in Workers, NEW oc \in Outcomes,
           Remembering(p, oc)
    PROVE  Protocol' /\ Content' /\ Moves
<1>r. ~Node
  BY Zenon DEF Ruled
<1>1. Knows(p) /\ Sound(rec)
  BY Zenon DEF Protocol, Content
<1>2. Remember(p, oc)
  BY Zenon, <1>1 DEF Remembering, SeedLease, Seed, At, Knows, Stands
<1>3. /\ CompareAndSwap(p, w[p].r, oc) /\ w[p].pc = "remember" /\ UNCHANGED host
      /\ w' = [w EXCEPT ![p] = IdleWorker]
  BY Zenon, <1>2 DEF Remember, At, Finish, Become
<1>4. w[p].r \in Record /\ w[p].r.phase = "active"
  BY Zenon, <1>1, <1>3, Numbers DEF Knows, Stands, PreLease
<1>5. rec = w[p].r => Sound(w[p].r)
  BY Zenon, <1>1
<1> QED
  BY Zenon, <1>r, <1>3, <1>4, <1>5, EmptyTypes, SwapKeeps

\* What an operation starts with.
LEMMA BegunFields ==
    ASSUME Types, NEW label \in PreLease, NEW image \in AnyImage
    PROVE  /\ Begun(label, image).r = rec /\ Begun(label, image).img = image
           /\ Begun(label, image).pend = 0 /\ BegunBare(label).r = rec
           /\ BegunBack(label, image).r = rec /\ BegunBack(label, image).img = image
           /\ BegunBack(label, image).orig = rec
<1>1. IdleWorker \in Worker /\ IdleWorker.pend = 0
  BY Zenon, EmptyTypes DEF IdleWorker
<1> QED
  BY Zenon, <1>1 DEF Worker, Begun, BegunBare, BegunBack

LEMMA BeginningKeeps ==
    ASSUME Ruled, Types, Types', Protocol, Content, NEW p \in Workers,
           \/ BeginReconcile(p) \/ BeginRollback(p) \/ RollbackRepublish(p) \/ GuardStops(p)
           \/ \E image \in Images : BeginPublish(p, image) \/ BeginRemember(p, image)
    PROVE  Protocol' /\ Content' /\ Moves
<1>r. ~Node /\ ~Guarded
  BY Zenon DEF Ruled
<1>1. rec.ver > 0 /\ rec \in Record /\ Sound(rec) /\ Reading(p)
  BY Zenon DEF Protocol, Content, Types
<1>2. ~Busy(rec) => rec.phase = "active" /\ rec.lease # "held"
  BY Zenon, <1>1 DEF Busy
<1>3. ASSUME NEW next \in Worker, w' = [w EXCEPT ![p] = next] PROVE w'[p] = next
  BY Zenon, <1>3 DEF Types
<1>4. CASE BeginReconcile(p)
  <2> DEFINE next == BegunBare("takeover")
  <2>1. "takeover" \in PreLease /\ NoImage \in AnyImage
    BY Zenon DEF PreLease
  <2>2. next \in Worker /\ next.pc = "takeover" /\ next.r = rec
    BY Zenon, <2>1, BegunTypes, BegunFields
  <2>3. /\ w' = [w EXCEPT ![p] = next] /\ rec.phase # "active" /\ rec.lease # "held"
        /\ UNCHANGED <<rec, fences, host>>
    BY Zenon, <1>4 DEF BeginReconcile, BegunBare, Become
  <2> HIDE DEF next
  <2> QED
    BY Zenon, <1>r, <2>2, <2>3, LocalKeeps
<1>5. CASE BeginRollback(p)
  <2> DEFINE label == IF rec.hist.inst = 0 THEN "republish" ELSE "histInspect"
             next == BegunBack(label, rec.hist.img)
  <2>1. label \in PreLease \ {"takeover", "seedLease"} /\ label \notin Holding
    BY Zenon DEF PreLease, Holding
  <2>2. /\ w' = [w EXCEPT ![p] = next] /\ rec.phase = "active" /\ rec.lease # "held"
        /\ rec.hist # NoRev /\ UNCHANGED <<rec, fences, host>>
    BY Zenon, <1>2, <1>5 DEF BeginRollback, BegunBack, Become
  <2>3. rec.hist.img \in Images
    BY Zenon, <1>1, <2>2 DEF Sound
  <2> HIDE DEF label
  <2>4. /\ next \in Worker /\ next.pc = label /\ next.r = rec /\ next.img = rec.hist.img
        /\ next.orig = rec
    <3>1. label \in PreLease /\ rec.hist.img \in AnyImage
      BY Zenon, <2>1, <2>3
    <3>2. next \in Worker /\ next.pc = label
      BY Zenon, <3>1, BegunTypes
    <3>3. next.r = rec /\ next.img = rec.hist.img /\ next.orig = rec
      BY Zenon, <3>1, BegunFields
    <3> QED
      BY Zenon, <3>2, <3>3
  <2> HIDE DEF next
  <2>5. w'[p] = next
    BY Zenon, <1>3, <2>2, <2>4
  <2>6. Reading(p)'
    BY Zenon, <2>1, <2>3, <2>4, <2>5 DEF Reading, label
  <2> QED
    BY Zenon, <1>r, <2>1, <2>2, <2>4, <2>6, LocalKeeps
<1>6. ASSUME NEW label \in {"lease", "remember"}, NEW image \in Images,
             w' = [w EXCEPT ![p] = Begun(label, image)],
             ~Busy(rec), UNCHANGED <<rec, fences, host>>
      PROVE  Protocol' /\ Content' /\ Moves
  <2> DEFINE next == Begun(label, image)
  <2>1. label \in PreLease \ {"takeover", "seedLease"} /\ label \notin Holding
    BY Zenon DEF PreLease, Holding
  <2>2. next \in Worker /\ next.pc = label /\ next.r = rec /\ next.img = image /\ next.pend = 0
    <3>1. label \in PreLease /\ image \in AnyImage
      BY Zenon, <2>1
    <3> QED
      BY Zenon, <3>1, BegunTypes, BegunFields
  <2>3. w' = [w EXCEPT ![p] = next]
    BY Zenon, <1>6
  <2> HIDE DEF next
  <2>4. w'[p] = next
    BY Zenon, <1>3, <2>2, <2>3
  <2>5. Reading(p)'
    BY Zenon, <2>1, <2>2, <2>4 DEF Reading
  <2> QED
    BY Zenon, <1>2, <1>6, <1>r, <2>1, <2>2, <2>3, <2>5, LocalKeeps
<1>7. CASE RollbackRepublish(p)
  <2>1. w[p].img \in Images /\ UNCHANGED <<rec, fences, host>>
    BY Zenon, <1>1, <1>7 DEF RollbackRepublish, At, Reading
  <2>2. CASE Busy(rec)
    <3>1. w' = [w EXCEPT ![p] = IdleWorker]
      BY Zenon, <1>7, <2>2 DEF RollbackRepublish, Finish, Become
    <3> QED
      BY Zenon, <1>r, <2>1, <3>1, EmptyTypes, LocalKeeps
  <2>3. CASE ~Busy(rec)
    BY Zenon, <1>6, <1>7, <2>1, <2>3 DEF RollbackRepublish, Begun, Become
  <2> QED
    BY Zenon, <2>2, <2>3
<1>8. ASSUME NEW image \in Images, BeginPublish(p, image) PROVE Protocol' /\ Content' /\ Moves
  BY Zenon, <1>6, <1>8 DEF BeginPublish, Begun, Become
<1>9. ASSUME NEW image \in Images, BeginRemember(p, image) PROVE Protocol' /\ Content' /\ Moves
  <2>1. /\ w' = [w EXCEPT ![p] = Begun("remember", image)]
        /\ ~Busy(rec) /\ UNCHANGED <<rec, fences, host>>
    <3>1. rec.ver # 0
      BY <1>1, Numbers
    <3> QED
      BY Zenon, <1>9, <3>1 DEF BeginRemember, Begun, Become
  <2> QED
    BY Zenon, <1>6, <2>1
<1> QED
  BY Zenon, <1>r, <1>4, <1>5, <1>7, <1>8, <1>9 DEF GuardStops

-----------------------------------------------------------------------------
(* The invariant and what follows from it.                                 *)

LEMMA RuledInit ==
    ASSUME Ruled, Init
    PROVE  Protocol /\ Content
<1>1. PICK image \in Images :
        /\ rec = [Empty EXCEPT !.ver = 1, !.fence = 1, !.phase = "active", !.inst = 1, !.img = image]
        /\ fences = 1
        /\ host = [img |-> [n \in Insts |-> IF n = 1 THEN image ELSE NoImage],
                   route |-> 1, cand |-> 0, fence |-> 1, drained |-> {}, served |-> {1}, last |-> 1]
  BY Zenon DEF Init, Ruled
<1>2. w = [p \in Workers |-> IdleWorker]
  BY Zenon DEF Init
<1>3. /\ rec.ver = 1 /\ rec.fence = 1 /\ rec.phase = "active" /\ rec.inst = 1 /\ rec.img = image
      /\ rec.pend = 0 /\ rec.priorInst = 0 /\ rec.hist = NoRev
  <2>1. Empty \in Record /\ Empty.pend = 0 /\ Empty.priorInst = 0 /\ Empty.hist = NoRev
    BY Zenon, EmptyTypes DEF Empty
  <2> QED
    BY Zenon, <1>1, <2>1 DEF Record
<1>4. IdleWorker.pc = "idle" /\ IdleWorker.r.ver = 0 /\ IdleWorker.r.fence = 0 /\ NoRev.inst = 0
  BY Zenon DEF IdleWorker, Empty, NoRev
<1>5. 1 \in Insts /\ image # NoImage /\ 0 \notin Insts
  BY ImagesAssumption
<1>6. Protocol
  <2>1. ASSUME NEW p \in Workers PROVE Knows(p)
    BY <1>1, <1>2, <1>3, <1>4 DEF Knows, Behind, Stands, Fenced, PreLease, Holding
  <2>2. ASSUME NEW p \in Workers, NEW q \in Workers PROVE Apart(p, q)
    BY Zenon, <1>2, <1>4 DEF Apart, Holding
  <2> QED
    BY <1>1, <1>3, <2>1, <2>2 DEF Protocol
<1>7. Up = {1}
  BY Zenon, <1>1, <1>5 DEF Up
<1>8. HostSound
  BY <1>1, <1>5, <1>7 DEF HostSound
<1>9. Sound(rec)
  BY <1>1, <1>3, <1>4, <1>5 DEF Sound, Runs
<1>10. ASSUME NEW p \in Workers PROVE Reading(p) /\ ~Holds(p)
  BY Zenon, <1>2, <1>4 DEF Reading, Holds, Holding
<1> QED
  BY Zenon, <1>6, <1>8, <1>9, <1>10 DEF Content

LEMMA RuledStep ==
    ASSUME Ruled, Types, Counted, Protocol, Content, [Next]_vars
    PROVE  Protocol' /\ Content' /\ Moves
<1>1. Types'
  BY Zenon, TypeStep
<1>2. CASE \E p \in Workers :
             \/ BeginReconcile(p) \/ BeginRollback(p) \/ RollbackRepublish(p) \/ GuardStops(p)
             \/ \E image \in Images : BeginPublish(p, image) \/ BeginRemember(p, image)
  BY Zenon, <1>1, <1>2, BeginningKeeps
<1>3. CASE \E p \in Workers, oc \in Outcomes :
             Publishing(p, oc) \/ Reconciling(p, oc) \/ RollingBack(p, oc) \/ Remembering(p, oc)
  BY Zenon, <1>1, <1>3, PublishingKeeps, ReconcilingKeeps, RollingBackKeeps, RememberingKeeps
<1>4. CASE ExpireLease \/ Crash \/ DrainedEnds \/ UNCHANGED vars
  BY Zenon, <1>1, <1>4, EnvironmentKeeps DEF Ruled
<1> QED
  BY Zenon, <1>2, <1>3, <1>4 DEF Next

LEMMA RuledInvariance ==
    ASSUME Ruled
    PROVE  Spec => [](Types /\ Counted /\ Protocol /\ Content) /\ [][Moves]_vars
<1>1. Init => Types /\ Counted /\ Protocol /\ Content
  BY Zenon, TypeInit, RuledInit
<1>2. Types /\ Counted /\ Protocol /\ Content /\ [Next]_vars =>
        Types' /\ Counted' /\ Protocol' /\ Content' /\ [Moves]_vars
  BY Zenon, TypeStep, RuledStep
<1> QED
  BY <1>1, <1>2, PTL DEF Spec

\* However publishes, reconciles and rollbacks of several workers interleave, fail half-way
\* or crash, the app's rule points at an instance that runs: Remove of reconcileRecord never
\* hits what serves, and Cutover never selects what is gone.
THEOREM RuleNeverDangles ==
    ASSUME Ruled
    PROVE  Spec => []RouteAlive
<1>1. Content => RouteAlive
  BY Zenon DEF Content, HostSound, RouteAlive
<1> QED
  BY <1>1, RuledInvariance, PTL

\* A record in phase "active" is true of the executor, whichever of the six writes that end
\* an operation made it so: its instance runs its image and has the rule, or a rollback
\* that was abandoned half-way left the rule on the history instance.
THEOREM ActiveRecordServes ==
    ASSUME Ruled
    PROVE  Spec => []ActiveServes
<1>1. Types /\ Content => ActiveServes
  <2> SUFFICES ASSUME Types, Content, rec.phase = "active", rec.inst # 0 PROVE ActiveServes
    BY Zenon DEF ActiveServes
  <2>1. HasRule /\ Sound(rec) /\ HostSound
    BY Zenon DEF Ruled, Content
  <2>2. /\ host.route \in Up /\ host.route \in {rec.inst, rec.hist.inst} /\ Runs(rec.inst, rec.img)
    BY Zenon, <2>1 DEF Sound, HostSound
  <2>3. host.route # 0
    BY <2>2 DEF Up
  <2>4. CASE host.route = rec.inst
    BY Zenon, <2>1, <2>2, <2>4 DEF ActiveServes, Runs, Up
  <2>5. CASE host.route = rec.hist.inst
    BY Zenon, <2>1, <2>3, <2>5 DEF ActiveServes
  <2> QED
    BY Zenon, <2>2, <2>4, <2>5
<1> QED
  BY <1>1, RuledInvariance, PTL

\* Once the record is settled and no operation is under way, nothing runs that the record
\* does not name and that has not served: the candidate of an outcome-unknown Start is
\* adopted and removed before the record becomes active again.
THEOREM NoCandidateLeaks ==
    ASSUME Ruled
    PROVE  Spec => []NoLeakedInstance
<1>1. Types /\ Protocol /\ Content => NoLeakedInstance
  <2> SUFFICES ASSUME Types, Protocol, Content, ~Busy(rec) PROVE NoLeakedInstance
    BY Zenon DEF NoLeakedInstance
  <2>1. rec.phase = "active" /\ Sound(rec) /\ HostSound
    BY Zenon DEF Protocol, Content, Busy
  <2>2. Up \subseteq host.served
    BY <2>1 DEF Sound, HostSound, Up
  <2> QED
    BY Zenon, <2>2 DEF NoLeakedInstance
<1> QED
  BY <1>1, RuledInvariance, PTL

\* While an operation is under way no step stops the recorded instance or the one a
\* rollback returns to.
THEOREM RecordedInstancesKept ==
    ASSUME Ruled
    PROVE  Spec => RecordedKept
<1>1. Moves => (~Quiet => {rec.inst, rec.hist.inst} \cap Up \subseteq Up')
  BY Zenon DEF Moves
<1> QED
  BY <1>1, RuledInvariance, PTL DEF RecordedKept

\* The fencing protocol between AcquireDeploymentLease and the executor: no step changes the
\* token of a lease that is held, and the token of a new lease is above every token the
\* executor has seen.
THEOREM FencedLeases ==
    ASSUME Ruled
    PROVE  Spec => [][LeaseExclusive /\ FencesIncrease]_vars
<1>1. Moves => LeaseExclusive /\ FencesIncrease
  BY Zenon DEF Moves
<1> QED
  BY <1>1, RuledInvariance, PTL
=============================================================================
