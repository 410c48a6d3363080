------------------------------- MODULE Rollout -------------------------------
(***************************************************************************)
(* The rollout of one docker app (plugins/docker-app/rollout.go): publish  *)
(* a new image beside the running instance, cut the HTTP rule over, drain  *)
(* the old instance; roll back on failure; reconcile what a crash or an    *)
(* outcome-unknown write left behind; roll back to the recorded history.   *)
(*                                                                         *)
(* Every call to the durable store and to the executor is one step of a    *)
(* worker (a request handler or the image observer), with an outcome oc:   *)
(*    "ok"    effect and success,    "fail"  error, no effect,             *)
(*    "late"  effect, but the caller sees an error.                        *)
(*                                                                         *)
(* An image stands for Image, Generation and ImageDigest together.  The    *)
(* RuleTarget of an active record is always its InstanceID, so the record  *)
(* keeps only the instance.  AvailableDigest, which a publish copies and   *)
(* the dashboard shows, is left out: any image may be published.           *)
(***************************************************************************)
EXTENDS Integers, FiniteSets

CONSTANTS
    Workers,    \* concurrent callers of the rollout
    Images,     \* images an operator or the observer may publish
    NoImage,
    HasRule,    \* the app has an HTTP rule; FALSE: compose-only
    Node,       \* TRUE: the executor is the node's compose handler; FALSE: the interface's contract
    Fresh,      \* a subset of BOOLEAN: may the app be not deployed at first, or published once
    Guarded,    \* publishes run under the image observer's persist guard
    MaxOps,     \* bound: operations begun; each starts and leases at most once
    MaxFaults,  \* bound: failed or late calls
    MaxCrashes  \* bound: controller crashes

ASSUME BoundsAssumption == {MaxOps, MaxFaults, MaxCrashes} \subseteq Nat

ASSUME WorkersAssumption == IsFiniteSet(Workers)

ASSUME ImagesAssumption == NoImage \notin Images

\* The node's executor serves the apps without a rule.
ASSUME NodeAssumption == Node => ~HasRule

Insts == 1 .. MaxOps + 1

NoRev == [inst |-> 0, img |-> NoImage]

\* A Deployment record.  ver = 0: there is none; inst = 0: no instance.
Empty ==
    [ver |-> 0, fence |-> 0, lease |-> "none", phase |-> "none", inst |-> 0, pend |-> 0,
     img |-> NoImage, priorInst |-> 0, priorImg |-> NoImage, hist |-> NoRev]

VARIABLES
    rec,      \* the durable record of the app
    fences,   \* the durable fence counter of the app
    host,     \* the executor: img of each instance (NoImage: not running), route, candidate
    w,        \* the workers: pc, last record read or written, local variables
    ops, faults, crashes

vars == <<rec, fences, host, w, ops, faults, crashes>>

NoObs == [route |-> 0, cand |-> 0, up |-> {}]

IdleWorker ==
    [pc |-> "idle", r |-> Empty, img |-> NoImage, pend |-> 0, obs |-> NoObs, orig |-> Empty]

Init ==
    /\ \/ /\ TRUE \in Fresh
          /\ rec = Empty /\ fences = 0
          /\ host = [img |-> [n \in Insts |-> NoImage], route |-> 0, cand |-> 0, fence |-> 0,
                     drained |-> {}, served |-> {}, last |-> 0]
       \/ \E image \in Images :
            /\ FALSE \in Fresh
            /\ rec = [Empty EXCEPT !.ver = 1, !.fence = 1, !.phase = "active", !.inst = 1, !.img = image]
            /\ fences = 1
            /\ host = [img |-> [n \in Insts |-> IF n = 1 THEN image ELSE NoImage],
                       route |-> IF HasRule THEN 1 ELSE 0,
                       cand |-> 0, fence |-> 1,
                       drained |-> {}, served |-> IF HasRule THEN {1} ELSE {}, last |-> 1]
    /\ w = [p \in Workers |-> IdleWorker]
    /\ ops = 0 /\ faults = 0 /\ crashes = 0

Outcomes == {"ok", "fail", "late"}

Fault(n) == faults + n <= MaxFaults /\ faults' = faults + n

-----------------------------------------------------------------------------
(* The durable store (deployment_persist.go): versioned records, a lease   *)
(* counter per app, compare-and-swap on version and fence.                 *)

Busy(record) == record.ver > 0 /\ (record.phase # "active" \/ record.lease = "held")

\* The write of value applies iff matches; a conflict, a failed put and a put whose
\* answer is lost all look alike to the caller.
Write(matches, value, oc) ==
    /\ oc # "fail" => matches
    /\ Fault(IF oc = "late" \/ (oc = "fail" /\ matches) THEN 1 ELSE 0)
    /\ rec' = IF oc = "fail" THEN rec ELSE value

\* Mutant: the counter is bumped again when the record is written.
AcquireLeaseTwice(p, value, oc) ==
    LET r == w[p].r IN
    /\ Write(rec.ver = r.ver,
             [value EXCEPT !.ver = r.ver + 1, !.fence = fences + 2, !.lease = "held"], oc)
    /\ fences' = IF oc = "fail" THEN fences ELSE fences + 2

\* Mutant: the counter is written back before it is incremented.
AcquireLeaseKept(p, value, oc) ==
    LET r == w[p].r IN
    /\ Write(rec.ver = r.ver,
             [value EXCEPT !.ver = r.ver + 1, !.fence = fences, !.lease = "held"], oc)
    /\ fences' = fences

\* A lease that is kept keeps its deadline, which may have passed.
CompareAndSwap(p, value, oc) ==
    LET r == w[p].r IN
    /\ Write(rec.ver = r.ver /\ rec.fence = r.fence,
             [value EXCEPT !.ver = r.ver + 1, !.fence = r.fence,
                           !.lease = IF @ = "held" THEN rec.lease ELSE @], oc)
    /\ fences' = fences

AcquireLease(p, value, oc) ==
    LET r == w[p].r IN
    /\ Write(rec.ver = r.ver,
             [value EXCEPT !.ver = r.ver + 1, !.fence = fences + 1, !.lease = "held"], oc)
    /\ fences' = IF oc = "fail" THEN fences ELSE fences + 1

\* Deletes the record and its fence counter.
DeleteCAS(p, oc) ==
    LET r == w[p].r IN
    /\ Write(rec.ver = r.ver /\ rec.fence = r.fence, Empty, oc)
    /\ fences' = IF oc = "fail" THEN fences ELSE 0

-----------------------------------------------------------------------------
(* The executor.  The contract rejects a fence below the highest it has    *)
(* seen; the node's compose handler ignores fences.                        *)

Accepts(p) == Node \/ w[p].r.fence >= host.fence

Up == {n \in Insts : host.img[n] # NoImage}

\* effect: the host record after the call; a call that is not able to do it fails.
CallIf(p, able, effect, oc) ==
    /\ oc # "fail" => Accepts(p) /\ able
    /\ Fault(IF oc = "late" \/ (oc = "fail" /\ Accepts(p) /\ able) THEN 1 ELSE 0)
    /\ host' = LET after == IF oc = "fail" THEN host ELSE effect
               IN  IF Accepts(p) /\ ~Node THEN [after EXCEPT !.fence = w[p].r.fence] ELSE after

Call(p, effect, oc) == CallIf(p, TRUE, effect, oc)

\* The node runs one compose project: its only instance is 1, started in place.
Start(image) ==
    LET n == IF Node THEN 1 ELSE host.last + 1
    IN  [host EXCEPT !.img[n] = image, !.cand = n, !.last = n, !.drained = @ \ {n}]

\* The rule is not pointed at an instance that does not run.
CallCutover(p, n, oc) ==
    IF HasRule
    THEN CallIf(p, n \in Up, [host EXCEPT !.route = n, !.served = @ \cup {n},
                                          !.drained = @ \ {n},
                                          !.cand = IF @ = n THEN 0 ELSE @], oc)
    ELSE Call(p, host, oc)

Drain(n) == IF Node THEN host ELSE [host EXCEPT !.drained = @ \cup ({n} \ {0})]

\* The node's "docker compose rm -f" removes stopped containers only.
Remove(n) ==
    IF Node THEN host
    ELSE [host EXCEPT !.img[n] = NoImage, !.cand = IF @ = n THEN 0 ELSE @, !.drained = @ \ {n}]

\* Mutant: the observed rule target is not compared.
CutOverAssumed(route, n) == TRUE

\* The node reports the app itself, whatever is running.
Inspect ==
    IF Node THEN [route |-> 0, cand |-> 1, up |-> {1}]
    ELSE [route |-> host.route, cand |-> host.cand, up |-> Up]

CutOverComplete(route, n) == ~HasRule \/ route = n

-----------------------------------------------------------------------------
(* Worker bookkeeping.                                                     *)

Become(p, next) == w' = [w EXCEPT ![p] = next]

Finish(p) == Become(p, IdleWorker)

\* A write succeeded: the worker continues at pc with the record it wrote.
Wrote(p, label) == Become(p, [w[p] EXCEPT !.pc = label, !.r = rec'])

Goto(p, label) == Become(p, [w[p] EXCEPT !.pc = label])

At(p, label) == w[p].pc = label

\* A request, or the observer's timer, starts an operation.
CanBegin(p) ==
    /\ At(p, "idle")
    /\ ops < MaxOps /\ ops' = ops + 1

-----------------------------------------------------------------------------
(* publish: every step persists its intent before the next effect.         *)

\* Load, admission; Update, AutoUpdate, ConfirmUpdate and HealthRecover start here.
BeginPublish(p, image) ==
    /\ CanBegin(p)
    /\ ~Busy(rec)
    /\ Become(p, [IdleWorker EXCEPT !.pc = "lease", !.r = rec, !.img = image])
    /\ UNCHANGED <<rec, fences, host, faults, crashes>>

\* The first durable intent, built from scratch.
PublishLease(p, oc) ==
    /\ At(p, "lease")
    /\ LET prior == w[p].r
       IN  AcquireLease(p, [Empty EXCEPT !.phase = "pulling", !.inst = prior.inst,
                              !.img = w[p].img, !.priorInst = prior.inst,
                              !.priorImg = prior.img, !.hist = prior.hist], oc)
    /\ IF oc = "ok" THEN Wrote(p, "pull") ELSE Finish(p)
    /\ UNCHANGED <<host, ops, crashes>>

PublishPull(p, oc) ==
    /\ At(p, "pull")
    /\ Call(p, host, oc)
    /\ Goto(p, IF oc = "ok" THEN "starting" ELSE "undo")
    /\ UNCHANGED <<rec, fences, ops, crashes>>

\* intent(): the record with the next phase and pending instance.
Intent(p, label, phase, next, oc) ==
    /\ At(p, label)
    /\ CompareAndSwap(p, [w[p].r EXCEPT !.phase = phase, !.pend = w[p].pend], oc)
    /\ IF oc = "ok" THEN Wrote(p, next) ELSE Finish(p)
    /\ UNCHANGED <<host, ops, crashes>>

IntentStarting(p, oc) == Intent(p, "starting", "starting", "start", oc)

IntentReadiness(p, oc) == Intent(p, "readiness", "readiness", "ready", oc)

IntentCutover(p, oc) == Intent(p, "cutover", "cutover", "cut", oc)

IntentDraining(p, oc) == Intent(p, "draining", "draining", "drain", oc)

\* A failed Start returns no instance, whether or not one was started.
PublishStart(p, oc) ==
    /\ At(p, "start")
    /\ Call(p, Start(w[p].img), oc)
    /\ IF oc = "ok" THEN Become(p, [w[p] EXCEPT !.pc = "readiness", !.pend = host'.last])
       ELSE Goto(p, "undo")
    /\ UNCHANGED <<rec, fences, ops, crashes>>

PublishReady(p, oc) ==
    /\ At(p, "ready")
    /\ Call(p, host, oc)
    /\ Goto(p, IF oc # "ok" THEN "undo" ELSE IF HasRule THEN "cutover" ELSE "draining")
    /\ UNCHANGED <<rec, fences, ops, crashes>>

PublishCutover(p, oc) ==
    /\ At(p, "cut")
    /\ CallCutover(p, w[p].pend, oc)
    /\ Goto(p, IF oc = "ok" THEN "draining" ELSE "undoRoute")
    /\ UNCHANGED <<rec, fences, ops, crashes>>

\* There is nothing to drain on a first install.
PublishDrain(p, oc) ==
    /\ At(p, "drain")
    /\ IF w[p].r.priorImg = NoImage THEN oc = "ok" /\ UNCHANGED <<host, faults>>
       ELSE Call(p, Drain(w[p].r.priorInst), oc)
    /\ Goto(p, IF oc = "ok" THEN "activate" ELSE "undoRoute")
    /\ UNCHANGED <<rec, fences, ops, crashes>>

\* publishedHistory: one revision, the one that was replaced.
PublishedHistory(r) ==
    IF r.priorInst = 0 /\ r.priorImg = NoImage THEN r.hist
    ELSE [inst |-> r.priorInst, img |-> r.priorImg]

Active(inst, image, hist) ==
    [Empty EXCEPT !.phase = "active", !.inst = inst, !.img = image, !.hist = hist]

PublishActivate(p, oc) ==
    /\ At(p, "activate")
    /\ LET r == w[p].r IN CompareAndSwap(p, Active(w[p].pend, r.img, PublishedHistory(r)), oc)
    /\ Finish(p)
    /\ UNCHANGED <<host, ops, crashes>>

\* requireObservationPersist failed before the first write: the catalog entry changed
\* under the observer.
GuardStops(p) ==
    /\ Guarded
    /\ w[p].pc \in {"lease", "remember", "seedLease"}
    /\ Finish(p)
    /\ UNCHANGED <<rec, fences, host, ops, faults, crashes>>

\* It failed later, or bindLiveCatalogApp did: the record is deleted.
AbandonStalePublish(p, oc) ==
    /\ Guarded
    /\ w[p].pc \in {"pull", "starting", "start", "drain", "activate"}
    /\ DeleteCAS(p, oc)
    /\ Finish(p)
    /\ UNCHANGED <<host, ops, crashes>>

\* rollback(): persist the failure, then reconcile the record just written.
PublishUndo(p, oc) ==
    /\ w[p].pc \in {"undo", "undoRoute"}
    /\ CompareAndSwap(p, [w[p].r EXCEPT
                            !.phase = IF At(p, "undo") THEN "cleanup-pending" ELSE "route-reconcile",
                            !.pend = w[p].pend], oc)
    /\ IF oc = "ok" THEN Wrote(p, "inspect") ELSE Finish(p)
    /\ UNCHANGED <<host, ops, crashes>>

-----------------------------------------------------------------------------
(* Reconcile and reconcileRecord: finish the new instance if it took over, *)
(* otherwise restore the prior one and remove the candidate.               *)

BeginReconcile(p) ==
    /\ CanBegin(p)
    /\ rec.ver > 0 /\ rec.phase # "active" /\ rec.lease # "held"
    /\ Become(p, [IdleWorker EXCEPT !.pc = "takeover", !.r = rec])
    /\ UNCHANGED <<rec, fences, host, faults, crashes>>

ReconcileLease(p, oc) ==
    /\ At(p, "takeover")
    /\ AcquireLease(p, w[p].r, oc)
    /\ IF oc = "ok" THEN Wrote(p, "inspect") ELSE Finish(p)
    /\ UNCHANGED <<host, ops, crashes>>

FinishNew(r, obs) ==
    /\ r.phase \in {"cutover", "draining"}
    /\ r.pend \in obs.up
    /\ CutOverComplete(obs.route, r.pend)

HistoricalRollbackPending(r) == r.pend # 0 /\ r.hist.inst = r.pend

\* Mutant: the candidate is cleaned up without looking at what it serves.
RestorePriorBlind(r, obs) == IF r.pend \in obs.up THEN "cleanup" ELSE "settle"

\* Where reconcileRecord goes once the new instance is not to be finished.
RestorePrior(r, obs) ==
    IF HistoricalRollbackPending(r)
    THEN IF r.priorInst \notin obs.up THEN "release"
         ELSE IF HasRule /\ obs.route # r.priorInst THEN "recut" ELSE "histRestore"
    ELSE IF \/ r.priorInst # 0 /\ r.priorInst \notin obs.up
            \/ r.priorInst = 0 /\ r.pend # 0 /\ obs.route = r.pend THEN "release"
    ELSE IF r.priorInst # 0 /\ ~CutOverComplete(obs.route, r.priorInst) THEN "recut"
    ELSE IF r.pend \in obs.up THEN "cleanup" ELSE "settle"

\* What reconcileRecord does with record r after observing obs.
Decide(r, obs) ==
    IF obs.route \notin {0, r.priorInst, r.pend} THEN "release"
    ELSE IF ~FinishNew(r, obs) THEN RestorePrior(r, obs)
    ELSE IF r.priorInst \in obs.up THEN "redrain" ELSE "confirm"

\* Mutant: the candidate of an unanswered Start is not adopted.
ReconcileInspectOnly(p, oc) ==
    /\ At(p, "inspect")
    /\ Call(p, host, oc)
    /\ IF oc = "ok" THEN Become(p, [w[p] EXCEPT !.pc = Decide(w[p].r, Inspect), !.obs = Inspect])
       ELSE Goto(p, "release")
    /\ UNCHANGED <<rec, fences, ops, crashes>>

\* An unknown pending instance is adopted from the inspection, durably.
ReconcileInspect(p, oc) ==
    /\ At(p, "inspect")
    /\ Call(p, host, oc)
    /\ LET r == w[p].r
           obs == Inspect
           label == IF r.pend = 0 /\ obs.cand # 0 THEN "adopt" ELSE Decide(r, obs)
       IN  IF oc = "ok" THEN Become(p, [w[p] EXCEPT !.pc = label, !.obs = obs])
           ELSE Goto(p, "release")
    /\ UNCHANGED <<rec, fences, ops, crashes>>

ReconcileAdopt(p, oc) ==
    /\ At(p, "adopt")
    /\ CompareAndSwap(p, [w[p].r EXCEPT !.pend = w[p].obs.cand], oc)
    /\ IF oc = "ok" THEN Wrote(p, Decide(rec', w[p].obs)) ELSE Finish(p)
    /\ UNCHANGED <<host, ops, crashes>>

ReconcileDrain(p, oc) ==
    /\ At(p, "redrain")
    /\ Call(p, Drain(w[p].r.priorInst), oc)
    /\ Goto(p, IF oc = "ok" THEN "confirm" ELSE "release")
    /\ UNCHANGED <<rec, fences, ops, crashes>>

\* The second inspection, before the new instance is recorded as active.
ReconcileConfirm(p, oc) ==
    /\ At(p, "confirm")
    /\ Call(p, host, oc)
    /\ LET r == w[p].r IN
       Goto(p, IF oc = "ok" /\ r.pend \in Inspect.up /\ CutOverComplete(Inspect.route, r.pend)
               THEN "complete" ELSE "release")
    /\ UNCHANGED <<rec, fences, ops, crashes>>

ReconcileComplete(p, oc) ==
    /\ At(p, "complete")
    /\ LET r == w[p].r IN CompareAndSwap(p, Active(r.pend, r.img, PublishedHistory(r)), oc)
    /\ Finish(p)
    /\ UNCHANGED <<host, ops, crashes>>

ReconcileRecut(p, oc) ==
    /\ At(p, "recut")
    /\ CallCutover(p, w[p].r.priorInst, oc)
    /\ Goto(p, IF oc # "ok" THEN "release"
               ELSE IF HistoricalRollbackPending(w[p].r) THEN "histRestore"
               ELSE IF w[p].r.pend \in w[p].obs.up THEN "cleanup" ELSE "settle")
    /\ UNCHANGED <<rec, fences, ops, crashes>>

ReconcileCleanup(p, oc) ==
    /\ At(p, "cleanup")
    /\ CompareAndSwap(p, [w[p].r EXCEPT !.phase = "cleanup-pending"], oc)
    /\ IF oc = "ok" THEN Wrote(p, "remove") ELSE Finish(p)
    /\ UNCHANGED <<host, ops, crashes>>

ReconcileRemove(p, oc) ==
    /\ At(p, "remove")
    /\ Call(p, Remove(w[p].r.pend), oc)
    /\ Goto(p, IF oc = "ok" THEN "settle" ELSE "release")
    /\ UNCHANGED <<rec, fences, ops, crashes>>

\* The inspection after the cleanup, before the prior state is recorded.
ReconcileSettle(p, oc) ==
    /\ At(p, "settle")
    /\ Call(p, host, oc)
    /\ LET r == w[p].r
           obs == Inspect
           gone == oc = "ok" /\ r.pend \notin obs.up
           unrouted == r.pend = 0 \/ obs.route # r.pend
           serving == r.priorInst \in obs.up /\ CutOverComplete(obs.route, r.priorInst)
       IN  Goto(p, IF ~gone \/ ~(IF r.priorInst = 0 THEN unrouted ELSE serving) THEN "release"
                   ELSE IF r.priorInst = 0 /\ r.priorImg = NoImage THEN "tombstone" ELSE "restore")
    /\ UNCHANGED <<rec, fences, ops, crashes>>

ReconcileRestore(p, oc) ==
    /\ At(p, "restore")
    /\ LET r == w[p].r IN CompareAndSwap(p, Active(r.priorInst, r.priorImg, r.hist), oc)
    /\ Finish(p)
    /\ UNCHANGED <<host, ops, crashes>>

ReconcileTombstone(p, oc) ==
    /\ At(p, "tombstone")
    /\ DeleteCAS(p, oc)
    /\ Finish(p)
    /\ UNCHANGED <<host, ops, crashes>>

\* release(): give the lease back and leave the record for a later reconcile.
Release(p, oc) ==
    /\ At(p, "release")
    /\ CompareAndSwap(p, [w[p].r EXCEPT !.lease = "none"], oc)
    /\ Finish(p)
    /\ UNCHANGED <<host, ops, crashes>>

\* restoreHistoricalPrior: the interrupted historical rollback is undone; a history
\* instance that is gone is forgotten.
HistoricalRestore(p, oc) ==
    /\ At(p, "histRestore")
    /\ LET r == w[p].r
           hist == IF r.pend \in w[p].obs.up THEN r.hist ELSE [r.hist EXCEPT !.inst = 0]
       IN  CompareAndSwap(p, Active(r.priorInst, r.priorImg, hist), oc)
    /\ Finish(p)
    /\ UNCHANGED <<host, ops, crashes>>

-----------------------------------------------------------------------------
(* Rollback to the recorded history: by routing back to the old instance   *)
(* while it exists, by publishing its image again otherwise.               *)

BeginRollback(p) ==
    /\ CanBegin(p)
    /\ rec.hist # NoRev /\ ~Busy(rec)
    /\ Become(p, [IdleWorker EXCEPT
                    !.pc = IF rec.hist.inst = 0 THEN "republish" ELSE "histInspect",
                    !.r = rec, !.img = rec.hist.img, !.orig = rec])
    /\ UNCHANGED <<rec, fences, host, faults, crashes>>

RollbackInspect(p, oc) ==
    /\ At(p, "histInspect")
    /\ Call(p, host, oc)
    /\ Goto(p, IF oc = "ok" /\ w[p].r.hist.inst \notin Inspect.up THEN "histForget"
               ELSE IF HasRule THEN "histLease" ELSE "republish")
    /\ UNCHANGED <<rec, fences, ops, crashes>>

RollbackForget(p, oc) ==
    /\ At(p, "histForget")
    /\ CompareAndSwap(p, [w[p].r EXCEPT !.hist.inst = 0], oc)
    /\ IF oc = "ok" THEN Goto(p, "republish") ELSE Finish(p)
    /\ UNCHANGED <<host, ops, crashes>>

\* publish() loads the record afresh.
RollbackRepublish(p) ==
    /\ At(p, "republish")
    /\ IF Busy(rec) THEN Finish(p)
       ELSE Become(p, [IdleWorker EXCEPT !.pc = "lease", !.r = rec, !.img = w[p].img])
    /\ UNCHANGED <<rec, fences, host, ops, faults, crashes>>

\* historicalRollbackIntent: the history instance is the pending one.
RollbackLease(p, oc) ==
    /\ At(p, "histLease")
    /\ LET r == w[p].r
       IN  AcquireLease(p, [r EXCEPT !.phase = "cutover", !.pend = r.hist.inst, !.img = r.hist.img,
                              !.priorInst = r.inst, !.priorImg = r.img], oc)
    /\ IF oc = "ok" THEN Wrote(p, "histCut") ELSE Finish(p)
    /\ UNCHANGED <<host, ops, crashes>>

RollbackCutover(p, oc) ==
    /\ At(p, "histCut")
    /\ CallCutover(p, w[p].r.pend, oc)
    /\ Goto(p, IF oc # "ok" THEN "histAbort"
               ELSE IF w[p].orig.inst \in {0, w[p].r.pend} THEN "histCommit" ELSE "histDrain")
    /\ UNCHANGED <<rec, fences, ops, crashes>>

RollbackDrain(p, oc) ==
    /\ At(p, "histDrain")
    /\ Call(p, Drain(w[p].orig.inst), oc)
    /\ Goto(p, IF oc = "ok" THEN "histCommit" ELSE "histAbortRoute")
    /\ UNCHANGED <<rec, fences, ops, crashes>>

RollbackCommit(p, oc) ==
    /\ At(p, "histCommit")
    /\ CompareAndSwap(p, Active(w[p].r.pend, w[p].r.img, NoRev), oc)
    /\ Finish(p)
    /\ UNCHANGED <<host, ops, crashes>>

\* abortHistoricalRollback: forget the history instance if it is gone.
RollbackAbort(p, oc) ==
    /\ w[p].pc \in {"histAbort", "histAbortRoute"}
    /\ Call(p, host, oc)
    /\ LET forget == oc = "ok" /\ w[p].r.pend \notin Inspect.up
       IN  Become(p, [w[p] EXCEPT
             !.pc = IF At(p, "histAbort") THEN "histReactivate" ELSE "histCutBack",
             !.orig.hist.inst = IF forget THEN 0 ELSE @])
    /\ UNCHANGED <<rec, fences, ops, crashes>>

\* restoreActive: the route is cut back only after a failed drain, and the record
\* becomes active whether or not that succeeded.
RollbackCutBack(p, oc) ==
    /\ At(p, "histCutBack")
    /\ CallCutover(p, w[p].orig.inst, oc)
    /\ Goto(p, "histReactivate")
    /\ UNCHANGED <<rec, fences, ops, crashes>>

RollbackReactivate(p, oc) ==
    /\ At(p, "histReactivate")
    /\ CompareAndSwap(p, [w[p].orig EXCEPT !.phase = "active", !.lease = "none", !.pend = 0], oc)
    /\ Finish(p)
    /\ UNCHANGED <<host, ops, crashes>>

-----------------------------------------------------------------------------
(* rememberDigest: the observer seeds a record for an app that has none,   *)
(* or rewrites the digests of the one it has read.                         *)

BeginRemember(p, image) ==
    /\ CanBegin(p)
    /\ ~Busy(rec)
    /\ Become(p, [IdleWorker EXCEPT !.pc = IF rec.ver = 0 THEN "seedLease" ELSE "remember",
                                   !.r = rec, !.img = image])
    /\ UNCHANGED <<rec, fences, host, faults, crashes>>

Remember(p, oc) ==
    /\ At(p, "remember")
    /\ CompareAndSwap(p, w[p].r, oc)
    /\ Finish(p)
    /\ UNCHANGED <<host, ops, crashes>>

SeedLease(p, oc) ==
    /\ At(p, "seedLease")
    /\ AcquireLease(p, Active(0, w[p].img, NoRev), oc)
    /\ IF oc = "ok" THEN Wrote(p, "seed") ELSE Finish(p)
    /\ UNCHANGED <<host, ops, crashes>>

\* The lease is given back, or the seed deleted if the catalog entry changed.
Seed(p, oc) ==
    /\ At(p, "seed")
    /\ CompareAndSwap(p, [w[p].r EXCEPT !.lease = "none"], oc) \/ (Guarded /\ DeleteCAS(p, oc))
    /\ Finish(p)
    /\ UNCHANGED <<host, ops, crashes>>

-----------------------------------------------------------------------------
(* The environment.                                                        *)

Quiet == \A p \in DOMAIN w : At(p, "idle")

\* The lease's deadline passes.
ExpireLease ==
    /\ rec.lease = "held"
    /\ rec' = [rec EXCEPT !.lease = "expired"]
    /\ UNCHANGED <<fences, host, w, ops, faults, crashes>>

\* The controller dies and is restarted.
Crash ==
    /\ ~Quiet
    /\ crashes < MaxCrashes /\ crashes' = crashes + 1
    /\ w' = [p \in Workers |-> IdleWorker]
    /\ UNCHANGED <<rec, fences, host, ops, faults>>

\* Between two operations a drained instance may end.
DrainedEnds ==
    /\ Quiet
    /\ \E n \in host.drained \ {host.route} :
          host' = [host EXCEPT !.img[n] = NoImage, !.drained = @ \ {n}]
    /\ UNCHANGED <<rec, fences, w, ops, faults, crashes>>

Publishing(p, oc) ==
    \/ PublishLease(p, oc) \/ PublishPull(p, oc) \/ IntentStarting(p, oc) \/ PublishStart(p, oc)
    \/ IntentReadiness(p, oc) \/ PublishReady(p, oc) \/ IntentCutover(p, oc)
    \/ PublishCutover(p, oc) \/ IntentDraining(p, oc) \/ PublishDrain(p, oc)
    \/ PublishActivate(p, oc) \/ AbandonStalePublish(p, oc) \/ PublishUndo(p, oc)

Reconciling(p, oc) ==
    \/ ReconcileLease(p, oc) \/ ReconcileInspect(p, oc) \/ ReconcileAdopt(p, oc)
    \/ ReconcileDrain(p, oc) \/ ReconcileConfirm(p, oc) \/ ReconcileComplete(p, oc)
    \/ ReconcileRecut(p, oc) \/ ReconcileCleanup(p, oc) \/ ReconcileRemove(p, oc)
    \/ ReconcileSettle(p, oc) \/ ReconcileRestore(p, oc) \/ ReconcileTombstone(p, oc)
    \/ HistoricalRestore(p, oc) \/ Release(p, oc)

RollingBack(p, oc) ==
    \/ RollbackInspect(p, oc) \/ RollbackForget(p, oc) \/ RollbackLease(p, oc)
    \/ RollbackCutover(p, oc) \/ RollbackDrain(p, oc) \/ RollbackCommit(p, oc)
    \/ RollbackAbort(p, oc) \/ RollbackCutBack(p, oc) \/ RollbackReactivate(p, oc)

Remembering(p, oc) == Remember(p, oc) \/ SeedLease(p, oc) \/ Seed(p, oc)

Next ==
    \/ \E p \in Workers :
         \/ BeginReconcile(p) \/ BeginRollback(p) \/ RollbackRepublish(p) \/ GuardStops(p)
         \/ \E image \in Images : BeginPublish(p, image) \/ BeginRemember(p, image)
         \/ \E oc \in Outcomes :
              Publishing(p, oc) \/ Reconciling(p, oc) \/ RollingBack(p, oc) \/ Remembering(p, oc)
    \/ ExpireLease \/ Crash \/ DrainedEnds

Spec == Init /\ [][Next]_vars

-----------------------------------------------------------------------------
(* Properties.                                                             *)

Record ==
    [ver : Nat, fence : 0 .. MaxOps + 1, lease : {"none", "held", "expired"},
     phase : {"none", "pulling", "starting", "readiness", "cutover", "draining", "active",
              "cleanup-pending", "route-reconcile"},
     inst : 0 .. MaxOps + 1, pend : 0 .. MaxOps + 1, img : Images \cup {NoImage},
     priorInst : 0 .. MaxOps + 1, priorImg : Images \cup {NoImage},
     hist : [inst : 0 .. MaxOps + 1, img : Images \cup {NoImage}]]

\* The record, its history and the workers' copies of it name images and instances that
\* exist, and their phases are those of rollout.go.
TypeOK ==
    /\ rec \in Record
    /\ fences \in 0 .. MaxOps + 1
    /\ host.img \in [Insts -> Images \cup {NoImage}]
    /\ {host.route, host.cand, host.last} \subseteq 0 .. MaxOps + 1
    /\ \A p \in DOMAIN w : w[p].r \in Record /\ w[p].orig \in Record

\* The HTTP rule never points at an instance that does not run: whatever fails, crashes
\* or is retried, Remove never hits the instance that serves and Cutover never
\* selects one that is gone.
RouteAlive == host.route \in {0} \cup Up

\* An active record tells the truth: its instance runs its image and the rule points
\* at it, unless a rollback that was abandoned half-way left the rule on the history.
ActiveServes ==
    rec.phase = "active" /\ rec.inst # 0 =>
        \/ host.img[rec.inst] = rec.img /\ (HasRule => host.route = rec.inst)
        \/ HasRule /\ rec.hist.inst # 0 /\ host.route = rec.hist.inst

\* An unexpired lease is exclusive: no step gives the record a new fencing token while
\* the holder of the present one may still act on it.
LeaseExclusive == rec.lease = "held" /\ rec'.ver > 0 => rec'.fence = rec.fence

\* The token of a new lease is above every token the executor has observed, as the
\* contracts of DeploymentStateStore and RolloutExecutor require of each other.
FencesIncrease == rec.lease # "held" /\ rec'.lease = "held" => rec'.fence > host.fence

\* No operation stops the recorded instance or the one a later rollback returns to;
\* Remove only ever hits a candidate.
RecordedKept == [][~Quiet => {rec.inst, rec.hist.inst} \cap Up \subseteq Up']_vars

\* Once the rollout has settled, every instance that still runs and neither served
\* the rule nor was drained is the recorded one: no failed, crashed or overtaken
\* publish leaks a candidate.
NoLeakedInstance ==
    Quiet /\ ~Busy(rec) =>
        Up \ (host.drained \cup host.served) \subseteq {rec.inst, rec.hist.inst}
=============================================================================
