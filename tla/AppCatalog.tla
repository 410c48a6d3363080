----------------------------- MODULE AppCatalog -----------------------------
(***************************************************************************)
(* The application catalogue of the docker-app plugin as its management UI *)
(* drives it (app_ui.go, controller.go, lifecycle.go).                     *)
(*                                                                         *)
(* The catalogue exists twice: the list the host persists ("stored") and   *)
(* the controller's copy in memory ("mem").  Every handler takes a         *)
(* snapshot of the copy, talks to the node, and writes the WHOLE list back *)
(* (replaceApps: StoreApps, then the copy).  The running/stopped map has   *)
(* the same two copies.  Background image observations run beside the      *)
(* handlers; a token and an epoch per application tell them when a handler *)
(* has overtaken them, and lockImageUpdate serialises them with a manual   *)
(* digest update.                                                          *)
(*                                                                         *)
(* A handler or an observation is a process that works through "todo", the *)
(* list of calls the code makes in that order; a failed call ends it.      *)
(* Host and node calls end in "ok", "fail" (no effect) or "late" (the      *)
(* effect happens, the caller sees an error).  Refused requests (bad body, *)
(* missing confirmation, offline agent) change nothing and are left out.   *)
(***************************************************************************)
EXTENDS Integers, Sequences, FiniteSets

CONSTANTS
    Apps, Agents, Docs,     \* application ids, nodes, compose documents
    Handlers, Slots,        \* concurrent requests; the observation slots
    Ops,                    \* the requests the instance lets an operator make
    NoApp,                  \* absent from a list, a node or the offers
    MaxOps, MaxObs, MaxFaults, MaxRestarts, MaxPush

Procs == Handlers \cup Slots

VARIABLES
    stored, mem,            \* the catalogue at the host and in memory
    storedRun, memRun,      \* the running map at the host and in memory
    node,                   \* what each node runs: [doc, on] or NoApp
    rules,                  \* host HTTP rules, by node and application port
    offers,                 \* the host's HTTP backend catalogue
    rec,                    \* version of the deployment record, 0 for none
    behind,                 \* the registry has a newer digest than the node
    cache,                  \* imageCache: what the page would show
    refresh, token, epoch,  \* imageRefresh, imageObserveToken, imageDeleteEpoch
    imgLock,                \* holder of lockImageUpdate, or NoApp
    h,                      \* the processes
    ops, obs, faults, restarts, pushes,   \* bounds
    tangled,                \* two writers have been in flight together
    confirmed               \* applications whose digest update succeeded

host == <<stored, storedRun, node, rules, offers, rec, behind>>
image == <<cache, refresh, token, epoch, imgLock>>
bounds == <<ops, obs, faults, restarts, pushes>>
history == <<tangled, confirmed>>
vars == <<host, mem, memRun, image, h, bounds, history>>

AppCfg == [agent : Agents, doc : Docs]
Idle == [op |-> "none", app |-> NoApp, to |-> NoApp, doc |-> NoApp,
         todo |-> <<>>, snap |-> NoApp, run |-> NoApp,
         tok |-> 0, ep |-> 0, ver |-> 0, seen |-> "none"]

Busy(p) == h[p] # Idle
Quiet == \A p \in Procs : ~Busy(p)
At(p, step) == Busy(p) /\ h[p].todo # <<>> /\ Head(h[p].todo) = step

\* every handler, and an observation that publishes, writes the catalogue
Writers == {p \in Procs : Busy(p) /\ (p \in Handlers \/ h[p].seen = "publish")}

(* The calls of every request, in order; "auto" decides how an observation *)
(* goes on.                                                                *)
Persist == <<"run", "keep", "load", "clear", "offer">>
Program ==
    [deploy   |-> <<"apply", "store", "adopt">> \o Persist \o <<"allow">>,
     job      |-> <<"apply", "poll", "store", "adopt">> \o Persist \o <<"allow">>,
     compose  |-> <<"apply", "store", "adopt", "allow">> \o Persist,
     policy   |-> <<"store", "adopt">>,
     digest   |-> <<"recall", "rollout", "mark", "run", "keep", "offer", "allow">>,
     delete   |-> <<"rules", "invalidate", "remove", "store", "adopt">> \o Persist,
     start    |-> <<"switch", "run", "keep", "offer">>,
     stop     |-> <<"switch", "run", "keep", "offer">>,
     rollback |-> <<"rollout", "run", "keep", "offer">>,
     rule     |-> <<"create", "offer">>,
     unrule   |-> <<"rules", "offer">>,
     restore  |-> <<"apply", "store", "offer">>,
     detail   |-> <<"observe", "show">>,
     observe  |-> <<"observe", "listed", "auto">>]

(* Process p goes on with the calls "rest"; one that has none left is      *)
(* done, and gives back lockImageUpdate if it holds it.                    *)
Continue(p, proc, rest) ==
    IF rest = <<>>
    THEN /\ h' = [h EXCEPT ![p] = Idle]
         /\ imgLock' = [a \in Apps |-> IF imgLock[a] = p THEN NoApp ELSE imgLock[a]]
    ELSE h' = [h EXCEPT ![p] = [proc EXCEPT !.todo = rest]] /\ UNCHANGED imgLock

Advance(p) == Continue(p, h[p], Tail(h[p].todo))

(* A call of p failed.  A request ends; deploys and updates let image      *)
(* observations run again, a delete only when the node refused it, and a   *)
(* supervised job only when it could not be started.  An observation       *)
(* ignores the error and goes on with its next call.                       *)
Fail(p) ==
    LET a == h[p].app
        step == Head(h[p].todo)
        skipped == IF step \in {"store", "run"} THEN Tail(Tail(h[p].todo)) ELSE Tail(h[p].todo)
        release == \/ h[p].op \in {"deploy", "digest"}
                   \/ h[p].op = "compose" /\ step \in {"apply", "store"}
                   \/ h[p].op = "delete" /\ step = "remove"
    IN  IF h[p].op = "observe"
        THEN Continue(p, h[p], skipped) /\ UNCHANGED refresh
        ELSE /\ Continue(p, h[p], <<>>)
             /\ \/ release /\ refresh' = [refresh EXCEPT ![a] = FALSE]
                \/ ~release /\ UNCHANGED refresh
                \/ /\ h[p].op = "job" /\ step = "apply"
                   /\ refresh' = [refresh EXCEPT ![a] = FALSE]

\* appIsRunning: an application without an entry counts as running
IsRunning(a) == memRun[a] # "off"

\* ProjectHTTPBackendCatalog over the list and the map in memory
Projection == [a \in Apps |-> IF mem[a] = NoApp THEN NoApp
                              ELSE [agent |-> mem[a].agent, on |-> IsRunning(a)]]

\* the outcomes of a call to the host or to a node
Outcomes == {"ok", "fail", "late"}
Outcome(o) == /\ o # "ok" => faults < MaxFaults
              /\ faults' = IF o = "ok" THEN faults ELSE faults + 1

(***************************************************************************)
(* Requests                                                                *)
(***************************************************************************)
Admit(p, op, a) ==
    /\ op \in Ops /\ p \in Handlers /\ ~Busy(p) /\ ops < MaxOps
    /\ ops' = ops + 1
    /\ tangled' = (tangled \/ Writers # {})
    /\ UNCHANGED <<obs, faults, restarts, pushes>>

(* POST /api/apps, POST /api/deploy-jobs, and "update" with new tags:      *)
(* pinComposeSaveObservation, then the snapshot of the list the node call  *)
(* is followed by.  bindAppToAgent refuses an application that is bound to *)
(* another agent, and the pin is undone; a supervised job meets that check *)
(* only when it is recorded.                                               *)
BeginDeploy(p, op, a, ag, d) ==
    LET bound == mem[a] # NoApp /\ mem[a].agent # ag
    IN  /\ op \in {"deploy", "job", "compose"}
        /\ Admit(p, op, a)
        /\ op = "compose" => mem[a] # NoApp /\ mem[a].agent = ag /\ mem[a].doc # d
        /\ cache' = [cache EXCEPT ![a] = "none"]
        /\ epoch' = [epoch EXCEPT ![a] = @ + 1]
        /\ refresh' = [refresh EXCEPT ![a] = op = "job" \/ ~bound]
        /\ confirmed' = confirmed \ {a}
        /\ IF op # "job" /\ bound
           THEN UNCHANGED h
           ELSE h' = [h EXCEPT ![p] = [Idle EXCEPT
                    !.op = op, !.app = a, !.to = ag, !.doc = d, !.todo = Program[op],
                    !.snap = [mem EXCEPT ![a] = [agent |-> ag, doc |-> d]]]]
        /\ UNCHANGED <<host, mem, memRun, token, imgLock>>

(* The requests on a listed application that start without touching the    *)
(* image state.                                                            *)
BeginItem(p, op, a) ==
    /\ op \in {"policy", "delete", "start", "stop", "rollback", "rule", "unrule", "detail"}
    /\ Admit(p, op, a)
    /\ mem[a] # NoApp
    /\ h' = [h EXCEPT ![p] = [Idle EXCEPT
            !.op = op, !.app = a, !.to = mem[a].agent, !.doc = mem[a].doc,
            !.todo = Program[op], !.snap = IF op = "policy" THEN mem ELSE NoApp]]
    /\ UNCHANGED <<host, mem, memRun, image, confirmed>>

\* Mutant: the observations in flight are not overtaken.
BeginDigestUnseen(p, a) ==
    /\ Admit(p, "digest", a)
    /\ mem[a] # NoApp /\ imgLock[a] = NoApp
    /\ imgLock' = [imgLock EXCEPT ![a] = p]
    /\ refresh' = [refresh EXCEPT ![a] = TRUE]
    /\ h' = [h EXCEPT ![p] = [Idle EXCEPT
            !.op = "digest", !.app = a, !.to = mem[a].agent, !.doc = mem[a].doc,
            !.todo = Program["digest"]]]
    /\ UNCHANGED <<host, mem, memRun, cache, token, epoch, confirmed>>

(* "update" of a floating tag: under lockImageUpdate, a new token and the  *)
(* refresh flag overtake the observations in flight.                       *)
BeginDigest(p, a) ==
    /\ Admit(p, "digest", a)
    /\ mem[a] # NoApp /\ imgLock[a] = NoApp
    /\ imgLock' = [imgLock EXCEPT ![a] = p]
    /\ token' = [token EXCEPT ![a] = @ + 1]
    /\ refresh' = [refresh EXCEPT ![a] = TRUE]
    /\ h' = [h EXCEPT ![p] = [Idle EXCEPT
            !.op = "digest", !.app = a, !.to = mem[a].agent, !.doc = mem[a].doc,
            !.todo = Program["digest"]]]
    /\ UNCHANGED <<host, mem, memRun, cache, epoch, confirmed>>

(* "backup-restore": RestoreBackup works on the list it loads from the     *)
(* host, not on the controller's; the target must run a managed app.       *)
BeginRestore(p, a, ag, d) ==
    /\ Admit(p, "restore", a)
    /\ \E x \in Apps : mem[x] # NoApp
    /\ \E x \in Apps : stored[x] # NoApp /\ stored[x].agent = ag
    /\ h' = [h EXCEPT ![p] = [Idle EXCEPT
            !.op = "restore", !.app = a, !.to = ag, !.doc = d, !.todo = Program["restore"],
            !.snap = [stored EXCEPT ![a] = [agent |-> ag, doc |-> d]]]]
    /\ UNCHANGED <<host, mem, memRun, image, confirmed>>

(***************************************************************************)
(* The calls                                                               *)
(***************************************************************************)
\* FilterHTTPRulesForApp: the rules on a published port of the application's node
RuleOf(p) == <<h[p].to, h[p].app>>

(* deleteListedAppHTTPRules and DeleteHTTPRule: a delete that failed       *)
(* counts when the next listing no longer has the rule; a listing that     *)
(* fails ends the request, whatever has been deleted.                      *)
CallRules(p) ==
    /\ At(p, "rules")
    /\ \E o \in Outcomes :
         /\ Outcome(o)
         /\ rules' = IF o = "fail" THEN rules ELSE rules \ {RuleOf(p)}
         /\ IF o = "ok" THEN Advance(p) /\ UNCHANGED refresh ELSE Fail(p)
    /\ UNCHANGED <<stored, storedRun, node, offers, rec, behind, mem, memRun,
                   cache, token, epoch, ops, obs, restarts, pushes, history>>

(* invalidateObservation, then the snapshot DeleteManagedApp works on      *)
CallInvalidate(p) ==
    LET a == h[p].app
    IN  /\ At(p, "invalidate")
        /\ cache' = [cache EXCEPT ![a] = "none"]
        /\ refresh' = [refresh EXCEPT ![a] = TRUE]
        /\ token' = [token EXCEPT ![a] = @ + 1]
        /\ epoch' = [epoch EXCEPT ![a] = @ + 1]
        /\ confirmed' = confirmed \ {a}
        /\ Continue(p, [h[p] EXCEPT !.snap = [mem EXCEPT ![a] = NoApp]], Tail(h[p].todo))
        /\ UNCHANGED <<host, mem, memRun, bounds, tangled>>

(* ApplyApp, RemoveApp, Start, Stop and Restart on the node                *)
NodeAfter(p) ==
    LET now == node[h[p].to][h[p].app]
    IN  CASE At(p, "apply") -> [doc |-> h[p].doc, on |-> TRUE]
          [] At(p, "remove") -> NoApp
          [] OTHER -> IF now = NoApp THEN NoApp ELSE [now EXCEPT !.on = (h[p].op = "start")]

(* DeployComposeApp, StartManaged, StopManaged, DeleteManagedApp           *)
CallNode(p) ==
    LET a == h[p].app
    IN  /\ At(p, "apply") \/ At(p, "remove") \/ At(p, "switch")
        /\ \E o \in Outcomes :
             /\ Outcome(o)
             /\ node' = IF o = "fail" THEN node ELSE [node EXCEPT ![h[p].to][a] = NodeAfter(p)]
             /\ IF o = "ok" THEN Advance(p) /\ UNCHANGED refresh ELSE Fail(p)
        /\ UNCHANGED <<stored, storedRun, rules, offers, rec, behind, mem, memRun,
                       cache, token, epoch, ops, obs, restarts, pushes, history>>

(* The status poll that finds the job finished: completePendingDeploy      *)
(* takes its own snapshot, and refuses an application that is bound to     *)
(* another agent although the node already runs it.                        *)
CallPoll(p) ==
    LET a == h[p].app
    IN  /\ At(p, "poll")
        /\ IF mem[a] # NoApp /\ mem[a].agent # h[p].to
           THEN Continue(p, h[p], <<>>) /\ tangled' = TRUE
           ELSE /\ Continue(p, [h[p] EXCEPT !.snap =
                        [mem EXCEPT ![a] = [agent |-> h[p].to, doc |-> h[p].doc]]], Tail(h[p].todo))
                /\ UNCHANGED tangled
        /\ UNCHANGED <<host, mem, memRun, cache, refresh, token, epoch, bounds,
                       confirmed>>

(* replaceApps, StoreApps: the whole list goes to the host ...             *)
CallStore(p) ==
    /\ At(p, "store")
    /\ \E o \in Outcomes :
         /\ Outcome(o)
         /\ stored' = IF o = "fail" THEN stored ELSE h[p].snap
         /\ tangled' = (tangled \/ h[p].op = "restore")
         /\ IF o = "ok" THEN Advance(p) /\ UNCHANGED refresh ELSE Fail(p)
    /\ UNCHANGED <<storedRun, node, rules, offers, rec, behind, mem, memRun,
                   cache, token, epoch, ops, obs, restarts, pushes, confirmed>>

(* ... and then into memory, compared with nothing                         *)
CallAdopt(p) ==
    /\ At(p, "adopt")
    /\ mem' = h[p].snap
    /\ Advance(p)
    /\ UNCHANGED <<host, memRun, cache, refresh, token, epoch, bounds, history>>

(* setAppRunning and clearAppRuntime: a copy of the map with one entry     *)
(* changed is stored ...                                                   *)
CallRun(p) ==
    LET value == CASE h[p].op = "delete" -> "unset" [] h[p].op = "stop" -> "off" [] OTHER -> "on"
        next == [memRun EXCEPT ![h[p].app] = value]
    IN  /\ At(p, "run")
        /\ \E o \in Outcomes :
             /\ Outcome(o)
             /\ storedRun' = IF o = "fail" THEN storedRun ELSE next
             /\ IF o = "ok"
                THEN /\ Continue(p, [h[p] EXCEPT !.run = next], Tail(h[p].todo))
                     /\ UNCHANGED refresh
                ELSE Fail(p)
        /\ UNCHANGED <<stored, node, rules, offers, rec, behind, mem, memRun,
                       cache, token, epoch, ops, obs, restarts, pushes, history>>

(* ... and becomes the map in memory; clearAppRuntime also drops what the  *)
(* image observation knew.                                                 *)
CallKeep(p) ==
    LET a == h[p].app
    IN  /\ At(p, "keep")
        /\ memRun' = h[p].run
        /\ IF h[p].op = "delete"
           THEN /\ cache' = [cache EXCEPT ![a] = "none"]
                /\ refresh' = [refresh EXCEPT ![a] = FALSE]
                /\ token' = [token EXCEPT ![a] = @ + 1]
                /\ confirmed' = confirmed \ {a}
           ELSE UNCHANGED <<cache, refresh, token, confirmed>>
        /\ Advance(p)
        /\ UNCHANGED <<host, mem, epoch, bounds, tangled>>

(* clearAppDeployment: load the deployment record ...                      *)
CallLoad(p) ==
    /\ At(p, "load")
    /\ Continue(p, [h[p] EXCEPT !.ver = rec[h[p].app]], Tail(h[p].todo))
    /\ UNCHANGED <<host, mem, memRun, cache, refresh, token, epoch, bounds, history>>

(* ... and delete it if its version is still the loaded one                *)
CallClear(p) ==
    LET a == h[p].app
        stale == h[p].ver # rec[a]
    IN  /\ At(p, "clear")
        /\ IF h[p].ver = 0
           THEN Advance(p) /\ UNCHANGED <<rec, refresh, faults, tangled>>
           ELSE \E o \in Outcomes :
                  /\ Outcome(o)
                  /\ rec' = IF stale \/ o = "fail" THEN rec ELSE [rec EXCEPT ![a] = 0]
                  /\ tangled' = (tangled \/ stale)
                  /\ IF o = "ok" /\ ~stale THEN Advance(p) /\ UNCHANGED refresh ELSE Fail(p)
        /\ UNCHANGED <<stored, storedRun, node, rules, offers, behind, mem, memRun, cache,
                       token, epoch, ops, obs, restarts, pushes, confirmed>>

(* publishHTTPBackendOffers: the whole projection, errors ignored          *)
CallOffer(p) ==
    /\ At(p, "offer")
    /\ \E o \in {"ok", "fail"} :
         /\ Outcome(o)
         /\ offers' = IF o = "ok" THEN Projection ELSE offers
    /\ Advance(p)
    /\ UNCHANGED <<stored, storedRun, node, rules, rec, behind, mem, memRun,
                   cache, refresh, token, epoch, ops, obs, restarts, pushes, history>>

(* allowImageObservation                                                   *)
CallAllow(p) ==
    /\ At(p, "allow")
    /\ refresh' = [refresh EXCEPT ![h[p].app] = FALSE]
    /\ Advance(p)
    /\ UNCHANGED <<host, mem, memRun, cache, token, epoch, bounds, history>>

(* CreateHTTPRuleFromPublishedPort                                         *)
CallCreate(p) ==
    /\ At(p, "create")
    /\ \E o \in Outcomes :
         /\ Outcome(o)
         /\ rules' = IF o = "fail" THEN rules ELSE rules \cup {RuleOf(p)}
         /\ IF o = "ok" THEN Advance(p) /\ UNCHANGED refresh ELSE Fail(p)
    /\ UNCHANGED <<stored, storedRun, node, offers, rec, behind, mem, memRun,
                   cache, token, epoch, ops, obs, restarts, pushes, history>>

(***************************************************************************)
(* Digests: manual updates, the detail page, background observations       *)
(***************************************************************************)
\* what ObserveImage reports of a node and the registry
Reported(a) == IF a \in behind THEN "behind" ELSE "current"

(* rememberFloatingDigest: the cached digests, or an observation that is   *)
(* cached; a candidate is written into the deployment record, and nothing  *)
(* is left to do when the node already runs it.                            *)
CallRecall(p) ==
    LET a == h[p].app
        known == IF cache[a] = "none" THEN Reported(a) ELSE cache[a]
    IN  /\ At(p, "recall")
        /\ \E o \in Outcomes :
             /\ Outcome(o)
             /\ cache' = [cache EXCEPT ![a] = known]
             /\ rec' = IF known = "current" \/ o = "fail" THEN rec ELSE [rec EXCEPT ![a] = @ + 1]
             /\ CASE o # "ok" -> Fail(p)
                  [] o = "ok" /\ known = "current" ->
                       /\ Continue(p, h[p], <<>>)
                       /\ refresh' = [refresh EXCEPT ![a] = FALSE]
                  [] OTHER -> Advance(p) /\ UNCHANGED refresh
        /\ UNCHANGED <<stored, storedRun, node, rules, offers, behind, mem, memRun,
                       token, epoch, ops, obs, restarts, pushes, history>>

(* ConfirmUpdate and Rollback, as one step: Rollout models what they do.   *)
(* Whatever they end in, the record may have a new version.                *)
CallRollout(p) ==
    LET a == h[p].app
    IN  /\ At(p, "rollout")
        /\ \E o \in Outcomes, written \in BOOLEAN :
             /\ Outcome(o) /\ (o = "ok" => written)
             /\ rec' = IF written THEN [rec EXCEPT ![a] = @ + 1] ELSE rec
             /\ node' = IF o = "fail" THEN node
                        ELSE [node EXCEPT ![h[p].to][a] = [doc |-> h[p].doc, on |-> TRUE]]
             /\ behind' = CASE o = "fail" -> behind
                            [] o # "fail" /\ h[p].op = "rollback" -> behind \cup {a}
                            [] OTHER -> behind \ {a}
             /\ confirmed' = IF o = "ok" THEN confirmed ELSE confirmed \ {a}
             /\ IF o = "ok" THEN Advance(p) /\ UNCHANGED refresh ELSE Fail(p)
        /\ UNCHANGED <<stored, storedRun, rules, offers, mem, memRun,
                       cache, token, epoch, ops, obs, restarts, pushes, tangled>>

(* markFloatingDigestPublished: the page shows the digest as running       *)
CallMark(p) ==
    LET a == h[p].app
    IN  /\ At(p, "mark")
        /\ cache' = [cache EXCEPT ![a] = IF @ = "none" THEN @ ELSE "current"]
        /\ confirmed' = IF cache[a] = "none" THEN confirmed ELSE confirmed \cup {a}
        /\ Advance(p)
        /\ UNCHANGED <<host, mem, memRun, refresh, token, epoch, bounds, tangled>>

(* ObserveImage of an observation or of a detail page without a cached     *)
(* digest; it may fail, and what it read may be old when it is used.       *)
CallObserve(p) ==
    LET a == h[p].app
    IN  /\ At(p, "observe")
        /\ \E seen \in {Reported(a), "none"} :
             IF h[p].op = "detail" /\ (cache[a] # "none" \/ seen = "none")
             THEN Continue(p, h[p], <<>>)
             ELSE Continue(p, [h[p] EXCEPT !.seen = seen], Tail(h[p].todo))
        /\ UNCHANGED <<host, mem, memRun, cache, refresh, token, epoch, bounds, history>>

(* serviceDigestAvailability stores what the detail page has read          *)
CallShow(p) ==
    LET a == h[p].app
    IN  /\ At(p, "show")
        /\ cache' = [cache EXCEPT ![a] = h[p].seen]
        /\ confirmed' = confirmed \ {a}
        /\ Advance(p)
        /\ UNCHANGED <<host, mem, memRun, refresh, token, epoch, bounds, tangled>>

\* snapshotObservationLocked: no handler has overtaken the observation and
\* the application still has the image it was started for
Current(p) == LET a == h[p].app
              IN  /\ token[a] = h[p].tok /\ epoch[a] = h[p].ep
                  /\ mem[a] # NoApp /\ mem[a].doc = h[p].snap

\* clearImageRefreshIfCurrentLocked
ReleaseIfCurrent(p) ==
    LET a == h[p].app
    IN  refresh' = IF token[a] = h[p].tok /\ epoch[a] = h[p].ep
                   THEN [refresh EXCEPT ![a] = FALSE] ELSE refresh

(* scheduleImageObservation, from any page that shows the application; it  *)
(* gives up when both slots are taken.                                     *)
Schedule(a) ==
    /\ mem[a] # NoApp /\ ~refresh[a] /\ obs < MaxObs
    /\ obs' = obs + 1
    /\ token' = [token EXCEPT ![a] = @ + 1]
    /\ \/ \E s \in Slots :
            /\ ~Busy(s)
            /\ refresh' = [refresh EXCEPT ![a] = TRUE]
            /\ h' = [h EXCEPT ![s] = [Idle EXCEPT
                    !.op = "observe", !.app = a, !.to = mem[a].agent, !.doc = mem[a].doc,
                    !.snap = mem[a].doc, !.todo = Program["observe"],
                    !.tok = token[a] + 1, !.ep = epoch[a]]]
       \/ /\ \A s \in Slots : Busy(s)
          /\ UNCHANGED <<refresh, h>>
    /\ UNCHANGED <<host, mem, memRun, cache, epoch, imgLock,
                   ops, faults, restarts, pushes, history>>

(* The first look after ObserveImage; tags and further digests are listed  *)
(* only for an application that is still the observed one.                 *)
CallListed(p) ==
    /\ At(p, "listed")
    /\ IF Current(p) THEN Advance(p) /\ UNCHANGED refresh
       ELSE Continue(p, h[p], <<>>) /\ ReleaseIfCurrent(p)
    /\ UNCHANGED <<host, mem, memRun, cache, token, epoch, bounds, history>>

(* AutoUpdate under lockImageUpdate: with a digest read and the guard      *)
(* still holding, the record is loaded and remembers the digest, or an     *)
(* update is published, with the same document or with a newer tag in it.  *)
CallAuto(p) ==
    LET a == h[p].app
        writes == h[p].seen # "none" /\ Current(p)
    IN  /\ At(p, "auto") /\ imgLock[a] = NoApp
        /\ imgLock' = [imgLock EXCEPT ![a] = p]
        /\ \/ /\ h' = [h EXCEPT ![p].todo = <<"commit">>]
              /\ UNCHANGED tangled
           \/ /\ writes
              /\ h' = [h EXCEPT ![p].todo = <<"write", "commit">>, ![p].ver = rec[a]]
              /\ UNCHANGED tangled
           \/ /\ writes /\ h[p].seen = "behind"
              /\ \E d \in Docs : h' = [h EXCEPT
                    ![p].todo = <<"write", "commit">>, ![p].ver = rec[a],
                    ![p].seen = "publish", ![p].doc = d]
              /\ tangled' = (tangled \/ Writers # {})
        /\ UNCHANGED <<host, mem, memRun, cache, refresh, token, epoch, bounds, confirmed>>

(* The first write: the lease of a publication or of a new record, or the  *)
(* digest in the record there is.  A version that moved, or an unknown     *)
(* outcome, ends AutoUpdate with an error.                                 *)
CallWrite(p) ==
    LET a == h[p].app
        second == h[p].ver = 0 \/ h[p].seen = "publish"
        failed == [h[p] EXCEPT !.seen = IF @ = "publish" THEN "behind" ELSE @]
    IN  /\ At(p, "write")
        /\ IF rec[a] # h[p].ver
           THEN Continue(p, failed, <<"commit">>) /\ UNCHANGED <<rec, faults>>
           ELSE \E o \in Outcomes :
                  /\ Outcome(o)
                  /\ rec' = IF o = "fail" THEN rec ELSE [rec EXCEPT ![a] = @ + 1]
                  /\ IF o = "ok"
                     THEN Continue(p, [h[p] EXCEPT !.ver = @ + 1],
                                   IF second THEN <<"settle", "commit">> ELSE <<"commit">>)
                     ELSE Continue(p, failed, <<"commit">>)
        /\ UNCHANGED <<stored, storedRun, node, rules, offers, behind, mem, memRun,
                       cache, refresh, token, epoch, ops, obs, restarts, pushes, history>>

(* The guard after the lease: an overtaken observation deletes its record  *)
(* again (abandonStalePublish), although its publication may have reached  *)
(* the node; otherwise the record becomes active.                          *)
CallSettle(p) ==
    LET a == h[p].app
        publishes == h[p].seen = "publish"
        mine == rec[a] = h[p].ver
        failed == [h[p] EXCEPT !.seen = IF @ = "publish" THEN "behind" ELSE @]
        ran == [node EXCEPT ![h[p].to][a] = [doc |-> h[p].doc, on |-> TRUE]]
    IN  /\ At(p, "settle")
        /\ \E o \in Outcomes :
             /\ Outcome(o)
             /\ IF Current(p)
                THEN /\ rec' = IF mine /\ o # "fail" THEN [rec EXCEPT ![a] = @ + 1] ELSE rec
                     /\ node' = IF publishes THEN ran ELSE node
                     /\ behind' = IF publishes THEN behind \ {a} ELSE behind
                     /\ Continue(p, IF mine /\ o = "ok" THEN h[p] ELSE failed, <<"commit">>)
                ELSE /\ rec' = IF mine /\ o # "fail" THEN [rec EXCEPT ![a] = 0] ELSE rec
                     /\ \/ UNCHANGED <<node, behind>>
                        \/ publishes /\ node' = ran /\ behind' = behind \ {a}
                     /\ Continue(p, failed, <<"commit">>)
        /\ UNCHANGED <<stored, storedRun, rules, offers, mem, memRun,
                       cache, refresh, token, epoch, ops, obs, restarts, pushes, history>>

\* Mutant: the record of an application that went away meanwhile is kept.
CallCommitKeeps(p) ==
    LET a == h[p].app
        published == h[p].seen = "publish"
        changes == Current(p) /\ published /\ h[p].doc # h[p].snap
        keep == mem[a] # NoApp
        rest == (IF changes THEN <<"store", "adopt">> ELSE <<>>)
                \o (IF keep /\ published THEN <<"run", "keep", "offer">> ELSE <<>>)
    IN  /\ At(p, "commit")
        /\ ReleaseIfCurrent(p)
        /\ cache' = IF ~Current(p) \/ h[p].seen = "none" THEN cache
                    ELSE [cache EXCEPT ![a] = IF published THEN "current" ELSE h[p].seen]
        /\ Continue(p, IF changes
                       THEN [h[p] EXCEPT !.snap = [mem EXCEPT ![a].doc = h[p].doc]]
                       ELSE h[p], rest)
        /\ UNCHANGED <<host, mem, memRun, token, epoch, bounds, history>>

(* The end of an observation: the flag is released, what was read is       *)
(* cached unless a handler has overtaken it, a published document goes     *)
(* into the catalogue, and the record of an application that is gone is    *)
(* cleared.                                                                *)
CallCommit(p) ==
    LET a == h[p].app
        published == h[p].seen = "publish"
        changes == Current(p) /\ published /\ h[p].doc # h[p].snap
        keep == mem[a] # NoApp
        rest == (IF changes THEN <<"store", "adopt">> ELSE <<>>)
                \o (IF ~keep THEN <<"load", "clear">>
                    ELSE IF published THEN <<"run", "keep", "offer">> ELSE <<>>)
    IN  /\ At(p, "commit")
        /\ ReleaseIfCurrent(p)
        /\ cache' = IF ~Current(p) \/ h[p].seen = "none" THEN cache
                    ELSE [cache EXCEPT ![a] = IF published THEN "current" ELSE h[p].seen]
        /\ Continue(p, IF changes
                       THEN [h[p] EXCEPT !.snap = [mem EXCEPT ![a].doc = h[p].doc]]
                       ELSE h[p], rest)
        /\ UNCHANGED <<host, mem, memRun, token, epoch, bounds, history>>

(***************************************************************************)
(* The environment                                                         *)
(***************************************************************************)
\* the registry publishes a new digest under the tag
Push(a) ==
    /\ pushes < MaxPush /\ a \notin behind
    /\ pushes' = pushes + 1
    /\ behind' = behind \cup {a}
    /\ confirmed' = confirmed \ {a}
    /\ UNCHANGED <<stored, storedRun, node, rules, offers, rec, mem, memRun, image, h,
                   ops, obs, faults, restarts, tangled>>

(* The plugin dies and prepare loads the host's list and map again         *)
Restart ==
    /\ restarts < MaxRestarts
    /\ restarts' = restarts + 1
    /\ mem' = stored /\ memRun' = storedRun
    /\ cache' = [a \in Apps |-> "none"]
    /\ refresh' = [a \in Apps |-> FALSE]
    /\ token' = [a \in Apps |-> 0] /\ epoch' = [a \in Apps |-> 0]
    /\ imgLock' = [a \in Apps |-> NoApp]
    /\ h' = [p \in Procs |-> Idle]
    /\ tangled' = (tangled \/ ~Quiet)
    /\ confirmed' = {}
    /\ UNCHANGED <<host, ops, obs, faults, pushes>>

Init ==
    /\ stored \in [Apps -> AppCfg \cup {NoApp}] /\ mem = stored
    /\ storedRun = [a \in Apps |-> "unset"] /\ memRun = storedRun
    /\ node = [ag \in Agents |-> [a \in Apps |->
                IF stored[a] # NoApp /\ stored[a].agent = ag
                THEN [doc |-> stored[a].doc, on |-> TRUE] ELSE NoApp]]
    /\ rules = {} /\ offers = Projection
    /\ rec = [a \in Apps |-> 0]
    /\ behind = {}
    /\ cache = [a \in Apps |-> "none"]
    /\ refresh = [a \in Apps |-> FALSE]
    /\ token = [a \in Apps |-> 0] /\ epoch = [a \in Apps |-> 0]
    /\ imgLock = [a \in Apps |-> NoApp]
    /\ h = [p \in Procs |-> Idle]
    /\ ops = 0 /\ obs = 0 /\ faults = 0 /\ restarts = 0 /\ pushes = 0
    /\ tangled = FALSE /\ confirmed = {}

Call(p) ==
    \/ CallRules(p) \/ CallInvalidate(p) \/ CallNode(p) \/ CallPoll(p)
    \/ CallStore(p) \/ CallAdopt(p) \/ CallRun(p) \/ CallKeep(p)
    \/ CallLoad(p) \/ CallClear(p) \/ CallOffer(p) \/ CallAllow(p) \/ CallCreate(p)
    \/ CallRecall(p) \/ CallRollout(p) \/ CallMark(p) \/ CallObserve(p) \/ CallShow(p)
    \/ CallListed(p) \/ CallAuto(p) \/ CallWrite(p) \/ CallSettle(p) \/ CallCommit(p)

Next ==
    \/ \E p \in Procs : Call(p)
    \/ \E p \in Handlers, a \in Apps : BeginDigest(p, a)
    \/ \E p \in Handlers, a \in Apps, op \in Ops : BeginItem(p, op, a)
    \/ \E p \in Handlers, a \in Apps, op \in Ops, ag \in Agents, d \in Docs :
          BeginDeploy(p, op, a, ag, d)
    \/ \E p \in Handlers, a \in Apps, ag \in Agents, d \in Docs : BeginRestore(p, a, ag, d)
    \/ \E a \in Apps : Schedule(a) \/ Push(a)
    \/ Restart

Spec == Init /\ [][Next]_vars

(***************************************************************************)
(* Properties                                                              *)
(***************************************************************************)
\* Every variable has its type.
TypeOK ==
    /\ {stored, mem} \subseteq [Apps -> AppCfg \cup {NoApp}]
    /\ {storedRun, memRun} \subseteq [Apps -> {"unset", "on", "off"}]
    /\ node \in [Agents -> [Apps -> [doc : Docs, on : BOOLEAN] \cup {NoApp}]]
    /\ rules \subseteq Agents \X Apps
    /\ offers \in [Apps -> [agent : Agents, on : BOOLEAN] \cup {NoApp}]
    /\ rec \in [Apps -> Nat] /\ token \in [Apps -> Nat] /\ epoch \in [Apps -> Nat]
    /\ cache \in [Apps -> {"none", "behind", "current"}]
    /\ refresh \in [Apps -> BOOLEAN]
    /\ imgLock \in [Apps -> Procs \cup {NoApp}]
    /\ behind \subseteq Apps /\ confirmed \subseteq Apps

(* Requests made one at a time, with no call failing, leave every copy of  *)
(* the catalogue in agreement: the host's list and the controller's, both  *)
(* running maps, what the nodes run, the HTTP rules, the offers and the    *)
(* deployment records, whatever image observations ran beside them.        *)
SerialAgreement ==
    Quiet /\ ~tangled /\ faults = 0 =>
        /\ mem = stored /\ memRun = storedRun
        /\ offers = Projection
        /\ \A ag \in Agents, a \in Apps :
              /\ (node[ag][a] # NoApp) = (mem[a] # NoApp /\ mem[a].agent = ag)
              /\ node[ag][a] # NoApp =>
                    node[ag][a].doc = mem[a].doc /\ node[ag][a].on = IsRunning(a)
              /\ <<ag, a>> \in rules => mem[a] # NoApp /\ mem[a].agent = ag
        /\ \A a \in Apps : ~refresh[a]

(* The deployment record of a deleted application does not come back: an   *)
(* observation that was writing it when the delete cleared it takes it     *)
(* away again (abandonStalePublish, keepRecord), in whatever order the two *)
(* run, unless a call failed.                                              *)
NoGhostRecord ==
    Quiet /\ faults = 0 /\ restarts = 0 =>
        \A a \in Apps : rec[a] # 0 => mem[a] # NoApp

(* A background observation that started before a manual digest update     *)
(* never overwrites its confirmation on the page.                          *)
ConfirmationKept == \A a \in confirmed : cache[a] = "current"
=============================================================================
