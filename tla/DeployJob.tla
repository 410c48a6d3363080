------------------------------ MODULE DeployJob ------------------------------
(***************************************************************************)
(* The supervised compose deploy of one docker app.  The agent            *)
(* (deploy_job.go) writes the workspace, starts "docker compose up" in the *)
(* background and reports a status file; the management face (app_ui.go)   *)
(* remembers the pending document and puts it into the catalog when a poll *)
(* sees the deploy succeed.                                                *)
(*                                                                         *)
(* The non-terminal phases preparing, pulling and starting, which only     *)
(* differ in what the log tail shows, are one phase "working".             *)
(***************************************************************************)
EXTENDS Integers, FiniteSets

CONSTANTS
    Handlers,     \* concurrent HTTP requests of the management face
    Docs,         \* compose documents a request may carry
    NoDoc,
    MaxRuns,      \* bound: compose processes ever started
    MaxRequests,  \* bound: requests ever made
    MaxErrors     \* bound: failed writes, process starts and persists, lost replies

ASSUME DocAssumption == NoDoc \notin Docs
ASSUME BoundsAssumption == {MaxRuns, MaxRequests, MaxErrors} \subseteq Nat

VARIABLES
    ws,        \* agent: compose file in the app's workspace
    status,    \* agent: deploy-status.json ("none": no file)
    runs,      \* agent: every run so far, in order: doc, cancel, proc, stage
    current,   \* agent: deployRuns[app], 0: none
    pending,   \* management face: pendingDeploys[app]
    catalog,   \* management face: the document of the catalog entry
    h,         \* requests being handled
    requests, errors

vars == <<ws, status, runs, current, pending, catalog, h, requests, errors>>

Idle == [pc |-> "idle", doc |-> NoDoc, reply |-> "none"]

Init ==
    /\ ws = NoDoc /\ status = "none" /\ runs = [r \in {} |-> 0] /\ current = 0
    /\ pending = NoDoc /\ catalog = NoDoc
    /\ h = [p \in Handlers |-> Idle]
    /\ requests = 0 /\ errors = 0

Terminal(phase) == phase \in {"succeeded", "failed", "cancelled"}

\* readDeployProgress: without a status file the deploy is being prepared, and the log
\* refines only a phase that is not terminal.
Progress == IF status = "none" THEN "working" ELSE status

Error(n) == errors + n <= MaxErrors /\ errors' = errors + n

At(p, label) == h[p].pc = label

Become(p, next) == h' = [h EXCEPT ![p] = next]

Request(p) ==
    /\ At(p, "idle")
    /\ requests < MaxRequests /\ requests' = requests + 1

agent == <<ws, status, runs, current>>

face == <<pending, catalog>>

-----------------------------------------------------------------------------
(* The agent.                                                              *)

\* Mutant: the document is not written.
StartUnprepared(p) ==
    /\ At(p, "prepare")
    /\ Become(p, [h[p] EXCEPT !.pc = "start"])
    /\ UNCHANGED <<agent, requests, errors, face>>

\* PrepareAppWorkspace, before the lock is taken.
StartPrepare(p) ==
    /\ At(p, "prepare")
    /\ \/ ws' = h[p].doc /\ errors' = errors /\ Become(p, [h[p] EXCEPT !.pc = "start"])
       \/ ws' = ws /\ Error(1) /\ Become(p, Idle)
    /\ UNCHANGED <<status, runs, current, requests, face>>

\* A deploy that is under way is reported instead of starting another.
StartRunning(p) ==
    /\ At(p, "start")
    /\ status # "none" /\ ~Terminal(Progress)
    /\ Become(p, [h[p] EXCEPT !.pc = "started", !.reply = Progress])
    /\ UNCHANGED <<agent, requests, errors, face>>

\* The process reads the compose file it finds.
StartRun(p) ==
    /\ At(p, "start")
    /\ status = "none" \/ Terminal(status)
    /\ Cardinality(DOMAIN runs) < MaxRuns
    /\ LET r == Cardinality(DOMAIN runs) + 1
       IN  /\ runs' = [i \in 1 .. r |-> IF i = r THEN [doc |-> ws, cancel |-> FALSE, proc |-> "up", stage |-> "wait"]
                                        ELSE runs[i]]
           /\ current' = r
    /\ status' = "working"
    /\ Become(p, [h[p] EXCEPT !.pc = "started", !.reply = "working"])
    /\ UNCHANGED <<ws, requests, errors, face>>

\* The status file cannot be written, or the process cannot be started (the failed
\* status is then taken to be writable as the first one was).
StartFails(p) ==
    /\ At(p, "start")
    /\ status = "none" \/ Terminal(status)
    /\ Error(1)
    /\ status' \in {status, "failed"}
    /\ Become(p, Idle)
    /\ UNCHANGED <<ws, runs, current, requests, face>>

\* docker compose up ends; killed, it fails.
ProcessExits(r) ==
    /\ runs[r].proc \in {"up", "killed"}
    /\ \E result \in {"ok", "err"} :
          /\ runs[r].proc = "killed" => result = "err"
          /\ runs' = [runs EXCEPT ![r].proc = result]
    /\ UNCHANGED <<ws, status, current, face, h, requests, errors>>

\* Mutant: a finished run stays registered.
FinishKeeps(r) ==
    /\ runs[r].stage = "wait" /\ runs[r].proc \in {"ok", "err"}
    /\ runs' = [runs EXCEPT ![r].stage = IF runs[r].cancel THEN "cancelled" ELSE "ended"]
    /\ UNCHANGED <<ws, status, current, face, h, requests, errors>>

\* finishComposeDeploy: the run's own entry is dropped and its cancel flag read
\* under the lock ...
FinishLocked(r) ==
    /\ runs[r].stage = "wait" /\ runs[r].proc \in {"ok", "err"}
    /\ runs' = [runs EXCEPT ![r].stage = IF runs[r].cancel THEN "cancelled" ELSE "ended"]
    /\ current' = IF current = r THEN 0 ELSE current
    /\ UNCHANGED <<ws, status, face, h, requests, errors>>

\* A run's final status comes late when a newer run has been started.
Written(r) == IF r + 1 \in DOMAIN runs THEN "late" ELSE "done"

\* Mutant: only success is written.
FinishSilent(r) ==
    /\ runs[r].stage \in {"cancelled", "ended"}
    /\ status' = IF runs[r].stage = "ended" /\ runs[r].proc = "ok" THEN "succeeded" ELSE status
    /\ runs' = [runs EXCEPT ![r].stage = Written(r)]
    /\ UNCHANGED <<ws, current, face, h, requests, errors>>

\* ... and the status is written after it is released.
FinishStatus(r) ==
    /\ runs[r].stage \in {"cancelled", "ended"}
    /\ \/ /\ status' = IF runs[r].stage = "cancelled" THEN "cancelled"
                       ELSE IF runs[r].proc = "ok" THEN "succeeded" ELSE "failed"
          /\ errors' = errors
       \/ /\ runs[r].stage = "ended" /\ runs[r].proc = "ok"   \* recordPublishedImages
          /\ Error(1) /\ status' = "failed"
    /\ runs' = [runs EXCEPT ![r].stage = Written(r)]
    /\ UNCHANGED <<ws, current, face, h, requests>>

\* The error of that write is ignored.
FinishLost(r) ==
    /\ runs[r].stage \in {"cancelled", "ended"}
    /\ Error(1)
    /\ runs' = [runs EXCEPT ![r].stage = "lost"]
    /\ UNCHANGED <<ws, status, current, face, h, requests>>

CancelDeploy(p) ==
    /\ At(p, "cancel")
    /\ runs' = IF current = 0 THEN runs
               ELSE [runs EXCEPT ![current].cancel = TRUE,
                                 ![current].proc = IF @ = "up" THEN "killed" ELSE @]
    /\ status' = IF Terminal(status) THEN status ELSE "cancelled"
    /\ Become(p, [h[p] EXCEPT !.pc = "forget"])
    /\ UNCHANGED <<ws, current, face, requests, errors>>

DeployStatus(p) ==
    /\ At(p, "poll")
    /\ Become(p, [h[p] EXCEPT !.pc = "polled",
                              !.reply = Progress])
    /\ UNCHANGED <<agent, face, requests, errors>>

-----------------------------------------------------------------------------
(* The management face.                                                    *)

ServeStart(p, doc) ==
    /\ Request(p)
    /\ Become(p, [Idle EXCEPT !.pc = "prepare", !.doc = doc])
    /\ UNCHANGED <<agent, face, errors>>

\* The document is pending from now on, unless the deploy has already ended.
StartReply(p) ==
    /\ At(p, "started")
    /\ pending' = IF h[p].reply \in {"failed", "cancelled"} THEN NoDoc ELSE h[p].doc
    /\ Become(p, IF h[p].reply = "succeeded" THEN [h[p] EXCEPT !.pc = "store"] ELSE Idle)
    /\ UNCHANGED <<agent, catalog, requests, errors>>

\* A call of the agent whose answer is lost fails the request that made it, whatever
\* the agent has done.
ReplyLost(p) ==
    /\ h[p].pc \in {"started", "polled"} \/ (At(p, "forget") /\ h[p].doc = NoDoc)
    /\ Error(1)
    /\ Become(p, Idle)
    /\ UNCHANGED <<agent, face, requests>>

ServePoll(p) ==
    /\ Request(p)
    /\ Become(p, [Idle EXCEPT !.pc = "poll"])
    /\ UNCHANGED <<agent, face, errors>>

\* completePendingDeploy reads the pending document ...
PollReply(p) ==
    /\ At(p, "polled")
    /\ Become(p, IF h[p].reply = "succeeded" /\ pending # NoDoc
                 THEN [h[p] EXCEPT !.pc = "store", !.doc = pending] ELSE Idle)
    /\ UNCHANGED <<agent, face, requests, errors>>

\* ... stores it in the catalog; an error may come before or after the catalog entry ...
CompleteStore(p) ==
    /\ At(p, "store")
    /\ \/ catalog' = h[p].doc /\ errors' = errors /\ Become(p, [h[p] EXCEPT !.pc = "forget"])
       \/ catalog' \in {catalog, h[p].doc} /\ Error(1) /\ Become(p, Idle)
    /\ UNCHANGED <<agent, pending, requests>>

\* ... and forgets it, as a cancel does.
Forget(p) ==
    /\ At(p, "forget")
    /\ pending' = NoDoc
    /\ Become(p, Idle)
    /\ UNCHANGED <<agent, catalog, requests, errors>>

ServeCancel(p) ==
    /\ Request(p)
    /\ Become(p, [Idle EXCEPT !.pc = "cancel"])
    /\ UNCHANGED <<agent, face, errors>>

-----------------------------------------------------------------------------
Handle(p) ==
    \/ StartPrepare(p) \/ StartRunning(p) \/ StartRun(p) \/ StartFails(p) \/ CancelDeploy(p)
    \/ DeployStatus(p) \/ StartReply(p) \/ PollReply(p) \/ CompleteStore(p) \/ Forget(p)
    \/ ReplyLost(p)

Finish(r) == ProcessExits(r) \/ FinishLocked(r) \/ FinishStatus(r) \/ FinishLost(r)

Next ==
    \/ \E p \in Handlers :
         Handle(p) \/ ServePoll(p) \/ ServeCancel(p) \/ \E doc \in Docs : ServeStart(p, doc)
    \/ \E r \in DOMAIN runs : Finish(r)

\* The goroutine of a run whose process has ended is scheduled, and a killed process ends.
\* Nothing makes a process end that was not killed: compose may pull for ever.
Spec ==
    /\ Init /\ [][Next]_vars
    /\ \A r \in 1 .. MaxRuns : WF_vars(r \in DOMAIN runs /\ runs[r].proc # "up" /\ Finish(r))

-----------------------------------------------------------------------------
Phases == {"none", "working", "succeeded", "failed", "cancelled"}

\* The workspace, status file, run map and catalog hold what their code writes, and the
\* run map names a run that was started.
TypeOK ==
    /\ ws \in Docs \cup {NoDoc} /\ pending \in Docs \cup {NoDoc} /\ catalog \in Docs \cup {NoDoc}
    /\ status \in Phases
    /\ DOMAIN runs \subseteq 1 .. MaxRuns
    /\ \A r \in DOMAIN runs :
         runs[r] \in [doc : Docs, cancel : BOOLEAN, proc : {"up", "killed", "ok", "err"},
                      stage : {"wait", "cancelled", "ended", "done", "late", "lost"}]
    /\ current \in {0} \cup DOMAIN runs
    /\ \A p \in Handlers : h[p].reply \in Phases /\ h[p].doc \in Docs \cup {NoDoc}

\* Every compose process that runs unkilled is the registered run: it can be cancelled,
\* and no second one competes with it for the app.  finishComposeDeploy, which writes the
\* final status after it has released deployMu, is the one way out: only the status of an
\* earlier run that lands behind a newer run's start lets a start go past a running process.
Cancellable ==
    \A r \in DOMAIN runs :
        runs[r].proc = "up" => current = r \/ \E q \in DOMAIN runs : runs[q].stage = "late"

\* No registered run outlives its end: once its final status is written, the entry
\* of the run map is free.
NoStaleRun == current # 0 => runs[current].stage = "wait"

\* A deploy whose process has ended or was cancelled comes to a terminal status, whatever
\* is cancelled or started meanwhile; only a lost write of the final status leaves it open.
Settles ==
    LET Pulling == \E r \in DOMAIN runs : runs[r].proc = "up"
    IN  (status = "working" /\ ~Pulling) ~>
            (Pulling \/ Terminal(status) \/ \E r \in DOMAIN runs : runs[r].stage = "lost")

\* An app is not marked running while its first image is still pulled: a document
\* enters the catalog only after compose has succeeded once.
MarkedAfterApply == catalog # NoDoc => \E r \in DOMAIN runs : runs[r].proc = "ok"

\* A deploy that runs is the registered one and can be cancelled unless a late status has
\* let a second one start, a registered run has not ended, and no document enters the
\* catalogue before compose has succeeded (deploy_job.go).
Supervised == NoStaleRun /\ Cancellable /\ MarkedAfterApply

\* The document that enters the catalog as running is one that a compose process of
\* the node has finished applying.
CatalogApplied ==
    catalog # NoDoc => \E r \in DOMAIN runs : runs[r].doc = catalog /\ runs[r].proc = "ok"
=============================================================================
