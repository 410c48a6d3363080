-------------------------- MODULE DeployJob_proofs --------------------------
(***************************************************************************)
(* What a supervised deploy guarantees for every set of requests and       *)
(* documents and every bound on runs, requests and errors.                 *)
(*                                                                         *)
(* None of the three parts of Supervised is inductive.  That a running     *)
(* process is the registered one needs to know when a start may go past    *)
(* the status file: Working, as long as no final status has come late.     *)
(* That a document enters the catalog only after compose has succeeded     *)
(* once is handed from the process to the status file, from there to the   *)
(* reply of a poll and from the reply to the request that stores: Earned.  *)
(***************************************************************************)
EXTENDS DeployJob, FiniteSetTheorems, TLAPS

Run == [doc : Docs, cancel : BOOLEAN, proc : {"up", "killed", "ok", "err"},
        stage : {"wait", "cancelled", "ended", "done", "late", "lost"}]

Labels == {"idle", "prepare", "start", "started", "cancel", "poll", "polled", "store", "forget"}

Handling == [pc : Labels, doc : Docs \cup {NoDoc}, reply : Phases]

Newest == Cardinality(DOMAIN runs)

\* Runs are numbered without gaps, only the newest one is ever registered, and a compose
\* file is in the workspace when the lock of the start is taken.
Typed ==
    /\ ws \in Docs \cup {NoDoc} /\ pending \in Docs \cup {NoDoc} /\ catalog \in Docs \cup {NoDoc}
    /\ status \in Phases
    /\ Newest \in 0 .. MaxRuns /\ runs \in [1 .. Newest -> Run] /\ current \in {0, Newest}
    /\ h \in [Handlers -> Handling]
    /\ \A p \in Handlers : /\ At(p, "prepare") => h[p].doc \in Docs
                           /\ At(p, "start") => ws \in Docs

Late == \E q \in DOMAIN runs : runs[q].stage = "late"

Applied == \E r \in DOMAIN runs : runs[r].proc = "ok"

\* A goroutine goes on only after its process has ended.
Ended == \A r \in DOMAIN runs : runs[r].stage # "wait" => runs[r].proc \in {"ok", "err"}

\* The status file says that a process is running.
Working == \A r \in DOMAIN runs : runs[r].proc = "up" => status = "working" \/ Late

\* Every place that says that the deploy has succeeded was told so by a process.
Earned ==
    /\ status = "succeeded" => Applied
    /\ catalog # NoDoc => Applied
    /\ \A p \in Handlers : h[p].reply = "succeeded" \/ At(p, "store") => Applied

Inductive == Typed /\ Ended /\ Working /\ Earned /\ NoStaleRun /\ Cancellable

-----------------------------------------------------------------------------
(* A request moves on.                                                     *)

\* The record of the request that moves is the new one and no other changes.
LEMMA BecomeFields ==
    ASSUME h \in [Handlers -> Handling], NEW p \in Handlers, NEW next \in Handling,
           Become(p, next)
    PROVE  /\ h' \in [Handlers -> Handling]
           /\ h'[p] = next
           /\ \A q \in Handlers : q # p => h'[q] = h[q]
  BY DEF Become

LEMMA IdleTyped == Idle \in Handling /\ Idle.pc = "idle" /\ Idle.reply = "none"
  BY DEF Idle, Handling, Labels, Phases

\* The facts about runs stand when the agent's state does.
LEMMA AgentStands ==
    ASSUME Inductive, UNCHANGED <<status, runs, current>>
    PROVE  Ended' /\ Working' /\ NoStaleRun' /\ Cancellable' /\ Newest' = Newest
           /\ (Applied => Applied')
  BY DEF Inductive, Ended, Working, NoStaleRun, Cancellable, Newest, Applied, Late

\* A request that moves on with the agent standing keeps the invariant when the document
\* and the claim of success it goes on with are good.
LEMMA RequestMoves ==
    ASSUME Inductive, UNCHANGED agent, NEW p \in Handlers, NEW next \in Handling,
           Become(p, next),
           pending' \in Docs \cup {NoDoc}, catalog' \in Docs \cup {NoDoc},
           next.pc = "prepare" => next.doc \in Docs,
           next.pc = "start" => ws \in Docs,
           next.reply = "succeeded" \/ next.pc = "store" => Applied,
           catalog' # NoDoc => Applied
    PROVE  Inductive'
  <1>1. UNCHANGED <<ws, status, runs, current>>
    BY DEF agent
  <1>2. Ended' /\ Working' /\ NoStaleRun' /\ Cancellable' /\ Newest' = Newest
        /\ (Applied => Applied')
    BY <1>1, AgentStands
  <1>3. /\ h' \in [Handlers -> Handling]
        /\ h'[p] = next
        /\ \A q \in Handlers : q # p => h'[q] = h[q]
    BY BecomeFields DEF Inductive, Typed
  <1>4. Typed'
    <2>1. (Newest \in 0 .. MaxRuns /\ runs \in [1 .. Newest -> Run] /\ current \in {0, Newest})'
      BY <1>1, <1>2 DEF Inductive, Typed
    <2>2. \A q \in Handlers : /\ h'[q].pc = "prepare" => h'[q].doc \in Docs
                              /\ h'[q].pc = "start" => ws' \in Docs
      BY <1>1, <1>3 DEF Inductive, Typed, At
    <2> QED
      BY <1>1, <1>3, <2>1, <2>2 DEF Inductive, Typed, At
  <1>5. Earned'
    BY <1>1, <1>2, <1>3 DEF Inductive, Earned, At
  <1> QED
    BY <1>2, <1>4, <1>5 DEF Inductive

\* The reported phase is one of the status file's, and success only when it says so.
LEMMA ProgressTyped ==
    ASSUME status \in Phases
    PROVE  Progress \in Phases /\ (Progress = "succeeded" => status = "succeeded")
  BY DEF Progress, Phases

LEMMA MovesStartRunning ==
    ASSUME Inductive, NEW p \in Handlers, StartRunning(p)
    PROVE  Inductive'
  <1> DEFINE next == [h[p] EXCEPT !.pc = "started", !.reply = Progress]
  <1>1. h[p] \in Handling /\ status \in Phases
    BY DEF Inductive, Typed
  <1>2. "started" \in Labels /\ NoDoc \in Docs \cup {NoDoc}
    BY DEF Labels
  <1>3. Progress \in Phases /\ (Progress = "succeeded" => Applied)
    BY <1>1, ProgressTyped DEF Inductive, Earned
  <1>4. next \in Handling /\ next.pc = "started" /\ next.reply = Progress
    BY <1>1, <1>2, <1>3 DEF Handling
  <1>5. Become(p, next) /\ UNCHANGED agent /\ pending' = pending /\ catalog' = catalog
    BY DEF StartRunning, agent, face
  <1> HIDE DEF next
  <1> QED
    BY <1>3, <1>4, <1>5, RequestMoves DEF Inductive, Typed, Earned

LEMMA MovesDeployStatus ==
    ASSUME Inductive, NEW p \in Handlers, DeployStatus(p)
    PROVE  Inductive'
  <1> DEFINE next == [h[p] EXCEPT !.pc = "polled", !.reply = Progress]
  <1>1. h[p] \in Handling /\ status \in Phases
    BY DEF Inductive, Typed
  <1>2. "polled" \in Labels /\ NoDoc \in Docs \cup {NoDoc}
    BY DEF Labels
  <1>3. Progress \in Phases /\ (Progress = "succeeded" => Applied)
    BY <1>1, ProgressTyped DEF Inductive, Earned
  <1>4. next \in Handling /\ next.pc = "polled" /\ next.reply = Progress
    BY <1>1, <1>2, <1>3 DEF Handling
  <1>5. Become(p, next) /\ UNCHANGED agent /\ pending' = pending /\ catalog' = catalog
    BY DEF DeployStatus, agent, face
  <1> HIDE DEF next
  <1> QED
    BY <1>3, <1>4, <1>5, RequestMoves DEF Inductive, Typed, Earned

\* A new request claims nothing.
LEMMA MovesServe ==
    ASSUME Inductive, NEW p \in Handlers,
           ServePoll(p) \/ ServeCancel(p) \/ \E doc \in Docs : ServeStart(p, doc)
    PROVE  Inductive'
  <1>1. Idle \in Handling /\ Idle.reply = "none" /\ {"poll", "cancel", "prepare"} \subseteq Labels
    BY IdleTyped DEF Labels
  <1>2. UNCHANGED agent /\ pending' = pending /\ catalog' = catalog
    BY DEF ServePoll, ServeCancel, ServeStart, agent, face
  <1>3. PICK next \in Handling : /\ Become(p, next) /\ next.pc \in {"poll", "cancel", "prepare"}
                                 /\ next.reply = "none"
                                 /\ next.pc = "prepare" => next.doc \in Docs
    <2>1. CASE ServePoll(p)
      <3> DEFINE next == [Idle EXCEPT !.pc = "poll"]
      <3>1. next \in Handling /\ next.pc = "poll" /\ next.reply = "none"
        BY <1>1 DEF Handling
      <3> QED
        BY <2>1, <3>1 DEF ServePoll
    <2>2. CASE ServeCancel(p)
      <3> DEFINE next == [Idle EXCEPT !.pc = "cancel"]
      <3>1. next \in Handling /\ next.pc = "cancel" /\ next.reply = "none"
        BY <1>1 DEF Handling
      <3> QED
        BY <2>2, <3>1 DEF ServeCancel
    <2>3. ASSUME NEW doc \in Docs, ServeStart(p, doc)
          PROVE  \E next \in Handling : /\ Become(p, next) /\ next.pc \in {"poll", "cancel", "prepare"}
                                        /\ next.reply = "none"
                                        /\ next.pc = "prepare" => next.doc \in Docs
      <3> DEFINE next == [Idle EXCEPT !.pc = "prepare", !.doc = doc]
      <3>1. next \in Handling /\ next.pc = "prepare" /\ next.reply = "none" /\ next.doc = doc
        BY <1>1 DEF Handling
      <3> QED
        BY <2>3, <3>1 DEF ServeStart
    <2> QED
      BY <2>1, <2>2, <2>3
  <1> QED
    BY <1>2, <1>3, RequestMoves DEF Inductive, Typed, Earned

\* A request that ends claims nothing either.
LEMMA MovesIdle ==
    ASSUME Inductive, NEW p \in Handlers, Become(p, Idle), UNCHANGED agent,
           pending' \in Docs \cup {NoDoc}, catalog' \in Docs \cup {NoDoc},
           catalog' # NoDoc => Applied
    PROVE  Inductive'
  BY IdleTyped, RequestMoves

LEMMA MovesReplies ==
    ASSUME Inductive, NEW p \in Handlers,
           StartReply(p) \/ PollReply(p) \/ CompleteStore(p) \/ Forget(p) \/ ReplyLost(p)
    PROVE  Inductive'
  <1>1. h[p] \in Handling /\ h[p].doc \in Docs \cup {NoDoc} /\ h[p].reply \in Phases
    BY DEF Inductive, Typed, Handling
  <1>2. {"store", "forget"} \subseteq Labels
    BY DEF Labels
  <1>3. pending \in Docs \cup {NoDoc} /\ catalog \in Docs \cup {NoDoc} /\ (catalog # NoDoc => Applied)
    BY DEF Inductive, Typed, Earned
  <1>4. UNCHANGED agent
    BY DEF StartReply, PollReply, CompleteStore, Forget, ReplyLost, agent
  <1>5. h[p].reply = "succeeded" \/ h[p].pc = "store" => Applied
    BY DEF Inductive, Earned, At
  <1> DEFINE stored == [h[p] EXCEPT !.pc = "store"]
             adopted == [h[p] EXCEPT !.pc = "store", !.doc = pending]
             forget == [h[p] EXCEPT !.pc = "forget"]
  <1>6. /\ stored \in Handling /\ stored.pc = "store"
        /\ adopted \in Handling /\ adopted.pc = "store"
        /\ forget \in Handling /\ forget.pc = "forget" /\ forget.reply = h[p].reply
    BY <1>1, <1>2, <1>3 DEF Handling
  <1>7. CASE StartReply(p)
    <2>1. pending' \in Docs \cup {NoDoc} /\ catalog' = catalog
      BY <1>1, <1>7 DEF StartReply
    <2>2. Become(p, Idle) \/ (Become(p, stored) /\ Applied)
      BY <1>5, <1>7 DEF StartReply
    <2> HIDE DEF stored
    <2> QED
      BY <1>3, <1>4, <1>6, <2>1, <2>2, MovesIdle, RequestMoves
  <1>8. CASE PollReply(p)
    <2>1. pending' = pending /\ catalog' = catalog
      BY <1>8 DEF PollReply, face
    <2>2. Become(p, Idle) \/ (Become(p, adopted) /\ Applied)
      BY <1>5, <1>8 DEF PollReply
    <2> HIDE DEF adopted
    <2> QED
      BY <1>3, <1>4, <1>6, <2>1, <2>2, MovesIdle, RequestMoves
  <1>9. CASE CompleteStore(p)
    <2>1. Applied /\ pending' = pending /\ catalog' \in Docs \cup {NoDoc}
      BY <1>1, <1>3, <1>5, <1>9 DEF CompleteStore, At
    <2>2. Become(p, Idle) \/ Become(p, forget)
      BY <1>9 DEF CompleteStore
    <2> HIDE DEF forget
    <2> QED
      BY <1>3, <1>4, <1>6, <2>1, <2>2, MovesIdle, RequestMoves
  <1>10. CASE Forget(p) \/ ReplyLost(p)
    <2>1. Become(p, Idle) /\ pending' \in Docs \cup {NoDoc} /\ catalog' = catalog
      BY <1>3, <1>10 DEF Forget, ReplyLost, face
    <2> QED
      BY <1>3, <1>4, <2>1, MovesIdle
  <1> QED
    BY <1>7, <1>8, <1>9, <1>10

-----------------------------------------------------------------------------
(* The agent.                                                              *)

LEMMA KeepsStartPrepare ==
    ASSUME Inductive, NEW p \in Handlers, StartPrepare(p)
    PROVE  Inductive'
  <1> DEFINE next == [h[p] EXCEPT !.pc = "start"]
  <1>1. h[p] \in Handling /\ h[p].doc \in Docs /\ h \in [Handlers -> Handling]
        /\ (h[p].reply = "succeeded" => Applied)
    BY DEF Inductive, Typed, Earned, StartPrepare, At
  <1>2. next \in Handling /\ next.pc = "start" /\ next.reply = h[p].reply
    BY <1>1 DEF Handling, Labels
  <1>3. \/ ws' \in Docs /\ Become(p, next)
        \/ ws' = ws /\ Become(p, Idle)
    BY <1>1 DEF StartPrepare
  <1>4. UNCHANGED <<status, runs, current>> /\ pending' = pending /\ catalog' = catalog
    BY DEF StartPrepare, face
  <1> HIDE DEF next
  <1>5. PICK new \in Handling :
            /\ Become(p, new) /\ new.pc \in {"start", "idle"}
            /\ new.reply = "succeeded" => Applied
            /\ (ws' \in Docs) \/ (ws' = ws /\ new.pc = "idle")
    BY <1>1, <1>2, <1>3, IdleTyped
  <1>6. Ended' /\ Working' /\ NoStaleRun' /\ Cancellable' /\ Newest' = Newest
        /\ (Applied => Applied')
    BY <1>4, AgentStands
  <1>7. /\ h' \in [Handlers -> Handling]
        /\ h'[p] = new
        /\ \A q \in Handlers : q # p => h'[q] = h[q]
    BY <1>1, <1>5, BecomeFields
  <1>8. Typed'
    <2>1. (Newest \in 0 .. MaxRuns /\ runs \in [1 .. Newest -> Run] /\ current \in {0, Newest})'
      BY <1>4, <1>6 DEF Inductive, Typed
    <2>2. \A q \in Handlers : /\ h'[q].pc = "prepare" => h'[q].doc \in Docs
                              /\ h'[q].pc = "start" => ws' \in Docs
      BY <1>5, <1>7 DEF Inductive, Typed, At
    <2> QED
      BY <1>4, <1>5, <1>7, <2>1, <2>2 DEF Inductive, Typed, At
  <1>9. Earned'
    BY <1>4, <1>5, <1>6, <1>7 DEF Inductive, Earned, At
  <1> QED
    BY <1>6, <1>8, <1>9 DEF Inductive

\* A process that runs while no status came late is the newest one and the status says so.
LEMMA RunningIsNewest ==
    ASSUME Inductive, ~Late, NEW r \in DOMAIN runs, runs[r].proc = "up"
    PROVE  current = r /\ r = Newest /\ status = "working"
  <1>1. current = r /\ status = "working"
    BY DEF Inductive, Cancellable, Working, Late
  <1>2. r \in 1 .. Newest /\ Newest \in Nat
    BY DEF Inductive, Typed
  <1> QED
    BY <1>1, <1>2 DEF Inductive, Typed

\* A start that fails leaves the runs alone; its failed status comes while none is up.
LEMMA KeepsStartFails ==
    ASSUME Inductive, NEW p \in Handlers, StartFails(p)
    PROVE  Inductive'
  <1>1. UNCHANGED <<ws, runs, current>> /\ pending' = pending /\ catalog' = catalog
        /\ Become(p, Idle) /\ status' \in {status, "failed"} /\ status # "working"
    BY DEF StartFails, face, Terminal
  <1>2. h \in [Handlers -> Handling]
    BY DEF Inductive, Typed
  <1>3. /\ h' \in [Handlers -> Handling]
        /\ h'[p] = Idle
        /\ \A q \in Handlers : q # p => h'[q] = h[q]
    BY <1>1, <1>2, IdleTyped, BecomeFields
  <1>4. Newest' = Newest /\ Late' = Late /\ Applied' = Applied
    BY <1>1 DEF Newest, Late, Applied
  <1>5. Typed'
    <2>1. (Newest \in 0 .. MaxRuns /\ runs \in [1 .. Newest -> Run] /\ current \in {0, Newest})'
      BY <1>1, <1>4 DEF Inductive, Typed
    <2>2. \A q \in Handlers : /\ h'[q].pc = "prepare" => h'[q].doc \in Docs
                              /\ h'[q].pc = "start" => ws' \in Docs
      BY <1>1, <1>3, IdleTyped DEF Inductive, Typed, At
    <2>3. status' \in Phases
      BY <1>1 DEF Inductive, Typed, Phases
    <2> QED
      BY <1>1, <1>3, <2>1, <2>2, <2>3 DEF Inductive, Typed, At
  <1>6. Ended' /\ NoStaleRun' /\ Cancellable'
    BY <1>1 DEF Inductive, Ended, NoStaleRun, Cancellable
  <1>7. Working'
    BY <1>1, <1>4 DEF Inductive, Working
  <1>8. Earned'
    BY <1>1, <1>3, <1>4, IdleTyped DEF Inductive, Earned, At
  <1> QED
    BY <1>5, <1>6, <1>7, <1>8 DEF Inductive

\* A run is started when the status file lets it: then no process runs, unless a status
\* came late.
LEMMA KeepsStartRun ==
    ASSUME Inductive, NEW p \in Handlers, StartRun(p)
    PROVE  Inductive'
  <1> DEFINE n == Newest + 1
             new == [doc |-> ws, cancel |-> FALSE, proc |-> "up", stage |-> "wait"]
             next == [h[p] EXCEPT !.pc = "started", !.reply = "working"]
  <1>1. h \in [Handlers -> Handling] /\ h[p] \in Handling /\ ws \in Docs
        /\ Newest \in 0 .. MaxRuns /\ runs \in [1 .. Newest -> Run] /\ MaxRuns \in Nat
    BY BoundsAssumption DEF Inductive, Typed, StartRun, At
  <1>2. new \in Run /\ new.proc = "up" /\ new.stage = "wait"
    BY <1>1 DEF Run
  <1>3. next \in Handling /\ next.pc = "started" /\ next.reply = "working"
    BY <1>1 DEF Handling, Labels, Phases
  <1>4. /\ Newest < MaxRuns
        /\ runs' = [i \in 1 .. n |-> IF i = n THEN new ELSE runs[i]]
        /\ current' = n /\ status' = "working" /\ Become(p, next)
        /\ UNCHANGED <<ws, pending, catalog>> /\ status # "working"
    BY DEF StartRun, Newest, face, Terminal
  <1> HIDE DEF new, next
  <1>5. n \in Nat /\ n \in 1 .. MaxRuns /\ DOMAIN runs = 1 .. Newest /\ DOMAIN runs' = 1 .. n
    BY <1>1, <1>4
  <1>6. Newest' = n
    BY <1>5, FS_Interval DEF Newest
  <1>7. /\ runs' \in [1 .. n -> Run] /\ runs'[n] = new
        /\ \A i \in DOMAIN runs : i \in DOMAIN runs' /\ runs'[i] = runs[i]
        /\ \A i \in DOMAIN runs' : i # n => i \in DOMAIN runs /\ runs'[i] = runs[i]
    <2>1. \A i \in 1 .. n : i # n => i \in 1 .. Newest
      BY <1>1
    <2>2. \A i \in 1 .. Newest : i \in 1 .. n /\ i # n
      BY <1>1
    <2> QED
      BY <1>1, <1>2, <1>4, <1>5, <2>1, <2>2
  <1> HIDE DEF n
  <1>8. Late' = Late /\ (Applied => Applied')
    BY <1>2, <1>5, <1>7 DEF Late, Applied
  <1>9. /\ h' \in [Handlers -> Handling]
        /\ h'[p] = next
        /\ \A q \in Handlers : q # p => h'[q] = h[q]
    BY <1>1, <1>3, <1>4, BecomeFields
  <1>10. Typed'
    <2>1. (Newest \in 0 .. MaxRuns /\ runs \in [1 .. Newest -> Run] /\ current \in {0, Newest})'
      BY <1>1, <1>4, <1>5, <1>6, <1>7
    <2>2. \A q \in Handlers : /\ h'[q].pc = "prepare" => h'[q].doc \in Docs
                              /\ h'[q].pc = "start" => ws' \in Docs
      BY <1>3, <1>4, <1>9 DEF Inductive, Typed, At
    <2>3. status' \in Phases
      BY <1>4 DEF Phases
    <2> QED
      BY <1>4, <1>9, <2>1, <2>2, <2>3 DEF Inductive, Typed, At
  <1>11. Ended'
    BY <1>2, <1>7 DEF Inductive, Ended
  <1>12. Working'
    BY <1>4 DEF Working
  <1>13. NoStaleRun'
    BY <1>2, <1>4, <1>7 DEF NoStaleRun
  <1>14. Cancellable'
    <2>1. \A r \in DOMAIN runs : runs[r].proc = "up" => Late
      BY <1>4, RunningIsNewest
    <2>2. \A r \in DOMAIN runs' : runs'[r].proc = "up" => current' = r \/ Late'
      BY <1>4, <1>7, <1>8, <2>1
    <2> QED
      BY <2>2 DEF Cancellable, Late
  <1>15. Earned'
    BY <1>3, <1>4, <1>8, <1>9 DEF Inductive, Earned, At
  <1> QED
    BY <1>10, <1>11, <1>12, <1>13, <1>14, <1>15 DEF Inductive

\* One run changes: runs stay numbered, the others stay as they were, and success is kept
\* when that run keeps its own.
LEMMA RunChanges ==
    ASSUME Inductive, NEW r \in DOMAIN runs, NEW new \in Run,
           runs' = [runs EXCEPT ![r] = new], runs[r].proc = "ok" => new.proc = "ok"
    PROVE  /\ DOMAIN runs' = DOMAIN runs /\ Newest' = Newest /\ runs' \in [1 .. Newest -> Run]
           /\ runs'[r] = new /\ \A i \in DOMAIN runs : i # r => runs'[i] = runs[i]
           /\ Applied => Applied'
  <1>1. runs \in [1 .. Newest -> Run]
    BY DEF Inductive, Typed
  <1>2. DOMAIN runs' = DOMAIN runs /\ runs' \in [1 .. Newest -> Run]
        /\ runs'[r] = new /\ \A i \in DOMAIN runs : i # r => runs'[i] = runs[i]
    BY <1>1
  <1>3. Newest' = Newest
    BY <1>2 DEF Newest
  <1>4. Applied => Applied'
    BY <1>2 DEF Applied
  <1> QED
    BY <1>2, <1>3, <1>4

\* The run's goroutine, or its process, goes on while no request moves: what is left to show
\* is about the run and the status.
LEMMA RunMoves ==
    ASSUME Inductive, NEW r \in DOMAIN runs, NEW new \in Run,
           runs' = [runs EXCEPT ![r] = new], runs[r].proc = "ok" => new.proc = "ok",
           UNCHANGED <<ws, pending, catalog, h>>, status' \in Phases,
           current' \in {0, current},
           new.stage # "wait" => new.proc \in {"ok", "err"},
           new.proc # "up",
           current' = r => new.stage = "wait",
           status' # status /\ ~Late => \A i \in DOMAIN runs : runs[i].proc = "up" => new.stage = "late",
           current' # current => current = r,
           runs[r].stage = "late" => new.stage = "late",
           status' = "succeeded" => status = "succeeded" \/ new.proc = "ok"
    PROVE  Inductive'
  <1>1. /\ DOMAIN runs' = DOMAIN runs /\ Newest' = Newest /\ runs' \in [1 .. Newest -> Run]
        /\ runs'[r] = new /\ \A i \in DOMAIN runs : i # r => runs'[i] = runs[i]
        /\ Applied => Applied'
    BY RunChanges
  <1>2. (Late => Late') /\ (new.stage = "late" => Late') /\ (new.proc = "ok" => Applied')
    BY <1>1 DEF Late, Applied
  <1>3. Typed'
    BY <1>1 DEF Inductive, Typed, At
  <1>4. Ended'
    BY <1>1 DEF Inductive, Ended
  <1>5. Working'
    <2>1. ASSUME NEW i \in DOMAIN runs', runs'[i].proc = "up"
          PROVE  status' = "working" \/ Late'
      BY <1>1, <1>2, <2>1 DEF Inductive, Working
    <2> QED
      BY <2>1 DEF Working
  <1>6. NoStaleRun'
    <2>1. current' # 0 => current' = current /\ current' \in DOMAIN runs
      BY DEF Inductive, Typed
    <2> QED
      BY <1>1, <2>1 DEF Inductive, NoStaleRun
  <1>7. Cancellable'
    <2>1. \A i \in DOMAIN runs : runs[i].proc = "up" => current = i \/ Late
      BY DEF Inductive, Cancellable, Late
    <2>2. \A i \in DOMAIN runs' : runs'[i].proc = "up" => current' = i \/ Late'
      BY <1>1, <1>2, <2>1
    <2> QED
      BY <2>2 DEF Cancellable, Late
  <1>8. Earned'
    BY <1>1, <1>2 DEF Inductive, Earned, At
  <1> QED
    BY <1>3, <1>4, <1>5, <1>6, <1>7, <1>8 DEF Inductive

LEMMA KeepsProcessExits ==
    ASSUME Inductive, NEW r \in DOMAIN runs, ProcessExits(r)
    PROVE  Inductive'
  <1>1. PICK result \in {"ok", "err"} : runs' = [runs EXCEPT ![r].proc = result]
    BY DEF ProcessExits
  <1> DEFINE new == [runs[r] EXCEPT !.proc = result]
  <1>2. runs[r] \in Run /\ runs[r].proc \in {"up", "killed"} /\ status \in Phases
        /\ UNCHANGED <<ws, status, current, pending, catalog, h>>
    BY DEF Inductive, Typed, ProcessExits, face
  <1>3. new \in Run /\ new.proc = result /\ new.stage = runs[r].stage
    BY <1>2 DEF Run
  <1>4. runs' = [runs EXCEPT ![r] = new]
    BY <1>1
  <1>5. current = r => runs[r].stage = "wait"
    <2>1. r # 0
      BY DEF Inductive, Typed
    <2> QED
      BY <2>1 DEF Inductive, NoStaleRun
  <1> HIDE DEF new
  <1> QED
    BY <1>2, <1>3, <1>4, <1>5, RunMoves

LEMMA KeepsFinishLocked ==
    ASSUME Inductive, NEW r \in DOMAIN runs, FinishLocked(r)
    PROVE  Inductive'
  <1> DEFINE stage == IF runs[r].cancel THEN "cancelled" ELSE "ended"
             new == [runs[r] EXCEPT !.stage = stage]
  <1>1. runs[r] \in Run /\ runs[r].proc \in {"ok", "err"} /\ runs[r].stage = "wait"
        /\ status \in Phases /\ UNCHANGED <<ws, status, pending, catalog, h>>
        /\ current' = (IF current = r THEN 0 ELSE current)
    BY DEF Inductive, Typed, FinishLocked, face
  <1>2. new \in Run /\ new.proc = runs[r].proc
    BY <1>1 DEF Run
  <1>3. runs' = [runs EXCEPT ![r] = new]
    BY DEF FinishLocked
  <1>4. r # 0
    BY DEF Inductive, Typed
  <1> HIDE DEF new
  <1> QED
    BY <1>1, <1>2, <1>3, <1>4, RunMoves

\* A goroutine past the lock is not registered any more.
LEMMA PastTheLock ==
    ASSUME Inductive, NEW r \in DOMAIN runs, runs[r].stage \in {"cancelled", "ended"}
    PROVE  runs[r] \in Run /\ runs[r].proc \in {"ok", "err"} /\ current # r
  <1>1. r # 0
    BY DEF Inductive, Typed
  <1> QED
    BY <1>1 DEF Inductive, Typed, Ended, NoStaleRun

\* The final status of a run comes late exactly when a newer run may be up.
LEMMA KeepsFinishStatus ==
    ASSUME Inductive, NEW r \in DOMAIN runs, FinishStatus(r)
    PROVE  Inductive'
  <1> DEFINE new == [runs[r] EXCEPT !.stage = Written(r)]
  <1>1. runs[r].stage \in {"cancelled", "ended"} /\ UNCHANGED <<ws, current, pending, catalog, h>>
        /\ status' \in {"cancelled", "succeeded", "failed"}
        /\ (status' = "succeeded" => runs[r].proc = "ok")
    BY DEF FinishStatus, face
  <1>2. runs[r] \in Run /\ runs[r].proc \in {"ok", "err"} /\ current # r
    BY <1>1, PastTheLock
  <1>3. Written(r) \in {"late", "done"}
    BY DEF Written
  <1>4. new \in Run /\ new.proc = runs[r].proc /\ new.stage = Written(r)
    BY <1>2, <1>3 DEF Run
  <1>5. runs' = [runs EXCEPT ![r] = new]
    BY DEF FinishStatus
  <1>6. ~Late => \A i \in DOMAIN runs : runs[i].proc = "up" => Written(r) = "late"
    <2>1. ASSUME ~Late, NEW i \in DOMAIN runs, runs[i].proc = "up"
          PROVE  r + 1 \in DOMAIN runs
      <3>1. i = Newest /\ i # r
        BY <1>2, <2>1, RunningIsNewest
      <3>2. DOMAIN runs = 1 .. Newest /\ Newest \in Nat
        BY DEF Inductive, Typed
      <3> QED
        BY <3>1, <3>2
    <2> QED
      BY <2>1 DEF Written
  <1>7. status' \in Phases
    BY <1>1 DEF Phases
  <1> HIDE DEF new
  <1> QED
    BY <1>1, <1>2, <1>3, <1>4, <1>5, <1>6, <1>7, RunMoves

LEMMA KeepsFinishLost ==
    ASSUME Inductive, NEW r \in DOMAIN runs, FinishLost(r)
    PROVE  Inductive'
  <1> DEFINE new == [runs[r] EXCEPT !.stage = "lost"]
  <1>1. runs[r].stage \in {"cancelled", "ended"}
        /\ UNCHANGED <<ws, status, current, pending, catalog, h>> /\ status \in Phases
    BY DEF FinishLost, face, Inductive, Typed
  <1>2. runs[r] \in Run /\ runs[r].proc \in {"ok", "err"} /\ current # r
    BY <1>1, PastTheLock
  <1>3. new \in Run /\ new.proc = runs[r].proc /\ new.stage = "lost"
    BY <1>2 DEF Run
  <1>4. runs' = [runs EXCEPT ![r] = new]
    BY DEF FinishLost
  <1> HIDE DEF new
  <1> QED
    BY <1>1, <1>2, <1>3, <1>4, RunMoves

\* A cancel kills the registered process before it writes the status, so that no process
\* runs under a cancelled status unless one came late.
LEMMA KeepsCancelDeploy ==
    ASSUME Inductive, NEW p \in Handlers, CancelDeploy(p)
    PROVE  Inductive'
  <1> DEFINE next == [h[p] EXCEPT !.pc = "forget"]
  <1>1. h \in [Handlers -> Handling] /\ h[p] \in Handling /\ status \in Phases
        /\ (h[p].reply = "succeeded" => Applied)
    BY DEF Inductive, Typed, Earned
  <1>2. next \in Handling /\ next.pc = "forget" /\ next.reply = h[p].reply
    BY <1>1 DEF Handling, Labels
  <1>3. Become(p, next) /\ UNCHANGED <<ws, current, pending, catalog>>
        /\ status' = (IF Terminal(status) THEN status ELSE "cancelled")
    BY DEF CancelDeploy, face
  <1>4. status' \in Phases /\ status' \in {status, "cancelled"}
    BY <1>1, <1>3 DEF Phases
  <1> HIDE DEF next
  <1>5. /\ h' \in [Handlers -> Handling]
        /\ h'[p] = next
        /\ \A q \in Handlers : q # p => h'[q] = h[q]
    BY <1>1, <1>2, <1>3, BecomeFields
  <1>6. /\ DOMAIN runs' = DOMAIN runs /\ Newest' = Newest /\ runs' \in [1 .. Newest -> Run]
        /\ Applied => Applied'
        /\ \A i \in DOMAIN runs : /\ runs'[i].stage = runs[i].stage
                                  /\ i # current => runs'[i] = runs[i]
                                  /\ runs[i].proc # "up" => runs'[i].proc = runs[i].proc
        /\ current \in DOMAIN runs => runs'[current].proc # "up"
    <2>1. CASE current = 0
      <3>1. runs' = runs /\ current \notin DOMAIN runs
        BY <2>1 DEF CancelDeploy, Inductive, Typed
      <3> QED
        BY <3>1 DEF Newest, Applied, Inductive, Typed
    <2>2. CASE current # 0
      <3> DEFINE proc == IF runs[current].proc = "up" THEN "killed" ELSE runs[current].proc
                 new == [runs[current] EXCEPT !.cancel = TRUE, !.proc = proc]
      <3>1. current \in DOMAIN runs /\ runs[current] \in Run /\ runs \in [1 .. Newest -> Run]
        BY <2>2 DEF Inductive, Typed
      <3>2. proc \in {"killed", "ok", "err"} /\ (runs[current].proc # "up" => proc = runs[current].proc)
        BY <3>1 DEF Run
      <3> HIDE DEF proc
      <3>3. new \in Run /\ new.proc = proc /\ new.stage = runs[current].stage
        BY <3>1, <3>2 DEF Run
      <3>4. runs' = [runs EXCEPT ![current] = new]
        BY <2>2, <3>1 DEF CancelDeploy, proc
      <3> HIDE DEF new
      <3>5. /\ DOMAIN runs' = DOMAIN runs /\ Newest' = Newest /\ runs' \in [1 .. Newest -> Run]
            /\ runs'[current] = new /\ \A i \in DOMAIN runs : i # current => runs'[i] = runs[i]
            /\ Applied => Applied'
        BY <3>1, <3>2, <3>3, <3>4, RunChanges
      <3> QED
        BY <3>2, <3>3, <3>5
    <2> QED
      BY <2>1, <2>2
  <1>7. Late' = Late
    BY <1>6 DEF Late
  <1>8. Typed'
    <2>1. (Newest \in 0 .. MaxRuns /\ runs \in [1 .. Newest -> Run] /\ current \in {0, Newest})'
      BY <1>3, <1>6 DEF Inductive, Typed
    <2>2. \A q \in Handlers : /\ h'[q].pc = "prepare" => h'[q].doc \in Docs
                              /\ h'[q].pc = "start" => ws' \in Docs
      BY <1>2, <1>3, <1>5 DEF Inductive, Typed, At
    <2> QED
      BY <1>3, <1>4, <1>5, <2>1, <2>2 DEF Inductive, Typed, At
  <1>9. Ended'
    BY <1>6 DEF Inductive, Ended
  <1>10. \A i \in DOMAIN runs' : runs'[i].proc = "up" => i # current /\ runs[i].proc = "up"
    BY <1>6
  <1>11. \A i \in DOMAIN runs' : runs'[i].proc = "up" => Late
    BY <1>6, <1>10 DEF Inductive, Cancellable, Late
  <1>12. Working' /\ Cancellable'
    BY <1>7, <1>11 DEF Working, Cancellable, Late
  <1>13. NoStaleRun'
    <2>1. current # 0 => current \in DOMAIN runs
      BY DEF Inductive, Typed
    <2> QED
      BY <1>3, <1>6, <2>1 DEF Inductive, NoStaleRun
  <1>14. Earned'
    BY <1>1, <1>2, <1>3, <1>4, <1>5, <1>6 DEF Inductive, Earned, At
  <1> QED
    BY <1>8, <1>9, <1>12, <1>13, <1>14 DEF Inductive

-----------------------------------------------------------------------------
LEMMA InductiveInit == Init => Inductive
  <1> SUFFICES ASSUME Init PROVE Inductive
    OBVIOUS
  <1>1. DOMAIN runs = {} /\ Newest = 0
    BY FS_EmptySet DEF Init, Newest
  <1>2. runs \in [1 .. Newest -> Run]
    BY <1>1 DEF Init
  <1>3. h \in [Handlers -> Handling] /\ \A p \in Handlers : h[p] = Idle
    BY IdleTyped DEF Init
  <1>4. Typed
    BY <1>1, <1>2, <1>3, IdleTyped, BoundsAssumption DEF Init, Typed, Phases, At
  <1>5. Ended /\ Working /\ NoStaleRun /\ Cancellable
    BY <1>1 DEF Init, Ended, Working, NoStaleRun, Cancellable
  <1>6. Earned
    BY <1>3, IdleTyped DEF Init, Earned, At
  <1> QED
    BY <1>4, <1>5, <1>6 DEF Inductive

LEMMA InductiveStep == Inductive /\ [Next]_vars => Inductive'
  <1> SUFFICES ASSUME Inductive, [Next]_vars PROVE Inductive'
    OBVIOUS
  <1>1. ASSUME NEW p \in Handlers, Handle(p) PROVE Inductive'
    BY <1>1, KeepsStartPrepare, MovesStartRunning, KeepsStartRun, KeepsStartFails,
       KeepsCancelDeploy, MovesDeployStatus, MovesReplies DEF Handle
  <1>2. ASSUME NEW p \in Handlers,
               ServePoll(p) \/ ServeCancel(p) \/ \E doc \in Docs : ServeStart(p, doc)
        PROVE  Inductive'
    BY <1>2, MovesServe
  <1>3. ASSUME NEW r \in DOMAIN runs, Finish(r) PROVE Inductive'
    BY <1>3, KeepsProcessExits, KeepsFinishLocked, KeepsFinishStatus, KeepsFinishLost DEF Finish
  <1>4. CASE UNCHANGED vars
    BY <1>4 DEF vars, Inductive, Typed, Newest, At, Ended, Working, Late, Earned, Applied,
                NoStaleRun, Cancellable
  <1> QED
    BY <1>1, <1>2, <1>3, <1>4 DEF Next

LEMMA InductiveInvariance == Spec => []Inductive
  BY InductiveInit, InductiveStep, PTL DEF Spec

\* The workspace, the status file, the run map and the catalog hold what their code writes,
\* and the run map names a run that was started.
THEOREM TypeCorrect == Spec => []TypeOK
  <1>1. Inductive => TypeOK
    <2> SUFFICES ASSUME Inductive PROVE TypeOK
      OBVIOUS
    <2>1. DOMAIN runs = 1 .. Newest /\ Newest \in Nat /\ Newest <= MaxRuns /\ MaxRuns \in Nat
      BY BoundsAssumption DEF Inductive, Typed
    <2>2. DOMAIN runs \subseteq 1 .. MaxRuns
      BY <2>1
    <2>3. current \in {0} \cup DOMAIN runs
      BY <2>1 DEF Inductive, Typed
    <2> QED
      BY <2>2, <2>3 DEF Inductive, Typed, TypeOK, Run, Handling
  <1> QED
    BY <1>1, InductiveInvariance, PTL

\* A compose process that runs is the registered run, which a cancel can stop, unless the
\* final status of an earlier run has come late; a registered run has not ended; and no
\* document enters the catalog before compose has succeeded once: for any number of
\* concurrent starts, polls and cancels and whatever writes and replies fail.
THEOREM DeploySupervised == Spec => []Supervised
  <1>1. Inductive => Supervised
    BY DEF Inductive, Earned, Applied, MarkedAfterApply, Supervised
  <1> QED
    BY <1>1, InductiveInvariance, PTL
=============================================================================
