--------------------------- MODULE ListenerEngine ---------------------------
(***************************************************************************)
(* A bound listener of the shadowsocks-server plugin on its agent          *)
(* (boundListen and the part of listenExecutor that replaces it): the      *)
(* accept loops, one handler per connection or datagram, the engines and   *)
(* routes an apply swaps under running handlers, the routing snapshot a    *)
(* UDP flow keeps, and close.                                              *)
(*                                                                         *)
(* An engine is a number; made[e] is the secret it was built from.  What a *)
(* handler does with the bytes is the subject of ProxyStream.              *)
(***************************************************************************)
EXTENDS Naturals, Sequences, SequencesExt, FiniteSets

CONSTANTS
    Users, Secrets,
    Flows,             \* UDP flows of the Host, by token: a token is used once
    Handlers, Nobody,
    MaxFlowRoutes,     \* 256 in snapshotRoutesForFlow
    MaxApplies

VARIABLES
    engines, made, dead,      \* engine of each user, 0 for none; destroyed engines
    routes,                   \* current snapshot, by number
    flowRoutes, flowOrder,    \* snapshot pinned by a flow, and their order
    flows,                    \* managedPacketConn.flows: tokens that are open
    phase, held,              \* of the listener; a connection accepted and not yet handed over
    h,                        \* handlers
    task, next, applies,      \* the apply in progress: its step and its engines
    pinned                    \* history: the snapshot that first decided for a flow

state == <<engines, made, dead, routes, flowRoutes, flowOrder, flows>>
vars == <<state, phase, held, h, task, next, applies, pinned>>

NoEngine == 0
Resting == [step |-> "idle", flow |-> Nobody, seen |-> {}]
Running == {p \in Handlers : h[p].step # "idle"}
Bound == {engines[u] : u \in Users} \ {NoEngine}
Prepared == {next[u] : u \in Users} \ {NoEngine}

(***************************************************************************)
(* Loops and handlers                                                      *)
(***************************************************************************)
(* Accept and ReadFrom return before the loop hands the result over        *)
Accept(f) ==
    /\ phase = "open" /\ held = Nobody
    /\ f = "tcp" \/ f \in flows
    /\ held' = f
    /\ UNCHANGED <<state, phase, h, task, next, applies, pinned>>

(* goHandle: a closed listener starts no handler                           *)
GoHandle(p) ==
    /\ held # Nobody /\ p \notin Running
    /\ held' = Nobody
    /\ h' = IF phase # "open" THEN h
            ELSE [h EXCEPT ![p] = [step |-> "read", flow |-> held, seen |-> Bound]]
    /\ UNCHANGED <<state, phase, task, next, applies, pinned>>

(* The engines of the snapshot are tried; a destroyed one opens nothing    *)
Authenticate(p) ==
    /\ h[p].step = "read"
    /\ \/ h' = [h EXCEPT ![p] = Resting]
       \/ /\ h[p].seen \ dead # {}
          /\ h' = [h EXCEPT ![p].step = "route"]
    /\ UNCHANGED <<state, phase, held, task, next, applies, pinned>>

(* snapshotRoutesForFlow: pins of flows that are gone are dropped, then    *)
(* the oldest while there are too many, and the current snapshot is pinned *)
Swept == SelectSeq(flowOrder, LAMBDA f : f \in flows)
Trimmed == IF Len(Swept) < MaxFlowRoutes THEN Swept
           ELSE SubSeq(Swept, Len(Swept) - MaxFlowRoutes + 2, Len(Swept))
SnapshotRoutesForFlow(p) ==
    LET f == h[p].flow
        order == Append(Trimmed, f)
        evicted == ToSet(Swept) \ ToSet(Trimmed)
    IN  IF flowRoutes[f] # NoEngine
        THEN UNCHANGED <<flowRoutes, flowOrder, pinned>>
        ELSE /\ flowOrder' = order
             /\ flowRoutes' = [g \in Flows |-> CASE g = f -> routes
                                                 [] g \notin ToSet(order) -> NoEngine
                                                 [] OTHER -> flowRoutes[g]]
             /\ pinned' = [g \in Flows |-> CASE g = f /\ pinned[g] = NoEngine -> routes
                                             [] g \in evicted /\ (g # f \/ pinned[g] # NoEngine) -> NoEngine
                                             [] OTHER -> pinned[g]]

Route(p) ==
    /\ h[p].step = "route"
    /\ IF h[p].flow = "tcp" THEN UNCHANGED <<flowRoutes, flowOrder, pinned>>
       ELSE IF phase = "open" \/ flowRoutes[h[p].flow] # NoEngine THEN SnapshotRoutesForFlow(p)
       ELSE UNCHANGED <<flowRoutes, flowOrder, pinned>>
    /\ h' = [h EXCEPT ![p].step = "relay"]
    /\ UNCHANGED <<engines, made, dead, routes, flows, phase, held, task, next, applies>>

(* The relays end, or the response was sealed and sent or given up         *)
Finish(p) ==
    /\ h[p].step = "relay"
    /\ h' = [h EXCEPT ![p] = Resting]
    /\ UNCHANGED <<state, phase, held, task, next, applies, pinned>>

(* receive: the Host ends a flow                                           *)
FlowEnds(f) ==
    /\ f \in flows /\ flows' = flows \ {f}
    /\ UNCHANGED <<engines, made, dead, routes, flowRoutes, flowOrder, phase, held, h,
                   task, next, applies, pinned>>

(***************************************************************************)
(* apply, under exec.mu                                                    *)
(***************************************************************************)
(* assembleUserEngines: a user whose secret is unchanged keeps its engine  *)
Assemble(secret) ==
    LET fresh == {u \in Users : secret[u] # NoEngine
                     /\ (engines[u] = NoEngine \/ made[engines[u]] # secret[u])}
        order == SetToSeq(fresh)
        id(u) == Len(made) + CHOOSE i \in DOMAIN order : order[i] = u
    IN  /\ next' = [u \in Users |-> IF secret[u] = NoEngine THEN NoEngine
                                    ELSE IF u \in fresh THEN id(u) ELSE engines[u]]
        /\ made' = made \o [i \in DOMAIN order |-> secret[order[i]]]

Prepare ==
    /\ task = "idle" /\ phase = "open" /\ applies < MaxApplies
    /\ applies' = applies + 1 /\ task' = "prepared"
    /\ \E secret \in [Users -> Secrets \cup {NoEngine}] : Assemble(secret)
    /\ UNCHANGED <<engines, dead, routes, flowRoutes, flowOrder, flows, phase, held, h, pinned>>

\* Mutant: the engines that were reused are destroyed too.
AbortAll ==
    /\ task = "prepared" /\ task' = "idle"
    /\ dead' = dead \cup Prepared
    /\ next' = [u \in Users |-> NoEngine]
    /\ UNCHANGED <<engines, made, routes, flowRoutes, flowOrder, flows, phase, held, h, applies, pinned>>

(* abortPrepared: another listener could not be prepared                   *)
AbortPrepared ==
    /\ task = "prepared" /\ task' = "idle"
    /\ dead' = dead \cup (Prepared \ Bound)
    /\ next' = [u \in Users |-> NoEngine]
    /\ UNCHANGED <<engines, made, routes, flowRoutes, flowOrder, flows, phase, held, h, applies, pinned>>

(* commitPrepared: replaceUserEngines                                      *)
ReplaceUserEngines ==
    /\ task = "prepared" /\ task' = "routes"
    /\ engines' = next
    /\ dead' = dead \cup (Bound \ Prepared)
    /\ UNCHANGED <<made, routes, flowRoutes, flowOrder, flows, phase, held, h, next, applies, pinned>>

ReplaceRoutes ==
    /\ task = "routes" /\ task' = "idle"
    /\ routes' = routes + 1
    /\ next' = [u \in Users |-> NoEngine]
    /\ UNCHANGED <<engines, made, dead, flowRoutes, flowOrder, flows, phase, held, h, applies, pinned>>

(* unbindLocked and close: no new handler, the loops end, wait for the     *)
(* handlers, destroy the engines                                           *)
Close ==
    /\ task = "idle" /\ phase = "open" /\ phase' = "closing"
    /\ flows' = {}
    /\ UNCHANGED <<engines, made, dead, routes, flowRoutes, flowOrder, held, h, task, next, applies, pinned>>

\* Mutant: the handlers that run are not waited for.
ClosedAtOnce ==
    /\ phase = "closing" /\ held = Nobody
    /\ phase' = "closed"
    /\ dead' = dead \cup Bound
    /\ engines' = [u \in Users |-> NoEngine]
    /\ flowRoutes' = [f \in Flows |-> NoEngine] /\ flowOrder' = <<>>
    /\ UNCHANGED <<made, routes, flows, held, h, task, next, applies, pinned>>

Closed ==
    /\ phase = "closing" /\ Running = {} /\ held = Nobody
    /\ phase' = "closed"
    /\ dead' = dead \cup Bound
    /\ engines' = [u \in Users |-> NoEngine]
    /\ flowRoutes' = [f \in Flows |-> NoEngine] /\ flowOrder' = <<>>
    /\ UNCHANGED <<made, routes, flows, held, h, task, next, applies, pinned>>

Init ==
    /\ engines = [u \in Users |-> NoEngine] /\ made = <<>> /\ dead = {}
    /\ routes = 1 /\ flowRoutes = [f \in Flows |-> NoEngine] /\ flowOrder = <<>> /\ flows = Flows
    /\ phase = "open" /\ held = Nobody /\ h = [p \in Handlers |-> Resting]
    /\ task = "idle" /\ next = [u \in Users |-> NoEngine] /\ applies = 0
    /\ pinned = [f \in Flows |-> NoEngine]

Handle(p) == GoHandle(p) \/ Authenticate(p) \/ Route(p) \/ Finish(p)

Next ==
    \/ \E f \in Flows \cup {"tcp"} : Accept(f)
    \/ \E p \in Handlers : Handle(p)
    \/ \E f \in Flows : FlowEnds(f)
    \/ Prepare \/ AbortPrepared \/ ReplaceUserEngines \/ ReplaceRoutes
    \/ Close \/ Closed

Spec == Init /\ [][Next]_vars

\* Every variable has its type.
TypeOK ==
    /\ engines \in [Users -> 0..Len(made)] /\ dead \subseteq 1..Len(made)
    /\ flowRoutes \in [Flows -> 0..routes] /\ flowOrder \in Seq(Flows) /\ flows \subseteq Flows
    /\ phase \in {"open", "closing", "closed"} /\ held \in Flows \cup {"tcp", Nobody}
    /\ h \in [Handlers -> [step : {"idle", "read", "route", "relay"}, flow : Flows \cup {"tcp", Nobody},
                           seen : SUBSET (1..Len(made))]]
    /\ task \in {"idle", "prepared", "routes"} /\ applies \in 0..MaxApplies

(* The engines that are not destroyed are the bound ones, and those of an  *)
(* apply in progress: an apply that fails destroys what it made and keeps  *)
(* what it reused, one that succeeds destroys only what it replaced        *)
(* (assembleUserEngines, abortPrepared, destroyUserEngines).               *)
EnginesOwned ==
    (1..Len(made)) \ dead = Bound \cup (IF task = "prepared" THEN Prepared ELSE {})

(* After close nothing runs on the listener's engines: no handler is left  *)
(* and none is started by a loop that already held a connection.           *)
CloseQuiet == phase = "closed" => Running = {} /\ Bound = {}

(* A UDP flow is decided by one routing snapshot for as long as it is open *)
(* and its pin was not evicted by newer flows, whatever is applied.        *)
RoutePinned ==
    /\ \A f \in Flows : f \in flows /\ pinned[f] # NoEngine => flowRoutes[f] = pinned[f]
    /\ Len(flowOrder) <= MaxFlowRoutes
=============================================================================
