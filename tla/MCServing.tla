----------------------------- MODULE MCServing ------------------------------
(* What serves traffic, for TLC, one scene per initial state: a reverse    *)
(* mapping with its recovery loop ("race") and with failing requests       *)
(* ("retry"), the shadowsocks listener directory over one Agent ("listen") *)
(* and its routing over two ("routing"), one proxied connection ("stream") *)
(* and the DNS service being closed ("revoke").  The scenes share no state *)
(* and never change.                                                       *)
EXTENDS MCReverseL4, TLC

CONSTANT Scenes

VARIABLES
    scene,
    alive, minted, stored, storedRoute, dir, bound, w, spare, ops, lFaults, crashes, drops,
    broken, drift,
    client, arrived, taken, prefix, pc, reason, buf, nonce, payload, up, peer, out, reading,
    replied, back, seal, opened, got,
    live, closing, count, semaphore, clock, lastNow, cache, bytes, statuses, req, calls

listens == <<alive, minted, stored, storedRoute, dir, bound, w, spare, ops, lFaults, crashes,
             drops, broken, drift>>
stream == <<client, arrived, taken, prefix, pc, reason, buf, nonce, payload, up, peer, out,
            reading, replied, back, seal, opened, got>>
dns == <<live, closing, count, semaphore, clock, lastNow, cache, bytes, statuses, req, calls>>

Failing == INSTANCE ReverseL4 WITH
    Faults <- {"down", "lost", "save", "crash"}, Recovers <- FALSE,
    MaxRequests <- 4, MaxFaults <- 3, MaxLosses <- 0, MaxOthers <- 0

\* A modern listener with one user, secrets 1 and 2.
OneHome == "x1" :> [agent |-> "n1", port |-> 1, server |-> 2,
                    users |-> ("x2" :> [ref |-> 1, on |-> TRUE])]
\* A traditional one on the same port of another Agent.
TwoHome == OneHome @@ ("x3" :> [agent |-> "n2", port |-> 1, server |-> 0,
                                users |-> ("x4" :> [ref |-> 3, on |-> TRUE])])
Listen == INSTANCE ListenPlane WITH
    Agents <- {"n1"}, Ports <- {1, 2}, Names <- {"x1", "x2", "x3", "x4"}, Upstreams <- {},
    Workers <- {"h1"}, Reconciler <- "ticker", Direct <- "direct", Nobody <- "nobody",
    Home <- OneHome,
    Ops <- {"create", "append", "enable", "disable", "deleteUser", "deleteListen",
            "rotateUser", "rotateServer", "view"},
    MaxOps <- 2, MaxFaults <- 1, MaxCrashes <- 1, MaxDrops <- 0, faults <- lFaults
Routing == INSTANCE ListenPlane WITH
    Agents <- {"n1", "n2"}, Ports <- {1}, Names <- {"x1", "x2", "x3", "x4"}, Upstreams <- {"u1"},
    Workers <- {"h1"}, Reconciler <- "ticker", Direct <- "direct", Nobody <- "nobody",
    Home <- TwoHome,
    Ops <- {"addUpstream", "setRouting", "toggleUpstream", "deleteUpstream", "disable",
            "deleteListen"},
    MaxOps <- 2, MaxFaults <- 1, MaxCrashes <- 0, MaxDrops <- 1, faults <- lFaults

\* Connections of two accounts, with and without a first payload, in chunks of several
\* sizes; the sniffer needs 1 to 3 bytes, or more than there are; every kind of route.
Connections ==
    {c \in [account : {"a", "b"}, stale : BOOLEAN, first : {0, 1},
            chunks : {<<1>>, <<1, 2>>, <<3, 1>>, <<0, 2>>},
            domain : BOOLEAN, need : {1, 2, 3, 9}, route : {"direct", "reject", "legacy", "2022"}] :
        /\ c.stale => c.route = "direct" /\ c.need = 1
        /\ c.domain => c.need = 1
        /\ c.account = "b" => c.route = "direct"}
Stream == INSTANCE ProxyStream WITH
    Accounts <- <<"a", "b">>, Clients <- Connections, MaxLegacy <- 2, MaxSniff <- 3,
    Max2022 <- 6, AddressSize <- 1, MaxReply <- 2

Question(ecs, size) == [name |-> <<"www", "a">>, ecs |-> ecs, size |-> size]
Upstream(id, domain) == [id |-> id, domain |-> domain, enabled |-> TRUE]
Dns == INSTANCE DohService WITH
    Requests <- {"r1", "r2"}, Keys <- {Question("none", 1)},
    Upstreams <- <<Upstream("u1", <<"a">>), Upstream("u2", <<>>), Upstream("u3", <<"a">>)>>,
    MaxConcurrency <- 1, MaxEntries <- 1, MaxBytes <- 1, MinTTL <- 1, MaxTTL <- 1,
    TTLs <- {2}, MaxTime <- 1

\* What a component that plays no part in a scene looks like.
StreamRests == Stream!Init /\ client = CHOOSE c \in Connections : TRUE

MCInit ==
    /\ scene \in Scenes
    /\ Init
    /\ IF scene = "routing" THEN Routing!Init ELSE Listen!Init
    /\ IF scene = "stream" THEN Stream!Init ELSE StreamRests
    /\ Dns!Init
OfMapping == UNCHANGED <<listens, stream, dns, scene>>
OfListens == UNCHANGED <<vars, stream, dns, scene>>
OfStream == UNCHANGED <<vars, listens, dns, scene>>
OfDns == UNCHANGED <<vars, listens, stream, scene>>
MCNext ==
    \/ /\ (scene = "race" /\ Next) \/ (scene = "retry" /\ Failing!Next)
       /\ OfMapping
    \/ /\ (scene = "listen" /\ Listen!Next) \/ (scene = "routing" /\ Routing!Next)
       /\ OfListens
    \/ scene = "stream" /\ Stream!Next /\ OfStream
    \/ scene = "revoke" /\ Dns!Next /\ OfDns
mcvars == <<vars, listens, stream, dns, scene>>

\* The fairness of each component's own specification.  A scene never changes, so weak
\* fairness of a disjunction over scenes is weak fairness of the disjunct of each.
Fair1 ==
    \/ /\ (scene = "race" /\ AdmCall) \/ (scene = "retry" /\ Failing!AdmCall)
       /\ OfMapping
    \/ /\ (scene = "listen" /\ Listen!Call("h1")) \/ (scene = "routing" /\ Routing!Call("h1"))
       /\ OfListens
    \/ scene = "stream" /\ Stream!Arrive /\ OfStream
    \/ scene = "revoke" /\ Dns!Revoke /\ OfDns
Fair2 ==
    \/ /\ (scene = "race" /\ AdmCommit) \/ (scene = "retry" /\ Failing!AdmCommit)
       /\ OfMapping
    \/ /\ (scene = "listen" /\ Listen!Call("ticker")) \/ (scene = "routing" /\ Routing!Call("ticker"))
       /\ OfListens
    \/ scene = "stream" /\ Stream!ReadHandshake /\ OfStream
    \/ scene = "revoke" /\ Dns!Reset /\ OfDns
Fair3 ==
    \/ /\ (scene = "race" /\ Retry) \/ (scene = "retry" /\ Failing!Retry)
       /\ OfMapping
    \/ /\ scene = "stream" /\ (Stream!SniffChunk \/ Stream!SniffTimeout \/ Stream!SniffEnough)
       /\ OfStream
    \/ scene = "revoke" /\ Dns!Progress("r1") /\ OfDns
Fair4 ==
    \/ scene = "race" /\ Recovery /\ OfMapping
    \/ scene = "stream" /\ Stream!Open /\ OfStream
    \/ scene = "revoke" /\ Dns!Progress("r2") /\ OfDns
Fair5 ==
    \/ scene = "stream" /\ Stream!RelayToTarget /\ OfStream
    \/ scene = "revoke" /\ Dns!Expire("r1") /\ OfDns
Fair6 ==
    \/ scene = "stream" /\ Stream!RelayToClient /\ OfStream
    \/ scene = "revoke" /\ Dns!Expire("r2") /\ OfDns
Visit(a) ==
    /\ \/ scene = "listen" /\ a = "n1" /\ Listen!Reconcile("ticker", a)
       \/ scene = "routing" /\ Routing!Reconcile("ticker", a)
    /\ OfListens
MCSpec ==
    /\ MCInit /\ [][MCNext]_mcvars
    /\ WF_mcvars(Fair1) /\ WF_mcvars(Fair2) /\ WF_mcvars(Fair3)
    /\ WF_mcvars(Fair4) /\ WF_mcvars(Fair5) /\ WF_mcvars(Fair6)
    /\ SF_mcvars(Visit("n1")) /\ SF_mcvars(Visit("n2"))
-----------------------------------------------------------------------------
\* Every variable of the component that plays has its type.
Types ==
    CASE scene = "race" -> TypeOK
      [] scene = "retry" -> Failing!TypeOK
      [] scene = "listen" -> Listen!TypeOK
      [] scene = "routing" -> Routing!TypeOK
      [] scene = "stream" -> Stream!TypeOK
      [] scene = "revoke" -> Dns!TypeOK

\* When nobody works on a reverse mapping, what the host runs belongs to its record, and a
\* disabled one takes no traffic; a recovery never gets the recorded outcome of another
\* call (service.go, recovery.go of reverse-l4).
Bindings ==
    /\ scene = "race" => NoOrphan /\ DisabledQuiet /\ FreshKeys
    /\ scene = "retry" => Failing!NoOrphan /\ Failing!DisabledQuiet

\* Between requests every secret the listener directory asks for can be delivered, and a
\* bound listener serves what the directory says (app_ui.go of shadowsocks-server).
ListenersTrue ==
    /\ scene = "listen" => Listen!RefsAlive /\ Listen!ServesDirectory
    /\ scene = "routing" => Routing!RefsAlive /\ Routing!ServesDirectory

\* An enabled reverse mapping ends up on the host as the catalog has it, and an Agent with a
\* saved listener with exactly the saved ids on their ports, after whatever restarts, lost
\* sessions and failed calls (recovery.go, reconcileListensUntilStopped).
Recovered ==
    <>[](/\ scene \in {"race", "retry"} /\ cat # None /\ cat.enabled => Serving
         /\ scene = "listen" => Listen!Rebound
         /\ scene = "routing" => Routing!Rebound)

\* No byte of a proxied connection is lost, repeated or reordered on its way to the target
\* or back (handleTCP, transactionalSniffChunk, prefixConn).
Intact == scene = "stream" => Stream!Intact

\* A connection that is not refused or ended gets all its bytes through, and Close of the DNS
\* service finishes even if a host call never returns (handleTCP, boundedHostCall).
Completes ==
    <>[](/\ scene = "stream" => Stream!Through
         /\ scene = "revoke" => Dns!Closed)
=============================================================================
