---------------------------- MODULE ListenPlane ----------------------------
(***************************************************************************)
(* The listener directory of the shadowsocks-server plugin: the panel's    *)
(* handlers on the control plane, the scoped secrets they mint and revoke  *)
(* in the Host, the listener executor of each Agent, and the reconciler    *)
(* that rebinds what an Agent lost.                                        *)
(*                                                                         *)
(* A handler reads the whole directory once, computes the next one, and    *)
(* then works through "todo", its Host calls in the code's order; nothing  *)
(* excludes two handlers.  A call ends in "ok", "fail" (no effect) or      *)
(* "late" (the effect happens, the caller sees an error).  A secret is a   *)
(* number; 0 is the absent server secret of a traditional method.          *)
(***************************************************************************)
EXTENDS Naturals, Sequences, FiniteSets

CONSTANTS
    Agents, Ports,
    Names,         \* fresh ids of listeners and users
    Upstreams,     \* upstream ids
    Workers,       \* handlers
    Reconciler,    \* the ticker goroutine
    Direct,        \* the routing default that names no upstream
    Nobody,
    Home,          \* the saved listeners at the start, their secrets numbered from 1
    Ops,           \* the operations the panel offers
    MaxOps, MaxFaults, MaxCrashes, MaxDrops

Processes == Workers \cup {Reconciler}

VARIABLES
    alive,         \* secrets the Host delivers
    minted,        \* secrets created so far
    stored,        \* the persisted listeners
    storedRoute,   \* the persisted routing
    dir,           \* c.configuration: [listens, route]
    bound,         \* per Agent: the bound listeners, with what they serve
    w,             \* the processes
    spare,         \* ids not drawn yet
    ops, faults, crashes, drops,    \* bounds
    broken,        \* a compensating call failed, or a save ended "late"
    drift          \* Agents whose last apply ended late, carried a directory that
                   \* was no longer current or one a handler had yet to settle

state == <<alive, minted, stored, storedRoute, dir, bound>>
bounds == <<ops, faults, crashes, drops>>
vars == <<state, w, spare, bounds, broken, drift>>

Empty == [x \in {} |-> 0]
NoRoute == [ups |-> Empty, default |-> Direct]
NoDirectory == [listens |-> Empty, route |-> NoRoute]
Idle == [op |-> "none", agent |-> Nobody, key |-> Nobody, user |-> Nobody,
         prev |-> NoDirectory, next |-> NoDirectory, old |-> <<>>, new |-> <<>>,
         left |-> {}, items |-> Empty, todo |-> <<>>]

Busy(p) == w[p].op # "none"
At(p, step) == Busy(p) /\ w[p].todo # <<>> /\ Head(w[p].todo) = step
Quiet == \A p \in Processes : ~Busy(p)
Remove(f, x) == [y \in DOMAIN f \ {x} |-> f[y]]
Put(f, x, v) == [y \in DOMAIN f \cup {x} |-> IF y = x THEN v ELSE f[y]]

Continue(p, proc, rest) ==
    w' = [w EXCEPT ![p] = IF rest = <<>> THEN Idle ELSE [proc EXCEPT !.todo = rest]]
Advance(p) == Continue(p, w[p], Tail(w[p].todo))
Outcomes == {"ok", "fail", "late"}
Outcome(o) == /\ o # "ok" => faults < MaxFaults
              /\ faults' = IF o = "ok" THEN faults ELSE faults + 1

(***************************************************************************)
(* The directory and what it asks of an Agent                              *)
(***************************************************************************)
ListenersForAgent(d, a) == {l \in DOMAIN d.listens : d.listens[l].agent = a}
PortConflict(d, a, port) == \E l \in ListenersForAgent(d, a) : d.listens[l].port = port

ListenRefs(l) == ({l.server} \ {0}) \cup {l.users[u].ref : u \in DOMAIN l.users}
RouteRefs(r) == {r.ups[x].ref : x \in DOMAIN r.ups}
References(listens, route) ==
    UNION {ListenRefs(listens[l]) : l \in DOMAIN listens} \cup RouteRefs(route)

(* listenApplyItems with the routing of the directory                      *)
ApplyItems(d, a) ==
    [l \in ListenersForAgent(d, a) |->
       [port |-> d.listens[l].port, server |-> d.listens[l].server,
        users |-> d.listens[l].users, route |-> d.route]]

(* prepareOneLocked for every item: secrets resolve before anything is     *)
(* bound, and a port still held by another listener cannot be bound, also  *)
(* when the same request is about to unbind that listener.                 *)
EnabledRefs(item) ==
    ({item.server} \ {0})
      \cup {item.users[u].ref : u \in {x \in DOMAIN item.users : item.users[x].on}}
Prepared(a, items) ==
    \A l \in DOMAIN items :
      /\ EnabledRefs(items[l]) \subseteq alive
      /\ l \notin DOMAIN bound[a]
           => \A k \in DOMAIN bound[a] : bound[a][k].port # items[l].port

(* assembleUserEngines: only enabled users get an engine                   *)
Engines(item) ==
    [item EXCEPT !.users = [u \in {x \in DOMAIN item.users : item.users[x].on}
                              |-> item.users[u].ref]]
Served(a, items) == [l \in DOMAIN items |-> Engines(items[l])]

(* What an Agent reports of its listeners                                  *)
Report(a) == [l \in DOMAIN bound[a] |-> bound[a][l].port]

(* listenRuntimeMatchesDesired: ids and ports, not what they serve         *)
Matches(a) == Report(a) = [l \in ListenersForAgent(dir, a) |-> dir.listens[l].port]

(* The directory's own operations (model.go); the secrets of new listeners *)
(* and users get their numbers from "import".                              *)
WithListen(d, a, port, modern, l, u) ==
    [d EXCEPT !.listens = Put(@, l, [agent |-> a, port |-> port,
                                     server |-> IF modern THEN 1 ELSE 0,
                                     users |-> Put(Empty, u, [ref |-> 0, on |-> TRUE])])]
WithUser(d, l, u) == [d EXCEPT !.listens[l].users = Put(@, u, [ref |-> 0, on |-> TRUE])]
WithEnabled(d, l, u, on) == [d EXCEPT !.listens[l].users[u].on = on]
WithoutUser(d, l, u) == [d EXCEPT !.listens[l].users = Remove(@, u)]
WithoutListen(d, l) == [d EXCEPT !.listens = Remove(@, l)]

(* RoutingConfiguration.Validate: the default names an upstream of it      *)
ValidRoute(r) == r.default \in DOMAIN r.ups \cup {Direct}

(***************************************************************************)
(* Handlers: the directory they want and the calls they make               *)
(***************************************************************************)
Apply == <<"gather", "call">>

(* What each handler does, in order: mint its secrets, save, apply, revoke *)
Program(op) ==
    CASE op \in {"create", "append"} -> <<"import", "save">> \o Apply
      [] op \in {"enable", "disable"} -> <<"save">> \o Apply
      [] op \in {"deleteUser", "deleteListen"} -> <<"save">> \o Apply \o <<"retire">>
      [] op \in {"rotateUser", "rotateServer"} -> <<"import", "save">> \o Apply \o <<"retire">>
      [] op = "addUpstream" -> <<"import", "route", "spread">>
      [] op \in {"setRouting", "toggleUpstream"} -> <<"route", "spread">>
      [] op = "deleteUpstream" -> <<"route", "spread", "retire">>
      [] op = "view" -> <<"call">>

Rotation(p) == w[p].op \in {"rotateUser", "rotateServer"}
Routing(p) == w[p].op \in {"addUpstream", "setRouting", "toggleUpstream", "deleteUpstream"}

\* Mutant: the directory stays with the secret that is gone.
NoRedo == <<>>

(* The old secret cannot be served any more: the rotation stands           *)
Redo == <<"redo">>

(* What a failed step leaves to do.  "undo", "redo", "recall", "restore"   *)
(* and "again" are compensations whose own errors are ignored.             *)
OnFailure(p, step) ==
    CASE step = "save" /\ Rotation(p) -> <<"recall">>
      [] step = "route" /\ w[p].op = "addUpstream" -> <<"recall">>
      [] step = "call" /\ Routing(p) ->
           <<"restore", "again">> \o (IF w[p].op = "addUpstream" THEN <<"recall">> ELSE <<>>)
      [] step = "call" /\ Rotation(p) -> <<"undo", "recall">>
      [] step = "call" /\ w[p].op # "view" /\ ~Routing(p) /\ ~Rotation(p) -> <<"undo">>
      [] step = "retire" /\ Rotation(p) -> <<"revert", "gather", "recheck", "recall">>
      [] step \in {"revert", "recheck"} -> Redo
      [] OTHER -> <<>>

Spent(p) == Continue(p, w[p], OnFailure(p, Head(w[p].todo)))

Begin(p, op, a, key, user, next, old, draws) ==
    /\ ~Busy(p) /\ ops < MaxOps /\ op \in Ops
    /\ w' = [w EXCEPT ![p] = [Idle EXCEPT !.op = op, !.agent = a, !.key = key, !.user = user,
               !.prev = dir, !.next = next, !.old = old, !.todo = Program(op)]]
    /\ ops' = ops + 1
    /\ spare' = spare \ draws
    /\ UNCHANGED <<state, faults, crashes, drops, broken, drift>>

(* createListen: one enabled user; a fresh SS2022 listener has a server    *)
(* secret of its own.                                                      *)
CreateListen(p, a, port, modern, l, u) ==
    /\ {l, u} \subseteq spare /\ l # u
    /\ ~PortConflict(dir, a, port)
    /\ Begin(p, "create", a, l, u,
             WithListen(dir, a, port, modern, l, u), <<>>, {l, u})

(* appendListenUser: SS2022 only; the listener's server secret must still  *)
(* resolve.                                                                *)
AppendListenUser(p, l, u) ==
    /\ l \in DOMAIN dir.listens /\ u \in spare
    /\ dir.listens[l].server \in alive
    /\ Begin(p, "append", dir.listens[l].agent, l, u,
             WithUser(dir, l, u), <<>>, {u})

SetUserEnabled(p, l, u, on) ==
    /\ l \in DOMAIN dir.listens /\ u \in DOMAIN dir.listens[l].users
    /\ Begin(p, IF on THEN "enable" ELSE "disable", dir.listens[l].agent, l, u,
             WithEnabled(dir, l, u, on), <<>>, {})

DeleteUser(p, l, u) ==
    /\ l \in DOMAIN dir.listens /\ u \in DOMAIN dir.listens[l].users
    /\ Begin(p, "deleteUser", dir.listens[l].agent, l, u,
             WithoutUser(dir, l, u), <<dir.listens[l].users[u].ref>>, {})

(* deleteListen revokes the users' secrets, then the server's              *)
DeleteListen(p, l) ==
    /\ l \in DOMAIN dir.listens
    /\ \E order \in [1..Cardinality(DOMAIN dir.listens[l].users) -> DOMAIN dir.listens[l].users] :
         /\ \A i, j \in DOMAIN order : i # j => order[i] # order[j]
         /\ Begin(p, "deleteListen", dir.listens[l].agent, l, Nobody,
                  WithoutListen(dir, l),
                  [i \in DOMAIN order |-> dir.listens[l].users[order[i]].ref]
                    \o (IF dir.listens[l].server = 0 THEN <<>> ELSE <<dir.listens[l].server>>),
                  {})

RotateUserSecret(p, l, u) ==
    /\ l \in DOMAIN dir.listens /\ u \in DOMAIN dir.listens[l].users
    /\ Begin(p, "rotateUser", dir.listens[l].agent, l, u, dir,
             <<dir.listens[l].users[u].ref>>, {})

RotateServerSecret(p, l) ==
    /\ l \in DOMAIN dir.listens /\ dir.listens[l].server # 0
    /\ Begin(p, "rotateServer", dir.listens[l].agent, l, Nobody, dir,
             <<dir.listens[l].server>>, {})

(* serveRouting, createUpstream, mutateUpstream: a default must name an    *)
(* upstream of the configuration, and one that is named cannot be deleted. *)
SetRouting(p, default) ==
    /\ ValidRoute([dir.route EXCEPT !.default = default])
    /\ Begin(p, "setRouting", Nobody, Nobody, Nobody, [dir EXCEPT !.route.default = default],
             <<>>, {})

CreateUpstream(p, x) ==
    /\ x \in Upstreams \ DOMAIN dir.route.ups
    /\ Begin(p, "addUpstream", Nobody, x, Nobody,
             [dir EXCEPT !.route.ups = Put(@, x, [ref |-> 0, on |-> TRUE])], <<>>, {})

MutateUpstream(p, x, op) ==
    /\ x \in DOMAIN dir.route.ups
    /\ CASE op = "toggleUpstream" ->
              Begin(p, op, Nobody, x, Nobody,
                    [dir EXCEPT !.route.ups[x].on = ~@], <<>>, {})
         [] op = "deleteUpstream" ->
              /\ ValidRoute([dir.route EXCEPT !.ups = Remove(@, x)])
              /\ Begin(p, op, Nobody, x, Nobody, [dir EXCEPT !.route.ups = Remove(@, x)],
                       <<dir.route.ups[x].ref>>, {})

(* reconcileAgentListens, from the ticker for Agents with a saved listener *)
(* and from the panel's list for any: nothing to do when the report shows  *)
(* the saved ids on their ports, otherwise the directory is pushed.        *)
Reconcile(p, a) ==
    /\ ~Busy(p) /\ ~Matches(a)
    /\ IF p = Reconciler
       THEN ListenersForAgent(dir, a) # {} /\ UNCHANGED ops
       ELSE "view" \in Ops /\ ops < MaxOps /\ ops' = ops + 1
    /\ w' = [w EXCEPT ![p] = [Idle EXCEPT !.op = "view", !.agent = a,
                                          !.items = ApplyItems(dir, a), !.todo = Program("view")]]
    /\ UNCHANGED <<state, spare, faults, crashes, drops, broken, drift>>

(***************************************************************************)
(* The calls                                                               *)
(***************************************************************************)
(* The wanted directory with the secrets minted so far in their places: a  *)
(* new listener takes the user's first and then, for SS2022, the server's. *)
Wanted(p, refs) ==
    LET n == w[p].next
        k == w[p].key
        u == w[p].user
    IN  CASE w[p].op = "addUpstream" -> [n EXCEPT !.route.ups[k].ref = refs[1]]
          [] w[p].op = "rotateServer" -> [n EXCEPT !.listens[k].server = refs[1]]
          [] w[p].op \in {"append", "rotateUser"} ->
               [n EXCEPT !.listens[k].users[u].ref = refs[1]]
          [] w[p].op = "create" ->
               [n EXCEPT !.listens[k].users[u].ref = refs[1],
                         !.listens[k].server = IF Len(refs) = 2 THEN refs[2] ELSE @]

Needed(p) == IF w[p].op = "create" /\ w[p].next.listens[w[p].key].server # 0 THEN 2 ELSE 1

(* importSecret (putSecret, createReplacementSecret, importOpaqueSecret):  *)
(* an error ends the handler; secrets minted before it stay.               *)
CallImport(p) ==
    /\ At(p, "import")
    /\ \E o \in Outcomes :
         /\ Outcome(o)
         /\ minted' = IF o = "fail" THEN minted ELSE minted + 1
         /\ alive' = IF o = "fail" THEN alive ELSE alive \cup {minted + 1}
         /\ LET refs == Append(w[p].new, minted + 1)
            IN  IF o # "ok" THEN Spent(p)
                ELSE IF Len(refs) < Needed(p) THEN w' = [w EXCEPT ![p].new = refs]
                ELSE Continue(p, [w[p] EXCEPT !.new = refs, !.next = Wanted(p, refs)],
                              Tail(w[p].todo))
    /\ UNCHANGED <<stored, storedRoute, dir, bound, spare, ops, crashes, drops, broken, drift>>

(* commitDirectory: the saved listeners, then the directory in memory, its *)
(* routing included, which this call does not save.  A directory with a    *)
(* port used twice on an Agent fails validation before the save.           *)
Valid(d) == \A k, l \in DOMAIN d.listens :
              k # l => <<d.listens[k].agent, d.listens[k].port>>
                         # <<d.listens[l].agent, d.listens[l].port>>
Target(p) == IF Head(w[p].todo) \in {"undo", "revert"} THEN w[p].prev ELSE w[p].next

CallSave(p) ==
    /\ Busy(p) /\ w[p].todo # <<>> /\ Head(w[p].todo) \in {"save", "undo", "revert", "redo"}
    /\ \E o \in Outcomes :
         /\ Outcome(o)
         /\ stored' = IF o = "fail" THEN stored ELSE Target(p).listens
         /\ dir' = IF o = "ok" THEN Target(p) ELSE dir
         /\ broken' = (broken \/ o = "late" \/ (o = "fail" /\ ~At(p, "save")))
         /\ IF o = "ok" \/ Head(w[p].todo) \in {"undo", "redo"} THEN Advance(p) ELSE Spent(p)
    /\ Valid(Target(p))
    /\ UNCHANGED <<alive, minted, storedRoute, bound, spare, ops, crashes, drops, drift>>

(* applyAgentListens: requireMutableAgent, then the items are read from    *)
(* the directory as it is now, and only later does the request run.        *)
CallGather(p) ==
    /\ At(p, "gather")
    /\ Continue(p, [w[p] EXCEPT !.items = ApplyItems(dir, w[p].agent)], Tail(w[p].todo))
    /\ UNCHANGED <<state, spare, bounds, broken, drift>>

\* a handler has changed the directory of a and has not settled it yet
Engaged(a) == \E p \in Workers : w[p].op # "view" /\ (w[p].agent = a \/ Routing(p))

(* listenExecutor.apply, all or nothing under the executor's lock          *)
CallApply(p) ==
    LET a == w[p].agent
        works == Prepared(a, w[p].items)
        ignored == "again" \in {w[p].todo[i] : i \in DOMAIN w[p].todo}
    IN  /\ At(p, "call") \/ At(p, "recheck")
        /\ \E o \in Outcomes :
             /\ Outcome(o)
             /\ bound' = IF works /\ o # "fail"
                         THEN [bound EXCEPT ![a] = Served(a, w[p].items)] ELSE bound
             /\ drift' = IF (works /\ o = "late")
                            \/ (works /\ o = "ok" /\ w[p].items # ApplyItems(dir, a))
                            \/ (works /\ o = "ok" /\ w[p].op = "view" /\ Engaged(a))
                            \/ (ignored /\ (o = "fail" \/ ~works))
                         THEN drift \cup {a}
                         ELSE IF works /\ o = "ok" THEN drift \ {a} ELSE drift
             /\ IF (works /\ o = "ok") \/ ignored THEN Advance(p) ELSE Spent(p)
        /\ UNCHANGED <<alive, minted, stored, storedRoute, dir, spare, ops, crashes, drops,
                       broken>>

(* revokeSecret one at a time: "retire" stops at the first error, "recall" *)
(* ignores errors.                                                         *)
CallRevoke(p) ==
    LET recall == At(p, "recall")
        refs == IF recall THEN w[p].new ELSE w[p].old
        rest == [w[p] EXCEPT !.new = IF recall THEN Tail(@) ELSE @,
                             !.old = IF recall THEN @ ELSE Tail(@)]
    IN  /\ recall \/ At(p, "retire")
        /\ refs # <<>>
        /\ \E o \in Outcomes :
             /\ Outcome(o)
             /\ alive' = IF o = "fail" THEN alive ELSE alive \ {Head(refs)}
             /\ IF o # "ok" /\ ~recall THEN Spent(p)
                ELSE IF Len(refs) > 1 THEN w' = [w EXCEPT ![p] = rest]
                ELSE Advance(p)
        /\ UNCHANGED <<minted, stored, storedRoute, dir, bound, spare, ops, crashes, drops,
                       broken, drift>>

(* replaceRouting: StoreRouting, then only the routing in memory; every    *)
(* Agent with a listener gets it.  One failing apply restores the previous *)
(* routing everywhere.                                                     *)
CallRoute(p) ==
    LET back == At(p, "restore")
        route == IF back THEN w[p].prev.route ELSE w[p].next.route
        agents == {a \in Agents : ListenersForAgent(w[p].prev, a) # {}}
    IN  /\ back \/ At(p, "route")
        /\ \E o \in Outcomes :
             /\ Outcome(o)
             /\ storedRoute' = IF o = "fail" THEN storedRoute ELSE route
             /\ dir' = IF o = "ok" \/ back THEN [dir EXCEPT !.route = route] ELSE dir
             /\ broken' = (broken \/ o = "late" \/ (o = "fail" /\ back))
             /\ IF o = "ok" \/ back
                THEN Continue(p, [w[p] EXCEPT !.left = agents], Tail(w[p].todo))
                ELSE Spent(p)
        /\ UNCHANGED <<alive, minted, stored, bound, spare, ops, crashes, drops, drift>>

CallSpread(p) ==
    /\ At(p, "spread") \/ At(p, "again")
    /\ IF w[p].left = {} THEN Advance(p)
       ELSE \E a \in w[p].left :
              Continue(p, [w[p] EXCEPT !.agent = a, !.left = @ \ {a}],
                       Apply \o w[p].todo)
    /\ UNCHANGED <<state, spare, bounds, broken, drift>>

(***************************************************************************)
(* Restarts                                                                *)
(***************************************************************************)
(* The control-plane process dies and is started again: prepare loads what *)
(* is saved; activate reconciles, which is the ticker's own step.  A call  *)
(* the dead process had sent may still arrive.                             *)
Crash ==
    /\ crashes < MaxCrashes /\ crashes' = crashes + 1
    /\ dir' = [listens |-> stored, route |-> storedRoute]
    /\ w' = [p \in Processes |-> Idle]
    /\ \/ UNCHANGED <<bound, drift>>
       \/ \E p \in Processes :
            /\ At(p, "call") \/ At(p, "recheck")
            /\ Prepared(w[p].agent, w[p].items)
            /\ bound' = [bound EXCEPT ![w[p].agent] = Served(w[p].agent, w[p].items)]
            /\ drift' = drift \cup {w[p].agent}
    /\ broken' = (broken \/ \E p \in Processes : Busy(p) /\ w[p].op # "view")
    /\ UNCHANGED <<alive, minted, stored, storedRoute, spare, ops, faults, drops>>

(* The Agent's plugin process is replaced: its sockets and engines go      *)
Drop(a) ==
    /\ drops < MaxDrops /\ drops' = drops + 1
    /\ bound[a] # Empty
    /\ bound' = [bound EXCEPT ![a] = Empty]
    /\ drift' = drift \ {a}
    /\ UNCHANGED <<alive, minted, stored, storedRoute, dir, w, spare, ops, faults, crashes, broken>>

(* A directory of listeners that were created and applied before           *)
Init ==
    /\ stored = Home
    /\ spare = Names \ (DOMAIN Home \cup UNION {DOMAIN Home[l].users : l \in DOMAIN Home})
    /\ alive = References(Home, NoRoute) /\ minted = Cardinality(alive)
    /\ storedRoute = NoRoute
    /\ dir = [listens |-> Home, route |-> NoRoute]
    /\ bound = [a \in Agents |-> Served(a, ApplyItems(dir, a))]
    /\ w = [p \in Processes |-> Idle]
    /\ ops = 0 /\ faults = 0 /\ crashes = 0 /\ drops = 0
    /\ broken = FALSE /\ drift = {}

Handler(p) ==
    \/ \E a \in Agents, port \in Ports, modern \in BOOLEAN, l, u \in Names :
         CreateListen(p, a, port, modern, l, u)
    \/ \E l \in Names :
         \/ DeleteListen(p, l) \/ RotateServerSecret(p, l)
         \/ \E u \in Names :
              \/ AppendListenUser(p, l, u) \/ DeleteUser(p, l, u) \/ RotateUserSecret(p, l, u)
              \/ \E on \in BOOLEAN : SetUserEnabled(p, l, u, on)
    \/ \E default \in Upstreams \cup {Direct} : SetRouting(p, default)
    \/ \E x \in Upstreams :
         \/ CreateUpstream(p, x)
         \/ \E op \in {"toggleUpstream", "deleteUpstream"} : MutateUpstream(p, x, op)

Call(p) ==
    \/ CallImport(p) \/ CallSave(p) \/ CallGather(p) \/ CallApply(p) \/ CallRevoke(p)
    \/ CallRoute(p) \/ CallSpread(p)

Next ==
    \/ \E p \in Workers : Handler(p)
    \/ \E p \in Processes : Call(p)
    \/ \E p \in Processes, a \in Agents : Reconcile(p, a)
    \/ Crash
    \/ \E a \in Agents : Drop(a)

(* The ticker visits every Agent with a saved listener each time it fires, *)
(* and a request that is being served goes on.                             *)
Fairness == /\ \A p \in Processes : WF_vars(Call(p))
            /\ \A a \in Agents : SF_vars(Reconcile(Reconciler, a))

Spec == Init /\ [][Next]_vars /\ Fairness

(***************************************************************************)
(* Properties                                                              *)
(***************************************************************************)
\* Every variable has its type.
TypeOK ==
    /\ alive \subseteq 1..minted
    /\ References(stored, storedRoute) \cup References(dir.listens, dir.route) \subseteq 1..minted
    /\ \A a \in Agents : \A l \in DOMAIN bound[a] : bound[a][l].port \in Ports
    /\ ops \in 0..MaxOps /\ faults \in 0..MaxFaults
    /\ crashes \in 0..MaxCrashes /\ drops \in 0..MaxDrops
    /\ broken \in BOOLEAN /\ drift \subseteq Agents

(* Once no request is being served, every secret an apply has to resolve,  *)
(* and every upstream's, can still be delivered, whichever single call of  *)
(* which handler failed or ended with its answer lost: creating, rotating  *)
(* and deleting revoke only what the directory they settle on no longer    *)
(* asks for (finishSecretReplacement, rotateUserSecret, replaceRouting).   *)
(* A failure inside a compensation, a save whose answer was lost, and the  *)
(* secret of a disabled user, which an apply never resolves and which a    *)
(* rotation can lose, are excluded.                                        *)
RefsAlive ==
    Quiet /\ ~broken =>
      /\ RouteRefs(dir.route) \cup RouteRefs(storedRoute) \subseteq alive
      /\ \A l \in DOMAIN dir.listens : EnabledRefs(dir.listens[l]) \subseteq alive
      /\ stored = dir.listens

(* A bound listener serves what the directory says: the enabled users with *)
(* their current secrets and the current routing, unless the last apply to *)
(* its Agent had an unknown outcome, carried an older directory, or was    *)
(* the reconciler's in the middle of a handler's change.  Nothing repairs  *)
(* those: listenRuntimeMatchesDesired looks at ids and ports only.         *)
ServesDirectory ==
    Quiet /\ ~broken =>
      \A a \in Agents \ drift : \A l \in DOMAIN bound[a] \cap ListenersForAgent(dir, a) :
        bound[a][l] = Engines(ApplyItems(dir, a)[l])

(* An Agent with a saved listener ends up with exactly the saved ids on    *)
(* their ports, after whatever restarts of either side and failed calls    *)
(* (reconcileListensUntilStopped).                                         *)
Rebound == ~broken => \A a \in Agents : ListenersForAgent(dir, a) # {} => Matches(a)
Rebinds == <>[]Rebound
=============================================================================
