--------------------------- MODULE AccountService ---------------------------
(***************************************************************************)
(* The account service of the shadowsocks-server plugin (Service): the     *)
(* accounts of one SS2022 listener and the protocol engines built from     *)
(* their secrets, account creation, enabling, key rotation and server-PSK  *)
(* rotation running concurrently, the admission of client flows against    *)
(* the engines, and the service's end (Disable, Drain).                    *)
(*                                                                         *)
(* A version of a secret is a number, 0 for none; an engine is the pair of *)
(* versions it was built from, and a client password the same pair.  Host  *)
(* calls run outside the locks: an operation reads the configuration,      *)
(* calls the Host step by step and installs its result under engineGate    *)
(* and mu.  Once hostOpen is cleared every such call fails.                *)
(***************************************************************************)
EXTENDS Naturals, Sequences, FiniteSets

CONSTANTS
    Users, Workers,
    Flows,         \* client connections, each admitted at most once
    Nobody,
    MaxSessions,   \* DefaultMaxSessions
    MaxOps, MaxFaults

VARIABLES
    on,            \* enabled flag of each account, and which accounts exist
    ver,           \* configured secret version of each account
    server,        \* configured version of the server PSK
    engines,       \* engines[u], NoEngine when there is none
    live, hostOpen,
    w,             \* account operations
    f,             \* flows
    slots,         \* tokens taken from s.slots
    held,          \* flows with an open traffic reservation in the Host
    minted, ops, faults,
    astray,        \* reservations whose answer was lost or whose clean-up failed
    overtaken      \* accounts whose key was rotated while an enable was resolving it

config == <<on, ver, server>>
service == <<config, engines, live, hostOpen>>
flows == <<f, slots, held, astray>>
vars == <<service, w, flows, minted, ops, faults, overtaken>>

NoEngine == [srv |-> 0, usr |-> 0]
Accounts == {u \in Users : ver[u] # 0}
Idle == [op |-> "none", user |-> Nobody, ver |-> 0, srv |-> 0, new |-> 0, todo |-> <<>>]
At(p, step) == w[p].todo # <<>> /\ Head(w[p].todo) = step
Unused == [at |-> "new", user |-> Nobody, key |-> NoEngine]

\* engineGate is held shared by the flows that are being admitted
Gate == \A i \in Flows : f[i].at \notin {"picked", "slot", "reserved", "checked"}

Continue(p, proc, rest) ==
    w' = [w EXCEPT ![p] = IF rest = <<>> THEN Idle ELSE [proc EXCEPT !.todo = rest]]
Advance(p, proc) == Continue(p, proc, Tail(w[p].todo))
Stop(p) == w' = [w EXCEPT ![p] = Idle]

\* awaitHost: refused when the service closes, otherwise it may fail
HostCall(ok) ==
    /\ ok => hostOpen
    /\ ~ok /\ hostOpen => faults < MaxFaults
    /\ faults' = IF ~ok /\ hostOpen THEN faults + 1 ELSE faults

(***************************************************************************)
(* Account operations                                                      *)
(***************************************************************************)
Begin(p, op, u, todo) ==
    /\ w[p].op = "none" /\ ops < MaxOps
    /\ w' = [w EXCEPT ![p] = [Idle EXCEPT !.op = op, !.user = u, !.srv = server,
                                          !.ver = IF u = Nobody THEN 0 ELSE ver[u],
                                          !.todo = todo]]
    /\ ops' = ops + 1
    /\ UNCHANGED <<service, flows, minted, faults, overtaken>>

(* CreateAccount: the listener's server PSK is resolved, or minted when it *)
(* has none, then the user's secret is minted.                             *)
CreateAccount(p, u) ==
    /\ live /\ u \notin Accounts
    /\ \A q \in Workers : w[q].op = "create" => w[q].user # u     \* NewAccountID
    /\ Begin(p, "create", u, IF server = 0 THEN <<"mintServer", "mint", "install">>
                                           ELSE <<"resolve", "mint", "install">>)

(* SetAccountEnabled: only an account without an engine needs Host calls   *)
EnableAccount(p, u) ==
    /\ live /\ u \in Accounts /\ engines[u] = NoEngine
    /\ Begin(p, "enable", u, <<"resolve", "resolve", "install">>)

SetAccountEnabled(u, enabled) ==
    /\ live /\ u \in Accounts /\ ops < MaxOps
    /\ enabled => engines[u] # NoEngine
    /\ on[u] # enabled
    /\ on' = [on EXCEPT ![u] = enabled]
    /\ ops' = ops + 1
    /\ UNCHANGED <<ver, server, engines, live, hostOpen, w, flows, minted, faults, overtaken>>

(* Rotate: an unresolvable new secret disables the account (disableStale)  *)
Rotate(p, u) ==
    /\ u \in Accounts
    /\ Begin(p, "rotate", u, <<"mint", "resolve", "resolve", "install">>)

RotateServerPSK(p) ==
    /\ live /\ server # 0
    /\ Begin(p, "psk", Nobody, <<"mintServer", "install">>)

(* rotateVault and resolveSecret                                           *)
CallHost(p) ==
    /\ At(p, "mint") \/ At(p, "mintServer") \/ At(p, "resolve")
    /\ \E ok \in BOOLEAN :
         /\ HostCall(ok)
         /\ minted' = IF ok /\ ~At(p, "resolve") THEN minted + 1 ELSE minted
         /\ LET proc == CASE At(p, "mint") -> [w[p] EXCEPT !.new = minted + 1]
                          [] At(p, "mintServer") /\ w[p].op = "create" ->
                               [w[p] EXCEPT !.srv = minted + 1]
                          [] At(p, "mintServer") /\ w[p].op # "create" ->
                               [w[p] EXCEPT !.new = minted + 1]
                          [] OTHER -> w[p]
            IN  IF ok THEN Advance(p, proc)
                ELSE IF w[p].op = "rotate" /\ At(p, "resolve")
                     THEN Continue(p, w[p], <<"stale">>)
                     ELSE Stop(p)
    /\ UNCHANGED <<service, flows, ops, overtaken>>

(* installCreatedAccount: the listener takes the server PSK only when it   *)
(* still has none.                                                         *)
InstallCreated(p) ==
    LET u == w[p].user
    IN  /\ ver' = [ver EXCEPT ![u] = w[p].new]
        /\ on' = [on EXCEPT ![u] = TRUE]
        /\ server' = IF server = 0 THEN w[p].srv ELSE server
        /\ engines' = [engines EXCEPT ![u] = [srv |-> w[p].srv, usr |-> w[p].new]]

(* An engine that appeared in the meantime is kept                         *)
InstallEnabled(p) ==
    LET u == w[p].user
    IN  /\ on' = [on EXCEPT ![u] = TRUE]
        /\ engines' = IF engines[u] # NoEngine THEN engines
                      ELSE [engines EXCEPT ![u] = [srv |-> w[p].srv, usr |-> w[p].ver]]
        /\ UNCHANGED <<ver, server>>

(* The configured version must still be the one the rotation started from  *)
InstallRotated(p) ==
    LET u == w[p].user
    IN  IF ver[u] # w[p].ver THEN UNCHANGED <<config, engines>>
        ELSE /\ ver' = [ver EXCEPT ![u] = w[p].new]
             /\ engines' = [engines EXCEPT ![u] = [srv |-> w[p].srv, usr |-> w[p].new]]
             /\ UNCHANGED <<on, server>>

(* installRotatedServerPSK: every engine is rebuilt with its own user key  *)
InstallServerPSK(p) ==
    IF server # w[p].srv THEN UNCHANGED <<config, engines>>
    ELSE /\ server' = w[p].new
         /\ engines' = [u \in Users |-> IF engines[u] = NoEngine THEN NoEngine
                                        ELSE [engines[u] EXCEPT !.srv = w[p].new]]
         /\ UNCHANGED <<on, ver>>

\* Mutant: the engines are exchanged without waiting for the flows being admitted.
InstallUngated(p) ==
    /\ At(p, "install")
    /\ IF ~live THEN UNCHANGED <<config, engines>>
       ELSE CASE w[p].op = "create" -> InstallCreated(p)
              [] w[p].op = "enable" -> InstallEnabled(p)
              [] w[p].op = "rotate" -> InstallRotated(p)
              [] w[p].op = "psk" -> InstallServerPSK(p)
    /\ Stop(p)
    /\ UNCHANGED <<live, hostOpen, flows, minted, ops, faults, overtaken>>

Install(p) ==
    /\ At(p, "install") /\ Gate
    /\ IF ~live THEN UNCHANGED <<config, engines>>
       ELSE CASE w[p].op = "create" -> InstallCreated(p)
              [] w[p].op = "enable" -> InstallEnabled(p)
              [] w[p].op = "rotate" -> InstallRotated(p)
              [] w[p].op = "psk" -> InstallServerPSK(p)
    /\ overtaken' = overtaken \cup {u \in Users : ver'[u] # ver[u] /\
                       \E q \in Workers : w[q].op = "enable" /\ w[q].user = u}
    /\ Stop(p)
    /\ UNCHANGED <<live, hostOpen, flows, minted, ops, faults>>

(* disableStale: the account loses its engine unless it was rotated since  *)
DisableStale(p) ==
    /\ At(p, "stale") /\ Gate
    /\ IF ver[w[p].user] # w[p].ver THEN UNCHANGED <<on, engines>>
       ELSE /\ on' = [on EXCEPT ![w[p].user] = FALSE]
            /\ engines' = [engines EXCEPT ![w[p].user] = NoEngine]
    /\ Stop(p)
    /\ UNCHANGED <<ver, server, live, hostOpen, flows, minted, ops, faults, overtaken>>

(***************************************************************************)
(* Admission                                                               *)
(***************************************************************************)
Step(i, at) == f' = [f EXCEPT ![i].at = at]

(* enabledEngineCandidates: a request is tried on these engines            *)
Candidates == {u \in Accounts : on[u] /\ engines[u] # NoEngine}

(* AcceptTCP and openWire: an enabled account's engine opens the request;  *)
(* engineGate stays held shared until the flow is admitted or refused.     *)
Accept(i, u) ==
    /\ f[i].at = "new" /\ hostOpen
    /\ u \in Candidates
    /\ f' = [f EXCEPT ![i] = [at |-> "picked", user |-> u, key |-> engines[u]]]
    /\ UNCHANGED <<service, w, slots, held, astray, minted, ops, faults, overtaken>>

\* Mutant: the sessions are counted and not limited.
AdmitMore(i) ==
    /\ f[i].at = "picked"
    /\ IF ~live \/ ~on[f[i].user]
       THEN Step(i, "refused") /\ UNCHANGED slots
       ELSE Step(i, "slot") /\ slots' = slots + 1
    /\ UNCHANGED <<service, w, held, astray, minted, ops, faults, overtaken>>

(* admit, under mu: live, a free slot, and the account still enabled       *)
Admit(i) ==
    /\ f[i].at = "picked"
    /\ IF ~live \/ slots = MaxSessions \/ ~on[f[i].user]
       THEN Step(i, "refused") /\ UNCHANGED slots
       ELSE Step(i, "slot") /\ slots' = slots + 1
    /\ UNCHANGED <<service, w, held, astray, minted, ops, faults, overtaken>>

\* fail: abort the reservation, if the caller has one, and free the slot
Refuse(i, reserved) ==
    /\ Step(i, "refused")
    /\ slots' = slots - 1
    /\ \E ok \in BOOLEAN :
         /\ ok \/ reserved
         /\ held' = IF reserved /\ ok THEN held \ {i} ELSE held
         /\ astray' = IF reserved /\ ~ok THEN astray \cup {i} ELSE astray

(* Reserve: an answer that arrives after the timeout is dropped            *)
Reserve(i) ==
    /\ f[i].at = "slot"
    /\ \/ /\ HostCall(TRUE)
          /\ held' = held \cup {i}
          /\ Step(i, "reserved")
          /\ UNCHANGED <<slots, astray>>
       \/ HostCall(FALSE) /\ Refuse(i, FALSE)
       \/ /\ hostOpen /\ faults < MaxFaults /\ faults' = faults + 1
          /\ held' = held \cup {i} /\ astray' = astray \cup {i}
          /\ Step(i, "refused") /\ slots' = slots - 1
    /\ UNCHANGED <<service, w, minted, ops, overtaken>>

(* Replay, the second look at live, the audit                              *)
Check(i) ==
    /\ f[i].at = "reserved"
    /\ \/ /\ HostCall(TRUE) /\ live
          /\ Step(i, "checked")
          /\ UNCHANGED <<slots, held, astray>>
       \/ HostCall(FALSE) /\ Refuse(i, TRUE)
    /\ UNCHANGED <<service, w, minted, ops, overtaken>>

\* finishLocked: Finish or Abort once, then the slot
Finish(i, at) ==
    /\ Step(i, at)
    /\ slots' = slots - 1
    /\ \E ok \in BOOLEAN :
         /\ held' = IF ok THEN held \ {i} ELSE held
         /\ astray' = IF ok THEN astray ELSE astray \cup {i}

(* Flow.Consume of the first payload: a refusal ends the flow; the caller  *)
(* that still closes it finds it done.                                     *)
Consume(i) ==
    /\ f[i].at = "checked"
    /\ \/ HostCall(TRUE) /\ Step(i, "open") /\ UNCHANGED <<slots, held, astray>>
       \/ HostCall(FALSE) /\ Finish(i, "done")
    /\ UNCHANGED <<service, w, minted, ops, overtaken>>

(* Flow.Close, and Flow.Consume failing on a flow already admitted         *)
Close(i) ==
    /\ f[i].at \in {"open", "done"}
    /\ IF f[i].at = "open" THEN Finish(i, "done")
       ELSE Step(i, "closed") /\ UNCHANGED <<slots, held, astray>>
    /\ UNCHANGED <<service, w, minted, ops, faults, overtaken>>

(***************************************************************************)
(* The end of the service                                                  *)
(***************************************************************************)
CloseHost ==
    /\ hostOpen /\ hostOpen' = FALSE
    /\ UNCHANGED <<config, engines, live, w, flows, minted, ops, faults, overtaken>>

(* Disable waits for engineGate; every engine is destroyed                 *)
Disable ==
    /\ ~hostOpen /\ live /\ Gate
    /\ live' = FALSE
    /\ engines' = [u \in Users |-> NoEngine]
    /\ UNCHANGED <<config, hostOpen, w, flows, minted, ops, faults, overtaken>>

(* Accounts loaded by Initialize: disabled ones have no engine             *)
Init ==
    /\ server \in {0, 1}
    /\ \E have \in SUBSET Users :
         /\ server = 0 => have = {}
         /\ ver = [u \in Users |-> IF u \in have THEN 2 ELSE 0]
         /\ on \in {g \in [Users -> BOOLEAN] : \A u \in Users \ have : ~g[u]}
    /\ engines = [u \in Users |-> IF on[u] THEN [srv |-> server, usr |-> ver[u]] ELSE NoEngine]
    /\ live = TRUE /\ hostOpen = TRUE
    /\ w = [p \in Workers |-> Idle] /\ f = [i \in Flows |-> Unused]
    /\ slots = 0 /\ held = {} /\ astray = {}
    /\ minted = 2 /\ ops = 0 /\ faults = 0 /\ overtaken = {}

Next ==
    \/ \E p \in Workers :
         \/ \E u \in Users : CreateAccount(p, u) \/ EnableAccount(p, u) \/ Rotate(p, u)
         \/ RotateServerPSK(p) \/ CallHost(p) \/ Install(p) \/ DisableStale(p)
    \/ \E u \in Users, enabled \in BOOLEAN : SetAccountEnabled(u, enabled)
    \/ \E i \in Flows :
         \/ \E u \in Users : Accept(i, u)
         \/ Admit(i) \/ Reserve(i) \/ Check(i) \/ Consume(i) \/ Close(i)
    \/ CloseHost \/ Disable

Spec == Init /\ [][Next]_vars

\* Every variable has its type.
TypeOK ==
    /\ on \in [Users -> BOOLEAN] /\ ver \in [Users -> 0..minted] /\ server \in 0..minted
    /\ engines \in [Users -> [srv : 0..minted, usr : 0..minted]]
    /\ slots \in 0..MaxSessions /\ held \subseteq Flows /\ astray \subseteq Flows
    /\ overtaken \subseteq Users /\ ops \in 0..MaxOps /\ faults \in 0..MaxFaults

(* An engine is built from the account's configured user secret, and there *)
(* is none once the service is disabled, however rotations, enables,       *)
(* creations and Disable overlap (the second reading of version and live   *)
(* in Rotate and SetAccountEnabled).  Left out: accounts rotated while an  *)
(* enable had already read the old version and found no engine.            *)
UserKeyCurrent ==
    \A u \in Users : engines[u] # NoEngine =>
      live /\ (u \in overtaken \/ engines[u].usr = ver[u])

(* While a flow is being admitted the engine that opened its request stays *)
(* the account's engine: a rotation that returns has no admission with the *)
(* old key behind it (engineGate in AcceptTCP, Rotate, Disable).           *)
AdmittedCurrent ==
    \A i \in Flows : f[i].at \in {"picked", "slot", "reserved", "checked"} =>
      engines[f[i].user] = f[i].key

(* A session slot is taken exactly by the flows between admission and      *)
(* their one release, and nobody holds a traffic reservation without one,  *)
(* except where the Host's answer was lost or the clean-up call failed     *)
(* (releaseSlot, finishLocked, flowToken.done).                            *)
SlotsBalanced ==
    LET holding == {i \in Flows : f[i].at \in {"slot", "reserved", "checked", "open"}}
    IN  slots = Cardinality(holding) /\ held \subseteq holding \cup astray
=============================================================================
