------------------------------ MODULE ReverseL4 ------------------------------
(***************************************************************************)
(* One mapping of the reverse-l4 plugin: the management handlers and the   *)
(* recovery loop of service.go, each a list of host calls that ends in a   *)
(* commit of the catalog, run against the host's reverse channels and L4   *)
(* rules.  A handler holds service.mu from its load to its commit; the     *)
(* recovery takes it only to load, to claim an attempt and to commit.      *)
(*                                                                         *)
(* The host is external.  It records the outcome of a call under its       *)
(* operation id and answers a repeated id from the record.                 *)
(***************************************************************************)
EXTENDS Integers, Sequences, FiniteSets

CONSTANTS
    Specs,        \* user specifications: [entry, exit, port]
    Kinds,        \* management operations in use
    Faults,       \* what may fail: "down": a call of a handler has no effect, "lost": its answer
                  \* is lost, "attempt": either, to a recovery attempt, "undo": either, to the
                  \* repair of a stale one, "save": a catalog write reports an error, "crash"
    Recovers,     \* TRUE: the plugin is active, its recovery loop runs
    Patient,      \* TRUE: a failed request is repeated, under its operation key, until it succeeds
    MaxRequests, MaxFaults, MaxLosses, MaxOthers

ASSUME SpecAssumption == \A s \in Specs : DOMAIN s = {"entry", "exit", "port"}
ASSUME KindsAssumption == Kinds \subseteq {"create", "update", "enable", "disable", "delete"}
ASSUME BoundsAssumption == {MaxRequests, MaxFaults, MaxLosses, MaxOthers} \subseteq Nat

VARIABLES
    cat,       \* the durable record of the mapping, None: not in the catalog
    catRev,    \* the revision of the catalog document
    host,      \* sess, rules: what exists; nb, nr: how many were made; done: outcomes by operation id
    adm,       \* the management request that holds service.mu
    rec,       \* the recovery loop
    failed,    \* the request whose failure its user has seen last, None: it succeeded
    requests, faults, losses, others

vars == <<cat, catRev, host, adm, rec, failed, requests, faults, losses, others>>

None == <<>>

Idle == [todo |-> <<>>, kind |-> "none", spec |-> None, req |-> 0, old |-> None, m |-> None]

Init ==
    /\ cat = None /\ catRev = 0
    /\ host = [sess |-> {}, rules |-> {}, nb |-> 0, nr |-> 0, done |-> {}]
    /\ adm = Idle /\ rec = Idle /\ failed = None
    /\ requests = 0 /\ faults = 0 /\ losses = 0 /\ others = 0

Fault(kind) == kind \in Faults /\ faults < MaxFaults /\ faults' = faults + 1

-----------------------------------------------------------------------------
(* The host.                                                               *)

\* Without a reference the session is the one of the pair of agents.
SessionOf(m) == IF m.sess = None THEN <<m.spec.entry, m.spec.exit>> ELSE m.sess

Sessions(ref) == {s \in host.sess : s.ref = ref}

Rules(id, entry) == {r \in host.rules : r.id = id /\ r.spec.entry = entry}

OK == [found |-> TRUE, ref |-> None, bridge |-> 0, rule |-> 0]

\* What a call on record m does when its operation id is new: the answer and the host
\* after it.  Ensure keeps the bridge of a session that exists.
Ensure(m) ==
    LET ref == SessionOf(m)
        found == Sessions(ref)
        nb == IF found = {} THEN host.nb + 1 ELSE host.nb
        bridge == IF found = {} THEN nb ELSE (CHOOSE s \in found : TRUE).bridge
    IN  [answer |-> [OK EXCEPT !.ref = ref, !.bridge = bridge],
         next |-> [host EXCEPT !.nb = nb,
                               !.sess = (@ \ found) \cup {[ref |-> ref, spec |-> m.spec, bridge |-> bridge, up |-> TRUE]}]]

Teardown(m) ==
    [answer |-> OK, next |-> [host EXCEPT !.sess = @ \ Sessions(m.sess)]]

CreateRule(m) ==
    [answer |-> [OK EXCEPT !.rule = host.nr + 1],
     next |-> [host EXCEPT !.nr = @ + 1,
                           !.rules = @ \cup {[id |-> host.nr + 1, spec |-> m.spec, bridge |-> m.bridge, on |-> TRUE]}]]

\* Updates, disables and deletes of a rule that is gone are rejected.
OnRule(op, m) ==
    LET found == Rules(m.rule, m.spec.entry)
        left == CASE op = "update" -> {[r EXCEPT !.spec = m.spec, !.bridge = m.bridge, !.on = TRUE] : r \in found}
                  [] op = "disable" -> {[r EXCEPT !.on = FALSE] : r \in found}
                  [] op = "delete" -> {}
    IN  [answer |-> [OK EXCEPT !.found = found # {}],
         next |-> [host EXCEPT !.rules = (@ \ found) \cup left]]

Execute(op, m) ==
    CASE op = "ensure" -> Ensure(m)
      [] op = "teardown" -> Teardown(m)
      [] op = "create" -> CreateRule(m)
      [] OTHER -> OnRule(op, m)

\* The call under an operation id: a recorded outcome is answered again.
Call(key, op, m) ==
    IF \E d \in host.done : d.key = key
    THEN [answer |-> (CHOOSE d \in host.done : d.key = key).answer, next |-> host]
    ELSE LET run == Execute(op, m)
         IN  [answer |-> run.answer, next |-> [run.next EXCEPT !.done = @ \cup {[key |-> key, answer |-> run.answer]}]]

-----------------------------------------------------------------------------
(* Steps.  A step names its operation and, unless it is the working record *)
(* of the process, the record it is about.                                 *)

Do(op) == <<[op |-> op, on |-> None]>>

DoOn(op, m) == <<[op |-> op, on |-> m]>>

When(condition, steps) == IF condition THEN steps ELSE <<>>

Step(p) == Head(p.todo)

Subject(p) == IF Step(p).on = None THEN p.m ELSE Step(p).on

\* A rule is created when the record has none and updated otherwise.
OpOf(p) ==
    IF Step(p).op = "align" THEN (IF p.m.rule = 0 THEN "create" ELSE "update") ELSE Step(p).op

HostOps == {"ensure", "teardown", "create", "update", "disable", "delete", "align"}

Calls(p) == p.todo # <<>> /\ Step(p).op \in HostOps

\* The process after the answer: a rejected update creates the rule, any other
\* rejection means that the target is gone.
Answered(p, op, answer) ==
    LET rest == [p EXCEPT !.todo = Tail(@)]
    IN  CASE op = "ensure" -> [rest EXCEPT !.m.sess = answer.ref, !.m.bridge = answer.bridge]
          [] op = "create" -> [rest EXCEPT !.m.rule = answer.rule]
          [] op = "update" /\ ~answer.found -> [p EXCEPT !.todo = Do("create") \o Tail(@)]
          [] OTHER -> rest

-----------------------------------------------------------------------------
(* The management handlers.                                                *)

\* mutationOperationKey: the key of the request, the action and the working record; a
\* create signs the record without the session it was given.
MutationKey(op) ==
    <<adm.req, op, IF adm.kind = "create" THEN [adm.m EXCEPT !.sess = None, !.bridge = 0] ELSE adm.m>>

\* Mutant: the rule comes before its bridge.
CreateRuleFirst(spec) ==
    [m |-> [spec |-> spec, enabled |-> TRUE, rule |-> 0, sess |-> None, bridge |-> 0, rev |-> catRev + 1, gen |-> 0],
     todo |-> Do("create") \o Do("ensure") \o Do("commit")]

Create(spec) ==
    [m |-> [spec |-> spec, enabled |-> TRUE, rule |-> 0, sess |-> None, bridge |-> 0, rev |-> catRev + 1, gen |-> 0],
     todo |-> Do("ensure") \o Do("create") \o Do("commit")]

Update(spec) ==
    LET m == [cat EXCEPT !.spec = spec, !.rev = @ + 1]
        entryMoved == spec.entry # cat.spec.entry
        ownersMoved == entryMoved \/ spec.exit # cat.spec.exit
        deleteOld == When(entryMoved /\ cat.rule # 0, DoOn("delete", cat))
    IN  [m |-> m,
         todo |-> IF ~cat.enabled THEN deleteOld \o Do("commit")
                  ELSE When(ownersMoved /\ cat.sess # None, DoOn("teardown", cat))
                       \o (IF ownersMoved THEN DoOn("ensure", [m EXCEPT !.sess = None]) ELSE Do("ensure"))
                       \o deleteOld
                       \o (IF entryMoved THEN Do("create") ELSE Do("align"))
                       \o Do("commit")]

SetEnabled(enabled) ==
    [m |-> [cat EXCEPT !.rev = @ + 1],
     todo |-> IF enabled THEN Do("ensure") \o Do("align") \o Do("commit")
              ELSE When(cat.sess # None, Do("teardown")) \o When(cat.rule # 0, Do("disable")) \o Do("commit")]

Delete ==
    [m |-> [cat EXCEPT !.rev = @ + 1],
     todo |-> When(cat.sess # None, Do("teardown")) \o When(cat.rule # 0, Do("delete")) \o Do("commit")]

\* What a request does to the catalog it finds; None: it ends at once.
Plan(kind, spec) ==
    IF kind = "create" THEN (IF cat = None THEN Create(spec) ELSE None)
    ELSE IF cat = None THEN None
    ELSE CASE kind = "update" -> IF spec = cat.spec THEN None ELSE Update(spec)
           [] kind = "enable" -> IF cat.enabled THEN None ELSE SetEnabled(TRUE)
           [] kind = "disable" -> IF cat.enabled THEN SetEnabled(FALSE) ELSE None
           [] kind = "delete" -> Delete

\* The record a handler commits.
Committed ==
    CASE adm.kind = "delete" -> None
      [] adm.kind = "enable" -> [adm.m EXCEPT !.enabled = TRUE]
      [] adm.kind = "disable" -> [adm.m EXCEPT !.enabled = FALSE, !.bridge = 0]
      [] adm.kind = "update" /\ ~adm.m.enabled /\ adm.m.spec.entry # adm.old.spec.entry ->
            [adm.m EXCEPT !.rule = 0, !.bridge = 0]
      [] OTHER -> adm.m

Unlocked == adm.todo = <<>>

Start(kind, spec, req) ==
    LET plan == Plan(kind, spec)
    IN  /\ Unlocked
        /\ adm' = IF plan = None THEN Idle
                  ELSE [todo |-> plan.todo, kind |-> kind, spec |-> spec, req |-> req, old |-> cat, m |-> plan.m]
        /\ failed' = None
        /\ UNCHANGED <<cat, catRev, host, rec, faults, losses, others>>

Request(kind, spec) ==
    /\ Patient => failed = None
    /\ requests < MaxRequests /\ requests' = requests + 1
    /\ kind \in {"create", "update"} <=> spec # None
    /\ Plan(kind, spec) # None
    /\ Start(kind, spec, requests + 1)

\* The user repeats a failed request under its operation key.
Retry ==
    /\ failed # None
    /\ Start(failed.kind, failed.spec, failed.req)
    /\ UNCHANGED requests

Fails == [kind |-> adm.kind, spec |-> adm.spec, req |-> adm.req]

AdmCall ==
    /\ Calls(adm)
    /\ LET op == OpOf(adm)
           call == Call(MutationKey(op), op, Subject(adm))
       IN  \/ /\ host' = call.next /\ adm' = Answered(adm, op, call.answer)
              /\ UNCHANGED <<failed, faults>>
           \/ /\ Fault("down") /\ host' = host
              /\ adm' = Idle /\ failed' = Fails
           \/ /\ Fault("lost") /\ host' = call.next
              /\ adm' = Idle /\ failed' = Fails
    /\ UNCHANGED <<cat, catRev, rec, requests, losses, others>>

AdmCommit ==
    /\ adm.todo # <<>> /\ Step(adm).op = "commit"
    /\ adm' = Idle
    /\ \/ cat' = Committed /\ catRev' = catRev + 1 /\ UNCHANGED <<failed, faults>>
       \/ /\ Fault("save") /\ failed' = Fails
          /\ \/ UNCHANGED <<cat, catRev>>
             \/ cat' = Committed /\ catRev' = catRev + 1
    /\ UNCHANGED <<host, rec, requests, losses, others>>

\* A commit for another mapping of the same catalog.
OtherCommit ==
    /\ Unlocked
    /\ others < MaxOthers /\ others' = others + 1
    /\ catRev' = catRev + 1
    /\ UNCHANGED <<cat, host, adm, rec, failed, requests, faults, losses>>

-----------------------------------------------------------------------------
(* The recovery loop.                                                      *)

RecoveryKey(op) == <<0, op, Subject(rec).rev, Subject(rec).gen>>

\* The channel of the record is not online at its bridge.
NeedsRecovery(m) ==
    \/ m.sess = None \/ m.rule = 0
    \/ \A s \in Sessions(m.sess) : ~s.up \/ s.bridge # m.bridge

\* Mutant: the rule is not pointed at the new bridge.
AttemptChannel == Do("ensure") \o Do("commit")

Attempt == Do("ensure") \o Do("align") \o Do("commit")

\* The catalog still holds the record the attempt is about.
Owns(m) ==
    cat # None /\ cat.enabled /\ cat.rev = m.rev /\ cat.gen = m.gen

Observe ==
    /\ Recovers /\ rec.todo = <<>> /\ Unlocked
    /\ cat # None /\ cat.enabled /\ NeedsRecovery(cat)
    /\ rec' = [Idle EXCEPT !.todo = Do("claim"), !.old = cat]
    /\ UNCHANGED <<cat, catRev, host, adm, failed, requests, faults, losses, others>>

At(op) == rec.todo # <<>> /\ Step(rec).op = op

Claim ==
    /\ At("claim") /\ Unlocked
    /\ LET claimed == [rec.old EXCEPT !.gen = @ + 1]
       IN  \/ /\ Owns(rec.old)
              /\ cat' = claimed /\ catRev' = catRev + 1
              /\ rec' = [Idle EXCEPT !.kind = "attempt", !.todo = Attempt, !.old = claimed, !.m = claimed]
              /\ UNCHANGED faults
           \/ /\ ~Owns(rec.old) /\ rec' = Idle /\ UNCHANGED <<cat, catRev, faults>>
           \/ /\ Owns(rec.old) /\ Fault("save") /\ rec' = Idle
              /\ \/ UNCHANGED <<cat, catRev>>
                 \/ cat' = claimed /\ catRev' = catRev + 1
    /\ UNCHANGED <<host, adm, failed, requests, losses, others>>

Aligns == Step(rec).op \in {"ensure", "align"}

\* A discard that fails ends the attempt, any other call is compensated.
Failed == IF Aligns THEN [rec EXCEPT !.todo = Do("compensate")] ELSE Idle

RecCall ==
    /\ Calls(rec)
    /\ LET op == OpOf(rec)
           call == Call(RecoveryKey(op), op, Subject(rec))
       IN  \/ host' = call.next /\ rec' = Answered(rec, op, call.answer) /\ UNCHANGED faults
           \/ /\ Fault(IF Aligns /\ rec.kind = "attempt" THEN "attempt" ELSE "undo")
              /\ host' \in {host, call.next} /\ rec' = Failed
    /\ UNCHANGED <<cat, catRev, adm, failed, requests, losses, others>>

Discard(m, rule) ==
    When(m.sess # None, DoOn("teardown", m)) \o When(m.rule # 0, DoOn(rule, m))

\* realignHostToMapping: an attempt for the current record, without a claim.
Realign(before) ==
    [rec EXCEPT !.kind = "realign", !.todo = before \o Attempt, !.old = cat, !.m = cat]

\* Mutant: a stale attempt leaves its effects behind.
AbandonKeeps == Idle

\* abandonStaleRecovery: the effects of the attempt are undone and, when the mapping
\* is still enabled, the host is aligned with its current record.
Abandon ==
    LET m == rec.m
        divergent == [m EXCEPT !.sess = IF @ = cat.sess THEN None ELSE @,
                               !.rule = IF @ = cat.rule THEN 0 ELSE @]
    IN  IF cat = None THEN [rec EXCEPT !.todo = Discard(m, "delete")]
        ELSE IF ~cat.enabled
        THEN [rec EXCEPT !.todo = Discard(m, "disable")
                                  \o When(cat.sess # None /\ cat.sess # m.sess, Discard(cat, "disable"))]
        ELSE Realign(Discard(divergent, "delete"))

RecCommit ==
    /\ At("commit") /\ Unlocked
    /\ \/ /\ Owns(rec.old)
          /\ cat' = rec.m /\ catRev' = catRev + 1 /\ rec' = Idle /\ UNCHANGED faults
       \/ /\ ~Owns(rec.old)
          /\ rec' = Abandon /\ UNCHANGED <<cat, catRev, faults>>
       \/ /\ Owns(rec.old) /\ Fault("save")
          /\ rec' = IF rec.kind = "realign" THEN [rec EXCEPT !.todo = Do("compensate")] ELSE Idle
          /\ \/ UNCHANGED <<cat, catRev>>
             \/ cat' = rec.m /\ catRev' = catRev + 1
    /\ UNCHANGED <<host, adm, failed, requests, losses, others>>

Compensate ==
    /\ At("compensate") /\ Unlocked
    /\ rec' = IF Owns(rec.old) THEN Idle ELSE Abandon
    /\ UNCHANGED <<cat, catRev, host, adm, failed, requests, faults, losses, others>>

-----------------------------------------------------------------------------
(* The environment.                                                        *)

\* An agent loses the session, or its exit side only.
SessionLost ==
    /\ losses < MaxLosses /\ losses' = losses + 1
    /\ \E s \in host.sess :
         \/ host' = [host EXCEPT !.sess = @ \ {s}]
         \/ host' = [host EXCEPT !.sess = (@ \ {s}) \cup {[s EXCEPT !.up = FALSE]}]
    /\ UNCHANGED <<cat, catRev, adm, rec, failed, requests, faults, others>>

\* The plugin process ends and is started again.
Crash ==
    /\ Fault("crash")
    /\ adm.todo # <<>> \/ rec.todo # <<>>
    /\ adm' = Idle /\ rec' = Idle
    /\ failed' = IF adm.todo # <<>> THEN Fails ELSE failed
    /\ UNCHANGED <<cat, catRev, host, requests, losses, others>>

Recovery == Observe \/ Claim \/ RecCall \/ RecCommit \/ Compensate

Next ==
    \/ \E kind \in Kinds, spec \in Specs \cup {None} : Request(kind, spec)
    \/ Retry \/ AdmCall \/ AdmCommit \/ OtherCommit
    \/ Recovery \/ SessionLost \/ Crash

\* Handlers finish, the ticker of the recovery loop fires, and a patient user repeats a
\* request that failed.
Spec ==
    /\ Init /\ [][Next]_vars
    /\ WF_vars(AdmCall) /\ WF_vars(AdmCommit) /\ WF_vars(Retry)
    /\ WF_vars(Recovery)

-----------------------------------------------------------------------------
Mappings ==
    [spec : Specs, enabled : BOOLEAN, rule : Nat,
     sess : {None} \cup {<<s.entry, t.exit>> : s \in Specs, t \in Specs},
     bridge : Nat, rev : Nat, gen : Nat]

\* Rules and sessions of the host are made by service.go from known specifications, and a
\* reference names one of them at most; a rule forwards to a bridge that was made.
TypeOK ==
    /\ cat \in {None} \cup Mappings /\ catRev \in Nat
    /\ adm.m \in {None} \cup Mappings /\ rec.m \in {None} \cup Mappings
    /\ \A r \in host.rules : r.spec \in Specs /\ r.id \in 1 .. host.nr /\ r.bridge \in 1 .. host.nb
    /\ \A s \in host.sess : s.spec \in Specs /\ s.bridge \in 1 .. host.nb
    /\ \A s, t \in host.sess : s.ref = t.ref => s = t
    /\ \A r, t \in host.rules : r.id = t.id => r = t

\* Nobody is working on the mapping and no request waits to be repeated.
Quiet == adm.todo = <<>> /\ rec.todo = <<>> /\ failed = None

\* Every rule and every session on the host belongs to the record of the catalog.
NoOrphan ==
    Quiet => /\ \A r \in host.rules : cat # None /\ r.id = cat.rule
             /\ \A s \in host.sess : cat # None /\ s.ref = cat.sess

\* A disabled mapping takes no traffic: its channel is torn down and its rule is off.
DisabledQuiet ==
    (Quiet /\ cat # None /\ ~cat.enabled) =>
        host.sess = {} /\ \A r \in host.rules : ~r.on

\* A recovery never gets the recorded outcome of another call: its operation ids are new.
FreshKeys ==
    Calls(rec) => \A d \in host.done : d.key # RecoveryKey(OpOf(rec))

\* The mapping is on the host as the catalog has it.
Serving ==
    /\ \E s \in Sessions(cat.sess) : s.up /\ s.spec = cat.spec /\ s.bridge = cat.bridge
    /\ \E r \in host.rules : r.id = cat.rule /\ r.on /\ r.spec = cat.spec /\ r.bridge = cat.bridge

\* An enabled mapping ends up on the host as the catalog has it.
Converges == <>[](cat # None /\ cat.enabled => Serving)
=============================================================================
