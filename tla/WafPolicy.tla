----------------------------- MODULE WafPolicy ------------------------------
(***************************************************************************)
(* The policy guest of waf: the rule engine (engine.rs) and the exported   *)
(* functions around it (lib.rs).                                           *)
(*                                                                         *)
(* A rule looks for a needle in one part of the request; the parts are the *)
(* sets of needles they contain.  The host hands over path, query and      *)
(* headers at once, and the body only through a window of limited size:    *)
(* the guest evaluates without the body first, and reads the window when   *)
(* nothing matched and a rule needs it.  A body is what its first window   *)
(* holds and what lies behind it.  The host enters one instance serially,  *)
(* so an exported call is one step.                                        *)
(***************************************************************************)
EXTENDS Integers, Sequences, FiniteSets

CONSTANTS
    Managed,      \* MANAGED_RULES: a sequence of [id, target, needle]
    Configs,      \* [mode, custom, exclusions] an instance may be given
    Paths, Needles,
    Window,       \* BODY_WINDOW_BYTES
    HostCalls,    \* HostLimits::new(16, 256)
    Initial,      \* the buffer a read is first offered
    Buffer,       \* FIELD_BYTES
    MaxRules,     \* MAX_CUSTOM_RULES, MAX_EXCLUSIONS
    MaxEvals      \* bound on the evaluations of a behaviour

Host == INSTANCE PolicyHost

VARIABLES
    wconfig,     \* Runtime.config and initialized: NoConfig before init
    wevals,
    wjudged      \* the last evaluation, with what went into it

vars == <<wconfig, wevals, wjudged>>

Modes == {"observe", "deny"}
NoConfig == [mode |-> "none", custom |-> <<>>, exclusions |-> {}]
NotJudged == [answer |-> "none"]

-----------------------------------------------------------------------------
(* engine.rs                                                               *)

\* prepare_config and known_rule
Prepares(c) ==
    /\ Len(c.custom) <= MaxRules /\ Cardinality(c.exclusions) <= MaxRules
    /\ \A i, j \in DOMAIN c.custom : c.custom[i].id = c.custom[j].id => i = j
    /\ \A x \in c.exclusions :
          \E r \in {c.custom[i] : i \in DOMAIN c.custom}
                      \cup {Managed[i] : i \in DOMAIN Managed} : r.id = x.id

\* The managed rules, then the instance's own
Rules(c) == Managed \o c.custom

\* excluded: for this rule on a path with this prefix
Excluded(c, id, path) == \E x \in c.exclusions : x.id = id /\ path \in x.paths

Enabled(c, path) == {i \in DOMAIN Rules(c) : ~Excluded(c, Rules(c)[i].id, path)}

\* target_bytes: what is not available contains nothing
Part(request, body, target) == IF target = "body" THEN body.holds ELSE request[target]

Result(action, reason, rule) == [action |-> action, reason |-> reason, rule |-> rule]

\* visible_skip: observed in either mode
Skip(reason) == Result("observe", reason, 0)

\* matched
Matched(mode, i) == Result(mode, "rule_matched", i)

RequiresBody(c, path) == \E i \in Enabled(c, path) : Rules(c)[i].target = "body"

\* WafEngine::evaluate; body is [window, holds]
EngineEvaluate(c, request, body) ==
    LET hits == {i \in Enabled(c, request.at) :
                    Rules(c)[i].needle \in Part(request, body, Rules(c)[i].target)}
    IN  IF request.authenticated = "no" THEN Skip("trusted_source_unavailable")
        ELSE IF hits # {} THEN Matched(c.mode, CHOOSE i \in hits : \A j \in hits : i <= j)
        ELSE IF RequiresBody(c, request.at) /\ body.window # "complete"
             THEN Skip("body_window_skipped")
        ELSE Result("allow", "clean", 0)

-----------------------------------------------------------------------------
(* lib.rs                                                                  *)

Unavailable == [window |-> "unavailable", holds |-> {}]

\* Mutant: a window that was cut short counts as complete.
BodyWindowWhole(request, found) ==
    IF request.length = 0
    THEN [window |-> request.window, holds |-> {}]
    ELSE IF found = "no" THEN Unavailable
    ELSE [window |-> request.window, holds |-> request.first]

(* The window of evaluate_snapshot: nothing is read of an empty one, and a *)
(* window longer than the guest's is cut short.                            *)
BodyWindow(request, found) ==
    IF request.length = 0
    THEN [window |-> request.window, holds |-> {}]
    ELSE IF found = "no" THEN Unavailable
    ELSE [window |-> IF request.length <= Window THEN request.window ELSE "truncated",
          holds |-> request.first]

\* ensure_host makes one client per evaluation.
NewHost == Host!Returned(Host!Client(HostCalls, Initial, Buffer), "ok", 0)
Read(h, import, size) == Host!Invoke(h.h, import, [status |-> "ok", length |-> size])

(* evaluate_snapshot and nre_policy_evaluate: the answer, and how often    *)
(* the host carried out the event.  snapshot says whether the request came *)
(* with the call or is read from the host; fails is the import the host    *)
(* refuses.                                                                *)
Evaluation(c, request, snapshot, found, fails) ==
    LET first == IF snapshot = "given" THEN NewHost ELSE Read(NewHost, "read_normalized_http", Buffer)
        dry == EngineEvaluate(c, request, Unavailable)
        needs == dry.reason = "body_window_skipped" /\ request.length > 0
        body == IF needs THEN Read(first, "read_body_window", Buffer) ELSE first
        result == IF dry.reason = "body_window_skipped"
                  THEN EngineEvaluate(c, request, BodyWindow(request, found)) ELSE dry
        site == Read(body, "read_field", Initial + 1)
        event == Read(site, "emit_event", 0)
        spoils(import, h, used) == used /\ (fails = import \/ h.status # "ok")
    IN  IF \/ spoils("read_normalized_http", first, snapshot = "read")
           \/ spoils("read_body_window", body, needs)
        THEN [answer |-> "error", result |-> result, events |-> 0]
        ELSE IF result.action = "allow" THEN [answer |-> "allow", result |-> result, events |-> 0]
        ELSE IF spoils("read_field", site, TRUE) \/ spoils("emit_event", event, TRUE)
             THEN [answer |-> "error", result |-> result, events |-> 0]
        ELSE [answer |-> result.action, result |-> result, events |-> event.ran]

(* nre_policy_init: a config that does not decode leaves the one in use.   *)
PolicyInit(c) ==
    /\ Prepares(c) /\ wconfig' = c
    /\ wjudged' = NotJudged
    /\ UNCHANGED wevals

(* nre_policy_evaluate; an overlay changes the mode for this call only.    *)
PolicyEvaluate(mode, request, snapshot, found, fails) ==
    LET c == IF mode = "none" THEN wconfig ELSE [wconfig EXCEPT !.mode = mode]
        e == Evaluation(c, request, snapshot, found, fails)
    IN  /\ wevals' = wevals + 1
        /\ wjudged' = [answer |-> e.answer, result |-> e.result, events |-> e.events,
                       config |-> c, request |-> request, found |-> found, fails |-> fails]
        /\ UNCHANGED wconfig

\* nre_policy_reset clears the arena and keeps the instance.
PolicyReset ==
    /\ wjudged # NotJudged /\ wjudged' = NotJudged
    /\ UNCHANGED <<wconfig, wevals>>

(* A request; a body that is not longer than the window the host holds of  *)
(* it has nothing behind it.                                               *)
Requests ==
    {r \in [at : Paths, path : {{}}, query : SUBSET Needles, headers : {{}},
            authenticated : {"no", "yes"},
            first : SUBSET Needles, behind : SUBSET Needles,
            length : {0, Window, Window + 1}, window : {"complete", "truncated"}] :
        /\ r.length = 0 => r.first = {}
        /\ r.window = "complete" /\ r.length <= Window => r.behind = {}}

Init == wconfig = NoConfig /\ wevals = 0 /\ wjudged = NotJudged

Next ==
    \/ \E c \in Configs : PolicyInit(c)
    \/ /\ wconfig # NoConfig /\ wjudged = NotJudged /\ wevals < MaxEvals
       /\ \E mode \in Modes \cup {"none"}, r \in Requests, snapshot \in {"given", "read"},
             found \in {"no", "yes"}, fails \in {"none", "read_body_window", "emit_event"} :
                PolicyEvaluate(mode, r, snapshot, found, fails)
    \/ PolicyReset

Spec == Init /\ [][Next]_vars

-----------------------------------------------------------------------------
(* Properties                                                              *)

\* Every variable has its type.
TypeOK ==
    /\ wconfig = NoConfig \/ wconfig.mode \in Modes
    /\ wevals \in 0..MaxEvals
    /\ wjudged.answer \in {"none", "allow", "observe", "deny", "error"}

\* All that a part of the request contains, behind the window too
Whole(request, target) ==
    IF target = "body" THEN request.first \cup request.behind ELSE request[target]

Hits(j) ==
    {i \in Enabled(j.config, j.request.at) :
        Rules(j.config)[i].needle \in Whole(j.request, Rules(j.config)[i].target)}

(* A request is called clean only when no rule in force on its path        *)
(* matches anything in it, the part of the body that no window showed      *)
(* included, and its source was authenticated.                             *)
CleanSound ==
    wjudged.answer = "allow" => wjudged.request.authenticated = "yes" /\ Hits(wjudged) = {}

(* Reading the body late changes no verdict: the answer is the one a       *)
(* single evaluation over everything the host showed would have given;     *)
(* a request is refused only in deny mode and for a rule that matches, and *)
(* every verdict but clean reaches the host as exactly one event.          *)
VerdictTrue ==
    wjudged.answer \notin {"none", "error"} =>
        LET shown == BodyWindow(wjudged.request, wjudged.found)
        IN  /\ wjudged.answer = EngineEvaluate(wjudged.config, wjudged.request, shown).action
            /\ wjudged.answer = "deny" =>
                  wjudged.config.mode = "deny" /\ wjudged.result.rule \in Hits(wjudged)
            /\ wjudged.events = (IF wjudged.answer = "allow" THEN 0 ELSE 1)

(* The budget of host calls is enough for every evaluation: one fails only *)
(* when the host refuses a call, also when every read is asked twice.      *)
BudgetEnough == wjudged.answer = "error" => wjudged.fails # "none"
=============================================================================
