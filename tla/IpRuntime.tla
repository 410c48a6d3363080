----------------------------- MODULE IpRuntime ------------------------------
(***************************************************************************)
(* The policy guest of ip-policy: the document it is initialised with      *)
(* (config.rs), RuntimeState::initialize and evaluate (runtime.rs), and    *)
(* the exported functions with their two buffers (wasm.rs).                *)
(*                                                                         *)
(* An address is a model value; a local rule is the set of addresses its   *)
(* IP or CIDR selector contains.  A classification is named by its dataset *)
(* and its id.  The host's answers are free: any dataset may fail, and a   *)
(* classification is "in", "out" or not covered.  The host enters one      *)
(* instance serially, so an exported call is one step.                     *)
(***************************************************************************)
EXTENDS Integers, Sequences, FiniteSets

CONSTANTS
    Documents,     \* the configs an instance may be initialised with
    Overlays,      \* the rule lists an entry may add
    Addresses, Generations, Instances,
    MaxDatasets,   \* MAX_DATASETS
    HostCalls,     \* HOST_CALLS
    MaxEvals       \* bound on the calls of a behaviour

Host == INSTANCE PolicyHost

VARIABLES
    inputActive, outputActive,   \* "no" or "yes"
    state,       \* RuntimeState, or Uninitialized
    output,      \* what the output buffer holds
    handed,      \* what the host was handed and has not freed
    evals,
    judged       \* the last evaluation, with what went into it

vars == <<inputActive, outputActive, state, output, handed, evals, judged>>

Nothing == [action |-> "none"]
NoConfig == [datasets |-> <<>>, provinces |-> <<>>, rules |-> <<>>, default |-> "none"]
Uninitialized == [config |-> NoConfig, generation |-> "none", references |-> <<>>]
NotJudged == [rules |-> <<>>, config |-> NoConfig, address |-> "none", lookup |-> {},
              answer |-> Nothing, event |-> [action |-> "none"], emitted |-> "none",
              fresh |-> "no"]

-----------------------------------------------------------------------------
(* config.rs                                                               *)

Unique(s) == \A i, j \in DOMAIN s : s[i] = s[j] => i = j
Ids(s) == [i \in DOMAIN s |-> s[i].id]

\* Parser::datasets and Parser::classifications
WellFormed(datasets) ==
    /\ Len(datasets) <= MaxDatasets /\ Unique(Ids(datasets))
    /\ \A d \in DOMAIN datasets :
          LET cs == datasets[d].classes
          IN  /\ cs # <<>> /\ Unique(Ids(cs))
              /\ Unique([c \in DOMAIN cs |-> <<cs[c].name, cs[c].kind>>])

\* resolve_classification: the position <<dataset, class>>, <<0, 0>> when missing
Resolved(datasets, ref) ==
    LET hits == {<<d, c>> \in (DOMAIN datasets) \X (1..64) :
                    /\ datasets[d].id = ref[1]
                    /\ c \in DOMAIN datasets[d].classes
                    /\ datasets[d].classes[c].id = ref[2]}
    IN  IF hits = {} THEN <<0, 0>> ELSE CHOOSE p \in hits : TRUE
Found(datasets, ref) == Resolved(datasets, ref) # <<0, 0>>

ClassAt(datasets, p) == datasets[p[1]].classes[p[2]]

\* RawRule::resolve
ResolvedRule(datasets, rule) ==
    IF rule.kind = "local" THEN rule ELSE [rule EXCEPT !.ref = Resolved(datasets, rule.ref)]
ResolvedRules(datasets, rules) == [i \in DOMAIN rules |-> ResolvedRule(datasets, rules[i])]
Resolvable(datasets, rules) ==
    \A i \in DOMAIN rules : rules[i].kind = "class" => Found(datasets, rules[i].ref)

\* Config::parse and RawConfig::resolve; a province is a region, named once
Parses(doc) ==
    /\ WellFormed(doc.datasets)
    /\ \A i \in DOMAIN doc.provinces :
          /\ Found(doc.datasets, doc.provinces[i])
          /\ ClassAt(doc.datasets, Resolved(doc.datasets, doc.provinces[i])).kind = "region"
    /\ Unique(doc.provinces) /\ Unique(Ids(doc.rules))
    /\ Resolvable(doc.datasets, doc.rules)

Parsed(doc) ==
    [datasets |-> doc.datasets, default |-> doc.default,
     provinces |-> [i \in DOMAIN doc.provinces |-> Resolved(doc.datasets, doc.provinces[i])],
     rules |-> ResolvedRules(doc.datasets, doc.rules)]

\* Overlay::parse and RawOverlay::resolve
OverlayParses(config, overlay) ==
    Unique(Ids(config.rules \o overlay)) /\ Resolvable(config.datasets, overlay)

-----------------------------------------------------------------------------
(* RuntimeState::initialize                                                *)

(* One reference per dataset, resolved in order; all have to be of the     *)
(* requested generation and of one instance.                               *)
Acceptable(references, generation) ==
    \A d \in DOMAIN references :
        /\ references[d].generation = generation
        /\ references[d].instance = references[1].instance

Initialize(doc, generation, references) ==
    [config |-> Parsed(doc), generation |-> generation, references |-> references]

-----------------------------------------------------------------------------
(* RuntimeState::evaluate                                                  *)

\* effective_rules: the entry's rules after the global ones
Effective(overlay) ==
    state.config.rules \o ResolvedRules(state.config.datasets, overlay)

Least(s) == CHOOSE i \in s : \A j \in s : i <= j

\* matches_local and first_local_match
LocalHits(rules, address, effect) ==
    {i \in DOMAIN rules : rules[i].action = effect /\ rules[i].kind = "local"
                             /\ address \in rules[i].addresses}

\* query_required: the classifications some rule or the province gate needs
Required(rules) ==
    {state.config.provinces[i] : i \in DOMAIN state.config.provinces}
        \cup {rules[i].ref : i \in {j \in DOMAIN rules : rules[j].kind = "class"}}
Queried(rules) == {p[1] : p \in Required(rules)}

Event(action, rule, class, reason) ==
    [action |-> action, rule |-> rule, class |-> class, reason |-> reason]
Outcome(action, event) == [action |-> action, event |-> event]
Failure(reason, class) == Outcome("error", Event("deny", 0, class, reason))
NoClass == <<0, 0>>

\* rule_decision
RuleDecision(rules, i) ==
    Outcome(rules[i].action, Event(rules[i].action, i,
                                   IF rules[i].kind = "class" THEN rules[i].ref ELSE NoClass,
                                   "none"))

\* Mutant: a classification that is not covered counts as no match.
DecideOpen(rules, address, lookup, effect) ==
    LET hits == {i \in DOMAIN rules :
                   /\ rules[i].action = effect
                   /\ i \in LocalHits(rules, address, effect)
                        \/ (rules[i].kind = "class" /\ <<rules[i].ref, "in">> \in lookup)}
    IN  IF hits = {} THEN Outcome("none", Event("none", 0, NoClass, "none"))
        ELSE RuleDecision(rules, Least(hits))

(* The rules of one effect in order: the first that matches decides, and   *)
(* one whose classification is not covered ends the evaluation.            *)
Decide(rules, address, lookup, effect) ==
    LET hits == LocalHits(rules, address, effect)
                  \cup {i \in DOMAIN rules : rules[i].action = effect /\ rules[i].kind = "class"
                                                /\ <<rules[i].ref, "out">> \notin lookup}
    IN  IF hits = {} THEN Outcome("none", Event("none", 0, NoClass, "none"))
        ELSE LET i == Least(hits)
             IN  IF rules[i].kind = "class" /\ <<rules[i].ref, "in">> \notin lookup
                 THEN Failure("coverage_unknown", rules[i].ref)
                 ELSE RuleDecision(rules, i)

\* The province gate
Gate(lookup) ==
    LET ps == state.config.provinces
        unknown == {i \in DOMAIN ps : {<<ps[i], "in">>, <<ps[i], "out">>} \cap lookup = {}}
    IN  IF ps = <<>> \/ \E i \in DOMAIN ps : <<ps[i], "in">> \in lookup
        THEN Outcome("none", Event("none", 0, NoClass, "none"))
        ELSE Outcome("deny", Event("deny", 0, ps[IF unknown # {} THEN Least(unknown) ELSE 1],
                                   IF unknown # {} THEN "coverage_unknown" ELSE "none"))

(* The evaluation after the source was read: a local deny needs no data;   *)
(* then the datasets are asked in order until one fails; then the gate,    *)
(* the denies, the allows and the default.                                 *)
Evaluate(rules, address, failed, lookup) ==
    LET local == LocalHits(rules, address, "deny")
        deny == Decide(rules, address, lookup, "deny")
        allow == Decide(rules, address, lookup, "allow")
    IN  IF local # {} THEN RuleDecision(rules, Least(local))
        ELSE IF failed # {} THEN Failure("dataset", <<Least(failed), 0>>)
        ELSE IF Gate(lookup).action # "none" THEN Gate(lookup)
        ELSE IF deny.action # "none" THEN deny
        ELSE IF allow.action # "none" THEN allow
        ELSE Outcome(state.config.default,
                     Event(state.config.default, 0, NoClass, "default"))

(* The n-th call of an evaluation on its client: the source, the datasets  *)
(* up to the first that fails, and the event of a decision.  The client    *)
(* offers its whole buffer at once, so nothing is asked twice.             *)
CallNumber(n) ==
    LET run[i \in 0..n] ==
            IF i = 0 THEN Host!Returned(Host!Client(HostCalls, 1, 1), "ok", 0)
            ELSE Host!Invoke(run[i - 1].h, "dataset_query", [status |-> "ok", length |-> 1])
    IN  run[n].status

\* The datasets that come after the budget of calls is spent
Refused(rules) ==
    {d \in Queried(rules) :
        CallNumber(1 + Cardinality({e \in Queried(rules) : e <= d})) = "call_budget"}

\* The event goes out on the same client; emit_failure has one of its own.
Emitted(outcome, calls) ==
    IF outcome.event.reason = "default" THEN "silent"
    ELSE IF outcome.action = "error" \/ CallNumber(calls + 1) = "ok" THEN "sent"
    ELSE "dropped"

\* source.generation and source.instance_id against what init resolved
SourceTrusted(source) ==
    /\ source.generation = state.generation
    /\ state.references # <<>> => source.instance = state.references[1].instance

-----------------------------------------------------------------------------
(* wasm.rs                                                                 *)

\* An input serves one call; what was judged before is forgotten.
Alloc ==
    /\ inputActive = "no" /\ inputActive' = "yes"
    /\ judged' = NotJudged
    /\ UNCHANGED <<outputActive, state, output, handed, evals>>

FreeInput ==
    /\ inputActive = "yes" /\ inputActive' = "no"
    /\ UNCHANGED <<outputActive, state, output, handed, evals, judged>>

FreeOutput ==
    /\ outputActive = "yes" /\ outputActive' = "no"
    /\ handed' = Nothing
    /\ UNCHANGED <<inputActive, state, output, evals, judged>>

(* nre_policy_init.  A second init is refused; one that failed may be      *)
(* tried again.                                                            *)
Init1(doc, generation, references) ==
    /\ inputActive = "yes" /\ state = Uninitialized
    /\ Parses(doc) /\ Len(references) = Len(doc.datasets)
    /\ Acceptable(references, generation)
    /\ state' = Initialize(doc, generation, references)
    /\ UNCHANGED <<inputActive, outputActive, output, handed, evals, judged>>

\* Mutant: the output buffer is written while the host still holds it.
EncodeOver(answer) ==
    /\ output' = answer /\ handed' = IF handed = Nothing THEN answer ELSE handed
    /\ outputActive' = "yes"

(* encode_success and encode_error: nothing is written, and the call       *)
(* returns 0, while the host holds the last answer.                        *)
Encode(answer) ==
    IF outputActive = "yes" THEN UNCHANGED <<output, handed, outputActive>>
    ELSE output' = answer /\ handed' = answer /\ outputActive' = "yes"

(* nre_policy_evaluate with an overlay, a source and what the datasets     *)
(* answer: failed are those that do not, lookup is what the others say.    *)
EvaluateCall(overlay, source, failed, lookup) ==
    LET rules == Effective(overlay)
        outcome == IF ~OverlayParses(state.config, overlay) THEN Failure("data_invalid", NoClass)
                   ELSE IF ~SourceTrusted(source) THEN Failure("source", NoClass)
                   ELSE Evaluate(rules, source.address, failed \cup Refused(rules), lookup)
        calls == IF outcome.event.reason = "data_invalid" THEN 0
                 ELSE IF outcome.event.reason = "source"
                         \/ LocalHits(rules, source.address, "deny") # {} THEN 1
                 ELSE 1 + Cardinality({d \in Queried(rules) : \A f \in failed : d <= f})
    IN  /\ inputActive = "yes" /\ state # Uninitialized
        /\ judged = NotJudged /\ evals < MaxEvals
        /\ evals' = evals + 1
        /\ Encode([action |-> outcome.action])
        /\ judged' = [rules |-> rules, config |-> state.config, address |-> source.address,
                      lookup |-> lookup, answer |-> [action |-> outcome.action],
                      event |-> outcome.event, emitted |-> Emitted(outcome, calls),
                      fresh |-> IF SourceTrusted(source) /\ failed = {} THEN "yes" ELSE "no"]
        /\ UNCHANGED <<inputActive, state>>

(* The data answers for the classifications it is asked about.             *)
Answers(overlay) ==
    LET required == IF OverlayParses(state.config, overlay) THEN Required(Effective(overlay))
                    ELSE {}
    IN  {{<<p, f[p]>> : p \in required} : f \in [required -> {"in", "out", "uncovered"}]}

Init ==
    /\ inputActive = "no" /\ outputActive = "no"
    /\ state = Uninitialized /\ output = Nothing /\ handed = Nothing
    /\ evals = 0 /\ judged = NotJudged

References(n) == [1..n -> [generation : Generations, instance : Instances]]

Next ==
    \/ Alloc \/ FreeInput \/ FreeOutput
    \/ \E doc \in Documents, g \in Generations :
          \E refs \in References(Len(doc.datasets)) : Init1(doc, g, refs)
    \/ \E overlay \in Overlays :
          \E source \in [address : Addresses, generation : Generations, instance : Instances],
             lookup \in Answers(overlay),
             failed \in SUBSET Queried(Effective(overlay)) :
                EvaluateCall(overlay, source, failed, lookup)

Spec == Init /\ [][Next]_vars

-----------------------------------------------------------------------------
(* Properties                                                              *)

\* Every variable has its type.
TypeOK ==
    /\ {inputActive, outputActive} \subseteq {"no", "yes"}
    /\ {output.action, handed.action} \subseteq {"none", "allow", "deny", "error"}
    /\ state.generation \in Generations \cup {"none"}
    /\ evals \in 0..MaxEvals

Matching(i) ==
    LET r == judged.rules[i]
    IN  IF r.kind = "local" THEN judged.address \in r.addresses
        ELSE <<r.ref, "in">> \in judged.lookup
MayMatch(i) ==
    LET r == judged.rules[i]
    IN  IF r.kind = "local" THEN judged.address \in r.addresses
        ELSE <<r.ref, "out">> \notin judged.lookup

(* What evaluate allows is allowed: the source belongs to the generation   *)
(* and instance whose datasets init resolved, every dataset that was asked *)
(* answered, no deny of the config or of the entry matches or might match  *)
(* where coverage is unknown, the province gate is passed, and an allow    *)
(* rule or the default says so.  The entry's rules "only add" (README).    *)
AllowSound ==
    judged.answer.action = "allow" =>
        /\ judged.fresh = "yes"
        /\ \A i \in DOMAIN judged.rules : judged.rules[i].action = "deny" => ~MayMatch(i)
        /\ judged.config.provinces # <<>> =>
              \E i \in DOMAIN judged.config.provinces :
                 <<judged.config.provinces[i], "in">> \in judged.lookup
        /\ \/ judged.config.default = "allow"
           \/ \E i \in DOMAIN judged.rules : judged.rules[i].action = "allow" /\ Matching(i)

(* The event of a decision names what decided: the rule it counts to,      *)
(* through the global rules into the entry's, matches and has the action   *)
(* of the answer; and the budget of host calls always leaves one for it.   *)
EventTrue ==
    /\ judged.emitted # "dropped"
    /\ judged.event.action # "none" /\ judged.event.rule # 0 =>
          /\ judged.rules[judged.event.rule].action = judged.answer.action
          /\ Matching(judged.event.rule)

(* An answer the host was handed stays in the output buffer until the host *)
(* frees it, whatever it calls meanwhile.                                  *)
HandedKept == handed # Nothing => output = handed
=============================================================================
