------------------------------- MODULE IpTrie -------------------------------
(***************************************************************************)
(* The prefix sets of the ip-policy engine and the layered decision over   *)
(* them: PolicySet (trie.rs), IpPolicy::evaluate (policy.rs) and the geo   *)
(* rules (geo.rs).                                                         *)
(*                                                                         *)
(* A set is a binary trie in a fixed array of nodes, with one root per     *)
(* address family.  Prefixes are inserted one by one while a policy is     *)
(* built; an insert that runs out of nodes fails half way and leaves the   *)
(* nodes it made.  The addresses have Bits[family] bits instead of 32 and  *)
(* 128.                                                                    *)
(***************************************************************************)
EXTENDS Integers, Sequences, FiniteSets

CONSTANTS
    Bits,         \* the width of an address, per family
    MaxNodes,     \* MAX_NODES
    MaxInserts,   \* bound on the inserts of a behaviour
    GeoRules      \* [country, region, effect]; region "any" is None

VARIABLES
    nodes,      \* per layer, the array of nodes
    usedNodes,  \* per layer, PolicySet.used
    inserted,   \* per layer, the rules whose insert succeeded
    inserts

vars == <<nodes, usedNodes, inserted, inserts>>

Layers == {"shared", "overlay"}
Families == {"v4", "v6"}
Effects == {"allow", "deny"}
Words(n) == [1..n -> {0, 1}]

Addresses == UNION {{[family |-> f, bits |-> w] : w \in Words(Bits[f])} : f \in Families}

\* A Cidr after Cidr::parse, which clears the host bits
Cidrs == UNION {{[family |-> f, bits |-> w] : w \in UNION {Words(n) : n \in 0..Bits[f]}} :
                   f \in Families}
Masked(a, n) == [family |-> a.family, bits |-> SubSeq(a.bits, 1, n)]

\* Cidr::contains
Contains(cidr, a) ==
    /\ cidr.family = a.family
    /\ \A i \in DOMAIN cidr.bits : cidr.bits[i] = a.bits[i]

\* Node::EMPTY; NONE is 0, and the roots are the nodes 1 and 2
NoNode == [child |-> <<0, 0>>, allow |-> FALSE, deny |-> FALSE]
Root(family) == IF family = "v4" THEN 1 ELSE 2

-----------------------------------------------------------------------------
(* PolicySet                                                               *)

(* The walk of an insert: the node reached after each bit, new nodes       *)
(* handed out by allocate in the order of the walk; 0 once it failed.      *)
Child(layer, n, b) == nodes[layer][n].child[b + 1]

Path(layer, cidr) ==
    LET walk[i \in 0..Len(cidr.bits)] ==
            IF i = 0 THEN [at |-> Root(cidr.family), used |-> usedNodes[layer], ok |-> TRUE]
            ELSE LET w == walk[i - 1]
                     next == IF w.at <= usedNodes[layer]
                             THEN Child(layer, w.at, cidr.bits[i]) ELSE 0
                 IN  IF ~w.ok THEN w
                     ELSE IF next # 0 THEN [w EXCEPT !.at = next]
                     ELSE IF w.used >= MaxNodes THEN [w EXCEPT !.ok = FALSE]
                     ELSE [at |-> w.used + 1, used |-> w.used + 1, ok |-> TRUE]
    IN  walk

\* The array after the walk: every new node hangs under the one before it.
Grown(layer, cidr) ==
    LET walk == Path(layer, cidr)
    IN  [n \in 1..MaxNodes |->
            LET steps == {i \in 1..Len(cidr.bits) :
                             walk[i].ok /\ walk[i].used > walk[i - 1].used /\ walk[i - 1].at = n}
            IN  IF steps = {} THEN nodes[layer][n]
                ELSE LET i == CHOOSE i \in steps : TRUE
                     IN  [nodes[layer][n] EXCEPT !.child[cidr.bits[i] + 1] = walk[i].at]]

Set(node, effect) ==
    IF effect = "allow" THEN [node EXCEPT !.allow = TRUE] ELSE [node EXCEPT !.deny = TRUE]

\* Mutant: an insert that runs out of nodes marks the last node it reached.
InsertPartly(layer, a, n, effect) ==
    LET cidr == Masked(a, n)
        end == Path(layer, cidr)[n]
    IN  /\ inserts < MaxInserts /\ inserts' = inserts + 1
        /\ nodes' = [nodes EXCEPT ![layer] =
                        [Grown(layer, cidr) EXCEPT ![end.at] = Set(@, effect)]]
        /\ usedNodes' = [usedNodes EXCEPT ![layer] = end.used]
        /\ inserted' = IF end.ok THEN [inserted EXCEPT ![layer] = @ \cup {<<cidr, effect>>}]
                       ELSE inserted

(* PolicySet::insert of a text whose address has host bits.  It fails with *)
(* CapacityExceeded in the middle of the walk, and with DuplicatePrefix at *)
(* its end.                                                                *)
Insert(layer, a, n, effect) ==
    LET cidr == Masked(a, n)
        end == Path(layer, cidr)[n]
        grown == Grown(layer, cidr)
    IN  /\ inserts < MaxInserts /\ inserts' = inserts + 1
        /\ usedNodes' = [usedNodes EXCEPT ![layer] = end.used]
        /\ IF end.ok /\ ~grown[end.at][effect]
           THEN /\ nodes' = [nodes EXCEPT ![layer] = [grown EXCEPT ![end.at] = Set(@, effect)]]
                /\ inserted' = [inserted EXCEPT ![layer] = @ \cup {<<cidr, effect>>}]
           ELSE /\ nodes' = [nodes EXCEPT ![layer] = grown]
                /\ UNCHANGED inserted

\* PolicySet::contains: some node on the way down has the effect
Matches(layer, a, effect) ==
    LET at[i \in 0..Len(a.bits)] ==
            IF i = 0 THEN Root(a.family)
            ELSE IF at[i - 1] = 0 THEN 0 ELSE Child(layer, at[i - 1], a.bits[i])
    IN  \E i \in 0..Len(a.bits) : at[i] # 0 /\ nodes[layer][at[i]][effect]

-----------------------------------------------------------------------------
(* IpPolicy                                                                *)

Records == {[country |-> r.country, region |-> g] :
               r \in GeoRules, g \in ({x.region : x \in GeoRules} \ {"any"}) \cup {"none"}}
\* What the provider answers, and no handle at all
Lookups == {[status |-> "fresh", record |-> r] : r \in Records}
              \cup {[status |-> s, record |-> [country |-> "none", region |-> "none"]] :
                       s \in {"missing", "expired", "invalid"}}

\* GeoRule::matches
GeoMatches(rule, record) ==
    rule.country = record.country /\ rule.region \in {"any", record.region}

Decision(action, reason) == [action |-> action, reason |-> reason]
NoDecision == Decision("none", "none")

\* evaluate_geo and geo_failure
EvaluateGeo(lookup, failure) ==
    LET hit(effect) == \E r \in GeoRules : r.effect = effect /\ GeoMatches(r, lookup.record)
    IN  IF GeoRules = {} THEN NoDecision
        ELSE IF lookup.status # "fresh" THEN Decision(failure, lookup.status)
        ELSE IF hit("deny") THEN Decision("deny", "geo")
        ELSE IF hit("allow") THEN Decision("allow", "geo")
        ELSE NoDecision

\* Mutant: the layers are asked one after the other.
EvaluateInTurn(a, authenticated, lookup, failure, default) ==
    LET geo == EvaluateGeo(lookup, failure)
    IN  IF ~authenticated THEN Decision("deny", "unauthenticated")
        ELSE IF Matches("overlay", a, "deny") THEN Decision("deny", "overlay")
        ELSE IF Matches("overlay", a, "allow") THEN Decision("allow", "overlay")
        ELSE IF Matches("shared", a, "deny") THEN Decision("deny", "shared")
        ELSE IF geo.action = "deny" THEN geo
        ELSE IF Matches("shared", a, "allow") THEN Decision("allow", "shared")
        ELSE IF geo.action = "allow" THEN geo
        ELSE Decision(default, "default")

\* IpPolicy::evaluate: every deny is looked for before any allow
Evaluate(a, authenticated, lookup, failure, default) ==
    LET geo == EvaluateGeo(lookup, failure)
    IN  IF ~authenticated THEN Decision("deny", "unauthenticated")
        ELSE IF Matches("shared", a, "deny") THEN Decision("deny", "shared")
        ELSE IF Matches("overlay", a, "deny") THEN Decision("deny", "overlay")
        ELSE IF geo.action = "deny" THEN geo
        ELSE IF Matches("shared", a, "allow") THEN Decision("allow", "shared")
        ELSE IF Matches("overlay", a, "allow") THEN Decision("allow", "overlay")
        ELSE IF geo.action = "allow" THEN geo
        ELSE Decision(default, "default")

-----------------------------------------------------------------------------
Init ==
    /\ nodes = [l \in Layers |-> [n \in 1..MaxNodes |-> NoNode]]
    /\ usedNodes = [l \in Layers |-> 2]
    /\ inserted = [l \in Layers |-> {}]
    /\ inserts = 0

Next ==
    \E layer \in Layers, a \in Addresses, effect \in Effects :
        \E n \in 0..Bits[a.family] : Insert(layer, a, n, effect)

Spec == Init /\ [][Next]_vars

-----------------------------------------------------------------------------
(* Properties                                                              *)

\* Every variable has its type.
TypeOK ==
    \A l \in Layers :
        /\ usedNodes[l] \in 2..MaxNodes
        /\ \A n \in 1..MaxNodes : \A b \in 1..2 : nodes[l][n].child[b] \in {0} \cup 3..usedNodes[l]
        /\ inserted[l] \subseteq Cidrs \X Effects

(* A lookup finds exactly what was inserted: an address matches when some  *)
(* prefix whose insert succeeded contains it, in its own family, whatever  *)
(* order the prefixes came in and however many inserts ran out of nodes    *)
(* half way.                                                               *)
LookupExact ==
    \A l \in Layers, a \in Addresses, e \in Effects :
        Matches(l, a, e) <=> \E rule \in inserted[l] : rule[2] = e /\ Contains(rule[1], a)

(* "an overlay can never weaken a shared deny" (policy.rs): what is        *)
(* allowed was denied by no layer, by no geo rule and by no failed lookup  *)
(* under a failure policy of deny, and was authenticated.                  *)
DenyWins ==
    \A a \in Addresses, lookup \in Lookups, failure \in Effects, default \in Effects :
        LET geo == \E r \in GeoRules : r.effect = "deny" /\ GeoMatches(r, lookup.record)
        IN  /\ Evaluate(a, FALSE, lookup, failure, default).action = "deny"
            /\ Evaluate(a, TRUE, lookup, failure, default).action = "allow" =>
                  /\ \A l \in Layers : \A rule \in inserted[l] :
                        rule[2] = "deny" => ~Contains(rule[1], a)
                  /\ lookup.status = "fresh" => ~geo
                  /\ lookup.status # "fresh" => failure = "allow"
=============================================================================
