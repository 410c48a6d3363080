----------------------------- MODULE RateLimit ------------------------------
(***************************************************************************)
(* The admission engine of the rate-limit policy: the GCRA bucket          *)
(* (gcra.rs) and the fixed table of buckets (LocalLimiter, limiter.rs).    *)
(*                                                                         *)
(* A bucket holds one number, the theoretical arrival time of the next     *)
(* request.  An HTTP request is charged to the bucket of its source and to *)
(* the bucket of its rule, both or neither; a new L4 connection or flow to *)
(* the bucket of its source.  The table never evicts: a key that finds no  *)
(* free entry is refused.  Times are u64 nanoseconds in the code and run   *)
(* up to MaxNs here, so that the checked addition can overflow.            *)
(***************************************************************************)
EXTENDS Integers, Sequences, FiniteSets

CONSTANTS
    Generations, Sources,
    SourceSpec, GlobalSpec,   \* BucketSpec: [interval, burst]
    MaxKeys,                  \* MAX_KEYS
    MaxNs,                    \* u64::MAX
    MaxAdmissions             \* bound on the requests of a behaviour

VARIABLES
    entries,    \* LocalLimiter.entries
    lastNow,    \* LocalLimiter.last_now; -1: None
    clock,      \* the host's clock
    admitted,   \* per key, the times charged to it since it was last dropped
    admissions

vars == <<entries, lastNow, clock, admitted, admissions>>

Kinds == {"http", "l4_new", "l4_existing"}
Slots == 1..MaxKeys

\* CounterKey; the bucket of a rule has no source
SourceKey(kind, g, s) ==
    <<IF kind = "http" THEN "http_source" ELSE "l4_source", g, s>>
GlobalKey(g) == <<"http_global", g, "0">>

Keys ==
    {SourceKey(k, g, s) : k \in {"http", "l4_new"}, g \in Generations, s \in Sources}
        \cup {GlobalKey(g) : g \in Generations}

Empty == [key |-> <<>>, tat |-> 0]

-----------------------------------------------------------------------------
(* gcra.rs                                                                 *)

Larger(a, b) == IF a > b THEN a ELSE b

\* BucketSpec::validate and tolerance_ns
Valid(spec) ==
    spec.interval > 0 /\ spec.burst > 0 /\ spec.interval * (spec.burst - 1) <= MaxNs
Tolerance(spec) == spec.interval * (spec.burst - 1)

\* Mutant: the request itself is not charged before it is compared.
PreviewLate(tat, now, spec) ==
    LET earliest == Larger(tat - Tolerance(spec) - spec.interval, 0)
        next == Larger(tat, now) + spec.interval
    IN  IF now < earliest
        THEN [ok |-> TRUE, allowed |-> FALSE, retry |-> earliest - now, next |-> tat]
        ELSE [ok |-> TRUE, allowed |-> TRUE, retry |-> 0, next |-> next]

\* GcraState::preview
Preview(tat, now, spec) ==
    LET earliest == Larger(tat - Tolerance(spec), 0)
        next == Larger(tat, now) + spec.interval
    IN  IF ~Valid(spec)
        THEN [ok |-> FALSE, allowed |-> FALSE, retry |-> 0, next |-> tat]
        ELSE IF now < earliest
        THEN [ok |-> TRUE, allowed |-> FALSE, retry |-> earliest - now, next |-> tat]
        ELSE IF next > MaxNs
        THEN [ok |-> FALSE, allowed |-> FALSE, retry |-> 0, next |-> tat]
        ELSE [ok |-> TRUE, allowed |-> TRUE, retry |-> 0, next |-> next]

-----------------------------------------------------------------------------
(* limiter.rs                                                              *)

\* The first slot in the order of the table, 0 when there is none.
First(slots) == IF slots = {} THEN 0 ELSE CHOOSE i \in slots : \A j \in slots : i <= j

\* find_or_empty; excluded = 0 excludes none
FindOrEmpty(key, excluded) ==
    LET held == {i \in Slots : entries[i].key = key}
    IN  IF held # {} THEN First(held)
        ELSE First({i \in Slots \ {excluded} : entries[i].key = <<>>})

\* install_and_commit
Commit(table, i, key, preview) == [table EXCEPT ![i] = [key |-> key, tat |-> preview.next]]

Answer(action, reason, retry) == [action |-> action, reason |-> reason, retry |-> retry]
Allow(reason) == Answer("allow", reason, 0)
Deny(reason, retry) == Answer("deny", reason, retry)

PreviewAt(slot, now, spec) == Preview(IF slot = 0 THEN 0 ELSE entries[slot].tat, now, spec)

(* The slots of a request.  The source's entry is found first, and it is   *)
(* kept out of the search for the rule's, as both may still be empty.      *)
SourceSlot(kind, g, s) == FindOrEmpty(SourceKey(kind, g, s), 0)
GlobalSlot(kind, g, s) ==
    IF kind = "http" THEN FindOrEmpty(GlobalKey(g), SourceSlot(kind, g, s)) ELSE 0

(* What LocalLimiter::admit answers at a time, in the order of its returns *)
Verdict(kind, g, s, now) ==
    LET slot == SourceSlot(kind, g, s)
        gslot == GlobalSlot(kind, g, s)
        global == kind = "http"
        sp == PreviewAt(slot, now, SourceSpec)
        gp == PreviewAt(gslot, now, GlobalSpec)
    IN  CASE now < lastNow -> Deny("clock_regressed", 0)
          [] now >= lastNow /\ kind = "l4_existing" -> Allow("existing_session")
          [] OTHER ->
                IF slot = 0 \/ (global /\ gslot = 0) THEN Deny("state_capacity_exhausted", 0)
                ELSE IF ~sp.ok \/ (global /\ ~gp.ok) THEN Deny("invalid_config", 0)
                ELSE IF ~sp.allowed THEN Deny("source_limited", sp.retry)
                ELSE IF global /\ ~gp.allowed THEN Deny("rule_global_limited", gp.retry)
                ELSE Allow("allowed")

\* The keys a request is charged to
Charged(kind, g, s) ==
    {SourceKey(kind, g, s)} \cup (IF kind = "http" THEN {GlobalKey(g)} ELSE {})

Log(keys) ==
    admitted' = [k \in Keys |-> IF k \in keys THEN Append(admitted[k], clock) ELSE admitted[k]]

\* Mutant: the source pays although the bucket of the rule refuses.
AdmitSourceFirst(kind, g, s) ==
    LET v == Verdict(kind, g, s, clock)
        slot == SourceSlot(kind, g, s)
    IN  /\ admissions < MaxAdmissions /\ admissions' = admissions + 1
        /\ lastNow' = Larger(lastNow, clock)
        /\ IF v.reason \in {"allowed", "rule_global_limited"}
           THEN /\ entries' = Commit(entries, slot, SourceKey(kind, g, s),
                                     PreviewAt(slot, clock, SourceSpec))
                /\ Log(IF v.action = "allow" THEN Charged(kind, g, s) ELSE {})
           ELSE UNCHANGED <<entries, admitted>>
        /\ UNCHANGED clock

(* LocalLimiter::admit.  A regressed clock is refused before last_now is   *)
(* set; nothing is installed or charged before both buckets have allowed   *)
(* the request.                                                            *)
Admit(kind, g, s) ==
    LET slot == SourceSlot(kind, g, s)
        gslot == GlobalSlot(kind, g, s)
        paid == Commit(entries, slot, SourceKey(kind, g, s), PreviewAt(slot, clock, SourceSpec))
    IN  /\ admissions < MaxAdmissions /\ admissions' = admissions + 1
        /\ lastNow' = Larger(lastNow, clock)
        /\ IF Verdict(kind, g, s, clock).reason = "allowed"
           THEN /\ entries' = IF kind = "http"
                              THEN Commit(paid, gslot, GlobalKey(g),
                                          PreviewAt(gslot, clock, GlobalSpec))
                              ELSE paid
                /\ Log(Charged(kind, g, s))
           ELSE UNCHANGED <<entries, admitted>>
        /\ UNCHANGED clock

\* reset_generation
ResetGeneration(g) ==
    /\ \E i \in Slots : entries[i].key # <<>> /\ entries[i].key[2] = g
    /\ entries' = [i \in Slots |->
          IF entries[i].key # <<>> /\ entries[i].key[2] = g THEN Empty ELSE entries[i]]
    /\ admitted' = [k \in Keys |-> IF k[2] = g THEN <<>> ELSE admitted[k]]
    /\ UNCHANGED <<lastNow, clock, admissions>>

\* disable: every counter goes, and the clock may start anywhere again
Disable ==
    /\ \E i \in Slots : entries[i].key # <<>>
    /\ entries' = [i \in Slots |-> Empty]
    /\ lastNow' = -1
    /\ admitted' = [k \in Keys |-> <<>>]
    /\ UNCHANGED <<clock, admissions>>

(* The host's clock advances, and a caller may hand in a reading that is   *)
(* older than the one before it.                                           *)
Clock(t) ==
    /\ t # clock /\ t \in (clock - 1)..(clock + 2) /\ t \in 0..MaxNs
    /\ clock' = t
    /\ UNCHANGED <<entries, lastNow, admitted, admissions>>

Init ==
    /\ entries = [i \in Slots |-> Empty]
    /\ lastNow = -1 /\ clock = 0
    /\ admitted = [k \in Keys |-> <<>>]
    /\ admissions = 0

Next ==
    \/ \E kind \in Kinds, g \in Generations, s \in Sources : Admit(kind, g, s)
    \/ \E g \in Generations : ResetGeneration(g)
    \/ Disable
    \/ \E t \in 0..MaxNs : Clock(t)

Spec == Init /\ [][Next]_vars

-----------------------------------------------------------------------------
(* Properties                                                              *)

\* Every variable has its type, and no bucket runs past the width of a time.
TypeOK ==
    /\ \A i \in Slots : entries[i].key \in Keys \cup {<<>>} /\ entries[i].tat \in 0..MaxNs
    /\ lastNow \in -1..MaxNs /\ clock \in 0..MaxNs

SpecOf(key) == IF key[1] = "http_global" THEN GlobalSpec ELSE SourceSpec

(* The quota of every bucket holds over every window, not only between two *)
(* requests: of the requests charged to one key, the i-th and the j-th are *)
(* far enough apart that the window they span admits burst plus one per    *)
(* interval.  This is what GcraState::preview is for, and it has to hold   *)
(* across denials, other keys, capacity refusals and regressed clocks.     *)
QuotaKept ==
    \A k \in Keys : \A i, j \in DOMAIN admitted[k] :
        i <= j => (j - i + 1 - SpecOf(k).burst) * SpecOf(k).interval
                     <= admitted[k][j] - admitted[k][i]

(* Both buckets or neither: the table holds exactly the keys that were     *)
(* charged, each once, and each bucket stands where its own charges put    *)
(* it, so a request that one bucket refused has cost the other nothing     *)
(* ("a denial returns status 429 without consuming the other bucket").     *)
Replay(k) ==
    LET tat[n \in 0..Len(admitted[k])] ==
            IF n = 0 THEN 0 ELSE Larger(tat[n - 1], admitted[k][n]) + SpecOf(k).interval
    IN  tat[Len(admitted[k])]

BothOrNeither ==
    /\ \A k \in Keys :
          LET held == {i \in Slots : entries[i].key = k}
          IN  /\ Cardinality(held) = (IF admitted[k] = <<>> THEN 0 ELSE 1)
              /\ \A i \in held : entries[i].tat = Replay(k)
    /\ \A g \in Generations, s \in Sources :
          Len(admitted[SourceKey("http", g, s)]) <= Len(admitted[GlobalKey(g)])

(* A refused caller that waits exactly as long as it was told finds the    *)
(* bucket that refused it open, and no earlier time would have done; the   *)
(* table is full or the sum of times overflows for other reasons.          *)
RetryHonest ==
    \A kind \in Kinds, g \in Generations, s \in Sources :
        LET v == Verdict(kind, g, s, clock)
        IN  v.reason \in {"source_limited", "rule_global_limited"} =>
                /\ v.retry > 0
                /\ \A t \in clock..MaxNs :
                      Verdict(kind, g, s, t).reason = v.reason <=> t < clock + v.retry
=============================================================================
