----------------------------- MODULE DohService -----------------------------
(***************************************************************************)
(* One generation of the doh plugin's Service: the requests it serves, the *)
(* host calls they make in goroutines and may abandon, the semaphore slot  *)
(* that lasts until both are done, the clock guard, the answer cache and   *)
(* Close.                                                                  *)
(*                                                                         *)
(* A question and the source of its client subnet make a key; an answer is *)
(* its time to live.  Time is counted in seconds.  The failure counters of *)
(* the upstream statuses, which nothing reads, are left out.               *)
(***************************************************************************)
EXTENDS Naturals, Sequences, SequencesExt, FiniteSets

CONSTANTS
    Requests,
    Keys,            \* records [name, ecs, size]: name is a sequence of labels
    Upstreams,       \* sequence of [id, domain, enabled]; domain <<>> serves every name
    MaxConcurrency, MaxEntries, MaxBytes, MinTTL, MaxTTL,
    TTLs,            \* what an upstream may answer
    MaxTime

VARIABLES
    live, closing, count, semaphore,
    clock, lastNow,
    cache, bytes,    \* cache: records in the order they were put
    statuses,
    req, calls       \* calls[r]: the host calls of r that have not returned

service == <<live, closing>>
memory == <<cache, bytes>>
vars == <<service, count, semaphore, clock, lastNow, memory, statuses, req, calls>>

NoAnswer == [ttl |-> 0, stored |-> 0, shown |-> 0]
Admitted(k) == [step |-> "idle", key |-> k, ctx |-> TRUE, slot |-> FALSE, now |-> 0,
                read |-> 0, left |-> <<>>, ttl |-> 0, result |-> "none", answer |-> NoAnswer]
Indices == DOMAIN Upstreams
Ids == {Upstreams[i].id : i \in Indices}
HostSteps == {"clock", "get", "clock2", "put"} \cup Ids
TheLesser(a, b) == IF a < b THEN a ELSE b
Bytes(s) == FoldSeq(LAMBDA e, n : n + e.key.size, 0, s)

(* domainMatches, upstreamsForName: the enabled upstreams of the longest   *)
(* domain the name falls under, or else those without a domain             *)
DomainMatches(name, domain) == domain # <<>> /\ IsSuffix(domain, name)
UpstreamsForName(name) ==
    LET fit == {i \in Indices : Upstreams[i].enabled /\ DomainMatches(name, Upstreams[i].domain)}
        best == {i \in fit : \A j \in fit : Len(Upstreams[j].domain) <= Len(Upstreams[i].domain)}
        defaults == {i \in Indices : Upstreams[i].enabled /\ Upstreams[i].domain = <<>>}
        chosen == IF fit # {} THEN best ELSE defaults
    IN  [n \in 1..Cardinality(chosen) |->
            Upstreams[CHOOSE i \in chosen : Cardinality({j \in chosen : j <= i}) = n].id]

(***************************************************************************)
(* The cache                                                               *)
(***************************************************************************)
Entry(k) == SelectSeq(cache, LAMBDA e : e.key = k)
Without(k) == SelectSeq(cache, LAMBDA e : e.key # k)

(* Get drops an entry that has expired by the caller's time                *)
Get(k, now) ==
    IF Entry(k) # <<>> /\ now >= Entry(k)[1].expires
    THEN cache' = Without(k) /\ bytes' = bytes - k.size
    ELSE UNCHANGED memory

(* Put replaces the entry of the key, then evicts in the order of the puts *)
(* until the new one fits; one that never fits has emptied the cache       *)
Fits(s, k) == Len(s) < MaxEntries /\ Bytes(s) + k.size <= MaxBytes
Kept(k) == LET n == CHOOSE i \in 0..Len(Without(k)) :
                       /\ \/ i = Len(Without(k))
                          \/ Fits(SubSeq(Without(k), i + 1, Len(Without(k))), k)
                       /\ \A j \in 0..i-1 : ~Fits(SubSeq(Without(k), j + 1, Len(Without(k))), k)
           IN  SubSeq(Without(k), n + 1, Len(Without(k)))
\* Mutant: the bytes of the entry that is replaced stay counted.
PutOver(e) ==
    LET gone == Bytes(Without(e.key)) - Bytes(Kept(e.key))
    IN  IF Fits(Kept(e.key), e.key)
        THEN /\ cache' = Append(Kept(e.key), e)
             /\ bytes' = bytes - gone + e.key.size
        ELSE cache' = <<>> /\ bytes' = bytes - gone

Put(e) ==
    LET gone == Bytes(cache) - Bytes(Kept(e.key))
    IN  IF Fits(Kept(e.key), e.key)
        THEN /\ cache' = Append(Kept(e.key), e)
             /\ bytes' = bytes - gone + e.key.size
        ELSE cache' = <<>> /\ bytes' = bytes - gone

(***************************************************************************)
(* Requests                                                                *)
(***************************************************************************)
(* boundedHostCall starts the next call                                    *)
Call(r, step, rec) ==
    /\ req' = [req EXCEPT ![r] = [rec EXCEPT !.step = step]]
    /\ calls' = [calls EXCEPT ![r] = (@ \ {req[r].step}) \cup {step}]
    /\ UNCHANGED <<count, semaphore>>

(* The call that was active has returned and the request is answered       *)
Answer(r, result, rec) ==
    /\ req' = [req EXCEPT ![r] = [rec EXCEPT !.step = "leave", !.result = result]]
    /\ calls' = [calls EXCEPT ![r] = @ \ {req[r].step}]
    /\ UNCHANGED <<count, semaphore>>

(* serve, beginRequest: refused once the service is revoked                *)
BeginRequest(r, k) ==
    /\ req[r].step = "idle" /\ live
    /\ count' = count + 1
    /\ req' = [req EXCEPT ![r] = [Admitted(k) EXCEPT !.step = "parse"]]
    /\ UNCHANGED <<service, semaphore, clock, lastNow, memory, statuses, calls>>

(* A query that does not parse, or one too many, is answered at once       *)
TakeSlot(r) ==
    /\ req[r].step = "parse"
    /\ \/ Answer(r, "error", req[r])
       \/ /\ semaphore < MaxConcurrency
          /\ semaphore' = semaphore + 1 /\ UNCHANGED count
          /\ IF req[r].ctx /\ live
             THEN /\ req' = [req EXCEPT ![r].step = "clock", ![r].slot = TRUE]
                  /\ calls' = [calls EXCEPT ![r] = {"clock"}]
             ELSE /\ req' = [req EXCEPT ![r].step = "leave", ![r].slot = TRUE, ![r].result = "error"]
                  /\ UNCHANGED calls
    /\ UNCHANGED <<service, clock, lastNow, memory, statuses>>

(* now: the clock is read in the call and compared under clockMu later     *)
ReadClock(r) ==
    /\ req[r].step \in {"clock", "clock2"} /\ req[r].step \in calls[r]
    /\ req' = [req EXCEPT ![r].read = clock]
    /\ calls' = [calls EXCEPT ![r] = @ \ {req[r].step}]
    /\ UNCHANGED <<service, count, semaphore, clock, lastNow, memory, statuses>>

RecordNow(r) ==
    /\ req[r].step \in {"clock", "clock2"} /\ req[r].step \notin calls[r]
    /\ IF req[r].read < lastNow
       THEN Answer(r, "error", req[r]) /\ UNCHANGED lastNow
       ELSE /\ lastNow' = req[r].read
            /\ IF ~(req[r].ctx /\ live) THEN Answer(r, "error", req[r])
               ELSE IF req[r].step = "clock"
               THEN Call(r, "get", [req[r] EXCEPT !.now = req[r].read])
               ELSE Call(r, "put", req[r])
    /\ UNCHANGED <<service, clock, memory, statuses>>

\* Mutant: an entry of the caller's future is served.
ServableEarly(e, now) ==
    /\ e.ttl > 0 /\ e.ttl >= MinTTL /\ TheLesser(e.ttl, MaxTTL) > 0
    /\ now < e.expires /\ e.expires <= e.stored + TheLesser(e.ttl, MaxTTL)

(* A hit is served only within the life its own answer allows, and its     *)
(* times to live are cut to what is left of it                             *)
Servable(e, now) ==
    /\ e.ttl > 0 /\ e.ttl >= MinTTL /\ TheLesser(e.ttl, MaxTTL) > 0
    /\ e.stored <= now /\ now < e.expires
    /\ e.expires <= e.stored + TheLesser(e.ttl, MaxTTL)
Lookup(r) ==
    LET k == req[r].key
        now == req[r].now
        e == Entry(k)[1]
        rest == UpstreamsForName(k.name)
    IN  /\ req[r].step = "get" /\ req[r].ctx
        /\ Get(k, now)
        /\ IF ~live THEN Answer(r, "error", req[r])
           ELSE IF Entry(k) # <<>> /\ now < e.expires
           THEN IF Servable(e, now)
                THEN Answer(r, "hit", [req[r] EXCEPT !.answer =
                        [ttl |-> e.ttl, stored |-> e.stored,
                         shown |-> TheLesser(e.ttl, e.expires - now)]])
                ELSE Answer(r, "error", req[r])
           ELSE IF rest = <<>> THEN Answer(r, "error", req[r])
           ELSE Call(r, Head(rest), [req[r] EXCEPT !.left = Tail(rest)])
        /\ UNCHANGED <<service, clock, lastNow, statuses>>

(* updateStatus: nothing is recorded once the service is revoked           *)
UpdateStatus(ids, result) ==
    statuses' = [i \in Ids |-> IF live /\ i \in ids THEN result ELSE statuses[i]]

(* The next upstream in order, or ErrNoHealthyUpstream.  With its context  *)
(* done a request fails all that are left without calling them.            *)
NextUpstream(r, result) ==
    IF req[r].left # <<>> /\ req[r].ctx
    THEN /\ UpdateStatus({req[r].step}, result)
         /\ Call(r, Head(req[r].left), [req[r] EXCEPT !.left = Tail(@)])
    ELSE /\ statuses' = [i \in Ids |-> IF ~live THEN statuses[i]
                                       ELSE IF i = req[r].step THEN result
                                       ELSE IF i \in ToSet(req[r].left) THEN "failed"
                                       ELSE statuses[i]]
         /\ Answer(r, "error", req[r])

Resolve(r) ==
    /\ req[r].step \in Ids
    /\ \/ \E bad \in {"failed", "invalid-response"} : NextUpstream(r, bad)
       \/ \E t \in TTLs :
             IF ~(req[r].ctx /\ live)
             THEN Answer(r, "error", req[r]) /\ UNCHANGED statuses
             ELSE /\ UpdateStatus({req[r].step}, "healthy")
                  /\ IF t > 0 /\ t >= MinTTL /\ MaxTTL > 0
                     THEN Call(r, "clock2", [req[r] EXCEPT !.ttl = t])
                     ELSE Answer(r, "resolved", [req[r] EXCEPT !.ttl = t])
    /\ UNCHANGED <<service, clock, lastNow, memory>>

EntryOf(r) == [key |-> req[r].key, ttl |-> req[r].ttl, stored |-> req[r].read,
               expires |-> req[r].read + TheLesser(req[r].ttl, MaxTTL)]
Store(r) ==
    /\ req[r].step = "put" /\ req[r].ctx
    /\ Put(EntryOf(r))
    /\ Answer(r, IF live /\ req[r].key.size <= MaxBytes
                 THEN "resolved" ELSE "error", req[r])
    /\ UNCHANGED <<service, clock, lastNow, statuses>>

(* The request's time is over, its caller left, or Close cancelled it      *)
Expire(r) ==
    /\ req[r].step \notin {"idle", "done", "leave"} /\ req[r].ctx
    /\ req' = [req EXCEPT ![r].ctx = FALSE]
    /\ UNCHANGED <<service, count, semaphore, clock, lastNow, memory, statuses, calls>>

(* boundedHostCall leaves a call running when the context is done; an      *)
(* attempt that timed out alone only moves on to the next upstream         *)
Abandon(r) ==
    /\ req[r].step \in calls[r]
    /\ ~req[r].ctx \/ req[r].step \in Ids
    /\ IF req[r].step \in Ids THEN UpdateStatus({req[r].step}, "timeout") ELSE UNCHANGED statuses
    /\ IF req[r].ctx /\ req[r].left # <<>>
       THEN /\ req' = [req EXCEPT ![r].step = Head(req[r].left), ![r].left = Tail(@)]
            /\ calls' = [calls EXCEPT ![r] = @ \cup {Head(req[r].left)}]
       ELSE /\ req' = [req EXCEPT ![r].step = "leave", ![r].result = "error"]
            /\ UNCHANGED calls
    /\ UNCHANGED <<service, count, semaphore, clock, lastNow, memory>>

\* Mutant: the slot is given back when the request is answered.
ReleaseAtOnce(r, running) == req[r].slot

(* releaseRequest and slot.returned: the slot is given back now only if no *)
(* call of the request is running                                          *)
Release(r, running) == req[r].slot /\ running = {}
\* Mutant: a request that leaves calls running is not counted out.
LeaveWithCalls(r) ==
    /\ req[r].step = "leave"
    /\ count' = IF calls[r] = {} THEN count - 1 ELSE count
    /\ semaphore' = IF Release(r, calls[r]) THEN semaphore - 1 ELSE semaphore
    /\ req' = [req EXCEPT ![r].step = "done", ![r].slot = @ /\ calls[r] # {}]
    /\ UNCHANGED <<service, clock, lastNow, memory, statuses, calls>>

Leave(r) ==
    /\ req[r].step = "leave"
    /\ count' = count - 1
    /\ semaphore' = IF Release(r, calls[r]) THEN semaphore - 1 ELSE semaphore
    /\ req' = [req EXCEPT ![r].step = "done", ![r].slot = @ /\ calls[r] # {}]
    /\ UNCHANGED <<service, clock, lastNow, memory, statuses, calls>>

(* endCall of a call nobody waits for.  A Get or a Put that had passed its *)
(* context check still takes effect.                                       *)
LateReturn(r, c) ==
    /\ c \in calls[r] /\ c # req[r].step
    /\ calls' = [calls EXCEPT ![r] = @ \ {c}]
    /\ \/ c = "put" /\ Put(EntryOf(r))
       \/ c = "get" /\ Get(req[r].key, req[r].now)
       \/ UNCHANGED memory
    /\ IF req[r].step = "done" /\ Release(r, calls'[r])
       THEN semaphore' = semaphore - 1 /\ req' = [req EXCEPT ![r].slot = FALSE]
       ELSE UNCHANGED <<semaphore, req>>
    /\ UNCHANGED <<service, count, clock, lastNow, statuses>>

(***************************************************************************)
(* Close and time                                                          *)
(***************************************************************************)
(* live is cleared before the statuses are overwritten                     *)
Close ==
    /\ live /\ live' = FALSE /\ closing' = "revoking"
    /\ UNCHANGED <<count, semaphore, clock, lastNow, memory, statuses, req, calls>>

Revoke ==
    /\ closing = "revoking" /\ closing' = "waiting"
    /\ statuses' = [i \in Ids |-> "revoked"]
    /\ UNCHANGED <<live, count, semaphore, clock, lastNow, memory, req, calls>>

(* requestZero, then Cache.Reset                                           *)
Reset ==
    /\ closing = "waiting" /\ count = 0
    /\ closing' = "done" /\ cache' = <<>> /\ bytes' = 0
    /\ UNCHANGED <<live, count, semaphore, clock, lastNow, statuses, req, calls>>

Tick ==
    /\ clock < MaxTime /\ clock' = clock + 1
    /\ UNCHANGED <<service, count, semaphore, lastNow, memory, statuses, req, calls>>

Init ==
    /\ live = TRUE /\ closing = "no" /\ count = 0 /\ semaphore = 0
    /\ clock = 0 /\ lastNow = 0 /\ cache = <<>> /\ bytes = 0
    /\ statuses = [i \in Ids |-> "unknown"]
    /\ \E k \in Keys : req = [r \in Requests |-> Admitted(k)]
    /\ calls = [r \in Requests |-> {}]

Serve(r) == TakeSlot(r) \/ ReadClock(r) \/ RecordNow(r) \/ Lookup(r) \/ Resolve(r)
            \/ Store(r) \/ Abandon(r) \/ Leave(r)
Next ==
    \/ \E r \in Requests : (\E k \in Keys : BeginRequest(r, k)) \/ Serve(r) \/ Expire(r)
    \/ \E r \in Requests : \E c \in HostSteps : LateReturn(r, c)
    \/ Close \/ Revoke \/ Reset \/ Tick
(* Timers fire and goroutines run; a host call need never return           *)
Progress(r) == (\/ TakeSlot(r) \/ Abandon(r) \/ Leave(r)
                \/ /\ req[r].step \in {"clock", "clock2"} /\ req[r].step \notin calls[r]
                   /\ RecordNow(r))
Fairness == /\ WF_vars(Revoke) /\ WF_vars(Reset)
            /\ \A r \in Requests : WF_vars(Progress(r)) /\ WF_vars(Expire(r))
Spec == Init /\ [][Next]_vars /\ Fairness
-----------------------------------------------------------------------------
\* Every variable has its type.
TypeOK ==
    /\ live \in BOOLEAN /\ closing \in {"no", "revoking", "waiting", "done"}
    /\ count \in 0..Cardinality(Requests) /\ semaphore \in 0..MaxConcurrency
    /\ clock \in 0..MaxTime /\ lastNow \in 0..MaxTime
    /\ \A i \in DOMAIN cache : cache[i].key \in Keys
    /\ \A r \in Requests : calls[r] \subseteq HostSteps /\ req[r].key \in Keys

(* The semaphore counts every request that waits and every request whose   *)
(* abandoned host calls still run: a slot is given back exactly once, and  *)
(* never while goroutines of the request are left (requestSlot).           *)
SlotsCover ==
    /\ semaphore = Cardinality({r \in Requests : req[r].slot})
    /\ \A r \in Requests : calls[r] # {} => req[r].slot

(* An answer from the cache never promises the client a longer life than   *)
(* the upstream gave it or than the configured maximum, counted from when  *)
(* it was stored, whichever request stored it meanwhile (serve, hit).      *)
LifeKept ==
    \A r \in Requests : req[r].result = "hit" =>
        LET a == req[r].answer IN
        /\ 0 < a.shown /\ a.shown <= TheLesser(a.ttl, MaxTTL)
        /\ req[r].now + a.shown <= a.stored + TheLesser(a.ttl, MaxTTL)

(* The cache keeps its two limits and its byte count through replacement,  *)
(* eviction, expiry, Reset and calls that return late (MemoryCache).       *)
CacheBounded ==
    /\ Len(cache) <= MaxEntries /\ bytes <= MaxBytes /\ bytes = Bytes(cache)
    /\ \A i, j \in DOMAIN cache : cache[i].key = cache[j].key => i = j

(* Close finishes: the requests it cancels leave and the cache is reset,   *)
(* even if a host call never returns (Close, boundedHostCall).             *)
Closed == closing \in {"no", "done"}
CloseCompletes == <>[]Closed
=============================================================================
