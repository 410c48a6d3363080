---------------------------- MODULE RegistryPull ----------------------------
(***************************************************************************)
(* How accelerator-sources serves the manifests of a registry: the bounded *)
(* caches with one load per key (upstream/cache.go), the load itself with  *)
(* its token exchange (registry/handler.go, imagetar/handler.go) and the   *)
(* end of a generation (Manager.Close).                                    *)
(*                                                                         *)
(* A manifest is known by its version: every publication of a reference is *)
(* a new one, and 0 is a reference the registry does not have.  The        *)
(* version is also the validator (ETag).  The registry may publish, delete *)
(* and revoke tokens at any time, and time passes between any two steps.   *)
(***************************************************************************)
EXTENDS Integers, Sequences, FiniteSets, SequencesExt

CONSTANTS
    Clients, Refs,
    Offline,            \* references asked for by the offline archive handler
    Public,             \* references the registry serves without a token
    Size,               \* bytes of a manifest
    MaxEntries, MaxBytes,
    TTL, SWR, SIE,      \* manifestCacheWindows
    TokenLife, Margin,  \* life of a token, and how long before it to refresh
    MaxTime, MaxVersion, MaxTokens, MaxAsks,
    MaxEvents,          \* failures, closes, publications, deletions and revocations together
    None

VARIABLES
    now,
    head,       \* version the registry has for a reference, 0: none
    published,  \* versions ever published for a reference
    valid,      \* tokens the registry accepts
    version,    \* tokenVersion: tokens issued to this generation
    manifests, tokens,      \* the two caches
    flights,    \* the load in progress for every reference
    tflight,    \* the load in progress for the token
    c,          \* the requests
    closed,     \* how far Manager.Close got
    events, asks,
    learned,    \* versions below this one were superseded or deleted when a load last finished
    dropped     \* last token taken out of the cache because of a refusal, and the one refused

cache == <<manifests, tokens>>
registry == <<head, published, valid, version>>
vars == <<now, registry, cache, flights, tflight, c, closed, events, asks, learned, dropped>>

(***************************************************************************)
(* upstream/cache.go: a cache is its entries, their order of use (the      *)
(* most recent first) and the bytes they take.                             *)
(***************************************************************************)
NewCache(keys) == [ent |-> [k \in keys |-> None], lru |-> <<>>, bytes |-> 0]

Removed(ca, k) ==
    IF ca.ent[k] = None THEN ca
    ELSE [ent |-> [ca.ent EXCEPT ![k] = None],
          lru |-> SelectSeq(ca.lru, LAMBDA x : x # k),
          bytes |-> ca.bytes - ca.ent[k].size]

Touched(ca, k) == [ca EXCEPT !.lru = <<k>> \o SelectSeq(ca.lru, LAMBDA x : x # k)]

\* staleness of an entry, as inspectLocked sees it
State(e) ==
    IF e = None THEN "missing"
    ELSE IF now < e.exp THEN "fresh"
    ELSE IF now < e.swr THEN "swr"
    ELSE IF now < e.sie THEN "sie" ELSE "missing"

Inspected(ca, k) ==
    IF ca.ent[k] = None THEN ca
    ELSE IF State(ca.ent[k]) = "missing" THEN Removed(ca, k) ELSE Touched(ca, k)

Over(ca) == Len(ca.lru) > MaxEntries \/ ca.bytes > MaxBytes

Evicted(ca) ==
    LET drop == CHOOSE n \in 0..Len(ca.lru) :
                   LET kept == FoldLeft(LAMBDA a, k : Removed(a, k), ca,
                                        SubSeq(Reverse(ca.lru), 1, n))
                   IN  ~Over(kept) /\ \A m \in 0..(n - 1) :
                          Over(FoldLeft(LAMBDA a, k : Removed(a, k), ca,
                                        SubSeq(Reverse(ca.lru), 1, m)))
    IN  FoldLeft(LAMBDA a, k : Removed(a, k), ca, SubSeq(Reverse(ca.lru), 1, drop))

\* setLocked, with the windows counted from the moment of the store
Stored(ca, k, val, size, ttl, swr, sie) ==
    LET old == Removed(ca, k)
        e == [val |-> val, size |-> size, exp |-> now + ttl, swr |-> now + ttl + swr,
              sie |-> now + ttl + swr + sie]
    IN  Evicted([ent |-> [old.ent EXCEPT ![k] = e], lru |-> <<k>> \o old.lru,
                 bytes |-> old.bytes + size])

\* CompareAndDelete of a token: only the version that was refused
CompareAndDelete(ca, tok) ==
    IF ca.ent["pull"] # None /\ ca.ent["pull"].val = tok THEN Removed(ca, "pull") ELSE ca

(***************************************************************************)
(* Loads and requests                                                      *)
(***************************************************************************)
NoFetch == [pc |-> "none", prev |-> 0, cond |-> 0, tok |-> None, tried |-> 0, res |-> None]
NoToken == [pc |-> "none", tok |-> None, ttl |-> 0, swr |-> 0]
NoAsk == [pc |-> "idle", ref |-> None, cond |-> 0, prev |-> 0, stale |-> 0, floor |-> 0,
          got |-> None]

Event == events < MaxEvents /\ events' = events + 1

\* serveManifestEntryConditional: what a request is answered with
Reply(ask, res) == [kind |-> IF res.kind = "notmodified" \/ (ask.cond # 0 /\ ask.cond = res.ver)
                             THEN "notmodified" ELSE "body",
                    ver |-> res.ver]
Failure == [kind |-> "error", ver |-> 0]

(* ServeHTTP, resolve and serveCachedManifest: a GET, perhaps with an      *)
(* If-None-Match of its own.  Peek is a critical section of its own.  The  *)
(* archive handler goes straight to the cache.                             *)
Ask(k, r, cond) ==
    /\ c[k].pc = "idle" /\ asks < MaxAsks
    /\ r \in Offline => cond = 0
    /\ asks' = asks + 1
    /\ LET e == manifests.ent[r]
           seen == IF closed \in {"manifests", "group"} \/ r \in Offline \/ State(e) = "missing"
                   THEN 0 ELSE e.val
       IN  /\ c' = [c EXCEPT ![k] = [NoAsk EXCEPT !.pc = "load", !.ref = r, !.cond = cond,
                                                  !.prev = seen]]
           /\ manifests' = IF closed \in {"manifests", "group"} \/ r \in Offline THEN manifests
                           ELSE Inspected(manifests, r)
    /\ UNCHANGED <<now, registry, tokens, flights, tflight, closed, events, learned, dropped>>

(* startLoad: the closed group of refreshes refuses, otherwise a goroutine *)
(* runs the load for everyone who waits.                                   *)
Start(r, prev, cond) ==
    flights' = IF flights[r].pc # "none" THEN flights
               ELSE [flights EXCEPT ![r] = [NoFetch EXCEPT !.pc = "ask", !.prev = prev,
                                                           !.cond = cond]]

(* GetOrLoad: a fresh value at once, a value in its revalidation window at *)
(* once with a load behind it, and otherwise the result of the load; what  *)
(* may be served if the load fails is fixed now.                           *)
GetOrLoad(k) ==
    /\ c[k].pc = "load"
    /\ LET r == c[k].ref
           e == manifests.ent[r]
           s == State(e)
           ask == [c[k] EXCEPT !.floor = learned[r]]
           done(a, reply) == [a EXCEPT !.pc = "done", !.got = reply]
       IN  IF closed \in {"manifests", "group"}
           THEN /\ c' = [c EXCEPT ![k] = done(ask, Failure)]
                /\ UNCHANGED <<manifests, flights>>
           ELSE /\ manifests' = Inspected(manifests, r)
                /\ c' = [c EXCEPT ![k] =
                         IF s \in {"fresh", "swr"}
                         THEN done(ask, Reply(ask, [kind |-> "body", ver |-> e.val]))
                         ELSE [ask EXCEPT !.pc = "wait",
                                          !.stale = IF s = "sie" THEN e.val ELSE 0]]
                /\ IF s = "fresh" THEN UNCHANGED flights ELSE Start(r, c[k].prev, c[k].cond)
    /\ UNCHANGED <<now, registry, tokens, tflight, closed, events, asks, learned, dropped>>

(* The client goes away while it waits; the load goes on.                  *)
Gone(k) ==
    /\ c[k].pc = "wait"
    /\ c' = [c EXCEPT ![k].pc = "done", ![k].got = Failure]
    /\ UNCHANGED <<now, registry, cache, flights, tflight, closed, events, asks, learned, dropped>>

Forget(k) ==
    /\ c[k].pc = "done"
    /\ c' = [c EXCEPT ![k] = NoAsk]
    /\ UNCHANGED <<now, registry, cache, flights, tflight, closed, events, asks, learned, dropped>>

(***************************************************************************)
(* The load of a manifest (fetch and the function passed to GetOrLoad).    *)
(***************************************************************************)
Permanent == {"gone", "refused"}
Result(kind, ver) == [kind |-> kind, ver |-> ver]

Answered(r, res) == flights' = [flights EXCEPT ![r].pc = "finish", ![r].res = res]

(* What the registry says to an accepted request, and what the handler     *)
(* makes of it: a reference it no longer has, a 304 that confirms the      *)
(* cached version, a 304 to the client's own validator (which is not       *)
(* cached), a manifest.  The archive handler sends no validator.           *)
Verdict(r) ==
    IF head[r] = 0 THEN Result("gone", published[r])
    ELSE IF flights[r].prev = 0 /\ flights[r].cond = head[r] THEN Result("notmodified", head[r])
    ELSE Result("body", head[r])

\* a 5xx, a broken connection, or the refusal and the cancellation of a closed manager
Transient(r) ==
    /\ flights[r].pc \in {"ask", "use"}
    /\ Answered(r, Result("transient", 0))
    /\ IF closed # "open" THEN UNCHANGED events ELSE Event
    /\ UNCHANGED <<now, registry, cache, tflight, c, closed, asks, learned, dropped>>

(* An answer that does not check out (validManifest, the digest, the media *)
(* type, the headers of a 304) fails the load for good.                    *)
Malformed(r) ==
    /\ \/ flights[r].pc = "ask" /\ r \in Public
       \/ flights[r].pc = "use" /\ flights[r].tok.ver \in valid
    /\ Answered(r, Result("refused", 0)) /\ Event
    /\ UNCHANGED <<now, registry, cache, tflight, c, closed, asks, learned, dropped>>

\* the first request carries no token
FetchAnonymous(r) ==
    /\ flights[r].pc = "ask"
    /\ IF r \in Public THEN Answered(r, Verdict(r))
       ELSE flights' = [flights EXCEPT ![r].pc = "token"]
    /\ UNCHANGED <<now, registry, cache, tflight, c, closed, events, asks, learned, dropped>>

(* fetchToken: the same cache discipline for the token of the repository.  *)
FetchToken(r) ==
    /\ flights[r].pc = "token"
    /\ LET e == tokens.ent["pull"]
           s == State(e)
       IN  IF closed # "open"
           THEN /\ Answered(r, Result("transient", 0))
                /\ UNCHANGED <<tokens, tflight>>
           ELSE /\ tokens' = Inspected(tokens, "pull")
                /\ flights' = [flights EXCEPT ![r] =
                               IF s \in {"fresh", "swr"} THEN [@ EXCEPT !.pc = "check", !.tok = e.val]
                               ELSE [@ EXCEPT !.pc = "twait"]]
                /\ tflight' = IF s = "fresh" \/ tflight.pc # "none" THEN tflight
                              ELSE [NoToken EXCEPT !.pc = "ask"]
    /\ UNCHANGED <<now, registry, manifests, c, closed, events, asks, learned, dropped>>

(* tokenCacheTiming and tokenCacheWindows                                  *)
RefreshAt(issued, exp) ==
    LET early == issued + (TokenLife * 4) \div 5
    IN  IF exp - Margin < early THEN exp - Margin ELSE early

Fresh(issued, exp) ==
    LET d == RefreshAt(issued, exp) - now
        remaining == exp - now
    IN  IF d <= 0 THEN 1 ELSE IF d > remaining THEN remaining ELSE d

(* The token service answers with a token issued now or a moment ago; one  *)
(* that is over already is refused.                                        *)
IssueToken(issued) ==
    /\ tflight.pc = "ask" /\ version < MaxTokens /\ issued \in {now, now - 1}
    /\ issued + TokenLife > now
    /\ version' = version + 1
    /\ valid' = valid \cup {version + 1}
    /\ LET exp == issued + TokenLife
           fresh == Fresh(issued, exp)
       IN  tflight' = [pc |-> "store", tok |-> [ver |-> version + 1, exp |-> exp],
                       ttl |-> fresh, swr |-> exp - now - fresh]
    /\ UNCHANGED <<now, head, published, cache, flights, c, closed, events, asks, learned, dropped>>

TokenFails ==
    /\ tflight.pc = "ask"
    /\ IF closed # "open" \/ version = MaxTokens THEN UNCHANGED events ELSE Event
    /\ tflight' = NoToken
    /\ flights' = [r \in Refs |-> IF flights[r].pc = "twait"
                                  THEN [flights[r] EXCEPT !.pc = "finish",
                                                          !.res = Result("transient", 0)]
                                  ELSE flights[r]]
    /\ UNCHANGED <<now, registry, cache, c, closed, asks, learned, dropped>>

\* Mutant: the closed flag is not looked at when a load finishes.
StoreTokenAnyway ==
    /\ tflight.pc = "store"
    /\ tokens' = Stored(tokens, "pull", tflight.tok, 1, tflight.ttl, tflight.swr, 0)
    /\ flights' = [r \in Refs |-> IF flights[r].pc = "twait"
                                  THEN [flights[r] EXCEPT !.pc = "check", !.tok = tflight.tok]
                                  ELSE flights[r]]
    /\ tflight' = NoToken
    /\ UNCHANGED <<now, registry, manifests, c, closed, events, asks, learned, dropped>>

(* runLoad for the token: stored unless the cache is closed, and handed to *)
(* everyone who waits.                                                     *)
StoreToken ==
    /\ tflight.pc = "store"
    /\ tokens' = IF closed # "open" THEN tokens
                 ELSE Stored(tokens, "pull", tflight.tok, 1, tflight.ttl, tflight.swr, 0)
    /\ flights' = [r \in Refs |-> IF flights[r].pc = "twait"
                                  THEN [flights[r] EXCEPT !.pc = "check", !.tok = tflight.tok]
                                  ELSE flights[r]]
    /\ tflight' = NoToken
    /\ UNCHANGED <<now, registry, manifests, c, closed, events, asks, learned, dropped>>

(* A token that is over is dropped and the load fails; the windows of its  *)
(* entry were counted from the store, not from its issue.                  *)
CheckToken(r) ==
    /\ flights[r].pc = "check"
    /\ LET tok == flights[r].tok
       IN  IF tok.exp > now
           THEN /\ flights' = [flights EXCEPT ![r].pc = "use"]
                /\ UNCHANGED <<tokens, dropped>>
           ELSE /\ tokens' = CompareAndDelete(tokens, tok)
                /\ Answered(r, Result("transient", 0))
                /\ dropped' = IF tokens' = tokens THEN dropped
                              ELSE <<tokens.ent["pull"].val.ver, tok.ver>>
    /\ UNCHANGED <<now, registry, manifests, tflight, c, closed, events, asks, learned>>

\* Mutant: the refused token stays in the cache.
UseTokenKeep(r) ==
    /\ flights[r].pc = "use"
    /\ LET tok == flights[r].tok
       IN  IF tok.ver \in valid THEN Answered(r, Verdict(r))
           ELSE IF flights[r].tried # 0 THEN Answered(r, Result("refused", 0))
           ELSE flights' = [flights EXCEPT ![r].pc = "token", ![r].tried = tok.ver]
    /\ UNCHANGED <<now, registry, cache, tflight, c, closed, events, asks, learned, dropped>>

(* The request with the token.  A refusal drops that token and tries once  *)
(* more with another; a second refusal stands.                             *)
UseToken(r) ==
    /\ flights[r].pc = "use"
    /\ LET tok == flights[r].tok
       IN  IF tok.ver \in valid
           THEN /\ Answered(r, Verdict(r))
                /\ UNCHANGED <<tokens, dropped>>
           ELSE IF flights[r].tried # 0
           THEN /\ Answered(r, Result("refused", 0))
                /\ UNCHANGED <<tokens, dropped>>
           ELSE /\ tokens' = CompareAndDelete(tokens, tok)
                /\ dropped' = IF tokens' = tokens THEN dropped
                              ELSE <<tokens.ent["pull"].val.ver, tok.ver>>
                /\ flights' = [flights EXCEPT ![r].pc = "token", ![r].tried = tok.ver]
    /\ UNCHANGED <<now, registry, manifests, tflight, c, closed, events, asks, learned>>

(* waitCacheCall: a failed load is covered by the stale value fixed before *)
(* it, unless the failure is permanent.                                    *)
Delivered(ask, res) ==
    IF res.kind \in {"body", "notmodified"} THEN Reply(ask, res)
    ELSE IF res.kind = "transient" /\ ask.stale # 0
    THEN Reply(ask, Result("body", ask.stale)) ELSE Failure

\* Mutant: a permanent failure leaves the entry.
FinishKeeps(r) ==
    /\ flights[r].pc = "finish"
    /\ LET res == flights[r].res
       IN  /\ manifests' = IF /\ res.kind = "body" /\ closed \in {"open", "tokens"}
                              /\ Size[r] <= MaxBytes
                           THEN Stored(manifests, r, res.ver, Size[r], TTL, SWR, SIE)
                           ELSE manifests
           /\ learned' = [learned EXCEPT ![r] =
                             CASE res.kind = "gone" -> res.ver + 1
                               [] res.kind = "body" -> res.ver
                               [] OTHER -> @]
           /\ c' = [k \in Clients |-> IF c[k].pc = "wait" /\ c[k].ref = r
                                      THEN [c[k] EXCEPT !.pc = "done", !.got = Delivered(c[k], res)]
                                      ELSE c[k]]
    /\ flights' = [flights EXCEPT ![r] = NoFetch]
    /\ UNCHANGED <<now, registry, tokens, tflight, closed, events, asks, dropped>>

(* runLoad: a permanent failure takes the entry away, a manifest replaces  *)
(* it unless the cache is closed or the manifest too large, and everyone   *)
(* who waits is answered.                                                  *)
Finish(r) ==
    /\ flights[r].pc = "finish"
    /\ LET res == flights[r].res
           kept == IF res.kind \in Permanent THEN Removed(manifests, r) ELSE manifests
       IN  /\ manifests' = IF /\ res.kind = "body" /\ closed \in {"open", "tokens"}
                              /\ Size[r] <= MaxBytes
                           THEN Stored(kept, r, res.ver, Size[r], TTL, SWR, SIE)
                           ELSE kept
           /\ learned' = [learned EXCEPT ![r] =
                             CASE res.kind = "gone" -> res.ver + 1
                               [] res.kind = "body" -> res.ver
                               [] OTHER -> @]
           /\ c' = [k \in Clients |-> IF c[k].pc = "wait" /\ c[k].ref = r
                                      THEN [c[k] EXCEPT !.pc = "done", !.got = Delivered(c[k], res)]
                                      ELSE c[k]]
    /\ flights' = [flights EXCEPT ![r] = NoFetch]
    /\ UNCHANGED <<now, registry, tokens, tflight, closed, events, asks, dropped>>

(***************************************************************************)
(* Manager.Close, cache by cache; then the loads are cancelled.            *)
(***************************************************************************)
CloseTokens ==
    /\ closed = "open" /\ Event
    /\ closed' = "tokens" /\ tokens' = NewCache({"pull"})
    /\ UNCHANGED <<now, registry, manifests, flights, tflight, c, asks, learned, dropped>>

CloseManifests ==
    /\ closed = "tokens"
    /\ closed' = "manifests" /\ manifests' = NewCache(Refs)
    /\ UNCHANGED <<now, registry, tokens, flights, tflight, c, events, asks, learned, dropped>>

CloseGroup ==
    /\ closed = "manifests" /\ closed' = "group"
    /\ UNCHANGED <<now, registry, cache, flights, tflight, c, events, asks, learned, dropped>>

(***************************************************************************)
(* The registry, and time                                                  *)
(***************************************************************************)
Publish(r) ==
    /\ published[r] < MaxVersion /\ Event
    /\ published' = [published EXCEPT ![r] = @ + 1]
    /\ head' = [head EXCEPT ![r] = published[r] + 1]
    /\ UNCHANGED <<now, valid, version, cache, flights, tflight, c, closed, asks, learned, dropped>>

Unpublish(r) ==
    /\ head[r] # 0 /\ Event
    /\ head' = [head EXCEPT ![r] = 0]
    /\ UNCHANGED <<now, published, valid, version, cache, flights, tflight, c, closed, asks, learned,
                   dropped>>

Revoke ==
    /\ valid # {} /\ valid' = {} /\ Event
    /\ UNCHANGED <<now, head, published, version, cache, flights, tflight, c, closed, asks, learned,
                   dropped>>

Tick ==
    /\ now < MaxTime /\ now' = now + 1
    /\ UNCHANGED <<registry, cache, flights, tflight, c, closed, events, asks, learned, dropped>>

Init ==
    /\ now = 1
    /\ head = [r \in Refs |-> 1] /\ published = [r \in Refs |-> 1]
    /\ valid = {} /\ version = 0
    /\ manifests = NewCache(Refs) /\ tokens = NewCache({"pull"})
    /\ flights = [r \in Refs |-> NoFetch] /\ tflight = NoToken
    /\ c = [k \in Clients |-> NoAsk]
    /\ closed = "open" /\ events = 0 /\ asks = 0
    /\ learned = [r \in Refs |-> 0] /\ dropped = <<0, 0>>

Serve ==
    \E k \in Clients :
        \/ \E r \in Refs, cond \in 0..1 : Ask(k, r, cond)
        \/ GetOrLoad(k) \/ Gone(k) \/ Forget(k)

Loads ==
    \/ \E r \in Refs : \/ Transient(r) \/ Malformed(r) \/ FetchAnonymous(r) \/ FetchToken(r) \/ CheckToken(r)
                       \/ UseToken(r) \/ Finish(r)
    \/ \E issued \in 0..MaxTime : IssueToken(issued)
    \/ TokenFails \/ StoreToken

Outside ==
    \/ \E r \in Refs : Publish(r) \/ Unpublish(r)
    \/ Revoke \/ Tick

Next == Serve \/ Loads \/ Outside \/ CloseTokens \/ CloseManifests \/ CloseGroup

Spec == Init /\ [][Next]_vars

(***************************************************************************)
(* Properties                                                              *)
(***************************************************************************)
\* Every variable has its type.
TypeOK ==
    /\ now \in 1..MaxTime
    /\ head \in [Refs -> 0..MaxVersion] /\ published \in [Refs -> 0..MaxVersion]
    /\ valid \subseteq 1..MaxTokens /\ version \in 0..MaxTokens
    /\ \A k \in Clients : c[k].pc \in {"idle", "load", "wait", "done"}
    /\ \A r \in Refs : flights[r].pc \in {"none", "ask", "token", "twait", "check", "use", "finish"}
    /\ closed \in {"open", "tokens", "manifests", "group"}

(* The books of the caches are true: the order of use lists exactly the    *)
(* entries, the bytes are the sum of their sizes, both limits hold, and a  *)
(* cache that was closed stays empty although loads that were running then *)
(* finish later.                                                           *)
Sum(ca, keys) == FoldFunction(+, 0, [k \in keys |-> IF ca.ent[k] = None THEN 0 ELSE ca.ent[k].size])
BooksTrue ==
    /\ ToSet(manifests.lru) = {r \in Refs : manifests.ent[r] # None}
    /\ Len(manifests.lru) = Cardinality(ToSet(manifests.lru))
    /\ manifests.bytes = Sum(manifests, Refs) /\ ~Over(manifests)
    /\ closed # "open" => tokens = NewCache({"pull"})
    /\ closed \in {"manifests", "group"} => manifests = NewCache(Refs)

(* Nobody is sent back in time: a request never gets a manifest older than *)
(* what a finished load had learned when the request looked at the cache,  *)
(* be it a newer version or that the reference is gone, whatever stale     *)
(* value it holds and however its load ends.                               *)
NeverOlder ==
    \A k \in Clients : c[k].pc = "done" /\ c[k].got.kind # "error" => c[k].got.ver >= c[k].floor

(* A refusal costs only the token it is about: what is dropped is the      *)
(* token that was refused, not the newer one that another load put there   *)
(* meanwhile; and the one retry is made with another token.                *)
RefusalExact ==
    /\ dropped[1] = dropped[2]
    /\ \A r \in Refs : flights[r].pc = "use" /\ flights[r].tried # 0
                          => flights[r].tok.ver > flights[r].tried

(* Nobody waits for nothing: a request that waits has a load, and a load   *)
(* that waits for a token has a token load.                                *)
WaitersServed ==
    /\ \A k \in Clients : c[k].pc = "wait" => flights[c[k].ref].pc # "none"
    /\ \A r \in Refs : flights[r].pc = "twait" => tflight.pc # "none"
=============================================================================
