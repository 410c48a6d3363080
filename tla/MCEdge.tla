------------------------------- MODULE MCEdge -------------------------------
(* The rest of what answers requests, for TLC, one scene per initial       *)
(* state: the shadowsocks accounts under overlapping operations            *)
(* ("accounts") and under two connections ("sessions"), a listener's       *)
(* engines under two applies ("applies") and two flows ("flows"), the      *)
(* migration of legacy secrets ("migration"), the DNS service at its limit *)
(* ("resolve") and one exchange with its upstream ("exchange"), pulls of   *)
(* one tag ("tag") and of several references ("references"), offline       *)
(* archives ("archives"), the source proxies ("sources", "names"), two     *)
(* requests for the files of a webdav share ("files"), the policy guests   *)
(* ("quota", "table", "trie", "ip", "overlay", "waf"), the DNS operations  *)
(* of every kind ("operations") and two of one key ("retries"), and the    *)
(* records of the domestic providers for one request at a time ("records") *)
(* and two ("overlap").  The scenes share no state and never change.       *)
EXTENDS Naturals, Sequences, FiniteSets

CONSTANTS Scenes, None

VARIABLES
    scene,
    on, ver, server, engines, live, hostOpen, w, f, slots, held, minted, ops, faults, astray,
    overtaken,
    lEngines, made, dead, routes, flowRoutes, flowOrder, flows, phase, lHeld, h, task, next,
    applies, pinned,
    catalog, record, alive, mMinted, step, base, moved, attempts, mFaults, ready,
    dLive, closing, count, semaphore, clock, lastNow, cache, bytes, statuses, req, calls,
    now, head, published, valid, version, manifests, tokens, flights, tflight, c, closed,
    events, asks, learned, dropped,
    oNow, plans, issued, d, tmp, oFaults, streamed,
    sNow, dns, lru, lookups, sCount, r, files,
    entries, qLast, qClock, admitted, admissions,
    nodes, usedNodes, inserted, inserts,
    inputActive, outputActive, state, output, handed, evals, judged,
    wconfig, wevals, wjudged,
    nLive, close, active, nSlots, hostCalls, o, stray, journal, applied, giveUps,
    provider, search, others, zone, nextId, writes, q, disturbed, truncated,
    xKind, xSize, cuts, pc, answer, conn, sent, got, disordered,
    dir, data, last, wq, holder, temp, raced, touched

accounts == <<on, ver, server, engines, live, hostOpen, w, f, slots, held, minted, ops, faults,
              astray, overtaken>>
listener == <<lEngines, made, dead, routes, flowRoutes, flowOrder, flows, phase, lHeld, h, task,
              next, applies, pinned>>
migration == <<catalog, record, alive, mMinted, step, base, moved, attempts, mFaults, ready>>
resolver == <<dLive, closing, count, semaphore, clock, lastNow, cache, bytes, statuses, req, calls>>
registry == <<now, head, published, valid, version, manifests, tokens, flights, tflight, c, closed,
              events, asks, learned, dropped>>
archives == <<oNow, plans, issued, d, tmp, oFaults, streamed>>
sources == <<sNow, dns, lru, lookups, sCount, r, files>>
quota == <<entries, qLast, qClock, admitted, admissions>>
trie == <<nodes, usedNodes, inserted, inserts>>
ip == <<inputActive, outputActive, state, output, handed, evals, judged>>
waf == <<wconfig, wevals, wjudged>>
operations == <<nLive, close, active, nSlots, hostCalls, o, stray, journal, applied, giveUps>>
records == <<provider, search, others, zone, nextId, writes, q, disturbed, truncated>>
exchange == <<xKind, xSize, cuts, pc, answer, conn, sent, got, disordered>>
share == <<dir, data, last, wq, holder, temp, raced, touched>>
-----------------------------------------------------------------------------
Service == INSTANCE AccountService WITH
    Users <- {"u1"}, Workers <- {"w1", "w2"}, Flows <- {"f1", "f2"}, Nobody <- "nobody",
    MaxSessions <- 1, MaxOps <- 2, MaxFaults <- 1

Listener == INSTANCE ListenerEngine WITH
    Users <- {"u1"}, Secrets <- {1, 2}, Flows <- {"f1", "f2"}, Handlers <- {"h1"},
    Nobody <- "nobody", MaxFlowRoutes <- 1, MaxApplies <- 2, engines <- lEngines, held <- lHeld

Migration == INSTANCE SecretMigration WITH
    Slots <- {"s1", "s2", "s3"}, Legacy <- 2, Lost <- FALSE, MaxAttempts <- 3, MaxFaults <- 1,
    minted <- mMinted, faults <- mFaults

\* Three questions about one name: one does not fit the cache, the others not together.
Question(ecs, size) == [name |-> <<"www", "a">>, ecs |-> ecs, size |-> size]
Upstream(id, domain) == [id |-> id, domain |-> domain, enabled |-> TRUE]
Resolver == INSTANCE DohService WITH
    Requests <- {"r1", "r2"}, Keys <- {Question("none", 3), Question("none", 2), Question("query", 1)},
    Upstreams <- <<Upstream("u1", <<"a">>)>>,
    MaxConcurrency <- 2, MaxEntries <- 1, MaxBytes <- 2, MinTTL <- 1, MaxTTL <- 1,
    TTLs <- {0, 2}, MaxTime <- 1, live <- dLive

Pull == INSTANCE RegistryPull WITH
    Clients <- {"k1", "k2"}, Refs <- {"tag"}, Offline <- {}, Public <- {},
    Size <- [ref \in {"tag"} |-> 2], MaxEntries <- 2, MaxBytes <- 2, TTL <- 1, SWR <- 1, SIE <- 1,
    TokenLife <- 2, Margin <- 1, MaxTime <- 2, MaxVersion <- 2, MaxTokens <- 2, MaxEvents <- 1,
    MaxAsks <- 3
ManyRefs == {"tag", "pub", "off"}
Pulls == INSTANCE RegistryPull WITH
    Clients <- {"k1"}, Refs <- ManyRefs, Offline <- {"off"}, Public <- {"pub"},
    Size <- [ref \in ManyRefs |-> IF ref = "tag" THEN 2 ELSE 1], MaxEntries <- 2, MaxBytes <- 2,
    TTL <- 1, SWR <- 1, SIE <- 1, TokenLife <- 2, Margin <- 1, MaxTime <- 1, MaxVersion <- 2,
    MaxTokens <- 2, MaxEvents <- 1, MaxAsks <- 2

\* Images a and b share a layer; the configuration of x claims another layer's content, and
\* the one of y claims too few.
Archives == INSTANCE OfflineImages WITH
    Clients <- {"k1", "k2"}, Lists <- {<<"a", "b">>, <<"a", "x">>, <<"x">>, <<"y">>},
    Layers <- [a |-> <<"l1", "l2">>, b |-> <<"l2">>, x |-> <<"l1">>, y |-> <<"l1">>],
    Claims <- [a |-> <<"d1", "d2">>, b |-> <<"d2">>, x |-> <<"d2">>, y |-> <<>>],
    Config <- [a |-> "ca", b |-> "cb", x |-> "cx", y |-> "cy"], Diff <- [l1 |-> "d1", l2 |-> "d2"],
    MaxImages <- 2, MaxPlans <- 1, PlanTTL <- 1, MaxTime <- 1, MaxTokens <- 2, MaxFaults <- 1,
    now <- oNow, faults <- oFaults

\* Address p is not public.
Proxy == INSTANCE SourceRequests WITH
    Requests <- {"q1", "q2"}, Hosts <- {"h1", "h2"}, Addresses <- {"a", "p"}, Public <- {"a"},
    Endpoint <- "h1", Allowed <- {"h1", "h2"}, MaxRedirects <- 1, MaxDNSEntries <- 1, TTL <- 1,
    SWR <- 1, SIE <- 1, MaxTime <- 1, MaxLookups <- 1, now <- sNow, count <- sCount
\* One request, redirected twice, over the life of an answer.
Names == INSTANCE SourceRequests WITH
    Requests <- {"q1"}, Hosts <- {"h1", "h2"}, Addresses <- {"a", "p"}, Public <- {"a"},
    Endpoint <- "h1", Allowed <- {"h1", "h2"}, MaxRedirects <- 2, MaxDNSEntries <- 1, TTL <- 1,
    SWR <- 1, SIE <- 1, MaxTime <- 3, MaxLookups <- 3, now <- sNow, count <- sCount

\* One source may burst 2, all together 3; the table has room for 3 of the keys.
Quota == INSTANCE RateLimit WITH
    Generations <- {"g1", "g2"}, Sources <- {"s1"}, SourceSpec <- [interval |-> 2, burst |-> 2],
    GlobalSpec <- [interval |-> 1, burst |-> 3], MaxKeys <- 3, MaxNs <- 5, MaxAdmissions <- 4,
    clock <- qClock, lastNow <- qLast
Table == INSTANCE RateLimit WITH
    Generations <- {"g1", "g2"}, Sources <- {"s1", "s2"},
    SourceSpec <- [interval |-> 2, burst |-> 2], GlobalSpec <- [interval |-> 1, burst |-> 3],
    MaxKeys <- 3, MaxNs <- 4, MaxAdmissions <- 3, clock <- qClock, lastNow <- qLast

Geo(country, region, effect) == [country |-> country, region |-> region, effect |-> effect]
Trie == INSTANCE IpTrie WITH
    Bits <- [v4 |-> 2, v6 |-> 1], MaxNodes <- 5, MaxInserts <- 3,
    GeoRules <- {Geo("c1", "r1", "deny"), Geo("c1", "any", "allow")}

Class(id, kind) == [id |-> id, name |-> id, kind |-> kind]
Local(id, action, addresses) ==
    [id |-> id, action |-> action, kind |-> "local", addresses |-> addresses, ref |-> <<>>]
Classified(id, action, ref) ==
    [id |-> id, action |-> action, kind |-> "class", addresses |-> {}, ref |-> ref]
Country == [id |-> "d1", classes |-> <<Class("c1", "country")>>]
Documents == {
    [datasets |-> <<Country, [id |-> "d2", classes |-> <<Class("c2", "region"), Class("c3", "region")>>]>>,
     provinces |-> <<<<"d2", "c2">>, <<"d2", "c3">>>>, default |-> "deny",
     rules |-> <<Classified("r1", "deny", <<"d1", "c1">>), Local("r2", "allow", {"a1"})>>],
    [datasets |-> <<Country, [id |-> "d2", classes |-> <<Class("c2", "country")>>]>>,
     provinces |-> <<>>, default |-> "allow",
     rules |-> <<Local("r1", "deny", {"a1"}), Classified("r2", "allow", <<"d1", "c1">>)>>],
    [datasets |-> <<Country>>, provinces |-> <<<<"d1", "c1">>>>, default |-> "allow", rules |-> <<>>]}
Overlays == {<<>>, <<Local("o1", "allow", {"a1", "a2"})>>, <<Classified("o1", "deny", <<"d2", "c2">>)>>,
             <<Local("r1", "allow", {"a2"})>>}
\* One evaluation with data of two generations and instances, and two with current data.
Ip == INSTANCE IpRuntime WITH
    Overlays <- {<<>>, <<Classified("o1", "deny", <<"d2", "c2">>)>>},
    Addresses <- {"a1"}, Generations <- {"g1", "g2"}, Instances <- {"i1", "i2"},
    MaxDatasets <- 4, HostCalls <- 8, MaxEvals <- 1
Overlay == INSTANCE IpRuntime WITH
    Addresses <- {"a1", "a2"}, Generations <- {"g1"}, Instances <- {"i1"},
    MaxDatasets <- 4, HostCalls <- 8, MaxEvals <- 2

Rule(id, target) == [id |-> id, target |-> target, needle |-> "x"]
Except(id, paths) == [id |-> id, paths |-> paths]
Waf == INSTANCE WafPolicy WITH
    Managed <- <<Rule("m1", "query"), Rule("m2", "body")>>,
    Configs <-
       {[mode |-> "observe", custom |-> <<>>, exclusions |-> {}],
        [mode |-> "deny", custom |-> <<Rule("u1", "body")>>, exclusions |-> {Except("m2", {"p1"})}],
        [mode |-> "deny", custom |-> <<Rule("u1", "query")>>,
         exclusions |-> {Except("m2", {"p1"}), Except("u1", {"p1", "p2"})}],
        [mode |-> "deny", custom |-> <<Rule("u1", "body"), Rule("u1", "query")>>, exclusions |-> {}]},
    Paths <- {"p1", "p2"}, Needles <- {"x"}, Window <- 2, HostCalls <- 16, Initial <- 1,
    Buffer <- 4, MaxRules <- 2, MaxEvals <- 1

KeyKind == [a |-> "write", b |-> "delete", c |-> "enroll", d |-> "rotate", e |-> "zones",
            f |-> "records", g |-> "status"]
Operations == INSTANCE DnsOperations WITH
    Calls <- {"k1", "k2"}, Keys <- DOMAIN KeyKind, Kind <- KeyKind, MaxActiveCalls <- 2,
    MaxGiveUps <- 1, live <- nLive, slots <- nSlots
Retries == INSTANCE DnsOperations WITH
    Calls <- {"k1", "k2"}, Keys <- {"a"}, Kind <- KeyKind, MaxActiveCalls <- 1,
    MaxGiveUps <- 1, live <- nLive, slots <- nSlots

Stranger(id, name, type, value) ==
    [id |-> id, name |-> name, type |-> type, value |-> value, form |-> "plain"]
Records == INSTANCE DomesticDns WITH
    Requests <- {"r1", "r2"}, Providers <- {"aliyun", "dnspod", "tencent"}, Name <- "w",
    Values <- {1}, PageSize <- 2, PageLimit <- 2, MaxWrites <- 2,
    Strangers <- {Stranger(1, "v", "TXT", 1), Stranger(2, "w", "TXT", 9), Stranger(3, "w", "A", 9),
                  Stranger(4, "w", "TXT", 1), Stranger(5, "w", "TXT", 1)}

Exchange == INSTANCE UpstreamExchange WITH
    Kinds <- {"udp", "stream", "dnscrypt", "doq", "h3"}, Lengths <- {0, 3, 4}, Limit <- 3,
    MaxPieces <- 3, MaxExtra <- 1, kind <- xKind, size <- xSize

\* A file in the share, and one in the namespace u of a user; l is a link there.
Way(key, path, to) == [key |-> key, path |-> path, to |-> to]
Files == {<<"a">>, <<"u", "a">>}
Share == INSTANCE WebdavShare WITH
    Requests <- {"q1", "q2"}, Targets <- Files, Links <- {<<"u", "l">>},
    Stripe <- [t \in Files |-> 1], Nobody <- "nobody",
    Ways <- {Way("bearer", <<"a">>, <<"u", "a">>), Way("bearer", <<"u", "a">>, <<"a">>),
             Way("basic", <<"a">>, <<"l">>), Way("basic", <<"..", "a">>, <<".", "a">>)},
    q <- wq
-----------------------------------------------------------------------------
MCInit ==
    /\ scene \in Scenes
    /\ Service!Init /\ (scene \notin {"accounts", "sessions"} => server = 0)
    /\ Listener!Init
    /\ Migration!Init /\ (scene # "migration" => catalog = [s \in DOMAIN catalog |-> 1])
    /\ Resolver!Init /\ (scene # "resolve" => req["r1"].key = Question("query", 1))
    /\ IF scene = "references" THEN Pulls!Init ELSE Pull!Init
    /\ Archives!Init
    /\ IF scene = "names" THEN Names!Init ELSE Proxy!Init
    /\ IF scene = "table" THEN Table!Init ELSE Quota!Init
    /\ Trie!Init /\ Ip!Init /\ Waf!Init
    /\ IF scene = "operations" THEN Operations!Init ELSE Retries!Init
    /\ Records!Init
    /\ scene # "records" => /\ provider = "aliyun" /\ search = "exact"
                            /\ others = (IF scene = "overlap" THEN {Stranger(3, "w", "A", 9)} ELSE {})
    /\ Exchange!Init /\ (scene # "exchange" => xKind = "udp" /\ xSize = 3)
    /\ Share!Init /\ (scene # "files" => dir[<<"a">>] = 0)

OfAccounts ==
    UNCHANGED <<scene, listener, migration, resolver, registry, archives, sources, quota,
                trie, ip, waf, operations, records, exchange, share>>
OfListener ==
    UNCHANGED <<scene, accounts, migration, resolver, registry, archives, sources, quota,
                trie, ip, waf, operations, records, exchange, share>>
OfMigration ==
    UNCHANGED <<scene, accounts, listener, resolver, registry, archives, sources, quota,
                trie, ip, waf, operations, records, exchange, share>>
OfResolver ==
    UNCHANGED <<scene, accounts, listener, migration, registry, archives, sources, quota,
                trie, ip, waf, operations, records, exchange, share>>
OfRegistry ==
    UNCHANGED <<scene, accounts, listener, migration, resolver, archives, sources, quota,
                trie, ip, waf, operations, records, exchange, share>>
OfArchives ==
    UNCHANGED <<scene, accounts, listener, migration, resolver, registry, sources, quota,
                trie, ip, waf, operations, records, exchange, share>>
OfSources ==
    UNCHANGED <<scene, accounts, listener, migration, resolver, registry, archives, quota,
                trie, ip, waf, operations, records, exchange, share>>
OfQuota ==
    UNCHANGED <<scene, accounts, listener, migration, resolver, registry, archives, sources,
                trie, ip, waf, operations, records, exchange, share>>
OfTrie ==
    UNCHANGED <<scene, accounts, listener, migration, resolver, registry, archives, sources,
                quota, ip, waf, operations, records, exchange, share>>
OfIp ==
    UNCHANGED <<scene, accounts, listener, migration, resolver, registry, archives, sources,
                quota, trie, waf, operations, records, exchange, share>>
OfWaf ==
    UNCHANGED <<scene, accounts, listener, migration, resolver, registry, archives, sources,
                quota, trie, ip, operations, records, exchange, share>>
OfOperations ==
    UNCHANGED <<scene, accounts, listener, migration, resolver, registry, archives, sources,
                quota, trie, ip, waf, records, exchange, share>>
OfRecords ==
    UNCHANGED <<scene, accounts, listener, migration, resolver, registry, archives, sources,
                quota, trie, ip, waf, operations, exchange, share>>
OfExchange ==
    UNCHANGED <<scene, accounts, listener, migration, resolver, registry, archives, sources,
                quota, trie, ip, waf, operations, records, share>>
OfShare ==
    UNCHANGED <<scene, accounts, listener, migration, resolver, registry, archives, sources,
                quota, trie, ip, waf, operations, records, exchange>>

MCNext ==
    \/ scene = "accounts" /\ Service!Next /\ f'["f2"] = f["f2"] /\ OfAccounts
    \/ scene = "sessions" /\ Service!Next /\ ops' <= 1 /\ OfAccounts
    \/ scene = "applies" /\ Listener!Next /\ lHeld' # "f2" /\ "f2" \in flows' /\ OfListener
    \/ scene = "flows" /\ Listener!Next /\ applies' <= 1 /\ OfListener
    \/ scene = "migration" /\ Migration!Next /\ OfMigration
    \/ /\ scene = "resolve" /\ Resolver!Next /\ dLive' /\ OfResolver
       /\ req'["r2"].key.size # 3 /\ req'["r1"].key # Question("none", 2)
    \/ scene = "exchange" /\ Exchange!Next /\ OfExchange
    \/ scene = "tag" /\ Pull!Next /\ (\A k \in DOMAIN c : c'[k].cond = 0) /\ OfRegistry
    \/ scene = "references" /\ Pulls!Next /\ closed' = "open" /\ OfRegistry
    \/ /\ scene = "archives" /\ Archives!Next /\ OfArchives
       /\ 1 \notin {Len(plan.images) : plan \in {d'["k2"], plans'[1], plans'[2]}}
    \/ scene = "sources" /\ Proxy!Next /\ OfSources
    \/ scene = "names" /\ Names!Next /\ OfSources
    \/ /\ scene = "files" /\ Share!Next /\ OfShare
       /\ wq'["q1"].pc # "idle"
       /\ <<wq'["q2"].key, wq'["q2"].path>> \in
             {<<"bearer", <<>>>>, <<"bearer", <<"u", "a">>>>, <<"basic", <<"a">>>>}
    \/ scene = "quota" /\ Quota!Next /\ OfQuota
    \/ scene = "table" /\ Table!Next /\ OfQuota
    \/ scene = "trie" /\ Trie!Next /\ inserts' + Cardinality(inserted'["overlay"]) <= 3 /\ OfTrie
    \/ scene = "ip" /\ Ip!Next /\ OfIp
    \/ scene = "overlay" /\ Overlay!Next /\ OfIp
    \/ scene = "waf" /\ Waf!Next /\ OfWaf
    \/ scene = "operations" /\ Operations!Next /\ o'["k2"] = o["k2"] /\ OfOperations
    \/ scene = "retries" /\ Retries!Next /\ OfOperations
    \/ scene = "records" /\ Records!Next /\ q'["r2"] = q["r2"] /\ OfRecords
    \/ scene = "overlap" /\ Records!Next /\ OfRecords
mcvars == <<scene, accounts, listener, migration, resolver, registry, archives, sources, quota,
            trie, ip, waf, operations, records, exchange, share>>
MCSpec == MCInit /\ [][MCNext]_mcvars
-----------------------------------------------------------------------------
\* Every variable of the component that plays has its type.
Types ==
    CASE scene \in {"accounts", "sessions"} -> Service!TypeOK
      [] scene \in {"applies", "flows"} -> Listener!TypeOK
      [] scene = "migration" -> Migration!TypeOK
      [] scene = "resolve" -> Resolver!TypeOK
      [] scene = "exchange" -> Exchange!TypeOK
      [] scene = "tag" -> Pull!TypeOK
      [] scene = "references" -> Pulls!TypeOK
      [] scene = "archives" -> Archives!TypeOK
      [] scene = "sources" -> Proxy!TypeOK
      [] scene = "names" -> Names!TypeOK
      [] scene = "files" -> Share!TypeOK
      [] scene = "quota" -> Quota!TypeOK
      [] scene = "table" -> Table!TypeOK
      [] scene = "trie" -> Trie!TypeOK
      [] scene = "ip" -> Ip!TypeOK
      [] scene = "overlay" -> Overlay!TypeOK
      [] scene = "waf" -> Waf!TypeOK
      [] scene = "operations" -> Operations!TypeOK
      [] scene = "retries" -> Retries!TypeOK
      [] scene \in {"records", "overlap"} -> Records!TypeOK

\* A shadowsocks key that was rotated, disabled or replaced is gone wherever it was in use:
\* an account's engine has the configured key and admits no flow it did not open
\* (service.go), a listener owns exactly the engines it serves with, serves with none after
\* close, and decides a flow by one routing snapshot (plugin_call.go); and a migration
\* that failed half way left material the next start can use (controller.go, managed_runtime.go).
AccountsTrue ==
    CASE scene \in {"accounts", "sessions"} ->
            Service!UserKeyCurrent /\ Service!AdmittedCurrent /\ Service!SlotsBalanced
      [] scene \in {"applies", "flows"} ->
            Listener!EnginesOwned /\ Listener!CloseQuiet /\ Listener!RoutePinned
      [] scene = "migration" -> Migration!Retryable
      [] OTHER -> TRUE

\* The DNS service gives a slot back once and never under a running host call, promises no
\* answer a longer life than it has, and keeps the limits and the byte count of its cache
\* however requests, late calls and the clock interleave (service.go, cache.go of doh).  What
\* it took from an upstream is that upstream's reply, however its datagrams were repeated or
\* reordered, unless a middle piece is missing (transport.go).
AnswersSound ==
    CASE scene = "resolve" ->
            Resolver!SlotsCover /\ Resolver!LifeKept /\ Resolver!CacheBounded
      [] scene = "exchange" -> Exchange!AnswerWhole /\ Exchange!RepeatsHarmless
      [] OTHER -> TRUE

\* What accelerator-sources hands out is current, whole and from where it says: nobody gets a
\* manifest older than what was known when they asked, a refusal costs the refused token
\* only, nobody waits without a load (cache.go, manager.go), an archive token is good once
\* and its archive holds what it claims (imagetar), and a redirected request takes its
\* token nowhere, has its body, and dials checked addresses only (sourceproxy, dns.go).  A
\* conditional request to a webdav share replaces the version it named or nothing, two
\* methods never mix their bytes, and no request leaves its namespace (condition.go, fs.go,
\* share.go).
TransfersSound ==
    CASE scene = "tag" ->
            Pull!BooksTrue /\ Pull!NeverOlder /\ Pull!RefusalExact /\ Pull!WaitersServed
      [] scene = "references" ->
            Pulls!BooksTrue /\ Pulls!NeverOlder /\ Pulls!RefusalExact /\ Pulls!WaitersServed
      [] scene = "archives" -> Archives!PlanOnce /\ Archives!ArchiveTrue /\ Archives!NoFileLeft
      [] scene = "sources" ->
            Proxy!TokenAtHome /\ Proxy!DnsSound /\ Proxy!BodyReady /\ Proxy!Pinned
      [] scene = "names" -> Names!TokenAtHome /\ Names!DnsSound /\ Names!BodyReady /\ Names!Pinned
      [] scene = "files" ->
            Share!NoLostUpdate /\ Share!CreatedNew /\ Share!NotMixed /\ Share!Confined
      [] OTHER -> TRUE

\* The policy guests decide what their rules say: a rate limit holds over every window, is
\* charged to both buckets or to none and names the exact time to retry (gcra.rs, limiter.rs);
\* an IP lookup finds exactly what was inserted and a deny is never outvoted (trie.rs,
\* policy.rs, runtime.rs); the WAF calls nothing clean that it did not see (engine.rs), and
\* every decision that must be reported is, within the budget of host calls.
PoliciesTrue ==
    CASE scene = "quota" -> Quota!QuotaKept /\ Quota!BothOrNeither /\ Quota!RetryHonest
      [] scene = "table" -> Table!QuotaKept /\ Table!BothOrNeither /\ Table!RetryHonest
      [] scene = "trie" -> Trie!LookupExact /\ Trie!DenyWins
      [] scene = "ip" -> Ip!AllowSound /\ Ip!EventTrue /\ Ip!HandedKept
      [] scene = "overlay" -> Overlay!AllowSound /\ Overlay!EventTrue /\ Overlay!HandedKept
      [] scene = "waf" -> Waf!CleanSound /\ Waf!VerdictTrue /\ Waf!BudgetEnough
      [] OTHER -> TRUE

\* A change of DNS is reported as it is: what an operation calls done was done and what it
\* calls refused was not, through retries, abandoned calls and a cancelled service, and
\* nothing runs on when Close returns (service.go, cloudflare_api.go of cloudflare-dns); a
\* domestic record is there once, or nowhere, when its route says so, and the records of
\* others are untouched (provider_dns.go).
RecordsTrue ==
    CASE scene = "operations" -> Operations!OutcomeTrue /\ Operations!DrainedQuiet
      [] scene = "retries" -> Retries!OutcomeTrue /\ Retries!DrainedQuiet
      [] scene \in {"records", "overlap"} -> Records!RecordAsked /\ Records!OthersKept
      [] OTHER -> TRUE
=============================================================================
