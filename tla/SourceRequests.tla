--------------------------- MODULE SourceRequests ---------------------------
(***************************************************************************)
(* One outbound request of accelerator-sources, hop by hop: the three      *)
(* handlers follow redirects themselves (doFollowing in registry and       *)
(* imagetar, follow in sourceproxy), and every hop goes through the shared *)
(* manager, which looks the name up in its DNS cache, pins the addresses   *)
(* it has checked to the request and dials only those (PrepareRequest, Do  *)
(* and dialContext in upstream/manager.go, DNSCache in upstream/dns.go).   *)
(*                                                                         *)
(* A host is a name with its authority; the upstreams and the DNS choose   *)
(* freely where a redirect points and what a name resolves to.  An answer  *)
(* is the set of addresses of one lookup.                                  *)
(***************************************************************************)
EXTENDS Integers, Sequences, FiniteSets

CONSTANTS
    Requests, Hosts, Addresses,
    Public,         \* the addresses IsPublicIP accepts
    Endpoint,       \* the host of the configured source
    Allowed,        \* hosts the redirect rules of imagetar and sourceproxy accept
    MaxRedirects, MaxDNSEntries,
    TTL, SWR, SIE, MaxTime, MaxLookups

VARIABLES
    now,
    dns,        \* host |-> entry
    lru,        \* hosts in the order of use, the most recent first
    lookups,    \* hosts with a lookup running, and how many there were
    count,
    r,          \* the requests
    files       \* requests whose body waits in a temporary file

vars == <<now, dns, lru, lookups, count, r, files>>

Handlers == {"registry", "imagetar", "get", "post"}
NoEntry == [addrs |-> {}, negative |-> FALSE, exp |-> 0, swr |-> 0, sie |-> 0]
Idle == [pc |-> "idle", via |-> "get", host |-> Endpoint, auth |-> FALSE, hops |-> 0,
         stale |-> {}, lease |-> {}]

(***************************************************************************)
(* DNSCache                                                                *)
(***************************************************************************)
Without(h) == SelectSeq(lru, LAMBDA x : x # h)
Delete(h) == dns' = [dns EXCEPT ![h] = NoEntry] /\ lru' = Without(h)

LookUp(h) ==
    IF h \in lookups THEN UNCHANGED <<lookups, count>>
    ELSE count < MaxLookups /\ lookups' = lookups \cup {h} /\ count' = count + 1

At(q, pc) == r[q].pc = pc

(* Resolve: an answer that is still good at once, one in its revalidation  *)
(* window at once with a lookup behind it, otherwise the result of the     *)
(* lookup; an answer in its last window may stand in for a failure.        *)
Resolve(q) ==
    /\ At(q, "resolve")
    /\ LET h == r[q].host
           e == dns[h]
       IN  \/ /\ e # NoEntry /\ now < e.exp
              /\ lru' = <<h>> \o Without(h)
              /\ r' = [r EXCEPT ![q].pc = IF e.negative THEN "failed" ELSE "check",
                                ![q].lease = e.addrs]
              /\ UNCHANGED <<dns, lookups, count>>
           \/ /\ e # NoEntry /\ ~e.negative /\ e.exp <= now /\ now < e.swr
              /\ r' = [r EXCEPT ![q].pc = "check", ![q].lease = e.addrs]
              /\ LookUp(h)
              /\ UNCHANGED <<dns, lru>>
           \/ /\ e = NoEntry \/ (e.negative /\ e.exp <= now) \/ e.swr <= now
              /\ IF e # NoEntry /\ ~e.negative /\ now < e.sie
                 THEN /\ r' = [r EXCEPT ![q].pc = "lookup", ![q].stale = e.addrs]
                      /\ UNCHANGED <<dns, lru>>
                 ELSE /\ r' = [r EXCEPT ![q].pc = "lookup", ![q].stale = {}]
                      /\ Delete(h)
              /\ LookUp(h)
    /\ UNCHANGED <<now, files>>

\* the entry a successful or a negative lookup leaves
Entry(addrs) ==
    IF addrs = {} THEN [addrs |-> {}, negative |-> TRUE, exp |-> now + TTL, swr |-> now + TTL,
                        sie |-> now + TTL]
    ELSE [addrs |-> addrs, negative |-> FALSE, exp |-> now + TTL, swr |-> now + TTL + SWR,
          sie |-> now + TTL + SWR + SIE]

Kept(order) == SubSeq(order, 1, IF Len(order) > MaxDNSEntries THEN MaxDNSEntries ELSE Len(order))

Answered(h, addrs, failed) ==
    r' = [q \in Requests |->
             IF r[q].pc # "lookup" \/ r[q].host # h THEN r[q]
             ELSE IF failed /\ r[q].stale # {}
                  THEN [r[q] EXCEPT !.pc = "check", !.lease = r[q].stale]
             ELSE IF failed \/ addrs = {} THEN [r[q] EXCEPT !.pc = "failed"]
             ELSE [r[q] EXCEPT !.pc = "check", !.lease = addrs]]

(* runLookup: the answer (none at all is a name that does not exist)       *)
(* replaces the entry and goes to everyone who waits for it; one whose     *)
(* time to live is zero only takes the old entry away.                     *)
Found(h, addrs, lasting) ==
    /\ h \in lookups /\ lookups' = lookups \ {h}
    /\ IF ~lasting THEN Delete(h)
       ELSE LET order == Kept(<<h>> \o Without(h))
                listed(x) == \E n \in 1..Len(order) : order[n] = x
            IN  /\ lru' = order
                /\ dns' = [x \in Hosts |-> IF x = h /\ listed(h) THEN Entry(addrs)
                                           ELSE IF listed(x) THEN dns[x] ELSE NoEntry]
    /\ Answered(h, addrs, FALSE)
    /\ UNCHANGED <<now, count, files>>

\* a lookup that fails leaves the entry; a stale answer stands in for it
Unanswered(h) ==
    /\ h \in lookups /\ lookups' = lookups \ {h}
    /\ Answered(h, {}, TRUE)
    /\ UNCHANGED <<now, dns, lru, count, files>>

(***************************************************************************)
(* The manager                                                             *)
(***************************************************************************)
(* PrepareRequest: an answer with an address that is not public is not     *)
(* used at all and not kept either.                                        *)
PrepareRequest(q) ==
    /\ At(q, "check")
    /\ IF r[q].lease \subseteq Public
       THEN r' = [r EXCEPT ![q].pc = "dial"] /\ UNCHANGED <<dns, lru>>
       ELSE r' = [r EXCEPT ![q].pc = "failed"] /\ Delete(r[q].host)
    /\ UNCHANGED <<now, lookups, count, files>>

(* dialContext: the pinned addresses in turn, checked once more, and not   *)
(* what the name means now; when none can be reached the request fails.    *)
Dial(q) ==
    /\ At(q, "dial") /\ r[q].lease \subseteq Public
    /\ r' = [r EXCEPT ![q].pc = "sent"]
    /\ UNCHANGED <<now, dns, lru, lookups, count, files>>

(***************************************************************************)
(* The handlers                                                            *)
(***************************************************************************)
(* A request starts at the endpoint; registry and imagetar may carry a     *)
(* token, and the body of a git POST is written to a file first.           *)
Start(q, via, auth) ==
    /\ r[q] = Idle
    /\ auth => via \in {"registry", "imagetar"}
    /\ r' = [r EXCEPT ![q] = [Idle EXCEPT !.pc = IF via = "post" THEN "spool" ELSE "resolve",
                                          !.via = via, !.auth = auth]]
    /\ UNCHANGED <<now, dns, lru, lookups, count, files>>

(* spoolRequest: every hop can send the whole body again; a body that is   *)
(* too long, too short or cut off leaves no file.                          *)
Spool(q, whole) ==
    /\ At(q, "spool")
    /\ r' = [r EXCEPT ![q].pc = IF whole THEN "resolve" ELSE "failed"]
    /\ files' = IF whole THEN files \cup {q} ELSE files
    /\ UNCHANGED <<now, dns, lru, lookups, count>>

\* validateOutbound, allowedRegistryRedirect and allowedRedirect
AllowedRedirect(via, h) == via # "registry" => h \in Allowed

\* Mutant: the headers of the last hop are taken over as they are.
AuthKept(q, h) == r[q].auth

(* registry drops the token when the authority changes and never puts it   *)
(* back; imagetar remembers it and decides at every hop.                   *)
AuthAfter(q, h) == r[q].auth /\ (r[q].via = "registry" => h = r[q].host)

\* whether the hop that is being sent carries the token
Carries(q) == r[q].auth /\ (r[q].via = "imagetar" => r[q].host = Endpoint)

(* A redirect to h.  A git POST follows only one that keeps the method and *)
(* the upload path (same).                                                 *)
Redirect(q, h, same) ==
    /\ At(q, "sent")
    /\ IF \/ r[q].hops >= MaxRedirects \/ ~AllowedRedirect(r[q].via, h)
          \/ r[q].via = "post" /\ ~same
       THEN r' = [r EXCEPT ![q].pc = "failed"]
       ELSE r' = [r EXCEPT ![q].pc = "resolve", ![q].hops = @ + 1, ![q].host = h,
                           ![q].auth = AuthAfter(q, h), ![q].lease = {}]
    /\ UNCHANGED <<now, dns, lru, lookups, count, files>>

\* the answer of the last hop, or the error; the dial may have failed too
Finish(q) ==
    /\ r[q].pc \in {"dial", "sent", "failed"}
    /\ r' = [r EXCEPT ![q] = Idle] /\ files' = files \ {q}
    /\ UNCHANGED <<now, dns, lru, lookups, count>>

Tick ==
    /\ now < MaxTime /\ now' = now + 1
    /\ UNCHANGED <<dns, lru, lookups, count, r, files>>

Init ==
    /\ now = 0 /\ dns = [h \in Hosts |-> NoEntry] /\ lru = <<>> /\ lookups = {} /\ count = 0
    /\ r = [q \in Requests |-> Idle] /\ files = {}

Next ==
    \/ \E q \in Requests :
          \/ \E via \in Handlers, auth \in BOOLEAN : Start(q, via, auth)
          \/ Resolve(q) \/ PrepareRequest(q) \/ Dial(q) \/ Finish(q)
          \/ \E whole \in BOOLEAN : Spool(q, whole)
          \/ \E h \in Hosts, same \in BOOLEAN : Redirect(q, h, same)
    \/ \E h \in Hosts : Unanswered(h) \/ \E addrs \in SUBSET Addresses, lasting \in BOOLEAN : Found(h, addrs, lasting)
    \/ Tick

Spec == Init /\ [][Next]_vars

(***************************************************************************)
(* Properties                                                              *)
(***************************************************************************)
\* Every variable has its type.
TypeOK ==
    /\ now \in 0..MaxTime /\ count \in 0..MaxLookups /\ lookups \subseteq Hosts
    /\ \A q \in Requests : r[q].lease \subseteq Addresses /\ r[q].hops \in 0..MaxRedirects

(* The token of a source is sent to that source only: a chain of redirects *)
(* that leaves the endpoint, even one that comes back to it by way of      *)
(* another host, takes it nowhere else.                                    *)
TokenAtHome == \A q \in Requests : At(q, "sent") /\ Carries(q) => r[q].host = Endpoint

(* The books of the DNS cache are true, it is bounded, and nobody waits    *)
(* for a lookup that is not running.                                       *)
DnsSound ==
    /\ \A h \in Hosts : dns[h] # NoEntry <=> \E n \in 1..Len(lru) : lru[n] = h
    /\ Len(lru) <= MaxDNSEntries
    /\ \A q \in Requests : At(q, "lookup") => r[q].host \in lookups

(* Every hop of a git POST has the body to send, and no file outlives its  *)
(* request.                                                                *)
BodyReady ==
    \A q \in Requests :
        /\ q \in files => r[q].via = "post" /\ ~At(q, "idle")
        /\ r[q].via = "post" /\ r[q].pc \in {"resolve", "lookup", "check", "dial", "sent"}
              => q \in files

(* A request is only ever sent to addresses that passed the check, even    *)
(* though the name is looked up again, expires and changes while hops of   *)
(* other requests use it.                                                  *)
Pinned == \A q \in Requests : At(q, "dial") => r[q].lease # {} /\ r[q].lease \subseteq Public
=============================================================================
