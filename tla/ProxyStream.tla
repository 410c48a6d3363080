----------------------------- MODULE ProxyStream -----------------------------
(***************************************************************************)
(* One proxied TCP connection of the shadowsocks-server plugin, from the   *)
(* encrypted handshake to the two relay loops (boundListen.handleTCP): the *)
(* handshake read in pieces and tried on every account's engine, the       *)
(* inspection of the first bytes for a domain name, the routing decision,  *)
(* the dial, the first write (plain, or the request of an upstream         *)
(* Shadowsocks server), and the relays with their record nonces.           *)
(*                                                                         *)
(* Payload bytes are numbered in the order the peer sent them.  A sealed   *)
(* record is opened only by the cipher whose nonce counter equals its own. *)
(* Bytes reach the plugin in units, a unit being the largest piece the     *)
(* code never splits; sizes are scaled down, with the order of the code's  *)
(* limits kept: maxLegacyPayload < maxSniffBytes < max2022Payload.         *)
(***************************************************************************)
EXTENDS Naturals, Sequences, SequencesExt, FiniteSets

CONSTANTS
    Accounts,          \* engines of the listener, in the order they are tried
    Clients,           \* the connections to consider (see Init)
    MaxLegacy, Max2022, MaxSniff, AddressSize,
    MaxReply           \* bytes the target sends back

VARIABLES
    client,            \* what connects, and where it goes
    arrived,           \* units of the client's wire that reached the plugin
    taken, prefix,     \* units read from the connection; units put back before it (prefixConn)
    pc, reason,
    buf,               \* units of the handshake so far
    nonce,             \* inbound nonce of the server session
    payload,           \* request.Payload: bytes to be written first
    up, peer,          \* nonces of the upstream session and of its peer
    out,               \* bytes received by the target
    reading,           \* the client-to-target loop still runs
    replied, back,     \* bytes sent by the target; bytes relayed towards the client
    seal, opened, got  \* outbound nonce of the session, the client's nonce; bytes it opened

conn == <<arrived, taken, prefix>>
upstream == <<up, peer, out>>
reply == <<replied, back, seal, opened, got>>
vars == <<client, conn, pc, reason, buf, nonce, payload, upstream, reading, reply>>

Bytes(from, n) == [i \in 1..n |-> from + i]
Sizes(s) == FoldLeft(LAMBDA a, b : a + b, 0, s)

(* The client's wire: salt, identity header, fixed header, the variable    *)
(* header with the target and the first payload (in two pieces), then a    *)
(* length record and a payload record per chunk.                           *)
Total(c) == c.first + Sizes(c.chunks)
Start(c, i) == c.first + Sizes(SubSeq(c.chunks, 1, i - 1))
Handshake == 5     \* salt, identity, fixed, the variable header in two pieces
Units(c) == Handshake + 2 * Len(c.chunks)
Chunk(k) == (k - Handshake + 1) \div 2                 \* chunk of unit k
IsLength(k) == (k - Handshake) % 2 = 1
Nonce(k) == k - Handshake + 1                          \* after the request's 0 and 1

(* Units not yet read, the ones put back first                             *)
Unread == prefix \o [i \in 1..(arrived - taken) |-> taken + i]
Take(n) ==
    /\ prefix' = SubSeq(prefix, n + 1, Len(prefix))
    /\ taken' = taken + (IF n > Len(prefix) THEN n - Len(prefix) ELSE 0)
PutBack(units, n) ==
    /\ prefix' = units \o SubSeq(prefix, n + 1, Len(prefix))
    /\ taken' = taken + (IF n > Len(prefix) THEN n - Len(prefix) ELSE 0)

End(why) == pc' = "closed" /\ reason' = why /\ reading' = FALSE

(***************************************************************************)
(* The network and the peers                                               *)
(***************************************************************************)
Arrive ==
    /\ arrived < Units(client) /\ arrived' = arrived + 1
    /\ UNCHANGED <<client, taken, prefix, pc, reason, buf, nonce, payload, upstream, reading, reply>>

TargetSends ==
    /\ pc = "relay" /\ replied < MaxReply /\ replied' = replied + 1
    /\ UNCHANGED <<client, conn, pc, reason, buf, nonce, payload, upstream, reading, back, seal, opened, got>>

(***************************************************************************)
(* readTCPHandshake                                                        *)
(***************************************************************************)
(* OpenTCPServerSession on the bytes so far (open2022TCP): too short, a    *)
(* key that is not the client's, an old timestamp, or the request.         *)
OpenTCPServerSession(account, n) ==
    IF n < 4 THEN "protocol"
    ELSE IF account # client.account THEN "authentication"
    ELSE IF client.stale THEN "replay"
    ELSE IF n < Handshake THEN "protocol"
    ELSE "ok"

(* The engines are tried in order on every read; a request that any engine *)
(* refuses as not its own, and none opens, is over.                        *)
ReadHandshake ==
    /\ pc = "handshake" /\ taken < arrived
    /\ \E n \in 1..(arrived - taken) :
         LET size == Len(buf) + n
             verdicts == [i \in DOMAIN Accounts |-> OpenTCPServerSession(Accounts[i], size)]
             tried(i) == verdicts[i] \in {"ok", "replay"}
             first == CHOOSE i \in DOMAIN Accounts :
                        tried(i) /\ \A j \in DOMAIN Accounts : j < i => ~tried(j)
         IN  /\ taken' = taken + n
             /\ IF \E i \in DOMAIN Accounts : tried(i)
                THEN IF verdicts[first] = "ok"
                     THEN /\ pc' = IF client.domain THEN "route" ELSE "sniff"
                          /\ prefix' = [i \in 1..(size - Handshake) |-> Handshake + i]  \* leftover
                          /\ payload' = Bytes(0, client.first)
                          /\ nonce' = 2 /\ buf' = <<>>
                          /\ UNCHANGED <<reason, reading>>
                     ELSE End("replay") /\ UNCHANGED <<prefix, payload, nonce, buf>>
                ELSE IF \E i \in DOMAIN Accounts : verdicts[i] = "authentication"
                THEN End("refused") /\ UNCHANGED <<prefix, payload, nonce, buf>>
                ELSE /\ buf' = buf \o [i \in 1..n |-> Len(buf) + i]
                     /\ UNCHANGED <<pc, reason, reading, prefix, payload, nonce>>
    /\ UNCHANGED <<client, arrived, upstream, reply>>

(* The handshake deadline                                                  *)
HandshakeTimeout ==
    /\ pc = "handshake" /\ End("timeout")
    /\ UNCHANGED <<client, conn, buf, nonce, payload, upstream, reply>>

(***************************************************************************)
(* sniffTargetDomain                                                       *)
(***************************************************************************)
(* sniffTCPDomain: the parsers decide once they have client.need bytes     *)
SniffDone(n) == (n >= client.need /\ n > 0) \/ n > MaxSniff

Sniffed == pc' = "route"

(* transactionalSniffChunk on a trial cipher: the session's nonce moves    *)
(* only when the whole chunk was opened; what was read of a chunk that is  *)
(* too large is put back.                                                  *)
SniffChunk ==
    /\ pc = "sniff" /\ ~SniffDone(Len(payload)) /\ Len(payload) < MaxSniff
    /\ Unread # <<>>
    /\ LET k == Unread[1]
           size == client.chunks[Chunk(k)]
       IN  IF ~IsLength(k) \/ Nonce(k) # nonce \/ size < 1
              \/ size > MaxSniff - Len(payload)
           THEN Sniffed /\ PutBack(<<k>>, 1) /\ UNCHANGED <<nonce, payload>>
           ELSE /\ Len(Unread) > 1
                /\ Take(2)
                /\ nonce' = nonce + 2
                /\ payload' = payload \o Bytes(Start(client, Chunk(k)), size)
                /\ UNCHANGED pc
    /\ UNCHANGED <<client, arrived, reason, buf, upstream, reading, reply>>

(* The deadline passes while a chunk is awaited: its first part is put back *)
SniffTimeout ==
    /\ pc = "sniff" /\ ~SniffDone(Len(payload)) /\ Len(payload) < MaxSniff /\ Len(Unread) < 2
    /\ Sniffed /\ PutBack(Unread, Len(Unread))
    /\ UNCHANGED <<client, arrived, reason, buf, nonce, payload, upstream, reading, reply>>

SniffEnough ==
    /\ pc = "sniff" /\ (SniffDone(Len(payload)) \/ Len(payload) >= MaxSniff)
    /\ Sniffed
    /\ UNCHANGED <<client, conn, reason, buf, nonce, payload, upstream, reading, reply>>

(***************************************************************************)
(* The routing decision, the dial and the first write                      *)
(***************************************************************************)
\* Mutant: only what the handshake carried is written.
FirstOfHandshake == Bytes(0, client.first)

(* What is written first: the handshake's bytes and the inspected ones     *)
FirstWrite == payload

Open ==
    /\ pc = "route"
    /\ \/ client.route = "reject" /\ End("rejected") /\ UNCHANGED upstream
       \/ client.route # "reject" /\ End("dial") /\ UNCHANGED upstream
       \/ /\ client.route = "direct"
          /\ pc' = "relay" /\ out' = FirstWrite /\ UNCHANGED <<reason, reading, up, peer>>
       \/ /\ client.route \in {"legacy", "2022"}
          /\ IF IF client.route = "legacy" THEN AddressSize + Len(payload) > MaxLegacy
                ELSE payload = <<>> \/ AddressSize + 2 + Len(payload) > Max2022
             THEN End("seal") /\ UNCHANGED upstream
             ELSE /\ pc' = "relay" /\ out' = FirstWrite
                  /\ up' = 2 /\ peer' = 2              \* the request sealed two records
                  /\ UNCHANGED <<reason, reading>>
    /\ UNCHANGED <<client, conn, buf, nonce, payload, reply>>

(***************************************************************************)
(* The relays                                                              *)
(***************************************************************************)
\* records upstreamTCPConn.Write needs for n bytes
Records(n) == LET max == IF client.route = "legacy" THEN MaxLegacy ELSE Max2022
              IN  (n + max - 1) \div max

(* relayTCPClientToTarget: readTCPPayloadChunk, then the write             *)
RelayToTarget ==
    /\ pc = "relay" /\ reading /\ Unread # <<>>
    /\ LET k == Unread[1]
           bytes == Bytes(Start(client, Chunk(k)), client.chunks[Chunk(k)])
       IN  IF ~IsLength(k) \/ Nonce(k) # nonce
           THEN /\ Take(1) /\ reading' = FALSE
                /\ UNCHANGED <<nonce, upstream>>
           ELSE /\ Len(Unread) > 1
                /\ Take(2)
                /\ nonce' = nonce + 2
                /\ IF client.route = "direct" THEN out' = out \o bytes /\ UNCHANGED <<up, peer>>
                   ELSE /\ up' = up + 2 * Records(Len(bytes))
                        /\ peer' = IF peer = up THEN up' ELSE peer
                        /\ out' = IF peer = up THEN out \o bytes ELSE out
                /\ UNCHANGED reading
    /\ UNCHANGED <<client, arrived, pc, reason, buf, payload, reply>>

(* relayTCPTargetToClient: what one Read returned is sent in records of at *)
(* most the session's maximum; the first one starts the response stream.   *)
RelayToClient ==
    /\ pc = "relay" /\ back < replied
    /\ \/ /\ \E n \in 1..(replied - back) :
               /\ back' = back + n
               /\ seal' = seal + 2 * ((n + Max2022 - 1) \div Max2022)
               /\ opened' = IF opened = seal THEN seal' ELSE opened
               /\ got' = IF opened = seal THEN got \o Bytes(back, n) ELSE got
          /\ UNCHANGED <<pc, reason, reading>>
       \/ ~reading /\ End("client") /\ UNCHANGED <<back, seal, opened, got>>
    /\ UNCHANGED <<client, conn, buf, nonce, payload, upstream, replied>>

(* The client has sent everything and closes its side: only the loop that  *)
(* reads from it ends.                                                     *)
ClientEnds ==
    /\ pc = "relay" /\ reading /\ Unread = <<>> /\ arrived = Units(client)
    /\ reading' = FALSE
    /\ UNCHANGED <<client, conn, pc, reason, buf, nonce, payload, upstream, reply>>

(* The target closes or fails: both connections are closed                 *)
TargetEnds ==
    /\ pc = "relay" /\ back = replied
    /\ End("target")
    /\ UNCHANGED <<client, conn, buf, nonce, payload, upstream, reply>>

Init ==
    /\ client \in Clients
    /\ arrived = 0 /\ taken = 0 /\ prefix = <<>>
    /\ pc = "handshake" /\ reason = "none" /\ buf = <<>> /\ nonce = 0 /\ payload = <<>>
    /\ up = 0 /\ peer = 0 /\ out = <<>> /\ reading = TRUE
    /\ replied = 0 /\ back = 0 /\ seal = 0 /\ opened = 0 /\ got = <<>>

Next ==
    \/ Arrive \/ TargetSends \/ ReadHandshake \/ HandshakeTimeout
    \/ SniffChunk \/ SniffTimeout \/ SniffEnough
    \/ Open \/ RelayToTarget \/ RelayToClient \/ ClientEnds \/ TargetEnds

(* The connection's goroutines run on, and the network delivers            *)
Fairness ==
    /\ WF_vars(Arrive) /\ WF_vars(ReadHandshake)
    /\ WF_vars(SniffChunk \/ SniffTimeout \/ SniffEnough)
    /\ WF_vars(Open) /\ WF_vars(RelayToTarget) /\ WF_vars(RelayToClient)

Spec == Init /\ [][Next]_vars /\ Fairness

\* Every variable has its type.
TypeOK ==
    /\ client \in Clients /\ arrived \in 0..Units(client) /\ taken \in 0..arrived
    /\ pc \in {"handshake", "sniff", "route", "relay", "closed"}
    /\ reason \in {"none", "timeout", "replay", "refused", "rejected", "dial", "seal", "target", "client"}
    /\ reading \in BOOLEAN /\ nonce \in 0..(Units(client) + 1) /\ back \in 0..replied

(* What the target has received is a prefix of what the client sent, and   *)
(* what the client has opened a prefix of what the target sent: no byte is *)
(* lost, repeated or reordered by the leftover of the handshake, by the    *)
(* inspection with its put-back, by a timeout in the middle of a chunk, or *)
(* by the change from plain to upstream framing.                           *)
Intact ==
    /\ Len(out) <= Total(client) /\ out = Bytes(0, Len(out))
    /\ got = Bytes(0, Len(got))

(* A connection that is not refused or ended gets all its bytes through:   *)
(* "all bytes consumed during inspection are replayed exactly".            *)
Through == pc = "closed" \/ Len(out) = Total(client)
Delivered == <>[]Through
=============================================================================
