-------------------------- MODULE UpstreamExchange --------------------------
(***************************************************************************)
(* One query of the doh plugin to one upstream (transport.go), over a      *)
(* datagram, a byte stream, DNSCrypt, and the plugin's own QUIC client,    *)
(* which carries DNS over QUIC ("doq") and HTTP/3 ("h3").                  *)
(*                                                                         *)
(* The upstream and the network are external: every datagram the server    *)
(* may send arrives in any order, several times or never, which is also    *)
(* how its retransmissions look.  What the client sends may be lost; it    *)
(* sends everything once.  A packet is opened or the exchange has failed.  *)
(*                                                                         *)
(* Bytes of a TLS flight are numbered from 1, so a right byte equals its   *)
(* position; the bytes of a message are above 10.  The first piece of a    *)
(* reply holds its first frame header, and HTTP/3 has one DATA frame.      *)
(***************************************************************************)
EXTENDS Naturals, Sequences, SequencesExt, FiniteSets

CONSTANTS
    Kinds,         \* transports to consider
    Lengths,       \* lengths of the reply; 0 for an empty message
    Limit,         \* MaxBytes of the request
    MaxPieces,     \* pieces of the reply on stream 0
    MaxExtra       \* datagrams that arrive again

Spaces == {"initial", "handshake", "application"}
Flight == [initial |-> 1, handshake |-> 2, application |-> 1]   \* TLS bytes of the server
Streams == {0, 3}
Zero == 0      \* what make() leaves in a gap
Mark == 10     \* 0x80 in the padding of DNSCrypt

VARIABLES
    kind, size, cuts,   \* the transport, the reply's length, where the server cuts the reply
    pc, answer,
    conn,               \* quicConn
    sent,               \* what the client has put on the wire
    got,                \* how often each datagram has arrived
    disordered          \* a datagram has arrived before one the server sent earlier

vars == <<kind, size, cuts, pc, answer, conn, sent, got, disordered>>
fixed == <<kind, size, cuts>>

Reply == [i \in 1..size |-> 10 + i]
TheGreater(a, b) == IF a > b THEN a ELSE b
TheLesser(a, b) == IF a < b THEN a ELSE b

(* The reply on its way: a length and the message, whose id is 0 over QUIC *)
(* as the query's was, or a HEADERS and a DATA frame.                      *)
Wire == CASE kind = "h3" -> <<1, 1, 19, 0, size>> \o Reply
          [] kind = "doq" -> <<size>> \o [i \in 1..size |-> IF i = 1 THEN 0 ELSE Reply[i]]
          [] OTHER -> <<size>> \o Reply
Header == IF kind = "h3" THEN 2 ELSE 1

PieceAt(off) ==
    LET later == {x \in cuts : x > off}
        end == IF later = {} THEN Len(Wire) ELSE CHOOSE x \in later : \A y \in later : x <= y
    IN  [type |-> "stream", id |-> 0, off |-> off, data |-> SubSeq(Wire, off + 1, end),
         fin |-> later = {}]
Settings == [type |-> "stream", id |-> 3, off |-> 0, data |-> <<4>>, fin |-> FALSE]
Crypto(off, data) == [type |-> "crypto", off |-> off, data |-> data]
Other(type) == [type |-> type]
Packet(space, frames) == [space |-> space, frames |-> frames]

(* What the server may send, in the order it sends it, and what it must    *)
(* have heard before: its TLS flight, the last packet of which shares a    *)
(* datagram with the settings of HTTP/3; a ticket; the reply; a refusal.   *)
Pieces == {<<"piece", off>> : off \in cuts \cup {0}}
Datagrams == {<<"hello", 0>>, <<"cert", 0>>, <<"rest", 0>>, <<"ticket", 0>>, <<"bye", 0>>} \cup Pieces
Needs(d) == CASE d[1] = "piece" -> "query" [] d[1] = "ticket" -> "finished" [] OTHER -> "hello"
Earlier(d) == CASE d[1] \in {"hello", "bye"} -> {}
                [] d[1] = "cert" -> {<<"hello", 0>>}
                [] d[1] = "rest" -> {<<"hello", 0>>, <<"cert", 0>>}
                [] d[1] = "ticket" -> {}
                [] d[1] = "piece" -> {e \in Pieces : e[2] < d[2]}
Packets(d) ==
    CASE d[1] = "hello" -> <<Packet("initial", <<Other("ping"), Crypto(0, <<1>>), Other("ack")>>)>>
      [] d[1] = "cert" -> <<Packet("handshake", <<Crypto(0, <<1>>)>>)>>
      [] d[1] = "rest" -> <<Packet("handshake", <<Crypto(1, <<2>>)>>),
                            Packet("application", <<Settings>>)>>
      [] d[1] = "ticket" -> <<Packet("application", <<Crypto(0, <<1>>), Other("done")>>)>>
      [] d[1] = "bye" -> <<Packet("application", <<Other("close")>>)>>
      [] d[1] = "piece" -> <<Packet("application", <<PieceAt(d[2])>>)>>
-----------------------------------------------------------------------------
(* A piece is copied into a buffer that grows to what it needs; a gap that *)
(* is left stays zero.                                                     *)
Grown(buf, off, data) ==
    [i \in 1..TheGreater(Len(buf), off + Len(data)) |->
        IF i > off /\ i <= off + Len(data) THEN data[i - off]
        ELSE IF i <= Len(buf) THEN buf[i] ELSE Zero]

\* dialQUIC: the keys of the initial space, and the client's hello to send
NewConn ==
    [keys |-> {"initial"}, in |-> [s \in Spaces |-> <<>>], taken |-> [s \in Spaces |-> 0],
     out |-> {"hello"}, stream |-> [id \in Streams |-> <<>>], fin |-> {}, ack |-> {},
     done |-> FALSE, ok |-> TRUE]

Broken(q) == [q EXCEPT !.ok = FALSE]
Acked(q, s) == [q EXCEPT !.ack = @ \cup {s}]

(* CRYPTO: everything not yet taken goes to TLS, which refuses a byte that *)
(* is not the next of the flight.                                          *)
HandleCrypto(q, s, f) ==
    LET buf == Grown(q.in[s], f.off, f.data)
    IN  IF \E i \in q.taken[s] + 1..Len(buf) : buf[i] # i THEN Broken(q)
        ELSE Acked([q EXCEPT !.in[s] = buf, !.taken[s] = Len(buf)], s)

\* Mutant: pieces are joined in the order they arrive.
HandleStreamJoined(q, s, f) ==
    Acked([q EXCEPT !.stream[f.id] = @ \o f.data, !.fin = IF f.fin THEN @ \cup {f.id} ELSE @], s)

(* STREAM: a piece without an offset is appended, one with an offset is    *)
(* put at its place.                                                       *)
HandleStream(q, s, f) ==
    LET buf == IF f.off = 0 THEN q.stream[f.id] \o f.data
               ELSE Grown(q.stream[f.id], f.off, f.data)
    IN  Acked([q EXCEPT !.stream[f.id] = buf, !.fin = IF f.fin THEN @ \cup {f.id} ELSE @], s)

\* skipQUICFrame: the other frames are passed over; a CONNECTION_CLOSE ends the exchange
HandleFrame(q, s, f) ==
    CASE ~q.ok -> q
      [] q.ok /\ f.type = "crypto" -> HandleCrypto(q, s, f)
      [] q.ok /\ f.type = "stream" -> HandleStream(q, s, f)
      [] q.ok /\ f.type = "ack" -> q
      [] q.ok /\ f.type \in {"ping", "done"} -> Acked(q, s)
      [] q.ok /\ f.type = "close" -> Broken(q)

(* drainTLS: a flight that is complete gives the keys of the next space;   *)
(* the last one ends the handshake and leaves the client's Finished.       *)
DrainTLS(q) ==
    LET hello == q.taken["initial"] >= Flight["initial"]
        rest == q.taken["handshake"] >= Flight["handshake"]
    IN  [q EXCEPT !.keys = @ \cup (IF hello THEN {"handshake"} ELSE {})
                             \cup (IF rest THEN {"application"} ELSE {}),
                  !.out = IF rest /\ ~q.done THEN @ \cup {"finished"} ELSE @,
                  !.done = rest]

(* A packet without a key, or one that does not open, ends the exchange;   *)
(* the keys of a packet are there for the next one of its datagram.        *)
HandlePacket(q, p) ==
    IF ~q.ok \/ p.space \notin q.keys THEN Broken(q)
    ELSE LET Frame(r, f) == HandleFrame(r, p.space, f)
             after == FoldLeft(Frame, q, p.frames)
         IN  IF after.ok THEN DrainTLS(after) ELSE after

HandleDatagram(q, d) == FoldLeft(HandlePacket, q, Packets(d))

\* flush: the pending TLS bytes and acknowledgements, each once
Flush(q) == [q EXCEPT !.out = {}, !.ack = {}]
-----------------------------------------------------------------------------
Fails == pc' = "failed" /\ answer' = <<>>
Refuses == pc' = "refused" /\ answer' = <<>>
Answers(message) == pc' = "answered" /\ answer' = message

\* readDNSMessage: a length, refused when zero or too large, and as many bytes
ReadDNSMessage(bytes) ==
    IF bytes = <<>> THEN Fails
    ELSE IF bytes[1] = 0 \/ bytes[1] > Limit THEN Refuses
    ELSE IF Len(bytes) < 1 + bytes[1] THEN Fails
    ELSE Answers(SubSeq(bytes, 2, 1 + bytes[1]))

\* exchangeDoQ after the stream has ended; the id of the query comes back
FinishDoQ(body) ==
    LET length == body[1]
    IN  IF length = 0 \/ length > Limit \/ Len(body) < 1 + length THEN Refuses
        ELSE Answers(<<Reply[1]>> \o SubSeq(body, 3, 1 + length))

\* parseHTTP3DNS: the first DATA frame, as far as the frames before it are whole
DataFrame(body) ==
    LET Whole(off) == off + 2 <= Len(body) /\ off + 2 + body[off + 2] <= Len(body)
        f[off \in 0..Len(body)] ==
            IF ~Whole(off) THEN 0
            ELSE IF body[off + 1] = 0 THEN off + 1 ELSE f[off + 2 + body[off + 2]]
    IN  f[0]
FinishHTTP3(body) ==
    LET at == DataFrame(body)
    IN  IF at = 0 \/ body[at + 1] = 0 \/ body[at + 1] > Limit THEN Refuses
        ELSE Answers(SubSeq(body, at + 2, at + 1 + body[at + 1]))
Finish(body) == IF kind = "h3" THEN FinishHTTP3(body) ELSE FinishDoQ(body)
-----------------------------------------------------------------------------
\* exchangePacket: one datagram, cut off at the limit
ExchangePacket ==
    /\ pc = "idle" /\ kind = "udp"
    /\ IF size = 0 THEN Fails ELSE Answers(SubSeq(Reply, 1, TheLesser(size, Limit)))
    /\ UNCHANGED <<fixed, conn, sent, got, disordered>>

\* exchangeStream: the connection may end after any byte
ExchangeStream ==
    /\ pc = "idle" /\ kind = "stream"
    /\ \E n \in 0..Len(Wire) : ReadDNSMessage(SubSeq(Wire, 1, n))
    /\ UNCHANGED <<fixed, conn, sent, got, disordered>>

(* exchangeDNSCrypt: the certificate, by a datagram of its own; the first  *)
(* signed one whose time has come and not passed.                          *)
FetchCert ==
    /\ pc = "idle" /\ kind = "dnscrypt"
    /\ \E certs \in BoundedSeq({"valid", "early", "late", "unsigned"}, 2) :
          IF "valid" \in Range(certs) THEN pc' = "cert" /\ sent' = {"query"} /\ UNCHANGED answer
          ELSE Fails /\ UNCHANGED sent
    /\ UNCHANGED <<fixed, conn, got, disordered>>

\* trimDNSCryptPadding: from the end, zeros and one mark
Trim(plain) ==
    LET last == CHOOSE i \in 0..Len(plain) : /\ \A j \in i + 1..Len(plain) : plain[j] = 0
                                             /\ i = 0 \/ plain[i] # 0
    IN  IF last > 0 /\ plain[last] = Mark THEN SubSeq(plain, 1, last - 1) ELSE plain

ExchangeDNSCrypt ==
    /\ pc = "cert"
    /\ \E opened \in BOOLEAN, pad \in 0..1 :
          LET plain == Trim(Reply \o <<Mark>> \o [i \in 1..pad |-> 0])
          IN  IF ~opened THEN Fails
              ELSE IF plain = <<>> \/ Len(plain) > Limit THEN Refuses ELSE Answers(plain)
    /\ UNCHANGED <<fixed, conn, sent, got, disordered>>

\* dialQUIC, and the first flush of handshake
Dial ==
    /\ pc = "idle" /\ kind \in {"doq", "h3"}
    /\ pc' = "handshake" /\ conn' = Flush(NewConn) /\ sent' = NewConn.out
    /\ UNCHANGED <<fixed, answer, got, disordered>>

Arrives(d) ==
    /\ Needs(d) \in sent
    /\ LET extra == {e \in Datagrams : got[e] > 1}
       IN  \/ got[d] = 0
           \/ got[d] = 1 /\ Cardinality(extra) < MaxExtra
    /\ got' = [got EXCEPT ![d] = @ + 1]
    /\ disordered' = (disordered \/ \E e \in Earlier(d) : got[e] = 0)

(* handshake: a datagram is handled, TLS drained and the answer flushed;   *)
(* when the handshake is done the query follows at once.                   *)
Handshake(d) ==
    /\ pc = "handshake" /\ Arrives(d)
    /\ LET q == HandleDatagram(conn, d)
       IN  /\ conn' = Flush(q)
           /\ IF ~q.ok THEN Refuses /\ UNCHANGED sent
              ELSE /\ pc' = IF q.done THEN "reading" ELSE pc
                   /\ sent' = sent \cup q.out \cup (IF q.done THEN {"query"} ELSE {})
                   /\ UNCHANGED answer
    /\ UNCHANGED fixed

\* readStream: until the stream has ended and holds something
ReadStream(d) ==
    /\ pc = "reading" /\ Arrives(d)
    /\ LET q == HandleDatagram(conn, d)
       IN  /\ conn' = Flush(q)
           /\ IF ~q.ok THEN Refuses
              ELSE IF 0 \in q.fin /\ q.stream[0] # <<>> THEN Finish(q.stream[0])
              ELSE UNCHANGED <<pc, answer>>
    /\ UNCHANGED <<fixed, sent>>

\* A read or write fails, or the deadline passes.
GiveUp ==
    /\ pc \in {"idle", "cert", "handshake", "reading"}
    /\ Fails
    /\ UNCHANGED <<fixed, conn, sent, got, disordered>>

Init ==
    /\ kind \in Kinds /\ size \in Lengths
    /\ cuts \in {c \in SUBSET (Header..Len(Wire) - 1) :
                    Cardinality(c) < MaxPieces /\ (kind \notin {"doq", "h3"} => c = {})}
    /\ pc = "idle" /\ answer = <<>> /\ conn = NewConn /\ sent = {}
    /\ got = [d \in Datagrams |-> 0] /\ disordered = FALSE

\* Resolve
Next ==
    \/ ExchangePacket \/ ExchangeStream \/ FetchCert \/ ExchangeDNSCrypt \/ Dial \/ GiveUp
    \/ \E d \in Datagrams : Handshake(d) \/ ReadStream(d)

Spec == Init /\ [][Next]_vars
-----------------------------------------------------------------------------
\* Every variable has its type.
TypeOK ==
    /\ kind \in Kinds /\ size \in Lengths /\ disordered \in BOOLEAN
    /\ pc \in {"idle", "cert", "handshake", "reading", "answered", "failed", "refused"}
    /\ sent \subseteq {"hello", "finished", "query"} /\ got \in [Datagrams -> 0..2]
    /\ conn.keys \subseteq Spaces /\ conn.ack = {} /\ conn.fin \subseteq Streams

(* An answer is the upstream's reply with the id of the query, whatever    *)
(* the network repeated or reordered, as long as every piece has arrived:  *)
(* a stream that ends before a middle piece is answered with zeros in its  *)
(* place (handleFrames).  A missing first piece is never answered.  Over a *)
(* datagram the reply may be cut off at the limit.                         *)
AnswerWhole ==
    pc = "answered" =>
        \/ answer = Reply
        \/ kind = "udp" /\ size > Limit /\ answer = SubSeq(Reply, 1, Limit)
        \/ /\ kind \in {"doq", "h3"} /\ got[<<"piece", 0>>] > 0
           /\ \E d \in Pieces : got[d] = 0

(* The exchange refuses a reply only for its length, because the server    *)
(* closed the connection, or because a datagram was overtaken: repetition  *)
(* alone never breaks it.                                                  *)
RepeatsHarmless ==
    pc = "refused" => disordered \/ size \notin 1..Limit \/ got[<<"bye", 0>>] > 0
=============================================================================
