---------------------------- MODULE DomesticDns -----------------------------
(***************************************************************************)
(* The record routes of cloudflare-dns for the domestic providers          *)
(* (changeDomesticRecord in records.go, providerDNSClient in               *)
(* provider_dns.go): Ensure makes one record exist, DeleteTXT removes one. *)
(*                                                                         *)
(* Neither is one operation at the provider.  Both read the records of the *)
(* name page by page, decide on what they read, and then write; a delete   *)
(* removes what it found one record at a time.  The answer of every write  *)
(* may be lost after the provider has carried it out, and the caller then  *)
(* asks again.  Requests for the same name may overlap.                    *)
(*                                                                         *)
(* The content of a record is a value and a form: a provider may give TXT  *)
(* back in quotes and an address in another spelling.                      *)
(***************************************************************************)
EXTENDS Integers, Sequences, FiniteSets, SequencesExt

CONSTANTS
    Requests,
    Providers,       \* of "aliyun", "dnspod", "tencent"
    Name, Values,    \* the name and the values requests are about
    Strangers,       \* records of others that may be in the zone
    PageSize, PageLimit,     \* 100 and providerPageLimit
    MaxWrites        \* bound: writes at the provider

VARIABLES
    provider, search,   \* the provider of the mapping, and how it searches
    others,             \* the records of others in it
    zone,               \* its records, in the order it lists them
    nextId, writes,
    q,                  \* the requests
    disturbed,          \* requests during which another one wrote
    truncated           \* requests that gave up listing at the page limit

vars == <<provider, search, others, zone, nextId, writes, q, disturbed, truncated>>

Types == {"TXT", "A"}
Idle == [op |-> "none", type |-> "none", value |-> 0, step |-> "idle", page |-> 1,
         found |-> <<>>, todo |-> <<>>, outcome |-> "none"]
Active(r) == q[r].step \notin {"idle", "done"}

-----------------------------------------------------------------------------
(* Which records a request is about                                        *)

\* Mutant: contents are compared as the provider spells them.
SameTextAsSpelled(rec, value) == rec.value = value /\ rec.form = "plain"

\* sameRecordContent and canonicalTXT
SameContent(rec, value) == rec.value = value

\* Mutant: whatever the provider returns is taken for the name asked for.
AnyIdentity(rec, r) == rec.type = q[r].type

\* sameIdentity
SameIdentity(rec, r) == rec.type = q[r].type /\ rec.name = Name

\* matchingContentRecords
Matching(records, r) ==
    SelectSeq(records, LAMBDA rec : SameIdentity(rec, r) /\ SameContent(rec, q[r].value))

(* What the provider searches in: it may return more than was asked for    *)
Searched(r) ==
    IF search = "loose" THEN zone ELSE SelectSeq(zone, LAMBDA rec : SameIdentity(rec, r))

Page(r) ==
    LET all == Searched(r) from == (q[r].page - 1) * PageSize
    IN  SubSeq(all, from + 1, IF from + PageSize < Len(all) THEN from + PageSize ELSE Len(all))

-----------------------------------------------------------------------------
(* The calls of the three providers.  A provider answers "ok", refuses by  *)
(* its status or by a code in the body, or has no data to list; its answer *)
(* may get lost.                                                           *)

Empty(r) == Searched(r) = <<>>

ListAnswers(r) ==
    IF ~Empty(r) \/ provider = "aliyun" THEN {"ok", "refused", "coded", "lost"}
    ELSE {"ok", "nodata", "refused", "coded", "lost"}

(* aliyun refuses a write by the status alone *)
WriteAnswers(carried) ==
    IF carried THEN {"ok", "lost"}
    ELSE {"refused", "lost"} \cup (IF provider = "aliyun" THEN {} ELSE {"coded"})

\* roundTrip
Arrived(answer) == answer # "lost"

\* aliyunCall
AliyunCall(call, answer) == Arrived(answer) /\ answer # "refused"

\* Mutant: dnspodCall does not look at the code.
DnspodCallStatus(call, answer) == Arrived(answer) /\ answer # "refused"

\* dnspodCall: the list looks at the code itself
DnspodCall(call, answer) ==
    /\ Arrived(answer) /\ answer # "refused"
    /\ call # "list" => answer = "ok"

\* tencentCall
TencentCall(call, answer) ==
    /\ Arrived(answer) /\ answer \notin {"refused", "coded"}
    /\ answer = "nodata" => call = "list"

Accepted(call, answer) ==
    CASE provider = "aliyun" -> AliyunCall(call, answer)
      [] provider = "dnspod" -> DnspodCall(call, answer)
      [] provider = "tencent" -> TencentCall(call, answer)

\* aliyunList: the page is empty or the last one by the total
AliyunLast(r, found, answer) == Page(r) = <<>> \/ q[r].page * PageSize >= Len(Searched(r))

\* dnspodList: code 10 says that there is no record
DnspodLast(r, found, answer) == answer = "nodata" \/ Len(Page(r)) < PageSize

\* tencentList: so does NoDataOfRecord; the total is compared with what was kept
TencentLast(r, found, answer) ==
    \/ answer = "nodata" \/ Len(Page(r)) < PageSize
    \/ Len(found) >= Len(Searched(r))

LastPage(r, found, answer) ==
    CASE provider = "aliyun" -> AliyunLast(r, found, answer)
      [] provider = "dnspod" -> DnspodLast(r, found, answer)
      [] provider = "tencent" -> TencentLast(r, found, answer)

-----------------------------------------------------------------------------
(* What a complete list leads to                                           *)

\* Mutant: the record that is there is changed, whatever its type.
EnsureChanges(r, found) ==
    IF Matching(found, r) # <<>> THEN [step |-> "finish", todo |-> <<>>, outcome |-> "unchanged"]
    ELSE IF found # <<>>
    THEN [step |-> "update", todo |-> <<found[1].id>>, outcome |-> "updated"]
    ELSE [step |-> "add", todo |-> <<>>, outcome |-> "created"]

(* aliyunEnsure: a TXT record is added beside the others, an address takes *)
(* the place of the first one.                                             *)
AliyunEnsure(r, found) ==
    IF Matching(found, r) # <<>> THEN [step |-> "finish", todo |-> <<>>, outcome |-> "unchanged"]
    ELSE IF q[r].type # "TXT" /\ found # <<>>
    THEN [step |-> "update", todo |-> <<found[1].id>>, outcome |-> "updated"]
    ELSE [step |-> "add", todo |-> <<>>, outcome |-> "created"]

\* dnspodEnsure and tencentEnsure, which also keep the line of the first record
DnspodEnsure(r, found) == AliyunEnsure(r, found)
TencentEnsure(r, found) == AliyunEnsure(r, found)

\* Mutant: one record is removed.
DeleteFirst(r, found) ==
    LET ids == [n \in DOMAIN Matching(found, r) |-> Matching(found, r)[n].id]
    IN  IF ids = <<>> THEN [step |-> "finish", todo |-> <<>>, outcome |-> "absent"]
        ELSE [step |-> "remove", todo |-> <<ids[1]>>, outcome |-> "deleted"]

\* aliyunDelete: every record of the content
AliyunDelete(r, found) ==
    LET ids == [n \in DOMAIN Matching(found, r) |-> Matching(found, r)[n].id]
    IN  IF ids = <<>> THEN [step |-> "finish", todo |-> <<>>, outcome |-> "absent"]
        ELSE [step |-> "remove", todo |-> ids, outcome |-> "deleted"]

DnspodDelete(r, found) == AliyunDelete(r, found)
TencentDelete(r, found) == AliyunDelete(r, found)

Ensure(r, found) ==
    CASE provider = "aliyun" -> AliyunEnsure(r, found)
      [] provider = "dnspod" -> DnspodEnsure(r, found)
      [] provider = "tencent" -> TencentEnsure(r, found)

DeleteTXT(r, found) ==
    CASE provider = "aliyun" -> AliyunDelete(r, found)
      [] provider = "dnspod" -> DnspodDelete(r, found)
      [] provider = "tencent" -> TencentDelete(r, found)

Decide(r, found) == IF q[r].op = "ensure" THEN Ensure(r, found) ELSE DeleteTXT(r, found)

-----------------------------------------------------------------------------
(* The steps of a request                                                  *)

\* changeDomesticRecord up to the credential; only TXT is deleted
Begin(r, op, type, value) ==
    /\ q[r].step \in {"idle", "done"}
    /\ op = "ensure" \/ type = "TXT"
    /\ q' = [q EXCEPT ![r] = [Idle EXCEPT !.op = op, !.type = type, !.value = value,
                                          !.step = "list"]]
    /\ disturbed' = disturbed \ {r} /\ truncated' = truncated \ {r}
    /\ UNCHANGED <<provider, search, others, zone, nextId, writes>>

Done(r, outcome) ==
    [q EXCEPT ![r].step = "done", ![r].outcome = outcome, ![r].found = <<>>, ![r].todo = <<>>]

(* One page; an answer that is not accepted ends the request.              *)
List(r, answer) ==
    /\ q[r].step = "list" /\ answer \in ListAnswers(r)
    /\ LET found == q[r].found \o SelectSeq(Page(r), LAMBDA rec : SameIdentity(rec, r))
           last == LastPage(r, found, answer)
       IN  IF ~Accepted("list", answer) \/ answer = "coded"
           THEN q' = Done(r, "failed") /\ UNCHANGED truncated
           ELSE IF last \/ q[r].page = PageLimit
           THEN /\ q' = [q EXCEPT ![r] = Decide(r, found) @@ @]
                /\ truncated' = IF last THEN truncated ELSE truncated \cup {r}
           ELSE /\ q' = [q EXCEPT ![r].page = @ + 1, ![r].found = found]
                /\ UNCHANGED truncated
    /\ UNCHANGED <<provider, search, others, zone, nextId, writes, disturbed>>

Wrote(r) ==
    /\ writes < MaxWrites /\ writes' = writes + 1
    /\ disturbed' = disturbed \cup {s \in Requests \ {r} : Active(s)}

(* After a write the request goes on or ends.                              *)
Written(r, answer) ==
    IF ~Accepted("write", answer) THEN q' = Done(r, "failed")
    ELSE IF Len(q[r].todo) > 1 THEN q' = [q EXCEPT ![r].todo = Tail(@)]
    ELSE q' = [q EXCEPT ![r].step = "finish"]

\* A write that the provider does not carry out
Refused(r, answer) ==
    /\ q[r].step \in {"add", "update", "remove"} /\ answer \in WriteAnswers(FALSE)
    /\ Written(r, answer)
    /\ UNCHANGED <<provider, search, others, zone, nextId, writes, disturbed, truncated>>

\* AddDomainRecord, Record.Create, CreateRecord; the form is the provider's choice
Add(r, answer) ==
    /\ q[r].step = "add" /\ answer \in WriteAnswers(TRUE)
    /\ Wrote(r) /\ Written(r, answer)
    /\ \E form \in {"plain", "quoted"} :
          zone' = Append(zone, [id |-> nextId, name |-> Name, type |-> q[r].type,
                                value |-> q[r].value, form |-> form])
    /\ nextId' = nextId + 1
    /\ UNCHANGED <<provider, search, others, truncated>>

Target(r) == {n \in DOMAIN zone : zone[n].id = Head(q[r].todo)}

\* UpdateDomainRecord, Record.Modify, ModifyRecord
Update(r, answer) ==
    /\ q[r].step = "update" /\ Target(r) # {} /\ answer \in WriteAnswers(TRUE)
    /\ Wrote(r) /\ Written(r, answer)
    /\ zone' = [n \in DOMAIN zone |->
                  IF n \in Target(r) THEN [zone[n] EXCEPT !.value = q[r].value, !.form = "plain"]
                  ELSE zone[n]]
    /\ UNCHANGED <<provider, search, others, nextId, truncated>>

\* DeleteDomainRecord, Record.Remove, DeleteRecord
RemoveOne(r, answer) ==
    /\ q[r].step = "remove" /\ Target(r) # {} /\ answer \in WriteAnswers(TRUE)
    /\ Wrote(r) /\ Written(r, answer)
    /\ zone' = SelectSeq(zone, LAMBDA rec : rec.id # Head(q[r].todo))
    /\ UNCHANGED <<provider, search, others, nextId, truncated>>

\* success: the log and the audit, which may fail
Finish(r) ==
    /\ q[r].step = "finish"
    /\ \E outcome \in {q[r].outcome, "failed"} : q' = Done(r, outcome)
    /\ UNCHANGED <<provider, search, others, zone, nextId, writes, disturbed, truncated>>

Init ==
    /\ provider \in Providers /\ search \in {"exact", "loose"}
    /\ others \in SUBSET Strangers
    /\ zone = SetToSortSeq(others, LAMBDA a, b : a.id < b.id)
    /\ nextId = 1 + Cardinality(Strangers) /\ writes = 0
    /\ q = [r \in Requests |-> Idle] /\ disturbed = {} /\ truncated = {}

Next ==
    \E r \in Requests :
        \/ \E op \in {"ensure", "delete"}, type \in Types, value \in Values :
              Begin(r, op, type, value)
        \/ \E answer \in {"ok", "nodata", "refused", "coded", "lost"} :
              \/ List(r, answer) \/ Refused(r, answer)
              \/ Add(r, answer) \/ Update(r, answer) \/ RemoveOne(r, answer)
        \/ Finish(r)

Spec == Init /\ [][Next]_vars

-----------------------------------------------------------------------------
(* Properties                                                              *)

\* Every variable has its type.
TypeOK ==
    /\ provider \in Providers /\ search \in {"exact", "loose"}
    /\ \A n \in DOMAIN zone : zone[n].type \in Types /\ zone[n].form \in {"plain", "quoted"}
    /\ \A n, m \in DOMAIN zone : n # m => zone[n].id # zone[m].id
    /\ writes \in 0..MaxWrites /\ disturbed \subseteq Requests /\ truncated \subseteq Requests

(* A request does what it reports.  When no other request wrote while it   *)
(* ran and its list was complete, the content is there once when Ensure is *)
(* about to report success, however many earlier attempts lost their       *)
(* answer, and nowhere when DeleteTXT is; the provider's quotes and        *)
(* spelling do not hide a record.                                          *)
RecordAsked ==
    \A r \in Requests : q[r].step = "finish" /\ r \notin disturbed \cup truncated =>
        LET there == {n \in DOMAIN zone : /\ zone[n].name = Name /\ zone[n].type = q[r].type
                                          /\ zone[n].value = q[r].value}
        IN  IF q[r].op = "delete" THEN there = {}
            ELSE there # {} /\ (q[r].outcome = "created" => Cardinality(there) = 1)

(* Records that no request is about are left as they are: another name,    *)
(* and a TXT record of the same name with another value (two challenges    *)
(* for one name stand side by side).                                       *)
OthersKept ==
    \A rec \in others :
        rec.name # Name \/ (rec.type = "TXT" /\ rec.value \notin Values) => Contains(zone, rec)
=============================================================================
