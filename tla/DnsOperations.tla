--------------------------- MODULE DnsOperations ----------------------------
(***************************************************************************)
(* The operations of the cloudflare-dns service on one zone and one token  *)
(* (service.go): Create, Update, Delete, EnrollToken, RotateToken and the  *)
(* reads TokenStatus, ListZones and ListRecords, with the way they call    *)
(* the host (begin, awaitOwned, Cancel, Close) and what the journal of the *)
(* host says of a change (cloudflare_api.go).                              *)
(*                                                                         *)
(* An operation is a list of host calls.  Every call may be refused before *)
(* it starts, may fail, and may be abandoned: when the caller gives up or  *)
(* the service is cancelled the operation goes on while the host call is   *)
(* still running.  A change carries a stable operation key, under which    *)
(* the host journals it and carries it out once.                           *)
(***************************************************************************)
EXTENDS Integers, Sequences, FiniteSets

CONSTANTS
    Calls,           \* the calls that are made of the service
    Keys,            \* operation keys; a key used twice is a retry
    Kind,            \* the kind of operation a key stands for
    MaxActiveCalls,
    MaxGiveUps       \* bound: callers that give up

VARIABLES
    live,       \* Service.live and rootCtx: "yes", or "no" after Cancel
    close,      \* "no", "waiting", "drained"
    active,     \* the wait group
    slots, hostCalls,   \* entries in the two channels
    o,          \* the calls
    stray,      \* calls whose abandoned host call is still running
    journal,    \* what the host keeps of every key
    applied,    \* keys whose change the provider carried out
    giveUps

vars == <<live, close, active, slots, hostCalls, o, stray, journal, applied, giveUps>>

Changes == {"write", "delete", "enroll", "rotate"}

(* The host calls of an operation in order; "admit" and "finish" only look *)
(* whether the service is still live.  enroll is authorised without the    *)
(* token it is about to store (authorizeBootstrap).                        *)
Authorize == <<"audit", "coarse", "verify", "exact", "admit">>
AuthorizeBootstrap == <<"audit", "coarse", "admit">>
Effect == <<"inspect", "effect", "finish", "ui">>
Finish == <<"log", "terminal">>

WriteCalls == Authorize \o Effect \o Finish
DeleteCalls == Authorize \o Effect \o Finish
EnrollCalls == AuthorizeBootstrap \o Effect \o Finish
RotateCalls == Authorize \o Effect \o Finish
StatusCalls == Authorize \o <<"ui">> \o Finish
ZonesCalls == Authorize \o <<"list", "ui">> \o Finish
RecordsCalls == Authorize \o <<"list">> \o Finish

Program == [write |-> WriteCalls, delete |-> DeleteCalls, enroll |-> EnrollCalls,
            rotate |-> RotateCalls, status |-> StatusCalls, zones |-> ZonesCalls,
            records |-> RecordsCalls]

Idle == [key |-> "none", todo |-> <<>>, running |-> "no", gone |-> "no",
         cause |-> "none", verdict |-> "none", result |-> "none"]

Step(k) == Head(o[k].todo)
In(k) == o[k].todo # <<>>

-----------------------------------------------------------------------------
(* What the journal says: absent, unknown, or the answer of the provider   *)

Applied == {"ok", "other", "malformed", "missing"}

\* Mutant: an error of the provider's servers counts as a refusal.
CommittedUnsure(key) ==
    CASE journal[key] \in {"ok", "other", "missing"} -> "committed"
      [] journal[key] \in {"refused", "server"} -> "failed"
      [] OTHER -> "unknown"

(* committedHostOutcome: a server error, a timeout and a success that does *)
(* not decode leave the outcome unknown.                                   *)
Committed(key) ==
    CASE journal[key] \in {"ok", "other", "missing"} -> "committed"
      [] journal[key] = "refused" -> "failed"
      [] OTHER -> "unknown"

\* hostOperationJournal.Inspect
Inspection(key) ==
    IF journal[key] \in {"absent", "unknown"} THEN journal[key] ELSE Committed(key)

\* cloudflareRecoveredRecordMatches; only a record is compared
Recovered(key) == Kind[key] # "write" \/ journal[key] # "other"

(* What a call with this key ends as at the host: carried out or not, and  *)
(* noted or not.  The second call with a key finds the first one's note.   *)
Answers(key) ==
    IF journal[key] # "absent" THEN {journal[key]}
    ELSE {"ok", "refused", "unknown", "absent"}
            \cup (IF Kind[key] \in {"write", "delete"} THEN {"server", "other", "malformed"} ELSE {})
            \cup (IF Kind[key] = "delete" THEN {"missing"} ELSE {})

\* cloudflareRequest: what a response decodes to
Decoded(answer) ==
    CASE answer \in {"ok", "other"} -> "result"
      [] answer = "missing" -> "notfound"
      [] OTHER -> "error"

\* hostDNS.Create, Update and Delete: another record than the one sent is an error
Accepted(answer) ==
    \/ Decoded(answer) = "result" /\ answer # "other"
    \/ Decoded(answer) = "notfound"

-----------------------------------------------------------------------------
(* begin and awaitOwned                                                    *)

\* checkLive
Live(k) == live = "yes" /\ o[k].gone = "no"

Begin(k, key) ==
    /\ o[k] = Idle /\ live = "yes"
    /\ IF slots < MaxActiveCalls
       THEN /\ slots' = slots + 1 /\ active' = active + 1
            /\ o' = [o EXCEPT ![k].key = key, ![k].todo = Program[Kind[key]]]
       ELSE /\ o' = [o EXCEPT ![k].key = key, ![k].result = "bound"]
            /\ UNCHANGED <<slots, active>>
    /\ UNCHANGED <<live, close, hostCalls, stray, journal, applied, giveUps>>

\* The deferred finish of begin
Leave(k, result) ==
    /\ o' = [o EXCEPT ![k].todo = <<>>, ![k].running = "no", ![k].result = result]
    /\ slots' = slots - 1

Continue(k, todo, verdict, cause) ==
    /\ o' = [o EXCEPT ![k].todo = todo, ![k].running = "no",
                      ![k].verdict = verdict, ![k].cause = cause]
    /\ UNCHANGED slots

\* failRecord and pendingRecord: the log, then the audit
Fail(k, cause) == Continue(k, Finish, "failed", cause)
Pending(k) == Continue(k, Finish, "pending", "none")
Proceed(k) == Continue(k, Tail(o[k].todo), o[k].verdict, o[k].cause)

\* finishMutation, finishDelete and finishToken
Succeed(k) == Continue(k, <<"finish", "ui">> \o Finish, "none", "none")

(* The end of authorize and the start of finishMutation and the others     *)
Check(k) ==
    /\ In(k) /\ Step(k) \in {"admit", "finish"}
    /\ IF Live(k) THEN Proceed(k)
       ELSE IF Kind[o[k].key] = "enroll" /\ Step(k) = "admit" THEN Leave(k, "error")
       ELSE Fail(k, "revoked")
    /\ active' = active - (slots - slots')
    /\ UNCHANGED <<live, close, hostCalls, stray, journal, applied, giveUps>>

(* What checkLive reports.  Cancel ends the contexts a little later than   *)
(* it clears live, so either error may be seen.                            *)
Lost(k) == IF live = "yes" THEN {"cancelled"} ELSE {"cancelled", "revoked"}

(* What a host call that did not come back with an answer means.  err is   *)
(* "revoked", "cancelled", "bound" or "error".                             *)
Failed(k, err) ==
    CASE Step(k) = "audit" -> Leave(k, "error")
      [] Step(k) \in {"coarse", "verify", "exact", "list"} -> Fail(k, Step(k))
      [] Step(k) = "inspect" -> Leave(k, "pending")
      [] Step(k) = "effect" ->
            IF err = "revoked" THEN Fail(k, "revoked")
            ELSE Continue(k, <<"reinspect">> \o Finish, o[k].verdict, o[k].cause)
      [] Step(k) = "reinspect" -> Pending(k)
      [] Step(k) = "ui" ->
            IF Kind[o[k].key] \in Changes
            THEN Continue(k, Finish, "pending", "none") ELSE Fail(k, "ui")
      [] Step(k) = "log" ->
            Continue(k, <<"terminal">>,
                     IF o[k].verdict = "failed" THEN "failed" ELSE "pending", o[k].cause)
      [] Step(k) = "terminal" ->
            Leave(k, IF o[k].verdict = "failed" THEN "failed" ELSE "pending")

\* mutate, Delete, changeToken and rotateToken, before the effect
Inspected(k) ==
    LET key == o[k].key
    IN  CASE Inspection(key) = "absent" -> Proceed(k)
          [] Inspection(key) = "committed" -> IF Recovered(key) THEN Succeed(k) ELSE Pending(k)
          [] Inspection(key) = "failed" -> Fail(k, "dns")
          [] OTHER -> Pending(k)

\* The same after an effect that failed: absent is not known either
Reinspected(k) ==
    LET key == o[k].key
    IN  CASE Inspection(key) = "committed" -> IF Recovered(key) THEN Succeed(k) ELSE Pending(k)
          [] Inspection(key) = "failed" -> Fail(k, "dns")
          [] OTHER -> Pending(k)

\* What a host call that answered means
Answered(k) ==
    CASE Step(k) = "inspect" -> Inspected(k)
      [] Step(k) = "reinspect" -> Reinspected(k)
      [] Step(k) = "effect" -> Succeed(k)
      [] Step(k) = "terminal" -> Leave(k, IF o[k].verdict = "none" THEN "success"
                                          ELSE o[k].verdict)
      [] OTHER -> Proceed(k)

(* awaitOwned: the call is refused when the service is cancelled, the      *)
(* caller is gone or the host calls are all taken, and started otherwise.  *)
Await(k) ==
    /\ In(k) /\ o[k].running = "no" /\ Step(k) \notin {"admit", "finish"}
    /\ IF ~Live(k) \/ hostCalls >= MaxActiveCalls
       THEN /\ \E err \in (IF Live(k) THEN {"bound"} ELSE Lost(k)) : Failed(k, err)
            /\ active' = active - (slots - slots')
            /\ UNCHANGED hostCalls
       ELSE /\ o' = [o EXCEPT ![k].running = "yes"]
            /\ hostCalls' = hostCalls + 1 /\ active' = active + 1
            /\ UNCHANGED slots
    /\ UNCHANGED <<live, close, stray, journal, applied, giveUps>>

(* The host carries out a change; it notes the answer, or cannot tell.     *)
Carry(key, answer) ==
    /\ answer \in Answers(key)
    /\ journal' = [journal EXCEPT ![key] = answer]
    /\ IF journal[key] # "absent" \/ answer \in {"refused", "absent"} THEN UNCHANGED applied
       ELSE IF answer \in Applied THEN applied' = applied \cup {key}
       ELSE applied' \in {applied, applied \cup {key}}

(* The host call returns.  The answer is dropped when the service was      *)
(* cancelled meanwhile; any call may also fail on its way.                 *)
Return(k, answer) ==
    /\ In(k) /\ o[k].running = "yes"
    /\ IF Step(k) = "effect" THEN Carry(o[k].key, answer)
       ELSE answer \in {"ok", "absent"} /\ UNCHANGED <<journal, applied>>
    /\ \/ /\ Live(k) /\ (IF Step(k) = "effect" THEN Accepted(answer) ELSE answer = "ok")
          /\ Answered(k)
       \/ /\ Live(k) /\ (Step(k) = "effect" \/ answer = "absent")
          /\ Failed(k, "error")
       \/ /\ ~Live(k)
          /\ \E err \in Lost(k) : Failed(k, err)
    /\ hostCalls' = hostCalls - 1
    /\ active' = active - 1 - (slots - slots')
    /\ UNCHANGED <<live, close, stray, giveUps>>

\* Mutant: a host call is not waited for once its operation has left it.
AbandonUncounted(k) ==
    /\ In(k) /\ o[k].running = "yes" /\ ~Live(k)
    /\ Failed(k, "cancelled")
    /\ stray' = stray \cup {<<k, Step(k)>>}
    /\ active' = active - 1 - (slots - slots')
    /\ UNCHANGED <<live, close, hostCalls, journal, applied, giveUps>>

(* The caller gives up, or Cancel ends its context: it does not wait for   *)
(* the host call any longer.                                               *)
Abandon(k) ==
    /\ In(k) /\ o[k].running = "yes" /\ ~Live(k)
    /\ Failed(k, "cancelled")
    /\ stray' = stray \cup {<<k, Step(k)>>}
    /\ active' = active - (slots - slots')
    /\ UNCHANGED <<live, close, hostCalls, journal, applied, giveUps>>

\* The goroutine of an abandoned host call ends.
LateReturn(k, step, answer) ==
    /\ <<k, step>> \in stray /\ stray' = stray \ {<<k, step>>}
    /\ IF step = "effect" THEN Carry(o[k].key, answer)
       ELSE answer = "ok" /\ UNCHANGED <<journal, applied>>
    /\ hostCalls' = hostCalls - 1 /\ active' = active - 1
    /\ UNCHANGED <<live, close, slots, o, giveUps>>

\* The context of a caller ends.
GiveUp(k) ==
    /\ In(k) /\ o[k].gone = "no" /\ giveUps < MaxGiveUps
    /\ o' = [o EXCEPT ![k].gone = "yes"] /\ giveUps' = giveUps + 1
    /\ UNCHANGED <<live, close, active, slots, hostCalls, stray, journal, applied>>

\* Cancel and Close; Close returns when the wait group is empty
Cancel ==
    /\ live = "yes" /\ live' = "no" /\ close' = "waiting"
    /\ UNCHANGED <<active, slots, hostCalls, o, stray, journal, applied, giveUps>>

Drained ==
    /\ close = "waiting" /\ active = 0 /\ close' = "drained"
    /\ UNCHANGED <<live, active, slots, hostCalls, o, stray, journal, applied, giveUps>>

Init ==
    /\ live = "yes" /\ close = "no"
    /\ active = 0 /\ slots = 0 /\ hostCalls = 0
    /\ o = [k \in Calls |-> Idle] /\ stray = {}
    /\ journal = [key \in Keys |-> "absent"] /\ applied = {} /\ giveUps = 0

AllAnswers == {"ok", "other", "malformed", "missing", "refused", "server", "unknown", "absent"}

Next ==
    \/ \E k \in Calls :
          \/ \E key \in Keys : Begin(k, key)
          \/ Check(k) \/ Await(k) \/ Abandon(k) \/ GiveUp(k)
          \/ \E answer \in AllAnswers :
                \/ Return(k, answer)
                \/ \E s \in {x[2] : x \in stray} : LateReturn(k, s, answer)
    \/ Cancel \/ Drained

Spec == Init /\ [][Next]_vars

-----------------------------------------------------------------------------
(* Properties                                                              *)

\* Every variable has its type.
TypeOK ==
    /\ live \in {"yes", "no"} /\ close \in {"no", "waiting", "drained"}
    /\ slots \in 0..MaxActiveCalls /\ hostCalls \in 0..MaxActiveCalls /\ active \in Nat
    /\ \A k \in Calls : o[k].result \in {"none", "success", "failed", "pending", "error", "bound"}
    /\ journal \in [Keys -> AllAnswers] /\ applied \subseteq Keys

(* A change is reported as it is.  Whatever was abandoned, retried under   *)
(* the same key or answered late, an operation that reports success was    *)
(* carried out by the provider, and one that is refused with the outcome   *)
(* of the change as the reason was not; everything else is reported as     *)
(* pending.                                                                *)
OutcomeTrue ==
    \A k \in Calls : o[k].key \in Keys /\ Kind[o[k].key] \in Changes =>
        /\ o[k].result = "success" => o[k].key \in applied
        /\ o[k].result = "failed" /\ o[k].cause = "dns" => o[k].key \notin applied

(* When Close has returned, nothing of the service is running any more: no *)
(* operation, and no host call that an operation abandoned and that could  *)
(* still change the zone.  The slots are given back by then.               *)
DrainedQuiet ==
    close = "drained" => /\ stray = {} /\ \A k \in Calls : ~In(k)
                         /\ slots = 0 /\ hostCalls = 0
=============================================================================
