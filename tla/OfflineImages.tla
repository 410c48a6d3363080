---------------------------- MODULE OfflineImages ---------------------------
(***************************************************************************)
(* The offline archive service of accelerator-sources                      *)
(* (internal/imagetar/handler.go): a prepared download is a plan under a   *)
(* token that one GET may use before it expires; a download resolves all   *)
(* its images first and then streams one archive, layer by layer, each     *)
(* through a temporary file.  Requests run concurrently.                   *)
(*                                                                         *)
(* An image is what the registry serves for it: the layers its manifest    *)
(* lists and the diff IDs its configuration claims for them.  Diff(l) is   *)
(* the diff ID the bytes of layer l really have.                           *)
(***************************************************************************)
EXTENDS Integers, Sequences, FiniteSets, SequencesExt

CONSTANTS
    Clients,
    Lists,          \* lists of images a request may name
    Layers,         \* image |-> its layers
    Claims,         \* image |-> the diff IDs in its configuration
    Config,         \* image |-> digest of its configuration
    Diff,           \* layer |-> diff ID of its bytes
    MaxImages, MaxPlans, PlanTTL,
    MaxTime, MaxTokens, MaxFaults

VARIABLES
    now,
    plans,      \* token |-> plan
    issued,     \* tokens handed out
    d,          \* the requests
    tmp,        \* temporary files, each with the request it belongs to
    faults,
    streamed    \* how many downloads used a token

vars == <<now, plans, issued, d, tmp, faults, streamed>>

Images == DOMAIN Layers
NoPlan == [images |-> <<>>, keep |-> FALSE, exp |-> 0]
Idle == [pc |-> "idle", images |-> <<>>, keep |-> FALSE, at |-> 0, layer |-> 0,
         verified |-> <<>>, out |-> <<>>]

Fault == faults < MaxFaults /\ faults' = faults + 1

(* expirePlansLocked                                                       *)
Live(ps) == [t \in DOMAIN ps |-> IF ps[t].exp > now THEN ps[t] ELSE NoPlan]
Count(ps) == Cardinality({t \in DOMAIN ps : ps[t] # NoPlan})

\* parsePayload
ValidPayload(images) == Len(images) \in 1..MaxImages

(* prepare: the expired plans go, and a full table refuses.                *)
Prepare(images, keep) ==
    /\ ValidPayload(images) /\ issued < MaxTokens
    /\ LET ps == Live(plans)
       IN  IF Count(ps) >= MaxPlans
           THEN plans' = ps /\ UNCHANGED issued
           ELSE /\ issued' = issued + 1
                /\ plans' = [ps EXCEPT ![issued + 1] = [images |-> images, keep |-> keep,
                                                        exp |-> now + PlanTTL]]
    /\ UNCHANGED <<now, d, tmp, faults, streamed>>

Begin(k, images, keep, head) ==
    d' = [d EXCEPT ![k] = [Idle EXCEPT !.pc = IF head THEN "resolvehead" ELSE "resolve",
                                       !.images = images, !.keep = keep]]

\* Mutant: the plan stays in the table.
DownloadAgain(k, t, head) ==
    /\ d[k] = Idle /\ t <= issued
    /\ plans' = Live(plans)
    /\ IF plans'[t] = NoPlan THEN UNCHANGED <<d, streamed>>
       ELSE /\ Begin(k, plans'[t].images, plans'[t].keep, head)
            /\ streamed' = IF head THEN streamed ELSE [streamed EXCEPT ![t] = @ + 1]
    /\ UNCHANGED <<now, issued, tmp, faults>>

(* downloadPrepared: a HEAD looks, a GET takes the plan with it.           *)
Download(k, t, head) ==
    /\ d[k] = Idle /\ t <= issued
    /\ LET ps == Live(plans)
       IN  /\ plans' = IF head THEN ps ELSE [ps EXCEPT ![t] = NoPlan]
           /\ IF ps[t] = NoPlan THEN UNCHANGED <<d, streamed>>
              ELSE /\ Begin(k, ps[t].images, ps[t].keep, head)
                   /\ streamed' = IF head THEN streamed ELSE [streamed EXCEPT ![t] = @ + 1]
    /\ UNCHANGED <<now, issued, tmp, faults>>

\* /api/offline itself, without a plan
Direct(k, images, keep) ==
    /\ d[k] = Idle /\ ValidPayload(images)
    /\ Begin(k, images, keep, FALSE)
    /\ UNCHANGED <<now, plans, issued, tmp, faults, streamed>>

Abandon(k) == d' = [d EXCEPT ![k] = Idle]

(* resolveImage: the manifest (through the index where there is one), the  *)
(* configuration and their consistency.  It says how many diff IDs there   *)
(* are, not whether they are the right ones.                               *)
Resolvable(i) == Layers[i] # <<>> /\ Len(Claims[i]) = Len(Layers[i])

(* stream: every image is resolved before the first byte is sent; one that *)
(* cannot be is a 502.  Then manifest.json and the configurations, each    *)
(* once, are written.                                                      *)
Resolve(k) ==
    /\ d[k].pc \in {"resolve", "resolvehead"}
    /\ IF \A i \in ToSet(d[k].images) : Resolvable(i)
       THEN \/ /\ IF d[k].pc = "resolvehead" THEN Abandon(k)
                  ELSE d' = [d EXCEPT ![k].pc = "layer", ![k].at = 1, ![k].layer = 1,
                                      ![k].out = <<"manifest.json">> \o
                                          SetToSeq({Config[i] : i \in ToSet(d[k].images)})]
               /\ UNCHANGED faults
            \/ Fault /\ Abandon(k)
       ELSE Abandon(k) /\ UNCHANGED faults
    /\ UNCHANGED <<now, plans, issued, tmp, streamed>>

Image(k) == d[k].images[d[k].at]
Layer(k) == Layers[Image(k)][d[k].layer]
Claim(k) == Claims[Image(k)][d[k].layer]

\* the layer after this one, of this image or of the next
Following(r) ==
    IF r.layer < Len(Layers[r.images[r.at]]) THEN [r EXCEPT !.layer = @ + 1]
    ELSE IF r.at < Len(r.images) THEN [r EXCEPT !.at = @ + 1, !.layer = 1]
    ELSE [r EXCEPT !.pc = "complete"]

\* Mutant: a layer that is there already is not compared with the claim.
ReuseUnseen(k) ==
    /\ d[k].pc = "layer" /\ \E v \in ToSet(d[k].verified) : v.layer = Layer(k)
    /\ d' = [d EXCEPT ![k] = Following(@)]
    /\ UNCHANGED <<now, plans, issued, tmp, faults, streamed>>

(* writeArchive: a layer that an earlier image brought is not written      *)
(* again, but has to be the layer this image claims it to be.              *)
Reuse(k) ==
    /\ d[k].pc = "layer"
    /\ \E v \in ToSet(d[k].verified) :
          /\ v.layer = Layer(k)
          /\ IF v.diff = Claim(k) THEN d' = [d EXCEPT ![k] = Following(@)] ELSE Abandon(k)
    /\ UNCHANGED <<now, plans, issued, tmp, faults, streamed>>

Files(k, keep) == {<<k, "stored">>} \cup (IF keep THEN {<<k, "verify">>} ELSE {})

(* spoolLayer: the blob is fetched into a temporary file; when layers stay *)
(* compressed a second one holds the unpacked tar for the check.           *)
Spool(k) ==
    /\ d[k].pc = "layer" /\ ~\E v \in ToSet(d[k].verified) : v.layer = Layer(k)
    /\ \/ /\ tmp' = tmp \cup Files(k, d[k].keep)
          /\ d' = [d EXCEPT ![k].pc = "spooled"]
          /\ UNCHANGED faults
       \/ Fault /\ Abandon(k) /\ UNCHANGED tmp
    /\ UNCHANGED <<now, plans, issued, streamed>>

\* Mutant: the failing check leaves the files behind.
VerifyLeaves(k) ==
    /\ d[k].pc = "spooled"
    /\ IF Diff[Layer(k)] # Claim(k)
       THEN Abandon(k) /\ UNCHANGED <<tmp, faults>>
       ELSE \/ /\ tmp' = tmp \ {<<k, "verify">>}
               /\ d' = [d EXCEPT ![k].pc = "copy"]
               /\ UNCHANGED faults
            \/ Fault /\ Abandon(k) /\ UNCHANGED tmp
    /\ UNCHANGED <<now, plans, issued, streamed>>

(* The digest, the length and the tar are checked, then the diff ID; any   *)
(* failure removes both files, success removes the one that was only for   *)
(* the check.                                                              *)
Verify(k) ==
    /\ d[k].pc = "spooled"
    /\ IF Diff[Layer(k)] # Claim(k)
       THEN Abandon(k) /\ tmp' = tmp \ Files(k, d[k].keep) /\ UNCHANGED faults
       ELSE \/ /\ tmp' = tmp \ {<<k, "verify">>}
               /\ d' = [d EXCEPT ![k].pc = "copy"]
               /\ UNCHANGED faults
            \/ Fault /\ Abandon(k) /\ tmp' = tmp \ Files(k, d[k].keep)
    /\ UNCHANGED <<now, plans, issued, streamed>>

(* The file is copied into the archive, closed and removed, also when the  *)
(* client is gone; then the response is aborted.                           *)
Copy(k) ==
    /\ d[k].pc = "copy"
    /\ tmp' = tmp \ {<<k, "stored">>}
    /\ \/ /\ d' = [d EXCEPT ![k] = Following([@ EXCEPT
                        !.pc = "layer",
                        !.out = Append(@, Layer(k)),
                        !.verified = Append(@, [layer |-> Layer(k), diff |-> Diff[Layer(k)]])])]
          /\ UNCHANGED faults
       \/ Fault /\ Abandon(k)
    /\ UNCHANGED <<now, plans, issued, streamed>>

Leave(k) ==
    /\ d[k].pc = "complete" /\ Abandon(k)
    /\ UNCHANGED <<now, plans, issued, tmp, faults, streamed>>

Tick ==
    /\ now < MaxTime /\ now' = now + 1
    /\ UNCHANGED <<plans, issued, d, tmp, faults, streamed>>

Init ==
    /\ now = 0 /\ plans = [t \in 1..MaxTokens |-> NoPlan] /\ issued = 0
    /\ d = [k \in Clients |-> Idle] /\ tmp = {} /\ faults = 0
    /\ streamed = [t \in 1..MaxTokens |-> 0]

Next ==
    \/ \E images \in Lists, keep \in BOOLEAN : Prepare(images, keep)
    \/ \E k \in Clients :
          \/ \E t \in 1..MaxTokens, head \in BOOLEAN : Download(k, t, head)
          \/ \E images \in Lists : Direct(k, images, TRUE)
          \/ Resolve(k) \/ Reuse(k) \/ Spool(k) \/ Verify(k) \/ Copy(k) \/ Leave(k)
    \/ Tick

Spec == Init /\ [][Next]_vars

(***************************************************************************)
(* Properties                                                              *)
(***************************************************************************)
\* Every variable has its type.
TypeOK ==
    /\ now \in 0..MaxTime /\ issued \in 0..MaxTokens
    /\ \A k \in Clients : d[k].pc \in {"idle", "resolve", "resolvehead", "layer", "spooled",
                                       "copy", "complete"}
    /\ tmp \subseteq Clients \X {"stored", "verify"}

(* A token is good for one download: however the requests for it overlap,  *)
(* at most one of them gets the archive, and the table stays bounded.      *)
PlanOnce ==
    /\ \A t \in 1..MaxTokens : streamed[t] <= 1
    /\ Count(plans) <= MaxPlans

(* An archive that was sent to the end is what its manifest.json says:     *)
(* every layer an image names is in it once, and is the layer the image's  *)
(* configuration claims, also when another image brought it.               *)
ArchiveTrue ==
    \A k \in Clients : d[k].pc = "complete" =>
        /\ Len(d[k].out) = Cardinality(ToSet(d[k].out))
        /\ \A i \in ToSet(d[k].images) :
              /\ ToSet(Layers[i]) \cup {Config[i]} \subseteq ToSet(d[k].out)
              /\ \A n \in 1..Len(Layers[i]) : Claims[i][n] = Diff[Layers[i][n]]

(* Temporary files belong to a request that is working on a layer: none    *)
(* outlives its request, whichever step fails.                             *)
NoFileLeft == \A f \in tmp : d[f[1]].pc \in {"spooled", "copy"}
=============================================================================
