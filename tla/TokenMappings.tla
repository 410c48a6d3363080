---------------------------- MODULE TokenMappings ----------------------------
(***************************************************************************)
(* The domain-to-token mappings of the cloudflare-dns plugin: the requests *)
(* of mapping.go over the mappings in memory, the catalog that             *)
(* applyAndPersist saves, and the secrets and recorded operations of the   *)
(* host's vault.  Requests run concurrently; what one does under           *)
(* service.mu, and every call of the host, is one step.                    *)
(*                                                                         *)
(* The host is external.  Its vault creates a secret once, replaces it     *)
(* only at the expected version, and answers a repeated operation id from  *)
(* its record.  A token is named by the request that brought it.           *)
(***************************************************************************)
EXTENDS Integers, Sequences, FiniteSets

CONSTANTS
    Suffixes,     \* domains as sequences of labels, the top-level one first
    Callers,      \* requests that may run at the same time
    Kinds,        \* requests in use
    Faults,       \* what may fail: "down": a call has no effect, "lost": the answer of the
                  \* vault is lost, "save": the catalog is not saved, "restart"
    MaxMappings,  \* the bound of the catalog
    MaxRequests, MaxFaults

ASSUME SuffixesAssumption == \A s \in Suffixes : Len(s) \in Nat
ASSUME KindsAssumption == Kinds \subseteq {"create", "share", "rename", "rotate", "delete", "resolve"}
ASSUME BoundsAssumption == {MaxMappings, MaxRequests, MaxFaults} \subseteq Nat

VARIABLES
    mem,       \* map: service.mappings by suffix, retired: the last epoch given up by suffix
    disk,      \* the saved catalog
    vault,     \* secrets: [ref, ver, tok]
    journal,   \* outcomes of vault operations: [op, ref, ver]
    req,       \* the running request of every caller
    failed,    \* the last request that ended in an error, None: it succeeded
    gone,      \* secrets whose last mapping was deleted
    torn,      \* secrets of mappings that a create has replaced
    alone,     \* the new request that nothing has disturbed since it began
    requests, faults

vars == <<mem, disk, vault, journal, req, failed, gone, torn, alone, requests, faults>>

None == <<>>

NoMapping == [ref |-> None, ver |-> 0, epoch |-> 0]

\* A reserved suffix has an epoch and no secret.
Configured(m) == m.ref # None

NoRequest == [at |-> "done", kind |-> "none", s |-> None, t |-> None, key |-> 0,
              epoch |-> 0, m |-> NoMapping, prev |-> None, next |-> None, ok |-> TRUE]

NobodyAlone == [p |-> None, kind |-> "none", s |-> None, t |-> None, key |-> 0, behind |-> FALSE]

Empty == [map |-> [s \in Suffixes |-> NoMapping], retired |-> [s \in Suffixes |-> 0]]

Init ==
    /\ mem = Empty /\ disk = Empty
    /\ vault = {} /\ journal = {}
    /\ req = [p \in Callers |-> NoRequest]
    /\ failed = None /\ gone = {} /\ torn = {} /\ alone = NobodyAlone
    /\ requests = 0 /\ faults = 0

Larger(a, b) == IF a >= b THEN a ELSE b

\* retireSuffixLocked: the last epoch given up only grows.
Retire(memory, s, epoch) == [memory EXCEPT !.retired[s] = Larger(@, epoch)]

\* A reservation is dropped; a configured mapping stays.
Release(memory, s) ==
    [memory EXCEPT !.map[s] = IF Configured(@) THEN @ ELSE NoMapping]

SecretRef(s, epoch) == <<s, epoch>>

Secrets(ref) == {v \in vault : v.ref = ref}

Operation(p) == <<req[p].key, req[p].kind, req[p].s, req[p].epoch>>

Outcomes(p) == {o \in journal : o.op = Operation(p)}

At(p, place) == req[p].at = place

\* A fault disturbs every request, a step of p all the others.
Fault(kind) ==
    /\ kind \in Faults
    /\ faults < MaxFaults /\ faults' = faults + 1
    /\ alone' = NobodyAlone

NoFault(p) ==
    /\ alone' = IF alone.p = p THEN alone ELSE NobodyAlone
    /\ UNCHANGED faults

Request(p) == [kind |-> req[p].kind, s |-> req[p].s, t |-> req[p].t, key |-> req[p].key]

Fails(p) ==
    /\ req' = [req EXCEPT ![p] = [NoRequest EXCEPT !.ok = FALSE]]
    /\ failed' = Request(p)

Goes(p, place) == req' = [req EXCEPT ![p].at = place] /\ UNCHANGED failed

-----------------------------------------------------------------------------
(* Beginning a request.                                                    *)

NextMappingEpoch(s) == IF Configured(mem.map[s]) THEN mem.map[s].epoch ELSE mem.retired[s] + 1

MappingEpoch(s) == IF Configured(mem.map[s]) THEN mem.map[s].epoch ELSE 0

First(kind) ==
    CASE kind \in {"create", "rotate"} -> "inspect"
      [] kind = "resolve" -> "lookup"
      [] OTHER -> "apply"

\* The configured suffixes that a domain is under.
Matches(domain) ==
    {s \in Suffixes : Configured(mem.map[s]) /\ Len(s) <= Len(domain) /\ SubSeq(domain, 1, Len(s)) = s}

Versions(m) == {v.ver : v \in Secrets(m.ref)}

\* A request that the mappings it finds allow to succeed.
Allowed(kind, s, t) ==
    CASE kind = "create" -> ~Configured(mem.map[s])
      [] kind = "share" -> ~Configured(mem.map[s]) /\ Configured(mem.map[t])
      [] kind = "rename" -> Configured(mem.map[s]) /\ (s = t \/ ~Configured(mem.map[t]))
      [] kind = "resolve" -> Matches(s) # {}
      [] OTHER -> Configured(mem.map[s])

Begin(p, kind, s, t, key) ==
    LET behind == kind = "rotate" /\ mem.map[s].ver \notin Versions(mem.map[s])
        quiet == \A q \in Callers : At(q, "done")
    IN  /\ At(p, "done")
        /\ req' = [req EXCEPT ![p] =
                [NoRequest EXCEPT !.at = First(kind), !.kind = kind, !.s = s, !.t = t, !.key = key,
                                  !.epoch = IF kind \in {"create", "share"} THEN NextMappingEpoch(s) ELSE MappingEpoch(s)]]
        /\ failed' = None
        /\ alone' = IF key > requests /\ quiet /\ Allowed(kind, s, t)
                    THEN [p |-> p, kind |-> kind, s |-> s, t |-> t, key |-> key, behind |-> behind]
                    ELSE NobodyAlone
        /\ UNCHANGED <<mem, disk, vault, journal, gone, torn, faults>>

\* Every request of the page has an operation key of its own.
New(p, kind, s, t) ==
    /\ requests < MaxRequests /\ requests' = requests + 1
    /\ kind \notin {"share", "rename"} => t = s
    /\ Begin(p, kind, s, t, requests + 1)

\* A failed request is repeated with its operation key.
Again(p) ==
    /\ failed # None
    /\ requests < MaxRequests /\ requests' = requests + 1
    /\ Begin(p, failed.kind, failed.s, failed.t, failed.key)

-----------------------------------------------------------------------------
(* Vault calls.                                                            *)

Metadata(p, o) == [ref |-> o.ref, ver |-> o.ver, epoch |-> req[p].epoch]

Holding(p, place, m) ==
    /\ req' = [req EXCEPT ![p].at = place, ![p].m = m]
    /\ UNCHANGED failed

\* The outcome of the operation decides whether there is anything left to do.
Inspect(p) ==
    /\ At(p, "inspect")
    /\ LET current == mem.map[req[p].s]
           rotates == req[p].kind = "rotate"
       IN  \/ /\ rotates /\ ~Configured(current)
              /\ Fails(p) /\ NoFault(p)
           \/ /\ rotates => Configured(current)
              /\ \E o \in Outcomes(p) :
                   IF rotates /\ o.ref # current.ref THEN Fails(p)
                   ELSE Holding(p, IF rotates THEN "apply" ELSE "replay", Metadata(p, o))
              /\ NoFault(p)
           \/ /\ rotates => Configured(current)
              /\ Outcomes(p) = {}
              /\ Holding(p, IF rotates THEN "rotate" ELSE "reserve", current)
              /\ NoFault(p)
           \/ Fault("down") /\ Fails(p)
    /\ UNCHANGED <<mem, disk, vault, journal, gone, torn, requests>>

Used == {s \in Suffixes : mem.map[s] # NoMapping}

Room(s) == s \in Used \/ Cardinality(Used) < MaxMappings

\* reserveMapping: only a configured mapping is a conflict.
Reserve(p) ==
    /\ At(p, "reserve")
    /\ LET s == req[p].s
       IN  IF Configured(mem.map[s]) \/ ~Room(s)
           THEN Fails(p) /\ UNCHANGED mem
           ELSE /\ mem' = [mem EXCEPT !.map[s] = [NoMapping EXCEPT !.epoch = req[p].epoch]]
                /\ Goes(p, "enroll")
    /\ NoFault(p)
    /\ UNCHANGED <<disk, vault, journal, gone, torn, requests>>

Record(p, ref, ver) ==
    /\ vault' = (vault \ Secrets(ref)) \cup {[ref |-> ref, ver |-> ver, tok |-> req[p].key]}
    /\ journal' = journal \cup {[op |-> Operation(p), ref |-> ref, ver |-> ver]}

Refuses(p) ==
    /\ mem' = Release(mem, req[p].s)
    /\ Goes(p, "refused")

\* Vault.Enroll for the epoch of the attempt; an error drops the reservation.
Enroll(p) ==
    /\ At(p, "enroll")
    /\ LET ref == SecretRef(req[p].s, req[p].epoch)
           exists == Secrets(ref) # {}
       IN  \/ /\ ~exists /\ Record(p, ref, 1)
              /\ Holding(p, "apply", [ref |-> ref, ver |-> 1, epoch |-> req[p].epoch])
              /\ NoFault(p) /\ UNCHANGED mem
           \/ /\ exists /\ Refuses(p)
              /\ NoFault(p) /\ UNCHANGED <<vault, journal>>
           \/ /\ Fault("down") /\ Refuses(p)
              /\ UNCHANGED <<vault, journal>>
           \/ /\ ~exists /\ Fault("lost") /\ Record(p, ref, 1) /\ Refuses(p)
             
    /\ UNCHANGED <<disk, gone, torn, requests>>

\* Mutant: an epoch whose secret exists is not given up.
RefusedGivesUp(p) ==
    /\ At(p, "refused")
    /\ \/ \E o \in Outcomes(p) : Holding(p, "replay", Metadata(p, o))
       \/ Outcomes(p) = {} /\ Fails(p)
    /\ NoFault(p)
    /\ UNCHANGED <<mem, disk, vault, journal, gone, torn, requests>>

\* A secret that exists and is not the work of this operation retires the epoch.
Refused(p) ==
    /\ At(p, "refused")
    /\ LET s == req[p].s
           exists == Secrets(SecretRef(s, req[p].epoch)) # {}
       IN  \/ /\ \E o \in Outcomes(p) : Holding(p, "replay", Metadata(p, o))
              /\ NoFault(p) /\ UNCHANGED mem
           \/ /\ Outcomes(p) = {} /\ exists
              /\ mem' = Release(Retire(mem, s, req[p].epoch), s)
              /\ Goes(p, "next") /\ NoFault(p)
           \/ /\ Outcomes(p) = {} /\ ~exists
              /\ Fails(p) /\ NoFault(p) /\ UNCHANGED mem
           \/ /\ Outcomes(p) = {} /\ exists /\ Fault("down")
              /\ Fails(p) /\ UNCHANGED mem
    /\ UNCHANGED <<disk, vault, journal, gone, torn, requests>>

\* The next attempt of createMapping.
NextEpoch(p) ==
    /\ At(p, "next")
    /\ req' = [req EXCEPT ![p].at = "inspect", ![p].epoch = NextMappingEpoch(req[p].s)]
    /\ NoFault(p)
    /\ UNCHANGED <<mem, disk, vault, journal, failed, gone, torn, requests>>

\* Vault.Rotate at the version of the mapping.  The host's vault names no reason when it
\* refuses, so the retry of a stale version is never taken.
Rotate(p) ==
    /\ At(p, "rotate")
    /\ LET m == req[p].m
           current == m.ver \in Versions(m)
           rotated == [m EXCEPT !.ver = @ + 1]
       IN  \/ /\ current /\ Record(p, m.ref, rotated.ver)
              /\ Holding(p, "apply", rotated)
              /\ NoFault(p)
           \/ /\ ~current /\ Fails(p)
              /\ NoFault(p) /\ UNCHANGED <<vault, journal>>
           \/ /\ Fault("down") /\ Fails(p) /\ UNCHANGED <<vault, journal>>
           \/ /\ current /\ Fault("lost") /\ Record(p, m.ref, rotated.ver)
              /\ Fails(p)
    /\ UNCHANGED <<mem, disk, gone, torn, requests>>

-----------------------------------------------------------------------------
(* applyAndPersist: catalogMu is held from the change of the memory to the *)
(* answer of the save.                                                     *)

Locked == \E p \in Callers : req[p].at \in {"save", "saveReplay"}

\* Mutant: only the mapping that was asked for gets the new version.
ApplyRotatedOne(s, m) == [mem EXCEPT !.map[s].ver = m.ver]

\* applyRotatedMapping: every mapping of the secret gets the new version.
ApplyRotated(s, m) ==
    [mem EXCEPT !.map = [x \in Suffixes |-> IF @[x].ref = m.ref THEN [@[x] EXCEPT !.ver = m.ver] ELSE @[x]]]

ApplyRename(s, t) ==
    IF s = t THEN mem
    ELSE [Retire(mem, s, mem.map[s].epoch) EXCEPT !.map[s] = NoMapping, !.map[t] = mem.map[s]]

ApplyShare(s, t, epoch) ==
    IF Configured(mem.map[s]) THEN mem ELSE [mem EXCEPT !.map[s] = [mem.map[t] EXCEPT !.epoch = epoch]]

ApplyDelete(s) == [Retire(mem, s, mem.map[s].epoch) EXCEPT !.map[s] = NoMapping]

\* Mutant: a mapping given up meanwhile is no obstacle.
ReplayAnyway(p) == TRUE

\* finishCommittedMapping: the mapping was not given up meanwhile.
Replayable(p) == Configured(mem.map[req[p].s]) \/ mem.retired[req[p].s] < req[p].epoch

\* What apply checks and what it makes of the memory.
Applicable(p) ==
    LET s == req[p].s
        t == req[p].t
    IN  CASE At(p, "replay") -> Replayable(p)
          [] At(p, "apply") /\ req[p].kind = "create" -> TRUE
          [] req[p].kind = "rotate" -> mem.map[s].ref = req[p].m.ref
          [] req[p].kind = "rename" -> Configured(mem.map[s]) /\ (s = t \/ ~Configured(mem.map[t]))
          [] req[p].kind = "delete" -> Configured(mem.map[s])
          [] req[p].kind = "share" ->
                /\ Configured(mem.map[t])
                /\ Configured(mem.map[s]) => mem.map[s].ref = mem.map[t].ref
                /\ Room(s)

Applied(p) ==
    LET s == req[p].s
    IN  CASE At(p, "replay") -> mem
          [] At(p, "apply") /\ req[p].kind = "create" -> [mem EXCEPT !.map[s] = req[p].m]
          [] req[p].kind = "rotate" -> ApplyRotated(s, req[p].m)
          [] req[p].kind = "rename" -> ApplyRename(s, req[p].t)
          [] req[p].kind = "delete" -> ApplyDelete(s)
          [] req[p].kind = "share" -> ApplyShare(s, req[p].t, req[p].epoch)

\* Mutant: the snapshot has the reservations too.
SnapshotAll(memory) == memory

\* catalogSnapshotLocked: configured mappings only.
Snapshot(memory) ==
    [memory EXCEPT !.map = [s \in Suffixes |-> IF Configured(@[s]) THEN @[s] ELSE NoMapping]]

Apply(p) ==
    /\ req[p].at \in {"replay", "apply"} /\ ~Locked
    /\ IF Applicable(p)
       THEN /\ mem' = Applied(p)
            /\ req' = [req EXCEPT ![p].at = IF @ = "replay" THEN "saveReplay" ELSE "save",
                                  ![p].prev = mem, ![p].next = Snapshot(Applied(p))]
            /\ UNCHANGED failed
       ELSE Fails(p) /\ UNCHANGED mem
    /\ NoFault(p)
    /\ UNCHANGED <<disk, vault, journal, gone, torn, requests>>

\* The mappings that the change has configured or altered.
Changed(prev, next) == {s \in Suffixes : Configured(next.map[s]) /\ next.map[s] # prev.map[s]}

\* Mutant: the memory keeps a change that was not saved.
RestoredNot(prev, next) == mem

\* The memory before the change, with the epochs of the change given up.
Restored(prev, next) ==
    LET changed == Changed(prev, next)
    IN  [map |-> [s \in Suffixes |-> IF s \in changed /\ ~Configured(prev.map[s]) THEN NoMapping ELSE prev.map[s]],
         retired |-> [s \in Suffixes |-> IF s \in changed THEN Larger(prev.retired[s], next.map[s].epoch)
                                         ELSE prev.retired[s]]]

Refs(memory) == {memory.map[s].ref : s \in Suffixes} \ {None}

Succeeds(p) ==
    /\ req' = [req EXCEPT ![p] = NoRequest]
    /\ UNCHANGED failed

\* storeMapping replaces whatever mapping the suffix has by now.
Replaced(p) ==
    LET s == req[p].s
        old == req[p].prev.map[s].ref
    IN  IF At(p, "save") /\ req[p].kind = "create" /\ req[p].next.map[s].ref # old THEN {old} \ {None} ELSE {}

\* The request ends after its save; when the event or the audit of the success is refused
\* it reports an error although it is done.
Save(p) ==
    /\ req[p].at \in {"save", "saveReplay"}
    /\ LET next == req[p].next
           stores == At(p, "saveReplay") /\ ~Configured(next.map[req[p].s])
       IN  \/ /\ disk' = next
              /\ gone' = IF req[p].kind = "delete" THEN gone \cup (Refs(disk) \ Refs(next)) ELSE gone
              /\ torn' = torn \cup Replaced(p)
              /\ \/ stores /\ Goes(p, "apply") /\ NoFault(p)
                 \/ ~stores /\ Succeeds(p) /\ NoFault(p)
                 \/ ~stores /\ Fault("down") /\ Fails(p)
              /\ UNCHANGED mem
           \/ /\ Fault("save") /\ Fails(p)
              /\ mem' = Restored(req[p].prev, next)
              /\ UNCHANGED <<disk, gone, torn>>
    /\ UNCHANGED <<vault, journal, requests>>

-----------------------------------------------------------------------------
(* ResolveToken.                                                           *)

\* lookupStored: the longest configured suffix of the domain.
LookupStored(domain) == CHOOSE s \in Matches(domain) : \A x \in Matches(domain) : Len(x) <= Len(s)

Lookup(p) ==
    /\ At(p, "lookup")
    /\ IF Matches(req[p].s) = {} THEN Fails(p)
       ELSE Holding(p, "reveal", mem.map[LookupStored(req[p].s)])
    /\ NoFault(p)
    /\ UNCHANGED <<mem, disk, vault, journal, gone, torn, requests>>

Reveal(p) ==
    /\ At(p, "reveal")
    /\ \/ Secrets(req[p].m.ref) # {} /\ Succeeds(p) /\ NoFault(p)
       \/ Secrets(req[p].m.ref) = {} /\ Fails(p) /\ NoFault(p)
       \/ Fault("down") /\ Fails(p)
    /\ UNCHANGED <<mem, disk, vault, journal, gone, torn, requests>>

-----------------------------------------------------------------------------
\* The service is closed and constructed again from the saved catalog.
Restart ==
    /\ Fault("restart")
    /\ mem' = disk
    /\ \E p \in Callers : ~At(p, "done") /\ failed' = Request(p)
    /\ req' = [p \in Callers |-> [NoRequest EXCEPT !.ok = FALSE]]
    /\ UNCHANGED <<disk, vault, journal, gone, torn, requests>>

Next ==
    \/ \E p \in Callers, kind \in Kinds, s, t \in Suffixes : New(p, kind, s, t)
    \/ \E p \in Callers :
         \/ Again(p) \/ Inspect(p) \/ Reserve(p) \/ Enroll(p) \/ Refused(p) \/ NextEpoch(p)
         \/ Rotate(p) \/ Apply(p) \/ Save(p) \/ Lookup(p) \/ Reveal(p)
    \/ Restart

Spec == Init /\ [][Next]_vars

-----------------------------------------------------------------------------
Mappings == [ref : {None} \cup (Suffixes \X (1 .. MaxRequests)), ver : 0 .. MaxRequests, epoch : 0 .. MaxRequests]

\* A configured mapping has a version and an epoch; the catalog has no reservation.
TypeOK ==
    /\ mem.map \in [Suffixes -> Mappings] /\ mem.retired \in [Suffixes -> 0 .. MaxRequests]
    /\ \A s \in Suffixes : mem.map[s].ver > 0 <=> Configured(mem.map[s])
    /\ \A s \in Suffixes : Configured(disk.map[s]) \/ disk.map[s] = NoMapping
    /\ \A v \in vault : Secrets(v.ref) = {v}
    /\ Cardinality({p \in Callers : req[p].at \in {"save", "saveReplay"}}) <= 1

\* Every mapping in memory or in the catalog has its secret in the vault, whatever create,
\* save or restart has failed.
Enrolled == \A memory \in {mem, disk} : \A ref \in Refs(memory) : Secrets(ref) # {}

\* Mappings that share a secret agree on its version: a rotation reaches all of them, however
\* it meets a share, a rename, a failed save or a restart.  Left out are the secrets of
\* mappings that a create has replaced: storeMapping does not give up the replaced epoch, so
\* that the create that made it may be repeated.
SharedVersion ==
    \A memory \in {mem, disk} : \A s, t \in Suffixes :
        memory.map[s].ref = memory.map[t].ref /\ memory.map[s].ref \notin torn
            => memory.map[s].ver = memory.map[t].ver

\* Every mapping has its secret in the vault, and mappings that share a secret agree on its
\* version, whatever create, share, rotation, save or restart has failed.
SecretsTrue == Enrolled /\ SharedVersion

\* Between two saves the catalog holds the mappings in use: a mapping whose save failed is
\* not served, and one that was dropped comes back.
DiskFollows == ~Locked => disk.map = Snapshot(mem).map

\* A secret whose last mapping was deleted is not mapped again by a late request, with the
\* same exception.
DeletedStays == \A memory \in {mem, disk} : Refs(memory) \cap gone \subseteq torn

\* What a request that succeeded has brought about.
Effective ==
    LET m == mem.map[alone.s]
    IN  CASE alone.kind \in {"create", "rotate"} ->
                Configured(m) /\ \E v \in Secrets(m.ref) : v.tok = alone.key
          [] alone.kind = "delete" -> ~Configured(m)
          [] alone.kind = "rename" -> Configured(mem.map[alone.t])
          [] alone.kind = "share" -> m.ref = mem.map[alone.t].ref
          [] OTHER -> TRUE

Ended == alone.p # None /\ At(alone.p, "done")

\* Whatever failed before, a new request that the mappings allow and that nothing disturbs
\* succeeds, and its token is the one in use.
Undisturbed == Ended /\ ~alone.behind => req[alone.p].ok /\ Effective

\* The same for the rotation of a mapping that is behind the version of its secret.
RotateHeals == Ended /\ alone.behind => req[alone.p].ok /\ Effective
=============================================================================
