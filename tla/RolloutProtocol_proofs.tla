----------------------- MODULE RolloutProtocol_proofs -----------------------
(***************************************************************************)
(* Rollouts: their types, for every configuration, and the layers of the   *)
(* invariant behind an HTTP rule, with the executor that the interface in  *)
(* rollout.go describes; for every finite set of workers and images and    *)
(* every number of operations, failed or late calls and crashes.           *)
(*                                                                         *)
(* That tokens and instances stay within their ranges takes an argument:   *)
(* an operation takes at most one lease and starts at most one instance,   *)
(* so what was given out, with what the workers may still ask for, is no   *)
(* more than the operations begun (Counted).                               *)
(*                                                                         *)
(* None of the other properties is inductive, and the argument has two     *)
(* layers.  Protocol is the fencing protocol: a worker's copy of the record*)
(* is the present one as long as the version has not changed, tokens of    *)
(* holders differ, and a holder that has called the executor is either the *)
(* latest one or refused by it.  So whoever the executor accepts, or whose *)
(* write is applied, knows the record (ReadIsPresent, WriterAlone).        *)
(* Content says what the record promises of the instances (Sound), what    *)
(* the executor keeps of itself (HostSound) and what an accepted holder    *)
(* knows at its label (Session); overtaken holders owe nothing but Reading.*)
(*                                                                         *)
(* Steps are of four shapes: a call of the executor, a compare-and-swap,   *)
(* a write that takes a lease, and the begin of an operation.  One lemma   *)
(* for each shape says what is left to show.                               *)
(***************************************************************************)
EXTENDS Rollout, FiniteSetTheorems, TLAPS

USE SMTT(30), ZenonT(30) DEF Outcomes

\* Instances and tokens, of which an operation takes at most one each.
Ids == 0 .. MaxOps + 1

AnyImage == Images \cup {NoImage}

\* What the executor keeps.
Host ==
    [img : [Insts -> AnyImage], route : Ids, cand : Ids, fence : Ids,
     drained : SUBSET Insts, served : SUBSET Insts, last : Ids]

\* Where a worker is before it holds a lease, and where it is afterwards.
PreLease ==
    {"idle", "lease", "takeover", "histInspect", "histLease", "histForget", "republish",
     "remember", "seedLease"}

Holding ==
    {"pull", "starting", "start", "readiness", "ready", "cutover", "cut", "draining", "drain",
     "activate", "undo", "undoRoute", "inspect", "adopt", "redrain", "confirm", "complete",
     "recut", "cleanup", "remove", "settle", "restore", "tombstone", "release", "histRestore",
     "histCut", "histDrain", "histCommit", "histAbort", "histAbortRoute", "histCutBack",
     "histReactivate", "seed"}

\* The local variables of an operation.
Worker ==
    [pc : PreLease \cup Holding, r : Record, img : AnyImage, pend : Ids,
     obs : [route : Ids, cand : Ids, up : SUBSET Insts], orig : Record]

\* TypeOK with the ranges of the workers' variables.
Types ==
    /\ rec \in Record
    /\ fences \in Ids
    /\ host \in Host
    /\ w \in [Workers -> Worker]
    /\ ops \in 0 .. MaxOps
    /\ faults \in Nat
    /\ crashes \in Nat

\* The workers at the labels of L.
Count(L) == Cardinality({q \in Workers : w[q].pc \in L})

\* Labels from which an operation may still take its lease, and from which it may still
\* start its instance.
ToLease ==
    {"lease", "takeover", "histInspect", "histLease", "histForget", "republish", "remember",
     "seedLease"}

ToStart == {"lease", "histInspect", "histForget", "republish", "pull", "starting", "start"}

\* The tokens and instances that were given out and those that may still be asked for.
Counted ==
    /\ fences + Count(ToLease) <= ops + 1
    /\ host.last + Count(ToStart) <= ops + 1

\* The step of one worker changes a count by its own label only.
LEMMA CountStep ==
    ASSUME NEW L, NEW p \in Workers, w \in [Workers -> Worker],
           \A q \in Workers : q # p => w'[q] = w[q]
    PROVE  /\ Count(L) \in Nat
           /\ Count(L)' = Count(L) - (IF w[p].pc \in L THEN 1 ELSE 0)
                                   + (IF w'[p].pc \in L THEN 1 ELSE 0)
<1> DEFINE S == {q \in Workers : w[q].pc \in L}
           T == {q \in Workers : w'[q].pc \in L}
<1>1. IsFiniteSet(S) /\ IsFiniteSet(T)
  BY Zenon, FS_Subset, WorkersAssumption
<1>2. Cardinality(S) \in Nat /\ Cardinality(T) \in Nat
  BY Zenon, <1>1, FS_CardinalityType
<1>3. S \ {p} = T \ {p}
  OBVIOUS
<1>4. Cardinality(S \ {p}) = IF p \in S THEN Cardinality(S) - 1 ELSE Cardinality(S)
  BY Zenon, <1>1, FS_RemoveElement
<1>5. Cardinality(T \ {p}) = IF p \in T THEN Cardinality(T) - 1 ELSE Cardinality(T)
  BY Zenon, <1>1, FS_RemoveElement
<1>6. (p \in S <=> w[p].pc \in L) /\ (p \in T <=> w'[p].pc \in L)
  OBVIOUS
<1>7. Count(L) = Cardinality(S) /\ Count(L)' = Cardinality(T)
  BY Zenon DEF Count
<1> HIDE DEF S, T
<1>8. Cardinality(T) = Cardinality(S) - (IF p \in S THEN 1 ELSE 0) + (IF p \in T THEN 1 ELSE 0)
  BY <1>2, <1>3, <1>4, <1>5
<1> QED
  BY Zenon, <1>2, <1>6, <1>7, <1>8

LEMMA CountPositive ==
    ASSUME NEW L, NEW p \in Workers
    PROVE  Count(L) \in Nat /\ (w[p].pc \in L => Count(L) > 0)
<1> DEFINE S == {q \in Workers : w[q].pc \in L}
<1>1. IsFiniteSet(S)
  BY Zenon, FS_Subset, WorkersAssumption
<1>2. Cardinality(S) \in Nat /\ (Cardinality(S) = 0 <=> S = {})
  BY Zenon, <1>1, FS_CardinalityType, FS_EmptySet
<1> QED
  BY <1>2 DEF Count

-----------------------------------------------------------------------------
(* Types.                                                                  *)

USE BoundsAssumption DEF Ids, AnyImage, Insts

LEMMA EmptyTypes == Empty \in Record /\ IdleWorker \in Worker
  BY DEF Empty, Record, IdleWorker, Worker, NoRev, NoObs, PreLease

\* What the calls of the store and of the executor leave behind is well-typed.
LEMMA SwapTypes ==
    ASSUME Types, NEW p \in Workers, NEW value \in Record, NEW oc \in Outcomes,
           CompareAndSwap(p, value, oc)
    PROVE  rec' \in Record /\ faults' \in Nat /\ fences' = fences
<1>1. w[p].r.ver + 1 \in Nat /\ w[p].r.fence \in Ids
  BY DEF Types, Worker, Record
<1>2. \A lease \in {value.lease, rec.lease} :
        [value EXCEPT !.ver = w[p].r.ver + 1, !.fence = w[p].r.fence, !.lease = lease] \in Record
  BY Zenon, <1>1 DEF Types, Record
<1>3. rec' \in Record
  BY Zenon, <1>2 DEF CompareAndSwap, Write, Types
<1> QED
  BY <1>3 DEF CompareAndSwap, Write, Fault, Types

LEMMA LeaseTypes ==
    ASSUME Types, NEW p \in Workers, NEW value \in Record, NEW oc \in Outcomes,
           AcquireLease(p, value, oc), fences <= MaxOps
    PROVE  rec' \in Record /\ faults' \in Nat /\ fences' \in Ids /\ fences' <= fences + 1
<1>1. w[p].r.ver + 1 \in Nat /\ fences + 1 \in Ids
  BY DEF Types, Worker, Record
<1>2. [value EXCEPT !.ver = w[p].r.ver + 1, !.fence = fences + 1, !.lease = "held"] \in Record
  BY Zenon, <1>1 DEF Record
<1>3. rec' \in Record
  BY Zenon, <1>2 DEF AcquireLease, Write, Types
<1> QED
  BY <1>1, <1>3 DEF AcquireLease, Write, Fault, Types

LEMMA DeleteTypes ==
    ASSUME Types, NEW p \in Workers, NEW oc \in Outcomes, DeleteCAS(p, oc)
    PROVE  rec' \in Record /\ faults' \in Nat /\ fences' \in Ids /\ fences' <= fences
  BY EmptyTypes DEF DeleteCAS, Write, Fault, Types

LEMMA CallTypes ==
    ASSUME Types, NEW p \in Workers, NEW able, NEW effect \in Host, NEW oc \in Outcomes,
           CallIf(p, able, effect, oc)
    PROVE  /\ host' \in Host /\ faults' \in Nat
           /\ host'.last = IF oc = "fail" THEN host.last ELSE effect.last
<1>1. w[p].r.fence \in Ids
  BY Zenon DEF Types, Worker, Record
<1>2. /\ faults' \in Nat
      /\ \E after \in {host, effect} :
            /\ after = (IF oc = "fail" THEN host ELSE effect)
            /\ host' \in {after, [after EXCEPT !.fence = w[p].r.fence]}
  BY DEF CallIf, Types, Fault
<1>3. PICK after \in {host, effect} :
            /\ after = (IF oc = "fail" THEN host ELSE effect)
            /\ host' \in {after, [after EXCEPT !.fence = w[p].r.fence]}
  BY Zenon, <1>2
<1>4. after \in Host
  BY Zenon DEF Types
<1>5. [after EXCEPT !.fence = w[p].r.fence] \in Host
  BY Zenon, <1>1, <1>4 DEF Host
<1>6. [after EXCEPT !.fence = w[p].r.fence].last = after.last
  BY Zenon, <1>4 DEF Host
<1> QED
  BY Zenon, <1>2, <1>3, <1>4, <1>5, <1>6

Weight(label, L) == IF label \in L THEN 1 ELSE 0

\* A worker's step keeps the types and the counts if what it adds to a counter is covered by
\* the operation it begins or by the label it leaves.
LEMMA WorkerKeepsTypes ==
    ASSUME Types, Counted, NEW p \in Workers, NEW next \in Worker, w' = [w EXCEPT ![p] = next],
           rec' \in Record, host' \in Host, fences' \in Ids, faults' \in Nat, crashes' = crashes,
           ops' \in 0 .. MaxOps,
           fences' - fences + Weight(next.pc, ToLease) - Weight(w[p].pc, ToLease) <= ops' - ops,
           host'.last - host.last + Weight(next.pc, ToStart) - Weight(w[p].pc, ToStart)
                <= ops' - ops
    PROVE  Types' /\ Counted'
<1>1. w' \in [Workers -> Worker] /\ w'[p] = next /\ \A q \in Workers : q # p => w'[q] = w[q]
  BY Zenon DEF Types
<1>2. /\ Count(ToLease) \in Nat /\ Count(ToStart) \in Nat
      /\ Count(ToLease)' = Count(ToLease) - Weight(w[p].pc, ToLease) + Weight(next.pc, ToLease)
      /\ Count(ToStart)' = Count(ToStart) - Weight(w[p].pc, ToStart) + Weight(next.pc, ToStart)
  <2>1. w \in [Workers -> Worker]
    BY Zenon DEF Types
  <2> QED
    BY Zenon, <1>1, <2>1, CountStep DEF Weight
<1>3. Types'
  BY Zenon, <1>1 DEF Types
<1>4. host.last \in Nat /\ host'.last \in Nat /\ ops \in Nat /\ ops' \in Nat /\ fences \in Nat
      /\ fences' \in Nat
  BY <1>3 DEF Types, Host
<1>5. /\ Weight(next.pc, ToLease) \in Nat /\ Weight(w[p].pc, ToLease) \in Nat
      /\ Weight(next.pc, ToStart) \in Nat /\ Weight(w[p].pc, ToStart) \in Nat
  BY Zenon DEF Weight
<1>6. Counted'
  BY <1>2, <1>4, <1>5 DEF Counted
<1> QED
  BY Zenon, <1>3, <1>6

\* Before its lease and before its Start, an operation has room below the bounds.
LEMMA Room ==
    ASSUME Types, Counted, NEW p \in Workers
    PROVE  /\ w[p].pc \in ToLease => fences <= MaxOps
           /\ w[p].pc \in ToStart => host.last <= MaxOps
<1>1. w \in [Workers -> Worker] /\ ops \in 0 .. MaxOps /\ host.last \in Nat /\ fences \in Nat
  BY DEF Types, Host
<1>2. /\ Count(ToLease) \in Nat /\ Count(ToStart) \in Nat
      /\ w[p].pc \in ToLease => Count(ToLease) > 0
      /\ w[p].pc \in ToStart => Count(ToStart) > 0
  BY Zenon, <1>1, CountPositive
<1> QED
  BY <1>1, <1>2 DEF Counted

\* A compare-and-swap after which the worker ends or goes on at label.
LEMMA SwapKeepsTypes ==
    ASSUME Types, Counted, NEW p \in Workers, NEW value \in Record, NEW oc \in Outcomes,
           NEW label \in Holding \cup {"republish"},
           CompareAndSwap(p, value, oc),
           label \in ToStart => w[p].pc \in ToStart,
           label \in ToLease => w[p].pc \in ToLease,
           \/ Finish(p) \/ Wrote(p, label) \/ Goto(p, label),
           UNCHANGED <<host, ops, crashes>>
    PROVE  Types' /\ Counted'
<1>1. rec' \in Record /\ faults' \in Nat /\ fences' = fences
  BY Zenon, SwapTypes
<1>2. PICK next \in {IdleWorker, [w[p] EXCEPT !.pc = label, !.r = rec'], [w[p] EXCEPT !.pc = label]} :
        w' = [w EXCEPT ![p] = next]
  BY Zenon DEF Finish, Wrote, Goto, Become
<1>3. w[p] \in Worker
  BY Zenon DEF Types
<1>4. next \in Worker /\ next.pc \in {"idle", label}
  <2>1. /\ [w[p] EXCEPT !.pc = label, !.r = rec'] \in Worker
        /\ [w[p] EXCEPT !.pc = label, !.r = rec'].pc = label
    BY Zenon, <1>1, <1>3 DEF Worker, PreLease
  <2>2. [w[p] EXCEPT !.pc = label] \in Worker /\ [w[p] EXCEPT !.pc = label].pc = label
    BY Zenon, <1>3 DEF Worker, PreLease
  <2>3. IdleWorker \in Worker /\ IdleWorker.pc = "idle"
    BY Zenon, EmptyTypes DEF IdleWorker
  <2> QED
    BY Zenon, <2>1, <2>2, <2>3
<1>5. /\ fences' - fences + Weight(next.pc, ToLease) - Weight(w[p].pc, ToLease) <= ops' - ops
      /\ host'.last - host.last + Weight(next.pc, ToStart) - Weight(w[p].pc, ToStart) <= ops' - ops
  <2>1. /\ Weight(next.pc, ToLease) <= Weight(w[p].pc, ToLease)
        /\ Weight(next.pc, ToStart) <= Weight(w[p].pc, ToStart)
        /\ Weight(next.pc, ToLease) \in Nat /\ Weight(w[p].pc, ToLease) \in Nat
        /\ Weight(next.pc, ToStart) \in Nat /\ Weight(w[p].pc, ToStart) \in Nat
    BY <1>4 DEF Weight, ToLease, ToStart
  <2>2. host.last \in Nat /\ ops \in Nat /\ fences \in Nat
    BY DEF Types, Host
  <2> QED
    BY <1>1, <2>1, <2>2
<1>6. rec' \in Record /\ host' \in Host /\ fences' \in Ids /\ faults' \in Nat /\ crashes' = crashes
      /\ ops' \in 0 .. MaxOps
  BY Zenon, <1>1 DEF Types
<1> QED
  BY Zenon, <1>2, <1>4, <1>5, <1>6, WorkerKeepsTypes

\* A conditional write that ends the operation.
LEMMA SwapFinishes ==
    ASSUME Types, Counted, NEW p \in Workers, NEW value \in Record, NEW oc \in Outcomes,
           CompareAndSwap(p, value, oc), Finish(p), UNCHANGED <<host, ops, crashes>>
    PROVE  Types' /\ Counted'
<1>1. "seed" \in Holding \cup {"republish"} /\ "seed" \notin ToStart /\ "seed" \notin ToLease
  BY Zenon DEF Holding, ToStart, ToLease
<1> QED
  BY Zenon, <1>1, SwapKeepsTypes

\* A write that takes a lease.
LEMMA LeaseKeepsTypes ==
    ASSUME Types, Counted, NEW p \in Workers, NEW value \in Record, NEW oc \in Outcomes,
           NEW label \in Holding, label \in ToStart => w[p].pc \in ToStart,
           w[p].pc \in ToLease, AcquireLease(p, value, oc),
           \/ Finish(p) \/ Wrote(p, label),
           UNCHANGED <<host, ops, crashes>>
    PROVE  Types' /\ Counted'
<1>1. rec' \in Record /\ faults' \in Nat /\ fences' \in Ids /\ fences' <= fences + 1
  BY Zenon, LeaseTypes, Room
<1>2. PICK next \in {IdleWorker, [w[p] EXCEPT !.pc = label, !.r = rec']} : w' = [w EXCEPT ![p] = next]
  BY Zenon DEF Finish, Wrote, Become
<1>3. next \in Worker /\ next.pc \in {"idle", label}
  <2>1. /\ [w[p] EXCEPT !.pc = label, !.r = rec'] \in Worker
        /\ [w[p] EXCEPT !.pc = label, !.r = rec'].pc = label
    BY Zenon, <1>1 DEF Worker, Types
  <2>2. IdleWorker \in Worker /\ IdleWorker.pc = "idle"
    BY Zenon, EmptyTypes DEF IdleWorker
  <2> QED
    BY Zenon, <2>1, <2>2
<1>4. /\ fences' - fences + Weight(next.pc, ToLease) - Weight(w[p].pc, ToLease) <= ops' - ops
      /\ host'.last - host.last + Weight(next.pc, ToStart) - Weight(w[p].pc, ToStart) <= ops' - ops
  <2>1. /\ Weight(next.pc, ToLease) = 0 /\ Weight(w[p].pc, ToLease) = 1
        /\ Weight(next.pc, ToStart) <= Weight(w[p].pc, ToStart)
        /\ Weight(next.pc, ToStart) \in Nat /\ Weight(w[p].pc, ToStart) \in Nat
    BY <1>3 DEF Weight, ToLease, ToStart, Holding
  <2>2. host.last \in Nat /\ ops \in Nat /\ fences \in Nat /\ fences' \in Nat
    BY <1>1 DEF Types, Host
  <2> QED
    BY <1>1, <2>1, <2>2
<1>5. host' \in Host /\ crashes' = crashes /\ ops' \in 0 .. MaxOps
  BY Zenon DEF Types
<1> QED
  BY Zenon, <1>1, <1>2, <1>3, <1>4, <1>5, WorkerKeepsTypes

\* The deletion of a record.
LEMMA DeleteKeepsTypes ==
    ASSUME Types, Counted, NEW p \in Workers, NEW oc \in Outcomes, DeleteCAS(p, oc), Finish(p),
           UNCHANGED <<host, ops, crashes>>
    PROVE  Types' /\ Counted'
<1>1. rec' \in Record /\ faults' \in Nat /\ fences' \in Ids /\ fences' <= fences
  BY Zenon, DeleteTypes
<1>2. w' = [w EXCEPT ![p] = IdleWorker] /\ IdleWorker \in Worker
  BY Zenon, EmptyTypes DEF Finish, Become
<1>3. /\ fences' - fences + Weight(IdleWorker.pc, ToLease) - Weight(w[p].pc, ToLease) <= ops' - ops
      /\ host'.last - host.last + Weight(IdleWorker.pc, ToStart) - Weight(w[p].pc, ToStart)
            <= ops' - ops
  <2>1. /\ Weight(IdleWorker.pc, ToLease) = 0 /\ Weight(w[p].pc, ToLease) \in Nat
        /\ Weight(IdleWorker.pc, ToStart) = 0 /\ Weight(w[p].pc, ToStart) \in Nat
    BY Zenon DEF Weight, ToLease, ToStart, IdleWorker
  <2>2. host.last \in Nat /\ ops \in Nat /\ fences \in Nat /\ fences' \in Nat
    BY <1>1 DEF Types, Host
  <2> QED
    BY <1>1, <2>1, <2>2
<1>4. host' \in Host /\ crashes' = crashes /\ ops' \in 0 .. MaxOps
  BY Zenon DEF Types
<1> QED
  BY Zenon, <1>1, <1>2, <1>3, <1>4, WorkerKeepsTypes

\* A call of the executor after which the worker is next.
LEMMA CallKeepsTypes ==
    ASSUME Types, Counted, NEW p \in Workers, NEW able, NEW effect \in Host, NEW oc \in Outcomes,
           NEW next \in Worker, CallIf(p, able, effect, oc), w' = [w EXCEPT ![p] = next],
           Weight(next.pc, ToLease) <= Weight(w[p].pc, ToLease),
           Weight(next.pc, ToStart) <= Weight(w[p].pc, ToStart),
           effect.last + Weight(next.pc, ToStart) <= host.last + Weight(w[p].pc, ToStart),
           UNCHANGED <<rec, fences, ops, crashes>>
    PROVE  Types' /\ Counted'
<1>1. /\ host' \in Host /\ faults' \in Nat
      /\ host'.last = IF oc = "fail" THEN host.last ELSE effect.last
  BY Zenon, CallTypes
<1>2. rec' \in Record /\ fences' \in Ids /\ crashes' = crashes /\ ops' \in 0 .. MaxOps
  BY Zenon DEF Types
<1>3. /\ fences' - fences + Weight(next.pc, ToLease) - Weight(w[p].pc, ToLease) <= ops' - ops
      /\ host'.last - host.last + Weight(next.pc, ToStart) - Weight(w[p].pc, ToStart) <= ops' - ops
  <2>1. /\ Weight(next.pc, ToLease) \in Nat /\ Weight(w[p].pc, ToLease) \in Nat
        /\ Weight(next.pc, ToStart) \in Nat /\ Weight(w[p].pc, ToStart) \in Nat
    BY Zenon DEF Weight
  <2>2. host.last \in Nat /\ effect.last \in Nat /\ ops \in Nat /\ fences \in Nat
    BY DEF Types, Host
  <2> QED
    BY <1>1, <2>1, <2>2
<1> QED
  BY Zenon, <1>1, <1>2, <1>3, WorkerKeepsTypes

\* A call that starts nothing, after which the worker goes on at label.
LEMMA GotoKeepsTypes ==
    ASSUME Types, Counted, NEW p \in Workers, NEW able, NEW effect \in Host, NEW oc \in Outcomes,
           NEW label \in PreLease \cup Holding, CallIf(p, able, effect, oc), Goto(p, label),
           label \in ToStart => w[p].pc \in ToStart,
           label \in ToLease => w[p].pc \in ToLease,
           effect.last = host.last,
           UNCHANGED <<rec, fences, ops, crashes>>
    PROVE  Types' /\ Counted'
<1> DEFINE next == [w[p] EXCEPT !.pc = label]
<1>1. next \in Worker /\ next.pc = label
  BY DEF Types, Worker
<1>2. w' = [w EXCEPT ![p] = next]
  BY Zenon DEF Goto, Become
<1> HIDE DEF next
<1>3. /\ Weight(next.pc, ToLease) <= Weight(w[p].pc, ToLease)
      /\ Weight(next.pc, ToStart) <= Weight(w[p].pc, ToStart)
      /\ Weight(next.pc, ToStart) \in Nat /\ Weight(w[p].pc, ToStart) \in Nat
  BY <1>1 DEF Weight
<1>4. host.last \in Nat
  BY DEF Types, Host
<1>5. effect.last + Weight(next.pc, ToStart) <= host.last + Weight(w[p].pc, ToStart)
  BY <1>3, <1>4
<1> QED
  BY Zenon, <1>1, <1>2, <1>3, <1>5, CallKeepsTypes

LEMMA EffectTypes ==
    ASSUME Types
    PROVE  /\ Inspect \in [route : Ids, cand : Ids, up : SUBSET Insts]
           /\ \A n \in Ids : Drain(n) \in Host /\ Drain(n).last = host.last
           /\ \A n \in Ids : Remove(n) \in Host /\ Remove(n).last = host.last
           /\ host.last <= MaxOps => \A image \in AnyImage :
                /\ Start(image) \in Host /\ Start(image).last <= host.last + 1
<1>1. host \in Host
  BY Zenon DEF Types
<1>2. Inspect \in [route : Ids, cand : Ids, up : SUBSET Insts]
  BY <1>1 DEF Inspect, Up, Host
<1>3. ASSUME NEW n \in Ids PROVE Drain(n) \in Host /\ Drain(n).last = host.last
  <2> DEFINE drained == host.drained \cup ({n} \ {0})
  <2>1. drained \in SUBSET Insts
    BY <1>1 DEF Host
  <2>2. Drain(n) \in {host, [host EXCEPT !.drained = drained]}
    BY Zenon, <1>1 DEF Drain, Host
  <2> HIDE DEF drained
  <2> QED
    BY Zenon, <1>1, <2>1, <2>2 DEF Host
<1>4. ASSUME NEW n \in Ids PROVE Remove(n) \in Host /\ Remove(n).last = host.last
  <2> DEFINE img == [host.img EXCEPT ![n] = NoImage]
             cand == IF host.cand = n THEN 0 ELSE host.cand
             drained == host.drained \ {n}
  <2>1. cand \in Ids /\ drained \in SUBSET Insts
    BY <1>1 DEF Host
  <2>3. img \in [Insts -> AnyImage]
    BY Zenon, <1>1 DEF Host
  <2>2. Remove(n) \in {host, [host EXCEPT !.img = img, !.cand = cand, !.drained = drained]}
    BY Zenon, <1>1 DEF Remove, Host
  <2> HIDE DEF img, cand, drained
  <2> QED
    BY Zenon, <1>1, <2>1, <2>2, <2>3 DEF Host
<1>5. ASSUME host.last <= MaxOps, NEW image \in AnyImage
      PROVE  Start(image) \in Host /\ Start(image).last <= host.last + 1
  <2> DEFINE n == IF Node THEN 1 ELSE host.last + 1
  <2>1. n \in Insts /\ n \in Ids /\ n <= host.last + 1
    BY <1>1, <1>5 DEF Host
  <2> DEFINE img == [host.img EXCEPT ![n] = image]
             drained == host.drained \ {n}
  <2>2. img \in [Insts -> AnyImage] /\ drained \in SUBSET Insts
    BY Zenon, <1>1 DEF Host
  <2>3. Start(image) = [host EXCEPT !.img = img, !.cand = n, !.last = n, !.drained = drained]
    BY Zenon, <1>1 DEF Start, Host
  <2> HIDE DEF n, img, drained
  <2> QED
    BY Zenon, <1>1, <2>1, <2>2, <2>3 DEF Host
<1> QED
  BY Zenon, <1>2, <1>3, <1>4, <1>5

\* A Cutover is a call of this kind whatever instance it is given.
LEMMA CutoverCalls ==
    ASSUME Types, NEW p \in Workers, NEW n, NEW oc \in Outcomes, CallCutover(p, n, oc)
    PROVE  \E able, effect : effect \in Host /\ effect.last = host.last /\ CallIf(p, able, effect, oc)
<1>1. host \in Host
  BY Zenon DEF Types
<1>2. CASE ~HasRule
  BY Zenon, <1>1, <1>2 DEF CallCutover, Call
<1>3. CASE HasRule /\ n \in Insts
  <2> DEFINE served == host.served \cup {n}
             drained == host.drained \ {n}
             cand == IF host.cand = n THEN 0 ELSE host.cand
             effect == [host EXCEPT !.route = n, !.served = served, !.drained = drained,
                                    !.cand = cand]
  <2>1. n \in Ids /\ served \in SUBSET Insts /\ drained \in SUBSET Insts /\ cand \in Ids
    BY <1>1, <1>3 DEF Host
  <2>2. CallIf(p, n \in Up, effect, oc)
    BY Zenon, <1>1, <1>3 DEF CallCutover, Host
  <2> HIDE DEF served, drained, cand
  <2>3. effect \in Host /\ effect.last = host.last
    BY Zenon, <1>1, <2>1 DEF Host
  <2> QED
    BY Zenon, <2>2, <2>3
<1>4. CASE HasRule /\ n \notin Insts
  <2>1. n \notin Up
    BY Zenon, <1>4 DEF Up
  <2>2. CallIf(p, n \in Up, host, oc)
    BY Zenon, <1>4, <2>1 DEF CallCutover, CallIf
  <2> QED
    BY Zenon, <1>1, <2>2
<1> QED
  BY Zenon, <1>2, <1>3, <1>4

Revision == [inst : Ids, img : AnyImage]

LEMMA WorkerTypes ==
    ASSUME Types, NEW p \in Workers
    PROVE  /\ w[p] \in Worker /\ w[p].r \in Record /\ w[p].orig \in Record
           /\ w[p].pend \in Ids /\ w[p].img \in AnyImage
           /\ w[p].obs.cand \in Ids /\ w[p].obs.up \in SUBSET Insts
           /\ w[p].r.inst \in Ids /\ w[p].r.pend \in Ids /\ w[p].r.priorInst \in Ids
           /\ w[p].r.img \in AnyImage /\ w[p].r.priorImg \in AnyImage /\ w[p].r.hist \in Revision
           /\ w[p].orig.inst \in Ids
  BY DEF Types, Worker, Record, Revision

LEMMA ActiveTypes ==
    ASSUME NEW inst \in Ids, NEW image \in AnyImage, NEW hist \in Revision
    PROVE  Active(inst, image, hist) \in Record
  BY Zenon, EmptyTypes DEF Active, Record, Revision

LEMMA HistoryTypes ==
    ASSUME NEW r \in Record
    PROVE  PublishedHistory(r) \in Revision
  BY Zenon DEF PublishedHistory, Record, Revision

LEMMA DecideTypes ==
    ASSUME NEW r, NEW obs
    PROVE  Decide(r, obs) \in Holding \ ToStart
  BY Zenon DEF Decide, RestorePrior, Holding, ToStart

\* The steps of a publish keep the types and the counts.
LEMMA PublishingTypes ==
    ASSUME Types, Counted, NEW p \in Workers, NEW oc \in Outcomes, Publishing(p, oc)
    PROVE  Types' /\ Counted'
<1> DEFINE r == w[p].r
<1>t. /\ w[p] \in Worker /\ r \in Record /\ w[p].pend \in Ids /\ w[p].img \in AnyImage
      /\ r.inst \in Ids /\ r.priorInst \in Ids /\ r.img \in AnyImage /\ r.hist \in Revision
      /\ host \in Host
  BY Zenon, WorkerTypes DEF Types
<1>1. CASE PublishLease(p, oc)
  <2> DEFINE value == [Empty EXCEPT !.phase = "pulling", !.inst = r.inst, !.img = w[p].img,
                         !.priorInst = r.inst, !.priorImg = r.img, !.hist = r.hist]
  <2>1. value \in Record
    BY Zenon, <1>t, EmptyTypes DEF Record, Revision
  <2>2. AcquireLease(p, value, oc) /\ (Finish(p) \/ Wrote(p, "pull"))
        /\ UNCHANGED <<host, ops, crashes>> /\ w[p].pc = "lease"
    BY Zenon, <1>1 DEF PublishLease, At
  <2> HIDE DEF value
  <2> QED
    BY Zenon, <2>1, <2>2, LeaseKeepsTypes DEF Holding, ToLease, ToStart
<1>2. CASE PublishPull(p, oc)
  BY Zenon, <1>2, <1>t, GotoKeepsTypes DEF PublishPull, At, Call, Holding, ToLease, ToStart
<1>3. ASSUME NEW label, NEW phase \in {"starting", "readiness", "cutover", "draining"},
             NEW next \in Holding, next \in ToStart => label \in ToStart,
             Intent(p, label, phase, next, oc)
      PROVE  Types' /\ Counted'
  <2> DEFINE value == [r EXCEPT !.phase = phase, !.pend = w[p].pend]
  <2>1. value \in Record
    BY Zenon, <1>t DEF Record
  <2>2. CompareAndSwap(p, value, oc) /\ (Finish(p) \/ Wrote(p, next))
        /\ UNCHANGED <<host, ops, crashes>> /\ w[p].pc = label
    BY Zenon, <1>3 DEF Intent, At
  <2>3. next \notin ToLease
    BY Zenon DEF Holding, ToLease
  <2> HIDE DEF value
  <2> QED
    BY Zenon, <1>3, <2>1, <2>2, <2>3, SwapKeepsTypes
<1>4. CASE IntentStarting(p, oc) \/ IntentReadiness(p, oc) \/ IntentCutover(p, oc)
           \/ IntentDraining(p, oc)
  BY <1>4, <1>3 DEF IntentStarting, IntentReadiness, IntentCutover, IntentDraining, Holding, ToStart
<1>5. CASE PublishStart(p, oc)
  <2>1. w[p].pc = "start" /\ host.last <= MaxOps
    BY Zenon, <1>5, Room DEF PublishStart, At, ToStart
  <2>2. Start(w[p].img) \in Host /\ Start(w[p].img).last <= host.last + 1
    BY Zenon, <1>t, <2>1, EffectTypes
  <2>3. CallIf(p, TRUE, Start(w[p].img), oc) /\ UNCHANGED <<rec, fences, ops, crashes>>
    BY Zenon, <1>5 DEF PublishStart, Call
  <2>4. host'.last \in Ids
    <3>1. host' \in Host
      BY Zenon, <2>2, <2>3, CallTypes
    <3> QED
      BY Zenon, <3>1 DEF Host
  <2>5. /\ [w[p] EXCEPT !.pc = "readiness", !.pend = host'.last] \in Worker
        /\ [w[p] EXCEPT !.pc = "undo"] \in Worker
        /\ [w[p] EXCEPT !.pc = "readiness", !.pend = host'.last].pc = "readiness"
        /\ [w[p] EXCEPT !.pc = "undo"].pc = "undo"
    BY ZenonT(40), <1>t, <2>4 DEF Worker, Holding
  <2>6. PICK next \in Worker : next.pc \in {"readiness", "undo"} /\ w' = [w EXCEPT ![p] = next]
    BY Zenon, <1>5, <2>5 DEF PublishStart, Goto, Become
  <2>7. /\ Weight(next.pc, ToLease) = 0 /\ Weight(w[p].pc, ToLease) = 0
        /\ Weight(next.pc, ToStart) = 0 /\ Weight(w[p].pc, ToStart) = 1
    BY Zenon, <2>1, <2>6 DEF Weight, ToLease, ToStart
  <2>8. /\ Weight(next.pc, ToLease) <= Weight(w[p].pc, ToLease)
        /\ Weight(next.pc, ToStart) <= Weight(w[p].pc, ToStart)
        /\ Start(w[p].img).last + Weight(next.pc, ToStart) <= host.last + Weight(w[p].pc, ToStart)
    BY <1>t, <2>2, <2>7 DEF Host
  <2> QED
    BY Zenon, <2>2, <2>3, <2>6, <2>8, CallKeepsTypes
<1>6. CASE PublishReady(p, oc)
  BY ZenonT(40), <1>6, <1>t, GotoKeepsTypes DEF PublishReady, At, Call, Holding, ToLease, ToStart
<1>7. CASE PublishCutover(p, oc)
  <2>1. PICK able, effect : effect \in Host /\ effect.last = host.last /\ CallIf(p, able, effect, oc)
    BY Zenon, <1>7, CutoverCalls DEF PublishCutover
  <2> QED
    BY <1>7, <2>1, GotoKeepsTypes DEF PublishCutover, Holding, ToLease, ToStart
<1>8. CASE PublishDrain(p, oc)
  <2>1. CASE r.priorImg = NoImage
    <3> DEFINE next == [w[p] EXCEPT !.pc = "activate"]
    <3>1. next \in Worker /\ next.pc = "activate" /\ w' = [w EXCEPT ![p] = next] /\ w[p].pc = "drain"
      BY <1>8, <1>t, <2>1 DEF PublishDrain, Goto, Become, At, Worker, Holding
    <3> HIDE DEF next
    <3>2. /\ Weight(next.pc, ToLease) = 0 /\ Weight(w[p].pc, ToLease) = 0
          /\ Weight(next.pc, ToStart) = 0 /\ Weight(w[p].pc, ToStart) = 0
      BY Zenon, <3>1 DEF Weight, ToLease, ToStart
    <3>3. UNCHANGED <<rec, fences, host, ops, faults, crashes>>
      BY Zenon, <1>8, <2>1 DEF PublishDrain
    <3>4. /\ rec' \in Record /\ host' \in Host /\ fences' \in Ids /\ faults' \in Nat
          /\ crashes' = crashes /\ ops' \in 0 .. MaxOps
      BY Zenon, <3>3 DEF Types
    <3>5. /\ fences' - fences + Weight(next.pc, ToLease) - Weight(w[p].pc, ToLease) <= ops' - ops
          /\ host'.last - host.last + Weight(next.pc, ToStart) - Weight(w[p].pc, ToStart)
                <= ops' - ops
      BY <3>2, <3>3 DEF Types, Host
    <3> QED
      BY Zenon, <3>1, <3>4, <3>5, WorkerKeepsTypes
  <2>2. CASE r.priorImg # NoImage
    <3>1. PICK label \in {"activate", "undoRoute"} : Goto(p, label)
      BY Zenon, <1>8 DEF PublishDrain
    <3>2. CallIf(p, TRUE, Drain(r.priorInst), oc) /\ UNCHANGED <<rec, fences, ops, crashes>>
      BY Zenon, <1>8, <2>2 DEF PublishDrain, Call
    <3>3. Drain(r.priorInst) \in Host /\ Drain(r.priorInst).last = host.last
      BY Zenon, <1>t, EffectTypes
    <3> QED
      BY Zenon, <3>1, <3>2, <3>3, GotoKeepsTypes DEF Holding, ToLease, ToStart
  <2> QED
    BY Zenon, <2>1, <2>2
<1>9. CASE PublishActivate(p, oc)
  <2>1. Active(w[p].pend, r.img, PublishedHistory(r)) \in Record
    BY Zenon, <1>t, ActiveTypes, HistoryTypes
  <2>2. CompareAndSwap(p, Active(w[p].pend, r.img, PublishedHistory(r)), oc) /\ Finish(p)
        /\ UNCHANGED <<host, ops, crashes>>
    BY Zenon, <1>9 DEF PublishActivate
  <2> QED
    BY Zenon, <2>1, <2>2, SwapFinishes
<1>10. CASE AbandonStalePublish(p, oc)
  BY Zenon, <1>10, DeleteKeepsTypes DEF AbandonStalePublish
<1>11. CASE PublishUndo(p, oc)
  <2>1. \A phase \in {"cleanup-pending", "route-reconcile"} :
          [r EXCEPT !.phase = phase, !.pend = w[p].pend] \in Record
    BY Zenon, <1>t DEF Record
  <2>2. PICK phase \in {"cleanup-pending", "route-reconcile"} :
          CompareAndSwap(p, [r EXCEPT !.phase = phase, !.pend = w[p].pend], oc)
    BY Zenon, <1>11 DEF PublishUndo
  <2>3. (Finish(p) \/ Wrote(p, "inspect")) /\ UNCHANGED <<host, ops, crashes>>
    BY Zenon, <1>11 DEF PublishUndo
  <2>4. "inspect" \in Holding \cup {"republish"} /\ "inspect" \notin ToLease /\ "inspect" \notin ToStart
    BY Zenon DEF Holding, ToLease, ToStart
  <2> QED
    BY Zenon, <2>1, <2>2, <2>3, <2>4, SwapKeepsTypes
<1> QED
  BY Zenon, <1>1, <1>2, <1>4, <1>5, <1>6, <1>7, <1>8, <1>9, <1>10, <1>11 DEF Publishing

\* So do the steps of a reconcile,
LEMMA ReconcilingTypes ==
    ASSUME Types, Counted, NEW p \in Workers, NEW oc \in Outcomes, Reconciling(p, oc)
    PROVE  Types' /\ Counted'
<1> DEFINE r == w[p].r
<1>t. /\ w[p] \in Worker /\ r \in Record /\ r.pend \in Ids /\ r.priorInst \in Ids
      /\ r.img \in AnyImage /\ r.priorImg \in AnyImage /\ r.hist \in Revision
      /\ w[p].obs.cand \in Ids /\ host \in Host
  BY Zenon, WorkerTypes DEF Types
<1>1. CASE ReconcileLease(p, oc)
  BY ZenonT(40), <1>1, <1>t, LeaseKeepsTypes DEF ReconcileLease, At, Holding, ToLease, ToStart
<1>2. CASE ReconcileInspect(p, oc)
  <2>1. PICK label \in Holding \ ToStart, obs \in {Inspect, w[p].obs} :
          w' = [w EXCEPT ![p] = [w[p] EXCEPT !.pc = label, !.obs = obs]]
    <3>1. \A label : [w[p] EXCEPT !.pc = label]
                       = [w[p] EXCEPT !.pc = label, !.obs = w[p].obs]
      BY Zenon, <1>t DEF Worker
    <3>2. {"adopt", "release"} \subseteq Holding \ ToStart
      BY Zenon DEF Holding, ToStart
    <3>3. Decide(r, Inspect) \in Holding \ ToStart
      BY Zenon, DecideTypes
    <3> QED
      BY ZenonT(40), <1>2, <3>1, <3>2, <3>3 DEF ReconcileInspect, Goto, Become
  <2>2. obs \in [route : Ids, cand : Ids, up : SUBSET Insts]
    BY Zenon, <1>t, EffectTypes DEF Worker
  <2> DEFINE next == [w[p] EXCEPT !.pc = label, !.obs = obs]
  <2>3. next \in Worker /\ next.pc = label
    BY Zenon, <1>t, <2>2 DEF Worker
  <2>4. w' = [w EXCEPT ![p] = next] /\ w[p].pc = "inspect"
    BY Zenon, <1>2, <2>1 DEF ReconcileInspect, At
  <2> HIDE DEF next
  <2>5. label \notin ToLease \cup ToStart
    BY Zenon DEF Holding, ToLease
  <2>6. /\ Weight(next.pc, ToLease) = 0 /\ Weight(w[p].pc, ToLease) = 0
        /\ Weight(next.pc, ToStart) = 0 /\ Weight(w[p].pc, ToStart) = 0
    BY Zenon, <2>3, <2>4, <2>5 DEF Weight, ToLease, ToStart
  <2>7. /\ Weight(next.pc, ToLease) <= Weight(w[p].pc, ToLease)
        /\ Weight(next.pc, ToStart) <= Weight(w[p].pc, ToStart)
        /\ host.last + Weight(next.pc, ToStart) <= host.last + Weight(w[p].pc, ToStart)
    BY <1>t, <2>6 DEF Host
  <2>8. CallIf(p, TRUE, host, oc) /\ UNCHANGED <<rec, fences, ops, crashes>>
    BY Zenon, <1>2 DEF ReconcileInspect, Call
  <2> QED
    BY Zenon, <1>t, <2>3, <2>4, <2>7, <2>8, CallKeepsTypes
<1>3. CASE ReconcileAdopt(p, oc)
  <2>1. [r EXCEPT !.pend = w[p].obs.cand] \in Record
    BY Zenon, <1>t DEF Record
  <2>2. PICK label \in Holding \ ToStart : Finish(p) \/ Wrote(p, label)
    BY Zenon, <1>3, DecideTypes DEF ReconcileAdopt
  <2>3. CompareAndSwap(p, [r EXCEPT !.pend = w[p].obs.cand], oc) /\ UNCHANGED <<host, ops, crashes>>
    BY Zenon, <1>3 DEF ReconcileAdopt
  <2>4. label \notin ToLease
    BY Zenon DEF Holding, ToLease
  <2> QED
    BY Zenon, <2>1, <2>2, <2>3, <2>4, SwapKeepsTypes
<1>4. CASE ReconcileDrain(p, oc)
  <2>1. PICK label \in {"confirm", "release"} : Goto(p, label)
    BY Zenon, <1>4 DEF ReconcileDrain
  <2>2. CallIf(p, TRUE, Drain(r.priorInst), oc) /\ UNCHANGED <<rec, fences, ops, crashes>>
    BY Zenon, <1>4 DEF ReconcileDrain, Call
  <2>3. Drain(r.priorInst) \in Host /\ Drain(r.priorInst).last = host.last
    BY Zenon, <1>t, EffectTypes
  <2> QED
    BY Zenon, <2>1, <2>2, <2>3, GotoKeepsTypes DEF Holding, ToLease, ToStart
<1>5. CASE ReconcileConfirm(p, oc)
  BY Zenon, <1>5, <1>t, GotoKeepsTypes DEF ReconcileConfirm, At, Call, Holding, ToLease, ToStart
<1>6. CASE ReconcileComplete(p, oc)
  <2>1. Active(r.pend, r.img, PublishedHistory(r)) \in Record
    BY Zenon, <1>t, ActiveTypes, HistoryTypes
  <2>2. CompareAndSwap(p, Active(r.pend, r.img, PublishedHistory(r)), oc) /\ Finish(p)
        /\ UNCHANGED <<host, ops, crashes>>
    BY Zenon, <1>6 DEF ReconcileComplete
  <2> QED
    BY Zenon, <2>1, <2>2, SwapFinishes
<1>7. CASE ReconcileRecut(p, oc)
  <2>1. PICK able, effect : effect \in Host /\ effect.last = host.last /\ CallIf(p, able, effect, oc)
    BY Zenon, <1>7, CutoverCalls DEF ReconcileRecut
  <2> QED
    BY <1>7, <2>1, GotoKeepsTypes DEF ReconcileRecut, Holding, ToLease, ToStart
<1>8. CASE ReconcileCleanup(p, oc)
  <2>1. [r EXCEPT !.phase = "cleanup-pending"] \in Record
    BY Zenon, <1>t DEF Record
  <2> QED
    BY <1>8, <2>1, SwapKeepsTypes DEF ReconcileCleanup, Holding, ToLease, ToStart
<1>9. CASE ReconcileRemove(p, oc)
  <2>1. PICK label \in {"settle", "release"} : Goto(p, label)
    BY Zenon, <1>9 DEF ReconcileRemove
  <2>2. CallIf(p, TRUE, Remove(r.pend), oc) /\ UNCHANGED <<rec, fences, ops, crashes>>
    BY Zenon, <1>9 DEF ReconcileRemove, Call
  <2>3. Remove(r.pend) \in Host /\ Remove(r.pend).last = host.last
    BY Zenon, <1>t, EffectTypes
  <2> QED
    BY Zenon, <2>1, <2>2, <2>3, GotoKeepsTypes DEF Holding, ToLease, ToStart
<1>10. CASE ReconcileSettle(p, oc)
  <2>1. PICK label \in {"release", "tombstone", "restore"} : Goto(p, label)
    BY Zenon, <1>10 DEF ReconcileSettle
  <2>2. CallIf(p, TRUE, host, oc) /\ UNCHANGED <<rec, fences, ops, crashes>>
    BY Zenon, <1>10 DEF ReconcileSettle, Call
  <2> QED
    BY ZenonT(40), <1>t, <2>1, <2>2, GotoKeepsTypes DEF Holding, ToLease, ToStart
<1>11. CASE ReconcileRestore(p, oc)
  <2>1. Active(r.priorInst, r.priorImg, r.hist) \in Record
    BY Zenon, <1>t, ActiveTypes
  <2>2. CompareAndSwap(p, Active(r.priorInst, r.priorImg, r.hist), oc) /\ Finish(p)
        /\ UNCHANGED <<host, ops, crashes>>
    BY Zenon, <1>11 DEF ReconcileRestore
  <2> QED
    BY Zenon, <2>1, <2>2, SwapFinishes
<1>12. CASE ReconcileTombstone(p, oc)
  BY Zenon, <1>12, DeleteKeepsTypes DEF ReconcileTombstone
<1>13. CASE Release(p, oc)
  <2>1. [r EXCEPT !.lease = "none"] \in Record
    BY Zenon, <1>t DEF Record
  <2> QED
    BY Zenon, <1>13, <2>1, SwapFinishes DEF Release
<1>14. CASE HistoricalRestore(p, oc)
  <2>1. r.hist \in Revision /\ [r.hist EXCEPT !.inst = 0] \in Revision
    BY <1>t DEF Revision
  <2>2. \A hist \in Revision : Active(r.priorInst, r.priorImg, hist) \in Record
    BY Zenon, <1>t, ActiveTypes
  <2>3. PICK hist \in Revision : CompareAndSwap(p, Active(r.priorInst, r.priorImg, hist), oc)
    BY Zenon, <1>14, <2>1 DEF HistoricalRestore
  <2>4. Finish(p) /\ UNCHANGED <<host, ops, crashes>>
    BY Zenon, <1>14 DEF HistoricalRestore
  <2> QED
    BY Zenon, <2>2, <2>3, <2>4, SwapFinishes
<1> QED
  BY Zenon, <1>1, <1>2, <1>3, <1>4, <1>5, <1>6, <1>7, <1>8, <1>9, <1>10, <1>11, <1>12, <1>13, <1>14
  DEF Reconciling

\* of a rollback to the history,
LEMMA RollingBackTypes ==
    ASSUME Types, Counted, NEW p \in Workers, NEW oc \in Outcomes, RollingBack(p, oc)
    PROVE  Types' /\ Counted'
<1> DEFINE r == w[p].r
<1>t. /\ w[p] \in Worker /\ r \in Record /\ r.pend \in Ids /\ r.inst \in Ids
      /\ r.img \in AnyImage /\ r.hist \in Revision
      /\ w[p].orig \in Record /\ w[p].orig.inst \in Ids /\ host \in Host
  BY Zenon, WorkerTypes DEF Types
<1>1. CASE RollbackInspect(p, oc)
  <2>1. PICK label \in {"histForget", "histLease", "republish"} : Goto(p, label)
    BY Zenon, <1>1 DEF RollbackInspect
  <2>2. CallIf(p, TRUE, host, oc) /\ UNCHANGED <<rec, fences, ops, crashes>> /\ w[p].pc = "histInspect"
    BY Zenon, <1>1 DEF RollbackInspect, Call, At
  <2> QED
    BY Zenon, <1>t, <2>1, <2>2, GotoKeepsTypes DEF PreLease, ToLease, ToStart
<1>2. CASE RollbackForget(p, oc)
  <2>1. [r EXCEPT !.hist.inst = 0] \in Record
    <3>1. [r.hist EXCEPT !.inst = 0] \in Revision
      BY <1>t DEF Revision
    <3>2. [r EXCEPT !.hist.inst = 0] = [r EXCEPT !.hist = [r.hist EXCEPT !.inst = 0]]
      BY Zenon, <1>t DEF Record
    <3> QED
      BY Zenon, <1>t, <3>1, <3>2 DEF Record, Revision
  <2>2. CompareAndSwap(p, [r EXCEPT !.hist.inst = 0], oc) /\ (Finish(p) \/ Goto(p, "republish"))
        /\ UNCHANGED <<host, ops, crashes>> /\ w[p].pc = "histForget"
    BY Zenon, <1>2 DEF RollbackForget, At
  <2> QED
    BY Zenon, <2>1, <2>2, SwapKeepsTypes DEF ToLease, ToStart
<1>3. CASE RollbackLease(p, oc)
  <2> DEFINE value == [r EXCEPT !.phase = "cutover", !.pend = r.hist.inst, !.img = r.hist.img,
                                !.priorInst = r.inst, !.priorImg = r.img]
  <2>1. value \in Record
    BY Zenon, <1>t DEF Record, Revision
  <2>2. AcquireLease(p, value, oc) /\ (Finish(p) \/ Wrote(p, "histCut"))
        /\ UNCHANGED <<host, ops, crashes>> /\ w[p].pc = "histLease"
    BY Zenon, <1>3 DEF RollbackLease, At
  <2> HIDE DEF value
  <2> QED
    BY Zenon, <2>1, <2>2, LeaseKeepsTypes DEF Holding, ToLease, ToStart
<1>4. CASE RollbackCutover(p, oc)
  <2>1. PICK able, effect : effect \in Host /\ effect.last = host.last /\ CallIf(p, able, effect, oc)
    BY Zenon, <1>4, CutoverCalls DEF RollbackCutover
  <2> QED
    BY ZenonT(40), <1>4, <2>1, GotoKeepsTypes DEF RollbackCutover, Holding, ToLease, ToStart
<1>5. CASE RollbackDrain(p, oc)
  <2>1. PICK label \in {"histCommit", "histAbortRoute"} : Goto(p, label)
    BY Zenon, <1>5 DEF RollbackDrain
  <2>2. /\ CallIf(p, TRUE, Drain(w[p].orig.inst), oc)
        /\ UNCHANGED <<rec, fences, ops, crashes>>
    BY Zenon, <1>5 DEF RollbackDrain, Call
  <2>3. Drain(w[p].orig.inst) \in Host /\ Drain(w[p].orig.inst).last = host.last
    BY Zenon, <1>t, EffectTypes
  <2> QED
    BY Zenon, <2>1, <2>2, <2>3, GotoKeepsTypes DEF Holding, ToLease, ToStart
<1>6. CASE RollbackCommit(p, oc)
  <2>1. Active(r.pend, r.img, NoRev) \in Record
    <3>1. NoRev \in Revision
      BY DEF NoRev, Revision
    <3> QED
      BY Zenon, <1>t, <3>1, ActiveTypes
  <2>2. CompareAndSwap(p, Active(r.pend, r.img, NoRev), oc) /\ Finish(p)
        /\ UNCHANGED <<host, ops, crashes>>
    BY Zenon, <1>6 DEF RollbackCommit
  <2> QED
    BY Zenon, <2>1, <2>2, SwapFinishes
<1>7. CASE RollbackAbort(p, oc)
  <2> DEFINE orig(inst) == [w[p].orig EXCEPT !.hist = [w[p].orig.hist EXCEPT !.inst = inst]]
             next(label, inst) == [w[p] EXCEPT !.pc = label, !.orig = orig(inst)]
  <2>1. \A inst \in {0, w[p].orig.hist.inst} : orig(inst) \in Record
    BY <1>t DEF Record
  <2>2. \E inst \in {0, w[p].orig.hist.inst}, label \in {"histReactivate", "histCutBack"} :
          w' = [w EXCEPT ![p] = next(label, inst)]
    BY Zenon, <1>7, <1>t DEF RollbackAbort, Become, Worker, Record
  <2> HIDE DEF orig
  <2>3. \A inst \in {0, w[p].orig.hist.inst}, label \in {"histReactivate", "histCutBack"} :
          next(label, inst) \in Worker /\ next(label, inst).pc = label
    <3>1. ASSUME NEW label \in {"histReactivate", "histCutBack"}, NEW o \in Record
          PROVE  /\ [w[p] EXCEPT !.pc = label, !.orig = o] \in Worker
                 /\ [w[p] EXCEPT !.pc = label, !.orig = o].pc = label
      BY ZenonT(40), <1>t DEF Worker, Holding
    <3> QED
      BY Zenon, <2>1, <3>1
  <2> HIDE DEF next
  <2>4. PICK after \in Worker : /\ after.pc \in {"histReactivate", "histCutBack"}
                                /\ w' = [w EXCEPT ![p] = after]
    BY Zenon, <2>2, <2>3
  <2>5. w[p].pc \in {"histAbort", "histAbortRoute"}
    BY Zenon, <1>7 DEF RollbackAbort
  <2>6. /\ Weight(after.pc, ToLease) = 0 /\ Weight(w[p].pc, ToLease) = 0
        /\ Weight(after.pc, ToStart) = 0 /\ Weight(w[p].pc, ToStart) = 0
    BY Zenon, <2>4, <2>5 DEF Weight, ToLease, ToStart
  <2>7. /\ Weight(after.pc, ToLease) <= Weight(w[p].pc, ToLease)
        /\ Weight(after.pc, ToStart) <= Weight(w[p].pc, ToStart)
        /\ host.last + Weight(after.pc, ToStart) <= host.last + Weight(w[p].pc, ToStart)
    BY <1>t, <2>6 DEF Host
  <2>8. CallIf(p, TRUE, host, oc) /\ UNCHANGED <<rec, fences, ops, crashes>>
    BY Zenon, <1>7 DEF RollbackAbort, Call
  <2> QED
    BY Zenon, <1>t, <2>4, <2>7, <2>8, CallKeepsTypes
<1>8. CASE RollbackCutBack(p, oc)
  <2>1. PICK able, effect : effect \in Host /\ effect.last = host.last /\ CallIf(p, able, effect, oc)
    BY Zenon, <1>8, CutoverCalls DEF RollbackCutBack
  <2> QED
    BY Zenon, <1>8, <2>1, GotoKeepsTypes DEF RollbackCutBack, Holding, ToLease, ToStart
<1>9. CASE RollbackReactivate(p, oc)
  <2>1. ASSUME NEW o \in Record
        PROVE  [o EXCEPT !.phase = "active", !.lease = "none", !.pend = 0] \in Record
    <3>1. 0 \in 0 .. MaxOps + 1
      OBVIOUS
    <3> QED
      BY Zenon, <3>1 DEF Record
  <2>2. [w[p].orig EXCEPT !.phase = "active", !.lease = "none", !.pend = 0] \in Record
    BY Zenon, <1>t, <2>1
  <2> QED
    BY Zenon, <1>9, <2>2, SwapFinishes DEF RollbackReactivate
<1> QED
  BY Zenon, <1>1, <1>2, <1>3, <1>4, <1>5, <1>6, <1>7, <1>8, <1>9 DEF RollingBack

\* and of the digest memory.
LEMMA RememberingTypes ==
    ASSUME Types, Counted, NEW p \in Workers, NEW oc \in Outcomes, Remembering(p, oc)
    PROVE  Types' /\ Counted'
<1>t. w[p] \in Worker /\ w[p].r \in Record /\ w[p].img \in AnyImage
  BY Zenon, WorkerTypes
<1>1. CASE Remember(p, oc)
  BY Zenon, <1>1, <1>t, SwapFinishes DEF Remember
<1>2. CASE SeedLease(p, oc)
  <2>1. Active(0, w[p].img, NoRev) \in Record
    <3>1. NoRev \in Revision /\ 0 \in Ids
      BY DEF NoRev, Revision
    <3> QED
      BY Zenon, <1>t, <3>1, ActiveTypes
  <2> QED
    BY Zenon, <1>2, <2>1, LeaseKeepsTypes DEF SeedLease, At, Holding, ToLease, ToStart
<1>3. CASE Seed(p, oc)
  <2>1. [w[p].r EXCEPT !.lease = "none"] \in Record
    BY Zenon, <1>t DEF Record
  <2> QED
    BY <1>3, <2>1, SwapKeepsTypes, DeleteKeepsTypes DEF Seed, Holding, ToLease, ToStart
<1> QED
  BY Zenon, <1>1, <1>2, <1>3 DEF Remembering

\* Steps of a worker that touch neither the store nor the executor.
LEMMA LocalTypes ==
    ASSUME Types, Counted, NEW p \in Workers, NEW next \in Worker, Become(p, next),
           UNCHANGED <<rec, fences, host, faults, crashes>>,
           \/ CanBegin(p)
           \/ ops' = ops /\ (next.pc = "idle" \/ (next.pc = "lease" /\ At(p, "republish")))
    PROVE  Types' /\ Counted'
<1>1. /\ w' = [w EXCEPT ![p] = next] /\ rec' \in Record /\ host' \in Host /\ fences' \in Ids
      /\ faults' \in Nat /\ crashes' = crashes
  BY Zenon DEF Types, Become
<1>2. ops' \in 0 .. MaxOps
  BY DEF Types, CanBegin
<1>3. /\ fences' - fences + Weight(next.pc, ToLease) - Weight(w[p].pc, ToLease) <= ops' - ops
      /\ host'.last - host.last + Weight(next.pc, ToStart) - Weight(w[p].pc, ToStart) <= ops' - ops
  <2>1. host.last \in Nat /\ fences \in Nat /\ ops \in Nat
    BY DEF Types, Host
  <2>2. CASE CanBegin(p)
    <3>1. Weight(w[p].pc, ToLease) = 0 /\ Weight(w[p].pc, ToStart) = 0 /\ ops' = ops + 1
      BY Zenon, <2>2 DEF CanBegin, At, Weight, ToLease, ToStart
    <3>2. Weight(next.pc, ToLease) \in {0, 1} /\ Weight(next.pc, ToStart) \in {0, 1}
      BY Zenon DEF Weight
    <3> QED
      BY <2>1, <3>1, <3>2
  <2>3. CASE ops' = ops /\ (next.pc = "idle" \/ (next.pc = "lease" /\ At(p, "republish")))
    <3>1. /\ Weight(next.pc, ToLease) <= Weight(w[p].pc, ToLease)
          /\ Weight(next.pc, ToStart) <= Weight(w[p].pc, ToStart)
          /\ Weight(next.pc, ToLease) \in Nat /\ Weight(w[p].pc, ToLease) \in Nat
          /\ Weight(next.pc, ToStart) \in Nat /\ Weight(w[p].pc, ToStart) \in Nat
      BY <2>3 DEF At, Weight, ToLease, ToStart
    <3> QED
      BY <2>1, <2>3, <3>1
  <2> QED
    BY Zenon, <2>2, <2>3
<1> QED
  BY Zenon, <1>1, <1>2, <1>3, WorkerKeepsTypes

\* The worker of an operation that has just begun: a publish or an observation, a
\* reconcile, a rollback.
Begun(label, image) == [IdleWorker EXCEPT !.pc = label, !.r = rec, !.img = image]

BegunBare(label) == [IdleWorker EXCEPT !.pc = label, !.r = rec]

BegunBack(label, image) ==
    [IdleWorker EXCEPT !.pc = label, !.r = rec, !.img = image, !.orig = rec]

LEMMA BegunTypes ==
    ASSUME Types, NEW label \in PreLease, NEW image \in AnyImage
    PROVE  /\ Begun(label, image) \in Worker /\ Begun(label, image).pc = label
           /\ BegunBare(label) \in Worker /\ BegunBare(label).pc = label
           /\ BegunBack(label, image) \in Worker /\ BegunBack(label, image).pc = label
  BY Zenon, EmptyTypes DEF Types, Worker, Begun, BegunBare, BegunBack

LEMMA BeginningTypes ==
    ASSUME Types, Counted, NEW p \in Workers,
           \/ BeginReconcile(p) \/ BeginRollback(p) \/ RollbackRepublish(p) \/ GuardStops(p)
           \/ \E image \in Images : BeginPublish(p, image) \/ BeginRemember(p, image)
    PROVE  Types' /\ Counted'
<1>i. IdleWorker \in Worker /\ IdleWorker.pc = "idle"
  BY Zenon, EmptyTypes DEF IdleWorker
<1>1. CASE BeginReconcile(p)
  <2>1. PICK next \in Worker : Become(p, next)
    BY Zenon, <1>1, BegunTypes DEF BeginReconcile, BegunBare, PreLease
  <2>2. CanBegin(p) /\ UNCHANGED <<rec, fences, host, faults, crashes>>
    BY Zenon, <1>1 DEF BeginReconcile
  <2> QED
    BY Zenon, <2>1, <2>2, LocalTypes
<1>2. CASE BeginRollback(p)
  <2>1. rec.hist.img \in AnyImage
    BY Zenon DEF Types, Record
  <2>2. PICK next \in Worker : Become(p, next)
    BY ZenonT(40), <1>2, <2>1, BegunTypes DEF BeginRollback, BegunBack, PreLease
  <2>3. CanBegin(p) /\ UNCHANGED <<rec, fences, host, faults, crashes>>
    BY Zenon, <1>2 DEF BeginRollback
  <2> QED
    BY Zenon, <2>2, <2>3, LocalTypes
<1>3. CASE RollbackRepublish(p)
  <2>1. w[p].img \in AnyImage
    BY Zenon, WorkerTypes
  <2>2. PICK next \in Worker : Become(p, next) /\ next.pc \in {"idle", "lease"}
    <3> DEFINE begun == Begun("lease", w[p].img)
    <3>1. begun \in Worker /\ begun.pc = "lease"
      <4>1. "lease" \in PreLease
        BY Zenon DEF PreLease
      <4> QED
        BY Zenon, <2>1, <4>1, BegunTypes
    <3>2. Become(p, IdleWorker) \/ Become(p, begun)
      BY Zenon, <1>3 DEF RollbackRepublish, Finish, Begun
    <3> HIDE DEF begun
    <3> QED
      BY Zenon, <1>i, <3>1, <3>2
  <2>3. UNCHANGED <<rec, fences, host, faults, crashes>> /\ ops' = ops /\ At(p, "republish")
    BY Zenon, <1>3 DEF RollbackRepublish
  <2> QED
    BY Zenon, <2>2, <2>3, LocalTypes
<1>4. CASE GuardStops(p)
  <2>1. PICK next \in Worker : Become(p, next) /\ next.pc = "idle"
    BY Zenon, <1>4, <1>i DEF GuardStops, Finish
  <2>2. UNCHANGED <<rec, fences, host, faults, crashes>> /\ ops' = ops
    BY Zenon, <1>4 DEF GuardStops
  <2>3. ops' = ops /\ (next.pc = "idle" \/ (next.pc = "lease" /\ At(p, "republish")))
    BY Zenon, <2>1, <2>2
  <2> QED
    BY Zenon, <2>1, <2>2, <2>3, LocalTypes
<1>5. ASSUME NEW image \in Images, BeginPublish(p, image) \/ BeginRemember(p, image)
      PROVE  Types' /\ Counted'
  <2>1. PICK next \in Worker : Become(p, next)
    BY ZenonT(40), <1>5, BegunTypes DEF BeginPublish, BeginRemember, Begun, PreLease
  <2>2. CanBegin(p) /\ UNCHANGED <<rec, fences, host, faults, crashes>>
    BY Zenon, <1>5 DEF BeginPublish, BeginRemember
  <2> QED
    BY Zenon, <2>1, <2>2, LocalTypes
<1> QED
  BY Zenon, <1>1, <1>2, <1>3, <1>4, <1>5

\* Every step keeps the types and the counts.
LEMMA TypeStep == Types /\ Counted /\ [Next]_vars => Types' /\ Counted'
<1> SUFFICES ASSUME Types, Counted, [Next]_vars PROVE Types' /\ Counted'
  OBVIOUS
<1>1. CASE \E p \in Workers :
             \/ BeginReconcile(p) \/ BeginRollback(p) \/ RollbackRepublish(p) \/ GuardStops(p)
             \/ \E image \in Images : BeginPublish(p, image) \/ BeginRemember(p, image)
  BY Zenon, <1>1, BeginningTypes
<1>2. CASE \E p \in Workers, oc \in Outcomes :
             Publishing(p, oc) \/ Reconciling(p, oc) \/ RollingBack(p, oc) \/ Remembering(p, oc)
  BY Zenon, <1>2, PublishingTypes, ReconcilingTypes, RollingBackTypes, RememberingTypes
<1>3. CASE ExpireLease
  <2>1. rec' \in Record
    BY Zenon, <1>3 DEF ExpireLease, Types, Record
  <2> QED
    BY Zenon, <1>3, <2>1 DEF ExpireLease, Types, Counted, Count
<1>4. CASE Crash
  <2>1. /\ Types' /\ UNCHANGED <<fences, host, ops>> /\ fences \in Nat /\ host.last \in Nat
        /\ ops \in Nat
    BY <1>4, EmptyTypes DEF Crash, Types, Host
  <2>2. \A p \in Workers : w'[p].pc = "idle"
    BY Zenon, <1>4 DEF Crash, IdleWorker
  <2>3. {p \in Workers : w'[p].pc \in ToLease} = {} /\ {p \in Workers : w'[p].pc \in ToStart} = {}
    BY Zenon, <2>2 DEF ToLease, ToStart
  <2>4. Count(ToLease)' = 0 /\ Count(ToStart)' = 0
    BY Zenon, <2>3, FS_EmptySet DEF Count
  <2>5. fences <= ops + 1 /\ host.last <= ops + 1
    <3>1. PICK p \in Workers : w[p].pc # "idle"
      BY Zenon, <1>4 DEF Crash, Quiet, At, Types
    <3>2. Count(ToLease) \in Nat /\ Count(ToStart) \in Nat
      BY Zenon, <3>1, CountPositive
    <3> QED
      BY <2>1, <3>2 DEF Counted
  <2> QED
    BY <2>1, <2>4, <2>5 DEF Counted
<1>5. CASE DrainedEnds
  <2>1. PICK n \in host.drained \ {host.route} :
          host' = [host EXCEPT !.img[n] = NoImage, !.drained = @ \ {n}]
    BY Zenon, <1>5 DEF DrainedEnds
  <2> DEFINE img == [host.img EXCEPT ![n] = NoImage]
             drained == host.drained \ {n}
  <2>2. host \in Host
    BY Zenon DEF Types
  <2>3. img \in [Insts -> AnyImage] /\ drained \in SUBSET Insts
    BY Zenon, <2>2 DEF Host
  <2>4. host' = [host EXCEPT !.img = img, !.drained = drained]
    BY Zenon, <2>1, <2>2 DEF Host
  <2> HIDE DEF img, drained
  <2>5. host' \in Host /\ host'.last = host.last
    BY Zenon, <2>2, <2>3, <2>4 DEF Host
  <2> QED
    BY Zenon, <1>5, <2>5 DEF DrainedEnds, Types, Counted, Count
<1>6. CASE UNCHANGED vars
  BY Zenon, <1>6 DEF vars, Types, Counted, Count
<1> QED
  BY Zenon, <1>1, <1>2, <1>3, <1>4, <1>5, <1>6 DEF Next

LEMMA TypeInit == Init => Types /\ Counted
<1> SUFFICES ASSUME Init PROVE Types /\ Counted
  OBVIOUS
<1>1. w \in [Workers -> Worker] /\ \A p \in Workers : w[p].pc = "idle"
  BY Zenon, EmptyTypes DEF Init, IdleWorker
<1>2. Count(ToLease) = 0 /\ Count(ToStart) = 0
  <2>1. {p \in Workers : w[p].pc \in ToLease} = {} /\ {p \in Workers : w[p].pc \in ToStart} = {}
    BY Zenon, <1>1 DEF ToLease, ToStart
  <2> QED
    BY Zenon, <2>1, FS_EmptySet DEF Count
<1>3. rec \in Record /\ fences \in {0, 1}
  <2>1. CASE rec = Empty
    BY Zenon, <2>1, EmptyTypes DEF Init
  <2>2. ASSUME NEW image \in Images,
               rec = [Empty EXCEPT !.ver = 1, !.fence = 1, !.phase = "active", !.inst = 1,
                                   !.img = image]
        PROVE  rec \in Record
    <3>1. 1 \in 0 .. MaxOps + 1 /\ 1 \in Nat
      OBVIOUS
    <3> QED
      BY Zenon, <2>2, <3>1, EmptyTypes DEF Record
  <2> QED
    BY Zenon, <2>1, <2>2 DEF Init
<1>4. host \in Host /\ host.last \in {0, 1}
  <2>1. 0 \in Ids /\ 1 \in Ids /\ 1 \in Insts
    OBVIOUS
  <2>2. \A image \in Images : [n \in Insts |-> IF n = 1 THEN image ELSE NoImage] \in [Insts -> AnyImage]
    OBVIOUS
  <2>3. [n \in Insts |-> NoImage] \in [Insts -> AnyImage]
    OBVIOUS
  <2>4. PICK img \in [Insts -> AnyImage], route \in Ids, fence \in Ids, served \in SUBSET Insts,
             last \in {0, 1} :
          host = [img |-> img, route |-> route, cand |-> 0, fence |-> fence, drained |-> {},
                  served |-> served, last |-> last]
    BY ZenonT(40), <2>1, <2>2, <2>3 DEF Init
  <2> QED
    BY Zenon, <2>1, <2>4 DEF Host
<1>5. ops = 0 /\ faults = 0 /\ crashes = 0 /\ MaxOps \in Nat
  BY Zenon DEF Init
<1>6. Types
  BY <1>1, <1>3, <1>4, <1>5 DEF Types
<1>7. Counted
  BY <1>2, <1>3, <1>4, <1>5 DEF Counted
<1> QED
  BY Zenon, <1>6, <1>7

LEMMA TypeInvariance == Spec => [](Types /\ Counted)
  BY TypeInit, TypeStep, PTL DEF Spec

\* The record, its history, the workers' copies of them and the fencing tokens stay
\* within their types: however the operations interleave, crash or fail, each leases
\* and starts at most once.
THEOREM TypeCorrect == Spec => []TypeOK
<1>1. Types => TypeOK
  BY Zenon DEF Types, TypeOK, Host, Worker
<1> QED
  BY <1>1, TypeInvariance, PTL

-----------------------------------------------------------------------------
(* The invariant behind a rule.                                            *)

\* An app published behind an HTTP rule, whose publishes no persist guard abandons.
Ruled == HasRule /\ ~Node /\ ~Guarded /\ Fresh = {FALSE}

-----------------------------------------------------------------------------
(* The store and the executor as seen by the holders of leases.            *)

Holds(p) == w[p].pc \in Holding

\* Labels at which a holder may not have called the executor under its lease yet.
FirstCall == {"pull", "inspect", "histCut"}

\* What the record says of the app, without version, token and lease.
Core(r) ==
    [phase |-> r.phase, inst |-> r.inst, pend |-> r.pend, img |-> r.img,
     priorInst |-> r.priorInst, priorImg |-> r.priorImg, hist |-> r.hist]

Current(r) == rec = r \/ (r.lease = "held" /\ rec = [r EXCEPT !.lease = "expired"])

\* A worker has read no version and no token that is not the store's, and the record
\* it has read is the present one until the version changes.
Behind(p) ==
    /\ w[p].r.fence <= fences
    /\ w[p].r.ver <= rec.ver
    /\ w[p].r.ver = rec.ver => Current(w[p].r)

\* The labels at which a worker may stand with the record it has read.
Stands(p) ==
    /\ w[p].pc \notin {"seedLease", "seed", "tombstone"}
    /\ w[p].pc \in PreLease \ {"idle", "takeover"} =>
         w[p].r.phase = "active" /\ w[p].r.lease # "held"
    /\ w[p].pc = "takeover" => w[p].r.phase # "active" /\ w[p].r.lease # "held"
    /\ w[p].pc \in Holding => w[p].r.phase # "active"

\* A holder has called the executor under its token, and until a higher one is seen
\* there the record says what the holder wrote.
Fenced(p) ==
    w[p].pc \in Holding =>
        /\ w[p].r.fence = fences => w[p].r.ver = rec.ver
        /\ w[p].pc \notin FirstCall => host.fence >= w[p].r.fence
        /\ w[p].r.fence >= host.fence => Core(rec) = Core(w[p].r)

\* What a worker knows of the store and of the executor.
Knows(p) == Behind(p) /\ Stands(p) /\ Fenced(p)

\* What two holders of leases, one of which has been overtaken, have in common.
Apart(p, q) ==
    w[p].pc \in Holding /\ w[q].pc \in Holding =>
        /\ w[q].r.fence # w[p].r.fence
        /\ w[p].pc \in {"pull", "histCut"} /\ w[q].r.fence < w[p].r.fence =>
             w[q].r.fence < host.fence

Protocol ==
    /\ rec.ver > 0 /\ rec.fence = fences /\ host.fence <= fences
    /\ rec.phase = "active" => host.fence = fences
    /\ \A p \in Workers : Knows(p)
    /\ \A p, q \in Workers : p # q => Apart(p, q)

-----------------------------------------------------------------------------
(* What the record says of the instances.                                  *)

\* The rule points at an instance that runs; what runs has served the rule or is the
\* candidate of the last Start; what was drained has served.
HostSound ==
    /\ host.route \in host.served /\ host.route \in Up
    /\ \A n \in Insts : n > host.last => host.img[n] = NoImage /\ n \notin host.served
    /\ host.cand \notin host.served
    /\ host.cand # 0 => host.cand \in Up
    /\ Up \subseteq host.served \cup {host.cand}
    /\ host.drained \subseteq host.served

Runs(n, image) == host.img[n] \in {image, NoImage}

\* What the record r says of the instances.
Sound(r) ==
    /\ r.inst \in host.served
    /\ r.img \in Images
    /\ r.hist = NoRev \/ r.hist.img \in Images
    /\ r.hist.inst # 0 =>
         r.hist.inst \in host.served /\ r.hist.inst # r.inst /\ Runs(r.hist.inst, r.hist.img)
    /\ r.phase = "active" =>
         /\ Runs(r.inst, r.img)
         /\ r.pend = 0 /\ r.priorInst = 0 /\ host.cand = 0
         /\ host.route \in {r.inst, r.hist.inst}
    /\ r.phase # "active" =>
         /\ r.priorInst = r.inst /\ r.priorImg \in Images
         /\ Runs(r.inst, r.priorImg)
         /\ host.route \in {r.inst, r.hist.inst, r.pend}
    /\ r.pend # 0 =>
         /\ r.pend # r.inst /\ r.pend \in Insts
         /\ host.cand \in {0, r.pend}
         /\ Runs(r.pend, r.img)
    /\ r.pend = 0 /\ host.cand # 0 => host.img[host.cand] = r.img

RollingBackLabels ==
    {"histCut", "histDrain", "histCommit", "histAbort", "histAbortRoute", "histCutBack",
     "histReactivate"}

\* What a holder that the executor still accepts knows at its label.
Session(p) ==
    LET r == w[p].r
        at == w[p].pc
    IN  /\ at \in {"pull", "starting", "start"} =>
             w[p].pend = 0 /\ r.pend = 0 /\ host.cand = 0 /\ w[p].img = r.img
        /\ at = "readiness" => r.pend = 0 /\ w[p].pend # 0 /\ w[p].pend = host.cand
        /\ at \in {"ready", "cutover", "cut", "undo", "undoRoute"} => w[p].pend = r.pend
        /\ at \in {"draining", "drain", "activate"} => w[p].pend = r.pend /\ host.route = r.pend
        /\ at = "adopt" =>
             /\ r.pend = 0 /\ w[p].obs.cand = host.cand /\ host.cand # 0
             /\ w[p].obs.route = host.route /\ w[p].obs.up = Up
        /\ at = "complete" => host.route = r.pend
        /\ at \in {"cleanup", "remove"} =>
             host.route = r.priorInst /\ r.pend \in Insts /\ r.pend # r.hist.inst
        /\ at \in {"recut", "settle"} /\ r.pend = 0 => host.cand = 0
        /\ at = "restore" => host.route = r.priorInst /\ host.cand = 0
        /\ at = "histRestore" => host.route = r.priorInst /\ HistoricalRollbackPending(r)
        /\ at \in RollingBackLabels =>
             /\ HistoricalRollbackPending(r)
             /\ w[p].orig.inst = r.inst /\ w[p].orig.img = r.priorImg
             /\ w[p].orig.priorInst = 0 /\ w[p].orig.hist.img = r.hist.img
             /\ w[p].orig.hist.inst # r.hist.inst =>
                  /\ w[p].orig.hist.inst = 0 /\ r.hist.inst \notin Up
                  /\ at \in {"histCutBack", "histReactivate"}
        /\ at \in {"histDrain", "histCommit"} => host.route = r.pend

\* What an operation knows whether or not the executor accepts its token.
Reading(p) ==
    /\ w[p].pc \in Holding => w[p].r.priorImg \in Images
    /\ w[p].pc = "lease" => w[p].pend = 0
    /\ w[p].pc \in {"lease", "republish", "histInspect", "histForget", "histLease"} =>
         w[p].img \in Images
    /\ w[p].pc \in {"histInspect", "histForget", "histLease"} =>
         w[p].orig = w[p].r /\ w[p].r.hist.inst # 0
    /\ w[p].pc = "histForget" /\ w[p].r.ver = rec.ver => w[p].r.hist.inst \notin Up

Content ==
    /\ HostSound
    /\ Sound(rec)
    /\ \A p \in Workers : Reading(p) /\ (Holds(p) /\ Accepts(p) => Session(p))

-----------------------------------------------------------------------------
(* The protocol is kept by every kind of step.                             *)

LEMMA Numbers ==
    ASSUME Types, NEW p \in Workers
    PROVE  /\ w[p] \in Worker /\ w[p].r \in Record /\ w[p].r.fence \in Nat /\ w[p].r.ver \in Nat
           /\ rec \in Record /\ rec.fence \in Nat /\ rec.ver \in Nat
           /\ host \in Host /\ host.fence \in Nat /\ fences \in Nat
<1>1. w[p] \in Worker /\ rec \in Record /\ host \in Host /\ fences \in Ids
  BY Zenon DEF Types
<1>2. w[p].r \in Record
  BY Zenon, <1>1 DEF Worker
<1>3. w[p].r.fence \in Ids /\ w[p].r.ver \in Nat /\ rec.fence \in Ids /\ rec.ver \in Nat
  BY Zenon, <1>1, <1>2 DEF Record
<1>4. host.fence \in Ids
  BY Zenon, <1>1 DEF Host
<1> QED
  BY <1>1, <1>2, <1>3, <1>4

\* The labels at which a lease is held are not those before one.
LEMMA Labels ==
    /\ \A at \in Holding : at \notin PreLease
    /\ {"idle", "takeover", "histInspect", "histForget", "histLease", "republish", "remember",
        "lease"} \subseteq PreLease
    /\ {"pull", "inspect", "histCut"} \subseteq Holding
<1>1. \A at \in Holding : at \notin PreLease
  BY DEF Holding, PreLease
<1> QED
  BY Zenon, <1>1 DEF Holding, PreLease

\* Nobody has read the version a write is about to give the record.
LEMMA Unread ==
    ASSUME Types, Protocol, rec'.ver = rec.ver + 1
    PROVE  \A q \in Workers : w[q].r.ver # rec'.ver
<1>1. ASSUME NEW q \in Workers PROVE w[q].r.ver # rec'.ver
  <2>1. w[q].r.ver <= rec.ver
    BY Zenon DEF Protocol, Knows, Behind
  <2> QED
    BY <2>1, Numbers
<1> QED
  BY Zenon, <1>1

\* What an idle worker knows.
LEMMA IdleKnows ==
    ASSUME NEW p, w'[p] = IdleWorker, rec'.ver \in Nat \ {0}, fences' \in Nat
    PROVE  Knows(p)' /\ w'[p].pc = "idle" /\ w'[p].pc \notin Holding
<1>1. w'[p].pc = "idle" /\ w'[p].r.ver = 0 /\ w'[p].r.fence = 0
  BY DEF IdleWorker, Empty
<1>2. w'[p].pc \notin Holding
  BY Zenon, <1>1, Labels
<1>3. Behind(p)'
  BY <1>1 DEF Behind
<1>4. Stands(p)' /\ Fenced(p)'
  BY Zenon, <1>1, <1>2 DEF Stands, Fenced
<1> QED
  BY Zenon, <1>1, <1>2, <1>3, <1>4 DEF Knows

\* A worker that moves nothing knows what it knew.
LEMMA StillKnows ==
    ASSUME NEW q, Knows(q), w'[q] = w[q], UNCHANGED <<rec, fences>>, host'.fence = host.fence
    PROVE  Knows(q)'
<1>1. Behind(q)'
  BY Zenon DEF Knows, Behind, Current
<1>2. Stands(q)'
  BY Zenon DEF Knows, Stands
<1>3. Fenced(q)'
  BY Zenon DEF Knows, Fenced, Core
<1> QED
  BY Zenon, <1>1, <1>2, <1>3 DEF Knows

\* A worker that has read an older record, and under an older token if it holds a lease.
LEMMA KnowsLater ==
    ASSUME Types, Types', UNCHANGED host, NEW q \in Workers, Knows(q), w'[q] = w[q],
           w[q].r.ver < rec'.ver, w[q].r.fence <= fences',
           w[q].pc \in Holding =>
             /\ w[q].r.fence # fences'
             /\ w[q].r.fence < host.fence \/ Core(rec') = Core(rec)
    PROVE  Knows(q)'
<1>1. w[q].r.ver \in Nat /\ w[q].r.fence \in Nat /\ host.fence \in Nat
  BY Zenon, Numbers
<1>2. rec'.ver \in Nat
  BY Zenon DEF Types, Record
<1>3. w[q].r.ver # rec'.ver /\ w[q].r.ver <= rec'.ver
  BY <1>1, <1>2
<1>4. Behind(q)'
  BY Zenon, <1>3 DEF Behind
<1>5. Stands(q)'
  BY Zenon DEF Knows, Stands
<1>6. w[q].pc \in Holding /\ w[q].r.fence >= host.fence => Core(rec') = Core(w[q].r)
  BY <1>1 DEF Knows, Fenced
<1>7. Fenced(q)'
  BY Zenon, <1>6 DEF Knows, Fenced
<1> QED
  BY Zenon, <1>4, <1>5, <1>7 DEF Knows

\* A holder knows the record it has just written.
LEMMA WriterKnows ==
    ASSUME NEW p, w'[p].r = rec', w'[p].pc \in Holding \ {"seed", "tombstone"},
           rec'.phase # "active", rec'.ver \in Nat, rec'.fence = fences', fences' \in Nat,
           w'[p].pc \notin FirstCall => host'.fence = fences'
    PROVE  Knows(p)'
<1>1. w'[p].pc \notin PreLease /\ w'[p].pc \notin {"seedLease", "takeover"}
  BY Zenon, Labels DEF Holding
<1>2. Behind(p)'
  BY DEF Behind, Current
<1>3. Stands(p)'
  BY Zenon, <1>1 DEF Stands
<1>4. Fenced(p)'
  BY DEF Fenced
<1> QED
  BY Zenon, <1>2, <1>3, <1>4 DEF Knows

\* A call of the executor raises the token it has seen and writes no record.
LEMMA CallKeepsProtocol ==
    ASSUME Types, Types', Protocol, NEW p \in Workers, NEW next \in Worker,
           w' = [w EXCEPT ![p] = next], next.r = w[p].r, UNCHANGED <<rec, fences>>,
           host'.fence = (IF w[p].r.fence >= host.fence THEN w[p].r.fence ELSE host.fence),
           \/ /\ w[p].pc \in Holding
              /\ next.pc \in Holding \ (FirstCall \cup {"seed", "tombstone"})
           \/ /\ w[p].pc = "histInspect"
              /\ next.pc \in {"histForget", "histLease", "republish"}
    PROVE  Protocol'
<1>1. w'[p] = next /\ \A q \in Workers : q # p => w'[q] = w[q]
  BY Zenon DEF Types
<1>2. Knows(p) /\ rec.ver > 0 /\ rec.fence = fences /\ host.fence <= fences
  BY Zenon DEF Protocol
<1>3. /\ host'.fence \in Nat /\ host.fence <= host'.fence /\ host'.fence <= fences
      /\ w[p].r.fence <= host'.fence
  <2>1. w[p].r.fence \in Nat /\ host.fence \in Nat /\ fences \in Nat
    BY Zenon, Numbers
  <2> QED
    BY <1>2, <2>1 DEF Knows, Behind
<1>4. rec'.phase = "active" => host'.fence = fences'
  BY <1>2, <1>3, Numbers DEF Protocol
<1>5. w'[p].pc \in Holding => w[p].pc \in Holding /\ w'[p].pc \notin FirstCall
  BY Zenon, <1>1, Labels
<1>6. \A q \in Workers : w'[q].r = w[q].r
  BY Zenon, <1>1
<1>7. ASSUME NEW q \in Workers PROVE Behind(q)' /\ Fenced(q)'
  <2>1. Knows(q) /\ w'[q].r = w[q].r
    BY Zenon, <1>6 DEF Protocol
  <2>2. Behind(q)'
    BY Zenon, <2>1 DEF Knows, Behind, Current
  <2>3. w[q].r.fence \in Nat /\ host.fence \in Nat
    BY Zenon, Numbers
  <2>4. /\ host.fence >= w[q].r.fence => host'.fence >= w[q].r.fence
        /\ w[q].r.fence >= host'.fence => w[q].r.fence >= host.fence
    BY <1>3, <2>3
  <2>5. /\ w'[q].pc \in Holding => w[q].pc \in Holding
        /\ w'[q].pc \in Holding \ FirstCall => w[q].pc \notin FirstCall \/ q = p
    BY Zenon, <1>1, <1>5
  <2>6. q = p => host'.fence >= w[q].r.fence
    BY Zenon, <1>3, <2>3
  <2>7. Core(w'[q].r) = Core(w[q].r) /\ Core(rec') = Core(rec)
    BY Zenon, <2>1 DEF Core
  <2>8. Fenced(q)'
    BY Zenon, <2>1, <2>4, <2>5, <2>6, <2>7 DEF Knows, Fenced
  <2> QED
    BY Zenon, <2>2, <2>8
<1>8. Stands(p)'
  <2>1. CASE w[p].pc \in Holding
    <3>1. w'[p].r.phase # "active" /\ w'[p].pc \in Holding \ {"seed", "tombstone"}
      BY Zenon, <1>1, <1>2, <2>1, Labels DEF Knows, Stands
    <3>2. w'[p].pc \notin PreLease /\ w'[p].pc \notin {"seedLease", "takeover"}
      BY Zenon, <3>1, Labels DEF Holding
    <3> QED
      BY Zenon, <3>1, <3>2 DEF Stands
  <2>2. CASE w[p].pc = "histInspect"
    <3>1. w[p].r.phase = "active" /\ w[p].r.lease # "held"
      BY Zenon, <1>2, <2>2 DEF Knows, Stands, PreLease
    <3>2. w'[p].pc \in {"histForget", "histLease", "republish"} /\ w'[p].pc \notin Holding
      BY Zenon, <1>1, <2>2, Labels
    <3> QED
      BY Zenon, <1>6, <3>1, <3>2 DEF Stands
  <2> QED
    BY Zenon, <2>1, <2>2
<1>9. ASSUME NEW q \in Workers PROVE Knows(q)'
  <2>1. q # p => Stands(q)'
    BY Zenon, <1>1 DEF Protocol, Knows, Stands
  <2> QED
    BY Zenon, <1>7, <1>8, <2>1 DEF Knows
<1>10. ASSUME NEW q \in Workers, NEW s \in Workers, q # s PROVE Apart(q, s)'
  <2>1. Apart(q, s) /\ w'[q].r = w[q].r /\ w'[s].r = w[s].r
    BY Zenon, <1>6, <1>10 DEF Protocol
  <2>2. /\ w'[q].pc \in Holding => w[q].pc \in Holding
        /\ w'[s].pc \in Holding => w[s].pc \in Holding
    BY Zenon, <1>1, <1>5
  <2>3. w'[q].pc \in {"pull", "histCut"} => w[q].pc = w'[q].pc
    BY Zenon, <1>1, <1>5, Labels DEF FirstCall
  <2>4. /\ w[q].r.fence \in Nat /\ w[s].r.fence \in Nat /\ host.fence \in Nat
    BY Zenon, Numbers
  <2>5. w[s].r.fence < host.fence => w[s].r.fence < host'.fence
    BY <1>3, <2>4
  <2> QED
    BY Zenon, <2>1, <2>2, <2>3, <2>5 DEF Apart
<1> QED
  BY Zenon, <1>2, <1>3, <1>4, <1>9, <1>10 DEF Protocol

\* A record that was read is the present one as long as the version has not changed.
LEMMA ReadIsPresent ==
    ASSUME Types, Protocol, NEW p \in Workers, w[p].r.ver = rec.ver
    PROVE  /\ Core(rec) = Core(w[p].r) /\ rec.phase = w[p].r.phase
           /\ w[p].r.lease # "held" => rec = w[p].r
  <1>1. Current(w[p].r) /\ w[p].r \in Record
    BY Zenon, Numbers DEF Protocol, Knows, Behind
  <1> QED
    BY <1>1 DEF Current, Core, Record

\* While the record is active no holder of a lease is accepted by the executor.
LEMMA ActiveOvertakes ==
    ASSUME Types, Protocol, rec.phase = "active", NEW q \in Workers, w[q].pc \in Holding
    PROVE  w[q].r.fence < host.fence /\ host.fence = fences
<1>1. Knows(q) /\ host.fence = fences
  BY Zenon DEF Protocol
<1>2. w[q].r.ver # rec.ver
  BY Zenon, <1>1, ReadIsPresent DEF Knows, Stands
<1>3. w[q].r.fence # fences /\ w[q].r.fence <= fences
  BY Zenon, <1>1, <1>2 DEF Knows, Fenced, Behind
<1>4. w[q].r.fence \in Nat /\ fences \in Nat
  BY Zenon, Numbers
<1> QED
  BY <1>1, <1>3, <1>4

\* A write that a worker applies under its token finds every other holder overtaken.
LEMMA WriterAlone ==
    ASSUME Types, Protocol, NEW p \in Workers, w[p].r.ver = rec.ver, w[p].r.fence = rec.fence,
           \/ w[p].pc \in Holding \ FirstCall
           \/ w[p].pc \in {"histForget", "remember"}
    PROVE  /\ host.fence = fences
           /\ \A q \in Workers : q # p /\ w[q].pc \in Holding => w[q].r.fence < host.fence
<1>1. Knows(p) /\ rec.fence = fences /\ host.fence <= fences
  BY Zenon DEF Protocol
<1>2. CASE w[p].pc \in Holding \ FirstCall
  <2>1. host.fence = fences
    <3>1. host.fence >= w[p].r.fence /\ w[p].r.fence = fences
      BY Zenon, <1>1, <1>2 DEF Knows, Fenced
    <3> QED
      BY <1>1, <3>1, Numbers
  <2>2. ASSUME NEW q \in Workers, q # p, w[q].pc \in Holding PROVE w[q].r.fence < host.fence
    <3>1. w[q].r.fence # w[p].r.fence /\ w[q].r.fence <= fences
      BY Zenon, <1>2, <2>2 DEF Protocol, Apart, Knows, Behind
    <3>2. w[q].r.fence \in Nat /\ fences \in Nat
      BY Zenon, Numbers
    <3> QED
      BY <1>1, <2>1, <3>1, <3>2
  <2> QED
    BY Zenon, <2>1, <2>2
<1>3. CASE w[p].pc \in {"histForget", "remember"}
  <2>1. w[p].pc \in PreLease \ {"idle", "takeover"}
    BY Zenon, <1>3, Labels
  <2>2. rec.phase = "active"
    BY Zenon, <1>1, <2>1, ReadIsPresent DEF Knows, Stands
  <2> QED
    BY Zenon, <2>2, ActiveOvertakes DEF Protocol
<1> QED
  BY Zenon, <1>2, <1>3

\* A write that is not applied ends the operation and changes nothing else.
LEMMA FailureKeepsProtocol ==
    ASSUME Types, Types', Protocol, NEW p \in Workers, \A q \in Workers : q # p => w'[q] = w[q],
           w'[p] = IdleWorker, UNCHANGED <<rec, fences, host>>
    PROVE  Protocol'
<1>1. rec.ver \in Nat \ {0} /\ fences \in Nat
  BY Numbers DEF Protocol
<1>2. Knows(p)' /\ w'[p].pc \notin Holding
  BY Zenon, <1>1, IdleKnows
<1>3. \A q \in Workers : q # p => Knows(q)'
  BY Zenon, StillKnows DEF Protocol
<1>4. ASSUME NEW q \in Workers, NEW s \in Workers, q # s PROVE Apart(q, s)'
  BY Zenon, <1>2, <1>4 DEF Protocol, Apart
<1> QED
  BY Zenon, <1>2, <1>3, <1>4 DEF Protocol

\* A compare-and-swap, after which the worker ends or holds what it wrote.
LEMMA SwapKeepsProtocol ==
    ASSUME Types, Types', Protocol, NEW p \in Workers, NEW next \in Worker, NEW value \in Record,
           NEW oc \in Outcomes, CompareAndSwap(p, value, oc), w' = [w EXCEPT ![p] = next],
           UNCHANGED host,
           \/ w[p].pc \in Holding \ FirstCall
           \/ w[p].pc \in {"histForget", "remember"} /\ value.phase = "active",
           \/ next = IdleWorker
           \/ /\ oc = "ok" /\ next.r = rec' /\ value.phase # "active"
              /\ w[p].pc \in Holding
              /\ next.pc \in Holding \ {"pull", "histCut", "seed", "tombstone"}
           \/ oc = "ok" /\ w[p].pc = "histForget" /\ next.pc = "republish" /\ next.r = w[p].r
    PROVE  Protocol'
<1>1. w'[p] = next /\ \A q \in Workers : q # p => w'[q] = w[q]
  BY Zenon DEF Types
<1>2. Knows(p) /\ rec.ver > 0 /\ rec.fence = fences /\ host.fence <= fences /\ fences' = fences
  BY Zenon DEF Protocol, CompareAndSwap
<1>3. CASE oc = "fail"
  <2>1. rec' = rec /\ next = IdleWorker
    BY Zenon, <1>3 DEF CompareAndSwap, Write
  <2> QED
    BY Zenon, <1>1, <1>2, <2>1, FailureKeepsProtocol
<1>4. CASE oc # "fail"
  <2>1. /\ w[p].r.ver = rec.ver /\ w[p].r.fence = rec.fence
        /\ rec'.ver = rec.ver + 1 /\ rec'.fence = fences /\ rec'.phase = value.phase
    BY Zenon, <1>2, <1>4 DEF CompareAndSwap, Write, Record
  <2>2. /\ host.fence = fences
        /\ \A q \in Workers : q # p /\ w[q].pc \in Holding => w[q].r.fence < host.fence
    BY Zenon, <2>1, WriterAlone
  <2>3. rec'.ver \in Nat \ {0} /\ rec.ver \in Nat /\ fences \in Nat
    BY <2>1, Numbers
  <2>4. Knows(p)' /\ (w'[p].pc \in Holding => w'[p].r.fence = w[p].r.fence /\ w[p].pc \in Holding
                                              /\ w'[p].pc \notin {"pull", "histCut"})
    <3>1. CASE next = IdleWorker
      BY Zenon, <1>1, <1>2, <2>3, <3>1, IdleKnows
    <3>2. CASE next.r = rec' /\ next.pc \in Holding \ {"pull", "histCut", "seed", "tombstone"}
               /\ value.phase # "active" /\ w[p].pc \in Holding
      <4>1. w'[p].r = rec' /\ w'[p].pc \in Holding \ {"seed", "tombstone"}
            /\ w'[p].pc \notin {"pull", "histCut"}
        BY Zenon, <1>1, <3>2
      <4>2. host'.fence = fences' /\ rec'.fence = fences' /\ rec'.phase # "active"
            /\ rec'.ver \in Nat /\ fences' \in Nat /\ w'[p].r.fence = w[p].r.fence
        BY Zenon, <1>2, <2>1, <2>2, <2>3, <3>2, <4>1
      <4> QED
        BY Zenon, <3>2, <4>1, <4>2, WriterKnows
    <3>3. CASE w[p].pc = "histForget" /\ next.pc = "republish" /\ next.r = w[p].r
      <4>1. w'[p].r = w[p].r /\ w'[p].pc = "republish" /\ w'[p].pc \notin Holding
        BY Zenon, <1>1, <3>3, Labels
      <4>2. w[p].r.phase = "active" /\ w[p].r.lease # "held"
        BY Zenon, <1>2, <3>3, Labels DEF Knows, Stands
      <4>3. w[p].r.ver # rec'.ver /\ w[p].r.ver <= rec'.ver
        BY <2>1, <2>3
      <4>4. Behind(p)'
        BY Zenon, <1>2, <4>1, <4>3 DEF Knows, Behind
      <4>5. Stands(p)' /\ Fenced(p)'
        BY Zenon, <4>1, <4>2 DEF Stands, Fenced
      <4> QED
        BY Zenon, <4>1, <4>4, <4>5 DEF Knows
    <3> QED
      BY Zenon, <3>1, <3>2, <3>3
  <2>5. ASSUME NEW q \in Workers, q # p PROVE Knows(q)'
    <3>1. Knows(q) /\ w'[q] = w[q] /\ w[q].r.ver <= rec.ver /\ w[q].r.fence <= fences'
      BY Zenon, <1>1, <1>2, <2>5 DEF Protocol, Knows, Behind
    <3>2. w[q].r.fence \in Nat /\ w[q].r.ver \in Nat
      BY Zenon, Numbers
    <3>3. w[q].r.ver < rec'.ver
      BY <2>1, <2>3, <3>1, <3>2
    <3>4. w[q].pc \in Holding => w[q].r.fence # fences' /\ w[q].r.fence < host.fence
      BY <1>2, <2>2, <2>3, <2>5, <3>2
    <3> QED
      BY Zenon, <3>1, <3>3, <3>4, KnowsLater
  <2>6. ASSUME NEW q \in Workers, NEW s \in Workers, q # s PROVE Apart(q, s)'
    <3>1. Apart(q, s)
      BY Zenon, <2>6 DEF Protocol
    <3>2. CASE q = p
      BY Zenon, <1>1, <2>4, <2>6, <3>1, <3>2 DEF Apart
    <3>3. CASE s = p
      BY Zenon, <1>1, <2>4, <2>6, <3>1, <3>3 DEF Apart
    <3>4. CASE q # p /\ s # p
      BY Zenon, <1>1, <3>1, <3>4 DEF Apart
    <3> QED
      BY Zenon, <3>2, <3>3, <3>4
  <2>7. rec'.ver > 0
    BY <2>3
  <2> QED
    BY Zenon, <1>2, <2>1, <2>2, <2>4, <2>5, <2>6, <2>7 DEF Protocol
<1> QED
  BY Zenon, <1>3, <1>4

\* A write that takes a lease, after which the worker ends or makes its first call.
LEMMA LeaseKeepsProtocol ==
    ASSUME Types, Types', Protocol, NEW p \in Workers, NEW next \in Worker, NEW value \in Record,
           NEW oc \in Outcomes, AcquireLease(p, value, oc), w' = [w EXCEPT ![p] = next],
           UNCHANGED host, value.phase # "active",
           \/ w[p].pc \in {"lease", "histLease"}
           \/ w[p].pc = "takeover" /\ value = w[p].r,
           \/ next = IdleWorker
           \/ /\ oc = "ok" /\ next.r = rec'
              /\ next.pc = IF w[p].pc = "takeover" THEN "inspect"
                           ELSE IF w[p].pc = "lease" THEN "pull" ELSE "histCut"
    PROVE  Protocol'
<1>1. w'[p] = next /\ \A q \in Workers : q # p => w'[q] = w[q]
  BY Zenon DEF Types
<1>2. Knows(p) /\ rec.ver > 0 /\ rec.fence = fences /\ host.fence <= fences
  BY Zenon DEF Protocol
<1>3. CASE oc = "fail"
  <2>1. rec' = rec /\ next = IdleWorker /\ fences' = fences
    BY Zenon, <1>3 DEF AcquireLease, Write
  <2> QED
    BY Zenon, <1>1, <2>1, FailureKeepsProtocol
<1>4. CASE oc # "fail"
  <2>1. /\ w[p].r.ver = rec.ver /\ fences' = fences + 1
        /\ rec'.ver = rec.ver + 1 /\ rec'.fence = fences + 1 /\ rec'.phase = value.phase
    BY Zenon, <1>4 DEF AcquireLease, Write, Record
  <2>2. Core(rec') = Core(value)
    BY Zenon, <1>4 DEF AcquireLease, Write, Record, Core
  <2>3. rec'.ver \in Nat \ {0} /\ rec.ver \in Nat /\ fences \in Nat /\ fences' \in Nat
        /\ host.fence \in Nat
    BY <2>1, Numbers
  <2>4. \A q \in Workers :
          w[q].pc \in Holding => w[q].r.fence < host.fence \/ Core(rec') = Core(rec)
    <3>1. CASE w[p].pc = "takeover"
      BY Zenon, <2>1, <2>2, <3>1, Labels, ReadIsPresent
    <3>2. CASE w[p].pc \in {"lease", "histLease"}
      <4>1. w[p].pc \in PreLease \ {"idle", "takeover"}
        BY Zenon, <3>2, Labels
      <4>2. rec.phase = "active"
        BY Zenon, <1>2, <2>1, <4>1, ReadIsPresent DEF Knows, Stands
      <4> QED
        BY Zenon, <4>2, ActiveOvertakes
    <3> QED
      BY Zenon, <3>1, <3>2
  <2>5. ASSUME NEW q \in Workers
        PROVE  w[q].r.fence \in Nat /\ w[q].r.fence < fences' /\ w[q].r.ver < rec'.ver
    <3>1. w[q].r.fence <= fences /\ w[q].r.ver <= rec.ver
      BY Zenon DEF Protocol, Knows, Behind
    <3>2. w[q].r.fence \in Nat /\ w[q].r.ver \in Nat
      BY Zenon, Numbers
    <3> QED
      BY <2>1, <2>3, <3>1, <3>2
  <2>6. ASSUME NEW q \in Workers, q # p PROVE Knows(q)'
    <3>1. Knows(q) /\ w'[q] = w[q]
      BY Zenon, <1>1, <2>6 DEF Protocol
    <3>2. w[q].r.fence # fences' /\ w[q].r.fence <= fences'
      BY <2>3, <2>5
    <3> QED
      BY Zenon, <2>4, <2>5, <3>1, <3>2, KnowsLater
  <2>7. Knows(p)' /\ (w'[p].pc \in Holding => w'[p].r.fence = fences')
    <3>1. CASE next = IdleWorker
      BY Zenon, <1>1, <2>3, <3>1, IdleKnows
    <3>2. CASE next.r = rec' /\ next.pc \in {"pull", "inspect", "histCut"}
      <4>1. w'[p].r = rec' /\ w'[p].pc \in Holding \ {"seed", "tombstone"}
            /\ w'[p].pc \in FirstCall
        BY Zenon, <1>1, <3>2, Labels DEF FirstCall
      <4>2. rec'.phase # "active" /\ rec'.fence = fences' /\ rec'.ver \in Nat
        BY Zenon, <2>1, <2>3
      <4> QED
        BY Zenon, <2>3, <4>1, <4>2, WriterKnows
    <3> QED
      BY Zenon, <3>1, <3>2
  <2>8. ASSUME w'[p].pc \in {"pull", "histCut"}, NEW q \in Workers, w[q].pc \in Holding
        PROVE  w[q].r.fence < host.fence
    <3>1. w[p].pc \in {"lease", "histLease"}
      BY <1>1, <2>8 DEF IdleWorker
    <3>2. w[p].pc \in PreLease \ {"idle", "takeover"}
      BY Zenon, <3>1, Labels
    <3>3. rec.phase = "active"
      BY Zenon, <1>2, <2>1, <3>2, ReadIsPresent DEF Knows, Stands
    <3> QED
      BY Zenon, <2>8, <3>3, ActiveOvertakes
  <2>9. ASSUME NEW q \in Workers, NEW s \in Workers, q # s PROVE Apart(q, s)'
    <3>1. Apart(q, s)
      BY Zenon, <2>9 DEF Protocol
    <3>2. w[q].r.fence # fences' /\ w[s].r.fence # fences' /\ ~(fences' < w[q].r.fence)
      BY <2>3, <2>5
    <3>3. CASE q = p
      BY Zenon, <1>1, <2>7, <2>8, <2>9, <3>2, <3>3 DEF Apart
    <3>4. CASE s = p
      BY Zenon, <1>1, <2>7, <2>9, <3>2, <3>4 DEF Apart
    <3>5. CASE q # p /\ s # p
      BY Zenon, <1>1, <3>1, <3>5 DEF Apart
    <3> QED
      BY Zenon, <3>3, <3>4, <3>5
  <2>10. rec'.ver > 0 /\ rec'.fence = fences' /\ host'.fence <= fences' /\ rec'.phase # "active"
    BY <1>2, <2>1, <2>3
  <2> QED
    BY Zenon, <2>6, <2>7, <2>9, <2>10 DEF Protocol
<1> QED
  BY Zenon, <1>3, <1>4

\* A read of the record, or the end of an operation.
LEMMA LocalKeepsProtocol ==
    ASSUME Types, Types', Protocol, NEW p \in Workers, NEW next \in Worker,
           w' = [w EXCEPT ![p] = next], UNCHANGED <<rec, fences, host>>,
           \/ next = IdleWorker
           \/ /\ next.r = rec /\ rec.phase = "active" /\ rec.lease # "held"
              /\ next.pc \in PreLease \ {"takeover", "seedLease"}
           \/ /\ next.r = rec /\ rec.phase # "active" /\ rec.lease # "held"
              /\ next.pc = "takeover"
    PROVE  Protocol'
<1>1. w'[p] = next /\ \A q \in Workers : q # p => w'[q] = w[q]
  BY Zenon DEF Types
<1>2. CASE next = IdleWorker
  BY Zenon, <1>1, <1>2, FailureKeepsProtocol
<1>3. CASE /\ next.r = rec /\ rec.lease # "held"
           /\ \/ rec.phase = "active" /\ next.pc \in PreLease \ {"takeover", "seedLease"}
              \/ rec.phase # "active" /\ next.pc = "takeover"
  <2>1. w'[p].r = rec /\ w'[p].pc \in PreLease \ {"seedLease"} /\ w'[p].pc \notin Holding
    BY Zenon, <1>1, <1>3, Labels
  <2>2. rec.fence = fences /\ fences \in Nat /\ rec.ver \in Nat
    BY Zenon, Numbers DEF Protocol
  <2>3. Behind(p)'
    BY <2>1, <2>2 DEF Behind, Current
  <2>4. w'[p].pc \notin {"seed", "tombstone"}
    BY Zenon, <2>1 DEF PreLease
  <2>5. Stands(p)' /\ Fenced(p)'
    BY Zenon, <1>1, <1>3, <2>1, <2>4 DEF Stands, Fenced
  <2>6. Knows(p)'
    BY Zenon, <2>3, <2>5 DEF Knows
  <2>7. \A q \in Workers : q # p => Knows(q)'
    BY Zenon, <1>1, StillKnows DEF Protocol
  <2>8. ASSUME NEW q \in Workers, NEW s \in Workers, q # s PROVE Apart(q, s)'
    BY <1>1, <2>1, <2>8 DEF Protocol, Apart
  <2> QED
    BY Zenon, <2>6, <2>7, <2>8 DEF Protocol
<1> QED
  BY Zenon, <1>2, <1>3

\* Steps of the environment: a deadline passes, the controller dies, an instance ends.
LEMMA EnvironmentKeepsProtocol ==
    ASSUME Types, Types', Protocol, ExpireLease \/ Crash \/ DrainedEnds \/ UNCHANGED vars
    PROVE  Protocol'
<1>1. CASE ExpireLease
  <2>1. /\ rec' = [rec EXCEPT !.lease = "expired"] /\ rec.lease = "held"
        /\ UNCHANGED <<fences, host, w>> /\ rec \in Record
    BY Zenon, <1>1 DEF ExpireLease, Types
  <2>2. Core(rec') = Core(rec) /\ UNCHANGED <<rec.ver, rec.fence, rec.phase>>
    BY Zenon, <2>1 DEF Core, Record
  <2>3. \A r \in Record : Current(r) => Current(r)'
    BY <2>1 DEF Current, Record
  <2>4. ASSUME NEW q \in Workers PROVE Knows(q)'
    <3>1. Knows(q) /\ w[q].r \in Record
      BY Zenon, Numbers DEF Protocol
    <3> HIDE DEF Core, Current
    <3>2. Behind(q)'
      BY Zenon, <2>1, <2>2, <2>3, <3>1 DEF Knows, Behind
    <3>3. Stands(q)' /\ Fenced(q)'
      BY Zenon, <2>1, <2>2, <3>1 DEF Knows, Stands, Fenced, Core
    <3> QED
      BY Zenon, <3>2, <3>3 DEF Knows
  <2>5. \A p, q \in Workers : Apart(p, q) => Apart(p, q)'
    BY Zenon, <2>1 DEF Apart
  <2> QED
    BY Zenon, <2>1, <2>2, <2>4, <2>5 DEF Protocol
<1>2. CASE Crash
  <2>1. \A p \in Workers : w'[p] = IdleWorker
    BY Zenon, <1>2 DEF Crash
  <2>2. UNCHANGED <<rec, fences, host>> /\ rec.ver \in Nat \ {0} /\ fences \in Nat
    BY <1>2 DEF Crash, Types, Protocol, Record, Ids
  <2>3. \A q \in Workers : Knows(q)' /\ w'[q].pc \notin Holding
    BY Zenon, <2>1, <2>2, IdleKnows
  <2> QED
    BY Zenon, <2>2, <2>3 DEF Protocol, Apart
<1>3. CASE DrainedEnds
  <2>1. PICK n \in Insts : host' = [host EXCEPT !.img[n] = NoImage, !.drained = @ \ {n}]
    BY Zenon, <1>3 DEF DrainedEnds, Types, Host
  <2>2. host'.fence = host.fence /\ UNCHANGED <<rec, fences, w>>
    BY Zenon, <1>3, <2>1 DEF DrainedEnds, Types, Host
  <2>3. \A q \in Workers : Knows(q)'
    BY Zenon, <2>2, StillKnows DEF Protocol
  <2> QED
    BY Zenon, <2>2, <2>3 DEF Protocol, Apart
<1>4. CASE UNCHANGED vars
  <2>1. UNCHANGED <<rec, fences, w, host>>
    BY Zenon, <1>4 DEF vars
  <2>2. \A q \in Workers : Knows(q)'
    BY Zenon, <2>1, StillKnows DEF Protocol
  <2> QED
    BY Zenon, <2>1, <2>2 DEF Protocol, Apart
<1> QED
  BY Zenon, <1>1, <1>2, <1>3, <1>4

\* What no step does: take a lease from its holder, hand out a token the executor has
\* seen, or stop a recorded instance while an operation is under way.
Moves ==
    /\ LeaseExclusive
    /\ FencesIncrease
    /\ ~Quiet => {rec.inst, rec.hist.inst} \cap Up \subseteq Up'

-----------------------------------------------------------------------------
(* What a call leaves of the executor's state.                             *)

\* The executor's state is that of h, but for the token.
Same(h) ==
    /\ host'.img = h.img /\ host'.route = h.route /\ host'.cand = h.cand
    /\ host'.served = h.served /\ host'.drained = h.drained /\ host'.last = h.last

LEMMA CallEffect ==
    ASSUME Types, ~Node, NEW p \in Workers, NEW able, NEW effect \in Host, NEW oc \in Outcomes,
           effect.fence = host.fence, CallIf(p, able, effect, oc)
    PROVE  /\ oc = "fail" => Same(host)
           /\ oc # "fail" => Accepts(p) /\ able /\ Same(effect)
           /\ host'.fence = (IF w[p].r.fence >= host.fence THEN w[p].r.fence ELSE host.fence)
<1> DEFINE after == IF oc = "fail" THEN host ELSE effect
<1>1. after \in Host /\ after.fence = host.fence
  BY Zenon, Numbers
<1>2. /\ oc # "fail" => Accepts(p) /\ able
      /\ host' = IF Accepts(p) THEN [after EXCEPT !.fence = w[p].r.fence] ELSE after
  BY Zenon DEF CallIf
<1> HIDE DEF after
<1>3. Same(after) /\ host'.fence = (IF Accepts(p) THEN w[p].r.fence ELSE host.fence)
  BY Zenon, <1>1, <1>2 DEF Same, Host
<1>4. Accepts(p) <=> w[p].r.fence >= host.fence
  BY Zenon DEF Accepts
<1> QED
  BY Zenon, <1>2, <1>3, <1>4 DEF after

\* The executor's part of the invariant does not mention the token.
LEMMA Unmoved ==
    ASSUME Same(host)
    PROVE  /\ Up' = Up /\ (HostSound => HostSound')
           /\ Inspect' = Inspect
           /\ \A r \in Record : Sound(r) => Sound(r)'
<1>1. Up' = Up
  BY Zenon DEF Same, Up
<1>2. HostSound => HostSound'
  BY Zenon, <1>1 DEF Same, HostSound
<1>3. Inspect' = Inspect
  BY Zenon, <1>1 DEF Same, Inspect
<1>4. \A r \in Record : Sound(r) => Sound(r)'
  BY ZenonT(40) DEF Same, Sound, Runs
<1> QED
  BY Zenon, <1>1, <1>2, <1>3, <1>4

\* The record and the copy of an accepted holder agree on what Sound says.
LEMMA SoundCore ==
    ASSUME NEW r \in Record, NEW s \in Record, Core(r) = Core(s), Sound(r)
    PROVE  Sound(s)
<1>1. /\ r.phase = s.phase /\ r.inst = s.inst /\ r.pend = s.pend /\ r.img = s.img
      /\ r.priorInst = s.priorInst /\ r.priorImg = s.priorImg /\ r.hist = s.hist
  BY Zenon DEF Core
<1> QED
  BY Zenon, <1>1 DEF Sound

\* Writing a sound value leaves the record sound: the number and the token a write adds
\* are not among what Sound reads.
LEMMA SoundWrite ==
    ASSUME rec' \in Record, Same(host), NEW value \in Record, Core(rec') = Core(value),
           Sound(value)
    PROVE  Sound(rec)'
<1>1. Sound(value)'
  BY Zenon, Unmoved
<1>2. /\ rec'.phase = value.phase /\ rec'.inst = value.inst /\ rec'.pend = value.pend
      /\ rec'.img = value.img /\ rec'.priorInst = value.priorInst
      /\ rec'.priorImg = value.priorImg /\ rec'.hist = value.hist
  BY Zenon DEF Core
<1> QED
  BY Zenon, <1>1, <1>2 DEF Sound

\* The executor does not move.
LEMMA HostStays ==
    ASSUME Types, NEW p \in Workers, UNCHANGED host
    PROVE  Same(host) /\ host'.fence \in Nat /\ host'.fence >= host.fence
  BY Numbers DEF Same

LEMMA ReadingFrame ==
    ASSUME NEW q \in Workers, w'[q] = w[q], Reading(q),
           w[q].pc = "histForget" /\ w[q].r.ver = rec'.ver => w[q].r.ver = rec.ver /\ Up' = Up
    PROVE  Reading(q)'
  BY Zenon DEF Reading

LEMMA SessionFrame ==
    ASSUME NEW q \in Workers, w'[q] = w[q], Same(host), Session(q)
    PROVE  Session(q)'
<1>1. Up' = Up
  BY Zenon, Unmoved
<1> QED
  BY ZenonT(40), <1>1 DEF Session, Same, HistoricalRollbackPending

\* Whoever is accepted after a call of p that was accepted is about to inspect.
LEMMA OthersInspect ==
    ASSUME Types, Protocol, NEW p \in Workers, NEW q \in Workers, q # p,
           w[p].pc \in Holding, w[q].pc \in Holding,
           w[p].r.fence >= host.fence, w[q].r.fence >= w[p].r.fence
    PROVE  w[q].pc = "inspect"
<1>1. Knows(q) /\ Apart(p, q) /\ Apart(q, p)
  BY Zenon DEF Protocol
<1>2. w[q].r.fence # w[p].r.fence
  BY Zenon, <1>1 DEF Apart
<1>3. w[p].r.fence \in Nat /\ w[q].r.fence \in Nat /\ host.fence \in Nat
  BY Zenon, Numbers
<1>4. /\ w[p].r.fence < w[q].r.fence /\ ~(w[p].r.fence < host.fence)
      /\ ~(host.fence >= w[q].r.fence)
  BY <1>2, <1>3
<1>5. w[q].pc \in FirstCall
  BY Zenon, <1>1, <1>4 DEF Knows, Fenced
<1>6. w[q].pc \notin {"pull", "histCut"}
  BY Zenon, <1>1, <1>4 DEF Apart
<1> QED
  BY Zenon, <1>5, <1>6 DEF FirstCall

\* The call of a holder keeps everything if it does so when it is accepted.
LEMMA CallKeeps ==
    ASSUME Types, Types', Protocol, Content, ~Node, NEW p \in Workers, NEW next \in Worker,
           NEW able, NEW effect \in Host, NEW oc \in Outcomes,
           effect.fence = host.fence, CallIf(p, able, effect, oc),
           w' = [w EXCEPT ![p] = next], next.r = w[p].r, UNCHANGED <<rec, fences>>,
           w[p].pc \in Holding, next.pc \in Holding \ (FirstCall \cup {"seed", "tombstone"}),
           Accepts(p) => /\ HostSound' /\ Sound(rec)' /\ Session(p)'
                         /\ {rec.inst, rec.hist.inst} \cap Up \subseteq Up'
    PROVE  Protocol' /\ Content' /\ Moves
<1>1. w'[p] = next /\ \A q \in Workers : q # p => w'[q] = w[q]
  BY Zenon DEF Types
<1>2. /\ oc = "fail" => Same(host)
      /\ oc # "fail" => Accepts(p) /\ Same(effect)
      /\ host'.fence = (IF w[p].r.fence >= host.fence THEN w[p].r.fence ELSE host.fence)
  BY Zenon, CallEffect
<1>3. Protocol'
  BY Zenon, <1>2, CallKeepsProtocol
<1>4. Accepts(p) <=> w[p].r.fence >= host.fence
  BY Zenon DEF Accepts
<1>5. Reading(p)'
  <2>1. Reading(p)
    BY Zenon DEF Content
  <2> QED
    BY Zenon, <1>1, <2>1 DEF Reading, Holding
<1>8. LeaseExclusive /\ FencesIncrease
  BY Zenon DEF LeaseExclusive, FencesIncrease
<1>6. CASE ~Accepts(p)
  <2>1. Same(host) /\ host'.fence = host.fence /\ Up' = Up /\ HostSound' /\ Sound(rec)'
    BY Zenon, <1>2, <1>4, <1>6, Unmoved, Numbers DEF Content
  <2>2. ~Accepts(p)'
    BY Zenon, <1>1, <1>2, <1>4, <1>6 DEF Accepts
  <2>3. ASSUME NEW q \in Workers, q # p
        PROVE  Reading(q)' /\ (Holds(q)' /\ Accepts(q)' => Session(q)')
    <3>1. w'[q] = w[q] /\ Reading(q) /\ (Holds(q) /\ Accepts(q) => Session(q))
      BY Zenon, <1>1, <2>3 DEF Content
    <3>2. Reading(q)'
      BY Zenon, <2>1, <3>1, ReadingFrame
    <3>3. Holds(q)' /\ Accepts(q)' => Holds(q) /\ Accepts(q)
      BY Zenon, <2>1, <3>1 DEF Holds, Accepts
    <3> QED
      BY Zenon, <2>1, <3>1, <3>2, <3>3, SessionFrame
  <2> QED
    BY Zenon, <1>3, <1>5, <1>8, <2>1, <2>2, <2>3 DEF Content, Moves
<1>7. CASE Accepts(p)
  <2>1. rec.phase # "active"
    <3>1. rec.phase = "active" => w[p].r.fence < host.fence
      BY Zenon, ActiveOvertakes
    <3>2. w[p].r.fence \in Nat /\ host.fence \in Nat
      BY Zenon, Numbers
    <3> QED
      BY <1>4, <1>7, <3>1, <3>2
  <2>2. ASSUME NEW q \in Workers, q # p
        PROVE  Reading(q)' /\ (Holds(q)' /\ Accepts(q)' => Session(q)')
    <3>1. w'[q] = w[q] /\ Reading(q) /\ Knows(q)
      BY Zenon, <1>1, <2>2 DEF Content, Protocol
    <3>2. Reading(q)'
      <4>1. w[q].pc = "histForget" => w[q].r.ver # rec.ver
        BY Zenon, <2>1, <3>1, ReadIsPresent DEF Knows, Stands, PreLease
      <4> QED
        BY Zenon, <3>1, <4>1, ReadingFrame
    <3>3. ASSUME Holds(q)', Accepts(q)' PROVE Session(q)'
      <4>1. w[q].pc \in Holding /\ w[q].r.fence >= w[p].r.fence
        BY Zenon, <1>2, <1>4, <1>7, <3>1, <3>3 DEF Holds, Accepts
      <4>2. w'[q].pc = "inspect"
        BY Zenon, <1>4, <1>7, <2>2, <3>1, <4>1, OthersInspect
      <4> QED
        BY Zenon, <4>2 DEF Session, RollingBackLabels
    <3> QED
      BY Zenon, <3>2, <3>3
  <2> QED
    BY Zenon, <1>3, <1>5, <1>7, <1>8, <2>2 DEF Content, Moves
<1> QED
  BY Zenon, <1>6, <1>7

\* What a holder knows as long as the executor accepts it.
LEMMA Accepted ==
    ASSUME Types, Protocol, Content, NEW p \in Workers, w[p].pc \in Holding, Accepts(p), ~Node
    PROVE  Session(p) /\ Sound(w[p].r) /\ w[p].r.phase # "active" /\ HostSound
           /\ Core(rec) = Core(w[p].r)
<1>1. Knows(p) /\ Sound(rec) /\ HostSound /\ Session(p)
  BY Zenon DEF Protocol, Content, Holds
<1>2. Core(rec) = Core(w[p].r) /\ w[p].r.phase # "active"
  BY Zenon, <1>1 DEF Knows, Stands, Fenced, Accepts
<1> QED
  BY Zenon, <1>1, <1>2, SoundCore, Numbers

\* What is neither about p nor about the record is kept while the executor's state is.
LEMMA Others ==
    ASSUME Types, Content, NEW p \in Workers, Same(host), host'.fence \in Nat,
           host'.fence >= host.fence,
           \A q \in Workers : q # p => w'[q] = w[q],
           \A q \in Workers : q # p /\ w[q].r.ver = rec'.ver => rec'.ver = rec.ver
    PROVE  /\ HostSound'
           /\ \A q \in Workers : q # p =>
                Reading(q)' /\ (Holds(q)' /\ Accepts(q)' => Session(q)')
<1>1. HostSound' /\ Up' = Up
  BY Zenon, Unmoved DEF Content
<1>2. ASSUME NEW q \in Workers, q # p
      PROVE  Reading(q)' /\ (Holds(q)' /\ Accepts(q)' => Session(q)')
  <2>1. w'[q] = w[q] /\ Reading(q) /\ (Holds(q) /\ Accepts(q) => Session(q))
    BY Zenon, <1>2 DEF Content
  <2>2. Reading(q)'
    BY Zenon, <1>1, <1>2, <2>1, ReadingFrame
  <2>3. Holds(q)' /\ Accepts(q)' => Holds(q) /\ Accepts(q)
    BY <2>1, Numbers DEF Holds, Accepts
  <2> QED
    BY Zenon, <2>1, <2>2, <2>3, SessionFrame
<1> QED
  BY Zenon, <1>1, <1>2

LEMMA IdleContent ==
    ASSUME NEW p \in Workers, w'[p] = IdleWorker
    PROVE  Reading(p)' /\ ~Holds(p)'
  BY DEF IdleWorker, Reading, Holds, Holding

LEMMA SwapKeeps ==
    ASSUME Types, Types', Protocol, Content, ~Node, NEW p \in Workers, NEW next \in Worker,
           NEW value \in Record, NEW oc \in Outcomes, CompareAndSwap(p, value, oc),
           w' = [w EXCEPT ![p] = next], UNCHANGED host,
           \/ /\ w[p].pc \in Holding \ FirstCall
              /\ Session(p) /\ Sound(w[p].r) => Sound(value)
           \/ /\ w[p].pc \in {"histForget", "remember"} /\ value.phase = "active"
              /\ rec = w[p].r => Sound(value),
           \/ next = IdleWorker
           \/ /\ oc = "ok" /\ next.r = rec' /\ value.phase # "active"
              /\ w[p].pc \in Holding
              /\ next.pc \in Holding \ {"pull", "histCut", "seed", "tombstone"}
              /\ Session(p) /\ Sound(w[p].r) => Session(p)'
           \/ /\ oc = "ok" /\ w[p].pc = "histForget" /\ next.pc = "republish"
              /\ next.r = w[p].r /\ next.img \in Images
    PROVE  Protocol' /\ Content' /\ Moves
<1>1. w'[p] = next /\ \A q \in Workers : q # p => w'[q] = w[q]
  BY Zenon DEF Types
<1>2. Protocol'
  BY Zenon, SwapKeepsProtocol
<1>3. Same(host) /\ host'.fence \in Nat /\ host'.fence >= host.fence
  BY Zenon, HostStays
<1>4. Knows(p) /\ rec.fence = fences /\ host.fence <= fences
  BY Zenon DEF Protocol
<1>7. Moves
  <2>1. LeaseExclusive
    BY Zenon DEF LeaseExclusive, CompareAndSwap, Write, Record
  <2>2. FencesIncrease
    BY Zenon DEF FencesIncrease, CompareAndSwap, Write, Record
  <2> QED
    BY Zenon, <1>3, <2>1, <2>2, Unmoved DEF Moves
<1>5. CASE oc = "fail"
  <2>1. rec' = rec /\ w'[p] = IdleWorker
    BY Zenon, <1>1, <1>5 DEF CompareAndSwap, Write
  <2>2. Sound(rec)'
    BY Zenon, <1>3, <2>1, Unmoved, Numbers DEF Content
  <2> QED
    BY Zenon, <1>1, <1>2, <1>3, <2>1, <2>2, Others, IdleContent, <1>7 DEF Content
<1>6. CASE oc # "fail"
  <2>1. /\ w[p].r.ver = rec.ver /\ w[p].r.fence = rec.fence /\ rec'.ver = rec.ver + 1
        /\ Core(rec') = Core(value)
    <3>1. w[p].r.ver = rec.ver /\ w[p].r.fence = rec.fence /\ rec'.ver = rec.ver + 1
      BY Zenon, <1>6 DEF CompareAndSwap, Write, Record
    <3>2. Core(rec') = Core(value)
      BY Zenon, <1>6 DEF CompareAndSwap, Write, Record, Core
    <3> QED
      BY Zenon, <3>1, <3>2
  <2>2. rec' \in Record
    BY Zenon DEF Types
  <2>3. w[p].pc \in Holding => Session(p) /\ Sound(w[p].r)
    BY Zenon, <1>4, <2>1, Accepted, Numbers DEF Accepts
  <2>4. w[p].pc \in {"histForget", "remember"} => rec = w[p].r
    BY Zenon, <1>4, <2>1, ReadIsPresent DEF Knows, Stands, PreLease
  <2>5. Sound(value)
    BY Zenon, <2>3, <2>4
  <2>6. Sound(rec)'
    BY Zenon, <1>3, <2>1, <2>2, <2>5, SoundWrite
  <2>7. \A q \in Workers : q # p /\ w[q].r.ver = rec'.ver => rec'.ver = rec.ver
    BY Zenon, <2>1, Unread
  <2>8. Reading(p)' /\ (Holds(p)' /\ Accepts(p)' => Session(p)')
    <3>1. CASE next = IdleWorker
      BY Zenon, <1>1, <3>1, IdleContent
    <3>2. CASE next.pc \in Holding /\ Session(p)' /\ next.r = rec' /\ value.phase # "active"
      <4>1. rec'.priorImg \in Images
        BY Zenon, <2>1, <2>5, <3>2 DEF Sound, Core
      <4> QED
        BY Zenon, <1>1, <3>2, <4>1 DEF Reading, Holding
    <3>3. CASE next.pc = "republish" /\ next.img \in Images
      BY Zenon, <1>1, <3>3 DEF Reading, Holds, Holding
    <3> QED
      BY Zenon, <2>3, <3>1, <3>2, <3>3
  <2> QED
    BY Zenon, <1>1, <1>2, <1>3, <2>6, <2>7, <2>8, Others, <1>7 DEF Content
<1> QED
  BY Zenon, <1>5, <1>6

LEMMA LeaseKeeps ==
    ASSUME Types, Types', Protocol, Content, ~Node, NEW p \in Workers, NEW next \in Worker,
           NEW value \in Record, NEW oc \in Outcomes, AcquireLease(p, value, oc),
           w' = [w EXCEPT ![p] = next], UNCHANGED host, value.phase # "active",
           \/ w[p].pc \in {"lease", "histLease"}
           \/ w[p].pc = "takeover" /\ value = w[p].r,
           rec = w[p].r => Sound(value),
           \/ next = IdleWorker
           \/ /\ oc = "ok" /\ next.r = rec'
              /\ next.pc = IF w[p].pc = "takeover" THEN "inspect"
                           ELSE IF w[p].pc = "lease" THEN "pull" ELSE "histCut"
              /\ rec = w[p].r => Session(p)'
    PROVE  Protocol' /\ Content' /\ Moves
<1>1. w'[p] = next /\ \A q \in Workers : q # p => w'[q] = w[q]
  BY Zenon DEF Types
<1>2. Protocol'
  BY Zenon, LeaseKeepsProtocol
<1>3. Same(host) /\ host'.fence \in Nat /\ host'.fence >= host.fence
  BY Zenon, HostStays
<1>4. Knows(p)
  BY Zenon DEF Protocol
<1>7. Moves
  <2>1. oc # "fail" => rec.lease # "held"
    BY Zenon, <1>4, ReadIsPresent DEF Knows, Stands, PreLease, AcquireLease, Write
  <2>2. oc # "fail" => rec'.fence > host.fence
    <3>1. oc # "fail" => rec'.fence = fences + 1
      BY DEF AcquireLease, Write, Record
    <3>2. host.fence <= fences /\ fences \in Nat /\ host.fence \in Nat
      BY Zenon, Numbers DEF Protocol
    <3> QED
      BY <3>1, <3>2
  <2>3. oc = "fail" => rec' = rec
    BY Zenon DEF AcquireLease, Write
  <2> QED
    BY Zenon, <1>3, <2>1, <2>2, <2>3, Unmoved DEF Moves, LeaseExclusive, FencesIncrease
<1>5. CASE oc = "fail"
  <2>1. rec' = rec /\ w'[p] = IdleWorker
    BY Zenon, <1>1, <1>5 DEF AcquireLease, Write
  <2>2. Sound(rec)'
    BY Zenon, <1>3, <2>1, Unmoved, Numbers DEF Content
  <2> QED
    BY Zenon, <1>1, <1>2, <1>3, <2>1, <2>2, Others, IdleContent, <1>7 DEF Content
<1>6. CASE oc # "fail"
  <2>1. w[p].r.ver = rec.ver /\ rec'.ver = rec.ver + 1 /\ Core(rec') = Core(value)
    BY Zenon, <1>6, Numbers DEF AcquireLease, Write, Record, Core
  <2>2. rec' \in Record
    BY Zenon DEF Types
  <2>3. rec = w[p].r
    BY Zenon, <1>4, <2>1, ReadIsPresent DEF Knows, Stands, PreLease
  <2>4. Sound(rec)'
    BY Zenon, <1>3, <2>1, <2>2, <2>3, SoundWrite
  <2>5. \A q \in Workers : q # p /\ w[q].r.ver = rec'.ver => rec'.ver = rec.ver
    BY Zenon, <2>1, Unread
  <2>6. Reading(p)' /\ (Holds(p)' /\ Accepts(p)' => Session(p)')
    <3>1. CASE next = IdleWorker
      BY Zenon, <1>1, <3>1, IdleContent
    <3>2. CASE next.pc \in FirstCall /\ Session(p)' /\ next.r = rec'
      <4>1. rec'.priorImg \in Images
        BY Zenon, <2>1, <2>3 DEF Sound, Core
      <4> QED
        BY Zenon, <1>1, <3>2, <4>1 DEF Reading, FirstCall
    <3> QED
      BY Zenon, <2>3, <3>1, <3>2 DEF FirstCall
  <2> QED
    BY Zenon, <1>1, <1>2, <1>3, <2>4, <2>5, <2>6, Others, <1>7 DEF Content
<1> QED
  BY Zenon, <1>5, <1>6

LEMMA LocalKeeps ==
    ASSUME Types, Types', Protocol, Content, ~Node, NEW p \in Workers, NEW next \in Worker,
           w' = [w EXCEPT ![p] = next], UNCHANGED <<rec, fences, host>>,
           \/ next = IdleWorker
           \/ /\ next.r = rec /\ rec.phase = "active" /\ rec.lease # "held"
              /\ next.pc \in PreLease \ {"takeover", "seedLease"} /\ Reading(p)'
           \/ /\ next.r = rec /\ rec.phase # "active" /\ rec.lease # "held"
              /\ next.pc = "takeover"
    PROVE  Protocol' /\ Content' /\ Moves
<1>1. w'[p] = next /\ \A q \in Workers : q # p => w'[q] = w[q]
  BY Zenon DEF Types
<1>2. Protocol'
  BY Zenon, LocalKeepsProtocol
<1>3. Same(host) /\ host'.fence \in Nat /\ host'.fence >= host.fence
  BY Zenon, HostStays
<1>4. Sound(rec)'
  BY Zenon, <1>3, Unmoved, Numbers DEF Content
<1>5. Reading(p)' /\ ~Holds(p)'
  <2>1. CASE next = IdleWorker
    BY Zenon, <1>1, <2>1, IdleContent
  <2>2. CASE next.pc \in PreLease /\ Reading(p)'
    BY Zenon, <1>1, <2>2 DEF Holds, Holding, PreLease
  <2>3. CASE next.pc = "takeover"
    BY Zenon, <1>1, <2>3 DEF Reading, Holds, Holding
  <2> QED
    BY Zenon, <2>1, <2>2, <2>3
<1>6. Moves
  BY Zenon, <1>3, Unmoved DEF Moves, LeaseExclusive, FencesIncrease
<1> QED
  BY Zenon, <1>1, <1>2, <1>3, <1>4, <1>5, <1>6, Others DEF Content

LEMMA EnvironmentKeeps ==
    ASSUME Types, Types', Protocol, Content, ~Node,
           ExpireLease \/ Crash \/ DrainedEnds \/ UNCHANGED vars
    PROVE  Protocol' /\ Content' /\ Moves
<1>1. Protocol'
  BY Zenon, EnvironmentKeepsProtocol
<1>2. rec \in Record /\ rec' \in Record /\ host \in Host /\ host.fence \in Nat
  <2>1. rec \in Record /\ rec' \in Record /\ host \in Host
    BY Zenon DEF Types
  <2>2. host.fence \in Ids
    BY Zenon, <2>1 DEF Host
  <2> QED
    BY <2>1, <2>2
<1>3. CASE ExpireLease \/ UNCHANGED vars
  <2>1. UNCHANGED <<host, w>> /\ Core(rec') = Core(rec) /\ rec'.ver = rec.ver /\ rec'.fence = rec.fence
        /\ (rec.lease # "held" => rec'.lease # "held")
    BY <1>2, <1>3 DEF ExpireLease, vars, Core, Record
  <2>2. Same(host)
    BY Zenon, <2>1 DEF Same
  <2>3. Up' = Up /\ HostSound'
    BY Zenon, <2>2, Unmoved DEF Content
  <2>4. Sound(rec)'
    BY ZenonT(40), <1>2, <2>1, SoundCore DEF Content, Sound, Runs
  <2>5. ASSUME NEW q \in Workers PROVE Reading(q)' /\ (Holds(q)' /\ Accepts(q)' => Session(q)')
    BY Zenon, <2>1, <2>2, <2>3, SessionFrame DEF Content, Reading, Holds, Accepts
  <2>6. Moves
    BY Zenon, <2>1, <2>3 DEF Moves, LeaseExclusive, FencesIncrease
  <2> QED
    BY Zenon, <1>1, <2>3, <2>4, <2>5, <2>6 DEF Content
<1>4. CASE Crash
  <2>1. UNCHANGED <<rec, host>> /\ \A p \in Workers : w'[p] = IdleWorker
    BY Zenon, <1>4 DEF Crash
  <2>2. Same(host)
    BY Zenon, <2>1 DEF Same
  <2>3. Up' = Up /\ HostSound' /\ Sound(rec)'
    BY Zenon, <1>2, <2>1, <2>2, Unmoved DEF Content
  <2>4. Moves
    BY Zenon, <2>1, <2>3 DEF Moves, LeaseExclusive, FencesIncrease
  <2> QED
    BY Zenon, <1>1, <2>1, <2>3, <2>4, IdleContent DEF Content
<1>5. CASE DrainedEnds
  <2>1. PICK n \in host.drained \ {host.route} :
          host' = [host EXCEPT !.img[n] = NoImage, !.drained = @ \ {n}]
    BY Zenon, <1>5 DEF DrainedEnds
  <2>2. Quiet /\ UNCHANGED <<rec, w>> /\ HostSound /\ Sound(rec)
    BY Zenon, <1>5 DEF DrainedEnds, Content
  <2>3. n \in Insts /\ n \in host.served /\ n # host.cand /\ n # host.route
    BY Zenon, <1>2, <2>1, <2>2 DEF Host, HostSound
  <2>4. /\ host'.img = [host.img EXCEPT ![n] = NoImage] /\ host'.drained = host.drained \ {n}
        /\ host'.route = host.route /\ host'.cand = host.cand /\ host'.served = host.served
        /\ host'.last = host.last /\ host.img \in [Insts -> AnyImage]
        /\ host.cand \in Ids /\ host.route \in Ids /\ host.served \subseteq Insts
    BY Zenon, <1>2, <2>1 DEF Host
  <2>5. Up' = Up \ {n}
    BY Zenon, <2>3, <2>4 DEF Up
  <2>6. HostSound'
    BY Zenon, <2>2, <2>3, <2>4, <2>5 DEF HostSound
  <2>7. \A m \in Insts : \A image : Runs(m, image) => Runs(m, image)'
    BY Zenon, <2>3, <2>4 DEF Runs
  <2>8. Sound(rec)'
    <3>1. rec.pend = 0 /\ host.cand # 0 => host'.img[host.cand] = host.img[host.cand]
      <4>1. host.cand # 0 => host.cand \in Insts
        BY <2>4
      <4> QED
        BY Zenon, <2>3, <2>4, <4>1
    <3> QED
      BY Zenon, <2>2, <2>4, <2>7, <3>1 DEF Sound
  <2>9. \A p \in Workers : w'[p].pc = "idle"
    BY Zenon, <2>2 DEF Quiet, At, Types
  <2>10. \A p \in Workers : Reading(p)' /\ ~Holds(p)'
    BY <2>9 DEF Reading, Holds, Holding
  <2>11. Moves
    BY Zenon, <2>2 DEF Moves, LeaseExclusive, FencesIncrease
  <2> QED
    BY Zenon, <1>1, <2>6, <2>8, <2>10, <2>11 DEF Content
<1> QED
  BY <1>3, <1>4, <1>5
=============================================================================
