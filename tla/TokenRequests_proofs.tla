------------------------ MODULE TokenRequests_proofs ------------------------
(***************************************************************************)
(* The invariant of the mappings, for every set of suffixes and concurrent *)
(* requests and every bound, and the steps of requests outside the save.   *)
(*                                                                         *)
(* The argument follows a secret through its life.  It is created by one   *)
(* operation, whose record names the epoch (Journalled), so that of all    *)
(* running requests only the one with that operation's key can map it      *)
(* (Keyed, Held); a suffix that gives it up retires the epoch, so that a   *)
(* repeated create finds out (Sound: the last two conjuncts); and a create *)
(* that is about to store it therefore stores a secret that nobody maps    *)
(* (Fresh).  Between the change of the memory and the answer of the save   *)
(* the request that holds catalogMu carries the memory before and the      *)
(* snapshot after the change (Saving).                                     *)
(***************************************************************************)
EXTENDS TokenMappings, WellFoundedInduction, TLAPS

\* The provers' time limits, in seconds.
USE SMTT(20), ZenonT(20)

AnyRef == Suffixes \X Nat

Mapping == [ref : AnyRef \cup {None}, ver : Nat, epoch : Nat]

Memory == [map : [Suffixes -> Mapping], retired : [Suffixes -> Nat]]

Places == {"done", "inspect", "lookup", "apply", "replay", "rotate", "reserve", "enroll", "refused",
           "next", "save", "saveReplay", "reveal"}

KindNames == {"create", "share", "rename", "rotate", "delete", "resolve"}

Asked == [kind : KindNames, s : Suffixes, t : Suffixes, key : Nat]

Requests == [at : Places, kind : KindNames \cup {"none"}, s : Suffixes \cup {None},
             t : Suffixes \cup {None}, key : Nat, epoch : Nat, m : Mapping,
             prev : Memory \cup {None}, next : Memory \cup {None}, ok : BOOLEAN]

\* The places that only some kinds of request reach, and what they have in hand there.
Placed(p) ==
    LET r == req[p]
    IN  /\ r.at # "done" => Request(p) \in Asked
        /\ r.at = "inspect" => r.kind \in {"create", "rotate"}
        /\ r.at \in {"replay", "reserve", "enroll", "refused", "next", "saveReplay"} => r.kind = "create"
        /\ r.at = "rotate" => r.kind = "rotate" /\ r.m.ref # None
        /\ r.at \in {"save", "saveReplay"} => r.prev \in Memory /\ r.next \in Memory
        /\ r.at = "apply" => r.kind # "resolve"
        /\ r.at = "apply" /\ r.kind = "rotate" => r.m.ref # None /\ r.m.ver > 0

\* The secrets that exist.
Known == {v.ref : v \in vault}

Typed ==
    /\ req \in [Callers -> Requests]
    /\ \A p \in Callers : Placed(p)
    /\ failed \in {None} \cup Asked
    /\ requests \in Nat
    /\ vault \subseteq [ref : AnyRef, ver : Nat, tok : Nat]
    /\ gone \subseteq Known

\* An outcome names a secret that exists; a create has made the one of its epoch, and no two
\* creates have made the same.
Journalled ==
    /\ \A o \in journal : o.ref \in AnyRef /\ o.ver \in Nat /\ o.ver > 0 /\ o.ref \in Known
    /\ \A o \in journal : o.op[2] = "create" => o.ref = <<o.op[3], o.op[4]>> /\ o.ver = 1
    /\ \A o, x \in journal : o.op[2] = "create" /\ x.op[2] = "create" /\ o.ref = x.ref => o.op = x.op

\* Running requests, and the one that may be repeated, have keys of their own.
Keyed ==
    /\ \A p \in Callers : ~At(p, "done") => req[p].key <= requests
    /\ \A p, q \in Callers : ~At(p, "done") /\ ~At(q, "done") /\ req[p].key = req[q].key => p = q
    /\ failed # None => /\ failed.key <= requests
                        /\ \A p \in Callers : ~At(p, "done") => req[p].key # failed.key

\* Mappings have secrets, and not deleted ones.
Backed(memory, known, deleted, replaced) ==
    \A s \in Suffixes : Configured(memory.map[s]) =>
        /\ memory.map[s].ref \in known /\ memory.map[s].ver > 0
        /\ memory.map[s].ref \in deleted => memory.map[s].ref \in replaced

\* Mappings agree on the version of a shared secret.
Agreeing(memory, replaced) ==
    \A s, t \in Suffixes : memory.map[s].ref = memory.map[t].ref /\ memory.map[s].ref \notin replaced
        => memory.map[s].ver = memory.map[t].ver

\* Whoever maps the secret of an epoch of s, s itself maps it or has retired the epoch.
Traced(memory, replaced) ==
    \A s, t \in Suffixes : \A e \in Nat : memory.map[t].ref = <<s, e>> =>
        \/ <<s, e>> \in replaced \/ memory.retired[s] >= e
        \/ memory.map[s].ref = <<s, e>> /\ memory.map[s].epoch >= e

\* The epoch of a deleted secret is retired.
Spent(memory, deleted, replaced) ==
    \A s \in Suffixes : \A e \in Nat :
        <<s, e>> \in deleted => <<s, e>> \in replaced \/ memory.retired[s] >= e

Sound(memory, tearing, known, deleted, replaced) ==
    /\ memory \in Memory
    /\ \A s \in Suffixes : ~Configured(memory.map[s]) => memory.map[s].ver = 0
    /\ Backed(memory, known, deleted, replaced)
    /\ Agreeing(memory, replaced)
    /\ Traced(memory, replaced \cup tearing)
    /\ Spent(memory, deleted, replaced)

Holder(p) == req[p].at \in {"save", "saveReplay"}

\* A change that is being saved.
Saving(p) ==
    LET prev == req[p].prev
        next == req[p].next
    IN  /\ Sound(prev, {}, Known, gone, torn)
        /\ Sound(next, Replaced(p), Known, gone, torn)
        /\ Sound(mem, Replaced(p), Known, gone, torn)
        /\ disk.map = Snapshot(prev).map /\ next.map = Snapshot(mem).map
        /\ Snapshot(next).map = next.map
        /\ \A s \in Suffixes : prev.retired[s] <= next.retired[s] /\ next.retired[s] <= mem.retired[s]
        /\ req[p].kind = "delete" => \A s \in Suffixes :
              next.map[s].ref # prev.map[s].ref => next.retired[s] >= prev.map[s].epoch

\* The secret of its own epoch that a create has in hand.
Own(p) == SecretRef(req[p].s, req[p].epoch)

Held(p) ==
    req[p].kind = "create" /\ req[p].at \in {"replay", "saveReplay", "apply", "save"} =>
        /\ req[p].m = [ref |-> Own(p), ver |-> 1, epoch |-> req[p].epoch]
        /\ \E o \in journal : o.op = Operation(p) /\ o.ref = Own(p)

Unmapped(ref, memory) == \A s \in Suffixes : memory.map[s].ref # ref

\* A create that is about to store maps a secret that nobody maps or has given up.
Fresh(p) ==
    /\ req[p].kind = "create"
    /\ At(p, "apply") \/ (At(p, "saveReplay") /\ ~Configured(req[p].next.map[req[p].s]))
    => \/ Own(p) \in torn
       \/ /\ Unmapped(Own(p), mem) /\ Unmapped(Own(p), disk) /\ Own(p) \notin gone
          /\ \A q \in Callers : Holder(q) => Unmapped(Own(p), req[q].prev) /\ Unmapped(Own(p), req[q].next)

OneHolder == \A p, q \in Callers : Holder(p) /\ Holder(q) => p = q

Inductive ==
    /\ Typed /\ Journalled /\ Keyed /\ OneHolder /\ DiskFollows
    /\ Snapshot(disk).map = disk.map
    /\ ~Locked => Sound(mem, {}, Known, gone, torn)
    /\ Sound(disk, {}, Known, gone, torn)
    /\ \A p \in Callers : Held(p) /\ Fresh(p) /\ (Holder(p) => Saving(p))

-----------------------------------------------------------------------------
(* Memories.                                                               *)

\* No secret is called None.
LEMMA RefIsNotNone == \A s, e : <<s, e>> # None
  BY DEF None

LEMMA NoMappingTyped == NoMapping \in Mapping /\ NoMapping.ref = None /\ NoMapping.ver = 0
                        /\ NoMapping.epoch = 0 /\ ~Configured(NoMapping)
  BY DEF NoMapping, Mapping, Configured

LEMMA MemoryFields ==
    ASSUME NEW memory \in Memory, NEW s \in Suffixes
    PROVE  /\ memory.map \in [Suffixes -> Mapping] /\ memory.retired \in [Suffixes -> Nat]
           /\ memory.map[s] \in Mapping /\ memory.retired[s] \in Nat
           /\ memory.map[s].ref \in AnyRef \cup {None} /\ memory.map[s].ver \in Nat
           /\ memory.map[s].epoch \in Nat
  BY DEF Memory, Mapping

\* The catalog of a memory.
LEMMA SnapshotFields ==
    ASSUME NEW memory \in Memory
    PROVE  /\ Snapshot(memory) \in Memory /\ Snapshot(memory).retired = memory.retired
           /\ Snapshot(memory).map
                 = [s \in Suffixes |-> IF Configured(memory.map[s]) THEN memory.map[s] ELSE NoMapping]
           /\ \A s \in Suffixes : Snapshot(memory).map[s]
                 = (IF Configured(memory.map[s]) THEN memory.map[s] ELSE NoMapping)
  <1> DEFINE f == [s \in Suffixes |-> IF Configured(memory.map[s]) THEN memory.map[s] ELSE NoMapping]
  <1>1. f \in [Suffixes -> Mapping]
    BY NoMappingTyped DEF Memory
  <1>2. Snapshot(memory) = [memory EXCEPT !.map = f]
    BY DEF Snapshot
  <1>3. \A s \in Suffixes : f[s] = (IF Configured(memory.map[s]) THEN memory.map[s] ELSE NoMapping)
    OBVIOUS
  <1> HIDE DEF f
  <1>4. Snapshot(memory) \in Memory /\ Snapshot(memory).retired = memory.retired
        /\ Snapshot(memory).map = f
    BY <1>1, <1>2 DEF Memory
  <1> QED
    BY <1>3, <1>4 DEF f

\* Two memories with the same configured mappings have the same catalog.
LEMMA SameCatalog ==
    ASSUME NEW old \in Memory, NEW new \in Memory,
           \A s \in Suffixes : Configured(old.map[s]) \/ Configured(new.map[s]) => new.map[s] = old.map[s]
    PROVE  Snapshot(new).map = Snapshot(old).map
  <1>1. \A s \in Suffixes : (IF Configured(new.map[s]) THEN new.map[s] ELSE NoMapping)
                              = (IF Configured(old.map[s]) THEN old.map[s] ELSE NoMapping)
    OBVIOUS
  <1>2. Snapshot(new).map = [s \in Suffixes |-> IF Configured(new.map[s]) THEN new.map[s] ELSE NoMapping]
    BY SnapshotFields
  <1>3. Snapshot(old).map = [s \in Suffixes |-> IF Configured(old.map[s]) THEN old.map[s] ELSE NoMapping]
    BY SnapshotFields
  <1> QED
    BY <1>1, <1>2, <1>3

\* Mappings are moved, copied and given up: every mapping comes from one that was there, and
\* a suffix that gives one up retires its epoch.
Rearranged(old, new) ==
    /\ new \in Memory
    /\ \A t \in Suffixes : Configured(new.map[t]) => \E o \in Suffixes :
          Configured(old.map[o]) /\ new.map[t].ref = old.map[o].ref /\ new.map[t].ver = old.map[o].ver
    /\ \A t \in Suffixes : ~Configured(new.map[t]) => new.map[t].ver = 0
    /\ \A s \in Suffixes : old.retired[s] <= new.retired[s]
    /\ \A s \in Suffixes : Configured(old.map[s]) =>
          new.map[s] = old.map[s] \/ new.retired[s] >= old.map[s].epoch

LEMMA SoundRearranged ==
    ASSUME NEW old, NEW new, NEW tearing, NEW known, NEW deleted, NEW replaced,
           Sound(old, tearing, known, deleted, replaced), Rearranged(old, new)
    PROVE  Sound(new, tearing, known, deleted, replaced)
  <1>1. old \in Memory /\ new \in Memory
    BY DEF Sound, Rearranged
  <1>2. \A s \in Suffixes : /\ old.retired[s] \in Nat /\ new.retired[s] \in Nat
                            /\ old.map[s].epoch \in Nat /\ new.map[s].epoch \in Nat
    BY <1>1, MemoryFields
  <1>3. Backed(new, known, deleted, replaced)
    <2>1. ASSUME NEW t \in Suffixes, Configured(new.map[t])
          PROVE  /\ new.map[t].ref \in known /\ new.map[t].ver > 0
                 /\ new.map[t].ref \in deleted => new.map[t].ref \in replaced
      <3>1. PICK o \in Suffixes : Configured(old.map[o]) /\ new.map[t].ref = old.map[o].ref
                                  /\ new.map[t].ver = old.map[o].ver
        BY <2>1 DEF Rearranged
      <3> QED
        BY <3>1 DEF Sound, Backed
    <2> QED
      BY <2>1 DEF Backed
  <1>4. Agreeing(new, replaced)
    <2>1. ASSUME NEW s \in Suffixes, NEW t \in Suffixes, new.map[s].ref = new.map[t].ref,
                 new.map[s].ref \notin replaced
          PROVE  new.map[s].ver = new.map[t].ver
      <3>1. CASE Configured(new.map[s])
        <4>1. Configured(new.map[t])
          BY <2>1, <3>1 DEF Configured
        <4>2. PICK o \in Suffixes : Configured(old.map[o]) /\ new.map[s].ref = old.map[o].ref
                                    /\ new.map[s].ver = old.map[o].ver
          BY <3>1 DEF Rearranged
        <4>3. PICK x \in Suffixes : Configured(old.map[x]) /\ new.map[t].ref = old.map[x].ref
                                    /\ new.map[t].ver = old.map[x].ver
          BY <4>1 DEF Rearranged
        <4> QED
          BY Zenon, <2>1, <4>2, <4>3 DEF Sound, Agreeing
      <3>2. CASE ~Configured(new.map[s])
        <4>1. ~Configured(new.map[t])
          BY <2>1, <3>2 DEF Configured
        <4> QED
          BY <3>2, <4>1 DEF Rearranged
      <3> QED
        BY <3>1, <3>2
    <2> QED
      BY <2>1 DEF Agreeing
  <1>5. Traced(new, replaced \cup tearing)
    <2>1. ASSUME NEW s \in Suffixes, NEW t \in Suffixes, NEW e \in Nat, new.map[t].ref = <<s, e>>
          PROVE  \/ <<s, e>> \in replaced \cup tearing \/ new.retired[s] >= e
                 \/ new.map[s].ref = <<s, e>> /\ new.map[s].epoch >= e
      <3>1. Configured(new.map[t])
        BY <2>1, RefIsNotNone DEF Configured
      <3>2. PICK o \in Suffixes : new.map[t].ref = old.map[o].ref
        BY <3>1 DEF Rearranged
      <3>3. \/ <<s, e>> \in replaced \cup tearing \/ old.retired[s] >= e
            \/ old.map[s].ref = <<s, e>> /\ old.map[s].epoch >= e
        BY <2>1, <3>2 DEF Sound, Traced
      <3>4. CASE old.retired[s] >= e
        BY <1>2, <3>4 DEF Rearranged
      <3>5. CASE old.map[s].ref = <<s, e>> /\ old.map[s].epoch >= e
        <4>1. Configured(old.map[s])
          BY <3>5, RefIsNotNone DEF Configured
        <4>2. new.map[s] = old.map[s] \/ new.retired[s] >= old.map[s].epoch
          BY <4>1 DEF Rearranged
        <4> QED
          BY <1>2, <3>5, <4>2
      <3> QED
        BY <3>3, <3>4, <3>5
    <2> QED
      BY <2>1 DEF Traced
  <1>6. Spent(new, deleted, replaced)
    <2>1. ASSUME NEW s \in Suffixes, NEW e \in Nat, <<s, e>> \in deleted
          PROVE  <<s, e>> \in replaced \/ new.retired[s] >= e
      <3>1. <<s, e>> \in replaced \/ old.retired[s] >= e
        BY <2>1 DEF Sound, Spent
      <3>2. old.retired[s] <= new.retired[s]
        BY DEF Rearranged
      <3> QED
        BY <1>2, <3>1, <3>2
    <2> QED
      BY <2>1 DEF Spent
  <1> QED
    BY <1>1, <1>3, <1>4, <1>5, <1>6 DEF Sound, Rearranged

\* Nothing that is configured changes, and epochs are only retired.
Quiet(old, new) ==
    /\ new \in Memory
    /\ \A s \in Suffixes : Configured(old.map[s]) \/ Configured(new.map[s]) => new.map[s] = old.map[s]
    /\ \A s \in Suffixes : ~Configured(new.map[s]) => new.map[s].ver = 0
    /\ \A s \in Suffixes : old.retired[s] <= new.retired[s]

LEMMA QuietRearranges ==
    ASSUME NEW old, NEW new, Quiet(old, new)
    PROVE  Rearranged(old, new)
  BY DEF Quiet, Rearranged

LEMMA SnapshotQuiet ==
    ASSUME NEW memory \in Memory
    PROVE  Quiet(memory, Snapshot(memory))
  <1>1. /\ Snapshot(memory) \in Memory /\ Snapshot(memory).retired = memory.retired
        /\ \A s \in Suffixes : Snapshot(memory).map[s]
               = (IF Configured(memory.map[s]) THEN memory.map[s] ELSE NoMapping)
    BY Zenon, SnapshotFields
  <1>2. \A s \in Suffixes : memory.retired[s] \in Nat
    BY MemoryFields
  <1> QED
    BY <1>1, <1>2, NoMappingTyped DEF Quiet

LEMMA RetireFields ==
    ASSUME NEW memory \in Memory, NEW s \in Suffixes, NEW epoch \in Nat
    PROVE  /\ Retire(memory, s, epoch) \in Memory
           /\ Retire(memory, s, epoch).map = memory.map
           /\ Retire(memory, s, epoch).retired[s] >= epoch
           /\ Retire(memory, s, epoch).retired[s] >= memory.retired[s]
           /\ \A x \in Suffixes : x # s => Retire(memory, s, epoch).retired[x] = memory.retired[x]
  <1> DEFINE top == Larger(memory.retired[s], epoch)
             f == [memory.retired EXCEPT ![s] = top]
  <1>1. memory.retired \in [Suffixes -> Nat] /\ memory.retired[s] \in Nat
    BY MemoryFields
  <1>2. top \in Nat /\ top >= epoch /\ top >= memory.retired[s]
    BY <1>1 DEF Larger
  <1>3. Retire(memory, s, epoch) = [memory EXCEPT !.retired = f]
    BY DEF Retire
  <1> HIDE DEF top
  <1>4. f \in [Suffixes -> Nat] /\ f[s] = top /\ \A x \in Suffixes : x # s => f[x] = memory.retired[x]
    BY <1>1, <1>2
  <1> HIDE DEF f
  <1>5. Retire(memory, s, epoch) \in Memory /\ Retire(memory, s, epoch).map = memory.map
        /\ Retire(memory, s, epoch).retired = f
    BY <1>3, <1>4 DEF Memory
  <1> QED
    BY <1>2, <1>4, <1>5

\* A memory with the mapping of one suffix replaced.
Assigned(memory, s, m) == [memory EXCEPT !.map[s] = m]

LEMMA AssignedFields ==
    ASSUME NEW memory \in Memory, NEW s \in Suffixes, NEW m \in Mapping
    PROVE  /\ Assigned(memory, s, m) \in Memory /\ Assigned(memory, s, m).retired = memory.retired
           /\ Assigned(memory, s, m).map[s] = m
           /\ \A x \in Suffixes : x # s => Assigned(memory, s, m).map[x] = memory.map[x]
  <1> DEFINE f == [memory.map EXCEPT ![s] = m]
  <1>1. memory.map \in [Suffixes -> Mapping]
    BY DEF Memory
  <1>2. f \in [Suffixes -> Mapping] /\ f[s] = m /\ \A x \in Suffixes : x # s => f[x] = memory.map[x]
    BY <1>1
  <1>3. Assigned(memory, s, m) = [memory EXCEPT !.map = f]
    BY DEF Assigned
  <1> HIDE DEF f
  <1>4. Assigned(memory, s, m) \in Memory /\ Assigned(memory, s, m).retired = memory.retired
        /\ Assigned(memory, s, m).map = f
    BY <1>2, <1>3 DEF Memory
  <1> QED
    BY <1>2, <1>4

\* A reservation that is dropped was not configured.
LEMMA ReleaseQuiet ==
    ASSUME NEW memory \in Memory, NEW s \in Suffixes,
           \A x \in Suffixes : ~Configured(memory.map[x]) => memory.map[x].ver = 0
    PROVE  Quiet(memory, Release(memory, s))
  <1> DEFINE m == IF Configured(memory.map[s]) THEN memory.map[s] ELSE NoMapping
  <1>1. m \in Mapping
    BY MemoryFields, NoMappingTyped
  <1>2. Release(memory, s) = Assigned(memory, s, m)
    BY DEF Release, Assigned
  <1>3. m = memory.map[s] \/ (~Configured(m) /\ ~Configured(memory.map[s]) /\ m.ver = 0)
    BY NoMappingTyped
  <1> HIDE DEF m
  <1>4. /\ Release(memory, s) \in Memory /\ Release(memory, s).retired = memory.retired
        /\ Release(memory, s).map[s] = m
        /\ \A x \in Suffixes : x # s => Release(memory, s).map[x] = memory.map[x]
    BY <1>1, <1>2, AssignedFields
  <1>5. \A x \in Suffixes : memory.retired[x] \in Nat
    BY MemoryFields
  <1> QED
    BY <1>3, <1>4, <1>5 DEF Quiet

LEMMA RetireQuiet ==
    ASSUME NEW memory \in Memory, NEW s \in Suffixes, NEW epoch \in Nat,
           \A x \in Suffixes : ~Configured(memory.map[x]) => memory.map[x].ver = 0
    PROVE  Quiet(memory, Retire(memory, s, epoch))
  <1>1. /\ Retire(memory, s, epoch) \in Memory
        /\ Retire(memory, s, epoch).map = memory.map
        /\ Retire(memory, s, epoch).retired[s] >= memory.retired[s]
        /\ \A x \in Suffixes : x # s => Retire(memory, s, epoch).retired[x] = memory.retired[x]
    BY RetireFields
  <1>2. \A x \in Suffixes : memory.retired[x] \in Nat
    BY MemoryFields
  <1> QED
    BY <1>1, <1>2 DEF Quiet

LEMMA QuietTwice ==
    ASSUME NEW old \in Memory, NEW mid, NEW new, Quiet(old, mid), Quiet(mid, new)
    PROVE  Quiet(old, new)
  <1>1. mid \in Memory /\ new \in Memory
    BY DEF Quiet
  <1>2. \A s \in Suffixes : old.retired[s] \in Nat /\ mid.retired[s] \in Nat /\ new.retired[s] \in Nat
    BY <1>1, MemoryFields
  <1>3. \A s \in Suffixes : old.retired[s] <= new.retired[s]
    BY <1>2 DEF Quiet
  <1> QED
    BY <1>1, <1>3 DEF Quiet

-----------------------------------------------------------------------------
(* Changes of the mappings.                                                *)

Tidy(memory) == memory \in Memory /\ \A s \in Suffixes : ~Configured(memory.map[s]) => memory.map[s].ver = 0

LEMMA DeleteRearranges ==
    ASSUME Tidy(mem), NEW s \in Suffixes
    PROVE  /\ Rearranged(mem, ApplyDelete(s))
           /\ \A x \in Suffixes : x # s => ApplyDelete(s).map[x] = mem.map[x]
           /\ ApplyDelete(s).retired[s] >= mem.map[s].epoch
  <1> DEFINE r == Retire(mem, s, mem.map[s].epoch)
  <1>1. mem \in Memory /\ mem.map[s].epoch \in Nat
    BY MemoryFields DEF Tidy
  <1>2. /\ r \in Memory /\ r.map = mem.map /\ r.retired[s] >= mem.map[s].epoch
        /\ r.retired[s] >= mem.retired[s]
        /\ \A x \in Suffixes : x # s => r.retired[x] = mem.retired[x]
    BY Zenon, <1>1, RetireFields
  <1>3. ApplyDelete(s) = Assigned(r, s, NoMapping)
    BY DEF ApplyDelete, Assigned
  <1> HIDE DEF r
  <1>4. /\ ApplyDelete(s) \in Memory /\ ApplyDelete(s).retired = r.retired
        /\ ApplyDelete(s).map[s] = NoMapping
        /\ \A x \in Suffixes : x # s => ApplyDelete(s).map[x] = mem.map[x]
    BY <1>2, <1>3, AssignedFields, NoMappingTyped
  <1>5. \A x \in Suffixes : mem.retired[x] \in Nat
    BY <1>1, MemoryFields
  <1>6. \A x \in Suffixes : mem.retired[x] <= ApplyDelete(s).retired[x]
    BY <1>2, <1>4, <1>5
  <1> QED
    BY <1>2, <1>4, <1>6, NoMappingTyped DEF Rearranged, Tidy

LEMMA RenameRearranges ==
    ASSUME Tidy(mem), NEW s \in Suffixes, NEW t \in Suffixes,
           Configured(mem.map[s]), s = t \/ ~Configured(mem.map[t])
    PROVE  Rearranged(mem, ApplyRename(s, t))
  <1>1. mem \in Memory /\ mem.map[s].epoch \in Nat /\ mem.map[s] \in Mapping
    BY MemoryFields DEF Tidy
  <1>2. \A x \in Suffixes : mem.retired[x] \in Nat
    BY <1>1, MemoryFields
  <1>3. CASE s = t
    <2>1. ApplyRename(s, t) = mem
      BY <1>3 DEF ApplyRename
    <2> QED
      BY <1>1, <1>2, <2>1 DEF Rearranged, Tidy
  <1>4. CASE s # t
    <2> DEFINE r == Retire(mem, s, mem.map[s].epoch)
               d == Assigned(r, s, NoMapping)
    <2>1. /\ r \in Memory /\ r.map = mem.map /\ r.retired[s] >= mem.map[s].epoch
          /\ r.retired[s] >= mem.retired[s]
          /\ \A x \in Suffixes : x # s => r.retired[x] = mem.retired[x]
      BY Zenon, <1>1, RetireFields
    <2>2. ApplyRename(s, t) = Assigned(d, t, mem.map[s])
      BY <1>4 DEF ApplyRename, Assigned
    <2> HIDE DEF r
    <2>3. /\ d \in Memory /\ d.retired = r.retired /\ d.map[s] = NoMapping
          /\ \A x \in Suffixes : x # s => d.map[x] = mem.map[x]
      BY <2>1, AssignedFields, NoMappingTyped
    <2> HIDE DEF d
    <2>4. /\ ApplyRename(s, t) \in Memory /\ ApplyRename(s, t).retired = r.retired
          /\ ApplyRename(s, t).map[t] = mem.map[s]
          /\ \A x \in Suffixes : x # t => ApplyRename(s, t).map[x] = d.map[x]
      BY <1>1, <2>2, <2>3, AssignedFields
    <2> DEFINE new == ApplyRename(s, t)
    <2> HIDE DEF new
    <2>5. new \in Memory /\ new.retired = r.retired /\ new.map[t] = mem.map[s] /\ new.map[s] = NoMapping
          /\ \A x \in Suffixes : x # t /\ x # s => new.map[x] = mem.map[x]
      BY <1>4, <2>3, <2>4 DEF new
    <2>6. \A x \in Suffixes : mem.retired[x] <= new.retired[x]
      BY <1>2, <2>1, <2>5
    <2>7. new.retired[s] >= mem.map[s].epoch
      BY <2>1, <2>5
    <2>8. Rearranged(mem, new)
      BY <1>4, <2>5, <2>6, <2>7, NoMappingTyped DEF Rearranged, Tidy
    <2> QED
      BY <2>8 DEF new
  <1> QED
    BY <1>3, <1>4

LEMMA ShareRearranges ==
    ASSUME Tidy(mem), NEW s \in Suffixes, NEW t \in Suffixes, NEW epoch \in Nat,
           Configured(mem.map[t])
    PROVE  Rearranged(mem, ApplyShare(s, t, epoch))
  <1>1. mem \in Memory /\ mem.map[t] \in Mapping
    BY MemoryFields DEF Tidy
  <1>2. \A x \in Suffixes : mem.retired[x] \in Nat
    BY <1>1, MemoryFields
  <1>3. CASE Configured(mem.map[s])
    <2>1. ApplyShare(s, t, epoch) = mem
      BY <1>3 DEF ApplyShare
    <2> QED
      BY <1>1, <1>2, <2>1 DEF Rearranged, Tidy
  <1>4. CASE ~Configured(mem.map[s])
    <2> DEFINE m == [mem.map[t] EXCEPT !.epoch = epoch]
               new == Assigned(mem, s, m)
    <2>1. m \in Mapping /\ m.ref = mem.map[t].ref /\ m.ver = mem.map[t].ver
      BY <1>1 DEF Mapping
    <2>2. ApplyShare(s, t, epoch) = new
      BY <1>4 DEF ApplyShare, Assigned
    <2> HIDE DEF m
    <2>3. /\ new \in Memory /\ new.retired = mem.retired /\ new.map[s] = m
          /\ \A x \in Suffixes : x # s => new.map[x] = mem.map[x]
      BY <1>1, <2>1, AssignedFields
    <2> HIDE DEF new
    <2>4. Rearranged(mem, new)
      BY <1>2, <1>4, <2>1, <2>3 DEF Rearranged, Tidy, Configured
    <2> QED
      BY <2>2, <2>4
  <1> QED
    BY <1>3, <1>4

\* A change that is taken back leaves the configured mappings of the memory before it.
LEMMA RestoredQuiet ==
    ASSUME NEW prev, Tidy(prev), NEW next \in Memory
    PROVE  Quiet(prev, Restored(prev, next))
  <1> DEFINE new == Restored(prev, next)
             f == [s \in Suffixes |-> IF s \in Changed(prev, next) /\ ~Configured(prev.map[s])
                                      THEN NoMapping ELSE prev.map[s]]
             g == [s \in Suffixes |-> IF s \in Changed(prev, next)
                                      THEN Larger(prev.retired[s], next.map[s].epoch)
                                      ELSE prev.retired[s]]
  <1>1. new = [map |-> f, retired |-> g]
    BY DEF Restored
  <1>2. \A s \in Suffixes : /\ prev.map[s] \in Mapping /\ prev.retired[s] \in Nat
                            /\ next.map[s].epoch \in Nat
    BY MemoryFields DEF Tidy
  <1>3. f \in [Suffixes -> Mapping] /\ \A s \in Suffixes : f[s] = prev.map[s]
                                          \/ (~Configured(prev.map[s]) /\ f[s] = NoMapping)
    BY <1>2, NoMappingTyped
  <1>4. \A s \in Suffixes : Larger(prev.retired[s], next.map[s].epoch) \in Nat
                            /\ prev.retired[s] <= Larger(prev.retired[s], next.map[s].epoch)
    BY <1>2 DEF Larger
  <1>5. g \in [Suffixes -> Nat] /\ \A s \in Suffixes : prev.retired[s] <= g[s]
    BY <1>2, <1>4
  <1> HIDE DEF f, g
  <1>6. new \in Memory /\ new.map = f /\ new.retired = g
    BY <1>1, <1>3, <1>5 DEF Memory
  <1> HIDE DEF new
  <1>7. Quiet(prev, new)
    BY <1>3, <1>5, <1>6, NoMappingTyped DEF Quiet, Tidy
  <1> QED
    BY <1>7 DEF new

\* A rotation changes the version of all mappings of its secret and nothing else.
LEMMA SoundRotated ==
    ASSUME NEW known, NEW deleted, NEW replaced, Sound(mem, {}, known, deleted, replaced),
           NEW s \in Suffixes, NEW m \in Mapping, m.ref # None, m.ver > 0
    PROVE  Sound(ApplyRotated(s, m), {}, known, deleted, replaced) /\ ApplyRotated(s, m).retired = mem.retired
  <1> DEFINE f == [x \in Suffixes |-> IF mem.map[x].ref = m.ref THEN [mem.map[x] EXCEPT !.ver = m.ver]
                                      ELSE mem.map[x]]
             new == ApplyRotated(s, m)
  <1>1. mem \in Memory /\ m.ver \in Nat /\ \A x \in Suffixes : mem.map[x] \in Mapping
    BY MemoryFields DEF Sound, Mapping
  <1>2. new = [mem EXCEPT !.map = f]
    BY DEF ApplyRotated
  <1>3. \A x \in Suffixes :
           LET y == [mem.map[x] EXCEPT !.ver = m.ver]
           IN  y \in Mapping /\ y.ref = mem.map[x].ref /\ y.epoch = mem.map[x].epoch /\ y.ver = m.ver
    BY <1>1 DEF Mapping
  <1>4. f \in [Suffixes -> Mapping]
        /\ \A x \in Suffixes : /\ f[x].ref = mem.map[x].ref /\ f[x].epoch = mem.map[x].epoch
                               /\ f[x].ver = IF mem.map[x].ref = m.ref THEN m.ver ELSE mem.map[x].ver
    BY <1>1, <1>3
  <1> HIDE DEF f
  <1>5. new \in Memory /\ new.map = f /\ new.retired = mem.retired
    BY <1>1, <1>2, <1>4 DEF Memory
  <1> HIDE DEF new
  <1>6. \A x \in Suffixes : ~Configured(new.map[x]) => new.map[x].ver = 0
    BY <1>4, <1>5 DEF Sound, Configured
  <1>7. Backed(new, known, deleted, replaced)
    BY <1>4, <1>5 DEF Sound, Backed, Configured
  <1>8. Agreeing(new, replaced)
    BY <1>4, <1>5 DEF Sound, Agreeing
  <1>9. Traced(new, replaced \cup {})
    BY <1>4, <1>5 DEF Sound, Traced
  <1>10. Spent(new, deleted, replaced)
    BY <1>5 DEF Sound, Spent
  <1>11. Sound(new, {}, known, deleted, replaced)
    BY <1>5, <1>6, <1>7, <1>8, <1>9, <1>10 DEF Sound
  <1> QED
    BY <1>5, <1>11 DEF new

\* A create stores a secret that nobody maps; the mapping that it replaces, if any, is torn.
LEMMA SoundCreated ==
    ASSUME NEW known, NEW deleted, NEW replaced, Sound(mem, {}, known, deleted, replaced),
           NEW s \in Suffixes, NEW m \in Mapping, NEW epoch \in Nat,
           m.ref = <<s, epoch>>, m.ver = 1, m.epoch = epoch, m.ref \in known,
           m.ref \in replaced \/ (Unmapped(m.ref, mem) /\ m.ref \notin deleted),
           NEW tearing, mem.map[s].ref \notin {m.ref, None} => mem.map[s].ref \in tearing
    PROVE  Sound(Assigned(mem, s, m), tearing, known, deleted, replaced)
  <1> DEFINE new == Assigned(mem, s, m)
  <1>1. mem \in Memory
    BY DEF Sound
  <1>2. /\ new \in Memory /\ new.retired = mem.retired /\ new.map[s] = m
        /\ \A x \in Suffixes : x # s => new.map[x] = mem.map[x]
    BY <1>1, AssignedFields
  <1> HIDE DEF new
  <1>3. Configured(m) /\ m.ref # None
    BY RefIsNotNone DEF Configured
  <1>4. \A x \in Suffixes : ~Configured(new.map[x]) => new.map[x].ver = 0
    BY <1>2, <1>3 DEF Sound
  <1>5. Backed(new, known, deleted, replaced)
    BY <1>2 DEF Sound, Backed
  <1>6. Agreeing(new, replaced)
    BY <1>2 DEF Sound, Agreeing, Unmapped
  <1>7. Traced(new, replaced \cup tearing)
    <2>1. ASSUME NEW y \in Suffixes, NEW x \in Suffixes, NEW e \in Nat, new.map[x].ref = <<y, e>>
          PROVE  \/ <<y, e>> \in replaced \cup tearing \/ new.retired[y] >= e
                 \/ new.map[y].ref = <<y, e>> /\ new.map[y].epoch >= e
      <3>1. CASE x = s
        <4>1. y = s /\ e = epoch
          BY <1>2, <2>1, <3>1
        <4> QED
          BY <1>2, <4>1
      <3>2. CASE x # s
        <4>1. \/ <<y, e>> \in replaced \/ mem.retired[y] >= e
              \/ mem.map[y].ref = <<y, e>> /\ mem.map[y].epoch >= e
          BY <1>2, <2>1, <3>2 DEF Sound, Traced
        <4>2. CASE mem.map[y].ref = <<y, e>> /\ mem.map[y].epoch >= e /\ y = s
          <5>1. CASE <<y, e>> = m.ref
            <6>1. e = epoch
              BY <4>2, <5>1
            <6> QED
              BY <1>2, <4>2, <5>1, <6>1
          <5>2. CASE <<y, e>> # m.ref
            BY <4>2, <5>2, RefIsNotNone
          <5> QED
            BY <5>1, <5>2
        <4> QED
          BY <1>2, <4>1, <4>2
      <3> QED
        BY <3>1, <3>2
    <2> QED
      BY <2>1 DEF Traced
  <1>8. Spent(new, deleted, replaced)
    BY <1>2 DEF Sound, Spent
  <1>9. Sound(new, tearing, known, deleted, replaced)
    BY <1>2, <1>4, <1>5, <1>6, <1>7, <1>8 DEF Sound
  <1> QED
    BY <1>9 DEF new

\* Secrets are added to the vault, mappings are torn, and secrets that the memory does not
\* map are deleted when their epochs are retired.
LEMMA SoundGrows ==
    ASSUME NEW memory, NEW tearing, NEW known, NEW deleted, NEW replaced,
           Sound(memory, tearing, known, deleted, replaced),
           NEW tearing2, NEW known2, NEW deleted2, NEW replaced2,
           known \subseteq known2, replaced \subseteq replaced2,
           replaced \cup tearing \subseteq replaced2 \cup tearing2,
           \A x \in Suffixes : memory.map[x].ref \in deleted2
              => memory.map[x].ref \in deleted \/ memory.map[x].ref = None,
           \A x \in Suffixes : \A e \in Nat : <<x, e>> \in deleted2 =>
              <<x, e>> \in deleted \/ <<x, e>> \in replaced2 \/ memory.retired[x] >= e
    PROVE  Sound(memory, tearing2, known2, deleted2, replaced2)
  <1>1. Backed(memory, known2, deleted2, replaced2)
    BY DEF Sound, Backed, Configured
  <1>2. Agreeing(memory, replaced2)
    BY DEF Sound, Agreeing
  <1>3. Traced(memory, replaced2 \cup tearing2)
    BY DEF Sound, Traced
  <1>4. Spent(memory, deleted2, replaced2)
    BY DEF Sound, Spent
  <1> QED
    BY <1>1, <1>2, <1>3, <1>4 DEF Sound

-----------------------------------------------------------------------------
(* Requests outside the save.                                              *)

\* A quiet change keeps a memory sound, whatever secrets are added.
LEMMA SoundQuiet ==
    ASSUME NEW old, NEW new, NEW tearing, NEW known, NEW deleted, NEW replaced, NEW known2,
           Sound(old, tearing, known, deleted, replaced), Quiet(old, new), known \subseteq known2
    PROVE  Sound(new, tearing, known2, deleted, replaced)
  <1>1. Sound(new, tearing, known, deleted, replaced)
    BY QuietRearranges, SoundRearranged
  <1> QED
    BY <1>1, SoundGrows

\* A quiet change maps no secret that was not mapped.
LEMMA UnmappedQuiet ==
    ASSUME NEW old, NEW new, NEW ref, Quiet(old, new), Unmapped(ref, old), ref # None
    PROVE  Unmapped(ref, new)
  BY DEF Quiet, Unmapped, Configured

\* The memory of a state that satisfies the invariant.
LEMMA MemTidy ==
    ASSUME Inductive
    PROVE  Tidy(mem) /\ Tidy(disk)
  <1>1. CASE Locked
    <2>1. PICK p \in Callers : Holder(p)
      BY <1>1 DEF Locked, Holder
    <2>2. Saving(p)
      BY Zenon, <2>1 DEF Inductive
    <2> QED
      BY Zenon, <2>2 DEF Saving, Sound, Tidy, Inductive
  <1>2. CASE ~Locked
    BY <1>2 DEF Inductive, Sound, Tidy
  <1> QED
    BY <1>1, <1>2

\* A request that does not hold catalogMu takes a step that leaves the configured mappings,
\* the catalog and the deleted secrets alone.
LEMMA OutsideSave ==
    ASSUME Inductive, NEW p \in Callers, ~Holder(p), NEW r, req' = [req EXCEPT ![p] = r],
           r.at \notin {"save", "saveReplay"}, Quiet(mem, mem'),
           UNCHANGED <<disk, gone, torn>>, Known \subseteq Known', journal \subseteq journal',
           Typed', Journalled', Keyed', Held(p)', Fresh(p)'
    PROVE  Inductive'
  <1>1. req'[p] = r /\ \A q \in Callers : q # p => req'[q] = req[q]
    BY DEF Inductive, Typed
  <1>2. ~Holder(p)' /\ \A q \in Callers : Holder(q)' = Holder(q)
    BY <1>1 DEF Holder
  <1>3. Locked' = Locked
    BY <1>2 DEF Locked, Holder
  <1>4. mem \in Memory /\ mem' \in Memory
    BY MemTidy DEF Tidy, Quiet
  <1>5. Snapshot(mem').map = Snapshot(mem).map
    BY <1>4, SameCatalog DEF Quiet
  <1>6. OneHolder'
    BY <1>2 DEF Inductive, OneHolder
  <1>7. DiskFollows'
    BY <1>3, <1>5 DEF Inductive, DiskFollows, Snapshot
  <1>8. (Snapshot(disk).map = disk.map)'
    BY DEF Inductive, Snapshot
  <1>9. ~Locked' => Sound(mem', {}, Known', gone', torn')
    BY <1>3, SoundQuiet DEF Inductive
  <1>10. Sound(disk', {}, Known', gone', torn')
    BY SoundGrows DEF Inductive
  <1>11. ASSUME NEW q \in Callers, q # p PROVE Held(q)' /\ Fresh(q)'
    <2>1. req'[q] = req[q] /\ Held(q) /\ Fresh(q) /\ Own(q)' = Own(q) /\ Operation(q)' = Operation(q)
      BY <1>1, <1>11 DEF Inductive, Own, Operation, SecretRef
    <2>2. Held(q)'
      BY <2>1 DEF Held
    <2>3. Own(q) # None
      BY RefIsNotNone DEF Own, SecretRef
    <2>4. Unmapped(Own(q), mem) => Unmapped(Own(q), mem')
      BY <2>3, UnmappedQuiet
    <2>5. \A x \in Callers : Holder(x)' => Holder(x) /\ req'[x] = req[x]
      BY <1>1, <1>2
    <2>6. Fresh(q)'
      BY ZenonT(40), <2>1, <2>4, <2>5 DEF Fresh, At, Unmapped
    <2> QED
      BY <2>2, <2>6
  <1>12. ASSUME NEW q \in Callers, Holder(q)' PROVE Saving(q)'
    <2>1. q # p /\ Holder(q) /\ req'[q] = req[q] /\ Saving(q)
      BY Zenon, <1>1, <1>2, <1>12 DEF Inductive
    <2>2. Replaced(q)' = Replaced(q)
      BY <2>1 DEF Replaced, At
    <2>3. Sound(req[q].prev, {}, Known', gone', torn') /\ Sound(req[q].next, Replaced(q), Known', gone', torn')
      BY Zenon, <2>1, SoundGrows DEF Saving
    <2>4. Sound(mem', Replaced(q), Known', gone', torn')
      BY Zenon, <2>1, SoundQuiet DEF Saving
    <2>5. \A s \in Suffixes : mem.retired[s] \in Nat /\ mem'.retired[s] \in Nat
                              /\ req[q].next.retired[s] \in Nat
      BY Zenon, <1>4, <2>1, MemoryFields DEF Saving, Sound
    <2>6. \A s \in Suffixes : req[q].prev.retired[s] <= req[q].next.retired[s]
                              /\ req[q].next.retired[s] <= mem'.retired[s]
      <3>1. \A s \in Suffixes : mem.retired[s] <= mem'.retired[s]
        BY DEF Quiet
      <3>2. \A s \in Suffixes : req[q].prev.retired[s] <= req[q].next.retired[s]
                                /\ req[q].next.retired[s] <= mem.retired[s]
        BY <2>1 DEF Saving
      <3> QED
        BY <2>5, <3>1, <3>2
    <2>7. /\ disk' = disk /\ req[q].next.map = Snapshot(mem').map
          /\ disk.map = Snapshot(req[q].prev).map /\ Snapshot(req[q].next).map = req[q].next.map
          /\ req[q].kind = "delete" => \A s \in Suffixes :
                req[q].next.map[s].ref # req[q].prev.map[s].ref
                   => req[q].next.retired[s] >= req[q].prev.map[s].epoch
      BY Zenon, <1>5, <2>1 DEF Saving
    <2> QED
      BY Zenon, <2>1, <2>2, <2>3, <2>4, <2>6, <2>7 DEF Saving
  <1> QED
    BY <1>6, <1>7, <1>8, <1>9, <1>10, <1>11, <1>12 DEF Inductive

\* The vault and its record grow.
Grows ==
    /\ vault' \subseteq [ref : AnyRef, ver : Nat, tok : Nat]
    /\ Known \subseteq Known' /\ journal \subseteq journal' /\ Journalled'

LEMMA StillGrows ==
    ASSUME Inductive, UNCHANGED <<vault, journal>>
    PROVE  Grows
  BY DEF Inductive, Typed, Grows, Journalled, Known

\* Vault.Enroll records a secret that did not exist; Vault.Rotate one that did.
LEMMA RecordGrows ==
    ASSUME Inductive, NEW p \in Callers, NEW ref \in AnyRef, NEW ver \in Nat, ver > 0,
           Record(p, ref, ver), ~At(p, "done"),
           req[p].kind = "create" => ref = Own(p) /\ ver = 1 /\ ref \notin Known
    PROVE  Grows /\ ref \in Known' /\ \E o \in journal' : o.op = Operation(p) /\ o.ref = ref
  <1> DEFINE v == [ref |-> ref, ver |-> ver, tok |-> req[p].key]
             o == [op |-> Operation(p), ref |-> ref, ver |-> ver]
  <1>1. v \in [ref : AnyRef, ver : Nat, tok : Nat] /\ v.ref = ref
    BY Zenon DEF Inductive, Typed, Requests
  <1>2. vault' = (vault \ Secrets(ref)) \cup {v} /\ journal' = journal \cup {o}
    BY DEF Record
  <1>3. o.op = Operation(p) /\ o.ref = ref /\ o.ver = ver
    OBVIOUS
  <1>4. Operation(p)[2] = req[p].kind /\ Operation(p)[3] = req[p].s /\ Operation(p)[4] = req[p].epoch
    BY DEF Operation
  <1> HIDE DEF v, o
  <1>5. Known \subseteq Known' /\ ref \in Known'
    <2>1. ASSUME NEW x \in vault PROVE x.ref \in Known'
      <3>1. CASE x.ref = ref
        BY <1>1, <1>2, <3>1 DEF Known
      <3>2. CASE x.ref # ref
        BY <1>2, <3>2 DEF Known, Secrets
      <3> QED
        BY <3>1, <3>2
    <2> QED
      BY <1>1, <1>2, <2>1 DEF Known
  <1>6. vault' \subseteq [ref : AnyRef, ver : Nat, tok : Nat]
    BY <1>1, <1>2 DEF Inductive, Typed
  <1>7. \A x \in journal' : x.ref \in AnyRef /\ x.ver \in Nat /\ x.ver > 0 /\ x.ref \in Known'
    BY Zenon, <1>2, <1>3, <1>5 DEF Inductive, Journalled
  <1>8. \A x \in journal' : x.op[2] = "create" => x.ref = <<x.op[3], x.op[4]>> /\ x.ver = 1
    BY Zenon, <1>2, <1>3, <1>4 DEF Inductive, Journalled, Own, SecretRef
  <1>9. \A x, y \in journal' : x.op[2] = "create" /\ y.op[2] = "create" /\ x.ref = y.ref => x.op = y.op
    <2>1. \A x \in journal : x.ref \in Known
      BY DEF Inductive, Journalled
    <2>2. o.op[2] = "create" => \A x \in journal : x.ref # o.ref
      BY <1>3, <1>4, <2>1
    <2>3. \A x, y \in journal : x.op[2] = "create" /\ y.op[2] = "create" /\ x.ref = y.ref => x.op = y.op
      BY DEF Inductive, Journalled
    <2> QED
      BY <1>2, <2>2, <2>3
  <1>10. Journalled'
    BY <1>7, <1>8, <1>9 DEF Journalled
  <1> QED
    BY <1>2, <1>3, <1>5, <1>6, <1>10 DEF Grows

\* What a request in progress becomes, except for its catalogs.
Moved(p, place, m, epoch) ==
    LET r == req'[p]
    IN  /\ req' = [req EXCEPT ![p] = r] /\ r \in Requests
        /\ r.at = place /\ r.m = m /\ r.epoch = epoch
        /\ r.kind = req[p].kind /\ r.s = req[p].s /\ r.t = req[p].t /\ r.key = req[p].key

LEMMA HoldingMoved ==
    ASSUME Typed, NEW p \in Callers, NEW place \in Places, NEW m \in Mapping, Holding(p, place, m)
    PROVE  Moved(p, place, m, req[p].epoch) /\ failed' = failed
  <1> DEFINE r == [req[p] EXCEPT !.at = place, !.m = m]
  <1>1. req[p] \in Requests
    BY DEF Typed
  <1>2. r \in Requests /\ r.at = place /\ r.m = m /\ r.epoch = req[p].epoch /\ r.kind = req[p].kind
        /\ r.s = req[p].s /\ r.t = req[p].t /\ r.key = req[p].key
    BY Zenon, <1>1 DEF Requests
  <1>3. req' = [req EXCEPT ![p] = r]
    BY Zenon DEF Holding
  <1> HIDE DEF r
  <1>4. req'[p] = r
    BY <1>3 DEF Typed
  <1> QED
    BY Zenon, <1>2, <1>3, <1>4 DEF Moved, Holding

LEMMA GoesMoved ==
    ASSUME Typed, NEW p \in Callers, NEW place \in Places, Goes(p, place)
    PROVE  Moved(p, place, req[p].m, req[p].epoch) /\ failed' = failed
  <1> DEFINE r == [req[p] EXCEPT !.at = place]
  <1>1. req[p] \in Requests
    BY DEF Typed
  <1>2. r \in Requests /\ r.at = place /\ r.m = req[p].m /\ r.epoch = req[p].epoch
        /\ r.kind = req[p].kind /\ r.s = req[p].s /\ r.t = req[p].t /\ r.key = req[p].key
    BY <1>1 DEF Requests
  <1>3. req' = [req EXCEPT ![p] = r]
    BY DEF Goes
  <1> HIDE DEF r
  <1>4. req'[p] = r
    BY <1>3 DEF Typed
  <1> QED
    BY Zenon, <1>2, <1>3, <1>4 DEF Moved, Goes

\* A request that ends.
LEMMA NoRequestTyped ==
    /\ NoRequest \in Requests /\ NoRequest.at = "done" /\ NoRequest.kind = "none"
    /\ [NoRequest EXCEPT !.ok = FALSE] \in Requests /\ [NoRequest EXCEPT !.ok = FALSE].at = "done"
    /\ [NoRequest EXCEPT !.ok = FALSE].kind = "none"
  BY Zenon, NoMappingTyped DEF NoRequest, Requests, Places

\* A request that ends, with an error or without.
Ends(p) ==
    /\ req' = [req EXCEPT ![p] = req'[p]] /\ req'[p] \in Requests
    /\ req'[p].at = "done" /\ req'[p].kind = "none"
    /\ failed' \in {failed, Request(p)}

LEMMA FailsEnds ==
    ASSUME Typed, NEW p \in Callers, Fails(p)
    PROVE  Ends(p)
  <1> DEFINE r == [NoRequest EXCEPT !.ok = FALSE]
  <1>1. req' = [req EXCEPT ![p] = r] /\ failed' = Request(p)
    BY DEF Fails
  <1>2. r \in Requests /\ r.at = "done" /\ r.kind = "none"
    BY NoRequestTyped
  <1> HIDE DEF r
  <1>3. req'[p] = r
    BY <1>1 DEF Typed
  <1> QED
    BY Zenon, <1>1, <1>2, <1>3 DEF Ends

LEMMA SucceedsEnds ==
    ASSUME Typed, NEW p \in Callers, Succeeds(p)
    PROVE  Ends(p)
  <1>1. req' = [req EXCEPT ![p] = NoRequest] /\ failed' = failed
    BY DEF Succeeds
  <1>2. req'[p] = NoRequest
    BY <1>1 DEF Typed
  <1> QED
    BY Zenon, <1>1, <1>2, NoRequestTyped DEF Ends

LEMMA TypedMoves ==
    ASSUME Typed, NEW p \in Callers, req'[p] \in Requests, req' = [req EXCEPT ![p] = req'[p]], Placed(p)',
           failed' \in {None} \cup Asked, requests' \in Nat,
           vault' \subseteq [ref : AnyRef, ver : Nat, tok : Nat], gone' \subseteq Known'
    PROVE  Typed'
  <1>1. req' \in [Callers -> Requests] /\ \A q \in Callers : q # p => req'[q] = req[q]
    BY DEF Typed
  <1>2. \A q \in Callers : q # p => Placed(q)'
    BY <1>1 DEF Typed, Placed, Request
  <1> QED
    BY <1>1, <1>2 DEF Typed

\* The keys stay apart when a request moves on or ends.
LEMMA KeyedMoves ==
    ASSUME Typed, Keyed, NEW p \in Callers, ~At(p, "done"), req' = [req EXCEPT ![p] = req'[p]],
           requests' = requests,
           \/ req'[p].key = req[p].key /\ failed' = failed
           \/ req'[p].at = "done" /\ failed' \in {failed, Request(p)}
    PROVE  Keyed'
  <1>1. \A q \in Callers : q # p => req'[q] = req[q]
    BY DEF Typed
  <1>2. Request(p).key = req[p].key /\ Request(p) \in Asked
    BY DEF Request, Typed, Placed, At
  <1>3. CASE req'[p].key = req[p].key /\ failed' = failed
    BY <1>1, <1>3 DEF Keyed, At
  <1>4. CASE req'[p].at = "done" /\ failed' = failed
    BY <1>1, <1>4 DEF Keyed, At
  <1>5. CASE req'[p].at = "done" /\ failed' = Request(p)
    BY <1>1, <1>2, <1>5 DEF Keyed, At
  <1> QED
    BY <1>3, <1>4, <1>5

\* What the places require, in terms of the state before the step.
Suits(kind, place, m) ==
    /\ place = "inspect" => kind \in {"create", "rotate"}
    /\ place \in {"replay", "reserve", "enroll", "refused", "next", "saveReplay"} => kind = "create"
    /\ place = "rotate" => kind = "rotate" /\ m.ref # None
    /\ place = "apply" => kind # "resolve"
    /\ place = "apply" /\ kind = "rotate" => m.ref # None /\ m.ver > 0

\* A secret that does not exist is mapped nowhere.
LEMMA UnknownUnmapped ==
    ASSUME Inductive, NEW ref \in AnyRef, ref \notin Known
    PROVE  /\ Unmapped(ref, mem) /\ Unmapped(ref, disk) /\ ref \notin gone
           /\ \A q \in Callers : Holder(q) => Unmapped(ref, req[q].prev) /\ Unmapped(ref, req[q].next)
  <1>1. ref # None
    BY RefIsNotNone DEF AnyRef
  <1>2. ASSUME NEW memory, NEW tearing, Sound(memory, tearing, Known, gone, torn)
        PROVE  Unmapped(ref, memory)
    BY <1>1, <1>2 DEF Sound, Backed, Unmapped, Configured
  <1>3. \A q \in Callers : Holder(q) => /\ Unmapped(ref, req[q].prev) /\ Unmapped(ref, req[q].next)
                                        /\ Unmapped(ref, mem)
    BY Zenon, <1>2 DEF Inductive, Saving
  <1>4. ~Locked => Unmapped(ref, mem)
    BY Zenon, <1>2 DEF Inductive
  <1>5. Unmapped(ref, mem)
    BY <1>3, <1>4 DEF Locked, Holder
  <1>6. Unmapped(ref, disk)
    BY <1>2 DEF Inductive
  <1> QED
    BY <1>3, <1>5, <1>6 DEF Inductive, Typed

\* The fields of a running request that a reference is made of.
LEMMA RequestRef ==
    ASSUME NEW p \in Callers, Placed(p), ~At(p, "done"), NEW r \in Requests
    PROVE  SecretRef(req[p].s, r.epoch) \in AnyRef /\ SecretRef(req[p].s, r.epoch) # None
  <1>1. req[p].s \in Suffixes
    BY DEF Placed, At, Asked, Request
  <1>2. r.epoch \in Nat
    BY DEF Requests
  <1> QED
    BY <1>1, <1>2, RefIsNotNone DEF SecretRef, AnyRef

\* Steps of arithmetic that large contexts leave to first-order provers.
LEMMA AtLeast ==
    ASSUME NEW a \in Nat, NEW b \in Nat, NEW c \in Nat
    PROVE  /\ a >= c /\ a <= b => b >= c
           /\ b >= a /\ a >= c => b >= c
           /\ a <= b => a <= b + 1
  OBVIOUS

\* The place is outside the save. A create that goes to replay or to apply has its own
\* secret in hand, recorded in the journal, and one that goes to apply has a new one.
Reserves(p, place, m, epoch) ==
    /\ place \notin {"done", "save", "saveReplay"}
    /\ req[p].kind = "create" /\ place \in {"replay", "apply"} =>
          LET ref == SecretRef(req[p].s, epoch)
          IN  /\ m = [ref |-> ref, ver |-> 1, epoch |-> epoch]
              /\ \E o \in journal' : o.op = <<req[p].key, req[p].kind, req[p].s, epoch>> /\ o.ref = ref
              /\ place = "apply" => ref \notin Known

\* A request moves on outside the save.
LEMMA MovedOutside ==
    ASSUME Inductive, NEW p \in Callers, ~Holder(p), ~At(p, "done"), NEW place, NEW m, NEW epoch,
           Moved(p, place, m, epoch),
           UNCHANGED <<failed, requests, disk, gone, torn>>, Quiet(mem, mem'), Grows,
           Suits(req[p].kind, place, m), Reserves(p, place, m, epoch)
    PROVE  Inductive'
  <1> DEFINE r == req'[p]
  <1>p. place \notin {"done", "save", "saveReplay"}
    BY Zenon DEF Reserves
  <1>1. /\ req' = [req EXCEPT ![p] = r] /\ r \in Requests
        /\ r.at = place /\ r.m = m /\ r.epoch = epoch
        /\ r.kind = req[p].kind /\ r.s = req[p].s /\ r.t = req[p].t /\ r.key = req[p].key
    BY Zenon DEF Moved
  <1>2. Typed /\ Placed(p)
    BY Zenon DEF Inductive, Typed
  <1>3. Request(p)' = Request(p)
    BY Zenon, <1>1 DEF Request
  <1>4. Placed(p)'
    BY Zenon, <1>p, <1>1, <1>2, <1>3 DEF Placed, Suits, At
  <1>5. Typed'
    BY Zenon, <1>p, <1>1, <1>2, <1>4, TypedMoves DEF Typed, Grows
  <1>6. Keyed'
    BY Zenon, <1>p, <1>1, <1>2, KeyedMoves DEF Inductive
  <1>7. Own(p)' = SecretRef(req[p].s, epoch) /\ Operation(p)' = <<req[p].key, req[p].kind, req[p].s, epoch>>
    BY <1>1 DEF Own, Operation, SecretRef
  <1>8. Held(p)'
    BY Zenon, <1>1, <1>7 DEF Held, Reserves
  <1>9. Fresh(p)'
    <2>1. CASE req[p].kind = "create" /\ place = "apply"
      <3> DEFINE ref == SecretRef(req[p].s, epoch)
      <3>1. ref \in AnyRef /\ ref \notin Known /\ ref # None
        BY Zenon, <1>1, <1>2, <2>1, RequestRef DEF Reserves
      <3>2. /\ Unmapped(ref, mem) /\ Unmapped(ref, disk) /\ ref \notin gone
            /\ \A q \in Callers : Holder(q) => Unmapped(ref, req[q].prev) /\ Unmapped(ref, req[q].next)
        BY Zenon, <3>1, UnknownUnmapped
      <3>3. Unmapped(ref, mem')
        BY Zenon, <3>1, <3>2, UnmappedQuiet
      <3>4. \A q \in Callers : Holder(q)' => Holder(q) /\ req'[q] = req[q]
        BY Zenon, <1>p, <1>1, <1>2 DEF Holder, Typed
      <3> HIDE DEF ref
      <3>5. Own(p)' = ref
        BY Zenon, <1>7 DEF ref
      <3> QED
        BY Zenon, <3>2, <3>3, <3>4, <3>5 DEF Fresh, Unmapped
    <2>2. CASE ~(req[p].kind = "create" /\ place = "apply")
      BY Zenon, <1>p, <1>1, <2>2 DEF Fresh, At
    <2> QED
      BY Zenon, <2>1, <2>2
  <1> QED
    BY Zenon, <1>p, <1>1, <1>5, <1>6, <1>8, <1>9, OutsideSave DEF Grows

\* A request ends outside the save.
LEMMA EndsOutside ==
    ASSUME Inductive, NEW p \in Callers, ~Holder(p), ~At(p, "done"), Ends(p),
           UNCHANGED <<requests, disk, gone, torn>>, Quiet(mem, mem'), Grows
    PROVE  Inductive'
  <1>1. /\ req' = [req EXCEPT ![p] = req'[p]] /\ req'[p] \in Requests
        /\ req'[p].at = "done" /\ req'[p].kind = "none" /\ failed' \in {failed, Request(p)}
    BY DEF Ends
  <1>2. Typed /\ Placed(p)
    BY DEF Inductive, Typed
  <1>3. Placed(p)'
    BY <1>1 DEF Placed
  <1>4. failed' \in {None} \cup Asked
    BY <1>1, <1>2 DEF Typed, Placed, At
  <1>5. Typed'
    BY <1>1, <1>2, <1>3, <1>4, TypedMoves DEF Typed, Grows
  <1>6. Keyed'
    BY <1>1, <1>2, KeyedMoves DEF Inductive
  <1>7. Held(p)' /\ Fresh(p)'
    BY Zenon, <1>1 DEF Held, Fresh
  <1> QED
    BY Zenon, <1>1, <1>5, <1>6, <1>7, OutsideSave DEF Grows

\* Nothing in memory changes.
LEMMA SameMemory ==
    ASSUME Inductive, mem' = mem
    PROVE  Quiet(mem, mem')
  <1>1. \A s \in Suffixes : mem.retired[s] \in Nat
    BY MemTidy, MemoryFields DEF Tidy
  <1> QED
    BY <1>1, MemTidy DEF Tidy, Quiet

-----------------------------------------------------------------------------
(* The steps outside the save.                                             *)

LEMMA EpochTyped ==
    ASSUME Inductive, NEW s \in Suffixes
    PROVE  NextMappingEpoch(s) \in Nat /\ MappingEpoch(s) \in Nat
  <1>1. mem.map[s].epoch \in Nat /\ mem.retired[s] \in Nat
    BY MemTidy, MemoryFields DEF Tidy
  <1> QED
    BY <1>1 DEF NextMappingEpoch, MappingEpoch

\* A new or a repeated request has a key that no running request has.
LEMMA BeginStep ==
    ASSUME Inductive, NEW p \in Callers, NEW kind \in KindNames, NEW s \in Suffixes, NEW t \in Suffixes,
           NEW key \in Nat, Begin(p, kind, s, t, key), requests' = requests + 1,
           key <= requests + 1, \A q \in Callers : ~At(q, "done") => req[q].key # key
    PROVE  Inductive'
  <1> DEFINE epoch == IF kind \in {"create", "share"} THEN NextMappingEpoch(s) ELSE MappingEpoch(s)
             r == [NoRequest EXCEPT !.at = First(kind), !.kind = kind, !.s = s, !.t = t, !.key = key,
                                    !.epoch = epoch]
  <1>1. epoch \in Nat
    BY EpochTyped
  <1>2. First(kind) \in {"inspect", "lookup", "apply"}
        /\ (First(kind) = "inspect" => kind \in {"create", "rotate"})
        /\ (First(kind) = "apply" => kind \notin {"create", "rotate", "resolve"})
    BY DEF First, KindNames
  <1>3. At(p, "done") /\ req' = [req EXCEPT ![p] = r] /\ failed' = None
        /\ UNCHANGED <<mem, disk, vault, journal, gone, torn, faults>>
    BY DEF Begin
  <1> HIDE DEF epoch
  <1>4. r \in Requests /\ r.at = First(kind) /\ r.kind = kind /\ r.s = s /\ r.t = t /\ r.key = key
    BY Zenon, <1>1, <1>2, NoMappingTyped DEF NoRequest, Requests, Places
  <1> HIDE DEF r
  <1>5. Typed
    BY DEF Inductive
  <1>6. req'[p] = r /\ \A q \in Callers : q # p => req'[q] = req[q]
    BY <1>3, <1>5 DEF Typed
  <1>7. Request(p)' \in Asked
    BY <1>4, <1>6 DEF Request, Asked
  <1>8. Placed(p)'
    BY <1>2, <1>4, <1>6, <1>7 DEF Placed
  <1>9. Grows /\ Quiet(mem, mem')
    BY <1>3, StillGrows, SameMemory
  <1>10. Typed'
    <2>1. requests' \in Nat /\ gone' \subseteq Known' /\ failed' \in {None} \cup Asked
      BY <1>3, <1>5, <1>9 DEF Typed, Grows
    <2>2. req'[p] \in Requests /\ req' = [req EXCEPT ![p] = req'[p]]
      BY Zenon, <1>3, <1>4, <1>6
    <2> QED
      BY <1>5, <1>8, <1>9, <2>1, <2>2, TypedMoves DEF Grows
  <1>11. Keyed'
    <2>1. requests \in Nat /\ \A q \in Callers : req[q].key \in Nat
      BY <1>5 DEF Typed, Requests
    <2>2. \A q \in Callers : ~At(q, "done")' => req'[q].key <= requests'
      <3>1. Keyed
        BY Zenon DEF Inductive
      <3> QED
        BY ZenonT(40), <1>4, <1>6, <2>1, <3>1, AtLeast DEF Keyed, At
    <2>3. \A q \in Callers : q # p => At(q, "done")' = At(q, "done")
      BY <1>6 DEF At
    <2>4. \A q, x \in Callers : ~At(q, "done")' /\ ~At(x, "done")' /\ req'[q].key = req'[x].key => q = x
      BY ZenonT(40), <1>4, <1>6, <2>3 DEF Inductive, Keyed
    <2> QED
      BY <1>3, <2>2, <2>4 DEF Keyed
  <1>12. Held(p)' /\ Fresh(p)'
    BY Zenon, <1>2, <1>4, <1>6 DEF Held, Fresh, At
  <1>13. ~Holder(p) /\ r.at \notin {"save", "saveReplay"}
    BY Zenon, <1>2, <1>3, <1>4 DEF Holder, At
  <1> QED
    BY Zenon, <1>3, <1>9, <1>10, <1>11, <1>12, <1>13, OutsideSave DEF Grows

LEMMA NewStep ==
    ASSUME Inductive, NEW p \in Callers, NEW kind \in Kinds, NEW s \in Suffixes, NEW t \in Suffixes,
           New(p, kind, s, t)
    PROVE  Inductive'
  <1>1. kind \in KindNames
    BY KindsAssumption DEF KindNames
  <1>2. requests \in Nat /\ \A q \in Callers : ~At(q, "done") => req[q].key <= requests /\ req[q].key \in Nat
    BY Zenon DEF Inductive, Typed, Keyed, Requests
  <1>3. \A q \in Callers : ~At(q, "done") => req[q].key # requests + 1
    BY <1>2
  <1> QED
    BY <1>1, <1>2, <1>3, BeginStep DEF New

LEMMA AgainStep ==
    ASSUME Inductive, NEW p \in Callers, Again(p)
    PROVE  Inductive'
  <1>1. failed \in Asked /\ requests \in Nat
    BY DEF Inductive, Typed, Again
  <1>2. failed.kind \in KindNames /\ failed.s \in Suffixes /\ failed.t \in Suffixes /\ failed.key \in Nat
    BY <1>1 DEF Asked
  <1>3. failed.key <= requests /\ \A q \in Callers : ~At(q, "done") => req[q].key # failed.key
    BY Zenon DEF Inductive, Keyed, Again
  <1>4. failed.key <= requests + 1
    BY <1>1, <1>2, <1>3
  <1> QED
    BY <1>2, <1>3, <1>4, BeginStep DEF Again

\* What a running request knows of itself.
LEMMA Running ==
    ASSUME Inductive, NEW p \in Callers, ~At(p, "done")
    PROVE  /\ Typed /\ Placed(p) /\ req[p] \in Requests
           /\ req[p].s \in Suffixes /\ req[p].t \in Suffixes /\ req[p].kind \in KindNames
           /\ req[p].epoch \in Nat /\ req[p].m \in Mapping /\ req[p].key \in Nat
           /\ mem \in Memory /\ mem.map[req[p].s] \in Mapping
  <1>1. Typed /\ Placed(p) /\ req[p] \in Requests
    BY DEF Inductive, Typed
  <1>2. Request(p) \in Asked
    BY <1>1 DEF Placed, At
  <1>3. req[p].s \in Suffixes /\ req[p].t \in Suffixes /\ req[p].kind \in KindNames
    BY <1>2 DEF Request, Asked
  <1>4. req[p].epoch \in Nat /\ req[p].m \in Mapping /\ req[p].key \in Nat
    BY <1>1 DEF Requests
  <1>5. mem \in Memory
    BY MemTidy DEF Tidy
  <1> QED
    BY <1>1, <1>3, <1>4, <1>5, MemoryFields

\* The outcome of a create names the secret of its epoch.
LEMMA OutcomeOf ==
    ASSUME Inductive, NEW p \in Callers, ~At(p, "done"), NEW o \in Outcomes(p)
    PROVE  /\ Metadata(p, o) \in Mapping /\ Metadata(p, o).ref # None /\ Metadata(p, o).ver > 0
           /\ Metadata(p, o).ref = o.ref
           /\ req[p].kind = "create" =>
                 /\ Metadata(p, o) = [ref |-> Own(p), ver |-> 1, epoch |-> req[p].epoch]
                 /\ \E x \in journal : x.op = Operation(p) /\ x.ref = Own(p)
  <1>1. o \in journal /\ o.op = Operation(p)
    BY DEF Outcomes
  <1>2. o.ref \in AnyRef /\ o.ver \in Nat /\ o.ver > 0
    BY <1>1 DEF Inductive, Journalled
  <1>3. o.ref # None
    BY <1>2, RefIsNotNone DEF AnyRef
  <1>4. Metadata(p, o) \in Mapping /\ Metadata(p, o).ref = o.ref /\ Metadata(p, o).ver = o.ver
    BY Zenon, <1>2, Running DEF Metadata, Mapping
  <1>5. Operation(p)[2] = req[p].kind /\ Operation(p)[3] = req[p].s /\ Operation(p)[4] = req[p].epoch
    BY DEF Operation
  <1>6. req[p].kind = "create" => o.ref = Own(p) /\ o.ver = 1
    BY Zenon, <1>1, <1>5 DEF Inductive, Journalled, Own, SecretRef
  <1> QED
    BY <1>1, <1>2, <1>3, <1>4, <1>6 DEF Metadata

LEMMA InspectStep ==
    ASSUME Inductive, NEW p \in Callers, Inspect(p)
    PROVE  Inductive'
  <1>1. At(p, "inspect") /\ UNCHANGED <<mem, disk, vault, journal, gone, torn, requests>>
    BY Zenon DEF Inspect
  <1>2. ~At(p, "done") /\ ~Holder(p)
    BY <1>1 DEF At, Holder
  <1>3. Typed /\ req[p].kind \in {"create", "rotate"} /\ mem.map[req[p].s] \in Mapping
    BY <1>1, <1>2, Running DEF Placed, At
  <1>4. Grows /\ Quiet(mem, mem')
    BY <1>1, StillGrows, SameMemory
  <1>5. CASE Fails(p)
    BY Zenon, <1>1, <1>2, <1>3, <1>4, <1>5, FailsEnds, EndsOutside
  <1>6. ASSUME NEW o \in Outcomes(p),
               Holding(p, IF req[p].kind = "rotate" THEN "apply" ELSE "replay", Metadata(p, o))
        PROVE  Inductive'
    <2> DEFINE place == IF req[p].kind = "rotate" THEN "apply" ELSE "replay"
               m == Metadata(p, o)
    <2>1. /\ m \in Mapping /\ m.ref # None /\ m.ver > 0
          /\ req[p].kind = "create" =>
                 /\ m = [ref |-> Own(p), ver |-> 1, epoch |-> req[p].epoch]
                 /\ \E x \in journal : x.op = Operation(p) /\ x.ref = Own(p)
      BY Zenon, <1>2, OutcomeOf
    <2>2. place \in Places /\ place \notin {"done", "save", "saveReplay"}
          /\ (req[p].kind = "create" => place # "apply")
      BY DEF Places
    <2>3. Suits(req[p].kind, place, m)
      BY Zenon, <1>3, <2>1 DEF Suits
    <2>4. Holding(p, place, m)
      BY Zenon, <1>6
    <2> HIDE DEF place, m
    <2>5. Moved(p, place, m, req[p].epoch) /\ failed' = failed
      BY <1>3, <2>1, <2>2, <2>4, HoldingMoved
    <2>6. Reserves(p, place, m, req[p].epoch)
      BY Zenon, <1>1, <2>1, <2>2 DEF Reserves, Own, Operation
    <2> QED
      BY Zenon, <1>1, <1>2, <1>4, <2>2, <2>3, <2>5, <2>6, MovedOutside
  <1>7. ASSUME Holding(p, IF req[p].kind = "rotate" THEN "rotate" ELSE "reserve", mem.map[req[p].s]),
               req[p].kind = "rotate" => Configured(mem.map[req[p].s])
        PROVE  Inductive'
    <2> DEFINE place == IF req[p].kind = "rotate" THEN "rotate" ELSE "reserve"
               m == mem.map[req[p].s]
    <2>1. m \in Mapping
      BY <1>3
    <2>2. place \in Places /\ place \notin {"done", "save", "saveReplay", "apply", "replay"}
      BY DEF Places
    <2>3. Suits(req[p].kind, place, m)
      BY <1>3, <1>7 DEF Suits, Configured
    <2>4. Holding(p, place, m)
      BY <1>7
    <2> HIDE DEF place, m
    <2>5. Moved(p, place, m, req[p].epoch) /\ failed' = failed
      BY <1>3, <2>1, <2>2, <2>4, HoldingMoved
    <2>6. Reserves(p, place, m, req[p].epoch)
      BY Zenon, <2>2 DEF Reserves
    <2> QED
      BY Zenon, <1>1, <1>2, <1>4, <2>2, <2>3, <2>5, <2>6, MovedOutside
  <1> QED
    BY Zenon, <1>5, <1>6, <1>7 DEF Inspect

LEMMA ReserveStep ==
    ASSUME Inductive, NEW p \in Callers, Reserve(p)
    PROVE  Inductive'
  <1>1. At(p, "reserve") /\ UNCHANGED <<disk, vault, journal, gone, torn, requests>>
    BY DEF Reserve
  <1>2. ~At(p, "done") /\ ~Holder(p)
    BY <1>1 DEF At, Holder
  <1>3. /\ Typed /\ req[p].kind = "create" /\ req[p].s \in Suffixes /\ req[p].epoch \in Nat
        /\ mem \in Memory
    BY <1>1, <1>2, Running DEF Placed, At
  <1>4. Grows
    BY <1>1, StillGrows
  <1>5. CASE Fails(p) /\ UNCHANGED mem
    BY Zenon, <1>1, <1>2, <1>3, <1>4, <1>5, FailsEnds, EndsOutside, SameMemory
  <1>6. ASSUME ~Configured(mem.map[req[p].s]), Goes(p, "enroll"),
               mem' = [mem EXCEPT !.map[req[p].s] = [NoMapping EXCEPT !.epoch = req[p].epoch]]
        PROVE  Inductive'
    <2> DEFINE m == [NoMapping EXCEPT !.epoch = req[p].epoch]
    <2>1. m \in Mapping /\ ~Configured(m) /\ m.ver = 0
      BY <1>3 DEF NoMapping, Mapping, Configured
    <2>2. mem' = Assigned(mem, req[p].s, m)
      BY <1>6 DEF Assigned
    <2> HIDE DEF m
    <2>3. /\ mem' \in Memory /\ mem'.retired = mem.retired /\ mem'.map[req[p].s] = m
          /\ \A x \in Suffixes : x # req[p].s => mem'.map[x] = mem.map[x]
      BY <1>3, <2>1, <2>2, AssignedFields
    <2>4. \A x \in Suffixes : mem.retired[x] \in Nat
      BY <1>3, MemoryFields
    <2>5. Quiet(mem, mem')
      <3>1. \A x \in Suffixes : ~Configured(mem.map[x]) => mem.map[x].ver = 0
        BY MemTidy DEF Tidy
      <3>2. \A x \in Suffixes : Configured(mem.map[x]) \/ Configured(mem'.map[x]) => mem'.map[x] = mem.map[x]
        BY <1>6, <2>1, <2>3
      <3>3. \A x \in Suffixes : ~Configured(mem'.map[x]) => mem'.map[x].ver = 0
        BY <2>1, <2>3, <3>1
      <3>4. \A x \in Suffixes : mem.retired[x] <= mem'.retired[x]
        BY <2>3, <2>4
      <3> QED
        BY <2>3, <3>2, <3>3, <3>4 DEF Quiet
    <2>6. Moved(p, "enroll", req[p].m, req[p].epoch) /\ failed' = failed
      BY <1>3, <1>6, GoesMoved DEF Places
    <2>7. Suits(req[p].kind, "enroll", req[p].m)
      BY <1>3 DEF Suits
    <2>8. Reserves(p, "enroll", req[p].m, req[p].epoch)
      BY Zenon DEF Reserves
    <2> QED
      BY Zenon, <1>1, <1>2, <1>4, <2>5, <2>6, <2>7, <2>8, MovedOutside
  <1> QED
    BY <1>5, <1>6 DEF Reserve

\* An answer that drops the reservation.
LEMMA RefusesStep ==
    ASSUME Inductive, NEW p \in Callers, At(p, "enroll"), Refuses(p), Grows,
           UNCHANGED <<disk, gone, torn, requests>>
    PROVE  Inductive'
  <1>1. ~At(p, "done") /\ ~Holder(p)
    BY DEF At, Holder
  <1>2. Typed /\ req[p].kind = "create" /\ req[p].s \in Suffixes /\ mem \in Memory
    BY <1>1, Running DEF Placed, At
  <1>3. Quiet(mem, mem')
    BY <1>2, ReleaseQuiet, MemTidy DEF Refuses, Tidy
  <1>4. Moved(p, "refused", req[p].m, req[p].epoch) /\ failed' = failed
    BY Zenon, <1>2, GoesMoved DEF Refuses, Places
  <1>5. Suits(req[p].kind, "refused", req[p].m)
    BY <1>2 DEF Suits
  <1>6. Reserves(p, "refused", req[p].m, req[p].epoch)
    BY Zenon DEF Reserves
  <1> QED
    BY Zenon, <1>1, <1>3, <1>4, <1>5, <1>6, MovedOutside

LEMMA EnrollStep ==
    ASSUME Inductive, NEW p \in Callers, Enroll(p)
    PROVE  Inductive'
  <1> DEFINE ref == Own(p)
             m == [ref |-> ref, ver |-> 1, epoch |-> req[p].epoch]
  <1>1. At(p, "enroll") /\ UNCHANGED <<disk, gone, torn, requests>>
    BY DEF Enroll
  <1>2. ~At(p, "done") /\ ~Holder(p)
    BY <1>1 DEF At, Holder
  <1>3. /\ Typed /\ req[p].kind = "create" /\ req[p].s \in Suffixes /\ req[p].epoch \in Nat
    BY <1>1, <1>2, Running DEF Placed, At
  <1>4. ref \in AnyRef /\ ref # None
    BY <1>3, RefIsNotNone DEF Own, SecretRef, AnyRef
  <1>5. m \in Mapping
    BY <1>3, <1>4 DEF Mapping
  <1>6. Secrets(ref) = {} => ref \notin Known
    BY DEF Secrets, Known
  <1>7. ASSUME Secrets(ref) = {}, Record(p, ref, 1)
        PROVE  Grows /\ \E o \in journal' : o.op = Operation(p) /\ o.ref = ref
    <2>1. 1 \in Nat /\ 1 > 0
      OBVIOUS
    <2> QED
      BY Zenon, <1>2, <1>4, <1>6, <1>7, <2>1, RecordGrows
  <1>8. CASE Secrets(ref) = {} /\ Record(p, ref, 1) /\ Holding(p, "apply", m) /\ UNCHANGED mem
    <2>1. Moved(p, "apply", m, req[p].epoch) /\ failed' = failed
      BY Zenon, <1>3, <1>5, <1>8, HoldingMoved DEF Places
    <2>2. Suits(req[p].kind, "apply", m)
      BY <1>3 DEF Suits
    <2>3. Quiet(mem, mem')
      BY <1>8, SameMemory
    <2>4. /\ m = [ref |-> SecretRef(req[p].s, req[p].epoch), ver |-> 1, epoch |-> req[p].epoch]
          /\ Operation(p) = <<req[p].key, req[p].kind, req[p].s, req[p].epoch>>
          /\ ref = SecretRef(req[p].s, req[p].epoch)
      BY DEF Own, Operation
    <2> HIDE DEF m, ref
    <2>5. Grows /\ Reserves(p, "apply", m, req[p].epoch)
      BY Zenon, <1>6, <1>7, <1>8, <2>4 DEF Reserves
    <2> QED
      BY Zenon, <1>1, <1>2, <2>1, <2>2, <2>3, <2>5, MovedOutside
  <1>9. CASE Refuses(p) /\ UNCHANGED <<vault, journal>>
    BY <1>1, <1>9, RefusesStep, StillGrows
  <1>10. CASE Secrets(ref) = {} /\ Record(p, ref, 1) /\ Refuses(p)
    BY <1>1, <1>7, <1>10, RefusesStep
  <1> QED
    BY <1>8, <1>9, <1>10 DEF Enroll, Own

LEMMA RefusedStep ==
    ASSUME Inductive, NEW p \in Callers, Refused(p)
    PROVE  Inductive'
  <1>1. At(p, "refused") /\ UNCHANGED <<disk, vault, journal, gone, torn, requests>>
    BY DEF Refused
  <1>2. ~At(p, "done") /\ ~Holder(p)
    BY <1>1 DEF At, Holder
  <1>3. /\ Typed /\ req[p].kind = "create" /\ req[p].s \in Suffixes /\ req[p].epoch \in Nat
        /\ mem \in Memory
    BY <1>1, <1>2, Running DEF Placed, At
  <1>4. Grows
    BY <1>1, StillGrows
  <1>5. CASE Fails(p) /\ UNCHANGED mem
    BY Zenon, <1>1, <1>2, <1>3, <1>4, <1>5, FailsEnds, EndsOutside, SameMemory
  <1>6. ASSUME NEW o \in Outcomes(p), Holding(p, "replay", Metadata(p, o)), mem' = mem
        PROVE  Inductive'
    <2> DEFINE m == Metadata(p, o)
    <2>1. /\ m \in Mapping /\ m = [ref |-> Own(p), ver |-> 1, epoch |-> req[p].epoch]
          /\ \E x \in journal : x.op = Operation(p) /\ x.ref = Own(p)
      BY Zenon, <1>2, <1>3, OutcomeOf
    <2>2. Suits(req[p].kind, "replay", m)
      BY <1>3 DEF Suits
    <2>3. Holding(p, "replay", m)
      BY <1>6
    <2> HIDE DEF m
    <2>4. Moved(p, "replay", m, req[p].epoch) /\ failed' = failed
      BY <1>3, <2>1, <2>3, HoldingMoved DEF Places
    <2>5. Quiet(mem, mem')
      BY <1>6, SameMemory
    <2>6. Reserves(p, "replay", m, req[p].epoch)
      BY Zenon, <1>1, <2>1 DEF Reserves, Own, Operation
    <2> QED
      BY Zenon, <1>1, <1>2, <1>4, <2>2, <2>4, <2>5, <2>6, MovedOutside
  <1>7. ASSUME mem' = Release(Retire(mem, req[p].s, req[p].epoch), req[p].s), Goes(p, "next")
        PROVE  Inductive'
    <2> DEFINE mid == Retire(mem, req[p].s, req[p].epoch)
    <2>1. Quiet(mem, mid)
      BY <1>3, MemTidy, RetireQuiet DEF Tidy
    <2>2. mem' = Release(mid, req[p].s)
      BY <1>7
    <2> HIDE DEF mid
    <2>3. Quiet(mid, mem')
      BY <1>3, <2>1, <2>2, ReleaseQuiet DEF Quiet
    <2>4. Quiet(mem, mem')
      BY <1>3, <2>1, <2>3, QuietTwice
    <2>5. Moved(p, "next", req[p].m, req[p].epoch) /\ failed' = failed
      BY <1>3, <1>7, GoesMoved DEF Places
    <2>6. Suits(req[p].kind, "next", req[p].m)
      BY <1>3 DEF Suits
    <2>7. Reserves(p, "next", req[p].m, req[p].epoch)
      BY Zenon DEF Reserves
    <2> QED
      BY Zenon, <1>1, <1>2, <1>4, <2>4, <2>5, <2>6, <2>7, MovedOutside
  <1> QED
    BY <1>5, <1>6, <1>7 DEF Refused

LEMMA NextEpochStep ==
    ASSUME Inductive, NEW p \in Callers, NextEpoch(p)
    PROVE  Inductive'
  <1> DEFINE epoch == NextMappingEpoch(req[p].s)
             r == [req[p] EXCEPT !.at = "inspect", !.epoch = epoch]
  <1>1. /\ At(p, "next") /\ UNCHANGED <<mem, disk, vault, journal, failed, gone, torn, requests>>
        /\ req' = [req EXCEPT ![p] = r]
    BY Zenon DEF NextEpoch
  <1>2. ~At(p, "done") /\ ~Holder(p)
    BY <1>1 DEF At, Holder
  <1>3. Typed /\ req[p].kind = "create" /\ req[p].s \in Suffixes /\ req[p] \in Requests
    BY <1>1, <1>2, Running DEF Placed, At
  <1>4. epoch \in Nat
    BY <1>3, EpochTyped
  <1> HIDE DEF epoch
  <1>5. r \in Requests /\ r.at = "inspect" /\ r.m = req[p].m /\ r.epoch = epoch
        /\ r.kind = req[p].kind /\ r.s = req[p].s /\ r.t = req[p].t /\ r.key = req[p].key
    BY Zenon, <1>3, <1>4 DEF Requests, Places
  <1> HIDE DEF r
  <1>6. req'[p] = r
    BY <1>1, <1>3 DEF Typed
  <1>7. Moved(p, "inspect", req[p].m, epoch)
    BY Zenon, <1>1, <1>5, <1>6 DEF Moved
  <1>8. Grows /\ Quiet(mem, mem')
    BY <1>1, StillGrows, SameMemory
  <1>9. Suits(req[p].kind, "inspect", req[p].m)
    BY <1>3 DEF Suits
  <1>10. Reserves(p, "inspect", req[p].m, epoch)
    BY Zenon DEF Reserves
  <1> QED
    BY Zenon, <1>1, <1>2, <1>7, <1>8, <1>9, <1>10, MovedOutside

LEMMA RotateStep ==
    ASSUME Inductive, NEW p \in Callers, Rotate(p)
    PROVE  Inductive'
  <1> DEFINE m == [req[p].m EXCEPT !.ver = @ + 1]
  <1>1. At(p, "rotate") /\ UNCHANGED <<mem, disk, gone, torn, requests>>
    BY DEF Rotate
  <1>2. ~At(p, "done") /\ ~Holder(p)
    BY <1>1 DEF At, Holder
  <1>3. Typed /\ req[p].kind = "rotate" /\ req[p].m \in Mapping /\ req[p].m.ref # None
    BY Zenon, <1>1, <1>2, Running DEF Placed, At
  <1>4. m \in Mapping /\ m.ref = req[p].m.ref /\ m.ref # None /\ m.ver \in Nat /\ m.ver > 0
        /\ req[p].m.ref \in AnyRef
    BY <1>3 DEF Mapping
  <1>5. Quiet(mem, mem')
    BY <1>1, SameMemory
  <1>6. ASSUME Record(p, req[p].m.ref, m.ver)
        PROVE  Grows
    BY Zenon, <1>2, <1>3, <1>4, <1>6, RecordGrows
  <1>7. CASE Record(p, req[p].m.ref, m.ver) /\ Holding(p, "apply", m)
    <2>1. Suits(req[p].kind, "apply", m)
      BY <1>3, <1>4 DEF Suits
    <2> HIDE DEF m
    <2>2. Moved(p, "apply", m, req[p].epoch) /\ failed' = failed
      BY <1>3, <1>4, <1>7, HoldingMoved DEF Places
    <2>3. Grows /\ Reserves(p, "apply", m, req[p].epoch)
      BY Zenon, <1>3, <1>6, <1>7 DEF Reserves
    <2> QED
      BY Zenon, <1>1, <1>2, <1>5, <2>1, <2>2, <2>3, MovedOutside
  <1>8. CASE Fails(p) /\ UNCHANGED <<vault, journal>>
    BY Zenon, <1>1, <1>2, <1>3, <1>5, <1>8, FailsEnds, EndsOutside, StillGrows
  <1>9. CASE Record(p, req[p].m.ref, m.ver) /\ Fails(p)
    BY <1>1, <1>2, <1>3, <1>5, <1>6, <1>9, FailsEnds, EndsOutside
  <1> QED
    BY <1>7, <1>8, <1>9 DEF Rotate

\* A domain that is under a configured suffix is under a longest one.
LEMMA LookupLongest ==
    ASSUME NEW domain \in Suffixes, Matches(domain) # {}
    PROVE  /\ LookupStored(domain) \in Matches(domain)
           /\ \A x \in Matches(domain) : Len(x) <= Len(LookupStored(domain))
  <1> DEFINE spare(s) == Len(domain) - Len(s)
             T == {spare(s) : s \in Matches(domain)}
  <1>1. \A s \in Matches(domain) : s \in Suffixes /\ Len(s) \in Nat /\ Len(s) <= Len(domain)
    BY SuffixesAssumption DEF Matches
  <1>2. Len(domain) \in Nat
    BY SuffixesAssumption
  <1>3. T \subseteq Nat /\ T # {}
    BY <1>1, <1>2
  <1>4. PICK n \in T : \A m \in T : ~(<<m, n>> \in OpToRel(<, Nat))
    <2> HIDE DEF T
    <2> QED
      BY Zenon, <1>3, NatLessThanWellFounded, WFMin
  <1>5. \A m \in T : ~(m < n)
    BY Zenon, <1>3, <1>4 DEF OpToRel
  <1>6. PICK s \in Matches(domain) : n = spare(s)
    BY Zenon, <1>4
  <1>7. \A x \in Matches(domain) : Len(x) <= Len(s)
    <2>1. ASSUME NEW x \in Matches(domain) PROVE Len(x) <= Len(s)
      <3>1. ~(spare(x) < spare(s))
        BY <1>5, <1>6
      <3> QED
        BY <1>1, <1>2, <3>1
    <2> QED
      BY <2>1
  <1> QED
    BY <1>7 DEF LookupStored

LEMMA LookupStep ==
    ASSUME Inductive, NEW p \in Callers, Lookup(p)
    PROVE  Inductive'
  <1> DEFINE m == mem.map[LookupStored(req[p].s)]
  <1>1. At(p, "lookup") /\ UNCHANGED <<mem, disk, vault, journal, gone, torn, requests>>
    BY DEF Lookup
  <1>2. ~At(p, "done") /\ ~Holder(p)
    BY <1>1 DEF At, Holder
  <1>3. Typed /\ mem \in Memory /\ req[p].s \in Suffixes
    BY <1>2, Running
  <1>4. Grows /\ Quiet(mem, mem')
    BY <1>1, StillGrows, SameMemory
  <1>5. CASE Fails(p)
    BY <1>1, <1>2, <1>3, <1>4, <1>5, FailsEnds, EndsOutside
  <1>6. CASE Matches(req[p].s) # {} /\ Holding(p, "reveal", m)
    <2>1. LookupStored(req[p].s) \in Suffixes
      BY <1>3, <1>6, LookupLongest DEF Matches
    <2>2. m \in Mapping
      BY <1>3, <2>1, MemoryFields
    <2>3. Suits(req[p].kind, "reveal", m)
      BY DEF Suits
    <2> HIDE DEF m
    <2>4. Moved(p, "reveal", m, req[p].epoch) /\ failed' = failed
      BY <1>3, <1>6, <2>2, HoldingMoved DEF Places
    <2>5. Reserves(p, "reveal", m, req[p].epoch)
      BY Zenon DEF Reserves
    <2> QED
      BY Zenon, <1>1, <1>2, <1>4, <2>3, <2>4, <2>5, MovedOutside
  <1> QED
    BY <1>5, <1>6 DEF Lookup

LEMMA RevealStep ==
    ASSUME Inductive, NEW p \in Callers, Reveal(p)
    PROVE  Inductive'
  <1>1. At(p, "reveal") /\ UNCHANGED <<mem, disk, vault, journal, gone, torn, requests>>
    BY DEF Reveal
  <1>2. ~At(p, "done") /\ ~Holder(p)
    BY <1>1 DEF At, Holder
  <1>3. Typed
    BY DEF Inductive
  <1>4. Grows /\ Quiet(mem, mem')
    BY <1>1, StillGrows, SameMemory
  <1>5. Ends(p)
    BY <1>3, FailsEnds, SucceedsEnds DEF Reveal
  <1> QED
    BY <1>1, <1>2, <1>4, <1>5, EndsOutside
=============================================================================
