------------------------ MODULE TokenMappings_proofs ------------------------
(***************************************************************************)
(* Mappings, their secrets and the saved catalog: the steps of the save    *)
(* and of a restart keep the invariant too, and the theorems follow.       *)
(***************************************************************************)
EXTENDS TokenRequests_proofs

\* The provers' time limits, in seconds.
USE SMTT(20), ZenonT(20)

-----------------------------------------------------------------------------
(* The save.                                                               *)

LEMMA SnapshotTwice ==
    ASSUME NEW memory \in Memory
    PROVE  Snapshot(Snapshot(memory)).map = Snapshot(memory).map
  <1>1. Snapshot(memory) \in Memory /\ Quiet(memory, Snapshot(memory))
    BY Zenon, SnapshotFields, SnapshotQuiet
  <1> QED
    BY <1>1, SameCatalog DEF Quiet

\* No two requests have the secret of the same epoch in hand.
LEMMA OwnApart ==
    ASSUME Inductive, NEW p \in Callers, NEW q \in Callers, Own(p) = Own(q),
           req[p].kind = "create", req[p].at \in {"replay", "saveReplay", "apply", "save"},
           req[q].kind = "create", req[q].at \in {"replay", "saveReplay", "apply", "save"}
    PROVE  p = q
  <1>1. PICK o \in journal : o.op = Operation(p) /\ o.ref = Own(p)
    BY Zenon DEF Inductive, Held
  <1>2. PICK x \in journal : x.op = Operation(q) /\ x.ref = Own(q)
    BY Zenon DEF Inductive, Held
  <1>3. Operation(p)[2] = "create" /\ Operation(q)[2] = "create"
    BY DEF Operation
  <1>4. Operation(p) = Operation(q)
    BY <1>1, <1>2, <1>3 DEF Inductive, Journalled
  <1>5. req[p].key = req[q].key
    BY <1>4 DEF Operation
  <1> QED
    BY <1>5 DEF Inductive, Keyed, At

\* A request changes the memory and begins to save it.
LEMMA ApplyStores ==
    ASSUME Inductive, ~Locked, NEW p \in Callers, req[p].at \in {"replay", "apply"},
           NEW new \in Memory, mem' = new,
           req' = [req EXCEPT ![p].at = IF @ = "replay" THEN "saveReplay" ELSE "save",
                              ![p].prev = mem, ![p].next = Snapshot(new)],
           UNCHANGED <<failed, disk, vault, journal, gone, torn, requests>>,
           Sound(new, Replaced(p)', Known, gone, torn),
           \A s \in Suffixes : mem.retired[s] <= new.retired[s],
           req[p].kind = "delete" => \A s \in Suffixes :
              new.map[s].ref # mem.map[s].ref => new.retired[s] >= mem.map[s].epoch,
           \A s \in Suffixes : Configured(new.map[s]) =>
              \/ \E o \in Suffixes : new.map[s].ref = mem.map[o].ref
              \/ At(p, "apply") /\ req[p].kind = "create" /\ new.map[s].ref = Own(p),
           At(p, "replay") => new = mem /\ Replayable(p)
    PROVE  Inductive'
  <1> DEFINE place == IF req[p].at = "replay" THEN "saveReplay" ELSE "save"
             next == Snapshot(new)
             r == [req[p] EXCEPT !.at = place, !.prev = mem, !.next = next]
  <1>1. ~At(p, "done")
    BY DEF At
  <1>2. /\ Typed /\ Placed(p) /\ req[p] \in Requests /\ mem \in Memory
        /\ req[p].s \in Suffixes /\ req[p].epoch \in Nat
    BY <1>1, Running
  <1>3. /\ next \in Memory /\ next.retired = new.retired
        /\ \A s \in Suffixes : next.map[s] = (IF Configured(new.map[s]) THEN new.map[s] ELSE NoMapping)
    BY Zenon, SnapshotFields
  <1>4. place \in {"save", "saveReplay"} /\ (place = "saveReplay" <=> req[p].at = "replay")
    OBVIOUS
  <1>5. req' = [req EXCEPT ![p] = r]
    BY Zenon
  <1>6. Snapshot(next).map = next.map /\ Quiet(new, next)
    BY SnapshotTwice, SnapshotQuiet
  <1>7. next = Snapshot(new)
    OBVIOUS
  <1> HIDE DEF next, place
  <1>8. /\ r \in Requests /\ r.at = place /\ r.prev = mem /\ r.next = next
        /\ r.m = req[p].m /\ r.epoch = req[p].epoch
        /\ r.kind = req[p].kind /\ r.s = req[p].s /\ r.t = req[p].t /\ r.key = req[p].key
    BY Zenon, <1>2, <1>3, <1>4 DEF Requests, Places
  <1> HIDE DEF r
  <1>9. req'[p] = r /\ \A q \in Callers : q # p => req'[q] = req[q]
    BY Zenon, <1>2, <1>5 DEF Typed
  <1>10. \A q \in Callers : ~Holder(q)
    BY DEF Locked, Holder
  <1>11. \A q \in Callers : Holder(q)' <=> q = p
    BY Zenon, <1>4, <1>8, <1>9, <1>10 DEF Holder
  <1>12. Locked' /\ OneHolder' /\ DiskFollows'
    BY Zenon, <1>11 DEF Locked, Holder, OneHolder, DiskFollows
  <1>13. Grows
    BY StillGrows
  <1>14. Placed(p)'
    <2>1. Request(p)' = Request(p)
      BY Zenon, <1>8, <1>9 DEF Request
    <2> QED
      BY Zenon, <1>2, <1>3, <1>4, <1>8, <1>9, <2>1 DEF Placed
  <1>15. Typed' /\ Keyed' /\ Journalled'
    <2>1. req'[p] \in Requests /\ req' = [req EXCEPT ![p] = req'[p]] /\ req'[p].key = req[p].key
      BY Zenon, <1>5, <1>8, <1>9
    <2>2. failed' \in {None} \cup Asked /\ requests' \in Nat /\ gone' \subseteq Known'
      BY <1>2, <1>13 DEF Typed, Grows
    <2>3. Typed'
      BY Zenon, <1>2, <1>13, <1>14, <2>1, <2>2, TypedMoves DEF Grows
    <2>4. Keyed'
      BY Zenon, <1>1, <1>2, <2>1, KeyedMoves DEF Inductive
    <2> QED
      BY <1>13, <2>3, <2>4 DEF Grows
  <1>16. Known' = Known /\ Own(p)' = Own(p) /\ Operation(p)' = Operation(p)
    BY <1>8, <1>9 DEF Known, Own, Operation, SecretRef
  <1>17. Sound(mem, {}, Known, gone, torn) /\ Sound(disk, {}, Known, gone, torn)
        /\ disk.map = Snapshot(mem).map /\ Snapshot(disk).map = disk.map
    BY DEF Inductive, DiskFollows
  <1>18. Held(p)'
    <2>1. Held(p)
      BY DEF Inductive
    <2>2. req'[p].kind = req[p].kind /\ req'[p].m = req[p].m /\ req'[p].epoch = req[p].epoch
      BY <1>8, <1>9
    <2>3. req[p].at \in {"replay", "saveReplay", "apply", "save"}
      OBVIOUS
    <2> QED
      BY Zenon, <1>16, <2>1, <2>2, <2>3 DEF Held
  <1>19. Saving(p)'
    <2>1. Sound(mem', Replaced(p)', Known', gone', torn')
      BY <1>16
    <2>2. Sound(next, Replaced(p)', Known', gone', torn')
      BY <1>6, <1>16, SoundQuiet
    <2>3. \A s \in Suffixes : mem.retired[s] <= next.retired[s] /\ next.retired[s] <= mem'.retired[s]
      <3>1. \A s \in Suffixes : new.retired[s] \in Nat
        BY Zenon, MemoryFields
      <3> QED
        BY <1>3, <3>1
    <2>4. req[p].kind = "delete" => \A s \in Suffixes :
              next.map[s].ref # mem.map[s].ref => next.retired[s] >= mem.map[s].epoch
      BY <1>3, NoMappingTyped DEF Configured
    <2>5. req'[p].prev = mem /\ req'[p].next = next /\ req'[p].kind = req[p].kind
      BY Zenon, <1>8, <1>9
    <2>6. Sound(mem, {}, Known', gone', torn')
      BY <1>16, <1>17
    <2>7. disk'.map = Snapshot(mem).map /\ next.map = Snapshot(mem').map
      BY <1>7, <1>17
    <2>8. Snapshot(next).map = next.map
      BY <1>6
    <2>9. Sound(req'[p].prev, {}, Known', gone', torn') /\ Sound(req'[p].next, Replaced(p)', Known', gone', torn')
      BY <2>2, <2>5, <2>6
    <2>10. /\ disk'.map = Snapshot(req'[p].prev).map /\ req'[p].next.map = Snapshot(mem').map
           /\ Snapshot(req'[p].next).map = req'[p].next.map
      BY <2>5, <2>7, <2>8
    <2>11. \A s \in Suffixes : /\ req'[p].prev.retired[s] <= req'[p].next.retired[s]
                               /\ req'[p].next.retired[s] <= mem'.retired[s]
      BY <2>3, <2>5
    <2>12. req'[p].kind = "delete" => \A s \in Suffixes :
              req'[p].next.map[s].ref # req'[p].prev.map[s].ref
                 => req'[p].next.retired[s] >= req'[p].prev.map[s].epoch
      BY <2>4, <2>5
    <2> QED
      BY Zenon, <2>1, <2>9, <2>10, <2>11, <2>12 DEF Saving
  <1>20. Fresh(p)'
    <2>1. SUFFICES ASSUME req[p].kind = "create", req[p].at = "replay", ~Configured(next.map[req[p].s]),
                          Own(p) \notin torn
                   PROVE  /\ Unmapped(Own(p), mem') /\ Unmapped(Own(p), disk) /\ Own(p) \notin gone
                          /\ Unmapped(Own(p), mem) /\ Unmapped(Own(p), next)
      <3>1. req'[p].kind = req[p].kind /\ req'[p].at = place /\ req'[p].next = next /\ req'[p].prev = mem
            /\ req'[p].s = req[p].s
        BY Zenon, <1>8, <1>9
      <3> QED
        BY ZenonT(40), <1>4, <1>11, <1>16, <2>1, <3>1 DEF Fresh, At, Unmapped
    <2>2. new = mem /\ ~Configured(mem.map[req[p].s]) /\ mem.retired[req[p].s] < req[p].epoch
      BY <1>2, <1>3, <2>1 DEF Replayable, At
    <2>3. Own(p) = <<req[p].s, req[p].epoch>>
      BY DEF Own, SecretRef
    <2>4. mem.retired[req[p].s] \in Nat
      BY <1>2, MemoryFields
    <2>5. Unmapped(Own(p), mem)
      <3>1. ASSUME NEW t \in Suffixes, mem.map[t].ref = <<req[p].s, req[p].epoch>> PROVE FALSE
        <4>1. \/ <<req[p].s, req[p].epoch>> \in torn \cup {} \/ mem.retired[req[p].s] >= req[p].epoch
              \/ mem.map[req[p].s].ref = <<req[p].s, req[p].epoch>>
          BY Zenon, <1>2, <1>17, <3>1 DEF Sound, Traced
        <4>2. mem.map[req[p].s].ref # <<req[p].s, req[p].epoch>>
          BY Zenon, <2>2, RefIsNotNone DEF Configured
        <4>3. <<req[p].s, req[p].epoch>> \notin torn \cup {}
          BY <2>1, <2>3
        <4>4. ~(mem.retired[req[p].s] >= req[p].epoch)
          BY <1>2, <2>2, <2>4
        <4> QED
          BY Zenon, <4>1, <4>2, <4>3, <4>4
      <3> QED
        BY <2>3, <3>1 DEF Unmapped
    <2>6. Own(p) \notin gone
      <3>1. <<req[p].s, req[p].epoch>> \in gone
               => <<req[p].s, req[p].epoch>> \in torn \/ mem.retired[req[p].s] >= req[p].epoch
        BY <1>2, <1>17 DEF Sound, Spent
      <3> QED
        BY <1>2, <2>1, <2>2, <2>3, <2>4, <3>1
    <2>7. Own(p) # None
      BY <2>3, RefIsNotNone
    <2>8. Unmapped(Own(p), next)
      BY <1>6, <2>2, <2>5, <2>7, UnmappedQuiet
    <2>9. disk.map = next.map
      BY <1>7, <1>17, <2>2
    <2> QED
      BY <2>2, <2>5, <2>6, <2>8, <2>9 DEF Unmapped
  <1>21. ASSUME NEW q \in Callers, q # p PROVE Held(q)' /\ Fresh(q)'
    <2>1. req'[q] = req[q] /\ Held(q) /\ Fresh(q) /\ Own(q)' = Own(q) /\ Operation(q)' = Operation(q)
      BY Zenon, <1>9, <1>21 DEF Inductive, Own, Operation, SecretRef
    <2>2. Held(q)'
      BY Zenon, <2>1 DEF Held
    <2>3. Own(q) # None
      BY RefIsNotNone DEF Own, SecretRef
    <2>4. CASE req[q].kind = "create" /\ At(q, "apply") /\ Own(q) \notin torn
      <3>1. Unmapped(Own(q), mem) /\ Unmapped(Own(q), disk) /\ Own(q) \notin gone
        BY <2>1, <2>4 DEF Fresh
      <3>2. At(p, "apply") /\ req[p].kind = "create" => Own(p) # Own(q)
        BY <1>21, <2>4, OwnApart DEF At
      <3>3. Unmapped(Own(q), new)
        BY <2>3, <3>1, <3>2 DEF Unmapped, Configured
      <3>4. Unmapped(Own(q), next)
        BY <1>6, <2>3, <3>3, UnmappedQuiet
      <3>5. req'[p].prev = mem /\ req'[p].next = next
        BY Zenon, <1>8, <1>9
      <3>6. Unmapped(Own(q), mem)' /\ Unmapped(Own(q), disk)' /\ (Own(q) \notin gone)'
        BY <2>1, <3>1, <3>3 DEF Unmapped
      <3>7. Unmapped(Own(q), req[p].prev)' /\ Unmapped(Own(q), req[p].next)'
        BY Zenon, <2>1, <3>1, <3>4, <3>5 DEF Unmapped
      <3>8. Fresh(q)'
        BY Zenon, <1>11, <3>6, <3>7 DEF Fresh
      <3> QED
        BY <2>2, <3>8
    <2>5. CASE ~(req[q].kind = "create" /\ At(q, "apply") /\ Own(q) \notin torn)
      <3>1. ~At(q, "saveReplay")
        BY <1>10 DEF Holder, At
      <3> QED
        BY Zenon, <2>1, <2>2, <2>5, <3>1 DEF Fresh, At
    <2> QED
      BY <2>4, <2>5
  <1>22. Sound(disk', {}, Known', gone', torn') /\ (Snapshot(disk).map = disk.map)'
    BY <1>16, <1>17 DEF Snapshot
  <1> QED
    BY <1>11, <1>12, <1>15, <1>18, <1>19, <1>20, <1>21, <1>22 DEF Inductive

\* What Apply checks and does, by kind.
LEMMA ApplyCases ==
    ASSUME Inductive, NEW p \in Callers, req[p].at \in {"replay", "apply"}, Applicable(p)
    PROVE  \/ At(p, "replay") /\ Replayable(p) /\ Applied(p) = mem
           \/ /\ At(p, "apply") /\ req[p].kind = "create"
              /\ Applied(p) = Assigned(mem, req[p].s, req[p].m)
           \/ /\ At(p, "apply") /\ req[p].kind = "rotate"
              /\ Applied(p) = ApplyRotated(req[p].s, req[p].m)
           \/ /\ At(p, "apply") /\ req[p].kind = "rename" /\ Configured(mem.map[req[p].s])
              /\ req[p].s = req[p].t \/ ~Configured(mem.map[req[p].t])
              /\ Applied(p) = ApplyRename(req[p].s, req[p].t)
           \/ /\ At(p, "apply") /\ req[p].kind = "delete"
              /\ Applied(p) = ApplyDelete(req[p].s)
           \/ /\ At(p, "apply") /\ req[p].kind = "share" /\ Configured(mem.map[req[p].t])
              /\ Applied(p) = ApplyShare(req[p].s, req[p].t, req[p].epoch)
  <1>1. /\ req[p].kind \in KindNames
        /\ At(p, "replay") => req[p].kind = "create"
        /\ At(p, "apply") => req[p].kind # "resolve"
    BY Running DEF At, Placed
  <1>2. CASE At(p, "replay")
    BY Zenon, <1>1, <1>2 DEF Applicable, Applied, At
  <1>3. CASE At(p, "apply") /\ req[p].kind = "create"
    BY <1>3 DEF Applied, At, Assigned
  <1>4. CASE At(p, "apply") /\ req[p].kind = "rotate"
    BY <1>4 DEF Applied, At
  <1>5. CASE At(p, "apply") /\ req[p].kind = "rename"
    BY <1>5 DEF Applicable, Applied, At
  <1>6. CASE At(p, "apply") /\ req[p].kind = "delete"
    BY <1>6 DEF Applied, At
  <1>7. CASE At(p, "apply") /\ req[p].kind = "share"
    BY <1>7 DEF Applicable, Applied, At
  <1> QED
    BY Zenon, <1>1, <1>2, <1>3, <1>4, <1>5, <1>6, <1>7 DEF At, KindNames

\* The request that has begun to save.
LEMMA ApplyFields ==
    ASSUME Inductive, NEW p \in Callers, ~At(p, "done"), NEW place \in Places, NEW next \in Memory,
           req' = [req EXCEPT ![p].at = place, ![p].prev = mem, ![p].next = next]
    PROVE  /\ req'[p].at = place /\ req'[p].prev = mem /\ req'[p].next = next
           /\ req'[p].kind = req[p].kind /\ req'[p].s = req[p].s
  <1> DEFINE r == [req[p] EXCEPT !.at = place, !.prev = mem, !.next = next]
  <1>1. req' = [req EXCEPT ![p] = r] /\ req[p] \in Requests /\ Typed
    BY Zenon, Running
  <1>2. r.at = place /\ r.prev = mem /\ r.next = next /\ r.kind = req[p].kind /\ r.s = req[p].s
    BY <1>1 DEF Requests
  <1> HIDE DEF r
  <1>3. req'[p] = r
    BY Zenon, <1>1 DEF Typed
  <1> QED
    BY <1>2, <1>3

LEMMA ApplyStep ==
    ASSUME Inductive, NEW p \in Callers, Apply(p)
    PROVE  Inductive'
  <1> DEFINE new == Applied(p)
             s == req[p].s
  <1>1. /\ req[p].at \in {"replay", "apply"} /\ ~Locked
        /\ UNCHANGED <<disk, vault, journal, gone, torn, requests>>
    BY DEF Apply
  <1>2. ~At(p, "done") /\ ~Holder(p)
    BY <1>1 DEF At, Holder
  <1>3. /\ Typed /\ Placed(p) /\ mem \in Memory /\ s \in Suffixes /\ req[p].t \in Suffixes
        /\ req[p].epoch \in Nat /\ req[p].m \in Mapping
    BY <1>2, Running
  <1>4. CASE Fails(p) /\ UNCHANGED mem
    BY <1>1, <1>2, <1>3, <1>4, FailsEnds, EndsOutside, SameMemory, StillGrows
  <1>5. ASSUME Applicable(p), mem' = new, failed' = failed,
               req' = [req EXCEPT ![p].at = IF @ = "replay" THEN "saveReplay" ELSE "save",
                                  ![p].prev = mem, ![p].next = Snapshot(new)]
        PROVE  Inductive'
    <2> DEFINE place == IF req[p].at = "replay" THEN "saveReplay" ELSE "save"
    <2>1. Sound(mem, {}, Known, gone, torn) /\ Tidy(mem)
      BY <1>1, MemTidy DEF Inductive
    <2>2. \A x \in Suffixes : mem.retired[x] \in Nat
      BY <1>3, MemoryFields
    <2>3. ASSUME new \in Memory
          PROVE  /\ At(p, "replay") \/ req[p].kind # "create" => Replaced(p)' = {}
                 /\ At(p, "apply") /\ req[p].kind = "create" /\ Configured(new.map[s])
                    /\ mem.map[s].ref \notin {new.map[s].ref, None} => mem.map[s].ref \in Replaced(p)'
      <3> DEFINE next == Snapshot(new)
      <3>1. next \in Memory /\ (Configured(new.map[s]) => next.map[s] = new.map[s])
        BY Zenon, <1>3, <2>3, SnapshotFields
      <3>2. req' = [req EXCEPT ![p].at = place, ![p].prev = mem, ![p].next = next]
        BY <1>5
      <3>3. place \in Places /\ (At(p, "replay") => place = "saveReplay") /\ (At(p, "apply") => place = "save")
        BY DEF Places, At
      <3> HIDE DEF next, place, new
      <3>4. /\ req'[p].at = place /\ req'[p].prev = mem /\ req'[p].next = next
            /\ req'[p].kind = req[p].kind /\ req'[p].s = s
        BY Zenon, <1>2, <3>1, <3>2, <3>3, ApplyFields
      <3> HIDE DEF s
      <3> QED
        BY <3>1, <3>3, <3>4 DEF Replaced, At
    <2>4. ASSUME Rearranged(mem, new), At(p, "replay") \/ req[p].kind # "create",
                 At(p, "replay") => new = mem /\ Replayable(p),
                 req[p].kind = "delete" => \A x \in Suffixes :
                    new.map[x].ref # mem.map[x].ref => new.retired[x] >= mem.map[x].epoch
          PROVE  Inductive'
      <3>1. new \in Memory /\ \A x \in Suffixes : mem.retired[x] <= new.retired[x]
        BY <2>4 DEF Rearranged
      <3>2. Sound(new, {}, Known, gone, torn)
        BY <2>1, <2>4, SoundRearranged
      <3>3. Replaced(p)' = {}
        BY <2>3, <2>4, <3>1
      <3>4. \A x \in Suffixes : Configured(new.map[x]) => \E o \in Suffixes : new.map[x].ref = mem.map[o].ref
        BY <2>4 DEF Rearranged
      <3> HIDE DEF new
      <3> QED
        BY Zenon, <1>1, <1>5, <2>4, <3>1, <3>2, <3>3, <3>4, ApplyStores
    <2>5. CASE At(p, "replay") /\ Replayable(p) /\ new = mem
      <3>1. Rearranged(mem, mem)
        BY <2>1, <2>2 DEF Rearranged, Tidy
      <3>2. req[p].kind # "delete"
        BY <1>3, <2>5 DEF Placed, At
      <3> QED
        BY <2>4, <2>5, <3>1, <3>2
    <2>6. CASE At(p, "apply") /\ req[p].kind = "create" /\ new = Assigned(mem, s, req[p].m)
      <3> DEFINE m == req[p].m
      <3>1. m = [ref |-> Own(p), ver |-> 1, epoch |-> req[p].epoch] /\ Own(p) = <<s, req[p].epoch>>
        BY <2>6 DEF Inductive, Held, At, Own, SecretRef
      <3>2. m.ref = Own(p) /\ m.ver = 1 /\ m.epoch = req[p].epoch
        BY <3>1
      <3>3. Own(p) \in Known
        <4>1. PICK o \in journal : o.ref = Own(p)
          BY Zenon, <2>6 DEF Inductive, Held, At
        <4> QED
          BY <4>1 DEF Inductive, Journalled
      <3>4. Own(p) \in torn \/ (Unmapped(Own(p), mem) /\ Own(p) \notin gone)
        BY <2>6 DEF Inductive, Fresh
      <3>5. /\ new \in Memory /\ new.retired = mem.retired /\ new.map[s] = m
            /\ \A x \in Suffixes : x # s => new.map[x] = mem.map[x]
        BY <1>3, <2>6, AssignedFields
      <3>6. Configured(m)
        BY <3>1, <3>2, RefIsNotNone DEF Configured
      <3>7. mem.map[s].ref \notin {m.ref, None} => mem.map[s].ref \in Replaced(p)'
        BY <2>3, <2>6, <3>5, <3>6
      <3>8. Sound(new, Replaced(p)', Known, gone, torn)
        BY Zenon, <1>3, <2>1, <2>6, <3>1, <3>2, <3>3, <3>4, <3>7, SoundCreated
      <3>9. \A x \in Suffixes : mem.retired[x] <= new.retired[x]
        BY <2>2, <3>5
      <3>10. \A x \in Suffixes : Configured(new.map[x]) =>
                \/ \E o \in Suffixes : new.map[x].ref = mem.map[o].ref
                \/ At(p, "apply") /\ req[p].kind = "create" /\ new.map[x].ref = Own(p)
        BY <2>6, <3>2, <3>5
      <3>11. ~At(p, "replay") /\ req[p].kind # "delete"
        BY <2>6 DEF At
      <3>12. new \in Memory
        BY <3>5
      <3> HIDE DEF new, s
      <3> QED
        BY Zenon, <1>1, <1>5, <3>8, <3>9, <3>10, <3>11, <3>12, ApplyStores
    <2>7. CASE At(p, "apply") /\ req[p].kind = "rotate" /\ new = ApplyRotated(s, req[p].m)
      <3>1. req[p].m.ref # None /\ req[p].m.ver > 0
        BY <1>3, <2>7 DEF Placed, At
      <3>2. Sound(new, {}, Known, gone, torn) /\ new.retired = mem.retired
        BY <1>3, <2>1, <2>7, <3>1, SoundRotated
      <3>3. new \in Memory
        BY <3>2 DEF Sound
      <3>4. \A x \in Suffixes : new.map[x].ref = mem.map[x].ref
        <4>1. \A x \in Suffixes : mem.map[x] \in Mapping
          BY <1>3, MemoryFields
        <4>2. new.map = [x \in Suffixes |-> IF mem.map[x].ref = req[p].m.ref
                                             THEN [mem.map[x] EXCEPT !.ver = req[p].m.ver] ELSE mem.map[x]]
          BY <1>3, <2>7 DEF ApplyRotated, Memory
        <4> QED
          BY <4>1, <4>2 DEF Mapping
      <3>5. Replaced(p)' = {}
        BY <2>3, <2>7, <3>3
      <3>6. \A x \in Suffixes : mem.retired[x] <= new.retired[x]
        BY <2>2, <3>2
      <3>7. ~At(p, "replay") /\ req[p].kind # "delete"
        BY <2>7 DEF At
      <3> HIDE DEF new
      <3> QED
        BY Zenon, <1>1, <1>5, <3>2, <3>3, <3>4, <3>5, <3>6, <3>7, ApplyStores
    <2>8. CASE /\ At(p, "apply") /\ req[p].kind = "rename" /\ Configured(mem.map[s])
               /\ s = req[p].t \/ ~Configured(mem.map[req[p].t])
               /\ new = ApplyRename(s, req[p].t)
      BY <1>3, <2>1, <2>4, <2>8, RenameRearranges DEF At
    <2>9. CASE At(p, "apply") /\ req[p].kind = "delete" /\ new = ApplyDelete(s)
      <3>1. /\ Rearranged(mem, new) /\ \A x \in Suffixes : x # s => new.map[x] = mem.map[x]
            /\ new.retired[s] >= mem.map[s].epoch
        BY <1>3, <2>1, <2>9, DeleteRearranges
      <3> QED
        BY <2>4, <2>9, <3>1 DEF At
    <2>10. CASE /\ At(p, "apply") /\ req[p].kind = "share" /\ Configured(mem.map[req[p].t])
                /\ new = ApplyShare(s, req[p].t, req[p].epoch)
      BY <1>3, <2>1, <2>4, <2>10, ShareRearranges DEF At
    <2> HIDE DEF new, s
    <2> QED
      BY <1>1, <1>5, <2>5, <2>6, <2>7, <2>8, <2>9, <2>10, ApplyCases DEF new, s
  <1> QED
    BY <1>4, <1>5 DEF Apply

\* The save is answered: nothing is saved any more.
LEMMA AnswersFrame ==
    ASSUME Inductive, NEW p \in Callers, Holder(p), req' = [req EXCEPT ![p] = req'[p]],
           ~Holder(p)'
    PROVE  /\ ~Locked' /\ OneHolder' /\ \A q \in Callers : ~Holder(q)'
           /\ \A q \in Callers : q # p => req'[q] = req[q] /\ Own(q)' = Own(q) /\ Operation(q)' = Operation(q)
  <1>1. \A q \in Callers : q # p => req'[q] = req[q]
    BY DEF Inductive, Typed
  <1>2. \A q \in Callers : q # p => ~Holder(q)
    BY DEF Inductive, OneHolder
  <1>3. \A q \in Callers : ~Holder(q)'
    BY <1>1, <1>2 DEF Holder
  <1> QED
    BY <1>1, <1>3 DEF Locked, Holder, OneHolder, Own, Operation, SecretRef

\* A change that is saved replaces the catalog.
LEMMA SavedStep ==
    ASSUME Inductive, NEW p \in Callers, Holder(p), disk' = req[p].next, mem' = mem,
           gone' = IF req[p].kind = "delete" THEN gone \cup (Refs(disk) \ Refs(req[p].next)) ELSE gone,
           torn' = torn \cup Replaced(p), UNCHANGED <<vault, journal, requests>>,
           \/ Ends(p)
           \/ /\ At(p, "saveReplay") /\ ~Configured(req[p].next.map[req[p].s])
              /\ Moved(p, "apply", req[p].m, req[p].epoch) /\ failed' = failed
    PROVE  Inductive'
  <1> DEFINE prev == req[p].prev
             next == req[p].next
  <1>1. ~At(p, "done")
    BY DEF Holder, At
  <1>2. Typed /\ Placed(p) /\ Saving(p) /\ Held(p) /\ Fresh(p)
    BY DEF Inductive, Typed
  <1>3. req' = [req EXCEPT ![p] = req'[p]] /\ req'[p] \in Requests /\ req'[p].at \in {"done", "apply"}
    BY DEF Ends, Moved
  <1>4. /\ ~Locked' /\ OneHolder' /\ \A q \in Callers : ~Holder(q)'
        /\ \A q \in Callers : q # p => req'[q] = req[q] /\ Own(q)' = Own(q) /\ Operation(q)' = Operation(q)
    BY Zenon, <1>3, AnswersFrame DEF Holder
  <1>5. Grows /\ Known' = Known
    BY Zenon, StillGrows DEF Known
  <1>6. /\ Sound(prev, {}, Known, gone, torn) /\ Sound(next, Replaced(p), Known, gone, torn)
        /\ Sound(mem, Replaced(p), Known, gone, torn)
        /\ disk.map = Snapshot(prev).map /\ next.map = Snapshot(mem).map
        /\ Snapshot(next).map = next.map
        /\ \A s \in Suffixes : prev.retired[s] <= next.retired[s] /\ next.retired[s] <= mem.retired[s]
        /\ req[p].kind = "delete" => \A s \in Suffixes :
              next.map[s].ref # prev.map[s].ref => next.retired[s] >= prev.map[s].epoch
    BY Zenon, <1>2 DEF Saving
  <1>7. prev \in Memory /\ next \in Memory /\ mem \in Memory /\ disk \in Memory
    BY Zenon, <1>6, MemTidy DEF Sound, Tidy
  <1>8. \A s \in Suffixes : /\ prev.retired[s] \in Nat /\ next.retired[s] \in Nat /\ mem.retired[s] \in Nat
                            /\ prev.map[s].epoch \in Nat
    BY <1>7, MemoryFields
  <1> HIDE DEF prev, next
  <1>9. \A s \in Suffixes : mem.map[s].ref = next.map[s].ref
    <2>1. \A s \in Suffixes : Snapshot(mem).map[s] = (IF Configured(mem.map[s]) THEN mem.map[s] ELSE NoMapping)
      BY Zenon, <1>7, SnapshotFields
    <2> QED
      BY Zenon, <1>6, <2>1, NoMappingTyped DEF Configured
  <1>10. \A s \in Suffixes : disk.map[s].ref = prev.map[s].ref
    <2>1. \A s \in Suffixes : Snapshot(prev).map[s] = (IF Configured(prev.map[s]) THEN prev.map[s] ELSE NoMapping)
      BY Zenon, <1>7, SnapshotFields
    <2> QED
      BY Zenon, <1>6, <2>1, NoMappingTyped DEF Configured
  <1>11. /\ gone \subseteq gone'
         /\ \A ref : ref \in gone' /\ ref \notin gone =>
               req[p].kind = "delete" /\ ref \in Refs(disk) /\ ref \notin Refs(next)
    BY DEF next
  <1>12. \A ref : ref \in gone' /\ ref \notin gone => \A s \in Suffixes : next.map[s].ref # ref
    <2>1. \A ref \in Refs(disk) : ref # None
      BY DEF Refs
    <2> QED
      BY <1>11, <2>1 DEF Refs
  <1>13. ASSUME NEW x \in Suffixes, NEW e \in Nat, <<x, e>> \in gone'
         PROVE  <<x, e>> \in gone \/ <<x, e>> \in torn \/ next.retired[x] >= e
    <2>1. SUFFICES ASSUME <<x, e>> \notin gone, <<x, e>> \notin torn PROVE next.retired[x] >= e
      OBVIOUS
    <2>2. req[p].kind = "delete" /\ <<x, e>> \in Refs(disk) /\ \A s \in Suffixes : next.map[s].ref # <<x, e>>
      BY Zenon, <1>11, <1>12, <1>13, <2>1
    <2>3. PICK t \in Suffixes : prev.map[t].ref = <<x, e>>
      BY Zenon, <1>10, <2>2 DEF Refs
    <2>4. \/ <<x, e>> \in torn \cup {} \/ prev.retired[x] >= e
          \/ prev.map[x].ref = <<x, e>> /\ prev.map[x].epoch >= e
      BY Zenon, <1>6, <2>3 DEF Sound, Traced
    <2>5. CASE prev.retired[x] >= e
      <3>1. /\ prev.retired[x] \in Nat /\ next.retired[x] \in Nat
            /\ prev.retired[x] <= next.retired[x]
        BY Zenon, <1>6, <1>8
      <3> QED
        BY Zenon, <2>5, <3>1, AtLeast
    <2>6. CASE prev.map[x].ref = <<x, e>> /\ prev.map[x].epoch >= e
      <3>1. next.retired[x] >= prev.map[x].epoch
        BY Zenon, <1>6, <2>2, <2>6
      <3> QED
        BY Zenon, <1>8, <2>6, <3>1, AtLeast
    <2> QED
      BY <2>1, <2>4, <2>5, <2>6
  <1>14. \A x \in Suffixes : \A e \in Nat : <<x, e>> \in gone' =>
            <<x, e>> \in gone \/ <<x, e>> \in torn' \/ next.retired[x] >= e
    BY <1>13
  <1>15. \A x \in Suffixes : \A e \in Nat : <<x, e>> \in gone' =>
            <<x, e>> \in gone \/ <<x, e>> \in torn' \/ mem.retired[x] >= e
    <2>1. \A x \in Suffixes : next.retired[x] <= mem.retired[x]
      BY Zenon, <1>6
    <2> QED
      BY <1>8, <1>14, <2>1
  <1>g. /\ Known \subseteq Known /\ torn \subseteq torn'
        /\ torn \cup Replaced(p) \subseteq torn' \cup {}
    BY Zenon
  <1>h. Sound(next, Replaced(p), Known, gone, torn) /\ Sound(mem, Replaced(p), Known, gone, torn)
    BY Zenon, <1>6
  <1>16. Sound(disk', {}, Known', gone', torn')
    <2>1. \A x \in Suffixes : next.map[x].ref \in gone' => next.map[x].ref \in gone \/ next.map[x].ref = None
      BY <1>12
    <2>2. Sound(next, {}, Known, gone', torn')
      BY Zenon, <1>g, <1>h, <1>14, <2>1, SoundGrows
    <2> QED
      BY Zenon, <1>5, <2>2 DEF next
  <1>17. Sound(mem', {}, Known', gone', torn')
    <2>1. \A x \in Suffixes : mem.map[x].ref \in gone' => mem.map[x].ref \in gone \/ mem.map[x].ref = None
      BY <1>9, <1>12
    <2>2. Sound(mem, {}, Known, gone', torn')
      BY ZenonT(40), <1>g, <1>h, <1>15, <2>1, SoundGrows
    <2> QED
      BY <1>5, <2>2
  <1>18. DiskFollows' /\ (Snapshot(disk).map = disk.map)'
    <2>1. disk' = next
      BY DEF next
    <2>2. disk'.map = Snapshot(mem').map /\ Snapshot(disk').map = disk'.map
      BY Zenon, <1>6, <2>1
    <2> QED
      BY Zenon, <2>2 DEF DiskFollows
  <1>19. Typed' /\ Keyed' /\ Journalled'
    <2>1. Placed(p)'
      <3>1. CASE Ends(p)
        BY <3>1 DEF Ends, Placed
      <3>2. CASE At(p, "saveReplay") /\ Moved(p, "apply", req[p].m, req[p].epoch)
        <4>1. req[p].kind = "create" /\ Request(p) \in Asked
          BY Zenon, <1>2, <3>2 DEF Placed, At
        <4>2. Request(p)' = Request(p) /\ req'[p].at = "apply" /\ req'[p].kind = "create"
          BY Zenon, <3>2, <4>1 DEF Moved, Request
        <4> QED
          BY <4>1, <4>2 DEF Placed
      <3> QED
        BY Zenon, <3>1, <3>2
    <2>2. failed' \in {None} \cup Asked
      BY Zenon, <1>1, <1>2 DEF Ends, Typed, Placed, At
    <2>3. gone' \subseteq Known'
      <3>1. \A ref \in Refs(disk) : ref \in Known
        BY Zenon DEF Refs, Inductive, Sound, Backed, Configured
      <3> QED
        BY <1>2, <1>5, <1>11, <3>1 DEF Typed
    <2>4. Typed'
      BY Zenon, <1>2, <1>3, <1>5, <2>1, <2>2, <2>3, TypedMoves DEF Typed, Grows
    <2>5. Keyed'
      <3>1. \/ req'[p].key = req[p].key /\ failed' = failed
            \/ req'[p].at = "done" /\ failed' \in {failed, Request(p)}
        BY DEF Ends, Moved
      <3> QED
        BY Zenon, <1>1, <1>2, <1>3, <3>1, KeyedMoves DEF Inductive
    <2> QED
      BY Zenon, <1>5, <2>4, <2>5 DEF Grows
  <1>20. ASSUME NEW ref, ref # None, ref \in torn \/ (/\ Unmapped(ref, mem) /\ Unmapped(ref, disk)
                                                      /\ ref \notin gone /\ Unmapped(ref, next))
         PROVE  ref \in torn' \/ (Unmapped(ref, mem') /\ Unmapped(ref, disk') /\ ref \notin gone')
    <2>1. CASE ref \in torn
      BY Zenon, <2>1
    <2>2. CASE Unmapped(ref, mem) /\ Unmapped(ref, disk) /\ ref \notin gone /\ Unmapped(ref, next)
      <3>1. ref \notin Refs(disk)
        BY Zenon, <2>2 DEF Refs, Unmapped
      <3> QED
        BY <1>11, <2>2, <3>1 DEF next
    <2> QED
      BY Zenon, <1>20, <2>1, <2>2
  <1>21. ASSUME NEW q \in Callers, q # p PROVE Held(q)' /\ Fresh(q)'
    <2>1. req'[q] = req[q] /\ Own(q)' = Own(q) /\ Operation(q)' = Operation(q) /\ Held(q) /\ Fresh(q)
      BY Zenon, <1>4, <1>21 DEF Inductive
    <2>2. Held(q)'
      BY Zenon, <2>1 DEF Held
    <2>3. Own(q) # None
      BY Zenon, RefIsNotNone DEF Own, SecretRef
    <2>4. Fresh(q)'
      <3>1. SUFFICES ASSUME req[q].kind = "create", At(q, "apply")
                     PROVE  Own(q) \in torn' \/ (/\ Unmapped(Own(q), mem') /\ Unmapped(Own(q), disk')
                                                 /\ Own(q) \notin gone')
        <4>1. ~At(q, "saveReplay")'
          BY Zenon, <1>4 DEF Holder, At
        <4> QED
          BY Zenon, <1>4, <2>1, <4>1, <3>1 DEF Fresh, At, Unmapped
      <3>2. Own(q) \in torn \/ (/\ Unmapped(Own(q), mem) /\ Unmapped(Own(q), disk)
                                /\ Own(q) \notin gone /\ Unmapped(Own(q), next))
        BY Zenon, <2>1, <3>1 DEF Fresh, next
      <3> QED
        BY Zenon, <1>20, <2>3, <3>2
    <2> QED
      BY <2>2, <2>4
  <1>22. Held(p)' /\ Fresh(p)'
    <2>1. CASE Ends(p)
      BY Zenon, <2>1 DEF Ends, Held, Fresh
    <2>2. CASE /\ At(p, "saveReplay") /\ ~Configured(req[p].next.map[req[p].s])
               /\ Moved(p, "apply", req[p].m, req[p].epoch)
      <3>1. req[p].kind = "create"
        BY Zenon, <1>2, <2>2 DEF Placed, At
      <3>2. /\ req'[p].kind = "create" /\ req'[p].at = "apply" /\ req'[p].m = req[p].m
            /\ req'[p].epoch = req[p].epoch /\ Own(p)' = Own(p) /\ Operation(p)' = Operation(p)
        BY Zenon, <2>2, <3>1 DEF Moved, Own, Operation, SecretRef
      <3>3. Held(p)'
        BY Zenon, <1>2, <2>2, <3>1, <3>2 DEF Held, At
      <3>4. Own(p) # None
        BY Zenon, RefIsNotNone DEF Own, SecretRef
      <3>5. Own(p) \in torn \/ (/\ Unmapped(Own(p), mem) /\ Unmapped(Own(p), disk)
                                /\ Own(p) \notin gone /\ Unmapped(Own(p), next))
        BY Zenon, <1>2, <2>2, <3>1 DEF Fresh, next
      <3>6. Own(p) \in torn' \/ (Unmapped(Own(p), mem') /\ Unmapped(Own(p), disk') /\ Own(p) \notin gone')
        BY Zenon, <1>20, <3>4, <3>5
      <3>7. Fresh(p)'
        BY Zenon, <1>4, <3>2, <3>6 DEF Fresh, Unmapped
      <3> QED
        BY Zenon, <3>3, <3>7
    <2> QED
      BY Zenon, <2>1, <2>2
  <1> QED
    BY Zenon, <1>4, <1>16, <1>17, <1>18, <1>19, <1>21, <1>22 DEF Inductive

\* A change that is not saved is taken back.
LEMMA TakenBackStep ==
    ASSUME Inductive, NEW p \in Callers, Holder(p), mem' = Restored(req[p].prev, req[p].next), Ends(p),
           UNCHANGED <<disk, gone, torn, vault, journal, requests>>
    PROVE  Inductive'
  <1> DEFINE prev == req[p].prev
             next == req[p].next
  <1>1. ~At(p, "done")
    BY DEF Holder, At
  <1>2. Typed /\ Placed(p) /\ Saving(p)
    BY Zenon DEF Inductive, Typed
  <1>3. /\ req' = [req EXCEPT ![p] = req'[p]] /\ req'[p] \in Requests
        /\ req'[p].at = "done" /\ req'[p].kind = "none" /\ failed' \in {failed, Request(p)}
    BY DEF Ends
  <1>4. /\ ~Locked' /\ OneHolder' /\ \A q \in Callers : ~Holder(q)'
        /\ \A q \in Callers : q # p => req'[q] = req[q] /\ Own(q)' = Own(q) /\ Operation(q)' = Operation(q)
    BY <1>3, AnswersFrame DEF Holder
  <1>5. Grows /\ Known' = Known
    BY StillGrows DEF Known
  <1>6. /\ Sound(prev, {}, Known, gone, torn) /\ next \in Memory
        /\ disk.map = Snapshot(prev).map
    BY Zenon, <1>2 DEF Saving, Sound
  <1>7. Quiet(prev, mem') /\ prev \in Memory /\ mem' \in Memory
    BY ZenonT(40), <1>6, RestoredQuiet DEF Sound, Tidy, Quiet
  <1> HIDE DEF prev, next
  <1>8. Sound(mem', {}, Known', gone', torn')
    BY <1>5, <1>6, <1>7, SoundQuiet
  <1>9. Sound(disk', {}, Known', gone', torn') /\ (Snapshot(disk).map = disk.map)'
    BY <1>5 DEF Inductive
  <1>10. DiskFollows'
    <2>1. Snapshot(mem').map = Snapshot(prev).map
      BY <1>7, SameCatalog DEF Quiet
    <2> QED
      BY <1>6, <2>1 DEF DiskFollows
  <1>11. Typed' /\ Keyed' /\ Journalled'
    <2>1. Placed(p)'
      BY <1>3 DEF Placed
    <2>2. failed' \in {None} \cup Asked /\ gone' \subseteq Known' /\ requests' \in Nat
      BY Zenon, <1>1, <1>2, <1>3, <1>5 DEF Typed, Placed, At
    <2>3. Typed'
      BY Zenon, <1>2, <1>3, <1>5, <2>1, <2>2, TypedMoves DEF Grows
    <2>4. Keyed'
      BY Zenon, <1>1, <1>2, <1>3, KeyedMoves DEF Inductive
    <2> QED
      BY <1>5, <2>3, <2>4 DEF Grows
  <1>12. Held(p)' /\ Fresh(p)'
    BY Zenon, <1>3 DEF Held, Fresh
  <1>13. ASSUME NEW q \in Callers, q # p PROVE Held(q)' /\ Fresh(q)'
    <2>1. req'[q] = req[q] /\ Own(q)' = Own(q) /\ Operation(q)' = Operation(q) /\ Held(q) /\ Fresh(q)
      BY <1>4, <1>13 DEF Inductive
    <2>2. Held(q)'
      BY <2>1 DEF Held
    <2>3. Own(q) # None
      BY RefIsNotNone DEF Own, SecretRef
    <2>4. Fresh(q)'
      <3>1. SUFFICES ASSUME req[q].kind = "create", At(q, "apply"), Own(q) \notin torn
                     PROVE  Unmapped(Own(q), mem') /\ Unmapped(Own(q), disk) /\ Own(q) \notin gone
        <4>1. ~At(q, "saveReplay")'
          BY Zenon, <1>4 DEF Holder, At
        <4> QED
          BY Zenon, <1>4, <2>1, <4>1, <3>1 DEF Fresh, At, Unmapped
      <3>2. Unmapped(Own(q), disk) /\ Own(q) \notin gone /\ Unmapped(Own(q), prev)
        BY Zenon, <2>1, <3>1 DEF Fresh, prev
      <3> QED
        BY <1>7, <2>3, <3>2, UnmappedQuiet
    <2> QED
      BY <2>2, <2>4
  <1> QED
    BY Zenon, <1>4, <1>8, <1>9, <1>10, <1>11, <1>12, <1>13 DEF Inductive

LEMMA SaveStep ==
    ASSUME Inductive, NEW p \in Callers, Save(p)
    PROVE  Inductive'
  <1>1. Holder(p) /\ Typed /\ UNCHANGED <<vault, journal, requests>>
    BY Zenon DEF Save, Holder, Inductive
  <1>2. CASE /\ Fails(p) /\ mem' = Restored(req[p].prev, req[p].next)
             /\ UNCHANGED <<disk, gone, torn>>
    BY <1>1, <1>2, FailsEnds, TakenBackStep
  <1>3. CASE /\ disk' = req[p].next /\ mem' = mem
             /\ gone' = IF req[p].kind = "delete" THEN gone \cup (Refs(disk) \ Refs(req[p].next)) ELSE gone
             /\ torn' = torn \cup Replaced(p)
             /\ \/ At(p, "saveReplay") /\ ~Configured(req[p].next.map[req[p].s]) /\ Goes(p, "apply")
                \/ Succeeds(p)
                \/ Fails(p)
    <2>1. Goes(p, "apply") => Moved(p, "apply", req[p].m, req[p].epoch) /\ failed' = failed
      BY <1>1, GoesMoved DEF Places
    <2>2. Succeeds(p) \/ Fails(p) => Ends(p)
      BY <1>1, FailsEnds, SucceedsEnds
    <2> QED
      BY Zenon, <1>1, <1>3, <2>1, <2>2, SavedStep
  <1> QED
    BY Zenon, <1>2, <1>3 DEF Save

\* A restart drops every request and reads the catalog.
LEMMA RestartStep ==
    ASSUME Inductive, Restart
    PROVE  Inductive'
  <1>1. /\ mem' = disk /\ UNCHANGED <<disk, vault, journal, gone, torn, requests>>
        /\ req' = [p \in Callers |-> [NoRequest EXCEPT !.ok = FALSE]]
    BY DEF Restart
  <1>2. PICK p \in Callers : ~At(p, "done") /\ failed' = Request(p)
    BY DEF Restart
  <1>3. \A q \in Callers : req'[q] \in Requests /\ req'[q].at = "done" /\ req'[q].kind = "none"
    BY Zenon, <1>1, NoRequestTyped
  <1>4. Typed /\ Placed(p) /\ Request(p) \in Asked /\ req[p].key <= requests
    BY Zenon, <1>2 DEF Inductive, Typed, Placed, Keyed, At
  <1>5. Grows /\ Known' = Known
    BY <1>1, StillGrows DEF Known
  <1>6. req' \in [Callers -> Requests]
    BY <1>1, NoRequestTyped
  <1>7. Typed'
    <2>1. \A q \in Callers : Placed(q)'
      BY <1>3 DEF Placed
    <2> QED
      BY Zenon, <1>1, <1>2, <1>4, <1>5, <1>6, <2>1 DEF Typed, Grows
  <1>8. Keyed'
    BY Zenon, <1>1, <1>2, <1>3, <1>4 DEF Keyed, At, Request
  <1>9. ~Locked' /\ OneHolder' /\ \A q \in Callers : ~Holder(q)' /\ Held(q)' /\ Fresh(q)'
    BY Zenon, <1>3 DEF Locked, OneHolder, Holder, Held, Fresh
  <1>10. Sound(disk', {}, Known', gone', torn') /\ Sound(mem', {}, Known', gone', torn')
    BY <1>1, <1>5 DEF Inductive
  <1>11. DiskFollows' /\ (Snapshot(disk).map = disk.map)'
    <2>1. Snapshot(disk').map = disk'.map /\ mem' = disk'
      BY <1>1 DEF Inductive
    <2> QED
      BY <2>1 DEF DiskFollows
  <1> QED
    BY <1>5, <1>7, <1>8, <1>9, <1>10, <1>11 DEF Inductive, Grows

-----------------------------------------------------------------------------
(* The theorems.                                                           *)

LEMMA InitInductive ==
    ASSUME Init
    PROVE  Inductive
  <1>1. /\ mem = Empty /\ disk = Empty /\ vault = {} /\ journal = {} /\ failed = None /\ gone = {}
        /\ torn = {} /\ requests = 0 /\ req = [p \in Callers |-> NoRequest]
    BY DEF Init
  <1>2. req \in [Callers -> Requests] /\ \A p \in Callers : req[p].at = "done" /\ req[p].kind = "none"
    BY <1>1, NoRequestTyped
  <1>3. /\ Empty \in Memory /\ \A s \in Suffixes : Empty.map[s] = NoMapping
    BY NoMappingTyped DEF Empty, Memory
  <1>4. \A s \in Suffixes : ~Configured(Empty.map[s]) /\ Empty.map[s].ref = None /\ Empty.map[s].ver = 0
    BY <1>3, NoMappingTyped
  <1>5. Sound(Empty, {}, Known, {}, {})
    BY <1>3, <1>4, RefIsNotNone DEF Sound, Backed, Agreeing, Traced, Spent
  <1>6. Snapshot(Empty).map = Empty.map
    <2>1. Snapshot(Empty).map = [s \in Suffixes |-> IF Configured(Empty.map[s]) THEN Empty.map[s] ELSE NoMapping]
      BY <1>3, SnapshotFields
    <2>2. Empty.map = [s \in Suffixes |-> NoMapping]
      BY DEF Empty
    <2> QED
      BY <1>4, <2>1, <2>2
  <1>7. Typed
    BY <1>1, <1>2 DEF Typed, Placed
  <1>8. Journalled /\ Keyed
    BY <1>1, <1>2 DEF Journalled, Keyed, At
  <1>9. ~Locked /\ OneHolder /\ \A p \in Callers : ~Holder(p) /\ Held(p) /\ Fresh(p)
    BY <1>2 DEF Locked, OneHolder, Holder, Held, Fresh
  <1> QED
    BY Zenon, <1>1, <1>5, <1>6, <1>7, <1>8, <1>9 DEF Inductive, DiskFollows

LEMMA NextInductive ==
    ASSUME Inductive, [Next]_vars
    PROVE  Inductive'
  <1>1. CASE \E p \in Callers, kind \in Kinds, s, t \in Suffixes : New(p, kind, s, t)
    BY <1>1, NewStep
  <1>2. ASSUME NEW p \in Callers,
               \/ Again(p) \/ Inspect(p) \/ Reserve(p) \/ Enroll(p) \/ Refused(p) \/ NextEpoch(p)
               \/ Rotate(p) \/ Apply(p) \/ Save(p) \/ Lookup(p) \/ Reveal(p)
        PROVE  Inductive'
    BY <1>2, AgainStep, InspectStep, ReserveStep, EnrollStep, RefusedStep, NextEpochStep, RotateStep,
       ApplyStep, SaveStep, LookupStep, RevealStep
  <1>3. CASE Restart
    BY <1>3, RestartStep
  <1>4. CASE UNCHANGED vars
    <2>1. /\ UNCHANGED <<mem, disk, vault, journal, req, failed, gone, torn, requests>>
      BY <1>4 DEF vars
    <2>2. Known' = Known /\ Locked' = Locked /\ OneHolder' = OneHolder /\ DiskFollows' = DiskFollows
      BY <2>1 DEF Known, Locked, OneHolder, Holder, DiskFollows
    <2>3. Typed' /\ Journalled' /\ Keyed'
      BY Zenon, <2>1, <2>2 DEF Inductive, Typed, Placed, Request, Journalled, Keyed, At
    <2>4. \A p \in Callers : /\ Own(p)' = Own(p) /\ Operation(p)' = Operation(p) /\ Holder(p)' = Holder(p)
                             /\ Replaced(p)' = Replaced(p)
      BY <2>1 DEF Own, Operation, SecretRef, Holder, Replaced, At
    <2>5. \A p \in Callers : Held(p)' /\ Fresh(p)'
      <3>1. \A p \in Callers : Held(p) /\ Fresh(p)
        BY Zenon DEF Inductive
      <3>2. \A p \in Callers : Held(p)'
        BY Zenon, <2>1, <2>4, <3>1 DEF Held
      <3>3. \A p \in Callers : Fresh(p)'
        BY Zenon, <2>1, <2>4, <3>1 DEF Fresh, At, Unmapped
      <3> QED
        BY Zenon, <3>2, <3>3
    <2>6. \A p \in Callers : Holder(p) => Saving(p)'
      BY Zenon, <2>1, <2>2, <2>4 DEF Inductive, Saving
    <2> QED
      BY Zenon, <2>1, <2>2, <2>3, <2>4, <2>5, <2>6 DEF Inductive
  <1> QED
    BY <1>1, <1>2, <1>3, <1>4 DEF Next

\* The memory of every state is sound, with the mapping that a create is replacing torn.
LEMMA AlwaysSound ==
    ASSUME Inductive
    PROVE  \E tearing : Sound(mem, tearing, Known, gone, torn)
  <1>1. CASE Locked
    <2>1. PICK p \in Callers : Holder(p)
      BY Zenon, <1>1 DEF Locked, Holder
    <2> QED
      BY Zenon, <2>1 DEF Inductive, Saving
  <1>2. CASE ~Locked
    BY Zenon, <1>2 DEF Inductive
  <1> QED
    BY <1>1, <1>2

\* Whatever creates, shares, renames, rotations and deletions run at the same time, fail, are
\* repeated or are cut off by a restart: every mapping in memory and in the catalog has its
\* secret in the vault, and mappings that share a secret agree on its version.
THEOREM MappingsHaveTheirSecrets == Spec => []SecretsTrue
<1>1. Inductive => SecretsTrue
  <2> SUFFICES ASSUME Inductive PROVE SecretsTrue
    OBVIOUS
  <2>1. PICK tearing : Sound(mem, tearing, Known, gone, torn)
    BY AlwaysSound
  <2>2. Sound(disk, {}, Known, gone, torn)
    BY DEF Inductive
  <2>3. \A ref \in Known : Secrets(ref) # {}
    BY DEF Known, Secrets
  <2>4. \A ref \in Refs(mem) \cup Refs(disk) : ref \in Known
    BY <2>1, <2>2 DEF Sound, Backed, Configured, Refs
  <2>5. Enrolled
    BY <2>3, <2>4 DEF Enrolled
  <2>6. SharedVersion
    <3>1. Agreeing(mem, torn) /\ Agreeing(disk, torn)
      BY Zenon, <2>1, <2>2 DEF Sound
    <3> QED
      BY <3>1 DEF Agreeing, SharedVersion
  <2> QED
    BY <2>5, <2>6 DEF SecretsTrue
<1> QED
  BY <1>1, InitInductive, NextInductive, PTL DEF Spec

\* Whenever applyAndPersist is not in the middle of a save, the catalog holds the mappings in
\* use: what a failed save has not stored is taken back.
THEOREM CatalogFollowsMemory == Spec => []DiskFollows
<1>1. Inductive => DiskFollows
  BY Zenon DEF Inductive
<1> QED
  BY <1>1, InitInductive, NextInductive, PTL DEF Spec

\* A secret whose last mapping was deleted is not mapped again by a request that was under way
\* or is repeated, unless a create had replaced its mapping before.
THEOREM DeletedSecretsStay == Spec => []DeletedStays
<1>1. Inductive => DeletedStays
  <2> SUFFICES ASSUME Inductive PROVE DeletedStays
    OBVIOUS
  <2>1. PICK tearing : Sound(mem, tearing, Known, gone, torn)
    BY AlwaysSound
  <2>2. Sound(disk, {}, Known, gone, torn)
    BY DEF Inductive
  <2> QED
    BY <2>1, <2>2 DEF Sound, Backed, Configured, Refs, DeletedStays
<1> QED
  BY <1>1, InitInductive, NextInductive, PTL DEF Spec
=============================================================================
