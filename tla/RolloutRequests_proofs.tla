----------------------- MODULE RolloutRequests_proofs -----------------------
(***************************************************************************)
(* Rollouts behind an HTTP rule: the effects of the executor's operations, *)
(* and one lemma per step of a publish and of a rollback, which shows that *)
(* the step keeps the invariant.                                           *)
(***************************************************************************)
EXTENDS RolloutProtocol_proofs

\* The provers' time limits, in seconds, and what is expanded everywhere.
USE BoundsAssumption, SMTT(30), ZenonT(30) DEF Outcomes, Ids, AnyImage, Insts

-----------------------------------------------------------------------------
(* The effects of the executor's operations.                               *)

Cut(n) ==
    [host EXCEPT !.route = n, !.served = @ \cup {n}, !.drained = @ \ {n},
                 !.cand = IF @ = n THEN 0 ELSE @]

LEMMA HostFields ==
    ASSUME Types
    PROVE  /\ host \in Host /\ host.img \in [Insts -> AnyImage] /\ host.route \in Ids
           /\ host.cand \in Ids /\ host.last \in Ids
           /\ host.served \subseteq Insts /\ host.drained \subseteq Insts
  BY Zenon DEF Types, Host

\* Starting and removing an instance leave the token the executor has seen.
LEMMA EffectFence ==
    ASSUME host \in Host, NEW image, NEW n
    PROVE  Start(image).fence = host.fence /\ Remove(n).fence = host.fence
<1>1. "fence" \in DOMAIN host
  BY Zenon DEF Host
<1>2. Start(image).fence = host.fence
  BY Zenon, <1>1 DEF Start
<1>3. Remove(n).fence = host.fence
  BY Zenon, <1>1 DEF Remove
<1> QED
  BY Zenon, <1>2, <1>3

LEMMA InstIds ==
    /\ 0 \notin Insts /\ Insts \subseteq Ids
    /\ \A n \in Ids : n # 0 => n \in Insts
  BY BoundsAssumption DEF Insts, Ids

LEMMA ZeroId == 0 \in Ids
  BY BoundsAssumption DEF Ids

LEMMA StartSound ==
    ASSUME Types, ~Node, HostSound, host.last <= MaxOps, host.cand = 0, NEW image \in Images,
           Same(Start(image))
    PROVE  /\ HostSound' /\ Up \subseteq Up' /\ host'.cand = host'.last /\ host'.cand # 0
           /\ host'.route = host.route
           /\ \A r \in Record : Sound(r) /\ r.pend = 0 /\ r.img = image /\ r.phase # "active" =>
                 Sound(r)'
<1> DEFINE n == host.last + 1
<1>1. /\ n \in Insts /\ n \in Ids /\ n # 0
  BY HostFields
<1>2. /\ host'.img = [host.img EXCEPT ![n] = image] /\ host'.cand = n /\ host'.last = n
      /\ host'.drained = host.drained \ {n} /\ host'.route = host.route
      /\ host'.served = host.served
  BY Zenon, HostFields DEF Same, Start, Host
<1>3. n \notin host.served /\ host.img[n] = NoImage
  BY <1>1, HostFields DEF HostSound
<1>4. image # NoImage
  BY Zenon, ImagesAssumption
<1>5. Up' = Up \cup {n}
  BY <1>1, <1>2, <1>4, HostFields DEF Up
<1>6. \A m \in Insts : m # n => host'.img[m] = host.img[m]
  BY Zenon, <1>2, HostFields
<1>7. host'.img[n] = image
  BY <1>1, <1>2, HostFields
<1> HIDE DEF n
<1>8. \A m \in Insts : m > n => m > host.last /\ m # n
  BY HostFields DEF n
<1>9. HostSound'
  <2>1. \A m \in Insts : m > host'.last => host'.img[m] = NoImage /\ m \notin host'.served
    BY <1>2, <1>6, <1>8 DEF HostSound
  <2>2. 0 \notin Up
    BY DEF Up
  <2>3. Up' \subseteq host'.served \cup {host'.cand} /\ host'.drained \subseteq host'.served
    BY <1>2, <1>5, <2>2 DEF HostSound
  <2> QED
    BY Zenon, <1>1, <1>2, <1>3, <1>5, <2>1, <2>3 DEF HostSound
<1>10. ASSUME NEW r \in Record, Sound(r), r.pend = 0, r.img = image, r.phase # "active"
       PROVE  Sound(r)'
  <2>1. r.inst \in Insts /\ r.inst # n /\ (r.hist.inst # 0 => r.hist.inst \in Insts /\ r.hist.inst # n)
    BY Zenon, <1>3, <1>10, HostFields DEF Sound
  <2>2. /\ \A i : Runs(r.inst, i) => Runs(r.inst, i)'
        /\ \A i : r.hist.inst # 0 /\ Runs(r.hist.inst, i) => Runs(r.hist.inst, i)'
    BY Zenon, <1>6, <2>1 DEF Runs
  <2> QED
    BY Zenon, <1>2, <1>7, <1>10, <2>2 DEF Sound
<1> QED
  BY Zenon, <1>1, <1>2, <1>5, <1>9, <1>10

LEMMA DrainSound ==
    ASSUME Types, ~Node, HostSound, NEW n \in host.served, Same(Drain(n))
    PROVE  /\ HostSound' /\ Up' = Up /\ host'.route = host.route /\ host'.cand = host.cand
           /\ \A r \in Record : Sound(r) => Sound(r)'
<1>1. /\ host'.img = host.img /\ host'.cand = host.cand /\ host'.last = host.last
      /\ host'.drained = host.drained \cup ({n} \ {0}) /\ host'.route = host.route
      /\ host'.served = host.served
  BY Zenon, HostFields DEF Same, Drain, Host
<1>2. Up' = Up
  BY Zenon, <1>1 DEF Up
<1> QED
  BY ZenonT(40), <1>1, <1>2 DEF HostSound, Sound, Runs

LEMMA CutTyped ==
    ASSUME Types, NEW n \in Insts
    PROVE  Cut(n) \in Host /\ Cut(n).fence = host.fence
<1> DEFINE served == host.served \cup {n}
           drained == host.drained \ {n}
           cand == IF host.cand = n THEN 0 ELSE host.cand
<1>1. served \in SUBSET Insts /\ drained \in SUBSET Insts /\ cand \in Ids /\ n \in Ids
  BY HostFields, InstIds DEF Ids
<1>2. Cut(n) = [host EXCEPT !.route = n, !.served = served, !.drained = drained, !.cand = cand]
  BY Zenon, HostFields DEF Cut, Host
<1> HIDE DEF served, drained, cand
<1> QED
  BY Zenon, <1>1, <1>2, HostFields DEF Host

LEMMA CutSound ==
    ASSUME Types, ~Node, HostSound, NEW n \in Up, Same(Cut(n))
    PROVE  /\ HostSound' /\ Up' = Up /\ host'.route = n
           /\ host'.cand = (IF host.cand = n THEN 0 ELSE host.cand)
           /\ \A r \in Record : Sound(r) /\ r.phase # "active" /\ n \in {r.inst, r.hist.inst, r.pend} =>
                 Sound(r)'
<1>1. /\ host'.img = host.img /\ host'.last = host.last /\ host'.route = n
      /\ host'.cand = (IF host.cand = n THEN 0 ELSE host.cand)
      /\ host'.drained = host.drained \ {n} /\ host'.served = host.served \cup {n}
  BY Zenon, HostFields DEF Same, Cut, Host
<1>2. Up' = Up /\ n \in Insts /\ 0 \notin Insts /\ host.img[n] # NoImage
  BY <1>1 DEF Up
<1>3. HostSound'
  <2>1. \A m \in Insts : m > host'.last => host'.img[m] = NoImage /\ m \notin host'.served
    BY <1>1, <1>2 DEF HostSound
  <2>2. host'.cand \notin host'.served /\ (host'.cand # 0 => host'.cand \in Up')
    BY <1>1, <1>2, HostFields DEF HostSound
  <2>3. Up' \subseteq host'.served \cup {host'.cand} /\ host'.drained \subseteq host'.served
    BY Zenon, <1>1, <1>2 DEF HostSound
  <2> QED
    BY Zenon, <1>1, <1>2, <2>1, <2>2, <2>3 DEF HostSound
<1>4. ASSUME NEW r \in Record, Sound(r), r.phase # "active", n \in {r.inst, r.hist.inst, r.pend}
      PROVE  Sound(r)'
  BY Zenon, <1>1, <1>2, <1>4 DEF Sound, Runs
<1> QED
  BY Zenon, <1>1, <1>2, <1>3, <1>4

LEMMA RemoveSound ==
    ASSUME Types, ~Node, HostSound, NEW n \in Insts, n # host.route, Same(Remove(n))
    PROVE  /\ HostSound' /\ Up' = Up \ {n} /\ host'.route = host.route
           /\ host'.cand = (IF host.cand = n THEN 0 ELSE host.cand)
           /\ \A r \in Record : Sound(r) => Sound(r)'
<1>1. /\ host'.img = [host.img EXCEPT ![n] = NoImage] /\ host'.last = host.last
      /\ host'.route = host.route /\ host'.cand = (IF host.cand = n THEN 0 ELSE host.cand)
      /\ host'.drained = host.drained \ {n} /\ host'.served = host.served
  BY Zenon, HostFields DEF Same, Remove, Host
<1>2. Up' = Up \ {n} /\ 0 \notin Insts
  BY Zenon, <1>1, HostFields, InstIds DEF Up
<1>3. HostSound'
  <2>1. \A m \in Insts : m > host'.last => host'.img[m] = NoImage /\ m \notin host'.served
    BY Zenon, <1>1, HostFields DEF HostSound
  <2>2. host'.cand \notin host'.served /\ (host'.cand # 0 => host'.cand \in Up')
    BY ZenonT(40), <1>1, <1>2, HostFields DEF HostSound
  <2>3. Up' \subseteq host'.served \cup {host'.cand} /\ host'.drained \subseteq host'.served
    BY Zenon, <1>1, <1>2 DEF HostSound
  <2>4. host'.route \in host'.served /\ host'.route \in Up'
    BY Zenon, <1>1, <1>2 DEF HostSound
  <2> QED
    BY Zenon, <2>1, <2>2, <2>3, <2>4 DEF HostSound
<1>4. \A m \in Insts : \A image : Runs(m, image) => Runs(m, image)'
  BY Zenon, <1>1, HostFields DEF Runs
<1>5. ASSUME NEW r \in Record, Sound(r) PROVE Sound(r)'
  <2>1. r.inst \in Insts /\ (r.hist.inst # 0 => r.hist.inst \in Insts)
        /\ (r.pend # 0 => r.pend \in Insts)
    BY Zenon, <1>5, HostFields DEF Sound
  <2>2. host.cand # 0 /\ host.cand # n => host'.img[host.cand] = host.img[host.cand]
    BY Zenon, <1>1, HostFields, InstIds
  <2> QED
    BY Zenon, <1>1, <1>4, <1>5, <2>1, <2>2 DEF Sound
<1> QED
  BY Zenon, <1>1, <1>2, <1>3, <1>5

\* A call after which the worker goes on at label.
LEMMA GotoFields ==
    ASSUME Types, NEW p \in Workers, NEW label \in PreLease \cup Holding, Goto(p, label)
    PROVE  /\ w'[p].pc = label /\ w'[p].r = w[p].r /\ w'[p].img = w[p].img
           /\ w'[p].pend = w[p].pend /\ w'[p].obs = w[p].obs /\ w'[p].orig = w[p].orig
           /\ [w[p] EXCEPT !.pc = label] \in Worker
           /\ [w[p] EXCEPT !.pc = label].pc = label
           /\ [w[p] EXCEPT !.pc = label].r = w[p].r
           /\ w' = [w EXCEPT ![p] = [w[p] EXCEPT !.pc = label]]
<1>1. w[p] \in Worker /\ w' = [w EXCEPT ![p] = [w[p] EXCEPT !.pc = label]]
  BY Zenon DEF Types, Goto, Become
<1>2. w'[p] = [w[p] EXCEPT !.pc = label]
  BY Zenon, <1>1 DEF Types
<1> QED
  BY <1>1, <1>2 DEF Worker

LEMMA GotoKeeps ==
    ASSUME Types, Types', Protocol, Content, ~Node, NEW p \in Workers,
           NEW able, NEW effect \in Host, NEW oc \in Outcomes,
           NEW label \in Holding \ (FirstCall \cup {"seed", "tombstone"}),
           effect.fence = host.fence, CallIf(p, able, effect, oc), Goto(p, label),
           UNCHANGED <<rec, fences>>, w[p].pc \in Holding,
           Accepts(p) => /\ HostSound' /\ Sound(rec)' /\ Session(p)'
                         /\ {rec.inst, rec.hist.inst} \cap Up \subseteq Up'
    PROVE  Protocol' /\ Content' /\ Moves
<1> DEFINE next == [w[p] EXCEPT !.pc = label]
<1>1. /\ next \in Worker /\ next.pc = label /\ next.r = w[p].r
      /\ w' = [w EXCEPT ![p] = next]
  BY Zenon, GotoFields
<1> HIDE DEF next
<1> QED
  BY Zenon, <1>1, CallKeeps

\* What the accepted call of a holder starts from.
LEMMA CallStarts ==
    ASSUME Types, Protocol, Content, ~Node, NEW p \in Workers, w[p].pc \in Holding, Accepts(p)
    PROVE  /\ Session(p) /\ Sound(w[p].r) /\ Sound(rec) /\ HostSound /\ w[p].r.phase # "active"
           /\ rec.phase = w[p].r.phase /\ rec.inst = w[p].r.inst /\ rec.pend = w[p].r.pend
           /\ rec.img = w[p].r.img /\ rec.hist = w[p].r.hist
           /\ rec \in Record /\ w[p].r \in Record
<1>1. /\ Session(p) /\ Sound(w[p].r) /\ HostSound /\ w[p].r.phase # "active"
      /\ Core(rec) = Core(w[p].r)
  BY Zenon, Accepted
<1> QED
  BY Zenon, <1>1, Numbers DEF Core, Content

\* A call that leaves the executor as it is.
LEMMA LookKeeps ==
    ASSUME Types, Types', Protocol, Content, ~Node, NEW p \in Workers, NEW oc \in Outcomes,
           NEW next \in Worker, Call(p, host, oc), w' = [w EXCEPT ![p] = next], next.r = w[p].r,
           UNCHANGED <<rec, fences>>, w[p].pc \in Holding,
           next.pc \in Holding \ (FirstCall \cup {"seed", "tombstone"}),
           Session(p) /\ Sound(w[p].r) /\ HostSound /\ Same(host) /\ Up' = Up => Session(p)'
    PROVE  Protocol' /\ Content' /\ Moves
<1>1. CallIf(p, TRUE, host, oc) /\ host \in Host
  BY Zenon, Numbers DEF Call
<1>2. Same(host)
  BY Zenon, <1>1, CallEffect
<1>3. Up' = Up /\ (HostSound => HostSound') /\ (Sound(rec) => Sound(rec)')
  BY Zenon, <1>2, Unmoved, Numbers
<1>4. ASSUME Accepts(p)
      PROVE  /\ HostSound' /\ Sound(rec)' /\ Session(p)'
             /\ {rec.inst, rec.hist.inst} \cap Up \subseteq Up'
  <2>1. Session(p) /\ Sound(w[p].r) /\ Sound(rec) /\ HostSound
    BY Zenon, <1>4, CallStarts
  <2> QED
    BY Zenon, <1>2, <1>3, <2>1
<1> QED
  BY Zenon, <1>1, <1>4, CallKeeps

LEMMA LookGoesOn ==
    ASSUME Types, Types', Protocol, Content, ~Node, NEW p \in Workers, NEW oc \in Outcomes,
           NEW label \in Holding \ (FirstCall \cup {"seed", "tombstone"}),
           Call(p, host, oc), Goto(p, label), UNCHANGED <<rec, fences>>, w[p].pc \in Holding,
           /\ Session(p) /\ Sound(w[p].r) /\ HostSound /\ Same(host) /\ Up' = Up
           /\ w'[p].pc = label /\ w'[p].r = w[p].r /\ w'[p].img = w[p].img
           /\ w'[p].pend = w[p].pend /\ w'[p].obs = w[p].obs /\ w'[p].orig = w[p].orig
           => Session(p)'
    PROVE  Protocol' /\ Content' /\ Moves
<1> DEFINE next == [w[p] EXCEPT !.pc = label]
<1>1. /\ next \in Worker /\ next.pc = label /\ next.r = w[p].r
      /\ w' = [w EXCEPT ![p] = next]
      /\ w'[p].pc = label /\ w'[p].r = w[p].r /\ w'[p].img = w[p].img
      /\ w'[p].pend = w[p].pend /\ w'[p].obs = w[p].obs /\ w'[p].orig = w[p].orig
  BY Zenon, GotoFields
<1> HIDE DEF next
<1> QED
  BY Zenon, <1>1, LookKeeps

\* A Cutover to the recorded, the historical or the pending instance.
LEMMA CutGoesOn ==
    ASSUME Types, Types', Protocol, Content, ~Node, NEW p \in Workers, NEW oc \in Outcomes,
           NEW label \in Holding \ (FirstCall \cup {"seed", "tombstone"}), NEW n \in Ids,
           CallIf(p, n \in Up, Cut(n), oc), Goto(p, label), UNCHANGED <<rec, fences>>,
           w[p].pc \in Holding,
           Session(p) /\ Sound(w[p].r) /\ w[p].r.phase # "active" =>
                n \in {w[p].r.inst, w[p].r.hist.inst, w[p].r.pend},
           /\ Session(p) /\ Sound(w[p].r) /\ HostSound /\ Up' = Up /\ w[p].r.phase # "active"
           /\ host'.route = (IF oc = "fail" THEN host.route ELSE n)
           /\ host'.cand = (IF oc # "fail" /\ host.cand = n THEN 0 ELSE host.cand)
           /\ oc # "fail" => n \in Up
           /\ w'[p].pc = label /\ w'[p].r = w[p].r /\ w'[p].img = w[p].img
           /\ w'[p].pend = w[p].pend /\ w'[p].obs = w[p].obs /\ w'[p].orig = w[p].orig
           => Session(p)'
    PROVE  Protocol' /\ Content' /\ Moves
<1>1. /\ w'[p].pc = label /\ w'[p].r = w[p].r /\ w'[p].img = w[p].img
      /\ w'[p].pend = w[p].pend /\ w'[p].obs = w[p].obs /\ w'[p].orig = w[p].orig
  BY Zenon, GotoFields
<1>2. CASE oc = "fail"
  <2>1. CallIf(p, n \in Up, host, oc) /\ host \in Host
    BY Zenon, <1>2, HostFields DEF CallIf
  <2>2. Same(host)
    BY Zenon, <1>2, <2>1, CallEffect
  <2>3. Up' = Up /\ (HostSound => HostSound') /\ (Sound(rec) => Sound(rec)')
    <3>1. rec' = rec /\ rec \in Record
      BY Zenon DEF Types
    <3> QED
      BY Zenon, <2>2, <3>1, Unmoved
  <2>4. ASSUME Accepts(p)
        PROVE  /\ HostSound' /\ Sound(rec)' /\ Session(p)'
               /\ {rec.inst, rec.hist.inst} \cap Up \subseteq Up'
    <3>1. Session(p) /\ Sound(w[p].r) /\ Sound(rec) /\ HostSound /\ w[p].r.phase # "active"
      BY Zenon, <2>4, CallStarts
    <3> QED
      BY Zenon, <1>1, <1>2, <2>2, <2>3, <3>1 DEF Same
  <2> QED
    BY Zenon, <2>1, <2>4, GotoKeeps
<1>3. CASE oc # "fail"
  <2>1. n \in Up /\ Accepts(p) /\ n \in Insts
    BY Zenon, <1>3 DEF CallIf, Up
  <2>2. Cut(n) \in Host /\ Cut(n).fence = host.fence
    BY Zenon, <2>1, CutTyped
  <2>3. Same(Cut(n))
    BY Zenon, <1>3, <2>2, CallEffect
  <2>4. ASSUME Accepts(p)
        PROVE  /\ HostSound' /\ Sound(rec)' /\ Session(p)'
               /\ {rec.inst, rec.hist.inst} \cap Up \subseteq Up'
    <3>1. /\ Session(p) /\ Sound(w[p].r) /\ Sound(rec) /\ HostSound /\ w[p].r.phase # "active"
          /\ rec.phase # "active" /\ rec.inst = w[p].r.inst /\ rec.hist = w[p].r.hist
          /\ rec.pend = w[p].r.pend /\ rec \in Record
      BY Zenon, <2>4, CallStarts
    <3>2. n \in {rec.inst, rec.hist.inst, rec.pend}
      BY Zenon, <3>1
    <3>3. /\ HostSound' /\ Up' = Up /\ host'.route = n /\ Sound(rec)'
          /\ host'.cand = (IF host.cand = n THEN 0 ELSE host.cand)
      BY Zenon, <2>1, <2>3, <3>1, <3>2, CutSound
    <3> QED
      BY Zenon, <1>1, <1>3, <2>1, <3>1, <3>3
  <2> QED
    BY Zenon, <2>2, <2>4, GotoKeeps
<1> QED
  BY Zenon, <1>2, <1>3

\* A Drain of the recorded instance.
LEMMA DrainGoesOn ==
    ASSUME Types, Types', Protocol, Content, ~Node, NEW p \in Workers, NEW oc \in Outcomes,
           NEW label \in Holding \ (FirstCall \cup {"seed", "tombstone"}), NEW n \in Ids,
           Call(p, Drain(n), oc), Goto(p, label), UNCHANGED <<rec, fences>>,
           w[p].pc \in Holding,
           Session(p) /\ Sound(w[p].r) /\ w[p].r.phase # "active" => n = w[p].r.inst,
           /\ Session(p) /\ Sound(w[p].r) /\ HostSound /\ Up' = Up
           /\ host'.route = host.route /\ host'.cand = host.cand
           /\ w'[p].pc = label /\ w'[p].r = w[p].r /\ w'[p].img = w[p].img
           /\ w'[p].pend = w[p].pend /\ w'[p].obs = w[p].obs /\ w'[p].orig = w[p].orig
           => Session(p)'
    PROVE  Protocol' /\ Content' /\ Moves
<1>1. /\ w'[p].pc = label /\ w'[p].r = w[p].r /\ w'[p].img = w[p].img
      /\ w'[p].pend = w[p].pend /\ w'[p].obs = w[p].obs /\ w'[p].orig = w[p].orig
  BY Zenon, GotoFields
<1>2. CallIf(p, TRUE, Drain(n), oc) /\ Drain(n) \in Host
  BY Zenon, EffectTypes DEF Call
<1>3. Drain(n).fence = host.fence
  BY Zenon, HostFields DEF Drain, Host
<1>4. (oc = "fail" => Same(host)) /\ (oc # "fail" => Same(Drain(n)))
  BY Zenon, <1>2, <1>3, CallEffect
<1>5. ASSUME Accepts(p)
      PROVE  /\ HostSound' /\ Sound(rec)' /\ Session(p)'
             /\ {rec.inst, rec.hist.inst} \cap Up \subseteq Up'
  <2>1. /\ Session(p) /\ Sound(w[p].r) /\ Sound(rec) /\ HostSound /\ w[p].r.phase # "active"
        /\ rec \in Record
    BY Zenon, <1>5, CallStarts
  <2>2. n \in host.served
    BY Zenon, <2>1 DEF Sound
  <2>3. HostSound' /\ Up' = Up /\ Sound(rec)' /\ host'.route = host.route /\ host'.cand = host.cand
    <3>1. CASE oc = "fail"
      BY Zenon, <1>4, <2>1, <3>1, Unmoved DEF Same
    <3>2. CASE oc # "fail"
      BY Zenon, <1>4, <2>1, <2>2, <3>2, DrainSound
    <3> QED
      BY Zenon, <3>1, <3>2
  <2> QED
    BY Zenon, <1>1, <2>1, <2>3
<1> QED
  BY Zenon, <1>2, <1>3, <1>5, GotoKeeps

LEMMA WroteFields ==
    ASSUME Types, NEW p \in Workers, NEW label, Wrote(p, label)
    PROVE  w'[p].pc = label /\ w'[p].r = rec'
<1>1. w[p] \in Worker /\ w' = [w EXCEPT ![p] = [w[p] EXCEPT !.pc = label, !.r = rec']]
  BY Zenon DEF Types, Wrote, Become
<1>2. w'[p] = [w[p] EXCEPT !.pc = label, !.r = rec']
  BY Zenon, <1>1 DEF Types
<1> QED
  BY Zenon, <1>1, <1>2 DEF Worker

\* A write under the lease that ends the operation,
LEMMA SwapEnds ==
    ASSUME Types, Types', Protocol, Content, ~Node, NEW p \in Workers, NEW value \in Record,
           NEW oc \in Outcomes, CompareAndSwap(p, value, oc), Finish(p), UNCHANGED host,
           w[p].pc \in Holding \ FirstCall,
           Session(p) /\ Sound(w[p].r) /\ HostSound /\ w[p].r.phase # "active" => Sound(value)
    PROVE  Protocol' /\ Content' /\ Moves
<1>1. w' = [w EXCEPT ![p] = IdleWorker] /\ IdleWorker \in Worker
  BY Zenon, EmptyTypes DEF Finish, Become
<1>2. HostSound /\ w[p].r.phase # "active"
  BY Zenon DEF Content, Protocol, Knows, Stands
<1> QED
  BY Zenon, <1>1, <1>2, SwapKeeps

\* and one after which it goes on at label with the record it wrote.
LEMMA SwapGoesOn ==
    ASSUME Types, Types', Protocol, Content, ~Node, NEW p \in Workers, NEW value \in Record,
           NEW oc \in Outcomes, CompareAndSwap(p, value, oc), UNCHANGED host,
           w[p].pc \in Holding \ FirstCall, value.phase # "active",
           NEW label \in Holding \ {"pull", "histCut", "seed", "tombstone"},
           IF oc = "ok" THEN Wrote(p, label) ELSE Finish(p),
           Session(p) /\ Sound(w[p].r) /\ HostSound /\ w[p].r.phase # "active" => Sound(value),
           /\ Session(p) /\ Sound(w[p].r) /\ HostSound /\ Up' = Up
           /\ w'[p].pc = label /\ w'[p].img = w[p].img /\ w'[p].pend = w[p].pend
           /\ w'[p].obs = w[p].obs /\ w'[p].orig = w[p].orig
           /\ w'[p].r.inst = value.inst /\ w'[p].r.pend = value.pend /\ w'[p].r.img = value.img
           /\ w'[p].r.priorInst = value.priorInst /\ w'[p].r.priorImg = value.priorImg
           /\ w'[p].r.hist = value.hist /\ w'[p].r.phase = value.phase
           => Session(p)'
    PROVE  Protocol' /\ Content' /\ Moves
<1>1. HostSound /\ w[p].r.phase # "active" /\ w[p] \in Worker /\ rec' \in Record
  BY Zenon DEF Content, Protocol, Knows, Stands, Types
<1>2. CASE oc # "ok"
  BY Zenon, <1>2, SwapEnds
<1>3. CASE oc = "ok"
  <2> DEFINE next == [w[p] EXCEPT !.pc = label, !.r = rec']
  <2>1. /\ next \in Worker /\ next.pc = label /\ next.r = rec' /\ next.img = w[p].img
        /\ next.pend = w[p].pend /\ next.obs = w[p].obs /\ next.orig = w[p].orig
    BY Zenon, <1>1 DEF Worker
  <2>2. w' = [w EXCEPT ![p] = next]
    BY Zenon, <1>3 DEF Wrote, Become
  <2> HIDE DEF next
  <2>3. w'[p] = next
    BY Zenon, <2>2 DEF Types
  <2>4. /\ rec'.inst = value.inst /\ rec'.pend = value.pend /\ rec'.img = value.img
        /\ rec'.priorInst = value.priorInst /\ rec'.priorImg = value.priorImg
        /\ rec'.hist = value.hist /\ rec'.phase = value.phase
    BY Zenon, <1>3 DEF CompareAndSwap, Write, Record
  <2>5. Up' = Up
    BY Zenon DEF Up
  <2>6. Session(p) /\ Sound(w[p].r) => Session(p)'
    BY Zenon, <1>1, <2>1, <2>3, <2>4, <2>5
  <2> QED
    BY Zenon, <1>1, <1>3, <2>1, <2>2, <2>6, SwapKeeps
<1> QED
  BY Zenon, <1>2, <1>3

\* The record a publish leaves when it is done.
IsActive(a, inst, image, hist) ==
    /\ a \in Record /\ a.phase = "active" /\ a.inst = inst /\ a.pend = 0 /\ a.img = image
    /\ a.priorInst = 0 /\ a.hist = hist

LEMMA ActiveFields ==
    ASSUME NEW inst \in Ids, NEW image \in AnyImage, NEW hist \in Revision
    PROVE  IsActive(Active(inst, image, hist), inst, image, hist)
<1>1. Empty \in Record /\ Empty.pend = 0 /\ Empty.priorInst = 0
  BY Zenon, EmptyTypes DEF Empty
<1>2. Active(inst, image, hist) \in Record
  BY Zenon, ActiveTypes
<1> QED
  BY Zenon, <1>1, <1>2 DEF IsActive, Active, Record

\* The record of a rollout whose new instance the rule points at.
LEMMA CompleteSound ==
    ASSUME Types, HostSound, NEW r \in Record, Sound(r), r.phase # "active", host.route = r.pend
    PROVE  Sound(Active(r.pend, r.img, PublishedHistory(r)))
<1>1. r.pend \in Ids /\ r.img \in AnyImage /\ r.priorInst \in Ids /\ r.priorImg \in AnyImage
  BY Zenon DEF Record
<1>2. r.priorInst # 0 /\ r.priorInst = r.inst /\ r.inst \in host.served
  BY Zenon, HostFields, InstIds DEF Sound
<1>3. PublishedHistory(r) = [inst |-> r.priorInst, img |-> r.priorImg]
  BY Zenon, <1>2 DEF PublishedHistory
<1>4. PublishedHistory(r) \in Revision
  BY Zenon, <1>1, HistoryTypes
<1> DEFINE a == Active(r.pend, r.img, PublishedHistory(r))
<1>5. /\ a.phase = "active" /\ a.inst = r.pend /\ a.pend = 0 /\ a.img = r.img
      /\ a.priorInst = 0 /\ a.hist = PublishedHistory(r)
  BY <1>1, <1>4, ActiveFields DEF IsActive
<1> HIDE DEF a
<1>6. r.pend # 0 /\ r.pend \in host.served /\ host.cand = 0
  BY Zenon, HostFields, InstIds DEF HostSound, Sound
<1>7. a.hist.inst = r.inst /\ a.hist.img = r.priorImg
  BY <1>2, <1>3, <1>5
<1>8. Sound(a)
  BY Zenon, <1>2, <1>5, <1>6, <1>7 DEF Sound
<1> QED
  BY Zenon, <1>8 DEF a

-----------------------------------------------------------------------------
(* A publish.                                                              *)

LEMMA PublishLeaseKeeps ==
    ASSUME Ruled, Types, Types', Protocol, Content, NEW p \in Workers, NEW oc \in Outcomes,
           PublishLease(p, oc)
    PROVE  Protocol' /\ Content' /\ Moves
<1> DEFINE r == w[p].r
<1>r. HasRule /\ ~Node /\ ~Guarded
  BY Zenon DEF Ruled
<1>t. /\ w[p] \in Worker /\ r \in Record /\ w[p].pend \in Ids /\ w[p].img \in AnyImage
      /\ r.inst \in Ids /\ r.priorInst \in Ids /\ r.img \in AnyImage /\ r.hist \in Revision
      /\ host \in Host /\ rec \in Record
  BY Zenon, WorkerTypes DEF Types
<1> DEFINE value == [Empty EXCEPT !.phase = "pulling", !.inst = r.inst, !.img = w[p].img,
                       !.priorInst = r.inst, !.priorImg = r.img, !.hist = r.hist]
<1>1. /\ value \in Record /\ value.phase = "pulling" /\ value.inst = r.inst /\ value.pend = 0
      /\ value.img = w[p].img /\ value.priorInst = r.inst /\ value.priorImg = r.img
      /\ value.hist = r.hist
  <2>1. Empty \in Record /\ Empty.pend = 0
    BY Zenon, EmptyTypes DEF Empty
  <2>2. value \in Record
    BY Zenon, <1>t, EmptyTypes DEF Record, Revision
  <2>3. /\ value.phase = "pulling" /\ value.inst = r.inst /\ value.pend = Empty.pend
        /\ value.img = w[p].img /\ value.priorInst = r.inst /\ value.priorImg = r.img
        /\ value.hist = r.hist
    BY <2>1 DEF Record
  <2> QED
    BY Zenon, <2>1, <2>2, <2>3
<1>2. /\ AcquireLease(p, value, oc) /\ UNCHANGED host /\ w[p].pc = "lease"
      /\ IF oc = "ok" THEN Wrote(p, "pull") ELSE Finish(p)
  BY Zenon DEF PublishLease, At
<1> HIDE DEF value
<1>3. Knows(p) /\ Reading(p) /\ Sound(rec) /\ HostSound
  BY Zenon DEF Protocol, Content
<1>4. rec = r => Sound(value)
  <2>1. r.phase = "active" /\ w[p].img \in Images
    BY Zenon, <1>2, <1>3 DEF Knows, Stands, PreLease, Reading
  <2> QED
    BY Zenon, <1>1, <1>3, <2>1 DEF Sound
<1>5. CASE oc # "ok"
  BY Zenon, <1>r, <1>1, <1>2, <1>4, <1>5, EmptyTypes, LeaseKeeps DEF Finish, Become
<1>6. CASE oc = "ok"
  <2> DEFINE next == [w[p] EXCEPT !.pc = "pull", !.r = rec']
  <2>1. rec' \in Record
    BY Zenon DEF Types
  <2>2. /\ next \in Worker /\ next.pc = "pull" /\ next.r = rec' /\ next.img = w[p].img
        /\ next.pend = w[p].pend
    BY Zenon, <1>t, <2>1 DEF Worker, Holding
  <2>3. w' = [w EXCEPT ![p] = next]
    BY Zenon, <1>2, <1>6 DEF Wrote, Become
  <2> HIDE DEF next
  <2>4. w'[p] = next
    BY Zenon, <2>3 DEF Types
  <2>5. rec'.pend = 0 /\ rec'.img = w[p].img
    BY Zenon, <1>1, <1>2, <1>6 DEF AcquireLease, Write, Record
  <2>6. rec = r => Session(p)'
    <3>1. w[p].pend = 0 /\ r.phase = "active"
      BY Zenon, <1>2, <1>3 DEF Reading, Knows, Stands, PreLease
    <3>2. rec = r => host.cand = 0
      BY Zenon, <1>3, <3>1 DEF Sound
    <3> QED
      BY Zenon, <1>2, <2>2, <2>4, <2>5, <3>1, <3>2 DEF Session, RollingBackLabels
  <2> QED
    BY Zenon, <1>r, <1>1, <1>2, <1>4, <1>6, <2>2, <2>3, <2>6, LeaseKeeps
<1> QED
  BY Zenon, <1>5, <1>6

LEMMA PublishPullKeeps ==
    ASSUME Ruled, Types, Types', Protocol, Content, NEW p \in Workers, NEW oc \in Outcomes,
           PublishPull(p, oc)
    PROVE  Protocol' /\ Content' /\ Moves
<1> DEFINE r == w[p].r
<1>r. HasRule /\ ~Node /\ ~Guarded
  BY Zenon DEF Ruled
<1>1. PICK label \in {"starting", "undo"} : Goto(p, label)
  BY Zenon DEF PublishPull
<1>2. Call(p, host, oc) /\ UNCHANGED <<rec, fences>> /\ w[p].pc = "pull"
  BY Zenon DEF PublishPull, At
<1>3. label \in Holding \ (FirstCall \cup {"seed", "tombstone"}) /\ w[p].pc \in Holding
  BY Zenon, <1>2 DEF Holding, FirstCall
<1>4. ASSUME Session(p), Same(host), w'[p].pc = label, w'[p].r = r, w'[p].img = w[p].img,
             w'[p].pend = w[p].pend
      PROVE  Session(p)'
  BY ZenonT(40), <1>2, <1>4 DEF Session, RollingBackLabels, Same
<1> QED
  BY Zenon, <1>r, <1>1, <1>2, <1>3, <1>4, LookGoesOn

LEMMA IntentKeeps ==
    ASSUME Ruled, Types, Types', Protocol, Content, NEW p \in Workers, NEW oc \in Outcomes,
           NEW label, NEW phase \in {"starting", "readiness", "cutover", "draining"}, NEW next,
           \/ label = "starting" /\ next = "start"
           \/ label = "readiness" /\ next = "ready"
           \/ label = "cutover" /\ next = "cut"
           \/ label = "draining" /\ next = "drain",
           Intent(p, label, phase, next, oc)
    PROVE  Protocol' /\ Content' /\ Moves
<1> DEFINE r == w[p].r
<1>r. HasRule /\ ~Node /\ ~Guarded
  BY Zenon DEF Ruled
<1>t. /\ w[p] \in Worker /\ r \in Record /\ w[p].pend \in Ids /\ w[p].img \in AnyImage
      /\ r.inst \in Ids /\ r.priorInst \in Ids /\ r.img \in AnyImage /\ r.hist \in Revision
      /\ host \in Host /\ rec \in Record
  BY Zenon, WorkerTypes DEF Types
<1> DEFINE value == [r EXCEPT !.phase = phase, !.pend = w[p].pend]
<1>1. /\ value \in Record /\ value.phase = phase /\ value.inst = r.inst
      /\ value.pend = w[p].pend /\ value.img = r.img /\ value.priorInst = r.priorInst
      /\ value.priorImg = r.priorImg /\ value.hist = r.hist
  BY Zenon, <1>t DEF Record
<1>2. /\ CompareAndSwap(p, value, oc) /\ UNCHANGED host /\ w[p].pc = label
      /\ IF oc = "ok" THEN Wrote(p, next) ELSE Finish(p)
  BY Zenon DEF Intent, At
<1> HIDE DEF value
<1>3. /\ next \in Holding \ {"pull", "histCut", "seed", "tombstone"}
      /\ w[p].pc \in Holding \ FirstCall
  BY Zenon, <1>2 DEF Holding, FirstCall
<1>4. ASSUME Session(p), Sound(r), HostSound, r.phase # "active" PROVE Sound(value)
  <2>1. CASE label = "readiness"
    <3>1. /\ r.pend = 0 /\ w[p].pend = host.cand /\ host.cand # 0
          /\ host.cand \notin host.served /\ host.img[host.cand] = r.img
      BY Zenon, <1>2, <1>4, <2>1 DEF Session, HostSound, Sound
    <3>2. host.cand \in Insts /\ host.route # 0
      BY Zenon, <1>4, <3>1, InstIds DEF HostSound, Up
    <3>3. Runs(w[p].pend, r.img)
      BY Zenon, <3>1 DEF Runs
    <3> QED
      BY Zenon, <1>1, <1>4, <3>1, <3>2, <3>3 DEF Sound
  <2>2. CASE label # "readiness"
    <3>1. w[p].pend = r.pend
      BY Zenon, <1>2, <1>4, <2>2 DEF Session
    <3> QED
      BY Zenon, <1>1, <1>4, <3>1 DEF Sound
  <2> QED
    BY Zenon, <2>1, <2>2
<1>5. ASSUME Session(p), w'[p].pc = next, w'[p].img = w[p].img, w'[p].pend = w[p].pend,
             w'[p].r.pend = value.pend, w'[p].r.img = value.img
      PROVE  Session(p)'
  <2>1. w[p].pend = 0 \/ label # "starting"
    BY Zenon, <1>2, <1>5 DEF Session
  <2>2. w'[p].pend = w'[p].r.pend
    BY Zenon, <1>1, <1>5
  <2> QED
    BY ZenonT(40), <1>1, <1>2, <1>5, <2>1, <2>2 DEF Session, RollingBackLabels
<1>6. value.phase # "active"
  BY Zenon, <1>1
<1> QED
  BY ZenonT(40), <1>r, <1>1, <1>2, <1>3, <1>4, <1>5, <1>6, SwapGoesOn

LEMMA PublishStartKeeps ==
    ASSUME Ruled, Types, Types', Counted, Protocol, Content, NEW p \in Workers, NEW oc \in Outcomes,
           PublishStart(p, oc)
    PROVE  Protocol' /\ Content' /\ Moves
<1> DEFINE r == w[p].r
<1>r. HasRule /\ ~Node /\ ~Guarded
  BY Zenon DEF Ruled
<1>t. /\ w[p] \in Worker /\ r \in Record /\ w[p].pend \in Ids /\ w[p].img \in AnyImage
      /\ r.inst \in Ids /\ r.priorInst \in Ids /\ r.img \in AnyImage /\ r.hist \in Revision
      /\ host \in Host /\ rec \in Record
  BY Zenon, WorkerTypes DEF Types
<1>1. w[p].pc = "start" /\ UNCHANGED <<rec, fences>> /\ CallIf(p, TRUE, Start(w[p].img), oc)
  BY Zenon DEF PublishStart, At, Call
<1>2. host.last <= MaxOps
  BY Zenon, <1>1, Room DEF ToStart
<1>3. Start(w[p].img) \in Host /\ Start(w[p].img).fence = host.fence
  <2>1. Start(w[p].img) \in Host
    BY Zenon, <1>t, <1>2, EffectTypes
  <2> QED
    BY Zenon, <1>t, <2>1, EffectFence
<1> DEFINE done == [w[p] EXCEPT !.pc = "readiness", !.pend = host'.last]
           undo == [w[p] EXCEPT !.pc = "undo"]
<1>4. host'.last \in Ids
  BY Zenon DEF Types, Host
<1>5. /\ done \in Worker /\ done.pc = "readiness" /\ done.r = r /\ done.pend = host'.last
      /\ undo \in Worker /\ undo.pc = "undo" /\ undo.r = r /\ undo.pend = w[p].pend
  BY Zenon, <1>t, <1>4 DEF Worker, Holding
<1>6. w' = [w EXCEPT ![p] = IF oc = "ok" THEN done ELSE undo]
  BY Zenon DEF PublishStart, Goto, Become
<1> HIDE DEF done, undo
<1> DEFINE next == IF oc = "ok" THEN done ELSE undo
<1>7. w'[p] = next
  BY Zenon, <1>6 DEF Types
<1>8. /\ oc = "fail" => Same(host)
      /\ oc # "fail" => Same(Start(w[p].img))
  BY Zenon, <1>r, <1>1, <1>3, CallEffect
<1>9. w[p].pc \in Holding /\ next.pc \in Holding \ (FirstCall \cup {"seed", "tombstone"})
      /\ next \in Worker /\ next.r = r
  BY Zenon, <1>1, <1>5 DEF Holding, FirstCall
<1>10. ASSUME Accepts(p)
       PROVE  /\ HostSound' /\ Sound(rec)' /\ Session(p)'
              /\ {rec.inst, rec.hist.inst} \cap Up \subseteq Up'
  <2>1. /\ Session(p) /\ Sound(rec) /\ HostSound /\ rec.phase # "active"
        /\ rec.pend = r.pend /\ rec.img = r.img
    BY Zenon, <1>r, <1>9, <1>10, CallStarts
  <2>2. w[p].pend = 0 /\ r.pend = 0 /\ host.cand = 0 /\ w[p].img = r.img
    BY Zenon, <1>1, <2>1 DEF Session
  <2>3. CASE oc = "fail"
    <3>1. HostSound' /\ Sound(rec)' /\ Up' = Up
      BY Zenon, <1>t, <1>1, <1>8, <2>1, <2>3, Unmoved
    <3>2. Session(p)'
      BY Zenon, <1>5, <1>7, <2>2, <2>3 DEF Session, RollingBackLabels
    <3> QED
      BY Zenon, <3>1, <3>2
  <2>4. CASE oc # "fail"
    <3>1. w[p].img \in Images
      BY Zenon, <2>1, <2>2 DEF Sound
    <3>2. /\ HostSound' /\ Up \subseteq Up' /\ host'.cand = host'.last /\ host'.cand # 0
          /\ Sound(rec)'
      BY Zenon, <1>r, <1>t, <1>1, <1>2, <1>8, <2>1, <2>2, <2>4, <3>1, StartSound
    <3>3. Session(p)'
      BY Zenon, <1>5, <1>7, <2>2, <3>2 DEF Session, RollingBackLabels
    <3> QED
      BY Zenon, <3>2, <3>3
  <2> QED
    BY Zenon, <2>3, <2>4
<1> HIDE DEF next
<1>11. w' = [w EXCEPT ![p] = next]
  BY Zenon, <1>6 DEF next
<1> QED
  BY Zenon, <1>r, <1>1, <1>3, <1>9, <1>10, <1>11, CallKeeps

LEMMA PublishReadyKeeps ==
    ASSUME Ruled, Types, Types', Protocol, Content, NEW p \in Workers, NEW oc \in Outcomes,
           PublishReady(p, oc)
    PROVE  Protocol' /\ Content' /\ Moves
<1> DEFINE r == w[p].r
<1>r. HasRule /\ ~Node /\ ~Guarded
  BY Zenon DEF Ruled
<1>1. PICK label \in {"cutover", "undo"} : Goto(p, label)
  BY Zenon, <1>r DEF PublishReady
<1>2. Call(p, host, oc) /\ UNCHANGED <<rec, fences>> /\ w[p].pc = "ready"
  BY Zenon DEF PublishReady, At
<1>3. label \in Holding \ (FirstCall \cup {"seed", "tombstone"}) /\ w[p].pc \in Holding
  BY Zenon, <1>2 DEF Holding, FirstCall
<1>4. ASSUME Session(p), w'[p].pc = label, w'[p].r = r, w'[p].pend = w[p].pend
      PROVE  Session(p)'
  BY Zenon, <1>2, <1>4 DEF Session, RollingBackLabels
<1> QED
  BY Zenon, <1>r, <1>1, <1>2, <1>3, <1>4, LookGoesOn

LEMMA PublishCutoverKeeps ==
    ASSUME Ruled, Types, Types', Protocol, Content, NEW p \in Workers, NEW oc \in Outcomes,
           PublishCutover(p, oc)
    PROVE  Protocol' /\ Content' /\ Moves
<1> DEFINE r == w[p].r
<1>r. HasRule /\ ~Node /\ ~Guarded
  BY Zenon DEF Ruled
<1>t. /\ w[p] \in Worker /\ r \in Record /\ w[p].pend \in Ids /\ w[p].img \in AnyImage
      /\ r.inst \in Ids /\ r.priorInst \in Ids /\ r.img \in AnyImage /\ r.hist \in Revision
      /\ host \in Host /\ rec \in Record
  BY Zenon, WorkerTypes DEF Types
<1>1. PICK label \in {"draining", "undoRoute"} : Goto(p, label) /\ (label = "draining" <=> oc = "ok")
  BY Zenon DEF PublishCutover
<1>2. CallIf(p, w[p].pend \in Up, Cut(w[p].pend), oc) /\ UNCHANGED <<rec, fences>> /\ w[p].pc = "cut"
  BY Zenon, <1>r DEF PublishCutover, At, CallCutover, Cut
<1>3. label \in Holding \ (FirstCall \cup {"seed", "tombstone"}) /\ w[p].pc \in Holding
  BY Zenon, <1>2 DEF Holding, FirstCall
<1>4. ASSUME Session(p), w'[p].pc = label, w'[p].r = r, w'[p].pend = w[p].pend,
             oc = "ok" => host'.route = w[p].pend
      PROVE  Session(p)'
  BY Zenon, <1>1, <1>2, <1>4 DEF Session, RollingBackLabels
<1>5. ASSUME Session(p) PROVE w[p].pend \in {r.inst, r.hist.inst, r.pend}
  BY Zenon, <1>2, <1>5 DEF Session
<1> QED
  BY Zenon, <1>r, <1>t, <1>1, <1>2, <1>3, <1>4, <1>5, CutGoesOn

LEMMA PublishDrainKeeps ==
    ASSUME Ruled, Types, Types', Protocol, Content, NEW p \in Workers, NEW oc \in Outcomes,
           PublishDrain(p, oc)
    PROVE  Protocol' /\ Content' /\ Moves
<1> DEFINE r == w[p].r
<1>r. HasRule /\ ~Node /\ ~Guarded
  BY Zenon DEF Ruled
<1>t. /\ w[p] \in Worker /\ r \in Record /\ w[p].pend \in Ids /\ w[p].img \in AnyImage
      /\ r.inst \in Ids /\ r.priorInst \in Ids /\ r.img \in AnyImage /\ r.hist \in Revision
      /\ host \in Host /\ rec \in Record
  BY Zenon, WorkerTypes DEF Types
<1>1. PICK label \in {"activate", "undoRoute"} : Goto(p, label)
  BY Zenon DEF PublishDrain
<1>2. w[p].pc = "drain" /\ UNCHANGED <<rec, fences>>
  BY Zenon DEF PublishDrain, At
<1>3. label \in Holding \ (FirstCall \cup {"seed", "tombstone"}) /\ w[p].pc \in Holding
  BY Zenon, <1>2 DEF Holding, FirstCall
<1>4. ASSUME Session(p), w'[p].pc = label, w'[p].r = r, w'[p].pend = w[p].pend,
             host'.route = host.route
      PROVE  Session(p)'
  BY Zenon, <1>2, <1>4 DEF Session, RollingBackLabels
<1>5. r.priorImg # NoImage
  BY Zenon, <1>3, ImagesAssumption DEF Content, Reading
<1>6. Call(p, Drain(r.priorInst), oc)
  BY Zenon, <1>5 DEF PublishDrain
<1>7. ASSUME Sound(r), r.phase # "active" PROVE r.priorInst = r.inst
  BY Zenon, <1>7 DEF Sound
<1> QED
  BY Zenon, <1>r, <1>t, <1>1, <1>2, <1>3, <1>4, <1>6, <1>7, DrainGoesOn

LEMMA PublishActivateKeeps ==
    ASSUME Ruled, Types, Types', Protocol, Content, NEW p \in Workers, NEW oc \in Outcomes,
           PublishActivate(p, oc)
    PROVE  Protocol' /\ Content' /\ Moves
<1> DEFINE r == w[p].r
<1>r. HasRule /\ ~Node /\ ~Guarded
  BY Zenon DEF Ruled
<1>t. /\ w[p] \in Worker /\ r \in Record /\ w[p].pend \in Ids /\ w[p].img \in AnyImage
      /\ r.inst \in Ids /\ r.priorInst \in Ids /\ r.img \in AnyImage /\ r.hist \in Revision
      /\ host \in Host /\ rec \in Record
  BY Zenon, WorkerTypes DEF Types
<1> DEFINE value == Active(w[p].pend, r.img, PublishedHistory(r))
<1>1. CompareAndSwap(p, value, oc) /\ Finish(p) /\ UNCHANGED host /\ w[p].pc = "activate"
  BY Zenon DEF PublishActivate, At
<1>2. ASSUME Session(p), Sound(r), HostSound, r.phase # "active" PROVE Sound(value)
  <2>1. w[p].pend = r.pend /\ host.route = r.pend
    BY Zenon, <1>1, <1>2 DEF Session
  <2> QED
    BY Zenon, <1>t, <1>2, <2>1, CompleteSound
<1>3. value \in Record
  BY Zenon, <1>t, ActiveTypes, HistoryTypes
<1> HIDE DEF value
<1>4. w[p].pc \in Holding \ FirstCall
  BY Zenon, <1>1 DEF Holding, FirstCall
<1> QED
  BY Zenon, <1>r, <1>1, <1>2, <1>3, <1>4, SwapEnds

LEMMA PublishUndoKeeps ==
    ASSUME Ruled, Types, Types', Protocol, Content, NEW p \in Workers, NEW oc \in Outcomes,
           PublishUndo(p, oc)
    PROVE  Protocol' /\ Content' /\ Moves
<1> DEFINE r == w[p].r
<1>r. HasRule /\ ~Node /\ ~Guarded
  BY Zenon DEF Ruled
<1>t. /\ w[p] \in Worker /\ r \in Record /\ w[p].pend \in Ids /\ w[p].img \in AnyImage
      /\ r.inst \in Ids /\ r.priorInst \in Ids /\ r.img \in AnyImage /\ r.hist \in Revision
      /\ host \in Host /\ rec \in Record
  BY Zenon, WorkerTypes DEF Types
<1>1. PICK phase \in {"cleanup-pending", "route-reconcile"} :
        CompareAndSwap(p, [r EXCEPT !.phase = phase, !.pend = w[p].pend], oc)
  BY Zenon DEF PublishUndo
<1> DEFINE value == [r EXCEPT !.phase = phase, !.pend = w[p].pend]
<1>2. /\ value \in Record /\ value.phase = phase /\ value.inst = r.inst
      /\ value.pend = w[p].pend /\ value.img = r.img /\ value.priorInst = r.priorInst
      /\ value.priorImg = r.priorImg /\ value.hist = r.hist
  BY Zenon, <1>t DEF Record
<1>3. /\ CompareAndSwap(p, value, oc) /\ UNCHANGED host /\ w[p].pc \in {"undo", "undoRoute"}
      /\ IF oc = "ok" THEN Wrote(p, "inspect") ELSE Finish(p)
  BY Zenon, <1>1 DEF PublishUndo
<1> HIDE DEF value
<1>4. /\ "inspect" \in Holding \ {"pull", "histCut", "seed", "tombstone"}
      /\ w[p].pc \in Holding \ FirstCall
  BY Zenon, <1>3 DEF Holding, FirstCall
<1>5. ASSUME Session(p), Sound(r), r.phase # "active" PROVE Sound(value)
  <2>1. w[p].pend = r.pend
    BY Zenon, <1>3, <1>5 DEF Session
  <2> QED
    BY Zenon, <1>2, <1>5, <2>1 DEF Sound
<1>6. ASSUME w'[p].pc = "inspect" PROVE Session(p)'
  BY Zenon, <1>6 DEF Session, RollingBackLabels
<1> QED
  BY ZenonT(40), <1>r, <1>2, <1>3, <1>4, <1>5, <1>6, SwapGoesOn

LEMMA PublishingKeeps ==
    ASSUME Ruled, Types, Types', Counted, Protocol, Content, NEW p \in Workers, NEW oc \in Outcomes,
           Publishing(p, oc)
    PROVE  Protocol' /\ Content' /\ Moves
<1>r. HasRule /\ ~Node /\ ~Guarded
  BY Zenon DEF Ruled
<1>4. CASE IntentStarting(p, oc) \/ IntentReadiness(p, oc) \/ IntentCutover(p, oc)
           \/ IntentDraining(p, oc)
  BY Zenon, <1>4, IntentKeeps DEF IntentStarting, IntentReadiness, IntentCutover, IntentDraining
<1>10. CASE AbandonStalePublish(p, oc)
  BY Zenon, <1>10, <1>r DEF AbandonStalePublish
<1> QED
  BY Zenon, <1>4, <1>10, PublishLeaseKeeps, PublishPullKeeps, PublishStartKeeps, PublishReadyKeeps,
     PublishCutoverKeeps, PublishDrainKeeps, PublishActivateKeeps, PublishUndoKeeps
  DEF Publishing

-----------------------------------------------------------------------------
(* A rollback to the recorded history.                                     *)

\* A history instance comes with the image it runs.
LEMMA HistoryImage ==
    ASSUME NEW r \in Record, Sound(r), r.hist.inst # 0
    PROVE  r.hist.img \in Images
<1>1. r.hist = NoRev \/ r.hist.img \in Images
  BY Zenon DEF Sound
<1>2. NoRev.inst = 0
  BY Zenon DEF NoRev
<1> QED
  BY Zenon, <1>1, <1>2

LEMMA RollbackInspectKeeps ==
    ASSUME Ruled, Types, Types', Protocol, Content, NEW p \in Workers, NEW oc \in Outcomes,
           RollbackInspect(p, oc)
    PROVE  Protocol' /\ Content' /\ Moves
<1> DEFINE r == w[p].r
<1>r. HasRule /\ ~Node /\ ~Guarded
  BY Zenon DEF Ruled
<1>t. /\ w[p] \in Worker /\ r \in Record /\ r.pend \in Ids /\ r.priorInst \in Ids /\ r.inst \in Ids
      /\ r.img \in AnyImage /\ r.priorImg \in AnyImage /\ r.hist \in Revision
      /\ w[p].orig \in Record /\ w[p].orig.inst \in Ids /\ host \in Host /\ rec \in Record
  BY Zenon, WorkerTypes DEF Types
<1>1. PICK label \in {"histForget", "histLease"} :
        Goto(p, label) /\ (label = "histForget" => r.hist.inst \notin Inspect.up)
  BY Zenon, <1>r DEF RollbackInspect
<1>2. CallIf(p, TRUE, host, oc) /\ UNCHANGED <<rec, fences>> /\ w[p].pc = "histInspect"
  BY Zenon DEF RollbackInspect, Call, At
<1>3. label \in PreLease \cup Holding /\ label \notin Holding
  BY Zenon DEF PreLease, Holding
<1> DEFINE next == [w[p] EXCEPT !.pc = label]
<1>4. /\ next \in Worker /\ next.pc = label /\ next.r = r /\ w' = [w EXCEPT ![p] = next]
      /\ w'[p].pc = label /\ w'[p].r = r /\ w'[p].img = w[p].img /\ w'[p].orig = w[p].orig
  BY Zenon, <1>1, <1>3, GotoFields
<1> HIDE DEF next
<1>5. /\ Same(host)
      /\ host'.fence = (IF r.fence >= host.fence THEN r.fence ELSE host.fence)
  BY Zenon, <1>r, <1>t, <1>2, CallEffect
<1>6. Protocol'
  BY Zenon, <1>2, <1>4, <1>5, CallKeepsProtocol
<1>7. Up' = Up /\ Sound(rec)'
  BY Zenon, <1>t, <1>2, <1>5, Unmoved DEF Content
<1>8. Reading(p)' /\ ~Holds(p)'
  <2>1. Reading(p)
    BY Zenon DEF Content
  <2>2. label = "histForget" => r.hist.inst \notin Up
    BY Zenon, <1>r, <1>1 DEF Inspect
  <2>3. ~Holds(p)'
    BY Zenon, <1>3, <1>4 DEF Holds
  <2>4. w[p].img \in Images /\ w[p].orig = r /\ r.hist.inst # 0
    BY Zenon, <1>2, <2>1 DEF Reading
  <2>5. label # "lease" /\ w'[p].pc \notin Holding
    BY Zenon, <1>3, <1>4
  <2>6. label = "histForget" => r.hist.inst \notin Up'
    BY Zenon, <1>7, <2>2
  <2> QED
    BY Zenon, <1>4, <2>3, <2>4, <2>5, <2>6 DEF Reading
<1>9. \A q \in Workers : q # p => w'[q] = w[q]
  BY Zenon, <1>4 DEF Types
<1>10. host'.fence \in Nat /\ host'.fence >= host.fence
  BY <1>5, Numbers
<1>11. /\ HostSound'
       /\ \A q \in Workers : q # p =>
            Reading(q)' /\ (Holds(q)' /\ Accepts(q)' => Session(q)')
  BY Zenon, <1>2, <1>5, <1>9, <1>10, Others
<1>12. Content'
  BY Zenon, <1>7, <1>8, <1>11 DEF Content
<1>13. Moves
  BY Zenon, <1>2, <1>7 DEF Moves, LeaseExclusive, FencesIncrease
<1> QED
  BY Zenon, <1>6, <1>12, <1>13

LEMMA RollbackForgetKeeps ==
    ASSUME Ruled, Types, Types', Protocol, Content, NEW p \in Workers, NEW oc \in Outcomes,
           RollbackForget(p, oc)
    PROVE  Protocol' /\ Content' /\ Moves
<1> DEFINE r == w[p].r
<1>r. HasRule /\ ~Node /\ ~Guarded
  BY Zenon DEF Ruled
<1>t. /\ w[p] \in Worker /\ r \in Record /\ r.pend \in Ids /\ r.priorInst \in Ids /\ r.inst \in Ids
      /\ r.img \in AnyImage /\ r.priorImg \in AnyImage /\ r.hist \in Revision
      /\ w[p].orig \in Record /\ w[p].orig.inst \in Ids /\ host \in Host /\ rec \in Record
  BY Zenon, WorkerTypes DEF Types
<1> DEFINE value == [r EXCEPT !.hist.inst = 0]
           next == [w[p] EXCEPT !.pc = "republish"]
<1>1. /\ CompareAndSwap(p, value, oc) /\ UNCHANGED host /\ w[p].pc = "histForget"
      /\ w' = [w EXCEPT ![p] = IF oc = "ok" THEN next ELSE IdleWorker]
  BY Zenon DEF RollbackForget, At, Goto, Finish, Become
<1>2. /\ value \in Record /\ value.phase = r.phase /\ value.inst = r.inst /\ value.pend = r.pend
      /\ value.img = r.img /\ value.priorInst = r.priorInst /\ value.hist.inst = 0
      /\ value.hist.img = r.hist.img
  <2>1. [r.hist EXCEPT !.inst = 0] \in Revision
    BY Zenon, <1>t, ZeroId DEF Revision
  <2> QED
    BY Zenon, <1>t, <2>1 DEF Record, Revision
<1>3. next \in Worker /\ next.pc = "republish" /\ next.r = r /\ next.img = w[p].img
  BY Zenon, <1>t DEF Worker, PreLease
<1> HIDE DEF value, next
<1>4. Knows(p) /\ Reading(p) /\ Sound(rec) /\ HostSound
  BY Zenon DEF Protocol, Content
<1>5. r.phase = "active" /\ w[p].img \in Images
  BY Zenon, <1>1, <1>4 DEF Knows, Stands, Reading, PreLease
<1>6. ASSUME rec = r PROVE Sound(value)
  <2>1. r.hist.inst # 0 /\ r.hist.inst \notin Up
    BY Zenon, <1>1, <1>4, <1>6 DEF Reading
  <2>2. host.route = r.inst /\ r.hist.img \in Images
    <3>1. host.route \in {r.inst, r.hist.inst} /\ host.route \in Up
      BY Zenon, <1>4, <1>5, <1>6 DEF Sound, HostSound
    <3> QED
      BY Zenon, <1>t, <1>4, <1>6, <2>1, <3>1, HistoryImage
  <2> QED
    BY Zenon, <1>2, <1>4, <1>5, <1>6, <2>2 DEF Sound
<1>7. CASE oc = "ok"
  BY Zenon, <1>r, <1>1, <1>2, <1>3, <1>5, <1>6, <1>7, SwapKeeps
<1>8. CASE oc # "ok"
  BY Zenon, <1>r, <1>1, <1>2, <1>5, <1>6, <1>8, EmptyTypes, SwapKeeps
<1> QED
  BY Zenon, <1>7, <1>8

LEMMA RollbackLeaseKeeps ==
    ASSUME Ruled, Types, Types', Protocol, Content, NEW p \in Workers, NEW oc \in Outcomes,
           RollbackLease(p, oc)
    PROVE  Protocol' /\ Content' /\ Moves
<1> DEFINE r == w[p].r
<1>r. HasRule /\ ~Node /\ ~Guarded
  BY Zenon DEF Ruled
<1>t. /\ w[p] \in Worker /\ r \in Record /\ r.pend \in Ids /\ r.priorInst \in Ids /\ r.inst \in Ids
      /\ r.img \in AnyImage /\ r.priorImg \in AnyImage /\ r.hist \in Revision
      /\ w[p].orig \in Record /\ w[p].orig.inst \in Ids /\ host \in Host /\ rec \in Record
  BY Zenon, WorkerTypes DEF Types
<1> DEFINE value == [r EXCEPT !.phase = "cutover", !.pend = r.hist.inst, !.img = r.hist.img,
                            !.priorInst = r.inst, !.priorImg = r.img]
<1>1. /\ AcquireLease(p, value, oc) /\ UNCHANGED host /\ w[p].pc = "histLease"
      /\ IF oc = "ok" THEN Wrote(p, "histCut") ELSE Finish(p)
  BY Zenon DEF RollbackLease, At
<1>2. /\ value \in Record /\ value.phase = "cutover" /\ value.inst = r.inst
      /\ value.pend = r.hist.inst /\ value.img = r.hist.img /\ value.priorInst = r.inst
      /\ value.priorImg = r.img /\ value.hist = r.hist
  <2>1. r.hist.inst \in Ids /\ r.hist.img \in AnyImage
    BY Zenon, <1>t DEF Revision
  <2> QED
    BY Zenon, <1>t, <2>1 DEF Record
<1> HIDE DEF value
<1>3. Knows(p) /\ Reading(p) /\ Sound(rec) /\ HostSound
  BY Zenon DEF Protocol, Content
<1>4. r.phase = "active" /\ w[p].orig = r /\ r.hist.inst # 0
  BY Zenon, <1>1, <1>3 DEF Knows, Stands, Reading, PreLease
<1>5. ASSUME rec = r PROVE Sound(value)
  <2>1. r.hist.img \in Images /\ r.hist.inst \in Insts
    BY Zenon, <1>t, <1>3, <1>4, <1>5, HistoryImage, HostFields DEF Sound
  <2> QED
    BY Zenon, <1>2, <1>3, <1>4, <1>5, <2>1 DEF Sound
<1>6. CASE oc # "ok"
  BY Zenon, <1>r, <1>1, <1>2, <1>5, <1>6, EmptyTypes, LeaseKeeps DEF Finish, Become
<1>7. CASE oc = "ok"
  <2> DEFINE next == [w[p] EXCEPT !.pc = "histCut", !.r = rec']
  <2>1. rec' \in Record
    BY Zenon DEF Types
  <2>2. /\ next \in Worker /\ next.pc = "histCut" /\ next.r = rec' /\ next.orig = w[p].orig
    BY Zenon, <1>t, <2>1 DEF Worker, Holding
  <2>3. w' = [w EXCEPT ![p] = next]
    BY Zenon, <1>1, <1>7 DEF Wrote, Become
  <2> HIDE DEF next
  <2>4. w'[p] = next
    BY Zenon, <2>3 DEF Types
  <2>5. /\ rec'.pend = r.hist.inst /\ rec'.inst = r.inst /\ rec'.priorImg = r.img
        /\ rec'.hist = r.hist
    BY Zenon, <1>1, <1>2, <1>7 DEF AcquireLease, Write, Record
  <2>6. ASSUME rec = r PROVE Session(p)'
    <3>1. r.priorInst = 0
      BY Zenon, <1>3, <1>4, <2>6 DEF Sound
    <3> QED
      BY Zenon, <1>4, <2>2, <2>4, <2>5, <3>1 DEF Session, RollingBackLabels, HistoricalRollbackPending
  <2> QED
    BY Zenon, <1>r, <1>1, <1>2, <1>5, <1>7, <2>2, <2>3, <2>6, LeaseKeeps
<1> QED
  BY Zenon, <1>6, <1>7

LEMMA RollbackCutoverKeeps ==
    ASSUME Ruled, Types, Types', Protocol, Content, NEW p \in Workers, NEW oc \in Outcomes,
           RollbackCutover(p, oc)
    PROVE  Protocol' /\ Content' /\ Moves
<1> DEFINE r == w[p].r
<1>r. HasRule /\ ~Node /\ ~Guarded
  BY Zenon DEF Ruled
<1>t. /\ w[p] \in Worker /\ r \in Record /\ r.pend \in Ids /\ r.priorInst \in Ids /\ r.inst \in Ids
      /\ r.img \in AnyImage /\ r.priorImg \in AnyImage /\ r.hist \in Revision
      /\ w[p].orig \in Record /\ w[p].orig.inst \in Ids /\ host \in Host /\ rec \in Record
  BY Zenon, WorkerTypes DEF Types
<1>1. PICK label \in {"histAbort", "histCommit", "histDrain"} :
        Goto(p, label) /\ (label # "histAbort" => oc = "ok")
  BY Zenon DEF RollbackCutover
<1>2. /\ CallIf(p, r.pend \in Up, Cut(r.pend), oc) /\ UNCHANGED <<rec, fences>>
      /\ w[p].pc = "histCut"
  BY Zenon, <1>r DEF RollbackCutover, At, CallCutover, Cut
<1>3. label \in Holding \ (FirstCall \cup {"seed", "tombstone"}) /\ w[p].pc \in Holding
  BY Zenon, <1>2 DEF Holding, FirstCall
<1>4. ASSUME Session(p), host'.route = (IF oc = "fail" THEN host.route ELSE r.pend),
             w'[p].pc = label, w'[p].r = r, w'[p].orig = w[p].orig
      PROVE  Session(p)'
  <2>1. /\ HistoricalRollbackPending(r) /\ w[p].orig.inst = r.inst /\ w[p].orig.img = r.priorImg
        /\ w[p].orig.priorInst = 0 /\ w[p].orig.hist.img = r.hist.img
        /\ w[p].orig.hist.inst = r.hist.inst
    BY Zenon, <1>2, <1>4 DEF Session, RollingBackLabels
  <2>2. label # "histAbort" => host'.route = r.pend
    BY Zenon, <1>1, <1>4
  <2> QED
    BY Zenon, <1>4, <2>1, <2>2 DEF Session, RollingBackLabels, HistoricalRollbackPending
<1> QED
  BY Zenon, <1>r, <1>t, <1>1, <1>2, <1>3, <1>4, CutGoesOn

LEMMA RollbackDrainKeeps ==
    ASSUME Ruled, Types, Types', Protocol, Content, NEW p \in Workers, NEW oc \in Outcomes,
           RollbackDrain(p, oc)
    PROVE  Protocol' /\ Content' /\ Moves
<1> DEFINE r == w[p].r
<1>r. HasRule /\ ~Node /\ ~Guarded
  BY Zenon DEF Ruled
<1>t. /\ w[p] \in Worker /\ r \in Record /\ r.pend \in Ids /\ r.priorInst \in Ids /\ r.inst \in Ids
      /\ r.img \in AnyImage /\ r.priorImg \in AnyImage /\ r.hist \in Revision
      /\ w[p].orig \in Record /\ w[p].orig.inst \in Ids /\ host \in Host /\ rec \in Record
  BY Zenon, WorkerTypes DEF Types
<1>1. PICK label \in {"histCommit", "histAbortRoute"} : Goto(p, label)
  BY Zenon DEF RollbackDrain
<1>2. Call(p, Drain(w[p].orig.inst), oc) /\ UNCHANGED <<rec, fences>> /\ w[p].pc = "histDrain"
  BY Zenon DEF RollbackDrain, At
<1>3. label \in Holding \ (FirstCall \cup {"seed", "tombstone"}) /\ w[p].pc \in Holding
  BY Zenon, <1>2 DEF Holding, FirstCall
<1>4. ASSUME Session(p)
      PROVE  /\ HistoricalRollbackPending(r) /\ w[p].orig.inst = r.inst
             /\ w[p].orig.img = r.priorImg /\ w[p].orig.priorInst = 0
             /\ w[p].orig.hist.img = r.hist.img /\ w[p].orig.hist.inst = r.hist.inst
             /\ host.route = r.pend
  BY Zenon, <1>2, <1>4 DEF Session, RollingBackLabels
<1>5. ASSUME Session(p), host'.route = host.route, w'[p].pc = label, w'[p].r = r,
             w'[p].orig = w[p].orig
      PROVE  Session(p)'
  BY Zenon, <1>4, <1>5 DEF Session, RollingBackLabels, HistoricalRollbackPending
<1> QED
  BY Zenon, <1>r, <1>t, <1>1, <1>2, <1>3, <1>4, <1>5, DrainGoesOn

LEMMA RollbackCommitKeeps ==
    ASSUME Ruled, Types, Types', Protocol, Content, NEW p \in Workers, NEW oc \in Outcomes,
           RollbackCommit(p, oc)
    PROVE  Protocol' /\ Content' /\ Moves
<1> DEFINE r == w[p].r
<1>r. HasRule /\ ~Node /\ ~Guarded
  BY Zenon DEF Ruled
<1>t. /\ w[p] \in Worker /\ r \in Record /\ r.pend \in Ids /\ r.priorInst \in Ids /\ r.inst \in Ids
      /\ r.img \in AnyImage /\ r.priorImg \in AnyImage /\ r.hist \in Revision
      /\ w[p].orig \in Record /\ w[p].orig.inst \in Ids /\ host \in Host /\ rec \in Record
  BY Zenon, WorkerTypes DEF Types
<1> DEFINE value == Active(r.pend, r.img, NoRev)
<1>1. CompareAndSwap(p, value, oc) /\ Finish(p) /\ UNCHANGED host /\ w[p].pc = "histCommit"
  BY Zenon DEF RollbackCommit, At
<1>2. NoRev \in Revision /\ NoRev.inst = 0
  BY DEF NoRev, Revision
<1>3. /\ value \in Record /\ value.phase = "active" /\ value.inst = r.pend /\ value.pend = 0
      /\ value.img = r.img /\ value.priorInst = 0 /\ value.hist = NoRev
  <2>1. r.pend \in Ids /\ r.img \in AnyImage
    BY Zenon, <1>t
  <2>2. IsActive(value, r.pend, r.img, NoRev)
    BY Zenon, <1>2, <2>1, ActiveFields
  <2> HIDE DEF value
  <2> QED
    BY Zenon, <2>2 DEF IsActive
<1> HIDE DEF value
<1>4. ASSUME Session(p), Sound(r), HostSound, r.phase # "active" PROVE Sound(value)
  <2>1. host.route = r.pend /\ r.pend # 0
    BY Zenon, <1>1, <1>4 DEF Session, RollingBackLabels, HistoricalRollbackPending
  <2>2. r.pend \in host.served /\ host.cand = 0
    BY Zenon, <1>4, <2>1 DEF HostSound, Sound
  <2> QED
    BY Zenon, <1>2, <1>3, <1>4, <2>1, <2>2 DEF Sound
<1>5. w[p].pc \in Holding \ FirstCall
  BY Zenon, <1>1 DEF Holding, FirstCall
<1> QED
  BY Zenon, <1>r, <1>1, <1>3, <1>4, <1>5, SwapEnds

LEMMA RollbackAbortKeeps ==
    ASSUME Ruled, Types, Types', Protocol, Content, NEW p \in Workers, NEW oc \in Outcomes,
           RollbackAbort(p, oc)
    PROVE  Protocol' /\ Content' /\ Moves
<1> DEFINE r == w[p].r
<1>r. HasRule /\ ~Node /\ ~Guarded
  BY Zenon DEF Ruled
<1>t. /\ w[p] \in Worker /\ r \in Record /\ r.pend \in Ids /\ r.priorInst \in Ids /\ r.inst \in Ids
      /\ r.img \in AnyImage /\ r.priorImg \in AnyImage /\ r.hist \in Revision
      /\ w[p].orig \in Record /\ w[p].orig.inst \in Ids /\ host \in Host /\ rec \in Record
  BY Zenon, WorkerTypes DEF Types
<1> DEFINE label == IF At(p, "histAbort") THEN "histReactivate" ELSE "histCutBack"
<1>1. PICK inst \in {0, w[p].orig.hist.inst} :
        /\ w' = [w EXCEPT ![p] = [w[p] EXCEPT !.pc = label, !.orig.hist.inst = inst]]
        /\ inst # w[p].orig.hist.inst => r.pend \notin Inspect.up
  BY Zenon DEF RollbackAbort, Become
<1>2. /\ Call(p, host, oc) /\ UNCHANGED <<rec, fences>>
      /\ w[p].pc \in {"histAbort", "histAbortRoute"}
  BY Zenon DEF RollbackAbort
<1>3. label \in {"histReactivate", "histCutBack"}
  OBVIOUS
<1> HIDE DEF label
<1> DEFINE orig == [w[p].orig EXCEPT !.hist.inst = inst]
           next == [w[p] EXCEPT !.pc = label, !.orig.hist.inst = inst]
<1>4. /\ orig \in Record /\ orig.inst = w[p].orig.inst /\ orig.img = w[p].orig.img
      /\ orig.priorInst = w[p].orig.priorInst /\ orig.hist.inst = inst
      /\ orig.hist.img = w[p].orig.hist.img
  <2>1. w[p].orig.hist \in Revision /\ inst \in Ids
    BY Zenon, <1>t, <1>1, ZeroId DEF Record, Revision
  <2>2. [w[p].orig.hist EXCEPT !.inst = inst] \in Revision
    BY Zenon, <2>1 DEF Revision
  <2> QED
    BY Zenon, <1>t, <2>1, <2>2 DEF Record, Revision
<1>5. next = [w[p] EXCEPT !.pc = label, !.orig = orig]
  BY Zenon, <1>t DEF Worker
<1> HIDE DEF orig, next
<1>6. next \in Worker /\ next.pc = label /\ next.r = r /\ next.orig = orig
  BY Zenon, <1>t, <1>3, <1>4, <1>5 DEF Worker, Holding
<1>7. w' = [w EXCEPT ![p] = next]
  BY Zenon, <1>1 DEF next
<1>8. w'[p] = next
  BY Zenon, <1>7 DEF Types
<1>9. ASSUME Session(p), Up' = Up PROVE Session(p)'
  <2>1. /\ HistoricalRollbackPending(r) /\ w[p].orig.inst = r.inst
        /\ w[p].orig.img = r.priorImg /\ w[p].orig.priorInst = 0
        /\ w[p].orig.hist.img = r.hist.img /\ w[p].orig.hist.inst = r.hist.inst
    BY Zenon, <1>2, <1>9 DEF Session, RollingBackLabels
  <2>2. inst # r.hist.inst => inst = 0 /\ r.hist.inst \notin Up
    BY Zenon, <1>r, <1>1, <2>1 DEF Inspect, HistoricalRollbackPending
  <2>3. /\ w'[p].pc = label /\ w'[p].r = r /\ w'[p].orig.inst = r.inst
        /\ w'[p].orig.img = r.priorImg /\ w'[p].orig.priorInst = 0
        /\ w'[p].orig.hist.img = r.hist.img /\ w'[p].orig.hist.inst = inst
    BY Zenon, <1>4, <1>6, <1>8, <2>1
  <2> QED
    BY Zenon, <1>3, <1>9, <2>1, <2>2, <2>3 DEF Session, RollingBackLabels, HistoricalRollbackPending
<1>10. /\ w[p].pc \in Holding
       /\ next.pc \in Holding \ (FirstCall \cup {"seed", "tombstone"})
  BY Zenon, <1>2, <1>3, <1>6 DEF Holding, FirstCall
<1> QED
  BY Zenon, <1>r, <1>2, <1>6, <1>7, <1>9, <1>10, LookKeeps

LEMMA RollbackCutBackKeeps ==
    ASSUME Ruled, Types, Types', Protocol, Content, NEW p \in Workers, NEW oc \in Outcomes,
           RollbackCutBack(p, oc)
    PROVE  Protocol' /\ Content' /\ Moves
<1> DEFINE r == w[p].r
<1>r. HasRule /\ ~Node /\ ~Guarded
  BY Zenon DEF Ruled
<1>t. /\ w[p] \in Worker /\ r \in Record /\ r.pend \in Ids /\ r.priorInst \in Ids /\ r.inst \in Ids
      /\ r.img \in AnyImage /\ r.priorImg \in AnyImage /\ r.hist \in Revision
      /\ w[p].orig \in Record /\ w[p].orig.inst \in Ids /\ host \in Host /\ rec \in Record
  BY Zenon, WorkerTypes DEF Types
<1> DEFINE n == w[p].orig.inst
<1>1. /\ CallIf(p, n \in Up, Cut(n), oc) /\ UNCHANGED <<rec, fences>>
      /\ w[p].pc = "histCutBack" /\ Goto(p, "histReactivate") /\ n \in Ids
  BY Zenon, <1>r, <1>t DEF RollbackCutBack, At, CallCutover, Cut
<1>2. /\ "histReactivate" \in Holding \ (FirstCall \cup {"seed", "tombstone"})
      /\ w[p].pc \in Holding
  BY Zenon, <1>1 DEF Holding, FirstCall
<1>3. ASSUME Session(p)
      PROVE  /\ HistoricalRollbackPending(r) /\ n = r.inst
             /\ w[p].orig.img = r.priorImg /\ w[p].orig.priorInst = 0
             /\ w[p].orig.hist.img = r.hist.img
             /\ w[p].orig.hist.inst # r.hist.inst =>
                  w[p].orig.hist.inst = 0 /\ r.hist.inst \notin Up
  BY Zenon, <1>1, <1>3 DEF Session, RollingBackLabels
<1>4. ASSUME Session(p), Up' = Up, w'[p].pc = "histReactivate", w'[p].r = r,
             w'[p].orig = w[p].orig
      PROVE  Session(p)'
  BY Zenon, <1>3, <1>4 DEF Session, RollingBackLabels, HistoricalRollbackPending
<1> HIDE DEF n
<1> QED
  BY Zenon, <1>r, <1>1, <1>2, <1>3, <1>4, CutGoesOn

LEMMA RollbackReactivateKeeps ==
    ASSUME Ruled, Types, Types', Protocol, Content, NEW p \in Workers, NEW oc \in Outcomes,
           RollbackReactivate(p, oc)
    PROVE  Protocol' /\ Content' /\ Moves
<1> DEFINE r == w[p].r
<1>r. HasRule /\ ~Node /\ ~Guarded
  BY Zenon DEF Ruled
<1>t. /\ w[p] \in Worker /\ r \in Record /\ r.pend \in Ids /\ r.priorInst \in Ids /\ r.inst \in Ids
      /\ r.img \in AnyImage /\ r.priorImg \in AnyImage /\ r.hist \in Revision
      /\ w[p].orig \in Record /\ w[p].orig.inst \in Ids /\ host \in Host /\ rec \in Record
  BY Zenon, WorkerTypes DEF Types
<1> DEFINE orig == w[p].orig
           value == [orig EXCEPT !.phase = "active", !.lease = "none", !.pend = 0]
<1>1. /\ CompareAndSwap(p, value, oc) /\ Finish(p) /\ UNCHANGED host
      /\ w[p].pc = "histReactivate"
  BY Zenon DEF RollbackReactivate, At
<1>2. /\ value \in Record /\ value.phase = "active" /\ value.inst = orig.inst /\ value.pend = 0
      /\ value.img = orig.img /\ value.priorInst = orig.priorInst /\ value.hist = orig.hist
  <2>1. 0 \in Ids
    OBVIOUS
  <2>2. value \in Record
    BY Zenon, <1>t, <2>1 DEF Record
  <2> QED
    BY Zenon, <1>t, <2>2 DEF Record
<1> HIDE DEF value
<1>3. ASSUME Session(p), Sound(r), HostSound, r.phase # "active" PROVE Sound(value)
  <2>1. /\ r.pend # 0 /\ r.hist.inst = r.pend /\ orig.inst = r.inst /\ orig.img = r.priorImg
        /\ orig.priorInst = 0 /\ orig.hist.img = r.hist.img
        /\ orig.hist.inst # r.hist.inst => orig.hist.inst = 0 /\ r.hist.inst \notin Up
    BY Zenon, <1>1, <1>3 DEF Session, RollingBackLabels, HistoricalRollbackPending
  <2>2. r.hist.img \in Images /\ r.hist.inst \in host.served /\ host.cand = 0
    <3>1. r.hist.inst \in host.served /\ host.cand \in {0, r.pend}
      BY Zenon, <1>3, <2>1 DEF Sound
    <3> QED
      BY Zenon, <1>t, <1>3, <2>1, <3>1, HistoryImage DEF HostSound
  <2>3. host.route \in {r.inst, orig.hist.inst}
    BY Zenon, <1>3, <2>1 DEF Sound, HostSound
  <2>4. /\ r.inst \in host.served /\ r.priorImg \in Images /\ Runs(r.inst, r.priorImg)
        /\ r.hist.inst # r.inst /\ Runs(r.hist.inst, r.hist.img)
    BY Zenon, <1>3, <2>1 DEF Sound
  <2> QED
    BY Zenon, <1>2, <2>1, <2>2, <2>3, <2>4 DEF Sound
<1>4. w[p].pc \in Holding \ FirstCall
  BY Zenon, <1>1 DEF Holding, FirstCall
<1> QED
  BY Zenon, <1>r, <1>1, <1>2, <1>3, <1>4, SwapEnds

LEMMA RollingBackKeeps ==
    ASSUME Ruled, Types, Types', Protocol, Content, NEW p \in Workers, NEW oc \in Outcomes,
           RollingBack(p, oc)
    PROVE  Protocol' /\ Content' /\ Moves
<1> QED
  BY Zenon, RollbackInspectKeeps, RollbackForgetKeeps, RollbackLeaseKeeps, RollbackCutoverKeeps,
     RollbackDrainKeeps, RollbackCommitKeeps, RollbackAbortKeeps, RollbackCutBackKeeps,
     RollbackReactivateKeeps
  DEF RollingBack
=============================================================================
