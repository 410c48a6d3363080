------------------------- MODULE VerifyCache_proofs -------------------------
(***************************************************************************)
(* The verification cache is sound for every number of processes and       *)
(* repository contents, and however often the repository is edited, the    *)
(* cache is touched or a process dies.                                     *)
(*                                                                         *)
(* CacheSound speaks of stored and reported results.  Between the          *)
(* canonical verification and the store lie the two checks that nothing    *)
(* moved, and Pursued says what a process carries over each of them: what  *)
(* it has verified is its input, provided that the inputs still are what   *)
(* they were and, before the first check, that the checkout is clean.      *)
(* A process that trusts a result carries the soundness of its key.        *)
(* The locks play no part in the argument: the fingerprint in the key and  *)
(* the checks after the verification suffice.                              *)
(***************************************************************************)
EXTENDS VerifyCache, TLAPS

\* Which process requires the host capabilities.
ModeTyped == Mode \in [Processes -> Modes]

Steps == {"idle", "fingerprint", "lock", "lockcheckout", "ensure", "fetch", "publish", "load",
          "reread", "clear", "verify", "validate", "inputs", "done"}

Process == [step : Steps, input : Versions \cup {"none"}, reused : {"yes", "no"},
            answer : {"none", "error", "cached", "verified", "crashed"}]

\* Every process that is under way has taken its fingerprint, and has no answer yet.
Typed ==
    /\ TypeOK
    /\ resultLock \in [Keys -> Processes \cup {Free}]
    /\ p \in [Processes -> Process]
    /\ \A x \in Processes :
         /\ p[x].step \notin {"idle", "fingerprint", "done"} => p[x].input \in Versions
         /\ p[x].step # "done" => p[x].answer = "none"

Undisturbed(x) == x \notin swung \cup replaced

Pursued(x) ==
    /\ At(x, "validate") /\ Undisturbed(x) /\ repo = p[x].input /\ checkout = "clean"
          => p[x].input \in Good
    /\ At(x, "inputs") /\ Undisturbed(x) /\ repo = p[x].input => p[x].input \in Good
    /\ At(x, "reread") /\ Key(x) \notin tainted => p[x].input \in Good

Inductive == Typed /\ CacheSound /\ \A x \in Processes : Pursued(x)

-----------------------------------------------------------------------------
\* The locks keep their types when a process releases the ones it holds.
LEMMA UnlockTyped ==
    ASSUME Typed, NEW x \in Processes, Unlock(x)
    PROVE  resultLock' \in [Keys -> Processes \cup {Free}] /\ checkoutLock' \in Processes \cup {Free}
  BY DEF Typed, TypeOK, Unlock

\* One process moves on.  The others lose nothing when nothing that spoils their input or
\* their checkout is forgotten, and when a key becomes trustworthy only with a good content.
LEMMA ProcessMoves ==
    ASSUME Inductive, NEW x \in Processes, NEW next \in Process, p' = [p EXCEPT ![x] = next],
           repo' = repo, checkout' \in {"none", "clean", "dirty"},
           results' \in [Keys -> {"none", "pass", "corrupt"}], tainted' \subseteq Keys,
           resultLock' \in [Keys -> Processes \cup {Free}], checkoutLock' \in Processes \cup {Free},
           next.step \notin {"idle", "fingerprint", "done"} => next.input \in Versions,
           next.step # "done" => next.answer = "none",
           \A y \in Processes : y # x /\ Undisturbed(y)' => Undisturbed(y),
           \A y \in Processes : y # x /\ At(y, "validate") /\ Undisturbed(y)'
                                   => (checkout' = "clean" => checkout = "clean"),
           \A k \in Keys : k \notin tainted' /\ results'[k] = "pass" => k[1] \in Good,
           \A v, m : <<v, m>> \notin tainted' => <<v, m>> \notin tainted \/ v \in Good,
           next.answer \in {"verified", "cached"} /\ Undisturbed(x)'
              /\ <<next.input, Mode[x]>> \notin tainted' => next.input \in Good,
           next.step = "validate" /\ repo = next.input /\ checkout' = "clean" => next.input \in Good,
           next.step = "inputs" /\ Undisturbed(x)' /\ repo = next.input => next.input \in Good,
           next.step = "reread" /\ <<next.input, Mode[x]>> \notin tainted' => next.input \in Good
    PROVE  Inductive'
  <1>1. /\ p' \in [Processes -> Process] /\ p'[x] = next
        /\ \A y \in Processes : y # x => p'[y] = p[y]
    BY DEF Inductive, Typed
  <1>2. Typed'
    <2>1. \A y \in Processes :
             /\ p'[y].step \notin {"idle", "fingerprint", "done"} => p'[y].input \in Versions
             /\ p'[y].step # "done" => p'[y].answer = "none"
      BY <1>1 DEF Inductive, Typed
    <2>2. TypeOK'
      BY DEF Inductive, Typed, TypeOK
    <2> QED
      BY <1>1, <2>1, <2>2 DEF Typed
  <1>3. CacheSound'
    <2>1. ASSUME NEW y \in Processes, p'[y].answer \in {"verified", "cached"}, Undisturbed(y)',
                 <<p'[y].input, Mode[y]>> \notin tainted'
          PROVE  p'[y].input \in Good
      BY <1>1, <2>1 DEF Inductive, CacheSound, Undisturbed, Key
    <2> QED
      BY <2>1 DEF CacheSound, Undisturbed, Key
  <1>4. ASSUME NEW y \in Processes PROVE Pursued(y)'
    <2>1. CASE y = x
      BY <1>1, <2>1 DEF Pursued, At, Key
    <2>2. CASE y # x
      <3>1. Pursued(y)
        BY DEF Inductive
      <3> QED
        BY <1>1, <2>2, <3>1 DEF Pursued, At, Key
    <2> QED
      BY <2>1, <2>2
  <1> QED
    BY <1>2, <1>3, <1>4 DEF Inductive

\* A process moves on and leaves checkout, results and history alone.
LEMMA QuietMove ==
    ASSUME Inductive, NEW x \in Processes, NEW next \in Process, p' = [p EXCEPT ![x] = next],
           UNCHANGED <<repo, checkout, results, taints>>,
           resultLock' \in [Keys -> Processes \cup {Free}], checkoutLock' \in Processes \cup {Free},
           next.step \notin {"idle", "fingerprint", "done"} => next.input \in Versions,
           next.step # "done" => next.answer = "none",
           next.answer \in {"verified", "cached"} /\ <<next.input, Mode[x]>> \notin tainted
              => next.input \in Good,
           next.step = "validate" /\ repo = next.input /\ checkout = "clean" => next.input \in Good,
           next.step = "inputs" /\ Undisturbed(x) /\ repo = next.input => next.input \in Good,
           next.step = "reread" /\ <<next.input, Mode[x]>> \notin tainted => next.input \in Good
    PROVE  Inductive'
  <1>1. UNCHANGED <<repo, checkout, results, swung, replaced, tainted>>
    BY DEF taints
  <1>2. \A y \in Processes : Undisturbed(y)' = Undisturbed(y)
    BY <1>1 DEF Undisturbed
  <1>3. /\ checkout \in {"none", "clean", "dirty"}
        /\ results \in [Keys -> {"none", "pass", "corrupt"}] /\ tainted \subseteq Keys
        /\ \A k \in Keys : k \notin tainted /\ results[k] = "pass" => k[1] \in Good
    BY DEF Inductive, Typed, TypeOK, CacheSound
  <1> QED
    BY <1>1, <1>2, <1>3, ProcessMoves

\* A process that gives up, or dies, reports nothing.
LEMMA GivesUp ==
    ASSUME Inductive, NEW x \in Processes, NEW answer \in {"error", "crashed"}, End(x, answer),
           UNCHANGED <<repo, checkout, results, taints>>
    PROVE  Inductive'
  <1> DEFINE next == [p[x] EXCEPT !.step = "done", !.answer = answer]
  <1>1. p[x] \in Process
    BY DEF Inductive, Typed
  <1>2. next \in Process /\ next.step = "done" /\ next.answer = answer
    BY <1>1 DEF Process, Steps
  <1>3. p' = [p EXCEPT ![x] = next] /\ Unlock(x)
    BY DEF End
  <1> HIDE DEF next
  <1>4. resultLock' \in [Keys -> Processes \cup {Free}] /\ checkoutLock' \in Processes \cup {Free}
    BY <1>3, UnlockTyped DEF Inductive
  <1> QED
    BY <1>2, <1>3, <1>4, QuietMove

Underway == Steps \ {"idle", "fingerprint", "done"}

\* The process x at another step.
Advanced(x, label, reused) == [p[x] EXCEPT !.step = label, !.reused = reused]

\* What a process that is under way brings along.
LEMMA UnderwayFields ==
    ASSUME Inductive, NEW x \in Processes, p[x].step \in Underway
    PROVE  p[x] \in Process /\ p[x].input \in Versions /\ p[x].answer = "none"
  BY DEF Inductive, Typed, Underway, Steps

\* A process that is under way goes to a step whose claim it can make.
LEMMA GoesOn ==
    ASSUME Inductive, NEW x \in Processes, p[x].step \in Underway, NEW label \in Underway,
           NEW reused \in {"yes", "no"},
           p' = [p EXCEPT ![x] = Advanced(x, label, reused)],
           UNCHANGED <<repo, checkout, results, taints>>,
           resultLock' \in [Keys -> Processes \cup {Free}], checkoutLock' \in Processes \cup {Free},
           label = "validate" /\ repo = p[x].input /\ checkout = "clean" => p[x].input \in Good,
           label = "inputs" /\ Undisturbed(x) /\ repo = p[x].input => p[x].input \in Good,
           label = "reread" /\ Key(x) \notin tainted => p[x].input \in Good
    PROVE  Inductive'
  <1> DEFINE next == Advanced(x, label, reused)
  <1>1. p[x] \in Process /\ p[x].input \in Versions /\ p[x].answer = "none"
    BY UnderwayFields
  <1>2. next \in Process /\ next.step = label /\ next.input = p[x].input /\ next.answer = "none"
    BY <1>1 DEF Process, Underway, Advanced
  <1>3. p' = [p EXCEPT ![x] = next]
    OBVIOUS
  <1> HIDE DEF next
  <1>4. label # "done"
    BY DEF Underway
  <1> QED
    BY <1>1, <1>2, <1>3, <1>4, QuietMove DEF Key

\* Goto leaves the rest of the process as it was.
LEMMA GotoFields ==
    ASSUME Inductive, NEW x \in Processes, NEW label, Goto(x, label)
    PROVE  /\ p[x].reused \in {"yes", "no"}
           /\ p' = [p EXCEPT ![x] = Advanced(x, label, p[x].reused)]
  <1>1. p[x] \in Process /\ p' = [p EXCEPT ![x] = [p[x] EXCEPT !.step = label]]
    BY DEF Inductive, Typed, Goto
  <1>2. Advanced(x, label, p[x].reused) = [p[x] EXCEPT !.step = label]
    BY <1>1 DEF Process, Advanced
  <1> QED
    BY <1>1, <1>2 DEF Process

-----------------------------------------------------------------------------
LEMMA KeepsIdentify ==
    ASSUME Inductive, NEW x \in Processes, Identify(x)
    PROVE  Inductive'
  <1> DEFINE next == [Idle EXCEPT !.step = IF repo \in Mismatched THEN "done" ELSE "fingerprint"]
  <1>1. next \in Process /\ next.step \in {"done", "fingerprint"} /\ next.answer = "none"
    BY DEF Idle, Process, Steps
  <1>2. p' = [p EXCEPT ![x] = next]
        /\ UNCHANGED <<repo, checkout, results, resultLock, checkoutLock, tainted>>
    BY DEF Identify, world
  <1>3. \A y \in Processes : y # x /\ Undisturbed(y)' => Undisturbed(y)
    BY DEF Identify, Undisturbed
  <1>4. /\ checkout \in {"none", "clean", "dirty"}
        /\ results \in [Keys -> {"none", "pass", "corrupt"}] /\ tainted \subseteq Keys
        /\ resultLock \in [Keys -> Processes \cup {Free}] /\ checkoutLock \in Processes \cup {Free}
        /\ \A k \in Keys : k \notin tainted /\ results[k] = "pass" => k[1] \in Good
    BY DEF Inductive, Typed, TypeOK, CacheSound
  <1> HIDE DEF next
  <1> QED
    BY <1>1, <1>2, <1>3, <1>4, ProcessMoves

LEMMA KeepsFingerprint ==
    ASSUME Inductive, NEW x \in Processes, Fingerprint(x)
    PROVE  Inductive'
  <1> DEFINE next == [p[x] EXCEPT !.step = "lock", !.input = repo]
  <1>1. p[x] \in Process /\ p[x].answer = "none" /\ repo \in Versions
        /\ resultLock \in [Keys -> Processes \cup {Free}] /\ checkoutLock \in Processes \cup {Free}
    BY DEF Inductive, Typed, TypeOK, Fingerprint, At
  <1>2. next \in Process /\ next.step = "lock" /\ next.input = repo /\ next.answer = "none"
    BY <1>1 DEF Process, Steps
  <1>3. p' = [p EXCEPT ![x] = next]
        /\ UNCHANGED <<repo, checkout, results, resultLock, checkoutLock, taints>>
    BY DEF Fingerprint, world
  <1> HIDE DEF next
  <1> QED
    BY <1>1, <1>2, <1>3, QuietMove

LEMMA KeepsLocks ==
    ASSUME Inductive, NEW x \in Processes, LockResult(x) \/ LockCheckout(x)
    PROVE  Inductive'
  <1>1. PICK label \in {"lockcheckout", "ensure"} : Goto(x, label)
    BY DEF LockResult, LockCheckout
  <1>2. p[x].step \in Underway /\ label \in Underway
    BY DEF LockResult, LockCheckout, At, Underway, Steps
  <1>3. resultLock' \in [Keys -> Processes \cup {Free}] /\ checkoutLock' \in Processes \cup {Free}
        /\ UNCHANGED <<repo, checkout, results, taints>>
    BY DEF Inductive, Typed, TypeOK, LockResult, LockCheckout, world
  <1> QED
    BY <1>1, <1>2, <1>3, GotoFields, GoesOn

\* A stored result is trusted when it is sound or its key is not.
LEMMA KeepsLoad ==
    ASSUME ModeTyped, Inductive, NEW x \in Processes, Load(x)
    PROVE  Inductive'
  <1>1. PICK label \in {"reread", "clear"} :
            Goto(x, label) /\ (label = "reread" => results[Key(x)] = "pass")
    BY DEF Load
  <1>2. p[x].step \in Underway /\ label \in Underway
    BY DEF Load, At, Underway, Steps
  <1>3. resultLock' \in [Keys -> Processes \cup {Free}] /\ checkoutLock' \in Processes \cup {Free}
        /\ UNCHANGED <<repo, checkout, results, taints>>
    BY DEF Inductive, Typed, TypeOK, Load, world
  <1>4. Key(x) \in Keys /\ Key(x)[1] = p[x].input
    BY <1>2, UnderwayFields DEF Key, Keys, ModeTyped
  <1>5. label = "reread" /\ Key(x) \notin tainted => p[x].input \in Good
    BY <1>1, <1>4 DEF Inductive, CacheSound
  <1> QED
    BY <1>1, <1>2, <1>3, <1>5, GotoFields, GoesOn

\* What was accepted in a clean checkout is good.
LEMMA KeepsVerify ==
    ASSUME Inductive, NEW x \in Processes, Verify(x)
    PROVE  Inductive'
  <1>1. p[x].step \in Underway /\ "validate" \in Underway /\ UNCHANGED <<repo, checkout, results, taints>>
    BY DEF Verify, At, Underway, Steps, world
  <1>2. CASE Canonical /\ Goto(x, "validate") /\ UNCHANGED <<resultLock, checkoutLock>>
    <2>1. checkout = "clean" => repo \in Good
      BY <1>2 DEF Canonical
    <2>2. resultLock' \in [Keys -> Processes \cup {Free}] /\ checkoutLock' \in Processes \cup {Free}
      BY <1>2 DEF Inductive, Typed, TypeOK
    <2> QED
      BY <1>1, <1>2, <2>1, <2>2, GotoFields, GoesOn
  <1>3. CASE End(x, "error")
    BY <1>1, <1>3, GivesUp
  <1> QED
    BY <1>2, <1>3 DEF Verify

LEMMA KeepsRevalidate ==
    ASSUME Inductive, NEW x \in Processes, Revalidate(x)
    PROVE  Inductive'
  <1>1. p[x].step \in Underway /\ "inputs" \in Underway /\ UNCHANGED <<repo, checkout, results, taints>>
        /\ At(x, "validate")
    BY DEF Revalidate, At, Underway, Steps, world
  <1>2. CASE Valid /\ Goto(x, "inputs") /\ UNCHANGED <<resultLock, checkoutLock>>
    <2>1. Undisturbed(x) /\ repo = p[x].input => p[x].input \in Good
      BY <1>1, <1>2 DEF Inductive, Pursued, Valid
    <2>2. resultLock' \in [Keys -> Processes \cup {Free}] /\ checkoutLock' \in Processes \cup {Free}
      BY <1>2 DEF Inductive, Typed, TypeOK
    <2> QED
      BY <1>1, <1>2, <2>1, <2>2, GotoFields, GoesOn
  <1>3. CASE End(x, "error")
    BY <1>1, <1>3, GivesUp
  <1> QED
    BY <1>2, <1>3 DEF Revalidate

\* A new checkout makes nothing clean for a process that is using the old one and is not
\* counted as disturbed.
LEMMA Replaces ==
    ASSUME Inductive, NEW x \in Processes, p[x].step \in Underway,
           NEW label \in Underway \ {"validate", "inputs", "reread"}, Goto(x, label),
           checkout' \in {"none", "clean"}, replaced' = replaced \cup (Using \ {x}),
           UNCHANGED <<repo, results, resultLock, swung, tainted>>,
           checkoutLock' \in Processes \cup {Free}
    PROVE  Inductive'
  <1> DEFINE next == Advanced(x, label, p[x].reused)
  <1>1. p[x] \in Process /\ p[x].input \in Versions /\ p[x].answer = "none"
    BY UnderwayFields
  <1>2. next \in Process /\ next.step = label /\ next.input = p[x].input /\ next.answer = "none"
    BY <1>1 DEF Process, Underway, Advanced
  <1>3. p' = [p EXCEPT ![x] = next]
    BY GotoFields
  <1> HIDE DEF next
  <1>4. \A y \in Processes : Undisturbed(y)' => Undisturbed(y)
    BY DEF Undisturbed
  <1>5. \A y \in Processes : y # x /\ At(y, "validate") => ~Undisturbed(y)'
    BY DEF Undisturbed, Using, At
  <1>6. /\ results \in [Keys -> {"none", "pass", "corrupt"}] /\ tainted \subseteq Keys
        /\ resultLock \in [Keys -> Processes \cup {Free}]
        /\ \A k \in Keys : k \notin tainted /\ results[k] = "pass" => k[1] \in Good
    BY DEF Inductive, Typed, TypeOK, CacheSound
  <1>7. label # "done"
    BY DEF Underway
  <1> QED
    BY <1>1, <1>2, <1>3, <1>4, <1>5, <1>6, <1>7, ProcessMoves

LEMMA KeepsEnsureCheckout ==
    ASSUME Inductive, NEW x \in Processes, EnsureCheckout(x)
    PROVE  Inductive'
  <1>1. p[x].step \in Underway /\ {"load", "fetch"} \subseteq Underway
        /\ UNCHANGED <<repo, results, resultLock, swung, tainted>>
    BY DEF EnsureCheckout, At, Underway, Steps, world
  <1>2. checkoutLock \in Processes \cup {Free} /\ resultLock \in [Keys -> Processes \cup {Free}]
    BY DEF Inductive, Typed, TypeOK
  <1>3. CASE Valid
    <2>1. p' = [p EXCEPT ![x] = Advanced(x, "load", "yes")]
          /\ checkoutLock' = Free /\ UNCHANGED <<checkout, replaced>>
      BY <1>3 DEF EnsureCheckout, Advanced
    <2>2. UNCHANGED <<repo, checkout, results, taints>>
      BY <1>1, <2>1 DEF taints
    <2> QED
      BY <1>1, <1>2, <2>1, <2>2, GoesOn
  <1>4. CASE ~Valid
    <2>1. checkout' = "none" /\ replaced' = replaced \cup (Using \ {x}) /\ Goto(x, "fetch")
          /\ checkoutLock' = checkoutLock
      BY <1>4 DEF EnsureCheckout
    <2> QED
      BY <1>1, <1>2, <2>1, Replaces
  <1> QED
    BY <1>3, <1>4

LEMMA KeepsFetchCheckout ==
    ASSUME Inductive, NEW x \in Processes, FetchCheckout(x)
    PROVE  Inductive'
  <1>1. p[x].step \in Underway /\ "publish" \in Underway /\ UNCHANGED <<repo, checkout, results, taints>>
    BY DEF FetchCheckout, At, Underway, Steps, world
  <1>2. CASE Goto(x, "publish") /\ UNCHANGED <<resultLock, checkoutLock>>
    <2>1. resultLock' \in [Keys -> Processes \cup {Free}] /\ checkoutLock' \in Processes \cup {Free}
      BY <1>2 DEF Inductive, Typed, TypeOK
    <2> QED
      BY <1>1, <1>2, <2>1, GotoFields, GoesOn
  <1>3. CASE End(x, "error")
    BY <1>1, <1>3, GivesUp
  <1> QED
    BY <1>2, <1>3 DEF FetchCheckout

LEMMA KeepsPublish ==
    ASSUME Inductive, NEW x \in Processes, Publish(x)
    PROVE  Inductive'
  <1>1. p[x].step \in Underway /\ "load" \in Underway /\ UNCHANGED <<repo, results, swung, tainted>>
    BY DEF Publish, At, Underway, Steps, world
  <1>2. CASE checkout = "none"
    <2>1. checkout' = "clean" /\ replaced' = replaced \cup (Using \ {x}) /\ Goto(x, "load")
          /\ checkoutLock' = Free /\ resultLock' = resultLock
      BY <1>2 DEF Publish
    <2> QED
      BY <1>1, <2>1, Replaces
  <1>3. CASE checkout # "none"
    <2>1. End(x, "error") /\ UNCHANGED <<checkout, replaced>>
      BY <1>3 DEF Publish
    <2>2. UNCHANGED <<repo, checkout, results, taints>>
      BY <1>1, <2>1 DEF taints
    <2> QED
      BY <2>1, <2>2, GivesUp
  <1> QED
    BY <1>2, <1>3

\* A cached result is reported by a process that has found it sound.
LEMMA KeepsReread ==
    ASSUME Inductive, NEW x \in Processes, Reread(x)
    PROVE  Inductive'
  <1>1. p[x].step \in Underway /\ UNCHANGED <<repo, checkout, results, taints>> /\ At(x, "reread")
    BY DEF Reread, At, Underway, Steps, world
  <1>2. CASE End(x, "error")
    BY <1>1, <1>2, GivesUp
  <1>3. CASE End(x, "cached")
    <2> DEFINE next == [p[x] EXCEPT !.step = "done", !.answer = "cached"]
    <2>1. p[x] \in Process
      BY <1>1, UnderwayFields
    <2>2. next \in Process /\ next.step = "done" /\ next.input = p[x].input /\ next.answer = "cached"
      BY <2>1 DEF Process, Steps
    <2>3. p' = [p EXCEPT ![x] = next] /\ Unlock(x)
      BY <1>3 DEF End
    <2> HIDE DEF next
    <2>4. resultLock' \in [Keys -> Processes \cup {Free}] /\ checkoutLock' \in Processes \cup {Free}
      BY <2>3, UnlockTyped DEF Inductive
    <2>5. <<p[x].input, Mode[x]>> \notin tainted => p[x].input \in Good
      BY <1>1 DEF Inductive, Pursued, Key
    <2> QED
      BY <1>1, <2>2, <2>3, <2>4, <2>5, QuietMove
  <1> QED
    BY <1>2, <1>3 DEF Reread

LEMMA KeepsClear ==
    ASSUME Inductive, NEW x \in Processes, Clear(x)
    PROVE  Inductive'
  <1> DEFINE next == Advanced(x, "verify", p[x].reused)
  <1>1. p[x].step \in Underway /\ "verify" \in Underway /\ Goto(x, "verify")
        /\ UNCHANGED <<repo, checkout, resultLock, checkoutLock, swung, replaced, tainted>>
        /\ results' = [results EXCEPT ![Key(x)] = "none"]
    BY DEF Clear, At, Underway, Steps, world, taints
  <1>2. p[x] \in Process /\ p[x].input \in Versions /\ p[x].answer = "none"
    BY <1>1, UnderwayFields
  <1>3. next \in Process /\ next.step = "verify" /\ next.input = p[x].input /\ next.answer = "none"
    BY <1>1, <1>2 DEF Process, Underway, Advanced
  <1>4. p' = [p EXCEPT ![x] = next]
    BY <1>1, GotoFields
  <1> HIDE DEF next
  <1>5. \A y \in Processes : Undisturbed(y)' = Undisturbed(y)
    BY <1>1 DEF Undisturbed
  <1>6. /\ checkout \in {"none", "clean", "dirty"} /\ tainted \subseteq Keys
        /\ resultLock \in [Keys -> Processes \cup {Free}] /\ checkoutLock \in Processes \cup {Free}
        /\ results \in [Keys -> {"none", "pass", "corrupt"}]
        /\ \A k \in Keys : k \notin tainted /\ results[k] = "pass" => k[1] \in Good
    BY DEF Inductive, Typed, TypeOK, CacheSound
  <1>7. results' \in [Keys -> {"none", "pass", "corrupt"}]
        /\ \A k \in Keys : results'[k] = "pass" => results[k] = "pass"
    BY <1>1, <1>6
  <1> QED
    BY <1>1, <1>2, <1>3, <1>4, <1>5, <1>6, <1>7, ProcessMoves

\* What an undisturbed process stores is good; what a disturbed one stores is marked.
LEMMA KeepsStore ==
    ASSUME ModeTyped, Inductive, NEW x \in Processes, Store(x)
    PROVE  Inductive'
  <1>1. p[x].step \in Underway /\ UNCHANGED <<repo, checkout, swung, replaced>> /\ At(x, "inputs")
    BY DEF Store, At, Underway, Steps, world
  <1>2. CASE ~InputsSame(x)
    <2>1. End(x, "error") /\ UNCHANGED <<results, tainted>>
      BY <1>2 DEF Store
    <2>2. UNCHANGED <<repo, checkout, results, taints>>
      BY <1>1, <2>1 DEF taints
    <2> QED
      BY <2>1, <2>2, GivesUp
  <1>3. CASE InputsSame(x)
    <2> DEFINE next == [p[x] EXCEPT !.step = "done", !.answer = "verified"]
    <2>1. p[x] \in Process /\ p[x].input \in Versions
      BY <1>1, UnderwayFields
    <2>2. next \in Process /\ next.step = "done" /\ next.input = p[x].input
          /\ next.answer = "verified"
      BY <2>1 DEF Process, Steps
    <2>3. p' = [p EXCEPT ![x] = next] /\ Unlock(x)
      BY <1>3 DEF Store, End
    <2> HIDE DEF next
    <2>4. resultLock' \in [Keys -> Processes \cup {Free}] /\ checkoutLock' \in Processes \cup {Free}
      BY <2>3, UnlockTyped DEF Inductive
    <2>5. Undisturbed(x) => p[x].input \in Good
      BY <1>1, <1>3 DEF Inductive, Pursued, InputsSame
    <2>6. \A y \in Processes : Undisturbed(y)' = Undisturbed(y)
      BY <1>1 DEF Undisturbed
    <2>7. Key(x) \in Keys /\ Key(x)[1] = p[x].input
      BY <2>1 DEF Key, Keys, ModeTyped
    <2>8. results' = [results EXCEPT ![Key(x)] = "pass"]
          /\ tainted' = (IF Undisturbed(x) THEN tainted \ {Key(x)} ELSE tainted \cup {Key(x)})
      BY <1>3 DEF Store, Undisturbed
    <2>9. /\ checkout \in {"none", "clean", "dirty"} /\ tainted \subseteq Keys
          /\ results \in [Keys -> {"none", "pass", "corrupt"}]
          /\ \A k \in Keys : k \notin tainted /\ results[k] = "pass" => k[1] \in Good
      BY DEF Inductive, Typed, TypeOK, CacheSound
    <2>10. results' \in [Keys -> {"none", "pass", "corrupt"}] /\ tainted' \subseteq Keys
           /\ \A k \in Keys : k # Key(x) => results'[k] = results[k]
      BY <2>7, <2>8, <2>9
    <2>11. \A k \in Keys : k \notin tainted' /\ results'[k] = "pass" => k[1] \in Good
      BY <2>5, <2>7, <2>8, <2>9, <2>10
    <2>12. \A v, m : <<v, m>> \notin tainted' => <<v, m>> \notin tainted \/ v \in Good
      BY <2>5, <2>8 DEF Key
    <2>13. <<p[x].input, Mode[x]>> \notin tainted' => p[x].input \in Good
      BY <2>5, <2>8 DEF Key
    <2> QED
      BY <1>1, <2>2, <2>3, <2>4, <2>6, <2>9, <2>10, <2>11, <2>12, <2>13, ProcessMoves
  <1> QED
    BY <1>2, <1>3

\* An edit that brings an input back marks every process that has it in hand.
LEMMA KeepsEdit ==
    ASSUME Inductive, NEW v \in Versions, Edit(v)
    PROVE  Inductive'
  <1>1. repo' = v /\ swung' = swung \cup {x \in Processes : p[x].input = v /\ p[x].step # "done"}
        /\ UNCHANGED <<checkout, results, resultLock, checkoutLock, p, replaced, tainted>>
    BY DEF Edit
  <1>2. Typed'
    BY <1>1 DEF Inductive, Typed, TypeOK
  <1>3. \A x \in Processes : Undisturbed(x)' => Undisturbed(x)
    BY <1>1 DEF Undisturbed
  <1>4. \A x \in Processes : p[x].step # "done" /\ repo' = p[x].input => ~Undisturbed(x)'
    BY <1>1 DEF Undisturbed
  <1>5. CacheSound'
    BY <1>1 DEF Inductive, CacheSound, Key
  <1>6. \A x \in Processes : Pursued(x)'
    BY <1>1, <1>3, <1>4 DEF Inductive, Pursued, At, Key
  <1> QED
    BY <1>2, <1>5, <1>6 DEF Inductive

LEMMA KeepsTamper ==
    ASSUME Inductive, Tamper
    PROVE  Inductive'
  <1>1. UNCHANGED <<repo, resultLock, checkoutLock, p, swung, replaced, tainted>>
        /\ checkout' \in {checkout, "dirty"}
    BY DEF Tamper, taints
  <1>2. results \in [Keys -> {"none", "pass", "corrupt"}]
    BY DEF Inductive, Typed, TypeOK
  <1>3. results' \in [Keys -> {"none", "pass", "corrupt"}]
        /\ \A k \in Keys : results'[k] = "pass" => results[k] = "pass"
    BY <1>2 DEF Tamper
  <1>4. Typed'
    BY <1>1, <1>3 DEF Inductive, Typed, TypeOK
  <1>5. CacheSound'
    BY <1>1, <1>3 DEF Inductive, CacheSound, Key
  <1>6. \A x \in Processes : Pursued(x)'
    BY <1>1 DEF Inductive, Pursued, At, Key, Undisturbed
  <1> QED
    BY <1>4, <1>5, <1>6 DEF Inductive

LEMMA KeepsCrash ==
    ASSUME Inductive, NEW x \in Processes, Crash(x)
    PROVE  Inductive'
  BY GivesUp DEF Crash

-----------------------------------------------------------------------------
LEMMA InductiveInit == Init => Inductive
  <1> SUFFICES ASSUME Init PROVE Inductive
    OBVIOUS
  <1>1. Idle \in Process /\ Idle.step = "idle" /\ Idle.answer = "none"
    BY DEF Idle, Process, Steps
  <1>2. p \in [Processes -> Process] /\ \A x \in Processes : p[x] = Idle
    BY <1>1 DEF Init
  <1>3. Typed
    BY <1>1, <1>2 DEF Init, Typed, TypeOK
  <1>4. CacheSound
    BY <1>1, <1>2 DEF Init, CacheSound
  <1>5. \A x \in Processes : Pursued(x)
    BY <1>1, <1>2 DEF Pursued, At
  <1> QED
    BY <1>3, <1>4, <1>5 DEF Inductive

LEMMA InductiveStep ==
    ASSUME ModeTyped
    PROVE  Inductive /\ [Next]_vars => Inductive'
  <1> SUFFICES ASSUME Inductive, [Next]_vars PROVE Inductive'
    OBVIOUS
  <1>1. ASSUME NEW x \in Processes,
               \/ Identify(x) \/ Fingerprint(x) \/ LockResult(x) \/ LockCheckout(x)
               \/ EnsureCheckout(x) \/ FetchCheckout(x) \/ Publish(x) \/ Load(x) \/ Reread(x)
               \/ Clear(x) \/ Verify(x) \/ Revalidate(x) \/ Store(x) \/ Crash(x)
        PROVE  Inductive'
    BY <1>1, KeepsIdentify, KeepsFingerprint, KeepsLocks, KeepsEnsureCheckout,
       KeepsFetchCheckout, KeepsPublish, KeepsLoad, KeepsReread, KeepsClear, KeepsVerify,
       KeepsRevalidate, KeepsStore, KeepsCrash
  <1>2. ASSUME NEW v \in Versions, Edit(v) PROVE Inductive'
    BY <1>2, KeepsEdit
  <1>3. CASE UNCHANGED vars
    <2>1. Typed'
      BY <1>3 DEF vars, Inductive, Typed, TypeOK
    <2>2. CacheSound'
      BY <1>3 DEF vars, Inductive, CacheSound, Key
    <2>3. \A x \in Processes : Pursued(x)'
      BY <1>3 DEF vars, Inductive, Pursued, At, Key, Undisturbed
    <2> QED
      BY <2>1, <2>2, <2>3 DEF Inductive
  <1> QED
    BY <1>1, <1>2, <1>3, KeepsTamper DEF Next

\* A verification that the cache keeps, or that a process reports, is one that the canonical
\* verification has accepted or would accept, whatever is edited, spoilt or killed meanwhile,
\* but for the two disturbances that the checks of verifyCached do not notice.
THEOREM StoredIsVerified ==
    ASSUME ModeTyped
    PROVE  Spec => []CacheSound
  <1>1. Inductive => CacheSound
    BY DEF Inductive
  <1>2. Init => Inductive
    BY InductiveInit
  <1>3. Inductive /\ [Next]_vars => Inductive'
    BY InductiveStep
  <1> QED
    BY <1>1, <1>2, <1>3, PTL DEF Spec
=============================================================================
