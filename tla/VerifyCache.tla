---------------------------- MODULE VerifyCache -----------------------------
(***************************************************************************)
(* The verification cache of the SDK lock (verifyCached in                 *)
(* internal/sdklock/cache.go).  A process fingerprints the repository and  *)
(* the toolchain, takes the lock of the result with that fingerprint,      *)
(* takes the lock of the SDK checkout while it validates or rebuilds it,   *)
(* and then either trusts the cached result or runs the canonical          *)
(* verification, checks that nothing moved meanwhile, and stores what it   *)
(* found.  The checkout is used after its lock has been released.          *)
(*                                                                         *)
(* The repository is edited, and the cache directory is touched, by        *)
(* programs that take no lock; a process may die anywhere, which releases  *)
(* its locks.                                                              *)
(***************************************************************************)
EXTENDS Integers, FiniteSets

CONSTANTS
    Processes,
    Mode,            \* whether a process requires the host capabilities
    Versions,        \* contents of the repository
    Good,            \* the ones that the canonical verification accepts
    Mismatched,      \* the ones whose module references differ from the lock
    Missing,         \* "yes" when the lock lists a missing host capability
    MaxEdits, MaxTampers, MaxCrashes

VARIABLES
    repo, remote,    \* the content now; "locked" or "moved"
    checkout,        \* "none", "clean", "dirty"
    results,         \* for every key "none", "pass", "corrupt"
    resultLock, checkoutLock,
    p,
    edits, tampers, crashes,
    swung,           \* processes whose input went away and came back
    replaced,        \* processes that used the checkout while it was replaced
    tainted          \* keys stored by one of them

vars == <<repo, remote, checkout, results, resultLock, checkoutLock, p,
          edits, tampers, crashes, swung, replaced, tainted>>

Free == "free"
Modes == {"plain", "strict"}
Keys == Versions \X Modes
Idle == [step |-> "idle", input |-> "none", reused |-> "no", answer |-> "none"]

Key(x) == <<p[x].input, Mode[x]>>
At(x, step) == p[x].step = step
Goto(x, step) == p' = [p EXCEPT ![x].step = step]
Using == {x \in Processes : p[x].step \in {"load", "reread", "clear", "verify", "validate"}}

\* The locks are released on every way out, a crash included.
Unlock(x) ==
    /\ resultLock' = [k \in Keys |-> IF resultLock[k] = x THEN Free ELSE resultLock[k]]
    /\ checkoutLock' = IF checkoutLock = x THEN Free ELSE checkoutLock

End(x, answer) ==
    /\ p' = [p EXCEPT ![x].step = "done", ![x].answer = answer]
    /\ Unlock(x)

world == <<repo, remote, edits, tampers, crashes>>
taints == <<swung, replaced, tainted>>

-----------------------------------------------------------------------------
\* VerifyModuleIdentity
Identify(x) ==
    /\ p[x].step \in {"idle", "done"}
    /\ p' = [p EXCEPT ![x] = [Idle EXCEPT !.step = IF repo \in Mismatched THEN "done"
                                                   ELSE "fingerprint"]]
    /\ swung' = swung \ {x} /\ replaced' = replaced \ {x}
    /\ UNCHANGED <<world, checkout, results, resultLock, checkoutLock, tainted>>

\* buildVerificationCacheInput, the first time
Fingerprint(x) ==
    /\ At(x, "fingerprint")
    /\ p' = [p EXCEPT ![x].step = "lock", ![x].input = repo]
    /\ UNCHANGED <<world, checkout, results, resultLock, checkoutLock, taints>>

\* acquireVerificationCacheLock, twice
LockResult(x) ==
    /\ At(x, "lock") /\ resultLock[Key(x)] = Free
    /\ resultLock' = [resultLock EXCEPT ![Key(x)] = x]
    /\ Goto(x, "lockcheckout")
    /\ UNCHANGED <<world, checkout, results, checkoutLock, taints>>

LockCheckout(x) ==
    /\ At(x, "lockcheckout") /\ checkoutLock = Free
    /\ checkoutLock' = x
    /\ Goto(x, "ensure")
    /\ UNCHANGED <<world, checkout, results, resultLock, taints>>

\* validateCachedCheckout
Valid == checkout = "clean"

(* ensureCachedCheckout: a valid checkout is kept, any other is removed    *)
(* and a new one is fetched beside it and renamed into place.              *)
EnsureCheckout(x) ==
    /\ At(x, "ensure")
    /\ IF Valid
       THEN /\ p' = [p EXCEPT ![x].step = "load", ![x].reused = "yes"]
            /\ checkoutLock' = Free
            /\ UNCHANGED <<checkout, replaced>>
       ELSE /\ checkout' = "none"
            /\ replaced' = replaced \cup (Using \ {x})
            /\ Goto(x, "fetch") /\ UNCHANGED checkoutLock
    /\ UNCHANGED <<world, results, resultLock, swung, tainted>>

\* checkoutLockedRepository: a branch or a tag that has moved is refused
FetchCheckout(x) ==
    /\ At(x, "fetch")
    /\ \/ /\ remote = "locked" /\ Goto(x, "publish")
          /\ UNCHANGED <<resultLock, checkoutLock>>
       \/ End(x, "error")
    /\ UNCHANGED <<world, checkout, results, taints>>

Publish(x) ==
    /\ At(x, "publish")
    /\ IF checkout = "none"
       THEN /\ checkout' = "clean" /\ replaced' = replaced \cup (Using \ {x})
            /\ Goto(x, "load") /\ checkoutLock' = Free /\ UNCHANGED resultLock
       ELSE End(x, "error") /\ UNCHANGED <<checkout, replaced>>
    /\ UNCHANGED <<world, results, swung, tainted>>

\* validateCachedVerification
ResultValid(x) == Mode[x] = "plain" \/ Missing = "no"

\* loadCachedVerification, only behind a checkout that was there already
Load(x) ==
    /\ At(x, "load")
    /\ Goto(x, IF p[x].reused = "yes" /\ results[Key(x)] = "pass" /\ ResultValid(x)
               THEN "reread" ELSE "clear")
    /\ UNCHANGED <<world, checkout, results, resultLock, checkoutLock, taints>>

\* Mutant: what was fingerprinted at the start is taken for the present.
InputsAssumed(x) == TRUE

\* buildVerificationCacheInput again
InputsSame(x) == repo = p[x].input

Reread(x) ==
    /\ At(x, "reread")
    /\ End(x, IF InputsSame(x) THEN "cached" ELSE "error")
    /\ UNCHANGED <<world, checkout, results, taints>>

Clear(x) ==
    /\ At(x, "clear")
    /\ results' = [results EXCEPT ![Key(x)] = "none"]
    /\ Goto(x, "verify")
    /\ UNCHANGED <<world, checkout, resultLock, checkoutLock, taints>>

(* verifyCanonical reads the repository and runs in the checkout.  A       *)
(* checkout that is not the locked one may make it accept anything.        *)
Canonical == CASE checkout = "clean" -> repo \in Good
               [] checkout = "dirty" -> TRUE
               [] checkout = "none" -> FALSE

Verify(x) ==
    /\ At(x, "verify")
    /\ \/ /\ Canonical /\ ResultValid(x)
          /\ Goto(x, "validate") /\ UNCHANGED <<resultLock, checkoutLock>>
       \/ /\ ~(checkout = "clean" /\ Canonical /\ ResultValid(x))
          /\ End(x, "error")
    /\ UNCHANGED <<world, checkout, results, taints>>

Revalidate(x) ==
    /\ At(x, "validate")
    /\ IF Valid THEN Goto(x, "inputs") /\ UNCHANGED <<resultLock, checkoutLock>>
       ELSE End(x, "error")
    /\ UNCHANGED <<world, checkout, results, taints>>

\* The last look at the inputs, then writeCacheEnvelopeAtomically
Store(x) ==
    /\ At(x, "inputs")
    /\ IF InputsSame(x)
       THEN /\ results' = [results EXCEPT ![Key(x)] = "pass"]
            /\ tainted' = IF x \in swung \cup replaced THEN tainted \cup {Key(x)}
                          ELSE tainted \ {Key(x)}
            /\ End(x, "verified")
       ELSE End(x, "error") /\ UNCHANGED <<results, tainted>>
    /\ UNCHANGED <<world, checkout, swung, replaced>>

-----------------------------------------------------------------------------
(* What happens around the processes                                       *)

Edit(v) ==
    /\ edits < MaxEdits /\ v # repo
    /\ repo' = v /\ edits' = edits + 1
    /\ swung' = swung \cup {x \in Processes : p[x].input = v /\ p[x].step # "done"}
    /\ UNCHANGED <<remote, checkout, results, resultLock, checkoutLock, p, tampers, crashes,
                   replaced, tainted>>

Tamper ==
    /\ tampers < MaxTampers /\ tampers' = tampers + 1
    /\ \/ checkout # "none" /\ checkout' = "dirty" /\ UNCHANGED <<results, remote>>
       \/ \E k \in Keys : /\ results[k] # "none" /\ results' = [results EXCEPT ![k] = "corrupt"]
                          /\ UNCHANGED <<checkout, remote>>
       \/ remote' = "moved" /\ UNCHANGED <<checkout, results>>
    /\ UNCHANGED <<repo, edits, crashes, resultLock, checkoutLock, p, taints>>

Crash(x) ==
    /\ crashes < MaxCrashes /\ crashes' = crashes + 1
    /\ p[x].step \notin {"idle", "done"}
    /\ End(x, "crashed")
    /\ UNCHANGED <<repo, remote, edits, tampers, checkout, results, taints>>

Init ==
    /\ repo \in Versions /\ remote = "locked" /\ checkout = "none"
    /\ results = [k \in Keys |-> "none"]
    /\ resultLock = [k \in Keys |-> Free] /\ checkoutLock = Free
    /\ p = [x \in Processes |-> Idle]
    /\ edits = 0 /\ tampers = 0 /\ crashes = 0
    /\ swung = {} /\ replaced = {} /\ tainted = {}

Next ==
    \/ \E x \in Processes :
          \/ Identify(x) \/ Fingerprint(x) \/ LockResult(x) \/ LockCheckout(x)
          \/ EnsureCheckout(x) \/ FetchCheckout(x) \/ Publish(x) \/ Load(x) \/ Reread(x)
          \/ Clear(x) \/ Verify(x) \/ Revalidate(x) \/ Store(x) \/ Crash(x)
    \/ \E v \in Versions : Edit(v)
    \/ Tamper

Spec == Init /\ [][Next]_vars

-----------------------------------------------------------------------------
(* Properties                                                              *)

\* Every variable has its type.
TypeOK ==
    /\ repo \in Versions /\ checkout \in {"none", "clean", "dirty"}
    /\ results \in [Keys -> {"none", "pass", "corrupt"}]
    /\ \A k \in Keys : resultLock[k] \in Processes \cup {Free}
    /\ checkoutLock \in Processes \cup {Free} /\ tainted \subseteq Keys

(* What the cache keeps as verified is verified: whatever was edited while *)
(* a verification ran, whoever died in it and however the checkout was     *)
(* spoilt, a stored result belongs to a repository content that the        *)
(* canonical verification accepts, and only such a content is reported.    *)
(* Left out are results stored across a replacement of the checkout by     *)
(* another process, or across an edit that was taken back meanwhile: the   *)
(* checks after the verification do not notice either.                     *)
CacheSound ==
    /\ \A k \in Keys \ tainted : results[k] = "pass" => k[1] \in Good
    /\ \A x \in Processes :
          p[x].answer \in {"verified", "cached"} /\ x \notin swung \cup replaced
             /\ Key(x) \notin tainted => p[x].input \in Good
=============================================================================
