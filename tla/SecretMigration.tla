-------------------------- MODULE SecretMigration --------------------------
(***************************************************************************)
(* The one-time import of the shadowsocks-server plugin's legacy "secrets" *)
(* record into the Host's scoped secrets, as Controller.prepare runs it:   *)
(* a new scoped secret for every one the saved listeners name, the         *)
(* listeners saved with the new references, and only then the legacy       *)
(* record cleared.  An attempt that fails compensates and is retried by    *)
(* the next prepare.                                                       *)
(*                                                                         *)
(* A reference is a number, 1..Legacy for the ones whose material is in    *)
(* the legacy record.  Lost adds calls that take effect although the       *)
(* caller sees an error, and a process that dies between the two saves.    *)
(***************************************************************************)
EXTENDS Naturals, Sequences

CONSTANTS
    Slots,         \* the places of the saved listeners that name a secret
    Legacy,        \* how many secrets the legacy record holds
    Lost,
    MaxAttempts, MaxFaults

VARIABLES
    catalog,       \* the saved listeners: which secret each place names
    record,        \* the legacy record
    alive,         \* scoped secrets the Host delivers
    minted,
    step,          \* where prepare is
    base,          \* the listeners the attempt loaded
    moved,         \* migrated: legacy reference to new one, 0 while unmigrated
    attempts, faults, \* bounds; faults are counted per attempt
    ready          \* the process serves

state == <<catalog, record, alive, minted>>
vars == <<state, step, base, moved, attempts, faults, ready>>

Named(c) == {c[s] : s \in Slots}
Unmoved == [r \in 1..Legacy |-> 0]
Created == {moved[r] : r \in 1..Legacy} \ {0}
Outcomes == IF Lost THEN {"ok", "fail", "late"} ELSE {"ok", "fail"}
Outcome(o) == /\ o # "ok" => faults < MaxFaults
              /\ faults' = IF o = "ok" THEN faults ELSE faults + 1

(* prepare loads the listeners and the legacy record; nothing to migrate   *)
(* when the record is empty.                                               *)
Prepare ==
    /\ step = "down" /\ ~ready /\ attempts < MaxAttempts
    /\ attempts' = attempts + 1 /\ faults' = 0
    /\ base' = catalog /\ moved' = Unmoved
    /\ IF record = {} THEN ready' = TRUE /\ UNCHANGED step
       ELSE step' = "import" /\ UNCHANGED ready
    /\ UNCHANGED state

(* migrateLegacySecrets, one secret: a reference the record does not hold, *)
(* or a failed import, gives up; what was created is revoked.              *)
Import ==
    /\ step = "import"
    /\ IF \E r \in Named(base) : r \notin record
       THEN step' = "revoke" /\ UNCHANGED <<alive, minted, moved, faults>>
       ELSE LET open == {r \in Named(base) : moved[r] = 0}
            IN  IF open = {} THEN step' = "save" /\ UNCHANGED <<alive, minted, moved, faults>>
                ELSE \E r \in open, o \in Outcomes :
                       /\ Outcome(o)
                       /\ minted' = IF o = "fail" THEN minted ELSE minted + 1
                       /\ alive' = IF o = "fail" THEN alive ELSE alive \cup {minted + 1}
                       /\ moved' = IF o = "ok" THEN [moved EXCEPT ![r] = minted + 1] ELSE moved
                       /\ step' = IF o = "ok" THEN "import" ELSE "revoke"
    /\ UNCHANGED <<catalog, record, base, attempts, ready>>

(* StoreListens with the new references                                    *)
Save ==
    /\ step = "save"
    /\ \E o \in Outcomes :
         /\ Outcome(o)
         /\ catalog' = IF o = "fail" THEN catalog ELSE [s \in Slots |-> moved[base[s]]]
         /\ step' = IF o = "ok" THEN "clear" ELSE "revoke"
    /\ UNCHANGED <<record, alive, minted, base, moved, attempts, ready>>

(* StoreSecrets with an empty record; the epoch is bound after it          *)
Clear ==
    /\ step = "clear"
    /\ \E o \in Outcomes :
         /\ Outcome(o)
         /\ record' = IF o = "fail" THEN record ELSE {}
         /\ step' = IF o = "ok" THEN "down" ELSE "restore"
         /\ ready' = (o = "ok")
    /\ UNCHANGED <<catalog, alive, minted, base, moved, attempts>>

\* Mutant: the listeners stay as they were saved.
RestoreNothing ==
    /\ step = "restore" /\ step' = "revoke"
    /\ UNCHANGED <<state, base, moved, attempts, faults, ready>>

(* The previous listeners are saved again; the error is ignored            *)
Restore ==
    /\ step = "restore"
    /\ \E o \in Outcomes :
         /\ Outcome(o)
         /\ catalog' = IF o = "fail" THEN catalog ELSE base
    /\ step' = "revoke"
    /\ UNCHANGED <<record, alive, minted, base, moved, attempts, ready>>

(* revokeReferences: every created secret; errors are ignored              *)
Revoke ==
    /\ step = "revoke"
    /\ \E o \in Outcomes :
         /\ Outcome(o)
         /\ alive' = IF o = "fail" THEN alive ELSE alive \ Created
    /\ step' = "down"
    /\ UNCHANGED <<catalog, record, minted, base, moved, attempts, ready>>

(* The process dies between two calls, or restarts after serving; between  *)
(* the two saves only where answers may be lost too.                       *)
Crash ==
    /\ step # "down" \/ ready
    /\ Lost \/ step \notin {"clear", "restore"}
    /\ step' = "down" /\ ready' = FALSE
    /\ UNCHANGED <<state, base, moved, attempts, faults>>

Init ==
    /\ catalog \in [Slots -> 1..Legacy]
    /\ record = 1..Legacy
    /\ alive = {} /\ minted = Legacy
    /\ step = "down" /\ base = catalog /\ moved = Unmoved
    /\ attempts = 0 /\ faults = 0 /\ ready = FALSE

Attempt == Prepare \/ Import \/ Save \/ Clear \/ Restore \/ Revoke
Next == Attempt \/ Crash

Spec == Init /\ [][Next]_vars

\* Every variable has its type.
TypeOK ==
    /\ catalog \in [Slots -> 1..minted] /\ base \in [Slots -> 1..minted]
    /\ record \subseteq 1..Legacy /\ alive \subseteq (Legacy + 1)..minted
    /\ moved \in [1..Legacy -> 0..minted]
    /\ step \in {"down", "import", "save", "clear", "restore", "revoke"}
    /\ attempts \in 0..MaxAttempts /\ faults \in 0..MaxFaults /\ ready \in BOOLEAN

(* Between attempts the saved listeners name material that exists, and the *)
(* next prepare can use it: all of it in the legacy record while that is   *)
(* not cleared, all of it delivered by the Host afterwards.                *)
Retryable ==
    step = "down" =>
      IF record = {} THEN Named(catalog) \subseteq alive ELSE Named(catalog) \subseteq record
=============================================================================
