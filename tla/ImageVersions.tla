--------------------------- MODULE ImageVersions ---------------------------
(***************************************************************************)
(* Which version a service of a docker-app application is offered, and     *)
(* which one an automatic update moves it to (semver.go, release.go,       *)
(* service_update.go, registry_lookup.go, selectAutoUpdateServiceTags in   *)
(* rollout.go).                                                            *)
(*                                                                         *)
(* A background observation takes the catalogue entry, walks the tag pages *)
(* of the registry up to a cap, and publishes the highest tag the policy   *)
(* of that entry allows.  Meanwhile tags are published, the operator       *)
(* changes the policy, and the operator moves the service by hand.  A page *)
(* that fails after others were read leaves a listing that is short.       *)
(*                                                                         *)
(* A semantic tag is a record: major and minor version, prerelease or not, *)
(* image variant (alpine), and whether it is spelled with a v.  Moving     *)
(* tags (latest) are the tags that do not parse.  The order of the pages   *)
(* is arbitrary: registries list alphabetically, Docker Hub newest first.  *)
(***************************************************************************)
EXTENDS Integers, FiniteSets

CONSTANTS
    Tags,           \* the semantic tags the registry may come to publish
    Moving,         \* the moving tag
    Locks,          \* the constraints an operator may set; "" for none
    PageSize, MaxListed,
    MaxPolicies, MaxManual, MaxFaults

VARIABLES
    repo,           \* the tags published
    image,          \* the tag the service runs
    lock, ignored,  \* its policy in the catalogue
    o,              \* the observation in progress; "fresh" while its
                    \* imageObserveToken and imageDeleteEpoch are the latest
    cache,          \* the listing the page shows: Tags, Known, Failed
    auto,           \* the last automatic move
    policies, manual, faults

vars == <<repo, image, lock, ignored, o, cache, auto, policies, manual, faults>>

NoMove == [from |-> Moving, to |-> Moving]
NoLock == [kind |-> "", base |-> Moving]
Unlisted == [tags |-> {}, known |-> FALSE, failed |-> FALSE]
Resting == [at |-> "rest", image |-> Moving, lock |-> NoLock, ignored |-> {},
            fresh |-> FALSE, left |-> {}, seen |-> {}]

(***************************************************************************)
(* Versions                                                                *)
(***************************************************************************)
\* ParseSemverTag accepts the tag
Semver(t) == t # Moving

\* semver.Version.Compare: a prerelease is below its release
VersionLess(s, t) ==
    \/ s.major < t.major
    \/ s.major = t.major /\ s.minor < t.minor
    \/ s.major = t.major /\ s.minor = t.minor /\ s.pre /\ ~t.pre

VersionEqual(s, t) == s.major = t.major /\ s.minor = t.minor /\ s.pre = t.pre

\* SemverEqual: the v prefix does not count
SemverEqual(s, t) == Semver(s) /\ Semver(t) /\ s.variant = t.variant /\ VersionEqual(s, t)

\* releaseGreater: the version decides, the spelling breaks ties
ReleaseGreater(s, t) == VersionLess(t, s) \/ (VersionEqual(s, t) /\ s.v /\ ~t.v)

(* The lock shortcuts as constraints on a version t, set when the service  *)
(* ran "base": patch and pin keep major and minor, minor is the caret,     *)
(* which on version 0 keeps the minor too, major only forbids going back.  *)
Satisfies(t, kind, base) ==
    CASE kind = "pin"   -> VersionEqual(t, base)
      [] kind = "patch" -> ~VersionLess(t, base) /\ t.major = base.major /\ t.minor = base.minor
      [] kind = "minor" -> /\ ~VersionLess(t, base) /\ t.major = base.major
                           /\ base.major = 0 => t.minor = base.minor
      [] kind = "major" -> ~VersionLess(t, base)

(* The constraint of the library: prereleases match only when the          *)
(* constraint names one, or the running version is one.                    *)
Matches(t, constraint, current) ==
    /\ t.pre => constraint.base.pre \/ current.pre
    /\ Satisfies(t, constraint.kind, constraint.base)

(* SelectSemverCandidates: higher than current, its variant, the           *)
(* constraint.  Of two spellings of one version the first listed is kept;  *)
(* either may be, so both are here.                                        *)
Candidates(current, tags, constraint) ==
    {t \in tags : /\ t.variant = current.variant
                  /\ VersionLess(current, t)
                  /\ IF constraint = NoLock THEN t.pre => current.pre
                     ELSE Matches(t, constraint, current)}

\* allowedServiceCandidates
Allowed(current, tags, constraint, ign) ==
    {t \in Candidates(current, tags, constraint) : \A i \in ign : ~SemverEqual(t, i)}

\* what may be the head of the list sorted highest first
Highest(tags) == {t \in tags : \A u \in tags : ~VersionLess(t, u)}

\* newestRelease of a family
Newest(family) == CHOOSE t \in family : \A u \in family : ~ReleaseGreater(u, t)

(* primaryReleaseLine: the plain line when there is one, otherwise the     *)
(* line of the highest version.                                            *)
PrimaryLine(tags) ==
    LET plain == {t \in tags : t.variant = ""}
    IN  IF plain # {} \/ tags = {} THEN plain
        ELSE {t \in tags : t.variant = Newest(tags).variant}

\* Mutant: a listing without the running version is believed.
ReleaseBelieved(current, listing) ==
    LET family == {t \in listing.tags : t.variant = current.variant}
    IN  IF family = {}
        THEN [latest |-> Moving, state |-> IF listing.known THEN "current" ELSE "unknown"]
        ELSE [latest |-> Newest(family),
              state |-> IF VersionLess(current, Newest(family)) THEN "outdated" ELSE "current"]

(* projectServiceRelease for a pinned version: the newest of its family,   *)
(* unless the listing is so short that this would be a step back.          *)
Release(current, listing) ==
    LET family == {t \in listing.tags : t.variant = current.variant}
    IN  IF family = {}
        THEN [latest |-> Moving, state |-> IF listing.known THEN "current" ELSE "unknown"]
        ELSE IF VersionLess(current, Newest(family))
        THEN [latest |-> Newest(family), state |-> "outdated"]
        ELSE IF VersionLess(Newest(family), current)
        THEN [latest |-> current, state |-> "current"]
        ELSE [latest |-> Newest(family), state |-> "current"]

(* projectServiceView: the default tag (one of them) and the candidates.  A *)
(* moving tag may be pinned to the newest release of the primary line.     *)
View ==
    IF Semver(image)
    THEN LET allowed == Allowed(image, cache.tags, lock, ignored)
         IN  IF cache.known /\ allowed # {}
             THEN [update |-> TRUE, default |-> Highest(allowed), offers |-> allowed]
             ELSE [update |-> FALSE, default |-> {}, offers |-> {}]
    ELSE LET line == PrimaryLine(cache.tags)
             pinTo == IF line = {} THEN {} ELSE {Newest(line)}
         IN  [update |-> FALSE, default |-> {},
              offers |-> {t \in pinTo : \A i \in ignored : ~SemverEqual(t, i)}]

(***************************************************************************)
(* The observation                                                         *)
(***************************************************************************)
(* scheduleImageObservation and the snapshot that follows the digest read. *)
Begin ==
    /\ o.at = "rest"
    /\ o' = [Resting EXCEPT !.at = "list", !.image = image, !.lock = lock,
                            !.ignored = ignored, !.fresh = TRUE, !.left = repo]
    /\ UNCHANGED <<repo, image, lock, ignored, cache, auto, policies, manual, faults>>

(* One page: at most PageSize tags, at most MaxListed in all.  The walk    *)
(* goes on while the registry links to a next page.                        *)
Page(page) ==
    /\ o.at = "list" /\ o.left # {} /\ Cardinality(o.seen) < MaxListed
    /\ page \subseteq o.left /\ Cardinality(page) \in 1..PageSize
    /\ Cardinality(o.seen \cup page) <= MaxListed
    /\ o' = [o EXCEPT !.left = @ \ page, !.seen = @ \cup page]
    /\ UNCHANGED <<repo, image, lock, ignored, cache, auto, policies, manual, faults>>

\* the walk is over: no next page, the cap, or a page that failed later on
Listed ==
    /\ o.at = "list"
    /\ \/ (o.left = {} \/ Cardinality(o.seen) = MaxListed) /\ UNCHANGED faults
       \/ /\ o.seen # {} /\ o.left # {} /\ Cardinality(o.seen) < MaxListed
          /\ faults < MaxFaults /\ faults' = faults + 1
    /\ o' = [o EXCEPT !.at = "publish"]
    /\ UNCHANGED <<repo, image, lock, ignored, cache, auto, policies, manual>>

\* the first page failed: the tags are unknown, and marked so
ListFails ==
    /\ o.at = "list" /\ o.seen = {} /\ faults < MaxFaults
    /\ faults' = faults + 1
    /\ o' = Resting
    /\ cache' = IF o.fresh THEN [tags |-> {}, known |-> FALSE, failed |-> TRUE] ELSE cache
    /\ UNCHANGED <<repo, image, lock, ignored, auto, policies, manual>>

\* Mutant: an observation that was overtaken still publishes.
CurrentAlways == TRUE

\* snapshotObservationLocked: nobody has overtaken the observation
Current == o.fresh /\ image = o.image

\* selectAutoUpdateServiceTags: without a lock the caret of the running version
AutoLock(entry) == IF entry.lock = NoLock THEN [kind |-> "minor", base |-> entry.image] ELSE entry.lock

AutoChoice(entry, tags) ==
    IF Semver(entry.image) THEN Allowed(entry.image, tags, AutoLock(entry), entry.ignored) ELSE {}

(* AutoUpdate: publishes the highest allowed tag, if the observation is    *)
(* still current; the listing goes into the cache under the same test.     *)
(* The entry's policy is the one read at the start.                        *)
Publish ==
    /\ o.at = "publish"
    /\ LET choice == AutoChoice(o, o.seen)
       IN  \/ /\ Current /\ choice # {}
              /\ \E t \in Highest(choice) :
                    image' = t /\ auto' = [from |-> image, to |-> t]
              /\ UNCHANGED faults
           \/ /\ ~Current \/ choice = {}
              /\ UNCHANGED <<image, auto, faults>>
           \/ /\ Current /\ choice # {} /\ faults < MaxFaults
              /\ faults' = faults + 1
              /\ UNCHANGED <<image, auto>>
    /\ cache' = IF Current THEN [tags |-> o.seen, known |-> TRUE, failed |-> FALSE] ELSE cache
    /\ o' = Resting
    /\ UNCHANGED <<repo, lock, ignored, policies, manual>>

(***************************************************************************)
(* The operator and the registry                                           *)
(***************************************************************************)
\* serviceLockOptions: the shortcuts name the version that runs now
SetLock(kind) ==
    /\ policies < MaxPolicies /\ policies' = policies + 1
    /\ lock' = IF kind = "" \/ ~Semver(image) THEN NoLock ELSE [kind |-> kind, base |-> image]
    /\ UNCHANGED <<repo, image, ignored, o, cache, auto, manual, faults>>

\* mergeIgnoredUpdates: add once, or clear every spelling of the version
Ignore(t) ==
    /\ policies < MaxPolicies /\ policies' = policies + 1
    /\ ignored' = IF \E i \in ignored : SemverEqual(i, t) THEN ignored ELSE ignored \cup {t}
    /\ UNCHANGED <<repo, image, lock, o, cache, auto, manual, faults>>

Unignore(t) ==
    /\ policies < MaxPolicies /\ policies' = policies + 1
    /\ ignored' = {i \in ignored : ~SemverEqual(i, t)}
    /\ UNCHANGED <<repo, image, lock, o, cache, auto, manual, faults>>

(* applyManualServiceUpdate with another tag: pinComposeSaveObservation    *)
(* overtakes the observation, and the cache is dropped.                    *)
Manual(t) ==
    /\ manual < MaxManual /\ manual' = manual + 1
    /\ t \in repo \cup {Moving} /\ t # image
    /\ o' = [o EXCEPT !.fresh = FALSE]
    /\ image' = t
    /\ cache' = Unlisted
    /\ UNCHANGED <<repo, lock, ignored, auto, policies, faults>>

\* the registry publishes a tag
Tagged(t) ==
    /\ t \notin repo
    /\ repo' = repo \cup {t}
    /\ UNCHANGED <<image, lock, ignored, o, cache, auto, policies, manual, faults>>

Init ==
    /\ repo \in {r \in SUBSET Tags : r # {}}
    /\ image \in repo \cup {Moving}
    /\ lock = NoLock /\ ignored = {}
    /\ o = Resting /\ cache = Unlisted /\ auto = NoMove
    /\ policies = 0 /\ manual = 0 /\ faults = 0

Next ==
    \/ Begin \/ Listed \/ ListFails \/ Publish
    \/ \E page \in SUBSET o.left : Page(page)
    \/ \E kind \in Locks : SetLock(kind)
    \/ \E t \in Tags : Ignore(t) \/ Unignore(t) \/ Tagged(t) \/ Manual(t)
    \/ Manual(Moving)

Spec == Init /\ [][Next]_vars
(***************************************************************************)
(* Properties                                                              *)
(***************************************************************************)
\* Every variable has its type.
TypeOK ==
    /\ repo \subseteq Tags /\ image \in Tags \cup {Moving}
    /\ lock.kind \in Locks /\ ignored \subseteq Tags
    /\ o.at \in {"rest", "list", "publish"}
    /\ o.seen \subseteq Tags /\ Cardinality(o.seen) <= MaxListed
    /\ cache.tags \subseteq Tags /\ ~(cache.known /\ cache.failed)
    /\ policies \in 0..MaxPolicies /\ manual \in 0..MaxManual /\ faults \in 0..MaxFaults

(* An automatic update moves a service forward inside its own variant, and *)
(* across a major version only when the operator has set a lock: also when *)
(* the service was moved by hand while the tags were being listed, and     *)
(* when the listing stopped short.                                         *)
AutoForward ==
    [][auto' # auto =>
         /\ auto'.from = image /\ Semver(image)
         /\ VersionLess(image, auto'.to) /\ auto'.to.variant = image.variant
         /\ o.lock = NoLock => auto'.to.major = image.major
         /\ \A i \in o.ignored : ~SemverEqual(i, auto'.to)]_vars

(* The two projections of the page tell one story: whoever is offered a    *)
(* candidate is called outdated, the latest release shown is never below   *)
(* the running one, and what an automatic update would take is among the   *)
(* candidates.                                                             *)
OneStory ==
    /\ View.update =>
         /\ Release(image, cache).state = "outdated"
         /\ \A t \in View.offers : ~VersionLess(Release(image, cache).latest, t)
    /\ Semver(image) => (Release(image, cache).latest # Moving =>
         ~VersionLess(Release(image, cache).latest, image))
    /\ o.at = "publish" /\ Current /\ lock = o.lock /\ ignored = o.ignored /\ Semver(image) =>
         AutoChoice(o, o.seen) \subseteq Allowed(image, o.seen, lock, ignored)
=============================================================================
