----------------------------- MODULE NodeImages -----------------------------
(***************************************************************************)
(* The images on one node as the execution face of docker-app manages them *)
(* (Controller.callCompose in plugin_call.go, the ledgers in workdir.go,   *)
(* finishComposeDeploy in deploy_job.go).                                  *)
(*                                                                         *)
(* Every application has a workspace with its compose file, a ledger of    *)
(* the images it ever used, and a record of the images it last published.  *)
(* A finished apply, a drain and a remove reclaim the images that nobody   *)
(* needs any more: they read the compose files of the sibling workspaces,  *)
(* ask docker for containers of the image, and then remove it.  Nothing    *)
(* locks the node, so the calls of two applications interleave between any *)
(* two of these steps.                                                     *)
(*                                                                         *)
(* A compose document is the set of images its services name.  Calls for   *)
(* one application follow each other (the controller waits for a call, and *)
(* DeployJob has the supervised ones); calls for different applications do *)
(* not.                                                                    *)
(***************************************************************************)
EXTENDS Integers, Sequences, FiniteSets

CONSTANTS
    Apps, Images,
    MaxCalls, MaxFaults

VARIABLES
    file,       \* the images in the compose file of a workspace; {}: no file
    used,       \* .nre-used-images, {}: no ledger
    published,  \* .nre-published-images, {}: none
    cont,       \* the images the application's containers were created from
    stopped,    \* applications whose containers are stopped
    local,      \* the images docker holds
    c,          \* the call in progress for every application
    calls, faults,
    settled,    \* applications whose last compose up came through
    raced,      \* ... that was staged while a sibling was reclaiming
    slipped     \* images whose reclaim docker could not answer for

disk == <<file, used, published>>
docker == <<cont, stopped, local>>
vars == <<disk, docker, c, calls, faults, settled, raced, slipped>>

Composes == SUBSET Images \ {{}}
Idle == [todo |-> <<>>, doc |-> {}, prev |-> {}, cand |-> {}, keep |-> {}]
Quiet == \A a \in Apps : c[a] = Idle
At(a, step) == c[a].todo # <<>> /\ Head(c[a].todo) = step

Union(f) == UNION {f[a] : a \in Apps}

(* What a compose action does after it has staged the workspace, in order; *)
(* "rollout" is the sequence of calls the rollout makes (pull,             *)
(* start-instance, ready, drain).                                          *)
Program ==
    [apply    |-> <<"pull", "create", "gather", "reclaim">>,
     instance |-> <<"pull", "create">>,
     rollout  |-> <<"pull", "create", "drain", "reclaim">>,
     start    |-> <<"pull", "create">>,
     remove   |-> <<"down", "wipe", "reclaim">>]

\* composeRestageAction
Restages(op) == op # "start"

Advance(a, call) ==
    c' = [c EXCEPT ![a] = IF Tail(c[a].todo) = <<>> THEN Idle
                          ELSE [call EXCEPT !.todo = Tail(@)]]

Abandon(a) == c' = [c EXCEPT ![a] = Idle]

Fault == faults < MaxFaults /\ faults' = faults + 1

(* PrepareAppWorkspace writes the document into the workspace              *)
Prepared(a, doc) == [file EXCEPT ![a] = doc]

(* recordUsedImages adds to the ledger                                     *)
Recorded(a, images) == [used EXCEPT ![a] = images]

(* A compose call.  PrepareAppWorkspace and the ledger come first: what    *)
(* the workspace had before is read, the document is written, and both are *)
(* recorded as used.  start runs in the workspace as it stands.            *)
Call(a, op, doc) ==
    /\ c[a] = Idle /\ calls < MaxCalls
    /\ op # "apply" => file[a] # {}
    /\ ~Restages(op) => doc = file[a]
    /\ calls' = calls + 1
    /\ LET prev == file[a] \cup used[a]
       IN  /\ file' = Prepared(a, doc)
           /\ used' = IF Restages(op) THEN Recorded(a, prev \cup doc) ELSE used
           /\ c' = [c EXCEPT ![a] = [Idle EXCEPT !.todo = Program[op], !.doc = doc,
                                                 !.prev = prev, !.cand = prev \cup doc]]
    /\ settled' = settled \ {a}
    /\ raced' = IF \E b \in Apps \ {a} : At(b, "reclaim") THEN raced \cup {a} ELSE raced \ {a}
    /\ UNCHANGED <<published, docker, faults, slipped>>

(* docker compose up (or pull) first fetches the images it does not find.  *)
Pull(a) ==
    /\ At(a, "pull")
    /\ \/ /\ local' = local \cup c[a].doc
          /\ Advance(a, c[a])
          /\ UNCHANGED faults
       \/ /\ Fault
          /\ \E some \in SUBSET c[a].doc : local' = local \cup some
          /\ Abandon(a)
    /\ UNCHANGED <<disk, cont, stopped, calls, settled, raced, slipped>>

(* docker compose up then creates the containers, which needs the images   *)
(* to be there still, and recordPublishedImages copies the compose file;   *)
(* when it fails, some services were recreated and others were not.        *)
Create(a) ==
    /\ At(a, "create")
    /\ \/ /\ c[a].doc \subseteq local
          /\ cont' = [cont EXCEPT ![a] = c[a].doc]
          /\ published' = [published EXCEPT ![a] = file[a]]
          /\ settled' = settled \cup {a}
          /\ Advance(a, c[a])
          /\ UNCHANGED faults
       \/ /\ IF c[a].doc \subseteq local THEN Fault ELSE UNCHANGED faults
          /\ \E old \in SUBSET cont[a], new \in SUBSET (c[a].doc \cap local) :
                cont' = [cont EXCEPT ![a] = old \cup new]
          /\ Abandon(a)
          /\ UNCHANGED <<published, settled>>
    /\ stopped' = stopped \ {a}
    /\ UNCHANGED <<file, used, local, calls, raced, slipped>>

\* Mutant: the other workspaces are not read.
NoSiblings == {}

\* siblingComposeImages: every workspace with a compose file, its own too
SiblingImages == Union(file)

(* The reclaim of an apply looks at what the new document no longer names, *)
(* the one of a drain at everything the workspace knows of.                *)
Gather(a) ==
    /\ At(a, "gather")
    /\ Advance(a, [c[a] EXCEPT !.cand = c[a].prev \ c[a].doc,
                               !.keep = c[a].doc \cup SiblingImages])
    /\ UNCHANGED <<disk, docker, calls, faults, settled, raced, slipped>>

Drain(a) ==
    /\ At(a, "drain")
    /\ Advance(a, [c[a] EXCEPT !.cand = file[a] \cup used[a],
                               !.keep = file[a] \cup c[a].doc \cup SiblingImages])
    /\ UNCHANGED <<disk, docker, calls, faults, settled, raced, slipped>>

\* imageReferencedByContainer
Referenced(i) == \E a \in Apps : i \in cont[a]

(* reclaimUnusedImages, one candidate: not kept, and no container of it.   *)
(* Docker itself refuses to remove an image a container was created from,  *)
(* and an answer it cannot give keeps the image.                           *)
Reclaim(a, i) ==
    /\ At(a, "reclaim") /\ i \in c[a].cand
    /\ c' = [c EXCEPT ![a].cand = @ \ {i}]
    /\ \/ /\ i \in c[a].keep \/ Referenced(i)
          /\ UNCHANGED <<local, faults, slipped>>
       \/ /\ i \notin c[a].keep /\ ~Referenced(i)
          /\ local' = local \ {i}
          /\ UNCHANGED <<faults, slipped>>
       \/ /\ i \notin c[a].keep /\ Fault
          /\ slipped' = slipped \cup {i}
          /\ UNCHANGED local
    /\ UNCHANGED <<disk, cont, stopped, calls, settled, raced>>

(* rewriteUsedImages: the ledger starts over with the current document; a  *)
(* removed application has no ledger any more.                             *)
Rewrite(a) ==
    /\ At(a, "reclaim") /\ c[a].cand = {}
    /\ used' = [used EXCEPT ![a] = file[a]]
    /\ Abandon(a)
    /\ UNCHANGED <<file, published, docker, calls, faults, settled, raced, slipped>>

\* docker compose stop, and docker compose rm -f, which takes what is stopped
Stop(a) ==
    /\ c[a] = Idle /\ calls < MaxCalls /\ cont[a] # {} /\ a \notin stopped
    /\ calls' = calls + 1
    /\ stopped' = stopped \cup {a}
    /\ UNCHANGED <<disk, cont, local, c, faults, settled, raced, slipped>>

RemoveInstance(a) ==
    /\ c[a] = Idle /\ a \in stopped
    /\ cont' = [cont EXCEPT ![a] = {}]
    /\ stopped' = stopped \ {a}
    /\ UNCHANGED <<disk, local, c, calls, faults, settled, raced, slipped>>

\* docker compose down; a failure ends the remove with the workspace kept
Down(a) ==
    /\ At(a, "down")
    /\ \/ /\ cont' = [cont EXCEPT ![a] = {}]
          /\ Advance(a, c[a])
          /\ UNCHANGED faults
       \/ /\ Fault
          /\ \E some \in SUBSET cont[a] : cont' = [cont EXCEPT ![a] = some]
          /\ Abandon(a)
    /\ stopped' = stopped \ {a}
    /\ UNCHANGED <<disk, local, calls, settled, raced, slipped>>

(* After a successful down the workspace and both records go; reclaiming   *)
(* starts from the candidates read before, against the siblings that are   *)
(* left.                                                                   *)
Wipe(a) ==
    /\ At(a, "wipe")
    /\ file' = [file EXCEPT ![a] = {}]
    /\ used' = [used EXCEPT ![a] = {}]
    /\ published' = [published EXCEPT ![a] = {}]
    /\ Advance(a, [c[a] EXCEPT !.keep = UNION {file[b] : b \in Apps \ {a}}])
    /\ UNCHANGED <<docker, calls, faults, settled, raced, slipped>>

(* Workspaces that were applied before, and nothing else on the node.      *)
Init ==
    /\ file \in [Apps -> Composes \cup {{}}]
    /\ used = file /\ published = file /\ cont = file
    /\ stopped = {} /\ local = Union(file)
    /\ c = [a \in Apps |-> Idle]
    /\ calls = 0 /\ faults = 0
    /\ settled = {a \in Apps : file[a] # {}} /\ raced = {} /\ slipped = {}

Next ==
    \E a \in Apps :
        \/ \E op \in DOMAIN Program, doc \in Composes : Call(a, op, doc)
        \/ Pull(a) \/ Create(a) \/ Gather(a) \/ Drain(a)
        \/ \E i \in Images : Reclaim(a, i)
        \/ Rewrite(a) \/ Stop(a) \/ RemoveInstance(a) \/ Down(a) \/ Wipe(a)

Spec == Init /\ [][Next]_vars

(***************************************************************************)
(* Properties                                                              *)
(***************************************************************************)
\* Every variable has its type.
TypeOK ==
    /\ {file, used, published, cont} \subseteq [Apps -> SUBSET Images]
    /\ {local, slipped} \subseteq SUBSET Images
    /\ {settled, raced, stopped} \subseteq SUBSET Apps
    /\ \A a \in Apps : c[a].doc \subseteq Images /\ c[a].cand \subseteq Images
    /\ calls \in 0..MaxCalls /\ faults \in 0..MaxFaults

(* No image is left behind: whatever failed and however the calls of two   *)
(* applications interleaved, an image on a quiet node is named by some     *)
(* application's compose file or ledger, so a later apply or remove still  *)
(* finds it.  The ledger is written before compose up and rewritten only   *)
(* after the reclaim for that reason.                                      *)
NoLeak == Quiet => local \subseteq Union(file) \cup Union(used) \cup slipped

(* An application whose compose up came through keeps its images: no       *)
(* sibling's apply, drain or remove takes away an image that its compose   *)
(* file names, even while it has no container (after remove-instance).     *)
(* Left out: a document staged while a sibling is already working through  *)
(* its candidates, which are not compared with the workspaces again.       *)
SettledKept == \A a \in settled \ raced : file[a] \subseteq local
=============================================================================
