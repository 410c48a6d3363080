----------------------------- MODULE WebdavShare -----------------------------
(***************************************************************************)
(* The files of the webdav plugin under concurrent requests: the WebDAV    *)
(* methods (handler.go, condition.go, fs.go, and golang.org/x/net/webdav,  *)
(* which is external) and the browser's API (api.go).                      *)
(*                                                                         *)
(* A bearer request works in the share's root, a basic request in the      *)
(* namespace of its user below it (share.go).  A WebDAV method with        *)
(* If-Match holds the stripe of its target from the check to its end; the  *)
(* library holds a temporary lock per lock system and path while a method  *)
(* runs; the API takes no lock.  A file is an inode, so that an open       *)
(* handle writes on where it was opened.  An entity tag stands for the     *)
(* modification time and size, which differ from version to version.       *)
(***************************************************************************)
EXTENDS Naturals, Sequences, SequencesExt, FiniteSets

CONSTANTS
    Requests,
    Ways,       \* what requests name: a namespace and two paths, which are sequences of
                \* components, "." and ".." among them
    Targets,    \* the absolute paths those stand for, links aside
    Links,      \* absolute paths that are symbolic links
    Stripe,     \* the stripe of every target
    Nobody

VARIABLES
    dir,        \* the inode of every target; 0: none
    data,       \* what an inode holds
    last,       \* the last version handed out
    q,          \* the requests
    holder,     \* who holds a stripe
    temp,       \* the temporary locks: lock system, path, request
    raced,      \* If-Match requests whose target an unguarded one changed meanwhile
    touched     \* who changed what by which name

disk == <<dir, data, last>>
vars == <<disk, q, holder, temp, raced, touched>>

Dav == {"put", "delete", "move", "copy", "mkcol"}
Api == {"upload", "apidelete", "rename", "mkdir"}
IfMatch == {"any", "first"}
Inodes == 1..Cardinality(Requests) + 1
Missing == [ver |-> 0, by |-> {}, isDir |-> FALSE]

\* authorize: the root and the lock system of a request
Root(key) == IF key = "bearer" THEN <<>> ELSE <<"u">>

\* path.Clean of a rooted path: it does not climb over the root
Cleaned(path) ==
    LET Into(p, c) == CASE c = "." -> p
                        [] c = ".." -> (IF p = <<>> THEN p ELSE Front(p))
                        [] OTHER -> Append(p, c)
    IN  FoldLeft(Into, <<>>, path)

\* rejectSymlinkTraversal
Linked(target) == \E n \in 1..Len(target) : SubSeq(target, 1, n) \in Links

\* Mutant: the path is joined to the root before it is cleaned.
ResolveJoined(root, path) ==
    LET target == Cleaned(root \o path) IN IF Linked(target) THEN <<>> ELSE target

\* resolveInsideRoot; <<>> is a refusal
Resolve(root, path) ==
    LET target == root \o Cleaned(path) IN IF Linked(target) THEN <<>> ELSE target

At(r) == Resolve(Root(q[r].key), q[r].path)
To(r) == Resolve(Root(q[r].key), q[r].to)
Exists(t) == dir[t] # 0
IsDir(t) == Exists(t) /\ data[dir[t]].isDir

\* resourceETag: directories have none
ETag(t) == IF Exists(t) /\ ~IsDir(t) THEN data[dir[t]].ver ELSE 0

\* ifMatchAllowed, classifyIfMatch: "first" names the version of the initial state
IfMatchAllowed(cond, t) == IF cond = "any" THEN Exists(t) ELSE ETag(t) = 1

\* Mutant: every request has a lock system of its own.
LockKeyOwn(r) == r

\* lockSystem: one for every namespace
LockKey(r) == q[r].key

\* confirmLocks of the library: a move locks both ends, a copy the new one
Locks(r) == LET of(path) == <<LockKey(r), Cleaned(path)>>
            IN  CASE q[r].op = "move" -> {of(q[r].path), of(q[r].to)}
                  [] q[r].op = "copy" -> {of(q[r].to)}
                  [] OTHER -> {of(q[r].path)}
-----------------------------------------------------------------------------
Step(r, pc) == q' = [q EXCEPT ![r].pc = pc] /\ UNCHANGED <<holder, temp>>

\* The temporary locks go when the library returns, the stripe when serveDAV does.
End(r, outcome, saw) ==
    /\ q' = [q EXCEPT ![r].pc = outcome, ![r].saw = saw]
    /\ holder' = [s \in DOMAIN holder |-> IF holder[s] = r THEN Nobody ELSE holder[s]]
    /\ temp' = {l \in temp : l[3] # r}

\* A change of ts by r, seen by the If-Match requests that hold their stripe.
Race(r, ts) ==
    raced' = raced \cup {s \in Requests \ {r} :
                 /\ s \in {holder[x] : x \in DOMAIN holder} /\ At(s) \in ts
                 /\ ~(q[r].cond \in IfMatch /\ At(r) = At(s))}
Touch(r, ts) == touched' = touched \cup {<<r, t>> : t \in ts} /\ Race(r, ts)
Untouched == UNCHANGED <<touched, raced>>

(* ServeHTTP: the request is authorized; the API writes at once, a WebDAV  *)
(* method is guarded when it has an If-Match.                              *)
Begin(r, op, way, cond) ==
    /\ q[r].pc = "idle"
    /\ op \in Api => cond = "none"
    /\ cond = "new" => op = "put"
    /\ q' = [q EXCEPT ![r] =
                [op |-> op, key |-> way.key, path |-> way.path, to |-> way.to, cond |-> cond,
                 ino |-> 0, saw |-> 0,
                 pc |-> IF op \in Api THEN "open"
                        ELSE IF cond \in IfMatch THEN "guard" ELSE "confirm"]]
    /\ UNCHANGED <<disk, holder, temp, raced, touched>>

\* Mutant: the stripe is given back before the method runs.
GuardAndGo(r) ==
    /\ q[r].pc = "guard"
    /\ IF At(r) = <<>> \/ IfMatchAllowed(q[r].cond, At(r)) THEN Step(r, "confirm")
       ELSE End(r, "refused", 0)
    /\ Untouched /\ UNCHANGED disk

(* guardIfMatch: the stripe, then the comparison; a refusal gives the      *)
(* stripe back, and a path that does not resolve is left to the method.    *)
Guard(r) ==
    /\ q[r].pc = "guard"
    /\ IF At(r) = <<>> THEN Step(r, "confirm")
       ELSE /\ holder[Stripe[At(r)]] = Nobody
            /\ IF IfMatchAllowed(q[r].cond, At(r))
               THEN /\ holder' = [holder EXCEPT ![Stripe[At(r)]] = r]
                    /\ q' = [q EXCEPT ![r].pc = "confirm"] /\ UNCHANGED temp
               ELSE End(r, "refused", 0)
    /\ Untouched /\ UNCHANGED disk

\* The library's temporary locks, or 423.
Confirm(r) ==
    /\ q[r].pc = "confirm"
    /\ IF \E l \in temp : <<l[1], l[2]>> \in Locks(r) THEN End(r, "locked", 0)
       ELSE /\ temp' = temp \cup {<<l[1], l[2], r>> : l \in Locks(r)}
            /\ q' = [q EXCEPT ![r].pc = "open"]
            /\ UNCHANGED holder
    /\ Untouched /\ UNCHANGED disk

Fresh(i, who, isDir) == [data EXCEPT ![i] = [ver |-> last + 1, by |-> who, isDir |-> isDir]]
Unused == CHOOSE i \in Inodes : data[i] = Missing

\* Mutant: a conditional create opens an existing file like any other PUT.
RefusedNever(r, t) == FALSE
\* shareFS.OpenFile with O_EXCL, and conditionalCreateResponseWriter: 412
Refused(r, t) == q[r].cond = "new" /\ Exists(t)

Fails(r, outcome) == End(r, outcome, 0) /\ Untouched /\ UNCHANGED disk

\* O_CREATE and O_TRUNC: the file is empty from here on
Truncate(r, t) ==
    LET i == IF Exists(t) THEN dir[t] ELSE Unused
    IN  /\ dir' = [dir EXCEPT ![t] = i]
        /\ data' = Fresh(i, {}, FALSE) /\ last' = last + 1
        /\ q' = [q EXCEPT ![r].pc = "write", ![r].ino = i, ![r].saw = ETag(t)]
        /\ Touch(r, {t}) /\ UNCHANGED <<holder, temp>>

\* shareFS.OpenFile for a PUT
OpenFile(r) ==
    /\ q[r].pc = "open" /\ q[r].op = "put"
    /\ IF At(r) = <<>> THEN Fails(r, "failed")
       ELSE IF Refused(r, At(r)) THEN Fails(r, "refused")
       ELSE IF IsDir(At(r)) THEN Fails(r, "failed") ELSE Truncate(r, At(r))

\* apiUpload, up to the opening of the file
Upload(r) ==
    /\ q[r].pc = "open" /\ q[r].op = "upload"
    /\ IF At(r) = <<>> THEN Fails(r, "failed")
       ELSE IF IsDir(At(r)) THEN Fails(r, "failed") ELSE Truncate(r, At(r))

\* COPY of the library: the new end is removed and made again
OpenCopy(r) ==
    /\ q[r].pc = "open" /\ q[r].op = "copy"
    /\ IF At(r) = <<>> \/ To(r) = <<>> \/ At(r) = To(r) \/ ~Exists(At(r))
       THEN Fails(r, "failed")
       ELSE /\ dir' = [dir EXCEPT ![To(r)] = Unused]
            /\ data' = Fresh(Unused, {}, IsDir(At(r))) /\ last' = last + 1
            /\ Touch(r, {To(r)})
            /\ IF IsDir(At(r)) THEN End(r, "ok", 0)
               ELSE /\ q' = [q EXCEPT ![r].pc = "write", ![r].ino = Unused, ![r].saw = ETag(At(r))]
                    /\ UNCHANGED <<holder, temp>>

\* io.Copy into the handle, to its end or until the body breaks off
Write(r) ==
    /\ q[r].pc = "write" /\ q[r].op \in {"put", "upload", "copy"}
    /\ LET i == q[r].ino IN data' = Fresh(i, data[i].by \cup {r}, FALSE)
    /\ last' = last + 1
    /\ \E outcome \in {"ok", "failed"} : End(r, outcome, q[r].saw)
    /\ Race(r, {t \in Targets : dir[t] = q[r].ino}) /\ UNCHANGED <<dir, touched>>

\* apiDelete, and DELETE of the library: stat first
StatDelete(r) ==
    /\ q[r].pc = "open" /\ q[r].op \in {"delete", "apidelete"}
    /\ IF At(r) = <<>> \/ ~Exists(At(r)) THEN End(r, "failed", 0) ELSE Step(r, "write")
    /\ Untouched /\ UNCHANGED disk

\* RemoveAll: nothing to remove is no error
RemoveAll(r) ==
    /\ q[r].pc = "write" /\ q[r].op \in {"delete", "apidelete"}
    /\ dir' = [dir EXCEPT ![At(r)] = 0]
    /\ End(r, "ok", ETag(At(r)))
    /\ Touch(r, {At(r)}) /\ UNCHANGED <<data, last>>

\* MOVE of the library: what is at the new end goes first
ClearMove(r) ==
    /\ q[r].pc = "open" /\ q[r].op = "move"
    /\ IF At(r) = <<>> \/ To(r) = <<>> \/ At(r) = To(r)
       THEN End(r, "failed", 0) /\ Untouched /\ UNCHANGED dir
       ELSE /\ dir' = [dir EXCEPT ![To(r)] = 0]
            /\ Step(r, "write") /\ Touch(r, {To(r)})
    /\ UNCHANGED <<data, last>>

\* apiRename, and shareFS.Rename for a MOVE: os.Rename
Rename(r) ==
    /\ \/ q[r].pc = "write" /\ q[r].op = "move"
       \/ q[r].pc = "open" /\ q[r].op = "rename"
    /\ IF At(r) = <<>> \/ To(r) = <<>> THEN End(r, "failed", 0) /\ Untouched /\ UNCHANGED dir
       ELSE IF ~Exists(At(r)) \/ (Exists(To(r)) /\ IsDir(To(r)) # IsDir(At(r)))
       THEN End(r, "failed", 0) /\ Untouched /\ UNCHANGED dir
       ELSE /\ dir' = [t \in Targets |-> IF t = To(r) THEN dir[At(r)]
                                         ELSE IF t = At(r) THEN 0 ELSE dir[t]]
            /\ End(r, "ok", ETag(At(r))) /\ Touch(r, {At(r), To(r)})
    /\ UNCHANGED <<data, last>>

\* apiMkdir, and shareFS.Mkdir for a MKCOL
Mkdir(r) ==
    /\ q[r].pc = "open" /\ q[r].op \in {"mkcol", "mkdir"}
    /\ IF At(r) = <<>> THEN Fails(r, "failed")
       ELSE IF Exists(At(r)) THEN Fails(r, "failed")
       ELSE /\ dir' = [dir EXCEPT ![At(r)] = Unused]
            /\ data' = Fresh(Unused, {}, TRUE) /\ last' = last + 1
            /\ End(r, "ok", 0) /\ Touch(r, {At(r)})

Waiting == [op |-> "put", key |-> "bearer", path |-> <<>>, to |-> <<>>, cond |-> "none",
            ino |-> 0, saw |-> 0, pc |-> "idle"]

\* One file, at one of the targets.
Init ==
    /\ \E t \in Targets : dir = [x \in Targets |-> IF x = t THEN 1 ELSE 0]
    /\ data = [i \in Inodes |-> IF i = 1 THEN [Missing EXCEPT !.ver = 1] ELSE Missing]
    /\ last = 1 /\ q = [r \in Requests |-> Waiting]
    /\ holder = [s \in {Stripe[t] : t \in Targets} |-> Nobody]
    /\ temp = {} /\ raced = {} /\ touched = {}

Next ==
    \E r \in Requests :
        \/ \E op \in Dav \cup Api, way \in Ways, cond \in IfMatch \cup {"none", "new"} :
              Begin(r, op, way, cond)
        \/ Guard(r) \/ Confirm(r) \/ OpenFile(r) \/ Upload(r) \/ OpenCopy(r) \/ Write(r)
        \/ StatDelete(r) \/ RemoveAll(r) \/ ClearMove(r) \/ Rename(r) \/ Mkdir(r)

Spec == Init /\ [][Next]_vars
-----------------------------------------------------------------------------
\* Every variable has its type.
TypeOK ==
    /\ dir \in [Targets -> Inodes \cup {0}] /\ last \in Nat
    /\ \A i \in Inodes : data[i].ver \in 0..last /\ data[i].by \subseteq Requests
    /\ \A r \in Requests :
          q[r].pc \in {"idle", "guard", "confirm", "open", "write", "ok", "refused", "locked",
                       "failed"}
    /\ holder \in [DOMAIN holder -> Requests \cup {Nobody}]
    /\ raced \subseteq Requests /\ touched \subseteq Requests \X Targets

(* No lost update: a request that named a version replaced, moved or       *)
(* removed that very version, whatever other If-Match requests ran at the  *)
(* same time (guardIfMatch holds the stripe until the method is done).     *)
(* Left out: a request without If-Match, of the API, or onto the target    *)
(* from elsewhere that came between, none of which takes the stripe.       *)
NoLostUpdate ==
    \A r \in Requests \ raced :
        q[r].pc = "ok" /\ q[r].cond = "first" /\ q[r].op # "mkcol" => q[r].saw = 1

(* A PUT with If-None-Match: * never replaces a file, not even one that    *)
(* appeared while it was on its way (O_EXCL in shareFS.OpenFile).          *)
CreatedNew == \A r \in Requests : q[r].pc = "ok" /\ q[r].cond = "new" => q[r].saw = 0

(* No file mixes the bytes of two WebDAV methods of one namespace: they    *)
(* share a lock system (lockSystem).  Uploads, and requests that reach the *)
(* file through another namespace, are not kept apart.                     *)
NotMixed ==
    \A i \in Inodes : \A r, s \in data[i].by :
        r # s /\ q[r].key = q[s].key => {q[r].op, q[s].op} \cap Api # {}

(* A basic request changes nothing outside the namespace of its user, and  *)
(* nothing is changed through a symbolic link (resolveInsideRoot).         *)
Confined ==
    \A c \in touched : IsPrefix(Root(q[c[1]].key), c[2]) /\ ~Linked(c[2])
=============================================================================
