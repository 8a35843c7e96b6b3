------------------------------ MODULE FsObject ------------------------------
(***************************************************************************)
(* One key of the local-directory object store: processes that put it by   *)
(* create, compare-and-swap, overwrite and multipart upload, each in       *)
(* several steps over the object file, its metadata sidecar and the        *)
(* store's lock file, and crash between any two of them.                   *)
(*                                                                         *)
(* Sources: plugins/object-store/rust/src/{core,fs,upload}.rs.             *)
(*                                                                         *)
(* The object file is given by the bodies it has held: version n is        *)
(* bodies[n], and n stands for its ETag (inode, time and size of the file  *)
(* renamed into place).  A digest is the body it digests; contents are of  *)
(* one size, so that the comparison of sizes settles nothing by itself.    *)
(***************************************************************************)
EXTENDS Naturals, Sequences

CONSTANTS
    Procs,      \* processes on the host
    Bodies,     \* contents
    Versions,   \* ETags a caller may ask for
    Requests,   \* the puts callers make
    None        \* no digest, no lock holder, no request

\* digest: content_sha256 of the options, declared by the caller.
Request == [mode : {"create", "update", "overwrite", "multipart"},
            body : Bodies, expect : Versions, digest : Bodies \cup {None}]

ASSUME FsAssumption ==
    /\ None \notin Bodies /\ None \notin Procs
    /\ Versions \subseteq Nat \ {0}
    /\ Requests \subseteq Request

VARIABLES
    bodies,     \* the object file
    sidecar,    \* {root}/.rh/meta/{key}.json: the version it describes, a digest
    lock,       \* {root}/.rh/lock: the process holding the flock
    pc,         \* the next step of each process
    req,        \* its put
    since,      \* the version when the put began (a history variable)
    mine,       \* the version it wrote
    head,       \* the version a reconciling create found
    reply       \* what the last put answered

vars == <<bodies, sidecar, lock, pc, req, since, mine, head, reply>>

Current == Len(bodies)

Init ==
    /\ bodies = <<>>
    /\ sidecar = [version |-> 0, digest |-> None]
    /\ lock = None
    /\ pc = [p \in Procs |-> "idle"]
    /\ req = [p \in Procs |-> None]
    /\ since = [p \in Procs |-> 0]
    /\ mine = [p \in Procs |-> 0]
    /\ head = [p \in Procs |-> 0]
    /\ reply = [p \in Procs |-> None]

Goto(p, where) == pc' = [pc EXCEPT ![p] = where]

\* The call returns, and with it every guard it holds is dropped.
Finish(p, kind, version) ==
    /\ Goto(p, "idle")
    /\ mine' = [mine EXCEPT ![p] = 0]
    /\ head' = [head EXCEPT ![p] = 0]
    /\ since' = [since EXCEPT ![p] = 0]
    /\ reply' = [reply EXCEPT ![p] = [kind |-> kind, version |-> version]]
    /\ lock' = IF lock = p THEN None ELSE lock
    /\ UNCHANGED req

\* put_inner, up to the backend; for a multipart upload, its parts.
Begin(p, r) ==
    /\ pc[p] = "idle"
    /\ req' = [req EXCEPT ![p] = r]
    /\ since' = [since EXCEPT ![p] = Current]
    /\ reply' = [reply EXCEPT ![p] = None]
    /\ Goto(p, IF r.digest \notin {None, r.body} THEN "reject"
               ELSE IF r.mode = "create" THEN "link" ELSE "lock")
    /\ UNCHANGED <<bodies, sidecar, lock, mine, head>>

\* A declared digest that the body does not have.
Reject(p) ==
    /\ pc[p] = "reject"
    /\ Finish(p, "error", 0)
    /\ UNCHANGED <<bodies, sidecar>>

\* Mutant: the lock is taken shared, and keeps nobody out.
TakeLock_Shared(p) ==
    /\ pc[p] = "lock"
    /\ Goto(p, CASE req[p].mode = "create" -> "repair"
                 [] req[p].mode = "update" -> "compare"
                 [] OTHER -> "write")
    /\ UNCHANGED <<bodies, sidecar, lock, req, since, mine, head, reply>>

TakeLock(p) ==
    /\ pc[p] = "lock"
    /\ lock = None
    /\ lock' = p
    /\ Goto(p, CASE req[p].mode = "create" -> "repair"
                 [] req[p].mode = "update" -> "compare"
                 [] OTHER -> "write")
    /\ UNCHANGED <<bodies, sidecar, req, since, mine, head, reply>>

Compare(p) ==
    /\ pc[p] = "compare"
    /\ IF Current # req[p].expect
       THEN Finish(p, "refused", 0)
       ELSE /\ Goto(p, "write")
            /\ UNCHANGED <<lock, req, since, mine, head, reply>>
    /\ UNCHANGED <<bodies, sidecar>>

Store(p) ==
    /\ bodies' = Append(bodies, req[p].body)
    /\ mine' = [mine EXCEPT ![p] = Current + 1]
    /\ Goto(p, "sidecar")

\* The staged file is renamed over the object.
Write(p) ==
    /\ pc[p] = "write"
    /\ Store(p)
    /\ UNCHANGED <<sidecar, lock, req, since, head, reply>>

\* PutMode::Create hard-links the staged file, outside the lock.
Link(p) ==
    /\ pc[p] = "link"
    /\ IF Current = 0
       THEN Store(p) /\ UNCHANGED head
       ELSE /\ Goto(p, "head")
            /\ UNCHANGED <<bodies, mine, head>>
    /\ UNCHANGED <<sidecar, lock, req, since, reply>>

\* Mutant: the length goes where the digest belongs.
StoredDigest_Length(r) == 1

\* The digest the adapter stores: a multipart upload has only a declared one.
StoredDigest(r) == IF r.mode = "multipart" THEN r.digest ELSE r.body

WriteSidecar(p) ==
    /\ pc[p] = "sidecar"
    /\ sidecar' = [version |-> mine[p], digest |-> StoredDigest(req[p])]
    /\ Finish(p, "ok", mine[p])
    /\ UNCHANGED bodies

\* The sidecar could not be written: the put fails, with the object in place.
SidecarFails(p) ==
    /\ pc[p] = "sidecar"
    /\ Finish(p, "error", 0)
    /\ UNCHANGED <<bodies, sidecar>>

\* reconcile_existing: the version found, then the digest recorded for it.
HeadObject(p) ==
    /\ pc[p] = "head"
    /\ head' = [head EXCEPT ![p] = Current]
    /\ Goto(p, "metadata")
    /\ UNCHANGED <<bodies, sidecar, lock, req, since, mine, reply>>

\* A sidecar of another version is ignored, as is one without a digest.
Recorded(version) == IF sidecar.version = version THEN sidecar.digest ELSE None

Metadata(p) ==
    /\ pc[p] = "metadata"
    /\ LET recorded == Recorded(head[p])
       IN  CASE recorded = None ->
                    /\ Goto(p, "body")
                    /\ UNCHANGED <<lock, req, since, mine, head, reply>>
             [] recorded = req[p].body -> Finish(p, "same", head[p])
             [] OTHER -> Finish(p, "refused", 0)
    /\ UNCHANGED <<bodies, sidecar>>

\* No digest is recorded: the stored body, of whichever version it now is.
ReadBody(p) ==
    /\ pc[p] = "body"
    /\ IF bodies[Current] = req[p].body
       THEN Goto(p, "lock") /\ UNCHANGED <<lock, req, since, mine, head, reply>>
       ELSE Finish(p, "refused", 0)
    /\ UNCHANGED <<bodies, sidecar>>

\* Mutant: the version that was verified is not checked again under the lock.
Repair_Unchecked(p) ==
    /\ pc[p] = "repair"
    /\ sidecar' = [version |-> Current, digest |-> req[p].body]
    /\ Finish(p, "same", head[p])
    /\ UNCHANGED bodies

\* Mutant: the version acknowledged is the one there now, not the one compared.
Repair_AcksCurrent(p) ==
    /\ pc[p] = "repair"
    /\ sidecar' = IF head[p] = Current
                  THEN [version |-> head[p], digest |-> req[p].body]
                  ELSE sidecar
    /\ Finish(p, "same", Current)
    /\ UNCHANGED bodies

\* repair_metadata, only if the object is still the version found.
Repair(p) ==
    /\ pc[p] = "repair"
    /\ sidecar' = IF head[p] = Current
                  THEN [version |-> head[p], digest |-> req[p].body]
                  ELSE sidecar
    /\ Finish(p, "same", head[p])
    /\ UNCHANGED bodies

\* The process dies and takes its flock with it.
Crash(p) ==
    /\ pc[p] # "idle"
    /\ Finish(p, "error", 0)
    /\ UNCHANGED <<bodies, sidecar>>

Step(p) ==
    \/ Reject(p) \/ TakeLock(p) \/ Compare(p) \/ Write(p) \/ Link(p)
    \/ WriteSidecar(p) \/ SidecarFails(p)
    \/ HeadObject(p) \/ Metadata(p) \/ ReadBody(p) \/ Repair(p)

Next == \E p \in Procs : (\E r \in Requests : Begin(p, r)) \/ Step(p) \/ Crash(p)

Spec == Init /\ [][Next]_vars

-----------------------------------------------------------------------------
Labels == {"idle", "reject", "link", "lock", "compare", "write", "sidecar",
           "head", "metadata", "body", "repair"}

Reply == [kind : {"ok", "same", "refused", "error"}, version : Nat]

\* Every variable holds a value of its kind.
TypeOK ==
    /\ bodies \in Seq(Bodies)
    /\ sidecar \in [version : Nat, digest : Bodies \cup {None}]
    /\ lock \in Procs \cup {None}
    /\ pc \in [Procs -> Labels]
    /\ req \in [Procs -> Requests \cup {None}]
    /\ since \in [Procs -> Nat] /\ mine \in [Procs -> Nat] /\ head \in [Procs -> Nat]
    /\ reply \in [Procs -> Reply \cup {None}]

\* A sidecar that is trusted tells the truth: the digest it records for the
\* current version is the digest of the bytes stored, however puts of several
\* processes, late sidecars of creates, repairs and crashes fell (fs.rs:
\* read_metadata, repair_metadata).
SidecarTruth == Recorded(Current) \in {None, IF Current = 0 THEN None ELSE bodies[Current]}

\* A put that was acknowledged with a version may use it for its next
\* compare-and-swap: while that version is current, it is the content the put
\* sent, so the swap discards nothing the caller has not seen (core.rs: put_inner,
\* reconcile_existing, which pairs a version with a body read after it).
AckNamesContent ==
    \A p \in Procs :
        /\ reply[p] # None
        /\ reply[p].kind \in {"ok", "same"}
        /\ reply[p].version = Current
        => Current # 0 /\ bodies[Current] = req[p].body

-----------------------------------------------------------------------------
(* The promise to callers.  A multipart upload is an overwrite; its parts   *)
(* and the lock, the sidecar and the reconciling reads do not show.         *)

Promised(r) == [mode |-> IF r.mode = "multipart" THEN "overwrite" ELSE r.mode,
                body |-> r.body, expect |-> r.expect]

CallOf(p) ==
    IF pc[p] = "idle" THEN None
    ELSE [req |-> Promised(req[p]), since |-> since[p], done |-> mine[p]]

Contract == INSTANCE CasObject WITH call <- [p \in Procs |-> CallOf(p)], answer <- reply

\* None stands for no call.
ASSUME NoCallAssumption == None \notin [req : Contract!Request, since : Nat, done : Nat]

\* The local store implements the contract of ObjectStore::put: every put takes
\* effect at one instant at which its precondition holds, or is refused for a
\* reason that held during the call (core.rs: put_inner; fs.rs: put_object).
Refines == Contract!Spec
=============================================================================
