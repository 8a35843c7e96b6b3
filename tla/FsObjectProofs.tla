--------------------------- MODULE FsObjectProofs ---------------------------
(***************************************************************************)
(* For any processes, contents and puts: the local store implements the    *)
(* contract of ObjectStore::put, its sidecars are truthful and the version *)
(* it acknowledges names the content that was sent.                        *)
(*                                                                         *)
(* The inductive invariant says what a process relies on between two of    *)
(* its steps: who holds the lock, that a compare still stands when its     *)
(* write comes, and from which versions a reconciling create has read.     *)
(***************************************************************************)
EXTENDS FsObject, SequenceTheorems, TLAPS

\* Between its call and its answer a put has a request, and no answer yet.
InCall(p) ==
    pc[p] # "idle" =>
        /\ req[p] \in Requests
        /\ reply[p] = None
        /\ since[p] <= Current

\* The steps belong to their modes.
Modal(p) ==
    /\ pc[p] \in {"link", "head", "metadata", "body", "repair"} => req[p].mode = "create"
    /\ pc[p] = "compare" => req[p].mode = "update"
    /\ pc[p] = "write" => req[p].mode \in {"update", "overwrite", "multipart"}
    /\ pc[p] \notin {"idle", "reject"} => req[p].digest \in {None, req[p].body}

Locked(p) ==
    \/ pc[p] \in {"compare", "write", "repair"}
    \/ pc[p] = "sidecar" /\ req[p].mode # "create"

\* A compare that succeeded still stands when the object is written.
Compared(p) == pc[p] = "write" /\ req[p].mode = "update" => Current = req[p].expect

\* The version a put wrote is its own.
Wrote(p) ==
    /\ pc[p] # "sidecar" => mine[p] = 0
    /\ pc[p] = "sidecar" =>
        /\ mine[p] \in 1..Current
        /\ bodies[mine[p]] = req[p].body

Reconciling(p) ==
    pc[p] \in {"metadata", "body", "repair"} \/ (pc[p] = "lock" /\ req[p].mode = "create")

\* A reconciling create found a version of its call, and repairs after having
\* read its own content in that version or a later one.
Found(p) ==
    /\ pc[p] = "head" => Current # 0
    /\ Reconciling(p) => head[p] \in since[p]..Current /\ head[p] # 0
    /\ Reconciling(p) /\ pc[p] \in {"lock", "repair"} =>
        \E n \in head[p]..Current : bodies[n] = req[p].body

Acked(p) ==
    reply[p] # None /\ reply[p].kind \in {"ok", "same"} =>
        /\ reply[p].version \in 1..Current
        /\ reply[p].version = Current => bodies[Current] = req[p].body

SidecarInv ==
    /\ sidecar.version \in 0..Current
    /\ sidecar.version = 0 => sidecar.digest = None
    /\ sidecar.version # 0 => sidecar.digest \in {None, bodies[sidecar.version]}

PerProc(p) ==
    InCall(p) /\ Modal(p) /\ (Locked(p) => lock = p) /\ Compared(p) /\ Wrote(p)
        /\ Found(p) /\ Acked(p)

IInv == TypeOK /\ SidecarInv /\ \A p \in Procs : PerProc(p)

-----------------------------------------------------------------------------
\* What appending a body does to the versions of the object.
LEMMA Appended ==
    ASSUME TypeOK, NEW b \in Bodies, bodies' = Append(bodies, b)
    PROVE  /\ bodies' \in Seq(Bodies)
           /\ Current \in Nat
           /\ Current' = Current + 1
           /\ bodies'[Current + 1] = b
           /\ \A n \in 1..Current : bodies'[n] = bodies[n]
  BY DEF TypeOK, Current

LEMMA CurrentNat == ASSUME TypeOK PROVE Current \in Nat /\ \A n \in 1..Current : bodies[n] \in Bodies
  BY DEF TypeOK, Current

\* The parts of a request.
LEMMA RequestParts ==
    ASSUME NEW r \in Requests
    PROVE  /\ r.mode \in {"create", "update", "overwrite", "multipart"}
           /\ r.body \in Bodies
           /\ r.body # None
           /\ r.expect \in Nat \ {0}
           /\ r.digest \in Bodies \cup {None}
  BY FsAssumption DEF Request

\* Before any put everything is as the invariant says.
LEMMA InvInit == Init => IInv
  BY FsAssumption, CurrentNat DEF Init, IInv, TypeOK, SidecarInv, PerProc, InCall, Modal, Locked,
     Compared, Wrote, Reconciling, Found, Acked, Labels, Current, Reply

\* A process that has not moved keeps its part while the object is untouched
\* and nobody takes the lock from it.
LEMMA Bystander ==
    ASSUME IInv, NEW q \in Procs, bodies' = bodies,
           pc'[q] = pc[q], req'[q] = req[q], since'[q] = since[q], mine'[q] = mine[q],
           head'[q] = head[q], reply'[q] = reply[q], lock = q => lock' = q
    PROVE  PerProc(q)'
  BY DEF IInv, PerProc, InCall, Modal, Locked, Compared, Wrote, Reconciling, Found, Acked, Current

\* ... and while another process writes the object.
LEMMA BystanderOfStore ==
    ASSUME IInv, NEW q \in Procs, NEW b \in Bodies, bodies' = Append(bodies, b),
           pc'[q] = pc[q], req'[q] = req[q], since'[q] = since[q], mine'[q] = mine[q],
           head'[q] = head[q], reply'[q] = reply[q], lock' = lock,
           ~(pc[q] = "write" /\ req[q].mode = "update")
    PROVE  PerProc(q)'
  <1>1. /\ Current \in Nat /\ Current' = Current + 1
        /\ \A n \in 1..Current : bodies'[n] = bodies[n]
    BY Appended DEF IInv
  <1>2. /\ since[q] \in Nat /\ mine[q] \in Nat /\ head[q] \in Nat
    BY DEF IInv, TypeOK
  <1>3. InCall(q)' /\ Modal(q)' /\ (Locked(q)' => lock' = q) /\ Compared(q)'
    BY <1>1, <1>2 DEF IInv, PerProc, InCall, Modal, Locked, Compared
  <1>4. Wrote(q)'
    <2>1. CASE pc[q] # "sidecar"
      BY <2>1 DEF IInv, PerProc, Wrote
    <2>2. CASE pc[q] = "sidecar"
      <3>1. mine[q] \in 1..Current /\ bodies[mine[q]] = req[q].body
        BY <2>2 DEF IInv, PerProc, Wrote
      <3>2. mine[q] \in 1..Current' /\ bodies'[mine[q]] = bodies[mine[q]]
        BY <3>1, <1>1 DEF IInv, TypeOK, Current
      <3> QED  BY <2>2, <3>1, <3>2 DEF Wrote
    <2> QED  BY <2>1, <2>2
  <1>5. Found(q)'
    <2>1. Reconciling(q)' = Reconciling(q)
      BY DEF Reconciling
    <2>2. pc'[q] = "head" => Current' # 0
      BY <1>1
    <2>3. Reconciling(q) => head[q] \in since[q]..Current' /\ head[q] # 0
      BY <1>1, <1>2 DEF IInv, PerProc, Found
    <2>4. ASSUME Reconciling(q), pc[q] \in {"lock", "repair"}
          PROVE  \E n \in head[q]..Current' : bodies'[n] = req[q].body
      <3>1. PICK n \in head[q]..Current : bodies[n] = req[q].body
        BY <2>4 DEF IInv, PerProc, Found
      <3>2. n \in 1..Current
        BY <2>4, <1>1, <1>2 DEF IInv, PerProc, Found
      <3>3. n \in head[q]..Current' /\ bodies'[n] = bodies[n]
        BY <3>2, <1>1, <1>2 DEF IInv, TypeOK, Current
      <3> QED  BY <3>1, <3>3
    <2> QED  BY <2>1, <2>2, <2>3, <2>4 DEF Found
  <1>6. Acked(q)'
    <2> SUFFICES ASSUME reply[q] # None, reply[q].kind \in {"ok", "same"}
                 PROVE  reply[q].version \in 1..Current' /\ reply[q].version # Current'
      BY DEF Acked
    <2>1. reply[q].version \in 1..Current
      BY DEF IInv, PerProc, Acked
    <2> QED  BY <2>1, <1>1
  <1> QED  BY <1>3, <1>4, <1>5, <1>6 DEF PerProc
\* An action of one process that leaves the object alone keeps the invariant if
\* it keeps the types, the sidecar and the process's own part.
LEMMA OwnStep ==
    ASSUME IInv, NEW p \in Procs, bodies' = bodies, TypeOK', SidecarInv', PerProc(p)',
           \A q \in Procs \ {p} :
               /\ pc'[q] = pc[q] /\ req'[q] = req[q] /\ since'[q] = since[q]
               /\ mine'[q] = mine[q] /\ head'[q] = head[q] /\ reply'[q] = reply[q]
               /\ lock = q => lock' = q
    PROVE  IInv'
  <1>1. ASSUME NEW q \in Procs \ {p} PROVE PerProc(q)'
    BY <1>1, Bystander
  <1> QED  BY <1>1 DEF IInv

\* What a call that returns leaves behind.
LEMMA Finished ==
    ASSUME IInv, NEW p \in Procs, NEW kind \in {"ok", "same", "refused", "error"},
           NEW version \in Nat, Finish(p, kind, version), bodies' = bodies,
           sidecar' \in [version : Nat, digest : Bodies \cup {None}], SidecarInv',
           kind \in {"ok", "same"} =>
               /\ version \in 1..Current
               /\ version = Current => bodies[Current] = req[p].body
    PROVE  IInv'
  <1>1. TypeOK'
    BY DEF IInv, TypeOK, Finish, Goto, Labels, Reply
  <1>2. /\ pc'[p] = "idle" /\ mine'[p] = 0
        /\ reply'[p] = [kind |-> kind, version |-> version]
        /\ req'[p] = req[p]
    BY DEF IInv, TypeOK, Finish, Goto
  <1>3. PerProc(p)'
    BY <1>2 DEF PerProc, InCall, Modal, Locked, Compared, Wrote, Reconciling, Found, Acked, Current
  <1>4. \A q \in Procs \ {p} :
            /\ pc'[q] = pc[q] /\ req'[q] = req[q] /\ since'[q] = since[q]
            /\ mine'[q] = mine[q] /\ head'[q] = head[q] /\ reply'[q] = reply[q]
            /\ lock = q => lock' = q
    BY DEF IInv, TypeOK, Finish, Goto
  <1> QED  BY <1>1, <1>3, <1>4, OwnStep

\* What a process that goes on to another step leaves alone.
LEMMA Moved ==
    ASSUME IInv, NEW p \in Procs, NEW where \in Labels, Goto(p, where), where # "idle",
           pc[p] # "idle", bodies' = bodies, sidecar' = sidecar, UNCHANGED <<req, since, reply, mine>>,
           where # "sidecar", pc[p] # "sidecar",
           head' \in [Procs -> Nat], lock' \in Procs \cup {None},
           \A q \in Procs \ {p} : head'[q] = head[q] /\ (lock = q => lock' = q),
           (Modal(p) /\ (Locked(p) => lock = p) /\ Compared(p) /\ Found(p))'
    PROVE  IInv'
  <1>1. TypeOK'
    BY DEF IInv, TypeOK, Goto
  <1>2. pc'[p] = where
    BY DEF IInv, TypeOK, Goto
  <1>3. SidecarInv'
    BY DEF IInv, SidecarInv, Current
  <1>4. PerProc(p)'
    BY <1>2 DEF IInv, PerProc, InCall, Wrote, Acked, Current
  <1>5. \A q \in Procs \ {p} : pc'[q] = pc[q]
    BY DEF IInv, TypeOK, Goto
  <1> QED  BY <1>1, <1>3, <1>4, <1>5, OwnStep

LEMMA BeginStep == ASSUME IInv, NEW p \in Procs, NEW r \in Requests, Begin(p, r) PROVE IInv'
  <1>0. /\ r.mode \in {"create", "update", "overwrite", "multipart"}
        /\ Current \in Nat
    BY RequestParts, CurrentNat DEF IInv
  <1>1. TypeOK'
    BY <1>0 DEF IInv, TypeOK, Begin, Goto, Labels
  <1>2. SidecarInv'
    BY DEF IInv, SidecarInv, Begin, Current
  <1>3. /\ pc'[p] \in {"reject", "link", "lock"}
        /\ pc'[p] = "link" => r.mode = "create"
        /\ pc'[p] = "lock" => r.mode # "create"
        /\ pc'[p] # "reject" => r.digest \in {None, r.body}
        /\ req'[p] = r /\ since'[p] = Current /\ reply'[p] = None /\ mine'[p] = mine[p]
        /\ bodies' = bodies
    BY DEF IInv, TypeOK, Begin, Goto
  <1>4. mine[p] = 0
    BY DEF IInv, PerProc, Wrote, Begin
  <1>5. PerProc(p)'
    BY <1>0, <1>3, <1>4 DEF PerProc, InCall, Modal, Locked, Compared, Wrote, Reconciling, Found, Acked, Current
  <1>6. \A q \in Procs \ {p} :
            /\ pc'[q] = pc[q] /\ req'[q] = req[q] /\ since'[q] = since[q]
            /\ mine'[q] = mine[q] /\ head'[q] = head[q] /\ reply'[q] = reply[q]
            /\ lock = q => lock' = q
    BY DEF IInv, TypeOK, Begin, Goto
  <1> QED  BY <1>1, <1>2, <1>3, <1>5, <1>6, OwnStep

\* Steps that end the call without touching the store.
LEMMA ErrorStep ==
    ASSUME IInv, NEW p \in Procs, Finish(p, "error", 0), UNCHANGED <<bodies, sidecar>>
    PROVE  IInv'
  <1>1. SidecarInv' /\ sidecar' \in [version : Nat, digest : Bodies \cup {None}]
    BY DEF IInv, TypeOK, SidecarInv, Current
  <1> QED  BY <1>1, Finished

LEMMA RefusedStep ==
    ASSUME IInv, NEW p \in Procs, Finish(p, "refused", 0), UNCHANGED <<bodies, sidecar>>
    PROVE  IInv'
  <1>1. SidecarInv' /\ sidecar' \in [version : Nat, digest : Bodies \cup {None}]
    BY DEF IInv, TypeOK, SidecarInv, Current
  <1> QED  BY <1>1, Finished

LEMMA TakeLockStep == ASSUME IInv, NEW p \in Procs, TakeLock(p) PROVE IInv'
  <1>1. req[p] \in Requests
    BY DEF IInv, PerProc, InCall, TakeLock
  <1> DEFINE where == CASE req[p].mode = "create" -> "repair"
                        [] req[p].mode = "update" -> "compare"
                        [] OTHER -> "write"
  <1>2. /\ where \in Labels /\ where \notin {"idle", "sidecar"}
        /\ where = "repair" => req[p].mode = "create"
        /\ where = "compare" => req[p].mode = "update"
        /\ where = "write" => req[p].mode \in {"overwrite", "multipart"}
        /\ where \in {"repair", "compare", "write"}
    BY <1>1, RequestParts DEF Labels
  <1>3. Goto(p, where)
    BY DEF TakeLock
  <1>4. pc'[p] = where /\ lock' = p
    BY DEF IInv, TypeOK, TakeLock, Goto
  <1>5. (Modal(p) /\ (Locked(p) => lock = p) /\ Compared(p))'
    BY <1>2, <1>4 DEF IInv, PerProc, TakeLock, Modal, Locked, Compared
  <1>6. Found(p)'
    BY <1>2, <1>4 DEF IInv, PerProc, TakeLock, Reconciling, Found, Current
  <1>7. /\ head' \in [Procs -> Nat] /\ lock' \in Procs \cup {None}
        /\ \A q \in Procs \ {p} : head'[q] = head[q] /\ (lock = q => lock' = q)
    BY FsAssumption DEF IInv, TypeOK, TakeLock
  <1> HIDE DEF where
  <1> QED  BY <1>2, <1>3, <1>5, <1>6, <1>7, Moved DEF TakeLock

LEMMA CompareStep == ASSUME IInv, NEW p \in Procs, Compare(p) PROVE IInv'
  <1>1. CASE Current # req[p].expect
    BY <1>1, RefusedStep DEF Compare
  <1>2. CASE Current = req[p].expect
    <2>1. pc'[p] = "write" /\ Goto(p, "write") /\ UNCHANGED <<bodies, sidecar, lock, req, since, mine, head, reply>>
      BY <1>2 DEF IInv, TypeOK, Compare, Goto
    <2>2. (Modal(p) /\ (Locked(p) => lock = p) /\ Compared(p) /\ Found(p))'
      BY <1>2, <2>1 DEF IInv, PerProc, Compare, Modal, Locked, Compared, Reconciling, Found, Current
    <2> QED  BY <2>1, <2>2, Moved DEF Compare, Labels, IInv, TypeOK
  <1> QED  BY <1>1, <1>2
\* The object is written: nobody else stands between a compare and its write.
LEMMA StoreStep ==
    ASSUME IInv, NEW p \in Procs, pc[p] \in {"write", "link"}, Store(p),
           UNCHANGED <<sidecar, lock, req, since, head, reply>>,
           pc[p] = "link" => Current = 0
    PROVE  IInv'
  <1>1. req[p] \in Requests /\ req[p].body \in Bodies /\ reply[p] = None
    BY RequestParts DEF IInv, PerProc, InCall
  <1>2. /\ bodies' \in Seq(Bodies)
        /\ Current \in Nat
        /\ Current' = Current + 1
        /\ bodies'[Current + 1] = req[p].body
        /\ \A n \in 1..Current : bodies'[n] = bodies[n]
    BY <1>1, Appended DEF IInv, Store
  <1>3. /\ pc' \in [Procs -> Labels] /\ mine' \in [Procs -> Nat]
        /\ pc'[p] = "sidecar" /\ mine'[p] = Current + 1
        /\ \A q \in Procs \ {p} : pc'[q] = pc[q] /\ mine'[q] = mine[q]
    BY <1>2 DEF IInv, TypeOK, Store, Goto, Labels
  <1>4. TypeOK'
    BY <1>2, <1>3 DEF IInv, TypeOK
  <1>5. SidecarInv'
    <2>1. sidecar.version \in 0..Current
      BY DEF IInv, SidecarInv
    <2>2. sidecar.version # 0 => bodies'[sidecar.version] = bodies[sidecar.version]
      BY <2>1, <1>2 DEF IInv, TypeOK, Current
    <2>3. sidecar.version \in 0..Current'
      BY <2>1, <1>2
    <2> QED  BY <2>1, <2>2, <2>3 DEF IInv, SidecarInv
  <1>6. PerProc(p)'
    <2>1. mine'[p] \in 1..Current' /\ bodies'[mine'[p]] = req'[p].body
      BY <1>2, <1>3
    <2>2. since[p] <= Current'
      <3>1. since[p] \in Nat /\ since[p] <= Current
        BY DEF IInv, TypeOK, PerProc, InCall
      <3> QED  BY <3>1, <1>2
    <2>3. lock = p \/ req[p].mode = "create"
      BY DEF IInv, PerProc, Locked, Modal
    <2> QED  BY <1>1, <1>3, <2>1, <2>2, <2>3
             DEF IInv, PerProc, InCall, Modal, Locked, Compared, Wrote, Reconciling, Found, Acked
  <1>7. ASSUME NEW q \in Procs \ {p} PROVE PerProc(q)'
    <2>1. ~(pc[q] = "write" /\ req[q].mode = "update")
      <3>1. CASE pc[p] = "write"
        BY <3>1 DEF IInv, PerProc, Locked
      <3>2. CASE pc[p] = "link"
        <4> SUFFICES ASSUME pc[q] = "write", req[q].mode = "update" PROVE FALSE
          OBVIOUS
        <4>1. req[q].expect # 0
          BY RequestParts DEF IInv, PerProc, InCall
        <4> QED  BY <3>2, <4>1 DEF IInv, PerProc, Compared
      <3> QED  BY <3>1, <3>2
    <2> QED  BY <1>1, <1>3, <2>1, BystanderOfStore DEF Store
  <1> QED  BY <1>4, <1>5, <1>6, <1>7 DEF IInv

LEMMA WriteStep == ASSUME IInv, NEW p \in Procs, Write(p) PROVE IInv'
  BY StoreStep DEF Write

LEMMA LinkStep == ASSUME IInv, NEW p \in Procs, Link(p) PROVE IInv'
  <1>1. CASE Current = 0
    BY <1>1, StoreStep DEF Link
  <1>2. CASE Current # 0
    <2>1. pc'[p] = "head" /\ Goto(p, "head") /\ UNCHANGED <<bodies, sidecar, lock, req, since, mine, head, reply>>
      BY <1>2 DEF IInv, TypeOK, Link, Goto
    <2>2. (Modal(p) /\ (Locked(p) => lock = p) /\ Compared(p) /\ Found(p))'
      BY <1>2, <2>1 DEF IInv, PerProc, Link, Modal, Locked, Compared, Reconciling, Found, Current
    <2> QED  BY <2>1, <2>2, Moved DEF Link, Labels, IInv, TypeOK
  <1> QED  BY <1>1, <1>2

LEMMA WriteSidecarStep == ASSUME IInv, NEW p \in Procs, WriteSidecar(p) PROVE IInv'
  <1>1. /\ mine[p] \in 1..Current /\ bodies[mine[p]] = req[p].body
        /\ Current \in Nat /\ mine[p] \in Nat
    BY CurrentNat DEF IInv, TypeOK, PerProc, Wrote, WriteSidecar
  <1>2. StoredDigest(req[p]) \in {None, req[p].body} /\ req[p].body \in Bodies
    BY RequestParts DEF IInv, PerProc, InCall, Modal, WriteSidecar, StoredDigest
  <1>3. sidecar' = [version |-> mine[p], digest |-> StoredDigest(req[p])]
    BY DEF WriteSidecar
  <1>4. sidecar' \in [version : Nat, digest : Bodies \cup {None}]
    BY <1>1, <1>2, <1>3
  <1>5. SidecarInv'
    BY <1>1, <1>2, <1>3 DEF SidecarInv, WriteSidecar, Current
  <1> QED  BY <1>1, <1>4, <1>5, Finished DEF WriteSidecar

LEMMA HeadStep == ASSUME IInv, NEW p \in Procs, HeadObject(p) PROVE IInv'
  <1>1. Current \in Nat /\ Current # 0 /\ since[p] \in Nat /\ since[p] <= Current
    BY CurrentNat DEF IInv, TypeOK, PerProc, InCall, Found, HeadObject
  <1>2. /\ pc'[p] = "metadata" /\ Goto(p, "metadata") /\ head'[p] = Current
        /\ UNCHANGED <<bodies, sidecar, lock, req, since, mine, reply>>
    BY DEF IInv, TypeOK, HeadObject, Goto
  <1>3. (Modal(p) /\ (Locked(p) => lock = p) /\ Compared(p) /\ Found(p))'
    BY <1>1, <1>2 DEF IInv, PerProc, HeadObject, Modal, Locked, Compared, Reconciling, Found, Current
  <1>4. /\ head' \in [Procs -> Nat] /\ lock' \in Procs \cup {None}
        /\ \A q \in Procs \ {p} : head'[q] = head[q] /\ (lock = q => lock' = q)
    BY <1>1 DEF IInv, TypeOK, HeadObject
  <1> QED  BY <1>2, <1>3, <1>4, Moved DEF HeadObject, Labels

\* The digest recorded for a version of the object is that version's.
LEMMA RecordedTrue ==
    ASSUME IInv, NEW n \in 1..Current
    PROVE  Recorded(n) \in {None, bodies[n]}
  BY CurrentNat DEF IInv, SidecarInv, Recorded

LEMMA MetadataStep == ASSUME IInv, NEW p \in Procs, Metadata(p) PROVE IInv'
  <1>1. /\ head[p] \in 1..Current /\ head[p] \in since[p]..Current /\ Current \in Nat
        /\ head[p] \in Nat
    BY CurrentNat DEF IInv, TypeOK, PerProc, Found, Reconciling, Metadata
  <1>2. Recorded(head[p]) \in {None, bodies[head[p]]}
    BY <1>1, RecordedTrue
  <1>3. req[p].body # None
    BY RequestParts DEF IInv, PerProc, InCall, Metadata
  <1>4. CASE Recorded(head[p]) = None
    <2>1. pc'[p] = "body" /\ Goto(p, "body") /\ UNCHANGED <<bodies, sidecar, lock, req, since, mine, head, reply>>
      <3>1. Goto(p, "body") /\ UNCHANGED <<bodies, sidecar, lock, req, since, mine, head, reply>>
        BY <1>3, <1>4 DEF Metadata
      <3> QED  BY <3>1 DEF IInv, TypeOK, Goto
    <2>2. (Modal(p) /\ (Locked(p) => lock = p) /\ Compared(p) /\ Found(p))'
      BY <2>1 DEF IInv, PerProc, Metadata, Modal, Locked, Compared, Reconciling, Found, Current
    <2> QED  BY <2>1, <2>2, Moved DEF Metadata, Labels, IInv, TypeOK
  <1>5. CASE Recorded(head[p]) = req[p].body
    <2>1. Finish(p, "same", head[p]) /\ UNCHANGED <<bodies, sidecar>>
      BY <1>3, <1>5 DEF Metadata
    <2>2. SidecarInv' /\ sidecar' \in [version : Nat, digest : Bodies \cup {None}]
      BY <2>1 DEF IInv, TypeOK, SidecarInv, Current
    <2>3. head[p] = Current => bodies[Current] = req[p].body
      BY <1>2, <1>3, <1>5
    <2> QED  BY <1>1, <2>1, <2>2, <2>3, Finished
  <1>6. CASE Recorded(head[p]) \notin {None, req[p].body}
    BY <1>6, RefusedStep DEF Metadata
  <1> QED  BY <1>4, <1>5, <1>6

LEMMA ReadBodyStep == ASSUME IInv, NEW p \in Procs, ReadBody(p) PROVE IInv'
  <1>1. CASE bodies[Current] = req[p].body
    <2>1. /\ pc'[p] = "lock" /\ Goto(p, "lock")
          /\ UNCHANGED <<bodies, sidecar, lock, req, since, mine, head, reply>>
      BY <1>1 DEF IInv, TypeOK, ReadBody, Goto
    <2>2. Current \in head[p]..Current
      BY CurrentNat DEF IInv, TypeOK, PerProc, Found, Reconciling, ReadBody
    <2>3. (Modal(p) /\ (Locked(p) => lock = p) /\ Compared(p) /\ Found(p))'
      BY <1>1, <2>1, <2>2 DEF IInv, PerProc, ReadBody, Modal, Locked, Compared, Reconciling, Found, Current
    <2> QED  BY <2>1, <2>3, Moved DEF ReadBody, Labels, IInv, TypeOK
  <1>2. CASE bodies[Current] # req[p].body
    BY <1>2, RefusedStep DEF ReadBody
  <1> QED  BY <1>1, <1>2

LEMMA RepairStep == ASSUME IInv, NEW p \in Procs, Repair(p) PROVE IInv'
  <1>1. /\ head[p] \in 1..Current /\ Current \in Nat /\ head[p] \in Nat
        /\ req[p].body \in Bodies
        /\ \E n \in head[p]..Current : bodies[n] = req[p].body
    <2>1. Current \in Nat /\ head[p] \in Nat /\ since[p] \in Nat
      BY CurrentNat DEF IInv, TypeOK
    <2>2. req[p].body \in Bodies
      BY RequestParts DEF IInv, PerProc, InCall, Repair
    <2> QED  BY <2>1, <2>2 DEF IInv, PerProc, Found, Reconciling, Repair
  <1>2. head[p] = Current => bodies[Current] = req[p].body
    BY <1>1
  <1>3. SidecarInv' /\ sidecar' \in [version : Nat, digest : Bodies \cup {None}]
    BY <1>1, <1>2 DEF IInv, TypeOK, SidecarInv, Repair, Current
  <1> QED  BY <1>1, <1>2, <1>3, Finished DEF Repair

\* No step of any process breaks the invariant.
LEMMA InvNext == IInv /\ [Next]_vars => IInv'
  <1> SUFFICES ASSUME IInv, [Next]_vars PROVE IInv'
    OBVIOUS
  <1>1. CASE UNCHANGED vars
    BY <1>1 DEF vars, IInv, TypeOK, SidecarInv, PerProc, InCall, Modal, Locked, Compared, Wrote,
                Reconciling, Found, Acked, Current
  <1>2. ASSUME NEW p \in Procs, \E r \in Requests : Begin(p, r) PROVE IInv'
    BY <1>2, BeginStep
  <1>3. ASSUME NEW p \in Procs, Reject(p) \/ SidecarFails(p) \/ Crash(p) PROVE IInv'
    BY <1>3, ErrorStep DEF Reject, SidecarFails, Crash
  <1>4. ASSUME NEW p \in Procs, Step(p) PROVE IInv'
    BY <1>3, <1>4, TakeLockStep, CompareStep, WriteStep, LinkStep, WriteSidecarStep, HeadStep,
       MetadataStep, ReadBodyStep, RepairStep DEF Step
  <1> QED  BY <1>1, <1>2, <1>3, <1>4 DEF Next

\* The invariant gives the properties the runs check.
LEMMA InvImplies == IInv => TypeOK /\ SidecarTruth /\ AckNamesContent
  <1> SUFFICES ASSUME IInv PROVE TypeOK /\ SidecarTruth /\ AckNamesContent
    OBVIOUS
  <1>0. Current \in Nat
    BY CurrentNat DEF IInv
  <1>1. SidecarTruth
    BY <1>0 DEF IInv, SidecarInv, SidecarTruth, Recorded
  <1>2. AckNamesContent
    BY <1>0 DEF IInv, PerProc, Acked, AckNamesContent
  <1> QED  BY <1>1, <1>2 DEF IInv

\* Every variable of the store keeps its type, for any processes and puts.
THEOREM FsTypeCorrect == Spec => []TypeOK
  <1> QED  BY InvInit, InvNext, InvImplies, PTL DEF Spec

\* A sidecar that is trusted describes the bytes stored (fs.rs: read_metadata).
THEOREM FsSidecarTruth == Spec => []SidecarTruth
  <1> QED  BY InvInit, InvNext, InvImplies, PTL DEF Spec

\* An acknowledged version, while current, is the content that was sent
\* (core.rs: put_inner, reconcile_existing).
THEOREM FsAckNamesContent == Spec => []AckNamesContent
  <1> QED  BY InvInit, InvNext, InvImplies, PTL DEF Spec
-----------------------------------------------------------------------------
(* Implementation of the contract.                                         *)

Calls == [p \in Procs |-> CallOf(p)]

LEMMA PromisedParts ==
    ASSUME NEW r \in Requests
    PROVE  /\ Promised(r) \in Contract!Request
           /\ Promised(r).body = r.body /\ Promised(r).expect = r.expect
           /\ Promised(r).mode = IF r.mode = "multipart" THEN "overwrite" ELSE r.mode
  BY FsAssumption DEF Request, Promised, Contract!Request, Contract!Modes

\* A put under way is a call of the contract.
LEMMA CallOpen ==
    ASSUME IInv, NEW p \in Procs, pc[p] # "idle"
    PROVE  /\ Calls[p] = [req |-> Promised(req[p]), since |-> since[p], done |-> mine[p]]
           /\ Calls[p].req = Promised(req[p]) /\ Calls[p].since = since[p]
           /\ Calls[p].done = mine[p]
           /\ Calls[p] # None
  <1>1. Calls[p] = [req |-> Promised(req[p]), since |-> since[p], done |-> mine[p]]
    BY DEF Calls, CallOf
  <1>2. Promised(req[p]) \in Contract!Request
    BY PromisedParts DEF IInv, PerProc, InCall
  <1>3. since[p] \in Nat /\ mine[p] \in Nat
    BY DEF IInv, TypeOK
  <1> QED  BY <1>1, <1>2, <1>3, NoCallAssumption

\* A step that shows nothing to callers.
LEMMA Silent ==
    ASSUME bodies' = bodies, reply' = reply, \A q \in Procs : CallOf(q)' = CallOf(q)
    PROVE  UNCHANGED Contract!avars
  <1>1. [p \in Procs |-> CallOf(p)]' = [p \in Procs |-> CallOf(p)]
    OBVIOUS
  <1> QED  BY <1>1 DEF Contract!avars

\* Another process's call is untouched.
LEMMA OtherCall ==
    ASSUME NEW q \in Procs, pc'[q] = pc[q], req'[q] = req[q], since'[q] = since[q], mine'[q] = mine[q]
    PROVE  CallOf(q)' = CallOf(q)
  BY DEF CallOf

\* A call that returns with an answer the contract allows.
LEMMA ReturnRefines ==
    ASSUME IInv, NEW p \in Procs, pc[p] # "idle",
           NEW kind \in {"ok", "same", "refused", "error"}, NEW version \in 0..Current,
           Finish(p, kind, version), bodies' = bodies,
           Contract!Allows(Calls[p], [kind |-> kind, version |-> version])
    PROVE  Contract!Return(p)
  <1>1. pc'[p] = "idle" /\ \A q \in Procs \ {p} :
            pc'[q] = pc[q] /\ req'[q] = req[q] /\ since'[q] = since[q] /\ mine'[q] = mine[q]
    BY DEF IInv, TypeOK, Finish, Goto
  <1>2. CallOf(p)' = None /\ \A q \in Procs \ {p} : CallOf(q)' = CallOf(q)
    BY <1>1, OtherCall DEF CallOf
  <1>3. Calls' = [Calls EXCEPT ![p] = None]
    BY <1>2 DEF Calls
  <1>4. Calls[p] # None
    BY CallOpen
  <1>5. reply' = [reply EXCEPT ![p] = [kind |-> kind, version |-> version]]
    BY DEF Finish
  <1> QED  BY <1>3, <1>4, <1>5 DEF Contract!Return, Contract!Kinds, Contract!Current, Calls, Current
\* An error is always allowed.
LEMMA ErrorRefines ==
    ASSUME IInv, NEW p \in Procs, pc[p] # "idle", Finish(p, "error", 0), bodies' = bodies
    PROVE  Contract!Return(p)
  <1>1. 0 \in 0..Current
    BY CurrentNat DEF IInv
  <1>2. Contract!Allows(Calls[p], [kind |-> "error", version |-> 0])
    BY DEF Contract!Allows
  <1> QED  BY <1>1, <1>2, ReturnRefines

\* A refusal needs a version of the call at which the precondition failed.
LEMMA RefusedRefines ==
    ASSUME IInv, NEW p \in Procs, pc[p] \notin {"idle", "sidecar"},
           Finish(p, "refused", 0), bodies' = bodies,
           NEW n \in since[p]..Current,
           \/ req[p].mode = "create" /\ n # 0 /\ bodies[n] # req[p].body
           \/ req[p].mode = "update" /\ n # req[p].expect
    PROVE  Contract!Return(p)
  <1>1. 0 \in 0..Current /\ Current \in Nat
    BY CurrentNat DEF IInv
  <1>2. req[p] \in Requests /\ mine[p] = 0
    BY DEF IInv, PerProc, InCall, Wrote
  <1>3. /\ Calls[p].req = Promised(req[p]) /\ Calls[p].since = since[p] /\ Calls[p].done = 0
        /\ Promised(req[p]).body = req[p].body /\ Promised(req[p]).expect = req[p].expect
        /\ Promised(req[p]).mode = req[p].mode
    BY <1>2, CallOpen, PromisedParts
  <1>4. ~Contract!Permits(Calls[p].req, n) /\ ~Contract!MetItself(Calls[p], n)
    BY <1>3 DEF Contract!Permits, Contract!MetItself
  <1>5. Contract!Allows(Calls[p], [kind |-> "refused", version |-> 0])
    BY <1>3, <1>4 DEF Contract!Allows, Contract!Current, Current
  <1> QED  BY <1>1, <1>5, ReturnRefines

\* An idempotent create found its content in a version of the call.
LEMMA SameRefines ==
    ASSUME IInv, NEW p \in Procs, Reconciling(p), Finish(p, "same", head[p]), bodies' = bodies,
           NEW n \in head[p]..Current, bodies[n] = req[p].body, req[p].mode = "create"
    PROVE  Contract!Return(p)
  <1>1. /\ head[p] \in since[p]..Current /\ head[p] # 0 /\ Current \in Nat /\ since[p] \in Nat
        /\ head[p] \in Nat
    BY CurrentNat DEF IInv, TypeOK, PerProc, Found
  <1>2. pc[p] \notin {"idle", "sidecar"}
    BY DEF Reconciling
  <1>3. req[p] \in Requests /\ mine[p] = 0
    BY <1>2 DEF IInv, PerProc, InCall, Wrote
  <1>4. /\ Calls[p].req = Promised(req[p]) /\ Calls[p].since = since[p] /\ Calls[p].done = 0
        /\ Promised(req[p]).body = req[p].body /\ Promised(req[p]).mode = "create"
    BY <1>2, <1>3, CallOpen, PromisedParts
  <1>5. n \in since[p]..Current /\ n # 0 /\ head[p] \in 0..Current
    BY <1>1
  <1>6. Contract!MetItself(Calls[p], n)
    BY <1>4, <1>5 DEF Contract!MetItself
  <1>7. Contract!Allows(Calls[p], [kind |-> "same", version |-> head[p]])
    BY <1>1, <1>4, <1>5, <1>6 DEF Contract!Allows, Contract!Current, Current
  <1> QED  BY <1>2, <1>5, <1>7, ReturnRefines

\* Writing the object is the instant at which a put takes effect.
LEMMA StoreRefines ==
    ASSUME IInv, NEW p \in Procs, pc[p] \in {"write", "link"}, Store(p),
           UNCHANGED <<sidecar, lock, req, since, head, reply>>,
           pc[p] = "link" => Current = 0
    PROVE  Contract!Apply(p)
  <1>1. req[p] \in Requests /\ mine[p] = 0
    BY DEF IInv, PerProc, InCall, Wrote
  <1>2. /\ Calls[p] = [req |-> Promised(req[p]), since |-> since[p], done |-> 0]
        /\ Calls[p].req = Promised(req[p]) /\ Calls[p].done = 0 /\ Calls[p] # None
        /\ Promised(req[p]).body = req[p].body /\ Promised(req[p]).expect = req[p].expect
        /\ Promised(req[p]).mode = IF req[p].mode = "multipart" THEN "overwrite" ELSE req[p].mode
    BY <1>1, CallOpen, PromisedParts
  <1>3. Contract!Permits(Calls[p].req, Current)
    BY <1>2 DEF IInv, PerProc, Modal, Compared, Contract!Permits
  <1>4. /\ pc'[p] = "sidecar" /\ mine'[p] = Current + 1
        /\ \A q \in Procs \ {p} : pc'[q] = pc[q] /\ mine'[q] = mine[q]
    BY DEF IInv, TypeOK, Store, Goto
  <1>5. /\ CallOf(p)' = [req |-> Promised(req[p]), since |-> since[p], done |-> Current + 1]
        /\ \A q \in Procs \ {p} : CallOf(q)' = CallOf(q)
    BY <1>4, OtherCall DEF CallOf, Promised
  <1>6. Calls' = [Calls EXCEPT ![p].done = Current + 1]
    <2> DEFINE called == [req |-> Promised(req[p]), since |-> since[p], done |-> 0]
               wrote == [req |-> Promised(req[p]), since |-> since[p], done |-> Current + 1]
    <2>1. [called EXCEPT !.done = Current + 1] = wrote
      OBVIOUS
    <2>2. Calls' = [Calls EXCEPT ![p] = wrote]
      BY <1>5 DEF Calls
    <2>3. [Calls EXCEPT ![p].done = Current + 1] = [Calls EXCEPT ![p] = [Calls[p] EXCEPT !.done = Current + 1]]
      OBVIOUS
    <2> QED  BY <1>2, <2>1, <2>2, <2>3
  <1> QED  BY <1>2, <1>3, <1>6 DEF Contract!Apply, Contract!Current, Calls, Current, Store

LEMMA BeginRefines ==
    ASSUME IInv, NEW p \in Procs, NEW r \in Requests, Begin(p, r)
    PROVE  Contract!Invoke(p, Promised(r))
  <1>1. /\ pc[p] = "idle" /\ pc'[p] # "idle" /\ req'[p] = r /\ since'[p] = Current /\ mine'[p] = 0
        /\ \A q \in Procs \ {p} :
              pc'[q] = pc[q] /\ req'[q] = req[q] /\ since'[q] = since[q] /\ mine'[q] = mine[q]
    BY DEF IInv, TypeOK, PerProc, Wrote, Begin, Goto
  <1>2. /\ CallOf(p) = None
        /\ CallOf(p)' = [req |-> Promised(r), since |-> Current, done |-> 0]
        /\ \A q \in Procs \ {p} : CallOf(q)' = CallOf(q)
    BY <1>1, OtherCall DEF CallOf, Promised
  <1>3. /\ Calls[p] = None
        /\ Calls' = [Calls EXCEPT ![p] = [req |-> Promised(r), since |-> Current, done |-> 0]]
    BY <1>2 DEF Calls
  <1> QED  BY <1>3 DEF Contract!Invoke, Contract!Current, Calls, Current, Begin

\* A step to another label inside a call shows nothing.
LEMMA InsideCall ==
    ASSUME IInv, NEW p \in Procs, NEW where \in Labels, Goto(p, where), where # "idle", pc[p] # "idle",
           UNCHANGED <<bodies, req, since, mine, reply>>
    PROVE  UNCHANGED Contract!avars
  <1>1. pc'[p] = where /\ \A q \in Procs \ {p} : pc'[q] = pc[q]
    BY DEF IInv, TypeOK, Goto
  <1>2. CallOf(p)' = CallOf(p)
    BY <1>1 DEF CallOf, Promised
  <1>3. \A q \in Procs \ {p} : CallOf(q)' = CallOf(q)
    BY <1>1, OtherCall
  <1> QED  BY <1>2, <1>3, Silent

\* Every step of the store is a step of the contract, or none.
LEMMA StepRefines == IInv /\ [Next]_vars => [Contract!Next]_(Contract!avars)
  <1> SUFFICES ASSUME IInv, [Next]_vars PROVE Contract!Next \/ UNCHANGED Contract!avars
    OBVIOUS
  <1>0. Current \in Nat
    BY CurrentNat DEF IInv
  <1>1. CASE UNCHANGED vars
    <2>1. \A q \in Procs : CallOf(q)' = CallOf(q)
      BY <1>1, OtherCall DEF vars
    <2> QED  BY <1>1, <2>1, Silent DEF vars
  <1>2. ASSUME NEW p \in Procs, NEW r \in Requests, Begin(p, r) PROVE Contract!Next
    BY <1>2, BeginRefines, PromisedParts DEF Contract!Next
  <1>3. ASSUME NEW p \in Procs, Reject(p) \/ SidecarFails(p) \/ Crash(p) PROVE Contract!Next
    BY <1>3, ErrorRefines DEF Reject, SidecarFails, Crash, Contract!Next
  <1>4. ASSUME NEW p \in Procs, TakeLock(p) PROVE UNCHANGED Contract!avars
    <2>1. PICK where \in {"repair", "compare", "write"} : Goto(p, where)
      BY <1>4, RequestParts DEF TakeLock, IInv, PerProc, InCall
    <2> QED  BY <1>4, <2>1, InsideCall DEF TakeLock, Labels
  <1>5. ASSUME NEW p \in Procs, Compare(p) PROVE Contract!Next \/ UNCHANGED Contract!avars
    <2>1. CASE Current # req[p].expect
      <3>1. Current \in since[p]..Current
        BY <1>0, <1>5 DEF Compare, IInv, TypeOK, PerProc, InCall
      <3> QED  BY <1>5, <2>1, <3>1, RefusedRefines DEF Compare, IInv, PerProc, Modal, Contract!Next
    <2>2. CASE Current = req[p].expect
      BY <1>5, <2>2, InsideCall DEF Compare, Labels
    <2> QED  BY <2>1, <2>2
  <1>6. ASSUME NEW p \in Procs, Write(p) PROVE Contract!Next
    BY <1>6, StoreRefines DEF Write, Contract!Next
  <1>7. ASSUME NEW p \in Procs, Link(p) PROVE Contract!Next \/ UNCHANGED Contract!avars
    <2>1. CASE Current = 0
      BY <1>7, <2>1, StoreRefines DEF Link, Contract!Next
    <2>2. CASE Current # 0
      BY <1>7, <2>2, InsideCall DEF Link, Labels
    <2> QED  BY <2>1, <2>2
  <1>8. ASSUME NEW p \in Procs, WriteSidecar(p) PROVE Contract!Next
    <2>1. pc[p] # "idle" /\ mine[p] \in 1..Current /\ mine[p] \in 0..Current /\ mine[p] # 0
      BY <1>0, <1>8 DEF WriteSidecar, IInv, PerProc, Wrote
    <2>2. Contract!Allows(Calls[p], [kind |-> "ok", version |-> mine[p]])
      BY <2>1, CallOpen DEF Contract!Allows
    <2> QED  BY <1>8, <2>1, <2>2, ReturnRefines DEF WriteSidecar, Contract!Next
  <1>9. ASSUME NEW p \in Procs, HeadObject(p) PROVE UNCHANGED Contract!avars
    BY <1>9, InsideCall DEF HeadObject, Labels
  <1>10. ASSUME NEW p \in Procs, Metadata(p) PROVE Contract!Next \/ UNCHANGED Contract!avars
    <2>1. /\ head[p] \in 1..Current /\ head[p] \in since[p]..Current /\ head[p] # 0
          /\ head[p] \in head[p]..Current /\ req[p].mode = "create" /\ Reconciling(p)
      BY <1>0, <1>10 DEF Metadata, IInv, TypeOK, PerProc, Found, Reconciling, Modal
    <2>2. Recorded(head[p]) \in {None, bodies[head[p]]} /\ req[p].body # None
      BY <1>10, <2>1, RecordedTrue, RequestParts DEF Metadata, IInv, PerProc, InCall
    <2>3. CASE Recorded(head[p]) = None
      <3>1. Goto(p, "body") /\ UNCHANGED <<bodies, lock, req, since, mine, head, reply>>
        BY <1>10, <2>2, <2>3 DEF Metadata
      <3> QED  BY <1>10, <3>1, InsideCall DEF Metadata, Labels
    <2>4. CASE Recorded(head[p]) = req[p].body
      <3>1. Finish(p, "same", head[p]) /\ bodies' = bodies
        BY <1>10, <2>2, <2>4 DEF Metadata
      <3>2. bodies[head[p]] = req[p].body
        BY <2>2, <2>4
      <3> QED  BY <2>1, <3>1, <3>2, SameRefines DEF Contract!Next
    <2>5. CASE Recorded(head[p]) \notin {None, req[p].body}
      <3>1. Finish(p, "refused", 0) /\ bodies' = bodies /\ pc[p] \notin {"idle", "sidecar"}
        BY <1>10, <2>5 DEF Metadata
      <3>2. bodies[head[p]] # req[p].body
        BY <2>2, <2>5
      <3> QED  BY <2>1, <3>1, <3>2, RefusedRefines DEF Contract!Next
    <2> QED  BY <2>3, <2>4, <2>5
  <1>11. ASSUME NEW p \in Procs, ReadBody(p) PROVE Contract!Next \/ UNCHANGED Contract!avars
    <2>1. CASE bodies[Current] = req[p].body
      BY <1>11, <2>1, InsideCall DEF ReadBody, Labels
    <2>2. CASE bodies[Current] # req[p].body
      <3>1. Current \in since[p]..Current /\ Current # 0 /\ req[p].mode = "create"
        BY <1>0, <1>11 DEF ReadBody, IInv, TypeOK, PerProc, InCall, Found, Reconciling, Modal
      <3> QED  BY <1>11, <2>2, <3>1, RefusedRefines DEF ReadBody, Contract!Next
    <2> QED  BY <2>1, <2>2
  <1>12. ASSUME NEW p \in Procs, Repair(p) PROVE Contract!Next
    <2>1. Reconciling(p) /\ req[p].mode = "create"
      BY <1>12 DEF Repair, IInv, PerProc, Modal, Reconciling
    <2>2. PICK n \in head[p]..Current : bodies[n] = req[p].body
      BY <1>12, <2>1 DEF Repair, IInv, PerProc, Found
    <2> QED  BY <1>12, <2>1, <2>2, SameRefines DEF Repair, Contract!Next
  <1> QED
    BY <1>1, <1>2, <1>3, <1>4, <1>5, <1>6, <1>7, <1>8, <1>9, <1>10, <1>11, <1>12 DEF Next, Step

LEMMA InitRefines == Init => Contract!Init
  BY DEF Init, Contract!Init, CallOf

\* The local store implements the contract of ObjectStore::put, for any
\* processes, contents and puts (core.rs: put_inner; fs.rs: put_object).
THEOREM FsRefines == Spec => Refines
  <1>1. Spec => []IInv
    BY InvInit, InvNext, PTL DEF Spec
  <1> QED  BY <1>1, InitRefines, StepRefines, PTL DEF Spec, Refines, Contract!Spec
=============================================================================
