------------------------------ MODULE Manifest ------------------------------
(***************************************************************************)
(* The manifest of one session in object storage, written by compare-and-  *)
(* swap from both sides: desktop clients append the chunks they uploaded,  *)
(* the server records transforms and the lifecycle.                        *)
(*                                                                         *)
(* Sources: plugins/object-store/rust/src/manifest/{update,client,server,  *)
(* validate,types}.rs and scrub/seal.rs.  The coordinator that calls them  *)
(* (when to plan, upload, adopt, take over) is outside the repository and  *)
(* follows rust/docs/manifest-v1.md.                                       *)
(*                                                                         *)
(* The manifest object keeps the contract of module CasObject: version n   *)
(* is the n-th manifest stored.  A chunk holds one unit of the source; a    *)
(* digest is what it digests.                                              *)
(***************************************************************************)
EXTENDS Naturals, Sequences, FiniteSets, SequencesExt, FiniteSetsExt

CONSTANTS
    Clients,        \* client instances, the delivery_instance_id of each
    Build,          \* rule-set version each client scrubs with; 0: it does not
    Servers,        \* server workers
    None,           \* no manifest, section, acknowledgement, marker or call
    Decisions,      \* lifecycles the server decides on
    MaxAttempts,    \* UpdateOpts::max_attempts
    MaxGen, MaxLen, \* source: rewrites, units
    MaxFaults,      \* lost answers and abandoned calls
    MaxRestores,    \* restores from a backup
    MaxTakeovers,   \* ownership transfers
    MaxMoves        \* lifecycle changes the server decides on

Writers == Clients \cup Servers

ASSUME ManifestAssumption ==
    /\ Clients \cap Servers = {}
    /\ Build \in [Clients -> Nat]
    /\ Decisions \subseteq {"active", "idle", "archived"}
    /\ MaxAttempts \in Nat \ {0}
    /\ {MaxGen, MaxLen, MaxFaults, MaxRestores, MaxTakeovers, MaxMoves} \subseteq Nat

Content == [epoch : Nat, offset : Nat, data : Nat]
Entry == [seq : Nat, epoch : Nat, offset : Nat, data : Nat, scrub : Nat]
RawSection ==
    [owner : Clients, epoch : Nat, epochs : Seq(Nat), next_offset : Nat,
     chunks : Seq(Entry), scrub : Nat \cup {None}]
NormalizedSection ==
    [content : Seq(Content), epoch : Nat, built : Seq(Content) \X Nat]
ServerFields ==
    [normalized : NormalizedSection \cup {None}, lifecycle : {"active", "idle", "archived"}]
Doc == [revision : Nat, raw : RawSection, server : ServerFields \cup {None}]
Ack == [revision : Nat, content : Seq(Content), epoch : Nat]
Edits ==
    [kind : {"create", "take"}, by : Clients]
    \cup [kind : {"append"}, by : Clients, from : Nat, opens : BOOLEAN, entries : Seq(Entry)]
    \cup [kind : {"transform"}, read : Doc]
    \cup [kind : {"lifecycle"}, decided : {"active", "idle", "archived"}]

Call == [pc : {"read", "put"}, edit : Edits, attempt : 1..MaxAttempts, since : Nat, expect : Nat,
         body : Doc \cup {None}]

\* None is told from what it stands in for.
ASSUME NoneAssumption ==
    /\ None \notin Nat /\ None \notin RawSection /\ None \notin NormalizedSection
    /\ None \notin ServerFields /\ None \notin Doc /\ None \notin Ack /\ None \notin Call

VARIABLES
    remote,     \* the manifest stored
    version,    \* how many were stored, which is its version
    backup,     \* a copy of an earlier one
    objects,    \* chunk objects stored: key and the rule set they went through
    source,     \* the harness log: which content, how long
    call,       \* the update_manifest each writer is in
    late,       \* puts on the wire whose writer no longer waits
    ack,        \* ClientAck each client keeps
    budget      \* what is left of each bound

vars == <<remote, version, backup, objects, source, call, late, ack, budget>>

Spend(what) == budget[what] > 0 /\ budget' = [budget EXCEPT ![what] = @ - 1]

-----------------------------------------------------------------------------
(* The document.                                                           *)

\* content_sha256: the chain covers these fields of each chunk, in order.
ContentSha256(chunks) ==
    [i \in DOMAIN chunks |->
        [epoch |-> chunks[i].epoch, offset |-> chunks[i].offset, data |-> chunks[i].data]]

\* Where an epoch ends: after its last chunk.
EpochEnd(chunks, epoch) ==
    LET of == {i \in DOMAIN chunks : chunks[i].epoch = epoch}
    IN  IF of = {} THEN 0 ELSE chunks[Max(of)].offset + 1

\* recompute: the end of the current epoch.
Recompute(raw, chunks) == [raw EXCEPT !.chunks = chunks, !.next_offset = EpochEnd(chunks, raw.epoch)]

NewManifest(c) ==
    [revision |-> 1,
     raw |-> [owner |-> c, epoch |-> 0, epochs |-> <<0>>, next_offset |-> 0,
              chunks |-> <<>>, scrub |-> None],
     server |-> None]

\* What parse_manifest insists on, of what is read and of what is written.
Valid(m) ==
    LET raw == m.raw
        chunks == raw.chunks
        First(i) == i = 1 \/ chunks[i - 1].epoch # chunks[i].epoch
    IN  /\ m.revision >= 1
        /\ Len(raw.epochs) = raw.epoch + 1
        /\ \A e \in 0..raw.epoch :
              raw.epochs[e + 1] = Cardinality({i \in DOMAIN chunks : chunks[i].epoch < e})
        /\ \A i \in DOMAIN chunks :
              /\ chunks[i].seq = i - 1
              /\ chunks[i].epoch <= raw.epoch
              /\ i > 1 => chunks[i - 1].epoch <= chunks[i].epoch
              /\ chunks[i].offset = IF First(i) THEN 0 ELSE chunks[i - 1].offset + 1
              /\ First(i) => raw.epochs[chunks[i].epoch + 1] = chunks[i].seq
              /\ raw.scrub # None => chunks[i].scrub # 0
        /\ raw.next_offset = EpochEnd(chunks, raw.epoch)
        /\ raw.scrub # None => raw.scrub >= 1
        /\ m.server # None /\ m.server.normalized # None =>
              m.server.normalized.epoch <= raw.epoch

-----------------------------------------------------------------------------
(* The client's side.                                                      *)

AckOf(m) == [revision |-> m.revision, content |-> ContentSha256(m.raw.chunks),
             epoch |-> m.raw.epoch]

\* Mutant: whoever holds an acknowledgement writes on.
Classify_Unfenced(m, c, a) ==
    CASE a = None -> "unchanged"
      [] m.revision < a.revision \/ m.raw.epoch < a.epoch
         \/ ~IsPrefix(a.content, ContentSha256(m.raw.chunks)) -> "rolled_back"
      [] OTHER -> "extended"

\* Mutant: a shorter chunk list of a newer revision is taken for progress.
Classify_RevisionOnly(m, c, a) ==
    CASE m.raw.owner # c -> "fenced"
      [] a = None -> "unchanged"
      [] m.revision < a.revision -> "rolled_back"
      [] a.content = ContentSha256(m.raw.chunks) /\ a.epoch = m.raw.epoch -> "unchanged"
      [] OTHER -> "extended"

Classify(m, c, a) ==
    CASE m.raw.owner # c -> "fenced"
      [] m.raw.owner = c /\ a = None -> "unchanged"
      [] m.raw.owner = c /\ a # None ->
            CASE \/ m.revision < a.revision
                 \/ ~IsPrefix(a.content, ContentSha256(m.raw.chunks))
                 \/ m.raw.epoch < a.epoch -> "rolled_back"
              [] OTHER -> IF Len(m.raw.chunks) = Len(a.content) /\ m.raw.epoch = a.epoch
                          THEN "unchanged" ELSE "extended"

\* Mutant: a write whose answer was lost is taken for someone else's.
MayWrite_UnchangedOnly(state) == state = "unchanged"

MayWrite(state) == state \in {"unchanged", "extended"}

OpenEpoch(raw) ==
    [raw EXCEPT !.epoch = @ + 1, !.epochs = Append(@, Len(raw.chunks)), !.next_offset = 0]

\* seq, epoch and offset of new chunks continue raw.
PlanChunks(raw, data) ==
    [i \in DOMAIN data |->
        [seq |-> Len(raw.chunks) + i - 1, epoch |-> raw.epoch,
         offset |-> raw.next_offset + i - 1, data |-> data[i], scrub |-> 0]]

\* Mutant: chunks planned against another copy are renumbered to fit this one.
ApplyChunks_Renumber(raw, entries) ==
    Recompute(raw, raw.chunks \o
        [i \in DOMAIN entries |->
            [entries[i] EXCEPT !.seq = Len(raw.chunks) + i - 1, !.epoch = raw.epoch,
                               !.offset = raw.next_offset + i - 1]])

\* None: they were planned against another raw.
ApplyChunks(raw, entries) ==
    IF \/ entries = <<>>
       \/ /\ entries[1].seq = Len(raw.chunks)
          /\ entries[1].epoch = raw.epoch
          /\ entries[1].offset = raw.next_offset
    THEN Recompute(raw, raw.chunks \o entries)
    ELSE None

\* Mutant: the marker follows the newest rule set.
RecordScrub_Highest(raw, ruleset) ==
    IF raw.scrub = None /\ raw.chunks # <<>> THEN None
    ELSE IF raw.scrub = None \/ ruleset > raw.scrub THEN [raw EXCEPT !.scrub = ruleset]
    ELSE raw

\* None: chunks are listed that nothing vouches for.
RecordScrub(raw, ruleset) ==
    IF raw.scrub = None /\ raw.chunks # <<>> THEN None
    ELSE IF raw.scrub = None \/ ruleset < raw.scrub THEN [raw EXCEPT !.scrub = ruleset]
    ELSE raw

\* put_raw_chunk, create-only: of a chunk stored before, the object is kept and
\* what it went through is recorded.
Key(entry) == [seq |-> entry.seq, offset |-> entry.offset, data |-> entry.data]
StoredAs(entry) == {o \in objects : o.key = Key(entry)}

Sealed(entries, ruleset) ==
    [i \in DOMAIN entries |->
        [entries[i] EXCEPT !.scrub =
            IF ruleset = 0 \/ StoredAs(entries[i]) = {} THEN ruleset
            ELSE (CHOOSE o \in StoredAs(entries[i]) : TRUE).scrub]]

PutRawChunks(entries) ==
    objects' = objects \cup
        {[key |-> Key(e), scrub |-> e.scrub] : e \in {x \in Range(entries) : StoredAs(x) = {}}}

\* The marker is recorded before the chunks it covers are listed.
Vouch(raw, entries) ==
    LET versions == {e.scrub : e \in Range(entries)} \ {0}
    IN  IF versions = {} THEN raw ELSE RecordScrub(raw, Min(versions))

-----------------------------------------------------------------------------
(* The server's side.                                                      *)

\* Mutant: the content digest alone tells whether output is current.
NormalizedIsCurrent_AnyEpoch(m) ==
    /\ m.server # None
    /\ m.server.normalized # None
    /\ m.server.normalized.content = ContentSha256(m.raw.chunks)

NormalizedIsCurrent(m) ==
    /\ m.server # None
    /\ m.server.normalized # None
    /\ m.server.normalized.content = ContentSha256(m.raw.chunks)
    /\ m.server.normalized.epoch = m.raw.epoch

NeedsTransform(m) == m.raw.scrub # None /\ ~NormalizedIsCurrent(m)

ServerSection(m) ==
    IF m.server = None THEN [normalized |-> None, lifecycle |-> "active"] ELSE m.server

\* built: what the transform really read (a history field).
Normalized(m, read) ==
    [content |-> ContentSha256(m.raw.chunks), epoch |-> m.raw.epoch,
     built |-> <<ContentSha256(read.raw.chunks), read.raw.epoch>>]

WithNormalized(read, m) == [ServerSection(m) EXCEPT !.normalized = Normalized(read, read)]

\* archived is kept; None: nothing would change.
WithLifecycle(m, decided) ==
    LET lifecycle == IF ServerSection(m).lifecycle = "archived" THEN "archived" ELSE decided
    IN  IF m.server # None /\ m.server.lifecycle = lifecycle THEN None
        ELSE [ServerSection(m) EXCEPT !.lifecycle = lifecycle]

-----------------------------------------------------------------------------
(* update_manifest: read, edit the copy, put, and on a lost race again.    *)

Bump(m) == [m EXCEPT !.revision = @ + 1]

WithRaw(m, raw) == IF raw = None THEN None ELSE Bump([m EXCEPT !.raw = raw])
WithServer(m, server) == IF server = None THEN None ELSE Bump([m EXCEPT !.server = server])

\* The edit's own sections spliced into the copy read; None: nothing is written.
\* An epoch is opened over the one it was planned against, and never twice.
AppendEdit(m, e) ==
    IF m = None \/ ~MayWrite(Classify(m, e.by, ack[e.by])) THEN None
    ELSE IF e.opens /\ m.raw.epoch # e.from THEN None
    ELSE LET opened == IF e.opens THEN OpenEpoch(m.raw) ELSE m.raw
             vouched == Vouch(opened, e.entries)
         IN  IF vouched = None THEN None ELSE WithRaw(m, ApplyChunks(vouched, e.entries))

Edited(m, e) ==
    CASE e.kind = "create" -> IF m = None THEN NewManifest(e.by) ELSE None
      [] e.kind = "append" -> AppendEdit(m, e)
      [] e.kind = "take" -> WithRaw(m, [m.raw EXCEPT !.owner = e.by])
      [] e.kind = "transform" -> WithServer(m, WithNormalized(e.read, m))
      [] e.kind = "lifecycle" -> WithServer(m, WithLifecycle(m, e.decided))

Enter(w, edit) ==
    call' = [call EXCEPT ![w] = [pc |-> "read", edit |-> edit, attempt |-> 1,
                                 since |-> version, expect |-> 0, body |-> None]]

Leave(w) == call' = [call EXCEPT ![w] = None]

\* Mutant: the put names the revision of the edited copy.
Attempt_Edited(w) ==
    /\ call[w] # None /\ call[w].pc = "read"
    /\ \E body \in {Edited(remote, call[w].edit)} :
           IF body = None \/ ~Valid(body) THEN Leave(w)
           ELSE call' = [call EXCEPT ![w].pc = "put", ![w].body = body, ![w].expect = body.revision]
    /\ UNCHANGED <<remote, version, backup, objects, source, late, ack, budget>>

\* The version put is that of the response that was read.
Attempt(w) ==
    /\ call[w] # None /\ call[w].pc = "read"
    /\ \E body \in {Edited(remote, call[w].edit)} :
           IF body = None \/ ~Valid(body) THEN Leave(w)
           ELSE call' = [call EXCEPT ![w].pc = "put", ![w].body = body, ![w].expect = version]
    /\ UNCHANGED <<remote, version, backup, objects, source, late, ack, budget>>

\* The store takes a put if the manifest is still the version it names.
Stores(put) ==
    IF version = put.expect
    THEN remote' = put.body /\ version' = version + 1
    ELSE UNCHANGED <<remote, version>>

Acknowledge(w) ==
    ack' = IF w \in Clients THEN [ack EXCEPT ![w] = AckOf(call[w].body)] ELSE ack

\* Mutant: one attempt too many.
Refused_OneMore(w) ==
    IF call[w].attempt <= MaxAttempts
    THEN call' = [call EXCEPT ![w].pc = "read", ![w].attempt = @ + 1]
    ELSE Leave(w)

Refused(w) ==
    IF call[w].attempt < MaxAttempts
    THEN call' = [call EXCEPT ![w].pc = "read", ![w].attempt = @ + 1]
    ELSE Leave(w)

Put(w) ==
    /\ call[w] # None /\ call[w].pc = "put"
    /\ Stores(call[w])
    /\ IF version' # version
       THEN Leave(w) /\ Acknowledge(w)
       ELSE Refused(w) /\ UNCHANGED ack
    /\ UNCHANGED <<backup, objects, source, late, budget>>

\* The put was taken, the answer lost: the transport tries again and is refused.
PutTwice(w) ==
    /\ call[w] # None /\ call[w].pc = "put"
    /\ Spend("faults")
    /\ Stores(call[w]) /\ version' # version
    /\ Refused(w)
    /\ UNCHANGED <<backup, objects, source, late, ack>>

\* An error, a timeout or a crash: the put may still be on the wire.
Abandon(w) ==
    /\ call[w] # None
    /\ Spend("faults")
    /\ Leave(w)
    /\ \/ late' = IF call[w].pc = "put"
                  THEN late \cup {[by |-> w, expect |-> call[w].expect, body |-> call[w].body]}
                  ELSE late
       \/ call[w].pc = "put" /\ UNCHANGED late
    /\ UNCHANGED <<remote, version, backup, objects, source, ack>>

\* A put that was on the wire arrives, or never does.
Arrive(put) ==
    /\ late' = late \ {put}
    /\ Stores(put)
    /\ UNCHANGED <<backup, objects, source, call, ack, budget>>

-----------------------------------------------------------------------------
(* The coordinator and the server's jobs.                                  *)

\* The last acknowledged chunk no longer matches the source.
Rewritten(raw) ==
    /\ raw.next_offset > 0
    /\ source.len < raw.next_offset \/ Last(raw.chunks).data # source.gen

Create(c) ==
    /\ call[c] = None /\ remote = None
    /\ Enter(c, [kind |-> "create", by |-> c])
    /\ UNCHANGED <<remote, version, backup, objects, source, late, ack, budget>>

\* A delivery tick: adopt what was written before, plan what is missing,
\* upload it, and only then write the manifest.  An epoch opened over a source
\* that is now empty comes without a chunk.
Deliver(c) ==
    /\ call[c] = None /\ remote # None
    /\ MayWrite(Classify(remote, c, ack[c]))
    /\ LET opens == Rewritten(remote.raw)
           raw == IF opens THEN OpenEpoch(remote.raw) ELSE remote.raw
       IN  \E n \in 0..(source.len - raw.next_offset) :
              LET entries == Sealed(PlanChunks(raw, [i \in 1..n |-> source.gen]), Build[c])
              IN  /\ n = 0 => opens /\ source.len = 0
                  /\ PutRawChunks(entries)
                  /\ Enter(c, [kind |-> "append", by |-> c, from |-> remote.raw.epoch,
                               opens |-> opens, entries |-> entries])
    /\ ack' = [ack EXCEPT ![c] =
                  IF Classify(remote, c, ack[c]) = "extended" THEN AckOf(remote) ELSE @]
    /\ UNCHANGED <<remote, version, backup, source, late, budget>>

\* An instance new to the session takes it over.
TakeOver(c) ==
    /\ call[c] = None /\ remote # None
    /\ ack[c] = None /\ remote.raw.owner # c
    /\ Spend("takeovers")
    /\ Enter(c, [kind |-> "take", by |-> c])
    /\ UNCHANGED <<remote, version, backup, objects, source, late, ack>>

Transform(s) ==
    /\ call[s] = None /\ remote # None
    /\ NeedsTransform(remote)
    /\ Enter(s, [kind |-> "transform", read |-> remote])
    /\ UNCHANGED <<remote, version, backup, objects, source, late, ack, budget>>

Decide(s) ==
    /\ call[s] = None /\ remote # None
    /\ Spend("moves")
    /\ \E decided \in Decisions :
          Enter(s, [kind |-> "lifecycle", decided |-> decided])
    /\ UNCHANGED <<remote, version, backup, objects, source, late, ack>>

Grow ==
    /\ source.len < MaxLen
    /\ source' = [source EXCEPT !.len = @ + 1]
    /\ UNCHANGED <<remote, version, backup, objects, call, late, ack, budget>>

Rewrite ==
    /\ source.gen < MaxGen
    /\ \E n \in 0..MaxLen : source' = [gen |-> source.gen + 1, len |-> n]
    /\ UNCHANGED <<remote, version, backup, objects, call, late, ack, budget>>

\* The manifest object is copied to a backup, and restored from it.
Backup ==
    /\ budget.restores > 0
    /\ remote # backup
    /\ backup' = remote
    /\ UNCHANGED <<remote, version, objects, source, call, late, ack, budget>>

Restore ==
    /\ backup \notin {None, remote}
    /\ Spend("restores")
    /\ remote' = backup /\ version' = version + 1
    /\ UNCHANGED <<backup, objects, source, call, late, ack>>

Init ==
    /\ remote = None /\ version = 0 /\ backup = None
    /\ objects = {}
    /\ source = [gen |-> 0, len |-> 0]
    /\ call = [w \in Writers |-> None]
    /\ late = {}
    /\ ack = [c \in Clients |-> None]
    /\ budget = [faults |-> MaxFaults, restores |-> MaxRestores,
                 takeovers |-> MaxTakeovers, moves |-> MaxMoves]

Step(w) == Attempt(w) \/ Put(w)

Next ==
    \/ \E w \in Writers : Step(w) \/ PutTwice(w) \/ Abandon(w)
    \/ \E put \in late : Arrive(put)
    \/ \E c \in Clients : Create(c) \/ Deliver(c) \/ TakeOver(c)
    \/ \E s \in Servers : Transform(s) \/ Decide(s)
    \/ Grow \/ Rewrite \/ Backup \/ Restore

Spec == Init /\ [][Next]_vars

\* A delivery tick and a queued job come again until they are done, and a call
\* makes its steps: the writers do not all stop while one of them has something
\* to do.  Nothing is assumed of a put that was abandoned.
Fairness ==
    WF_vars(\/ \E w \in Writers : Step(w)
            \/ \E c \in Clients : Create(c) \/ Deliver(c)
            \/ \E s \in Servers : Transform(s))

FairSpec == Spec /\ Fairness

-----------------------------------------------------------------------------
\* Every variable holds a value of its kind, and no call passes its attempts.
TypeOK ==
    /\ remote \in Doc \cup {None} /\ version \in Nat
    /\ backup \in Doc \cup {None}
    /\ objects \subseteq [key : [seq : Nat, offset : Nat, data : Nat], scrub : Nat]
    /\ source \in [gen : Nat, len : Nat]
    /\ call \in [Writers -> Call \cup {None}]
    /\ late \subseteq [by : Writers, expect : Nat, body : Doc]
    /\ ack \in [Clients -> Ack \cup {None}]
    /\ budget \in [{"faults", "restores", "takeovers", "moves"} -> Nat]

\* No unit of the source is listed twice, and an epoch is one reading of one
\* content, whatever puts were lost, repeated, delayed past a rewrite of the
\* source or applied after their writer had given up (client.rs: apply_chunks,
\* open_epoch; update.rs: a refused put is edited again).
SourceOnce ==
    remote # None =>
        LET chunks == remote.raw.chunks
        IN  \A i, j \in DOMAIN chunks :
                i < j => /\ chunks[i].epoch = chunks[j].epoch <=> chunks[i].data = chunks[j].data
                         /\ Key(chunks[i]) # Key(chunks[j])

\* The marker vouches for no more than the weakest object listed, across
\* clients of several builds, takeovers and chunks another build had stored
\* first (client.rs: record_scrub; seal.rs: put_raw_chunk).
Vouched ==
    remote # None =>
        \A e \in Range(remote.raw.chunks) :
            /\ StoredAs(e) # {}
            /\ remote.raw.scrub # None =>
                  \A o \in StoredAs(e) : remote.raw.scrub <= o.scrub

\* Output shown as current was built from exactly the chunks and the epoch the
\* manifest lists, though transforms overlap client writes and each other
\* (server.rs: with_normalized; types.rs: normalized_is_current).
NormalizedTruth ==
    remote # None /\ NormalizedIsCurrent(remote) =>
        remote.server.normalized.built
            = <<ContentSha256(remote.raw.chunks), remote.raw.epoch>>

\* Every attempt a writer lost was lost to a manifest stored meanwhile: when the
\* loop gives up as contended, that many writes went through (update.rs).
LostToAnother ==
    \A w \in Writers :
        call[w] # None => call[w].since + call[w].attempt - 1 <= version

\* Whose put the store took in a step.
Wrote(w) ==
    /\ version' # version
    /\ \/ call[w] # None /\ call[w].pc = "put" /\ call'[w] # call[w]
       \/ \E put \in late \ late' : put.by = w

\* The raw section is written by its owner, or by a takeover that changes
\* nothing else, and only the server writes the server section: no write loses
\* the other side's, and none of a fenced client lands, however late it arrives
\* (update.rs: update_manifest; client.rs: classify).
SectionsKept ==
    [][\A w \in Writers :
          Wrote(w) /\ remote # None =>
              LET new == remote'
              IN  /\ w \in Servers => new.raw = remote.raw
                  /\ w \in Clients =>
                        /\ new.server = remote.server
                        /\ remote.raw.owner # w => new.raw = [remote.raw EXCEPT !.owner = w]
      ]_vars

\* What a client saw acknowledged it never disowns: its acknowledged chunk list
\* only grows, and it writes over no manifest that lost a part of it, so after a
\* restore it stops (client.rs: classify, RolledBack).
NothingLost ==
    [][\A c \in Clients :
          ack[c] # None =>
              /\ IsPrefix(ack[c].content, ack'[c].content)
              /\ Wrote(c) => IsPrefix(ack[c].content, ContentSha256(remote'.raw.chunks))
      ]_vars

\* The current epoch lists all of the source, and nothing when it is empty.
Listed == remote # None /\ ~Rewritten(remote.raw) /\ remote.raw.next_offset = source.len

\* The owner found that the manifest lost what it saw acknowledged.
Stopped ==
    remote # None /\ Classify(remote, remote.raw.owner, ack[remote.raw.owner]) = "rolled_back"

\* Once the source rests, all of it is listed and output built from it is
\* current, or the owner has stopped at a restored manifest: calls that were
\* abandoned, answers that were lost and rewrites of the source only delay it
\* (docs/manifest-v1.md: running out of attempts is a delay, never data loss).
Delivered ==
    \/ <>[](Listed /\ (remote.raw.chunks # <<>> /\ remote.raw.scrub # None => NormalizedIsCurrent(remote)))
    \/ <>[]Stopped
=============================================================================
