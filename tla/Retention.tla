------------------------------ MODULE Retention -----------------------------
(***************************************************************************)
(* Local retention: a maintenance worker evicts expired sessions in        *)
(* bounded batches, beside captures that write, uploaders that read the    *)
(* change feed and acknowledge what they uploaded, and readers that keep a *)
(* view of the store by its retention generation.                          *)
(*                                                                         *)
(* Sources: crates/ai-hist/src/retention.rs and retention/{maintenance,    *)
(* targets,changes,generation,anonymous,relationships,schema}.rs.          *)
(*                                                                         *)
(* Sessions are 1..N in the order of their keys.  A row names the sessions *)
(* it belongs to: one for evidence, two for a relationship, none for an    *)
(* anonymous prompt.  Time counts days from 1; 0 is no time.               *)
(***************************************************************************)
EXTENDS Naturals, FiniteSets, FiniteSetsExt

CONSTANTS
    N,              \* sessions
    Workers,        \* maintenance workers
    Consumers,      \* upload destinations
    Readers,        \* processes that keep a copy of what they show
    Policies,       \* retention days a user may set; 0: forever
    DefaultDays,    \* the policy of a fresh store
    Allow,          \* values of RetentionOptions::allow_unuploaded in use
    MaxRows,        \* RetentionOptions::max_rows
    ScanLimit,      \* SCAN_LIMIT
    Kept,           \* KEPT_GENERATIONS
    None,           \* no plan, catalog row or registration
    MaxDay, MaxWrites, MaxForgets, MaxEpochs

Sessions == 1..N

ASSUME RetentionAssumption ==
    /\ N \in Nat /\ MaxRows \in Nat \ {0} /\ ScanLimit \in Nat \ {0} /\ Kept \in Nat \ {0}
    /\ Policies \subseteq Nat /\ DefaultDays \in Nat /\ Allow \subseteq BOOLEAN
    /\ {MaxDay, MaxWrites, MaxForgets, MaxEpochs} \subseteq Nat

Position == [epoch : Nat, rev : Nat]
Row == [uid : Nat, of : SUBSET Sessions, rev : Nat, ts : Nat]
Listing == [rev : Nat, last : Nat]
Prompt == [ts : Nat, uid : Nat]
Planned == [days : Nat, after : 0..N, now : Nat, allow : BOOLEAN, candidate : 0..N, through : 0..N]

\* None is told from what it stands in for.
ASSUME NoneAssumption ==
    /\ None \notin Nat /\ \A S \in SUBSET Sessions : None # S
    /\ None \notin Position /\ None \notin Listing /\ None \notin Prompt /\ None \notin Planned

VARIABLES
    now,        \* the day
    days,       \* history.retention_days
    head,       \* the feed's epoch and newest revision
    rows,       \* evidence, relationships and anonymous prompts
    catalog,    \* sessions: revision and last_activity_ms
    tombs,      \* evidence_tombstones
    pending,    \* retention_pending
    sweep,      \* retention_sweep; 0: none
    anon,       \* retention.anonymous_cursor
    acks,       \* retention_consumers
    journal,    \* retention_changes; its last generation is the store's
    generation, \* retention.catalog_generation
    plan,       \* the plan a worker made and has not applied
    seen,       \* the position each uploader reached
    remote,     \* the rows each destination holds
    view,       \* each reader's copy of the sessions, and the position it is of
    uids,       \* rows written so far
    forgotten,  \* rows the user deleted from this store (a history variable)
    evicted     \* rows evicted, and for whom they had to be kept (a history variable)

db == <<head, rows, catalog, tombs, pending, sweep, anon, acks, journal, generation, days>>
ghosts == <<uids, forgotten, evicted>>
vars == <<now, db, plan, seen, remote, view, ghosts>>

Naming(s) == {r \in rows : s \in r.of}
Payload(s) == {r \in rows : r.of = {s}}
Edges(s) == Naming(s) \ Payload(s)
Anonymous == {r \in rows : r.of = {}}

Uids(set) == {r.uid : r \in set}
Least(a, b) == IF a < b THEN a ELSE b

\* What a reader shows of a session.
Shown(s) == [listed |-> catalog[s] # None, rows |-> Uids(Naming(s))]

-----------------------------------------------------------------------------
(* Captures and the user.                                                  *)

Tick ==
    /\ now < MaxDay
    /\ now' = now + 1
    /\ UNCHANGED <<db, plan, seen, remote, view, ghosts>>

\* A capture writes a row, of today or, read from an old source, of an earlier
\* day, and with it or not the catalog row of its session.
Write ==
    /\ uids < MaxWrites
    /\ \E of \in SUBSET Sessions, ts \in 1..now, list \in BOOLEAN :
          /\ Cardinality(of) <= 2
          /\ list => Cardinality(of) = 1
          /\ rows' = rows \cup {[uid |-> uids + 1, of |-> of, rev |-> head.rev + 1, ts |-> ts]}
          /\ catalog' = [s \in Sessions |->
                IF list /\ s \in of
                THEN [rev |-> head.rev + 1,
                      last |-> IF catalog[s] = None \/ catalog[s].last < ts THEN ts ELSE catalog[s].last]
                ELSE catalog[s]]
    /\ head' = [head EXCEPT !.rev = @ + 1]
    /\ uids' = uids + 1
    /\ UNCHANGED <<now, days, tombs, pending, sweep, anon, acks, journal, generation, plan, seen,
                   remote, view, forgotten, evicted>>

\* The user deletes a row for good: the deletion goes through the feed.
Forget(r) ==
    /\ Cardinality(forgotten) < MaxForgets
    /\ rows' = rows \ {r}
    /\ head' = [head EXCEPT !.rev = @ + 1]
    /\ tombs' = tombs \cup {[uid |-> r.uid, of |-> r.of, rev |-> head.rev + 1]}
    /\ forgotten' = forgotten \cup {r.uid}
    /\ UNCHANGED <<now, days, catalog, pending, sweep, anon, acks, journal, generation, plan, seen,
                   remote, view, uids, evicted>>

SetPolicy(d) ==
    /\ d # days
    /\ days' = d
    /\ sweep' = 0 /\ anon' = None
    /\ UNCHANGED <<now, head, rows, catalog, tombs, pending, acks, journal, generation, plan, seen,
                   remote, view, ghosts>>

\* A kind is retired: positions of the old epoch no longer count.
Retire ==
    /\ head.epoch < MaxEpochs
    /\ head' = [head EXCEPT !.epoch = @ + 1]
    /\ UNCHANGED <<now, days, rows, catalog, tombs, pending, sweep, anon, acks, journal, generation,
                   plan, seen, remote, view, ghosts>>

\* The path comes to name a fresh database.
Replace ==
    /\ head.epoch < MaxEpochs
    /\ head' = [epoch |-> head.epoch + 1, rev |-> 0]
    /\ rows' = {} /\ tombs' = {}
    /\ catalog' = [s \in Sessions |-> None] /\ pending' = [s \in Sessions |-> 0]
    /\ sweep' = 0 /\ anon' = None /\ days' = DefaultDays
    /\ acks' = [c \in Consumers |-> None]
    /\ generation' = 0 /\ journal' = [g \in {} |-> {}]
    /\ forgotten' = {}
    /\ UNCHANGED <<now, plan, seen, remote, view, uids, evicted>>

-----------------------------------------------------------------------------
(* Uploaders.                                                              *)

\* Mutant: a consumer starts without an epoch.
Register_NoEpoch(c) ==
    /\ acks[c] = None
    /\ acks' = [acks EXCEPT ![c] = [epoch |-> None, rev |-> 0]]
    /\ UNCHANGED <<now, days, head, rows, catalog, tombs, pending, sweep, anon, journal, generation,
                   plan, seen, remote, view, ghosts>>

Register(c) ==
    /\ acks[c] = None
    /\ acks' = [acks EXCEPT ![c] = [epoch |-> 0, rev |-> 0]]
    /\ UNCHANGED <<now, days, head, rows, catalog, tombs, pending, sweep, anon, journal, generation,
                   plan, seen, remote, view, ghosts>>

Remove(c) ==
    /\ acks[c] # None
    /\ acks' = [acks EXCEPT ![c] = None]
    /\ UNCHANGED <<now, days, head, rows, catalog, tombs, pending, sweep, anon, journal, generation,
                   plan, seen, remote, view, ghosts>>

\* An uploader drains the feed from its position, or from the start when that
\* is of another epoch, and carries out what it read.
Upload(c) ==
    /\ seen[c] # head
    /\ LET from == IF seen[c].epoch = head.epoch THEN seen[c].rev ELSE 0
       IN  remote' = [remote EXCEPT ![c] =
                (@ \cup Uids({r \in rows : r.rev > from})) \ Uids({t \in tombs : t.rev > from})]
    /\ seen' = [seen EXCEPT ![c] = head]
    /\ UNCHANGED <<now, db, plan, view, ghosts>>

\* Mutant: the position's epoch is not compared.
Acknowledge_AnyEpoch(c) ==
    /\ acks[c] # None
    /\ seen[c].rev <= head.rev
    /\ LET position == [epoch |-> head.epoch, rev |-> seen[c].rev]
       IN  /\ acks[c] # position
           /\ acks' = [acks EXCEPT ![c] = position]
    /\ UNCHANGED <<now, days, head, rows, catalog, tombs, pending, sweep, anon, journal, generation,
                   plan, seen, remote, view, ghosts>>

\* acknowledge_retention of the position reached, at any time after.
Acknowledge(c) ==
    /\ acks[c] # None
    /\ seen[c].epoch = head.epoch /\ seen[c].rev <= head.rev
    /\ LET position == [epoch |-> head.epoch,
                        rev |-> IF acks[c].epoch = head.epoch THEN Max({acks[c].rev, seen[c].rev})
                                ELSE seen[c].rev]
       IN  /\ acks[c] # position
           /\ acks' = [acks EXCEPT ![c] = position]
    /\ UNCHANGED <<now, days, head, rows, catalog, tombs, pending, sweep, anon, journal, generation,
                   plan, seen, remote, view, ghosts>>

-----------------------------------------------------------------------------
(* Maintenance.                                                            *)

\* All recorded activity, the catalog's among it.
Activity(s) ==
    Max({0, pending[s]} \cup {r.ts : r \in Payload(s)}
        \cup (IF catalog[s] = None THEN {} ELSE {catalog[s].last}))

Cutoff(day, keep) == IF day > keep THEN day - keep ELSE 0
Expired(s, cutoff) == Activity(s) # 0 /\ Activity(s) < cutoff

Registered == {c \in Consumers : acks[c] # None}

\* None: nobody is registered, or somebody is at another epoch.
UploadFloor ==
    IF Registered # {} /\ \A c \in Registered : acks[c].epoch = head.epoch
    THEN Min({acks[c].rev : c \in Registered})
    ELSE None

\* Mutant: relationships of the session are not looked at.
Uploaded_Own(s, floor) ==
    /\ catalog[s] # None => catalog[s].rev <= floor
    /\ \A r \in Payload(s) : r.rev <= floor

\* Every row of the session, and every relationship that names it.
Uploaded(s, floor) ==
    /\ catalog[s] # None => catalog[s].rev <= floor
    /\ \A r \in Naming(s) : r.rev <= floor

\* The sessions after the cursor that have anything to evict, at most a page.
Candidates ==
    LET after == {s \in Sessions : s > sweep /\ (catalog[s] # None \/ pending[s] # 0 \/ Payload(s) # {})}
    IN  {s \in after : Cardinality({t \in after : t < s}) < ScanLimit}

\* prepare and plan, on a reader.
Plan(w, allow) ==
    /\ plan[w] = None
    /\ days # 0
    /\ LET expired == {s \in Candidates : Expired(s, Cutoff(now, days))}
           candidate == IF expired = {} THEN 0 ELSE Min(expired)
       IN  plan' = [plan EXCEPT ![w] =
              [days |-> days, after |-> sweep, now |-> now, allow |-> allow, candidate |-> candidate,
               through |-> IF candidate # 0 THEN candidate
                           ELSE IF Candidates = {} THEN 0 ELSE Max(Candidates)]]
    /\ UNCHANGED <<now, db, seen, remote, view, ghosts>>

\* The lock is taken by a capture, the cooldown has not passed, or the process
\* stops.
Discard(w) ==
    /\ plan[w] # None
    /\ plan' = [plan EXCEPT ![w] = None]
    /\ UNCHANGED <<now, db, seen, remote, view, ghosts>>

\* Mutant: the user's deletions leave the feed too.
SuppressTombstones_All(set, after) == {}

SuppressTombstones(set, after) == {t \in set : t.rev <= after}

\* Rows go, their deletions leave the feed again, and the generation moves.
Evicts(gone, unlisted, affected, allow) ==
    LET delisted == {s \in unlisted : catalog[s] # None}
        moved == gone # {} \/ delisted # {}
    IN  /\ rows' = rows \ gone
        /\ catalog' = [s \in Sessions |-> IF s \in unlisted THEN None ELSE catalog[s]]
        /\ head' = [head EXCEPT !.rev = @ + Cardinality(gone) + Cardinality(delisted)]
        /\ tombs' = SuppressTombstones(
                        tombs \cup {[uid |-> r.uid, of |-> r.of, rev |-> head'.rev] : r \in gone},
                        head.rev)
        /\ generation' = IF moved THEN generation + 1 ELSE generation
        /\ journal' = IF moved
                      THEN [g \in {k \in DOMAIN journal \cup {generation'} : k + Kept > generation'} |->
                               IF g = generation' THEN affected ELSE journal[g]]
                      ELSE journal
        /\ evicted' = evicted \cup {[uid |-> u, for |-> IF allow THEN {} ELSE Registered] : u \in Uids(gone)}

\* evict: some of the session's rows, at most max_rows, evidence first; and its
\* catalog row once a batch finds fewer than it may take.
Evict(s, allow) ==
    LET first == Least(MaxRows, Cardinality(Payload(s)))
        left == MaxRows - first
        second == IF left = 0 THEN 0 ELSE Least(left, Cardinality(Edges(s)))
        complete == left > 0 /\ second < left
    IN  \E gone \in SUBSET Naming(s) :
           /\ Cardinality(gone \cap Payload(s)) = first
           /\ Cardinality(gone \cap Edges(s)) = second
           /\ Evicts(gone, IF complete THEN {s} ELSE {}, {s} \cup UNION {r.of : r \in gone}, allow)
           /\ pending' = [pending EXCEPT ![s] = IF complete THEN 0 ELSE Activity(s)]
           /\ sweep' = IF complete THEN s ELSE sweep

\* Mutant: the sweep of the sessions does not start over.
Resweep_Never(short, all) == sweep

Resweep(short, all) == IF short \/ ~all THEN 0 ELSE sweep

\* anonymous::prune: the next page of expired prompts, of which those go that
\* every destination has; a short page starts over.
Prune(cutoff, floor, allow) ==
    LET Before(r, q) == r.ts < q.ts \/ (r.ts = q.ts /\ r.uid < q.uid)
        after == {r \in Anonymous : r.ts < cutoff /\ (anon # None => Before(anon, r))}
        page == {r \in after : Cardinality({q \in after : Before(q, r)}) < MaxRows}
        gone == {r \in page : r.rev <= floor}
        last == CHOOSE r \in page : \A q \in page : q = r \/ Before(q, r)
        short == Cardinality(page) < MaxRows
    IN  /\ Evicts(gone, {}, {}, allow)
        /\ anon' = IF short THEN None ELSE [ts |-> last.ts, uid |-> last.uid]
        /\ sweep' = Resweep(short, gone = page)
        /\ UNCHANGED pending

\* The candidate became active since it was planned, or is not uploaded.
Spared(p, cutoff, floor) ==
    \/ ~Expired(p.candidate, cutoff)
    \/ ~p.allow /\ ~Uploaded(p.candidate, floor)

\* Mutant: the policy a plan was made for is not compared with the one in force.
Obsolete_AnyPolicy(p) == sweep # p.after

\* The policy was set, or another worker moved the cursor, since the plan.
Obsolete(p) == days # p.days \/ sweep # p.after

\* One IMMEDIATE transaction: nothing if the policy or the cursor moved since
\* the plan, nothing without a floor; else the candidate, or what comes next.
Apply(w) ==
    /\ plan[w] # None
    /\ plan' = [plan EXCEPT ![w] = None]
    /\ LET p == plan[w]
           cutoff == Cutoff(p.now, p.days)
           floor == IF UploadFloor = None THEN 0 ELSE UploadFloor
       IN  \/ /\ Obsolete(p) \/ (~p.allow /\ UploadFloor = None)
              /\ UNCHANGED <<head, rows, catalog, tombs, pending, sweep, anon, journal, generation, evicted>>
           \/ /\ ~Obsolete(p) /\ (p.allow \/ UploadFloor # None)
              /\ p.through # 0 /\ (p.candidate # 0 => Spared(p, cutoff, floor))
              /\ sweep' = p.through
              /\ UNCHANGED <<head, rows, catalog, tombs, pending, anon, journal, generation, evicted>>
           \/ /\ ~Obsolete(p) /\ (p.allow \/ UploadFloor # None)
              /\ p.candidate # 0 /\ ~Spared(p, cutoff, floor)
              /\ Evict(p.candidate, p.allow)
              /\ UNCHANGED anon
           \/ /\ ~Obsolete(p) /\ (p.allow \/ UploadFloor # None)
              /\ p.through = 0
              /\ Prune(cutoff, IF p.allow THEN head.rev ELSE floor, p.allow)
    /\ UNCHANGED <<now, days, acks, seen, remote, view, uids, forgotten>>

-----------------------------------------------------------------------------
(* A reader that refreshes what changed: the sessions the journal names,   *)
(* and those the feed names.                                               *)

\* Mutant: a gap in the journal goes unnoticed.
Changes_Gap(after) == UNION {journal[g] : g \in {k \in DOMAIN journal : k > after}}

\* retention_changes_since; None: rebuild.
Changes(after) ==
    IF after > generation \/ generation - after > Kept \/ ~(after + 1..generation) \subseteq DOMAIN journal
    THEN None
    ELSE UNION {journal[g] : g \in after + 1..generation}

\* The sessions the feed names after a revision.
Fed(after) ==
    (UNION {x.of : x \in {y \in rows \cup tombs : y.rev > after}})
    \cup {s \in Sessions : catalog[s] # None /\ catalog[s].rev > after}

Refresh(d) ==
    LET v == view[d]
        changed == Changes(v.generation)
    IN  /\ <<v.epoch, v.rev, v.generation>> # <<head.epoch, head.rev, generation>>
        /\ view' = [view EXCEPT ![d] =
              [epoch |-> head.epoch, rev |-> head.rev, generation |-> generation,
               shown |-> [s \in Sessions |->
                   IF changed = None \/ v.epoch # head.epoch \/ s \in changed \cup Fed(v.rev)
                   THEN Shown(s) ELSE v.shown[s]]]]
        /\ UNCHANGED <<now, db, plan, seen, remote, ghosts>>

-----------------------------------------------------------------------------
Init ==
    /\ now = 1
    /\ head = [epoch |-> 1, rev |-> 0]
    /\ rows = {} /\ tombs = {}
    /\ catalog = [s \in Sessions |-> None] /\ pending = [s \in Sessions |-> 0]
    /\ sweep = 0 /\ anon = None /\ days = DefaultDays
    /\ acks = [c \in Consumers |-> None]
    /\ generation = 0 /\ journal = [g \in {} |-> {}]
    /\ plan = [w \in Workers |-> None]
    /\ seen = [c \in Consumers |-> [epoch |-> 0, rev |-> 0]]
    /\ remote = [c \in Consumers |-> {}]
    /\ view = [d \in Readers |-> [epoch |-> 0, rev |-> 0, generation |-> 0,
                                  shown |-> [s \in Sessions |-> [listed |-> FALSE, rows |-> {}]]]]
    /\ uids = 0 /\ forgotten = {} /\ evicted = {}

Next ==
    \/ Tick \/ Write \/ Retire \/ Replace
    \/ \E d \in Readers : Refresh(d)
    \/ \E r \in rows : Forget(r)
    \/ \E d \in Policies : SetPolicy(d)
    \/ \E c \in Consumers : Register(c) \/ Remove(c) \/ Upload(c) \/ Acknowledge(c)
    \/ \E w \in Workers : (\E allow \in Allow : Plan(w, allow)) \/ Discard(w) \/ Apply(w)

Spec == Init /\ [][Next]_vars

\* The host runs the worker again and again, and no capture holds the lock each
\* time; an uploader that is registered keeps uploading.
Fairness ==
    /\ \A w \in Workers : WF_vars(\E allow \in Allow : Plan(w, allow)) /\ SF_vars(Apply(w))
    /\ \A c \in Consumers : WF_vars(Upload(c)) /\ WF_vars(Acknowledge(c))

FairSpec == Spec /\ Fairness

-----------------------------------------------------------------------------
\* Every variable holds a value of its kind.
TypeOK ==
    /\ now \in Nat /\ days \in Nat /\ head \in Position /\ generation \in Nat
    /\ rows \subseteq Row
    /\ catalog \in [Sessions -> Listing \cup {None}]
    /\ tombs \subseteq [uid : Nat, of : SUBSET Sessions, rev : Nat]
    /\ pending \in [Sessions -> Nat] /\ sweep \in 0..N
    /\ anon \in Prompt \cup {None}
    /\ acks \in [Consumers -> Position \cup {None}]
    /\ DOMAIN journal \subseteq Nat /\ \A g \in DOMAIN journal : journal[g] \subseteq Sessions
    /\ plan \in [Workers -> Planned \cup {None}]
    /\ seen \in [Consumers -> Position] /\ remote \in [Consumers -> SUBSET Nat]
    /\ view \in [Readers -> [epoch : Nat, rev : Nat, generation : Nat,
                             shown : [Sessions -> [listed : BOOLEAN, rows : SUBSET Nat]]]]
    /\ uids \in Nat /\ forgotten \subseteq Nat
    /\ evicted \subseteq [uid : Nat, for : SUBSET Consumers]

\* What was evicted is kept where it had to be: every destination registered at
\* the time holds it, and no later upload retracts it, though acknowledgements
\* come late, consumers are removed and registered again and epochs change
\* (maintenance.rs: upload_floor, suppress_tombstones; retention.rs:
\* acknowledge_retention, "Local eviction never retracts remote copies").
RemoteKept == \A e \in evicted : \A c \in e.for : e.uid \in remote[c]

\* A deletion by the user reaches every destination that is up to date: evictions
\* take no older deletion out of the feed (maintenance.rs: suppress_tombstones,
\* "older real deletions stay").
ForgottenGone == \A c \in Consumers : seen[c] = head => remote[c] \cap forgotten = {}

\* A reader that follows the generation and the feed shows what is stored, after
\* any number of batches, expired journal entries and relationships that ended
\* with their other session (changes.rs: record, read; relationships.rs: delete).
ViewExact ==
    \A d \in Readers :
        <<view[d].epoch, view[d].rev, view[d].generation>> = <<head.epoch, head.rev, generation>> =>
            \A s \in Sessions : view[d].shown[s] = Shown(s)

\* A step evicts only what has expired by the policy in force, and nothing under
\* 'forever', whatever was written and set since the worker planned it
\* (maintenance.rs: run, process_session).
OnlyExpired ==
    [][generation' > generation =>
          LET cutoff == Cutoff(now, days)
              Old(s) == Activity(s) < cutoff
          IN  /\ days # 0
              /\ \A r \in rows \ rows' : IF r.of = {} THEN r.ts < cutoff ELSE \E s \in r.of : Old(s)
              /\ \A s \in Sessions : catalog[s] # catalog'[s] => Old(s)
      ]_vars

\* While a policy and a destination stay, everything that expires is evicted in
\* the end, sessions of several batches and anonymous prompts included
\* (maintenance.rs: apply_batch, evict; anonymous.rs: prune).
Drained ==
    <>[](days # 0 /\ Registered # {}) =>
        <>[](/\ \A s \in Sessions : ~Expired(s, Cutoff(now, days))
             /\ \A r \in Anonymous : r.ts >= Cutoff(now, days))
=============================================================================
