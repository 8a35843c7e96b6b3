--------------------------- MODULE RetentionProofs --------------------------
(***************************************************************************)
(* Proofs about Retention: what is evicted stays where it was uploaded,    *)
(* what the user deletes goes everywhere, a reader of the generation and   *)
(* the feed shows what is stored, and only what expired is evicted, for    *)
(* any number of sessions, workers, destinations and readers.              *)
(***************************************************************************)
EXTENDS Retention, Extrema, FiniteSetTheorems

-----------------------------------------------------------------------------
(* The inductive invariant.                                                *)

\* Nothing is dated after today, and no plan was made after it or for 'forever'.
Dated ==
    /\ \A r \in rows : r.ts <= now
    /\ \A s \in Sessions : pending[s] <= now /\ (catalog[s] # None => catalog[s].last <= now)
    /\ \A w \in Workers : plan[w] # None => plan[w].now <= now /\ plan[w].days # 0

\* The feed's newest revision bounds every revision, and every row and deletion has one.
Numbered ==
    /\ \A r \in rows : r.rev <= head.rev /\ r.rev > 0
    /\ \A t \in tombs : t.rev <= head.rev /\ t.rev > 0
    /\ \A s \in Sessions : catalog[s] # None => catalog[s].rev <= head.rev

\* A row is told by its uid, and is stored, deleted or evicted, one of them.
Apart ==
    /\ IsFiniteSet(rows)
    /\ \A r \in rows : r.uid <= uids
    /\ \A r, q \in rows : r.uid = q.uid => r = q
    /\ \A u \in forgotten : u <= uids
    /\ \A e \in evicted : e.uid <= uids /\ e.uid \notin forgotten
    /\ \A r \in rows : r.uid \notin forgotten /\ \A e \in evicted : e.uid # r.uid

\* The deletions in the feed are the user's, and all of them.
Told == Uids(tombs) = forgotten

\* No position is of an epoch to come, and none of a consumer that did not
\* acknowledge anything is of the present one.
Epochs ==
    /\ head.epoch > 0
    /\ \A c \in Consumers : seen[c].epoch <= head.epoch /\ (acks[c] # None => acks[c].epoch <= head.epoch)
    /\ \A d \in Readers : view[d].epoch <= head.epoch

\* An uploader's position says what its destination holds: the rows up to it,
\* and no row whose deletion is up to it.
Reached(c) ==
    seen[c].epoch = head.epoch =>
        /\ seen[c].rev <= head.rev
        /\ \A r \in rows : r.rev <= seen[c].rev => r.uid \in remote[c]
        /\ \A t \in tombs : t.rev <= seen[c].rev => t.uid \notin remote[c]

\* So does the position a consumer acknowledged, for the rows.
Acked(c) ==
    acks[c] # None /\ acks[c].epoch = head.epoch =>
        /\ acks[c].rev <= head.rev
        /\ \A r \in rows : r.rev <= acks[c].rev => r.uid \in remote[c]

\* What a reader shows of a session is what is stored, or the session is one
\* that the journal or the feed names after its position, or the journal no
\* longer reaches back that far.
Followed(d) ==
    LET v == view[d]
    IN  v.epoch = head.epoch =>
            /\ v.rev <= head.rev /\ v.generation <= generation
            /\ \/ Changes(v.generation) = None
               \/ \A s \in Sessions : \/ s \in Changes(v.generation) \cup Fed(v.rev)
                                      \/ v.shown[s] = Shown(s)

Uploads == \A c \in Consumers : Reached(c) /\ Acked(c)
Views == \A d \in Readers : Followed(d)

IInv == TypeOK /\ Dated /\ Numbered /\ Apart /\ Told /\ Epochs /\ Uploads /\ RemoteKept /\ Views
-----------------------------------------------------------------------------
(* What the operators of maintenance return.                               *)

USE DEF Position, Row, Listing, Prompt, Planned

\* The activity of a session is a day that has been.
LEMMA ActivityDated ==
    ASSUME TypeOK, Dated, NEW s \in Sessions
    PROVE  Activity(s) \in Nat /\ Activity(s) <= now
<1> DEFINE S == {0, pending[s]} \cup {r.ts : r \in Payload(s)}
                \cup (IF catalog[s] = None THEN {} ELSE {catalog[s].last})
<1>1. now \in Nat /\ pending[s] \in Nat /\ pending[s] <= now
  BY DEF TypeOK, Dated
<1>2. \A r \in Payload(s) : r.ts \in Nat /\ r.ts <= now
  BY DEF TypeOK, Dated, Payload
<1>3. catalog[s] # None => catalog[s].last \in Nat /\ catalog[s].last <= now
  BY DEF TypeOK, Dated
<1>4. S \in SUBSET Nat /\ S # {} /\ \A n \in S : n <= now
  BY <1>1, <1>2, <1>3
<1>5. Max(S) \in S /\ Max(S) <= now
  <2> HIDE DEF S
  <2> QED  BY <1>1, <1>4, MaxIsGreatest
<1> QED  BY <1>4, <1>5 DEF Activity

\* The floor is a revision that every registered consumer acknowledged.
LEMMA FloorAcknowledged ==
    ASSUME TypeOK, UploadFloor # None
    PROVE  /\ UploadFloor \in Nat
           /\ \A c \in Registered : acks[c].epoch = head.epoch /\ UploadFloor <= acks[c].rev
<1> DEFINE S == {acks[c].rev : c \in Registered}
<1>1. Registered # {} /\ \A c \in Registered : acks[c].epoch = head.epoch
  BY DEF UploadFloor
<1>2. S \in SUBSET Nat /\ S # {}
  <2>1. \A c \in Registered : acks[c].rev \in Nat
    BY DEF TypeOK, Registered
  <2> QED  BY <1>1, <2>1
<1>3. Min(S) \in S /\ \A n \in S : Min(S) <= n
  <2> HIDE DEF S
  <2> QED  BY <1>2, MinIsLeast
<1>4. UploadFloor = Min(S)
  BY <1>1 DEF UploadFloor
<1> QED  BY <1>1, <1>2, <1>3, <1>4

\* Cutoffs are days, and move on with the day.
LEMMA CutoffGrows ==
    ASSUME NEW a \in Nat, NEW b \in Nat, a <= b, NEW k \in Nat
    PROVE  Cutoff(a, k) \in Nat /\ Cutoff(b, k) \in Nat /\ Cutoff(a, k) <= Cutoff(b, k)
BY DEF Cutoff

\* A page holds some of the sessions, so it has an end.
LEMMA CandidatesAreSessions == Candidates \subseteq Sessions
BY DEF Candidates

\* What a plan names are sessions, or 0.
LEMMA PlanType ==
    ASSUME TypeOK, NEW w \in Workers, NEW allow \in Allow, Plan(w, allow)
    PROVE  plan'[w] \in Planned /\ plan'[w].now = now /\ plan'[w].days # 0
<1> DEFINE expired == {s \in Candidates : Expired(s, Cutoff(now, days))}
           candidate == IF expired = {} THEN 0 ELSE Min(expired)
           through == IF candidate # 0 THEN candidate
                      ELSE IF Candidates = {} THEN 0 ELSE Max(Candidates)
<1>1. N \in Nat /\ allow \in BOOLEAN
  BY RetentionAssumption
<1>2. Sessions \in SUBSET Nat /\ (\A s \in Sessions : s <= N) /\ Sessions \subseteq 0..N /\ 0 \in 0..N
  BY <1>1 DEF Sessions
<1>3. candidate \in 0..N
  <2>1. expired \in SUBSET Nat /\ expired \subseteq 0..N
    BY <1>2, CandidatesAreSessions
  <2> HIDE DEF expired
  <2>2. CASE expired = {}
    BY <1>2, <2>2
  <2>3. CASE expired # {}
    <3>1. Min(expired) \in expired
      BY <2>1, <2>3, MinIsLeast
    <3> QED  BY <2>1, <2>3, <3>1
  <2> QED  BY <2>2, <2>3
<1>4. through \in 0..N
  <2> HIDE DEF candidate
  <2>1. Candidates \in SUBSET Nat /\ Candidates \subseteq 0..N /\ \A s \in Candidates : s <= N
    BY <1>2, CandidatesAreSessions
  <2>2. Candidates # {} => Max(Candidates) \in Candidates
    BY <1>1, <2>1, MaxIsGreatest
  <2> QED  BY <1>2, <1>3, <2>1, <2>2
<1>5. plan'[w] = [days |-> days, after |-> sweep, now |-> now, allow |-> allow,
                  candidate |-> candidate, through |-> through]
  BY DEF Plan, TypeOK
<1>6. days # 0
  BY DEF Plan
<1> HIDE DEF candidate, through
<1> QED  BY <1>1, <1>3, <1>4, <1>5, <1>6 DEF TypeOK

-----------------------------------------------------------------------------
(* Evictions.                                                              *)

\* What a batch may take: stored rows, whose sessions are noted, and unless
\* the user allows otherwise rows that every registered destination holds.
Fit(gone, unlisted, affected, allow) ==
    /\ gone \subseteq rows /\ unlisted \subseteq affected /\ affected \subseteq Sessions
    /\ \A r \in gone : r.of \subseteq affected
    /\ allow \in BOOLEAN
    /\ ~allow => \A r \in gone : \A c \in Registered : r.uid \in remote[c]

\* ... and whose session, or which themselves, expired.
Stale(gone, unlisted, cutoff) ==
    /\ \A r \in gone : IF r.of = {} THEN r.ts < cutoff ELSE \E s \in r.of : Activity(s) < cutoff
    /\ \A s \in unlisted : Activity(s) < cutoff

\* A batch counts its revisions on, and leaves the deletions as they were: its
\* own come after the revision it began at, and are suppressed.
LEMMA EvictsFeed ==
    ASSUME TypeOK, Numbered, Apart, NEW gone, NEW unlisted, NEW affected, NEW allow,
           Fit(gone, unlisted, affected, allow), Evicts(gone, unlisted, affected, allow)
    PROVE  /\ tombs' = tombs
           /\ head' \in Position /\ head'.epoch = head.epoch /\ head.rev <= head'.rev
<1> DEFINE delisted == {s \in unlisted : catalog[s] # None}
           new == {[uid |-> r.uid, of |-> r.of, rev |-> head'.rev] : r \in gone}
<1>1. IsFiniteSet(gone) /\ Cardinality(gone) \in Nat /\ (gone # {} => Cardinality(gone) > 0)
  <2>1. IsFiniteSet(gone)
    BY FS_Subset DEF Fit, Apart
  <2> QED  BY <2>1, FS_CardinalityType, FS_EmptySet
<1>2. Cardinality(delisted) \in Nat
  <2>1. IsFiniteSet(1..N)
    BY FS_Interval, RetentionAssumption
  <2>2. delisted \in SUBSET (1..N)
    BY DEF Fit, Sessions
  <2> QED  BY <2>1, <2>2, FS_Subset, FS_CardinalityType
<1>3. head' = [head EXCEPT !.rev = @ + Cardinality(gone) + Cardinality(delisted)]
  BY DEF Evicts
<1> HIDE DEF delisted
<1>4. /\ head' \in Position /\ head'.epoch = head.epoch /\ head.rev \in Nat
      /\ head'.rev = head.rev + Cardinality(gone) + Cardinality(delisted)
  BY <1>1, <1>2, <1>3 DEF TypeOK
<1>5. tombs' = SuppressTombstones(tombs \cup new, head.rev)
  BY DEF Evicts
<1>6. \A t \in new : t.rev > head.rev
  <2> SUFFICES ASSUME NEW r \in gone PROVE head'.rev > head.rev
    OBVIOUS
  <2> QED  BY <1>1, <1>2, <1>4
<1>7. \A t \in tombs : t.rev <= head.rev
  BY DEF Numbered
<1> HIDE DEF new
<1>8. \A t \in new : ~(t.rev <= head.rev)
  <2>1. \A t \in new : t.rev = head'.rev
    BY DEF new
  <2> QED  BY <2>1, <1>4, <1>6
<1>9. tombs' = tombs
  BY <1>5, <1>7, <1>8 DEF SuppressTombstones
<1> QED  BY <1>1, <1>2, <1>4, <1>9

\* The batch of a session.
LEMMA EvictFits ==
    ASSUME TypeOK, Dated, Apart, NEW s \in Sessions, NEW allow \in BOOLEAN, NEW cutoff,
           Expired(s, cutoff), Evict(s, allow),
           ~allow => \A r \in Naming(s) : \A c \in Registered : r.uid \in remote[c]
    PROVE  /\ \E gone, unlisted, affected :
                 /\ Fit(gone, unlisted, affected, allow)
                 /\ Evicts(gone, unlisted, affected, allow)
                 /\ Stale(gone, unlisted, cutoff)
           /\ pending' \in [Sessions -> Nat] /\ \A x \in Sessions : pending'[x] <= now
           /\ sweep' \in 0..N
<1> DEFINE first == Least(MaxRows, Cardinality(Payload(s)))
           left == MaxRows - first
           second == IF left = 0 THEN 0 ELSE Least(left, Cardinality(Edges(s)))
           complete == left > 0 /\ second < left
<1>1. PICK gone \in SUBSET Naming(s) :
         /\ Evicts(gone, IF complete THEN {s} ELSE {}, {s} \cup UNION {r.of : r \in gone}, allow)
         /\ pending' = [pending EXCEPT ![s] = IF complete THEN 0 ELSE Activity(s)]
         /\ sweep' = IF complete THEN s ELSE sweep
  BY Zenon DEF Evict
<1> HIDE DEF complete
<1> DEFINE unlisted == IF complete THEN {s} ELSE {}
           affected == {s} \cup UNION {r.of : r \in gone}
<1>2. gone \subseteq rows /\ \A r \in gone : s \in r.of /\ r.of \subseteq Sessions
  BY DEF Naming, TypeOK
<1>3. Fit(gone, unlisted, affected, allow)
  <2>1. affected \subseteq Sessions /\ unlisted \subseteq affected /\ \A r \in gone : r.of \subseteq affected
    BY <1>2
  <2> HIDE DEF unlisted, affected
  <2> QED  BY <1>2, <2>1 DEF Fit
<1>4. Stale(gone, unlisted, cutoff)
  BY <1>2 DEF Stale, Expired
<1>5. Evicts(gone, unlisted, affected, allow)
  BY <1>1
<1>6. pending' \in [Sessions -> Nat] /\ \A x \in Sessions : pending'[x] <= now
  <2>1. Activity(s) \in Nat /\ Activity(s) <= now /\ now \in Nat
    BY ActivityDated DEF TypeOK
  <2> QED  BY <1>1, <2>1 DEF TypeOK, Dated
<1>7. sweep' \in 0..N
  BY <1>1, RetentionAssumption DEF TypeOK, Sessions
<1> QED
  <2> HIDE DEF unlisted, affected
  <2> QED  BY <1>3, <1>4, <1>5, <1>6, <1>7

\* The batch of anonymous prompts: a full page has a last prompt.
LEMMA PruneFits ==
    ASSUME TypeOK, Dated, Apart, NEW allow \in BOOLEAN, NEW cutoff, NEW floor,
           Prune(cutoff, floor, allow),
           ~allow => \A r \in rows : r.rev <= floor => \A c \in Registered : r.uid \in remote[c]
    PROVE  /\ \E gone, unlisted, affected :
                 /\ Fit(gone, unlisted, affected, allow)
                 /\ Evicts(gone, unlisted, affected, allow)
                 /\ Stale(gone, unlisted, cutoff)
           /\ pending' = pending /\ sweep' \in 0..N /\ anon' \in Prompt \cup {None}
<1> DEFINE Before(r, q) == r.ts < q.ts \/ (r.ts = q.ts /\ r.uid < q.uid)
           after == {r \in Anonymous : r.ts < cutoff /\ (anon # None => Before(anon, r))}
           page == {r \in after : Cardinality({q \in after : Before(q, r)}) < MaxRows}
           gone == {r \in page : r.rev <= floor}
           last == CHOOSE r \in page : \A q \in page : q = r \/ Before(q, r)
           short == Cardinality(page) < MaxRows
<1>1. /\ Evicts(gone, {}, {}, allow)
      /\ anon' = IF short THEN None ELSE [ts |-> last.ts, uid |-> last.uid]
      /\ sweep' = Resweep(short, gone = page)
      /\ pending' = pending
  BY Zenon DEF Prune
<1>2. page \subseteq rows /\ \A r \in page : r.of = {} /\ r.ts < cutoff
  BY DEF Anonymous
<1>3. gone \subseteq page /\ \A r \in gone : r.rev <= floor
  OBVIOUS
<1> HIDE DEF gone
<1>4. page # {} => last \in page
  <2> HIDE DEF after
  <2> HIDE DEF page
  <2> SUFFICES ASSUME page # {} PROVE \E r \in page : \A q \in page : q = r \/ Before(q, r)
    OBVIOUS
  <2> DEFINE days_ == {r.ts : r \in page}
  <2>1. \A r \in page : r.ts \in Nat /\ r.ts <= now /\ r.uid \in Nat /\ r.uid <= uids
    BY <1>2 DEF TypeOK, Dated, Apart
  <2>2. now \in Nat /\ uids \in Nat
    BY DEF TypeOK
  <2>3. days_ \in SUBSET Nat /\ days_ # {} /\ \A n \in days_ : n <= now
    BY <2>1
  <2>4. PICK top \in days_ : \A n \in days_ : n <= top
    <3> HIDE DEF days_
    <3> QED  BY <2>2, <2>3, GreatestNatural
  <2> DEFINE ids == {r.uid : r \in {q \in page : q.ts = top}}
  <2>5. ids \in SUBSET Nat /\ ids # {} /\ \A n \in ids : n <= uids
    BY <2>1, <2>4
  <2>6. PICK id \in ids : \A n \in ids : n <= id
    <3> HIDE DEF ids
    <3> QED  BY <2>2, <2>5, GreatestNatural
  <2>7. PICK r \in page : r.ts = top /\ r.uid = id
    BY <2>6
  <2>8. ASSUME NEW q \in page, q # r PROVE Before(q, r)
    <3>1. q.ts <= top /\ q.ts \in Nat /\ top \in Nat /\ q.uid \in Nat /\ id \in Nat
      BY <2>1, <2>3, <2>4, <2>7
    <3>2. q.ts = top => q.uid <= id /\ q.uid # id
      <4>1. q.ts = top => q.uid \in ids
        OBVIOUS
      <4>2. q.uid # r.uid
        BY <2>8, <1>2 DEF Apart
      <4> QED  BY <4>1, <4>2, <2>6, <2>7
    <3> QED  BY <3>1, <3>2, <2>7
  <2> QED  BY <2>8
<1>5. ~short => page # {}
  <2> HIDE DEF page
  <2> QED  BY FS_EmptySet, RetentionAssumption
<1>6. ~short => [ts |-> last.ts, uid |-> last.uid] \in Prompt
  <2> HIDE DEF page, last, short
  <2>1. last \in page => last.ts \in Nat /\ last.uid \in Nat
    BY <1>2 DEF TypeOK
  <2> QED  BY <1>4, <1>5, <2>1
<1> HIDE DEF page, last, short
<1>7. Fit(gone, {}, {}, allow) /\ Stale(gone, {}, cutoff)
  BY <1>2, <1>3 DEF Fit, Stale
<1>8. sweep' \in 0..N
  BY <1>1, RetentionAssumption DEF Resweep, TypeOK
<1> QED  BY <1>1, <1>6, <1>7, <1>8

\* What an application of a plan comes to: the cursor moves, or a batch goes
\* that is fit and of what expired by the policy of today.
Batch ==
    /\ days # 0
    /\ \E gone, unlisted, affected, allow :
        /\ Fit(gone, unlisted, affected, allow)
        /\ Evicts(gone, unlisted, affected, allow)
        /\ Stale(gone, unlisted, Cutoff(now, days))

Nothing == UNCHANGED <<head, rows, catalog, tombs, pending, anon, journal, generation, evicted>>

LEMMA ApplyCases ==
    ASSUME TypeOK, Dated, Apart, Uploads, NEW w \in Workers, Apply(w)
    PROVE  /\ Nothing \/ Batch
           /\ sweep' \in 0..N /\ anon' \in Prompt \cup {None}
           /\ pending' \in [Sessions -> Nat] /\ \A s \in Sessions : pending'[s] <= now
<1> DEFINE p == plan[w]
           cutoff == Cutoff(p.now, p.days)
           floor == IF UploadFloor = None THEN 0 ELSE UploadFloor
<1>1. p \in Planned /\ p.now <= now /\ p.days # 0
  BY DEF Apply, TypeOK, Dated
<1>2. /\ pending \in [Sessions -> Nat] /\ \A s \in Sessions : pending[s] <= now
      /\ anon \in Prompt \cup {None} /\ sweep \in 0..N /\ now \in Nat /\ days \in Nat
  BY DEF TypeOK, Dated
<1>3. ASSUME UploadFloor # None
      PROVE  \A r \in rows : r.rev <= UploadFloor => \A c \in Registered : r.uid \in remote[c]
  <2> SUFFICES ASSUME NEW r \in rows, r.rev <= UploadFloor, NEW c \in Registered
               PROVE  r.uid \in remote[c]
    OBVIOUS
  <2>1. c \in Consumers /\ acks[c] # None /\ acks[c].rev \in Nat /\ r.rev \in Nat
    BY DEF Registered, TypeOK
  <2>2. UploadFloor \in Nat /\ acks[c].epoch = head.epoch /\ UploadFloor <= acks[c].rev
    BY <1>3, FloorAcknowledged
  <2>3. r.rev <= acks[c].rev
    BY <2>1, <2>2
  <2> QED  BY <2>1, <2>2, <2>3 DEF Uploads, Acked
<1>4. ASSUME days = p.days, NEW gone, NEW unlisted, Stale(gone, unlisted, cutoff), gone \subseteq rows,
             unlisted \subseteq Sessions
      PROVE  Stale(gone, unlisted, Cutoff(now, days))
  <2>1. cutoff \in Nat /\ Cutoff(now, days) \in Nat /\ cutoff <= Cutoff(now, days)
    BY <1>1, <1>2, <1>4, CutoffGrows
  <2> HIDE DEF cutoff
  <2>2. \A s \in Sessions : Activity(s) < cutoff => Activity(s) < Cutoff(now, days)
    BY <2>1, ActivityDated
  <2>3. \A r \in gone : r.ts \in Nat /\ r.of \subseteq Sessions
    BY <1>4 DEF TypeOK
  <2>4. ASSUME NEW r \in gone
        PROVE  IF r.of = {} THEN r.ts < Cutoff(now, days)
               ELSE \E s \in r.of : Activity(s) < Cutoff(now, days)
    <3>1. IF r.of = {} THEN r.ts < cutoff ELSE \E s \in r.of : Activity(s) < cutoff
      BY <1>4 DEF Stale
    <3> QED  BY <3>1, <2>1, <2>2, <2>3
  <2>5. \A s \in unlisted : Activity(s) < Cutoff(now, days)
    BY <1>4, <2>2 DEF Stale
  <2> QED  BY <2>4, <2>5 DEF Stale
<1>5. CASE /\ UNCHANGED <<head, rows, catalog, tombs, pending, sweep, anon, journal, generation, evicted>>
  BY <1>2, <1>5 DEF Nothing
<1>6. CASE /\ sweep' = p.through
           /\ UNCHANGED <<head, rows, catalog, tombs, pending, anon, journal, generation, evicted>>
  BY <1>1, <1>2, <1>6 DEF Nothing
<1>7. CASE /\ days = p.days /\ (p.allow \/ UploadFloor # None)
           /\ p.candidate # 0 /\ ~Spared(p, cutoff, floor)
           /\ Evict(p.candidate, p.allow)
           /\ UNCHANGED anon
  <2>1. p.candidate \in Sessions /\ p.allow \in BOOLEAN
    BY <1>1, <1>7, RetentionAssumption DEF Sessions
  <2>2. Expired(p.candidate, cutoff) /\ (~p.allow => Uploaded(p.candidate, floor))
    BY <1>7 DEF Spared
  <2>3. ~p.allow => \A r \in Naming(p.candidate) : \A c \in Registered : r.uid \in remote[c]
    BY <1>3, <1>7, <2>2 DEF Uploaded, Naming
  <2>4. /\ \E gone, unlisted, affected :
              /\ Fit(gone, unlisted, affected, p.allow)
              /\ Evicts(gone, unlisted, affected, p.allow)
              /\ Stale(gone, unlisted, cutoff)
        /\ pending' \in [Sessions -> Nat] /\ \A x \in Sessions : pending'[x] <= now
        /\ sweep' \in 0..N
    <3> HIDE DEF p, cutoff
    <3> QED  BY <1>7, <2>1, <2>2, <2>3, EvictFits
  <2>5. PICK gone, unlisted, affected :
              /\ Fit(gone, unlisted, affected, p.allow)
              /\ Evicts(gone, unlisted, affected, p.allow)
              /\ Stale(gone, unlisted, cutoff)
    BY <2>4
  <2>6. Stale(gone, unlisted, Cutoff(now, days))
    <3>1. gone \subseteq rows /\ unlisted \subseteq Sessions
      BY <2>5 DEF Fit
    <3> QED  BY <1>4, <1>7, <2>5, <3>1
  <2>7. Batch
    <3>1. days # 0
      BY <1>1, <1>7
    <3> QED  BY <2>5, <2>6, <3>1, Zenon DEF Batch
  <2> QED  BY <1>2, <1>7, <2>4, <2>7
<1>8. CASE /\ days = p.days /\ (p.allow \/ UploadFloor # None)
           /\ Prune(cutoff, IF p.allow THEN head.rev ELSE floor, p.allow)
  <2> DEFINE f == IF p.allow THEN head.rev ELSE floor
  <2>1. p.allow \in BOOLEAN
    BY <1>1
  <2>2. ~p.allow => \A r \in rows : r.rev <= f => \A c \in Registered : r.uid \in remote[c]
    BY <1>3, <1>8
  <2>3. /\ \E gone, unlisted, affected :
              /\ Fit(gone, unlisted, affected, p.allow)
              /\ Evicts(gone, unlisted, affected, p.allow)
              /\ Stale(gone, unlisted, cutoff)
        /\ pending' = pending /\ sweep' \in 0..N /\ anon' \in Prompt \cup {None}
    <3>1. Prune(cutoff, f, p.allow)
      BY <1>8
    <3> HIDE DEF p, cutoff, f
    <3> QED  BY <2>1, <2>2, <3>1, PruneFits
  <2>4. PICK gone, unlisted, affected :
              /\ Fit(gone, unlisted, affected, p.allow)
              /\ Evicts(gone, unlisted, affected, p.allow)
              /\ Stale(gone, unlisted, cutoff)
    BY <2>3
  <2>5. Stale(gone, unlisted, Cutoff(now, days))
    <3>1. gone \subseteq rows /\ unlisted \subseteq Sessions
      BY <2>4 DEF Fit
    <3> QED  BY <1>4, <1>8, <2>4, <3>1
  <2>6. Batch
    <3>1. days # 0
      BY <1>1, <1>8
    <3> QED  BY <2>4, <2>5, <3>1, Zenon DEF Batch
  <2> QED  BY <1>2, <2>3, <2>6
<1> HIDE DEF cutoff, floor
<1> QED
  <2>1. \/ UNCHANGED <<head, rows, catalog, tombs, pending, sweep, anon, journal, generation, evicted>>
        \/ /\ sweep' = p.through
           /\ UNCHANGED <<head, rows, catalog, tombs, pending, anon, journal, generation, evicted>>
        \/ /\ days = p.days /\ (p.allow \/ UploadFloor # None)
           /\ p.candidate # 0 /\ ~Spared(p, cutoff, floor)
           /\ Evict(p.candidate, p.allow)
           /\ UNCHANGED anon
        \/ /\ days = p.days /\ (p.allow \/ UploadFloor # None)
           /\ Prune(cutoff, IF p.allow THEN head.rev ELSE floor, p.allow)
    BY DEF Apply, Obsolete, cutoff, floor
  <2> QED  BY <2>1, <1>5, <1>6, <1>7, <1>8

-----------------------------------------------------------------------------
(* Init, and the parts of the invariant that a step leaves alone.          *)

LEMMA InitIInv == Init => IInv
<1> SUFFICES ASSUME Init PROVE IInv
  OBVIOUS
<1> USE RetentionAssumption, NoneAssumption DEF Init
<1>1. TypeOK
  BY DEF TypeOK, Sessions
<1>2. Dated /\ Numbered /\ Epochs
  BY DEF Dated, Numbered, Epochs
<1>3. Apart /\ Told /\ RemoteKept
  BY FS_EmptySet DEF Apart, Told, Uids, RemoteKept
<1>4. Uploads /\ Views
  BY DEF Uploads, Reached, Acked, Views, Followed
<1> QED  BY <1>1, <1>2, <1>3, <1>4 DEF IInv

Stored == <<head, rows, catalog, tombs, uids, forgotten, evicted>>
Sent == <<head, rows, tombs, acks, seen, remote>>
Viewed == <<head, rows, catalog, tombs, journal, generation, view>>

LEMMA StoredKept ==
    ASSUME Numbered, Apart, Told, UNCHANGED Stored
    PROVE  Numbered' /\ Apart' /\ Told'
BY DEF Numbered, Apart, Told, Uids, Stored

LEMMA SentKept ==
    ASSUME Uploads, UNCHANGED Sent
    PROVE  Uploads'
BY DEF Uploads, Reached, Acked, Sent

LEMMA KeptKept ==
    ASSUME RemoteKept, UNCHANGED <<evicted, remote>>
    PROVE  RemoteKept'
BY DEF RemoteKept

LEMMA ViewedKept ==
    ASSUME Views, UNCHANGED Viewed
    PROVE  Views'
<1>1. (\A x : Changes(x)' = Changes(x)) /\ (\A x : Fed(x)' = Fed(x)) /\ (\A s : Shown(s)' = Shown(s))
  BY DEF Viewed, Changes, Fed, Shown, Naming, Uids
<1> QED  BY <1>1 DEF Views, Followed, Viewed

LEMMA EpochsKept ==
    ASSUME Epochs, UNCHANGED <<head, acks, seen, view>>
    PROVE  Epochs'
BY DEF Epochs

LEMMA DatedKept ==
    ASSUME Dated, UNCHANGED <<now, rows, pending, catalog, plan>>
    PROVE  Dated'
BY DEF Dated

\* The feed names a session after a revision by a row, a deletion or its listing.
LEMMA FedNames ==
    ASSUME NEW s \in Sessions, NEW after
    PROVE  /\ s \in Fed(after) <=> \/ \E x \in rows \cup tombs : x.rev > after /\ s \in x.of
                                   \/ catalog[s] # None /\ catalog[s].rev > after
           /\ s \in Fed(after)' <=> \/ \E x \in (rows \cup tombs)' : x.rev > after /\ s \in x.of
                                    \/ catalog'[s] # None /\ catalog'[s].rev > after
BY DEF Fed

\* A reader that does not move still follows, when every session named to it
\* stays named, every other either stays as it is or comes to be named, and
\* the journal keeps what it needs or is seen not to.
LEMMA FollowedOn ==
    ASSUME TypeOK, Views, NEW d \in Readers, NEW v, v = view[d], v.epoch = head.epoch,
           view' = view, head'.epoch = head.epoch, head'.rev \in Nat, head.rev <= head'.rev,
           generation' \in Nat, generation <= generation',
           \/ Changes(v.generation)' = None
           \/ /\ Changes(v.generation) # None
              /\ \A s \in Sessions :
                    \/ s \in Changes(v.generation)' \cup Fed(v.rev)'
                    \/ /\ s \notin Changes(v.generation) \cup Fed(v.rev)
                       /\ Shown(s)' = Shown(s)
    PROVE  Followed(d)'
<1>1. /\ v.rev \in Nat /\ v.generation \in Nat /\ head.rev \in Nat /\ generation \in Nat
      /\ v.rev <= head.rev /\ v.generation <= generation
      /\ \/ Changes(v.generation) = None
         \/ \A s \in Sessions : \/ s \in Changes(v.generation) \cup Fed(v.rev)
                                \/ v.shown[s] = Shown(s)
  BY DEF Views, Followed, TypeOK
<1>2. v.rev <= head'.rev /\ v.generation <= generation'
  BY <1>1
<1>3. \/ Changes(v.generation)' = None
      \/ \A s \in Sessions : \/ s \in Changes(v.generation)' \cup Fed(v.rev)'
                             \/ v.shown[s] = Shown(s)'
  BY <1>1
<1>4. view'[d] = v
  OBVIOUS
<1> QED  BY <1>2, <1>3, <1>4 DEF Followed

-----------------------------------------------------------------------------
(* The steps of time, of the user and of workers that evict nothing.       *)

LEMMA TickIInv == IInv /\ Tick => IInv'
<1> SUFFICES ASSUME IInv, Tick PROVE IInv'
  OBVIOUS
<1> USE DEF IInv
<1>1. UNCHANGED <<Stored, Sent, Viewed, pending, plan, evicted, remote>> /\ now' = now + 1
  BY DEF Tick, Stored, Sent, Viewed, db, ghosts
<1>2. TypeOK'
  BY DEF TypeOK, Tick, db, ghosts
<1>3. Dated'
  BY <1>1 DEF Dated, TypeOK, Stored
<1>4. Epochs'
  BY <1>1, EpochsKept DEF Sent, Viewed
<1> QED  BY <1>1, <1>2, <1>3, <1>4, StoredKept, SentKept, KeptKept, ViewedKept

LEMMA SetPolicyIInv == IInv /\ (\E d \in Policies : SetPolicy(d)) => IInv'
<1> SUFFICES ASSUME IInv, NEW d \in Policies, SetPolicy(d) PROVE IInv'
  OBVIOUS
<1> USE DEF IInv
<1>1. UNCHANGED <<Stored, Sent, Viewed, now, pending, plan, evicted, remote>>
  BY DEF SetPolicy, Stored, Sent, Viewed, ghosts
<1>2. TypeOK'
  BY RetentionAssumption DEF TypeOK, SetPolicy, ghosts
<1>3. Dated' /\ Epochs'
  BY <1>1, DatedKept, EpochsKept DEF Stored, Sent, Viewed
<1> QED  BY <1>1, <1>2, <1>3, StoredKept, SentKept, KeptKept, ViewedKept

LEMMA PlanIInv == IInv /\ (\E w \in Workers, allow \in Allow : Plan(w, allow)) => IInv'
<1> SUFFICES ASSUME IInv, NEW w \in Workers, NEW allow \in Allow, Plan(w, allow) PROVE IInv'
  OBVIOUS
<1> USE DEF IInv
<1>1. UNCHANGED <<Stored, Sent, Viewed, now, pending, evicted, remote>>
  BY DEF Plan, Stored, Sent, Viewed, db, ghosts
<1>2. plan'[w] \in Planned /\ plan'[w].now = now /\ plan'[w].days # 0
  BY PlanType
<1>3. plan' = [plan EXCEPT ![w] = plan'[w]]
  BY DEF Plan, TypeOK
<1>4. TypeOK'
  <2>1. plan' \in [Workers -> Planned \cup {None}]
    BY <1>2, <1>3 DEF TypeOK
  <2> QED  BY <2>1 DEF TypeOK, Plan, db, ghosts
<1>5. Dated'
  <2>1. \A v \in Workers : plan'[v] # None => plan'[v].now <= now /\ plan'[v].days # 0
    BY <1>2, <1>3 DEF Dated, TypeOK
  <2> QED  BY <1>1, <2>1 DEF Dated, Stored
<1>6. Epochs'
  BY <1>1, EpochsKept DEF Sent, Viewed
<1> QED  BY <1>1, <1>4, <1>5, <1>6, StoredKept, SentKept, KeptKept, ViewedKept

LEMMA DiscardIInv == IInv /\ (\E w \in Workers : Discard(w)) => IInv'
<1> SUFFICES ASSUME IInv, NEW w \in Workers, Discard(w) PROVE IInv'
  OBVIOUS
<1> USE DEF IInv
<1>1. UNCHANGED <<Stored, Sent, Viewed, now, pending, evicted, remote>>
  BY DEF Discard, Stored, Sent, Viewed, db, ghosts
<1>2. TypeOK'
  BY DEF TypeOK, Discard, db, ghosts
<1>3. Dated'
  BY <1>1 DEF Dated, Discard, TypeOK, Stored
<1>4. Epochs'
  BY <1>1, EpochsKept DEF Sent, Viewed
<1> QED  BY <1>1, <1>2, <1>3, <1>4, StoredKept, SentKept, KeptKept, ViewedKept

-----------------------------------------------------------------------------
(* Captures, deletions and new epochs.                                     *)

\* A row comes after every position, and the feed names its session.
LEMMA WriteIInv == IInv /\ Write => IInv'
<1> SUFFICES ASSUME IInv, Write PROVE IInv'
  OBVIOUS
<1> USE DEF IInv
<1>1. PICK of \in SUBSET Sessions, ts \in 1..now, list \in BOOLEAN :
         /\ rows' = rows \cup {[uid |-> uids + 1, of |-> of, rev |-> head.rev + 1, ts |-> ts]}
         /\ catalog' = [s \in Sessions |->
               IF list /\ s \in of
               THEN [rev |-> head.rev + 1,
                     last |-> IF catalog[s] = None \/ catalog[s].last < ts THEN ts ELSE catalog[s].last]
               ELSE catalog[s]]
  BY DEF Write
<1> DEFINE new == [uid |-> uids + 1, of |-> of, rev |-> head.rev + 1, ts |-> ts]
<1>2. /\ head' = [head EXCEPT !.rev = @ + 1] /\ uids' = uids + 1
      /\ UNCHANGED <<now, days, tombs, pending, sweep, anon, acks, journal, generation, plan, seen,
                     remote, view, forgotten, evicted>>
  BY DEF Write
<1>3. head' \in Position /\ head'.epoch = head.epoch /\ head'.rev = head.rev + 1 /\ head.rev \in Nat
  BY <1>2 DEF TypeOK
<1>4. ts \in Nat /\ ts <= now /\ uids \in Nat /\ new \in Row /\ now \in Nat
  BY <1>3 DEF TypeOK
<1>5. \A s \in Sessions :
         \/ catalog'[s] = catalog[s]
         \/ s \in of /\ catalog'[s] \in Listing /\ catalog'[s].rev = head.rev + 1 /\ catalog'[s].last <= now
  BY <1>1, <1>3, <1>4 DEF TypeOK, Dated
<1>6. TypeOK'
  <2>1. catalog' \in [Sessions -> Listing \cup {None}]
    BY <1>1, <1>5 DEF TypeOK
  <2>2. rows' \subseteq Row
    BY <1>1, <1>4 DEF TypeOK
  <2> QED  BY <1>2, <1>3, <1>4, <2>1, <2>2 DEF TypeOK
<1>7. Dated'
  BY <1>1, <1>2, <1>4, <1>5 DEF Dated
<1>8. Numbered'
  <2>1. \A r \in rows' : r.rev <= head'.rev /\ r.rev > 0
    BY <1>1, <1>3 DEF Numbered, TypeOK
  <2>2. \A t \in tombs' : t.rev <= head'.rev /\ t.rev > 0
    BY <1>2, <1>3 DEF Numbered, TypeOK
  <2>3. \A s \in Sessions : catalog'[s] # None => catalog'[s].rev <= head'.rev
    BY <1>3, <1>5 DEF Numbered, TypeOK
  <2> QED  BY <2>1, <2>2, <2>3 DEF Numbered
<1>9. Apart'
  <2>1. IsFiniteSet(rows')
    BY <1>1, FS_AddElement DEF Apart
  <2>2. \A r \in rows : r.uid \in Nat /\ r.uid <= uids
    BY DEF Apart, TypeOK
  <2>3. \A r \in rows' : r.uid <= uids'
    BY <1>1, <1>2, <1>4, <2>2
  <2>4. \A r, q \in rows' : r.uid = q.uid => r = q
    BY <1>1, <1>4, <2>2 DEF Apart
  <2>5. \A u \in forgotten : u \in Nat /\ u <= uids
    BY DEF Apart, TypeOK
  <2>6. \A e \in evicted : e.uid \in Nat /\ e.uid <= uids /\ e.uid \notin forgotten
    BY DEF Apart, TypeOK
  <2>7. \A r \in rows' : r.uid \notin forgotten' /\ \A e \in evicted' : e.uid # r.uid
    BY <1>1, <1>2, <1>4, <2>5, <2>6 DEF Apart
  <2> QED  BY <1>2, <1>4, <2>1, <2>3, <2>4, <2>5, <2>6, <2>7 DEF Apart
<1>10. Told' /\ Epochs' /\ RemoteKept'
  BY <1>2, <1>3 DEF Told, Uids, Epochs, RemoteKept
<1>11. Uploads'
  <2> SUFFICES ASSUME NEW c \in Consumers PROVE Reached(c)' /\ Acked(c)'
    BY DEF Uploads
  <2>1. Reached(c) /\ Acked(c)
    BY DEF Uploads
  <2>2. Reached(c)'
    <3>1. seen[c].rev \in Nat
      BY DEF TypeOK
    <3> QED  BY <1>1, <1>2, <1>3, <2>1, <3>1 DEF Reached
  <2>3. Acked(c)'
    <3>1. acks[c] # None => acks[c].rev \in Nat
      BY DEF TypeOK
    <3> QED  BY <1>1, <1>2, <1>3, <2>1, <3>1 DEF Acked
  <2> QED  BY <2>2, <2>3
<1>12. Views'
  <2> SUFFICES ASSUME NEW d \in Readers, NEW v, v = view[d], v.epoch = head.epoch PROVE Followed(d)'
    BY <1>2, <1>3 DEF Views, Followed
  <2>1. v.rev \in Nat /\ v.rev <= head.rev
    BY DEF Views, Followed, TypeOK
  <2>2. Changes(v.generation)' = Changes(v.generation)
    BY <1>2 DEF Changes
  <2>3. ASSUME NEW s \in Sessions, s \in of \cup Fed(v.rev) PROVE s \in Fed(v.rev)'
    <3>1. s \in of => s \in Fed(v.rev)'
      <4>1. new \in (rows \cup tombs)' /\ new.rev > v.rev /\ new.of = of
        BY <1>1, <1>3, <2>1
      <4> HIDE DEF new
      <4> QED  BY <4>1, FedNames
    <3>2. CASE \E x \in rows \cup tombs : x.rev > v.rev /\ s \in x.of
      BY <1>1, <1>2, <3>2, FedNames
    <3>3. CASE catalog[s] # None /\ catalog[s].rev > v.rev
      BY <1>5, <3>1, <3>3, FedNames
    <3> QED  BY <2>3, <3>1, <3>2, <3>3, FedNames
  <2>4. ASSUME NEW s \in Sessions, s \notin of PROVE Shown(s)' = Shown(s)
    <3>1. catalog'[s] = catalog[s]
      BY <1>5, <2>4
    <3>2. Naming(s)' = Naming(s)
      BY <1>1, <2>4 DEF Naming
    <3> QED  BY <3>1, <3>2 DEF Shown, Uids
  <2>5. \/ Changes(v.generation)' = None
        \/ /\ Changes(v.generation) # None
           /\ \A s \in Sessions :
                 \/ s \in Changes(v.generation)' \cup Fed(v.rev)'
                 \/ /\ s \notin Changes(v.generation) \cup Fed(v.rev)
                    /\ Shown(s)' = Shown(s)
    BY <2>2, <2>3, <2>4
  <2>6. generation' = generation /\ generation \in Nat /\ view' = view
    BY <1>2 DEF TypeOK
  <2> QED  BY <1>3, <2>5, <2>6, FollowedOn
<1> QED  BY <1>6, <1>7, <1>8, <1>9, <1>10, <1>11, <1>12

\* A deletion comes after every position, and the feed names its sessions.
LEMMA ForgetIInv == IInv /\ (\E r \in rows : Forget(r)) => IInv'
<1> SUFFICES ASSUME IInv, NEW r \in rows, Forget(r) PROVE IInv'
  OBVIOUS
<1> USE DEF IInv
<1> DEFINE new == [uid |-> r.uid, of |-> r.of, rev |-> head.rev + 1]
<1>1. /\ rows' = rows \ {r} /\ tombs' = tombs \cup {new} /\ forgotten' = forgotten \cup {r.uid}
      /\ head' = [head EXCEPT !.rev = @ + 1]
      /\ UNCHANGED <<now, days, catalog, pending, sweep, anon, acks, journal, generation, plan, seen,
                     remote, view, uids, evicted>>
  BY DEF Forget
<1>2. head' \in Position /\ head'.epoch = head.epoch /\ head'.rev = head.rev + 1 /\ head.rev \in Nat
  BY <1>1 DEF TypeOK
<1>3. r.uid \in Nat /\ r.of \subseteq Sessions /\ r.uid <= uids /\ r.uid \notin forgotten
  BY DEF TypeOK, Apart
<1>4. new.uid = r.uid /\ new.of = r.of /\ new.rev = head.rev + 1
  OBVIOUS
<1>5. TypeOK'
  <2>1. new \in [uid : Nat, of : SUBSET Sessions, rev : Nat]
    BY <1>2, <1>3
  <2> HIDE DEF new
  <2> QED  BY <1>1, <1>2, <1>3, <2>1 DEF TypeOK
<1> HIDE DEF new
<1>6. Dated' /\ Epochs'
  BY <1>1, <1>2 DEF Dated, Epochs
<1>7. Numbered'
  <2>1. \A q \in rows' : q.rev <= head'.rev /\ q.rev > 0
    BY <1>1, <1>2 DEF Numbered, TypeOK
  <2>2. \A t \in tombs' : t.rev <= head'.rev /\ t.rev > 0
    BY <1>1, <1>2, <1>4 DEF Numbered, TypeOK
  <2>3. \A s \in Sessions : catalog'[s] # None => catalog'[s].rev <= head'.rev
    BY <1>1, <1>2 DEF Numbered, TypeOK
  <2> QED  BY <2>1, <2>2, <2>3 DEF Numbered
<1>8. Apart'
  <2>1. IsFiniteSet(rows')
    BY <1>1, FS_RemoveElement DEF Apart
  <2>2. \A e \in evicted : e.uid # r.uid
    BY DEF Apart
  <2>3. \A q \in rows' : q.uid # r.uid
    BY <1>1 DEF Apart
  <2> QED  BY <1>1, <1>3, <2>1, <2>2, <2>3 DEF Apart
<1>9. Told' /\ RemoteKept'
  BY <1>1, <1>4 DEF Told, Uids, RemoteKept
<1>10. Uploads'
  <2> SUFFICES ASSUME NEW c \in Consumers PROVE Reached(c)' /\ Acked(c)'
    BY DEF Uploads
  <2>1. Reached(c) /\ Acked(c)
    BY DEF Uploads
  <2>2. Reached(c)'
    <3>1. seen[c].rev \in Nat
      BY DEF TypeOK
    <3> QED  BY <1>1, <1>2, <1>4, <2>1, <3>1 DEF Reached
  <2>3. Acked(c)'
    <3>1. acks[c] # None => acks[c].rev \in Nat
      BY DEF TypeOK
    <3> QED  BY <1>1, <1>2, <2>1, <3>1 DEF Acked
  <2> QED  BY <2>2, <2>3
<1>11. Views'
  <2> SUFFICES ASSUME NEW d \in Readers, NEW v, v = view[d], v.epoch = head.epoch PROVE Followed(d)'
    BY <1>1, <1>2 DEF Views, Followed
  <2>1. v.rev \in Nat /\ v.rev <= head.rev
    BY DEF Views, Followed, TypeOK
  <2>2. Changes(v.generation)' = Changes(v.generation)
    BY <1>1 DEF Changes
  <2>3. ASSUME NEW s \in Sessions, s \in r.of \cup Fed(v.rev) PROVE s \in Fed(v.rev)'
    <3>1. s \in r.of => s \in Fed(v.rev)'
      <4>1. new \in (rows \cup tombs)' /\ new.rev > v.rev /\ new.of = r.of
        BY <1>1, <1>2, <1>4, <2>1
      <4> QED  BY <4>1, FedNames
    <3>2. CASE \E x \in rows \cup tombs : x.rev > v.rev /\ s \in x.of
      BY <1>1, <3>1, <3>2, FedNames
    <3>3. CASE catalog[s] # None /\ catalog[s].rev > v.rev
      BY <1>1, <3>3, FedNames
    <3> QED  BY <2>3, <3>1, <3>2, <3>3, FedNames
  <2>4. ASSUME NEW s \in Sessions, s \notin r.of PROVE Shown(s)' = Shown(s)
    <3>1. catalog' = catalog
      BY <1>1
    <3>2. Naming(s)' = Naming(s)
      BY <1>1, <2>4 DEF Naming
    <3> QED  BY <3>1, <3>2 DEF Shown, Uids
  <2>5. \/ Changes(v.generation)' = None
        \/ /\ Changes(v.generation) # None
           /\ \A s \in Sessions :
                 \/ s \in Changes(v.generation)' \cup Fed(v.rev)'
                 \/ /\ s \notin Changes(v.generation) \cup Fed(v.rev)
                    /\ Shown(s)' = Shown(s)
    BY <2>2, <2>3, <2>4
  <2>6. generation' = generation /\ generation \in Nat /\ view' = view
    BY <1>1 DEF TypeOK
  <2> QED  BY <1>2, <2>5, <2>6, FollowedOn
<1> QED  BY <1>5, <1>6, <1>7, <1>8, <1>9, <1>10, <1>11

\* In a new epoch no position counts.
LEMMA RetireIInv == IInv /\ Retire => IInv'
<1> SUFFICES ASSUME IInv, Retire PROVE IInv'
  OBVIOUS
<1> USE DEF IInv
<1>1. /\ UNCHANGED <<now, days, rows, catalog, tombs, pending, sweep, anon, acks, journal, generation,
                     plan, seen, remote, view, uids, forgotten, evicted>>
      /\ head' = [head EXCEPT !.epoch = @ + 1]
  BY DEF Retire, ghosts
<1>2. head' \in Position /\ head'.epoch = head.epoch + 1 /\ head'.rev = head.rev /\ head.epoch \in Nat
  BY <1>1 DEF TypeOK
<1>3. TypeOK'
  BY <1>1, <1>2 DEF TypeOK
<1>4. Dated' /\ Numbered' /\ Apart' /\ Told' /\ RemoteKept'
  BY <1>1, <1>2, KeptKept DEF Dated, Numbered, Apart, Told, Uids
<1>5. /\ \A c \in Consumers : /\ seen[c].epoch \in Nat /\ seen[c].epoch <= head.epoch
                              /\ acks[c] # None => acks[c].epoch \in Nat /\ acks[c].epoch <= head.epoch
      /\ \A d \in Readers : view[d].epoch \in Nat /\ view[d].epoch <= head.epoch
  BY DEF TypeOK, Epochs
<1>6. Epochs'
  BY <1>1, <1>2, <1>5 DEF Epochs
<1>7. Uploads' /\ Views'
  BY <1>1, <1>2, <1>5 DEF Uploads, Reached, Acked, Views, Followed
<1> QED  BY <1>3, <1>4, <1>6, <1>7

LEMMA ReplaceIInv == IInv /\ Replace => IInv'
<1> SUFFICES ASSUME IInv, Replace PROVE IInv'
  OBVIOUS
<1> USE DEF IInv
<1>1. /\ UNCHANGED <<now, plan, seen, remote, view, uids, evicted>>
      /\ head' = [epoch |-> head.epoch + 1, rev |-> 0]
      /\ rows' = {} /\ tombs' = {} /\ forgotten' = {}
      /\ catalog' = [s \in Sessions |-> None] /\ pending' = [s \in Sessions |-> 0]
      /\ sweep' = 0 /\ anon' = None /\ days' = DefaultDays
      /\ acks' = [c \in Consumers |-> None]
      /\ generation' = 0 /\ journal' = [g \in {} |-> {}]
  BY DEF Replace
<1>2. head' \in Position /\ head'.epoch = head.epoch + 1 /\ head'.rev = 0 /\ head.epoch \in Nat
  BY <1>1 DEF TypeOK
<1>3. TypeOK'
  BY <1>1, <1>2, RetentionAssumption DEF TypeOK
<1>4. Dated' /\ Numbered'
  BY <1>1, <1>2 DEF Dated, Numbered, TypeOK
<1>5. Apart' /\ Told' /\ RemoteKept'
  BY <1>1, FS_EmptySet DEF Apart, Told, Uids, RemoteKept
<1>6. /\ \A c \in Consumers : seen[c].epoch \in Nat /\ seen[c].epoch <= head.epoch
      /\ \A d \in Readers : view[d].epoch \in Nat /\ view[d].epoch <= head.epoch
  BY DEF TypeOK, Epochs
<1>7. Epochs'
  BY <1>1, <1>2, <1>6 DEF Epochs
<1>8. Uploads' /\ Views'
  BY <1>1, <1>2, <1>6 DEF Uploads, Reached, Acked, Views, Followed
<1> QED  BY <1>3, <1>4, <1>5, <1>7, <1>8

-----------------------------------------------------------------------------
(* Uploaders.                                                              *)

LEMMA RegisterIInv == IInv /\ (\E c \in Consumers : Register(c) \/ Remove(c)) => IInv'
<1> SUFFICES ASSUME IInv, NEW c \in Consumers, Register(c) \/ Remove(c) PROVE IInv'
  OBVIOUS
<1> USE DEF IInv
<1>1. /\ UNCHANGED <<Stored, Viewed, now, days, head, rows, catalog, tombs, pending, sweep, anon,
                     journal, generation, plan, seen, remote, view, ghosts, evicted>>
      /\ acks' = [acks EXCEPT ![c] = [epoch |-> 0, rev |-> 0]] \/ acks' = [acks EXCEPT ![c] = None]
  BY DEF Register, Remove, Stored, Viewed, ghosts
<1>2. TypeOK'
  <2>1. [epoch |-> 0, rev |-> 0] \in Position /\ acks \in [Consumers -> Position \cup {None}]
    BY DEF TypeOK
  <2>2. acks' \in [Consumers -> Position \cup {None}]
    BY <1>1, <2>1, Zenon
  <2> QED  BY <1>1, <2>2 DEF TypeOK, ghosts
<1>3. \A k \in Consumers : acks'[k] = acks[k] \/ acks'[k] = None \/ acks'[k] = [epoch |-> 0, rev |-> 0]
  BY <1>1 DEF TypeOK
<1>4. Epochs'
  BY <1>1, <1>3 DEF Epochs, TypeOK
<1>5. Uploads'
  <2> SUFFICES ASSUME NEW k \in Consumers PROVE Reached(k)' /\ Acked(k)'
    BY DEF Uploads
  <2>1. Reached(k) /\ Acked(k)
    BY DEF Uploads
  <2>2. Reached(k)'
    BY <1>1, <2>1 DEF Reached
  <2>3. CASE acks'[k] = acks[k]
    BY <1>1, <2>1, <2>2, <2>3 DEF Acked
  <2>4. CASE acks'[k] = None
    BY <2>2, <2>4 DEF Acked
  <2>5. CASE acks'[k] = [epoch |-> 0, rev |-> 0]
    <3>1. acks'[k].epoch # head'.epoch
      BY <1>1, <2>5 DEF Epochs, TypeOK
    <3> QED  BY <2>2, <3>1 DEF Acked
  <2> QED  BY <1>3, <2>3, <2>4, <2>5
<1>6. Dated'
  BY <1>1, DatedKept
<1> QED  BY <1>1, <1>2, <1>4, <1>5, <1>6, StoredKept, KeptKept, ViewedKept

\* After an upload the destination holds the rows stored, and none deleted.
LEMMA UploadIInv == IInv /\ (\E c \in Consumers : Upload(c)) => IInv'
<1> SUFFICES ASSUME IInv, NEW c \in Consumers, Upload(c) PROVE IInv'
  OBVIOUS
<1> USE DEF IInv
<1> DEFINE from == IF seen[c].epoch = head.epoch THEN seen[c].rev ELSE 0
           at == (remote[c] \cup Uids({r \in rows : r.rev > from})) \ Uids({t \in tombs : t.rev > from})
<1>1. /\ UNCHANGED <<Stored, Viewed, now, db, plan, view, ghosts, evicted>>
      /\ remote' = [remote EXCEPT ![c] = at] /\ seen' = [seen EXCEPT ![c] = head]
  BY DEF Upload, Stored, Viewed, db, ghosts
<1>2. \A r \in rows : r.uid \in Nat /\ r.rev \in Nat /\ r.rev > 0 /\ r.uid \notin forgotten
  BY DEF TypeOK, Numbered, Apart
<1>3. \A t \in tombs : t.uid \in forgotten /\ t.rev > 0 /\ t.rev \in Nat
  BY DEF TypeOK, Numbered, Told, Uids
<1>4. at \subseteq Nat
  BY <1>2 DEF Uids, TypeOK
<1>5. from \in Nat
  BY DEF TypeOK
<1>6. Reached(c)
  BY DEF Uploads
<1>7. \A r \in rows : r.uid \in at
  <2> SUFFICES ASSUME NEW r \in rows PROVE r.uid \in at
    OBVIOUS
  <2>1. r.uid \notin Uids({t \in tombs : t.rev > from})
    BY <1>2, <1>3 DEF Uids
  <2>2. r.rev > from => r.uid \in Uids({q \in rows : q.rev > from})
    BY DEF Uids
  <2>3. ~(r.rev > from) => r.uid \in remote[c]
    BY <1>2, <1>5, <1>6 DEF Reached, TypeOK
  <2> QED  BY <2>1, <2>2, <2>3
<1>8. \A t \in tombs : t.uid \notin at
  <2> SUFFICES ASSUME NEW t \in tombs PROVE t.uid \notin at
    OBVIOUS
  <2>1. t.rev > from => t.uid \in Uids({x \in tombs : x.rev > from})
    BY DEF Uids
  <2>2. t.uid \notin Uids({r \in rows : r.rev > from})
    BY <1>2, <1>3 DEF Uids
  <2>3. ~(t.rev > from) => t.uid \notin remote[c]
    BY <1>3, <1>5, <1>6 DEF Reached, TypeOK
  <2> QED  BY <2>1, <2>2, <2>3
<1>9. \A e \in evicted : c \in e.for => e.uid \in at
  <2> SUFFICES ASSUME NEW e \in evicted, c \in e.for PROVE e.uid \in at
    OBVIOUS
  <2>1. e.uid \in remote[c] /\ e.uid \notin forgotten
    BY DEF RemoteKept, Apart
  <2>2. e.uid \notin Uids({t \in tombs : t.rev > from})
    BY <1>3, <2>1 DEF Uids
  <2> QED  BY <2>1, <2>2
<1> HIDE DEF from, at
<1>10. TypeOK'
  <2>1. seen' \in [Consumers -> Position] /\ remote' \in [Consumers -> SUBSET Nat]
    BY <1>1, <1>4 DEF TypeOK
  <2> QED  BY <1>1, <2>1 DEF TypeOK, db, ghosts
<1>11. \A k \in Consumers : IF k = c THEN seen'[k] = head /\ remote'[k] = at
                              ELSE seen'[k] = seen[k] /\ remote'[k] = remote[k]
  BY <1>1 DEF TypeOK
<1>12. UNCHANGED <<head, rows, tombs, catalog, acks, view, now, pending, plan, evicted>>
  BY <1>1 DEF db, ghosts
<1>13. Dated'
  BY <1>12, DatedKept
<1>14. Epochs'
  BY <1>11, <1>12 DEF Epochs, TypeOK
<1>15. RemoteKept'
  <2> SUFFICES ASSUME NEW e \in evicted, NEW k \in e.for PROVE e.uid \in remote'[k]
    BY <1>12 DEF RemoteKept
  <2>1. k \in Consumers /\ e.uid \in remote[k]
    BY DEF TypeOK, RemoteKept
  <2> QED  BY <1>9, <1>11, <2>1
<1>16. Uploads'
  <2> SUFFICES ASSUME NEW k \in Consumers PROVE Reached(k)' /\ Acked(k)'
    BY DEF Uploads
  <2>1. Reached(k) /\ Acked(k)
    BY DEF Uploads
  <2>2. CASE k # c
    BY <1>11, <1>12, <2>1, <2>2 DEF Reached, Acked
  <2>3. CASE k = c
    <3>1. Reached(k)'
      <4>1. head.rev <= head.rev
        BY DEF TypeOK
      <4> QED  BY <1>7, <1>8, <1>11, <1>12, <2>3, <4>1 DEF Reached
    <3>2. Acked(k)'
      BY <1>7, <1>11, <1>12, <2>1, <2>3 DEF Acked
    <3> QED  BY <3>1, <3>2
  <2> QED  BY <2>2, <2>3
<1>17. Numbered' /\ Apart' /\ Told' /\ Views'
  BY <1>1, StoredKept, ViewedKept
<1> QED  BY <1>10, <1>13, <1>14, <1>15, <1>16, <1>17

\* What is acknowledged was uploaded in this epoch.
LEMMA AcknowledgeIInv == IInv /\ (\E c \in Consumers : Acknowledge(c)) => IInv'
<1> SUFFICES ASSUME IInv, NEW c \in Consumers, Acknowledge(c) PROVE IInv'
  OBVIOUS
<1> USE DEF IInv
<1> DEFINE rev == IF acks[c].epoch = head.epoch THEN Max({acks[c].rev, seen[c].rev}) ELSE seen[c].rev
<1>1. /\ UNCHANGED <<Stored, Viewed, now, days, head, rows, catalog, tombs, pending, sweep, anon,
                     journal, generation, plan, seen, remote, view, ghosts, evicted>>
      /\ acks' = [acks EXCEPT ![c] = [epoch |-> head.epoch, rev |-> rev]]
      /\ acks[c] # None /\ seen[c].epoch = head.epoch /\ seen[c].rev <= head.rev
  BY DEF Acknowledge, Stored, Viewed, ghosts
<1>2. acks[c] \in Position /\ acks[c].rev \in Nat /\ seen[c].rev \in Nat /\ head \in Position
  BY <1>1 DEF TypeOK
<1>3. /\ rev \in Nat
      /\ rev = seen[c].rev \/ (rev = acks[c].rev /\ acks[c].epoch = head.epoch)
  <2> DEFINE S == {acks[c].rev, seen[c].rev}
  <2>1. CASE acks[c].epoch = head.epoch
    <3>1. \E b \in Nat : \A n \in S : n <= b
      BY <1>2
    <3>2. S \in SUBSET Nat /\ S # {}
      BY <1>2
    <3>3. Max(S) \in S
      <4> HIDE DEF S
      <4> QED  BY <3>1, <3>2, MaxIsGreatest
    <3> QED  BY <1>2, <2>1, <3>3
  <2>2. CASE acks[c].epoch # head.epoch
    BY <1>2, <2>2
  <2> QED  BY <2>1, <2>2
<1> HIDE DEF rev
<1>4. \A k \in Consumers : IF k = c THEN acks'[k] = [epoch |-> head.epoch, rev |-> rev] ELSE acks'[k] = acks[k]
  BY <1>1 DEF TypeOK
<1>5. TypeOK'
  <2>1. acks' \in [Consumers -> Position \cup {None}]
    BY <1>1, <1>2, <1>3 DEF TypeOK
  <2> QED  BY <1>1, <2>1 DEF TypeOK, ghosts
<1>6. Epochs'
  BY <1>1, <1>2, <1>4 DEF Epochs
<1>7. Uploads'
  <2> SUFFICES ASSUME NEW k \in Consumers PROVE Reached(k)' /\ Acked(k)'
    BY DEF Uploads
  <2>1. Reached(k) /\ Acked(k)
    BY DEF Uploads
  <2>2. Reached(k)'
    BY <1>1, <2>1 DEF Reached
  <2>3. CASE k # c
    BY <1>1, <1>4, <2>1, <2>2, <2>3 DEF Acked
  <2>4. CASE k = c
    BY <1>1, <1>3, <1>4, <2>1, <2>2, <2>4 DEF Reached, Acked
  <2> QED  BY <2>3, <2>4, <2>2
<1>8. Dated'
  BY <1>1, DatedKept
<1> QED  BY <1>1, <1>5, <1>6, <1>7, <1>8, StoredKept, KeptKept, ViewedKept

-----------------------------------------------------------------------------
(* A batch of evictions.                                                   *)

\* What the journal tells a reader after a generation.
LEMMA ChangesCases ==
    ASSUME TypeOK, NEW after \in Nat
    PROVE  /\ Changes(after) = None
                 <=> after > generation \/ generation - after > Kept
                     \/ ~((after + 1)..generation \subseteq DOMAIN journal)
           /\ Changes(after) # None =>
                 \A s : s \in Changes(after) <=> \E g \in (after + 1)..generation : s \in journal[g]
<1> DEFINE lost == after > generation \/ generation - after > Kept
                   \/ ~((after + 1)..generation \subseteq DOMAIN journal)
           named == UNION {journal[g] : g \in (after + 1)..generation}
<1>1. Changes(after) = IF lost THEN None ELSE named
  BY DEF Changes
<1>2. ~lost => named \in SUBSET Sessions
  BY DEF TypeOK
<1>3. ~lost => named # None
  BY <1>2, NoneAssumption
<1>4. \A s : s \in named <=> \E g \in (after + 1)..generation : s \in journal[g]
  OBVIOUS
<1> HIDE DEF named
<1> QED  BY <1>1, <1>3, <1>4

\* The same after a step.
LEMMA ChangesThen ==
    ASSUME TypeOK', NEW after \in Nat, Changes(after)' # None
    PROVE  /\ ~(after > generation') /\ ~(generation' - after > Kept)
           /\ (after + 1)..generation' \subseteq DOMAIN journal'
           /\ \A s : s \in Changes(after)' <=> \E g \in (after + 1)..generation' : s \in journal'[g]
<1> DEFINE lost == after > generation' \/ generation' - after > Kept
                   \/ ~((after + 1)..generation' \subseteq DOMAIN journal')
           named == UNION {journal'[g] : g \in (after + 1)..generation'}
<1>1. Changes(after)' = IF lost THEN None ELSE named
  BY DEF Changes
<1>2. \A s : s \in named <=> \E g \in (after + 1)..generation' : s \in journal'[g]
  OBVIOUS
<1> HIDE DEF named
<1> QED  BY <1>1, <1>2

LEMMA MoreIsLater == \A a, b \in Nat : b > 0 => a + b > a
OBVIOUS

\* A generation that is written down keeps the last Kept ones.
LEMMA JournalMoves ==
    ASSUME TypeOK, NEW gone, NEW unlisted, NEW affected \in SUBSET Sessions, NEW allow,
           Evicts(gone, unlisted, affected, allow),
           gone # {} \/ {s \in unlisted : catalog[s] # None} # {}
    PROVE  /\ generation' = generation + 1
           /\ DOMAIN journal' = {k \in DOMAIN journal \cup {generation'} : k + Kept > generation'}
           /\ generation' \in DOMAIN journal' /\ journal'[generation'] = affected
           /\ \A g \in DOMAIN journal' : g # generation' => g \in DOMAIN journal /\ journal'[g] = journal[g]
<1>1. /\ generation' = generation + 1
      /\ journal' = [g \in {k \in DOMAIN journal \cup {generation'} : k + Kept > generation'} |->
                        IF g = generation' THEN affected ELSE journal[g]]
  BY DEF Evicts
<1>2. generation' \in Nat /\ Kept \in Nat /\ Kept > 0
  BY <1>1, RetentionAssumption DEF TypeOK
<1>3. generation' + Kept > generation'
  BY <1>2, MoreIsLater, Zenon
<1> QED  BY <1>1, <1>3

\* A batch keeps the types.
LEMMA BatchType ==
    ASSUME TypeOK, Numbered, Apart, NEW gone, NEW unlisted, NEW affected, NEW allow,
           Fit(gone, unlisted, affected, allow), Evicts(gone, unlisted, affected, allow)
    PROVE  /\ head' \in Position /\ rows' \subseteq Row /\ tombs' = tombs
           /\ catalog' \in [Sessions -> Listing \cup {None}]
           /\ generation' \in Nat /\ generation <= generation'
           /\ DOMAIN journal' \subseteq Nat /\ \A g \in DOMAIN journal' : journal'[g] \subseteq Sessions
           /\ evicted' \subseteq [uid : Nat, for : SUBSET Consumers]
<1>1. head' \in Position /\ tombs' = tombs
  BY EvictsFeed
<1>2. rows' \subseteq Row /\ catalog' \in [Sessions -> Listing \cup {None}]
  BY DEF Evicts, TypeOK
<1>3. gone \subseteq rows /\ affected \in SUBSET Sessions
  BY DEF Fit
<1>4. evicted' \subseteq [uid : Nat, for : SUBSET Consumers]
  <2>1. Registered \subseteq Consumers
    BY DEF Registered
  <2>2. Uids(gone) \subseteq Nat
    BY <1>3 DEF Uids, TypeOK
  <2>3. evicted' = evicted \cup {[uid |-> u, for |-> IF allow THEN {} ELSE Registered] : u \in Uids(gone)}
    BY DEF Evicts
  <2> QED  BY <2>1, <2>2, <2>3 DEF TypeOK
<1>5. CASE gone # {} \/ {s \in unlisted : catalog[s] # None} # {}
  <2>1. /\ generation' = generation + 1
        /\ DOMAIN journal' = {k \in DOMAIN journal \cup {generation'} : k + Kept > generation'}
        /\ generation' \in DOMAIN journal' /\ journal'[generation'] = affected
        /\ \A g \in DOMAIN journal' : g # generation' => g \in DOMAIN journal /\ journal'[g] = journal[g]
    BY <1>3, <1>5, JournalMoves
  <2> QED  BY <1>1, <1>2, <1>3, <1>4, <2>1 DEF TypeOK
<1>6. CASE ~(gone # {} \/ {s \in unlisted : catalog[s] # None} # {})
  <2>1. generation' = generation /\ journal' = journal
    BY <1>6 DEF Evicts
  <2> QED  BY <1>1, <1>2, <1>4, <2>1 DEF TypeOK
<1> QED  BY <1>5, <1>6

\* The rows of a batch leave the store for good, and are still apart.
LEMMA BatchStored ==
    ASSUME TypeOK, Numbered, Apart, Told, NEW gone, NEW unlisted, NEW affected, NEW allow,
           Fit(gone, unlisted, affected, allow), Evicts(gone, unlisted, affected, allow),
           UNCHANGED <<uids, forgotten>>
    PROVE  Numbered' /\ Apart' /\ Told'
<1>1. /\ tombs' = tombs /\ head'.rev \in Nat /\ head.rev \in Nat /\ head.rev <= head'.rev
  BY EvictsFeed DEF TypeOK
<1>2. /\ rows' = rows \ gone /\ gone \subseteq rows
      /\ catalog' = [s \in Sessions |-> IF s \in unlisted THEN None ELSE catalog[s]]
      /\ evicted' = evicted \cup {[uid |-> u, for |-> IF allow THEN {} ELSE Registered] : u \in Uids(gone)}
  BY DEF Evicts, Fit
<1>3. Numbered'
  <2>1. \A r \in rows' : r.rev <= head'.rev /\ r.rev > 0
    BY <1>1, <1>2 DEF Numbered, TypeOK
  <2>2. \A t \in tombs' : t.rev <= head'.rev /\ t.rev > 0
    BY <1>1 DEF Numbered, TypeOK
  <2>3. \A s \in Sessions : catalog'[s] # None => catalog'[s].rev <= head'.rev
    BY <1>1, <1>2 DEF Numbered, TypeOK
  <2> QED  BY <2>1, <2>2, <2>3 DEF Numbered
<1>4. Apart'
  <2>1. IsFiniteSet(rows')
    BY <1>2, FS_Difference DEF Apart
  <2>2. \A e \in evicted' : e \in evicted \/ \E r \in gone : e.uid = r.uid
    BY <1>2 DEF Uids
  <2>3. \A e \in evicted' : e.uid <= uids /\ e.uid \notin forgotten
    BY <1>2, <2>2 DEF Apart
  <2>4. \A r \in rows' : \A e \in evicted' : e.uid # r.uid
    BY <1>2, <2>2 DEF Apart
  <2> QED  BY <1>2, <2>1, <2>3, <2>4 DEF Apart
<1>5. Told'
  BY <1>1 DEF Told, Uids
<1> QED  BY <1>3, <1>4, <1>5

\* What a batch takes was uploaded, and it sends nothing.
LEMMA BatchUploads ==
    ASSUME TypeOK, Numbered, Apart, Uploads, RemoteKept, Epochs,
           NEW gone, NEW unlisted, NEW affected, NEW allow,
           Fit(gone, unlisted, affected, allow), Evicts(gone, unlisted, affected, allow),
           UNCHANGED <<acks, seen, remote, view>>
    PROVE  Uploads' /\ RemoteKept' /\ Epochs'
<1>1. /\ tombs' = tombs /\ head'.rev \in Nat /\ head.rev \in Nat /\ head.rev <= head'.rev
      /\ head'.epoch = head.epoch
  BY EvictsFeed DEF TypeOK
<1>2. /\ rows' = rows \ gone /\ gone \subseteq rows
      /\ evicted' = evicted \cup {[uid |-> u, for |-> IF allow THEN {} ELSE Registered] : u \in Uids(gone)}
  BY DEF Evicts, Fit
<1>3. Epochs'
  BY <1>1 DEF Epochs
<1>4. Uploads'
  <2> SUFFICES ASSUME NEW c \in Consumers PROVE Reached(c)' /\ Acked(c)'
    BY DEF Uploads
  <2>1. Reached(c) /\ Acked(c) /\ seen[c].rev \in Nat /\ (acks[c] # None => acks[c].rev \in Nat)
    BY DEF Uploads, TypeOK
  <2>2. Reached(c)'
    BY <1>1, <1>2, <2>1 DEF Reached
  <2>3. Acked(c)'
    BY <1>1, <1>2, <2>1 DEF Acked
  <2> QED  BY <2>2, <2>3
<1>5. RemoteKept'
  <2> SUFFICES ASSUME NEW e \in evicted', NEW c \in e.for PROVE e.uid \in remote[c]
    BY DEF RemoteKept
  <2>1. CASE e \in evicted
    BY <2>1 DEF RemoteKept
  <2>2. CASE e \notin evicted
    <3>1. PICK r \in gone : e = [uid |-> r.uid, for |-> IF allow THEN {} ELSE Registered]
      BY <1>2, <2>2 DEF Uids
    <3>2. e.uid = r.uid /\ e.for = IF allow THEN {} ELSE Registered
      BY <3>1
    <3> QED  BY <3>2 DEF Fit
  <2> QED  BY <2>1, <2>2
<1> QED  BY <1>3, <1>4, <1>5

\* A batch that takes anything notes the sessions it shows in the journal; one
\* that takes nothing shows nothing.
LEMMA BatchViews ==
    ASSUME TypeOK, Numbered, Apart, Views, NEW gone, NEW unlisted, NEW affected, NEW allow,
           Fit(gone, unlisted, affected, allow), Evicts(gone, unlisted, affected, allow),
           TypeOK', view' = view
    PROVE  Views'
<1>1. /\ tombs' = tombs /\ head'.rev \in Nat /\ head.rev \in Nat /\ head.rev <= head'.rev
      /\ head'.epoch = head.epoch
  BY EvictsFeed DEF TypeOK
<1>2. /\ rows' = rows \ gone /\ gone \subseteq rows /\ unlisted \subseteq affected
      /\ catalog' = [s \in Sessions |-> IF s \in unlisted THEN None ELSE catalog[s]]
      /\ \A r \in gone : r.of \subseteq affected
      /\ affected \in SUBSET Sessions
  BY DEF Evicts, Fit
<1> SUFFICES ASSUME NEW d \in Readers, NEW v, v = view[d], v.epoch = head.epoch PROVE Followed(d)'
  BY <1>1 DEF Views, Followed
<1>3. v.rev \in Nat /\ v.generation \in Nat /\ v.generation <= generation /\ generation \in Nat
  BY DEF Views, Followed, TypeOK
<1> DEFINE moved == gone # {} \/ {s \in unlisted : catalog[s] # None} # {}
<1>4. ASSUME NEW s \in Sessions, s \notin affected \/ ~moved
      PROVE  Shown(s)' = Shown(s) /\ (s \in Fed(v.rev)' <=> s \in Fed(v.rev))
  <2>1. catalog'[s] = catalog[s]
    BY <1>2, <1>4
  <2>2. \A r \in gone : s \notin r.of
    BY <1>2, <1>4
  <2>3. Naming(s)' = Naming(s)
    BY <1>2, <2>2 DEF Naming
  <2>4. Shown(s)' = Shown(s)
    BY <2>1, <2>3 DEF Shown, Uids
  <2>5. (\E x \in (rows \cup tombs)' : x.rev > v.rev /\ s \in x.of)
           <=> \E x \in rows \cup tombs : x.rev > v.rev /\ s \in x.of
    BY <1>1, <1>2, <2>2
  <2> QED  BY <2>1, <2>4, <2>5, FedNames
<1>5. generation' \in Nat /\ generation <= generation'
  BY BatchType
<1>6. CASE ~moved
  <2>1. generation' = generation /\ journal' = journal
    BY <1>6 DEF Evicts
  <2>2. Changes(v.generation)' = Changes(v.generation)
    BY <2>1 DEF Changes
  <2>3. \/ Changes(v.generation)' = None
        \/ /\ Changes(v.generation) # None
           /\ \A s \in Sessions :
                 \/ s \in Changes(v.generation)' \cup Fed(v.rev)'
                 \/ /\ s \notin Changes(v.generation) \cup Fed(v.rev)
                    /\ Shown(s)' = Shown(s)
    <3> HIDE DEF moved
    <3> QED  BY <1>4, <1>6, <2>2
  <2> QED  BY <1>1, <1>5, <2>3, FollowedOn
<1>7. CASE moved
  <2>1. /\ generation' = generation + 1
        /\ DOMAIN journal' = {k \in DOMAIN journal \cup {generation'} : k + Kept > generation'}
        /\ generation' \in DOMAIN journal' /\ journal'[generation'] = affected
        /\ \A g \in DOMAIN journal' : g # generation' => g \in DOMAIN journal /\ journal'[g] = journal[g]
    BY <1>2, <1>7, JournalMoves
  <2> HIDE DEF moved
  <2>2. CASE Changes(v.generation)' = None
    BY <1>1, <1>5, <2>2, FollowedOn
  <2>3. CASE Changes(v.generation)' # None
    <3>1. /\ ~(v.generation > generation') /\ ~(generation' - v.generation > Kept)
          /\ (v.generation + 1)..generation' \subseteq DOMAIN journal'
          /\ \A s : s \in Changes(v.generation)' <=>
                       \E g \in (v.generation + 1)..generation' : s \in journal'[g]
      BY <1>3, <2>3, ChangesThen
    <3>2. (v.generation + 1)..generation \subseteq DOMAIN journal
      <4> SUFFICES ASSUME NEW g \in (v.generation + 1)..generation PROVE g \in DOMAIN journal
        OBVIOUS
      <4>1. g \in (v.generation + 1)..generation' /\ g # generation'
        BY <1>3, <2>1
      <4> QED  BY <2>1, <3>1, <4>1
    <3>3. Changes(v.generation) # None
      <4>1. Kept \in Nat
        BY RetentionAssumption
      <4>2. ~(v.generation > generation) /\ ~(generation - v.generation > Kept)
        BY <1>3, <2>1, <3>1, <4>1
      <4> QED  BY <1>3, <3>2, <4>2, ChangesCases
    <3>4. ASSUME NEW s \in Sessions, s \in Changes(v.generation) \cup affected
          PROVE  s \in Changes(v.generation)'
      <4>1. CASE s \in affected
        <5>1. generation' \in (v.generation + 1)..generation'
          BY <1>3, <2>1
        <5> QED  BY <2>1, <3>1, <4>1, <5>1
      <4>2. CASE s \in Changes(v.generation)
        <5>1. PICK g \in (v.generation + 1)..generation : s \in journal[g]
          BY <1>3, <3>3, <4>2, ChangesCases
        <5>2. g \in (v.generation + 1)..generation' /\ g # generation'
          BY <1>3, <2>1
        <5>3. s \in journal'[g]
          BY <2>1, <3>1, <5>1, <5>2
        <5> QED  BY <3>1, <5>2, <5>3
      <4> QED  BY <3>4, <4>1, <4>2
    <3>5. \A s \in Sessions :
             \/ s \in Changes(v.generation)' \cup Fed(v.rev)'
             \/ /\ s \notin Changes(v.generation) \cup Fed(v.rev)
                /\ Shown(s)' = Shown(s)
      BY <1>4, <3>4
    <3> QED  BY <1>1, <1>5, <3>3, <3>5, FollowedOn
  <2> QED  BY <2>2, <2>3
<1> QED  BY <1>6, <1>7

LEMMA ApplyIInv == IInv /\ (\E w \in Workers : Apply(w)) => IInv'
<1> SUFFICES ASSUME IInv, NEW w \in Workers, Apply(w) PROVE IInv'
  OBVIOUS
<1> USE DEF IInv
<1>1. /\ plan' = [plan EXCEPT ![w] = None]
      /\ UNCHANGED <<now, days, acks, seen, remote, view, uids, forgotten>>
  BY DEF Apply
<1>2. /\ Nothing \/ Batch
      /\ sweep' \in 0..N /\ anon' \in Prompt \cup {None}
      /\ pending' \in [Sessions -> Nat] /\ \A s \in Sessions : pending'[s] <= now
  BY ApplyCases
<1>3. /\ plan' \in [Workers -> Planned \cup {None}]
      /\ \A v \in Workers : plan'[v] # None => plan'[v].now <= now /\ plan'[v].days # 0
  BY <1>1 DEF TypeOK, Dated
<1>4. CASE Nothing
  <2>1. UNCHANGED <<Stored, Sent, Viewed>>
    BY <1>1, <1>4 DEF Nothing, Stored, Sent, Viewed
  <2>2. TypeOK'
    BY <1>1, <1>2, <1>3, <1>4 DEF TypeOK, Nothing
  <2>3. Dated'
    BY <1>1, <1>2, <1>3, <1>4 DEF Dated, Nothing
  <2>4. Epochs' /\ RemoteKept'
    BY <1>1, <1>4, EpochsKept, KeptKept DEF Nothing
  <2> QED  BY <2>1, <2>2, <2>3, <2>4, StoredKept, SentKept, ViewedKept
<1>5. CASE Batch
  <2>1. PICK gone, unlisted, affected, allow :
           /\ Fit(gone, unlisted, affected, allow)
           /\ Evicts(gone, unlisted, affected, allow)
    BY <1>5, Zenon DEF Batch
  <2>2. TypeOK'
    <3>1. /\ head' \in Position /\ rows' \subseteq Row /\ tombs' = tombs
          /\ catalog' \in [Sessions -> Listing \cup {None}]
          /\ generation' \in Nat
          /\ DOMAIN journal' \subseteq Nat /\ \A g \in DOMAIN journal' : journal'[g] \subseteq Sessions
          /\ evicted' \subseteq [uid : Nat, for : SUBSET Consumers]
      BY <2>1, BatchType
    <3> QED  BY <1>1, <1>2, <1>3, <3>1 DEF TypeOK
  <2>3. Dated'
    <3>1. /\ rows' \subseteq rows
          /\ catalog' = [s \in Sessions |-> IF s \in unlisted THEN None ELSE catalog[s]]
      BY <2>1 DEF Evicts
    <3> QED  BY <1>1, <1>2, <1>3, <3>1 DEF Dated
  <2>4. Numbered' /\ Apart' /\ Told'
    BY <1>1, <2>1, BatchStored
  <2>5. Uploads' /\ RemoteKept' /\ Epochs'
    BY <1>1, <2>1, BatchUploads
  <2>6. Views'
    BY <1>1, <2>1, <2>2, BatchViews
  <2> QED  BY <2>2, <2>3, <2>4, <2>5, <2>6
<1> QED  BY <1>2, <1>4, <1>5

\* A reader that refreshed shows what is stored.
LEMMA RefreshIInv == IInv /\ (\E d \in Readers : Refresh(d)) => IInv'
<1> SUFFICES ASSUME IInv, NEW d \in Readers, Refresh(d) PROVE IInv'
  OBVIOUS
<1> USE DEF IInv
<1> DEFINE v == view[d]
           shown == [s \in Sessions |->
                        IF \/ Changes(v.generation) = None \/ v.epoch # head.epoch
                           \/ s \in Changes(v.generation) \cup Fed(v.rev)
                        THEN Shown(s) ELSE v.shown[s]]
           new == [epoch |-> head.epoch, rev |-> head.rev, generation |-> generation, shown |-> shown]
<1>1. /\ view' = [view EXCEPT ![d] = new]
      /\ UNCHANGED <<Stored, Sent, now, db, plan, seen, remote, ghosts, evicted>>
  BY DEF Refresh, Stored, Sent, db, ghosts
<1>2. \A s \in Sessions : shown[s] = Shown(s)
  BY DEF Views, Followed
<1>3. \A s \in Sessions : Shown(s) \in [listed : BOOLEAN, rows : SUBSET Nat]
  BY DEF Shown, Uids, Naming, TypeOK
<1>4. shown \in [Sessions -> [listed : BOOLEAN, rows : SUBSET Nat]]
  BY <1>2, <1>3
<1> HIDE DEF shown
<1>5. UNCHANGED <<head, rows, catalog, tombs, journal, generation, acks, seen, now, pending, plan, evicted, remote>>
  BY <1>1 DEF db, ghosts
<1>6. TypeOK'
  <2>1. new \in [epoch : Nat, rev : Nat, generation : Nat,
                 shown : [Sessions -> [listed : BOOLEAN, rows : SUBSET Nat]]]
    BY <1>4 DEF TypeOK
  <2> HIDE DEF new
  <2> QED  BY <1>1, <2>1 DEF TypeOK, db, ghosts
<1>7. \A e \in Readers : view'[e] = IF e = d THEN new ELSE view[e]
  BY <1>1 DEF TypeOK
<1>8. new.epoch = head.epoch /\ new.rev = head.rev /\ new.generation = generation /\ new.shown = shown
  OBVIOUS
<1> HIDE DEF new
<1>9. Epochs'
  <2>1. head.epoch \in Nat
    BY DEF TypeOK, Position
  <2>2. \A e \in Readers : view'[e].epoch <= head.epoch
    BY <1>7, <1>8, <2>1 DEF Epochs
  <2> QED  BY <1>5, <2>2 DEF Epochs
<1>10. Views'
  <2>1. (\A x : Changes(x)' = Changes(x)) /\ (\A x : Fed(x)' = Fed(x)) /\ (\A s : Shown(s)' = Shown(s))
    BY <1>5 DEF Changes, Fed, Shown, Naming, Uids
  <2> SUFFICES ASSUME NEW e \in Readers PROVE Followed(e)'
    BY DEF Views
  <2>2. CASE e # d
    BY <1>5, <1>7, <2>1, <2>2 DEF Views, Followed
  <2>3. CASE e = d
    <3>1. head.rev <= head.rev /\ generation <= generation
      BY DEF TypeOK
    <3> QED  BY <1>2, <1>5, <1>7, <1>8, <2>1, <2>3, <3>1 DEF Followed
  <2> QED  BY <2>2, <2>3
<1>11. Dated'
  BY <1>5, DatedKept
<1> QED  BY <1>1, <1>5, <1>6, <1>9, <1>10, <1>11, StoredKept, SentKept, KeptKept

-----------------------------------------------------------------------------
(* The theorems.                                                           *)

LEMMA StutterIInv == IInv /\ UNCHANGED vars => IInv'
<1> SUFFICES ASSUME IInv, UNCHANGED vars PROVE IInv'
  OBVIOUS
<1> USE DEF IInv
<1>1. UNCHANGED <<Stored, Sent, Viewed, now, pending, plan, evicted, remote>>
  BY DEF vars, Stored, Sent, Viewed, db, ghosts
<1>2. TypeOK'
  BY DEF TypeOK, vars, db, ghosts
<1>3. Dated' /\ Epochs'
  BY <1>1, DatedKept, EpochsKept DEF Stored, Sent, Viewed
<1> QED  BY <1>1, <1>2, <1>3, StoredKept, SentKept, KeptKept, ViewedKept

LEMMA NextIInv == IInv /\ [Next]_vars => IInv'
BY TickIInv, WriteIInv, RetireIInv, ReplaceIInv, RefreshIInv, ForgetIInv, SetPolicyIInv, RegisterIInv,
   UploadIInv, AcknowledgeIInv, PlanIInv, DiscardIInv, ApplyIInv, StutterIInv DEF Next

\* The inductive invariant holds in every reachable state.
THEOREM Invariance == Spec => []IInv
<1>1. Init => IInv
  BY InitIInv
<1>2. IInv /\ [Next]_vars => IInv'
  BY NextIInv
<1> QED  BY <1>1, <1>2, PTL DEF Spec

\* Every variable holds a value of its kind: batches are counted, so revisions
\* stay numbers, and what a plan or a cursor names exists (maintenance.rs: plan,
\* apply_batch; anonymous.rs: prune).
THEOREM RetentionTyped == Spec => []TypeOK
<1>1. IInv => TypeOK
  BY DEF IInv
<1> QED  BY <1>1, Invariance, PTL

\* What was evicted stays where it had to be kept, whatever was acknowledged
\* late, registered again or read in another epoch (maintenance.rs:
\* upload_floor, suppress_tombstones; retention.rs: acknowledge_retention).
THEOREM EvictionKeepsRemote == Spec => []RemoteKept
<1>1. IInv => RemoteKept
  BY DEF IInv
<1> QED  BY <1>1, Invariance, PTL

\* A deletion by the user is gone from every destination that is up to date:
\* no eviction takes it out of the feed (maintenance.rs: suppress_tombstones).
THEOREM DeletionsArrive == Spec => []ForgottenGone
<1>1. IInv => ForgottenGone
  <2> SUFFICES ASSUME IInv, NEW c \in Consumers, seen[c] = head, NEW u \in forgotten
               PROVE  u \notin remote[c]
    BY DEF ForgottenGone
  <2>1. PICK t \in tombs : t.uid = u
    BY DEF IInv, Told, Uids
  <2>2. t.rev <= seen[c].rev
    BY DEF IInv, Numbered
  <2> QED  BY <2>1, <2>2 DEF IInv, Uploads, Reached
<1> QED  BY <1>1, Invariance, PTL

\* A reader at the store's position shows what is stored, however many batches,
\* dropped journal entries and new epochs it came through (changes.rs: record,
\* read; relationships.rs: delete).
THEOREM ViewsAreExact == Spec => []ViewExact
<1>1. IInv => ViewExact
  <2> SUFFICES ASSUME IInv, NEW d \in Readers, NEW s \in Sessions,
                      view[d].epoch = head.epoch, view[d].rev = head.rev, view[d].generation = generation
               PROVE  view[d].shown[s] = Shown(s)
    BY DEF ViewExact
  <2>1. TypeOK /\ generation \in Nat /\ head.rev \in Nat /\ Kept \in Nat
    BY RetentionAssumption DEF IInv, TypeOK
  <2>2. Changes(generation) # None /\ s \notin Changes(generation)
    <3>1. (generation + 1)..generation = {} /\ ~(generation > generation) /\ ~(generation - generation > Kept)
      BY <2>1
    <3> QED  BY <2>1, <3>1, ChangesCases
  <2>3. s \notin Fed(head.rev)
    <3>1. \A x \in rows \cup tombs : x.rev \in Nat /\ x.rev <= head.rev
      BY DEF IInv, Numbered, TypeOK
    <3>2. catalog[s] # None => catalog[s].rev \in Nat /\ catalog[s].rev <= head.rev
      BY DEF IInv, Numbered, TypeOK
    <3> QED  BY <2>1, <3>1, <3>2, FedNames
  <2> QED  BY <2>2, <2>3 DEF IInv, Views, Followed
<1> QED  BY <1>1, Invariance, PTL

\* A batch takes only what has expired by the policy in force at that moment, and
\* none goes under 'forever', whatever was written and set since it was planned:
\* the plan is no later than today, its policy is compared and the session is looked at again
\* (maintenance.rs: run, process_session).
THEOREM EvictsOnlyExpired == Spec => OnlyExpired
<1> DEFINE A == generation' > generation =>
                   LET cutoff == Cutoff(now, days)
                       Old(s) == Activity(s) < cutoff
                   IN  /\ days # 0
                       /\ \A r \in rows \ rows' : IF r.of = {} THEN r.ts < cutoff ELSE \E s \in r.of : Old(s)
                       /\ \A s \in Sessions : catalog[s] # catalog'[s] => Old(s)
<1>1. IInv /\ [Next]_vars => A
  <2> SUFFICES ASSUME IInv, [Next]_vars, generation' > generation
               PROVE  LET cutoff == Cutoff(now, days)
                          Old(s) == Activity(s) < cutoff
                      IN  /\ days # 0
                          /\ \A r \in rows \ rows' : IF r.of = {} THEN r.ts < cutoff ELSE \E s \in r.of : Old(s)
                          /\ \A s \in Sessions : catalog[s] # catalog'[s] => Old(s)
    OBVIOUS
  <2>1. PICK w \in Workers : Apply(w)
    <3>1. generation' # generation /\ ~(generation' = 0)
      BY DEF IInv, TypeOK
    <3>2. Replace => generation' = 0
      BY DEF Replace
    <3>3. ASSUME ~ \E w \in Workers : Apply(w), ~Replace PROVE generation' = generation
      BY <3>3 DEF Next, vars, Tick, Write, Retire, Refresh, Forget, SetPolicy, Register, Remove, Upload,
                  Acknowledge, Plan, Discard, db
    <3> QED  BY <3>1, <3>2, <3>3
  <2>2. Batch
    <3>1. Nothing \/ Batch
      BY <2>1, ApplyCases DEF IInv
    <3>2. Nothing => generation' = generation
      BY DEF Nothing
    <3> QED  BY <3>1, <3>2 DEF IInv, TypeOK
  <2>3. days # 0
    BY <2>2, Zenon DEF Batch
  <2>4. PICK gone, unlisted, affected, allow :
           /\ Fit(gone, unlisted, affected, allow)
           /\ Evicts(gone, unlisted, affected, allow)
           /\ Stale(gone, unlisted, Cutoff(now, days))
    BY <2>2, Zenon DEF Batch
  <2>5. rows \ rows' \subseteq gone
    BY <2>4 DEF Evicts
  <2>6. \A s \in Sessions : catalog[s] # catalog'[s] => s \in unlisted
    BY <2>4 DEF Evicts
  <2> QED  BY <2>3, <2>4, <2>5, <2>6 DEF Stale
<1> QED  BY <1>1, Invariance, PTL DEF Spec, OnlyExpired
=============================================================================
