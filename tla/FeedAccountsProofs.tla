------------------------- MODULE FeedAccountsProofs -------------------------
(***************************************************************************)
(* That no change is skipped for good: what lies at or below a named       *)
(* cursor, an open drain's position or a watermark a consumer keeps has    *)
(* been given to that consumer.                                            *)
(*                                                                         *)
(* The argument: a step of a writer or a release leaves every record it    *)
(* puts at or below the old clock as it was (OldRecordsStay), so an        *)
(* account up to a position at or below the clock is never broken; and a   *)
(* drain's buffer holds every record of its kinds between its position and *)
(* the last one it holds, so yielding the oldest extends the account.      *)
(***************************************************************************)
EXTENDS ChangeFeedProofs

\* A position of another database than the store's carries an epoch older than
\* every epoch of this one.
OldEpoch(x) == x.epoch < epoch /\ \A l \in links : x.epoch < l.epoch

\* Accounts, over the whole feed.
Given(c, kinds, upto) ==
    \A r \in FeedOf(Kinds) : KindOf[r.key] \in kinds /\ r.rev <= upto => r \in delivered[c]

CursorOK(c) ==
    /\ cursor[c].bound = {} => cursor[c].rev = 0
    /\ cursor[c].bound = {Star} \/ cursor[c].bound \subseteq fed
    /\ ~cursor[c].foreign => /\ cursor[c].rev <= clock
                             /\ Given(c, BoundKinds(cursor[c].bound), cursor[c].rev)

\* The buffer lies between the position and the head, in distinct revisions.
BufferInRange(x) ==
    /\ \A b \in x.buffer : x.pos < b.rev /\ b.rev <= x.head
    /\ \A a, b \in x.buffer : a.rev = b.rev => a = b

\* It leaves out no record below one it holds.
BufferComplete(x) ==
    \A r \in FeedOf(Kinds) : \A b \in x.buffer :
        KindOf[r.key] \in x.kinds \cap fed /\ x.pos < r.rev /\ r.rev <= b.rev => r \in x.buffer

\* A drain of this database.
DrainHere(x) ==
    /\ x.pos <= x.head /\ x.head <= clock
    /\ x.kinds \subseteq fed \cup gone
    /\ BufferInRange(x) /\ BufferComplete(x)
    /\ ~x.foreign => Given(x.owner, x.kinds \cap fed, x.pos)

\* A drain whose position may still be committed: a release since it opened can
\* only have added kinds, above its head.
DrainNow(x) ==
    /\ x.kinds \subseteq fed
    /\ x.bound = {Star} =>
         \A r \in FeedOf(Kinds) : KindOf[r.key] \in fed /\ r.rev <= x.head => KindOf[r.key] \in x.kinds

DrainOK(d) ==
    drain[d].open =>
        /\ drain[d].owner \in Consumers
        /\ drain[d].bound \in {{Star}, drain[d].kinds} /\ drain[d].kinds # {}
        /\ drain[d].db <= db /\ drain[d].epoch <= lastEpoch
        /\ drain[d].db # db => OldEpoch(drain[d])
        /\ drain[d].db = db => DrainHere(drain[d])
        /\ drain[d].epoch = epoch => DrainNow(drain[d])

MarkHere(c) ==
    /\ mark[c].rev <= clock
    /\ mark[c].bound # {Star} => /\ mark[c].bound \subseteq fed \cup gone
                                 /\ Given(c, mark[c].bound \cap fed, mark[c].rev)
    /\ mark[c].bound = {Star} /\ mark[c].epoch = epoch => Given(c, fed, mark[c].rev)

MarkOK(c) ==
    mark[c].bound # {} =>
        /\ mark[c].db <= db /\ mark[c].epoch <= lastEpoch
        /\ mark[c].db # db => OldEpoch(mark[c])
        /\ mark[c].db = db /\ ~mark[c].foreign => MarkHere(c)

Epochs == epoch <= lastEpoch /\ \A l \in links : l.epoch <= lastEpoch

Account ==
    /\ Epochs
    /\ \A c \in Consumers : CursorOK(c)
    /\ \A d \in Drains : DrainOK(d)
    /\ \A c \in Consumers : MarkOK(c)

-----------------------------------------------------------------------------
(* Records.                                                                *)

\* The records of some kinds are the feed's records whose key is of them.
LEMMA FeedMember ==
    ASSUME NEW kinds, NEW r
    PROVE  r \in FeedOf(kinds) <=> r \in FeedOf(Kinds) /\ KindOf[r.key] \in kinds
<1>1. \A k \in Keys : Upsert(k).key = k /\ Tombstone(k).key = k /\ KindOf[k] \in Kinds
  BY ConstantsAssumption DEF Upsert, Tombstone
<1> QED BY <1>1 DEF FeedOf

\* The same after a step.
LEMMA FeedMemberNext ==
    ASSUME NEW kinds, NEW r
    PROVE  /\ r \in FeedOf(kinds)' <=> r \in FeedOf(Kinds)' /\ KindOf[r.key] \in kinds
           /\ r \in FeedOf(fed)' <=> r \in FeedOf(Kinds)' /\ KindOf[r.key] \in fed'
<1>1. \A k \in Keys : Upsert(k)'.key = k /\ Tombstone(k)'.key = k /\ KindOf[k] \in Kinds
  BY ConstantsAssumption DEF Upsert, Tombstone
<1> QED BY <1>1 DEF FeedOf

\* A step that leaves alone the stamp, value and presences of every fed row it
\* leaves at or below the clock, and the tombstones likewise, leaves those
\* records as they were.
LEMMA RecordsStay ==
    ASSUME TypeOK, TypeOK',
           \A k \in Keys : KindOf[k] \in fed' /\ row'[k] # None /\ rev'[k] > 0 /\ rev'[k] <= clock =>
              /\ KindOf[k] \in fed /\ rev[k] = rev'[k] /\ row[k] = row'[k]
              /\ Locations(k) = Locations(k)',
           \A k \in Keys : KindOf[k] \in fed' /\ tomb'[k] > 0 /\ tomb'[k] <= clock =>
              KindOf[k] \in fed /\ tomb[k] = tomb'[k]
    PROVE  \A r \in FeedOf(fed)' : r.rev <= clock => r \in FeedOf(fed)
<1> SUFFICES ASSUME NEW r \in FeedOf(fed)', r.rev <= clock PROVE r \in FeedOf(fed)
  OBVIOUS
<1>1. PICK k \in Keys : /\ KindOf[k] \in fed'
                       /\ \/ r = Upsert(k)' /\ row'[k] # None /\ rev'[k] > 0
                          \/ r = Tombstone(k)' /\ tomb'[k] > 0
  BY DEF FeedOf
<1>2. CASE r = Upsert(k)' /\ row'[k] # None /\ rev'[k] > 0
  <2>1. r.rev = rev'[k]
    BY <1>2 DEF Upsert
  <2>2. /\ KindOf[k] \in fed /\ rev[k] = rev'[k] /\ row[k] = row'[k]
        /\ Locations(k) = Locations(k)'
    BY <1>1, <1>2, <2>1
  <2>3. r = Upsert(k)
    BY <1>2, <2>2 DEF Upsert
  <2> QED BY <1>2, <2>2, <2>3 DEF FeedOf
<1>3. CASE r = Tombstone(k)' /\ tomb'[k] > 0
  <2>1. r.rev = tomb'[k]
    BY <1>3 DEF Tombstone
  <2>2. KindOf[k] \in fed /\ tomb[k] = tomb'[k]
    BY <1>1, <1>3, <2>1
  <2>3. r = Tombstone(k)
    BY <1>3, <2>2 DEF Tombstone
  <2> QED BY <1>3, <2>2, <2>3 DEF FeedOf
<1> QED BY <1>1, <1>2, <1>3

\* A presence that appears or goes re-stamps its session's row, so a session
\* whose stamp stays keeps its locations.
LEMMA LocationsStay ==
    ASSUME NEW k \in Keys,
           \A p \in Keys : SessionOf[p] = k => (row[p] = None <=> row'[p] = None)
    PROVE  Locations(k) = Locations(k)'
BY DEF Locations

LEMMA InsertKeepsOld ==
    ASSUME TypeOK, TypeOK', Stamped, NEW k \in Keys, NEW v \in Values, Insert(k, v)
    PROVE  \A r \in FeedOf(fed)' : r.rev <= clock => r \in FeedOf(fed)
<1> USE DEF TypeOK
<1>1. fed' = fed /\ row' = [row EXCEPT ![k] = v] /\ v # None /\ row[k] = None
  BY ConstantsAssumption DEF Insert
<1>2. tomb' = [tomb EXCEPT ![k] = IF IsFed(k) THEN 0 ELSE @]
  BY DEF Insert
<1>3. \A q \in Keys : rev'[q] = IF q = k THEN (IF IsFed(k) THEN clock + 1 ELSE 0)
                                ELSE IF q \in Catalog(k) THEN clock + Ticks(k) ELSE rev[q]
  BY DEF Insert, StampWith
<1>4. \A q \in Catalog(k) : Ticks(k) = 2
  BY CatalogFacts DEF Ticks
<1>5. ASSUME NEW q \in Keys, row'[q] # None, rev'[q] > 0, rev'[q] <= clock
      PROVE  q # k /\ q \notin Catalog(k) /\ rev[q] = rev'[q] /\ row[q] = row'[q]
  BY <1>1, <1>3, <1>4, <1>5
<1>6. ASSUME NEW q \in Keys, row'[q] # None, rev'[q] > 0, rev'[q] <= clock
      PROVE  Locations(q) = Locations(q)'
  <2>1. SessionOf[k] # q
    BY <1>1, <1>5, <1>6 DEF Catalog
  <2> QED BY <1>1, <2>1, LocationsStay
<1> QED BY <1>1, <1>2, <1>5, <1>6, RecordsStay

LEMMA UpdateKeepsOld ==
    ASSUME TypeOK, TypeOK', Stamped, NEW k \in Keys, NEW v \in Values, Update(k, v)
    PROVE  \A r \in FeedOf(fed)' : r.rev <= clock => r \in FeedOf(fed)
<1> USE DEF TypeOK
<1>1. fed' = fed /\ row' = [row EXCEPT ![k] = v] /\ v # None /\ row[k] # None
  BY ConstantsAssumption DEF Update
<1>2. tomb' = [tomb EXCEPT ![k] = IF IsFed(k) THEN 0 ELSE @]
  BY DEF Update
<1>3. rev' = [rev EXCEPT ![k] = IF IsFed(k) THEN clock + 1 ELSE @]
  BY DEF Update
<1>4. ASSUME NEW q \in Keys, KindOf[q] \in fed, rev'[q] <= clock
      PROVE  rev[q] = rev'[q] /\ row[q] = row'[q]
  BY <1>1, <1>3, <1>4 DEF IsFed
<1>5. ASSUME NEW q \in Keys PROVE Locations(q) = Locations(q)'
  BY <1>1, LocationsStay
<1> QED BY <1>1, <1>2, <1>4, <1>5, RecordsStay

LEMMA DeleteKeepsOld ==
    ASSUME TypeOK, TypeOK', Stamped, NEW k \in Keys, Delete(k)
    PROVE  \A r \in FeedOf(fed)' : r.rev <= clock => r \in FeedOf(fed)
<1> USE DEF TypeOK
<1>1. fed' = fed /\ row' = [row EXCEPT ![k] = None]
  BY DEF Delete
<1>2. tomb' = [tomb EXCEPT ![k] = IF IsFed(k) THEN clock + 1 ELSE @]
  BY DEF Delete
<1>3. \A q \in Keys : rev'[q] = IF q = k THEN 0
                                ELSE IF q \in Catalog(k) THEN clock + Ticks(k) ELSE rev[q]
  BY DEF Delete, StampWith
<1>4. \A q \in Catalog(k) : Ticks(k) = 2
  BY CatalogFacts DEF Ticks
<1>5. ASSUME NEW q \in Keys, row'[q] # None, rev'[q] <= clock
      PROVE  q # k /\ q \notin Catalog(k) /\ rev[q] = rev'[q] /\ row[q] = row'[q]
  BY <1>1, <1>3, <1>4, <1>5
<1>6. ASSUME NEW q \in Keys, row'[q] # None, rev'[q] <= clock
      PROVE  Locations(q) = Locations(q)'
  <2>1. SessionOf[k] # q
    BY <1>5, <1>6 DEF Catalog
  <2> QED BY <1>1, <2>1, LocationsStay
<1> QED BY <1>1, <1>2, <1>5, <1>6, RecordsStay DEF IsFed

LEMMA MoveKeepsOld ==
    ASSUME TypeOK, TypeOK', Stamped, NEW k \in Keys, NEW q \in Keys, NEW v \in Values,
           Move(k, q, v)
    PROVE  \A r \in FeedOf(fed)' : r.rev <= clock => r \in FeedOf(fed)
<1> USE DEF TypeOK
<1>1. fed' = fed /\ row' = [row EXCEPT ![k] = None, ![q] = v] /\ KindOf[k] = KindOf[q] /\ k # q
  BY DEF Move
<1>2. tomb' = [tomb EXCEPT ![k] = IF IsFed(k) THEN clock + 1 ELSE @,
                           ![q] = IF IsFed(k) THEN 0 ELSE @]
  BY DEF Move
<1>3. \A p \in Keys : rev'[p] = IF p = k THEN 0
                                ELSE IF p = q THEN IF IsFed(k) THEN clock + 2 ELSE 0
                                ELSE IF p \in Catalog(q) THEN clock + 3
                                ELSE IF p \in Catalog(k) THEN clock + 4
                                ELSE rev[p]
  BY DEF Move
<1>4. ASSUME NEW p \in Keys, row'[p] # None, rev'[p] > 0, rev'[p] <= clock
      PROVE  /\ p # k /\ p # q /\ p \notin Catalog(k) /\ p \notin Catalog(q)
             /\ rev[p] = rev'[p] /\ row[p] = row'[p]
  BY <1>1, <1>3, <1>4
<1>5. ASSUME NEW p \in Keys, row'[p] # None, rev'[p] > 0, rev'[p] <= clock
      PROVE  Locations(p) = Locations(p)'
  <2>1. SessionOf[k] # p /\ SessionOf[q] # p
    BY <1>4, <1>5 DEF Catalog
  <2> QED BY <1>1, <2>1, LocationsStay
<1>6. ASSUME NEW p \in Keys, KindOf[p] \in fed, tomb'[p] > 0, tomb'[p] <= clock
      PROVE  tomb[p] = tomb'[p]
  BY <1>1, <1>2, <1>6 DEF IsFed
<1> QED BY <1>1, <1>4, <1>5, <1>6, RecordsStay

LEMMA UpgradeKeepsOld ==
    ASSUME TypeOK, TypeOK', Stamped,
           NEW feeds \in Releases, NEW changed \in SUBSET Keys,
           NEW vals \in [changed -> Values], Upgrade(feeds, changed, vals)
    PROVE  \A r \in FeedOf(fed)' : r.rev <= clock => r \in FeedOf(fed)
<1> USE DEF TypeOK
<1> DEFINE added == feeds \ fed
           unstamped == LiveOf(added)
           through == clock + Cardinality(unstamped)
<1>1. Cardinality(unstamped) \in Nat /\ unstamped \in SUBSET Keys /\ through \in Nat
  BY RowsFinite DEF LiveOf
<1>2. PICK first \in Stamps(unstamped, clock), again \in Stamps(changed, through) :
         rev' = [k \in Keys |-> IF k \in changed THEN again[k]
                                ELSE IF k \in unstamped THEN first[k] ELSE rev[k]]
  BY DEF Upgrade
<1>3. \A k \in unstamped : first[k] \in Nat /\ clock < first[k]
  BY <1>1, StampsFacts
<1>4. \A k \in changed : again[k] \in Nat /\ through < again[k]
  <2> HIDE DEF through, TypeOK
  <2> QED BY <1>1, StampsFacts
<1>5. /\ tomb' = tomb /\ fed' = feeds
      /\ row' = [k \in Keys |-> IF k \in changed THEN vals[k] ELSE row[k]]
      /\ added \cap gone = {}
  BY DEF Upgrade
<1>6. \A k \in changed : row[k] # None /\ KindOf[k] \in fed /\ vals[k] # None
  BY ConstantsAssumption DEF Upgrade, LiveOf
<1>7. \A k \in Keys : KindOf[k] \in feeds /\ KindOf[k] \notin fed =>
         tomb[k] = 0 /\ (row[k] # None => k \in unstamped)
  <2> SUFFICES ASSUME NEW k \in Keys, KindOf[k] \in feeds, KindOf[k] \notin fed
               PROVE  tomb[k] = 0 /\ (row[k] # None => k \in unstamped)
    OBVIOUS
  <2>1. KindOf[k] \notin fed \cup gone
    BY <1>5
  <2>2. tomb[k] = 0
    BY <2>1 DEF Stamped, StampsFollowRows
  <2>3. row[k] # None => k \in unstamped
    BY DEF LiveOf
  <2> QED BY <2>2, <2>3
<1>8. clock <= through
  BY <1>1
<1> HIDE DEF added, unstamped, through
<1>9. ASSUME NEW k \in Keys, KindOf[k] \in feeds, row'[k] # None, rev'[k] <= clock
      PROVE  KindOf[k] \in fed /\ rev[k] = rev'[k] /\ row[k] = row'[k]
  <2>1. k \notin changed
    BY <1>1, <1>2, <1>4, <1>8, <1>9
  <2>2. k \notin unstamped
    BY <1>2, <1>3, <1>9, <2>1
  <2> QED BY <1>2, <1>5, <1>7, <1>9, <2>1, <2>2
<1>10. ASSUME NEW k \in Keys PROVE Locations(k) = Locations(k)'
  <2>1. \A p \in Keys : row[p] = None <=> row'[p] = None
    BY <1>5, <1>6
  <2> QED BY <2>1, LocationsStay
<1>11. \A k \in Keys : KindOf[k] \in fed' /\ tomb'[k] > 0 /\ tomb'[k] <= clock =>
          KindOf[k] \in fed /\ tomb[k] = tomb'[k]
  BY <1>5, <1>7
<1> QED BY <1>5, <1>9, <1>10, <1>11, RecordsStay

\* A step of a writer or a release.
Write ==
    \/ \E k \in Keys, v \in Values : Insert(k, v) \/ Update(k, v)
    \/ \E k, q \in Keys, v \in Values : Move(k, q, v)
    \/ \E k \in Keys : Delete(k)

Release ==
    \E feeds \in Releases, changed \in SUBSET Keys :
        \E vals \in [changed -> Values] : Upgrade(feeds, changed, vals)

\* What a writer or a release puts at or below the old clock was there before.
LEMMA OldRecordsStay ==
    ASSUME TypeOK, TypeOK', Stamped, Write \/ Release
    PROVE  \A r \in FeedOf(fed)' : r.rev <= clock => r \in FeedOf(fed)
<1>1. ASSUME NEW feeds \in Releases, NEW changed \in SUBSET Keys,
             NEW vals \in [changed -> Values], Upgrade(feeds, changed, vals)
      PROVE  \A r \in FeedOf(fed)' : r.rev <= clock => r \in FeedOf(fed)
  BY <1>1, UpgradeKeepsOld
<1>2. CASE Write
  BY <1>2, InsertKeepsOld, UpdateKeepsOld, MoveKeepsOld, DeleteKeepsOld DEF Write
<1> QED BY <1>1, <1>2 DEF Release

-----------------------------------------------------------------------------
(* Accounts.                                                               *)

\* Revisions of records are positive numbers at or below the clock, and name
\* one record.
Numbered ==
    /\ \A r \in FeedOf(Kinds) : r.rev \in Nat /\ 0 < r.rev /\ r.rev <= clock
    /\ \A r, s \in FeedOf(Kinds) : r.rev = s.rev => r = s

LEMMA RecordFacts == ASSUME TypeOK, Stamped PROVE Numbered
<1>1. ASSUME NEW r \in FeedOf(Kinds) PROVE r.rev \in Nat /\ 0 < r.rev /\ r.rev <= clock
  <2>1. PICK k \in Keys : /\ KindOf[k] \in Kinds
                         /\ \/ r = Upsert(k) /\ row[k] # None /\ rev[k] > 0
                            \/ r = Tombstone(k) /\ tomb[k] > 0
    BY RecordOf
  <2>2. Upsert(k).rev = rev[k] /\ Tombstone(k).rev = tomb[k]
    BY DEF Upsert, Tombstone
  <2> QED BY <2>1, <2>2 DEF TypeOK, Stamped, BelowClock
<1>2. ASSUME NEW r \in FeedOf(Kinds), NEW s \in FeedOf(Kinds), r.rev = s.rev PROVE r = s
  <2>1. PICK k \in Keys : /\ KindOf[k] \in Kinds
                         /\ \/ r = Upsert(k) /\ row[k] # None /\ rev[k] > 0
                            \/ r = Tombstone(k) /\ tomb[k] > 0
    BY RecordOf
  <2>2. PICK q \in Keys : /\ KindOf[q] \in Kinds
                         /\ \/ s = Upsert(q) /\ row[q] # None /\ rev[q] > 0
                            \/ s = Tombstone(q) /\ tomb[q] > 0
    BY RecordOf
  <2>3. /\ Upsert(k).rev = rev[k] /\ Upsert(q).rev = rev[q]
        /\ Tombstone(k).rev = tomb[k] /\ Tombstone(q).rev = tomb[q]
    BY DEF Upsert, Tombstone
  <2> QED BY <1>2, <2>1, <2>2, <2>3 DEF TypeOK, Stamped, Distinct
<1> QED BY <1>1, <1>2 DEF Numbered

LEMMA RecordFactsNext == (TypeOK /\ Stamped)' => Numbered'
<1>1. TypeOK /\ Stamped => Numbered
  BY RecordFacts
<1> QED BY <1>1, PTL

LEMMA GivenIsAccounts ==
    ASSUME NEW c, NEW kinds, NEW upto
    PROVE  Given(c, kinds, upto) <=> Accounts(c, kinds, upto)
BY FeedMember DEF Given, Accounts

\* Nothing lies at or below zero.
LEMMA GivenZero ==
    ASSUME TypeOK, Stamped, NEW c, NEW kinds
    PROVE  Given(c, kinds, 0)
BY RecordFacts DEF Given, Numbered

\* What a consumer has been given at or below the clock stays given through a
\* write and a release, of the kinds the release still feeds.
LEMMA GivenStays ==
    ASSUME TypeOK, TypeOK', Stamped, Stamped', Write \/ Release,
           NEW c \in Consumers, NEW r \in FeedOf(Kinds)', KindOf[r.key] \in fed', r.rev <= clock
    PROVE  /\ r \in FeedOf(Kinds) /\ KindOf[r.key] \in fed
           /\ r \in delivered[c] => r \in delivered'[c]
<1>1. r \in FeedOf(fed)'
  BY FeedMemberNext
<1>2. r \in FeedOf(fed)
  BY <1>1, OldRecordsStay
<1>3. r \in FeedOf(Kinds) /\ KindOf[r.key] \in fed
  BY <1>2, FeedMember
<1>4. Observe
  BY DEF Write, Release, Insert, Update, Move, Delete, Upgrade
<1> QED BY <1>3, <1>4 DEF Observe

-----------------------------------------------------------------------------
(* Writers and releases.                                                   *)

\* A step that retires no kind.
SameEpoch ==
    /\ epoch' = epoch /\ lastEpoch' = lastEpoch /\ links' = links /\ cursor' = cursor
    /\ fed \subseteq fed'

\* A step that retires some.
NewEpoch ==
    /\ epoch' = lastEpoch + 1 /\ lastEpoch' = lastEpoch + 1
    /\ \A l \in links' : l \in links \/ l.epoch = epoch
    /\ cursor' = RetireCursors(fed', fed \ fed')
    /\ fed' # {}

LEMMA StepFacts ==
    ASSUME TypeOK, Write \/ Release
    PROVE  /\ db' = db /\ drain' = drain /\ mark' = mark /\ clock <= clock'
           /\ fed' \cap gone \subseteq fed /\ fed \cup gone \subseteq fed' \cup gone'
           /\ SameEpoch \/ NewEpoch
<1> USE DEF TypeOK
<1>1. ASSUME NEW k \in Keys, NEW v \in Values, Insert(k, v) \/ Update(k, v)
      PROVE  /\ db' = db /\ drain' = drain /\ mark' = mark /\ clock <= clock'
             /\ fed' = fed /\ gone' = gone /\ SameEpoch
  BY <1>1, TicksNat DEF Insert, Update, SameEpoch
<1>2. ASSUME NEW k \in Keys, NEW q \in Keys, NEW v \in Values, Move(k, q, v)
      PROVE  /\ db' = db /\ drain' = drain /\ mark' = mark /\ clock <= clock'
             /\ fed' = fed /\ gone' = gone /\ SameEpoch
  BY <1>2, MoveTicksNat DEF Move, SameEpoch
<1>3. ASSUME NEW k \in Keys, Delete(k)
      PROVE  /\ db' = db /\ drain' = drain /\ mark' = mark /\ clock <= clock'
             /\ fed' = fed /\ gone' = gone /\ SameEpoch
  BY <1>3, TicksNat DEF Delete, SameEpoch
<1>4. ASSUME NEW feeds \in Releases, NEW changed \in SUBSET Keys,
             NEW vals \in [changed -> Values], Upgrade(feeds, changed, vals)
      PROVE  /\ db' = db /\ drain' = drain /\ mark' = mark /\ clock <= clock'
             /\ fed' \cap gone \subseteq fed /\ fed \cup gone \subseteq fed' \cup gone'
             /\ SameEpoch \/ NewEpoch
  <2>1. db' = db /\ drain' = drain /\ mark' = mark
    BY <1>4 DEF Upgrade
  <2>2. clock <= clock'
    <3>1. Cardinality(LiveOf(feeds \ fed)) \in Nat /\ Cardinality(changed) \in Nat
      BY RowsFinite DEF LiveOf
    <3>2. clock' = clock + Cardinality(LiveOf(feeds \ fed)) + Cardinality(changed)
      BY <1>4 DEF Upgrade
    <3> QED BY <3>1, <3>2
  <2>3. /\ fed' = feeds /\ gone' = gone \cup (fed \ feeds) /\ (feeds \ fed) \cap gone = {}
        /\ feeds # {}
    BY <1>4 DEF Upgrade
  <2>4. ASSUME fed \ feeds = {} PROVE SameEpoch
    <3>1. epoch' = epoch /\ lastEpoch' = lastEpoch /\ links' = links /\ cursor' = cursor
      BY <1>4, <2>4 DEF Upgrade
    <3> QED BY <2>3, <2>4, <3>1 DEF SameEpoch
  <2>5. ASSUME fed \ feeds # {} PROVE NewEpoch
    <3>1. epoch' = lastEpoch + 1 /\ lastEpoch' = lastEpoch + 1
      BY <1>4, <2>5 DEF Upgrade
    <3>2. cursor' = RetireCursors(feeds, fed \ feeds)
      BY <1>4, <2>5 DEF Upgrade
    <3>3. links' = links \cup {[epoch |-> epoch, successor |-> epoch',
                                through |-> clock + Cardinality(LiveOf(feeds \ fed))]}
      BY <1>4, <2>5 DEF Upgrade
    <3> QED BY <2>3, <3>1, <3>2, <3>3 DEF NewEpoch
  <2> QED BY <2>1, <2>2, <2>3, <2>4, <2>5
<1> QED BY <1>1, <1>2, <1>3, <1>4 DEF Write, Release

\* A cursor's kinds, spelled out.
LEMMA BoundFacts ==
    ASSUME NEW bound
    PROVE  /\ bound \subseteq Kinds => bound # {Star} /\ BoundKinds(bound) = bound
           /\ BoundKinds({Star}) = fed
BY ConstantsAssumption DEF BoundKinds

LEMMA BoundFactsNext ==
    ASSUME NEW bound
    PROVE  /\ bound \subseteq Kinds => bound # {Star} /\ BoundKinds(bound)' = bound
           /\ BoundKinds({Star})' = fed'
BY ConstantsAssumption DEF BoundKinds

LEMMA WriteCursors ==
    ASSUME TypeOK, TypeOK', Stamped, Stamped', Account, Write \/ Release,
           NEW c \in Consumers
    PROVE  CursorOK(c)'
<1>1. CursorOK(c) /\ cursor[c] \in Cursor /\ cursor[c].rev \in Nat
  BY DEF Account, TypeOK, Cursor
<1>2. fed \in SUBSET Kinds /\ fed' \in SUBSET Kinds /\ clock \in Nat /\ clock' \in Nat
  BY DEF TypeOK
<1>3. clock <= clock'
  BY StepFacts
<1>4. \A r \in FeedOf(Kinds)' : r.rev \in Nat
  BY RecordFactsNext DEF Numbered
<1>5. CASE SameEpoch
  <2>1. cursor'[c] = cursor[c] /\ fed \subseteq fed'
    BY <1>5 DEF SameEpoch
  <2>2. ASSUME ~cursor[c].foreign
        PROVE  /\ cursor[c].rev <= clock'
               /\ Given(c, BoundKinds(cursor[c].bound), cursor[c].rev)'
    <3>1. cursor[c].rev <= clock /\ Given(c, BoundKinds(cursor[c].bound), cursor[c].rev)
      BY <1>1, <2>2 DEF CursorOK
    <3>2. \/ /\ BoundKinds(cursor[c].bound) = fed /\ BoundKinds(cursor[c].bound)' = fed'
          \/ /\ BoundKinds(cursor[c].bound) = cursor[c].bound /\ cursor[c].bound \subseteq fed
             /\ BoundKinds(cursor[c].bound)' = cursor[c].bound
      BY <1>1, <1>2, <2>1, ConstantsAssumption DEF CursorOK, BoundKinds
    <3> QED BY <1>1, <1>2, <1>3, <1>4, <2>1, <3>1, <3>2, GivenStays DEF Given
  <2> QED BY <1>1, <2>1, <2>2 DEF CursorOK
<1>6. CASE NewEpoch
  <2>1. cursor'[c] = RetireCursor(cursor[c], fed', fed \ fed') /\ fed' # {}
    BY <1>6 DEF NewEpoch, RetireCursors
  <2>2. CASE cursor'[c] = NoCursor
    BY <1>2, <1>4, <2>2, RecordFactsNext, ConstantsAssumption
       DEF CursorOK, NoCursor, Given, Numbered
  <2>3. CASE cursor'[c] # NoCursor
    <3>1. /\ cursor'[c].rev = cursor[c].rev /\ cursor'[c].foreign = cursor[c].foreign
          /\ cursor[c].bound \subseteq fed' /\ cursor[c].bound # {Star}
          /\ \/ cursor'[c].bound = cursor[c].bound
             \/ cursor'[c].bound = {Star} /\ cursor[c].bound = fed'
      <4>1. cursor[c].bound = {Star} \/ cursor[c].bound \subseteq fed
        BY <1>1 DEF CursorOK
      <4> QED BY <1>1, <1>2, <2>1, <2>3, <4>1 DEF RetireCursor, Cursor
    <3>2. /\ BoundKinds(cursor[c].bound) = cursor[c].bound
          /\ BoundKinds(cursor[c].bound)' = cursor[c].bound
      BY <3>1 DEF BoundKinds
    <3>3. ASSUME ~cursor[c].foreign
          PROVE  /\ cursor'[c].rev <= clock'
                 /\ Given(c, BoundKinds(cursor[c].bound), cursor[c].rev)'
      <4>1. cursor[c].rev <= clock /\ Given(c, BoundKinds(cursor[c].bound), cursor[c].rev)
        BY <1>1, <3>3 DEF CursorOK
      <4> QED BY <1>1, <1>2, <1>3, <1>4, <3>1, <3>2, <4>1, GivenStays DEF Given
    <3>4. cursor'[c].bound = {} => cursor'[c].rev = 0
      BY <1>1, <3>1 DEF CursorOK
    <3> QED BY <3>1, <3>3, <3>4 DEF CursorOK
  <2> QED BY <2>2, <2>3
<1> QED BY <1>5, <1>6, StepFacts

LEMMA WriteOldEpoch ==
    ASSUME TypeOK, Account, Write \/ Release, NEW x, x.epoch \in Nat, x.epoch <= lastEpoch
    PROVE  /\ x.epoch <= lastEpoch'
           /\ OldEpoch(x) => OldEpoch(x)'
           /\ x.epoch = epoch' => x.epoch = epoch /\ SameEpoch
<1>1. epoch \in Nat /\ lastEpoch \in Nat /\ epoch <= lastEpoch
  BY DEF TypeOK, Account, Epochs
<1>2. CASE SameEpoch
  BY <1>2 DEF SameEpoch, OldEpoch
<1>3. CASE NewEpoch
  BY <1>1, <1>3 DEF NewEpoch, OldEpoch
<1> QED BY <1>2, <1>3, StepFacts

LEMMA WriteDrains ==
    ASSUME TypeOK, TypeOK', Stamped, Stamped', Account, Write \/ Release,
           NEW d \in Drains
    PROVE  DrainOK(d)'
<1> PICK x : x = drain[d]
  OBVIOUS
<1>1. DrainOK(d) /\ drain'[d] = x /\ db' = db /\ clock <= clock'
  BY StepFacts DEF Account
<1>2. /\ x.kinds \in SUBSET Kinds /\ x.epoch \in Nat /\ x.head \in Nat /\ x.pos \in Nat
      /\ x.buffer \in SUBSET Change
  BY DEF TypeOK, Drain
<1>3. fed \in SUBSET Kinds /\ fed' \in SUBSET Kinds /\ clock \in Nat /\ clock' \in Nat
  BY DEF TypeOK
<1>4. \A r \in FeedOf(Kinds)' : r.rev \in Nat
  BY RecordFactsNext DEF Numbered
<1>5. fed' \cap gone \subseteq fed /\ fed \cup gone \subseteq fed' \cup gone'
  BY StepFacts
<1>6. \A b \in x.buffer : b.rev \in Nat
  BY <1>2 DEF Change
<1>7. ASSUME x.owner \in Consumers, DrainHere(x) PROVE DrainHere(x)'
  <2>1. x.pos <= x.head /\ x.head <= clock' /\ x.kinds \subseteq fed' \cup gone'
    BY <1>1, <1>2, <1>3, <1>5, <1>7 DEF DrainHere
  <2>2. BufferInRange(x)
    BY <1>7 DEF DrainHere
  <2>3. x.kinds \cap fed' \subseteq x.kinds \cap fed
    BY <1>5, <1>7 DEF DrainHere
  <2>4. BufferComplete(x)'
    <3> SUFFICES ASSUME NEW r \in FeedOf(Kinds)', NEW b \in x.buffer,
                        KindOf[r.key] \in x.kinds \cap fed', x.pos < r.rev, r.rev <= b.rev
                 PROVE  r \in x.buffer
      BY DEF BufferComplete
    <3>1. r.rev <= clock
      BY <1>2, <1>3, <1>4, <1>6, <1>7, <2>2 DEF DrainHere, BufferInRange
    <3>2. r \in FeedOf(Kinds) /\ KindOf[r.key] \in fed
      BY <1>7, <3>1, GivenStays
    <3> QED BY <1>7, <3>2 DEF DrainHere, BufferComplete
  <2>5. ASSUME ~x.foreign PROVE Given(x.owner, x.kinds \cap fed, x.pos)'
    <3> SUFFICES ASSUME NEW r \in FeedOf(Kinds)', KindOf[r.key] \in x.kinds \cap fed', r.rev <= x.pos
                 PROVE  r \in delivered'[x.owner]
      BY DEF Given
    <3>1. r.rev <= clock
      BY <1>2, <1>3, <1>4, <1>7 DEF DrainHere
    <3>2. /\ r \in FeedOf(Kinds) /\ KindOf[r.key] \in fed
          /\ r \in delivered[x.owner] => r \in delivered'[x.owner]
      BY <1>7, <3>1, GivenStays
    <3> QED BY <1>7, <2>5, <3>2 DEF DrainHere, Given
  <2> QED BY <2>1, <2>2, <2>4, <2>5 DEF DrainHere, BufferInRange
<1>8. ASSUME x.epoch = epoch', x.epoch = epoch, SameEpoch, DrainHere(x), DrainNow(x), x.owner \in Consumers
      PROVE  DrainNow(x)'
  <2>1. x.kinds \subseteq fed'
    BY <1>8 DEF DrainNow, SameEpoch
  <2>2. ASSUME x.bound = {Star}, NEW r \in FeedOf(Kinds)', KindOf[r.key] \in fed', r.rev <= x.head
        PROVE  KindOf[r.key] \in x.kinds
    <3>1. r.rev <= clock
      BY <1>2, <1>3, <1>4, <1>8, <2>2 DEF DrainHere
    <3>2. r \in FeedOf(Kinds) /\ KindOf[r.key] \in fed
      BY <1>8, <2>2, <3>1, GivenStays
    <3> QED BY <1>8, <2>2, <3>2 DEF DrainNow
  <2> QED BY <2>1, <2>2 DEF DrainNow
<1>9. ASSUME x.open PROVE /\ x.epoch <= lastEpoch'
                          /\ x.db # db => OldEpoch(x)'
                          /\ x.db = db => DrainHere(x)'
                          /\ x.epoch = epoch' => DrainNow(x)'
  <2>1. /\ x.owner \in Consumers /\ x.epoch <= lastEpoch
        /\ x.db # db => OldEpoch(x)
        /\ x.db = db => DrainHere(x)
        /\ x.epoch = epoch => DrainNow(x)
    BY <1>1, <1>9 DEF DrainOK
  <2>2. /\ x.epoch <= lastEpoch'
        /\ OldEpoch(x) => OldEpoch(x)'
        /\ x.epoch = epoch' => x.epoch = epoch /\ SameEpoch
    BY <1>2, <2>1, WriteOldEpoch
  <2>3. x.epoch = epoch => x.db = db
    BY <1>2, <2>1 DEF OldEpoch, TypeOK
  <2> QED BY <1>7, <1>8, <2>1, <2>2, <2>3
<1>10. drain'[d].open => /\ drain'[d].owner \in Consumers
                         /\ drain'[d].bound \in {{Star}, drain'[d].kinds} /\ drain'[d].kinds # {}
                         /\ drain'[d].db <= db'
  BY <1>1 DEF DrainOK
<1> QED BY <1>1, <1>9, <1>10 DEF DrainOK, DrainHere, BufferInRange, BufferComplete, DrainNow, OldEpoch, Given

LEMMA WriteMarks ==
    ASSUME TypeOK, TypeOK', Stamped, Stamped', Account, Write \/ Release,
           NEW c \in Consumers
    PROVE  MarkOK(c)'
<1> PICK m : m = mark[c]
  OBVIOUS
<1>1. MarkOK(c) /\ mark'[c] = m /\ db' = db /\ clock <= clock'
  BY StepFacts DEF Account
<1>2. m.epoch \in Nat /\ m.rev \in Nat
  BY DEF TypeOK, Mark
<1>3. clock \in Nat /\ clock' \in Nat
  BY DEF TypeOK
<1>4. \A r \in FeedOf(Kinds)' : r.rev \in Nat
  BY RecordFactsNext DEF Numbered
<1>5. fed' \cap gone \subseteq fed /\ fed \cup gone \subseteq fed' \cup gone'
  BY StepFacts
<1>6. ASSUME m.bound # {} PROVE MarkOK(c)'
  <2>1. /\ m.db <= db /\ m.epoch <= lastEpoch
        /\ m.db # db => OldEpoch(m)
        /\ m.db = db /\ ~m.foreign => MarkHere(c)
    BY <1>1, <1>6 DEF MarkOK
  <2>2. /\ m.epoch <= lastEpoch'
        /\ OldEpoch(m) => OldEpoch(m)'
        /\ m.epoch = epoch' => m.epoch = epoch /\ SameEpoch
    BY <1>2, <2>1, WriteOldEpoch
  <2>3. ASSUME MarkHere(c) PROVE MarkHere(c)'
    <3>1. m.rev <= clock /\ m.rev <= clock'
      BY <1>1, <1>2, <1>3, <2>3 DEF MarkHere
    <3>2. ASSUME m.bound # {Star}
          PROVE  /\ m.bound \subseteq fed' \cup gone'
                 /\ \A r \in FeedOf(Kinds)' : KindOf[r.key] \in m.bound \cap fed' /\ r.rev <= m.rev
                      => r \in delivered'[c]
      <4>1. m.bound \subseteq fed \cup gone /\ Given(c, m.bound \cap fed, m.rev)
        BY <2>3, <3>2 DEF MarkHere
      <4>2. m.bound \cap fed' \subseteq fed
        BY <1>5, <4>1
      <4> QED BY <1>2, <1>3, <1>4, <1>5, <3>1, <4>1, <4>2, GivenStays DEF Given
    <3>3. ASSUME m.bound = {Star}, m.epoch = epoch'
          PROVE  \A r \in FeedOf(Kinds)' : KindOf[r.key] \in fed' /\ r.rev <= m.rev
                      => r \in delivered'[c]
      <4>1. Given(c, fed, m.rev)
        BY <2>2, <2>3, <3>3 DEF MarkHere
      <4> QED BY <1>2, <1>3, <1>4, <3>1, <4>1, GivenStays DEF Given
    <3> QED BY <1>1, <3>1, <3>2, <3>3 DEF MarkHere, Given
  <2> QED BY <1>1, <2>1, <2>2, <2>3 DEF MarkOK, OldEpoch
<1> QED BY <1>1, <1>6 DEF MarkOK

LEMMA WriteAccount ==
    ASSUME TypeOK, TypeOK', Stamped, Stamped', Account, Write \/ Release
    PROVE  Account'
<1>1. Epochs'
  <2>1. epoch \in Nat /\ lastEpoch \in Nat /\ Epochs /\ \A l \in links : l.epoch \in Nat
    BY DEF Account, TypeOK, Link
  <2> QED BY <2>1, StepFacts DEF Epochs, SameEpoch, NewEpoch
<1> QED BY <1>1, WriteCursors, WriteDrains, WriteMarks DEF Account

-----------------------------------------------------------------------------
(* The first state, and a replaced database.                               *)

LEMMA InitAccount == ASSUME Init, TypeOK, Stamped PROVE Account
<1>1. Epochs
  BY DEF Init, Epochs
<1>2. ASSUME NEW c \in Consumers PROVE CursorOK(c)
  <2>1. cursor[c] = NoCursor \/ (cursor[c].foreign /\ cursor[c].bound = {Star})
    BY DEF Init
  <2>2. CASE cursor[c] = NoCursor
    BY <2>2, GivenZero DEF CursorOK, NoCursor, TypeOK
  <2> QED BY <2>1, <2>2 DEF CursorOK
<1>3. ASSUME NEW d \in Drains PROVE DrainOK(d)
  BY DEF Init, DrainOK, Closed
<1>4. ASSUME NEW c \in Consumers PROVE MarkOK(c)
  BY DEF Init, MarkOK, NoMark
<1> QED BY <1>1, <1>2, <1>3, <1>4 DEF Account

LEMMA ReplaceAccount ==
    ASSUME TypeOK, TypeOK', Stamped', Account, Replace
    PROVE  Account'
<1>1. /\ db' = db + 1 /\ epoch' = lastEpoch + 1 /\ lastEpoch' = lastEpoch + 1 /\ links' = {}
      /\ cursor' = [c \in Consumers |-> NoCursor] /\ drain' = drain /\ mark' = mark
  BY DEF Replace
<1>2. db \in Nat /\ lastEpoch \in Nat /\ clock' \in Nat
  BY DEF TypeOK
<1>3. Epochs'
  BY <1>1, <1>2 DEF Epochs
<1>4. ASSUME NEW c \in Consumers PROVE CursorOK(c)'
  <2>1. cursor'[c] = NoCursor
    BY <1>1
  <2> QED BY <1>2, <2>1, RecordFactsNext DEF CursorOK, NoCursor, Given, Numbered
<1>5. ASSUME NEW d \in Drains PROVE DrainOK(d)'
  <2>1. DrainOK(d) /\ drain'[d] = drain[d] /\ drain[d].db \in Nat /\ drain[d].epoch \in Nat
    BY <1>1 DEF Account, TypeOK, Drain
  <2>2. drain[d].open => drain[d].db <= db /\ drain[d].epoch <= lastEpoch
    BY <2>1 DEF DrainOK
  <2>3. drain[d].open => /\ drain[d].db # db' /\ drain[d].db <= db'
                         /\ drain[d].epoch < epoch' /\ drain[d].epoch <= lastEpoch'
    BY <1>1, <1>2, <2>1, <2>2
  <2> QED BY <1>1, <1>2, <2>1, <2>3 DEF DrainOK, OldEpoch
<1>6. ASSUME NEW c \in Consumers PROVE MarkOK(c)'
  <2>1. MarkOK(c) /\ mark'[c] = mark[c] /\ mark[c].db \in Nat /\ mark[c].epoch \in Nat
    BY <1>1 DEF Account, TypeOK, Mark
  <2>2. mark[c].bound # {} => mark[c].db <= db /\ mark[c].epoch <= lastEpoch
    BY <2>1 DEF MarkOK
  <2>3. mark[c].bound # {} => /\ mark[c].db # db' /\ mark[c].db <= db'
                              /\ mark[c].epoch < epoch' /\ mark[c].epoch <= lastEpoch'
    BY <1>1, <1>2, <2>1, <2>2
  <2> QED BY <1>1, <2>1, <2>3 DEF MarkOK, OldEpoch
<1> QED BY <1>3, <1>4, <1>5, <1>6 DEF Account

-----------------------------------------------------------------------------
(* Consumers.                                                              *)

\* A consumer's step leaves the store alone and takes nothing back, so what it
\* does not assign stays in order.
LEMMA FeedSame == ASSUME UNCHANGED store PROVE FeedOf(Kinds)' = FeedOf(Kinds)
BY DEF store, FeedOf, Upsert, Tombstone, Locations

LEMMA ConsumerStays ==
    ASSUME Account, UNCHANGED store, \A c \in Consumers : delivered[c] \subseteq delivered'[c]
    PROVE  /\ Epochs'
           /\ \A c \in Consumers : cursor'[c] = cursor[c] => CursorOK(c)'
           /\ \A d \in Drains : drain'[d] = drain[d] => DrainOK(d)'
           /\ \A c \in Consumers : mark'[c] = mark[c] => MarkOK(c)'
<1>1. /\ clock' = clock /\ fed' = fed /\ gone' = gone /\ db' = db /\ epoch' = epoch
      /\ lastEpoch' = lastEpoch /\ links' = links
  BY DEF store
<1>2. FeedOf(Kinds)' = FeedOf(Kinds)
  BY FeedSame
<1>3. Epochs'
  BY <1>1 DEF Account, Epochs
<1>4. ASSUME NEW c \in Consumers, cursor'[c] = cursor[c] PROVE CursorOK(c)'
  <2>1. CursorOK(c)
    BY DEF Account
  <2> QED BY <1>1, <1>2, <1>4, <2>1 DEF CursorOK, Given, BoundKinds
<1>5. ASSUME NEW d \in Drains, drain'[d] = drain[d] PROVE DrainOK(d)'
  <2>1. DrainOK(d)
    BY DEF Account
  <2> QED BY <1>1, <1>2, <1>5, <2>1
          DEF DrainOK, DrainHere, DrainNow, BufferInRange, BufferComplete, OldEpoch, Given
<1>6. ASSUME NEW c \in Consumers, mark'[c] = mark[c] PROVE MarkOK(c)'
  <2>1. MarkOK(c)
    BY DEF Account
  <2> QED BY <1>1, <1>2, <1>6, <2>1 DEF MarkOK, MarkHere, OldEpoch, Given
<1> QED BY <1>3, <1>4, <1>5, <1>6

\* A cursor accounts for the kinds it would be resumed with.
LEMMA CursorGives ==
    ASSUME TypeOK, Stamped, Account, NEW c \in Consumers, NEW kinds \in SUBSET Kinds,
           FromConsumer(c, kinds).ok, ~cursor[c].foreign
    PROVE  Given(c, kinds, cursor[c].rev)
<1>1. CursorOK(c)
  BY DEF Account
<1>2. cursor[c].bound \in {{}, Stored(kinds)}
  BY DEF FromConsumer
<1>3. CASE cursor[c].bound = {}
  <2>1. cursor[c].rev = 0
    BY <1>1, <1>3 DEF CursorOK
  <2> QED BY <2>1, GivenZero
<1>4. CASE cursor[c].bound = Stored(kinds)
  <2>1. BoundKinds(cursor[c].bound) = kinds
    BY <1>4, ConstantsAssumption DEF BoundKinds, Stored
  <2> QED BY <1>1, <2>1 DEF CursorOK
<1> QED BY <1>2, <1>3, <1>4

\* A watermark that resumes belongs to this database: an epoch of another one is
\* neither the store's nor any link's.
LEMMA ResumedHere ==
    ASSUME TypeOK, Account, NEW c \in Consumers, NEW kinds, mark[c].bound # {},
           Continues(mark[c], kinds)
    PROVE  mark[c].db = db
<1> SUFFICES ASSUME mark[c].db # db PROVE FALSE
  OBVIOUS
<1>1. OldEpoch(mark[c])
  BY DEF Account, MarkOK
<1>2. mark[c].epoch \in Nat /\ epoch \in Nat /\ \A l \in links : l.epoch \in Nat
  BY DEF TypeOK, Mark, Link
<1>3. mark[c].epoch # epoch
  BY <1>1, <1>2 DEF OldEpoch
<1>4. Chain(mark[c])
  BY <1>3 DEF Continues
<1>5. PICK n \in 1..MaxEpochLinks : \E path \in [0..n -> 1..lastEpoch] :
        /\ path[0] = mark[c].epoch
        /\ \A i \in 0..(n - 1) : \E l \in links : l.epoch = path[i]
  BY <1>4 DEF Chain
<1>6. 0 \in 0..(n - 1)
  BY ConstantsAssumption
<1>7. \E l \in links : l.epoch = mark[c].epoch
  <2>1. PICK path \in [0..n -> 1..lastEpoch] :
          /\ path[0] = mark[c].epoch
          /\ \A i \in 0..(n - 1) : \E l \in links : l.epoch = path[i]
    BY <1>5
  <2> QED BY <1>6, <2>1
<1> QED BY <1>1, <1>2, <1>7 DEF OldEpoch

\* And it accounts for the kinds it is resumed with.
LEMMA MarkGives ==
    ASSUME TypeOK, Account, NEW c \in Consumers, NEW kinds,
           FromMark(c, kinds).ok, ~mark[c].foreign
    PROVE  Given(c, kinds, mark[c].rev)
<1>1. mark[c].bound # {} /\ kinds = BoundKinds(mark[c].bound) \cap fed /\ Continues(mark[c], kinds)
  BY DEF FromMark
<1>2. MarkHere(c)
  BY <1>1, ResumedHere DEF Account, MarkOK
<1>3. CASE mark[c].bound = {Star}
  <2>1. kinds = fed
    BY <1>1, <1>3 DEF BoundKinds
  <2>2. mark[c].epoch = epoch
    BY <1>1, <2>1 DEF Continues
  <2> QED BY <1>2, <1>3, <2>1, <2>2 DEF MarkHere
<1>4. CASE mark[c].bound # {Star}
  BY <1>1, <1>2, <1>4 DEF MarkHere, BoundKinds
<1> QED BY <1>3, <1>4

LEMMA OpenAccount ==
    ASSUME TypeOK, TypeOK', Stamped, Account,
           NEW d \in Drains, NEW c \in Consumers, NEW kinds \in SUBSET Kinds, NEW from,
           from.rev \in Nat, ~from.foreign => Given(c, kinds, from.rev),
           Open(d, c, kinds, from)
    PROVE  Account'
<1>1. UNCHANGED store /\ cursor' = cursor /\ mark' = mark /\ delivered' = delivered
  BY DEF Open
<1>2. /\ clock' = clock /\ fed' = fed /\ gone' = gone /\ db' = db /\ epoch' = epoch
      /\ lastEpoch' = lastEpoch /\ links' = links /\ FeedOf(Kinds)' = FeedOf(Kinds)
  BY <1>1, FeedSame DEF store
<1>3. \A e \in Drains : e # d => drain'[e] = drain[e]
  BY DEF Open, TypeOK
<1>4. PICK x : x = drain'[d]
  OBVIOUS
<1>5. /\ x.owner = c /\ x.kinds = kinds /\ x.bound = Stored(kinds) /\ x.db = db
      /\ x.epoch = epoch /\ x.head = clock /\ x.pos = from.rev /\ x.foreign = from.foreign
      /\ x.buffer = {}
  BY <1>4 DEF Open, TypeOK
<1>6. kinds # {} /\ kinds \subseteq fed /\ from.rev <= clock
  BY DEF Open
<1>7. /\ x.bound \in {{Star}, kinds}
      /\ x.bound = {Star} => kinds = fed
  BY <1>5, ConstantsAssumption DEF Stored
<1>8. epoch <= lastEpoch /\ clock \in Nat /\ db \in Nat
  BY DEF Account, Epochs, TypeOK
<1>9. DrainHere(x)'
  <2>1. kinds \cap fed = kinds
    BY <1>6
  <2> QED BY <1>2, <1>5, <1>6, <1>8, <1>1, <2>1
          DEF DrainHere, BufferInRange, BufferComplete, Given
<1>10. DrainNow(x)'
  BY <1>2, <1>5, <1>6, <1>7 DEF DrainNow
<1>11. DrainOK(d)'
  BY <1>2, <1>4, <1>5, <1>6, <1>7, <1>8, <1>9, <1>10
     DEF DrainOK, DrainHere, DrainNow, BufferInRange, BufferComplete, Given
<1> QED BY <1>1, <1>3, <1>11, ConsumerStays DEF Account

\* The page holds every record of the window up to its cut.
LEMMA FillAccount ==
    ASSUME TypeOK, TypeOK', Stamped, Account, NEW d \in Drains, Fill(d)
    PROVE  Account'
<1>1. UNCHANGED store /\ cursor' = cursor /\ mark' = mark /\ delivered' = delivered
  BY DEF Fill
<1>2. /\ clock' = clock /\ fed' = fed /\ gone' = gone /\ db' = db /\ epoch' = epoch
      /\ lastEpoch' = lastEpoch /\ links' = links /\ FeedOf(Kinds)' = FeedOf(Kinds)
  BY <1>1, FeedSame DEF store
<1>3. \A e \in Drains : e # d => drain'[e] = drain[e]
  BY DEF Fill, TypeOK
<1>4. PICK x : x = drain[d]
  OBVIOUS
<1>5. PICK y : y = drain'[d]
  OBVIOUS
<1>6. /\ x.open /\ x.db = db /\ x.pos \in Nat /\ x.head \in Nat /\ x.kinds \in SUBSET Kinds
  BY <1>4 DEF Fill, TypeOK, Drain
<1>7. /\ x.owner \in Consumers /\ x.bound \in {{Star}, x.kinds} /\ x.kinds # {}
      /\ x.epoch <= lastEpoch /\ DrainHere(x)
      /\ x.epoch = epoch => DrainNow(x)
  BY <1>4, <1>6 DEF Account, DrainOK
<1>8. /\ \A r \in FeedOf(Kinds) : r.rev \in Nat
      /\ \A r, s \in FeedOf(Kinds) : r.rev = s.rev => r = s
  BY RecordFacts DEF Numbered
<1>9. \A r : r \in Window(d) <=> /\ r \in FeedOf(Kinds) /\ KindOf[r.key] \in x.kinds
                                 /\ x.pos < r.rev /\ r.rev <= x.head
  BY <1>4, FeedMember DEF Window
<1>10. /\ y.open = x.open /\ y.owner = x.owner /\ y.kinds = x.kinds /\ y.bound = x.bound
       /\ y.db = x.db /\ y.epoch = x.epoch /\ y.head = x.head /\ y.foreign = x.foreign
       /\ \/ Window(d) = {} /\ y.buffer = x.buffer /\ x.buffer = {} /\ y.pos = x.head
          \/ y.buffer = Page(d) /\ y.pos = x.pos
  BY <1>4, <1>5 DEF Fill, TypeOK, Drain
<1>11. PageCut(d) \in Nat
  <2> DEFINE last == {r \in Window(d) : Cardinality({s \in Window(d) : s.rev <= r.rev}) = Batch}
  <2>1. CASE last = {}
    BY <1>4, <1>6, <2>1 DEF PageCut
  <2>2. CASE last # {}
    <3>1. (CHOOSE r \in last : TRUE) \in Window(d)
      BY <2>2
    <3> QED BY <1>8, <1>9, <2>2, <3>1 DEF PageCut
  <2> QED BY <2>1, <2>2
<1>12. DrainHere(y)'
  <2>1. y.pos <= y.head /\ y.head <= clock /\ y.kinds \subseteq fed \cup gone
    BY <1>6, <1>7, <1>10 DEF DrainHere
  <2>2. CASE Window(d) = {} /\ y.buffer = {} /\ y.pos = x.head
    <3>1. ~y.foreign => Given(y.owner, y.kinds \cap fed, y.pos)
      BY <1>6, <1>7, <1>8, <1>9, <1>10, <2>2 DEF DrainHere, Given
    <3> QED BY <1>1, <1>2, <2>1, <2>2, <3>1 DEF DrainHere, BufferInRange, BufferComplete, Given
  <2>3. CASE y.buffer = Page(d) /\ y.pos = x.pos
    <3>1. \A r : r \in y.buffer <=> r \in Window(d) /\ r.rev <= PageCut(d)
      BY <2>3 DEF Page
    <3>2. BufferInRange(y)
      BY <1>8, <1>9, <1>10, <2>3, <3>1 DEF BufferInRange
    <3>3. BufferComplete(y)
      BY <1>6, <1>8, <1>9, <1>10, <1>11, <2>3, <3>1 DEF BufferComplete
    <3>4. ~y.foreign => Given(y.owner, y.kinds \cap fed, y.pos)
      BY <1>7, <1>10, <2>3 DEF DrainHere
    <3> QED BY <1>1, <1>2, <2>1, <3>2, <3>3, <3>4 DEF DrainHere, BufferInRange, BufferComplete, Given
  <2> QED BY <1>10, <2>2, <2>3
<1>13. y.epoch = epoch => DrainNow(y)'
  BY <1>2, <1>7, <1>10 DEF DrainNow
<1>14. DrainOK(d)'
  BY <1>2, <1>5, <1>6, <1>7, <1>10, <1>12, <1>13
     DEF DrainOK, DrainHere, DrainNow, BufferInRange, BufferComplete, Given, TypeOK
<1> QED BY <1>1, <1>3, <1>14, ConsumerStays DEF Account

\* A drain that changes nothing its account speaks of.
LEMMA FillFailsAccount ==
    ASSUME TypeOK, TypeOK', Account, NEW d \in Drains, FillFails(d)
    PROVE  Account'
<1>1. UNCHANGED store /\ cursor' = cursor /\ mark' = mark /\ delivered' = delivered
  BY DEF FillFails
<1>2. /\ clock' = clock /\ fed' = fed /\ gone' = gone /\ db' = db /\ epoch' = epoch
      /\ lastEpoch' = lastEpoch /\ links' = links /\ FeedOf(Kinds)' = FeedOf(Kinds)
  BY <1>1, FeedSame DEF store
<1>3. \A e \in Drains : e # d => drain'[e] = drain[e]
  BY DEF FillFails, TypeOK
<1>4. PICK x : x = drain[d]
  OBVIOUS
<1>5. PICK y : y = drain'[d]
  OBVIOUS
<1>6. /\ y.open = x.open /\ y.owner = x.owner /\ y.kinds = x.kinds /\ y.bound = x.bound
      /\ y.db = x.db /\ y.epoch = x.epoch /\ y.head = x.head /\ y.foreign = x.foreign
      /\ y.buffer = x.buffer /\ y.pos = x.pos
  BY <1>4, <1>5 DEF FillFails, TypeOK, Drain
<1>7. DrainOK(d)
  BY DEF Account
<1>8. DrainOK(d)'
  BY <1>1, <1>2, <1>4, <1>5, <1>6, <1>7
     DEF DrainOK, DrainHere, DrainNow, BufferInRange, BufferComplete, OldEpoch, Given
<1> QED BY <1>1, <1>3, <1>8, ConsumerStays DEF Account

\* The oldest buffered change is the next record of the drain's kinds, if it is
\* still one: nothing lies between it and the position.
LEMMA YieldAccount ==
    ASSUME TypeOK, TypeOK', Stamped, Account, NEW d \in Drains, Yield(d)
    PROVE  Account'
<1>1. UNCHANGED store /\ cursor' = cursor /\ mark' = mark
  BY DEF Yield
<1>2. /\ clock' = clock /\ fed' = fed /\ gone' = gone /\ db' = db /\ epoch' = epoch
      /\ lastEpoch' = lastEpoch /\ links' = links /\ FeedOf(Kinds)' = FeedOf(Kinds)
  BY <1>1, FeedSame DEF store
<1>3. PICK r \in drain[d].buffer :
        /\ \A s \in drain[d].buffer : r.rev <= s.rev
        /\ drain' = [drain EXCEPT ![d].buffer = @ \ {r}, ![d].pos = r.rev]
        /\ delivered' = [delivered EXCEPT ![drain[d].owner] = @ \cup ({r} \cap FeedOf(Kinds))]
  BY DEF Yield
<1>4. \A e \in Drains : e # d => drain'[e] = drain[e]
  BY <1>3 DEF TypeOK
<1>5. \A c \in Consumers : delivered[c] \subseteq delivered'[c]
  BY <1>3 DEF TypeOK
<1>6. PICK x : x = drain[d]
  OBVIOUS
<1>7. PICK y : y = drain'[d]
  OBVIOUS
<1>8. /\ x.open /\ x.pos \in Nat /\ x.head \in Nat /\ x.kinds \in SUBSET Kinds
      /\ x.buffer \in SUBSET Change
  BY <1>6 DEF Yield, TypeOK, Drain
<1>9. /\ y.open = x.open /\ y.owner = x.owner /\ y.kinds = x.kinds /\ y.bound = x.bound
      /\ y.db = x.db /\ y.epoch = x.epoch /\ y.head = x.head /\ y.foreign = x.foreign
      /\ y.buffer = x.buffer \ {r} /\ y.pos = r.rev
  BY <1>3, <1>6, <1>7 DEF TypeOK, Drain
<1>10. /\ x.owner \in Consumers /\ x.bound \in {{Star}, x.kinds} /\ x.kinds # {}
       /\ x.db <= db /\ x.epoch <= lastEpoch
       /\ x.db # db => OldEpoch(x)
       /\ x.db = db => DrainHere(x)
       /\ x.epoch = epoch => DrainNow(x)
  BY <1>6, <1>8 DEF Account, DrainOK
<1>11. \A s \in FeedOf(Kinds) : s.rev \in Nat
  BY RecordFacts DEF Numbered
<1>12. \A b \in x.buffer : b.rev \in Nat
  BY <1>8 DEF Change
<1>13. r \in FeedOf(Kinds) => r \in delivered'[x.owner]
  BY <1>3, <1>6, <1>10 DEF TypeOK
<1>14. ASSUME DrainHere(x) PROVE DrainHere(y)'
  <2>1. BufferInRange(x) /\ BufferComplete(x) /\ x.pos < r.rev /\ r.rev <= x.head
    BY <1>3, <1>6, <1>14 DEF DrainHere, BufferInRange
  <2>2. y.pos <= y.head /\ y.head <= clock /\ y.kinds \subseteq fed \cup gone
    BY <1>9, <1>14, <2>1 DEF DrainHere
  <2>3. BufferInRange(y)
    <3>1. ASSUME NEW b \in y.buffer PROVE r.rev < b.rev
      <4>1. b \in x.buffer /\ b # r /\ r \in x.buffer
        BY <1>3, <1>6, <1>9
      <4>2. r.rev <= b.rev /\ r.rev # b.rev
        BY <1>3, <1>6, <2>1, <4>1 DEF BufferInRange
      <4> QED BY <1>12, <4>1, <4>2
    <3> QED BY <1>9, <2>1, <3>1 DEF BufferInRange
  <2>4. BufferComplete(y)
    <3> SUFFICES ASSUME NEW s \in FeedOf(Kinds), NEW b \in y.buffer,
                        KindOf[s.key] \in y.kinds \cap fed, y.pos < s.rev, s.rev <= b.rev
                 PROVE  s \in y.buffer
      BY DEF BufferComplete
    <3>1. b \in x.buffer /\ x.pos < s.rev
      BY <1>3, <1>6, <1>8, <1>9, <1>11, <1>12, <2>1
    <3>2. s \in x.buffer
      BY <1>9, <2>1, <3>1 DEF BufferComplete
    <3>3. s # r
      BY <1>3, <1>6, <1>9, <1>12
    <3> QED BY <1>9, <3>2, <3>3
  <2>5. ASSUME ~y.foreign, NEW s \in FeedOf(Kinds), KindOf[s.key] \in y.kinds \cap fed, s.rev <= y.pos
        PROVE  s \in delivered'[y.owner]
    <3>1. CASE s.rev <= x.pos
      BY <1>5, <1>9, <1>10, <1>14, <2>5, <3>1 DEF DrainHere, Given
    <3>2. CASE x.pos < s.rev
      <4>1. s \in x.buffer
        BY <1>3, <1>6, <1>9, <2>1, <2>5, <3>2 DEF BufferComplete
      <4>2. s.rev = r.rev
        BY <1>3, <1>6, <1>9, <1>12, <2>5, <4>1
      <4>3. s = r
        BY <1>3, <1>6, <2>1, <4>1, <4>2 DEF BufferInRange
      <4> QED BY <1>9, <1>13, <4>3
    <3> QED BY <1>8, <1>11, <3>1, <3>2
  <2> QED BY <1>2, <2>2, <2>3, <2>4, <2>5 DEF DrainHere, BufferInRange, BufferComplete, Given
<1>15. y.epoch = epoch => DrainNow(y)'
  BY <1>2, <1>9, <1>10 DEF DrainNow
<1>16. DrainOK(d)'
  BY <1>2, <1>7, <1>8, <1>9, <1>10, <1>14, <1>15
     DEF DrainOK, DrainHere, DrainNow, BufferInRange, BufferComplete, OldEpoch, Given
<1> QED BY <1>1, <1>4, <1>5, <1>16, ConsumerStays DEF Account

\* A position whose epoch is the store's accounts for the kinds of its bound: a
\* kind added since it was opened has no record at or below the head.
LEMMA PositionGives ==
    ASSUME TypeOK, Stamped, Account, NEW d \in Drains, drain[d].open, ~drain[d].foreign,
           drain[d].epoch = epoch
    PROVE  /\ drain[d].db = db
           /\ drain[d].pos <= clock
           /\ drain[d].bound = {Star} \/ (drain[d].bound \subseteq fed /\ drain[d].bound # {Star})
           /\ Given(drain[d].owner, BoundKinds(drain[d].bound), drain[d].pos)
<1> PICK x : x = drain[d]
  OBVIOUS
<1>1. /\ x.epoch \in Nat /\ epoch \in Nat /\ x.pos \in Nat /\ x.head \in Nat /\ clock \in Nat
      /\ fed \in SUBSET Kinds
  BY DEF TypeOK, Drain
<1>2. /\ x.bound \in {{Star}, x.kinds} /\ DrainNow(x)
      /\ x.db # db => OldEpoch(x)
      /\ x.db = db => DrainHere(x)
  BY DEF Account, DrainOK
<1>3. x.db = db /\ DrainHere(x)
  BY <1>1, <1>2 DEF OldEpoch
<1>4. /\ x.pos <= clock /\ x.pos <= x.head /\ x.kinds \subseteq fed
      /\ Given(x.owner, x.kinds \cap fed, x.pos)
  BY <1>1, <1>2, <1>3 DEF DrainHere, DrainNow
<1>5. \A r \in FeedOf(Kinds) : r.rev \in Nat
  BY RecordFacts DEF Numbered
<1>6. CASE x.bound = {Star}
  <2>1. BoundKinds(x.bound) = fed
    BY <1>6 DEF BoundKinds
  <2>2. \A r \in FeedOf(Kinds) : KindOf[r.key] \in fed /\ r.rev <= x.pos => KindOf[r.key] \in x.kinds
    BY <1>1, <1>2, <1>4, <1>5, <1>6 DEF DrainNow
  <2> QED BY <1>3, <1>4, <1>6, <2>1, <2>2 DEF Given
<1>7. CASE x.bound # {Star}
  <2>1. x.bound = x.kinds /\ BoundKinds(x.bound) = x.kinds
    BY <1>2, <1>7 DEF BoundKinds
  <2> QED BY <1>3, <1>4, <1>7, <2>1 DEF Given
<1> QED BY <1>6, <1>7

LEMMA CommitAccount ==
    ASSUME TypeOK, TypeOK', Stamped, Account, NEW d \in Drains, Commit(d)
    PROVE  Account'
<1>1. UNCHANGED store /\ drain' = drain /\ mark' = mark /\ delivered' = delivered
  BY DEF Commit
<1>2. clock' = clock /\ fed' = fed /\ FeedOf(Kinds)' = FeedOf(Kinds)
  BY <1>1, FeedSame DEF store
<1>3. PICK x : x = drain[d]
  OBVIOUS
<1>4. PICK c : c = x.owner
  OBVIOUS
<1>5. /\ x.open /\ x.epoch = epoch /\ cursor[c].bound \in {{}, x.bound}
      /\ cursor' = [cursor EXCEPT ![c] =
             [bound |-> x.bound, rev |-> CommitRev(cursor[c], x),
              foreign |-> IF cursor[c].rev = x.stale \/ x.pos > cursor[c].rev \/ cursor[c].bound = {}
                            THEN x.foreign ELSE cursor[c].foreign]]
  BY <1>3, <1>4 DEF Commit, InStore
<1>6. /\ c \in Consumers /\ x.bound \in {{Star}, x.kinds} /\ x.kinds # {} /\ DrainNow(x)
  BY <1>3, <1>4, <1>5 DEF Account, DrainOK
<1>7. x.bound # {} /\ (x.bound = {Star} \/ x.bound \subseteq fed)
  BY <1>6 DEF DrainNow
<1>8. \A e \in Consumers : e # c => cursor'[e] = cursor[e]
  BY <1>5 DEF TypeOK
<1>9. /\ cursor'[c].bound = x.bound /\ cursor'[c].rev = CommitRev(cursor[c], x)
      /\ cursor'[c].foreign = IF cursor[c].rev = x.stale \/ x.pos > cursor[c].rev \/ cursor[c].bound = {}
                                THEN x.foreign ELSE cursor[c].foreign
  BY <1>5, <1>6 DEF TypeOK
<1>10. x.pos \in Nat /\ cursor[c].rev \in Nat /\ CursorOK(c)
  BY <1>3, <1>6 DEF Account, TypeOK, Drain, Cursor
<1>11. ASSUME ~cursor'[c].foreign
       PROVE  cursor'[c].rev <= clock /\ Given(c, BoundKinds(x.bound), cursor'[c].rev)
  <2>1. CASE cursor[c].rev = x.stale \/ x.pos > cursor[c].rev \/ cursor[c].bound = {}
    <3>1. cursor'[c].rev = x.pos
      BY <1>9, <1>10, <2>1 DEF CommitRev, CursorOK
    <3>2. ~x.foreign
      BY <1>9, <1>11, <2>1
    <3> QED BY <1>3, <1>4, <1>5, <3>1, <3>2, PositionGives
  <2>2. CASE ~(cursor[c].rev = x.stale \/ x.pos > cursor[c].rev \/ cursor[c].bound = {})
    <3>1. cursor'[c].rev = cursor[c].rev /\ cursor[c].bound = x.bound /\ ~cursor[c].foreign
      BY <1>5, <1>9, <1>11, <2>2 DEF CommitRev
    <3> QED BY <1>10, <3>1 DEF CursorOK
  <2> QED BY <2>1, <2>2
<1>12. CursorOK(c)'
  BY <1>1, <1>2, <1>7, <1>9, <1>11 DEF CursorOK, Given, BoundKinds
<1> QED BY <1>1, <1>8, <1>12, ConsumerStays DEF Account

LEMMA SaveMarkAccount ==
    ASSUME TypeOK, TypeOK', Stamped, Account, NEW d \in Drains, SaveMark(d)
    PROVE  Account'
<1>1. UNCHANGED store /\ drain' = drain /\ cursor' = cursor /\ delivered' = delivered
  BY DEF SaveMark
<1>2. /\ clock' = clock /\ fed' = fed /\ gone' = gone /\ db' = db /\ epoch' = epoch
      /\ lastEpoch' = lastEpoch /\ links' = links /\ FeedOf(Kinds)' = FeedOf(Kinds)
  BY <1>1, FeedSame DEF store
<1>3. PICK x : x = drain[d]
  OBVIOUS
<1>4. PICK c : c = x.owner
  OBVIOUS
<1>5. /\ x.open /\ c \in Consumers
      /\ mark' = [mark EXCEPT ![c] = [bound |-> x.bound, rev |-> x.pos, epoch |-> x.epoch,
                                      db |-> x.db, foreign |-> x.foreign]]
  BY <1>3, <1>4, ConstantsAssumption DEF SaveMark
<1>6. /\ mark'[c].bound = x.bound /\ mark'[c].rev = x.pos /\ mark'[c].epoch = x.epoch
      /\ mark'[c].db = x.db /\ mark'[c].foreign = x.foreign
  BY <1>5 DEF TypeOK
<1>7. \A e \in Consumers : e # c => mark'[e] = mark[e]
  BY <1>5 DEF TypeOK
<1>8. /\ x.bound \in {{Star}, x.kinds} /\ x.kinds # {} /\ x.db <= db /\ x.epoch <= lastEpoch
      /\ x.db # db => OldEpoch(x)
      /\ x.db = db => DrainHere(x)
  BY <1>3, <1>5 DEF Account, DrainOK
<1>9. x.pos \in Nat /\ x.head \in Nat /\ clock \in Nat
  BY <1>3 DEF TypeOK, Drain
<1>10. ASSUME x.db = db, ~x.foreign PROVE MarkHere(c)'
  <2>1. x.pos <= clock /\ x.kinds \subseteq fed \cup gone /\ Given(c, x.kinds \cap fed, x.pos)
    BY <1>4, <1>8, <1>9, <1>10 DEF DrainHere
  <2>2. x.bound # {Star} => x.bound = x.kinds
    BY <1>8
  <2>3. x.bound = {Star} /\ x.epoch = epoch => Given(c, fed, x.pos)
    BY <1>3, <1>4, <1>5, <1>10, PositionGives DEF BoundKinds
  <2> QED BY <1>1, <1>2, <1>6, <2>1, <2>2, <2>3 DEF MarkHere, Given
<1>11. MarkOK(c)'
  BY <1>2, <1>6, <1>8, <1>10 DEF MarkOK, OldEpoch
<1> QED BY <1>1, <1>7, <1>11, ConsumerStays DEF Account

LEMMA CloseAccount ==
    ASSUME TypeOK, Account, NEW d \in Drains, Close(d)
    PROVE  Account'
<1>1. UNCHANGED store /\ cursor' = cursor /\ mark' = mark /\ delivered' = delivered
  BY DEF Close
<1>2. \A e \in Drains : e # d => drain'[e] = drain[e]
  BY DEF Close, TypeOK
<1>3. ~drain'[d].open
  BY DEF Close, Closed, TypeOK
<1>4. DrainOK(d)'
  BY <1>3 DEF DrainOK
<1> QED BY <1>1, <1>2, <1>4, ConsumerStays DEF Account

LEMMA NextAccount ==
    ASSUME TypeOK, TypeOK', Stamped, Stamped', Account, [Next]_vars
    PROVE  Account'
<1>1. CASE Write \/ Release
  BY <1>1, WriteAccount
<1>2. CASE Replace
  BY <1>2, ReplaceAccount
<1>3. ASSUME NEW d \in Drains, NEW c \in Consumers, NEW kinds \in KindSets \cup {fed},
             \/ Open(d, c, kinds, FromStart(c, kinds))
             \/ Open(d, c, kinds, FromConsumer(c, kinds))
             \/ Open(d, c, kinds, FromMark(c, kinds))
      PROVE  Account'
  <2>1. kinds \in SUBSET Kinds
    BY ConstantsAssumption DEF TypeOK
  <2>2. CASE Open(d, c, kinds, FromStart(c, kinds))
    <3>1. FromStart(c, kinds).rev = 0
      BY DEF FromStart
    <3> QED BY <2>1, <2>2, <3>1, GivenZero, OpenAccount
  <2>3. CASE Open(d, c, kinds, FromConsumer(c, kinds))
    <3>1. /\ FromConsumer(c, kinds).rev = cursor[c].rev /\ cursor[c].rev \in Nat
          /\ FromConsumer(c, kinds).foreign = cursor[c].foreign
      BY DEF FromConsumer, TypeOK, Cursor
    <3>2. FromConsumer(c, kinds).ok
      BY <2>3 DEF Open
    <3> QED BY <2>1, <2>3, <3>1, <3>2, CursorGives, OpenAccount
  <2>4. CASE Open(d, c, kinds, FromMark(c, kinds))
    <3>1. /\ FromMark(c, kinds).rev = mark[c].rev /\ mark[c].rev \in Nat
          /\ FromMark(c, kinds).foreign = mark[c].foreign
      BY DEF FromMark, TypeOK, Mark
    <3>2. FromMark(c, kinds).ok
      BY <2>4 DEF Open
    <3> QED BY <2>1, <2>4, <3>1, <3>2, MarkGives, OpenAccount
  <2> QED BY <1>3, <2>2, <2>3, <2>4
<1>4. ASSUME NEW d \in Drains,
             Fill(d) \/ FillFails(d) \/ Yield(d) \/ Commit(d) \/ SaveMark(d) \/ Close(d)
      PROVE  Account'
  BY <1>4, FillAccount, FillFailsAccount, YieldAccount, CommitAccount, SaveMarkAccount, CloseAccount
<1>5. CASE UNCHANGED vars
  <2>1. UNCHANGED store /\ cursor' = cursor /\ drain' = drain /\ mark' = mark /\ delivered' = delivered
    BY <1>5 DEF vars, store
  <2> QED BY <2>1, ConsumerStays DEF Account
<1> QED BY <1>1, <1>2, <1>3, <1>4, <1>5 DEF Next, Write, Release

LEMMA AlwaysAccount == Spec => [](TypeOK /\ Stamped /\ Account)
<1>1. Init => TypeOK /\ Stamped /\ Account
  BY InitType, InitStamped, InitAccount
<1>2. TypeOK /\ Stamped /\ Account /\ [Next]_vars => (TypeOK /\ Stamped /\ Account)'
  BY NextType, NextStamped, NextAccount
<1> QED BY <1>1, <1>2, PTL DEF Spec

-----------------------------------------------------------------------------
\* No change is skipped for good by a named cursor, whatever writers, releases,
\* replaced databases, abandoned drains and sibling consumers do.
THEOREM CursorNeverSkips == Spec => []CursorAccounts
<1>1. ASSUME TypeOK, Stamped, Account PROVE CursorAccounts
  BY <1>1, GivenIsAccounts DEF Account, CursorOK, CursorAccounts
<1> QED BY <1>1, AlwaysAccount, PTL

\* Nor by an open drain.
THEOREM DrainNeverSkips == Spec => []PositionAccounts
<1>1. ASSUME TypeOK, Stamped, Account PROVE PositionAccounts
  BY <1>1, GivenIsAccounts DEF Account, DrainOK, DrainHere, PositionAccounts
<1> QED BY <1>1, AlwaysAccount, PTL

\* Nor by a watermark kept outside the store, whenever the store resumes it.
THEOREM MarkNeverSkips == Spec => []MarkAccounts
<1>1. ASSUME TypeOK, Stamped, Account PROVE MarkAccounts
  BY <1>1, MarkGives, GivenIsAccounts DEF MarkAccounts
<1> QED BY <1>1, AlwaysAccount, PTL
=============================================================================
