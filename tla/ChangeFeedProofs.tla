-------------------------- MODULE ChangeFeedProofs --------------------------
(***************************************************************************)
(* Theorems about ChangeFeed, for every set of keys, kinds, releases,      *)
(* consumers and drains, every batch size and any number of steps.         *)
(***************************************************************************)
EXTENDS ChangeFeed, FiniteSetTheorems, TLAPS

-----------------------------------------------------------------------------
(* The values the actions compute.                                         *)

\* How many rows a release stamps is a number: there are finitely many keys.
LEMMA RowsFinite ==
    ASSUME NEW rows \in SUBSET Keys
    PROVE  IsFiniteSet(rows) /\ Cardinality(rows) \in Nat
BY KeysAssumption, FS_Subset, FS_CardinalityType

\* What the revision indexes range over are changes.
LEMMA FeedIsChanges ==
    ASSUME TypeOK, NEW kinds
    PROVE  FeedOf(kinds) \subseteq Change
<1>1. ASSUME NEW k \in Keys PROVE Upsert(k) \in Change
  BY <1>1 DEF TypeOK, Upsert, Locations, Change
<1>2. ASSUME NEW k \in Keys PROVE Tombstone(k) \in Change
  BY <1>2 DEF TypeOK, Tombstone, Change
<1> QED BY <1>1, <1>2 DEF FeedOf

LEMMA StoredIsBound ==
    ASSUME TypeOK, NEW kinds \in SUBSET Kinds
    PROVE  Stored(kinds) \in Bounds
BY DEF Stored, Bounds

LEMMA TicksNat == ASSUME NEW k \in Keys PROVE Ticks(k) \in Nat
BY DEF Ticks

LEMMA MoveTicksNat == ASSUME NEW k \in Keys, NEW q \in Keys PROVE MoveTicks(k, q) \in Nat
BY DEF MoveTicks

-----------------------------------------------------------------------------
(* Type correctness.                                                       *)

LEMMA ObserveType ==
    ASSUME TypeOK, Observe
    PROVE  delivered' \in [Consumers -> SUBSET Change]
BY DEF TypeOK, Observe

LEMMA InitType == Init => TypeOK
<1> SUFFICES ASSUME Init PROVE TypeOK
  OBVIOUS
<1> USE ConstantsAssumption
<1>1. NoCursor \in Cursor /\ NoMark \in Mark /\ Closed \in Drain
  BY DEF NoCursor, NoMark, Closed, Cursor, Mark, Drain, Bounds
<1>2. cursor \in [Consumers -> Cursor]
  <2>1. ASSUME NEW r \in ForeignRevs
        PROVE  [bound |-> {Star}, rev |-> r, foreign |-> TRUE] \in Cursor
    BY <2>1 DEF Cursor, Bounds
  <2> QED BY <1>1, <2>1 DEF Init
<1>3. row \in [Keys -> Values \cup {None}] /\ rev \in [Keys -> Nat] /\ tomb \in [Keys -> Nat]
  BY DEF Init
<1>4. fed \in SUBSET Kinds /\ gone \in SUBSET Kinds /\ links \in SUBSET Link
  BY DEF Init
<1>5. drain \in [Drains -> Drain] /\ mark \in [Consumers -> Mark]
  BY <1>1 DEF Init
<1> QED BY <1>2, <1>3, <1>4, <1>5 DEF Init, TypeOK

\* A statement of a writer keeps the types.
LEMMA WriteType ==
    ASSUME TypeOK,
           \/ \E k \in Keys, v \in Values : Insert(k, v) \/ Update(k, v)
           \/ \E k, q \in Keys, v \in Values : Move(k, q, v)
           \/ \E k \in Keys : Delete(k)
    PROVE  TypeOK'
<1> USE DEF TypeOK
<1>1. ASSUME NEW k \in Keys, NEW v \in Values, Insert(k, v) PROVE TypeOK'
  BY <1>1, ObserveType, TicksNat DEF Insert, StampWith
<1>2. ASSUME NEW k \in Keys, NEW v \in Values, Update(k, v) PROVE TypeOK'
  BY <1>2, ObserveType DEF Update
<1>3. ASSUME NEW k \in Keys, NEW q \in Keys, NEW v \in Values, Move(k, q, v) PROVE TypeOK'
  BY <1>3, ObserveType, MoveTicksNat DEF Move
<1>4. ASSUME NEW k \in Keys, Delete(k) PROVE TypeOK'
  BY <1>4, ObserveType, TicksNat DEF Delete, StampWith
<1> QED BY <1>1, <1>2, <1>3, <1>4

\* What a release assigns: one revision above the base to each row.
LEMMA StampsFacts ==
    ASSUME NEW rows \in SUBSET Keys, NEW base \in Nat, NEW f \in Stamps(rows, base)
    PROVE  /\ \A k \in rows : /\ f[k] \in Nat /\ base < f[k]
                              /\ f[k] <= base + Cardinality(rows)
           /\ \A k, q \in rows : f[k] = f[q] => k = q
<1> USE RowsFinite
<1>1. f \in [rows -> (base + 1)..(base + Cardinality(rows))]
  BY DEF Stamps
<1>2. \A k, q \in rows : f[k] = f[q] => k = q
  BY DEF Stamps
<1> QED BY <1>1, <1>2

LEMMA UpgradeType ==
    ASSUME TypeOK,
           NEW feeds \in Releases, NEW changed \in SUBSET Keys,
           NEW vals \in [changed -> Values], Upgrade(feeds, changed, vals)
    PROVE  TypeOK'
<1> DEFINE added == feeds \ fed
           removed == fed \ feeds
           unstamped == LiveOf(added)
           through == clock + Cardinality(unstamped)
<1>1. unstamped \in SUBSET Keys /\ Cardinality(unstamped) \in Nat /\ Cardinality(changed) \in Nat
  BY RowsFinite DEF LiveOf
<1>2. clock' \in Nat /\ through \in Nat
  BY <1>1 DEF Upgrade, TypeOK
<1>3. rev' \in [Keys -> Nat]
  <2>1. PICK first \in Stamps(unstamped, clock), again \in Stamps(changed, through) :
           rev' = [k \in Keys |-> IF k \in changed THEN again[k]
                                  ELSE IF k \in unstamped THEN first[k] ELSE rev[k]]
    BY DEF Upgrade
  <2>2. \A k \in unstamped : first[k] \in Nat
    BY <1>1, StampsFacts DEF TypeOK
  <2>3. \A k \in changed : again[k] \in Nat
    BY <1>2, StampsFacts
  <2> QED BY <2>1, <2>2, <2>3 DEF TypeOK
<1>4. row' \in [Keys -> Values \cup {None}]
  BY DEF Upgrade, TypeOK
<1>5. fed' \in SUBSET Kinds /\ gone' \in SUBSET Kinds
  BY ConstantsAssumption DEF Upgrade, TypeOK
<1>6. /\ epoch' \in Nat /\ lastEpoch' \in Nat
      /\ links' \in SUBSET Link
      /\ cursor' \in [Consumers -> Cursor]
  <2>1. CASE removed = {}
    BY <2>1 DEF Upgrade, TypeOK
  <2>2. CASE removed # {}
    <3>1. epoch' \in Nat /\ lastEpoch' \in Nat
      BY <2>2 DEF Upgrade, TypeOK
    <3>2. links' \in SUBSET Link
      <4>1. links' = links \cup {[epoch |-> epoch, successor |-> epoch', through |-> through]}
        BY <2>2 DEF Upgrade
      <4>2. [epoch |-> epoch, successor |-> epoch', through |-> through] \in Link
        BY <1>2, <3>1 DEF TypeOK, Link
      <4> QED BY <4>1, <4>2 DEF TypeOK
    <3>3. ASSUME NEW cur \in Cursor PROVE RetireCursor(cur, feeds, removed) \in Cursor
      BY <3>3 DEF RetireCursor, Cursor, NoCursor, Bounds
    <3>4. cursor' \in [Consumers -> Cursor]
      <4>1. cursor' = [c \in Consumers |-> RetireCursor(cursor[c], feeds, removed)]
        BY <2>2 DEF Upgrade, RetireCursors
      <4> QED BY <3>3, <4>1 DEF TypeOK
    <3> QED BY <3>1, <3>2, <3>4
  <2> QED BY <2>1, <2>2
<1>7. /\ tomb' \in [Keys -> Nat] /\ db' \in Nat /\ drain' \in [Drains -> Drain]
      /\ mark' \in [Consumers -> Mark] /\ delivered' \in [Consumers -> SUBSET Change]
  BY ObserveType DEF Upgrade, TypeOK
<1> QED BY <1>2, <1>3, <1>4, <1>5, <1>6, <1>7 DEF TypeOK

LEMMA ReplaceType == ASSUME TypeOK, Replace PROVE TypeOK'
<1>1. NoCursor \in Cursor
  BY DEF NoCursor, Cursor, Bounds
<1> QED BY <1>1, ObserveType, ConstantsAssumption DEF Replace, TypeOK

LEMMA OpenType ==
    ASSUME TypeOK, NEW d \in Drains, NEW c \in Consumers,
           NEW kinds \in SUBSET Kinds, NEW from,
           from.rev \in Nat, from.foreign \in BOOLEAN, Open(d, c, kinds, from)
    PROVE  TypeOK'
<1>1. Stored(kinds) \in Bounds
  BY StoredIsBound
<1>2. cursor[c].rev \in Nat
  BY DEF TypeOK, Cursor
<1>3. drain'[d] \in Drain
  BY <1>1, <1>2 DEF Open, TypeOK, Drain
<1>4. drain' \in [Drains -> Drain]
  BY <1>3 DEF Open, TypeOK
<1> QED BY <1>4 DEF Open, TypeOK, store

\* A step of a drain that is open keeps the types.
LEMMA DrainType ==
    ASSUME TypeOK, NEW d \in Drains,
           Fill(d) \/ FillFails(d) \/ Yield(d) \/ Commit(d) \/ SaveMark(d) \/ Close(d)
    PROVE  TypeOK'
<1>1. CASE Fill(d)
  <2>1. Page(d) \in SUBSET Change
    BY FeedIsChanges DEF Page, Window
  <2>2. drain' \in [Drains -> Drain]
    <3>1. CASE Window(d) = {}
      <4>1. [drain[d] EXCEPT !.exhausted = TRUE, !.pos = drain[d].head] \in Drain
        BY ZenonT(30) DEF TypeOK, Drain
      <4> QED BY <1>1, <3>1, <4>1 DEF Fill, TypeOK
    <3>2. CASE Window(d) # {}
      <4>1. [drain[d] EXCEPT !.buffer = Page(d)] \in Drain
        BY <2>1 DEF TypeOK, Drain
      <4> QED BY <1>1, <3>2, <4>1 DEF Fill, TypeOK
    <3> QED BY <3>1, <3>2
  <2> QED BY <1>1, <2>2 DEF Fill, TypeOK, store
<1>2. CASE FillFails(d)
  <2>1. drain' \in [Drains -> Drain]
    <3>1. [drain[d] EXCEPT !.exhausted = TRUE] \in Drain
      BY ZenonT(30) DEF TypeOK, Drain
    <3> QED BY <1>2, <3>1 DEF FillFails, TypeOK
  <2> QED BY <1>2, <2>1 DEF FillFails, TypeOK, store
<1>3. CASE Yield(d)
  <2>1. PICK r \in drain[d].buffer :
          /\ drain' = [drain EXCEPT ![d].buffer = @ \ {r}, ![d].pos = r.rev]
          /\ delivered' = [delivered EXCEPT ![drain[d].owner] = @ \cup ({r} \cap FeedOf(Kinds))]
    BY <1>3 DEF Yield
  <2>2. r \in Change /\ r.rev \in Nat
    BY DEF TypeOK, Drain, Change
  <2>3. drain' \in [Drains -> Drain]
    <3>1. [drain[d] EXCEPT !.buffer = @ \ {r}, !.pos = r.rev] \in Drain
      BY <2>2, ZenonT(30) DEF TypeOK, Drain
    <3> QED BY <2>1, <3>1 DEF TypeOK
  <2>4. delivered' \in [Consumers -> SUBSET Change]
    BY <2>1, <2>2 DEF TypeOK
  <2> QED BY <1>3, <2>3, <2>4 DEF Yield, TypeOK, store
<1>4. CASE Commit(d)
  <2>1. cursor' \in [Consumers -> Cursor]
    BY <1>4 DEF Commit, CommitRev, TypeOK, Cursor, Drain
  <2> QED BY <1>4, <2>1 DEF Commit, TypeOK, store
<1>5. CASE SaveMark(d)
  <2>1. mark' \in [Consumers -> Mark]
    BY <1>5 DEF SaveMark, TypeOK, Mark, Drain
  <2> QED BY <1>5, <2>1 DEF SaveMark, TypeOK, store
<1>6. CASE Close(d)
  <2>1. Closed \in Drain
    BY DEF Closed, Drain, Bounds
  <2>2. drain' \in [Drains -> Drain]
    BY <1>6, <2>1 DEF Close, TypeOK
  <2> QED BY <1>6, <2>2 DEF Close, TypeOK, store
<1> QED BY <1>1, <1>2, <1>3, <1>4, <1>5, <1>6

LEMMA NextType == ASSUME TypeOK, [Next]_vars PROVE TypeOK'
<1>1. CASE \/ \E k \in Keys, v \in Values : Insert(k, v) \/ Update(k, v)
           \/ \E k, q \in Keys, v \in Values : Move(k, q, v)
           \/ \E k \in Keys : Delete(k)
  BY <1>1, WriteType
<1>2. ASSUME NEW feeds \in Releases, NEW changed \in SUBSET Keys,
             NEW vals \in [changed -> Values], Upgrade(feeds, changed, vals)
      PROVE  TypeOK'
  BY <1>2, UpgradeType
<1>3. CASE Replace
  BY <1>3, ReplaceType
<1>4. ASSUME NEW d \in Drains, NEW c \in Consumers, NEW kinds \in KindSets \cup {fed},
             \/ Open(d, c, kinds, FromStart(c, kinds))
             \/ Open(d, c, kinds, FromConsumer(c, kinds))
             \/ Open(d, c, kinds, FromMark(c, kinds))
      PROVE  TypeOK'
  <2>1. kinds \in SUBSET Kinds
    BY ConstantsAssumption DEF TypeOK
  <2>2. FromStart(c, kinds).rev \in Nat /\ FromStart(c, kinds).foreign \in BOOLEAN
    BY DEF FromStart
  <2>3. FromConsumer(c, kinds).rev \in Nat /\ FromConsumer(c, kinds).foreign \in BOOLEAN
    BY DEF FromConsumer, TypeOK, Cursor
  <2>4. FromMark(c, kinds).rev \in Nat /\ FromMark(c, kinds).foreign \in BOOLEAN
    BY DEF FromMark, TypeOK, Mark
  <2> QED BY <1>4, <2>1, <2>2, <2>3, <2>4, OpenType
<1>5. ASSUME NEW d \in Drains,
             Fill(d) \/ FillFails(d) \/ Yield(d) \/ Commit(d) \/ SaveMark(d) \/ Close(d)
      PROVE  TypeOK'
  BY <1>5, DrainType
<1>6. CASE UNCHANGED vars
  BY <1>6 DEF vars, TypeOK
<1> QED BY <1>1, <1>2, <1>3, <1>4, <1>5, <1>6 DEF Next

\* The store, its cursors, the drains and the observations keep their types.
THEOREM TypeCorrect == Spec => []TypeOK
<1> QED BY InitType, NextType, PTL DEF Spec

-----------------------------------------------------------------------------
(* Revisions.  The records of the feed are rows and tombstones, so what the *)
(* two functions rev and tomb hold is the inductive form of uniqueness.    *)

\* No stamp is above the clock.
BelowClock == \A k \in Keys : rev[k] <= clock /\ tomb[k] <= clock

\* No two stamps, of rows or tombstones, are the same.
Distinct ==
    \A k, q \in Keys :
        /\ k # q /\ rev[k] > 0 => rev[k] # rev[q]
        /\ k # q /\ tomb[k] > 0 => tomb[k] # tomb[q]
        /\ rev[k] > 0 => rev[k] # tomb[q]

\* An absent row has no stamp; a fed one has, and no tombstone; and a table no
\* release has fed yet has neither, so the release that first feeds it stamps
\* clean rows.
StampsFollowRows ==
    \A k \in Keys :
        /\ row[k] = None => rev[k] = 0
        /\ IsFed(k) /\ row[k] # None => rev[k] > 0 /\ tomb[k] = 0
        /\ KindOf[k] \notin fed \cup gone => rev[k] = 0 /\ tomb[k] = 0

\* Presences and their catalog rows are always fed.
CoreFed == \A k \in Keys : IsPresence(k) => IsFed(k) /\ IsFed(SessionOf[k])

Stamped == BelowClock /\ Distinct /\ StampsFollowRows /\ CoreFed

\* A presence's session is a key other than itself, and no presence.
LEMMA SessionFacts ==
    ASSUME NEW k \in Keys, IsPresence(k)
    PROVE  SessionOf[k] \in Keys /\ SessionOf[k] # k /\ ~IsPresence(SessionOf[k])
BY ConstantsAssumption DEF IsPresence

\* The catalog rows a statement re-stamps: the session's, for a presence only.
LEMMA CatalogFacts ==
    ASSUME NEW k \in Keys, NEW p \in Catalog(k)
    PROVE  IsPresence(k) /\ p = SessionOf[k] /\ p # k /\ row[p] # None /\ ~IsPresence(p)
BY ConstantsAssumption, SessionFacts DEF Catalog, IsPresence

LEMMA InitStamped == Init => Stamped
BY ConstantsAssumption
   DEF Init, Stamped, BelowClock, Distinct, StampsFollowRows, CoreFed, IsPresence, IsFed

LEMMA InsertStamped ==
    ASSUME TypeOK, Stamped, NEW k \in Keys, NEW v \in Values, Insert(k, v)
    PROVE  Stamped'
<1> USE DEF TypeOK, Stamped
<1>1. clock' = clock + Ticks(k) /\ fed' = fed /\ gone' = gone
  BY DEF Insert
<1>2. row' = [row EXCEPT ![k] = v] /\ v # None
  BY ConstantsAssumption DEF Insert
<1>3. tomb' = [tomb EXCEPT ![k] = IF IsFed(k) THEN 0 ELSE @]
  BY DEF Insert
<1>4. \A q \in Keys : rev'[q] = IF q = k THEN (IF IsFed(k) THEN clock + 1 ELSE 0)
                                ELSE IF q \in Catalog(k) THEN clock + Ticks(k) ELSE rev[q]
  BY DEF Insert, StampWith
<1>5. CoreFed'
  BY <1>1 DEF CoreFed, IsPresence, IsFed
<1>6. \A q \in Catalog(k) : /\ q = SessionOf[k] /\ q # k /\ row[q] # None
                            /\ Ticks(k) = 2 /\ IsFed(k) /\ IsFed(q)
  BY CatalogFacts DEF Ticks, CoreFed
<1>7. Ticks(k) \in Nat /\ (IsFed(k) => Ticks(k) >= 1)
  BY DEF Ticks
<1>8. BelowClock'
  BY <1>1, <1>3, <1>4, <1>6, <1>7 DEF BelowClock
<1>9. Distinct'
  BY <1>3, <1>4, <1>6, <1>7 DEF Distinct, BelowClock
<1>10. StampsFollowRows'
  BY <1>1, <1>2, <1>3, <1>4, <1>6, <1>7 DEF StampsFollowRows, IsFed
<1> QED BY <1>5, <1>8, <1>9, <1>10

LEMMA UpdateStamped ==
    ASSUME TypeOK, Stamped, NEW k \in Keys, NEW v \in Values, Update(k, v)
    PROVE  Stamped'
<1> USE DEF TypeOK, Stamped
<1>1. v # None
  BY ConstantsAssumption
<1>2. CoreFed'
  BY DEF Update, CoreFed, IsPresence, IsFed
<1>3. BelowClock'
  BY DEF Update, BelowClock
<1>4. Distinct'
  BY DEF Update, Distinct, BelowClock
<1>5. StampsFollowRows'
  BY <1>1 DEF Update, StampsFollowRows, IsFed
<1> QED BY <1>2, <1>3, <1>4, <1>5

LEMMA DeleteStamped ==
    ASSUME TypeOK, Stamped, NEW k \in Keys, Delete(k)
    PROVE  Stamped'
<1> USE DEF TypeOK, Stamped
<1>1. clock' = clock + Ticks(k) /\ fed' = fed /\ gone' = gone
  BY DEF Delete
<1>2. row' = [row EXCEPT ![k] = None]
  BY DEF Delete
<1>3. tomb' = [tomb EXCEPT ![k] = IF IsFed(k) THEN clock + 1 ELSE @]
  BY DEF Delete
<1>4. \A q \in Keys : rev'[q] = IF q = k THEN 0
                                ELSE IF q \in Catalog(k) THEN clock + Ticks(k) ELSE rev[q]
  BY DEF Delete, StampWith
<1>5. CoreFed'
  BY <1>1 DEF CoreFed, IsPresence, IsFed
<1>6. \A q \in Catalog(k) : /\ q = SessionOf[k] /\ q # k /\ row[q] # None
                            /\ Ticks(k) = 2 /\ IsFed(k) /\ IsFed(q)
  BY CatalogFacts DEF Ticks, CoreFed
<1>7. Ticks(k) \in Nat /\ (IsFed(k) => Ticks(k) >= 1)
  BY DEF Ticks
<1>8. BelowClock'
  BY <1>1, <1>3, <1>4, <1>6, <1>7 DEF BelowClock
<1>9. Distinct'
  BY <1>3, <1>4, <1>6, <1>7 DEF Distinct, BelowClock
<1>10. StampsFollowRows'
  BY <1>1, <1>2, <1>3, <1>4, <1>6, <1>7 DEF StampsFollowRows, IsFed
<1> QED BY <1>5, <1>8, <1>9, <1>10

LEMMA MoveStamped ==
    ASSUME TypeOK, Stamped, NEW k \in Keys, NEW q \in Keys, NEW v \in Values, Move(k, q, v)
    PROVE  Stamped'
<1> USE DEF TypeOK, Stamped
<1>1. clock' = clock + MoveTicks(k, q) /\ fed' = fed /\ gone' = gone
  BY DEF Move
<1>2. k # q /\ row' = [row EXCEPT ![k] = None, ![q] = v] /\ v # None
  BY ConstantsAssumption DEF Move
<1>3. tomb' = [tomb EXCEPT ![k] = IF IsFed(k) THEN clock + 1 ELSE @,
                           ![q] = IF IsFed(k) THEN 0 ELSE @]
  BY DEF Move
<1>4. \A p \in Keys : rev'[p] = IF p = k THEN 0
                                ELSE IF p = q THEN IF IsFed(k) THEN clock + 2 ELSE 0
                                ELSE IF p \in Catalog(q) THEN clock + 3
                                ELSE IF p \in Catalog(k) THEN clock + 4
                                ELSE rev[p]
  BY DEF Move
<1>5. CoreFed'
  BY <1>1 DEF CoreFed, IsPresence, IsFed
<1>6. IsPresence(k) = IsPresence(q) /\ IsFed(k) = IsFed(q)
  BY DEF Move, IsFed
<1>7. \A p \in Catalog(q) : /\ p = SessionOf[q] /\ p # k /\ p # q /\ row[p] # None
                            /\ MoveTicks(k, q) >= 3 /\ IsFed(k) /\ IsFed(p)
  BY <1>6, CatalogFacts DEF MoveTicks, CoreFed
<1>8. \A p \in Catalog(k) : /\ p = SessionOf[k] /\ p # k /\ p # q /\ row[p] # None
                            /\ IsFed(k) /\ IsFed(p)
                            /\ p \notin Catalog(q) => MoveTicks(k, q) = 4
  BY <1>6, CatalogFacts DEF MoveTicks, CoreFed, Catalog
<1>9. MoveTicks(k, q) \in Nat /\ (IsFed(k) => MoveTicks(k, q) >= 2)
  BY DEF MoveTicks
<1>10. BelowClock'
  BY <1>1, <1>3, <1>4, <1>7, <1>8, <1>9 DEF BelowClock
<1>11. Distinct'
  BY <1>2, <1>3, <1>4, <1>7, <1>8, <1>9 DEF Distinct, BelowClock
<1>12. StampsFollowRows'
  BY <1>1, <1>2, <1>3, <1>4, <1>6, <1>7, <1>8, <1>9 DEF StampsFollowRows, IsFed
<1> QED BY <1>5, <1>10, <1>11, <1>12

\* A release: the first stamps lie above the clock, the second above those.
LEMMA UpgradeStamped ==
    ASSUME TypeOK, Stamped,
           NEW feeds \in Releases, NEW changed \in SUBSET Keys,
           NEW vals \in [changed -> Values], Upgrade(feeds, changed, vals)
    PROVE  Stamped'
<1> USE DEF TypeOK, Stamped
<1> DEFINE added == feeds \ fed
           removed == fed \ feeds
           unstamped == LiveOf(added)
           through == clock + Cardinality(unstamped)
<1>1. Cardinality(unstamped) \in Nat /\ Cardinality(changed) \in Nat /\ unstamped \in SUBSET Keys
  BY RowsFinite DEF LiveOf
<1>2. PICK first \in Stamps(unstamped, clock), again \in Stamps(changed, through) :
         rev' = [k \in Keys |-> IF k \in changed THEN again[k]
                                ELSE IF k \in unstamped THEN first[k] ELSE rev[k]]
  BY DEF Upgrade
<1>3. /\ \A k \in unstamped : first[k] \in Nat /\ clock < first[k] /\ first[k] <= through
      /\ \A k, q \in unstamped : first[k] = first[q] => k = q
  BY <1>1, StampsFacts
<1>4. /\ \A k \in changed : /\ again[k] \in Nat /\ through < again[k]
                            /\ again[k] <= through + Cardinality(changed)
      /\ \A k, q \in changed : again[k] = again[q] => k = q
  BY <1>1, StampsFacts
<1>5. /\ clock' = through + Cardinality(changed) /\ tomb' = tomb
      /\ fed' = feeds /\ gone' = gone \cup removed
      /\ row' = [k \in Keys |-> IF k \in changed THEN vals[k] ELSE row[k]]
  BY DEF Upgrade
<1>6. \A k \in changed : row[k] # None /\ KindOf[k] \in fed /\ KindOf[k] \in feeds /\ vals[k] # None
  BY ConstantsAssumption DEF Upgrade, LiveOf
<1>7. \A k \in unstamped : /\ row[k] # None /\ KindOf[k] \in feeds /\ KindOf[k] \notin fed
                           /\ KindOf[k] \notin gone /\ tomb[k] = 0
  BY DEF Upgrade, LiveOf, StampsFollowRows
<1>n. through \in Nat /\ clock <= through
  BY <1>1
<1>u. \A k \in Keys : k \in unstamped <=> KindOf[k] \in feeds /\ KindOf[k] \notin fed /\ row[k] # None
  BY DEF LiveOf
<1>g. \A k \in Keys : KindOf[k] \in gone' <=> KindOf[k] \in gone \/ (KindOf[k] \in fed /\ KindOf[k] \notin feeds)
  BY <1>5
<1>8. CoreFed'
  <2>1. ASSUME NEW k \in Keys, IsPresence(k) PROVE KindOf[k] \in feeds /\ KindOf[SessionOf[k]] \in feeds
    <3>1. KindOf[k] \in CoreKinds /\ KindOf[SessionOf[k]] \in CoreKinds
      BY <2>1 DEF CoreKinds
    <3> QED BY <2>1, <3>1 DEF Upgrade, CoreFed, IsFed
  <2> QED BY <1>5, <2>1 DEF CoreFed, IsPresence, IsFed
<1> HIDE DEF added, removed, unstamped, through
<1>9. BelowClock'
  BY <1>1, <1>2, <1>3, <1>4, <1>5, <1>n DEF BelowClock
<1>10. Distinct'
  BY <1>1, <1>2, <1>3, <1>4, <1>5, <1>n DEF Distinct, BelowClock
<1>11. StampsFollowRows'
  <2>1. ASSUME NEW k \in Keys PROVE row'[k] = None => rev'[k] = 0
    BY <1>2, <1>5, <1>6, <1>7 DEF StampsFollowRows
  <2>2. ASSUME NEW k \in Keys, KindOf[k] \in feeds, row'[k] # None PROVE rev'[k] > 0 /\ tomb'[k] = 0
    <3>1. row[k] # None
      BY <1>5, <1>6, <2>2
    <3>2. CASE KindOf[k] \in fed
      BY <1>2, <1>4, <1>5, <1>7, <1>n, <3>1, <3>2 DEF StampsFollowRows, IsFed
    <3>3. CASE KindOf[k] \notin fed
      <4>1. k \in unstamped /\ k \notin changed
        BY <1>6, <1>u, <2>2, <3>1, <3>3
      <4> QED BY <1>2, <1>3, <1>5, <1>7, <4>1
    <3> QED BY <3>2, <3>3
  <2>3. ASSUME NEW k \in Keys, KindOf[k] \notin feeds \cup gone' PROVE rev'[k] = 0 /\ tomb'[k] = 0
    BY <1>2, <1>5, <1>6, <1>7, <1>g, <2>3 DEF StampsFollowRows
  <2> QED BY <1>5, <2>1, <2>2, <2>3 DEF StampsFollowRows, IsFed
<1> QED BY <1>8, <1>9, <1>10, <1>11

LEMMA ReplaceStamped == ASSUME TypeOK, Stamped, Replace PROVE Stamped'
BY DEF TypeOK, Replace, Stamped, BelowClock, Distinct, StampsFollowRows, CoreFed, IsPresence, IsFed

\* Every other step leaves the store alone.
LEMMA StoreStamped == ASSUME Stamped, UNCHANGED store PROVE Stamped'
BY DEF store, Stamped, BelowClock, Distinct, StampsFollowRows, CoreFed, IsPresence, IsFed

LEMMA ConsumerKeepsStore ==
    ASSUME \/ \E d \in Drains, c \in Consumers, kinds \in KindSets \cup {fed} :
                \/ Open(d, c, kinds, FromStart(c, kinds))
                \/ Open(d, c, kinds, FromConsumer(c, kinds))
                \/ Open(d, c, kinds, FromMark(c, kinds))
           \/ \E d \in Drains : \/ Fill(d) \/ FillFails(d) \/ Yield(d)
                                \/ Commit(d) \/ SaveMark(d) \/ Close(d)
           \/ UNCHANGED vars
    PROVE  UNCHANGED store
<1>1. ASSUME NEW d, NEW c, NEW kinds, NEW from, Open(d, c, kinds, from) PROVE UNCHANGED store
  BY <1>1, Zenon DEF Open
<1>2. ASSUME NEW d, Fill(d) \/ FillFails(d) PROVE UNCHANGED store
  BY <1>2, Zenon DEF Fill, FillFails
<1>3. ASSUME NEW d, Yield(d) PROVE UNCHANGED store
  BY <1>3, Zenon DEF Yield
<1>4. ASSUME NEW d, Commit(d) PROVE UNCHANGED store
  BY <1>4, Zenon DEF Commit
<1>5. ASSUME NEW d, SaveMark(d) \/ Close(d) PROVE UNCHANGED store
  BY <1>5, Zenon DEF SaveMark, Close
<1>6. CASE UNCHANGED vars
  BY <1>6 DEF vars, store
<1> QED BY <1>1, <1>2, <1>3, <1>4, <1>5, <1>6

LEMMA NextStamped == ASSUME TypeOK, Stamped, [Next]_vars PROVE Stamped'
<1>1. ASSUME NEW feeds \in Releases, NEW changed \in SUBSET Keys,
             NEW vals \in [changed -> Values], Upgrade(feeds, changed, vals)
      PROVE  Stamped'
  BY <1>1, UpgradeStamped
<1>2. CASE \/ \E k \in Keys, v \in Values : Insert(k, v) \/ Update(k, v)
           \/ \E k, q \in Keys, v \in Values : Move(k, q, v)
           \/ \E k \in Keys : Delete(k)
  BY <1>2, InsertStamped, UpdateStamped, MoveStamped, DeleteStamped
<1>3. CASE Replace
  BY <1>3, ReplaceStamped
<1>4. CASE UNCHANGED store
  BY <1>4, StoreStamped
<1>5. CASE \/ \E d \in Drains, c \in Consumers, kinds \in KindSets \cup {fed} :
                \/ Open(d, c, kinds, FromStart(c, kinds))
                \/ Open(d, c, kinds, FromConsumer(c, kinds))
                \/ Open(d, c, kinds, FromMark(c, kinds))
           \/ \E d \in Drains : \/ Fill(d) \/ FillFails(d) \/ Yield(d)
                                \/ Commit(d) \/ SaveMark(d) \/ Close(d)
           \/ UNCHANGED vars
  BY <1>4, <1>5, ConsumerKeepsStore
<1> QED BY <1>1, <1>2, <1>3, <1>5 DEF Next

LEMMA AlwaysStamped == Spec => [](TypeOK /\ Stamped)
<1>1. Init => TypeOK /\ Stamped
  BY InitType, InitStamped
<1>2. TypeOK /\ Stamped /\ [Next]_vars => (TypeOK /\ Stamped)'
  BY NextType, NextStamped
<1> QED BY <1>1, <1>2, PTL DEF Spec

\* A record of the feed is a key's stamped row or its tombstone.
LEMMA RecordOf ==
    ASSUME NEW kinds, NEW r \in FeedOf(kinds)
    PROVE  \E k \in Keys : /\ KindOf[k] \in kinds
                           /\ \/ r = Upsert(k) /\ row[k] # None /\ rev[k] > 0
                              \/ r = Tombstone(k) /\ tomb[k] > 0
BY DEF FeedOf

\* A revision names one record of the feed, whatever writers and releases do.
THEOREM RevisionNamesOneRecord == Spec => []RevisionsUnique
<1>1. ASSUME TypeOK, Stamped PROVE RevisionsUnique
  <2> USE <1>1 DEF TypeOK, Stamped
  <2>1. ASSUME NEW r \in FeedOf(Kinds), NEW s \in FeedOf(Kinds), r.rev = s.rev PROVE r = s
    <3>1. PICK k \in Keys : /\ KindOf[k] \in Kinds
                           /\ \/ r = Upsert(k) /\ row[k] # None /\ rev[k] > 0
                              \/ r = Tombstone(k) /\ tomb[k] > 0
      BY RecordOf
    <3>2. PICK q \in Keys : /\ KindOf[q] \in Kinds
                           /\ \/ s = Upsert(q) /\ row[q] # None /\ rev[q] > 0
                              \/ s = Tombstone(q) /\ tomb[q] > 0
      BY RecordOf
    <3>3. Upsert(k).rev = rev[k] /\ Upsert(q).rev = rev[q]
      BY DEF Upsert
    <3>4. Tombstone(k).rev = tomb[k] /\ Tombstone(q).rev = tomb[q]
      BY DEF Tombstone
    <3> QED BY <2>1, <3>1, <3>2, <3>3, <3>4 DEF Distinct
  <2>2. ASSUME NEW r \in FeedOf(Kinds) PROVE r.rev <= clock
    BY DEF FeedOf, Upsert, Tombstone, BelowClock
  <2> QED BY <2>1, <2>2 DEF RevisionsUnique
<1> QED BY <1>1, AlwaysStamped, PTL

\* A fed key is never a row and a tombstone at once.
THEOREM KeyHasOneRecord == Spec => []OneRecordPerKey
<1>1. ASSUME TypeOK, Stamped PROVE OneRecordPerKey
  <2> USE <1>1 DEF TypeOK, Stamped
  <2>1. ASSUME NEW r \in FeedOf(fed), NEW s \in FeedOf(fed), r.key = s.key PROVE r = s
    <3>1. PICK k \in Keys : /\ KindOf[k] \in fed
                           /\ \/ r = Upsert(k) /\ row[k] # None /\ rev[k] > 0
                              \/ r = Tombstone(k) /\ tomb[k] > 0
      BY RecordOf
    <3>2. PICK q \in Keys : /\ KindOf[q] \in fed
                           /\ \/ s = Upsert(q) /\ row[q] # None /\ rev[q] > 0
                              \/ s = Tombstone(q) /\ tomb[q] > 0
      BY RecordOf
    <3>3. k = q
      BY <2>1, <3>1, <3>2 DEF Upsert, Tombstone
    <3> QED BY <3>1, <3>2, <3>3 DEF StampsFollowRows, IsFed
  <2> QED BY <2>1 DEF OneRecordPerKey
<1> QED BY <1>1, AlwaysStamped, PTL

-----------------------------------------------------------------------------
(* Where the store issued every cursor it holds, none is ahead of it and   *)
(* no drain starts to replace one that is.                                 *)

Issued ==
    /\ \A c \in Consumers : cursor[c].rev <= clock
    /\ \A d \in Drains : drain[d].stale = 0

LEMMA InitIssued == ASSUME Init, ForeignRevs = {} PROVE Issued
<1>1. cursor = [c \in Consumers |-> NoCursor]
  BY DEF Init
<1> QED  BY <1>1 DEF Init, Issued, NoCursor, Closed

\* A step that leaves the cursors and the drains, and moves the clock on.
LEMMA LaterIssued ==
    ASSUME TypeOK, Issued, clock' \in Nat, clock <= clock', cursor' = cursor, drain' = drain
    PROVE  Issued'
<1>1. \A c \in Consumers : cursor[c].rev \in Nat
  BY DEF TypeOK, Cursor
<1> QED  BY <1>1 DEF Issued, TypeOK

\* A retirement drops a cursor or keeps its revision.
LEMMA RetireKeeps ==
    ASSUME TypeOK, NEW feeds, NEW removed, NEW c \in Consumers
    PROVE  LET r == RetireCursor(cursor[c], feeds, removed)
           IN  \/ r = NoCursor
               \/ r.rev = cursor[c].rev /\ r.bound = {Star} /\ cursor[c].bound = feeds
               \/ r = cursor[c]
BY DEF TypeOK, Cursor, RetireCursor

LEMMA UpgradeIssued ==
    ASSUME TypeOK, Issued, TypeOK',
           NEW feeds, NEW changed \in SUBSET Keys, NEW vals, Upgrade(feeds, changed, vals)
    PROVE  Issued'
<1> DEFINE unstamped == LiveOf(feeds \ fed)
<1>1. IsFiniteSet(unstamped) /\ IsFiniteSet(changed)
  <2>1. unstamped \subseteq Keys
    BY DEF LiveOf
  <2> QED  BY <2>1, KeysAssumption, FS_Subset
<1>2. Cardinality(unstamped) \in Nat /\ Cardinality(changed) \in Nat
  BY <1>1, FS_CardinalityType
<1>3. clock' = clock + Cardinality(unstamped) + Cardinality(changed) /\ drain' = drain
      /\ (cursor' = cursor \/ cursor' = RetireCursors(feeds, fed \ feeds))
  BY DEF Upgrade
<1> HIDE DEF unstamped
<1>4. clock \in Nat /\ clock' \in Nat /\ clock <= clock'
  BY <1>2, <1>3 DEF TypeOK
<1>5. CASE cursor' = cursor
  BY <1>3, <1>4, <1>5, LaterIssued
<1>6. CASE cursor' = RetireCursors(feeds, fed \ feeds)
  <2>1. ASSUME NEW c \in Consumers PROVE cursor'[c].rev <= clock'
    <3>1. cursor'[c] = RetireCursor(cursor[c], feeds, fed \ feeds)
      BY <1>6 DEF RetireCursors
    <3>2. cursor[c].rev \in Nat /\ cursor[c].rev <= clock
      BY DEF TypeOK, Cursor, Issued
    <3>3. cursor'[c] = NoCursor \/ cursor'[c].rev = cursor[c].rev
      BY <3>1, RetireKeeps
    <3> QED  BY <1>4, <3>2, <3>3 DEF NoCursor
  <2> QED  BY <1>3, <2>1 DEF Issued
<1> QED  BY <1>3, <1>5, <1>6

LEMMA NextIssued == ASSUME TypeOK, Issued, TypeOK', [Next]_vars PROVE Issued'
<1>0. clock \in Nat /\ clock' \in Nat
  BY DEF TypeOK
<1>1. ASSUME NEW k \in Keys, NEW v \in Values, Insert(k, v) \/ Update(k, v) PROVE Issued'
  BY <1>0, <1>1, TicksNat, LaterIssued DEF Insert, Update
<1>2. ASSUME NEW k \in Keys, Delete(k) PROVE Issued'
  BY <1>0, <1>2, TicksNat, LaterIssued DEF Delete
<1>3. ASSUME NEW k \in Keys, NEW q \in Keys, NEW v \in Values, Move(k, q, v) PROVE Issued'
  BY <1>0, <1>3, MoveTicksNat, LaterIssued DEF Move
<1>4. ASSUME NEW feeds \in Releases, NEW changed \in SUBSET Keys, NEW vals \in [changed -> Values],
             Upgrade(feeds, changed, vals)
      PROVE  Issued'
  BY <1>4, UpgradeIssued
<1>5. CASE Replace
  BY <1>5 DEF Replace, Issued, NoCursor
<1>6. ASSUME NEW d \in Drains, NEW c \in Consumers, NEW kinds, NEW from, Open(d, c, kinds, from)
      PROVE  Issued'
  <2>1. ~ (cursor[c].rev > clock)
    BY <1>0 DEF Issued, TypeOK, Cursor
  <2> QED  BY <1>6, <2>1 DEF Open, Issued, TypeOK, store
<1>7. ASSUME NEW d \in Drains, Fill(d) \/ FillFails(d) \/ Yield(d) \/ SaveMark(d) \/ Close(d)
      PROVE  Issued'
  <2>1. clock' = clock /\ cursor' = cursor
    BY <1>7 DEF Fill, FillFails, Yield, SaveMark, Close, store
  <2>2. ASSUME NEW e \in Drains PROVE drain'[e].stale = 0
    <3>1. drain[e].stale = 0 /\ drain \in [Drains -> Drain]
      BY DEF Issued, TypeOK
    <3>2. CASE Fill(d)
      BY <3>1, <3>2 DEF Fill, Drain
    <3>3. CASE FillFails(d)
      BY <3>1, <3>3 DEF FillFails, Drain
    <3>4. CASE Yield(d)
      BY <3>1, <3>4 DEF Yield, Drain
    <3>5. CASE SaveMark(d)
      BY <3>1, <3>5 DEF SaveMark
    <3>6. CASE Close(d)
      BY <3>1, <3>6 DEF Close, Closed
    <3> QED  BY <1>7, <3>2, <3>3, <3>4, <3>5, <3>6
  <2> QED  BY <2>1, <2>2 DEF Issued
<1>8. ASSUME NEW d \in Drains, Commit(d) PROVE Issued'
  <2>1. /\ drain' = drain /\ clock' = clock /\ drain[d].pos <= clock
        /\ cursor' = [cursor EXCEPT ![drain[d].owner] =
             [bound |-> drain[d].bound, rev |-> CommitRev(cursor[drain[d].owner], drain[d]),
              foreign |-> cursor'[drain[d].owner].foreign]]
    BY <1>8 DEF Commit, InStore, store, TypeOK
  <2>2. ASSUME NEW c \in Consumers PROVE cursor'[c].rev <= clock
    <3>1. CASE c = drain[d].owner
      <4>1. cursor'[c].rev \in {drain[d].pos, cursor[c].rev}
        BY <2>1, <3>1 DEF CommitRev, TypeOK
      <4> QED  BY <2>1, <4>1 DEF Issued
    <3>2. CASE c # drain[d].owner
      BY <2>1, <3>2 DEF Issued, TypeOK
    <3> QED  BY <3>1, <3>2
  <2> QED  BY <2>1, <2>2 DEF Issued
<1>9. CASE UNCHANGED vars
  BY <1>9 DEF vars, Issued
<1> QED  BY <1>1, <1>2, <1>3, <1>4, <1>5, <1>6, <1>7, <1>8, <1>9 DEF Next

\* A committed cursor never moves back and never leaves its kind set, whatever order drains of
\* one consumer commit in, except to be dropped with a retired kind or a replaced database
\* (commit_cursor, retire_kinds).  The store issued every cursor it holds.
THEOREM CursorNeverMovesBack ==
    ASSUME ForeignRevs = {}
    PROVE  Spec => CursorMonotone
<1> DEFINE A == \A c \in Consumers :
                  ~cursor[c].foreign /\ cursor[c].bound # {} /\ cursor'[c].bound # {} =>
                     /\ cursor[c].rev <= cursor'[c].rev
                     /\ BoundKinds(cursor[c].bound) \cap fed' \subseteq (BoundKinds(cursor[c].bound))'
<1>1. Init => TypeOK /\ Issued
  BY InitType, InitIssued
<1>2. TypeOK /\ Issued /\ [Next]_vars => TypeOK' /\ Issued'
  BY NextType, NextIssued
<1>3. TypeOK /\ Issued /\ [Next]_vars => A
  <2> SUFFICES ASSUME TypeOK, Issued, [Next]_vars, NEW c \in Consumers,
                      cursor[c].bound # {}, cursor'[c].bound # {}
               PROVE  /\ cursor[c].rev <= cursor'[c].rev
                      /\ BoundKinds(cursor[c].bound) \cap fed' \subseteq (BoundKinds(cursor[c].bound))'
    OBVIOUS
  <2>1. cursor[c].rev \in Nat /\ cursor \in [Consumers -> Cursor]
    BY DEF TypeOK, Cursor
  <2>2. CASE cursor'[c] = cursor[c]
    BY <2>1, <2>2 DEF BoundKinds
  <2>3. ASSUME NEW feeds, NEW changed, NEW vals, Upgrade(feeds, changed, vals), cursor'[c] # cursor[c]
        PROVE  /\ cursor[c].rev <= cursor'[c].rev
               /\ BoundKinds(cursor[c].bound) \cap fed' \subseteq (BoundKinds(cursor[c].bound))'
    <3>1. fed' = feeds /\ cursor' = RetireCursors(feeds, fed \ feeds)
      BY <2>3 DEF Upgrade
    <3>2. cursor'[c] = RetireCursor(cursor[c], feeds, fed \ feeds)
      BY <3>1 DEF RetireCursors
    <3>3. \/ cursor'[c] = NoCursor
          \/ cursor'[c].rev = cursor[c].rev /\ cursor'[c].bound = {Star}
      BY <2>1, <2>3, <3>2 DEF RetireCursor, Cursor
    <3>4. cursor'[c].rev = cursor[c].rev /\ cursor'[c].bound = {Star}
      BY <3>3 DEF NoCursor
    <3> QED  BY <2>1, <3>4 DEF BoundKinds
  <2>4. ASSUME NEW d \in Drains, Commit(d), cursor'[c] # cursor[c]
        PROVE  /\ cursor[c].rev <= cursor'[c].rev
               /\ BoundKinds(cursor[c].bound) \cap fed' \subseteq (BoundKinds(cursor[c].bound))'
    <3>1. c = drain[d].owner
      BY <2>1, <2>4 DEF Commit
    <3>2. /\ cursor'[c].bound = drain[d].bound /\ cursor'[c].rev = CommitRev(cursor[c], drain[d])
          /\ cursor[c].bound = drain[d].bound
      BY <2>1, <2>4, <3>1 DEF Commit
    <3>3. drain[d].stale = 0 /\ drain[d].pos \in Nat
      BY DEF Issued, TypeOK, Drain
    <3>4. cursor[c].rev <= cursor'[c].rev
      BY <2>1, <3>2, <3>3 DEF CommitRev
    <3>5. fed' = fed
      BY <2>4 DEF Commit, store
    <3> QED  BY <3>2, <3>4, <3>5 DEF BoundKinds
  <2>5. CASE Replace
    BY <2>5 DEF Replace, NoCursor
  <2>6. \/ cursor' = cursor \/ Replace \/ \E d \in Drains : Commit(d)
        \/ \E feeds, changed, vals : Upgrade(feeds, changed, vals)
    <3>1. ASSUME NEW k, NEW q, NEW v, Insert(k, v) \/ Update(k, v) \/ Move(k, q, v) \/ Delete(k)
          PROVE  cursor' = cursor
      BY <3>1 DEF Insert, Update, Move, Delete
    <3>2. ASSUME NEW d, NEW e, NEW kinds, NEW from, Open(d, e, kinds, from) PROVE cursor' = cursor
      BY <3>2 DEF Open
    <3>3. ASSUME NEW d, Fill(d) \/ FillFails(d) \/ Yield(d) \/ SaveMark(d) \/ Close(d)
          PROVE  cursor' = cursor
      BY <3>3 DEF Fill, FillFails, Yield, SaveMark, Close
    <3>4. UNCHANGED vars => cursor' = cursor
      BY DEF vars
    <3> QED  BY <3>1, <3>2, <3>3, <3>4 DEF Next
  <2> QED  BY <2>2, <2>3, <2>4, <2>5, <2>6
<1>4. TypeOK /\ Issued /\ [Next]_vars => [A]_vars
  BY <1>3
<1>5. CursorMonotone <=> [][A]_vars
  BY DEF CursorMonotone
<1> HIDE DEF A
<1> QED  BY <1>1, <1>2, <1>4, <1>5, PTL DEF Spec
=============================================================================
