----------------------------- MODULE ChangeFeed -----------------------------
(***************************************************************************)
(* The change feed of the history store: every write to a fed table is     *)
(* stamped by SQL triggers with the next value of one database-wide clock, *)
(* every delete leaves a tombstone, and a consumer drains "what changed    *)
(* after my position" in bounded pages and commits a named cursor.         *)
(*                                                                         *)
(* Sources: crates/ai-hist/src/change_feed.rs and change_feed/{schema,     *)
(* export_schema,epochs,validate}.rs.                                      *)
(*                                                                         *)
(* A row is a key (kind and identity) and an abstract value; a catalog     *)
(* row's exported content also holds the presences that exist for it.  One *)
(* action is one committed statement with every trigger it fires, one page *)
(* read in its snapshot, or one cursor statement.                          *)
(***************************************************************************)
EXTENDS Integers, FiniteSets

CONSTANTS
    Keys,           \* identities of rows
    Kinds,          \* fed tables, of every release modelled
    KindOf,         \* the table a key belongs to
    SessionOf,      \* the catalog key a presence belongs to, else None
    Values,         \* stored column values
    None,           \* no row; no session
    Star,           \* the stored spelling of "every kind"
    FirstFed,       \* the kinds the first release feeds
    Releases,       \* the kind sets the releases feed
    KindSets,       \* kind sets consumers ask for by name
    Consumers,      \* cursor names
    Keepers,        \* consumers that also keep a watermark outside the store
    Drains,         \* slots for open drains
    Batch,          \* rows per page
    MaxEpochLinks,  \* retirements followed from a watermark's epoch
    ForeignRevs     \* cursors found in the store that it never issued

ASSUME ConstantsAssumption ==
    /\ KindOf \in [Keys -> Kinds]
    /\ None \notin Keys \cup Values
    /\ SessionOf \in [Keys -> Keys \cup {None}]
    /\ \A k \in Keys : SessionOf[k] # None =>
          SessionOf[SessionOf[k]] = None /\ {KindOf[k], KindOf[SessionOf[k]]} \subseteq FirstFed
    /\ Star \notin Kinds
    /\ FirstFed \in SUBSET Kinds /\ FirstFed # {}
    /\ Releases \subseteq SUBSET Kinds
    /\ KindSets \subseteq SUBSET Kinds
    /\ Keepers \subseteq Consumers
    /\ Batch \in Nat \ {0}
    /\ MaxEpochLinks \in Nat
    /\ ForeignRevs \subseteq Nat \ {0}

\* Every row identity is one of finitely many.
ASSUME KeysAssumption == IsFiniteSet(Keys)

VARIABLES
    clock,      \* observation_clock.version
    row,        \* Keys -> value, or None
    rev,        \* Keys -> revision column of the row, 0 unstamped or absent
    tomb,       \* Keys -> revision of the key's tombstone, 0 when it has none
    fed,        \* ChangeKind::ALL of the release that last opened the store
    gone,       \* kinds a release retired
    db,         \* which database the store's path names: counts replacements
    epoch,      \* change_feed_store.epoch
    lastEpoch,  \* the newest epoch any database drew
    links,      \* change_feed_epochs
    cursor,     \* consumer_cursors
    drain,      \* the open Changes values
    mark,       \* the watermark each consumer keeps outside the store
    delivered   \* observation: current records each consumer has been given

store == <<clock, row, rev, tomb, fed, gone, db, epoch, lastEpoch, links>>
vars == <<clock, row, rev, tomb, fed, gone, db, epoch, lastEpoch, links,
          cursor, drain, mark, delivered>>

-----------------------------------------------------------------------------
(* Records of the feed.                                                    *)

Bounds == SUBSET (Kinds \cup {Star})

\* What a change carries.  A tombstone carries no value.
Change == [key : Keys, rev : Nat, val : Values \cup {None}, at : SUBSET Keys]

\* The catalog row derives its locations from the presences that exist.
Locations(k) == {p \in Keys : SessionOf[p] = k /\ row[p] # None}

Upsert(k) == [key |-> k, rev |-> rev[k], val |-> row[k], at |-> Locations(k)]
Tombstone(k) == [key |-> k, rev |-> tomb[k], val |-> None, at |-> {}]

\* The records of some kinds: what the revision indexes range over.
FeedOf(kinds) ==
    {Upsert(k) : k \in {q \in Keys : KindOf[q] \in kinds /\ row[q] # None /\ rev[q] > 0}}
    \cup
    {Tombstone(k) : k \in {q \in Keys : KindOf[q] \in kinds /\ tomb[q] > 0}}

\* A named kind set as stored, and the kinds a stored set reads.
Stored(kinds) == IF kinds = fed THEN {Star} ELSE kinds
BoundKinds(bound) == IF bound = {Star} THEN fed ELSE bound

NoCursor == [bound |-> {}, rev |-> 0, foreign |-> FALSE]
NoMark == [bound |-> {}, rev |-> 0, epoch |-> 0, db |-> 0, foreign |-> FALSE]
Closed == [open |-> FALSE, owner |-> None, kinds |-> {}, bound |-> {}, db |-> 0,
           epoch |-> 0, head |-> 0, pos |-> 0, stale |-> 0, foreign |-> FALSE,
           buffer |-> {}, exhausted |-> FALSE]

-----------------------------------------------------------------------------
Init ==
    /\ clock = 0
    /\ row = [k \in Keys |-> None]
    /\ rev = [k \in Keys |-> 0]
    /\ tomb = [k \in Keys |-> 0]
    /\ fed = FirstFed
    /\ gone = {}
    /\ db = 0
    /\ epoch = 1
    /\ lastEpoch = 1
    /\ links = {}
    /\ cursor \in [Consumers -> {NoCursor} \cup
                       {[bound |-> {Star}, rev |-> r, foreign |-> TRUE] : r \in ForeignRevs}]
    /\ drain = [d \in Drains |-> Closed]
    /\ mark = [c \in Consumers |-> NoMark]
    /\ delivered = [c \in Consumers |-> {}]

\* A record a consumer holds stops counting once the store's record moved on.
Observe == delivered' = [c \in Consumers |-> delivered[c] \cap FeedOf(Kinds)']

-----------------------------------------------------------------------------
(* Writers.  Each statement fires the triggers of its table; a presence    *)
(* also fires the ones that re-stamp its catalog row.                      *)

IsFed(k) == KindOf[k] \in fed
IsPresence(k) == SessionOf[k] # None

\* Mutant: a presence leaves its catalog row's stamp alone.
Catalog_NotStamped(k) == {}

\* The catalog rows a presence's triggers re-stamp: none when it has no row.
Catalog(k) == {q \in Keys : q = SessionOf[k] /\ row[q] # None}

\* Mutant: both triggers of a presence read the clock after one tick.
Ticks_Shared(k) == IF IsFed(k) THEN 1 ELSE 0

\* One clock value for the row, one more for the catalog row of a presence.
Ticks(k) == IF IsPresence(k) THEN 2 ELSE IF IsFed(k) THEN 1 ELSE 0

StampWith(k, stamp) ==
    [q \in Keys |-> IF q = k THEN stamp
                    ELSE IF q \in Catalog(k) THEN clock + Ticks(k) ELSE rev[q]]

\* Mutant: the insert trigger leaves the key's tombstone in place.
Insert_KeepsTombstone(k, v) ==
    /\ row[k] = None
    /\ row' = [row EXCEPT ![k] = v]
    /\ clock' = clock + Ticks(k)
    /\ rev' = StampWith(k, IF IsFed(k) THEN clock + 1 ELSE 0)
    /\ UNCHANGED <<tomb, fed, gone, db, epoch, lastEpoch, links, cursor, drain, mark>>
    /\ Observe

Insert(k, v) ==
    /\ row[k] = None
    /\ row' = [row EXCEPT ![k] = v]
    /\ clock' = clock + Ticks(k)
    /\ rev' = StampWith(k, IF IsFed(k) THEN clock + 1 ELSE 0)
    /\ tomb' = [tomb EXCEPT ![k] = IF IsFed(k) THEN 0 ELSE @]
    /\ UNCHANGED <<fed, gone, db, epoch, lastEpoch, links, cursor, drain, mark>>
    /\ Observe

\* A rewrite with the values already held passes no trigger's guard.
Update(k, v) ==
    /\ row[k] # None /\ row[k] # v
    /\ row' = [row EXCEPT ![k] = v]
    /\ clock' = IF IsFed(k) THEN clock + 1 ELSE clock
    /\ rev' = [rev EXCEPT ![k] = IF IsFed(k) THEN clock + 1 ELSE @]
    /\ tomb' = [tomb EXCEPT ![k] = IF IsFed(k) THEN 0 ELSE @]
    /\ UNCHANGED <<fed, gone, db, epoch, lastEpoch, links, cursor, drain, mark>>
    /\ Observe

\* An update that moves the row's identity is a delete of the old one and an
\* upsert of the new, each at its own revision; a presence that moves also
\* re-stamps the catalog row it arrives at and, when another, the one it left.
MoveTicks(k, q) ==
    IF IsPresence(k) THEN IF SessionOf[k] = SessionOf[q] THEN 3 ELSE 4
    ELSE IF IsFed(k) THEN 2 ELSE 0

Move(k, q, v) ==
    /\ k # q /\ KindOf[k] = KindOf[q] /\ IsPresence(k) = IsPresence(q)
    /\ row[k] # None /\ row[q] = None
    /\ row' = [row EXCEPT ![k] = None, ![q] = v]
    /\ clock' = clock + MoveTicks(k, q)
    /\ rev' = [p \in Keys |->
                 IF p = k THEN 0
                 ELSE IF p = q THEN IF IsFed(k) THEN clock + 2 ELSE 0
                 ELSE IF p \in Catalog(q) THEN clock + 3
                 ELSE IF p \in Catalog(k) THEN clock + 4
                 ELSE rev[p]]
    /\ tomb' = [tomb EXCEPT ![k] = IF IsFed(k) THEN clock + 1 ELSE @,
                            ![q] = IF IsFed(k) THEN 0 ELSE @]
    /\ UNCHANGED <<fed, gone, db, epoch, lastEpoch, links, cursor, drain, mark>>
    /\ Observe

Delete(k) ==
    /\ row[k] # None
    /\ row' = [row EXCEPT ![k] = None]
    /\ clock' = clock + Ticks(k)
    /\ rev' = StampWith(k, 0)
    /\ tomb' = [tomb EXCEPT ![k] = IF IsFed(k) THEN clock + 1 ELSE @]
    /\ UNCHANGED <<fed, gone, db, epoch, lastEpoch, links, cursor, drain, mark>>
    /\ Observe

-----------------------------------------------------------------------------
(* A release opens the store writable: init_schema.                        *)

\* Kinds of presences and of their catalog rows: fed by every release.
CoreKinds == UNION {{KindOf[k], KindOf[SessionOf[k]]} : k \in {q \in Keys : IsPresence(q)}}

LiveOf(kinds) == {k \in Keys : KindOf[k] \in kinds /\ row[k] # None}

\* Distinct revisions above a base, one per row; rowid order is any order.
Stamps(rows, base) ==
    {f \in [rows -> (base + 1)..(base + Cardinality(rows))] :
        \A p, q \in rows : f[p] = f[q] => p = q}

\* Mutant: every named set the release still feeds is rebound to "every kind".
RetireCursor_Widens(cur, feeds, removed) ==
    IF cur.bound = {Star} \/ cur.bound \cap removed # {} THEN NoCursor
    ELSE IF cur.bound # {} /\ cur.bound \subseteq feeds THEN [cur EXCEPT !.bound = {Star}]
    ELSE cur

\* The cursors a retirement keeps, under the spelling the release compares.
RetireCursor(cur, feeds, removed) ==
    IF cur.bound = {Star} \/ cur.bound \cap removed # {} THEN NoCursor
    ELSE IF cur.bound = feeds THEN [cur EXCEPT !.bound = {Star}]
    ELSE cur

RetireCursors(feeds, removed) ==
    [c \in Consumers |-> RetireCursor(cursor[c], feeds, removed)]

\* Rows of newly fed kinds are stamped above the head, a retired kind starts a
\* new epoch, and the rows whose exported content the release changed are
\* stamped again above that.
Upgrade(feeds, changed, vals) ==
    LET added == feeds \ fed
        removed == fed \ feeds
        unstamped == LiveOf(added)
        through == clock + Cardinality(unstamped)
    IN  /\ feeds # {} /\ added \cap gone = {} /\ removed \cap CoreKinds = {}
        /\ changed \subseteq LiveOf(fed \cap feeds)
        /\ \E first \in Stamps(unstamped, clock), again \in Stamps(changed, through) :
             rev' = [k \in Keys |-> IF k \in changed THEN again[k]
                                    ELSE IF k \in unstamped THEN first[k] ELSE rev[k]]
        /\ clock' = through + Cardinality(changed)
        /\ row' = [k \in Keys |-> IF k \in changed THEN vals[k] ELSE row[k]]
        /\ fed' = feeds
        /\ gone' = gone \cup removed
        /\ IF removed = {}
             THEN UNCHANGED <<epoch, lastEpoch, links, cursor>>
             ELSE /\ epoch' = lastEpoch + 1
                  /\ lastEpoch' = lastEpoch + 1
                  /\ links' = links \cup
                       {[epoch |-> epoch, successor |-> epoch', through |-> through]}
                  /\ cursor' = RetireCursors(feeds, removed)
        /\ UNCHANGED <<tomb, db, drain, mark>>
        /\ Observe

\* The store's path comes to name a fresh database: a new random epoch, and a
\* clock that counts from zero again.  Open drains keep the old file open.
Replace ==
    /\ clock' = 0
    /\ row' = [k \in Keys |-> None]
    /\ rev' = [k \in Keys |-> 0]
    /\ tomb' = [k \in Keys |-> 0]
    /\ db' = db + 1
    /\ epoch' = lastEpoch + 1
    /\ lastEpoch' = lastEpoch + 1
    /\ links' = {}
    /\ cursor' = [c \in Consumers |-> NoCursor]
    /\ UNCHANGED <<fed, gone, drain, mark>>
    /\ Observe

-----------------------------------------------------------------------------
(* Consumers.                                                              *)

\* A chain of retirements leads from a watermark's epoch to the store's, and
\* the watermark was issued before each of them.
Chain(m) ==
    \E n \in 1..MaxEpochLinks : \E path \in [0..n -> 1..lastEpoch] :
        /\ path[0] = m.epoch /\ path[n] = epoch
        /\ \A i \in 0..(n - 1) : \E l \in links :
              l.epoch = path[i] /\ l.successor = path[i + 1] /\ m.rev <= l.through

\* Mutant: any watermark at or below the head resumes.
Continues_AnyEpoch(m, kinds) == TRUE

Continues(m, kinds) == m.epoch = epoch \/ (kinds # fed /\ Chain(m))

\* changes_since: where a drain starts, per kind of `from`, when it may start.
FromStart(c, kinds) == [ok |-> TRUE, rev |-> 0, foreign |-> FALSE]
\* Mutant: a cursor is resumed by a drain over any kinds.
FromConsumer_AnyKinds(c, kinds) ==
    [ok |-> TRUE, rev |-> cursor[c].rev, foreign |-> cursor[c].foreign]
FromConsumer(c, kinds) ==
    [ok |-> cursor[c].bound \in {{}, Stored(kinds)},
     rev |-> cursor[c].rev, foreign |-> cursor[c].foreign]
FromMark(c, kinds) ==
    [ok |-> mark[c].bound # {} /\ kinds = BoundKinds(mark[c].bound) \cap fed
            /\ Continues(mark[c], kinds),
     rev |-> mark[c].rev, foreign |-> mark[c].foreign]

Open(d, c, kinds, from) ==
    /\ ~drain[d].open
    /\ kinds # {} /\ kinds \subseteq fed
    /\ from.ok /\ from.rev <= clock
    /\ drain' = [drain EXCEPT ![d] =
         [open |-> TRUE, owner |-> c, kinds |-> kinds, bound |-> Stored(kinds),
          db |-> db, epoch |-> epoch, head |-> clock, pos |-> from.rev,
          stale |-> IF cursor[c].rev > clock THEN cursor[c].rev ELSE 0,
          foreign |-> from.foreign, buffer |-> {}, exhausted |-> FALSE]]
    /\ UNCHANGED <<store, cursor, mark, delivered>>

\* The records a page may hold: in the drain's kinds, after its position and
\* up to its head.
Window(d) == {r \in FeedOf(drain[d].kinds) : drain[d].pos < r.rev /\ r.rev <= drain[d].head}

\* The Batch-th smallest revision of the window, or the head when fewer are left.
PageCut(d) ==
    LET last == {r \in Window(d) :
                   Cardinality({s \in Window(d) : s.rev <= r.rev}) = Batch}
    IN  IF last = {} THEN drain[d].head ELSE (CHOOSE r \in last : TRUE).rev

Page(d) == {r \in Window(d) : r.rev <= PageCut(d)}

\* Mutant: a page shorter than the batch ends the drain at the head.
Fill_ShortPageEnds(d) ==
    /\ drain[d].open /\ drain[d].buffer = {} /\ ~drain[d].exhausted
    /\ drain[d].db = db
    /\ drain' = IF Cardinality(Window(d)) < Batch
                  THEN [drain EXCEPT ![d].exhausted = TRUE, ![d].pos = drain[d].head,
                                     ![d].buffer = Page(d)]
                  ELSE [drain EXCEPT ![d].buffer = Page(d)]
    /\ UNCHANGED <<store, cursor, mark, delivered>>

\* One page, both passes in one snapshot.  Only an empty window ends the drain.
Fill(d) ==
    /\ drain[d].open /\ drain[d].buffer = {} /\ ~drain[d].exhausted
    /\ drain[d].db = db
    /\ drain' = IF Window(d) = {}
                  THEN [drain EXCEPT ![d].exhausted = TRUE, ![d].pos = drain[d].head]
                  ELSE [drain EXCEPT ![d].buffer = Page(d)]
    /\ UNCHANGED <<store, cursor, mark, delivered>>

\* A page read fails: the drain ends where it is.
FillFails(d) ==
    /\ drain[d].open /\ drain[d].buffer = {} /\ ~drain[d].exhausted
    /\ drain' = [drain EXCEPT ![d].exhausted = TRUE]
    /\ UNCHANGED <<store, cursor, mark, delivered>>

\* The iterator yields the oldest buffered change.
Yield(d) ==
    /\ drain[d].open
    /\ \E r \in drain[d].buffer :
         /\ \A s \in drain[d].buffer : r.rev <= s.rev
         /\ drain' = [drain EXCEPT ![d].buffer = @ \ {r}, ![d].pos = r.rev]
         /\ delivered' = [delivered EXCEPT ![drain[d].owner] =
                            @ \cup ({r} \cap FeedOf(Kinds))]
    /\ UNCHANGED <<store, cursor, mark>>

\* Mutant: the revision before the position is stored.
CommitRev_OffByOne(cur, dr) == dr.pos - 1

\* Mutant: the last commit wins.
CommitRev_LastWins(cur, dr) == dr.pos

\* The position belongs to the database the cursor is written into.
InStore(dr) == dr.epoch = epoch /\ dr.pos <= clock

\* commit_cursor's one statement, on the database the path names now.
CommitRev(cur, dr) ==
    IF cur.rev = dr.stale \/ dr.pos > cur.rev THEN dr.pos ELSE cur.rev

Commit(d) ==
    LET dr == drain[d]
        cur == cursor[dr.owner]
    IN  /\ dr.open
        /\ InStore(dr)
        /\ cur.bound \in {{}, dr.bound}
        /\ cursor' = [cursor EXCEPT ![dr.owner] =
             [bound |-> dr.bound, rev |-> CommitRev(cur, dr),
              foreign |-> IF cur.rev = dr.stale \/ dr.pos > cur.rev \/ cur.bound = {}
                            THEN dr.foreign ELSE cur.foreign]]
        /\ UNCHANGED <<store, drain, mark, delivered>>

\* A consumer that keeps its own position saves the drain's.
SaveMark(d) ==
    /\ drain[d].open /\ drain[d].owner \in Keepers
    /\ mark' = [mark EXCEPT ![drain[d].owner] =
                  [bound |-> drain[d].bound, rev |-> drain[d].pos,
                   epoch |-> drain[d].epoch, db |-> drain[d].db,
                   foreign |-> drain[d].foreign]]
    /\ UNCHANGED <<store, cursor, drain, delivered>>

\* The drain is dropped, finished or not: the consumer stops or crashes.
Close(d) ==
    /\ drain[d].open
    /\ drain' = [drain EXCEPT ![d] = Closed]
    /\ UNCHANGED <<store, cursor, mark, delivered>>

Next ==
    \/ \E k \in Keys, v \in Values : Insert(k, v)
    \/ \E k \in Keys, v \in Values : Update(k, v)
    \/ \E k, q \in Keys, v \in Values : Move(k, q, v)
    \/ \E k \in Keys : Delete(k)
    \/ \E feeds \in Releases, changed \in SUBSET Keys :
         \E vals \in [changed -> Values] : Upgrade(feeds, changed, vals)
    \/ Replace
    \/ \E d \in Drains, c \in Consumers, kinds \in KindSets \cup {fed} :
         \/ Open(d, c, kinds, FromStart(c, kinds))
         \/ Open(d, c, kinds, FromConsumer(c, kinds))
         \/ Open(d, c, kinds, FromMark(c, kinds))
    \/ \E d \in Drains : Fill(d)
    \/ \E d \in Drains : FillFails(d)
    \/ \E d \in Drains : Yield(d)
    \/ \E d \in Drains : Commit(d)
    \/ \E d \in Drains : SaveMark(d)
    \/ \E d \in Drains : Close(d)

Spec == Init /\ [][Next]_vars

-----------------------------------------------------------------------------
(* Properties.                                                             *)

Cursor == [bound : Bounds, rev : Nat, foreign : BOOLEAN]
Mark == [bound : Bounds, rev : Nat, epoch : Nat, db : Nat, foreign : BOOLEAN]
Link == [epoch : Nat, successor : Nat, through : Nat]
Drain == [open : BOOLEAN, owner : Consumers \cup {None}, kinds : SUBSET Kinds,
          bound : Bounds, db : Nat, epoch : Nat, head : Nat, pos : Nat, stale : Nat,
          foreign : BOOLEAN, buffer : SUBSET Change, exhausted : BOOLEAN]

\* Type correctness.
TypeOK ==
    /\ clock \in Nat
    /\ row \in [Keys -> Values \cup {None}]
    /\ rev \in [Keys -> Nat]
    /\ tomb \in [Keys -> Nat]
    /\ fed \in SUBSET Kinds /\ gone \in SUBSET Kinds
    /\ db \in Nat /\ epoch \in Nat /\ lastEpoch \in Nat
    /\ links \in SUBSET Link
    /\ cursor \in [Consumers -> Cursor]
    /\ drain \in [Drains -> Drain]
    /\ mark \in [Consumers -> Mark]
    /\ delivered \in [Consumers -> SUBSET Change]

\* A revision names one record: two records of the feed, rows or tombstones of
\* any kinds, never share one, and none is above the head.  What makes
\* "revision > watermark" the whole resume predicate.
RevisionsUnique ==
    /\ \A r, s \in FeedOf(Kinds) : r.rev = s.rev => r = s
    /\ \A r \in FeedOf(Kinds) : r.rev <= clock

\* A fed key is a row or a tombstone and never both, whatever order it was
\* inserted, moved, deleted and inserted again in: a consumer is never told a
\* live record is deleted.
OneRecordPerKey == \A r, s \in FeedOf(fed) : r.key = s.key => r = s

\* The records of some kinds at or below a revision have been given to c.
Accounts(c, kinds, upto) ==
    \A r \in FeedOf(kinds) : r.rev <= upto => r \in delivered[c]

\* No change is skipped for good: everything the store holds at or below a
\* named cursor, in the cursor's kinds, has been given to that consumer in the
\* form the store holds now, whatever writers, releases, crashes and sibling
\* drains did in between.  A cursor the store never issued promises this from
\* the first resync that commits over it.
CursorAccounts ==
    \A c \in Consumers : ~cursor[c].foreign =>
        Accounts(c, BoundKinds(cursor[c].bound), cursor[c].rev)

\* The same of every open drain's position while its database is the store's.
PositionAccounts ==
    \A d \in Drains : drain[d].open /\ drain[d].db = db /\ ~drain[d].foreign =>
        Accounts(drain[d].owner, drain[d].kinds \cap fed, drain[d].pos)

\* The same of a position a consumer keeps outside the store, whenever
\* changes_since would resume it: across releases, retirements and databases.
MarkAccounts ==
    \A c \in Consumers :
        LET kinds == BoundKinds(mark[c].bound) \cap fed
        IN  FromMark(c, kinds).ok /\ ~mark[c].foreign /\ mark[c].rev <= clock =>
              Accounts(c, kinds, mark[c].rev)

\* A cursor this store issued never moves back, and never leaves its kind set,
\* except to be dropped with a retired kind or a replaced database.
CursorMonotone ==
    [][\A c \in Consumers :
         ~cursor[c].foreign /\ cursor[c].bound # {} /\ cursor'[c].bound # {} =>
            /\ cursor[c].rev <= cursor'[c].rev
            /\ BoundKinds(cursor[c].bound) \cap fed' \subseteq (BoundKinds(cursor[c].bound))'
      ]_vars
=============================================================================
