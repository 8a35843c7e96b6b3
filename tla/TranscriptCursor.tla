-------------------------- MODULE TranscriptCursor --------------------------
(***************************************************************************)
(* A transcript, its cursor and the rows read from it.  A provider writes  *)
(* the file; a pass opens it at the cursor, indexes the records it reads   *)
(* and commits a new cursor; a sweep asks first whether the file is where  *)
(* its cursor left it and skips it when it is.                             *)
(*                                                                         *)
(* Sources: crates/ai-hist/src/ingest/transcript_cursor.rs and             *)
(* transcript_cursor/{reader,reader/open,unchanged,store,change_time,      *)
(* encoding,prefix}.rs, and the pass of ingest/incremental.rs.             *)
(*                                                                         *)
(* A file is a sequence of records and offsets count records.  A record's  *)
(* place is its identity and `v`, the write that produced it, its text:    *)
(* no write brings old text back.  `fin` says whether its message is       *)
(* complete.  Time counts ticks of the filesystem's clock, from 1.  A      *)
(* stat, a digest and the reading of a record are a step each.             *)
(***************************************************************************)
EXTENDS Integers, Sequences, FiniteSets, FiniteSetsExt

CONSTANTS
    Inodes,         \* inode numbers the filesystem may give the file
    Window,         \* PREFIX_WINDOW_BYTES
    SettleWindow,   \* SETTLE_WINDOW_NS
    Reverify,       \* SETTLE_REVERIFY_MS
    Grace,          \* QUIESCENT_GRACE_MS
    None,           \* no cursor, settled stat or held message
    MaxLen,         \* records in the file
    MaxWrites,      \* records written
    MaxRewrites,    \* times the provider does other than append
    LastWrite,      \* the last tick it writes at, or a pass fails at
    MaxClock,       \* the last tick
    MaxStall        \* ticks from a digest to the reading of the clock after it

(* The two windows meet: a digest covers all of the prefix it names.       *)
ASSUME CursorAssumption ==
    /\ Window \in Nat \ {0} /\ MaxLen \in 1..(2 * Window)
    /\ SettleWindow \in Nat \ {0} /\ {Reverify, Grace} \subseteq Nat
    /\ {MaxWrites, MaxClock} \subseteq Nat \ {0}
    /\ {MaxRewrites, LastWrite, MaxStall} \subseteq Nat
    /\ Cardinality(Inodes) > 1

(* A record read whose message is unfinished: its place and its text.      *)
Hold == [at : 1..MaxLen, v : Nat]

(* None is told from what it stands in for.                                *)
ASSUME NoneAssumption == None \notin Inodes /\ None \notin Hold

VARIABLES
    now,        \* the clock
    files,      \* what each inode holds: its records and its two times
    path,       \* the inode the transcript's path names
    written,    \* records written so far
    rewrites,   \* times the provider did other than append
    rows,       \* the text the database has for the record at each place
    doc,        \* the row of transcript_cursors: its position and settled stat
    pass,       \* the pass over the file
    check,      \* the sweep's transcript_unchanged
    unseen      \* texts written where the pass that published over them was blind

world == <<now, files, path, written, rewrites>>
vars == <<world, rows, doc, pass, check, unseen>>

File == files[path]
Size(f) == Len(f.data)

(* What a stat of the inode returns.                                       *)
StatOf(ino) ==
    [ino |-> ino, size |-> Size(files[ino]), mtime |-> files[ino].mtime,
     ctime |-> files[ino].ctime]

(***************************************************************************)
(* The digest of the first n records: both ends of the prefix, and n.      *)
(***************************************************************************)
Digest(data, n) ==
    LET window == Min({Window, n})
    IN  <<n, SubSeq(data, 1, window), SubSeq(data, n - window + 1, n)>>

(* The text a digest was taken over at place k, in its first window or in  *)
(* its last.                                                               *)
TextAt(h, k) ==
    IF k <= Len(h[2]) THEN h[2][k].v ELSE h[3][k - (h[1] - Len(h[3]))].v

NoDoc == [file |-> None, settled |-> None]

NoPass ==
    [pc |-> "idle", by |-> None, saved |-> NoDoc, ino |-> None, mem |-> FALSE,
     bytes |-> <<>>, pos |-> 0, size |-> 0, mtime |-> 0, ctime |-> 0, window |-> <<>>,
     since |-> 0, hold |-> FALSE, held |-> None, moved |-> FALSE, newsize |-> 0,
     newmtime |-> 0, missed |-> {}]

NoCheck == [pc |-> "idle", doc |-> NoDoc, ctime |-> 0, at |-> 0]

(* A transcript that was there before the first sweep.                     *)
Init ==
    /\ now = 1 /\ written = 1 /\ rewrites = 0
    /\ path = CHOOSE i \in Inodes : TRUE
    /\ files = [i \in Inodes |->
                   [data |-> IF i = path THEN <<[v |-> 1, fin |-> TRUE]>> ELSE <<>>,
                    mtime |-> 1, ctime |-> 1]]
    /\ rows = [i \in 1..MaxLen |-> 0]
    /\ doc = NoDoc
    /\ pass = NoPass /\ check = NoCheck
    /\ unseen = {}

(***************************************************************************)
(* Where a pass is blind: a text written there, behind what it has read,   *)
(* is one no later step of it can tell from what it read.                  *)
(***************************************************************************)
CommitPoint == IF pass.held = None THEN pass.pos ELSE pass.held.at - 1

(* commit_prefix reads the file again, after commit_window did.            *)
Redigests == CommitPoint # pass.size /\ (pass.mem => pass.moved)

Blind(k, ino, mtime) ==
    /\ k <= pass.pos
    /\ pass.mem \/ ino = pass.ino
    /\ \/ pass.pc = "opened"
       \/ pass.pc = "prefix" /\ Redigests /\ k <= CommitPoint
       \/ ~ pass.mem /\ k > pass.size
       \/ ~ pass.mem /\ pass.pc \in {"walk", "commit"} /\ now = pass.ctime /\ mtime = pass.mtime

(***************************************************************************)
(* The provider.  Every write moves the change time to now; a writer that  *)
(* restores timestamps leaves the modification time as it was.             *)
(***************************************************************************)
Writes(data, ino, mtime, at) ==
    /\ now <= LastWrite
    /\ files' = [files EXCEPT ![ino] = [data |-> data, mtime |-> mtime, ctime |-> now]]
    /\ path' = ino
    /\ pass' = [pass EXCEPT !.missed = @ \cup {written + 1 : k \in {i \in at : Blind(i, ino, mtime)}}]
    /\ UNCHANGED <<now, rows, doc, check, unseen>>

Record(fin) == [v |-> written + 1, fin |-> fin]

Append1(fin) ==
    /\ written < MaxWrites /\ Size(File) < MaxLen
    /\ written' = written + 1 /\ UNCHANGED rewrites
    /\ Writes(Append(File.data, Record(fin)), path, now, {Size(File) + 1})

Rewrite(i) ==
    /\ written < MaxWrites /\ rewrites < MaxRewrites /\ i \in 1..Size(File)
    /\ written' = written + 1 /\ rewrites' = rewrites + 1
    /\ \E mtime \in {File.mtime, now} :
          Writes([File.data EXCEPT ![i] = Record(TRUE)], path, mtime, {i})

Truncate(n) ==
    /\ rewrites < MaxRewrites /\ n \in 0..(Size(File) - 1)
    /\ rewrites' = rewrites + 1 /\ UNCHANGED written
    /\ Writes(SubSeq(File.data, 1, n), path, now, {})

(* A new file is renamed over the path.  Its inode number may be one that  *)
(* was freed, which a handle keeps from happening, and its first n records *)
(* those of the file it replaces.                                          *)
Replace(n, ino) ==
    /\ rewrites < MaxRewrites /\ written < MaxWrites
    /\ n \in 0..Min({Size(File), MaxLen - 1})
    /\ ino # path /\ (ino = pass.ino => pass.mem)
    /\ rewrites' = rewrites + 1 /\ written' = written + 1
    /\ \E mtime \in {File.mtime, now} :
          Writes(Append(SubSeq(File.data, 1, n), Record(TRUE)), ino, mtime, {n + 1})

(***************************************************************************)
(* A cursor against a stat s and the records read after it.  A prefix that *)
(* ends past the last record has no digest.                                *)
(***************************************************************************)
Matches(c, data) == c.offset <= Len(data) /\ Digest(data, c.offset) = c.hash

StatAllows(c, s) == c.ino = s.ino /\ s.size >= c.offset /\ s.mtime >= c.mtime

SavedValid(c, s, data) == c # None /\ StatAllows(c, s) /\ Matches(c, data)

(* stat_unchanged: the cursor is valid and the stat is the one it stored.  *)
Quiet(c, s, data) ==
    SavedValid(c, s, data) /\ s.size = c.size /\ s.mtime = c.mtime

UnchangedSince(c, s, data) ==
    IF Quiet(c, s, data) /\ c.since > 0 THEN c.since ELSE now

Quiesced(c, s, data) ==
    Quiet(c, s, data) /\ now - UnchangedSince(c, s, data) >= Grace

(* The clock is bounded: past the last write no pass is under way when it  *)
(* moves, and then it waits for a cursor that stands for the file, so that *)
(* a quiet period still fits.                                              *)
Tick ==
    /\ now < MaxClock
    /\ now >= LastWrite => pass = NoPass
    /\ now > LastWrite => Quiet(doc.file, StatOf(path), File.data)
    /\ check.pc = "proved" => now < check.at + MaxStall
    /\ now' = now + 1
    /\ UNCHANGED <<files, path, written, rewrites, rows, doc, pass, check, unseen>>

(***************************************************************************)
(* Opening at the saved cursor.  A pass streams the file from the handle   *)
(* it opens and stats, or walks a copy of its bytes.                       *)
(***************************************************************************)
Streaming(by, saved) ==
    [NoPass EXCEPT !.pc = "statted", !.by = by, !.saved = saved, !.ino = path,
                   !.size = Size(File), !.mtime = File.mtime, !.ctime = File.ctime]

Open(mem, by) ==
    /\ pass.pc = "idle"
    /\ pass' = IF mem
               THEN [NoPass EXCEPT !.pc = "copied", !.by = by, !.saved = doc,
                                   !.mem = TRUE, !.bytes = File.data]
               ELSE Streaming(by, doc)
    /\ UNCHANGED <<world, rows, doc, unseen>>

(* A hydration reads the file whatever the sweep thinks of it.             *)
Hydrate(mem) == Open(mem, "hydration") /\ UNCHANGED check

(* The sweep reads a file that transcript_unchanged did not prove.         *)
SweepRead(mem) == check.pc = "changed" /\ Open(mem, "sweep") /\ check' = NoCheck

(* saved_resume: where the pass starts, and since when the file is quiet.  *)
Resumed(s, data) ==
    LET c == pass.saved.file
    IN  [pass EXCEPT !.pos = IF SavedValid(c, s, data) THEN c.offset ELSE 0,
                     !.since = UnchangedSince(c, s, data),
                     !.hold = ~ Quiesced(c, s, data)]

(* The handle's digest of the saved prefix; it is the opened window too    *)
(* when the prefix is the whole file.                                      *)
OpenSaved ==
    LET c == pass.saved.file
        data == files[pass.ino].data
    IN  /\ pass.pc = "statted"
        /\ pass' = IF SavedValid(c, pass, data) /\ c.offset = pass.size
                   THEN [Resumed(pass, data) EXCEPT !.pc = "walk", !.window = c.hash]
                   ELSE [Resumed(pass, data) EXCEPT !.pc = "opened"]
        /\ UNCHANGED <<world, rows, doc, check, unseen>>

(* The handle's digest of the opened window; a file cut short is an error. *)
(* A pass without a cursor reads the clock here.                           *)
OpenWindow ==
    LET data == files[pass.ino].data
    IN  /\ pass.pc = "opened"
        /\ pass' = IF Len(data) < pass.size THEN NoPass
                   ELSE [pass EXCEPT !.pc = "walk", !.window = Digest(data, pass.size),
                                     !.since = IF pass.saved.file = None THEN now ELSE @]
        /\ UNCHANGED <<world, rows, doc, check, unseen>>

(* reader_from_bytes stats the path.  Bytes of another length than the     *)
(* stat's are dropped for a stream, else all is read from them.            *)
OpenBytes ==
    LET s == StatOf(path)
        n == Len(pass.bytes)
    IN  /\ pass.pc = "copied"
        /\ pass' = IF s.size # n THEN Streaming(pass.by, pass.saved)
                   ELSE [Resumed(s, pass.bytes) EXCEPT
                            !.pc = "walk", !.ino = s.ino, !.size = n, !.mtime = s.mtime,
                            !.ctime = s.ctime, !.window = Digest(pass.bytes, n)]
        /\ UNCHANGED <<world, rows, doc, check, unseen>>

(***************************************************************************)
(* The walk.  A record whose message is unfinished is held: it is indexed  *)
(* once a record follows it, or once the file has gone quiet.              *)
(***************************************************************************)
Reading == IF pass.mem THEN pass.bytes ELSE files[pass.ino].data

Indexed(held, rs) == IF held = None THEN rs ELSE [rs EXCEPT ![held.at] = held.v]

Read ==
    /\ pass.pc = "walk" /\ pass.pos < Len(Reading)
    /\ LET at == pass.pos + 1
           record == Reading[at]
           holds == pass.hold /\ ~ record.fin
           released == Indexed(pass.held, rows)
       IN  /\ rows' = IF holds THEN released ELSE [released EXCEPT ![at] = record.v]
           /\ pass' = [pass EXCEPT !.pos = at,
                                   !.held = IF holds THEN [at |-> at, v |-> record.v] ELSE None]
    /\ UNCHANGED <<world, doc, check, unseen>>

End ==
    /\ pass.pc = "walk" /\ pass.pos >= Len(Reading)
    /\ pass' = [pass EXCEPT !.pc = "commit"]
    /\ UNCHANGED <<world, rows, doc, check, unseen>>

(***************************************************************************)
(* The commit.  A streaming pass goes by the inode it opened, a pass over  *)
(* a copy by the path.                                                     *)
(***************************************************************************)
CommitInode == IF pass.mem THEN path ELSE pass.ino

CommitData == files[CommitInode].data

StatMoved(s) == s.size # pass.size \/ s.mtime # pass.mtime \/ s.ctime # pass.ctime

(* A pass whose file was rewritten under it stores the cursor it loaded.   *)
Supersede == doc' = pass.saved /\ pass' = NoPass

(* The stat the cursor will carry.  A file that did not move is not        *)
(* digested again.                                                         *)
CommitStat ==
    LET s == StatOf(CommitInode)
    IN  /\ pass.pc = "commit"
        /\ \/ /\ s.ino # pass.ino \/ s.size < CommitPoint \/ s.size < pass.size
              /\ Supersede
           \/ /\ s.ino = pass.ino /\ s.size >= CommitPoint /\ s.size >= pass.size
              /\ pass' = [pass EXCEPT !.pc = IF StatMoved(s) THEN "window" ELSE "prefix",
                                      !.moved = StatMoved(s),
                                      !.newsize = s.size, !.newmtime = s.mtime]
              /\ UNCHANGED doc
        /\ UNCHANGED <<world, rows, check, unseen>>

(* Mutant: what was digested at the open is not looked at again.         *)
CommitWindow_Opened == pass.window

CommitWindow == Digest(CommitData, pass.size)

(* Mutant: the end of the quiet period is stored, not its start.         *)
CommitSince_Deadline == now + Grace

CommitSince == now

(* The opened window again, of a file that moved.                          *)
CommitRehash ==
    /\ pass.pc = "window"
    /\ \/ Len(CommitData) < pass.size /\ pass' = NoPass /\ UNCHANGED doc
       \/ Len(CommitData) >= pass.size /\ CommitWindow # pass.window /\ Supersede
       \/ /\ Len(CommitData) >= pass.size /\ CommitWindow = pass.window
          /\ pass' = [pass EXCEPT !.pc = "prefix", !.since = CommitSince]
          /\ UNCHANGED doc
    /\ UNCHANGED <<world, rows, check, unseen>>

CommitPrefix ==
    IF CommitPoint = pass.size THEN pass.window
    ELSE Digest(IF Redigests THEN CommitData ELSE pass.bytes, CommitPoint)

Published ==
    [offset |-> CommitPoint, ino |-> pass.ino, mtime |-> pass.newmtime,
     size |-> pass.newsize, since |-> pass.since, hash |-> CommitPrefix]

(* The digest of the committed prefix, and the cursor is stored.           *)
CommitStore ==
    /\ pass.pc = "prefix"
    /\ \/ /\ Redigests /\ Len(CommitData) < CommitPoint
          /\ UNCHANGED <<doc, unseen>>
       \/ /\ Redigests => Len(CommitData) >= CommitPoint
          /\ doc' = [pass.saved EXCEPT !.file = Published]
          /\ unseen' = unseen \cup pass.missed
    /\ pass' = NoPass
    /\ UNCHANGED <<world, rows, check>>

(* A read fails, or the pass is cancelled, after rows were committed.      *)
(* Failures end with the writes.                                           *)
Abort ==
    /\ pass.pc # "idle" /\ now <= LastWrite
    /\ pass' = NoPass
    /\ UNCHANGED <<world, rows, doc, check, unseen>>

(***************************************************************************)
(* transcript_unchanged: it loads the cursor, stats the file, is content   *)
(* with a settled stat, else takes the digest and records the stat.        *)
(***************************************************************************)
Load ==
    /\ check.pc = "idle" /\ pass.by # "sweep"
    /\ check' = [NoCheck EXCEPT !.pc = "loaded", !.doc = doc]
    /\ UNCHANGED <<world, rows, doc, pass, unseen>>

(* Mutant: the stat is compared with the size the cursor saw, and not with *)
(* where the cursor stands.                                                *)
SameStat_Size(c) == c.size = Size(File) /\ c.mtime = File.mtime /\ c.ino = path

SameStat(c) == c.offset = Size(File) /\ c.mtime = File.mtime /\ c.ino = path

SettleIsFresh(s) == now - s.at < Reverify

SettledProvesUnchanged(d) ==
    /\ d.settled # None
    /\ SettleIsFresh(d.settled)
    /\ d.settled.hash = d.file.hash
    /\ d.settled.ctime = File.ctime

Changed == [NoCheck EXCEPT !.pc = "changed"]

Stat ==
    LET d == check.doc
    IN  /\ check.pc = "loaded"
        /\ check' = IF d.file = None THEN Changed
                    ELSE IF ~ SameStat(d.file) THEN Changed
                    ELSE IF SettledProvesUnchanged(d) THEN NoCheck
                    ELSE [check EXCEPT !.pc = "statted", !.ctime = File.ctime]
        /\ UNCHANGED <<world, rows, doc, pass, unseen>>

(* committed_prefix_matches stats the path again ...                       *)
Restat ==
    /\ check.pc = "statted"
    /\ check' = IF StatAllows(check.doc.file, StatOf(path))
                THEN [check EXCEPT !.pc = "allowed"] ELSE Changed
    /\ UNCHANGED <<world, rows, doc, pass, unseen>>

(* ... and opens what it names by then for the digest.                     *)
Prove ==
    /\ check.pc = "allowed"
    /\ check' = IF Matches(check.doc.file, File.data)
                THEN [check EXCEPT !.pc = "proved", !.at = now] ELSE Changed
    /\ UNCHANGED <<world, rows, doc, pass, unseen>>

(* The stat is old enough that a later write lands on a later tick.        *)
MaySettle == now - check.ctime >= SettleWindow

(* A compare-and-swap on the document the check loaded.                    *)
Settle ==
    /\ check.pc = "proved"
    /\ doc' = IF MaySettle /\ doc = check.doc
              THEN [doc EXCEPT !.settled =
                       [ctime |-> check.ctime, at |-> now, hash |-> doc.file.hash]]
              ELSE doc
    /\ check' = NoCheck
    /\ UNCHANGED <<world, rows, pass, unseen>>

(***************************************************************************)
(* The specification.                                                      *)
(***************************************************************************)
Provider ==
    \/ \E fin \in BOOLEAN : Append1(fin)
    \/ \E i \in 1..MaxLen : Rewrite(i)
    \/ \E n \in 0..MaxLen : Truncate(n) \/ \E ino \in Inodes : Replace(n, ino)

Next ==
    \/ Provider
    \/ Tick
    \/ \E mem \in BOOLEAN : Hydrate(mem) \/ SweepRead(mem)
    \/ OpenSaved \/ OpenWindow \/ OpenBytes
    \/ Read \/ End \/ CommitStat \/ CommitRehash \/ CommitStore \/ Abort
    \/ Load \/ Stat \/ Restat \/ Prove \/ Settle

Spec == Init /\ [][Next]_vars

(* Time passes (strongly fair: between passes, where its bound lets it), a *)
(* watcher sweeps again and again, and a pass under way is finished; the   *)
(* provider and hydrations owe nothing.                                    *)
Fairness ==
    /\ SF_vars(Tick)
    /\ WF_vars(Load \/ Stat \/ Restat \/ Prove \/ Settle \/ \E mem \in BOOLEAN : SweepRead(mem))
    /\ WF_vars(OpenSaved \/ OpenWindow \/ OpenBytes \/ Read \/ End
               \/ CommitStat \/ CommitRehash \/ CommitStore)

FairSpec == Spec /\ Fairness

(***************************************************************************)
(* Properties.                                                             *)
(***************************************************************************)
(* Every variable has its type; a cursor and a settled stat are of the     *)
(* past, and a cursor lies within the file it was taken over               *)
(* (TranscriptFileCursor, SettledStat).                                    *)
TypeOK ==
    /\ now \in 1..MaxClock /\ path \in Inodes
    /\ written \in 0..MaxWrites /\ rewrites \in 0..MaxRewrites
    /\ rows \in [1..MaxLen -> 0..written]
    /\ \A i \in Inodes : files[i].mtime <= files[i].ctime /\ files[i].ctime <= now
    /\ pass.pc \in {"idle", "copied", "statted", "opened", "walk", "commit", "window", "prefix"}
    /\ pass.pos \in 0..MaxLen /\ (pass.pc = "opened" => pass.pos <= pass.size)
    /\ check.pc \in {"idle", "loaded", "statted", "allowed", "proved", "changed"}
    /\ unseen \cup pass.missed \subseteq 1..written
    /\ doc.file # None =>
          /\ doc.file.ino \in Inodes /\ {doc.file.mtime, doc.file.since} \subseteq 1..now
          /\ doc.file.size \in 0..MaxLen /\ doc.file.offset \in 0..doc.file.size
    /\ doc.settled # None => doc.settled.ctime < doc.settled.at /\ doc.settled.at <= now

(* What an index of the first n records has to have: every text but one    *)
(* that was written where the pass that published over it was blind.       *)
RowsMatch(n) == \A i \in 1..n : rows[i] = File.data[i].v \/ File.data[i].v \in unseen

(* A sweep that skips a file skips nothing a pass could have seen: when    *)
(* transcript_unchanged answers yes, on a settled stat or on a digest,     *)
(* every record behind the cursor it loaded has its text in the database.  *)
(* The file may have been rewritten with its timestamps restored,          *)
(* truncated and regrown, or replaced, in one tick, between any two stats, *)
(* digests and reads of a pass and of the check.                           *)
SkipSound ==
    [][ /\ (check.pc = "loaded" /\ check'.pc = "idle") => RowsMatch(Size(File))
        /\ (check.pc = "allowed" /\ check'.pc = "proved") => RowsMatch(check.doc.file.offset)
      ]_vars

(* Once the provider stops, every record of the file reaches the database, *)
(* a message nobody finished included: the quiet period the cursor carries *)
(* from pass to pass releases it.  A text written where a pass was blind   *)
(* may not.                                                                *)
EventuallyIndexed == <>[]RowsMatch(Size(File))

(* What CommitOutcome says of a pass whose file was rewritten underneath   *)
(* it: it records nothing, for its rows hold the old bytes and a digest of *)
(* the file now would authenticate the new ones.  So the cursor stored by  *)
(* a commit that saw the file move never has, for a record as the file now *)
(* has it, a text that the rows lack.                                      *)
PublishesItsRows ==
    [][ (pass.pc = "prefix" /\ pass.moved /\ doc' # doc) =>
          \A k \in 1..doc'.file.offset :
             (k <= Size(File) /\ File.data[k].v = TextAt(doc'.file.hash, k))
                => rows[k] = File.data[k].v
      ]_vars
=============================================================================
