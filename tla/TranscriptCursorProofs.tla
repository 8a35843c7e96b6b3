----------------------- MODULE TranscriptCursorProofs -----------------------
(***************************************************************************)
(* Proofs about TranscriptCursor: its types, and that a sweep which skips  *)
(* a transcript skips nothing a pass could have seen, for any lengths,     *)
(* clocks and windows that the assumptions of the module allow.            *)
(***************************************************************************)
EXTENDS TranscriptCursor, Extrema, FiniteSetTheorems

-----------------------------------------------------------------------------
(* The types, of everything a step reads.                                  *)

Rec == [v : Nat, fin : BOOLEAN]

DataOK(data) ==
    /\ data \in Seq(Rec) /\ Len(data) <= MaxLen
    /\ \A k \in 1..Len(data) : data[k].v <= written

FileOK(f) ==
    /\ f = [data |-> f.data, mtime |-> f.mtime, ctime |-> f.ctime]
    /\ DataOK(f.data)
    /\ f.mtime \in Nat /\ f.ctime \in Nat
    /\ 1 <= f.mtime /\ f.mtime <= f.ctime /\ f.ctime <= now

\* A digest of n records, each of which was written.
DigestOK(h, n) == h[1] = n /\ \A k \in 1..n : TextAt(h, k) \in 0..written

CursorOK(c) ==
    c # None =>
        /\ c.ino \in Inodes /\ c.size \in 0..MaxLen /\ c.offset \in 0..c.size
        /\ c.mtime \in 1..now /\ c.since \in 1..now
        /\ DigestOK(c.hash, c.offset)

SettledOK(s) ==
    s # None => s.ctime \in Nat /\ s.at \in Nat /\ s.ctime < s.at /\ s.at <= now

DocOK(d) ==
    /\ d = [file |-> d.file, settled |-> d.settled]
    /\ CursorOK(d.file) /\ SettledOK(d.settled)

\* A pass that has the window it opened.
Windowed(p) == p.pc \in {"walk", "commit", "window", "prefix"}

\* Where a pass would publish its cursor.
Point(p) == IF p.held = None THEN p.pos ELSE p.held.at - 1

HeldOK(p) ==
    p.held # None =>
        Windowed(p) /\ p.held \in Hold /\ p.held.at = p.pos /\ p.held.v <= written

WindowOK(p) ==
    /\ p.since \in 1..now /\ DigestOK(p.window, p.size)
    /\ p.mem => Len(p.bytes) = p.size /\ p.pos <= p.size

Shaped(p) ==
    p = [pc |-> p.pc, by |-> p.by, saved |-> p.saved, ino |-> p.ino, mem |-> p.mem,
         bytes |-> p.bytes, pos |-> p.pos, size |-> p.size, mtime |-> p.mtime,
         ctime |-> p.ctime, window |-> p.window, since |-> p.since, hold |-> p.hold,
         held |-> p.held, moved |-> p.moved, newsize |-> p.newsize,
         newmtime |-> p.newmtime, missed |-> p.missed]

PassOK(p) ==
    /\ Shaped(p)
    /\ p.pc \in {"idle", "copied", "statted", "opened", "walk", "commit", "window", "prefix"}
    /\ p.mem \in BOOLEAN /\ p.moved \in BOOLEAN /\ p.pos \in 0..MaxLen /\ p.size \in 0..MaxLen
    /\ p.mtime \in Nat /\ p.ctime \in Nat
    /\ DocOK(p.saved) /\ DataOK(p.bytes) /\ HeldOK(p)
    /\ p.pc = "copied" => p.mem
    /\ p.pc \notin {"idle", "copied"} => p.ino \in Inodes
    /\ p.pc \in {"statted", "opened"} => ~ p.mem
    /\ p.pc = "opened" => p.pos <= p.size /\ p.since \in 1..now
    /\ Windowed(p) => WindowOK(p)
    /\ p.pc \in {"window", "prefix"} =>
          p.newsize \in 0..MaxLen /\ p.newmtime \in 1..now /\ Point(p) <= p.newsize

CheckOK ==
    /\ check = [pc |-> check.pc, doc |-> check.doc, ctime |-> check.ctime, at |-> check.at]
    /\ check.pc \in {"idle", "loaded", "statted", "allowed", "proved", "changed"}
    /\ DocOK(check.doc)
    /\ check.ctime \in Nat /\ check.at \in Nat /\ check.at <= now
    /\ check.pc \in {"statted", "allowed", "proved"} => check.doc.file # None

WorldOK ==
    /\ now \in 1..MaxClock /\ path \in Inodes
    /\ written \in 1..MaxWrites /\ rewrites \in 0..MaxRewrites
    /\ files = [i \in Inodes |-> files[i]] /\ \A i \in Inodes : FileOK(files[i])
    /\ rows \in [1..MaxLen -> 0..written]

Typed ==
    /\ WorldOK /\ DocOK(doc) /\ PassOK(pass) /\ CheckOK
    /\ unseen \subseteq 1..written /\ pass.missed \subseteq 1..written
-----------------------------------------------------------------------------
(* What the cursor, the pass and the check know of the file.               *)

\* No text at place k is newer than the path's: what it was told last.
Older(k, v) == k <= Size(File) => v <= File.data[k].v

\* The path's file has text v at place k.
Has(k, v) == k <= Size(File) /\ File.data[k].v = v

\* A record the path's file still has with text v is in the database, or was
\* written where a pass was blind; and what a pass reads at its place, or
\* holds of it, is no older.
Grounded(k, v) ==
    /\ Older(k, v)
    /\ Has(k, v) => rows[k] = v \/ v \in unseen
    /\ pass.pc # "idle" /\ k <= Len(Reading) => v <= Reading[k].v
    /\ pass.held # None /\ pass.pos = k => v <= pass.held.v

Backed(c) == c # None => \A k \in 1..c.offset : Grounded(k, TextAt(c.hash, k))

\* A file whose change time is the settled one is the file that was digested.
Settles(ctime, h) ==
    File.ctime = ctime => h[1] \in 0..Size(File) /\ h = Digest(File.data, h[1])

Knows(d) ==
    /\ Backed(d.file)
    /\ d.settled # None => Settles(d.settled.ctime, d.settled.hash)

\* What the pass has for a place it read: the record it holds, or the row.
Got(k) == IF pass.held # None /\ k = pass.pos THEN pass.held.v ELSE rows[k]

\* The pass has text v of place k, if the path's file still has it, unless it
\* was blind when v was written.
Taken(k, v) == Has(k, v) => Got(k) = v \/ v \in unseen \cup pass.missed

ReadsOlder ==
    pass.pc # "idle" =>
        /\ \A k \in 1..Len(Reading) : Older(k, Reading[k].v)
        /\ pass.held # None => Older(pass.pos, pass.held.v)

\* The opened window is of texts no newer than what is read; of what was read
\* within it the pass has the window's.
Opened ==
    Windowed(pass) =>
        /\ \A k \in 1..pass.size :
              /\ Older(k, TextAt(pass.window, k))
              /\ k <= Len(Reading) => TextAt(pass.window, k) <= Reading[k].v
              /\ pass.mem => TextAt(pass.window, k) = pass.bytes[k].v
        /\ \A k \in 1..pass.pos : k <= pass.size => Taken(k, TextAt(pass.window, k))

\* The stat of the streamed file is no longer the one of the open.
Stirred == files[pass.ino].ctime > pass.ctime \/ files[pass.ino].mtime > pass.mtime

\* A rewrite the commit will find out about: of the opened window, with a stat that moved.
FoundOut(k) ==
    /\ Windowed(pass) /\ k <= pass.size
    /\ files[pass.ino].data[k].v # TextAt(pass.window, k)
    /\ pass.pc = "window" \/ Stirred

\* A streaming pass has what its file has of the records it is past, up to what
\* the commit will find out.
Streamed ==
    pass.pc \notin {"idle", "copied"} /\ ~ pass.mem =>
        /\ pass.ctime <= files[pass.ino].ctime /\ pass.mtime <= files[pass.ino].mtime
        /\ pass.pc \in {"opened", "walk", "commit", "window"} =>
              \A k \in 1..pass.pos :
                 k <= Len(files[pass.ino].data) =>
                    Taken(k, files[pass.ino].data[k].v) \/ FoundOut(k)

\* What a commit digests again is what the pass has.
Redigested ==
    pass.pc = "prefix" /\ Redigests =>
        \A k \in 1..CommitPoint : k <= Len(CommitData) => Taken(k, CommitData[k].v)

\* The clock is read soon after the digest, and the digest was of the file.
Proved ==
    check.pc = "proved" =>
        /\ now <= check.at + MaxStall
        /\ check.ctime < check.at => Settles(check.ctime, check.doc.file.hash)

PassTruth == ReadsOlder /\ Opened /\ Streamed /\ Redigested

Truth == Knows(doc) /\ Knows(pass.saved) /\ Knows(check.doc) /\ PassTruth /\ Proved
-----------------------------------------------------------------------------
(* Digests.                                                                *)

\* The bounds of the model as facts the provers read at a glance.
LEMMA Bounds ==
    /\ Window \in Nat /\ Window > 0 /\ MaxLen \in Nat /\ MaxLen > 0 /\ MaxLen <= 2 * Window
    /\ SettleWindow \in Nat /\ SettleWindow > 0 /\ MaxStall \in Nat /\ Grace \in Nat
    /\ MaxWrites \in Nat /\ MaxWrites > 0 /\ MaxClock \in Nat /\ MaxClock > 0
    /\ MaxRewrites \in Nat /\ LastWrite \in Nat
BY CursorAssumption

\* The clock and the count of writes are numbers.
LEMMA Numbers ==
    ASSUME WorldOK
    PROVE  now \in Nat /\ 1 <= now /\ written \in Nat
<1>1. MaxClock \in Nat /\ MaxWrites \in Nat
  BY Bounds
<1>2. now \in 1..MaxClock /\ written \in 1..MaxWrites
  BY DEF WorldOK
<1> QED  BY <1>1, <1>2

\* There is an inode for the transcript.
LEMMA SomeInode == Inodes # {}
<1>1. Cardinality(Inodes) > 1
  BY CursorAssumption
<1>2. Inodes = {} => Cardinality(Inodes) = 0
  BY FS_EmptySet
<1> QED  BY <1>1, <1>2

\* The window of a prefix is the shorter of the two.
LEMMA ShorterWindow ==
    ASSUME NEW n \in Nat
    PROVE  /\ Min({Window, n}) \in Nat /\ Min({Window, n}) <= Window /\ Min({Window, n}) <= n
           /\ Min({Window, n}) = Window \/ Min({Window, n}) = n
<1>1. {Window, n} \in SUBSET Nat /\ {Window, n} # {}
  BY Bounds
<1>2. Min({Window, n}) \in {Window, n} /\ \A m \in {Window, n} : Min({Window, n}) <= m
  BY <1>1, MinIsLeast
<1> QED  BY <1>2, Bounds

\* A piece of a sequence.
LEMMA Piece ==
    ASSUME NEW S, NEW s \in Seq(S), NEW a \in 1..(Len(s) + 1), NEW b \in (a - 1)..Len(s)
    PROVE  /\ Len(SubSeq(s, a, b)) = b - a + 1 /\ SubSeq(s, a, b) \in Seq(S)
           /\ \A k \in 1..(b - a + 1) : SubSeq(s, a, b)[k] = s[a + k - 1]
OBVIOUS

\* A digest is of every record of the prefix: the two windows meet.
LEMMA DigestReads ==
    ASSUME NEW data \in Seq(Rec), NEW n \in 0..Len(data), n <= MaxLen
    PROVE  /\ Digest(data, n)[1] = n
           /\ \A k \in 1..n : TextAt(Digest(data, n), k) = data[k].v
<1> DEFINE w == Min({Window, n})
           a == SubSeq(data, 1, w)
           b == SubSeq(data, n - w + 1, n)
           h == Digest(data, n)
<1>1. n \in Nat /\ Len(data) \in Nat
  OBVIOUS
<1>2. w \in Nat /\ w <= n /\ n <= 2 * w
  BY <1>1, ShorterWindow, Bounds
<1>3. h[1] = n /\ h[2] = a /\ h[3] = b
  BY DEF Digest
<1> HIDE DEF w, h
<1>4. Len(a) = w /\ \A k \in 1..w : a[k] = data[k]
  <2>1. w \in 0..Len(data) /\ 1 \in 1..(Len(data) + 1) /\ w \in (1 - 1)..Len(data)
    BY <1>1, <1>2
  <2>2. Len(a) = w - 1 + 1 /\ \A k \in 1..(w - 1 + 1) : a[k] = data[1 + k - 1]
    BY <2>1, Piece
  <2> QED  BY <2>2, <1>2
<1>5. Len(b) = w /\ \A k \in 1..w : b[k] = data[n - w + k]
  <2>1. n - w + 1 \in 1..(Len(data) + 1) /\ n \in ((n - w + 1) - 1)..Len(data)
    BY <1>1, <1>2
  <2>2. /\ Len(b) = n - (n - w + 1) + 1
        /\ \A k \in 1..(n - (n - w + 1) + 1) : b[k] = data[(n - w + 1) + k - 1]
    BY <2>1, Piece
  <2> QED  BY <2>2, <1>1, <1>2, SMTT(30)
<1> HIDE DEF a, b
<1>6. ASSUME NEW k \in 1..n PROVE TextAt(h, k) = data[k].v
  <2>1. CASE k <= w
    BY <2>1, <1>3, <1>4 DEF TextAt
  <2>2. CASE ~ (k <= w)
    <3>1. k - (n - w) \in 1..w /\ n - w + (k - (n - w)) = k
      BY <2>2, <1>1, <1>2
    <3>2. b[k - (n - w)] = data[k]
      BY <3>1, <1>5
    <3> QED  BY <2>2, <3>2, <1>3, <1>4, <1>5 DEF TextAt
  <2> QED  BY <2>1, <2>2
<1> QED  BY <1>3, <1>6 DEF h

-----------------------------------------------------------------------------
(* The provider.  Whatever it does, the path's file becomes one in which   *)
(* every record is kept in its place or newly written, and what is written *)
(* where the pass is blind is noted.                                       *)

Keeps(data, k) == k <= Size(File) /\ data[k].v = File.data[k].v

Wrote(data, k, ino, mtime) ==
    /\ written' = written + 1 /\ data[k].v = written + 1
    /\ Blind(k, ino, mtime) => written + 1 \in pass'.missed

Stored(data, ino, mtime) ==
    /\ data \in Seq(Rec) /\ Len(data) <= MaxLen
    /\ ino \in Inodes /\ mtime \in {File.mtime, now}
    /\ \A k \in 1..Len(data) : Keeps(data, k) \/ Wrote(data, k, ino, mtime)
    /\ ino = path \/ ino # pass.ino \/ pass.mem
    /\ files' = [files EXCEPT ![ino] = [data |-> data, mtime |-> mtime, ctime |-> now]]
    /\ path' = ino
    /\ written' \in {written, written + 1} /\ written' <= MaxWrites
    /\ rewrites' \in 0..MaxRewrites
    /\ pass' = [pass EXCEPT !.missed = pass'.missed]
    /\ pass.missed \subseteq pass'.missed /\ pass'.missed \subseteq pass.missed \cup {written'}
    /\ UNCHANGED <<now, rows, doc, check, unseen>>

\* A new record after the first n of a sequence.
LEMMA AppendedTo ==
    ASSUME NEW S, NEW s \in Seq(S), NEW e \in S, NEW n \in 0..Len(s)
    PROVE  /\ Append(SubSeq(s, 1, n), e) \in Seq(S)
           /\ Len(Append(SubSeq(s, 1, n), e)) = n + 1
           /\ \A k \in 1..n : Append(SubSeq(s, 1, n), e)[k] = s[k]
           /\ Append(SubSeq(s, 1, n), e)[n + 1] = e
<1>1. SubSeq(s, 1, n) \in Seq(S) /\ Len(SubSeq(s, 1, n)) = n /\ \A k \in 1..n : SubSeq(s, 1, n)[k] = s[k]
  <2>1. Len(s) \in Nat /\ n \in Nat /\ 1 \in 1..(Len(s) + 1) /\ n \in (1 - 1)..Len(s)
    OBVIOUS
  <2>2. /\ Len(SubSeq(s, 1, n)) = n - 1 + 1 /\ SubSeq(s, 1, n) \in Seq(S)
        /\ \A k \in 1..(n - 1 + 1) : SubSeq(s, 1, n)[k] = s[1 + k - 1]
    BY <2>1, Piece
  <2> QED  BY <2>1, <2>2
<1> DEFINE t == SubSeq(s, 1, n)
<1> HIDE DEF t
<1>2. t \in Seq(S) /\ Len(t) = n /\ \A k \in 1..n : t[k] = s[k]
  BY <1>1 DEF t
<1>3. Append(t, e) \in Seq(S) /\ Len(Append(t, e)) = n + 1 /\ Append(t, e)[n + 1] = e
      /\ \A k \in 1..n : Append(t, e)[k] = t[k]
  BY <1>2
<1> QED  BY <1>2, <1>3 DEF t

\* A sequence of records has a text at each place.
LEMMA TextsOf ==
    ASSUME NEW data \in Seq(Rec)
    PROVE  Len(data) \in Nat /\ \A k \in 1..Len(data) : data[k] \in Rec /\ data[k].v \in Nat
<1>1. Len(data) \in Nat /\ \A k \in 1..Len(data) : data[k] \in Rec
  OBVIOUS
<1>2. \A r \in Rec : r.v \in Nat
  BY DEF Rec
<1> QED  BY <1>1, <1>2

\* The file the path names.
LEMMA FileTyped ==
    ASSUME WorldOK
    PROVE  /\ FileOK(File) /\ DataOK(File.data) /\ File.data \in Seq(Rec)
           /\ Size(File) \in 0..MaxLen /\ Size(File) = Len(File.data)
           /\ written \in Nat /\ now \in Nat
           /\ \A k \in 1..Size(File) : File.data[k].v \in Nat /\ File.data[k].v <= written
<1>1. FileOK(File) /\ DataOK(File.data)
  BY DEF WorldOK, File, FileOK
<1>2. File.data \in Seq(Rec) /\ Len(File.data) <= MaxLen
      /\ \A k \in 1..Len(File.data) : File.data[k].v <= written
  BY <1>1 DEF DataOK
<1>3. Len(File.data) \in Nat /\ \A k \in 1..Len(File.data) : File.data[k].v \in Nat
  BY <1>2, TextsOf
<1>4. written \in Nat /\ now \in Nat
  BY Bounds DEF WorldOK
<1>5. Size(File) = Len(File.data)
  BY DEF Size
<1> QED  BY <1>1, <1>2, <1>3, <1>4, <1>5, Bounds

\* A write at the places `at`.
LEMMA WriteStores ==
    ASSUME PassOK(pass), NEW data \in Seq(Rec), Len(data) <= MaxLen,
           NEW ino \in Inodes, NEW mtime \in {File.mtime, now}, NEW at,
           Writes(data, ino, mtime, at),
           \A k \in 1..Len(data) :
              Keeps(data, k) \/ (k \in at /\ written' = written + 1 /\ data[k].v = written + 1),
           at = {} \/ written' = written + 1,
           ino = path \/ ino # pass.ino \/ pass.mem,
           written' \in {written, written + 1}, written' <= MaxWrites, rewrites' \in 0..MaxRewrites
    PROVE  Stored(data, ino, mtime)
<1> DEFINE m == pass.missed \cup {written + 1 : k \in {i \in at : Blind(i, ino, mtime)}}
<1>1. pass' = [pass EXCEPT !.missed = m]
  BY DEF Writes
<1>2. \A k \in at : Blind(k, ino, mtime) => written + 1 \in m
  OBVIOUS
<1>3. pass.missed \subseteq m /\ m \subseteq pass.missed \cup {written'}
  OBVIOUS
<1> HIDE DEF m
<1>4. pass'.missed = m
  BY <1>1 DEF PassOK, Shaped
<1>5. \A k \in 1..Len(data) : Keeps(data, k) \/ Wrote(data, k, ino, mtime)
  BY <1>2, <1>4 DEF Wrote
<1>6. /\ files' = [files EXCEPT ![ino] = [data |-> data, mtime |-> mtime, ctime |-> now]]
      /\ path' = ino /\ UNCHANGED <<now, rows, doc, check, unseen>>
  BY DEF Writes
<1> QED  BY <1>1, <1>3, <1>4, <1>5, <1>6 DEF Stored

LEMMA ProviderStores ==
    ASSUME WorldOK, PassOK(pass), Provider
    PROVE  \E data, ino, mtime : Stored(data, ino, mtime)
<1> DEFINE d == File.data
           L == Len(File.data)
<1>1. /\ d \in Seq(Rec) /\ Size(File) = L /\ L \in 0..MaxLen /\ L \in Nat
      /\ written \in Nat /\ now \in Nat /\ path \in Inodes /\ rewrites \in Nat
      /\ rewrites <= MaxRewrites /\ written <= MaxWrites
  <2>1. d \in Seq(Rec) /\ Size(File) = L /\ L \in 0..MaxLen
    BY FileTyped
  <2>2. /\ now \in Nat /\ path \in Inodes /\ written \in 1..MaxWrites
        /\ rewrites \in 0..MaxRewrites
    BY Numbers DEF WorldOK
  <2> QED  BY <2>1, <2>2, Bounds
<1>2. \A fin \in BOOLEAN : Record(fin) \in Rec /\ Record(fin).v = written + 1
  BY <1>1 DEF Record, Rec
<1> HIDE DEF L
<1>3. ASSUME NEW fin \in BOOLEAN, Append1(fin)
      PROVE  \E data, ino, mtime : Stored(data, ino, mtime)
  <2> DEFINE e == Record(fin)
             data == Append(d, e)
  <2>1. e \in Rec /\ e.v = written + 1
    BY <1>2
  <2>2. /\ Writes(data, path, now, {L + 1})
        /\ written' = written + 1 /\ written < MaxWrites /\ rewrites' = rewrites /\ L < MaxLen
    BY <1>3, <1>1 DEF Append1
  <2> HIDE DEF e
  <2>3. data \in Seq(Rec) /\ Len(data) = L + 1 /\ data[L + 1] = e /\ \A k \in 1..L : data[k] = d[k]
    BY <1>1, <2>1 DEF L
  <2> HIDE DEF data
  <2>4. \A k \in 1..Len(data) :
           Keeps(data, k) \/ (k \in {L + 1} /\ written' = written + 1 /\ data[k].v = written + 1)
    BY <1>1, <2>1, <2>2, <2>3 DEF Keeps
  <2>5. Len(data) <= MaxLen /\ written' \in {written, written + 1} /\ written' <= MaxWrites
        /\ rewrites' \in 0..MaxRewrites
    BY <1>1, <2>2, <2>3, Bounds
  <2>6. Stored(data, path, now)
    BY <1>1, <2>2, <2>3, <2>4, <2>5, WriteStores
  <2> QED  BY <2>6
<1>4. ASSUME NEW i \in 1..MaxLen, Rewrite(i)
      PROVE  \E data, ino, mtime : Stored(data, ino, mtime)
  <2> DEFINE e == Record(TRUE)
             data == [d EXCEPT ![i] = e]
  <2>1. e \in Rec /\ e.v = written + 1
    BY <1>2
  <2>2. /\ written' = written + 1 /\ written < MaxWrites /\ rewrites' = rewrites + 1
        /\ rewrites < MaxRewrites /\ i \in 1..L
    BY <1>4, <1>1 DEF Rewrite
  <2>3. PICK mtime \in {File.mtime, now} : Writes(data, path, mtime, {i})
    BY <1>4 DEF Rewrite
  <2> HIDE DEF e
  <2>4. data \in Seq(Rec) /\ Len(data) = L /\ data[i] = e /\ \A k \in 1..L : k # i => data[k] = d[k]
    BY <1>1, <2>1, <2>2 DEF L
  <2> HIDE DEF data
  <2>5. \A k \in 1..Len(data) :
           Keeps(data, k) \/ (k \in {i} /\ written' = written + 1 /\ data[k].v = written + 1)
    BY <1>1, <2>1, <2>2, <2>4 DEF Keeps
  <2>6. Len(data) <= MaxLen /\ written' \in {written, written + 1} /\ written' <= MaxWrites
        /\ rewrites' \in 0..MaxRewrites
    BY <1>1, <2>2, <2>4, Bounds
  <2>7. Stored(data, path, mtime)
    BY <1>1, <2>2, <2>3, <2>4, <2>5, <2>6, WriteStores
  <2> QED  BY <2>7
<1>5. ASSUME NEW n \in 0..MaxLen, Truncate(n)
      PROVE  \E data, ino, mtime : Stored(data, ino, mtime)
  <2> DEFINE data == SubSeq(d, 1, n)
  <2>1. /\ written' = written /\ rewrites' = rewrites + 1 /\ rewrites < MaxRewrites
        /\ n \in 0..(L - 1) /\ Writes(data, path, now, {})
    BY <1>5, <1>1 DEF Truncate
  <2>2. data \in Seq(Rec) /\ Len(data) = n /\ \A k \in 1..n : data[k] = d[k]
    <3>1. 1 \in 1..(Len(d) + 1) /\ n \in (1 - 1)..Len(d)
      BY <1>1, <2>1 DEF L
    <3>2. /\ Len(data) = n - 1 + 1 /\ data \in Seq(Rec)
          /\ \A k \in 1..(n - 1 + 1) : data[k] = d[1 + k - 1]
      BY <3>1, <1>1, Piece
    <3> QED  BY <3>2, <2>1
  <2> HIDE DEF data
  <2>3. \A k \in 1..Len(data) : Keeps(data, k)
    BY <1>1, <2>1, <2>2 DEF Keeps
  <2>4. Len(data) <= MaxLen /\ written' \in {written, written + 1} /\ written' <= MaxWrites
        /\ rewrites' \in 0..MaxRewrites
    BY <1>1, <2>1, <2>2, Bounds
  <2>5. Stored(data, path, now)
    BY <1>1, <2>1, <2>2, <2>3, <2>4, WriteStores
  <2> QED  BY <2>5
<1>6. ASSUME NEW n \in 0..MaxLen, NEW ino \in Inodes, Replace(n, ino)
      PROVE  \E data, i, mtime : Stored(data, i, mtime)
  <2> DEFINE e == Record(TRUE)
             data == Append(SubSeq(d, 1, n), e)
  <2>1. e \in Rec /\ e.v = written + 1
    BY <1>2
  <2>2. /\ written' = written + 1 /\ written < MaxWrites /\ rewrites' = rewrites + 1
        /\ rewrites < MaxRewrites /\ (ino # pass.ino \/ pass.mem)
        /\ n \in 0..Min({L, MaxLen - 1})
    BY <1>6, <1>1 DEF Replace
  <2>3. PICK mtime \in {File.mtime, now} : Writes(data, ino, mtime, {n + 1})
    BY <1>6 DEF Replace
  <2> HIDE DEF e
  <2>4. n <= L /\ n <= MaxLen - 1
    <3>1. {L, MaxLen - 1} \in SUBSET Nat /\ {L, MaxLen - 1} # {}
      BY <1>1, Bounds
    <3>2. Min({L, MaxLen - 1}) \in Nat /\ Min({L, MaxLen - 1}) <= L /\ Min({L, MaxLen - 1}) <= MaxLen - 1
      BY <3>1, MinIsLeast
    <3> QED  BY <2>2, <3>2, <1>1, Bounds
  <2>5. /\ data \in Seq(Rec) /\ Len(data) = n + 1 /\ data[n + 1] = e
        /\ \A k \in 1..n : data[k] = d[k]
    <3>1. n \in 0..Len(d)
      BY <1>1, <2>4 DEF L
    <3> QED  BY <3>1, <2>1, <1>1, AppendedTo
  <2> HIDE DEF data
  <2>6. \A k \in 1..Len(data) :
           Keeps(data, k) \/ (k \in {n + 1} /\ written' = written + 1 /\ data[k].v = written + 1)
    BY <1>1, <2>1, <2>2, <2>4, <2>5 DEF Keeps
  <2>7. Len(data) <= MaxLen /\ written' \in {written, written + 1} /\ written' <= MaxWrites
        /\ rewrites' \in 0..MaxRewrites
    BY <1>1, <2>2, <2>4, <2>5, Bounds
  <2>8. Stored(data, ino, mtime)
    BY <1>1, <2>2, <2>3, <2>5, <2>6, <2>7, WriteStores
  <2> QED  BY <2>8
<1> QED  BY <1>3, <1>4, <1>5, <1>6 DEF Provider
-----------------------------------------------------------------------------
(* The types are kept.                                                     *)

\* Time passes and records are written.
Later ==
    /\ now \in Nat /\ now' \in Nat /\ now <= now' /\ 1 <= now
    /\ written \in Nat /\ written' \in Nat /\ written <= written'

\* A digest is typed, and what is typed stays so as time passes.
LEMMA DigestTyped ==
    ASSUME NEW data, DataOK(data), written \in Nat, NEW n \in 0..Len(data)
    PROVE  DigestOK(Digest(data, n), n)
<1>1. data \in Seq(Rec) /\ Len(data) <= MaxLen /\ \A k \in 1..Len(data) : data[k].v <= written
  BY DEF DataOK
<1>2. Len(data) \in Nat /\ \A k \in 1..Len(data) : data[k].v \in Nat
  BY <1>1, TextsOf
<1>3. n <= MaxLen
  BY <1>1, <1>2, Bounds
<1>4. Digest(data, n)[1] = n /\ \A k \in 1..n : TextAt(Digest(data, n), k) = data[k].v
  BY <1>1, <1>3, DigestReads
<1>5. \A k \in 1..n : data[k].v \in 0..written
  BY <1>1, <1>2
<1> QED  BY <1>4, <1>5 DEF DigestOK

LEMMA DigestLasts ==
    ASSUME NEW h, NEW n \in Nat, DigestOK(h, n), Later
    PROVE  DigestOK(h, n)'
BY SMTT(30) DEF DigestOK, Later, TextAt

LEMMA DocLasts ==
    ASSUME NEW d, DocOK(d), Later
    PROVE  DocOK(d)'
<1>1. d.file # None => DigestOK(d.file.hash, d.file.offset)'
  <2>1. ASSUME d.file # None PROVE DigestOK(d.file.hash, d.file.offset)'
    <3>1. d.file.offset \in Nat /\ DigestOK(d.file.hash, d.file.offset)
      BY <2>1 DEF DocOK, CursorOK
    <3> QED  BY <3>1, DigestLasts
  <2> QED  BY <2>1
<1>2. CursorOK(d.file)'
  BY <1>1, SMT DEF DocOK, CursorOK, Later
<1>3. SettledOK(d.settled)'
  BY DEF DocOK, SettledOK, Later
<1> QED  BY <1>2, <1>3 DEF DocOK

LEMMA DataLasts ==
    ASSUME NEW data, DataOK(data), Later
    PROVE  DataOK(data)'
<1>1. data \in Seq(Rec) /\ Len(data) <= MaxLen /\ \A k \in 1..Len(data) : data[k].v <= written
  BY DEF DataOK
<1>2. \A k \in 1..Len(data) : data[k].v \in Nat
  BY <1>1, TextsOf
<1>3. \A k \in 1..Len(data) : data[k].v <= written'
  BY <1>1, <1>2 DEF Later
<1> QED  BY <1>1, <1>3 DEF DataOK

LEMMA FileLasts ==
    ASSUME NEW f, FileOK(f), Later
    PROVE  FileOK(f)'
<1>1. DataOK(f.data)'
  BY DataLasts DEF FileOK
<1> QED  BY <1>1 DEF FileOK, Later


LEMMA PassLasts ==
    ASSUME NEW p, PassOK(p), Later
    PROVE  PassOK(p)'
<1>1. DocOK(p.saved)' /\ DataOK(p.bytes)'
  BY DocLasts, DataLasts DEF PassOK
<1>2. HeldOK(p)'
  BY DEF PassOK, HeldOK, Later, Hold, Windowed
<1>3. Windowed(p) => WindowOK(p)'
  <2> SUFFICES ASSUME Windowed(p) PROVE WindowOK(p)'
    OBVIOUS
  <2>1. WindowOK(p) /\ p.size \in Nat
    BY Bounds DEF PassOK
  <2>2. DigestOK(p.window, p.size)'
    BY <2>1, DigestLasts DEF WindowOK
  <2> QED  BY <2>1, <2>2 DEF WindowOK, Later
<1>4. (p.pc = "opened" => p.pos <= p.size /\ p.since \in 1..now)'
  BY DEF PassOK, Later
<1>5. (p.pc \in {"window", "prefix"} =>
          p.newsize \in 0..MaxLen /\ p.newmtime \in 1..now /\ Point(p) <= p.newsize)'
  BY DEF PassOK, Later, Point
<1> QED  BY <1>1, <1>2, <1>3, <1>4, <1>5 DEF PassOK, Shaped, Windowed

\* The document, the pass and the check a step leaves alone, or replaces.
LEMMA DocIs ==
    ASSUME NEW d, DocOK(d), Later, doc' = d
    PROVE  DocOK(doc)'
<1>1. DocOK(d)'
  BY DocLasts
<1> QED  BY <1>1 DEF DocOK, CursorOK, SettledOK, DigestOK

LEMMA PassIs ==
    ASSUME NEW p, PassOK(p), Later, pass' = p
    PROVE  PassOK(pass)'
<1>1. PassOK(p)'
  BY PassLasts
<1> QED
  BY <1>1 DEF PassOK, Shaped, HeldOK, WindowOK, Windowed, Point, DocOK, CursorOK, SettledOK, DigestOK, DataOK

LEMMA CheckKept ==
    ASSUME CheckOK, Later, check' = check
    PROVE  CheckOK'
<1>1. PICK c : c = check
  OBVIOUS
<1>2. DocOK(c.doc)'
  <2>1. DocOK(c.doc)
    BY <1>1 DEF CheckOK
  <2> QED  BY <2>1, DocLasts
<1>3. check' = c
  BY <1>1
<1>4. DocOK(check.doc)'
  BY <1>2, <1>3 DEF DocOK, CursorOK, SettledOK, DigestOK
<1> QED  BY <1>4 DEF CheckOK, Later

LEMMA DocKept ==
    ASSUME DocOK(doc), Later, doc' = doc
    PROVE  DocOK(doc)'
<1>1. PICK d : d = doc
  OBVIOUS
<1> QED  BY <1>1, DocIs

\* No document and no pass.
LEMMA NothingTyped ==
    ASSUME now \in Nat, written \in Nat
    PROVE  DocOK(NoDoc) /\ PassOK(NoPass) /\ NoPass.missed = {}
<1>1. DocOK(NoDoc)
  BY DEF DocOK, NoDoc, CursorOK, SettledOK
<1>2. DataOK(<<>>)
  BY Bounds DEF DataOK
<1> QED  BY <1>1, <1>2, Bounds DEF PassOK, Shaped, NoPass, HeldOK, Windowed

\* The check that ends.
LEMMA CheckEnds ==
    ASSUME NEW pc \in {"idle", "changed"}, now' \in Nat, check' = [NoCheck EXCEPT !.pc = pc]
    PROVE  CheckOK'
<1>1. DocOK(NoDoc)'
  BY DEF DocOK, NoDoc, CursorOK, SettledOK
<1> QED  BY <1>1 DEF CheckOK, NoCheck

\* The world a step leaves alone.
LEMMA WorldKept ==
    ASSUME WorldOK, UNCHANGED world, rows' \in [1..MaxLen -> 0..written]
    PROVE  /\ WorldOK' /\ Later
           /\ now' = now /\ files' = files /\ path' = path /\ written' = written
<1>1. now' = now /\ files' = files /\ path' = path /\ written' = written /\ rewrites' = rewrites
  BY DEF world
<1>2. Later
  BY <1>1, Bounds DEF WorldOK, Later
<1>3. \A i \in Inodes : FileOK(files[i])'
  BY <1>1 DEF WorldOK, FileOK, DataOK
<1> QED  BY <1>1, <1>2, <1>3 DEF WorldOK

\* A step of a pass, which leaves the world and the check alone.
LEMMA PassSteps ==
    ASSUME Typed, UNCHANGED world, rows' \in [1..MaxLen -> 0..written],
           NEW p, pass' = p, PassOK(p), p.missed \subseteq 1..written,
           NEW d, doc' = d, DocOK(d), check' = check, unseen' \subseteq 1..written
    PROVE  Typed' /\ Later
<1>1. WorldOK' /\ Later /\ written' = written
  BY WorldKept DEF Typed
<1>2. DocOK(doc)' /\ PassOK(pass)' /\ CheckOK'
  BY <1>1, DocIs, PassIs, CheckKept DEF Typed
<1> QED  BY <1>1, <1>2 DEF Typed

\* A step of the check, which leaves the world and the pass alone.
LEMMA CheckSteps ==
    ASSUME Typed, UNCHANGED <<world, rows, pass, unseen>>, NEW d, doc' = d, DocOK(d), CheckOK'
    PROVE  Typed' /\ Later
<1>1. rows' = rows /\ pass' = pass /\ unseen' = unseen /\ UNCHANGED world
  OBVIOUS
<1>2. WorldOK' /\ Later /\ written' = written
  BY <1>1, WorldKept DEF Typed, WorldOK
<1>3. PICK p : p = pass
  OBVIOUS
<1>4. PassOK(pass)'
  BY <1>1, <1>2, <1>3, PassIs DEF Typed
<1>5. DocOK(doc)'
  BY <1>2, DocIs
<1> QED  BY <1>1, <1>2, <1>4, <1>5 DEF Typed

LEMMA TypedInit == Init => Typed
<1> SUFFICES ASSUME Init PROVE Typed
  OBVIOUS
<1>1. path \in Inodes
  BY SomeInode DEF Init
<1>2. now = 1 /\ written = 1 /\ rewrites = 0 /\ doc = NoDoc /\ pass = NoPass /\ check = NoCheck
      /\ rows = [i \in 1..MaxLen |-> 0] /\ unseen = {}
  BY DEF Init
<1>3. \A i \in Inodes : FileOK(files[i])
  <2> SUFFICES ASSUME NEW i \in Inodes PROVE FileOK(files[i])
    OBVIOUS
  <2> DEFINE r == [v |-> 1, fin |-> TRUE]
  <2>1. r \in Rec /\ r.v = 1
    BY DEF Rec
  <2>2. <<r>> \in Seq(Rec) /\ Len(<<r>>) = 1 /\ <<r>>[1] = r
    BY <2>1
  <2>3. DataOK(<<r>>) /\ DataOK(<<>>)
    <3>1. \A k \in 1..1 : k = 1
      OBVIOUS
    <3>2. DataOK(<<>>)
      BY Bounds DEF DataOK
    <3> HIDE DEF r
    <3>3. \A k \in 1..Len(<<r>>) : <<r>>[k].v <= written
      BY <2>1, <2>2, <3>1, <1>2
    <3> QED  BY <2>2, <3>2, <3>3, Bounds DEF DataOK
  <2>4. files[i] = [data |-> IF i = path THEN <<r>> ELSE <<>>, mtime |-> 1, ctime |-> 1]
    BY DEF Init
  <2> HIDE DEF r
  <2> QED  BY <2>3, <2>4, <1>2 DEF FileOK
<1>4. files = [i \in Inodes |-> files[i]]
  BY DEF Init
<1>5. DocOK(NoDoc) /\ PassOK(NoPass) /\ NoPass.missed = {}
  BY <1>2, NothingTyped
<1>6. CheckOK
  BY <1>2, <1>5 DEF CheckOK, NoCheck
<1>7. WorldOK
  BY <1>1, <1>2, <1>3, <1>4, Bounds DEF WorldOK
<1> QED  BY <1>2, <1>5, <1>6, <1>7 DEF Typed

LEMMA TypedProvider ==
    ASSUME Typed, NEW data, NEW ino, NEW mtime, Stored(data, ino, mtime)
    PROVE  Typed' /\ Later
<1>1. /\ data \in Seq(Rec) /\ Len(data) <= MaxLen /\ ino \in Inodes /\ mtime \in {File.mtime, now}
      /\ files' = [files EXCEPT ![ino] = [data |-> data, mtime |-> mtime, ctime |-> now]]
      /\ path' = ino /\ written' \in {written, written + 1} /\ written' <= MaxWrites
      /\ rewrites' \in 0..MaxRewrites /\ now' = now /\ rows' = rows /\ doc' = doc
      /\ check' = check /\ unseen' = unseen
  BY DEF Stored
<1>2. WorldOK /\ written \in Nat /\ now \in Nat /\ 1 <= now /\ written >= 1
      /\ now \in 1..MaxClock /\ rows \in [1..MaxLen -> 0..written]
  BY Bounds DEF Typed, WorldOK
<1>3. Later
  BY <1>1, <1>2 DEF Later
<1>4. \A k \in 1..Len(data) : data[k].v \in Nat /\ data[k].v <= written'
  <2> SUFFICES ASSUME NEW k \in 1..Len(data) PROVE data[k].v \in Nat /\ data[k].v <= written'
    OBVIOUS
  <2>1. data[k].v \in Nat /\ k \in Nat /\ k >= 1
    BY <1>1, TextsOf
  <2>2. Keeps(data, k) \/ (written' = written + 1 /\ data[k].v = written + 1)
    BY DEF Stored, Wrote
  <2>3. CASE Keeps(data, k)
    <3>1. k \in 1..Size(File) /\ data[k].v = File.data[k].v
      BY <2>1, <2>3, <1>2, FileTyped, Bounds DEF Keeps
    <3>2. File.data[k].v <= written
      BY <3>1, <1>2, FileTyped
    <3> QED  BY <3>1, <3>2, <2>1, <1>3 DEF Later
  <2> QED  BY <2>1, <2>2, <2>3, <1>2
<1>5. DataOK(data)'
  BY <1>1, <1>4 DEF DataOK
<1>6. File.mtime \in Nat /\ 1 <= File.mtime /\ File.mtime <= now
  <2>1. FileOK(File)
    BY <1>2, FileTyped
  <2> QED  BY <2>1, <1>2 DEF FileOK
<1>7. \A i \in Inodes : FileOK(files[i])'
  <2> SUFFICES ASSUME NEW i \in Inodes PROVE FileOK(files[i])'
    OBVIOUS
  <2>1. files = [j \in Inodes |-> files[j]]
    BY <1>2 DEF WorldOK
  <2>2. CASE i = ino
    <3>1. files'[i] = [data |-> data, mtime |-> mtime, ctime |-> now]
      BY <1>1, <2>1, <2>2
    <3>2. PICK f : f = files'[i]
      OBVIOUS
    <3>3. f.data = data /\ f.mtime = mtime /\ f.ctime = now
          /\ f = [data |-> f.data, mtime |-> f.mtime, ctime |-> f.ctime]
      BY <3>1, <3>2
    <3>4. FileOK(f)'
      BY <3>3, <1>1, <1>2, <1>5, <1>6 DEF FileOK
    <3> QED  BY <3>2, <3>4 DEF FileOK, DataOK
  <2>3. CASE i # ino
    <3>1. PICK f : f = files[i]
      OBVIOUS
    <3>2. FileOK(f)'
      <4>1. FileOK(f)
        BY <3>1, <1>2 DEF WorldOK
      <4> QED  BY <4>1, <1>3, FileLasts
    <3>3. files'[i] = f
      BY <1>1, <2>1, <2>3, <3>1
    <3> QED  BY <3>2, <3>3 DEF FileOK, DataOK
  <2> QED  BY <2>2, <2>3
<1>8. WorldOK'
  <2>1. rows' \in [1..MaxLen -> 0..written']
    BY <1>1, <1>2
  <2>2. files' = [i \in Inodes |-> files'[i]]
    BY <1>1, <1>2 DEF WorldOK
  <2>3. written' \in 1..MaxWrites
    BY <1>1, <1>2, Bounds
  <2> QED  BY <1>1, <1>2, <1>7, <2>1, <2>2, <2>3 DEF WorldOK
<1>9. PassOK(pass)'
  <2>1. PICK p : p = pass'
    OBVIOUS
  <2>2. p = [pass EXCEPT !.missed = p.missed]
    BY <2>1 DEF Stored
  <2>3. PassOK(p)
    BY <2>2 DEF Typed, PassOK, Shaped, HeldOK, WindowOK, Windowed, Point
  <2> QED  BY <1>3, <2>1, <2>3, PassIs
<1>10. pass'.missed \subseteq 1..written' /\ unseen' \subseteq 1..written'
  <2>1. pass'.missed \subseteq pass.missed \cup {written'}
    BY DEF Stored
  <2>2. pass.missed \subseteq 1..written /\ unseen \subseteq 1..written
    BY DEF Typed
  <2>3. 1..written \subseteq 1..written' /\ written' \in 1..written'
    BY <1>1, <1>2
  <2> QED  BY <1>1, <2>1, <2>2, <2>3
<1> QED  BY <1>1, <1>3, <1>8, <1>9, <1>10, DocKept, CheckKept DEF Typed

LEMMA TypedTick ==
    ASSUME Typed, Tick
    PROVE  Typed' /\ Later
<1>1. /\ now < MaxClock /\ now' = now + 1
      /\ UNCHANGED <<files, path, written, rewrites, rows, doc, pass, check, unseen>>
  BY DEF Tick
<1>2. now \in 1..MaxClock /\ now \in Nat /\ written \in Nat
  BY Bounds DEF Typed, WorldOK
<1>3. Later
  BY <1>1, <1>2 DEF Later
<1>4. \A i \in Inodes : FileOK(files[i])'
  <2> SUFFICES ASSUME NEW i \in Inodes PROVE FileOK(files[i])'
    OBVIOUS
  <2>1. PICK f : f = files[i]
    OBVIOUS
  <2>2. FileOK(f)'
    <3>1. FileOK(f)
      BY <2>1 DEF Typed, WorldOK
    <3> QED  BY <3>1, <1>3, FileLasts
  <2>3. files'[i] = f
    BY <1>1, <2>1
  <2> QED  BY <2>2, <2>3 DEF FileOK, DataOK
<1>5. WorldOK'
  BY <1>1, <1>2, <1>4, Bounds, SMTT(30) DEF Typed, WorldOK
<1>6. PICK p : p = pass
  OBVIOUS
<1>7. PassOK(pass)'
  BY <1>1, <1>3, <1>6, PassIs DEF Typed
<1> QED  BY <1>1, <1>3, <1>5, <1>7, DocKept, CheckKept DEF Typed

\* What the pass reads.
LEMMA ReadingTyped ==
    ASSUME Typed, pass.pc # "idle"
    PROVE  /\ DataOK(Reading) /\ Reading \in Seq(Rec) /\ Len(Reading) \in 0..MaxLen
           /\ \A k \in 1..Len(Reading) : Reading[k].v \in Nat /\ Reading[k].v <= written
<1>1. (pass.mem \/ pass.ino \in Inodes) /\ pass.mem \in BOOLEAN /\ DataOK(pass.bytes)
  BY DEF Typed, PassOK
<1>2. ~ pass.mem => DataOK(files[pass.ino].data)
  BY <1>1 DEF Typed, WorldOK, FileOK
<1>3. DataOK(Reading)
  BY <1>1, <1>2 DEF Reading
<1> QED  BY <1>3, TextsOf, Bounds DEF DataOK

\* The fields of a pass that streams the path's file.
StreamsFrom(p, by, saved) ==
    /\ p.pc = "statted" /\ p.by = by /\ p.saved = saved /\ p.ino = path
    /\ p.mem \in BOOLEAN /\ ~ p.mem /\ p.bytes = <<>> /\ p.pos = 0 /\ p.size = Size(File)
    /\ p.mtime = File.mtime /\ p.ctime = File.ctime /\ p.held = None
    /\ p.moved \in BOOLEAN /\ p.missed = {} /\ Shaped(p)

LEMMA StreamingIs ==
    ASSUME NEW by, NEW saved, NEW p, p = Streaming(by, saved)
    PROVE  StreamsFrom(p, by, saved)
BY DEF StreamsFrom, Streaming, NoPass, Shaped

LEMMA StreamingTyped ==
    ASSUME Typed, NEW by, NEW saved, DocOK(saved), NEW p, p = Streaming(by, saved)
    PROVE  PassOK(p) /\ p.missed = {}
<1>1. StreamsFrom(p, by, saved)
  BY StreamingIs
<1>2. Size(File) \in 0..MaxLen /\ FileOK(File) /\ path \in Inodes
  BY FileTyped DEF Typed, WorldOK
<1>3. DataOK(<<>>)
  BY Bounds DEF DataOK
<1>4. p.mtime \in Nat /\ p.ctime \in Nat
  BY <1>1, <1>2 DEF FileOK, StreamsFrom
<1> QED  BY <1>1, <1>2, <1>3, <1>4, Bounds DEF StreamsFrom, PassOK, HeldOK, Windowed

\* The pass that opens the file.
LEMMA TypedOpen ==
    ASSUME Typed, NEW mem \in BOOLEAN, NEW by, Open(mem, by)
    PROVE  WorldOK' /\ Later /\ DocOK(doc)' /\ PassOK(pass)'
           /\ unseen' \subseteq 1..written' /\ pass'.missed \subseteq 1..written'
<1>1. rows' = rows /\ doc' = doc /\ unseen' = unseen /\ UNCHANGED world
  BY DEF Open
<1>2. WorldOK' /\ Later /\ written' = written
  BY <1>1, WorldKept DEF Typed, WorldOK
<1>3. PICK p : p = pass'
  OBVIOUS
<1>4. DocOK(doc) /\ DataOK(File.data)
  BY FileTyped DEF Typed
<1>5. PassOK(p) /\ p.missed = {}
  <2>1. CASE mem
    <3>1. p = [NoPass EXCEPT !.pc = "copied", !.by = by, !.saved = doc, !.mem = TRUE,
                             !.bytes = File.data]
      BY <1>3, <2>1 DEF Open
    <3>2. /\ p.pc = "copied" /\ p.saved = doc /\ p.bytes = File.data
          /\ p.pos = 0 /\ p.size = 0 /\ p.mtime = 0 /\ p.ctime = 0 /\ p.held = None
          /\ p.missed = {} /\ Shaped(p)
      BY <3>1 DEF NoPass, Shaped
    <3>3. p.mem \in BOOLEAN /\ p.mem /\ p.moved \in BOOLEAN
      BY <3>1 DEF NoPass
    <3> QED  BY <3>2, <3>3, <1>4, Bounds DEF PassOK, HeldOK, Windowed
  <2>2. CASE ~ mem
    <3>1. p = Streaming(by, doc)
      BY <1>3, <2>2 DEF Open
    <3> QED  BY <3>1, <1>4, StreamingTyped
  <2> QED  BY <2>1, <2>2
<1>6. PassOK(pass)'
  BY <1>2, <1>3, <1>5, PassIs
<1> QED  BY <1>1, <1>2, <1>3, <1>4, <1>5, <1>6, DocKept DEF Typed

\* Where a pass resumes.
ResumesAt(p, c, s, data) ==
    /\ p = [pass EXCEPT !.pos = p.pos, !.since = p.since, !.hold = p.hold]
    /\ p.since \in 1..now
    /\ SavedValid(c, s, data) =>
          /\ p.pos = c.offset /\ c # None /\ c.offset \in 0..MaxLen /\ c.offset <= s.size
          /\ c.offset <= Len(data) /\ Digest(data, c.offset) = c.hash
    /\ ~ SavedValid(c, s, data) => p.pos = 0

LEMMA ResumesWithin ==
    ASSUME Typed, NEW s, NEW data, NEW p, p = Resumed(s, data), NEW c, c = pass.saved.file
    PROVE  ResumesAt(p, c, s, data)
<1>1. p = [pass EXCEPT !.pos = IF SavedValid(c, s, data) THEN c.offset ELSE 0,
                       !.since = UnchangedSince(c, s, data), !.hold = ~ Quiesced(c, s, data)]
  BY DEF Resumed
<1>2. /\ p.pos = (IF SavedValid(c, s, data) THEN c.offset ELSE 0)
      /\ p.since = UnchangedSince(c, s, data)
      /\ p = [pass EXCEPT !.pos = p.pos, !.since = p.since, !.hold = p.hold]
  BY <1>1 DEF Typed, PassOK, Shaped
<1>3. CursorOK(c) /\ now \in Nat /\ 1 <= now
  BY Numbers DEF Typed, PassOK, DocOK
<1>4. p.since \in 1..now
  <2>1. CASE Quiet(c, s, data) /\ c.since > 0
    <3>1. c # None
      BY <2>1 DEF Quiet, SavedValid
    <3> QED  BY <2>1, <3>1, <1>2, <1>3 DEF UnchangedSince, CursorOK
  <2>2. CASE ~ (Quiet(c, s, data) /\ c.since > 0)
    BY <2>2, <1>2, <1>3 DEF UnchangedSince
  <2> QED  BY <2>1, <2>2
<1>5. SavedValid(c, s, data) =>
        /\ c # None /\ c.offset \in 0..MaxLen /\ c.offset <= s.size
        /\ c.offset <= Len(data) /\ Digest(data, c.offset) = c.hash
  <2> SUFFICES ASSUME SavedValid(c, s, data)
               PROVE  /\ c # None /\ c.offset \in 0..MaxLen /\ c.offset <= s.size
                      /\ c.offset <= Len(data) /\ Digest(data, c.offset) = c.hash
    OBVIOUS
  <2>1. c # None /\ s.size >= c.offset /\ c.offset <= Len(data) /\ Digest(data, c.offset) = c.hash
    BY DEF SavedValid, StatAllows, Matches
  <2>2. c.offset \in 0..MaxLen
    BY <2>1, <1>3, Bounds DEF CursorOK
  <2> QED  BY <2>1, <2>2
<1> QED  BY <1>2, <1>4, <1>5 DEF ResumesAt

LEMMA TypedOpenSaved ==
    ASSUME Typed, OpenSaved
    PROVE  Typed' /\ Later
<1>1. PICK c, data, q : c = pass.saved.file /\ data = files[pass.ino].data /\ q = Resumed(pass, data)
  OBVIOUS
<1>2. /\ pass.pc = "statted" /\ UNCHANGED world /\ rows' = rows /\ doc' = doc /\ check' = check
      /\ unseen' = unseen
      /\ pass' = IF SavedValid(c, pass, data) /\ c.offset = pass.size
                 THEN [q EXCEPT !.pc = "walk", !.window = c.hash]
                 ELSE [q EXCEPT !.pc = "opened"]
  BY <1>1 DEF OpenSaved
<1>3. /\ q = [pass EXCEPT !.pos = q.pos, !.since = q.since, !.hold = q.hold] /\ q.since \in 1..now
      /\ SavedValid(c, pass, data) =>
            q.pos = c.offset /\ c # None /\ c.offset \in 0..MaxLen /\ c.offset <= pass.size
      /\ ~ SavedValid(c, pass, data) => q.pos = 0
  <2>1. ResumesAt(q, c, pass, data)
    <3>1. PICK s : s = pass
      OBVIOUS
    <3>2. ResumesAt(q, c, s, data)
      BY <1>1, <3>1, ResumesWithin
    <3> QED  BY <3>1, <3>2
  <2> QED  BY <2>1 DEF ResumesAt
<1>4. PassOK(pass) /\ pass.ino \in Inodes /\ ~ pass.mem /\ pass.held = None
      /\ pass.size \in 0..MaxLen
  BY <1>2 DEF Typed, PassOK, HeldOK, Windowed
<1>5. q.pos \in 0..MaxLen /\ q.pos <= pass.size
  BY <1>3, <1>4, Bounds
<1>6. PICK p : p = pass'
  OBVIOUS
<1>7. PassOK(p) /\ p.missed = pass.missed
  <2>1. CASE SavedValid(c, pass, data) /\ c.offset = pass.size
    <3>1. DigestOK(c.hash, c.offset)
      BY <1>1, <1>3, <1>4, <2>1 DEF PassOK, DocOK, CursorOK
    <3>2. /\ p.pc = "walk" /\ p.window = c.hash /\ p.pos = q.pos /\ p.since = q.since
          /\ p.saved = pass.saved /\ p.ino = pass.ino /\ p.mem = pass.mem /\ p.bytes = pass.bytes
          /\ p.size = pass.size /\ p.mtime = pass.mtime /\ p.ctime = pass.ctime
          /\ p.held = pass.held /\ p.moved = pass.moved /\ p.missed = pass.missed
          /\ Shaped(p)
      BY <1>2, <1>3, <1>4, <1>6, <2>1 DEF PassOK, Shaped
    <3>3. WindowOK(p)
      BY <1>3, <1>4, <1>5, <2>1, <3>1, <3>2 DEF WindowOK
    <3> QED  BY <1>3, <1>4, <1>5, <3>2, <3>3 DEF PassOK, HeldOK, Windowed
  <2>2. CASE ~ (SavedValid(c, pass, data) /\ c.offset = pass.size)
    <3>1. /\ p.pc = "opened" /\ p.pos = q.pos /\ p.since = q.since
          /\ p.saved = pass.saved /\ p.ino = pass.ino /\ p.mem = pass.mem /\ p.bytes = pass.bytes
          /\ p.size = pass.size /\ p.mtime = pass.mtime /\ p.ctime = pass.ctime
          /\ p.held = pass.held /\ p.moved = pass.moved /\ p.missed = pass.missed
          /\ Shaped(p)
      BY <1>2, <1>3, <1>4, <1>6, <2>2 DEF PassOK, Shaped
    <3> QED  BY <1>3, <1>4, <1>5, <3>1 DEF PassOK, HeldOK, Windowed
  <2> QED  BY <2>1, <2>2
<1>8. PICK d : d = doc
  OBVIOUS
<1> QED  BY <1>2, <1>6, <1>7, <1>8, PassSteps DEF Typed, WorldOK

LEMMA TypedOpenWindow ==
    ASSUME Typed, OpenWindow
    PROVE  Typed' /\ Later
<1>1. PICK data : data = files[pass.ino].data
  OBVIOUS
<1>2. /\ pass.pc = "opened" /\ UNCHANGED world /\ rows' = rows /\ doc' = doc /\ check' = check
      /\ unseen' = unseen
      /\ pass' = IF Len(data) < pass.size THEN NoPass
                 ELSE [pass EXCEPT !.pc = "walk", !.window = Digest(data, pass.size),
                                   !.since = IF pass.saved.file = None THEN now ELSE @]
  BY <1>1 DEF OpenWindow
<1>3. /\ PassOK(pass) /\ pass.ino \in Inodes /\ ~ pass.mem /\ pass.held = None
      /\ pass.size \in 0..MaxLen /\ pass.pos <= pass.size /\ pass.since \in 1..now
      /\ now \in Nat /\ 1 <= now /\ written \in Nat
  BY <1>2, Numbers DEF Typed, PassOK, HeldOK, Windowed
<1>4. DataOK(data) /\ Len(data) \in 0..MaxLen
  <2>1. DataOK(data)
    BY <1>1, <1>3 DEF Typed, WorldOK, FileOK
  <2> QED  BY <2>1, TextsOf, Bounds DEF DataOK
<1>5. PICK p : p = pass'
  OBVIOUS
<1>6. PassOK(p) /\ p.missed \subseteq pass.missed
  <2>1. CASE Len(data) < pass.size
    BY <1>2, <1>3, <1>5, <2>1, NothingTyped
  <2>2. CASE ~ (Len(data) < pass.size)
    <3>1. DigestOK(Digest(data, pass.size), pass.size)
      <4>1. pass.size \in 0..Len(data)
        BY <1>3, <1>4, <2>2, Bounds
      <4> QED  BY <1>3, <1>4, <4>1, DigestTyped
    <3>2. /\ p.pc = "walk" /\ p.window = Digest(data, pass.size)
          /\ p.pos = pass.pos /\ p.since = (IF pass.saved.file = None THEN now ELSE pass.since)
          /\ p.saved = pass.saved /\ p.ino = pass.ino /\ p.mem = pass.mem /\ p.bytes = pass.bytes
          /\ p.size = pass.size /\ p.mtime = pass.mtime /\ p.ctime = pass.ctime
          /\ p.held = pass.held /\ p.moved = pass.moved /\ p.missed = pass.missed
          /\ Shaped(p)
      BY <1>2, <1>3, <1>5, <2>2 DEF PassOK, Shaped
    <3>3. p.since \in 1..now
      BY <1>3, <3>2
    <3>4. WindowOK(p)
      BY <1>3, <3>1, <3>2, <3>3 DEF WindowOK
    <3> QED  BY <1>3, <3>2, <3>4 DEF PassOK, HeldOK, Windowed
  <2> QED  BY <2>1, <2>2
<1>7. PICK d : d = doc
  OBVIOUS
<1> QED  BY <1>2, <1>5, <1>6, <1>7, PassSteps DEF Typed, WorldOK

LEMMA TypedOpenBytes ==
    ASSUME Typed, OpenBytes
    PROVE  Typed' /\ Later
<1>1. PICK s, b, n, q, c : /\ s = StatOf(path) /\ b = pass.bytes /\ n = Len(pass.bytes)
                          /\ q = Resumed(s, b) /\ c = pass.saved.file
  OBVIOUS
<1>2. /\ pass.pc = "copied" /\ UNCHANGED world /\ rows' = rows /\ doc' = doc /\ check' = check
      /\ unseen' = unseen
      /\ pass' = IF s.size # n THEN Streaming(pass.by, pass.saved)
                 ELSE [q EXCEPT !.pc = "walk", !.ino = s.ino, !.size = n, !.mtime = s.mtime,
                                !.ctime = s.ctime, !.window = Digest(b, n)]
  BY <1>1 DEF OpenBytes
<1>3. /\ q = [pass EXCEPT !.pos = q.pos, !.since = q.since, !.hold = q.hold] /\ q.since \in 1..now
      /\ SavedValid(c, s, b) => q.pos = c.offset /\ c.offset \in 0..MaxLen /\ c.offset <= Len(b)
      /\ ~ SavedValid(c, s, b) => q.pos = 0
  <2>1. ResumesAt(q, c, s, b)
    BY <1>1, ResumesWithin
  <2> QED  BY <2>1 DEF ResumesAt
<1>4. /\ PassOK(pass) /\ pass.mem /\ pass.held = None /\ DataOK(b) /\ DocOK(pass.saved)
      /\ now \in Nat /\ 1 <= now /\ written \in Nat
  BY <1>1, <1>2, Numbers DEF Typed, PassOK, HeldOK, Windowed
<1>5. n \in 0..MaxLen /\ n = Len(b)
  BY <1>1, <1>4, TextsOf, Bounds DEF DataOK
<1>6. q.pos \in 0..MaxLen /\ q.pos <= n
  BY <1>3, <1>5, Bounds
<1>7. s.ino \in Inodes /\ s.mtime \in Nat /\ s.ctime \in Nat
  <2>1. FileOK(File) /\ path \in Inodes
    BY FileTyped DEF Typed, WorldOK
  <2> QED  BY <1>1, <2>1 DEF StatOf, FileOK, File
<1>8. PICK p : p = pass'
  OBVIOUS
<1>9. PassOK(p) /\ p.missed \subseteq pass.missed
  <2>1. CASE s.size # n
    BY <1>2, <1>4, <1>8, <2>1, StreamingTyped
  <2>2. CASE s.size = n
    <3>1. DigestOK(Digest(b, n), n)
      <4>1. n \in 0..Len(b)
        BY <1>5, Bounds
      <4> QED  BY <1>4, <4>1, DigestTyped
    <3>2. /\ p.pc = "walk" /\ p.window = Digest(b, n) /\ p.pos = q.pos /\ p.since = q.since
          /\ p.saved = pass.saved /\ p.ino = s.ino /\ p.mem = pass.mem /\ p.bytes = b
          /\ p.size = n /\ p.mtime = s.mtime /\ p.ctime = s.ctime
          /\ p.held = pass.held /\ p.moved = pass.moved /\ p.missed = pass.missed
          /\ Shaped(p)
      <4>1. p = [q EXCEPT !.pc = "walk", !.ino = s.ino, !.size = n, !.mtime = s.mtime,
                          !.ctime = s.ctime, !.window = Digest(b, n)]
        BY <1>2, <1>8, <2>2
      <4>2. /\ Shaped(q) /\ q.saved = pass.saved /\ q.mem = pass.mem /\ q.bytes = b
            /\ q.held = pass.held /\ q.moved = pass.moved /\ q.missed = pass.missed
        BY <1>1, <1>3, <1>4 DEF PassOK, Shaped
      <4> QED  BY <4>1, <4>2 DEF Shaped
    <3>3. WindowOK(p)
      BY <1>3, <1>5, <1>6, <3>1, <3>2 DEF WindowOK
    <3> QED  BY <1>4, <1>5, <1>6, <1>7, <3>2, <3>3 DEF PassOK, HeldOK, Windowed
  <2> QED  BY <2>1, <2>2
<1>10. PICK d : d = doc
  OBVIOUS
<1> QED  BY <1>2, <1>8, <1>9, <1>10, PassSteps DEF Typed, WorldOK

LEMMA TypedRead ==
    ASSUME Typed, Read
    PROVE  Typed' /\ Later
<1> DEFINE at == pass.pos + 1
           r == Reading[at]
           holds == pass.hold /\ ~ r.fin
           released == Indexed(pass.held, rows)
<1>1. /\ pass.pc = "walk" /\ pass.pos < Len(Reading)
      /\ rows' = IF holds THEN released ELSE [released EXCEPT ![at] = r.v]
      /\ pass' = [pass EXCEPT !.pos = at,
                              !.held = IF holds THEN [at |-> at, v |-> r.v] ELSE None]
      /\ UNCHANGED world /\ doc' = doc /\ check' = check /\ unseen' = unseen
  BY DEF Read
<1>2. pass.pos \in Nat /\ Len(Reading) \in 0..MaxLen
      /\ \A k \in 1..Len(Reading) : Reading[k].v \in Nat /\ Reading[k].v <= written
  BY <1>1, ReadingTyped, Bounds, SMTT(30) DEF Typed, PassOK
<1>3. at \in 1..Len(Reading) /\ at \in 1..MaxLen /\ r.v \in Nat /\ r.v <= written
  <2>1. pass.pos < Len(Reading)
    BY <1>1
  <2>2. at \in 1..Len(Reading) /\ at \in 1..MaxLen
    BY <2>1, <1>2, Bounds
  <2> QED  BY <2>2, <1>2
<1>4. written \in Nat /\ rows \in [1..MaxLen -> 0..written]
  BY Bounds DEF Typed, WorldOK
<1>5. released \in [1..MaxLen -> 0..written]
  <2>1. pass.held # None => pass.held.at \in 1..MaxLen /\ pass.held.v \in 0..written
    BY <1>4 DEF Typed, PassOK, HeldOK, Hold
  <2> QED  BY <2>1, <1>4 DEF Indexed
<1> HIDE DEF released, r, holds
<1>6. rows' \in [1..MaxLen -> 0..written]
  BY <1>1, <1>3, <1>4, <1>5
<1>7. PICK p : p = pass'
  OBVIOUS
<1>8. PassOK(p) /\ p.missed = pass.missed
  <2>1. /\ p.pc = "walk" /\ p.saved = pass.saved /\ p.ino = pass.ino /\ p.mem = pass.mem
        /\ p.bytes = pass.bytes /\ p.size = pass.size /\ p.mtime = pass.mtime
        /\ p.ctime = pass.ctime /\ p.window = pass.window /\ p.since = pass.since
        /\ p.pos = at /\ p.held = (IF holds THEN [at |-> at, v |-> r.v] ELSE None)
        /\ p.moved = pass.moved /\ p.missed = pass.missed /\ Shaped(p)
    BY <1>1, <1>7 DEF Typed, PassOK, Shaped
  <2>2. /\ DocOK(pass.saved) /\ DataOK(pass.bytes) /\ pass.mem \in BOOLEAN
        /\ pass.moved \in BOOLEAN /\ pass.mtime \in Nat /\ pass.ctime \in Nat
        /\ pass.ino \in Inodes /\ pass.size \in 0..MaxLen /\ WindowOK(pass)
    BY <1>1 DEF Typed, PassOK, Windowed
  <2>3. HeldOK(p)
    BY <2>1, <1>3 DEF HeldOK, Hold, Windowed
  <2>4. pass.mem => Reading = pass.bytes
    BY DEF Reading
  <2>5. pass.mem => at <= pass.size
    BY <2>2, <2>4, <1>3, Bounds DEF WindowOK
  <2>6. WindowOK(p)
    BY <2>1, <2>2, <2>5 DEF WindowOK
  <2>7. at \in 0..MaxLen
    BY <1>3, Bounds
  <2> HIDE DEF at
  <2> QED  BY <2>1, <2>2, <2>3, <2>6, <2>7 DEF PassOK
<1>9. PICK d : d = doc
  OBVIOUS
<1> QED  BY <1>1, <1>6, <1>7, <1>8, <1>9, PassSteps DEF Typed

\* A pass that moves on to the next step of its end, with everything it has.
LEMMA PassMovesOn ==
    ASSUME PassOK(pass), Windowed(pass), NEW p, Shaped(p),
           p.pc \in {"walk", "commit", "window", "prefix"},
           p.saved = pass.saved, p.ino = pass.ino, p.mem = pass.mem, p.bytes = pass.bytes,
           p.pos = pass.pos, p.size = pass.size, p.mtime = pass.mtime, p.ctime = pass.ctime,
           p.window = pass.window, p.held = pass.held, p.moved \in BOOLEAN, p.since \in 1..now,
           p.pc \in {"window", "prefix"} =>
              p.newsize \in 0..MaxLen /\ p.newmtime \in 1..now /\ Point(pass) <= p.newsize
    PROVE  PassOK(p)
<1>1. WindowOK(p) /\ HeldOK(p) /\ Windowed(p) /\ Point(p) = Point(pass)
  BY DEF PassOK, WindowOK, HeldOK, Windowed, Point
<1>2. p.ino \in Inodes
  BY DEF PassOK, Windowed
<1> QED  BY <1>1, <1>2 DEF PassOK, Windowed

LEMMA TypedEnd ==
    ASSUME Typed, End
    PROVE  Typed' /\ Later
<1>1. /\ pass.pc = "walk" /\ pass' = [pass EXCEPT !.pc = "commit"]
      /\ UNCHANGED world /\ rows' = rows /\ doc' = doc /\ check' = check /\ unseen' = unseen
  BY DEF End
<1>2. PICK p : p = pass'
  OBVIOUS
<1>3. /\ p.pc = "commit" /\ p.saved = pass.saved /\ p.ino = pass.ino /\ p.mem = pass.mem
      /\ p.bytes = pass.bytes /\ p.pos = pass.pos /\ p.size = pass.size /\ p.mtime = pass.mtime
      /\ p.ctime = pass.ctime /\ p.window = pass.window /\ p.held = pass.held
      /\ p.moved = pass.moved /\ p.since = pass.since /\ p.missed = pass.missed /\ Shaped(p)
  BY <1>1, <1>2 DEF Typed, PassOK, Shaped
<1>4. PassOK(pass) /\ Windowed(pass) /\ pass.moved \in BOOLEAN /\ pass.since \in 1..now
  BY <1>1 DEF Typed, PassOK, Windowed, WindowOK
<1>5. PassOK(p)
  BY <1>3, <1>4, PassMovesOn
<1>6. PICK d : d = doc
  OBVIOUS
<1> QED  BY <1>1, <1>2, <1>3, <1>5, <1>6, PassSteps DEF Typed, WorldOK

LEMMA TypedAbort ==
    ASSUME Typed, Abort
    PROVE  Typed' /\ Later
<1>1. pass' = NoPass /\ UNCHANGED world /\ rows' = rows /\ doc' = doc /\ check' = check
      /\ unseen' = unseen
  BY DEF Abort
<1>2. PassOK(NoPass) /\ NoPass.missed = {}
  BY NothingTyped, Numbers DEF Typed
<1>3. PICK d : d = doc
  OBVIOUS
<1> QED  BY <1>1, <1>2, <1>3, PassSteps DEF Typed, WorldOK

\* A cursor is published at a place the pass read, with nothing held before it.
LEMMA CommitPointTyped ==
    ASSUME Typed
    PROVE  /\ CommitPoint \in 0..pass.pos /\ CommitPoint \in 0..MaxLen /\ CommitPoint = Point(pass)
           /\ pass.held # None => CommitPoint < pass.pos
<1>1. pass.pos \in 0..MaxLen /\ (pass.held # None => pass.held.at \in 1..MaxLen /\ pass.held.at = pass.pos)
  BY DEF Typed, PassOK, HeldOK, Hold
<1>2. CASE pass.held = None
  BY <1>1, <1>2, Bounds DEF CommitPoint, Point
<1>3. CASE pass.held # None
  BY <1>1, <1>3, Bounds DEF CommitPoint, Point
<1> QED  BY <1>2, <1>3

\* The file the commit looks at.
LEMMA CommitFileTyped ==
    ASSUME Typed, Windowed(pass), NEW f, f = files[CommitInode]
    PROVE  /\ CommitInode \in Inodes /\ FileOK(f) /\ DataOK(f.data) /\ f.data \in Seq(Rec)
           /\ Size(f) = Len(f.data) /\ Size(f) \in 0..MaxLen /\ CommitData = f.data
<1>1. CommitInode \in Inodes
  BY DEF Typed, PassOK, WorldOK, CommitInode, Windowed
<1>2. FileOK(f) /\ DataOK(f.data)
  BY <1>1 DEF Typed, WorldOK, FileOK
<1>3. f.data \in Seq(Rec) /\ Len(f.data) <= MaxLen
  BY <1>2 DEF DataOK
<1>4. Len(f.data) \in Nat
  BY <1>3, TextsOf
<1> QED  BY <1>1, <1>2, <1>3, <1>4, Bounds DEF Size, CommitData

\* A pass whose file was rewritten ends with the cursor it loaded.
LEMMA TypedSupersede ==
    ASSUME Typed, Supersede, UNCHANGED <<world, rows, check, unseen>>
    PROVE  Typed' /\ Later
<1>1. pass' = NoPass /\ doc' = pass.saved /\ UNCHANGED world /\ rows' = rows /\ check' = check
      /\ unseen' = unseen
  BY DEF Supersede
<1>2. PassOK(NoPass) /\ NoPass.missed = {}
  BY NothingTyped, Numbers DEF Typed
<1>3. PICK d : d = pass.saved
  OBVIOUS
<1>4. DocOK(d)
  BY <1>3 DEF Typed, PassOK
<1> QED  BY <1>1, <1>2, <1>3, <1>4, PassSteps DEF Typed, WorldOK

LEMMA TypedCommitStat ==
    ASSUME Typed, CommitStat
    PROVE  Typed' /\ Later
<1>1. PICK s : s = StatOf(CommitInode)
  OBVIOUS
<1>2. /\ pass.pc = "commit" /\ UNCHANGED <<world, rows, check, unseen>>
      /\ \/ Supersede
         \/ /\ s.size >= CommitPoint /\ doc' = doc
            /\ pass' = [pass EXCEPT !.pc = IF StatMoved(s) THEN "window" ELSE "prefix",
                                    !.moved = StatMoved(s),
                                    !.newsize = s.size, !.newmtime = s.mtime]
  BY <1>1 DEF CommitStat
<1>3. CASE Supersede
  BY <1>2, <1>3, TypedSupersede
<1>4. CASE ~ Supersede
  <2>1. PICK p : p = pass'
    OBVIOUS
  <2>2. /\ p.pc \in {"window", "prefix"} /\ p.saved = pass.saved /\ p.ino = pass.ino
        /\ p.mem = pass.mem /\ p.bytes = pass.bytes /\ p.pos = pass.pos /\ p.size = pass.size
        /\ p.mtime = pass.mtime /\ p.ctime = pass.ctime /\ p.window = pass.window
        /\ p.held = pass.held /\ p.since = pass.since
        /\ p.newsize = s.size /\ p.newmtime = s.mtime /\ p.missed = pass.missed /\ Shaped(p)
    <3>1. PICK pc, moved : /\ pc = (IF StatMoved(s) THEN "window" ELSE "prefix")
                           /\ moved = StatMoved(s)
      OBVIOUS
    <3>2. /\ pc \in {"window", "prefix"}
          /\ p = [pass EXCEPT !.pc = pc, !.moved = moved,
                              !.newsize = s.size, !.newmtime = s.mtime]
      BY <1>2, <1>4, <2>1, <3>1
    <3>3. Shaped(pass)
      BY DEF Typed, PassOK
    <3> QED  BY <3>2, <3>3 DEF Shaped
  <2>3. p.moved = StatMoved(s)
    BY <1>2, <1>4, <2>1 DEF Typed, PassOK, Shaped
  <2>4. p.moved \in BOOLEAN
    BY <2>3 DEF StatMoved
  <2>5. PassOK(pass) /\ Windowed(pass) /\ pass.since \in 1..now
    BY <1>2 DEF Typed, PassOK, Windowed, WindowOK
  <2>6. s.size \in 0..MaxLen /\ s.mtime \in 1..now
    <3>1. PICK f : f = files[CommitInode]
      OBVIOUS
    <3>2. FileOK(f) /\ Size(f) \in 0..MaxLen
      BY <2>5, <3>1, CommitFileTyped
    <3>3. now \in Nat
      BY Numbers DEF Typed
    <3> QED  BY <1>1, <3>1, <3>2, <3>3 DEF StatOf, FileOK
  <2>7. Point(pass) <= p.newsize
    BY <1>2, <1>4, <2>2, <2>6, CommitPointTyped
  <2>8. PassOK(p)
    <3> HIDE DEF Supersede
    <3> QED  BY <2>2, <2>4, <2>5, <2>6, <2>7, PassMovesOn
  <2>9. PICK d : d = doc
    OBVIOUS
  <2>10. rows' = rows /\ check' = check /\ unseen' = unseen /\ UNCHANGED world /\ doc' = doc
    BY <1>2, <1>4
  <2> QED  BY <2>1, <2>2, <2>8, <2>9, <2>10, PassSteps DEF Typed, WorldOK
<1> QED  BY <1>3, <1>4

LEMMA TypedCommitRehash ==
    ASSUME Typed, CommitRehash
    PROVE  Typed' /\ Later
<1>1. /\ pass.pc = "window" /\ UNCHANGED <<world, rows, check, unseen>>
      /\ \/ Supersede
         \/ pass' = NoPass /\ doc' = doc
         \/ pass' = [pass EXCEPT !.pc = "prefix", !.since = now] /\ doc' = doc
  BY DEF CommitRehash, CommitSince
<1>2. rows' = rows /\ check' = check /\ unseen' = unseen /\ UNCHANGED world
  BY <1>1
<1>3. now \in Nat /\ 1 <= now /\ written \in Nat
  BY Numbers DEF Typed
<1>4. PICK d : d = doc
  OBVIOUS
<1>5. CASE Supersede
  BY <1>1, <1>5, TypedSupersede
<1>6. CASE pass' = NoPass /\ doc' = doc
  <2>1. PassOK(NoPass) /\ NoPass.missed = {}
    BY <1>3, NothingTyped
  <2> QED  BY <1>2, <1>4, <1>6, <2>1, PassSteps DEF Typed, WorldOK
<1>7. CASE pass' = [pass EXCEPT !.pc = "prefix", !.since = now] /\ doc' = doc
  <2>1. PICK p : p = pass'
    OBVIOUS
  <2>2. /\ p.pc = "prefix" /\ p.saved = pass.saved /\ p.ino = pass.ino
        /\ p.mem = pass.mem /\ p.bytes = pass.bytes /\ p.pos = pass.pos /\ p.size = pass.size
        /\ p.mtime = pass.mtime /\ p.ctime = pass.ctime /\ p.window = pass.window
        /\ p.held = pass.held /\ p.since = now /\ p.moved = pass.moved
        /\ p.newsize = pass.newsize /\ p.newmtime = pass.newmtime /\ p.missed = pass.missed
        /\ Shaped(p)
    BY <1>7, <2>1 DEF Typed, PassOK, Shaped
  <2>3. /\ PassOK(pass) /\ Windowed(pass) /\ pass.moved \in BOOLEAN
        /\ pass.newsize \in 0..MaxLen /\ pass.newmtime \in 1..now /\ Point(pass) <= pass.newsize
    BY <1>1 DEF Typed, PassOK, Windowed
  <2>4. p.since \in 1..now
    BY <1>3, <2>2
  <2>5. PassOK(p)
    BY <2>2, <2>3, <2>4, PassMovesOn
  <2> QED  BY <1>2, <1>4, <1>7, <2>1, <2>2, <2>5, PassSteps DEF Typed, WorldOK
<1> QED  BY <1>1, <1>5, <1>6, <1>7

\* The digest a cursor is published with is of the records before it.
LEMMA PrefixTyped ==
    ASSUME Typed, pass.pc = "prefix", Redigests => Len(CommitData) >= CommitPoint
    PROVE  DigestOK(CommitPrefix, CommitPoint)
<1>1. PICK n : n = CommitPoint
  OBVIOUS
<1>2. n \in 0..pass.pos /\ pass.pos \in 0..MaxLen /\ n \in 0..MaxLen
  BY <1>1, CommitPointTyped DEF Typed, PassOK
<1>3. /\ Windowed(pass) /\ DigestOK(pass.window, pass.size) /\ DataOK(pass.bytes)
      /\ (pass.mem => Len(pass.bytes) = pass.size /\ pass.pos <= pass.size)
      /\ pass.size \in 0..MaxLen /\ pass.mem \in BOOLEAN /\ written \in Nat
  BY Numbers DEF Typed, PassOK, WindowOK, Windowed
<1>4. CASE n = pass.size
  <2>1. CommitPrefix = pass.window
    BY <1>1, <1>4 DEF CommitPrefix
  <2> QED  BY <1>1, <1>3, <1>4, <2>1
<1>5. CASE n # pass.size /\ Redigests
  <2>1. DataOK(CommitData) /\ n \in 0..Len(CommitData)
    <3>1. PICK f : f = files[CommitInode]
      OBVIOUS
    <3>2. DataOK(f.data) /\ Size(f) = Len(f.data) /\ Size(f) \in 0..MaxLen /\ CommitData = f.data
      BY <1>3, <3>1, CommitFileTyped
    <3>3. Len(CommitData) >= n
      BY <1>1, <1>5
    <3> QED  BY <1>2, <3>2, <3>3, Bounds
  <2>2. DigestOK(Digest(CommitData, n), n)
    BY <1>3, <2>1, DigestTyped
  <2>3. CommitPrefix = Digest(CommitData, n)
    BY <1>1, <1>5 DEF CommitPrefix
  <2> QED  BY <1>1, <2>2, <2>3
<1>6. CASE n # pass.size /\ ~ Redigests
  <2>1. pass.mem
    BY <1>1, <1>6 DEF Redigests
  <2>2. n \in 0..Len(pass.bytes)
    BY <1>2, <1>3, <2>1, Bounds
  <2>3. DigestOK(Digest(pass.bytes, n), n)
    BY <1>3, <2>2, DigestTyped
  <2>4. CommitPrefix = Digest(pass.bytes, n)
    BY <1>1, <1>6 DEF CommitPrefix
  <2> QED  BY <1>1, <2>3, <2>4
<1> QED  BY <1>4, <1>5, <1>6

LEMMA TypedCommitStore ==
    ASSUME Typed, CommitStore
    PROVE  Typed' /\ Later
<1>1. PICK s, c : s = pass.saved /\ c = Published
  OBVIOUS
<1>2. /\ pass.pc = "prefix" /\ pass' = NoPass /\ UNCHANGED world /\ rows' = rows /\ check' = check
      /\ \/ doc' = doc /\ unseen' = unseen
         \/ /\ Redigests => Len(CommitData) >= CommitPoint
            /\ doc' = [s EXCEPT !.file = c] /\ unseen' = unseen \cup pass.missed
  BY <1>1 DEF CommitStore
<1>3. PassOK(NoPass) /\ NoPass.missed = {}
  BY NothingTyped, Numbers DEF Typed
<1>4. CASE doc' = doc /\ unseen' = unseen
  <2>1. PICK d : d = doc
    OBVIOUS
  <2> QED  BY <1>2, <1>3, <1>4, <2>1, PassSteps DEF Typed, WorldOK
<1>5. CASE /\ Redigests => Len(CommitData) >= CommitPoint
           /\ doc' = [s EXCEPT !.file = c] /\ unseen' = unseen \cup pass.missed
  <2>1. DocOK(s)
    BY <1>1 DEF Typed, PassOK
  <2>2. DigestOK(CommitPrefix, CommitPoint)
    BY <1>2, <1>5, PrefixTyped
  <2>3. c.offset = CommitPoint /\ c.ino = pass.ino /\ c.mtime = pass.newmtime
        /\ c.size = pass.newsize /\ c.since = pass.since /\ c.hash = CommitPrefix
    BY <1>1 DEF Published
  <2>4. /\ pass.ino \in Inodes /\ pass.newsize \in 0..MaxLen /\ pass.newmtime \in 1..now
        /\ pass.since \in 1..now /\ Point(pass) <= pass.newsize
    BY <1>2 DEF Typed, PassOK, WindowOK, Windowed
  <2>5. CommitPoint \in 0..pass.newsize
    BY <2>4, CommitPointTyped, Bounds
  <2>6. CursorOK(c)
    BY <2>2, <2>3, <2>4, <2>5 DEF CursorOK
  <2>7. PICK d : d = [file |-> c, settled |-> s.settled]
    OBVIOUS
  <2>8. doc' = d
    BY <1>5, <2>1, <2>7 DEF DocOK
  <2>9. DocOK(d)
    BY <2>1, <2>6, <2>7 DEF DocOK
  <2>10. unseen' \subseteq 1..written
    BY <1>5 DEF Typed
  <2> QED  BY <1>2, <1>3, <2>8, <2>9, <2>10, PassSteps DEF Typed, WorldOK
<1> QED  BY <1>2, <1>4, <1>5

\* A check that goes on about a document.
LEMMA CheckMoves ==
    ASSUME NEW c, check' = c, DocOK(c.doc), Later,
           c = [pc |-> c.pc, doc |-> c.doc, ctime |-> c.ctime, at |-> c.at],
           c.pc \in {"loaded", "statted", "allowed", "proved"},
           c.ctime \in Nat, c.at \in Nat, c.at <= now,
           c.pc # "loaded" => c.doc.file # None
    PROVE  CheckOK'
<1>1. DocOK(c.doc)'
  BY DocLasts
<1>2. DocOK(check.doc)'
  BY <1>1 DEF DocOK, CursorOK, SettledOK, DigestOK
<1> QED  BY <1>2 DEF CheckOK, Later

\* Time does not pass in a step of the check.
LEMMA CheckInTime ==
    ASSUME Typed, UNCHANGED world
    PROVE  Later /\ now' \in Nat
<1>1. now' = now /\ written' = written
  BY DEF world
<1> QED  BY <1>1, Numbers DEF Later, Typed

LEMMA TypedLoad ==
    ASSUME Typed, Load
    PROVE  Typed' /\ Later
<1>1. check' = [NoCheck EXCEPT !.pc = "loaded", !.doc = doc] /\ doc' = doc
      /\ UNCHANGED <<world, rows, pass, unseen>> /\ UNCHANGED world
  BY DEF Load
<1>2. Later
  BY <1>1, CheckInTime
<1>3. PICK c, d : c = check' /\ d = doc
  OBVIOUS
<1>4. CheckOK'
  <2>1. c.pc = "loaded" /\ c.doc = doc /\ c.ctime = 0 /\ c.at = 0
        /\ c = [pc |-> c.pc, doc |-> c.doc, ctime |-> c.ctime, at |-> c.at]
    BY <1>1, <1>3 DEF NoCheck
  <2>2. DocOK(c.doc) /\ 0 <= now
    BY <2>1, <1>2 DEF Typed, Later
  <2> QED  BY <2>1, <2>2, <1>2, <1>3, CheckMoves
<1> QED  BY <1>1, <1>3, <1>4, CheckSteps DEF Typed

LEMMA TypedStat ==
    ASSUME Typed, Stat
    PROVE  Typed' /\ Later
<1>1. check.pc = "loaded" /\ UNCHANGED <<world, rows, pass, unseen>> /\ UNCHANGED world /\ doc' = doc
  BY DEF Stat
<1>2. \/ check' = [NoCheck EXCEPT !.pc = "changed"] \/ check' = [NoCheck EXCEPT !.pc = "idle"]
      \/ check.doc.file # None /\ check' = [check EXCEPT !.pc = "statted", !.ctime = File.ctime]
  BY DEF Stat, Changed, NoCheck
<1>3. Later /\ now' \in Nat
  BY <1>1, CheckInTime
<1>4. CheckOK'
  <2>1. CASE check' = [NoCheck EXCEPT !.pc = "changed"]
    BY <2>1, <1>3, CheckEnds
  <2>2. CASE check' = [NoCheck EXCEPT !.pc = "idle"]
    BY <2>2, <1>3, CheckEnds
  <2>3. CASE check.doc.file # None /\ check' = [check EXCEPT !.pc = "statted", !.ctime = File.ctime]
    <3>1. PICK c : c = check'
      OBVIOUS
    <3>2. c.pc = "statted" /\ c.doc = check.doc /\ c.ctime = File.ctime /\ c.at = check.at
          /\ c = [pc |-> c.pc, doc |-> c.doc, ctime |-> c.ctime, at |-> c.at]
      BY <2>3, <3>1 DEF Typed, CheckOK
    <3>3. File.ctime \in Nat
      <4>1. FileOK(File)
        BY FileTyped DEF Typed
      <4> QED  BY <4>1 DEF FileOK
    <3>4. DocOK(c.doc) /\ c.doc.file # None /\ c.at \in Nat /\ c.at <= now
      BY <3>2, <2>3 DEF Typed, CheckOK
    <3> QED  BY <3>1, <3>2, <3>3, <3>4, <1>3, CheckMoves
  <2> QED  BY <1>2, <2>1, <2>2, <2>3
<1>5. PICK d : d = doc
  OBVIOUS
<1> QED  BY <1>1, <1>4, <1>5, CheckSteps DEF Typed

LEMMA TypedRestat ==
    ASSUME Typed, Restat
    PROVE  Typed' /\ Later
<1>1. check.pc = "statted" /\ UNCHANGED <<world, rows, pass, unseen>> /\ UNCHANGED world /\ doc' = doc
  BY DEF Restat
<1>2. \/ check' = [NoCheck EXCEPT !.pc = "changed"] \/ check' = [check EXCEPT !.pc = "allowed"]
  BY DEF Restat, Changed
<1>3. Later /\ now' \in Nat
  BY <1>1, CheckInTime
<1>4. CheckOK'
  <2>1. CASE check' = [NoCheck EXCEPT !.pc = "changed"]
    BY <2>1, <1>3, CheckEnds
  <2>2. CASE check' = [check EXCEPT !.pc = "allowed"]
    <3>1. PICK c : c = check'
      OBVIOUS
    <3>2. c.pc = "allowed" /\ c.doc = check.doc /\ c.ctime = check.ctime /\ c.at = check.at
          /\ c = [pc |-> c.pc, doc |-> c.doc, ctime |-> c.ctime, at |-> c.at]
      BY <2>2, <3>1 DEF Typed, CheckOK
    <3>3. DocOK(c.doc) /\ c.doc.file # None /\ c.ctime \in Nat /\ c.at \in Nat /\ c.at <= now
      BY <3>2, <1>1 DEF Typed, CheckOK
    <3> QED  BY <3>1, <3>2, <3>3, <1>3, CheckMoves
  <2> QED  BY <1>2, <2>1, <2>2
<1>5. PICK d : d = doc
  OBVIOUS
<1> QED  BY <1>1, <1>4, <1>5, CheckSteps DEF Typed

LEMMA TypedProve ==
    ASSUME Typed, Prove
    PROVE  Typed' /\ Later
<1>1. check.pc = "allowed" /\ UNCHANGED <<world, rows, pass, unseen>> /\ UNCHANGED world /\ doc' = doc
  BY DEF Prove
<1>2. \/ check' = [NoCheck EXCEPT !.pc = "changed"]
      \/ check' = [check EXCEPT !.pc = "proved", !.at = now]
  BY DEF Prove, Changed
<1>3. Later /\ now' \in Nat
  BY <1>1, CheckInTime
<1>4. CheckOK'
  <2>1. CASE check' = [NoCheck EXCEPT !.pc = "changed"]
    BY <2>1, <1>3, CheckEnds
  <2>2. CASE check' = [check EXCEPT !.pc = "proved", !.at = now]
    <3>1. PICK c : c = check'
      OBVIOUS
    <3>2. c.pc = "proved" /\ c.doc = check.doc /\ c.ctime = check.ctime /\ c.at = now
          /\ c = [pc |-> c.pc, doc |-> c.doc, ctime |-> c.ctime, at |-> c.at]
      BY <2>2, <3>1 DEF Typed, CheckOK
    <3>3. DocOK(c.doc) /\ c.doc.file # None /\ c.ctime \in Nat
      BY <3>2, <1>1 DEF Typed, CheckOK
    <3>4. c.at \in Nat /\ c.at <= now
      BY <3>2, <1>3 DEF Later
    <3> QED  BY <3>1, <3>2, <3>3, <3>4, <1>3, CheckMoves
  <2> QED  BY <1>2, <2>1, <2>2
<1>5. PICK d : d = doc
  OBVIOUS
<1> QED  BY <1>1, <1>4, <1>5, CheckSteps DEF Typed

LEMMA TypedSettle ==
    ASSUME Typed, Settle
    PROVE  Typed' /\ Later
<1>1. /\ check.pc = "proved" /\ check' = [NoCheck EXCEPT !.pc = "idle"]
      /\ UNCHANGED <<world, rows, pass, unseen>> /\ UNCHANGED world
  BY DEF Settle, NoCheck
<1>2. Later /\ now' \in Nat
  BY <1>1, CheckInTime
<1>3. CheckOK'
  BY <1>1, <1>2, CheckEnds
<1>4. PICK d : d = doc'
  OBVIOUS
<1>5. DocOK(d)
  <2>1. CASE MaySettle /\ doc = check.doc
    <3>1. d = [file |-> doc.file,
               settled |-> [ctime |-> check.ctime, at |-> now, hash |-> doc.file.hash]]
      BY <1>4, <2>1 DEF Settle, Typed, DocOK
    <3>2. check.ctime \in Nat /\ now \in Nat /\ check.ctime < now
      BY <2>1, <1>2, Bounds DEF MaySettle, Typed, CheckOK, Later
    <3> QED  BY <3>1, <3>2 DEF Typed, DocOK, SettledOK
  <2>2. CASE ~ (MaySettle /\ doc = check.doc)
    <3>1. d = doc
      BY <1>4, <2>2 DEF Settle
    <3> QED  BY <3>1 DEF Typed
  <2> QED  BY <2>1, <2>2
<1> QED  BY <1>1, <1>3, <1>4, <1>5, CheckSteps

LEMMA TypedNext == Typed /\ [Next]_vars => Typed' /\ Later
<1> SUFFICES ASSUME Typed, [Next]_vars PROVE Typed' /\ Later
  OBVIOUS
<1>1. CASE Provider
  <2>1. PICK data, ino, mtime : Stored(data, ino, mtime)
    BY <1>1, ProviderStores DEF Typed
  <2> QED  BY <2>1, TypedProvider
<1>2. CASE Tick
  BY <1>2, TypedTick
<1>3. ASSUME NEW mem \in BOOLEAN, Hydrate(mem) PROVE Typed' /\ Later
  <2>1. Open(mem, "hydration") /\ check' = check
    BY <1>3 DEF Hydrate
  <2> QED  BY <2>1, TypedOpen, CheckKept DEF Typed
<1>4. ASSUME NEW mem \in BOOLEAN, SweepRead(mem) PROVE Typed' /\ Later
  <2>1. Open(mem, "sweep") /\ check' = [NoCheck EXCEPT !.pc = "idle"]
    BY <1>4 DEF SweepRead, NoCheck
  <2>2. WorldOK' /\ Later /\ DocOK(doc)' /\ PassOK(pass)'
        /\ unseen' \subseteq 1..written' /\ pass'.missed \subseteq 1..written'
    BY <2>1, TypedOpen
  <2> QED  BY <2>1, <2>2, CheckEnds DEF Typed, Later
<1>5. CASE UNCHANGED vars
  <2>1. UNCHANGED <<world, rows, pass, unseen>> /\ UNCHANGED world /\ doc' = doc /\ check' = check
    BY <1>5 DEF vars
  <2>2. Later
    BY <2>1, CheckInTime
  <2>3. CheckOK'
    BY <2>1, <2>2, CheckKept DEF Typed
  <2>4. PICK d : d = doc
    OBVIOUS
  <2> QED  BY <2>1, <2>3, <2>4, CheckSteps DEF Typed
<1> QED
  BY <1>1, <1>2, <1>3, <1>4, <1>5, TypedOpenSaved, TypedOpenWindow, TypedOpenBytes, TypedRead,
     TypedEnd, TypedCommitStat, TypedCommitRehash, TypedCommitStore, TypedAbort,
     TypedLoad, TypedStat, TypedRestat, TypedProve, TypedSettle DEF Next

\* Everything the steps read has its type, always.
LEMMA TypedAlways == Spec => []Typed
<1>1. Typed /\ [Next]_vars => Typed'
  BY TypedNext
<1> QED  BY <1>1, TypedInit, PTL DEF Spec

\* The cursor and the settled stat in the database are of the past, the cursor lies within
\* the file it was taken over, and every variable has its type (TranscriptFileCursor, SettledStat).
THEOREM CursorTyped == Spec => []TypeOK
<1>1. Typed => TypeOK
  <2> SUFFICES ASSUME Typed PROVE TypeOK
    OBVIOUS
  <2>1. /\ now \in 1..MaxClock /\ path \in Inodes
        /\ written \in 0..MaxWrites /\ rewrites \in 0..MaxRewrites
        /\ rows \in [1..MaxLen -> 0..written]
    BY Bounds DEF Typed, WorldOK
  <2>2. \A i \in Inodes : files[i].mtime <= files[i].ctime /\ files[i].ctime <= now
    BY DEF Typed, WorldOK, FileOK
  <2>3. /\ pass.pc \in {"idle", "copied", "statted", "opened", "walk", "commit", "window", "prefix"}
        /\ pass.pos \in 0..MaxLen /\ (pass.pc = "opened" => pass.pos <= pass.size)
        /\ check.pc \in {"idle", "loaded", "statted", "allowed", "proved", "changed"}
        /\ unseen \cup pass.missed \subseteq 1..written
    BY DEF Typed, PassOK, CheckOK
  <2>4. doc.file # None =>
          /\ doc.file.ino \in Inodes /\ {doc.file.mtime, doc.file.since} \subseteq 1..now
          /\ doc.file.size \in 0..MaxLen /\ doc.file.offset \in 0..doc.file.size
    BY DEF Typed, DocOK, CursorOK
  <2>5. doc.settled # None => doc.settled.ctime < doc.settled.at /\ doc.settled.at <= now
    BY DEF Typed, DocOK, SettledOK
  <2> QED  BY <2>1, <2>2, <2>3, <2>4, <2>5 DEF TypeOK
<1> QED  BY <1>1, TypedAlways, PTL
-----------------------------------------------------------------------------
(* What is known stays true.  A step is first shown to keep what is known  *)
(* of one place and one text, and of one settled change time.              *)

GroundKept == \A k \in 1..MaxLen, v \in 0..written : Grounded(k, v) => Grounded(k, v)'

SettleKept == \A ctime \in Nat : \A h : ctime < now /\ Settles(ctime, h) => Settles(ctime, h)'

LEMMA KnowsLasts ==
    ASSUME NEW d, DocOK(d), Knows(d), now \in Nat, GroundKept, SettleKept
    PROVE  Knows(d)'
<1>1. d.file # None => \A k \in 1..d.file.offset : Grounded(k, TextAt(d.file.hash, k))'
  <2> SUFFICES ASSUME d.file # None, NEW k \in 1..d.file.offset
               PROVE  Grounded(k, TextAt(d.file.hash, k))'
    OBVIOUS
  <2>1. Grounded(k, TextAt(d.file.hash, k))
    BY DEF Knows, Backed
  <2>2. TextAt(d.file.hash, k) \in 0..written /\ k \in 1..MaxLen
    BY Bounds DEF DocOK, CursorOK, DigestOK
  <2>3. PICK v : v = TextAt(d.file.hash, k)
    OBVIOUS
  <2>4. Grounded(k, v)'
    BY <2>1, <2>2, <2>3 DEF GroundKept
  <2> QED  BY <2>3, <2>4
<1>2. d.settled # None => Settles(d.settled.ctime, d.settled.hash)'
  <2> SUFFICES ASSUME d.settled # None PROVE Settles(d.settled.ctime, d.settled.hash)'
    OBVIOUS
  <2>1. Settles(d.settled.ctime, d.settled.hash) /\ d.settled.ctime \in Nat /\ d.settled.ctime < now
    BY DEF Knows, DocOK, SettledOK
  <2> QED  BY <2>1 DEF SettleKept
<1> QED  BY <1>1, <1>2 DEF Knows, Backed

\* What each reader of the cursor has, it has of the right type, and it lasts.
LEMMA CopiesTyped ==
    ASSUME Typed
    PROVE  DocOK(doc) /\ DocOK(pass.saved) /\ DocOK(check.doc) /\ now \in Nat
BY Numbers DEF Typed, PassOK, CheckOK

LEMMA CopyLasts ==
    ASSUME Typed, Truth, GroundKept, SettleKept,
           NEW d, d = doc \/ d = pass.saved \/ d = check.doc
    PROVE  Knows(d)'
<1>1. DocOK(d) /\ now \in Nat
  BY CopiesTyped
<1>2. Knows(d)
  BY DEF Truth
<1> QED  BY <1>1, <1>2, KnowsLasts

LEMMA AllKnow ==
    ASSUME Typed, Truth, GroundKept, SettleKept, doc' = doc, pass'.saved = pass.saved, check' = check
    PROVE  Knows(doc)' /\ Knows(pass.saved)' /\ Knows(check.doc)'
<1>1. PICK d, s, c : d = doc /\ s = pass.saved /\ c = check.doc
  OBVIOUS
<1>2. Knows(d)' /\ Knows(s)' /\ Knows(c)'
  BY <1>1, CopyLasts
<1>3. doc' = d /\ pass'.saved = s /\ check'.doc = c
  BY <1>1
<1> QED  BY <1>2, <1>3 DEF Knows, Backed

\* No pass is under way: nothing to know of it.
LEMMA NoPassTruth ==
    ASSUME pass' = NoPass
    PROVE  PassTruth'
BY DEF PassTruth, NoPass, ReadsOlder, Opened, Streamed, Redigested, Windowed

\* What of a pass the invariants are about, but for what it missed.
SamePass ==
    /\ pass'.pc = pass.pc /\ pass'.saved = pass.saved /\ pass'.ino = pass.ino
    /\ pass'.mem = pass.mem /\ pass'.bytes = pass.bytes /\ pass'.pos = pass.pos
    /\ pass'.size = pass.size /\ pass'.mtime = pass.mtime /\ pass'.ctime = pass.ctime
    /\ pass'.window = pass.window /\ pass'.held = pass.held /\ pass'.moved = pass.moved
-----------------------------------------------------------------------------
(* A write of the provider.                                                *)

LEMMA StoredPass ==
    ASSUME Typed, NEW data, NEW ino, NEW mtime, Stored(data, ino, mtime)
    PROVE  /\ SamePass /\ pass.missed \subseteq pass'.missed /\ rows' = rows /\ unseen' = unseen
           /\ \A k : Got(k)' = Got(k)
<1>1. /\ pass' = [pass EXCEPT !.missed = pass'.missed] /\ pass.missed \subseteq pass'.missed
      /\ rows' = rows /\ unseen' = unseen
  BY DEF Stored
<1>2. Shaped(pass)
  BY DEF Typed, PassOK
<1>3. SamePass
  BY <1>1, <1>2 DEF Shaped, SamePass
<1>4. \A k : Got(k)' = Got(k)
  BY <1>1, <1>3 DEF Got, SamePass
<1> QED  BY <1>1, <1>3, <1>4

\* The path's file afterwards.
LEMMA FileMoves ==
    ASSUME Typed, NEW data, NEW ino, NEW mtime, Stored(data, ino, mtime)
    PROVE  /\ File' = [data |-> data, mtime |-> mtime, ctime |-> now]
           /\ File'.data = data /\ File'.ctime = now /\ Size(File)' = Len(data)
           /\ \A i \in Inodes : i # ino => files'[i] = files[i]
<1>1. /\ ino \in Inodes /\ path' = ino
      /\ files' = [files EXCEPT ![ino] = [data |-> data, mtime |-> mtime, ctime |-> now]]
  BY DEF Stored
<1>2. files = [i \in Inodes |-> files[i]]
  BY DEF Typed, WorldOK
<1>3. files'[ino] = [data |-> data, mtime |-> mtime, ctime |-> now]
      /\ \A i \in Inodes : i # ino => files'[i] = files[i]
  BY <1>1, <1>2
<1> QED  BY <1>1, <1>3 DEF File, Size

\* Each of its texts is one that was at that place, or newer than any and noted if
\* the pass was blind.
LEMMA TextsMove ==
    ASSUME Typed, NEW data, NEW ino, NEW mtime, Stored(data, ino, mtime), NEW k \in 1..Len(data)
    PROVE  /\ data[k].v \in Nat /\ k \in Nat /\ k >= 1
           /\ \/ k <= Size(File) /\ data[k].v = File.data[k].v
              \/ /\ data[k].v = written + 1
                 /\ Blind(k, ino, mtime) => data[k].v \in pass'.missed
<1>1. data \in Seq(Rec)
  BY DEF Stored
<1>2. Len(data) \in Nat /\ data[k].v \in Nat
  BY <1>1, TextsOf
<1>3. Keeps(data, k) \/ Wrote(data, k, ino, mtime)
  BY DEF Stored
<1> QED  BY <1>2, <1>3 DEF Keeps, Wrote

\* What it knows of a text written before lasts.
LEMMA TextKept ==
    ASSUME Typed, NEW data, NEW ino, NEW mtime, Stored(data, ino, mtime),
           NEW k \in 1..MaxLen, NEW v \in 0..written
    PROVE  /\ Older(k, v) => Older(k, v)'
           /\ Has(k, v)' => Has(k, v)
           /\ Taken(k, v) => Taken(k, v)'
<1>1. File'.data = data /\ Size(File)' = Len(data)
  BY FileMoves
<1>2. written \in Nat /\ Len(data) \in Nat
  BY TextsOf, Numbers DEF Typed, Stored
<1>3. (Older(k, v) => Older(k, v)') /\ (Has(k, v)' => Has(k, v))
  <2>1. CASE k <= Len(data)
    <3>1. k \in 1..Len(data)
      BY <1>2, <2>1, Bounds
    <3>2. data[k].v \in Nat /\ (\/ k <= Size(File) /\ data[k].v = File.data[k].v
                                \/ data[k].v = written + 1)
      BY <3>1, TextsMove
    <3> QED  BY <1>1, <1>2, <3>1, <3>2 DEF Older, Has
  <2>2. CASE ~ (k <= Len(data))
    BY <1>1, <2>2 DEF Older, Has
  <2> QED  BY <2>1, <2>2
<1>4. Taken(k, v) => Taken(k, v)'
  <2>1. Got(k)' = Got(k) /\ unseen' = unseen /\ pass.missed \subseteq pass'.missed
    BY StoredPass
  <2> QED  BY <1>3, <2>1 DEF Taken
<1> QED  BY <1>3, <1>4

\* What the pass reads, unless it streams the path's file, is as it was.
LEMMA ReadingMoves ==
    ASSUME Typed, NEW data, NEW ino, NEW mtime, Stored(data, ino, mtime), pass.pc # "idle"
    PROVE  \/ Reading' = Reading /\ (~ pass.mem => files'[pass.ino] = files[pass.ino])
           \/ ~ pass.mem /\ pass.ino = path /\ ino = path /\ Reading = File.data /\ Reading' = data
<1>1. SamePass /\ (ino = path \/ ino # pass.ino \/ pass.mem) /\ path' = ino
  BY StoredPass DEF Stored
<1>2. (pass.mem \/ pass.ino \in Inodes) /\ pass.mem \in BOOLEAN
  BY DEF Typed, PassOK
<1>3. CASE pass.mem
  BY <1>1, <1>3 DEF Reading, SamePass
<1>4. CASE ~ pass.mem /\ pass.ino # ino
  <2>1. files'[pass.ino] = files[pass.ino]
    BY <1>2, <1>4, FileMoves
  <2> QED  BY <1>1, <1>4, <2>1 DEF Reading, SamePass
<1>5. CASE ~ pass.mem /\ pass.ino = ino
  <2>1. pass.ino = path /\ ino = path
    BY <1>1, <1>5
  <2>2. File'.data = data
    BY FileMoves
  <2>3. Reading' = File'.data /\ Reading = File.data
    BY <1>1, <1>5, <2>1 DEF Reading, File, SamePass
  <2> QED  BY <1>5, <2>1, <2>2, <2>3
<1> QED  BY <1>2, <1>3, <1>4, <1>5

\* What is read at a place is no older than it was.
LEMMA ReadsNewer ==
    ASSUME Typed, NEW data, NEW ino, NEW mtime, Stored(data, ino, mtime), pass.pc # "idle",
           NEW k \in 1..MaxLen, NEW v \in 0..written,
           k <= Len(Reading) => v <= Reading[k].v, Older(k, v), k <= Len(Reading')
    PROVE  v <= Reading'[k].v
<1>1. written \in Nat
  BY Numbers DEF Typed
<1>2. CASE Reading' = Reading
  BY <1>2
<1>3. CASE Reading = File.data /\ Reading' = data
  <2>1. data \in Seq(Rec)
    BY DEF Stored
  <2>2. Len(data) \in Nat
    BY <2>1, TextsOf
  <2>3. k \in 1..Len(data)
    BY <1>3, <2>2, Bounds
  <2>4. data[k].v \in Nat /\ (\/ k <= Size(File) /\ data[k].v = File.data[k].v
                              \/ data[k].v = written + 1)
    BY <2>3, TextsMove
  <2> QED  BY <1>1, <1>3, <2>4 DEF Older
<1> QED  BY <1>2, <1>3, ReadingMoves

LEMMA GroundProvider ==
    ASSUME Typed, NEW data, NEW ino, NEW mtime, Stored(data, ino, mtime)
    PROVE  GroundKept /\ SettleKept
<1>1. ASSUME NEW k \in 1..MaxLen, NEW v \in 0..written, Grounded(k, v) PROVE Grounded(k, v)'
  <2>1. Older(k, v)' /\ (Has(k, v)' => Has(k, v))
    BY <1>1, TextKept DEF Grounded
  <2>2. rows' = rows /\ unseen' = unseen /\ SamePass
    BY StoredPass
  <2>3. (Has(k, v) => rows[k] = v \/ v \in unseen)'
    BY <1>1, <2>1, <2>2 DEF Grounded
  <2>4. (pass.pc # "idle" /\ k <= Len(Reading) => v <= Reading[k].v)'
    <3> SUFFICES ASSUME pass.pc # "idle", k <= Len(Reading') PROVE v <= Reading'[k].v
      BY <2>2 DEF SamePass
    <3> QED  BY <1>1, ReadsNewer DEF Grounded
  <2>5. (pass.held # None /\ pass.pos = k => v <= pass.held.v)'
    BY <1>1, <2>2 DEF Grounded, SamePass
  <2> QED  BY <2>1, <2>3, <2>4, <2>5 DEF Grounded
<1>2. ASSUME NEW ctime \in Nat, NEW h, ctime < now PROVE Settles(ctime, h)'
  <2>1. File'.ctime = now
    BY FileMoves
  <2>2. now \in Nat
    BY Bounds DEF Typed, WorldOK
  <2> QED  BY <1>2, <2>1, <2>2 DEF Settles
<1> QED  BY <1>1, <1>2 DEF GroundKept, SettleKept

LEMMA ReadsOlderProvider ==
    ASSUME Typed, ReadsOlder, NEW data, NEW ino, NEW mtime, Stored(data, ino, mtime)
    PROVE  ReadsOlder'
<1>1. SamePass
  BY StoredPass
<1> SUFFICES ASSUME pass.pc # "idle"
             PROVE  /\ \A k \in 1..Len(Reading') : Older(k, Reading[k].v)'
                    /\ (pass.held # None => Older(pass.pos, pass.held.v))'
  BY <1>1 DEF ReadsOlder, SamePass
<1>2. /\ Len(Reading) \in 0..MaxLen
      /\ \A k \in 1..Len(Reading) : Reading[k].v \in Nat /\ Reading[k].v <= written
  BY <1>1, ReadingTyped
<1>3. ASSUME NEW k \in 1..Len(Reading') PROVE Older(k, Reading[k].v)'
  <2>1. CASE Reading' = Reading
    <3>1. PICK v : v = Reading[k].v
      OBVIOUS
    <3>2. k \in 1..MaxLen /\ v \in 0..written /\ Older(k, v)
      BY <1>2, <2>1, <3>1, Numbers, Bounds DEF ReadsOlder, Typed
    <3>3. Older(k, v)'
      BY <3>2, TextKept
    <3> QED  BY <2>1, <3>1, <3>3
  <2>2. CASE Reading = File.data /\ Reading' = data
    <3>1. File'.data = data /\ Size(File)' = Len(data)
      BY FileMoves
    <3>2. data[k].v \in Nat
      BY <2>2, TextsMove
    <3> QED  BY <2>2, <3>1, <3>2 DEF Older
  <2> QED  BY <1>1, <2>1, <2>2, ReadingMoves
<1>4. ASSUME pass.held # None PROVE Older(pass.pos, pass.held.v)'
  <2>1. PICK k, v : k = pass.pos /\ v = pass.held.v
    OBVIOUS
  <2>2. k \in 1..MaxLen /\ v \in 0..written /\ Older(k, v)
    <3>1. Older(k, v)
      BY <1>4, <2>1 DEF ReadsOlder
    <3>2. HeldOK(pass) /\ written \in Nat
      BY Numbers DEF Typed, PassOK
    <3> QED  BY <1>4, <2>1, <3>1, <3>2 DEF HeldOK, Hold
  <2>3. Older(k, v)'
    BY <2>2, TextKept
  <2> QED  BY <1>1, <2>1, <2>3 DEF SamePass
<1> QED  BY <1>1, <1>3, <1>4 DEF SamePass

\* The texts of the opened window.
LEMMA WindowTexts ==
    ASSUME Typed, Windowed(pass)
    PROVE  /\ pass.size \in 0..MaxLen /\ pass.pos \in 0..MaxLen
           /\ \A k \in 1..pass.size : k \in 1..MaxLen /\ TextAt(pass.window, k) \in 0..written
<1>1. pass.size \in 0..MaxLen /\ pass.pos \in 0..MaxLen /\ DigestOK(pass.window, pass.size)
  BY DEF Typed, PassOK, WindowOK
<1>2. \A k \in 1..pass.size : TextAt(pass.window, k) \in 0..written
  BY <1>1 DEF DigestOK
<1> QED  BY <1>1, <1>2, Bounds

LEMMA OpenedProvider ==
    ASSUME Typed, Opened, NEW data, NEW ino, NEW mtime, Stored(data, ino, mtime)
    PROVE  Opened'
<1>1. SamePass
  BY StoredPass
<1> SUFFICES ASSUME Windowed(pass) PROVE Opened'
  BY <1>1 DEF Opened, Windowed, SamePass
<1>2. /\ pass.size \in 0..MaxLen /\ pass.pos \in 0..MaxLen
      /\ \A k \in 1..pass.size : k \in 1..MaxLen /\ TextAt(pass.window, k) \in 0..written
  BY WindowTexts
<1>3. pass.pc # "idle"
  BY DEF Windowed
<1>4. ASSUME NEW k \in 1..pass.size
      PROVE  /\ Older(k, TextAt(pass.window, k))'
             /\ k <= Len(Reading') => TextAt(pass.window, k) <= Reading'[k].v
             /\ pass.mem => TextAt(pass.window, k) = pass.bytes[k].v
             /\ k <= pass.pos => Taken(k, TextAt(pass.window, k))'
  <2>1. PICK v : v = TextAt(pass.window, k)
    OBVIOUS
  <2>2. k \in 1..MaxLen /\ v \in 0..written
    BY <1>2, <2>1
  <2>3. /\ Older(k, v) /\ (k <= Len(Reading) => v <= Reading[k].v)
        /\ (pass.mem => v = pass.bytes[k].v) /\ (k <= pass.pos => Taken(k, v))
    <3>1. k <= pass.pos => k \in 1..pass.pos /\ k <= pass.size
      BY <1>2
    <3> QED  BY <2>1, <3>1 DEF Opened
  <2>4. Older(k, v)' /\ (k <= pass.pos => Taken(k, v)')
    BY <2>2, <2>3, TextKept
  <2>5. k <= Len(Reading') => v <= Reading'[k].v
    BY <1>3, <2>2, <2>3, ReadsNewer
  <2>6. TextAt(pass.window, k)' = v
    BY <1>1, <2>1 DEF SamePass
  <2> QED  BY <2>1, <2>3, <2>4, <2>5, <2>6
<1>5. \A k \in 1..pass.pos : k <= pass.size => k \in 1..pass.size
  BY <1>2
<1>6. pass'.window = pass.window /\ pass'.size = pass.size /\ pass'.pos = pass.pos
      /\ pass'.mem = pass.mem /\ pass'.bytes = pass.bytes
  BY <1>1 DEF SamePass
<1> QED  BY <1>4, <1>5, <1>6 DEF Opened

\* A streaming pass that was not blind will find a rewrite out.
LEMMA StreamedProvider ==
    ASSUME Typed, Streamed, NEW data, NEW ino, NEW mtime, Stored(data, ino, mtime)
    PROVE  Streamed'
<1>1. SamePass /\ unseen' = unseen /\ pass.missed \subseteq pass'.missed
  BY StoredPass
<1>2. /\ pass'.pc = pass.pc /\ pass'.ino = pass.ino /\ pass'.mem = pass.mem
      /\ pass'.pos = pass.pos /\ pass'.size = pass.size /\ pass'.mtime = pass.mtime
      /\ pass'.ctime = pass.ctime /\ pass'.window = pass.window
  BY <1>1 DEF SamePass
<1> SUFFICES ASSUME pass.pc \notin {"idle", "copied"}, ~ pass.mem PROVE Streamed'
  BY <1>2 DEF Streamed
<1>3. /\ pass.ino \in Inodes /\ pass.pos \in 0..MaxLen /\ pass.size \in 0..MaxLen
      /\ pass.ctime \in Nat /\ pass.mtime \in Nat
  BY DEF Typed, PassOK
<1> DEFINE f == files[pass.ino]
           g == files'[pass.ino]
<1>4. pass.ctime <= f.ctime /\ pass.mtime <= f.mtime
  BY DEF Streamed
<1>5. FileOK(f) /\ f.data \in Seq(Rec) /\ Len(f.data) \in 0..MaxLen
      /\ \A k \in 1..Len(f.data) : f.data[k].v \in 0..written
  <2>1. FileOK(f)
    BY <1>3 DEF Typed, WorldOK
  <2>2. f.data \in Seq(Rec) /\ Len(f.data) <= MaxLen /\ \A k \in 1..Len(f.data) : f.data[k].v <= written
    BY <2>1 DEF FileOK, DataOK
  <2>3. Len(f.data) \in Nat /\ \A k \in 1..Len(f.data) : f.data[k].v \in Nat
    BY <2>2, TextsOf
  <2>4. written \in Nat
    BY Numbers DEF Typed
  <2> QED  BY <2>1, <2>2, <2>3, <2>4, Bounds
<1>6. f.ctime \in Nat /\ f.mtime \in Nat /\ f.ctime <= now /\ f.mtime <= now /\ now \in Nat
  <2>1. now \in Nat
    BY Numbers DEF Typed
  <2> QED  BY <1>5, <2>1 DEF FileOK
<1>7. CASE g = f
  <2>1. pass.ctime <= g.ctime /\ pass.mtime <= g.mtime
    BY <1>4, <1>7
  <2>2. ASSUME pass.pc \in {"opened", "walk", "commit", "window"},
               NEW k \in 1..pass.pos, k <= Len(g.data)
        PROVE  Taken(k, f.data[k].v)' \/ FoundOut(k)'
    <3>1. Taken(k, f.data[k].v) \/ FoundOut(k)
      BY <1>7, <2>2 DEF Streamed
    <3>2. FoundOut(k) => FoundOut(k)'
      BY <1>2, <1>7 DEF FoundOut, Windowed, Stirred
    <3>3. PICK v : v = f.data[k].v
      OBVIOUS
    <3>4. k \in 1..MaxLen /\ v \in 0..written
      BY <1>3, <1>5, <1>7, <2>2, <3>3, Bounds
    <3>5. Taken(k, v) => Taken(k, v)'
      BY <3>4, TextKept
    <3> QED  BY <1>2, <1>7, <3>1, <3>2, <3>3, <3>5
  <2> QED  BY <1>2, <2>1, <2>2 DEF Streamed
<1>8. CASE pass.ino = path /\ ino = path
  <2>1. File' = [data |-> data, mtime |-> mtime, ctime |-> now] /\ path' = ino
    BY FileMoves DEF Stored
  <2>2. g.data = data /\ g.mtime = mtime /\ g.ctime = now /\ f = File
    BY <1>8, <2>1 DEF File
  <2> HIDE DEF f, g
  <2>3. mtime \in {f.mtime, now} /\ data \in Seq(Rec) /\ Len(data) <= MaxLen
    BY <2>2 DEF Stored
  <2>4. mtime \in Nat /\ f.mtime <= mtime
    BY <1>6, <2>3
  <2>5. pass.ctime <= now /\ pass.mtime <= mtime
    BY <1>3, <1>4, <1>6, <2>4
  <2>6. ASSUME pass.pc \in {"opened", "walk", "commit", "window"},
               NEW k \in 1..pass.pos, k <= Len(data)
        PROVE  Taken(k, data[k].v)' \/ FoundOut(k)'
    <3>1. k \in 1..Len(data) /\ k \in 1..MaxLen /\ k <= pass.pos
      <4>1. Len(data) \in Nat
        BY <2>3, TextsOf
      <4> QED  BY <1>3, <2>6, <4>1, Bounds
    <3>2. /\ data[k].v \in Nat
          /\ \/ k <= Size(File) /\ data[k].v = File.data[k].v
             \/ data[k].v = written + 1 /\ (Blind(k, ino, mtime) => data[k].v \in pass'.missed)
      BY <3>1, TextsMove
    <3>3. CASE k <= Size(File) /\ data[k].v = File.data[k].v
      <4>1. k <= Len(f.data) /\ data[k].v = f.data[k].v
        BY <2>2, <3>3 DEF Size
      <4>2. Taken(k, f.data[k].v) \/ FoundOut(k)
        BY <2>6, <4>1 DEF Streamed, f
      <4>3. CASE Taken(k, f.data[k].v)
        <5>1. PICK v : v = f.data[k].v
          OBVIOUS
        <5>2. v \in 0..written
          BY <1>5, <3>1, <4>1, <5>1
        <5>3. Taken(k, v)'
          BY <3>1, <4>3, <5>1, <5>2, TextKept
        <5> QED  BY <4>1, <5>1, <5>3
      <4>4. CASE FoundOut(k)
        <5>1. /\ Windowed(pass) /\ k <= pass.size /\ f.data[k].v # TextAt(pass.window, k)
              /\ pass.pc = "window" \/ f.ctime > pass.ctime \/ f.mtime > pass.mtime
          BY <4>4 DEF FoundOut, Stirred, f
        <5>2. pass.pc = "window" \/ now > pass.ctime \/ mtime > pass.mtime
          BY <1>3, <1>6, <2>4, <5>1
        <5>3. FoundOut(k)'
          BY <1>2, <2>2, <4>1, <5>1, <5>2 DEF FoundOut, Stirred, Windowed, g
        <5> QED  BY <5>3
      <4> QED  BY <4>2, <4>3, <4>4
    <3>4. CASE data[k].v = written + 1 /\ Blind(k, ino, mtime)
      <4>1. data[k].v \in pass'.missed
        BY <3>2, <3>4, Numbers, FileTyped DEF Typed
      <4> QED  BY <4>1 DEF Taken
    <3>5. CASE data[k].v = written + 1 /\ ~ Blind(k, ino, mtime)
      <4>1. /\ pass.pc # "opened" /\ k <= pass.size
            /\ pass.pc \in {"walk", "commit"} => now # pass.ctime \/ mtime # pass.mtime
        BY <1>3, <1>8, <3>1, <3>5 DEF Blind
      <4>2. Windowed(pass)
        BY <2>6, <4>1 DEF Windowed
      <4>3. TextAt(pass.window, k) # written + 1
        <5>1. k \in 1..pass.size
          BY <1>3, <4>1
        <5>2. TextAt(pass.window, k) \in 0..written /\ written \in Nat
          BY <4>2, <5>1, WindowTexts, Numbers DEF Typed
        <5> QED  BY <5>2
      <4>4. pass.pc = "window" \/ now > pass.ctime \/ mtime > pass.mtime
        BY <1>3, <1>6, <2>4, <2>5, <2>6, <4>1
      <4>5. FoundOut(k)'
        BY <1>2, <2>2, <3>5, <4>1, <4>2, <4>3, <4>4 DEF FoundOut, Stirred, Windowed, g
      <4> QED  BY <4>5
    <3> QED  BY <3>2, <3>3, <3>4, <3>5
  <2> QED  BY <1>2, <2>2, <2>5, <2>6 DEF Streamed, g
<1> QED  BY <1>7, <1>8, ReadingMoves

\* Whatever is written where the commit reads again is noted.
LEMMA RedigestedProvider ==
    ASSUME Typed, Redigested, NEW data, NEW ino, NEW mtime, Stored(data, ino, mtime)
    PROVE  Redigested'
<1>1. SamePass
  BY StoredPass
<1>2. /\ pass'.pc = pass.pc /\ pass'.ino = pass.ino /\ pass'.mem = pass.mem
      /\ pass'.pos = pass.pos /\ pass'.size = pass.size /\ pass'.held = pass.held
      /\ pass'.moved = pass.moved
  BY <1>1 DEF SamePass
<1>3. CommitPoint' = CommitPoint /\ Redigests' = Redigests
  BY <1>2 DEF CommitPoint, Redigests
<1> SUFFICES ASSUME pass.pc = "prefix", Redigests, NEW k \in 1..CommitPoint, k <= Len(CommitData')
             PROVE  Taken(k, CommitData[k].v)'
  BY <1>2, <1>3 DEF Redigested
<1>4. Windowed(pass) /\ pass.pc # "idle" /\ pass.mem \in BOOLEAN /\ pass.ino \in Inodes
  BY DEF Windowed, Typed, PassOK
<1>5. CommitPoint \in 0..pass.pos /\ CommitPoint \in 0..MaxLen /\ pass.pos \in 0..MaxLen
  BY CommitPointTyped DEF Typed, PassOK
<1>6. k \in 1..MaxLen /\ k <= pass.pos /\ k <= CommitPoint
  BY <1>5, Bounds
<1>7. \/ CommitData' = CommitData
      \/ CommitData' = data /\ CommitData = File.data /\ (pass.mem \/ ino = pass.ino)
  <2>1. CASE pass.mem
    <3>1. CommitData = File.data /\ CommitData' = File'.data
      BY <1>2, <2>1 DEF CommitData, CommitInode, File
    <3> QED  BY <2>1, <3>1, FileMoves
  <2>2. CASE ~ pass.mem
    <3>1. CommitData = files[pass.ino].data /\ CommitData' = files'[pass.ino].data
      BY <1>2, <2>2 DEF CommitData, CommitInode
    <3>2. CASE files'[pass.ino] = files[pass.ino]
      BY <3>1, <3>2
    <3>3. CASE pass.ino = path /\ ino = path /\ Reading = File.data /\ Reading' = data
      BY <1>2, <2>2, <3>1, <3>3 DEF Reading
    <3> QED  BY <1>4, <2>2, <3>2, <3>3, ReadingMoves
  <2> QED  BY <2>1, <2>2
<1>8. CASE CommitData' = CommitData
  <2>1. Taken(k, CommitData[k].v)
    BY <1>8 DEF Redigested
  <2>2. PICK f : f = files[CommitInode]
    OBVIOUS
  <2>3. DataOK(f.data) /\ CommitData = f.data
    BY <1>4, <2>2, CommitFileTyped
  <2>4. CommitData[k].v \in 0..written
    <3>1. f.data \in Seq(Rec) /\ \A i \in 1..Len(f.data) : f.data[i].v <= written
      BY <2>3 DEF DataOK
    <3>2. Len(f.data) \in Nat /\ \A i \in 1..Len(f.data) : f.data[i].v \in Nat
      BY <3>1, TextsOf
    <3>3. k \in 1..Len(f.data)
      BY <1>6, <1>8, <2>3, <3>2, Bounds
    <3>4. written \in Nat
      BY Numbers DEF Typed
    <3> QED  BY <2>3, <3>1, <3>2, <3>3, <3>4
  <2>5. PICK v : v = CommitData[k].v
    OBVIOUS
  <2>6. Taken(k, v)'
    BY <1>6, <2>1, <2>4, <2>5, TextKept
  <2> QED  BY <1>8, <2>5, <2>6
<1>9. CASE CommitData' = data /\ CommitData = File.data /\ (pass.mem \/ ino = pass.ino)
  <2>1. k \in 1..Len(data)
    <3>1. Len(data) \in Nat
      BY TextsOf DEF Stored
    <3> QED  BY <1>6, <1>9, <3>1, Bounds
  <2>2. /\ data[k].v \in Nat
        /\ \/ k <= Size(File) /\ data[k].v = File.data[k].v
           \/ data[k].v = written + 1 /\ (Blind(k, ino, mtime) => data[k].v \in pass'.missed)
    BY <2>1, TextsMove
  <2>3. CASE k <= Size(File) /\ data[k].v = File.data[k].v
    <3>1. Taken(k, File.data[k].v)
      BY <1>9, <2>3 DEF Redigested, Size
    <3>2. PICK v : v = File.data[k].v
      OBVIOUS
    <3>3. v \in 0..written
      <4>1. k \in 1..Size(File)
        BY <1>6, <2>3, FileTyped DEF Typed
      <4> QED  BY <3>2, <4>1, FileTyped DEF Typed
    <3>4. Taken(k, v)'
      BY <1>6, <3>1, <3>2, <3>3, TextKept
    <3> QED  BY <1>9, <2>3, <3>2, <3>4
  <2>4. CASE data[k].v = written + 1 /\ (Blind(k, ino, mtime) => data[k].v \in pass'.missed)
    <3>1. Blind(k, ino, mtime)
      BY <1>6, <1>9 DEF Blind
    <3> QED  BY <1>9, <2>4, <3>1 DEF Taken
  <2> QED  BY <2>2, <2>3, <2>4
<1> QED  BY <1>7, <1>8, <1>9

LEMMA TruthProvider ==
    ASSUME Typed, Truth, NEW data, NEW ino, NEW mtime, Stored(data, ino, mtime)
    PROVE  Truth'
<1>1. GroundKept /\ SettleKept
  BY GroundProvider
<1>2. doc' = doc /\ check' = check /\ now' = now /\ pass'.saved = pass.saved
  BY StoredPass DEF Stored, SamePass
<1>3. Knows(doc)' /\ Knows(pass.saved)' /\ Knows(check.doc)'
  BY <1>1, <1>2, AllKnow
<1>4. PassTruth'
  BY ReadsOlderProvider, OpenedProvider, StreamedProvider, RedigestedProvider DEF Truth, PassTruth
<1>5. Proved'
  <2> SUFFICES ASSUME check.pc = "proved"
               PROVE  /\ now' <= check.at + MaxStall
                      /\ check.ctime < check.at => Settles(check.ctime, check.doc.file.hash)'
    BY <1>2 DEF Proved
  <2>1. now <= check.at + MaxStall
        /\ (check.ctime < check.at => Settles(check.ctime, check.doc.file.hash))
    BY DEF Truth, Proved
  <2>2. check.ctime \in Nat /\ check.at \in Nat /\ check.at <= now /\ now \in Nat
    BY Numbers DEF Typed, CheckOK
  <2>3. PICK c, h : c = check.ctime /\ h = check.doc.file.hash
    OBVIOUS
  <2>4. check.ctime < check.at => Settles(c, h)'
    BY <1>1, <2>1, <2>2, <2>3 DEF SettleKept
  <2> QED  BY <1>2, <2>1, <2>3, <2>4
<1> QED  BY <1>3, <1>4, <1>5 DEF Truth
-----------------------------------------------------------------------------
(* The other steps leave the file alone.                                   *)

\* A cursor that matches some records is a digest of them, and stands for rows.
LEMMA ValidRows ==
    ASSUME Typed, NEW c, c # None, CursorOK(c), Backed(c), NEW data, DataOK(data), Matches(c, data)
    PROVE  /\ c.offset \in 0..Len(data) /\ c.offset \in 0..MaxLen /\ c.hash[1] = c.offset
           /\ c.hash = Digest(data, c.offset)
           /\ \A k \in 1..c.offset :
                 TextAt(c.hash, k) = data[k].v /\ Grounded(k, TextAt(c.hash, k))
<1>1. c.offset <= Len(data) /\ Digest(data, c.offset) = c.hash
  BY DEF Matches
<1>2. data \in Seq(Rec) /\ Len(data) \in 0..MaxLen
  BY TextsOf, Bounds DEF DataOK
<1>3. c.offset \in Nat /\ c.hash[1] = c.offset
  BY DEF CursorOK, DigestOK
<1>4. c.offset \in 0..Len(data) /\ c.offset \in 0..MaxLen /\ c.offset <= MaxLen
  BY <1>1, <1>2, <1>3, Bounds
<1>5. \A k \in 1..c.offset : TextAt(c.hash, k) = data[k].v
  BY <1>1, <1>2, <1>4, DigestReads
<1>6. \A k \in 1..c.offset : Grounded(k, TextAt(c.hash, k))
  BY DEF Backed
<1> QED  BY <1>1, <1>3, <1>4, <1>5, <1>6

\* A step that leaves the files, the rows and what the pass reads and has.
LEMMA StillKept ==
    ASSUME files' = files, path' = path, rows' = rows, unseen \subseteq unseen', now' = now,
           pass'.pc # "idle" => pass.pc # "idle" /\ Reading' = Reading,
           pass'.held = None \/ (pass'.held = pass.held /\ pass'.pos = pass.pos)
    PROVE  /\ GroundKept /\ SettleKept
           /\ ReadsOlder => ReadsOlder'
<1>1. File' = File /\ Size(File)' = Size(File)
  BY DEF File, Size
<1>2. GroundKept
  BY <1>1 DEF GroundKept, Grounded, Older, Has
<1>3. SettleKept
  BY <1>1 DEF SettleKept, Settles
<1>4. ReadsOlder => ReadsOlder'
  BY <1>1 DEF ReadsOlder, Older
<1> QED  BY <1>2, <1>3, <1>4

\* A step of others than the pass.
LEMMA PassKept ==
    ASSUME files' = files, path' = path, rows' = rows, unseen' = unseen, pass' = pass, PassTruth
    PROVE  PassTruth' /\ GroundKept /\ SettleKept
<1>1. File' = File /\ Size(File)' = Size(File) /\ Reading' = Reading /\ CommitData' = CommitData
      /\ CommitPoint' = CommitPoint /\ Redigests' = Redigests
  BY DEF File, Size, Reading, CommitData, CommitInode, CommitPoint, Redigests
<1>2. \A k, v : /\ Older(k, v) => Older(k, v)'
                /\ Taken(k, v) => Taken(k, v)'
  BY <1>1 DEF Older, Taken, Has, Got
<1>3. GroundKept
  BY <1>1 DEF GroundKept, Grounded, Older, Has
<1>4. SettleKept
  BY <1>1 DEF SettleKept, Settles
<1>5. ReadsOlder'
  BY <1>1 DEF PassTruth, ReadsOlder, Older
<1>6. Opened'
  BY <1>1 DEF PassTruth, Opened, Windowed, Older, Taken, Has, Got
<1>7. Streamed'
  BY <1>1 DEF PassTruth, Streamed, FoundOut, Stirred, Windowed, Taken, Has, Got
<1>8. Redigested'
  BY <1>1 DEF PassTruth, Redigested, Taken, Has, Got
<1> QED  BY <1>3, <1>4, <1>5, <1>6, <1>7, <1>8 DEF PassTruth

\* A step that ends the pass.
LEMMA EndsKept ==
    ASSUME files' = files, path' = path, rows' = rows, unseen \subseteq unseen', pass' = NoPass
    PROVE  GroundKept /\ SettleKept
<1>1. File' = File
  BY DEF File
<1>2. GroundKept
  BY <1>1 DEF GroundKept, Grounded, Older, Has, Size, NoPass
<1>3. SettleKept
  BY <1>1 DEF SettleKept, Settles, Size
<1> QED  BY <1>2, <1>3

\* A check that a step leaves alone, in the same tick.
LEMMA ProvedKept ==
    ASSUME Proved, now' = now, files' = files, path' = path, check' = check
    PROVE  Proved'
<1>1. File' = File
  BY DEF File
<1> QED  BY <1>1 DEF Proved, Settles, Size

\* Nothing is known of no document, and there is nothing wrong with that.
LEMMA NothingKnown == Knows(NoDoc) /\ Knows(NoDoc)'
BY DEF Knows, NoDoc, Backed

LEMMA TruthInit == Init => Truth
<1> SUFFICES ASSUME Init PROVE Truth
  OBVIOUS
<1>1. doc = NoDoc /\ pass = NoPass /\ check = NoCheck
  BY DEF Init
<1>2. pass.saved = NoDoc /\ check.doc = NoDoc /\ pass.pc = "idle" /\ check.pc = "idle"
  BY <1>1 DEF NoPass, NoCheck
<1>3. PassTruth
  BY <1>2 DEF PassTruth, ReadsOlder, Opened, Streamed, Redigested, Windowed
<1> QED  BY <1>1, <1>2, <1>3, NothingKnown DEF Truth, Proved

LEMMA TruthTick ==
    ASSUME Typed, Truth, Tick
    PROVE  Truth'
<1>1. /\ now' = now + 1 /\ (check.pc = "proved" => now < check.at + MaxStall)
      /\ files' = files /\ path' = path /\ rows' = rows /\ doc' = doc /\ pass' = pass
      /\ check' = check /\ unseen' = unseen
  BY DEF Tick
<1>2. PassTruth' /\ GroundKept /\ SettleKept
  BY <1>1, PassKept DEF Truth
<1>3. Knows(doc)' /\ Knows(pass.saved)' /\ Knows(check.doc)'
  BY <1>1, <1>2, AllKnow
<1>4. Proved'
  <2>1. check.pc = "proved" => now' <= check.at + MaxStall
    BY <1>1, Numbers, Bounds DEF Typed, CheckOK
  <2>2. File' = File
    BY <1>1 DEF File
  <2> QED  BY <1>1, <2>1, <2>2 DEF Truth, Proved, Settles, Size
<1> QED  BY <1>2, <1>3, <1>4 DEF Truth

\* A step of the check, which leaves the world and the pass alone.
LEMMA TruthCheck ==
    ASSUME Typed, Truth, UNCHANGED <<world, rows, pass, unseen>>,
           NEW e, check'.doc = e, e = doc \/ e = check.doc \/ e = NoDoc
    PROVE  /\ now' = now /\ File' = File /\ PassTruth'
           /\ Knows(pass.saved)' /\ Knows(check.doc)'
           /\ \A d : d = doc => Knows(d)'
<1>1. now' = now /\ files' = files /\ path' = path /\ rows' = rows /\ pass' = pass /\ unseen' = unseen
  BY DEF world
<1>2. PassTruth' /\ GroundKept /\ SettleKept
  BY <1>1, PassKept DEF Truth
<1>3. \A d : d = doc \/ d = pass.saved \/ d = check.doc => Knows(d)'
  BY <1>2, CopyLasts
<1>4. Knows(pass.saved)'
  <2>1. PICK s : s = pass.saved
    OBVIOUS
  <2>2. Knows(s)' /\ pass'.saved = s
    BY <1>1, <1>3, <2>1
  <2> QED  BY <2>2 DEF Knows, Backed
<1>5. Knows(e)'
  <2>1. CASE e = NoDoc
    BY <2>1 DEF Knows, Backed, NoDoc
  <2> QED  BY <1>3, <2>1
<1>6. Knows(check.doc)'
  BY <1>5 DEF Knows, Backed
<1>7. File' = File
  BY <1>1 DEF File
<1> QED  BY <1>1, <1>2, <1>3, <1>4, <1>6, <1>7

\* The same, of a step that stores no document and proves nothing.
LEMMA TruthAsks ==
    ASSUME Typed, Truth, UNCHANGED <<world, rows, doc, pass, unseen>>, check'.pc # "proved",
           check'.doc = doc \/ check'.doc = check.doc \/ check'.doc = NoDoc
    PROVE  Truth'
<1>1. PICK d, e : d = doc /\ e = check'.doc
  OBVIOUS
<1>2. PassTruth' /\ Knows(pass.saved)' /\ Knows(check.doc)' /\ Knows(d)'
  BY <1>1, TruthCheck
<1>3. Knows(doc)'
  BY <1>1, <1>2 DEF Knows, Backed
<1> QED  BY <1>2, <1>3 DEF Truth, Proved

LEMMA TruthLoad ==
    ASSUME Typed, Truth, Load
    PROVE  Truth'
<1>1. check' = [NoCheck EXCEPT !.pc = "loaded", !.doc = doc]
      /\ UNCHANGED <<world, rows, doc, pass, unseen>>
  BY DEF Load
<1>2. check'.pc = "loaded" /\ check'.doc = doc
  BY <1>1 DEF NoCheck
<1> QED  BY <1>1, <1>2, TruthAsks

LEMMA TruthStat ==
    ASSUME Typed, Truth, Stat
    PROVE  Truth'
<1>1. UNCHANGED <<world, rows, doc, pass, unseen>>
  BY DEF Stat
<1>2. check'.pc # "proved" /\ (check'.doc = NoDoc \/ check'.doc = check.doc)
  BY DEF Stat, NoCheck, Changed, Typed, CheckOK
<1> QED  BY <1>1, <1>2, TruthAsks

LEMMA TruthRestat ==
    ASSUME Typed, Truth, Restat
    PROVE  Truth'
<1>1. UNCHANGED <<world, rows, doc, pass, unseen>>
  BY DEF Restat
<1>2. check'.pc # "proved" /\ (check'.doc = NoDoc \/ check'.doc = check.doc)
  BY DEF Restat, NoCheck, Changed, Typed, CheckOK
<1> QED  BY <1>1, <1>2, TruthAsks

LEMMA TruthProve ==
    ASSUME Typed, Truth, Prove
    PROVE  Truth'
<1>1. UNCHANGED <<world, rows, doc, pass, unseen>> /\ check.pc = "allowed"
  BY DEF Prove
<1>2. CASE Matches(check.doc.file, File.data)
  <2>1. PICK c, d : c = check.doc /\ d = doc
    OBVIOUS
  <2>2. /\ check'.doc = c /\ check'.at = now /\ check'.ctime = check.ctime
    BY <1>2, <2>1 DEF Prove, Typed, CheckOK
  <2>3. /\ now' = now /\ File' = File /\ PassTruth' /\ Knows(pass.saved)' /\ Knows(check.doc)'
        /\ Knows(d)'
    BY <1>1, <2>1, <2>2, TruthCheck
  <2>4. Knows(doc)'
    BY <1>1, <2>1, <2>3 DEF Knows, Backed
  <2>5. CursorOK(c.file) /\ Backed(c.file) /\ c.file # None /\ DataOK(File.data)
    BY <1>1, <2>1, FileTyped DEF Typed, CheckOK, DocOK, Truth, Knows
  <2>6. c.file.hash[1] = c.file.offset /\ c.file.offset \in 0..Len(File.data)
        /\ c.file.hash = Digest(File.data, c.file.offset)
    BY <1>2, <2>1, <2>5, ValidRows
  <2>7. Settles(check.ctime, check.doc.file.hash)'
    BY <2>2, <2>3, <2>6 DEF Settles, Size
  <2>8. now' <= check'.at + MaxStall
    BY <2>2, <2>3, Numbers, Bounds DEF Typed
  <2> QED  BY <2>3, <2>4, <2>7, <2>8 DEF Truth, Proved
<1>3. CASE ~ Matches(check.doc.file, File.data)
  <2>1. check'.doc = NoDoc /\ check'.pc = "changed"
    BY <1>3 DEF Prove, NoCheck, Changed
  <2> QED  BY <1>1, <2>1, TruthAsks
<1> QED  BY <1>2, <1>3

\* The clock was read soon enough after the digest for the stat to be older than it.
LEMMA TruthSettle ==
    ASSUME Typed, Truth, MaxStall < SettleWindow, Settle
    PROVE  Truth'
<1>1. check.pc = "proved" /\ check' = NoCheck /\ UNCHANGED <<world, rows, pass, unseen>>
  BY DEF Settle
<1>2. PICK d, e : d = doc /\ e = NoDoc
  OBVIOUS
<1>3. check'.doc = e /\ check'.pc = "idle"
  BY <1>1, <1>2 DEF NoCheck
<1>4. /\ now' = now /\ File' = File /\ PassTruth' /\ Knows(pass.saved)' /\ Knows(check.doc)'
      /\ Knows(d)'
  BY <1>1, <1>2, <1>3, TruthCheck
<1>5. Knows(doc)'
  <2>1. CASE MaySettle /\ doc = check.doc
    <3>1. /\ doc'.file = d.file /\ doc'.settled.ctime = check.ctime
          /\ doc'.settled.hash = d.file.hash
      BY <1>2, <2>1 DEF Settle, Typed, DocOK
    <3>2. now <= check.at + MaxStall
          /\ (check.ctime < check.at => Settles(check.ctime, check.doc.file.hash))
      BY <1>1 DEF Truth, Proved
    <3>3. check.ctime \in Nat /\ check.at \in Nat /\ now - check.ctime >= SettleWindow
      BY <2>1 DEF MaySettle, Typed, CheckOK
    <3>4. check.ctime < check.at
      BY <3>2, <3>3, Numbers, Bounds DEF Typed
    <3>5. Settles(check.ctime, d.file.hash)
      BY <1>2, <2>1, <3>2, <3>4
    <3>6. Settles(doc.settled.ctime, doc.settled.hash)'
      BY <1>4, <3>1, <3>5 DEF Settles, Size
    <3>7. Backed(d.file)'
      BY <1>4 DEF Knows
    <3>8. Backed(doc.file)'
      BY <3>1, <3>7 DEF Backed
    <3> QED  BY <3>6, <3>8 DEF Knows
  <2>2. CASE ~ (MaySettle /\ doc = check.doc)
    <3>1. doc' = d
      BY <1>2, <2>2 DEF Settle
    <3> QED  BY <1>4, <3>1 DEF Knows, Backed
  <2> QED  BY <2>1, <2>2
<1> QED  BY <1>3, <1>4, <1>5 DEF Truth, Proved
-----------------------------------------------------------------------------
(* The steps of a pass.                                                    *)

\* What a step of a pass leaves alone.
Beside ==
    /\ now' = now /\ files' = files /\ path' = path /\ doc' = doc /\ check' = check
    /\ pass'.saved = pass.saved

LEMMA TruthPass ==
    ASSUME Typed, Truth, Beside, GroundKept, SettleKept, PassTruth'
    PROVE  Truth'
<1>1. Knows(doc)' /\ Knows(pass.saved)' /\ Knows(check.doc)'
  BY AllKnow DEF Beside
<1>2. Proved'
  BY ProvedKept DEF Truth, Beside
<1> QED  BY <1>1, <1>2 DEF Truth

\* A pass that starts to read the path's file.
LEMMA Starts ==
    ASSUME Typed, files' = files, path' = path, rows' = rows, unseen' = unseen, now' = now,
           Reading' = File.data, pass'.held = None
    PROVE  GroundKept /\ SettleKept /\ ReadsOlder'
<1>1. File' = File /\ Size(File)' = Size(File)
  BY DEF File, Size
<1>2. \A k \in 1..Size(File) : File.data[k].v \in Nat
  BY FileTyped DEF Typed
<1>3. GroundKept
  <2> SUFFICES ASSUME NEW k \in 1..MaxLen, NEW v \in 0..written, Grounded(k, v)
               PROVE  Grounded(k, v)'
    BY DEF GroundKept
  <2>1. Older(k, v) /\ Older(k, v)' /\ (Has(k, v) => rows[k] = v \/ v \in unseen)
    BY <1>1 DEF Grounded, Older
  <2>2. k <= Len(Reading') => v <= Reading'[k].v
    BY <2>1 DEF Older, Size
  <2>3. (Has(k, v) => rows[k] = v \/ v \in unseen)'
    BY <1>1, <2>1 DEF Has
  <2> QED  BY <2>1, <2>2, <2>3 DEF Grounded
<1>4. SettleKept
  BY <1>1 DEF SettleKept, Settles
<1>5. ReadsOlder'
  BY <1>1, <1>2 DEF ReadsOlder, Older, Size
<1> QED  BY <1>3, <1>4, <1>5

LEMMA StreamStarts ==
    ASSUME Typed, files' = files, path' = path, rows' = rows, unseen' = unseen, now' = now,
           NEW by, NEW saved, NEW p, pass' = p, p = Streaming(by, saved)
    PROVE  GroundKept /\ SettleKept /\ PassTruth' /\ p.saved = saved
<1>1. StreamsFrom(p, by, saved)
  BY StreamingIs
<1>2. /\ p.pc = "statted" /\ p.saved = saved /\ p.ino = path /\ ~ p.mem /\ p.held = None
      /\ p.mtime = File.mtime /\ p.ctime = File.ctime
  BY <1>1 DEF StreamsFrom
<1>3. Reading' = File.data
  BY <1>2 DEF Reading, File
<1>4. GroundKept /\ SettleKept /\ ReadsOlder'
  BY <1>2, <1>3, Starts
<1>5. Opened' /\ Redigested'
  BY <1>2 DEF Opened, Redigested, Windowed
<1>6. Streamed'
  <2>1. files'[p.ino] = File /\ File.mtime \in Nat /\ File.ctime \in Nat
    BY <1>2, FileTyped DEF File, Typed, FileOK
  <2> QED  BY <1>2, <2>1 DEF Streamed
<1> QED  BY <1>2, <1>4, <1>5, <1>6 DEF PassTruth

LEMMA TruthOpen ==
    ASSUME Typed, Truth, NEW mem \in BOOLEAN, NEW by, Open(mem, by)
    PROVE  /\ Knows(doc)' /\ Knows(pass.saved)' /\ PassTruth' /\ GroundKept /\ SettleKept
           /\ now' = now /\ files' = files /\ path' = path
<1>1. pass.pc = "idle" /\ rows' = rows /\ doc' = doc /\ unseen' = unseen /\ UNCHANGED world
  BY DEF Open
<1>2. now' = now /\ files' = files /\ path' = path
  BY <1>1 DEF world
<1>3. PICK d, p : d = doc /\ p = pass'
  OBVIOUS
<1>4. GroundKept /\ SettleKept /\ PassTruth' /\ p.saved = d
  <2>1. CASE mem
    <3>1. /\ p.pc = "copied" /\ p.saved = d /\ p.mem /\ p.bytes = File.data /\ p.held = None
      BY <1>3, <2>1 DEF Open, NoPass
    <3>2. Reading' = File.data
      BY <1>3, <3>1 DEF Reading
    <3>3. GroundKept /\ SettleKept /\ ReadsOlder'
      BY <1>1, <1>2, <1>3, <3>1, <3>2, Starts
    <3>4. Opened' /\ Streamed' /\ Redigested'
      BY <1>3, <3>1 DEF Opened, Streamed, Redigested, Windowed
    <3> QED  BY <3>1, <3>3, <3>4 DEF PassTruth
  <2>2. CASE ~ mem
    <3>1. p = Streaming(by, d)
      BY <1>3, <2>2 DEF Open
    <3> QED  BY <1>1, <1>2, <1>3, <3>1, StreamStarts
  <2> QED  BY <2>1, <2>2
<1>5. Knows(d)'
  BY <1>3, <1>4, CopyLasts
<1>6. doc' = d /\ pass'.saved = d
  BY <1>1, <1>3, <1>4
<1>7. Knows(doc)' /\ Knows(pass.saved)'
  BY <1>5, <1>6 DEF Knows, Backed
<1> QED  BY <1>2, <1>4, <1>7

\* What is behind the saved cursor, the pass has.
LEMMA ResumesTaken ==
    ASSUME Typed, Truth, NEW s, NEW data, DataOK(data), NEW c, c = pass.saved.file,
           SavedValid(c, s, data), NEW k \in 1..c.offset, pass'.held = None, rows' = rows,
           unseen' = unseen, files' = files, path' = path
    PROVE  /\ TextAt(c.hash, k) = data[k].v /\ Older(k, TextAt(c.hash, k))'
           /\ \A v : v = TextAt(c.hash, k) => Taken(k, v)'
<1>1. c # None /\ Matches(c, data)
  BY DEF SavedValid
<1>2. CursorOK(c) /\ Backed(c)
  BY DEF Typed, PassOK, DocOK, Truth, Knows
<1>3. TextAt(c.hash, k) = data[k].v /\ Grounded(k, TextAt(c.hash, k))
  BY <1>1, <1>2, ValidRows
<1>4. File' = File /\ Size(File)' = Size(File)
  BY DEF File, Size
<1>5. Got(k)' = rows[k]
  BY DEF Got
<1>6. PICK v : v = TextAt(c.hash, k)
  OBVIOUS
<1>7. Grounded(k, v)
  BY <1>3, <1>6
<1>8. Older(k, v)' /\ Taken(k, v)'
  BY <1>4, <1>5, <1>7 DEF Grounded, Older, Taken, Has
<1> QED  BY <1>3, <1>6, <1>8

LEMMA TruthOpenSaved ==
    ASSUME Typed, Truth, OpenSaved
    PROVE  Truth'
<1>1. PICK c, data, q, s : /\ c = pass.saved.file /\ data = files[pass.ino].data
                          /\ q = Resumed(pass, data) /\ s = pass
  OBVIOUS
<1>2. /\ pass.pc = "statted" /\ UNCHANGED world /\ rows' = rows /\ doc' = doc /\ check' = check
      /\ unseen' = unseen
      /\ pass' = IF SavedValid(c, s, data) /\ c.offset = pass.size
                 THEN [q EXCEPT !.pc = "walk", !.window = c.hash]
                 ELSE [q EXCEPT !.pc = "opened"]
  BY <1>1 DEF OpenSaved
<1>3. now' = now /\ files' = files /\ path' = path
  BY <1>2 DEF world
<1>4. /\ q = [pass EXCEPT !.pos = q.pos, !.since = q.since, !.hold = q.hold]
      /\ SavedValid(c, s, data) => q.pos = c.offset /\ c.offset \in 0..MaxLen
      /\ ~ SavedValid(c, s, data) => q.pos = 0
  <2>1. ResumesAt(q, c, s, data)
    BY <1>1, ResumesWithin
  <2> QED  BY <2>1 DEF ResumesAt
<1>5. /\ PassOK(pass) /\ pass.ino \in Inodes /\ pass.mem \in BOOLEAN /\ ~ pass.mem
      /\ pass.held = None
  BY <1>2 DEF Typed, PassOK, HeldOK, Windowed
<1>6. PICK p : p = pass'
  OBVIOUS
<1>7. /\ p.pos = q.pos /\ p.saved = pass.saved /\ p.ino = pass.ino /\ p.mem = pass.mem
      /\ p.bytes = pass.bytes /\ p.size = pass.size /\ p.mtime = pass.mtime
      /\ p.ctime = pass.ctime /\ p.held = None
      /\ p.pc = IF SavedValid(c, s, data) /\ c.offset = pass.size THEN "walk" ELSE "opened"
      /\ p.pc = "walk" => p.window = c.hash
  BY <1>2, <1>4, <1>5, <1>6 DEF PassOK, Shaped
<1>8. Reading' = Reading /\ Reading = data
  BY <1>1, <1>3, <1>5, <1>6, <1>7 DEF Reading
<1>9. DataOK(data)
  BY <1>1, <1>5 DEF Typed, WorldOK, FileOK
<1>10. GroundKept /\ SettleKept /\ ReadsOlder'
  BY <1>2, <1>3, <1>6, <1>7, <1>8, StillKept DEF Truth, PassTruth
<1>11. ASSUME NEW k \in 1..p.pos
       PROVE  /\ SavedValid(c, s, data) /\ k \in 1..c.offset
              /\ TextAt(c.hash, k) = data[k].v /\ Older(k, TextAt(c.hash, k))'
              /\ \A v : v = data[k].v => Taken(k, v)'
  <2>1. SavedValid(c, s, data) /\ k \in 1..c.offset
    BY <1>4, <1>7
  <2> QED  BY <1>1, <1>2, <1>3, <1>6, <1>7, <1>9, <2>1, ResumesTaken
<1>12. Opened'
  <2> SUFFICES ASSUME p.pc = "walk" PROVE Opened'
    BY <1>6, <1>7 DEF Opened, Windowed
  <2>1. p.window = c.hash /\ p.size = p.pos
    BY <1>4, <1>7
  <2>2. ASSUME NEW k \in 1..p.size
        PROVE  /\ Older(k, TextAt(p.window, k))'
               /\ k <= Len(Reading') => TextAt(p.window, k) <= Reading'[k].v
    <3>1. TextAt(p.window, k) = data[k].v /\ Older(k, TextAt(p.window, k))'
      BY <1>11, <2>1
    <3>2. k <= Len(data) => data[k].v \in Nat
      <4>1. k \in Nat /\ k >= 1
        BY <1>4, <1>7, <2>1, Bounds
      <4>2. Len(data) \in Nat /\ \A i \in 1..Len(data) : data[i].v \in Nat
        BY <1>9, TextsOf DEF DataOK
      <4> QED  BY <4>1, <4>2
    <3> QED  BY <1>8, <3>1, <3>2
  <2>3. ASSUME NEW k \in 1..p.pos PROVE Taken(k, TextAt(p.window, k))'
    <3>1. PICK v : v = TextAt(p.window, k)
      OBVIOUS
    <3>2. Taken(k, v)'
      BY <1>11, <2>1, <3>1
    <3> QED  BY <3>1, <3>2
  <2> QED  BY <1>5, <1>6, <1>7, <2>2, <2>3 DEF Opened
<1>13. Streamed'
  <2>1. pass.ctime <= files[pass.ino].ctime /\ pass.mtime <= files[pass.ino].mtime
    BY <1>2, <1>5 DEF Truth, PassTruth, Streamed
  <2>2. files'[p.ino].data = data
    BY <1>1, <1>3, <1>7
  <2>3. ASSUME NEW k \in 1..p.pos PROVE Taken(k, data[k].v)'
    <3>1. PICK v : v = data[k].v
      OBVIOUS
    <3> QED  BY <1>11, <3>1
  <2> QED  BY <1>3, <1>6, <1>7, <2>1, <2>2, <2>3 DEF Streamed
<1>14. Redigested'
  BY <1>6, <1>7 DEF Redigested
<1>15. Beside
  BY <1>2, <1>3, <1>6, <1>7 DEF Beside
<1> QED  BY <1>10, <1>12, <1>13, <1>14, <1>15, TruthPass DEF PassTruth

\* A step that ends the pass and stores nothing.
LEMMA TruthEnds ==
    ASSUME Typed, Truth, UNCHANGED <<world, rows, check>>, unseen \subseteq unseen', pass' = NoPass,
           NEW d, doc' = d, d = doc \/ d = pass.saved
    PROVE  Truth'
<1>1. now' = now /\ files' = files /\ path' = path /\ rows' = rows /\ check' = check
  BY DEF world
<1>2. GroundKept /\ SettleKept
  BY <1>1, EndsKept
<1>3. PICK c : c = check.doc
  OBVIOUS
<1>4. Knows(d)' /\ Knows(c)'
  BY <1>2, <1>3, CopyLasts
<1>5. Knows(doc)' /\ Knows(pass.saved)' /\ Knows(check.doc)'
  <2>1. doc' = d /\ pass'.saved = NoDoc /\ check'.doc = c
    BY <1>1, <1>3 DEF NoPass
  <2> QED  BY <1>4, <2>1 DEF Knows, Backed, NoDoc
<1>6. PassTruth' /\ Proved'
  BY <1>1, NoPassTruth, ProvedKept DEF Truth
<1> QED  BY <1>5, <1>6 DEF Truth

LEMMA TruthAbort ==
    ASSUME Typed, Truth, Abort
    PROVE  Truth'
<1>1. PICK d : d = doc
  OBVIOUS
<1>2. pass' = NoPass /\ UNCHANGED <<world, rows, check>> /\ doc' = d /\ unseen' = unseen
  BY <1>1 DEF Abort
<1> QED  BY <1>1, <1>2, TruthEnds

LEMMA TruthOpenWindow ==
    ASSUME Typed, Truth, OpenWindow
    PROVE  Truth'
<1>1. PICK data, d : data = files[pass.ino].data /\ d = doc
  OBVIOUS
<1>2. /\ pass.pc = "opened" /\ UNCHANGED world /\ rows' = rows /\ doc' = doc /\ check' = check
      /\ unseen' = unseen
      /\ pass' = IF Len(data) < pass.size THEN NoPass
                 ELSE [pass EXCEPT !.pc = "walk", !.window = Digest(data, pass.size),
                                   !.since = IF pass.saved.file = None THEN now ELSE @]
  BY <1>1 DEF OpenWindow
<1>3. CASE Len(data) < pass.size
  BY <1>1, <1>2, <1>3, TruthEnds
<1>4. CASE ~ (Len(data) < pass.size)
  <2>1. now' = now /\ files' = files /\ path' = path
    BY <1>2 DEF world
  <2>2. /\ PassOK(pass) /\ pass.ino \in Inodes /\ pass.mem \in BOOLEAN /\ ~ pass.mem
        /\ pass.size \in 0..MaxLen /\ pass.pos \in 0..MaxLen /\ pass.pos <= pass.size
    BY <1>2 DEF Typed, PassOK
  <2>3. data \in Seq(Rec) /\ Len(data) \in 0..MaxLen /\ \A k \in 1..Len(data) : data[k].v \in Nat
    <3>1. DataOK(data)
      BY <1>1, <2>2 DEF Typed, WorldOK, FileOK
    <3> QED  BY <3>1, TextsOf, Bounds DEF DataOK
  <2>4. PICK p : p = pass'
    OBVIOUS
  <2>5. /\ p.pc = "walk" /\ p.window = Digest(data, pass.size)
        /\ p.pos = pass.pos /\ p.saved = pass.saved /\ p.ino = pass.ino /\ p.mem = pass.mem
        /\ p.bytes = pass.bytes /\ p.size = pass.size /\ p.mtime = pass.mtime
        /\ p.ctime = pass.ctime /\ p.held = pass.held /\ p.missed = pass.missed
    BY <1>2, <1>4, <2>2, <2>4 DEF PassOK, Shaped
  <2>6. Reading' = Reading /\ Reading = data
    BY <1>1, <2>1, <2>2, <2>4, <2>5 DEF Reading
  <2>7. GroundKept /\ SettleKept /\ ReadsOlder'
    BY <1>2, <2>1, <2>4, <2>5, <2>6, StillKept DEF Truth, PassTruth
  <2>8. \A k \in 1..p.size : k \in 1..Len(data) /\ TextAt(p.window, k) = data[k].v
    <3>1. pass.size \in 0..Len(data) /\ pass.size <= MaxLen
      BY <1>4, <2>2, <2>3, Bounds
    <3> QED  BY <2>3, <2>5, <3>1, DigestReads
  <2>9. \A k \in 1..p.pos : k \in 1..p.size
    BY <2>2, <2>5, Bounds
  <2>10. ASSUME NEW k \in 1..p.pos PROVE Taken(k, data[k].v)'
    <3>1. PICK v : v = data[k].v
      OBVIOUS
    <3>2. Taken(k, data[k].v) \/ FoundOut(k)
      BY <1>1, <1>2, <2>2, <2>3, <2>5, <2>8, <2>9 DEF Truth, PassTruth, Streamed
    <3>3. Taken(k, v)
      BY <1>2, <3>1, <3>2 DEF FoundOut, Windowed
    <3>4. Taken(k, v)'
      BY <1>2, <2>1, <2>4, <2>5, <3>3 DEF Taken, Has, Got, File, Size
    <3> QED  BY <3>1, <3>4
  <2>11. Opened'
    <3>1. ASSUME NEW k \in 1..p.size
          PROVE  /\ Older(k, TextAt(p.window, k))'
                 /\ k <= Len(Reading') => TextAt(p.window, k) <= Reading'[k].v
      <4>1. PICK v : v = data[k].v
        OBVIOUS
      <4>2. Older(k, Reading[k].v)'
        BY <2>4, <2>5, <2>6, <2>7, <2>8 DEF ReadsOlder
      <4>3. Older(k, v)'
        BY <2>6, <4>1, <4>2
      <4> QED  BY <2>3, <2>6, <2>8, <4>1, <4>3
    <3>2. ASSUME NEW k \in 1..p.pos PROVE Taken(k, TextAt(p.window, k))'
      <4>1. PICK v : v = data[k].v
        OBVIOUS
      <4>2. Taken(k, v)'
        BY <2>10, <4>1
      <4> QED  BY <2>8, <2>9, <4>1, <4>2
    <3> QED  BY <2>2, <2>4, <2>5, <3>1, <3>2 DEF Opened
  <2>12. Streamed'
    <3>1. pass.ctime <= files[pass.ino].ctime /\ pass.mtime <= files[pass.ino].mtime
      BY <1>2, <2>2 DEF Truth, PassTruth, Streamed
    <3>2. files'[p.ino].data = data
      BY <1>1, <2>1, <2>5
    <3> QED  BY <2>1, <2>4, <2>5, <3>1, <3>2, <2>10 DEF Streamed
  <2>13. Redigested'
    BY <2>4, <2>5 DEF Redigested
  <2>14. Beside
    BY <1>2, <2>1, <2>4, <2>5 DEF Beside
  <2> QED  BY <2>7, <2>11, <2>12, <2>13, <2>14, TruthPass DEF PassTruth
<1> QED  BY <1>3, <1>4

LEMMA TruthOpenBytes ==
    ASSUME Typed, Truth, OpenBytes
    PROVE  Truth'
<1>1. PICK s, b, n, q, c, by, sv : /\ s = StatOf(path) /\ b = pass.bytes /\ n = Len(pass.bytes)
                                  /\ q = Resumed(s, b) /\ c = pass.saved.file
                                  /\ by = pass.by /\ sv = pass.saved
  OBVIOUS
<1>2. /\ pass.pc = "copied" /\ UNCHANGED world /\ rows' = rows /\ doc' = doc /\ check' = check
      /\ unseen' = unseen
      /\ pass' = IF s.size # n THEN Streaming(by, sv)
                 ELSE [q EXCEPT !.pc = "walk", !.ino = s.ino, !.size = n, !.mtime = s.mtime,
                                !.ctime = s.ctime, !.window = Digest(b, n)]
  BY <1>1 DEF OpenBytes
<1>3. now' = now /\ files' = files /\ path' = path
  BY <1>2 DEF world
<1>4. PICK p : p = pass'
  OBVIOUS
<1>5. CASE s.size # n
  <2>1. GroundKept /\ SettleKept /\ PassTruth' /\ p.saved = sv
    BY <1>2, <1>3, <1>4, <1>5, StreamStarts
  <2>2. Beside
    BY <1>1, <1>2, <1>3, <1>4, <2>1 DEF Beside
  <2> QED  BY <2>1, <2>2, TruthPass
<1>6. CASE s.size = n
  <2>1. /\ q = [pass EXCEPT !.pos = q.pos, !.since = q.since, !.hold = q.hold]
        /\ SavedValid(c, s, b) => q.pos = c.offset /\ c.offset \in 0..MaxLen /\ c.offset <= Len(b)
        /\ ~ SavedValid(c, s, b) => q.pos = 0
    <3>1. ResumesAt(q, c, s, b)
      BY <1>1, ResumesWithin
    <3> QED  BY <3>1 DEF ResumesAt
  <2>2. /\ PassOK(pass) /\ pass.mem /\ pass.held = None /\ DataOK(b)
    BY <1>1, <1>2 DEF Typed, PassOK, HeldOK, Windowed
  <2>3. b \in Seq(Rec) /\ n \in 0..MaxLen /\ n = Len(b) /\ \A k \in 1..n : b[k].v \in Nat
    BY <1>1, <2>2, TextsOf, Bounds DEF DataOK
  <2>4. /\ p.pc = "walk" /\ p.window = Digest(b, n) /\ p.pos = q.pos
        /\ p.saved = pass.saved /\ p.mem = pass.mem /\ p.bytes = b /\ p.size = n /\ p.held = None
    BY <1>1, <1>2, <1>4, <1>6, <2>1, <2>2 DEF PassOK, Shaped
  <2>5. Reading' = Reading /\ Reading = b
    BY <1>1, <1>4, <2>2, <2>4 DEF Reading
  <2>6. GroundKept /\ SettleKept /\ ReadsOlder'
    BY <1>2, <1>3, <1>4, <2>4, <2>5, StillKept DEF Truth, PassTruth
  <2>7. \A k \in 1..n : TextAt(p.window, k) = b[k].v
    <3>1. n \in 0..Len(b) /\ n <= MaxLen
      BY <2>3, Bounds
    <3> QED  BY <2>3, <2>4, <3>1, DigestReads
  <2>8. ASSUME NEW k \in 1..p.pos PROVE k \in 1..n /\ \A v : v = b[k].v => Taken(k, v)'
    <3>1. SavedValid(c, s, b) /\ k \in 1..c.offset /\ k \in 1..n
      BY <2>1, <2>3, <2>4, Bounds, SMTT(30)
    <3>2. TextAt(c.hash, k) = b[k].v /\ \A v : v = TextAt(c.hash, k) => Taken(k, v)'
      BY <1>1, <1>2, <1>3, <1>4, <2>2, <2>4, <3>1, ResumesTaken
    <3> QED  BY <3>1, <3>2
  <2>9. Opened'
    <3>1. ASSUME NEW k \in 1..p.size
          PROVE  /\ Older(k, TextAt(p.window, k))'
                 /\ k <= Len(Reading') => TextAt(p.window, k) <= Reading'[k].v
                 /\ TextAt(p.window, k) = b[k].v
      <4>1. PICK v : v = b[k].v
        OBVIOUS
      <4>2. Older(k, Reading[k].v)'
        BY <1>4, <2>3, <2>4, <2>5, <2>6 DEF ReadsOlder
      <4>3. Older(k, v)'
        BY <2>5, <4>1, <4>2
      <4> QED  BY <2>3, <2>4, <2>5, <2>7, <4>1, <4>3
    <3>2. ASSUME NEW k \in 1..p.pos PROVE Taken(k, TextAt(p.window, k))'
      <4>1. PICK v : v = b[k].v
        OBVIOUS
      <4>2. Taken(k, v)' /\ TextAt(p.window, k) = v
        BY <2>7, <2>8, <4>1
      <4> QED  BY <4>2
    <3> QED  BY <1>4, <2>4, <3>1, <3>2 DEF Opened
  <2>10. Streamed' /\ Redigested'
    BY <1>4, <2>2, <2>4 DEF Streamed, Redigested
  <2>11. Beside
    BY <1>2, <1>3, <1>4, <2>4 DEF Beside
  <2> QED  BY <2>6, <2>9, <2>10, <2>11, TruthPass DEF PassTruth
<1> QED  BY <1>5, <1>6

\* A pass reads one more record: what it held is a row now.
HasRead(at, r) ==
    /\ at \in 1..Len(Reading) /\ at \in 1..MaxLen /\ pass.pos \in Nat
    /\ pass.pc = "walk" /\ pass'.pos = at
    /\ pass' = [pass EXCEPT !.pos = at, !.held = pass'.held]
    /\ \A k \in 1..MaxLen : k # at => rows'[k] = Got(k)
    /\ \/ pass'.held = None /\ rows'[at] = r.v
       \/ pass'.held # None /\ pass'.held.v = r.v /\ rows'[at] = rows[at]
    /\ Got(at)' = r.v
    /\ \A k \in 1..pass.pos : Got(k)' = Got(k)

LEMMA ReadMoves ==
    ASSUME Typed, Read, NEW at, at = pass.pos + 1, NEW r, r = Reading[at]
    PROVE  HasRead(at, r)
<1> DEFINE holds == pass.hold /\ ~ r.fin
           released == Indexed(pass.held, rows)
<1>1. /\ pass.pc = "walk" /\ pass.pos < Len(Reading)
      /\ rows' = IF holds THEN released ELSE [released EXCEPT ![at] = r.v]
      /\ pass' = [pass EXCEPT !.pos = at,
                              !.held = IF holds THEN [at |-> at, v |-> r.v] ELSE None]
  BY DEF Read
<1>2. pass.pos \in 0..MaxLen /\ Len(Reading) \in 0..MaxLen
      /\ \A k \in 1..Len(Reading) : Reading[k].v \in Nat
  BY <1>1, ReadingTyped DEF Typed, PassOK
<1>3. at \in 1..Len(Reading) /\ at \in 1..MaxLen /\ pass.pos \in Nat /\ r.v \in Nat
  <2>1. pass.pos < Len(Reading)
    BY <1>1
  <2>2. at \in 1..Len(Reading) /\ at \in 1..MaxLen /\ pass.pos \in Nat
    BY <2>1, <1>2, Bounds
  <2> QED  BY <2>2, <1>2
<1>4. rows \in [1..MaxLen -> 0..written]
      /\ (pass.held # None => pass.held.at = pass.pos /\ pass.pos \in 1..MaxLen)
  BY DEF Typed, WorldOK, PassOK, HeldOK, Hold
<1>5. /\ DOMAIN released = 1..MaxLen
      /\ \A k \in 1..MaxLen : released[k] = Got(k)
  BY <1>4 DEF Indexed, Got
<1>6. at # pass.pos
  BY <1>3
<1>7. released[at] = rows[at]
  BY <1>3, <1>5, <1>6 DEF Got
<1> HIDE DEF released, holds
<1>8. [at |-> at, v |-> r.v] # None
  BY <1>3, NoneAssumption DEF Hold
<1>9. /\ pass'.pos = at /\ pass'.held = (IF holds THEN [at |-> at, v |-> r.v] ELSE None)
      /\ pass' = [pass EXCEPT !.pos = at, !.held = pass'.held]
  BY <1>1 DEF Typed, PassOK, Shaped
<1>10. \A k \in 1..MaxLen : k # at => rows'[k] = Got(k)
  BY <1>1, <1>5
<1>11. \/ pass'.held = None /\ rows'[at] = r.v
       \/ pass'.held # None /\ pass'.held.v = r.v /\ rows'[at] = rows[at]
  <2>1. CASE holds
    BY <1>1, <1>7, <1>8, <1>9, <2>1
  <2>2. CASE ~ holds
    BY <1>1, <1>3, <1>5, <1>9, <2>2
  <2> QED  BY <2>1, <2>2
<1>12. Got(at)' = r.v
  BY <1>9, <1>11 DEF Got
<1>13. ASSUME NEW k \in 1..pass.pos PROVE Got(k)' = Got(k)
  <2>1. k \in 1..MaxLen /\ k # at
    BY <1>2, <1>3, Bounds
  <2>2. Got(k)' = rows'[k]
    BY <1>9, <2>1 DEF Got
  <2> QED  BY <1>10, <2>1, <2>2
<1> QED  BY <1>1, <1>3, <1>9, <1>10, <1>11, <1>12, <1>13 DEF HasRead

LEMMA TruthRead ==
    ASSUME Typed, Truth, Read
    PROVE  Truth'
<1>1. PICK at : at = pass.pos + 1
  OBVIOUS
<1>2. PICK r : r = Reading[at]
  OBVIOUS
<1>3. /\ at \in 1..Len(Reading) /\ at \in 1..MaxLen /\ pass.pos \in Nat
      /\ pass.pc = "walk" /\ pass'.pos = at
      /\ pass' = [pass EXCEPT !.pos = at, !.held = pass'.held]
      /\ \A k \in 1..MaxLen : k # at => rows'[k] = Got(k)
      /\ \/ pass'.held = None /\ rows'[at] = r.v
         \/ pass'.held # None /\ pass'.held.v = r.v /\ rows'[at] = rows[at]
      /\ Got(at)' = r.v
      /\ \A k \in 1..pass.pos : Got(k)' = Got(k)
  <2>1. HasRead(at, r)
    BY <1>1, <1>2, ReadMoves
  <2> QED  BY <2>1 DEF HasRead
<1>4. now' = now /\ files' = files /\ path' = path /\ doc' = doc /\ check' = check /\ unseen' = unseen
  BY DEF Read, world
<1>5. /\ pass'.pc = pass.pc /\ pass'.saved = pass.saved /\ pass'.ino = pass.ino
      /\ pass'.mem = pass.mem /\ pass'.bytes = pass.bytes /\ pass'.size = pass.size
      /\ pass'.mtime = pass.mtime /\ pass'.ctime = pass.ctime /\ pass'.window = pass.window
      /\ pass'.missed = pass.missed
  BY <1>3 DEF Typed, PassOK, Shaped
<1>6. File' = File /\ Reading' = Reading /\ Size(File)' = Size(File)
  BY <1>4, <1>5 DEF File, Reading, Size
<1>7. /\ Len(Reading) \in 0..MaxLen /\ r.v \in Nat
      /\ Older(at, r.v) /\ (pass.held # None => Older(pass.pos, pass.held.v))
  BY <1>2, <1>3, ReadingTyped DEF Truth, PassTruth, ReadsOlder
<1>8. \A k \in 1..Size(File) : File.data[k].v \in Nat
  BY FileTyped DEF Typed
<1>9. HeldOK(pass) /\ written \in Nat /\ pass.pos \in 0..MaxLen /\ Size(File) \in 0..MaxLen
  BY FileTyped, Numbers DEF Typed, PassOK
<1>10. GroundKept
  <2> SUFFICES ASSUME NEW k \in 1..MaxLen, NEW v \in 0..written, Grounded(k, v)
               PROVE  Grounded(k, v)'
    BY DEF GroundKept
  <2>1. /\ Older(k, v)
        /\ Has(k, v) => rows[k] = v \/ v \in unseen
        /\ k <= Len(Reading) => v <= Reading[k].v
        /\ pass.held # None /\ pass.pos = k => v <= pass.held.v
    BY <1>3 DEF Grounded
  <2>2. Older(k, v)'
    BY <1>6, <2>1 DEF Older
  <2>3. ASSUME k <= Size(File), File.data[k].v = v PROVE rows'[k] = v \/ v \in unseen
    <3>1. k \in 1..Size(File) /\ v \in Nat
      BY <1>9, <2>3, Bounds
    <3>2. CASE k = at
      <4>1. v <= r.v /\ r.v <= v
        BY <1>2, <1>3, <1>7, <2>1, <2>3, <3>2 DEF Older
      <4>2. v = r.v
        BY <1>7, <3>1, <4>1
      <4> QED  BY <1>3, <2>1, <2>3, <3>2, <4>2 DEF Has
    <3>3. CASE k # at /\ pass.held # None /\ k = pass.pos
      <4>1. v <= pass.held.v /\ pass.held.v <= v
        BY <1>7, <2>1, <2>3, <3>3 DEF Older
      <4>2. pass.held.v \in Nat
        BY <1>9, <3>3 DEF HeldOK, Hold
      <4>3. pass.held.v = v
        BY <3>1, <4>1, <4>2
      <4> QED  BY <1>3, <3>3, <4>3 DEF Got
    <3>4. CASE k # at /\ ~ (pass.held # None /\ k = pass.pos)
      BY <1>3, <2>1, <2>3, <3>4 DEF Got, Has
    <3> QED  BY <3>2, <3>3, <3>4
  <2>4. pass'.held # None /\ pass'.pos = k => v <= pass'.held.v
    <3>1. ASSUME pass'.held # None, pass'.pos = k PROVE v <= pass'.held.v
      <4>1. k = at /\ pass'.held.v = r.v /\ k <= Len(Reading)
        BY <1>3, <1>7, <3>1
      <4> QED  BY <1>2, <2>1, <4>1
    <3> QED  BY <3>1
  <2> QED  BY <1>4, <1>5, <1>6, <2>1, <2>2, <2>3, <2>4 DEF Grounded, Has
<1>11. SettleKept
  BY <1>6 DEF SettleKept, Settles
<1>12. ReadsOlder'
  <2>1. \A k \in 1..Len(Reading') : Older(k, Reading[k].v)'
    BY <1>3, <1>6 DEF Truth, PassTruth, ReadsOlder, Older
  <2>2. (pass.held # None => Older(pass.pos, pass.held.v))'
    BY <1>3, <1>6, <1>7 DEF Older
  <2> QED  BY <2>1, <2>2 DEF ReadsOlder
<1>13. \A k \in 1..at : k \in 1..pass.pos \/ k = at
  BY <1>1, <1>3
<1>14. ASSUME NEW k \in 1..pass.pos, NEW v, Taken(k, v) PROVE Taken(k, v)'
  BY <1>3, <1>4, <1>5, <1>6, <1>14 DEF Taken, Has
<1>15. Windowed(pass) /\ Windowed(pass)'
  BY <1>3, <1>5 DEF Windowed
<1>16. Opened'
  <2>1. /\ \A k \in 1..pass.size :
              /\ Older(k, TextAt(pass.window, k))
              /\ k <= Len(Reading) => TextAt(pass.window, k) <= Reading[k].v
              /\ pass.mem => TextAt(pass.window, k) = pass.bytes[k].v
        /\ \A k \in 1..pass.pos : k <= pass.size => Taken(k, TextAt(pass.window, k))
    BY <1>15 DEF Truth, PassTruth, Opened
  <2>2. /\ pass.size \in 0..MaxLen
        /\ \A k \in 1..pass.size : k \in 1..MaxLen /\ TextAt(pass.window, k) \in 0..written
    BY <1>15, WindowTexts
  <2>3. ASSUME NEW k \in 1..pass.size
        PROVE  /\ Older(k, TextAt(pass.window, k))'
               /\ k <= Len(Reading') => TextAt(pass.window, k) <= Reading'[k].v
    BY <1>5, <1>6, <2>1 DEF Older
  <2>4. ASSUME NEW k \in 1..at, k <= pass.size PROVE Taken(k, TextAt(pass.window, k))'
    <3>1. PICK v : v = TextAt(pass.window, k)
      OBVIOUS
    <3>2. Taken(k, v)'
      <4>1. CASE k \in 1..pass.pos
        BY <1>14, <2>1, <2>4, <3>1, <4>1
      <4>2. CASE k = at
        <5>1. k \in 1..pass.size
          BY <1>3, <2>2, <2>4, <4>2
        <5>2. v \in 0..written /\ v <= r.v
          <6>1. v <= Reading[k].v
            BY <1>3, <1>7, <2>1, <3>1, <4>2, <5>1
          <6> QED  BY <1>2, <2>2, <3>1, <4>2, <5>1, <6>1
        <5>3. Has(k, v) => v = r.v
          BY <1>7, <1>9, <4>2, <5>2 DEF Has, Older
        <5> QED  BY <1>3, <1>6, <4>2, <5>3 DEF Taken, Has
      <4> QED  BY <1>13, <4>1, <4>2
    <3> QED  BY <1>5, <3>1, <3>2
  <2> QED  BY <1>3, <1>5, <2>1, <2>3, <2>4 DEF Opened
<1>17. Streamed'
  <2> SUFFICES ASSUME ~ pass.mem PROVE Streamed'
    BY <1>5 DEF Streamed
  <2>1. PICK f : f = files[pass.ino]
    OBVIOUS
  <2>2. r = f.data[at] /\ at <= Len(f.data) /\ files'[pass'.ino] = f
    BY <1>2, <1>3, <1>4, <1>5, <1>7, <2>1 DEF Reading
  <2>3. /\ pass.ctime <= f.ctime /\ pass.mtime <= f.mtime
        /\ \A k \in 1..pass.pos :
              k <= Len(f.data) => Taken(k, f.data[k].v) \/ FoundOut(k)
    BY <1>3, <2>1 DEF Truth, PassTruth, Streamed
  <2>4. ASSUME NEW k \in 1..at, k <= Len(f.data) PROVE Taken(k, f.data[k].v)' \/ FoundOut(k)'
    <3>1. PICK v : v = f.data[k].v
      OBVIOUS
    <3>2. CASE k = at
      BY <1>3, <2>2, <3>1, <3>2 DEF Taken
    <3>3. CASE k \in 1..pass.pos /\ Taken(k, v)
      BY <1>14, <3>1, <3>3
    <3>4. CASE FoundOut(k)
      BY <1>4, <1>5, <1>15, <3>4 DEF FoundOut, Stirred
    <3> QED  BY <1>13, <2>3, <2>4, <3>1, <3>2, <3>3, <3>4
  <2> QED  BY <1>3, <1>5, <2>2, <2>3, <2>4 DEF Streamed
<1>18. Redigested'
  BY <1>3, <1>5 DEF Redigested
<1>19. Beside
  BY <1>4, <1>5 DEF Beside
<1> QED  BY <1>10, <1>11, <1>12, <1>16, <1>17, <1>18, <1>19, TruthPass DEF PassTruth
-----------------------------------------------------------------------------
(* The end of a pass.                                                      *)

\* A pass that moves on to the next step of its end, with everything it has.
MovesOn ==
    /\ UNCHANGED world /\ rows' = rows /\ doc' = doc /\ check' = check /\ unseen' = unseen
    /\ Windowed(pass) /\ Windowed(pass')
    /\ pass'.saved = pass.saved /\ pass'.ino = pass.ino
    /\ pass'.mem = pass.mem /\ pass'.bytes = pass.bytes /\ pass'.pos = pass.pos
    /\ pass'.size = pass.size /\ pass'.mtime = pass.mtime /\ pass'.ctime = pass.ctime
    /\ pass'.window = pass.window /\ pass'.held = pass.held /\ pass'.missed = pass.missed

LEMMA MovingOn ==
    ASSUME Typed, Truth, MovesOn
    PROVE  /\ GroundKept /\ SettleKept /\ ReadsOlder' /\ Opened' /\ Beside
           /\ files' = files /\ path' = path /\ CommitPoint' = CommitPoint
           /\ \A k, v : Taken(k, v) => Taken(k, v)'
<1>1. now' = now /\ files' = files /\ path' = path
  BY DEF MovesOn, world
<1>2. /\ pass'.saved = pass.saved /\ pass'.ino = pass.ino
      /\ pass'.mem = pass.mem /\ pass'.bytes = pass.bytes /\ pass'.pos = pass.pos
      /\ pass'.size = pass.size /\ pass'.window = pass.window /\ pass'.held = pass.held
      /\ pass'.missed = pass.missed /\ rows' = rows /\ unseen' = unseen
      /\ pass.pc # "idle" /\ pass'.pc # "idle"
  BY DEF MovesOn, Windowed
<1>3. File' = File /\ Reading' = Reading /\ Size(File)' = Size(File) /\ CommitPoint' = CommitPoint
  BY <1>1, <1>2 DEF File, Reading, Size, CommitPoint
<1>4. GroundKept /\ SettleKept /\ ReadsOlder'
  BY <1>1, <1>2, <1>3, StillKept DEF Truth, PassTruth
<1>5. \A k, v : Taken(k, v) => Taken(k, v)'
  BY <1>2, <1>3 DEF Taken, Has, Got
<1>6. Opened'
  BY <1>2, <1>3 DEF Truth, PassTruth, Opened, MovesOn, Older, Taken, Has, Got
<1>7. Beside
  BY <1>1, <1>2 DEF Beside, MovesOn
<1> QED  BY <1>1, <1>3, <1>4, <1>5, <1>6, <1>7

\* Until the digest of the committed prefix, a pass that moves on has what it had.
LEMMA StreamsOn ==
    ASSUME Typed, Truth, MovesOn, pass.pc \in {"walk", "commit", "window"},
           pass'.pc # "window" => pass.pc # "window"
    PROVE  Streamed'
<1>1. /\ pass'.pc # "idle" /\ pass'.pc # "copied" /\ pass'.ino = pass.ino /\ pass'.mem = pass.mem
      /\ pass'.pos = pass.pos /\ pass'.size = pass.size /\ pass'.mtime = pass.mtime
      /\ pass'.ctime = pass.ctime /\ pass'.window = pass.window /\ Windowed(pass) /\ Windowed(pass')
  BY DEF MovesOn, Windowed
<1>2. files' = files /\ \A k, v : Taken(k, v) => Taken(k, v)'
  BY MovingOn
<1> SUFFICES ASSUME ~ pass.mem PROVE Streamed'
  BY <1>1 DEF Streamed
<1>3. PICK f : f = files[pass.ino]
  OBVIOUS
<1>4. /\ pass.ctime <= f.ctime /\ pass.mtime <= f.mtime
      /\ \A k \in 1..pass.pos : k <= Len(f.data) => Taken(k, f.data[k].v) \/ FoundOut(k)
  BY <1>3 DEF Truth, PassTruth, Streamed
<1>5. files'[pass'.ino] = f
  BY <1>1, <1>2, <1>3
<1>6. ASSUME NEW k \in 1..pass.pos, k <= Len(f.data) PROVE Taken(k, f.data[k].v)' \/ FoundOut(k)'
  <2>1. PICK v : v = f.data[k].v
    OBVIOUS
  <2>2. CASE Taken(k, v)
    BY <1>2, <2>1, <2>2
  <2>3. CASE FoundOut(k)
    BY <1>1, <1>2, <2>3 DEF FoundOut, Stirred
  <2> QED  BY <1>4, <1>6, <2>1, <2>2, <2>3
<1> QED  BY <1>1, <1>4, <1>5, <1>6 DEF Streamed

LEMMA TruthEnd ==
    ASSUME Typed, Truth, End
    PROVE  Truth'
<1>1. /\ pass.pc = "walk" /\ pass' = [pass EXCEPT !.pc = "commit"]
      /\ UNCHANGED <<world, rows, doc, check, unseen>>
  BY DEF End
<1>2. MovesOn /\ pass'.pc = "commit"
  BY <1>1 DEF Typed, PassOK, Shaped, MovesOn, Windowed
<1>3. GroundKept /\ SettleKept /\ ReadsOlder' /\ Opened' /\ Beside
  BY <1>2, MovingOn
<1>4. Streamed'
  BY <1>1, <1>2, StreamsOn
<1>5. Redigested'
  BY <1>2 DEF Redigested
<1> QED  BY <1>3, <1>4, <1>5, TruthPass DEF PassTruth

\* A pass whose file was rewritten ends with the cursor it loaded, which is known.
LEMMA TruthSupersede ==
    ASSUME Typed, Truth, Supersede, UNCHANGED <<world, rows, check, unseen>>
    PROVE  Truth'
<1>1. PICK d : d = pass.saved
  OBVIOUS
<1>2. doc' = d /\ pass' = NoPass
  BY <1>1 DEF Supersede
<1> QED  BY <1>1, <1>2, TruthEnds

\* Nothing was rewritten under a stat that did not move, where the pass could see it.
LEMMA TruthCommitStat ==
    ASSUME Typed, Truth, CommitStat
    PROVE  Truth'
<1>1. PICK s : s = StatOf(CommitInode)
  OBVIOUS
<1>2. /\ pass.pc = "commit" /\ UNCHANGED <<world, rows, check, unseen>>
      /\ \/ Supersede
         \/ /\ s.ino = pass.ino /\ doc' = doc
            /\ pass' = [pass EXCEPT !.pc = IF StatMoved(s) THEN "window" ELSE "prefix",
                                    !.moved = StatMoved(s),
                                    !.newsize = s.size, !.newmtime = s.mtime]
  BY <1>1 DEF CommitStat
<1>3. CASE Supersede
  BY <1>2, <1>3, TruthSupersede
<1>4. CASE /\ s.ino = pass.ino /\ doc' = doc
           /\ pass' = [pass EXCEPT !.pc = IF StatMoved(s) THEN "window" ELSE "prefix",
                                   !.moved = StatMoved(s),
                                   !.newsize = s.size, !.newmtime = s.mtime]
  <2>1. /\ pass'.pc = (IF StatMoved(s) THEN "window" ELSE "prefix")
        /\ pass'.moved = StatMoved(s)
    BY <1>4 DEF Typed, PassOK, Shaped
  <2>2. pass'.pc \in {"window", "prefix"}
    BY <2>1
  <2>3. MovesOn
    BY <1>2, <1>4, <2>2 DEF Typed, PassOK, Shaped, MovesOn, Windowed
  <2>4. /\ GroundKept /\ SettleKept /\ ReadsOlder' /\ Opened' /\ Beside
        /\ files' = files /\ path' = path /\ CommitPoint' = CommitPoint
        /\ \A k, v : Taken(k, v) => Taken(k, v)'
    BY <2>3, MovingOn
  <2>5. Streamed'
    BY <1>2, <2>3, StreamsOn
  <2>6. Redigested'
    <3> SUFFICES ASSUME pass'.pc = "prefix", Redigests', NEW k \in 1..CommitPoint,
                        k <= Len(CommitData')
                 PROVE  Taken(k, CommitData[k].v)'
      BY <2>4 DEF Redigested
    <3>1. ~ StatMoved(s)
      BY <2>1
    <3>2. pass'.mem = pass.mem /\ pass'.ino = pass.ino /\ pass.mem \in BOOLEAN
      BY <2>3 DEF MovesOn, Typed, PassOK
    <3>3. ~ pass.mem
      BY <2>1, <3>1, <3>2 DEF Redigests
    <3>4. PICK f : f = files[pass.ino]
      OBVIOUS
    <3>5. CommitData' = f.data /\ CommitInode = pass.ino
      BY <2>4, <3>2, <3>3, <3>4 DEF CommitData, CommitInode
    <3>6. f.mtime = pass.mtime /\ f.ctime = pass.ctime
      BY <1>1, <3>1, <3>4, <3>5 DEF StatMoved, StatOf
    <3>7. k \in 1..pass.pos
      BY CommitPointTyped DEF Typed, PassOK
    <3>8. Taken(k, f.data[k].v) \/ FoundOut(k)
      BY <1>2, <3>3, <3>4, <3>5, <3>7 DEF Truth, PassTruth, Streamed
    <3>9. pass.mtime \in Nat /\ pass.ctime \in Nat
      BY DEF Typed, PassOK
    <3>10. ~ FoundOut(k)
      BY <1>2, <3>4, <3>6, <3>9 DEF FoundOut, Stirred
    <3>11. PICK v : v = f.data[k].v
      OBVIOUS
    <3>12. Taken(k, v)'
      BY <2>4, <3>8, <3>10, <3>11
    <3> QED  BY <3>5, <3>11, <3>12
  <2> QED  BY <2>4, <2>5, <2>6, TruthPass DEF PassTruth
<1> QED  BY <1>2, <1>3, <1>4

\* The opened window is as it was: what was read within it is what the file has.
LEMMA TruthCommitRehash ==
    ASSUME Typed, Truth, CommitRehash
    PROVE  Truth'
<1>1. /\ pass.pc = "window" /\ UNCHANGED <<world, rows, check, unseen>>
      /\ \/ pass' = NoPass /\ doc' = doc
         \/ Supersede
         \/ /\ Len(CommitData) >= pass.size /\ CommitWindow = pass.window /\ doc' = doc
            /\ pass' = [pass EXCEPT !.pc = "prefix", !.since = CommitSince]
  BY DEF CommitRehash
<1>2. CASE pass' = NoPass /\ doc' = doc
  <2>1. PICK d : d = doc
    OBVIOUS
  <2> QED  BY <1>1, <1>2, <2>1, TruthEnds
<1>3. CASE Supersede
  BY <1>1, <1>3, TruthSupersede
<1>4. CASE /\ Len(CommitData) >= pass.size /\ CommitWindow = pass.window /\ doc' = doc
           /\ pass' = [pass EXCEPT !.pc = "prefix", !.since = CommitSince]
  <2>1. pass'.pc = "prefix" /\ pass.mem \in BOOLEAN
    BY <1>4 DEF Typed, PassOK, Shaped
  <2>2. MovesOn
    BY <1>1, <1>4, <2>1 DEF Typed, PassOK, Shaped, MovesOn, Windowed
  <2>3. /\ GroundKept /\ SettleKept /\ ReadsOlder' /\ Opened' /\ Beside
        /\ files' = files /\ path' = path /\ CommitPoint' = CommitPoint
        /\ \A k, v : Taken(k, v) => Taken(k, v)'
    BY <2>2, MovingOn
  <2>4. Windowed(pass) /\ pass'.mem = pass.mem /\ pass'.ino = pass.ino
    BY <2>2 DEF MovesOn
  <2>5. Streamed'
    <3>1. ~ pass.mem => /\ pass.ctime <= files[pass.ino].ctime
                        /\ pass.mtime <= files[pass.ino].mtime
      BY <1>1 DEF Truth, PassTruth, Streamed
    <3> QED  BY <2>1, <2>2, <2>3, <3>1 DEF Streamed, MovesOn
  <2>6. PICK f, data : f = files[CommitInode] /\ data = CommitData
    OBVIOUS
  <2>7. /\ data \in Seq(Rec) /\ data = f.data /\ Len(data) \in 0..MaxLen
        /\ pass.size \in 0..MaxLen /\ pass.pos \in 0..MaxLen
    BY <2>4, <2>6, CommitFileTyped DEF Typed, PassOK, Size
  <2>8. \A k \in 1..pass.size : TextAt(pass.window, k) = data[k].v
    <3>1. pass.size \in 0..Len(data) /\ pass.size <= MaxLen
      BY <1>4, <2>6, <2>7, Bounds
    <3>2. pass.window = Digest(data, pass.size)
      BY <1>4, <2>6 DEF CommitWindow
    <3> QED  BY <2>7, <3>1, <3>2, DigestReads
  <2>9. Redigested'
    <3> SUFFICES ASSUME NEW k \in 1..CommitPoint, k <= Len(CommitData')
                 PROVE  Taken(k, CommitData[k].v)'
      BY <2>3 DEF Redigested
    <3>1. CommitData' = data
      BY <2>3, <2>4, <2>6 DEF CommitData, CommitInode
    <3>2. k \in 1..pass.pos /\ k \in Nat
      BY CommitPointTyped DEF Typed, PassOK
    <3>3. PICK v : v = data[k].v
      OBVIOUS
    <3>4. Taken(k, v)
      <4>1. CASE pass.mem
        <5>1. k \in 1..pass.size
          BY <2>4, <2>7, <3>2, <4>1 DEF Typed, PassOK, WindowOK
        <5>2. Taken(k, TextAt(pass.window, k))
          BY <2>4, <2>7, <3>2, <5>1 DEF Truth, PassTruth, Opened
        <5> QED  BY <2>8, <3>3, <5>1, <5>2
      <4>2. CASE ~ pass.mem
        <5>1. data = files[pass.ino].data
          BY <2>6, <2>7, <4>2 DEF CommitInode
        <5>2. Taken(k, v) \/ FoundOut(k)
          BY <1>1, <3>1, <3>2, <3>3, <4>2, <5>1 DEF Truth, PassTruth, Streamed
        <5>3. ~ FoundOut(k)
          <6>1. ASSUME FoundOut(k) PROVE FALSE
            <7>1. k <= pass.size /\ data[k].v # TextAt(pass.window, k)
              BY <5>1, <6>1 DEF FoundOut
            <7>2. k \in 1..pass.size
              BY <2>7, <3>2, <7>1
            <7> QED  BY <2>8, <7>1, <7>2
          <6> QED  BY <6>1
        <5> QED  BY <5>2, <5>3
      <4> QED  BY <2>1, <4>1, <4>2
    <3>5. Taken(k, v)'
      BY <2>3, <3>4
    <3> QED  BY <3>1, <3>3, <3>5
  <2> QED  BY <2>3, <2>5, <2>9, TruthPass DEF PassTruth
<1> QED  BY <1>1, <1>2, <1>3, <1>4

\* What a commit publishes is a digest of what the pass has, and of nothing newer than the file.
LEMMA PublishedReads ==
    ASSUME Typed, Truth, pass.pc = "prefix", Redigests => Len(CommitData) >= CommitPoint,
           NEW k \in 1..CommitPoint, NEW v, v = TextAt(CommitPrefix, k)
    PROVE  Older(k, v) /\ Taken(k, v) /\ Got(k) = rows[k]
<1>1. PICK n, data : n = CommitPoint /\ data = CommitData
  OBVIOUS
<1>2. /\ n \in 0..pass.pos /\ n \in 0..MaxLen /\ (pass.held # None => n < pass.pos)
      /\ pass.pos \in 0..MaxLen /\ pass.size \in 0..MaxLen /\ pass.mem \in BOOLEAN
  BY <1>1, CommitPointTyped DEF Typed, PassOK
<1>3. k \in 1..n /\ k \in 1..pass.pos /\ n <= pass.pos /\ n <= MaxLen
  BY <1>1, <1>2, Bounds
<1>4. Got(k) = rows[k]
  BY <1>2, <1>3 DEF Got
<1>5. Windowed(pass) /\ pass.pc # "idle"
  BY DEF Windowed
<1>6. ASSUME NEW i \in 1..pass.size
      PROVE  /\ Older(i, TextAt(pass.window, i))
             /\ pass.mem => TextAt(pass.window, i) = pass.bytes[i].v
             /\ i \in 1..pass.pos => Taken(i, TextAt(pass.window, i))
  BY <1>2, <1>5 DEF Truth, PassTruth, Opened
<1>7. CASE n = pass.size
  <2>1. CommitPrefix = pass.window
    BY <1>1, <1>7 DEF CommitPrefix
  <2> QED  BY <1>3, <1>4, <1>6, <1>7, <2>1
<1>8. CASE n # pass.size /\ Redigests
  <2>1. CommitPrefix = Digest(data, n)
    BY <1>1, <1>8 DEF CommitPrefix
  <2>2. data \in Seq(Rec) /\ Len(data) \in 0..MaxLen
    <3>1. PICK f : f = files[CommitInode]
      OBVIOUS
    <3> QED  BY <1>1, <1>5, <3>1, CommitFileTyped DEF Size
  <2>3. n \in 0..Len(data)
    BY <1>1, <1>2, <1>8, <2>2, Bounds
  <2>4. TextAt(CommitPrefix, k) = data[k].v /\ k \in 1..Len(data)
    BY <1>3, <2>1, <2>2, <2>3, DigestReads, Bounds
  <2>5. Taken(k, v)
    BY <1>1, <1>3, <1>8, <2>2, <2>4 DEF Truth, PassTruth, Redigested
  <2>6. Older(k, v)
    <3>1. CASE pass.mem
      <4>1. data = File.data
        BY <1>1, <3>1 DEF CommitData, CommitInode, File
      <4>2. v \in Nat
        BY <2>2, <2>4, TextsOf
      <4> QED  BY <2>4, <4>1, <4>2 DEF Older
    <3>2. CASE ~ pass.mem
      <4>1. data = Reading
        BY <1>1, <3>2 DEF CommitData, CommitInode, Reading
      <4> QED  BY <1>5, <2>4, <4>1 DEF Truth, PassTruth, ReadsOlder
    <3> QED  BY <1>2, <3>1, <3>2
  <2> QED  BY <1>4, <2>5, <2>6
<1>9. CASE n # pass.size /\ ~ Redigests
  <2>1. pass.mem /\ CommitPrefix = Digest(pass.bytes, n)
    BY <1>1, <1>2, <1>9 DEF CommitPrefix, Redigests
  <2>2. pass.bytes \in Seq(Rec) /\ Len(pass.bytes) = pass.size /\ pass.pos <= pass.size
    BY <1>5, <2>1 DEF Typed, PassOK, WindowOK, DataOK
  <2>3. n \in 0..Len(pass.bytes) /\ k \in 1..pass.size
    BY <1>2, <1>3, <2>2, Bounds
  <2>4. TextAt(CommitPrefix, k) = pass.bytes[k].v
    BY <1>3, <2>1, <2>2, <2>3, DigestReads
  <2>5. v = TextAt(pass.window, k)
    BY <1>6, <2>1, <2>3, <2>4
  <2> QED  BY <1>3, <1>4, <1>6, <2>3, <2>5
<1> QED  BY <1>7, <1>8, <1>9

LEMMA TruthCommitStore ==
    ASSUME Typed, Truth, CommitStore
    PROVE  Truth'
<1>1. /\ pass.pc = "prefix" /\ pass' = NoPass /\ UNCHANGED <<world, rows, check>>
      /\ \/ UNCHANGED <<doc, unseen>>
         \/ /\ Redigests => Len(CommitData) >= CommitPoint
            /\ doc' = [pass.saved EXCEPT !.file = Published]
            /\ unseen' = unseen \cup pass.missed
  BY DEF CommitStore
<1>2. CASE UNCHANGED <<doc, unseen>>
  <2>1. PICK d : d = doc
    OBVIOUS
  <2> QED  BY <1>1, <1>2, <2>1, TruthEnds
<1>3. CASE /\ Redigests => Len(CommitData) >= CommitPoint
           /\ doc' = [pass.saved EXCEPT !.file = Published]
           /\ unseen' = unseen \cup pass.missed
  <2>1. now' = now /\ files' = files /\ path' = path /\ rows' = rows /\ check' = check
    BY <1>1 DEF world
  <2>2. GroundKept /\ SettleKept
    BY <1>1, <1>3, <2>1, EndsKept
  <2>3. PICK s, c : s = pass.saved /\ c = check.doc
    OBVIOUS
  <2>4. Knows(s)' /\ Knows(c)' /\ DocOK(s)
    BY <2>2, <2>3, CopyLasts, CopiesTyped
  <2>5. Knows(pass.saved)' /\ Knows(check.doc)'
    <3>1. pass'.saved = NoDoc /\ check'.doc = c
      BY <1>1, <2>1, <2>3 DEF NoPass
    <3> QED  BY <2>4, <3>1 DEF Knows, Backed, NoDoc
  <2>6. PICK p, n : p = Published /\ n = CommitPoint
    OBVIOUS
  <2>7. doc'.file = p /\ doc'.settled = s.settled
    BY <1>3, <2>3, <2>4, <2>6 DEF DocOK
  <2>8. p.offset = n /\ p.hash = CommitPrefix
    BY <2>6 DEF Published
  <2>9. File' = File /\ Size(File)' = Size(File)
    BY <2>1 DEF File, Size
  <2>10. ASSUME NEW k \in 1..n PROVE Grounded(k, TextAt(p.hash, k))'
    <3>1. PICK v : v = TextAt(p.hash, k)
      OBVIOUS
    <3>2. Older(k, v) /\ Taken(k, v) /\ Got(k) = rows[k]
      BY <1>1, <1>3, <2>6, <2>8, <3>1, PublishedReads
    <3>3. Older(k, v)'
      BY <2>9, <3>2 DEF Older
    <3>4. pass'.pc = "idle" /\ pass'.held = None
      BY <1>1 DEF NoPass
    <3>5. (Has(k, v) => rows[k] = v \/ v \in unseen)'
      BY <1>3, <2>1, <2>9, <3>2 DEF Taken, Has
    <3>6. Grounded(k, v)'
      BY <3>3, <3>4, <3>5 DEF Grounded
    <3> QED  BY <3>1, <3>6
  <2>11. Backed(p)'
    BY <2>8, <2>10 DEF Backed
  <2>12. Backed(doc.file)'
    BY <2>7, <2>11 DEF Backed
  <2>13. (doc.settled # None => Settles(doc.settled.ctime, doc.settled.hash))'
    BY <2>4, <2>7 DEF Knows
  <2>14. PassTruth' /\ Proved'
    BY <1>1, <2>1, NoPassTruth, ProvedKept DEF Truth
  <2> QED  BY <2>5, <2>12, <2>13, <2>14 DEF Truth, Knows
<1> QED  BY <1>1, <1>2, <1>3
-----------------------------------------------------------------------------
(* The invariant, and what it gives.                                       *)

LEMMA TruthNext ==
    ASSUME Typed, Truth, MaxStall < SettleWindow, [Next]_vars
    PROVE  Truth'
<1>1. CASE Provider
  <2>1. PICK data, ino, mtime : Stored(data, ino, mtime)
    BY <1>1, ProviderStores DEF Typed
  <2> QED  BY <2>1, TruthProvider
<1>2. ASSUME NEW mem \in BOOLEAN, Hydrate(mem) PROVE Truth'
  <2>1. Open(mem, "hydration") /\ check' = check
    BY <1>2 DEF Hydrate
  <2>2. /\ Knows(doc)' /\ Knows(pass.saved)' /\ PassTruth'
        /\ GroundKept /\ SettleKept /\ now' = now /\ files' = files /\ path' = path
    BY <2>1, TruthOpen
  <2>3. PICK c : c = check.doc
    OBVIOUS
  <2>4. Knows(c)'
    BY <2>2, <2>3, CopyLasts
  <2>5. Knows(check.doc)'
    BY <2>1, <2>3, <2>4 DEF Knows, Backed
  <2>6. Proved'
    BY <2>1, <2>2, ProvedKept DEF Truth
  <2> QED  BY <2>2, <2>5, <2>6 DEF Truth
<1>3. ASSUME NEW mem \in BOOLEAN, SweepRead(mem) PROVE Truth'
  <2>1. Open(mem, "sweep") /\ check' = NoCheck
    BY <1>3 DEF SweepRead
  <2>2. Knows(doc)' /\ Knows(pass.saved)' /\ PassTruth'
    BY <2>1, TruthOpen
  <2>3. check'.doc = NoDoc /\ check'.pc = "idle"
    BY <2>1 DEF NoCheck
  <2>4. Knows(check.doc)'
    BY <2>3 DEF Knows, Backed, NoDoc
  <2> QED  BY <2>2, <2>3, <2>4 DEF Truth, Proved
<1>4. CASE UNCHANGED vars
  <2>1. /\ now' = now /\ files' = files /\ path' = path /\ rows' = rows
        /\ doc' = doc /\ pass' = pass /\ check' = check /\ unseen' = unseen
    BY <1>4 DEF vars, world
  <2>2. GroundKept /\ SettleKept /\ PassTruth'
    BY <2>1, PassKept DEF Truth
  <2>3. Knows(doc)' /\ Knows(pass.saved)' /\ Knows(check.doc)'
    BY <2>1, <2>2, AllKnow
  <2>4. Proved'
    BY <2>1, ProvedKept DEF Truth
  <2> QED  BY <2>2, <2>3, <2>4 DEF Truth
<1>5. CASE OpenSaved \/ OpenWindow \/ OpenBytes
  BY <1>5, TruthOpenSaved, TruthOpenWindow, TruthOpenBytes
<1>6. CASE Read \/ End \/ Abort
  BY <1>6, TruthRead, TruthEnd, TruthAbort
<1>7. CASE CommitStat \/ CommitRehash \/ CommitStore
  BY <1>7, TruthCommitStat, TruthCommitRehash, TruthCommitStore
<1>8. CASE Load \/ Stat \/ Restat \/ Prove \/ Settle
  BY <1>8, TruthLoad, TruthStat, TruthRestat, TruthProve, TruthSettle
<1> QED
  BY <1>1, <1>2, <1>3, <1>4, <1>5, <1>6, <1>7, <1>8, TruthTick DEF Next

\* A skip on a settled stat: the file is the one that was digested.
LEMMA SettledSkip ==
    ASSUME Typed, Truth, Stat, check'.pc = "idle"
    PROVE  RowsMatch(Size(File))
<1>1. PICK d : d = check.doc
  OBVIOUS
<1>2. d.file # None /\ SameStat(d.file) /\ SettledProvesUnchanged(d)
  BY <1>1 DEF Stat, NoCheck, Changed, Typed, CheckOK
<1>3. /\ CursorOK(d.file) /\ Backed(d.file)
      /\ (d.settled # None => Settles(d.settled.ctime, d.settled.hash))
  BY <1>1 DEF Typed, CheckOK, DocOK, Truth, Knows
<1>4. d.file.offset = Size(File) /\ d.file.hash[1] = d.file.offset
  BY <1>2, <1>3 DEF SameStat, CursorOK, DigestOK
<1>5. d.file.hash = Digest(File.data, d.file.offset)
  BY <1>2, <1>3, <1>4 DEF SettledProvesUnchanged, Settles
<1>6. DataOK(File.data) /\ Size(File) = Len(File.data) /\ Size(File) \in 0..MaxLen
  BY FileTyped DEF Typed
<1>7. Matches(d.file, File.data)
  BY <1>4, <1>5, <1>6, Bounds DEF Matches
<1>8. \A k \in 1..d.file.offset :
         TextAt(d.file.hash, k) = File.data[k].v /\ Grounded(k, TextAt(d.file.hash, k))
  BY <1>2, <1>3, <1>6, <1>7, ValidRows
<1>9. ASSUME NEW k \in 1..Size(File) PROVE rows[k] = File.data[k].v \/ File.data[k].v \in unseen
  BY <1>4, <1>6, <1>8 DEF Grounded, Has
<1> QED  BY <1>9 DEF RowsMatch

\* A sweep that skips a transcript skips nothing a pass could have seen (transcript_unchanged):
\* every record behind the cursor has its text in the database, whether the file was settled or
\* digested, however it was appended to, rewritten, truncated or replaced before and between any
\* two stats, digests and reads, but for a text written where the pass that published the cursor
\* was blind.  The clock is read within the settle window of the digest.
THEOREM SkipsNothing ==
    ASSUME MaxStall < SettleWindow
    PROVE  Spec => SkipSound
<1> DEFINE A == /\ (check.pc = "loaded" /\ check'.pc = "idle") => RowsMatch(Size(File))
                /\ (check.pc = "allowed" /\ check'.pc = "proved")
                      => RowsMatch(check.doc.file.offset)
<1>1. Init => Typed /\ Truth
  BY TypedInit, TruthInit
<1>2. Typed /\ Truth /\ [Next]_vars => Typed' /\ Truth'
  BY TypedNext, TruthNext
<1>3. Typed /\ Truth /\ [Next]_vars => A
  <2> SUFFICES ASSUME Typed, Truth, [Next]_vars PROVE A
    OBVIOUS
  <2>1. \/ check' = check \/ Load \/ Stat \/ Restat \/ Prove \/ Settle
        \/ check.pc = "changed" \/ check.pc = "idle"
    BY DEF Next, vars, Provider, Append1, Rewrite, Truncate, Replace, Writes, Tick, Hydrate,
           SweepRead, OpenSaved, OpenWindow, OpenBytes, Read, End, CommitStat, CommitRehash,
           CommitStore, Abort
  <2>2. ASSUME check.pc = "loaded", check'.pc = "idle" PROVE RowsMatch(Size(File))
    <3>1. Stat
      BY <2>1, <2>2 DEF Load, Restat, Prove, Settle
    <3> QED  BY <2>2, <3>1, SettledSkip
  <2>3. ASSUME check.pc = "allowed", check'.pc = "proved" PROVE RowsMatch(check.doc.file.offset)
    <3>1. Prove
      BY <2>1, <2>3 DEF Load, Stat, Restat, Settle
    <3>2. Matches(check.doc.file, File.data)
      BY <2>3, <3>1 DEF Prove, NoCheck, Changed
    <3>3. PICK c : c = check.doc.file
      OBVIOUS
    <3>4. c # None /\ CursorOK(c) /\ Backed(c) /\ DataOK(File.data)
      BY <2>3, <3>3, FileTyped DEF Typed, CheckOK, DocOK, Truth, Knows
    <3>5. /\ c.offset \in 0..Len(File.data)
          /\ \A k \in 1..c.offset :
                TextAt(c.hash, k) = File.data[k].v /\ Grounded(k, TextAt(c.hash, k))
      BY <3>2, <3>3, <3>4, ValidRows
    <3>6. \A k \in 1..c.offset : rows[k] = File.data[k].v \/ File.data[k].v \in unseen
      BY <3>5, FileTyped DEF Grounded, Has, Typed
    <3> QED  BY <3>3, <3>6 DEF RowsMatch
  <2> QED  BY <2>2, <2>3
<1>4. Typed /\ Truth /\ [Next]_vars => [A]_vars
  BY <1>3
<1>5. SkipSound <=> [][A]_vars
  BY DEF SkipSound
<1> HIDE DEF A
<1> QED  BY <1>1, <1>2, <1>4, <1>5, PTL DEF Spec
=============================================================================
