--------------------------- MODULE ManifestProofs ---------------------------
(***************************************************************************)
(* Proofs about Manifest, for any number of clients, servers, attempts and *)
(* faults: neither side loses what the other wrote, no client disowns what *)
(* was acknowledged, the marker vouches for no more than the objects hold, *)
(* current output is what it says, and no unit of the source is listed     *)
(* twice while nobody restores a backup.                                   *)
(***************************************************************************)
EXTENDS Manifest, Extrema, SequenceTheorems

-----------------------------------------------------------------------------
(* The inductive invariant.                                                *)

\* Puts that the store may still take: of calls, and on the wire.
Pending ==
    {[by |-> w, expect |-> call[w].expect, body |-> call[w].body] :
        w \in {x \in Writers : call[x] # None /\ call[x].pc = "put"}} \cup late

\* t continues s.
Extends(t, s) == Len(s) <= Len(t) /\ \A i \in 1..Len(s) : t[i] = s[i]

\* What a call is about, and how many manifests were stored since it began.
InCall(w) ==
    call[w] # None =>
        /\ w \in Servers => call[w].edit.kind \in {"transform", "lifecycle"}
        /\ w \in Clients => call[w].edit.kind \in {"create", "append", "take"} /\ call[w].edit.by = w
        /\ call[w].edit.kind # "create" => remote # None
        /\ call[w].edit.kind = "take" => ack[w] = None
        /\ call[w].since + call[w].attempt - 1 <= version
        /\ call[w].pc = "put" => /\ call[w].body # None
                                 /\ call[w].since + call[w].attempt - 1 <= call[w].expect

\* What the store would replace by a put that it may take: the other side's
\* section is in it, and what the client saw acknowledged.
Carries(p) ==
    /\ p.expect <= version
    /\ p.expect = version =>
          /\ p.by \in Servers => remote # None /\ p.body.raw = remote.raw
          /\ p.by \in Clients /\ remote # None =>
                /\ p.body.server = remote.server
                /\ remote.raw.owner # p.by => p.body.raw = [remote.raw EXCEPT !.owner = p.by]
                /\ Extends(p.body.raw.chunks, remote.raw.chunks)
          /\ p.by \in Clients /\ ack[p.by] # None =>
                Extends(ContentSha256(p.body.raw.chunks), ack[p.by].content)

\* Nothing is acknowledged before there is a manifest.
Started == remote = None => \A c \in Clients : ack[c] = None

\* The manifests that are stored, were, or may come to be.
Documents == ({remote, backup} \cup {p.body : p \in Pending}) \ {None}

\* A transform is recorded with what it read.
Truthful(m) ==
    m.server # None /\ m.server.normalized # None =>
        m.server.normalized.built = <<m.server.normalized.content, m.server.normalized.epoch>>

\* A chunk is stored, as what it says it went through.
Backed(e) == StoredAs(e) # {} /\ (e.scrub # 0 => \A o \in StoredAs(e) : o.scrub = e.scrub)

Covered(m) ==
    \A i \in DOMAIN m.raw.chunks :
        /\ Backed(m.raw.chunks[i])
        /\ m.raw.scrub # None => m.raw.scrub <= m.raw.chunks[i].scrub /\ m.raw.chunks[i].scrub # 0

OneObject == \A o, q \in objects : o.key = q.key => o = q

Uploaded(w) ==
    call[w] # None /\ call[w].edit.kind = "append" =>
        \A i \in DOMAIN call[w].edit.entries : Backed(call[w].edit.entries[i])

Calls == \A w \in Writers : InCall(w) /\ Uploaded(w)
Puts == \A p \in Pending : Carries(p)
Docs == \A m \in Documents : Truthful(m) /\ Covered(m)

IInv == TypeOK /\ Calls /\ Puts /\ Started /\ Docs /\ OneObject

-----------------------------------------------------------------------------
(* The same for SourceOnce, while nobody restores.                         *)

Unrestored == budget["restores"] = 0 /\ backup = None

\* The chunks read the source's contents one after the other, an epoch each.
InOrder(chunks) ==
    \A i, j \in 1..Len(chunks) : i < j =>
        /\ chunks[i].data <= chunks[j].data
        /\ chunks[i].epoch = chunks[j].epoch <=> chunks[i].data = chunks[j].data

\* The epoch lists chunks, the last of the list among them ...
Reads(raw) ==
    LET last == raw.chunks[Len(raw.chunks)]
    IN  raw.epoch = last.epoch /\ raw.next_offset = last.offset + 1

\* ... or it was opened over an empty source, and lists none.
Emptied(raw) ==
    /\ raw.next_offset = 0
    /\ \A i \in 1..Len(raw.chunks) :
          raw.chunks[i].epoch < raw.epoch /\ raw.chunks[i].data < source.gen

Ordered(raw) ==
    /\ raw.chunks = <<>> => raw.next_offset = 0
    /\ raw.chunks # <<>> => Reads(raw) \/ Emptied(raw)
    /\ \A i \in 1..Len(raw.chunks) :
          /\ raw.chunks[i].seq = i - 1 /\ raw.chunks[i].epoch <= raw.epoch
          /\ raw.chunks[i].data <= source.gen
          /\ raw.chunks[i].data = source.gen => raw.chunks[i].offset < source.len
    /\ InOrder(raw.chunks)

\* Chunks at the end of a list continue its epoch, whose content they read, or
\* open one for a content that is new to it.
Follows(added, old, epoch, later) ==
    /\ later \in {epoch, epoch + 1}
    /\ \A i \in 1..Len(added) : added[i].data = added[1].data /\ added[i].epoch = later
    /\ \A i \in 1..Len(old) : old[i].epoch <= epoch
    /\ \A i \in 1..Len(old) :
          IF later = epoch
          THEN /\ old[i].data <= added[1].data
               /\ old[i].epoch = epoch <=> old[i].data = added[1].data
          ELSE old[i].data < added[1].data

\* The chunks a call lists are a reading of one content; where they would be
\* applied they continue its epoch, or open one for a content that is new.
Lists(e) ==
    LET first == e.entries[1]
        raw == remote.raw
    IN  /\ \A i \in DOMAIN e.entries :
              LET c == e.entries[i]
              IN  /\ c.epoch = first.epoch /\ c.data = first.data
                  /\ c.data <= source.gen /\ (c.data = source.gen => c.offset < source.len)
        /\ Len(raw.chunks) >= first.seq
        /\ first.epoch <= (IF e.opens THEN raw.epoch + 1 ELSE raw.epoch)
        /\ Len(raw.chunks) = first.seq /\ first.epoch = (IF e.opens THEN raw.epoch + 1 ELSE raw.epoch) =>
              \A i \in DOMAIN raw.chunks :
                 IF e.opens THEN raw.chunks[i].data < first.data
                 ELSE /\ raw.chunks[i].data <= first.data
                      /\ raw.chunks[i].epoch = raw.epoch <=> raw.chunks[i].data = first.data

\* A call that only opens an epoch does so over one whose content is gone.
Reopens(e) ==
    LET raw == remote.raw
        last == raw.chunks[Len(raw.chunks)]
    IN  /\ e.opens /\ e.from <= raw.epoch
        /\ raw.epoch = e.from => raw.chunks # <<>> /\ last.epoch = raw.epoch /\ last.data < source.gen

Continues(e) == IF e.entries = <<>> THEN Reopens(e) ELSE Lists(e)

\* A put that the store may take lists the source in order, no less of it, and
\* in no earlier epoch.
Grows(p) ==
    p.expect = version =>
        /\ Ordered(p.body.raw)
        /\ remote # None =>
              /\ Extends(p.body.raw.chunks, remote.raw.chunks)
              /\ p.body.raw.epoch >= remote.raw.epoch

\* The appends that calls are about.
Appends == {call[w].edit : w \in {x \in Writers : call[x] # None /\ call[x].edit.kind = "append"}}

Readings ==
    /\ Unrestored
    /\ remote # None => Ordered(remote.raw)
    /\ \A e \in Appends : Continues(e)
    /\ \A p \in Pending : Grows(p)

-----------------------------------------------------------------------------
(* Sequences.                                                              *)

\* IsPrefix of the community modules, element by element.
LEMMA PrefixExtends ==
    ASSUME NEW S, NEW s \in Seq(S), NEW t \in Seq(S)
    PROVE  IsPrefix(s, t) <=> Extends(t, s)
<1>1. Len(s) \in Nat /\ Len(t) \in Nat
  OBVIOUS
<1>2. SubSeq(s, 1, Len(s)) = s
  OBVIOUS
<1>3. CASE Len(s) <= Len(t)
  <2>1. /\ SubSeq(t, 1, Len(s)) \in Seq(S) /\ Len(SubSeq(t, 1, Len(s))) = Len(s)
        /\ \A i \in 1..Len(s) : SubSeq(t, 1, Len(s))[i] = t[i]
    BY <1>1, <1>3
  <2>2. s = SubSeq(t, 1, Len(s)) <=> \A i \in 1..Len(s) : t[i] = s[i]
    <3>1. ASSUME \A i \in 1..Len(s) : t[i] = s[i] PROVE s = SubSeq(t, 1, Len(s))
      BY <2>1, <3>1, SeqEqual
    <3> QED  BY <2>1, <3>1
  <2> QED  BY <1>2, <1>3, <2>2 DEF IsPrefix, Extends
<1>4. CASE ~(Len(s) <= Len(t))
  BY <1>4 DEF IsPrefix, Extends
<1> QED  BY <1>3, <1>4

\* A list continues itself, and what continues a continuation continues it.
LEMMA ExtendsItself ==
    ASSUME NEW S, NEW s \in Seq(S)
    PROVE  Extends(s, s)
BY DEF Extends

LEMMA ExtendsOn ==
    ASSUME NEW S, NEW s \in Seq(S), NEW t \in Seq(S), NEW u \in Seq(S), Extends(t, s), Extends(u, t)
    PROVE  Extends(u, s)
BY DEF Extends

\* A list with more at its end continues it.
LEMMA ExtendsConcat ==
    ASSUME NEW S, NEW s \in Seq(S), NEW t \in Seq(S)
    PROVE  /\ s \o t \in Seq(S) /\ Len(s \o t) = Len(s) + Len(t)
           /\ Extends(s \o t, s)
           /\ \A i \in 1..Len(s) : (s \o t)[i] = s[i]
           /\ \A i \in 1..Len(t) : (s \o t)[Len(s) + i] = t[i]
           /\ \A i \in 1..Len(s \o t) : \/ i \in 1..Len(s) /\ (s \o t)[i] = s[i]
                                        \/ i - Len(s) \in 1..Len(t) /\ (s \o t)[i] = t[i - Len(s)]
BY DEF Extends

LEMMA ConcatAt ==
    ASSUME NEW S, NEW s \in Seq(S), NEW t \in Seq(S), NEW u \in Seq(S), u = s \o t, NEW i \in 1..Len(u)
    PROVE  \/ i \in 1..Len(s) /\ u[i] = s[i]
           \/ i - Len(s) \in 1..Len(t) /\ u[i] = t[i - Len(s)]
OBVIOUS

\* The fields of the chunks of a list.
LEMMA ChunksType ==
    ASSUME NEW chunks \in Seq(Entry)
    PROVE  /\ Len(chunks) \in Nat /\ DOMAIN chunks = 1..Len(chunks)
           /\ \A i \in 1..Len(chunks) :
                 /\ chunks[i] \in Entry
                 /\ chunks[i].seq \in Nat /\ chunks[i].epoch \in Nat /\ chunks[i].offset \in Nat
                 /\ chunks[i].data \in Nat /\ chunks[i].scrub \in Nat
<1>1. Len(chunks) \in Nat /\ DOMAIN chunks = 1..Len(chunks) /\ \A i \in 1..Len(chunks) : chunks[i] \in Entry
  OBVIOUS
<1>2. \A c \in Entry : c.seq \in Nat /\ c.epoch \in Nat /\ c.offset \in Nat /\ c.data \in Nat /\ c.scrub \in Nat
  BY DEF Entry
<1> QED  BY <1>1, <1>2

\* The chain over chunks is a list of contents, and continues with them.
LEMMA ContentType ==
    ASSUME NEW chunks \in Seq(Entry)
    PROVE  /\ ContentSha256(chunks) \in Seq(Content) /\ Len(ContentSha256(chunks)) = Len(chunks)
           /\ \A i \in 1..Len(chunks) :
                 ContentSha256(chunks)[i] =
                    [epoch |-> chunks[i].epoch, offset |-> chunks[i].offset, data |-> chunks[i].data]
<1>1. DOMAIN chunks = 1..Len(chunks) /\ Len(chunks) \in Nat /\ \A i \in 1..Len(chunks) : chunks[i] \in Entry
  OBVIOUS
<1>2. ContentSha256(chunks) \in [1..Len(chunks) -> Content]
  BY <1>1 DEF ContentSha256, Content, Entry
<1> QED  BY <1>1, <1>2 DEF ContentSha256

LEMMA ContentExtends ==
    ASSUME NEW s \in Seq(Entry), NEW t \in Seq(Entry), Extends(t, s)
    PROVE  Extends(ContentSha256(t), ContentSha256(s))
<1>1. Len(s) \in Nat /\ Len(t) \in Nat
  BY ChunksType
<1>2. /\ Len(ContentSha256(t)) = Len(t) /\ Len(ContentSha256(s)) = Len(s)
      /\ \A i \in 1..Len(s) : ContentSha256(s)[i] =
            [epoch |-> s[i].epoch, offset |-> s[i].offset, data |-> s[i].data]
      /\ \A i \in 1..Len(t) : ContentSha256(t)[i] =
            [epoch |-> t[i].epoch, offset |-> t[i].offset, data |-> t[i].data]
  BY ContentType
<1>3. \A i \in 1..Len(s) : i \in 1..Len(t) /\ t[i] = s[i]
  BY <1>1 DEF Extends
<1> QED  BY <1>1, <1>2, <1>3 DEF Extends

\* The end of an epoch is an offset; where the last chunk is of the epoch, it
\* is the end of that.
LEMMA EpochEndType ==
    ASSUME NEW chunks \in Seq(Entry), NEW epoch \in Nat
    PROVE  /\ EpochEnd(chunks, epoch) \in Nat
           /\ chunks # <<>> /\ chunks[Len(chunks)].epoch = epoch =>
                 EpochEnd(chunks, epoch) = chunks[Len(chunks)].offset + 1
           /\ chunks = <<>> => EpochEnd(chunks, epoch) = 0
<1> DEFINE of == {i \in DOMAIN chunks : chunks[i].epoch = epoch}
<1>1. /\ Len(chunks) \in Nat /\ DOMAIN chunks = 1..Len(chunks)
      /\ \A i \in DOMAIN chunks : chunks[i].offset \in Nat
  BY ChunksType
<1>2. of \in SUBSET Nat /\ of \subseteq DOMAIN chunks /\ \A n \in of : n <= Len(chunks)
  BY <1>1
<1>3. EpochEnd(chunks, epoch) = IF of = {} THEN 0 ELSE chunks[Max(of)].offset + 1
  BY DEF EpochEnd
<1>4. chunks # <<>> /\ chunks[Len(chunks)].epoch = epoch => Len(chunks) \in of
  BY <1>1
<1>5. chunks = <<>> => of = {}
  BY <1>1
<1> HIDE DEF of
<1>6. of # {} => Max(of) \in of /\ Max(of) <= Len(chunks) /\ \A n \in of : n <= Max(of)
  BY <1>1, <1>2, MaxIsGreatest
<1>7. Len(chunks) \in of => of # {} /\ Max(of) = Len(chunks)
  <2> SUFFICES ASSUME Len(chunks) \in of PROVE Max(of) = Len(chunks)
    OBVIOUS
  <2>1. Max(of) \in Nat /\ Max(of) <= Len(chunks) /\ Len(chunks) <= Max(of)
    BY <1>2, <1>6
  <2> QED  BY <1>1, <2>1
<1>8. EpochEnd(chunks, epoch) \in Nat
  <2>1. CASE of = {}
    BY <1>3, <2>1
  <2>2. CASE of # {}
    <3>1. chunks[Max(of)].offset \in Nat
      BY <1>1, <1>2, <1>6, <2>2
    <3> QED  BY <1>3, <2>2, <3>1
  <2> QED  BY <2>1, <2>2
<1> QED  BY <1>3, <1>4, <1>5, <1>7, <1>8

-----------------------------------------------------------------------------
(* The document's operations.                                              *)

LEMMA RawType ==
    ASSUME NEW raw \in RawSection
    PROVE  /\ raw.owner \in Clients /\ raw.epoch \in Nat /\ raw.epochs \in Seq(Nat)
           /\ raw.next_offset \in Nat /\ raw.chunks \in Seq(Entry) /\ raw.scrub \in Nat \cup {None}
           /\ raw # None
BY NoneAssumption DEF RawSection

LEMMA DocType ==
    ASSUME NEW m \in Doc
    PROVE  m.revision \in Nat /\ m.raw \in RawSection /\ m.server \in ServerFields \cup {None} /\ m # None
BY NoneAssumption DEF Doc

\* recompute touches the list and its end only.
LEMMA RecomputeType ==
    ASSUME NEW raw \in RawSection, NEW chunks \in Seq(Entry)
    PROVE  LET new == Recompute(raw, chunks)
           IN  /\ new \in RawSection
               /\ new.owner = raw.owner /\ new.epoch = raw.epoch /\ new.scrub = raw.scrub
               /\ new.chunks = chunks /\ new.next_offset = EpochEnd(chunks, raw.epoch)
<1>1. raw.epoch \in Nat
  BY RawType
<1>2. EpochEnd(chunks, raw.epoch) \in Nat
  BY <1>1, EpochEndType
<1> QED  BY <1>2 DEF Recompute, RawSection

LEMMA OpenEpochType ==
    ASSUME NEW raw \in RawSection
    PROVE  LET new == OpenEpoch(raw)
           IN  /\ new \in RawSection
               /\ new.owner = raw.owner /\ new.epoch = raw.epoch + 1 /\ new.scrub = raw.scrub
               /\ new.chunks = raw.chunks /\ new.next_offset = 0
<1>1. raw.chunks \in Seq(Entry) /\ raw.epochs \in Seq(Nat) /\ raw.epoch \in Nat
  BY RawType
<1>2. Len(raw.chunks) \in Nat
  BY <1>1, ChunksType
<1>3. Append(raw.epochs, Len(raw.chunks)) \in Seq(Nat)
  BY <1>1, <1>2
<1>4. PICK epochs \in Seq(Nat) : epochs = Append(raw.epochs, Len(raw.chunks))
  BY <1>3
<1>5. PICK epoch \in Nat : epoch = raw.epoch + 1
  BY <1>1
<1>6. OpenEpoch(raw) = [raw EXCEPT !.epoch = epoch, !.epochs = epochs, !.next_offset = 0]
  BY <1>4, <1>5 DEF OpenEpoch, RawSection
<1>7. [raw EXCEPT !.epoch = epoch, !.epochs = epochs, !.next_offset = 0] \in RawSection
  BY DEF RawSection
<1>8. LET new == [raw EXCEPT !.epoch = epoch, !.epochs = epochs, !.next_offset = 0]
      IN  /\ new.owner = raw.owner /\ new.epoch = epoch /\ new.scrub = raw.scrub
          /\ new.chunks = raw.chunks /\ new.next_offset = 0
  BY DEF RawSection
<1> QED  BY <1>5, <1>6, <1>7, <1>8

\* The marker is at most what each new chunk went through, and at most what it
\* was.
LEMMA VouchType ==
    ASSUME NEW raw \in RawSection, NEW entries \in Seq(Entry), Vouch(raw, entries) # None
    PROVE  LET new == Vouch(raw, entries)
           IN  /\ new \in RawSection
               /\ new.owner = raw.owner /\ new.epoch = raw.epoch /\ new.chunks = raw.chunks
               /\ new.next_offset = raw.next_offset
               /\ new.scrub # None =>
                     /\ \A i \in DOMAIN entries : entries[i].scrub # 0 => new.scrub <= entries[i].scrub
                     /\ raw.chunks # <<>> => raw.scrub # None /\ new.scrub <= raw.scrub
<1> DEFINE versions == {e.scrub : e \in Range(entries)} \ {0}
<1>1. \A i \in DOMAIN entries : entries[i].scrub \in Nat /\ (entries[i].scrub # 0 => entries[i].scrub \in versions)
  BY ChunksType DEF Range
<1>2. versions \in SUBSET Nat
  BY ChunksType DEF Range
<1>3. raw.scrub \in Nat \cup {None} /\ None \notin Nat /\ (raw.scrub # None => raw.scrub \in Nat)
  BY RawType, NoneAssumption
<1>4. Vouch(raw, entries) = IF versions = {} THEN raw ELSE RecordScrub(raw, Min(versions))
  BY DEF Vouch
<1> HIDE DEF versions
<1>5. CASE versions = {}
  <2>1. Vouch(raw, entries) = raw
    BY <1>4, <1>5
  <2>2. raw.scrub # None => raw.scrub <= raw.scrub
    BY <1>3
  <2> QED  BY <1>1, <1>5, <2>1, <2>2
<1>6. CASE versions # {}
  <2>1. Min(versions) \in Nat /\ \A n \in versions : Min(versions) <= n
    BY <1>2, <1>6, MinIsLeast
  <2>2. PICK low : low = Min(versions)
    OBVIOUS
  <2>3. low \in Nat /\ \A i \in DOMAIN entries : entries[i].scrub # 0 => low <= entries[i].scrub
    BY <1>1, <2>1, <2>2
  <2>4. Vouch(raw, entries) = RecordScrub(raw, low)
    BY <1>4, <1>6, <2>2
  <2>5. CASE raw.scrub = None \/ low < raw.scrub
    <3>1. Vouch(raw, entries) = [raw EXCEPT !.scrub = low] /\ (raw.scrub = None => raw.chunks = <<>>)
      BY <2>4, <2>5 DEF RecordScrub
    <3>2. /\ [raw EXCEPT !.scrub = low] \in RawSection /\ [raw EXCEPT !.scrub = low].scrub = low
          /\ [raw EXCEPT !.scrub = low].owner = raw.owner /\ [raw EXCEPT !.scrub = low].epoch = raw.epoch
          /\ [raw EXCEPT !.scrub = low].chunks = raw.chunks
          /\ [raw EXCEPT !.scrub = low].next_offset = raw.next_offset
      BY <2>3 DEF RawSection
    <3>3. raw.scrub # None => low <= raw.scrub
      BY <1>3, <2>3, <2>5
    <3> QED  BY <2>3, <3>1, <3>2, <3>3
  <2>6. CASE raw.scrub # None /\ ~(low < raw.scrub)
    <3>1. Vouch(raw, entries) = raw
      BY <2>4, <2>6 DEF RecordScrub
    <3>2. raw.scrub \in Nat /\ raw.scrub <= low
      BY <1>3, <2>3, <2>6
    <3>3. \A i \in DOMAIN entries : entries[i].scrub # 0 => raw.scrub <= entries[i].scrub
      BY <1>1, <2>3, <3>2
    <3> QED  BY <2>6, <3>1, <3>2, <3>3
  <2> QED  BY <2>5, <2>6
<1> QED  BY <1>5, <1>6

\* Chunks are applied only where they were planned to go.
LEMMA ApplyChunksType ==
    ASSUME NEW raw \in RawSection, NEW entries \in Seq(Entry), ApplyChunks(raw, entries) # None
    PROVE  LET new == ApplyChunks(raw, entries)
           IN  /\ new \in RawSection
               /\ new.owner = raw.owner /\ new.epoch = raw.epoch /\ new.scrub = raw.scrub
               /\ new.chunks = raw.chunks \o entries
               /\ new.next_offset = EpochEnd(raw.chunks \o entries, raw.epoch)
               /\ entries # <<>> => /\ entries[1].seq = Len(raw.chunks) /\ entries[1].epoch = raw.epoch
                                    /\ entries[1].offset = raw.next_offset
<1>1. ApplyChunks(raw, entries) = Recompute(raw, raw.chunks \o entries)
  BY DEF ApplyChunks
<1>2. PICK list \in Seq(Entry) : list = raw.chunks \o entries
  BY RawType, ExtendsConcat
<1>3. entries # <<>> => /\ entries[1].seq = Len(raw.chunks) /\ entries[1].epoch = raw.epoch
                        /\ entries[1].offset = raw.next_offset
  BY DEF ApplyChunks
<1>4. LET new == Recompute(raw, list)
      IN  /\ new \in RawSection
          /\ new.owner = raw.owner /\ new.epoch = raw.epoch /\ new.scrub = raw.scrub
          /\ new.chunks = list /\ new.next_offset = EpochEnd(list, raw.epoch)
  BY RecomputeType
<1> QED  BY <1>1, <1>2, <1>3, <1>4

-----------------------------------------------------------------------------
(* What an edit makes of the manifest read.                                *)

LEMMA EditType ==
    ASSUME NEW e \in Edits
    PROVE  /\ e.kind \in {"create", "take", "append", "transform", "lifecycle"}
           /\ e.kind \in {"create", "take", "append"} => e.by \in Clients
           /\ e.kind = "append" => e.opens \in BOOLEAN /\ e.from \in Nat /\ e.entries \in Seq(Entry)
           /\ e.kind = "transform" => e.read \in Doc
           /\ e.kind = "lifecycle" => e.decided \in {"active", "idle", "archived"}
<1>1. CASE e \in [kind : {"create", "take"}, by : Clients]
  BY <1>1
<1>2. CASE e \in [kind : {"append"}, by : Clients, from : Nat, opens : BOOLEAN, entries : Seq(Entry)]
  <2>1. e.kind = "append" /\ e.by \in Clients /\ e.from \in Nat /\ e.entries \in Seq(Entry)
    BY <1>2
  <2>2. e.opens \in BOOLEAN
    BY <1>2, Zenon
  <2> QED  BY <2>1, <2>2
<1>3. CASE e \in [kind : {"transform"}, read : Doc]
  BY <1>3
<1>4. CASE e \in [kind : {"lifecycle"}, decided : {"active", "idle", "archived"}]
  BY <1>4
<1> QED  BY <1>1, <1>2, <1>3, <1>4 DEF Edits

LEMMA CallType ==
    ASSUME NEW k \in Call
    PROVE  /\ k # None /\ k.pc \in {"read", "put"} /\ k.edit \in Edits /\ k.attempt \in 1..MaxAttempts
           /\ k.attempt \in Nat /\ k.since \in Nat /\ k.expect \in Nat /\ k.body \in Doc \cup {None}
<1>1. k # None
  BY NoneAssumption
<1>2. k.pc \in {"read", "put"} /\ k.edit \in Edits /\ k.attempt \in 1..MaxAttempts
      /\ k.since \in Nat /\ k.expect \in Nat /\ k.body \in Doc \cup {None}
  BY DEF Call
<1> QED  BY <1>1, <1>2, ManifestAssumption

\* A copy with another raw section, and with another server section.
LEMMA WithRawType ==
    ASSUME NEW m \in Doc, NEW raw \in RawSection
    PROVE  LET new == WithRaw(m, raw)
           IN  /\ new \in Doc /\ new.revision = m.revision + 1
               /\ new.raw = raw /\ new.server = m.server
<1>1. m.revision \in Nat /\ raw # None
  BY DocType, RawType
<1>2. PICK n \in Nat : n = m.revision + 1
  BY <1>1
<1>3. WithRaw(m, raw) = [m EXCEPT !.raw = raw, !.revision = n]
  BY <1>1, <1>2 DEF WithRaw, Bump, Doc
<1>4. [m EXCEPT !.raw = raw, !.revision = n] \in Doc
  BY DEF Doc
<1>5. LET new == [m EXCEPT !.raw = raw, !.revision = n]
      IN  new.revision = n /\ new.raw = raw /\ new.server = m.server
  BY DEF Doc
<1> QED  BY <1>2, <1>3, <1>4, <1>5

LEMMA WithServerType ==
    ASSUME NEW m \in Doc, NEW server \in ServerFields
    PROVE  LET new == WithServer(m, server)
           IN  /\ new \in Doc /\ new.revision = m.revision + 1
               /\ new.raw = m.raw /\ new.server = server
<1>1. m.revision \in Nat /\ server # None
  BY DocType, NoneAssumption
<1>2. PICK n \in Nat : n = m.revision + 1
  BY <1>1
<1>3. WithServer(m, server) = [m EXCEPT !.server = server, !.revision = n]
  BY <1>1, <1>2 DEF WithServer, Bump, Doc
<1>4. [m EXCEPT !.server = server, !.revision = n] \in Doc
  BY DEF Doc
<1>5. LET new == [m EXCEPT !.server = server, !.revision = n]
      IN  new.revision = n /\ new.raw = m.raw /\ new.server = server
  BY DEF Doc
<1> QED  BY <1>2, <1>3, <1>4, <1>5

\* A manifest nobody wrote to has no server section; the first write makes one.
LEMMA ServerSectionType ==
    ASSUME NEW m \in Doc
    PROVE  /\ ServerSection(m) \in ServerFields
           /\ Truthful(m) => (ServerSection(m).normalized # None =>
                ServerSection(m).normalized.built =
                    <<ServerSection(m).normalized.content, ServerSection(m).normalized.epoch>>)
<1>1. m.server \in ServerFields \cup {None}
  BY DocType
<1>2. [normalized |-> None, lifecycle |-> "active"] \in ServerFields
  BY DEF ServerFields
<1> QED  BY <1>1, <1>2 DEF ServerSection, Truthful

\* What the transform records is what it read.
LEMMA TransformEdited ==
    ASSUME NEW m \in Doc, NEW read \in Doc
    PROVE  LET new == WithServer(m, WithNormalized(read, m))
           IN  new \in Doc /\ new.raw = m.raw /\ Truthful(new)
<1>1. ServerSection(m) \in ServerFields
  BY ServerSectionType
<1>2. PICK content \in Seq(Content) : content = ContentSha256(read.raw.chunks)
  BY DocType, RawType, ContentType
<1>3. PICK epoch \in Nat : epoch = read.raw.epoch
  BY DocType, RawType
<1>4. PICK section \in NormalizedSection :
         section = [content |-> content, epoch |-> epoch, built |-> <<content, epoch>>]
  BY DEF NormalizedSection
<1>5. section.built = <<section.content, section.epoch>>
  BY <1>4
<1>6. WithNormalized(read, m) = [ServerSection(m) EXCEPT !.normalized = section]
  BY <1>2, <1>3, <1>4 DEF WithNormalized, Normalized
<1>7. /\ [ServerSection(m) EXCEPT !.normalized = section] \in ServerFields
      /\ [ServerSection(m) EXCEPT !.normalized = section].normalized = section
  BY <1>1 DEF ServerFields
<1>8. PICK server \in ServerFields : server = WithNormalized(read, m) /\ server.normalized = section
  BY <1>6, <1>7
<1>9. LET new == WithServer(m, server) IN new \in Doc /\ new.raw = m.raw /\ new.server = server
  BY WithServerType
<1> QED  BY <1>5, <1>8, <1>9 DEF Truthful

LEMMA LifecycleEdited ==
    ASSUME NEW m \in Doc, Truthful(m), NEW decided \in {"active", "idle", "archived"},
           WithServer(m, WithLifecycle(m, decided)) # None
    PROVE  LET new == WithServer(m, WithLifecycle(m, decided))
           IN  new \in Doc /\ new.raw = m.raw /\ Truthful(new)
<1>1. PICK old \in ServerFields : old = ServerSection(m)
  BY ServerSectionType
<1>2. PICK lifecycle \in {"active", "idle", "archived"} :
         lifecycle = IF old.lifecycle = "archived" THEN "archived" ELSE decided
  OBVIOUS
<1>3. WithLifecycle(m, decided) = [old EXCEPT !.lifecycle = lifecycle]
  BY <1>1, <1>2 DEF WithLifecycle, WithServer
<1>4. /\ [old EXCEPT !.lifecycle = lifecycle] \in ServerFields
      /\ [old EXCEPT !.lifecycle = lifecycle].normalized = old.normalized
  BY DEF ServerFields
<1>5. PICK server \in ServerFields :
         server = WithLifecycle(m, decided) /\ server.normalized = old.normalized
  BY <1>3, <1>4
<1>6. LET new == WithServer(m, server) IN new \in Doc /\ new.raw = m.raw /\ new.server = server
  BY WithServerType
<1>7. old.normalized # None => old.normalized.built = <<old.normalized.content, old.normalized.epoch>>
  BY <1>1, ServerSectionType
<1> QED  BY <1>5, <1>6, <1>7 DEF Truthful

\* A client writes on only what it owns and has all of what it saw.
LEMMA ClassifyWrites ==
    ASSUME NEW m \in Doc, NEW c \in Clients, NEW a \in Ack \cup {None}, MayWrite(Classify(m, c, a))
    PROVE  /\ m.raw.owner = c
           /\ a # None => Extends(ContentSha256(m.raw.chunks), a.content)
<1>1. m.raw.owner = c
  BY DEF MayWrite, Classify
<1>2. a # None => IsPrefix(a.content, ContentSha256(m.raw.chunks))
  BY <1>1 DEF MayWrite, Classify
<1>3. ContentSha256(m.raw.chunks) \in Seq(Content) /\ (a # None => a.content \in Seq(Content))
  BY DocType, RawType, ContentType DEF Ack
<1> QED  BY <1>1, <1>2, <1>3, PrefixExtends

\* An append lists its chunks at the end of the owner's list, under a marker
\* that covers both.
LEMMA AppendEdited ==
    ASSUME NEW m \in Doc, NEW e \in Edits, e.kind = "append", ack[e.by] \in Ack \cup {None},
           AppendEdit(m, e) # None
    PROVE  LET new == AppendEdit(m, e)
           IN  /\ new \in Doc /\ new.server = m.server /\ m.raw.owner = e.by /\ new.raw.owner = e.by
               /\ ack[e.by] # None => Extends(ContentSha256(m.raw.chunks), ack[e.by].content)
               /\ new.raw.chunks = m.raw.chunks \o e.entries
               /\ new.raw.epoch = (IF e.opens THEN m.raw.epoch + 1 ELSE m.raw.epoch)
               /\ e.opens => m.raw.epoch = e.from
               /\ new.raw.next_offset = EpochEnd(new.raw.chunks, new.raw.epoch)
               /\ new.raw.scrub # None =>
                     /\ \A i \in DOMAIN e.entries : e.entries[i].scrub # 0 => new.raw.scrub <= e.entries[i].scrub
                     /\ m.raw.chunks # <<>> => m.raw.scrub # None /\ new.raw.scrub <= m.raw.scrub
               /\ e.entries # <<>> =>
                     /\ e.entries[1].seq = Len(m.raw.chunks) /\ e.entries[1].epoch = new.raw.epoch
                     /\ e.entries[1].offset = (IF e.opens THEN 0 ELSE m.raw.next_offset)
<1>1. e.by \in Clients /\ e.opens \in BOOLEAN /\ e.entries \in Seq(Entry) /\ m # None
  BY EditType, DocType
<1>2. MayWrite(Classify(m, e.by, ack[e.by])) /\ (e.opens => m.raw.epoch = e.from)
  BY <1>1 DEF AppendEdit
<1>3. m.raw.owner = e.by /\ (ack[e.by] # None => Extends(ContentSha256(m.raw.chunks), ack[e.by].content))
  BY <1>1, <1>2, ClassifyWrites
<1>4. PICK opened \in RawSection :
         /\ opened = (IF e.opens THEN OpenEpoch(m.raw) ELSE m.raw)
         /\ opened.owner = m.raw.owner /\ opened.scrub = m.raw.scrub /\ opened.chunks = m.raw.chunks
         /\ opened.epoch = (IF e.opens THEN m.raw.epoch + 1 ELSE m.raw.epoch)
         /\ opened.next_offset = (IF e.opens THEN 0 ELSE m.raw.next_offset)
  <2>1. m.raw \in RawSection
    BY DocType
  <2>2. CASE e.opens
    BY <2>1, <2>2, OpenEpochType
  <2>3. CASE ~e.opens
    BY <2>1, <2>3
  <2> QED  BY <1>1, <2>2, <2>3
<1>5. AppendEdit(m, e) = IF Vouch(opened, e.entries) = None THEN None
                         ELSE WithRaw(m, ApplyChunks(Vouch(opened, e.entries), e.entries))
  BY <1>1, <1>2, <1>4 DEF AppendEdit
<1>6. PICK vouched \in RawSection :
         /\ vouched = Vouch(opened, e.entries)
         /\ vouched.owner = opened.owner /\ vouched.epoch = opened.epoch
         /\ vouched.chunks = opened.chunks /\ vouched.next_offset = opened.next_offset
         /\ vouched.scrub # None =>
               /\ \A i \in DOMAIN e.entries : e.entries[i].scrub # 0 => vouched.scrub <= e.entries[i].scrub
               /\ opened.chunks # <<>> => opened.scrub # None /\ vouched.scrub <= opened.scrub
  BY <1>1, <1>5, VouchType
<1>7. AppendEdit(m, e) = WithRaw(m, ApplyChunks(vouched, e.entries)) /\ ApplyChunks(vouched, e.entries) # None
  BY <1>5, <1>6 DEF WithRaw
<1>8. PICK raw \in RawSection :
         /\ raw = ApplyChunks(vouched, e.entries)
         /\ raw.owner = vouched.owner /\ raw.epoch = vouched.epoch /\ raw.scrub = vouched.scrub
         /\ raw.chunks = vouched.chunks \o e.entries
         /\ raw.next_offset = EpochEnd(vouched.chunks \o e.entries, vouched.epoch)
         /\ e.entries # <<>> =>
               /\ e.entries[1].seq = Len(vouched.chunks) /\ e.entries[1].epoch = vouched.epoch
               /\ e.entries[1].offset = vouched.next_offset
  BY <1>1, <1>7, ApplyChunksType
<1>9. PICK new \in Doc : new = AppendEdit(m, e) /\ new.raw = raw /\ new.server = m.server
  BY <1>7, <1>8, WithRawType
<1>10. new.raw.owner = e.by /\ new.raw.chunks = m.raw.chunks \o e.entries /\ new.raw.epoch = opened.epoch
       /\ new.raw.next_offset = EpochEnd(new.raw.chunks, new.raw.epoch)
  <2>1. new.raw.owner = e.by /\ new.raw.epoch = opened.epoch
    BY <1>3, <1>4, <1>6, <1>8, <1>9, ZenonT(30)
  <2>2. vouched.chunks = m.raw.chunks
    BY <1>4, <1>6
  <2>3. new.raw.chunks = vouched.chunks \o e.entries /\ new.raw.epoch = vouched.epoch
        /\ new.raw.next_offset = EpochEnd(vouched.chunks \o e.entries, vouched.epoch)
    BY <1>8, <1>9, Zenon
  <2> QED  BY <2>1, <2>2, <2>3, Zenon
<1>11. new.raw.scrub # None =>
          /\ \A i \in DOMAIN e.entries : e.entries[i].scrub # 0 => new.raw.scrub <= e.entries[i].scrub
          /\ m.raw.chunks # <<>> => m.raw.scrub # None /\ new.raw.scrub <= m.raw.scrub
  BY <1>4, <1>6, <1>8, <1>9
<1>12. e.entries # <<>> =>
          /\ e.entries[1].seq = Len(m.raw.chunks) /\ e.entries[1].epoch = new.raw.epoch
          /\ e.entries[1].offset = (IF e.opens THEN 0 ELSE m.raw.next_offset)
  BY <1>4, <1>6, <1>8, <1>9, ZenonT(30)
<1> QED  BY <1>2, <1>3, <1>4, <1>9, <1>10, <1>11, <1>12

\* The same, of the marker and the objects: what it lists is stored.
LEMMA AppendCovered ==
    ASSUME NEW m \in Doc, NEW e \in Edits, e.kind = "append", ack[e.by] \in Ack \cup {None},
           AppendEdit(m, e) # None, Valid(AppendEdit(m, e)), Covered(m),
           \A i \in DOMAIN e.entries : Backed(e.entries[i])
    PROVE  Covered(AppendEdit(m, e))
<1>1. PICK new : new = AppendEdit(m, e)
  OBVIOUS
<1>2. /\ new \in Doc /\ new.raw.chunks = m.raw.chunks \o e.entries
      /\ new.raw.scrub # None =>
            /\ \A i \in DOMAIN e.entries : e.entries[i].scrub # 0 => new.raw.scrub <= e.entries[i].scrub
            /\ m.raw.chunks # <<>> => m.raw.scrub # None /\ new.raw.scrub <= m.raw.scrub
  BY <1>1, AppendEdited
<1>3. m.raw.chunks \in Seq(Entry) /\ e.entries \in Seq(Entry)
  BY EditType, DocType, RawType
<1>4. /\ DOMAIN m.raw.chunks = 1..Len(m.raw.chunks) /\ DOMAIN e.entries = 1..Len(e.entries)
      /\ Len(m.raw.chunks) \in Nat
      /\ \A i \in DOMAIN m.raw.chunks : m.raw.chunks[i].scrub \in Nat
  BY <1>3, ChunksType
<1>5. new.raw.scrub # None => new.raw.scrub \in Nat /\ \A i \in DOMAIN new.raw.chunks : new.raw.chunks[i].scrub # 0
  <2>1. new.raw.scrub # None => new.raw.scrub \in Nat
    BY <1>2, DocType, RawType
  <2>2. Valid(new)
    BY <1>1
  <2> QED  BY <2>1, <2>2 DEF Valid
<1>6. m.raw.scrub # None => m.raw.scrub \in Nat
  BY DocType, RawType
<1>7. ASSUME NEW i \in DOMAIN new.raw.chunks
      PROVE  /\ Backed(new.raw.chunks[i])
             /\ new.raw.scrub # None => new.raw.scrub <= new.raw.chunks[i].scrub /\ new.raw.chunks[i].scrub # 0
  <2>1. \/ i \in 1..Len(m.raw.chunks) /\ new.raw.chunks[i] = m.raw.chunks[i]
        \/ i - Len(m.raw.chunks) \in 1..Len(e.entries) /\ new.raw.chunks[i] = e.entries[i - Len(m.raw.chunks)]
    <3>1. PICK old \in Seq(Entry), added \in Seq(Entry), list \in Seq(Entry) :
             old = m.raw.chunks /\ added = e.entries /\ list = new.raw.chunks
      BY <1>2, <1>3, DocType, RawType
    <3>2. list = old \o added
      BY <1>2, <3>1
    <3>3. i \in 1..Len(list)
      BY <3>1, ChunksType
    <3>4. \/ i \in 1..Len(old) /\ list[i] = old[i]
          \/ i - Len(old) \in 1..Len(added) /\ list[i] = added[i - Len(old)]
      BY <3>2, <3>3, ConcatAt
    <3> QED  BY <3>1, <3>4
  <2>2. CASE i \in 1..Len(m.raw.chunks) /\ new.raw.chunks[i] = m.raw.chunks[i]
    <3>1. /\ Backed(m.raw.chunks[i]) /\ (m.raw.scrub # None => m.raw.scrub <= m.raw.chunks[i].scrub)
          /\ m.raw.chunks[i].scrub \in Nat /\ m.raw.chunks # <<>>
      BY <1>4, <2>2 DEF Covered
    <3>2. new.raw.scrub # None => new.raw.scrub <= m.raw.chunks[i].scrub
      <4> SUFFICES ASSUME new.raw.scrub # None PROVE new.raw.scrub <= m.raw.chunks[i].scrub
        OBVIOUS
      <4>1. PICK a \in Nat, b \in Nat, d \in Nat : a = new.raw.scrub /\ b = m.raw.scrub /\ d = m.raw.chunks[i].scrub
        BY <1>2, <1>5, <1>6, <3>1
      <4>2. a <= b /\ b <= d
        BY <1>2, <3>1, <4>1, NoneAssumption
      <4> QED  BY <4>1, <4>2
    <3> QED  BY <1>5, <2>2, <3>1, <3>2
  <2>3. CASE i - Len(m.raw.chunks) \in 1..Len(e.entries) /\ new.raw.chunks[i] = e.entries[i - Len(m.raw.chunks)]
    <3>1. PICK k \in DOMAIN e.entries : new.raw.chunks[i] = e.entries[k]
      BY <1>4, <2>3
    <3> QED  BY <1>2, <1>5, <3>1
  <2> QED  BY <2>1, <2>2, <2>3
<1> QED  BY <1>1, <1>7 DEF Covered

\* A takeover changes the owner and nothing else.
LEMMA TakeEdited ==
    ASSUME NEW m \in Doc, NEW c \in Clients
    PROVE  LET new == WithRaw(m, [m.raw EXCEPT !.owner = c])
           IN  /\ new \in Doc /\ new.server = m.server /\ new.raw = [m.raw EXCEPT !.owner = c]
               /\ new.raw.chunks = m.raw.chunks /\ new.raw.scrub = m.raw.scrub
               /\ new.raw.epoch = m.raw.epoch /\ new.raw.next_offset = m.raw.next_offset
<1>1. PICK raw : raw = [m.raw EXCEPT !.owner = c]
  OBVIOUS
<1>2. m.raw \in RawSection
  BY DocType
<1>3. /\ raw \in RawSection /\ raw.chunks = m.raw.chunks /\ raw.scrub = m.raw.scrub
      /\ raw.epoch = m.raw.epoch /\ raw.next_offset = m.raw.next_offset
  BY <1>1, <1>2 DEF RawSection
<1> QED  BY <1>1, <1>3, WithRawType

LEMMA NewManifestType ==
    ASSUME NEW c \in Clients
    PROVE  /\ NewManifest(c) \in Doc /\ NewManifest(c).server = None /\ NewManifest(c).raw.chunks = <<>>
           /\ NewManifest(c).raw.next_offset = 0 /\ NewManifest(c).raw.epoch = 0
<1>1. <<0>> \in Seq(Nat) /\ <<>> \in Seq(Entry)
  OBVIOUS
<1>2. [owner |-> c, epoch |-> 0, epochs |-> <<0>>, next_offset |-> 0, chunks |-> <<>>, scrub |-> None]
         \in RawSection
  BY <1>1 DEF RawSection
<1> QED  BY <1>2 DEF NewManifest, Doc

\* What a put that was planned against the manifest stored carries of it.
LEMMA CarriesNow ==
    ASSUME version \in Nat, NEW w \in Writers, NEW body \in Doc,
           w \in Servers => remote # None /\ body.raw = remote.raw,
           w \in Clients /\ remote # None =>
              /\ body.server = remote.server
              /\ remote.raw.owner # w => body.raw = [remote.raw EXCEPT !.owner = w]
              /\ Extends(body.raw.chunks, remote.raw.chunks),
           w \in Clients /\ ack[w] # None => Extends(ContentSha256(body.raw.chunks), ack[w].content)
    PROVE  Carries([by |-> w, expect |-> version, body |-> body])
BY DEF Carries

\* What an attempt puts: a manifest that is true, with all of what it replaces
\* that is not the writer's to change.
LEMMA AttemptBody ==
    ASSUME IInv, NEW w \in Writers, call[w] # None,
           Edited(remote, call[w].edit) # None, Valid(Edited(remote, call[w].edit))
    PROVE  LET body == Edited(remote, call[w].edit)
           IN  /\ body \in Doc /\ Truthful(body) /\ Covered(body)
               /\ Carries([by |-> w, expect |-> version, body |-> body])
<1>e. PICK e \in Edits : e = call[w].edit
  <2>1. call[w] \in Call
    BY DEF IInv, TypeOK
  <2> QED  BY <2>1, CallType
<1>m. PICK m : m = remote
  OBVIOUS
<1>1. m = remote /\ e = call[w].edit
  BY <1>e, <1>m
<1>2. /\ m \in Doc \cup {None} /\ version \in Nat
      /\ \A c \in Clients : ack[c] \in Ack \cup {None}
  BY <1>1 DEF IInv, TypeOK
<1>3. /\ w \in Servers => e.kind \in {"transform", "lifecycle"}
      /\ w \in Clients => e.kind \in {"create", "append", "take"} /\ e.by = w
      /\ e.kind # "create" => m # None
      /\ e.kind = "take" => ack[w] = None
      /\ e.kind = "append" => \A i \in DOMAIN e.entries : Backed(e.entries[i])
  BY <1>1 DEF IInv, Calls, InCall, Uploaded
<1>4. m # None => m \in Doc /\ Truthful(m) /\ Covered(m)
  BY <1>1, <1>2 DEF IInv, Docs, Documents
<1>5. m = None => \A c \in Clients : ack[c] = None
  BY <1>1 DEF IInv, Started
<1>6. PICK body : body = Edited(m, e) /\ body # None /\ Valid(body)
  BY <1>1
<1>7. Clients \cap Servers = {} /\ (w \in Clients \/ w \in Servers)
  BY ManifestAssumption DEF Writers
<1>8. e.kind \in {"create", "take", "append", "transform", "lifecycle"}
  BY EditType
<1> SUFFICES /\ body \in Doc /\ Truthful(body) /\ Covered(body)
             /\ w \in Servers => m # None /\ body.raw = m.raw
             /\ w \in Clients /\ m # None =>
                  /\ body.server = m.server
                  /\ m.raw.owner # w => body.raw = [m.raw EXCEPT !.owner = w]
                  /\ Extends(body.raw.chunks, m.raw.chunks)
             /\ w \in Clients /\ ack[w] # None => Extends(ContentSha256(body.raw.chunks), ack[w].content)
  BY <1>1, <1>2, <1>6, CarriesNow
<1>9. CASE e.kind = "create"
  <2>1. m = None /\ body = NewManifest(e.by) /\ e.by \in Clients /\ w \in Clients /\ w \notin Servers
    BY <1>3, <1>6, <1>7, <1>9, EditType DEF Edited
  <2>2. body \in Doc /\ body.server = None /\ body.raw.chunks = <<>>
    BY <2>1, NewManifestType
  <2>3. Truthful(body) /\ Covered(body)
    BY <2>2 DEF Truthful, Covered
  <2> QED  BY <1>5, <2>1, <2>2, <2>3
<1>10. CASE e.kind = "take"
  <2>1. w \in Clients /\ w \notin Servers /\ e.by = w /\ ack[w] = None /\ m \in Doc /\ Truthful(m) /\ Covered(m)
    BY <1>3, <1>4, <1>7, <1>10
  <2>2. body = WithRaw(m, [m.raw EXCEPT !.owner = w])
    BY <1>6, <1>10, <2>1 DEF Edited
  <2>3. /\ body \in Doc /\ body.server = m.server /\ body.raw = [m.raw EXCEPT !.owner = w]
        /\ body.raw.chunks = m.raw.chunks /\ body.raw.scrub = m.raw.scrub
    BY <2>1, <2>2, TakeEdited
  <2>4. Truthful(body) /\ Covered(body)
    BY <2>1, <2>3 DEF Truthful, Covered
  <2>5. Extends(body.raw.chunks, m.raw.chunks)
    BY <2>1, <2>3, DocType, RawType, ExtendsItself
  <2> QED  BY <2>1, <2>3, <2>4, <2>5
<1>11. CASE e.kind = "append"
  <2>1. w \in Clients /\ w \notin Servers /\ e.by = w /\ m \in Doc /\ Truthful(m) /\ Covered(m) /\ ack[w] \in Ack \cup {None}
    BY <1>2, <1>3, <1>4, <1>7, <1>11
  <2>2. body = AppendEdit(m, e)
    BY <1>6, <1>11 DEF Edited
  <2>3. /\ body \in Doc /\ body.server = m.server /\ m.raw.owner = w
        /\ ack[w] # None => Extends(ContentSha256(m.raw.chunks), ack[w].content)
        /\ body.raw.chunks = m.raw.chunks \o e.entries
    <3>1. ack[e.by] \in Ack \cup {None} /\ AppendEdit(m, e) # None
      BY <1>6, <2>1, <2>2
    <3>2. /\ body \in Doc /\ body.server = m.server /\ m.raw.owner = e.by
          /\ ack[e.by] # None => Extends(ContentSha256(m.raw.chunks), ack[e.by].content)
          /\ body.raw.chunks = m.raw.chunks \o e.entries
      BY <1>11, <2>1, <2>2, <3>1, AppendEdited, Zenon
    <3> QED  BY <2>1, <3>2, Zenon
  <2>4. Covered(body)
    BY <1>3, <1>6, <1>11, <2>1, <2>2, AppendCovered
  <2>5. Truthful(body)
    BY <2>1, <2>3 DEF Truthful
  <2>6. m.raw.chunks \in Seq(Entry) /\ body.raw.chunks \in Seq(Entry) /\ e.entries \in Seq(Entry)
    BY <1>11, <2>1, <2>3, DocType, RawType, EditType
  <2>7. Extends(body.raw.chunks, m.raw.chunks)
    <3>1. Extends(m.raw.chunks \o e.entries, m.raw.chunks)
      BY <2>6, ExtendsConcat
    <3> QED  BY <2>3, <3>1
  <2>8. Extends(ContentSha256(body.raw.chunks), ContentSha256(m.raw.chunks))
    BY <2>6, <2>7, ContentExtends
  <2>9. ack[w] # None => Extends(ContentSha256(body.raw.chunks), ack[w].content)
    <3> SUFFICES ASSUME ack[w] # None PROVE Extends(ContentSha256(body.raw.chunks), ack[w].content)
      OBVIOUS
    <3>1. ack[w].content \in Seq(Content)
      BY <2>1 DEF Ack
    <3> QED  BY <2>3, <2>6, <2>8, <3>1, ContentType, ExtendsOn, ZenonT(30)
  <2> QED  BY <2>1, <2>3, <2>4, <2>5, <2>7, <2>9
<1>12. CASE e.kind \in {"transform", "lifecycle"}
  <2>1. w \in Servers /\ w \notin Clients /\ m \in Doc /\ Truthful(m) /\ Covered(m)
    BY <1>3, <1>4, <1>7, <1>12
  <2>2. body \in Doc /\ body.raw = m.raw /\ Truthful(body)
    <3>1. CASE e.kind = "transform"
      <4>1. body = WithServer(m, WithNormalized(e.read, m)) /\ e.read \in Doc
        BY <1>6, <3>1, EditType DEF Edited
      <4> QED  BY <2>1, <4>1, TransformEdited
    <3>2. CASE e.kind = "lifecycle"
      <4>1. body = WithServer(m, WithLifecycle(m, e.decided)) /\ e.decided \in {"active", "idle", "archived"}
        BY <1>6, <3>2, EditType DEF Edited
      <4> QED  BY <1>6, <2>1, <4>1, LifecycleEdited
    <3> QED  BY <1>12, <3>1, <3>2
  <2>3. Covered(body)
    BY <2>1, <2>2 DEF Covered
  <2> QED  BY <2>1, <2>2, <2>3, DocType
<1> QED  BY <1>8, <1>9, <1>10, <1>11, <1>12

-----------------------------------------------------------------------------
(* What a step leaves alone.                                               *)

LEMMA Typed ==
    ASSUME TypeOK
    PROVE  /\ version \in Nat /\ remote \in Doc \cup {None} /\ backup \in Doc \cup {None}
           /\ call \in [Writers -> Call \cup {None}]
           /\ \A w \in Writers : call[w] # None => call[w] \in Call
           /\ late \subseteq [by : Writers, expect : Nat, body : Doc]
           /\ ack \in [Clients -> Ack \cup {None}]
           /\ \A c \in Clients : ack[c] \in Ack \cup {None}
           /\ source \in [gen : Nat, len : Nat] /\ source.gen \in Nat /\ source.len \in Nat
BY DEF TypeOK

\* A put the store may take is one.
LEMMA PendingType ==
    ASSUME IInv, NEW p \in Pending
    PROVE  p.by \in Writers /\ p.expect \in Nat /\ p.body \in Doc /\ p.body # None
<1>1. CASE p \in late
  BY <1>1, DocType DEF IInv, TypeOK
<1>2. CASE p \notin late
  <2>1. PICK w \in Writers : /\ call[w] # None /\ call[w].pc = "put"
                             /\ p = [by |-> w, expect |-> call[w].expect, body |-> call[w].body]
    BY <1>2 DEF Pending
  <2>2. call[w] \in Call /\ call[w].body # None
    BY <2>1 DEF IInv, TypeOK, Calls, InCall
  <2>3. call[w].expect \in Nat /\ call[w].body \in Doc
    BY <2>2, CallType
  <2> QED  BY <2>1, <2>2, <2>3
<1> QED  BY <1>1, <1>2

\* A call that ends, or reads, leaves nothing behind.
LEMMA PendingLess ==
    ASSUME NEW gone, \A x \in Writers \ gone : call'[x] = call[x],
           \A x \in Writers \cap gone : call'[x] = None \/ call'[x].pc # "put", late' \subseteq late
    PROVE  Pending' \subseteq Pending
BY DEF Pending

\* Where the manifest stored and what was acknowledged stay, puts carry what
\* they did.
LEMMA PutsKept ==
    ASSUME Puts, remote' = remote, version' = version, ack' = ack, Pending' \subseteq Pending
    PROVE  Puts'
<1>1. ASSUME NEW p \in Pending' PROVE Carries(p)'
  <2>1. Carries(p)
    BY <1>1 DEF Puts
  <2> QED  BY <2>1 DEF Carries
<1> QED  BY <1>1 DEF Puts

\* Once another manifest is stored, no put that names an older one is taken.
LEMMA PutsPast ==
    ASSUME IInv, version' = version + 1, Pending' \subseteq Pending
    PROVE  Puts'
<1>1. ASSUME NEW p \in Pending' PROVE Carries(p)'
  <2>1. Carries(p) /\ p.expect \in Nat /\ version \in Nat
    BY <1>1, PendingType DEF IInv, Puts, TypeOK
  <2>2. p.expect <= version' /\ p.expect # version'
    BY <2>1 DEF Carries
  <2> QED  BY <2>2 DEF Carries
<1> QED  BY <1>1 DEF Puts

\* Where no object is added, what was covered is.
LEMMA DocsKept ==
    ASSUME Docs, OneObject, objects' = objects,
           \A m \in Documents' : m \in Documents \/ (Truthful(m) /\ Covered(m))
    PROVE  Docs' /\ OneObject'
<1>1. ASSUME NEW m \in Documents' PROVE Truthful(m) /\ Covered(m)'
  <2>1. Truthful(m) /\ Covered(m)
    BY <1>1 DEF Docs
  <2> QED  BY <2>1 DEF Covered, Backed, StoredAs
<1>2. OneObject'
  BY DEF OneObject
<1> QED  BY <1>1, <1>2 DEF Docs, Truthful

LEMMA BackedKept ==
    ASSUME objects' = objects
    PROVE  \A e : Backed(e)' <=> Backed(e)
BY DEF Backed, StoredAs

\* Calls that a step does not touch.
LEMMA CallsKept ==
    ASSUME IInv, NEW gone, version' \in Nat, version <= version', remote # None => remote' # None,
           \A x \in Writers \ gone : call'[x] = call[x] /\ (x \in Clients => ack'[x] = ack[x]),
           \A e \in Entry : Backed(e) => Backed(e)'
    PROVE  \A x \in Writers \ gone : InCall(x)' /\ Uploaded(x)'
<1> SUFFICES ASSUME NEW x \in Writers \ gone, call[x] # None PROVE InCall(x)' /\ Uploaded(x)'
  BY DEF InCall, Uploaded
<1>1. PICK k \in Call : k = call[x]
  BY DEF IInv, TypeOK
<1>2. call'[x] = k /\ call[x] = k
  BY <1>1
<1>3. k.since \in Nat /\ k.attempt \in Nat /\ k.expect \in Nat /\ k.edit \in Edits /\ version \in Nat
  BY CallType DEF IInv, TypeOK
<1>4. /\ x \in Servers => k.edit.kind \in {"transform", "lifecycle"}
      /\ x \in Clients => k.edit.kind \in {"create", "append", "take"} /\ k.edit.by = x
      /\ k.edit.kind # "create" => remote # None
      /\ k.edit.kind = "take" => ack[x] = None
      /\ k.since + k.attempt - 1 <= version
      /\ k.pc = "put" => k.body # None /\ k.since + k.attempt - 1 <= k.expect
      /\ k.edit.kind = "append" => \A i \in DOMAIN k.edit.entries : Backed(k.edit.entries[i])
  BY <1>2 DEF IInv, Calls, InCall, Uploaded
<1>5. k.since + k.attempt - 1 <= version'
  BY <1>3, <1>4
<1>6. k.edit.kind = "take" => x \in Clients
  BY <1>4 DEF Writers
<1>7. k.edit.kind = "append" => \A i \in DOMAIN k.edit.entries : Backed(k.edit.entries[i])'
  <2> SUFFICES ASSUME k.edit.kind = "append", NEW i \in DOMAIN k.edit.entries PROVE Backed(k.edit.entries[i])'
    OBVIOUS
  <2>1. k.edit.entries[i] \in Entry
    BY <1>3, EditType, ChunksType
  <2> QED  BY <1>4, <2>1
<1>8. InCall(x)'
  BY <1>2, <1>4, <1>5, <1>6 DEF InCall
<1>9. Uploaded(x)'
  BY <1>2, <1>7 DEF Uploaded
<1> QED  BY <1>8, <1>9

\* A writer's call, replaced.
LEMMA CallMoves ==
    ASSUME call \in [Writers -> Call \cup {None}], NEW w \in Writers, NEW k \in Call \cup {None},
           call' = [call EXCEPT ![w] = k]
    PROVE  /\ call' \in [Writers -> Call \cup {None}] /\ call'[w] = k
           /\ \A x \in Writers \ {w} : call'[x] = call[x]
OBVIOUS

LEMMA SpendType ==
    ASSUME budget \in [{"faults", "restores", "takeovers", "moves"} -> Nat],
           NEW what \in {"faults", "restores", "takeovers", "moves"}, Spend(what)
    PROVE  budget' \in [{"faults", "restores", "takeovers", "moves"} -> Nat]
BY DEF Spend

\* A step that stores nothing, and one that stores a manifest that was put or
\* backed up.
LEMMA Quiet ==
    ASSUME IInv, UNCHANGED <<remote, version, backup, objects, ack>>, Pending' \subseteq Pending
    PROVE  Puts' /\ Started' /\ Docs' /\ OneObject'
<1>1. Puts'
  BY PutsKept DEF IInv
<1>2. Started'
  BY DEF IInv, Started
<1>3. \A m \in Documents' : m \in Documents
  BY DEF Documents
<1> QED  BY <1>1, <1>2, <1>3, DocsKept DEF IInv

LEMMA Stored ==
    ASSUME IInv, UNCHANGED <<backup, objects>>, Pending' \subseteq Pending,
           version' = version + 1, remote' \in Documents
    PROVE  Puts' /\ Started' /\ Docs' /\ OneObject'
<1>1. Puts'
  BY PutsPast
<1>2. remote' # None
  BY DEF Documents
<1>3. Started'
  BY <1>2 DEF Started
<1>4. \A m \in Documents' : m \in Documents
  BY DEF Documents
<1> QED  BY <1>1, <1>3, <1>4, DocsKept DEF IInv

-----------------------------------------------------------------------------
(* One lemma for each action: the invariant is kept.                       *)

\* The attempt of a call: what it puts carries what it replaces.
LEMMA AttemptKeeps ==
    ASSUME IInv, NEW w \in Writers, Attempt(w)
    PROVE  IInv'
<1>1. PICK k \in Call : k = call[w] /\ k.pc = "read"
  BY DEF Attempt, IInv, TypeOK
<1>2. UNCHANGED <<remote, version, backup, objects, source, late, ack, budget>>
  BY DEF Attempt
<1>3. TypeOK /\ call \in [Writers -> Call \cup {None}] /\ version \in Nat
  BY DEF IInv, TypeOK
<1>4. version <= version' /\ version' \in Nat
  BY <1>2, <1>3
<1>5. \A e \in Entry : Backed(e) => Backed(e)'
  BY <1>2, BackedKept
<1>6. PICK body : body = Edited(remote, call[w].edit)
  OBVIOUS
<1>7. CASE body = None \/ ~Valid(body)
  <2>1. call' = [call EXCEPT ![w] = None]
    BY <1>6, <1>7 DEF Attempt, Leave
  <2>2. call' \in [Writers -> Call \cup {None}] /\ call'[w] = None /\ \A x \in Writers \ {w} : call'[x] = call[x]
    BY <1>3, <2>1, CallMoves
  <2>3. TypeOK'
    BY <1>2, <1>3, <2>2 DEF TypeOK
  <2>4. Pending' \subseteq Pending
    <3> PICK gone : gone = {w}
      OBVIOUS
    <3> QED  BY <1>2, <2>2, PendingLess
  <2>5. \A x \in Writers \ {w} : InCall(x)' /\ Uploaded(x)'
    BY <1>2, <1>4, <1>5, <2>2, CallsKept
  <2>6. InCall(w)' /\ Uploaded(w)'
    BY <2>2 DEF InCall, Uploaded
  <2>7. Puts' /\ Started' /\ Docs' /\ OneObject'
    BY <1>2, <2>4, Quiet
  <2> QED  BY <2>3, <2>5, <2>6, <2>7 DEF IInv, Calls
<1>8. CASE body # None /\ Valid(body)
  <2>1. /\ body \in Doc /\ Truthful(body) /\ Covered(body)
        /\ Carries([by |-> w, expect |-> version, body |-> body])
    <3>1. call[w] # None
      BY <1>1, CallType
    <3> QED  BY <1>6, <1>8, <3>1, AttemptBody
  <2>2. PICK new : new = [k EXCEPT !.pc = "put", !.body = body, !.expect = version]
    OBVIOUS
  <2>3. /\ new \in Call /\ new.pc = "put" /\ new.body = body /\ new.expect = version
        /\ new.edit = k.edit /\ new.attempt = k.attempt /\ new.since = k.since
    BY <1>3, <2>1, <2>2 DEF Call
  <2>4. call' = [call EXCEPT ![w] = new]
    <3>1. call' = [call EXCEPT ![w].pc = "put", ![w].body = body, ![w].expect = version]
      BY <1>6, <1>8 DEF Attempt
    <3> QED  BY <1>1, <1>3, <2>2, <3>1
  <2>5. call' \in [Writers -> Call \cup {None}] /\ call'[w] = new /\ \A x \in Writers \ {w} : call'[x] = call[x]
    BY <1>3, <2>3, <2>4, CallMoves
  <2>6. TypeOK'
    BY <1>2, <1>3, <2>5 DEF TypeOK
  <2>7. \A x \in Writers \ {w} : InCall(x)' /\ Uploaded(x)'
    BY <1>2, <1>4, <1>5, <2>5, CallsKept
  <2>8. InCall(w)' /\ Uploaded(w)'
    <3>1. k # None /\ new # None
      BY <2>3, CallType
    <3>2. InCall(w) /\ Uploaded(w)
      BY DEF IInv, Calls
    <3>3. body # None
      BY <1>8
    <3>4. InCall(w)'
      BY <1>1, <1>2, <2>3, <2>5, <3>1, <3>2, <3>3 DEF InCall
    <3>5. Uploaded(w)'
      BY <1>1, <1>2, <2>3, <2>5, <3>1, <3>2, BackedKept DEF Uploaded
    <3> QED  BY <3>4, <3>5
  <2>9. \A p \in Pending' : p \in Pending \/ p = [by |-> w, expect |-> version, body |-> body]
    BY <1>2, <2>3, <2>5 DEF Pending
  <2>10. Puts'
    <3>1. ASSUME NEW p \in Pending' PROVE Carries(p)'
      <4>1. Carries(p)
        BY <2>1, <2>9 DEF IInv, Puts
      <4> QED  BY <1>2, <4>1 DEF Carries
    <3> QED  BY <3>1 DEF Puts
  <2>11. Docs' /\ OneObject'
    <3>1. \A m \in Documents' : m \in Documents \/ m = body
      BY <1>2, <2>9 DEF Documents
    <3> QED  BY <1>2, <2>1, <3>1, DocsKept DEF IInv
  <2>12. Started'
    BY <1>2 DEF IInv, Started
  <2> QED  BY <2>6, <2>7, <2>8, <2>10, <2>11, <2>12 DEF IInv, Calls
<1> QED  BY <1>7, <1>8

\* A put of a call is one of those the store may take.
LEMMA PutIsPending ==
    ASSUME IInv, NEW w \in Writers, call[w] # None, call[w].pc = "put"
    PROVE  /\ [by |-> w, expect |-> call[w].expect, body |-> call[w].body] \in Pending
           /\ call[w] \in Call /\ call[w].expect \in Nat /\ call[w].expect <= version
           /\ call[w].body \in Doc /\ call[w].body # None /\ call[w].body \in Documents
<1>1. PICK p : p = [by |-> w, expect |-> call[w].expect, body |-> call[w].body]
  OBVIOUS
<1>2. p \in Pending
  BY <1>1 DEF Pending
<1>3. p.body \in Doc /\ p.body # None /\ p.expect \in Nat
  BY <1>2, PendingType
<1>4. p.expect <= version
  BY <1>2 DEF IInv, Puts, Carries
<1>5. p.body \in Documents
  BY <1>2, <1>3 DEF Documents
<1>6. call[w] \in Call
  BY DEF IInv, TypeOK
<1> QED  BY <1>1, <1>2, <1>3, <1>4, <1>5, <1>6

\* A refused put: its call reads again, or gives up, with one manifest more
\* stored for the attempt.
LEMMA RefusedKeeps ==
    ASSUME IInv, NEW w \in Writers, call[w] # None, call[w].pc = "put", Refused(w),
           version' \in Nat, version <= version', call[w].expect < version',
           remote # None => remote' # None,
           UNCHANGED <<objects, ack>>
    PROVE  /\ call' \in [Writers -> Call \cup {None}]
           /\ \A x \in Writers \ {w} : call'[x] = call[x]
           /\ call'[w] = None \/ call'[w].pc # "put"
           /\ Calls'
<1>1. PICK k \in Call : k = call[w] /\ k.pc = "put"
  BY DEF IInv, TypeOK
<1>2. call \in [Writers -> Call \cup {None}] /\ version \in Nat /\ MaxAttempts \in Nat
  BY ManifestAssumption DEF IInv, TypeOK
<1>3. /\ k # None /\ k.attempt \in 1..MaxAttempts /\ k.attempt \in Nat /\ k.since \in Nat /\ k.expect \in Nat
  BY CallType
<1>4. \A e \in Entry : Backed(e) => Backed(e)'
  BY BackedKept
<1>5. CASE k.attempt < MaxAttempts
  <2>1. PICK n \in 1..MaxAttempts : n = k.attempt + 1
    BY <1>2, <1>3, <1>5
  <2>2. PICK new : new = [k EXCEPT !.pc = "read", !.attempt = n]
    OBVIOUS
  <2>3. /\ new \in Call /\ new.pc = "read" /\ new.attempt = n
        /\ new.edit = k.edit /\ new.since = k.since
    BY <2>2 DEF Call
  <2>4. call' = [call EXCEPT ![w] = new]
    BY <1>1, <1>2, <1>5, <2>1, <2>2 DEF Refused
  <2>5. call' \in [Writers -> Call \cup {None}] /\ call'[w] = new /\ \A x \in Writers \ {w} : call'[x] = call[x]
    BY <1>2, <2>3, <2>4, CallMoves
  <2>6. \A x \in Writers \ {w} : InCall(x)' /\ Uploaded(x)'
    BY <1>4, <2>5, CallsKept
  <2>7. InCall(w) /\ Uploaded(w)
    BY DEF IInv, Calls
  <2>8. k.since + n - 1 <= version'
    <3>1. k.since + k.attempt - 1 <= k.expect /\ k.expect < version'
      BY <1>1, <1>3, <2>7 DEF InCall
    <3> QED  BY <1>3, <2>1, <3>1
  <2>9. InCall(w)'
    BY <1>1, <1>3, <2>3, <2>5, <2>7, <2>8 DEF InCall
  <2>10. Uploaded(w)'
    BY <1>1, <1>3, <2>3, <2>5, <2>7, BackedKept DEF Uploaded
  <2> QED  BY <2>3, <2>5, <2>6, <2>9, <2>10 DEF Calls
<1>6. CASE ~(k.attempt < MaxAttempts)
  <2>1. call' = [call EXCEPT ![w] = None]
    BY <1>1, <1>6 DEF Refused, Leave
  <2>2. call' \in [Writers -> Call \cup {None}] /\ call'[w] = None /\ \A x \in Writers \ {w} : call'[x] = call[x]
    BY <1>2, <2>1, CallMoves
  <2>3. \A x \in Writers \ {w} : InCall(x)' /\ Uploaded(x)'
    BY <1>4, <2>2, CallsKept
  <2>4. InCall(w)' /\ Uploaded(w)'
    BY <2>2 DEF InCall, Uploaded
  <2> QED  BY <2>2, <2>3, <2>4 DEF Calls
<1> QED  BY <1>5, <1>6

\* The acknowledgement of a manifest.
LEMMA AckOfType ==
    ASSUME NEW m \in Doc
    PROVE  /\ AckOf(m) \in Ack /\ AckOf(m) # None
           /\ AckOf(m).content = ContentSha256(m.raw.chunks) /\ AckOf(m).epoch = m.raw.epoch
<1>1. m.revision \in Nat /\ ContentSha256(m.raw.chunks) \in Seq(Content) /\ m.raw.epoch \in Nat
  BY DocType, RawType, ContentType
<1>2. AckOf(m) \in Ack /\ AckOf(m).content = ContentSha256(m.raw.chunks) /\ AckOf(m).epoch = m.raw.epoch
  BY <1>1 DEF AckOf, Ack
<1> QED  BY <1>2, NoneAssumption

\* The put is answered: taken, and acknowledged, or refused.
LEMMA PutKeeps ==
    ASSUME IInv, NEW w \in Writers, Put(w)
    PROVE  IInv'
<1>1. call[w] # None /\ call[w].pc = "put" /\ UNCHANGED <<backup, objects, source, late, budget>>
  BY DEF Put
<1>2. /\ call[w] \in Call /\ call[w].expect \in Nat /\ call[w].expect <= version
      /\ call[w].body \in Doc /\ call[w].body # None /\ call[w].body \in Documents
  BY <1>1, PutIsPending
<1>3. /\ TypeOK /\ version \in Nat /\ call \in [Writers -> Call \cup {None}]
      /\ ack \in [Clients -> Ack \cup {None}]
  BY DEF IInv, TypeOK
<1>4. CASE version = call[w].expect
  <2>1. remote' = call[w].body /\ version' = version + 1
    BY <1>4 DEF Put, Stores
  <2>2. call' = [call EXCEPT ![w] = None] /\ Acknowledge(w)
    BY <1>3, <2>1 DEF Put, Leave
  <2>3. call' \in [Writers -> Call \cup {None}] /\ call'[w] = None /\ \A x \in Writers \ {w} : call'[x] = call[x]
    BY <1>3, <2>2, CallMoves
  <2>4. ack' \in [Clients -> Ack \cup {None}] /\ \A x \in Clients \ {w} : ack'[x] = ack[x]
    <3>1. PICK a \in Ack : a = AckOf(call[w].body)
      BY <1>2, AckOfType
    <3>2. ack' = IF w \in Clients THEN [ack EXCEPT ![w] = a] ELSE ack
      BY <2>2, <3>1 DEF Acknowledge
    <3> QED  BY <1>3, <3>2
  <2>5. TypeOK'
    BY <1>1, <1>2, <1>3, <2>1, <2>3, <2>4 DEF TypeOK
  <2>6. Pending' \subseteq Pending
    <3> PICK gone : gone = {w}
      OBVIOUS
    <3> QED  BY <1>1, <2>3, PendingLess
  <2>7. Puts' /\ Started' /\ Docs' /\ OneObject'
    BY <1>1, <1>2, <2>1, <2>6, Stored
  <2>8. \A x \in Writers \ {w} : InCall(x)' /\ Uploaded(x)'
    <3>1. version' \in Nat /\ version <= version' /\ remote' # None
      BY <1>2, <1>3, <2>1
    <3>2. \A e \in Entry : Backed(e) => Backed(e)'
      BY <1>1, BackedKept
    <3> QED  BY <2>3, <2>4, <3>1, <3>2, CallsKept
  <2>9. InCall(w)' /\ Uploaded(w)'
    BY <2>3 DEF InCall, Uploaded
  <2> QED  BY <2>5, <2>7, <2>8, <2>9 DEF IInv, Calls
<1>5. CASE version # call[w].expect
  <2>1. UNCHANGED <<remote, version, ack>> /\ Refused(w)
    BY <1>5 DEF Put, Stores
  <2>2. version' \in Nat /\ version <= version' /\ call[w].expect < version'
    BY <1>2, <1>3, <1>5, <2>1
  <2>3. /\ call' \in [Writers -> Call \cup {None}]
        /\ \A x \in Writers \ {w} : call'[x] = call[x]
        /\ call'[w] = None \/ call'[w].pc # "put"
        /\ Calls'
    BY <1>1, <2>1, <2>2, RefusedKeeps
  <2>4. TypeOK'
    BY <1>1, <1>3, <2>1, <2>3 DEF TypeOK
  <2>5. Pending' \subseteq Pending
    <3> PICK gone : gone = {w}
      OBVIOUS
    <3> QED  BY <1>1, <2>3, PendingLess
  <2>6. Puts' /\ Started' /\ Docs' /\ OneObject'
    BY <1>1, <2>1, <2>5, Quiet
  <2> QED  BY <2>3, <2>4, <2>6 DEF IInv
<1> QED  BY <1>4, <1>5

\* The answer was lost, and the put is refused to the one that sent it.
LEMMA PutTwiceKeeps ==
    ASSUME IInv, NEW w \in Writers, PutTwice(w)
    PROVE  IInv'
<1>1. /\ call[w] # None /\ call[w].pc = "put" /\ UNCHANGED <<backup, objects, source, late, ack>>
      /\ Refused(w) /\ Spend("faults")
  BY DEF PutTwice
<1>2. /\ call[w] \in Call /\ call[w].expect \in Nat /\ call[w].expect <= version
      /\ call[w].body \in Doc /\ call[w].body # None /\ call[w].body \in Documents
  BY <1>1, PutIsPending
<1>3. TypeOK /\ version \in Nat /\ budget \in [{"faults", "restores", "takeovers", "moves"} -> Nat]
  BY DEF IInv, TypeOK
<1>4. version = call[w].expect /\ remote' = call[w].body /\ version' = version + 1
  BY DEF PutTwice, Stores
<1>5. version' \in Nat /\ version <= version' /\ call[w].expect < version' /\ remote' # None
  BY <1>2, <1>3, <1>4
<1>6. /\ call' \in [Writers -> Call \cup {None}]
      /\ \A x \in Writers \ {w} : call'[x] = call[x]
      /\ call'[w] = None \/ call'[w].pc # "put"
      /\ Calls'
  BY <1>1, <1>5, RefusedKeeps
<1>7. budget' \in [{"faults", "restores", "takeovers", "moves"} -> Nat]
  BY <1>1, <1>3, SpendType
<1>8. TypeOK'
  BY <1>1, <1>2, <1>3, <1>4, <1>5, <1>6, <1>7 DEF TypeOK
<1>9. Pending' \subseteq Pending
  <2> PICK gone : gone = {w}
    OBVIOUS
  <2> QED  BY <1>1, <1>6, PendingLess
<1>10. Puts' /\ Started' /\ Docs' /\ OneObject'
  BY <1>1, <1>2, <1>4, <1>9, Stored
<1> QED  BY <1>6, <1>8, <1>10 DEF IInv

\* The writer gave up, and its put may still arrive.
LEMMA AbandonKeeps ==
    ASSUME IInv, NEW w \in Writers, Abandon(w)
    PROVE  IInv'
<1>1. /\ call[w] # None /\ UNCHANGED <<remote, version, backup, objects, source, ack>>
      /\ Spend("faults") /\ call' = [call EXCEPT ![w] = None]
  BY DEF Abandon, Leave
<1>2. /\ TypeOK /\ version \in Nat /\ call \in [Writers -> Call \cup {None}]
      /\ budget \in [{"faults", "restores", "takeovers", "moves"} -> Nat]
      /\ late \subseteq [by : Writers, expect : Nat, body : Doc]
  BY DEF IInv, TypeOK
<1>3. call' \in [Writers -> Call \cup {None}] /\ call'[w] = None /\ \A x \in Writers \ {w} : call'[x] = call[x]
  BY <1>1, <1>2, CallMoves
<1>4. \A p \in late' : \/ p \in late
                       \/ /\ call[w].pc = "put"
                          /\ p = [by |-> w, expect |-> call[w].expect, body |-> call[w].body]
  BY DEF Abandon
<1>5. Pending' \subseteq Pending
  BY <1>1, <1>3, <1>4 DEF Pending
<1>6. late' \subseteq [by : Writers, expect : Nat, body : Doc]
  <2>1. CASE call[w].pc = "put"
    <3>1. call[w].expect \in Nat /\ call[w].body \in Doc
      BY <1>1, <2>1, PutIsPending
    <3> QED  BY <1>2, <1>4, <3>1
  <2>2. CASE call[w].pc # "put"
    BY <1>2, <1>4, <2>2
  <2> QED  BY <2>1, <2>2
<1>7. budget' \in [{"faults", "restores", "takeovers", "moves"} -> Nat]
  BY <1>1, <1>2, SpendType
<1>8. TypeOK'
  BY <1>1, <1>2, <1>3, <1>6, <1>7 DEF TypeOK
<1>9. Puts' /\ Started' /\ Docs' /\ OneObject'
  BY <1>1, <1>5, Quiet
<1>10. \A x \in Writers \ {w} : InCall(x)' /\ Uploaded(x)'
  <2>1. version' \in Nat /\ version <= version'
    BY <1>1, <1>2
  <2>2. \A e \in Entry : Backed(e) => Backed(e)'
    BY <1>1, BackedKept
  <2> QED  BY <1>1, <1>3, <2>1, <2>2, CallsKept
<1>11. InCall(w)' /\ Uploaded(w)'
  BY <1>3 DEF InCall, Uploaded
<1> QED  BY <1>8, <1>9, <1>10, <1>11 DEF IInv, Calls

\* A put arrives after its writer had given up.
LEMMA ArriveKeeps ==
    ASSUME IInv, NEW put \in late, Arrive(put)
    PROVE  IInv'
<1>1. UNCHANGED <<backup, objects, source, call, ack, budget>> /\ late' = late \ {put} /\ Stores(put)
  BY DEF Arrive
<1>2. put \in Pending /\ TypeOK /\ version \in Nat
  BY DEF Pending, IInv, TypeOK
<1>3. put.body \in Doc /\ put.body # None /\ put.body \in Documents
  BY <1>2, PendingType DEF Documents
<1>4. Pending' \subseteq Pending
  BY <1>1 DEF Pending
<1>5. \A e \in Entry : Backed(e) => Backed(e)'
  BY <1>1, BackedKept
<1>6. CASE version = put.expect
  <2>1. remote' = put.body /\ version' = version + 1 /\ version' \in Nat /\ version <= version' /\ remote' # None
    BY <1>1, <1>2, <1>3, <1>6 DEF Stores
  <2>2. TypeOK'
    BY <1>1, <1>2, <1>3, <2>1 DEF TypeOK
  <2>3. Puts' /\ Started' /\ Docs' /\ OneObject'
    BY <1>1, <1>3, <1>4, <2>1, Stored
  <2>4. \A x \in Writers \ {} : InCall(x)' /\ Uploaded(x)'
    BY <1>1, <1>5, <2>1, CallsKept
  <2> QED  BY <2>2, <2>3, <2>4 DEF IInv, Calls
<1>7. CASE version # put.expect
  <2>1. remote' = remote /\ version' = version /\ version' \in Nat /\ version <= version'
    BY <1>1, <1>2, <1>7 DEF Stores
  <2>2. TypeOK'
    BY <1>1, <1>2, <2>1 DEF TypeOK
  <2>3. Puts' /\ Started' /\ Docs' /\ OneObject'
    BY <1>1, <1>4, <2>1, Quiet
  <2>4. \A x \in Writers \ {} : InCall(x)' /\ Uploaded(x)'
    BY <1>1, <1>5, <2>1, CallsKept
  <2> QED  BY <2>2, <2>3, <2>4 DEF IInv, Calls
<1> QED  BY <1>6, <1>7

\* A writer enters update_manifest.
LEMMA EnterType ==
    ASSUME IInv, NEW w \in Writers, NEW e \in Edits, Enter(w, e)
    PROVE  /\ call' \in [Writers -> Call \cup {None}]
           /\ call'[w] \in Call /\ call'[w] # None /\ call'[w].pc = "read" /\ call'[w].edit = e
           /\ call'[w].attempt = 1 /\ call'[w].since = version
           /\ \A x \in Writers \ {w} : call'[x] = call[x]
<1>1. call \in [Writers -> Call \cup {None}] /\ version \in Nat /\ 1 \in 1..MaxAttempts
  BY ManifestAssumption DEF IInv, TypeOK
<1>2. PICK k : k = [pc |-> "read", edit |-> e, attempt |-> 1, since |-> version, expect |-> 0, body |-> None]
  OBVIOUS
<1>3. k \in Call /\ k.pc = "read" /\ k.edit = e /\ k.attempt = 1 /\ k.since = version
  BY <1>1, <1>2 DEF Call
<1>4. call' = [call EXCEPT ![w] = k]
  BY <1>2 DEF Enter
<1> QED  BY <1>1, <1>3, <1>4, CallMoves, CallType

LEMMA EnterKeeps ==
    ASSUME IInv, NEW w \in Writers, NEW e \in Edits, Enter(w, e), e.kind # "append",
           UNCHANGED <<remote, version, backup, objects, source, late, ack>>,
           budget' \in [{"faults", "restores", "takeovers", "moves"} -> Nat],
           w \in Servers => e.kind \in {"transform", "lifecycle"},
           w \in Clients => e.kind \in {"create", "append", "take"} /\ e.by = w,
           e.kind # "create" => remote # None,
           e.kind = "take" => ack[w] = None
    PROVE  IInv'
<1>1. /\ call' \in [Writers -> Call \cup {None}]
      /\ call'[w] \in Call /\ call'[w].pc = "read" /\ call'[w].edit = e
      /\ call'[w].attempt = 1 /\ call'[w].since = version
      /\ \A x \in Writers \ {w} : call'[x] = call[x]
  BY EnterType
<1>2. TypeOK /\ version \in Nat
  BY DEF IInv, TypeOK
<1>3. TypeOK'
  BY <1>1, <1>2 DEF TypeOK
<1>4. Pending' \subseteq Pending
  <2> PICK gone : gone = {w}
    OBVIOUS
  <2> QED  BY <1>1, PendingLess
<1>5. Puts' /\ Started' /\ Docs' /\ OneObject'
  BY <1>4, Quiet
<1>6. \A x \in Writers \ {w} : InCall(x)' /\ Uploaded(x)'
  <2>1. version' \in Nat /\ version <= version'
    BY <1>2
  <2>2. \A d \in Entry : Backed(d) => Backed(d)'
    BY BackedKept
  <2> QED  BY <1>1, <2>1, <2>2, CallsKept
<1>7. InCall(w)'
  <2>1. call'[w].since + call'[w].attempt - 1 <= version'
    BY <1>1, <1>2
  <2> QED  BY <1>1, <2>1 DEF InCall
<1>8. Uploaded(w)'
  BY <1>1 DEF Uploaded
<1> QED  BY <1>3, <1>5, <1>6, <1>7, <1>8 DEF IInv, Calls

\* Each of them, and what the source, a backup and a restore do.
LEMMA CreateKeeps ==
    ASSUME IInv, NEW c \in Clients, Create(c)
    PROVE  IInv'
<1>1. PICK e \in Edits : e = [kind |-> "create", by |-> c]
  BY DEF Edits
<1>2. e.kind = "create" /\ e.by = c /\ c \in Writers /\ c \notin Servers
  BY <1>1, ManifestAssumption DEF Writers
<1>3. Enter(c, e) /\ UNCHANGED <<remote, version, backup, objects, source, late, ack, budget>>
  BY <1>1 DEF Create
<1>4. budget' \in [{"faults", "restores", "takeovers", "moves"} -> Nat]
  BY <1>3 DEF IInv, TypeOK
<1> QED  BY <1>2, <1>3, <1>4, EnterKeeps

LEMMA TakeOverKeeps ==
    ASSUME IInv, NEW c \in Clients, TakeOver(c)
    PROVE  IInv'
<1>1. PICK e \in Edits : e = [kind |-> "take", by |-> c]
  BY DEF Edits
<1>2. e.kind = "take" /\ e.by = c /\ c \in Writers /\ c \notin Servers
  BY <1>1, ManifestAssumption DEF Writers
<1>3. /\ Enter(c, e) /\ UNCHANGED <<remote, version, backup, objects, source, late, ack>>
      /\ Spend("takeovers") /\ remote # None /\ ack[c] = None
  BY <1>1 DEF TakeOver
<1>4. budget' \in [{"faults", "restores", "takeovers", "moves"} -> Nat]
  BY <1>3, SpendType DEF IInv, TypeOK
<1> QED  BY <1>2, <1>3, <1>4, EnterKeeps

LEMMA TransformKeeps ==
    ASSUME IInv, NEW s \in Servers, Transform(s)
    PROVE  IInv'
<1>1. remote \in Doc /\ remote # None
  BY DEF IInv, TypeOK, Transform
<1>2. PICK e \in Edits : e = [kind |-> "transform", read |-> remote]
  BY <1>1 DEF Edits
<1>3. e.kind = "transform" /\ s \in Writers /\ s \notin Clients
  BY <1>2, ManifestAssumption DEF Writers
<1>4. Enter(s, e) /\ UNCHANGED <<remote, version, backup, objects, source, late, ack, budget>>
  BY <1>2 DEF Transform
<1>5. budget' \in [{"faults", "restores", "takeovers", "moves"} -> Nat]
  BY <1>4 DEF IInv, TypeOK
<1> QED  BY <1>1, <1>3, <1>4, <1>5, EnterKeeps

LEMMA DecideKeeps ==
    ASSUME IInv, NEW s \in Servers, Decide(s)
    PROVE  IInv'
<1>1. PICK decided \in {"active", "idle", "archived"} : Enter(s, [kind |-> "lifecycle", decided |-> decided])
  BY ManifestAssumption DEF Decide
<1>2. PICK e \in Edits : e = [kind |-> "lifecycle", decided |-> decided]
  BY DEF Edits
<1>3. e.kind = "lifecycle" /\ s \in Writers /\ s \notin Clients
  BY <1>2, ManifestAssumption DEF Writers
<1>4. /\ Enter(s, e) /\ UNCHANGED <<remote, version, backup, objects, source, late, ack>>
      /\ remote # None /\ Spend("moves")
  BY <1>1, <1>2 DEF Decide
<1>5. budget' \in [{"faults", "restores", "takeovers", "moves"} -> Nat]
  BY <1>4, SpendType DEF IInv, TypeOK
<1> QED  BY <1>3, <1>4, <1>5, EnterKeeps

\* Nothing moves but the source, or the backup.
LEMMA AsideKeeps ==
    ASSUME IInv, UNCHANGED <<remote, version, objects, call, late, ack, budget>>,
           backup' \in {backup, remote}, source' \in [gen : Nat, len : Nat]
    PROVE  IInv'
<1>1. TypeOK /\ version \in Nat
  BY DEF IInv, TypeOK
<1>2. TypeOK'
  BY <1>1 DEF TypeOK
<1>3. Pending' = Pending
  BY DEF Pending
<1>4. Puts'
  BY <1>3, PutsKept DEF IInv
<1>5. \A m \in Documents' : m \in Documents
  BY <1>3 DEF Documents
<1>6. Docs' /\ OneObject'
  BY <1>5, DocsKept DEF IInv
<1>7. Started'
  BY DEF IInv, Started
<1>8. \A x \in Writers \ {} : InCall(x)' /\ Uploaded(x)'
  <2>1. version' \in Nat /\ version <= version'
    BY <1>1
  <2>2. \A d \in Entry : Backed(d) => Backed(d)'
    BY BackedKept
  <2> QED  BY <2>1, <2>2, CallsKept
<1> QED  BY <1>2, <1>4, <1>6, <1>7, <1>8 DEF IInv, Calls

LEMMA SourceKeeps ==
    ASSUME IInv, Grow \/ Rewrite
    PROVE  IInv'
<1>1. source \in [gen : Nat, len : Nat] /\ source.gen \in Nat /\ source.len \in Nat /\ MaxLen \in Nat
  BY ManifestAssumption DEF IInv, TypeOK
<1>2. CASE Grow
  <2>1. source' \in [gen : Nat, len : Nat]
    <3>1. PICK n \in Nat : n = source.len + 1
      BY <1>1
    <3>2. source' = [source EXCEPT !.len = n]
      BY <1>1, <1>2, <3>1 DEF Grow
    <3> QED  BY <1>1, <3>2
  <2> QED  BY <1>2, <2>1, AsideKeeps DEF Grow
<1>3. CASE Rewrite
  <2>1. source' \in [gen : Nat, len : Nat]
    BY <1>1, <1>3 DEF Rewrite
  <2> QED  BY <1>3, <2>1, AsideKeeps DEF Rewrite
<1> QED  BY <1>2, <1>3

LEMMA BackupKeeps ==
    ASSUME IInv, Backup
    PROVE  IInv'
<1>1. UNCHANGED <<remote, version, objects, call, late, ack, budget>> /\ backup' = remote /\ source' = source
  BY DEF Backup
<1>2. source' \in [gen : Nat, len : Nat]
  BY <1>1 DEF IInv, TypeOK
<1> QED  BY <1>1, <1>2, AsideKeeps

LEMMA RestoreKeeps ==
    ASSUME IInv, Restore
    PROVE  IInv'
<1>1. /\ backup # None /\ Spend("restores") /\ remote' = backup /\ version' = version + 1
      /\ UNCHANGED <<backup, objects, source, call, late, ack>>
  BY DEF Restore
<1>2. TypeOK /\ version \in Nat /\ backup \in Doc
  BY <1>1 DEF IInv, TypeOK
<1>3. budget' \in [{"faults", "restores", "takeovers", "moves"} -> Nat]
  BY <1>1, SpendType DEF IInv, TypeOK
<1>4. version' \in Nat /\ version <= version' /\ remote' # None
  BY <1>1, <1>2
<1>5. TypeOK'
  BY <1>1, <1>2, <1>3, <1>4 DEF TypeOK
<1>6. Pending' = Pending /\ remote' \in Documents
  BY <1>1 DEF Pending, Documents
<1>7. Puts' /\ Started' /\ Docs' /\ OneObject'
  BY <1>1, <1>6, Stored
<1>8. \A x \in Writers \ {} : InCall(x)' /\ Uploaded(x)'
  <2>1. \A d \in Entry : Backed(d) => Backed(d)'
    BY <1>1, BackedKept
  <2> QED  BY <1>1, <1>4, <2>1, CallsKept
<1> QED  BY <1>5, <1>7, <1>8 DEF IInv, Calls

LEMMA StutterKeeps ==
    ASSUME IInv, UNCHANGED vars
    PROVE  IInv'
<1>1. UNCHANGED <<remote, version, objects, call, late, ack, budget>> /\ backup' = backup /\ source' = source
  BY DEF vars
<1>2. source' \in [gen : Nat, len : Nat]
  BY <1>1 DEF IInv, TypeOK
<1> QED  BY <1>1, <1>2, AsideKeeps

\* Planned chunks continue the list they were planned against, and say of an
\* object that was stored before what that went through.
Continuation(plan, raw, n, gen) ==
    /\ plan \in Seq(Entry) /\ Len(plan) = n
    /\ \A i \in 1..n : /\ plan[i].seq = Len(raw.chunks) + i - 1 /\ plan[i].epoch = raw.epoch
                       /\ plan[i].offset = raw.next_offset + i - 1 /\ plan[i].data = gen

LEMMA PlannedType ==
    ASSUME NEW raw \in RawSection, NEW n \in Nat, NEW gen \in Nat,
           NEW data, DOMAIN data = 1..n, \A i \in 1..n : data[i] = gen, NEW plan, plan = PlanChunks(raw, data)
    PROVE  Continuation(plan, raw, n, gen)
<1>1. PICK len \in Nat, epoch \in Nat, next \in Nat :
         len = Len(raw.chunks) /\ epoch = raw.epoch /\ next = raw.next_offset
  BY RawType, ChunksType
<1>2. plan = [i \in 1..n |-> [seq |-> len + i - 1, epoch |-> epoch, offset |-> next + i - 1,
                             data |-> gen, scrub |-> 0]]
  BY <1>1 DEF PlanChunks
<1>4. \A i \in 1..n : len + i - 1 \in Nat /\ next + i - 1 \in Nat
  OBVIOUS
<1>5. plan \in [1..n -> Entry]
  BY <1>2, <1>4 DEF Entry
<1>6. plan \in Seq(Entry) /\ Len(plan) = n /\ DOMAIN plan = 1..n
  BY <1>5
<1>7. \A i \in 1..n : /\ plan[i].seq = len + i - 1 /\ plan[i].epoch = epoch
                      /\ plan[i].offset = next + i - 1 /\ plan[i].data = gen
  BY <1>2
<1> QED  BY <1>1, <1>6, <1>7 DEF Continuation

LEMMA SealedType ==
    ASSUME TypeOK, OneObject, NEW plan \in Seq(Entry), NEW ruleset \in Nat
    PROVE  LET entries == Sealed(plan, ruleset)
           IN  /\ entries \in Seq(Entry) /\ Len(entries) = Len(plan)
               /\ \A i \in 1..Len(plan) :
                     /\ entries[i].seq = plan[i].seq /\ entries[i].epoch = plan[i].epoch
                     /\ entries[i].offset = plan[i].offset /\ entries[i].data = plan[i].data
                     /\ entries[i].scrub # 0 => \A o \in StoredAs(entries[i]) : o.scrub = entries[i].scrub
<1> DEFINE level(i) == IF ruleset = 0 \/ StoredAs(plan[i]) = {} THEN ruleset
                       ELSE (CHOOSE o \in StoredAs(plan[i]) : TRUE).scrub
<1>1. Len(plan) \in Nat /\ DOMAIN plan = 1..Len(plan) /\ \A i \in 1..Len(plan) : plan[i] \in Entry
  BY ChunksType
<1>2. PICK levels : levels = [i \in 1..Len(plan) |-> level(i)]
  OBVIOUS
<1>3. \A i \in 1..Len(plan) :
         levels[i] \in Nat /\ (levels[i] # 0 => \A o \in StoredAs(plan[i]) : o.scrub = levels[i])
  <2> SUFFICES ASSUME NEW i \in 1..Len(plan)
               PROVE  levels[i] \in Nat /\ (levels[i] # 0 => \A o \in StoredAs(plan[i]) : o.scrub = levels[i])
    OBVIOUS
  <2>1. levels[i] = level(i)
    BY <1>2
  <2>2. CASE ruleset = 0 \/ StoredAs(plan[i]) = {}
    BY <2>1, <2>2
  <2>3. CASE ruleset # 0 /\ StoredAs(plan[i]) # {}
    <3>1. PICK q : q = CHOOSE o \in StoredAs(plan[i]) : TRUE
      OBVIOUS
    <3>2. q \in StoredAs(plan[i]) /\ levels[i] = q.scrub
      BY <2>1, <2>3, <3>1
    <3>3. q \in objects /\ q.key = Key(plan[i]) /\ q.scrub \in Nat
      BY <3>2 DEF StoredAs, TypeOK
    <3>4. \A o \in StoredAs(plan[i]) : o = q
      BY <3>3 DEF StoredAs, OneObject
    <3> QED  BY <3>2, <3>3, <3>4
  <2> QED  BY <2>2, <2>3
<1>4. PICK entries : entries = [i \in 1..Len(plan) |-> [plan[i] EXCEPT !.scrub = levels[i]]]
  OBVIOUS
<1>5. Sealed(plan, ruleset) = entries
  BY <1>1, <1>2, <1>4 DEF Sealed
<1>6. \A i \in 1..Len(plan) :
         /\ entries[i] \in Entry /\ entries[i].scrub = levels[i]
         /\ entries[i].seq = plan[i].seq /\ entries[i].epoch = plan[i].epoch
         /\ entries[i].offset = plan[i].offset /\ entries[i].data = plan[i].data
  BY <1>1, <1>3, <1>4 DEF Entry
<1>7. entries \in Seq(Entry) /\ Len(entries) = Len(plan)
  <2>1. entries \in [1..Len(plan) -> Entry]
    BY <1>4, <1>6
  <2> QED  BY <1>1, <2>1
<1>8. \A i \in 1..Len(plan) : StoredAs(entries[i]) = StoredAs(plan[i])
  BY <1>6 DEF StoredAs, Key
<1> QED  BY <1>3, <1>5, <1>6, <1>7, <1>8

\* An upload keeps every object there was, and stores each chunk once.
LEMMA UploadKeeps ==
    ASSUME TypeOK, OneObject, NEW entries \in Seq(Entry), PutRawChunks(entries),
           \A i, j \in DOMAIN entries : i # j => entries[i].seq # entries[j].seq,
           \A i \in DOMAIN entries :
              entries[i].scrub # 0 => \A o \in StoredAs(entries[i]) : o.scrub = entries[i].scrub
    PROVE  /\ objects' \subseteq [key : [seq : Nat, offset : Nat, data : Nat], scrub : Nat]
           /\ OneObject'
           /\ \A e : Backed(e) => Backed(e)'
           /\ \A i \in DOMAIN entries : Backed(entries[i])'
<1>1. objects \subseteq [key : [seq : Nat, offset : Nat, data : Nat], scrub : Nat]
  BY DEF TypeOK
<1>2. \A o \in objects' : \/ o \in objects
                          \/ \E i \in DOMAIN entries : /\ StoredAs(entries[i]) = {}
                                                       /\ o = [key |-> Key(entries[i]), scrub |-> entries[i].scrub]
  BY DEF PutRawChunks, Range
<1>3. /\ objects \subseteq objects'
      /\ \A i \in DOMAIN entries : StoredAs(entries[i]) = {} =>
            [key |-> Key(entries[i]), scrub |-> entries[i].scrub] \in objects'
  BY DEF PutRawChunks, Range
<1>4. \A i \in DOMAIN entries :
         /\ entries[i].scrub \in Nat /\ Key(entries[i]) \in [seq : Nat, offset : Nat, data : Nat]
         /\ Key(entries[i]).seq = entries[i].seq
  BY ChunksType DEF Key
<1>5. objects' \subseteq [key : [seq : Nat, offset : Nat, data : Nat], scrub : Nat]
  BY <1>1, <1>2, <1>4
<1>6. \A e : \A o \in objects' : o.key = Key(e) /\ StoredAs(e) # {} => o \in StoredAs(e)
  <2> SUFFICES ASSUME NEW e, NEW o \in objects', o.key = Key(e), StoredAs(e) # {} PROVE o \in StoredAs(e)
    OBVIOUS
  <2>1. CASE o \in objects
    BY <2>1 DEF StoredAs
  <2>2. CASE o \notin objects
    <3>1. PICK i \in DOMAIN entries : /\ StoredAs(entries[i]) = {}
                                      /\ o = [key |-> Key(entries[i]), scrub |-> entries[i].scrub]
      BY <1>2, <2>2
    <3>2. Key(entries[i]) = Key(e)
      BY <3>1
    <3> QED  BY <3>1, <3>2 DEF StoredAs
  <2> QED  BY <2>1, <2>2
<1>7. ASSUME NEW e, Backed(e) PROVE Backed(e)'
  <2>1. StoredAs(e) # {} /\ StoredAs(e)' = StoredAs(e)
    BY <1>3, <1>6, <1>7 DEF Backed, StoredAs, Key
  <2> QED  BY <1>7, <2>1 DEF Backed
<1>8. \A i, j \in DOMAIN entries : Key(entries[i]) = Key(entries[j]) => i = j
  BY <1>4
<1>9. OneObject'
  <2> SUFFICES ASSUME NEW o \in objects', NEW q \in objects', o.key = q.key PROVE o = q
    BY DEF OneObject
  <2>1. CASE o \in objects /\ q \in objects
    BY <2>1 DEF OneObject
  <2>2. CASE o \notin objects /\ q \notin objects
    <3>1. PICK i \in DOMAIN entries : o = [key |-> Key(entries[i]), scrub |-> entries[i].scrub]
      BY <1>2, <2>2
    <3>2. PICK j \in DOMAIN entries : q = [key |-> Key(entries[j]), scrub |-> entries[j].scrub]
      BY <1>2, <2>2
    <3>3. i = j
      BY <1>8, <3>1, <3>2
    <3> QED  BY <3>1, <3>2, <3>3
  <2>3. ASSUME NEW a \in objects, NEW b \in objects', b \notin objects, a.key = b.key PROVE FALSE
    <3>1. PICK i \in DOMAIN entries : /\ StoredAs(entries[i]) = {}
                                      /\ b = [key |-> Key(entries[i]), scrub |-> entries[i].scrub]
      BY <1>2, <2>3
    <3>2. a \in StoredAs(entries[i])
      BY <2>3, <3>1 DEF StoredAs
    <3> QED  BY <3>1, <3>2
  <2> QED  BY <2>1, <2>2, <2>3
<1>10. ASSUME NEW i \in DOMAIN entries PROVE Backed(entries[i])'
  <2>1. CASE StoredAs(entries[i]) # {}
    <3>1. Backed(entries[i])
      BY <2>1 DEF Backed
    <3> QED  BY <1>7, <3>1
  <2>2. CASE StoredAs(entries[i]) = {}
    <3>1. PICK o \in objects' : o = [key |-> Key(entries[i]), scrub |-> entries[i].scrub]
      BY <1>3, <2>2
    <3>2. \A q \in objects' : q.key = Key(entries[i]) => q = o
      BY <1>9, <3>1 DEF OneObject
    <3> QED  BY <3>1, <3>2 DEF Backed, StoredAs, Key
  <2> QED  BY <2>1, <2>2
<1> QED  BY <1>5, <1>7, <1>9, <1>10

\* A delivery tick: what it plans, uploads and sets out to list.
DeliverEdit(c, e) ==
    /\ e.kind = "append" /\ e.by = c /\ e.opens = Rewritten(remote.raw) /\ e.from = remote.raw.epoch
    /\ Enter(c, e) /\ PutRawChunks(e.entries)
    /\ e.entries \in Seq(Entry) /\ (e.entries = <<>> => Rewritten(remote.raw)) /\ DOMAIN e.entries = 1..Len(e.entries)
    /\ \A i \in DOMAIN e.entries :
          /\ e.entries[i].seq = Len(remote.raw.chunks) + i - 1
          /\ e.entries[i].epoch = (IF Rewritten(remote.raw) THEN remote.raw.epoch + 1 ELSE remote.raw.epoch)
          /\ e.entries[i].data = source.gen /\ e.entries[i].offset < source.len
          /\ e.entries[i].scrub # 0 => \A o \in StoredAs(e.entries[i]) : o.scrub = e.entries[i].scrub

LEMMA DeliverPlans ==
    ASSUME IInv, NEW c \in Clients, Deliver(c)
    PROVE  \E e \in Edits : DeliverEdit(c, e)
<1>1. remote \in Doc /\ remote.raw \in RawSection /\ source.gen \in Nat /\ source.len \in Nat /\ Build[c] \in Nat
      /\ TypeOK /\ OneObject
  BY DocType, ManifestAssumption DEF IInv, TypeOK, Deliver
<1>2. PICK opens \in BOOLEAN : opens = Rewritten(remote.raw)
  BY Zenon DEF Rewritten
<1>3. PICK raw : raw = IF opens THEN OpenEpoch(remote.raw) ELSE remote.raw
  OBVIOUS
<1>4. raw \in RawSection /\ raw.chunks = remote.raw.chunks
      /\ raw.epoch = IF opens THEN remote.raw.epoch + 1 ELSE remote.raw.epoch
  BY <1>1, <1>3, OpenEpochType
<1>5. PICK n \in 0..(source.len - raw.next_offset) :
         LET entries == Sealed(PlanChunks(raw, [i \in 1..n |-> source.gen]), Build[c])
         IN  /\ n = 0 => opens /\ source.len = 0
             /\ PutRawChunks(entries)
             /\ Enter(c, [kind |-> "append", by |-> c, from |-> remote.raw.epoch,
                          opens |-> opens, entries |-> entries])
  BY <1>2, <1>3, Zenon DEF Deliver
<1>6. raw.next_offset \in Nat /\ Len(raw.chunks) \in Nat
  BY <1>4, RawType, ChunksType
<1>7. n \in Nat /\ (n = 0 => opens) /\ raw.next_offset + n <= source.len
  BY <1>1, <1>5, <1>6
<1>8. PICK plan \in Seq(Entry) :
         /\ plan = PlanChunks(raw, [i \in 1..n |-> source.gen]) /\ Len(plan) = n
         /\ \A i \in 1..n : /\ plan[i].seq = Len(raw.chunks) + i - 1 /\ plan[i].epoch = raw.epoch
                            /\ plan[i].offset = raw.next_offset + i - 1 /\ plan[i].data = source.gen
  <2>1. PICK gen \in Nat : gen = source.gen
    BY <1>1
  <2>0. PICK data : data = [i \in 1..n |-> gen]
    OBVIOUS
  <2>2. PICK plan : plan = PlanChunks(raw, data)
    OBVIOUS
  <2>3. Continuation(plan, raw, n, gen)
    <3>1. n \in Nat /\ raw \in RawSection
      BY <1>4, <1>7
    <3>2. DOMAIN data = 1..n /\ \A i \in 1..n : data[i] = gen
      BY <2>0
    <3> QED  BY <2>2, <3>1, <3>2, PlannedType
  <2> QED  BY <2>0, <2>1, <2>2, <2>3, Zenon DEF Continuation
<1>9. PICK entries \in Seq(Entry) :
         /\ entries = Sealed(plan, Build[c]) /\ Len(entries) = n
         /\ \A i \in 1..n :
               /\ entries[i].seq = plan[i].seq /\ entries[i].epoch = plan[i].epoch
               /\ entries[i].offset = plan[i].offset /\ entries[i].data = plan[i].data
               /\ entries[i].scrub # 0 => \A o \in StoredAs(entries[i]) : o.scrub = entries[i].scrub
  <2>1. PICK entries : entries = Sealed(plan, Build[c])
    OBVIOUS
  <2>2. /\ entries \in Seq(Entry) /\ Len(entries) = Len(plan)
        /\ \A i \in 1..Len(plan) :
              /\ entries[i].seq = plan[i].seq /\ entries[i].epoch = plan[i].epoch
              /\ entries[i].offset = plan[i].offset /\ entries[i].data = plan[i].data
              /\ entries[i].scrub # 0 => \A o \in StoredAs(entries[i]) : o.scrub = entries[i].scrub
    BY <1>1, <2>1, SealedType, Zenon
  <2>3. Len(plan) = n
    BY <1>8, Zenon
  <2> QED  BY <2>1, <2>2, <2>3, Zenon
<1>10. PICK e : e = [kind |-> "append", by |-> c, from |-> remote.raw.epoch,
                     opens |-> opens, entries |-> entries]
  OBVIOUS
<1>11. PutRawChunks(entries) /\ Enter(c, e)
  BY <1>5, <1>8, <1>9, <1>10
<1>12. e \in Edits
  <2>1. remote.raw.epoch \in Nat
    BY <1>1, RawType
  <2> QED  BY <1>10, <2>1, Zenon DEF Edits
<1>13. e.kind = "append" /\ e.by = c /\ e.from = remote.raw.epoch /\ e.entries = entries
  BY <1>10
<1>14. e.opens = Rewritten(remote.raw)
  BY <1>2, <1>10, Zenon
<1>15. (entries = <<>> => Rewritten(remote.raw)) /\ DOMAIN entries = 1..Len(entries) /\ DOMAIN entries = 1..n
  BY <1>2, <1>7, <1>9, ChunksType
<1>16. \A i \in 1..n : entries[i].offset < source.len
  <2> SUFFICES ASSUME NEW i \in 1..n PROVE entries[i].offset < source.len
    OBVIOUS
  <2>1. entries[i].offset = raw.next_offset + i - 1
    BY <1>8, <1>9, ZenonT(30)
  <2> QED  BY <1>1, <1>6, <1>7, <2>1
<1>17. \A i \in DOMAIN entries :
          /\ entries[i].seq = Len(remote.raw.chunks) + i - 1
          /\ entries[i].epoch = (IF Rewritten(remote.raw) THEN remote.raw.epoch + 1 ELSE remote.raw.epoch)
          /\ entries[i].data = source.gen /\ entries[i].offset < source.len
          /\ entries[i].scrub # 0 => \A o \in StoredAs(entries[i]) : o.scrub = entries[i].scrub
  <2> SUFFICES ASSUME NEW i \in 1..n
               PROVE  /\ entries[i].seq = Len(remote.raw.chunks) + i - 1
                      /\ entries[i].epoch = (IF Rewritten(remote.raw) THEN remote.raw.epoch + 1 ELSE remote.raw.epoch)
                      /\ entries[i].data = source.gen /\ entries[i].offset < source.len
                      /\ entries[i].scrub # 0 => \A o \in StoredAs(entries[i]) : o.scrub = entries[i].scrub
    BY <1>15
  <2>1. entries[i].seq = plan[i].seq /\ entries[i].epoch = plan[i].epoch /\ entries[i].data = plan[i].data
        /\ (entries[i].scrub # 0 => \A o \in StoredAs(entries[i]) : o.scrub = entries[i].scrub)
    BY <1>9, Zenon
  <2>2. plan[i].seq = Len(raw.chunks) + i - 1 /\ plan[i].epoch = raw.epoch /\ plan[i].data = source.gen
    BY <1>8, Zenon
  <2>3. entries[i].epoch = (IF Rewritten(remote.raw) THEN remote.raw.epoch + 1 ELSE remote.raw.epoch)
    BY <1>2, <1>4, <2>1, <2>2
  <2>4. entries[i].seq = Len(remote.raw.chunks) + i - 1 /\ entries[i].data = source.gen
    BY <1>4, <2>1, <2>2
  <2> QED  BY <1>16, <2>1, <2>3, <2>4
<1> QED  BY <1>11, <1>12, <1>13, <1>14, <1>15, <1>17 DEF DeliverEdit

LEMMA DeliverKeeps ==
    ASSUME IInv, NEW c \in Clients, Deliver(c)
    PROVE  IInv'
<1>0. PICK e \in Edits : DeliverEdit(c, e)
  BY DeliverPlans
<1>1. /\ e.kind = "append" /\ e.by = c /\ Enter(c, e) /\ PutRawChunks(e.entries)
      /\ e.entries \in Seq(Entry) /\ DOMAIN e.entries = 1..Len(e.entries)
      /\ \A i \in DOMAIN e.entries :
            /\ e.entries[i].seq = Len(remote.raw.chunks) + i - 1
            /\ e.entries[i].scrub # 0 => \A o \in StoredAs(e.entries[i]) : o.scrub = e.entries[i].scrub
  BY <1>0 DEF DeliverEdit
<1>2. /\ UNCHANGED <<remote, version, backup, source, late, budget>> /\ remote # None
      /\ MayWrite(Classify(remote, c, ack[c]))
      /\ ack' = [ack EXCEPT ![c] = IF Classify(remote, c, ack[c]) = "extended" THEN AckOf(remote) ELSE @]
  BY DEF Deliver
<1>3. /\ TypeOK /\ OneObject /\ version \in Nat /\ remote \in Doc /\ ack \in [Clients -> Ack \cup {None}]
      /\ c \in Writers /\ c \notin Servers
  BY <1>2, ManifestAssumption DEF IInv, TypeOK, Writers
<1>4. Len(remote.raw.chunks) \in Nat /\ remote.raw.chunks \in Seq(Entry)
  BY <1>3, DocType, RawType, ChunksType
<1>5. \A i, j \in DOMAIN e.entries : i # j => e.entries[i].seq # e.entries[j].seq
  BY <1>1, <1>4
<1>6. /\ objects' \subseteq [key : [seq : Nat, offset : Nat, data : Nat], scrub : Nat]
      /\ OneObject' /\ (\A d : Backed(d) => Backed(d)')
      /\ \A i \in DOMAIN e.entries : Backed(e.entries[i])'
  BY <1>1, <1>3, <1>5, UploadKeeps
<1>7. /\ call' \in [Writers -> Call \cup {None}]
      /\ call'[c] \in Call /\ call'[c].pc = "read" /\ call'[c].edit = e
      /\ call'[c].attempt = 1 /\ call'[c].since = version
      /\ \A x \in Writers \ {c} : call'[x] = call[x]
  BY <1>1, <1>3, EnterType
<1>8. PICK a \in Ack : a = AckOf(remote) /\ a.content = ContentSha256(remote.raw.chunks)
  BY <1>3, AckOfType
<1>9. /\ ack' \in [Clients -> Ack \cup {None}] /\ \A x \in Clients \ {c} : ack'[x] = ack[x]
      /\ ack'[c] = ack[c] \/ ack'[c] = a
  <2>1. ack' = [ack EXCEPT ![c] = IF Classify(remote, c, ack[c]) = "extended" THEN a ELSE ack[c]]
    BY <1>2, <1>8
  <2> QED  BY <1>3, <2>1
<1>10. TypeOK'
  BY <1>2, <1>3, <1>6, <1>7, <1>9 DEF TypeOK
<1>11. Pending' \subseteq Pending
  <2> PICK gone : gone = {c}
    OBVIOUS
  <2> QED  BY <1>2, <1>7, PendingLess
<1>12. Puts'
  <2>1. ASSUME NEW p \in Pending' PROVE Carries(p)'
    <3>1. Carries(p) /\ p.body \in Doc /\ p \in Pending
      BY <1>11, PendingType DEF IInv, Puts
    <3>2. p.by = c /\ p.expect = version => Extends(ContentSha256(p.body.raw.chunks), ContentSha256(remote.raw.chunks))
      <4> SUFFICES ASSUME p.by = c, p.expect = version
                   PROVE  Extends(ContentSha256(p.body.raw.chunks), ContentSha256(remote.raw.chunks))
        OBVIOUS
      <4>1. Extends(p.body.raw.chunks, remote.raw.chunks)
        BY <1>2, <3>1 DEF Carries
      <4>2. p.body.raw.chunks \in Seq(Entry)
        BY <3>1, DocType, RawType
      <4> QED  BY <1>4, <4>1, <4>2, ContentExtends
    <3>3. p.by \in Clients /\ p.expect = version /\ ack'[p.by] # None =>
             Extends(ContentSha256(p.body.raw.chunks), ack'[p.by].content)
      <4>1. CASE p.by = c /\ ack'[c] = a
        BY <1>8, <3>2, <4>1
      <4>2. CASE p.by \in Clients /\ ack'[p.by] = ack[p.by]
        BY <3>1, <4>2 DEF Carries
      <4> QED  BY <1>9, <4>1, <4>2
    <3> QED  BY <1>2, <3>1, <3>3 DEF Carries
  <2> QED  BY <2>1 DEF Puts
<1>13. Docs'
  <2>1. \A m \in Documents' : m \in Documents
    BY <1>2, <1>11 DEF Documents
  <2>2. ASSUME NEW m \in Documents' PROVE Truthful(m) /\ Covered(m)'
    <3>1. Truthful(m) /\ Covered(m)
      BY <2>1 DEF IInv, Docs
    <3> QED  BY <1>6, <3>1 DEF Covered
  <2> QED  BY <2>2 DEF Docs, Truthful
<1>14. Started'
  BY <1>2 DEF Started
<1>15. \A x \in Writers \ {c} : InCall(x)' /\ Uploaded(x)'
  <2>1. version' \in Nat /\ version <= version'
    BY <1>2, <1>3
  <2> QED  BY <1>2, <1>6, <1>7, <1>9, <2>1, CallsKept
<1>16. InCall(c)'
  <2>1. call'[c].since + call'[c].attempt - 1 <= version'
    BY <1>2, <1>3, <1>7
  <2> QED  BY <1>1, <1>2, <1>3, <1>7, <2>1 DEF InCall
<1>17. Uploaded(c)'
  BY <1>6, <1>7 DEF Uploaded
<1> QED  BY <1>6, <1>10, <1>12, <1>13, <1>14, <1>15, <1>16, <1>17 DEF IInv, Calls

-----------------------------------------------------------------------------
(* The invariant, and what follows from it.                                *)

LEMMA InitHolds ==
    ASSUME Init
    PROVE  IInv
<1>1. call = [w \in Writers |-> None] /\ ack = [c \in Clients |-> None] /\ late = {} /\ objects = {}
      /\ remote = None /\ backup = None /\ version = 0 /\ source = [gen |-> 0, len |-> 0]
  BY DEF Init
<1>2. budget \in [{"faults", "restores", "takeovers", "moves"} -> Nat]
  <2>1. MaxFaults \in Nat /\ MaxRestores \in Nat /\ MaxTakeovers \in Nat /\ MaxMoves \in Nat
    BY ManifestAssumption
  <2>2. budget = [faults |-> MaxFaults, restores |-> MaxRestores, takeovers |-> MaxTakeovers, moves |-> MaxMoves]
    BY DEF Init
  <2> QED  BY <2>1, <2>2
<1>3. \A w \in Writers : call[w] = None
  BY <1>1
<1>4. TypeOK
  BY <1>1, <1>2 DEF TypeOK
<1>5. Pending = {}
  BY <1>1, <1>3 DEF Pending
<1>6. Calls
  BY <1>3 DEF Calls, InCall, Uploaded
<1>7. Puts /\ Docs
  BY <1>1, <1>5 DEF Puts, Docs, Documents
<1>8. Started /\ OneObject
  BY <1>1 DEF Started, OneObject
<1> QED  BY <1>4, <1>6, <1>7, <1>8 DEF IInv

LEMMA NextKeeps ==
    ASSUME IInv, [Next]_vars
    PROVE  IInv'
<1>1. CASE \E w \in Writers : Step(w) \/ PutTwice(w) \/ Abandon(w)
  BY <1>1, AttemptKeeps, PutKeeps, PutTwiceKeeps, AbandonKeeps DEF Step
<1>2. CASE \E put \in late : Arrive(put)
  BY <1>2, ArriveKeeps
<1>3. CASE \E c \in Clients : Create(c) \/ Deliver(c) \/ TakeOver(c)
  BY <1>3, CreateKeeps, DeliverKeeps, TakeOverKeeps
<1>4. CASE \E s \in Servers : Transform(s) \/ Decide(s)
  BY <1>4, TransformKeeps, DecideKeeps
<1>5. CASE Grow \/ Rewrite
  BY <1>5, SourceKeeps
<1>6. CASE Backup \/ Restore
  BY <1>6, BackupKeeps, RestoreKeeps
<1>7. CASE UNCHANGED vars
  BY <1>7, StutterKeeps
<1> QED  BY <1>1, <1>2, <1>3, <1>4, <1>5, <1>6, <1>7 DEF Next

\* The invariant holds, of calls, puts on the wire, manifests and objects.
THEOREM ManifestInvariance == Spec => []IInv
<1>1. Init => IInv
  BY InitHolds
<1>2. IInv /\ [Next]_vars => IInv'
  BY NextKeeps
<1> QED  BY <1>1, <1>2, PTL DEF Spec

\* Every variable keeps its type, and no call passes its attempts
\* (update.rs: the loop of update_manifest).
THEOREM ManifestTyped == Spec => []TypeOK
<1>1. IInv => TypeOK
  BY DEF IInv
<1> QED  BY <1>1, ManifestInvariance, PTL

\* Every attempt a call of update_manifest lost was lost to a manifest stored
\* meanwhile, for any number of writers and attempts (update.rs).
THEOREM ContendedIsContended == Spec => []LostToAnother
<1>1. IInv => LostToAnother
  BY DEF IInv, Calls, InCall, LostToAnother
<1> QED  BY <1>1, ManifestInvariance, PTL

\* Output that normalized_is_current shows was built from the chunks and the
\* epoch listed, whatever transforms and client writes overlapped (server.rs).
THEOREM CurrentIsTrue == Spec => []NormalizedTruth
<1>1. IInv => NormalizedTruth
  <2> SUFFICES ASSUME IInv, remote # None, NormalizedIsCurrent(remote)
               PROVE  remote.server.normalized.built = <<ContentSha256(remote.raw.chunks), remote.raw.epoch>>
    BY DEF NormalizedTruth
  <2>1. Truthful(remote)
    BY DEF IInv, Docs, Documents
  <2> QED  BY <2>1 DEF Truthful, NormalizedIsCurrent
<1> QED  BY <1>1, ManifestInvariance, PTL

\* Every chunk listed is stored, and the marker is at most what each object
\* went through, for clients of any builds (client.rs: record_scrub; seal.rs).
THEOREM MarkerHolds == Spec => []Vouched
<1>1. IInv => Vouched
  <2> SUFFICES ASSUME IInv, remote # None, NEW e \in Range(remote.raw.chunks)
               PROVE  /\ StoredAs(e) # {}
                      /\ remote.raw.scrub # None => \A o \in StoredAs(e) : remote.raw.scrub <= o.scrub
    BY DEF Vouched
  <2>1. Covered(remote)
    BY DEF IInv, Docs, Documents
  <2>2. PICK i \in DOMAIN remote.raw.chunks : e = remote.raw.chunks[i]
    BY DEF Range
  <2>3. Backed(e) /\ (remote.raw.scrub # None => remote.raw.scrub <= e.scrub /\ e.scrub # 0)
    BY <2>1, <2>2 DEF Covered
  <2> QED  BY <2>3 DEF Backed
<1> QED  BY <1>1, ManifestInvariance, PTL

\* The store took a put of the writer, planned against the version it replaces.
LEMMA WroteWhat ==
    ASSUME IInv, Next, NEW w \in Writers, Wrote(w)
    PROVE  \E p \in Pending : p.by = w /\ p.expect = version /\ remote' = p.body
<1>0. version' # version /\ version \in Nat
  BY DEF Wrote, IInv, TypeOK
<1>1. CASE \E x \in Writers : Put(x) \/ PutTwice(x)
  <2>1. PICK x \in Writers : Put(x) \/ PutTwice(x)
    BY <1>1
  <2>2. call[x] # None /\ call[x].pc = "put" /\ late' = late /\ Stores(call[x])
    BY <2>1 DEF Put, PutTwice
  <2>3. remote' = call[x].body /\ call[x].expect = version
    BY <1>0, <2>2 DEF Stores
  <2>4. call' = [call EXCEPT ![x] = None]
        \/ call' = [call EXCEPT ![x].pc = "read", ![x].attempt = @ + 1]
    BY <1>0, <2>1 DEF Put, PutTwice, Leave, Refused
  <2>5. \A y \in Writers \ {x} : call'[y] = call[y]
    BY <2>4 DEF IInv, TypeOK
  <2>6. w = x
    BY <2>2, <2>5 DEF Wrote
  <2>7. [by |-> x, expect |-> call[x].expect, body |-> call[x].body] \in Pending
    BY <2>2, PutIsPending
  <2> QED  BY <2>3, <2>6, <2>7
<1>2. CASE \E put \in late : Arrive(put)
  <2>1. PICK put \in late : Arrive(put)
    BY <1>2
  <2>2. call' = call /\ late' = late \ {put} /\ Stores(put)
    BY <2>1 DEF Arrive
  <2>3. put.by = w
    BY <2>2 DEF Wrote
  <2>4. remote' = put.body /\ put.expect = version
    BY <1>0, <2>2 DEF Stores
  <2> QED  BY <2>3, <2>4 DEF Pending
<1>3. CASE Restore
  BY <1>3 DEF Restore, Wrote
<1>4. CASE \/ \E x \in Writers : Attempt(x) \/ Abandon(x)
           \/ \E c \in Clients : Create(c) \/ Deliver(c) \/ TakeOver(c)
           \/ \E s \in Servers : Transform(s) \/ Decide(s)
           \/ Grow \/ Rewrite \/ Backup
  BY <1>0, <1>4 DEF Attempt, Abandon, Create, Deliver, TakeOver, Transform, Decide, Grow, Rewrite, Backup
<1> QED  BY <1>1, <1>2, <1>3, <1>4 DEF Next, Step

\* Neither side's write loses what the other wrote, and none of a fenced client
\* lands, however late a put arrives (update.rs: update_manifest).
THEOREM SidesKept == Spec => SectionsKept
<1> DEFINE A == \A w \in Writers :
                   Wrote(w) /\ remote # None =>
                       LET new == remote'
                       IN  /\ w \in Servers => new.raw = remote.raw
                           /\ w \in Clients =>
                                 /\ new.server = remote.server
                                 /\ remote.raw.owner # w => new.raw = [remote.raw EXCEPT !.owner = w]
<1>1. IInv /\ [Next]_vars => [A]_vars
  <2> SUFFICES ASSUME IInv, Next, NEW w \in Writers, Wrote(w), remote # None
               PROVE  /\ w \in Servers => remote'.raw = remote.raw
                      /\ w \in Clients =>
                            /\ remote'.server = remote.server
                            /\ remote.raw.owner # w => remote'.raw = [remote.raw EXCEPT !.owner = w]
    OBVIOUS
  <2>1. PICK p \in Pending : p.by = w /\ p.expect = version /\ remote' = p.body
    BY WroteWhat
  <2>2. Carries(p)
    BY DEF IInv, Puts
  <2> QED  BY <2>1, <2>2 DEF Carries
<1>2. [][A]_vars => SectionsKept
  BY PTL DEF SectionsKept
<1> QED  BY <1>1, <1>2, ManifestInvariance, PTL DEF Spec

\* What a client saw acknowledged is in what it sees acknowledged next.
LEMMA AckGrows ==
    ASSUME IInv, Next, NEW c \in Clients, ack[c] # None
    PROVE  ack'[c] \in Ack /\ Extends(ack'[c].content, ack[c].content)
<1>0. ack \in [Clients -> Ack \cup {None}] /\ ack[c] \in Ack /\ c \in Writers
  BY DEF IInv, TypeOK, Writers
<1>1. ack[c].content \in Seq(Content)
  BY <1>0 DEF Ack
<1>2. CASE ack'[c] = ack[c]
  BY <1>0, <1>1, <1>2, ExtendsItself
<1>3. CASE \E x \in Writers : Put(x)
  <2>1. PICK x \in Writers : Put(x)
    BY <1>3
  <2>2. CASE version' # version /\ x = c
    <3>1. call[c] # None /\ call[c].pc = "put" /\ Stores(call[c]) /\ ack' = [ack EXCEPT ![c] = AckOf(call[c].body)]
      BY <2>1, <2>2 DEF Put, Acknowledge
    <3>2. PICK p : p = [by |-> c, expect |-> call[c].expect, body |-> call[c].body]
      OBVIOUS
    <3>3. p \in Pending /\ p.body \in Doc /\ p.by = c /\ p.body = call[c].body
      BY <1>0, <3>1, <3>2, PutIsPending
    <3>4. p.expect = version
      BY <2>2, <3>1, <3>2 DEF Stores
    <3>5. Extends(ContentSha256(p.body.raw.chunks), ack[c].content)
      BY <3>3, <3>4 DEF IInv, Puts, Carries
    <3>6. ack'[c] = AckOf(p.body)
      BY <1>0, <3>1, <3>3
    <3> QED  BY <3>3, <3>5, <3>6, AckOfType
  <2>3. CASE ~(version' # version /\ x = c)
    <3>1. ack'[c] = ack[c]
      BY <1>0, <2>1, <2>3 DEF Put, Acknowledge
    <3> QED  BY <1>2, <3>1
  <2> QED  BY <2>2, <2>3
<1>4. CASE \E x \in Clients : Deliver(x)
  <2>1. PICK x \in Clients : Deliver(x)
    BY <1>4
  <2>2. /\ remote \in Doc /\ MayWrite(Classify(remote, x, ack[x]))
        /\ ack' = [ack EXCEPT ![x] = IF Classify(remote, x, ack[x]) = "extended" THEN AckOf(remote) ELSE @]
    BY <2>1 DEF Deliver, IInv, TypeOK
  <2>3. ack'[c] = ack[c] \/ (x = c /\ ack'[c] = AckOf(remote))
    <3>1. PICK a : a = AckOf(remote)
      OBVIOUS
    <3>2. PICK b : b = IF Classify(remote, x, ack[x]) = "extended" THEN a ELSE ack[x]
      OBVIOUS
    <3>3. ack' = [ack EXCEPT ![x] = b]
      BY <2>2, <3>1, <3>2
    <3> QED  BY <1>0, <3>1, <3>2, <3>3
  <2>4. CASE x = c /\ ack'[c] = AckOf(remote)
    <3>1. Extends(ContentSha256(remote.raw.chunks), ack[c].content)
      BY <1>0, <2>2, <2>4, ClassifyWrites
    <3> QED  BY <2>2, <2>4, <3>1, AckOfType
  <2> QED  BY <1>2, <2>3, <2>4
<1>5. CASE \/ \E x \in Writers : Attempt(x) \/ PutTwice(x) \/ Abandon(x)
           \/ \E put \in late : Arrive(put)
           \/ \E x \in Clients : Create(x) \/ TakeOver(x)
           \/ \E s \in Servers : Transform(s) \/ Decide(s)
           \/ Grow \/ Rewrite \/ Backup \/ Restore
  <2>1. ack' = ack
    BY <1>5 DEF Attempt, PutTwice, Abandon, Arrive, Create, TakeOver, Transform, Decide,
                Grow, Rewrite, Backup, Restore
  <2> QED  BY <1>2, <2>1
<1> QED  BY <1>3, <1>4, <1>5 DEF Next, Step

\* A client never disowns what it saw acknowledged, and writes over no manifest
\* that lost a part of it: after a restore it stops (client.rs: classify).
THEOREM AcknowledgedKept == Spec => NothingLost
<1> DEFINE A == \A c \in Clients :
                   ack[c] # None =>
                       /\ IsPrefix(ack[c].content, ack'[c].content)
                       /\ Wrote(c) => IsPrefix(ack[c].content, ContentSha256(remote'.raw.chunks))
<1>1. IInv /\ [Next]_vars => [A]_vars
  <2> SUFFICES ASSUME IInv, Next, NEW c \in Clients, ack[c] # None
               PROVE  /\ IsPrefix(ack[c].content, ack'[c].content)
                      /\ Wrote(c) => IsPrefix(ack[c].content, ContentSha256(remote'.raw.chunks))
    OBVIOUS
  <2>1. ack[c].content \in Seq(Content) /\ c \in Writers
    BY DEF IInv, TypeOK, Ack, Writers
  <2>2. IsPrefix(ack[c].content, ack'[c].content)
    <3>1. ack'[c] \in Ack /\ Extends(ack'[c].content, ack[c].content)
      BY AckGrows
    <3>2. ack'[c].content \in Seq(Content)
      BY <3>1 DEF Ack
    <3> QED  BY <2>1, <3>1, <3>2, PrefixExtends
  <2>3. ASSUME Wrote(c) PROVE IsPrefix(ack[c].content, ContentSha256(remote'.raw.chunks))
    <3>1. PICK p \in Pending : p.by = c /\ p.expect = version /\ remote' = p.body
      BY <2>1, <2>3, WroteWhat
    <3>2. Extends(ContentSha256(p.body.raw.chunks), ack[c].content)
      BY <3>1 DEF IInv, Puts, Carries
    <3>3. ContentSha256(p.body.raw.chunks) \in Seq(Content)
      BY PendingType, DocType, RawType, ContentType
    <3> QED  BY <2>1, <3>1, <3>2, <3>3, PrefixExtends
  <2> QED  BY <2>2, <2>3
<1>2. [][A]_vars => NothingLost
  BY PTL DEF NothingLost
<1> QED  BY <1>1, <1>2, ManifestInvariance, PTL DEF Spec

-----------------------------------------------------------------------------
(* No unit of the source is listed twice, while nobody restores a backup.  *)

LEMMA AppendsType ==
    ASSUME IInv, NEW e \in Appends
    PROVE  /\ e \in Edits /\ e.kind = "append" /\ e.from \in Nat /\ e.entries \in Seq(Entry)
           /\ remote \in Doc /\ remote # None
<1>1. PICK w \in Writers : call[w] # None /\ call[w].edit.kind = "append" /\ e = call[w].edit
  BY DEF Appends
<1>2. call[w] \in Call /\ remote # None /\ remote \in Doc \cup {None}
  BY <1>1 DEF IInv, TypeOK, Calls, InCall
<1>3. e \in Edits
  BY <1>1, <1>2, CallType
<1> QED  BY <1>1, <1>2, <1>3, EditType

LEMMA Below ==
    ASSUME NEW a \in Nat, NEW b \in Nat, a < b
    PROVE  a <= b /\ a # b
OBVIOUS

\* A list with one more reading at its end is in order: it continues the epoch
\* of its content, or opens one for a content that is new.
LEMMA OrderedConcat ==
    ASSUME NEW old \in Seq(Entry), NEW added \in Seq(Entry), NEW list \in Seq(Entry), list = old \o added,
           NEW epoch \in Nat, NEW later \in Nat,
           InOrder(old), Follows(added, old, epoch, later)
    PROVE  InOrder(list)
<1> SUFFICES ASSUME NEW i \in 1..Len(list), NEW j \in 1..Len(list), i < j
             PROVE  /\ list[i].data <= list[j].data
                    /\ list[i].epoch = list[j].epoch <=> list[i].data = list[j].data
  BY DEF InOrder
<1>1. \/ i \in 1..Len(old) /\ list[i] = old[i]
      \/ i - Len(old) \in 1..Len(added) /\ list[i] = added[i - Len(old)]
  BY ConcatAt
<1>2. \/ j \in 1..Len(old) /\ list[j] = old[j]
      \/ j - Len(old) \in 1..Len(added) /\ list[j] = added[j - Len(old)]
  BY ConcatAt
<1>3. /\ Len(old) \in Nat /\ Len(added) \in Nat /\ i \in Nat /\ j \in Nat
      /\ \A k \in 1..Len(old) : old[k].data \in Nat /\ old[k].epoch \in Nat
      /\ \A k \in 1..Len(added) : added[k].data \in Nat /\ added[k].epoch \in Nat
  BY ChunksType
<1>4. CASE j \in 1..Len(old) /\ list[j] = old[j]
  <2>1. i \in 1..Len(old)
    BY <1>3, <1>4
  <2>2. list[i] = old[i]
    BY <1>1, <1>3, <2>1
  <2> QED  BY <1>4, <2>1, <2>2 DEF InOrder
<1>5. CASE j - Len(old) \in 1..Len(added) /\ list[j] = added[j - Len(old)]
  <2>1. PICK n \in 1..Len(added) : list[j] = added[n]
    BY <1>5
  <2>2. list[j].data = added[1].data /\ list[j].epoch = later /\ list[j].data \in Nat
    BY <1>3, <2>1 DEF Follows
  <2>3. CASE i \in 1..Len(old) /\ list[i] = old[i]
    <3>1. list[i].data \in Nat /\ list[i].epoch \in Nat /\ list[i].epoch <= epoch
      BY <1>3, <2>3 DEF Follows
    <3>2. CASE later # epoch
      <4>1. list[i].data < list[j].data
        BY <2>2, <2>3, <3>2 DEF Follows
      <4>2. list[j].epoch = epoch + 1
        BY <2>2, <3>2 DEF Follows
      <4>3. list[i].data <= list[j].data /\ list[i].data # list[j].data
        BY <2>2, <3>1, <4>1, Below, Zenon
      <4>4. list[i].epoch # list[j].epoch
        BY <3>1, <4>2
      <4> QED  BY <4>3, <4>4
    <3>3. CASE later = epoch
      <4>1. list[i].data <= list[j].data /\ (list[i].epoch = epoch <=> list[i].data = list[j].data)
        BY <2>2, <2>3, <3>3 DEF Follows
      <4>2. list[j].epoch = epoch
        BY <2>2, <3>3
      <4> QED  BY <4>1, <4>2
    <3> QED  BY <3>2, <3>3
  <2>4. CASE i - Len(old) \in 1..Len(added) /\ list[i] = added[i - Len(old)]
    <3>1. PICK k \in 1..Len(added) : list[i] = added[k]
      BY <2>4
    <3>2. list[i].data = list[j].data /\ list[i].epoch = list[j].epoch
      BY <2>2, <3>1 DEF Follows
    <3> QED  BY <2>2, <3>2
  <2> QED  BY <1>1, <2>3, <2>4
<1> QED  BY <1>2, <1>4, <1>5

\* An epoch opened over an empty source leaves the list as it is.
LEMMA OpenOrdered ==
    ASSUME IInv, NEW m \in Doc, m = remote, Ordered(m.raw), NEW e \in Edits, e.kind = "append",
           e.entries = <<>>, Reopens(e), NEW new, new = AppendEdit(m, e), new # None
    PROVE  Ordered(new.raw)
<1>1. /\ e.by \in Clients /\ ack[e.by] \in Ack \cup {None} /\ source.gen \in Nat
  <2>1. e.by \in Clients
    BY EditType
  <2>2. source.gen \in Nat /\ \A c \in Clients : ack[c] \in Ack \cup {None}
    BY DEF IInv, TypeOK
  <2> QED  BY <2>1, <2>2
<1>2. /\ new \in Doc /\ new.raw.chunks = m.raw.chunks \o e.entries
      /\ new.raw.epoch = (IF e.opens THEN m.raw.epoch + 1 ELSE m.raw.epoch) /\ (e.opens => m.raw.epoch = e.from)
      /\ new.raw.next_offset = EpochEnd(new.raw.chunks, new.raw.epoch)
  BY <1>1, AppendEdited, Zenon
<1>3. PICK list \in Seq(Entry) : list = m.raw.chunks /\ list = new.raw.chunks
  <2>1. m.raw.chunks \in Seq(Entry)
    BY DocType, RawType
  <2>2. new.raw.chunks = m.raw.chunks
    BY <1>2, <2>1
  <2> QED  BY <2>1, <2>2
<1>4. PICK epoch \in Nat : epoch = m.raw.epoch
  BY DocType, RawType
<1>5. /\ e.opens /\ new.raw.epoch = epoch + 1 /\ list # <<>>
      /\ list[Len(list)].epoch = epoch /\ list[Len(list)].data < source.gen
  <2>1. e.opens /\ m.raw.epoch = e.from
    BY <1>2 DEF Reopens
  <2> QED  BY <1>2, <1>3, <1>4, <2>1 DEF Reopens
<1>6. /\ Len(list) \in Nat /\ DOMAIN list = 1..Len(list) /\ Len(list) \in 1..Len(list)
      /\ \A i \in 1..Len(list) : list[i].data \in Nat /\ list[i].epoch \in Nat
  BY <1>5, ChunksType
<1>7. /\ \A i \in 1..Len(list) :
            /\ list[i].seq = i - 1 /\ list[i].epoch <= epoch /\ list[i].data <= source.gen
            /\ list[i].data = source.gen => list[i].offset < source.len
      /\ InOrder(list)
  BY <1>3, <1>4 DEF Ordered
<1>8. ASSUME NEW i \in 1..Len(list) PROVE list[i].epoch < epoch + 1 /\ list[i].data < source.gen
  <2>1. list[i].epoch < epoch + 1
    BY <1>6, <1>7
  <2>2. CASE i = Len(list)
    BY <1>5, <2>1, <2>2
  <2>3. CASE i # Len(list)
    <3>1. list[i].data <= list[Len(list)].data
      <4>1. i < Len(list)
        <5>1. PICK n \in Nat : n = Len(list)
          BY <1>6
        <5> QED  BY <2>3, <5>1
      <4>2. \A a, b \in 1..Len(list) : a < b => list[a].data <= list[b].data
        BY <1>7, Zenon DEF InOrder
      <4> QED  BY <1>6, <4>1, <4>2
    <3> QED  BY <1>1, <1>5, <1>6, <2>1, <3>1
  <2> QED  BY <2>2, <2>3
<1>9. EpochEnd(list, epoch + 1) = 0
  <2>1. {i \in DOMAIN list : list[i].epoch = epoch + 1} = {}
    BY <1>6, <1>8
  <2> QED  BY <2>1 DEF EpochEnd
<1>10. PICK raw : raw = new.raw
  OBVIOUS
<1>11. raw.chunks = list /\ raw.epoch = epoch + 1 /\ raw.next_offset = 0
  BY <1>2, <1>3, <1>5, <1>9, <1>10
<1>12. Emptied(raw)
  BY <1>8, <1>11 DEF Emptied
<1>13. \A i \in 1..Len(list) : list[i].epoch <= epoch + 1
  BY <1>6, <1>7
<1>14. Ordered(raw)
  BY <1>5, <1>7, <1>11, <1>12, <1>13 DEF Ordered
<1> QED  BY <1>10, <1>14

\* An append of chunks that is written keeps the list in order.
LEMMA AppendOrdered ==
    ASSUME IInv, NEW m \in Doc, m = remote, Ordered(m.raw), NEW e \in Edits, e.kind = "append",
           e.entries # <<>>, Lists(e), NEW new, new = AppendEdit(m, e), new # None, Valid(new)
    PROVE  Ordered(new.raw)
<1>1. /\ e.by \in Clients /\ ack[e.by] \in Ack \cup {None} /\ source.gen \in Nat /\ source.len \in Nat
      /\ e.entries \in Seq(Entry) /\ e.opens \in BOOLEAN
  <2>1. e.by \in Clients /\ e.entries \in Seq(Entry) /\ e.opens \in BOOLEAN
    BY EditType
  <2>2. source.gen \in Nat /\ source.len \in Nat /\ \A c \in Clients : ack[c] \in Ack \cup {None}
    BY DEF IInv, TypeOK
  <2> QED  BY <2>1, <2>2
<1>2. /\ new \in Doc /\ new.raw.chunks = m.raw.chunks \o e.entries
      /\ new.raw.epoch = (IF e.opens THEN m.raw.epoch + 1 ELSE m.raw.epoch)
      /\ new.raw.next_offset = EpochEnd(new.raw.chunks, new.raw.epoch)
      /\ e.entries # <<>> => e.entries[1].seq = Len(m.raw.chunks) /\ e.entries[1].epoch = new.raw.epoch
  BY <1>1, AppendEdited, Zenon
<1>3. PICK old \in Seq(Entry), added \in Seq(Entry), list \in Seq(Entry) :
         old = m.raw.chunks /\ added = e.entries /\ list = new.raw.chunks
  BY <1>1, <1>2, DocType, RawType
<1>4. list = old \o added
  BY <1>2, <1>3, Zenon
<1>5. PICK epoch \in Nat, later \in Nat : epoch = m.raw.epoch /\ later = new.raw.epoch
  BY <1>2, DocType, RawType
<1>6. later = IF e.opens THEN epoch + 1 ELSE epoch
  BY <1>2, <1>5
<1>7. added # <<>> /\ added[1].seq = Len(old) /\ added[1].epoch = later
  BY <1>2, <1>3, <1>5
<1>8. /\ DOMAIN old = 1..Len(old) /\ DOMAIN added = 1..Len(added) /\ DOMAIN list = 1..Len(list)
      /\ Len(old) \in Nat /\ Len(added) \in Nat /\ Len(list) \in Nat
  BY ChunksType
<1>9. Len(list) = Len(old) + Len(added) /\ Len(added) > 0 /\ list[Len(list)] = added[Len(added)]
  <2>1. Len(list) = Len(old) + Len(added)
    BY <1>4, <1>8
  <2>2. Len(added) > 0
    BY <1>7, <1>8
  <2>3. list[Len(list)] = added[Len(added)]
    BY <1>4, <1>8, <2>1, <2>2
  <2> QED  BY <2>1, <2>2, <2>3
<1>10. \A i \in 1..Len(added) :
          /\ added[i].epoch = later /\ added[i].data = added[1].data
          /\ added[i].data <= source.gen /\ (added[i].data = source.gen => added[i].offset < source.len)
  BY <1>3, <1>7, <1>8 DEF Lists
<1>11. \A i \in 1..Len(old) :
          IF e.opens THEN old[i].data < added[1].data
          ELSE old[i].data <= added[1].data /\ (old[i].epoch = epoch <=> old[i].data = added[1].data)
  <2>1. Len(old) = added[1].seq /\ added[1].epoch = IF e.opens THEN epoch + 1 ELSE epoch
    BY <1>6, <1>7
  <2> QED  BY <1>3, <1>5, <1>8, <2>1 DEF Lists
<1>12. /\ \A i \in 1..Len(old) : /\ old[i].epoch <= epoch /\ old[i].data <= source.gen
                                 /\ old[i].data = source.gen => old[i].offset < source.len
       /\ InOrder(old)
  BY <1>3, <1>5 DEF Ordered
<1>13. InOrder(list)
  <2>1. later \in {epoch, epoch + 1} /\ (later = epoch <=> ~e.opens)
    BY <1>1, <1>6
  <2>2. \A i \in 1..Len(old) :
           IF later = epoch
           THEN old[i].data <= added[1].data /\ (old[i].epoch = epoch <=> old[i].data = added[1].data)
           ELSE old[i].data < added[1].data
    BY <1>11, <2>1
  <2>3. Follows(added, old, epoch, later)
    BY <1>10, <1>12, <2>1, <2>2 DEF Follows
  <2>4. InOrder(old)
    BY <1>12
  <2> QED  BY <1>4, <2>3, <2>4, OrderedConcat
<1>14. \A i \in 1..Len(list) :
          /\ list[i].seq = i - 1 /\ list[i].epoch <= later
          /\ list[i].data <= source.gen /\ (list[i].data = source.gen => list[i].offset < source.len)
  <2> SUFFICES ASSUME NEW i \in 1..Len(list)
               PROVE  /\ list[i].seq = i - 1 /\ list[i].epoch <= later
                      /\ list[i].data <= source.gen /\ (list[i].data = source.gen => list[i].offset < source.len)
    OBVIOUS
  <2>1. list[i].seq = i - 1 /\ list[i].epoch <= later
    BY <1>3, <1>5, <1>8 DEF Valid
  <2>2. \/ i \in 1..Len(old) /\ list[i] = old[i]
        \/ i - Len(old) \in 1..Len(added) /\ list[i] = added[i - Len(old)]
    BY <1>4, ConcatAt
  <2>3. list[i].data <= source.gen /\ (list[i].data = source.gen => list[i].offset < source.len)
    BY <1>10, <1>12, <2>2
  <2> QED  BY <2>1, <2>3
<1>15. new.raw.epoch = list[Len(list)].epoch /\ new.raw.next_offset = list[Len(list)].offset + 1 /\ list # <<>>
  <2>1. list[Len(list)].epoch = later /\ list # <<>>
    BY <1>8, <1>9, <1>10
  <2>2. EpochEnd(list, later) = list[Len(list)].offset + 1
    BY <2>1, EpochEndType
  <2> QED  BY <1>2, <1>3, <1>5, <2>1, <2>2
<1>16. Ordered(new.raw)
  <2>1. PICK raw : raw = new.raw
    OBVIOUS
  <2>2. raw.chunks = list /\ raw.epoch = later
    BY <1>3, <1>5, <2>1
  <2>3. raw.epoch = list[Len(list)].epoch /\ raw.next_offset = list[Len(list)].offset + 1
    BY <1>15, <2>1
  <2>4. Ordered(raw)
    BY <1>13, <1>14, <1>15, <2>2, <2>3 DEF Ordered, Reads
  <2> QED  BY <2>1, <2>4
<1> QED  BY <1>16

\* What an attempt puts lists the source in order.
LEMMA AttemptGrows ==
    ASSUME IInv, Readings, NEW w \in Writers, call[w] # None,
           NEW body, body = Edited(remote, call[w].edit), body # None, Valid(body)
    PROVE  Grows([by |-> w, expect |-> version, body |-> body])
<1>e. PICK e \in Edits : e = call[w].edit
  <2>1. call[w] \in Call
    BY DEF IInv, TypeOK
  <2> QED  BY <2>1, CallType
<1>m. PICK m : m = remote
  OBVIOUS
<1>1. /\ m \in Doc \cup {None} /\ (m # None => Ordered(m.raw)) /\ (e.kind # "create" => m # None)
      /\ body = Edited(m, e) /\ (m # None => Truthful(m))
      /\ e.kind \in {"create", "take", "append", "transform", "lifecycle"}
      /\ e.kind = "append" => Continues(e)
  <2>1. e.kind = "append" => Continues(e)
    BY <1>e DEF Readings, Appends
  <2>2. e.kind \in {"create", "take", "append", "transform", "lifecycle"}
    BY EditType
  <2> QED  BY <1>e, <1>m, <2>1, <2>2 DEF IInv, TypeOK, Readings, Calls, InCall, Docs, Documents
<1>2. ASSUME Ordered(body.raw),
             m # None => /\ Extends(body.raw.chunks, m.raw.chunks)
                         /\ body.raw.epoch >= m.raw.epoch
      PROVE  Grows([by |-> w, expect |-> version, body |-> body])
  BY <1>m, <1>2 DEF Grows
<1>3. CASE e.kind = "create"
  <2>1. m = None /\ body = NewManifest(e.by) /\ e.by \in Clients
    BY <1>1, <1>3, EditType DEF Edited
  <2>2. body.raw.chunks = <<>> /\ body.raw.next_offset = 0
    BY <2>1, NewManifestType
  <2>3. Ordered(body.raw)
    BY <2>2 DEF Ordered, InOrder
  <2> QED  BY <1>2, <2>1, <2>3
<1>4. CASE e.kind # "create" /\ e.kind # "append"
  <2>1. m \in Doc
    BY <1>1, <1>4
  <2>2. /\ body.raw.chunks = m.raw.chunks /\ body.raw.epoch = m.raw.epoch
        /\ body.raw.next_offset = m.raw.next_offset
    <3>1. CASE e.kind = "take"
      <4>1. body = WithRaw(m, [m.raw EXCEPT !.owner = e.by]) /\ e.by \in Clients
        BY <1>1, <3>1, EditType DEF Edited
      <4> QED  BY <2>1, <4>1, TakeEdited
    <3>2. CASE e.kind = "transform"
      <4>1. body.raw = m.raw
        BY <1>1, <2>1, <3>2, EditType, TransformEdited DEF Edited
      <4> QED  BY <4>1
    <3>3. CASE e.kind = "lifecycle"
      <4>1. body = WithServer(m, WithLifecycle(m, e.decided)) /\ e.decided \in {"active", "idle", "archived"}
        BY <1>1, <3>3, EditType DEF Edited
      <4>2. Truthful(m) /\ WithServer(m, WithLifecycle(m, e.decided)) # None
        BY <1>1, <2>1, <4>1, DocType
      <4>3. body.raw = m.raw
        BY <2>1, <4>1, <4>2, LifecycleEdited
      <4> QED  BY <4>3
    <3> QED  BY <1>1, <1>4, <3>1, <3>2, <3>3
  <2>3. Ordered(body.raw)
    BY <1>1, <2>1, <2>2, DocType DEF Ordered, Reads, Emptied
  <2>4. Extends(body.raw.chunks, m.raw.chunks) /\ m.raw.epoch \in Nat
    BY <2>1, <2>2, DocType, RawType, ExtendsItself
  <2> QED  BY <1>2, <2>2, <2>3, <2>4
<1>5. CASE e.kind = "append"
  <2>1. m \in Doc /\ body = AppendEdit(m, e) /\ Ordered(m.raw) /\ Continues(e)
    BY <1>1, <1>5 DEF Edited
  <2>2. Ordered(body.raw)
    <3>1. CASE e.entries = <<>>
      BY <1>m, <1>5, <2>1, <3>1, OpenOrdered DEF Continues
    <3>2. CASE e.entries # <<>>
      BY <1>m, <1>5, <2>1, <3>2, AppendOrdered DEF Continues
    <3> QED  BY <3>1, <3>2
  <2>3. m.raw.chunks \in Seq(Entry) /\ e.entries \in Seq(Entry) /\ m.raw.epoch \in Nat
    BY <1>5, <2>1, DocType, RawType, EditType, ChunksType
  <2>4. /\ body \in Doc /\ body.raw.chunks = m.raw.chunks \o e.entries
        /\ body.raw.epoch = (IF e.opens THEN m.raw.epoch + 1 ELSE m.raw.epoch)
    <3>1. e.by \in Clients /\ \A c \in Clients : ack[c] \in Ack \cup {None}
      BY <1>5, EditType DEF IInv, TypeOK
    <3>2. ack[e.by] \in Ack \cup {None}
      BY <3>1
    <3>3. AppendEdit(m, e) # None
      BY <2>1
    <3>4. /\ AppendEdit(m, e) \in Doc /\ AppendEdit(m, e).raw.chunks = m.raw.chunks \o e.entries
          /\ AppendEdit(m, e).raw.epoch = (IF e.opens THEN m.raw.epoch + 1 ELSE m.raw.epoch)
      BY <1>5, <2>1, <3>2, <3>3, AppendEdited, Zenon
    <3> QED  BY <2>1, <3>4, Zenon
  <2>5. Extends(body.raw.chunks, m.raw.chunks)
    <3>1. Extends(m.raw.chunks \o e.entries, m.raw.chunks)
      BY <2>3, ExtendsConcat
    <3> QED  BY <2>4, <3>1
  <2>6. body.raw.epoch >= m.raw.epoch
    BY <2>3, <2>4
  <2> QED  BY <1>2, <2>2, <2>5, <2>6
<1> QED  BY <1>1, <1>3, <1>4, <1>5

\* What becomes of the appends and the puts when a call ends, is refused or
\* begins.
LEMMA LeaveLess ==
    ASSUME IInv, NEW w \in Writers, Leave(w), late' = late
    PROVE  Pending' \subseteq Pending /\ Appends' \subseteq Appends
<1>1. call \in [Writers -> Call \cup {None}] /\ call' = [call EXCEPT ![w] = None]
  BY DEF IInv, TypeOK, Leave
<1>2. call'[w] = None /\ \A x \in Writers \ {w} : call'[x] = call[x]
  BY <1>1, CallMoves
<1> QED  BY <1>2 DEF Pending, Appends

LEMMA RefusedLess ==
    ASSUME IInv, NEW w \in Writers, call[w] # None, Refused(w), late' = late
    PROVE  Pending' \subseteq Pending /\ Appends' \subseteq Appends
<1>1. call \in [Writers -> Call \cup {None}] /\ call[w] \in Call
  BY DEF IInv, TypeOK
<1>2. CASE call[w].attempt < MaxAttempts
  <2>1. PICK k \in Call : k = call[w]
    BY <1>1
  <2>2. PICK new : new = [k EXCEPT !.pc = "read", !.attempt = k.attempt + 1]
    OBVIOUS
  <2>3. new.pc = "read" /\ new.edit = k.edit
    BY <2>2 DEF Call
  <2>4. call' = [call EXCEPT ![w] = new]
    BY <1>1, <1>2, <2>1, <2>2 DEF Refused
  <2>5. call'[w] = new /\ \A x \in Writers \ {w} : call'[x] = call[x]
    BY <1>1, <2>4
  <2>6. call'[w].pc # "put" /\ call'[w].edit = call[w].edit
    BY <2>1, <2>3, <2>5
  <2> QED  BY <2>5, <2>6 DEF Pending, Appends
<1>3. CASE ~(call[w].attempt < MaxAttempts)
  BY <1>3, LeaveLess DEF Refused
<1> QED  BY <1>2, <1>3

LEMMA EnterLess ==
    ASSUME IInv, NEW w \in Writers, NEW e \in Edits, Enter(w, e), late' = late
    PROVE  /\ Pending' \subseteq Pending
           /\ \A x \in Appends' : x \in Appends \/ (x = e /\ e.kind = "append")
<1>1. /\ call'[w].pc = "read" /\ call'[w].edit = e
      /\ \A x \in Writers \ {w} : call'[x] = call[x]
  BY EnterType
<1> QED  BY <1>1 DEF Pending, Appends

LEMMA SpendKeeps ==
    ASSUME IInv, Unrestored, backup' = backup,
           budget' = budget \/ Spend("faults") \/ Spend("takeovers") \/ Spend("moves")
    PROVE  Unrestored'
<1>1. budget \in [{"faults", "restores", "takeovers", "moves"} -> Nat]
  BY DEF IInv, TypeOK
<1>2. budget'["restores"] = budget["restores"]
  BY <1>1 DEF Spend
<1> QED  BY <1>2 DEF Unrestored

\* A step that stores nothing.
LEMMA ReadingsKept ==
    ASSUME IInv, Readings, UNCHANGED <<remote, version, source>>, Unrestored',
           Appends' \subseteq Appends, Pending' \subseteq Pending
    PROVE  Readings'
<1>1. \A e \in Appends' : Continues(e)'
  BY DEF Readings, Continues, Reopens, Lists
<1>2. \A p \in Pending' : Grows(p)'
  BY DEF Readings, Grows, Ordered, Reads, Emptied
<1>3. remote' # None => Ordered(remote.raw)'
  BY DEF Readings, Ordered, Reads, Emptied
<1> QED  BY <1>1, <1>2, <1>3 DEF Readings

\* What the epoch lists after the chunk it listed is of the same content.
LEMMA ReopensOn ==
    ASSUME IInv, NEW e \in Appends, Reopens(e), NEW p \in Pending, Grows(p), p.expect = version,
           remote' = p.body, source' = source
    PROVE  Reopens(e)'
<1>1. /\ remote \in Doc /\ remote # None /\ e.from \in Nat /\ p.body \in Doc
  BY AppendsType, PendingType
<1>2. PICK old \in RawSection, new \in RawSection : old = remote.raw /\ new = p.body.raw
  BY <1>1, DocType
<1>3. /\ new = remote'.raw /\ old.chunks \in Seq(Entry) /\ new.chunks \in Seq(Entry)
      /\ old.epoch \in Nat /\ new.epoch \in Nat
  BY <1>2, RawType
<1>4. Extends(new.chunks, old.chunks) /\ new.epoch >= old.epoch /\ Ordered(new)
  BY <1>1, <1>2 DEF Grows
<1>5. /\ Len(old.chunks) \in Nat /\ Len(new.chunks) \in Nat
      /\ \A i \in 1..Len(new.chunks) : new.chunks[i].data \in Nat /\ new.chunks[i].epoch \in Nat
  BY <1>3, ChunksType
<1>6. e.opens /\ e.from <= old.epoch
  BY <1>2 DEF Reopens
<1>7. e.from <= new.epoch
  BY <1>1, <1>3, <1>4, <1>6
<1>8. ASSUME new.epoch = e.from
      PROVE  /\ new.chunks # <<>> /\ new.chunks[Len(new.chunks)].epoch = new.epoch
             /\ new.chunks[Len(new.chunks)].data < source.gen
  <2>1. old.epoch = e.from
    BY <1>1, <1>3, <1>4, <1>6, <1>8
  <2>2. /\ old.chunks # <<>> /\ old.chunks[Len(old.chunks)].epoch = old.epoch
        /\ old.chunks[Len(old.chunks)].data < source.gen
    BY <1>2, <2>1 DEF Reopens
  <2>3. PICK k \in 1..Len(new.chunks) : k = Len(old.chunks) /\ new.chunks[k] = old.chunks[k]
    <3>1. Len(old.chunks) \in 1..Len(old.chunks)
      BY <1>3, <1>5, <2>2
    <3> QED  BY <1>3, <1>4, <1>5, <3>1 DEF Extends
  <2>4. new.chunks[k].epoch = new.epoch /\ new.chunks[k].data < source.gen
    BY <1>8, <2>1, <2>2, <2>3
  <2>5. Reads(new)
    <3>1. new.chunks # <<>>
      BY <1>3, <1>5, <2>3
    <3>2. ~Emptied(new)
      BY <1>3, <2>4 DEF Emptied
    <3> QED  BY <1>4, <3>1, <3>2 DEF Ordered
  <2>6. Len(new.chunks) \in 1..Len(new.chunks) /\ new.chunks # <<>>
    BY <1>5, <2>3
  <2>7. new.chunks[Len(new.chunks)].epoch = new.chunks[k].epoch
    BY <2>4, <2>5 DEF Reads
  <2>8. new.chunks[Len(new.chunks)].data = new.chunks[k].data
    <3>1. CASE k = Len(new.chunks)
      BY <3>1
    <3>2. CASE k # Len(new.chunks)
      BY <1>4, <1>5, <2>6, <2>7, <3>2 DEF Ordered, InOrder
    <3> QED  BY <3>1, <3>2
  <2> QED  BY <2>4, <2>6, <2>7, <2>8
<1> QED  BY <1>3, <1>6, <1>7, <1>8 DEF Reopens

\* A longer list, and one in a later epoch, is not where chunks were planned to
\* go; one as long and of the same epoch is the same list.
LEMMA ListsOn ==
    ASSUME IInv, NEW e \in Appends, e.entries # <<>>, Lists(e), NEW p \in Pending, Grows(p), p.expect = version,
           remote' = p.body, source' = source
    PROVE  Lists(e)'
<1>1. /\ remote \in Doc /\ remote # None /\ e.entries \in Seq(Entry) /\ p.body \in Doc
  BY AppendsType, PendingType
<1>2. PICK old \in RawSection, new \in RawSection : old = remote.raw /\ new = p.body.raw
  BY <1>1, DocType
<1>3. /\ new = remote'.raw /\ old.chunks \in Seq(Entry) /\ new.chunks \in Seq(Entry)
      /\ old.epoch \in Nat /\ new.epoch \in Nat
  BY <1>2, RawType
<1>4. Extends(new.chunks, old.chunks) /\ new.epoch >= old.epoch
  BY <1>1, <1>2 DEF Grows
<1>5. /\ Len(old.chunks) \in Nat /\ Len(new.chunks) \in Nat
      /\ DOMAIN old.chunks = 1..Len(old.chunks) /\ DOMAIN new.chunks = 1..Len(new.chunks)
      /\ DOMAIN e.entries = 1..Len(e.entries)
  BY <1>1, <1>3, ChunksType
<1>6. PICK first : first = e.entries[1]
  OBVIOUS
<1>7. /\ \A i \in DOMAIN e.entries :
            /\ e.entries[i].epoch = first.epoch /\ e.entries[i].data = first.data
            /\ e.entries[i].data <= source.gen /\ (e.entries[i].data = source.gen => e.entries[i].offset < source.len)
      /\ Len(old.chunks) >= first.seq /\ first.epoch <= (IF e.opens THEN old.epoch + 1 ELSE old.epoch)
      /\ Len(old.chunks) = first.seq /\ first.epoch = (IF e.opens THEN old.epoch + 1 ELSE old.epoch) =>
            \A i \in DOMAIN old.chunks :
               IF e.opens THEN old.chunks[i].data < first.data
               ELSE /\ old.chunks[i].data <= first.data
                    /\ old.chunks[i].epoch = old.epoch <=> old.chunks[i].data = first.data
  BY <1>2, <1>6 DEF Lists
<1>8. first.seq \in Nat /\ first.epoch \in Nat
  <2>1. 1 \in 1..Len(e.entries)
    BY <1>1, <1>5
  <2> QED  BY <1>1, <1>6, <2>1, ChunksType
<1>9. Len(new.chunks) >= first.seq /\ first.epoch <= (IF e.opens THEN new.epoch + 1 ELSE new.epoch)
  BY <1>3, <1>4, <1>5, <1>7, <1>8 DEF Extends
<1>10. ASSUME Len(new.chunks) = first.seq, first.epoch = (IF e.opens THEN new.epoch + 1 ELSE new.epoch)
       PROVE  \A i \in DOMAIN new.chunks :
                 IF e.opens THEN new.chunks[i].data < first.data
                 ELSE /\ new.chunks[i].data <= first.data
                      /\ new.chunks[i].epoch = new.epoch <=> new.chunks[i].data = first.data
  <2>1. Len(new.chunks) = Len(old.chunks)
    BY <1>4, <1>5, <1>7, <1>8, <1>10 DEF Extends
  <2>2. new.epoch = old.epoch
    BY <1>3, <1>4, <1>7, <1>8, <1>10
  <2>3. DOMAIN new.chunks = DOMAIN old.chunks /\ \A i \in DOMAIN old.chunks : new.chunks[i] = old.chunks[i]
    BY <1>4, <1>5, <2>1 DEF Extends
  <2>4. Len(old.chunks) = first.seq /\ first.epoch = (IF e.opens THEN old.epoch + 1 ELSE old.epoch)
    BY <1>10, <2>1, <2>2
  <2> QED  BY <1>7, <2>2, <2>3, <2>4
<1> QED  BY <1>3, <1>6, <1>7, <1>9, <1>10 DEF Lists

LEMMA ContinuesOn ==
    ASSUME IInv, NEW e \in Appends, Continues(e), NEW p \in Pending, Grows(p), p.expect = version,
           remote' = p.body, source' = source
    PROVE  Continues(e)'
BY ReopensOn, ListsOn DEF Continues

\* A step that stores a put.
LEMMA ReadingsStored ==
    ASSUME IInv, Readings, NEW p \in Pending, p.expect = version, remote' = p.body, version' = version + 1,
           source' = source, Unrestored', Appends' \subseteq Appends, Pending' \subseteq Pending
    PROVE  Readings'
<1>1. \A e \in Appends' : Continues(e)'
  BY ContinuesOn DEF Readings
<1>2. \A q \in Pending' : Grows(q)'
  <2> SUFFICES ASSUME NEW q \in Pending' PROVE q.expect # version'
    BY DEF Grows
  <2>1. q.expect \in Nat /\ version \in Nat /\ q.expect <= version
    BY PendingType DEF IInv, TypeOK, Puts, Carries
  <2> QED  BY <2>1
<1>3. Ordered(remote.raw)'
  <2>1. Ordered(p.body.raw)
    BY DEF Readings, Grows
  <2> QED  BY <2>1 DEF Ordered, Reads, Emptied
<1> QED  BY <1>1, <1>2, <1>3 DEF Readings

LEMMA AttemptReads ==
    ASSUME IInv, Readings, NEW w \in Writers, Attempt(w)
    PROVE  Readings'
<1>1. /\ call[w] # None /\ call[w].pc = "read" /\ UNCHANGED <<remote, version, backup, source, late, budget>>
      /\ call \in [Writers -> Call \cup {None}] /\ call[w] \in Call
  BY DEF Attempt, IInv, TypeOK
<1>2. Unrestored'
  BY <1>1, SpendKeeps DEF Readings
<1>3. PICK body : body = Edited(remote, call[w].edit)
  OBVIOUS
<1>4. CASE body = None \/ ~Valid(body)
  <2>1. Leave(w)
    BY <1>3, <1>4 DEF Attempt
  <2> QED  BY <1>1, <1>2, <2>1, LeaveLess, ReadingsKept
<1>5. CASE body # None /\ Valid(body)
  <2>1. Grows([by |-> w, expect |-> version, body |-> body])
    BY <1>1, <1>3, <1>5, AttemptGrows
  <2>2. PICK k \in Call : k = call[w]
    BY <1>1
  <2>3. PICK new : new = [k EXCEPT !.pc = "put", !.body = body, !.expect = version]
    OBVIOUS
  <2>4. new.pc = "put" /\ new.body = body /\ new.expect = version /\ new.edit = k.edit
    BY <2>3 DEF Call
  <2>5. call' = [call EXCEPT ![w] = new]
    <3>1. call' = [call EXCEPT ![w].pc = "put", ![w].body = body, ![w].expect = version]
      BY <1>3, <1>5 DEF Attempt
    <3> QED  BY <1>1, <2>2, <2>3, <3>1
  <2>6. call'[w] = new /\ \A x \in Writers \ {w} : call'[x] = call[x]
    BY <1>1, <2>5
  <2>7. Appends' \subseteq Appends
    BY <1>1, <2>2, <2>4, <2>6 DEF Appends
  <2>8. \A p \in Pending' : p \in Pending \/ p = [by |-> w, expect |-> version, body |-> body]
    BY <1>1, <2>4, <2>6 DEF Pending
  <2>9. \A p \in Pending' : Grows(p)
    BY <2>1, <2>8 DEF Readings
  <2>10. \A p \in Pending' : Grows(p)'
    BY <1>1, <2>9 DEF Grows, Ordered, Reads, Emptied
  <2>11. \A e \in Appends' : Continues(e)'
    BY <1>1, <2>7 DEF Readings, Continues, Reopens, Lists
  <2>12. remote' # None => Ordered(remote.raw)'
    BY <1>1 DEF Readings, Ordered, Reads, Emptied
  <2> QED  BY <1>2, <2>10, <2>11, <2>12 DEF Readings
<1> QED  BY <1>4, <1>5

LEMMA PutReads ==
    ASSUME IInv, Readings, NEW w \in Writers, Put(w) \/ PutTwice(w)
    PROVE  Readings'
<1>1. /\ call[w] # None /\ call[w].pc = "put" /\ UNCHANGED <<backup, source, late>>
      /\ Stores(call[w]) /\ version \in Nat /\ (Leave(w) \/ Refused(w))
      /\ budget' = budget \/ Spend("faults")
  BY DEF Put, PutTwice, IInv, TypeOK
<1>2. Unrestored'
  BY <1>1, SpendKeeps DEF Readings
<1>3. Pending' \subseteq Pending /\ Appends' \subseteq Appends
  BY <1>1, LeaveLess, RefusedLess
<1>4. CASE version = call[w].expect
  <2>1. PICK p : p = [by |-> w, expect |-> call[w].expect, body |-> call[w].body]
    OBVIOUS
  <2>2. p \in Pending /\ p.expect = version /\ remote' = p.body /\ version' = version + 1
    BY <1>1, <1>4, <2>1, PutIsPending DEF Stores
  <2> QED  BY <1>1, <1>2, <1>3, <2>2, ReadingsStored
<1>5. CASE version # call[w].expect
  <2>1. UNCHANGED <<remote, version, source>>
    BY <1>1, <1>5 DEF Stores
  <2> QED  BY <1>2, <1>3, <2>1, ReadingsKept
<1> QED  BY <1>4, <1>5

LEMMA AbandonReads ==
    ASSUME IInv, Readings, NEW w \in Writers, Abandon(w)
    PROVE  Readings'
<1>1. /\ call[w] # None /\ UNCHANGED <<remote, version, backup, source>> /\ Spend("faults")
      /\ call \in [Writers -> Call \cup {None}] /\ call' = [call EXCEPT ![w] = None]
  BY DEF Abandon, Leave, IInv, TypeOK
<1>2. Unrestored'
  BY <1>1, SpendKeeps DEF Readings
<1>3. call'[w] = None /\ \A x \in Writers \ {w} : call'[x] = call[x]
  BY <1>1, CallMoves
<1>4. \A p \in late' : \/ p \in late
                       \/ /\ call[w].pc = "put"
                          /\ p = [by |-> w, expect |-> call[w].expect, body |-> call[w].body]
  BY DEF Abandon
<1>5. Pending' \subseteq Pending /\ Appends' \subseteq Appends
  BY <1>1, <1>3, <1>4 DEF Pending, Appends
<1> QED  BY <1>1, <1>2, <1>5, ReadingsKept

LEMMA ArriveReads ==
    ASSUME IInv, Readings, NEW put \in late, Arrive(put)
    PROVE  Readings'
<1>1. UNCHANGED <<backup, source, call, budget>> /\ late' = late \ {put} /\ Stores(put)
  BY DEF Arrive
<1>2. Unrestored'
  BY <1>1, SpendKeeps DEF Readings
<1>3. Pending' \subseteq Pending /\ Appends' \subseteq Appends /\ put \in Pending
  BY <1>1 DEF Pending, Appends
<1>4. CASE version = put.expect
  BY <1>1, <1>2, <1>3, <1>4, ReadingsStored DEF Stores
<1>5. CASE version # put.expect
  BY <1>1, <1>2, <1>3, <1>5, ReadingsKept DEF Stores
<1> QED  BY <1>4, <1>5

\* The calls that list nothing.
LEMMA EnterReads ==
    ASSUME IInv, Readings,
           \/ \E c \in Clients : Create(c) \/ TakeOver(c)
           \/ \E s \in Servers : Transform(s) \/ Decide(s)
    PROVE  Readings'
<1>1. /\ UNCHANGED <<remote, version, backup, source, late>>
      /\ budget' = budget \/ Spend("takeovers") \/ Spend("moves")
  BY DEF Create, TakeOver, Transform, Decide
<1>2. Unrestored'
  BY <1>1, SpendKeeps DEF Readings
<1>3. \E w \in Writers : \E e \in Edits : Enter(w, e) /\ e.kind # "append"
  <2>1. CASE \E c \in Clients : Create(c)
    <3>1. PICK c \in Clients : Create(c)
      BY <2>1
    <3>2. PICK e \in Edits : e = [kind |-> "create", by |-> c]
      BY DEF Edits
    <3>3. Enter(c, e) /\ e.kind # "append" /\ c \in Writers
      BY <3>1, <3>2 DEF Create, Writers
    <3> QED  BY <3>3
  <2>2. CASE \E c \in Clients : TakeOver(c)
    <3>1. PICK c \in Clients : TakeOver(c)
      BY <2>2
    <3>2. PICK e \in Edits : e = [kind |-> "take", by |-> c]
      BY DEF Edits
    <3>3. Enter(c, e) /\ e.kind # "append" /\ c \in Writers
      BY <3>1, <3>2 DEF TakeOver, Writers
    <3> QED  BY <3>3
  <2>3. CASE \E s \in Servers : Transform(s)
    <3>1. PICK s \in Servers : Transform(s)
      BY <2>3
    <3>2. remote \in Doc
      BY <3>1 DEF Transform, IInv, TypeOK
    <3>3. PICK e \in Edits : e = [kind |-> "transform", read |-> remote]
      BY <3>2 DEF Edits
    <3>4. Enter(s, e) /\ e.kind # "append" /\ s \in Writers
      BY <3>1, <3>3 DEF Transform, Writers
    <3> QED  BY <3>4
  <2>4. CASE \E s \in Servers : Decide(s)
    <3>1. PICK s \in Servers, decided \in {"active", "idle", "archived"} :
             Enter(s, [kind |-> "lifecycle", decided |-> decided])
      BY <2>4, ManifestAssumption DEF Decide
    <3>2. PICK e \in Edits : e = [kind |-> "lifecycle", decided |-> decided]
      BY DEF Edits
    <3>3. Enter(s, e) /\ e.kind # "append" /\ s \in Writers
      BY <3>1, <3>2 DEF Writers
    <3> QED  BY <3>3
  <2> QED  BY <2>1, <2>2, <2>3, <2>4
<1>4. PICK w \in Writers, e \in Edits : Enter(w, e) /\ e.kind # "append"
  BY <1>3
<1>5. Pending' \subseteq Pending /\ Appends' \subseteq Appends
  BY <1>1, <1>4, EnterLess
<1> QED  BY <1>1, <1>2, <1>5, ReadingsKept

\* What a delivery tick plans continues the content it read, or opens an epoch
\* for one that the list does not hold.
LEMMA DeliverReads ==
    ASSUME IInv, Readings, NEW c \in Clients, Deliver(c)
    PROVE  Readings'
<1>1. UNCHANGED <<remote, version, backup, source, late, budget>> /\ c \in Writers /\ remote \in Doc /\ remote # None
      /\ source.gen \in Nat /\ source.len \in Nat
  BY DEF Deliver, Writers, IInv, TypeOK
<1>2. PICK e \in Edits : DeliverEdit(c, e)
  BY DeliverPlans
<1>3. Pending' \subseteq Pending /\ \A x \in Appends' : x \in Appends \/ x = e
  <2>1. Enter(c, e)
    BY <1>2 DEF DeliverEdit
  <2> QED  BY <1>1, <2>1, EnterLess
<1>4. PICK raw \in RawSection : raw = remote.raw
  BY <1>1, DocType
<1>5. Ordered(raw)
  BY <1>1, <1>4 DEF Readings
<1>6. /\ raw.chunks \in Seq(Entry) /\ Len(raw.chunks) \in Nat /\ DOMAIN raw.chunks = 1..Len(raw.chunks)
      /\ raw.epoch \in Nat
      /\ \A i \in 1..Len(raw.chunks) : /\ raw.chunks[i].data \in Nat /\ raw.chunks[i].offset \in Nat
                                       /\ raw.chunks[i].epoch \in Nat
  BY RawType, ChunksType
<1>7. PICK first : first = e.entries[1]
  OBVIOUS
<1>8. /\ e.opens = Rewritten(raw) /\ e.from = raw.epoch /\ (e.entries = <<>> => Rewritten(raw))
      /\ \A i \in DOMAIN e.entries :
            /\ e.entries[i].epoch = (IF Rewritten(raw) THEN raw.epoch + 1 ELSE raw.epoch)
            /\ e.entries[i].data = source.gen /\ e.entries[i].offset < source.len
      /\ e.entries # <<>> => 1 \in DOMAIN e.entries /\ first.seq = Len(raw.chunks)
  <2>1. /\ e.from = raw.epoch /\ (e.entries = <<>> => Rewritten(raw))
        /\ e.entries \in Seq(Entry) /\ DOMAIN e.entries = 1..Len(e.entries)
        /\ \A i \in DOMAIN e.entries :
              /\ e.entries[i].seq = Len(raw.chunks) + i - 1
              /\ e.entries[i].epoch = (IF Rewritten(raw) THEN raw.epoch + 1 ELSE raw.epoch)
              /\ e.entries[i].data = source.gen /\ e.entries[i].offset < source.len
    BY <1>2, <1>4 DEF DeliverEdit
  <2>2. e.opens = Rewritten(raw)
    BY <1>2, <1>4, Zenon DEF DeliverEdit
  <2>3. e.entries # <<>> => 1 \in DOMAIN e.entries
    BY <2>1
  <2>4. e.entries # <<>> => first.seq = Len(raw.chunks)
    BY <1>6, <1>7, <2>1, <2>3
  <2> QED  BY <2>1, <2>2, <2>3, <2>4
<1>9. e.entries # <<>> => /\ first.data = source.gen
                          /\ first.epoch = (IF Rewritten(raw) THEN raw.epoch + 1 ELSE raw.epoch)
                          /\ \A i \in DOMAIN e.entries : e.entries[i].epoch = first.epoch
  BY <1>7, <1>8
<1>10. ASSUME Rewritten(raw)
       PROVE  /\ raw.chunks # <<>> /\ raw.chunks[Len(raw.chunks)].epoch = raw.epoch
              /\ raw.chunks[Len(raw.chunks)].data < source.gen
              /\ \A i \in DOMAIN raw.chunks : raw.chunks[i].data < source.gen
  <2>0. raw.next_offset > 0
    BY <1>10 DEF Rewritten
  <2>1. raw.chunks # <<>> /\ Len(raw.chunks) > 0 /\ Len(raw.chunks) \in 1..Len(raw.chunks)
    <3>1. raw.chunks # <<>>
      BY <1>5, <2>0 DEF Ordered
    <3> QED  BY <1>6, <3>1
  <2>2. PICK last : last = raw.chunks[Len(raw.chunks)]
    OBVIOUS
  <2>3. /\ last.data \in Nat /\ last.offset \in Nat /\ last.data <= source.gen
        /\ (last.data = source.gen => last.offset < source.len)
        /\ raw.next_offset = last.offset + 1 /\ last.epoch = raw.epoch
    <3>1. Reads(raw)
      BY <1>5, <2>0, <2>1 DEF Ordered, Emptied
    <3> QED  BY <1>5, <1>6, <2>1, <2>2, <3>1 DEF Ordered, Reads
  <2>4. source.len < raw.next_offset \/ last.data # source.gen
    BY <1>10, <2>2 DEF Rewritten, Last
  <2>5. last.data < source.gen
    BY <1>1, <2>3, <2>4
  <2>6. ASSUME NEW i \in DOMAIN raw.chunks PROVE raw.chunks[i].data < source.gen
    <3>1. CASE i = Len(raw.chunks)
      BY <2>2, <2>5, <3>1
    <3>2. CASE i # Len(raw.chunks)
      <4>1. i < Len(raw.chunks) /\ raw.chunks[i].data \in Nat
        BY <1>6, <3>2
      <4>2. raw.chunks[i].data <= last.data
        BY <1>5, <1>6, <2>1, <2>2, <4>1 DEF Ordered, InOrder
      <4> QED  BY <1>1, <2>3, <2>5, <4>1, <4>2
    <3> QED  BY <3>1, <3>2
  <2> QED  BY <2>1, <2>2, <2>3, <2>5, <2>6
<1>11. ASSUME ~Rewritten(raw), NEW i \in DOMAIN raw.chunks
       PROVE  /\ raw.chunks[i].data <= source.gen
              /\ raw.chunks[i].epoch = raw.epoch <=> raw.chunks[i].data = source.gen
  <2>1. raw.chunks # <<>> /\ Len(raw.chunks) > 0
    BY <1>6, <1>11
  <2>2. raw.chunks[i].data <= source.gen
    BY <1>5, <1>6 DEF Ordered
  <2>3. CASE Emptied(raw)
    <3>1. raw.chunks[i].epoch < raw.epoch /\ raw.chunks[i].data < source.gen
      BY <1>6, <2>3 DEF Emptied
    <3> QED  BY <1>1, <1>6, <2>2, <3>1
  <2>4. CASE Reads(raw)
    <3>1. PICK last : last = raw.chunks[Len(raw.chunks)]
      OBVIOUS
    <3>2. /\ last.offset \in Nat /\ raw.next_offset = last.offset + 1 /\ raw.epoch = last.epoch
      BY <1>6, <2>1, <2>4, <3>1 DEF Reads
    <3>3. raw.next_offset > 0
      BY <3>2
    <3>4. last.data = source.gen
      BY <1>11, <3>1, <3>3 DEF Rewritten, Last
    <3>5. raw.chunks[i].epoch = last.epoch <=> raw.chunks[i].data = last.data
      <4>1. CASE i = Len(raw.chunks)
        BY <3>1, <4>1
      <4>2. CASE i # Len(raw.chunks)
        <5>1. i < Len(raw.chunks) /\ Len(raw.chunks) \in 1..Len(raw.chunks)
          BY <1>6, <4>2
        <5> QED  BY <1>5, <1>6, <3>1, <5>1 DEF Ordered, InOrder
      <4> QED  BY <4>1, <4>2
    <3> QED  BY <2>2, <3>2, <3>4, <3>5
  <2> QED  BY <1>5, <2>1, <2>3, <2>4 DEF Ordered
<1>12. Continues(e)
  <2>1. CASE e.entries = <<>>
    <3>1. Rewritten(raw) /\ e.opens /\ e.from = raw.epoch
      BY <1>8, <2>1
    <3>2. Reopens(e)
      BY <1>4, <1>6, <1>10, <3>1 DEF Reopens
    <3> QED  BY <2>1, <3>2 DEF Continues
  <2>2. CASE e.entries # <<>>
    <3>1. \A i \in DOMAIN e.entries :
             /\ e.entries[i].epoch = first.epoch /\ e.entries[i].data = first.data
             /\ e.entries[i].data <= source.gen /\ (e.entries[i].data = source.gen => e.entries[i].offset < source.len)
      BY <1>1, <1>8, <1>9, <2>2
    <3>2. Len(raw.chunks) >= first.seq /\ first.epoch <= (IF e.opens THEN raw.epoch + 1 ELSE raw.epoch)
      BY <1>6, <1>8, <1>9, <2>2
    <3>3. CASE Rewritten(raw)
      <4>1. e.opens
        BY <1>8, <3>3
      <4>2. \A i \in DOMAIN raw.chunks : raw.chunks[i].data < first.data
        BY <1>9, <1>10, <2>2, <3>3
      <4>3. Lists(e)
        BY <1>4, <1>7, <3>1, <3>2, <4>1, <4>2 DEF Lists
      <4> QED  BY <2>2, <4>3 DEF Continues
    <3>4. CASE ~Rewritten(raw)
      <4>1. ~e.opens
        BY <1>8, <3>4
      <4>2. Lists(e)
        BY <1>4, <1>7, <1>9, <1>11, <2>2, <3>1, <3>2, <3>4, <4>1 DEF Lists
      <4> QED  BY <2>2, <4>2 DEF Continues
    <3> QED  BY <3>3, <3>4
  <2> QED  BY <2>1, <2>2
<1>13. \A x \in Appends' : Continues(x)'
  <2>1. \A x \in Appends' : Continues(x)
    BY <1>3, <1>12 DEF Readings
  <2> QED  BY <1>1, <2>1 DEF Continues, Reopens, Lists
<1>14. \A p \in Pending' : Grows(p)'
  BY <1>1, <1>3 DEF Readings, Grows, Ordered, Reads, Emptied
<1>15. remote' # None => Ordered(remote.raw)'
  BY <1>1 DEF Readings, Ordered, Reads, Emptied
<1>16. Unrestored'
  BY <1>1 DEF Readings, Unrestored
<1> QED  BY <1>13, <1>14, <1>15, <1>16 DEF Readings

\* The source grows, or is another content: what was read of it stays read.
LEMMA SourceOn ==
    ASSUME source \in [gen : Nat, len : Nat], Grow \/ Rewrite, NEW data \in Nat, NEW offset \in Nat,
           data <= source.gen, data = source.gen => offset < source.len
    PROVE  /\ data <= source'.gen /\ (data = source'.gen => offset < source'.len)
           /\ data < source.gen => data < source'.gen
<1>1. source.gen \in Nat /\ source.len \in Nat
  OBVIOUS
<1>2. CASE Grow
  <2>1. source'.gen = source.gen /\ source'.len = source.len + 1
    BY <1>2 DEF Grow
  <2> QED  BY <1>1, <2>1
<1>3. CASE Rewrite
  <2>1. source'.gen = source.gen + 1
    BY <1>3 DEF Rewrite
  <2> QED  BY <1>1, <2>1
<1> QED  BY <1>2, <1>3

LEMMA SourceOrdered ==
    ASSUME source \in [gen : Nat, len : Nat], Grow \/ Rewrite, NEW raw \in RawSection, Ordered(raw)
    PROVE  Ordered(raw)'
<1>1. ASSUME NEW i \in 1..Len(raw.chunks)
      PROVE  /\ raw.chunks[i].data <= source'.gen
             /\ raw.chunks[i].data = source'.gen => raw.chunks[i].offset < source'.len
             /\ raw.chunks[i].data < source.gen => raw.chunks[i].data < source'.gen
  <2>1. raw.chunks[i].data \in Nat /\ raw.chunks[i].offset \in Nat
    BY RawType, ChunksType
  <2>2. /\ raw.chunks[i].data <= source.gen
        /\ raw.chunks[i].data = source.gen => raw.chunks[i].offset < source.len
    BY DEF Ordered
  <2> QED  BY <2>1, <2>2, SourceOn
<1>2. Emptied(raw) => Emptied(raw)'
  BY <1>1 DEF Emptied
<1>3. Reads(raw)' = Reads(raw)
  BY DEF Reads
<1> QED  BY <1>1, <1>2, <1>3 DEF Ordered

LEMMA SourceReads ==
    ASSUME IInv, Readings, Grow \/ Rewrite
    PROVE  Readings'
<1>1. UNCHANGED <<remote, version, backup, call, late, budget>>
  BY DEF Grow, Rewrite
<1>2. Pending' = Pending /\ Appends' = Appends
  BY <1>1 DEF Pending, Appends
<1>3. source \in [gen : Nat, len : Nat] /\ remote \in Doc \cup {None}
  BY DEF IInv, TypeOK
<1>4. Unrestored'
  BY <1>1 DEF Readings, Unrestored
<1>5. remote' # None => Ordered(remote.raw)'
  <2> SUFFICES ASSUME remote # None PROVE Ordered(remote.raw)'
    BY <1>1
  <2>1. PICK raw \in RawSection : raw = remote.raw /\ Ordered(raw)
    BY <1>3, DocType DEF Readings
  <2>2. Ordered(raw)'
    BY <1>3, <2>1, SourceOrdered
  <2>3. raw = remote'.raw
    BY <1>1, <2>1
  <2> QED  BY <2>2, <2>3 DEF Ordered, Reads, Emptied
<1>6. ASSUME NEW p \in Pending' PROVE Grows(p)'
  <2>1. p \in Pending /\ Grows(p) /\ p.body.raw \in RawSection
    BY <1>2, PendingType, DocType DEF Readings
  <2>2. p.expect = version => Ordered(p.body.raw)'
    BY <1>3, <2>1, SourceOrdered DEF Grows
  <2> QED  BY <1>1, <2>1, <2>2 DEF Grows
<1>7. ASSUME NEW e \in Appends' PROVE Continues(e)'
  <2>1. e \in Appends /\ Continues(e) /\ e.entries \in Seq(Entry) /\ remote \in Doc
    BY <1>2, AppendsType DEF Readings
  <2>2. ASSUME e.entries # <<>>, NEW i \in DOMAIN e.entries
        PROVE  /\ e.entries[i].data <= source'.gen
               /\ e.entries[i].data = source'.gen => e.entries[i].offset < source'.len
    <3>1. e.entries[i].data \in Nat /\ e.entries[i].offset \in Nat
      BY <2>1, ChunksType
    <3>2. /\ e.entries[i].data <= source.gen
          /\ e.entries[i].data = source.gen => e.entries[i].offset < source.len
      BY <2>1, <2>2 DEF Continues, Lists
    <3> QED  BY <1>3, <3>1, <3>2, SourceOn
  <2>3. CASE e.entries # <<>>
    <3>1. Lists(e)
      BY <2>1, <2>3 DEF Continues
    <3>2. Lists(e)'
      BY <1>1, <2>2, <2>3, <3>1 DEF Lists
    <3> QED  BY <2>3, <3>2 DEF Continues
  <2>4. CASE e.entries = <<>>
    <3>1. Reopens(e)
      BY <2>1, <2>4 DEF Continues
    <3>2. source'.gen >= source.gen /\ source'.gen \in Nat /\ source.gen \in Nat
      BY <1>3 DEF Grow, Rewrite
    <3>3. \A i \in 1..Len(remote.raw.chunks) : remote.raw.chunks[i].data \in Nat
      BY <2>1, DocType, RawType, ChunksType
    <3>4. remote.raw.chunks # <<>> => Len(remote.raw.chunks) \in 1..Len(remote.raw.chunks)
      BY <2>1, DocType, RawType
    <3>5. Reopens(e)'
      BY <1>1, <3>1, <3>2, <3>3, <3>4 DEF Reopens
    <3> QED  BY <2>4, <3>5 DEF Continues
  <2> QED  BY <2>3, <2>4
<1> QED  BY <1>4, <1>5, <1>6, <1>7 DEF Readings

LEMMA NextReads ==
    ASSUME IInv, Readings, [Next]_vars
    PROVE  Readings'
<1>1. CASE \E w \in Writers : Step(w) \/ PutTwice(w) \/ Abandon(w)
  BY <1>1, AttemptReads, PutReads, AbandonReads DEF Step
<1>2. CASE \E put \in late : Arrive(put)
  BY <1>2, ArriveReads
<1>3. CASE \E c \in Clients : Deliver(c)
  BY <1>3, DeliverReads
<1>4. CASE \/ \E c \in Clients : Create(c) \/ TakeOver(c)
           \/ \E s \in Servers : Transform(s) \/ Decide(s)
  BY <1>4, EnterReads
<1>5. CASE Grow \/ Rewrite
  BY <1>5, SourceReads
<1>6. CASE Backup \/ Restore
  <2>1. budget["restores"] = 0 /\ backup = None
    BY DEF Readings, Unrestored
  <2> QED  BY <1>6, <2>1 DEF Backup, Restore
<1>7. CASE UNCHANGED vars
  <2>1. UNCHANGED <<remote, version, source, backup, budget, call, late>>
    BY <1>7 DEF vars
  <2>2. Pending' = Pending /\ Appends' = Appends /\ Unrestored'
    BY <2>1 DEF Pending, Appends, Readings, Unrestored
  <2> QED  BY <2>1, <2>2, ReadingsKept
<1> QED  BY <1>1, <1>2, <1>3, <1>4, <1>5, <1>6, <1>7 DEF Next

\* While nobody restores a backup, no unit of the source is listed twice and an
\* epoch is one reading of one content, whatever puts were lost, repeated or
\* delayed past a rewrite, for any number of clients, servers, attempts,
\* faults, takeovers and rewrites (client.rs: apply_chunks, open_epoch).
THEOREM ReadOnce ==
    ASSUME MaxRestores = 0
    PROVE  Spec => []SourceOnce
<1>1. Init => Readings
  <2> SUFFICES ASSUME Init PROVE Readings
    OBVIOUS
  <2>1. /\ \A w \in Writers : call[w] = None
        /\ late = {} /\ remote = None /\ backup = None
    BY DEF Init
  <2>2. budget["restores"] = 0
    BY DEF Init
  <2>3. Pending = {} /\ Appends = {}
    BY <2>1 DEF Pending, Appends
  <2> QED  BY <2>1, <2>2, <2>3 DEF Readings, Unrestored
<1>2. IInv /\ Readings /\ [Next]_vars => Readings'
  BY NextReads
<1>3. IInv /\ Readings => SourceOnce
  <2> SUFFICES ASSUME IInv, Readings, remote # None,
                      NEW i \in DOMAIN remote.raw.chunks, NEW j \in DOMAIN remote.raw.chunks, i < j
               PROVE  LET chunks == remote.raw.chunks
                      IN  /\ chunks[i].epoch = chunks[j].epoch <=> chunks[i].data = chunks[j].data
                          /\ Key(chunks[i]) # Key(chunks[j])
    BY DEF SourceOnce
  <2>1. PICK raw \in RawSection : raw = remote.raw
    BY DocType DEF IInv, TypeOK
  <2>2. Ordered(raw) /\ i \in 1..Len(raw.chunks) /\ j \in 1..Len(raw.chunks)
    BY <2>1, RawType, ChunksType DEF Readings
  <2>3. raw.chunks[i].epoch = raw.chunks[j].epoch <=> raw.chunks[i].data = raw.chunks[j].data
    BY <2>2 DEF Ordered, InOrder
  <2>4. raw.chunks[i].seq # raw.chunks[j].seq
    BY <2>2 DEF Ordered
  <2>5. Key(raw.chunks[i]) # Key(raw.chunks[j])
    BY <2>4 DEF Key
  <2> QED  BY <2>1, <2>3, <2>5
<1> QED  BY <1>1, <1>2, <1>3, ManifestInvariance, PTL DEF Spec
=============================================================================
