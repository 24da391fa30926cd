--------------------------- MODULE JournalProofs ---------------------------
(***************************************************************************)
(* Proofs of the safety properties of SegmentedJournal.                    *)
(*                                                                         *)
(* A prefix of the journal (an acknowledged one, a captured or a published *)
(* view) is a sequence of segments of which the last may be a part of a    *)
(* file that went on growing or was sealed since.  The invariant says that *)
(* such a prefix fits the directory, the directory on disk and the fields  *)
(* of the writer, and what the writer's fields have to do with the disk at *)
(* every statement it may be interrupted at.                               *)
(***************************************************************************)
EXTENDS SegmentedJournal, SequenceTheorems, TLAPS

---------------------------------------------------------------------------
(* Prefixes of a journal. *)

\* s is the beginning of a segment or file that starts at `first' and whose
\* first `len' records are those of `data'.
Cut(s, first, data, len) ==
    /\ s.first = first
    /\ s.next = first + Len(s.digest)
    /\ Len(s.digest) > 0
    /\ Len(s.digest) <= len
    /\ \A k \in 1..Len(s.digest) : s.digest[k] = data[k]

\* p is a prefix of the journal with the sealed segments `segs' and an active
\* file whose first `len' records are those of `data'.
Fits(p, segs, data, len) ==
    /\ Len(p) <= Len(segs) + 1
    /\ \A i \in 1..Len(p) :
          /\ i < Len(p) => p[i] = segs[i]
          /\ i = Len(p) /\ i <= Len(segs) =>
                Cut(p[i], segs[i].first, segs[i].digest, Len(segs[i].digest))
          /\ i = Len(segs) + 1 => Cut(p[i], SealedNext(segs), data, len)

\* A sealed catalog: every name fits its digest, and the ranges follow each
\* other.  The order of any two segments saves an induction.
Catalog(segs) ==
    /\ CatalogOK(segs)
    /\ \A i \in 1..Len(segs) :
          /\ segs[i].next = segs[i].first + Len(segs[i].digest)
          /\ segs[i].next <= SealedNext(segs)
          /\ \A j \in 1..(i - 1) : segs[j].next <= segs[i].first

\* The active file of directory d when the files are fs, and how much of it
\* an fsync covered.
Data(d, fs) == IF d.active = NoFile THEN <<>> ELSE fs[d.active].data
Stable(d, fs) == IF d.active = NoFile THEN 0 ELSE fs[d.active].stable

\* p is a prefix of what directory d holds, or of what is on disk of it.
DirFits(p, d, fs) == Fits(p, d.sealed, Data(d, fs), Len(Data(d, fs)))
DiskFits(p, d, fs) == Fits(p, d.sealed, Data(d, fs), Stable(d, fs))

\* A directory a crash may leave.
DirOK(d, fs) ==
    /\ Catalog(d.sealed)
    /\ SealedNext(d.sealed) <= MaxSeq
    /\ d.active # NoFile =>
          /\ d.active = SealedNext(d.sealed)
          /\ ValidFrom(fs[d.active].data, d.active)
          /\ Len(fs[d.active].data) <= MaxSegment
          /\ d.active + Len(fs[d.active].data) <= MaxSeq

\* Every sealed file of d is whole and stays so.
Whole(d, fs) ==
    \A i \in 1..Len(d.sealed) :
        /\ fs[d.sealed[i].first].data = d.sealed[i].digest
        /\ fs[d.sealed[i].first].stable = Len(d.sealed[i].digest)
        /\ ~fs[d.sealed[i].first].torn

\* Directory d is at most one rename and one new, empty file ahead of e.
Ahead(d, e, fs) ==
    \/ e = d
    \/ /\ e.sealed = d.sealed
       /\ e.active = NoFile
       /\ d.active # NoFile => fs[d.active] = EmptyFile
    \/ /\ Len(d.sealed) = Len(e.sealed) + 1
       /\ \A i \in 1..Len(e.sealed) : e.sealed[i] = d.sealed[i]
       /\ e.active = d.sealed[Len(d.sealed)].first
       /\ d.active # NoFile => fs[d.active] = EmptyFile

---------------------------------------------------------------------------
(* The inductive invariant. *)

FileInv == \A f \in Ids : files[f].stable <= Len(files[f].data)

\* Either directory can be opened, and the one on disk is hardly behind.
DirsInv == DirOK(dir, files) /\ DirOK(durDir, files) /\ Ahead(dir, durDir, files)

\* The writer has read the active file.
Past == pc \notin {"closed", "opening", "repairing"}

\* Its fields name the directory, on disk too, ...
Home == dir = [sealed |-> segments, active |-> active] /\ durDir = dir

\* ... or a seal has renamed its active file.
Moved ==
    /\ dir.sealed = Append(segments, SealedSegment)
    /\ files[active].data = active_hash
    /\ active_hash # <<>>

\* The active file holds what the writer believes.
Exact == files[active].data = active_hash /\ ~files[active].torn

\* What a writer that has read the active file knows.
FieldsInv ==
    /\ active = active_first
    /\ Catalog(segments)
    /\ active_first = SealedNext(segments)
    /\ ValidFrom(active_hash, active_first)
    /\ Len(active_hash) <= MaxSegment
    /\ next_sequence = active_first + Len(active_hash)
    /\ next_sequence <= MaxSeq
    /\ Len(active_hash) <= Len(files[active].data)
    /\ \A k \in 1..Len(active_hash) : files[active].data[k] = active_hash[k]
    /\ Home \/ (Moved /\ poisoned)

BatchInv ==
    /\ batch # <<>>
    /\ ValidFrom(batch, next_sequence)
    /\ Len(batch) <= MaxSegment
    /\ next_sequence + Len(batch) <= MaxSeq

\* The statement the writer has reached.
PcInv ==
    /\ pc \in {"opening", "repairing"} =>
          /\ segments = dir.sealed
          /\ active = dir.active
          /\ active = active_first
          /\ active_first = SealedNext(segments)
    /\ pc = "repairing" => durDir = dir
    /\ pc = "ready" /\ ~poisoned => Home /\ Exact
    /\ pc \in {"sealing", "writing", "syncing", "rollback"} =>
          Home /\ BatchInv /\ files[active].stable <= Len(active_hash)
    /\ pc \in {"writing", "syncing", "rollback"} =>
          Len(active_hash) + Len(batch) <= MaxSegment
    /\ pc \in {"sealing", "writing"} => Exact
    /\ pc = "sealing" => active_hash # <<>>
    /\ pc \in {"sealing", "renamed", "unnamed", "created"} => poisoned
    /\ pc \in {"renamed", "unnamed", "created"} => Moved /\ BatchInv
    /\ pc \in {"renamed", "unnamed"} => dir.active = NoFile
    /\ pc = "unnamed" => durDir = dir
    /\ pc = "created" =>
          /\ dir.active = next_sequence
          /\ files[next_sequence] = EmptyFile
    /\ pc = "syncing" => files[active].data = active_hash \o batch /\ ~files[active].torn
    /\ pc = "settling" =>
          /\ Home /\ Exact /\ active_hash # <<>>
          /\ files[active].stable = Len(active_hash)

WriterInv == (Past => FieldsInv) /\ PcInv

\* As long as no file was sealed with records an fsync had not covered, every
\* sealed file is whole and stays so.
SurviveInv == ~sealedDirty => Whole(dir, files) /\ Whole(durDir, files)

WriterFits(p) == Fits(p, segments, active_hash, Len(active_hash))

\* The acknowledged prefix is on disk whichever directory a crash leaves, and
\* the writer knows it.
AckInv ==
    /\ DiskFits(acked, dir, files)
    /\ DiskFits(acked, durDir, files)
    /\ Past => WriterFits(acked)

\* What readers may be prefixes of: the writer's fields, or the directory as
\* long as no writer has read it.
CurSegs == IF Past THEN segments ELSE dir.sealed
CurData == IF Past THEN active_hash ELSE Data(dir, files)
Current(p) == Fits(p, CurSegs, CurData, Len(CurData))

\* A view names segments of the directory, its tail the file it is read from,
\* and it is a prefix of the journal with the segments segs and the active
\* file data.
ViewOK(v, names, segs, data) ==
    /\ Len(v.tail) <= 1
    /\ v.next = SealedNext(prefix_identity(v))
    /\ v.tail # <<>> => v.active = v.tail[1].first
    /\ Len(v.segs) <= Len(names)
    /\ \A i \in 1..Len(v.segs) : v.segs[i] = names[i]
    /\ Fits(prefix_identity(v), segs, data, Len(data))

ViewInv ==
    /\ \A r \in Readers : ViewOK(views[r], dir.sealed, CurSegs, CurData)
    /\ ViewOK(published, dir.sealed, CurSegs, CurData)

IInv == TypeOK /\ FileInv /\ DirsInv /\ WriterInv /\ SurviveInv /\ AckInv /\ ViewInv

---------------------------------------------------------------------------
(* Lemmas on catalogs and prefixes. *)

LEMMA SegmentFacts ==
    ASSUME NEW segs \in Seq(Segment)
    PROVE  /\ Len(segs) \in Nat
           /\ \A i \in 1..Len(segs) :
                 /\ segs[i] \in Segment
                 /\ segs[i].first \in Nat
                 /\ segs[i].next \in Nat
                 /\ segs[i].digest \in Seq(Record)
                 /\ Len(segs[i].digest) \in Nat
           /\ SealedNext(segs) \in Nat
           /\ segs = <<>> <=> Len(segs) = 0
           /\ Len(segs) # 0 => SealedNext(segs) = segs[Len(segs)].next
           /\ Len(segs) = 0 => SealedNext(segs) = 0
<1>1. Len(segs) \in Nat /\ \A i \in 1..Len(segs) : segs[i] \in Segment
  BY ElementOfSeq, LenProperties
<1>2. \A s \in Segment : /\ s.first \in Nat /\ s.next \in Nat
                         /\ s.digest \in Seq(Record) /\ Len(s.digest) \in Nat
  BY LenProperties DEF Segment
<1>3. segs = <<>> <=> Len(segs) = 0
  BY EmptySeq
<1>4. QED
  BY <1>1, <1>2, <1>3 DEF SealedNext, Last

LEMMA AppendFacts ==
    ASSUME NEW segs \in Seq(Segment), NEW s \in Segment
    PROVE  /\ Append(segs, s) \in Seq(Segment)
           /\ Len(Append(segs, s)) = Len(segs) + 1
           /\ \A i \in 1..Len(segs) : Append(segs, s)[i] = segs[i]
           /\ Append(segs, s)[Len(segs) + 1] = s
           /\ SealedNext(Append(segs, s)) = s.next
<1>1. /\ Append(segs, s) \in Seq(Segment)
      /\ Append(segs, s) # <<>>
      /\ Len(Append(segs, s)) = Len(segs) + 1
      /\ \A i \in 1..Len(segs) : Append(segs, s)[i] = segs[i]
      /\ Append(segs, s)[Len(segs) + 1] = s
  BY AppendProperties
<1>2. QED
  BY <1>1 DEF SealedNext, Last

LEMMA CatalogEmpty == Catalog(<<>>) /\ SealedNext(<<>>) = 0
BY DEF Catalog, CatalogOK, SealedNext

\* A catalog grows by the segment that goes on where it ends.
LEMMA CatalogAppend ==
    ASSUME NEW segs \in Seq(Segment), NEW s \in Segment, Catalog(segs),
           s.first = SealedNext(segs), s.next = s.first + Len(s.digest),
           s.digest # <<>>
    PROVE  Catalog(Append(segs, s)) /\ SealedNext(Append(segs, s)) = s.next
<1> DEFINE t == Append(segs, s)
           n == Len(segs)
<1>1. /\ t \in Seq(Segment) /\ Len(t) = n + 1 /\ t[n + 1] = s
      /\ \A i \in 1..n : t[i] = segs[i]
      /\ SealedNext(t) = s.next
  BY AppendFacts
<1>2. /\ n \in Nat /\ SealedNext(segs) \in Nat
      /\ \A i \in 1..n : segs[i].first \in Nat /\ segs[i].next \in Nat
      /\ n # 0 => SealedNext(segs) = segs[n].next
      /\ n = 0 => SealedNext(segs) = 0
  BY SegmentFacts
<1>3. s.first \in Nat /\ s.next \in Nat /\ Len(s.digest) \in Nat \ {0}
  BY EmptySeq DEF Segment
<1> HIDE DEF t, n
<1>4. \A i \in 1..(n + 1) : i \in 1..n \/ i = n + 1
  BY <1>2
<1>5. CatalogOK(t)
  <2>1. ASSUME NEW i \in 1..Len(t)
        PROVE  /\ t[i].first = (IF i = 1 THEN 0 ELSE t[i - 1].next)
               /\ t[i].first < t[i].next
    <3>1. CASE i \in 1..n
      <4>1. i # 1 => i - 1 \in 1..n
        BY <3>1, <1>2
      <4>2. /\ segs[i].first = (IF i = 1 THEN 0 ELSE segs[i - 1].next)
            /\ segs[i].first < segs[i].next
        BY <3>1 DEF Catalog, CatalogOK, n
      <4>3. QED
        BY <3>1, <4>1, <4>2, <1>1
    <3>2. CASE i = n + 1
      <4>1. i # 1 => n \in 1..n /\ i - 1 = n /\ n # 0
        BY <3>2, <1>2
      <4>2. t[i] = s /\ s.first < s.next
        BY <3>2, <1>1, <1>3
      <4>3. i # 1 => t[i - 1].next = SealedNext(segs)
        BY <4>1, <1>1, <1>2
      <4>4. i = 1 => SealedNext(segs) = 0
        BY <3>2, <1>2
      <4>5. QED
        BY <4>2, <4>3, <4>4
    <3>3. QED
      BY <3>1, <3>2, <1>1, <1>4
  <2>2. QED
    BY <2>1 DEF CatalogOK
<1>6. ASSUME NEW i \in 1..Len(t)
      PROVE  /\ t[i].next = t[i].first + Len(t[i].digest)
             /\ t[i].next <= SealedNext(t)
             /\ \A j \in 1..(i - 1) : t[j].next <= t[i].first
  <2>1. CASE i \in 1..n
    <3>1. /\ segs[i].next = segs[i].first + Len(segs[i].digest)
          /\ segs[i].next <= SealedNext(segs)
          /\ \A j \in 1..(i - 1) : segs[j].next <= segs[i].first
      BY <2>1 DEF Catalog, n
    <3>2. \A j \in 1..(i - 1) : j \in 1..n
      BY <2>1, <1>2
    <3>3. SealedNext(segs) <= SealedNext(t)
      BY <1>1, <1>2, <1>3
    <3>4. segs[i].next \in Nat /\ SealedNext(t) \in Nat
      BY <2>1, <1>1, <1>2, <1>3
    <3>5. t[i] = segs[i] /\ \A j \in 1..(i - 1) : t[j] = segs[j]
      BY <2>1, <3>2, <1>1
    <3>6. segs[i].next <= SealedNext(t)
      BY <2>1, <3>1, <3>3, <3>4, <1>2
    <3>7. QED
      BY <3>1, <3>5, <3>6
  <2>2. CASE i = n + 1
    <3>1. \A j \in 1..(i - 1) : j \in 1..n
      BY <2>2, <1>2
    <3>2. \A j \in 1..n : segs[j].next <= SealedNext(segs)
      BY DEF Catalog, n
    <3>3. QED
      BY <2>2, <3>1, <3>2, <1>1, <1>3
  <2>3. QED
    BY <2>1, <2>2, <1>1, <1>4
<1>7. QED
  BY <1>1, <1>5, <1>6 DEF Catalog, t

\* Digests of a catalog are not empty.
LEMMA CatalogDigests ==
    ASSUME NEW segs \in Seq(Segment), Catalog(segs)
    PROVE  \A i \in 1..Len(segs) : Len(segs[i].digest) > 0
BY SegmentFacts DEF Catalog, CatalogOK

\* A prefix of a journal is one of a longer one, ...
LEMMA FitsGrow ==
    ASSUME NEW p, NEW segs, NEW data, NEW len \in Int, NEW data2, NEW len2 \in Int,
           p \in Seq(Segment), Fits(p, segs, data, len),
           len <= len2, \A k \in 1..len : data2[k] = data[k]
    PROVE  Fits(p, segs, data2, len2)
<1>1. ASSUME NEW i \in 1..Len(p), i = Len(segs) + 1
      PROVE  Cut(p[i], SealedNext(segs), data2, len2)
  <2>1. Cut(p[i], SealedNext(segs), data, len)
    BY <1>1 DEF Fits
  <2>2. Len(p[i].digest) \in Nat
    BY SegmentFacts
  <2>3. QED
    BY <2>1, <2>2 DEF Cut
<1>2. QED
  BY <1>1 DEF Fits

\* ... also when its active file has been sealed.
LEMMA FitsSeal ==
    ASSUME NEW p \in Seq(Segment), NEW segs \in Seq(Segment), NEW data, NEW len \in Int,
           NEW s \in Segment, NEW data2, NEW len2, Fits(p, segs, data, len),
           s.first = SealedNext(segs), len <= Len(s.digest),
           \A k \in 1..len : s.digest[k] = data[k]
    PROVE  Fits(p, Append(segs, s), data2, len2)
<1> DEFINE t == Append(segs, s)
           n == Len(segs)
           m == Len(p)
<1>1. /\ t \in Seq(Segment) /\ Len(t) = n + 1 /\ t[n + 1] = s
      /\ \A i \in 1..n : t[i] = segs[i]
  BY AppendFacts
<1>2. n \in Nat /\ m \in Nat /\ \A i \in 1..m : Len(p[i].digest) \in Nat
  BY SegmentFacts
<1>3. m <= n + 1
  BY DEF Fits
<1>4. Len(s.digest) \in Nat
  BY LenProperties DEF Segment
<1>5. ASSUME NEW i \in 1..m
      PROVE  /\ i < m => p[i] = segs[i]
             /\ i = m /\ i <= n => Cut(p[i], segs[i].first, segs[i].digest, Len(segs[i].digest))
             /\ i = n + 1 => Cut(p[i], SealedNext(segs), data, len)
  BY <1>5 DEF Fits
<1> HIDE DEF t, n, m
<1>6. ASSUME NEW i \in 1..m
      PROVE  /\ i < m => p[i] = t[i]
             /\ i = m /\ i <= n + 1 => Cut(p[i], t[i].first, t[i].digest, Len(t[i].digest))
             /\ i # n + 2
  <2>1. i < m => i \in 1..n
    BY <1>2, <1>3
  <2>2. i # n + 2
    BY <1>2, <1>3
  <2>3. CASE i \in 1..n
    BY <2>1, <2>2, <2>3, <1>1, <1>5, <1>2
  <2>4. CASE i = n + 1
    <3>1. Cut(p[i], SealedNext(segs), data, len)
      BY <2>4, <1>5
    <3>2. Cut(p[i], s.first, s.digest, Len(s.digest))
      BY <3>1, <1>2, <1>4 DEF Cut
    <3>3. QED
      BY <2>1, <2>2, <2>4, <3>2, <1>1, <1>2
  <2>5. QED
    BY <2>3, <2>4, <1>2, <1>3
<1>7. m <= n + 2
  BY <1>2, <1>3
<1>8. QED
  BY <1>1, <1>2, <1>6, <1>7 DEF Fits, t, m

LEMMA FitsEmpty ==
    ASSUME NEW segs \in Seq(Segment), NEW data, NEW len
    PROVE  Fits(<<>>, segs, data, len)
BY SegmentFacts DEF Fits

\* The identity of the prefix with the sealed segments `segs' and an active
\* file `data'.
Parts(segs, data) ==
    IF data = <<>> THEN segs
    ELSE Append(segs, [first |-> SealedNext(segs), next |-> SealedNext(segs) + Len(data),
                       digest |-> data])

LEMMA PartsFacts ==
    ASSUME NEW segs \in Seq(Segment), NEW data \in Seq(Record), Catalog(segs)
    PROVE  /\ Parts(segs, data) \in Seq(Segment)
           /\ Catalog(Parts(segs, data))
           /\ SealedNext(Parts(segs, data)) = SealedNext(segs) + Len(data)
           /\ Fits(Parts(segs, data), segs, data, Len(data))
<1> DEFINE q == Parts(segs, data)
           s == [first |-> SealedNext(segs), next |-> SealedNext(segs) + Len(data),
                 digest |-> data]
           n == Len(segs)
<1>1. /\ n \in Nat /\ SealedNext(segs) \in Nat
      /\ \A i \in 1..n : /\ segs[i].first \in Nat /\ segs[i].next \in Nat
                         /\ Len(segs[i].digest) \in Nat
  BY SegmentFacts
<1>2. Len(data) \in Nat /\ (data # <<>> => Len(data) > 0)
  BY LenProperties, EmptySeq
<1>3. \A i \in 1..n : Cut(segs[i], segs[i].first, segs[i].digest, Len(segs[i].digest))
  BY <1>1, CatalogDigests DEF Cut, Catalog
<1>4. CASE data = <<>>
  <2>1. q = segs /\ Len(data) = 0
    BY <1>4, EmptySeq DEF Parts
  <2>2. Fits(segs, segs, data, Len(data))
    BY <1>1, <1>3 DEF Fits
  <2>3. QED
    BY <2>1, <2>2, <1>1
<1>5. CASE data # <<>>
  <2>1. /\ s \in Segment /\ s.first = SealedNext(segs) /\ s.next = s.first + Len(s.digest)
        /\ s.digest = data /\ s.next = SealedNext(segs) + Len(data)
    BY <1>1, <1>2 DEF Segment
  <2>2. q = Append(segs, s)
    BY <1>5 DEF Parts
  <2> HIDE DEF s, q
  <2>3. Catalog(q) /\ SealedNext(q) = s.next
    BY <2>1, <2>2, <1>5, CatalogAppend
  <2>4. /\ q \in Seq(Segment) /\ Len(q) = n + 1 /\ q[n + 1] = s
        /\ \A i \in 1..n : q[i] = segs[i]
    BY <2>1, <2>2, AppendFacts
  <2>5. Cut(s, SealedNext(segs), data, Len(data))
    BY <2>1, <1>2, <1>5 DEF Cut
  <2>6. Fits(q, segs, data, Len(data))
    <3> HIDE DEF n
    <3>1. ASSUME NEW i \in 1..Len(q)
          PROVE  /\ i < Len(q) => q[i] = segs[i]
                 /\ ~(i = Len(q) /\ i <= n)
                 /\ i = n + 1 => Cut(q[i], SealedNext(segs), data, Len(data))
      BY <2>4, <2>5, <1>1
    <3>2. QED
      BY <3>1, <2>4, <1>1 DEF Fits, n
  <2>7. QED
    BY <2>1, <2>3, <2>4, <2>6 DEF q
<1>6. QED
  BY <1>4, <1>5

\* A prefix ends inside the journal it fits, at the segment it has in common.
LEMMA FitsNext ==
    ASSUME NEW p \in Seq(Segment), NEW segs \in Seq(Segment), NEW data \in Seq(Record),
           Catalog(segs), Fits(p, segs, data, Len(data)), p # <<>>
    PROVE  LET q == Parts(segs, data)
               m == Len(p)
           IN  /\ m \in 1..Len(q)
               /\ \A i \in 1..(m - 1) : p[i] = q[i]
               /\ Cut(p[m], q[m].first, q[m].digest, Len(q[m].digest))
<1> DEFINE q == Parts(segs, data)
           m == Len(p)
           n == Len(segs)
           s == [first |-> SealedNext(segs), next |-> SealedNext(segs) + Len(data),
                 digest |-> data]
<1>1. m \in Nat \ {0} /\ n \in Nat /\ Len(p[m].digest) \in Nat /\ SealedNext(segs) \in Nat
  BY SegmentFacts, EmptySeq
<1>2. Len(data) \in Nat /\ (data = <<>> => Len(data) = 0)
  BY LenProperties, EmptySeq
<1>3. /\ m <= n + 1
      /\ \A i \in 1..(m - 1) : p[i] = segs[i]
      /\ m <= n => Cut(p[m], segs[m].first, segs[m].digest, Len(segs[m].digest))
      /\ m = n + 1 => Cut(p[m], SealedNext(segs), data, Len(data))
  <2>1. m \in 1..m /\ \A i \in 1..(m - 1) : i \in 1..m /\ i < m
    BY <1>1
  <2>2. QED
    BY <2>1 DEF Fits
<1>4. data # <<>> => /\ s \in Segment /\ q = Append(segs, s)
                     /\ s.first = SealedNext(segs) /\ s.digest = data
  BY <1>1, <1>2 DEF Parts, Segment
<1>5. data = <<>> => q = segs
  BY DEF Parts
<1> HIDE DEF s, q
<1>6. Len(q) \in Nat /\ n <= Len(q) /\ \A i \in 1..n : q[i] = segs[i]
  BY <1>1, <1>4, <1>5, AppendFacts
<1>7. m = n + 1 => data # <<>>
  BY <1>1, <1>2, <1>3 DEF Cut
<1>8. m = n + 1 => Len(q) = n + 1 /\ q[m] = s
  BY <1>4, <1>7, AppendFacts
<1> HIDE DEF m, n
<1>9. m \in 1..Len(q)
  BY <1>1, <1>3, <1>6, <1>8
<1>10. \A i \in 1..(m - 1) : p[i] = q[i]
  BY <1>1, <1>3, <1>6
<1>11. Cut(p[m], q[m].first, q[m].digest, Len(q[m].digest))
  <2>1. CASE m <= n
    BY <2>1, <1>1, <1>3, <1>6
  <2>2. CASE m = n + 1
    BY <2>2, <1>3, <1>4, <1>7, <1>8
  <2>3. QED
    BY <2>1, <2>2, <1>1, <1>3
<1>12. QED
  BY <1>9, <1>10, <1>11 DEF q, m

\* The segments before its boundary and the cut of the boundary give a prefix
\* again, in every journal it fits.
LEMMA PrefixAt ==
    ASSUME NEW p \in Seq(Segment), NEW segs \in Seq(Segment), NEW data \in Seq(Record),
           Catalog(segs), Fits(p, segs, data, Len(data)),
           NEW view, prefix_identity(view) = Parts(segs, data)
    PROVE  /\ SealedNext(p) <= SealedNext(segs) + Len(data)
           /\ CutAt(view, SealedNext(p)) = p
           /\ SealedNext(p) # 0 =>
                 Boundary(view, SealedNext(p)) \in 1..Len(prefix_identity(view))
<1> DEFINE q == prefix_identity(view)
           m == Len(p)
           next == SealedNext(p)
           Fit(i) == q[i].next >= next /\ \A j \in 1..(i - 1) : q[j].next < next
           index == CHOOSE i \in 1..Len(q) : Fit(i)
           b == q[index]
           cut == [first |-> b.first, next |-> next,
                   digest |-> SubSeq(b.digest, 1, next - b.first)]
<1>1. q \in Seq(Segment) /\ Catalog(q) /\ SealedNext(q) = SealedNext(segs) + Len(data)
  BY PartsFacts
<1>2. /\ CutAt(view, next) = IF next = 0 THEN <<>> ELSE Append(SubSeq(q, 1, index - 1), cut)
      /\ Boundary(view, next) = index
  BY DEF CutAt, Boundary
<1>3. CASE p = <<>>
  <2>1. next = 0
    BY <1>3, SegmentFacts
  <2>2. SealedNext(segs) + Len(data) \in Nat
    BY SegmentFacts, LenProperties
  <2>3. QED
    BY <2>1, <2>2, <1>2, <1>3
<1>4. CASE p # <<>>
  <2>1. /\ m \in 1..Len(q)
        /\ \A i \in 1..(m - 1) : p[i] = q[i]
        /\ Cut(p[m], q[m].first, q[m].digest, Len(q[m].digest))
    BY <1>4, FitsNext
  <2>2. /\ m \in Nat /\ next = p[m].next /\ p[m] \in Segment
        /\ Len(p[m].digest) \in Nat /\ p[m].digest \in Seq(Record)
    BY <1>4, SegmentFacts
  <2>3. /\ Len(q) \in Nat
        /\ \A i \in 1..Len(q) : /\ q[i].first \in Nat /\ q[i].next \in Nat
                                /\ q[i].digest \in Seq(Record) /\ Len(q[i].digest) \in Nat
    BY <1>1, SegmentFacts
  <2>4. \A i \in 1..Len(q) : /\ q[i].next = q[i].first + Len(q[i].digest)
                             /\ q[i].next <= SealedNext(q)
                             /\ \A j \in 1..(i - 1) : q[j].next <= q[i].first
    BY <1>1 DEF Catalog
  <2>5. /\ next = q[m].first + Len(p[m].digest)
        /\ p[m].first = q[m].first
        /\ Len(p[m].digest) > 0
        /\ Len(p[m].digest) <= Len(q[m].digest)
        /\ \A k \in 1..Len(p[m].digest) : p[m].digest[k] = q[m].digest[k]
    BY <2>1, <2>2 DEF Cut
  <2> HIDE DEF q, next, m
  <2>6. next \in Nat \ {0} /\ next <= q[m].next /\ next > q[m].first
    <3>1. /\ q[m].next = q[m].first + Len(q[m].digest)
          /\ q[m].first \in Nat /\ Len(q[m].digest) \in Nat
      BY <2>1, <2>3, <2>4
    <3>2. /\ next = q[m].first + Len(p[m].digest) /\ Len(p[m].digest) \in Nat
          /\ Len(p[m].digest) > 0 /\ Len(p[m].digest) <= Len(q[m].digest)
      BY <2>2, <2>5
    <3>3. \A x, y, z \in Nat : y > 0 /\ y <= z =>
             x + y \in Nat \ {0} /\ x + y <= x + z /\ x + y > x
      OBVIOUS
    <3>4. QED
      BY <3>1, <3>2, <3>3, Zenon
  <2>7. Fit(m)
    <3>1. ASSUME NEW j \in 1..(m - 1) PROVE q[j].next < next
      <4>1. q[j].next <= q[m].first /\ j \in 1..Len(q)
        BY <2>1, <2>2, <2>3, <2>4
      <4>2. QED
        BY <4>1, <2>1, <2>3, <2>6
    <3>2. QED
      BY <3>1, <2>6, <2>1, <2>3
  <2>8. ASSUME NEW i \in 1..Len(q), Fit(i) PROVE i = m
    <3>1. CASE i < m
      <4>1. i \in 1..(m - 1)
        BY <3>1, <2>2
      <4>2. q[i].next < next /\ q[i].next >= next /\ q[i].next \in Nat
        BY <4>1, <2>7, <2>8, <2>3
      <4>3. QED
        BY <4>2, <2>6
    <3>2. CASE m < i
      <4>1. m \in 1..(i - 1)
        BY <3>2, <2>1, <2>2, <2>3
      <4>2. q[m].next < next /\ q[m].next \in Nat
        BY <4>1, <2>1, <2>8, <2>3
      <4>3. QED
        BY <4>2, <2>6
    <3>3. QED
      BY <3>1, <3>2, <2>2
  <2>9. index \in 1..Len(q) /\ Fit(index)
    <3>1. \E i \in 1..Len(q) : Fit(i)
      BY <2>1, <2>7
    <3> HIDE DEF Fit
    <3>2. QED
      BY <3>1
  <2>10. index = m
    BY <2>8, <2>9
  <2> HIDE DEF index
  <2>11. cut = p[m]
    <3> DEFINE d == q[m].digest
               c == p[m].digest
               e == SubSeq(d, 1, next - q[m].first)
    <3>1. next - q[m].first = Len(c) /\ d \in Seq(Record) /\ c \in Seq(Record)
      BY <2>1, <2>2, <2>3, <2>5
    <3>2. \A k \in 1..Len(c) : d[k] \in Record
      BY <3>1, <2>1, <2>2, <2>3, <2>5, ElementOfSeq
    <3> HIDE DEF c, d
    <3>3. SubSeq(d, 1, Len(c)) \in Seq(Record) /\ Len(SubSeq(d, 1, Len(c))) = Len(c)
          /\ \A k \in 1..Len(c) : SubSeq(d, 1, Len(c))[k] = d[k]
      <4>1. Len(c) \in Nat
        BY <3>1, LenProperties
      <4>2. QED
        BY <4>1, <3>2, SubSeqProperties
    <3>4. \A k \in 1..Len(c) : SubSeq(d, 1, Len(c))[k] = c[k]
      BY <3>3, <2>5 DEF c, d
    <3>5. SubSeq(d, 1, Len(c)) = c
      BY <3>1, <3>3, <3>4, SeqEqual
    <3>6. e = c
      BY <3>1, <3>5
    <3>7. cut = [first |-> p[m].first, next |-> p[m].next, digest |-> p[m].digest]
      BY <3>6, <2>2, <2>5, <2>10 DEF c, d
    <3>8. QED
      BY <3>7, <2>2 DEF Segment
  <2> HIDE DEF cut
  <2>12. Append(SubSeq(q, 1, m - 1), p[m]) = p
    <3> DEFINE t == SubSeq(q, 1, m - 1)
    <3>1. \A i \in 1..(m - 1) : q[i] = p[i] /\ p[i] \in Segment
      <4>1. \A i \in 1..(m - 1) : i \in 1..Len(p)
        BY <2>2 DEF m
      <4>2. QED
        BY <4>1, <2>1, ElementOfSeq
    <3>2. /\ t \in Seq(Segment) /\ Len(t) = m - 1
          /\ \A i \in 1..(m - 1) : t[i] = q[i]
      <4>1. m - 1 \in Int /\ 1 \in Int /\ \A i \in 1..(m - 1) : q[i] \in Segment
        BY <3>1, <2>2
      <4>2. /\ t \in Seq(Segment)
            /\ Len(t) = IF 1 <= m - 1 THEN m - 1 - 1 + 1 ELSE 0
            /\ \A i \in 1..(m - 1 - 1 + 1) : t[i] = q[1 + i - 1]
        BY <4>1, SubSeqProperties
      <4>3. QED
        BY <4>2, <2>1, <2>2, <2>3
    <3> HIDE DEF t
    <3>3. /\ Append(t, p[m]) \in Seq(Segment)
          /\ Len(Append(t, p[m])) = m
          /\ \A i \in 1..(m - 1) : Append(t, p[m])[i] = t[i]
          /\ Append(t, p[m])[m] = p[m]
      BY <3>2, <2>2, AppendFacts
    <3>4. \A i \in 1..m : Append(t, p[m])[i] = p[i]
      BY <3>1, <3>2, <3>3, <2>1, <2>2
    <3>5. QED
      BY <3>3, <3>4, SeqEqual DEF t, m
  <2>13. CutAt(view, next) = p /\ Boundary(view, next) \in 1..Len(q)
    BY <1>2, <2>1, <2>6, <2>10, <2>11, <2>12
  <2>14. next <= SealedNext(q)
    <3>1. q[m].next <= SealedNext(q) /\ q[m].next \in Nat /\ SealedNext(q) \in Nat
      BY <2>1, <2>3, <2>4, <1>1, SegmentFacts DEF q
    <3>2. QED
      BY <3>1, <2>6
  <2>15. QED
    BY <2>13, <2>14, <1>1 DEF next, q
<1>5. QED
  BY <1>3, <1>4

---------------------------------------------------------------------------
(* Lemmas on directories and files. *)

LEMMA FileFacts ==
    ASSUME NEW F \in File
    PROVE  /\ F.data \in Seq(Record) /\ Len(F.data) \in Nat
           /\ F.torn \in BOOLEAN /\ F.stable \in Nat
           /\ \A k \in 1..Len(F.data) : F.data[k] \in Record
<1>1. F.data \in Seq(Record) /\ F.torn \in BOOLEAN /\ F.stable \in Nat
  BY DEF File
<1>2. QED
  BY <1>1, LenProperties, ElementOfSeq

LEMMA IdFacts == Ids \subseteq Nat /\ NoFile \notin Ids /\ NoFile = -1 /\ MaxSeq \in Nat
                 /\ \A n \in Nat : n <= MaxSeq => n \in Ids
BY JournalAssumption DEF Ids, NoFile

LEMMA DirectoryFacts ==
    ASSUME NEW d \in Directory
    PROVE  /\ d.sealed \in Seq(Segment)
           /\ d.active \in Ids \cup {NoFile}
           /\ d = [sealed |-> d.sealed, active |-> d.active]
           /\ d.active # NoFile => d.active \in Ids /\ d.active \in Nat
BY IdFacts DEF Directory

LEMMA EmptyFileFacts ==
    /\ EmptyFile \in File /\ EmptyFile.data = <<>> /\ EmptyFile.stable = 0
    /\ ~EmptyFile.torn /\ Len(EmptyFile.data) = 0
    /\ \A n : ValidFrom(EmptyFile.data, n)
BY EmptySeq DEF EmptyFile, File, ValidFrom

\* What is on disk of a directory is a part of what it holds.
LEMMA DataFacts ==
    ASSUME NEW fs \in [Ids -> File], NEW d \in Directory
    PROVE  /\ Data(d, fs) \in Seq(Record) /\ Len(Data(d, fs)) \in Nat
           /\ Stable(d, fs) \in Nat
           /\ (\A f \in Ids : fs[f].stable <= Len(fs[f].data)) =>
                 Stable(d, fs) <= Len(Data(d, fs))
BY DirectoryFacts, FileFacts, EmptySeq DEF Data, Stable

\* The files of a catalog come before the file that goes on from it.
LEMMA FirstsBefore ==
    ASSUME NEW segs \in Seq(Segment), Catalog(segs)
    PROVE  \A i \in 1..Len(segs) : /\ segs[i].first \in Nat
                                   /\ segs[i].first < SealedNext(segs)
<1>1. ASSUME NEW i \in 1..Len(segs)
      PROVE  segs[i].first \in Nat /\ segs[i].first < SealedNext(segs)
  <2>1. segs[i].first < segs[i].next /\ segs[i].next <= SealedNext(segs)
    BY DEF Catalog, CatalogOK
  <2>2. segs[i].first \in Nat /\ segs[i].next \in Nat /\ SealedNext(segs) \in Nat
    BY SegmentFacts
  <2>3. QED
    BY <2>1, <2>2
<1>2. QED
  BY <1>1

\* The files directory d names are the same in fs and gs.
Untouched(d, fs, gs) ==
    /\ d.active # NoFile => gs[d.active] = fs[d.active]
    /\ \A i \in 1..Len(d.sealed) : gs[d.sealed[i].first] = fs[d.sealed[i].first]

LEMMA UntouchedDirectory ==
    ASSUME NEW d, NEW fs, NEW gs, Untouched(d, fs, gs)
    PROVE  /\ DirOK(d, fs) => DirOK(d, gs)
           /\ Whole(d, fs) => Whole(d, gs)
           /\ Data(d, gs) = Data(d, fs)
           /\ Stable(d, gs) = Stable(d, fs)
           /\ \A p : DiskFits(p, d, fs) => DiskFits(p, d, gs)
           /\ \A p : DirFits(p, d, fs) => DirFits(p, d, gs)
<1>1. Data(d, gs) = Data(d, fs) /\ Stable(d, gs) = Stable(d, fs)
  BY DEF Untouched, Data, Stable
<1>2. DirOK(d, fs) => DirOK(d, gs)
  BY DEF Untouched, DirOK
<1>3. Whole(d, fs) => Whole(d, gs)
  BY DEF Untouched, Whole
<1>4. QED
  BY <1>1, <1>2, <1>3, Zenon DEF DiskFits, DirFits

\* Writing the active file of d.
LEMMA ActiveWrite ==
    ASSUME NEW fs \in [Ids -> File], NEW d \in Directory, d.active # NoFile, DirOK(d, fs),
           NEW F \in File, ValidFrom(F.data, d.active), Len(F.data) <= MaxSegment,
           d.active + Len(F.data) <= MaxSeq
    PROVE  LET gs == [fs EXCEPT ![d.active] = F]
           IN  /\ gs \in [Ids -> File]
               /\ gs[d.active] = F
               /\ DirOK(d, gs)
               /\ Whole(d, fs) => Whole(d, gs)
               /\ Data(d, gs) = F.data
               /\ Stable(d, gs) = F.stable
<1> DEFINE gs == [fs EXCEPT ![d.active] = F]
<1>1. d.active \in Ids /\ d.active \in Nat /\ d.sealed \in Seq(Segment)
  BY DirectoryFacts
<1>2. gs \in [Ids -> File] /\ gs[d.active] = F
  BY <1>1
<1>3. ASSUME NEW i \in 1..Len(d.sealed)
      PROVE  gs[d.sealed[i].first] = fs[d.sealed[i].first]
  <2>1. d.sealed[i].first < d.active /\ d.sealed[i].first \in Nat
    BY <1>1, FirstsBefore DEF DirOK
  <2>2. d.sealed[i].first # d.active /\ d.sealed[i].first \in Ids
    BY <2>1, <1>1, IdFacts DEF Ids
  <2>3. QED
    BY <2>2
<1> HIDE DEF gs
<1>4. DirOK(d, gs)
  BY <1>2 DEF DirOK
<1>5. Whole(d, fs) => Whole(d, gs)
  BY <1>3 DEF Whole
<1>6. Data(d, gs) = F.data /\ Stable(d, gs) = F.stable
  BY <1>2 DEF Data, Stable
<1>7. QED
  BY <1>2, <1>4, <1>5, <1>6 DEF gs

\* Creating the file that goes on from the sealed segments of d, and naming it
\* or not: neither d nor the directory on disk, e, had named it.
LEMMA CreateFile ==
    ASSUME NEW fs \in [Ids -> File], NEW d \in Directory, NEW e \in Directory,
           DirOK(d, fs), DirOK(e, fs), Ahead(d, e, fs), d.active = NoFile
    PROVE  LET n  == SealedNext(d.sealed)
               gs == [fs EXCEPT ![n] = EmptyFile]
           IN  /\ n \in Ids
               /\ gs \in [Ids -> File]
               /\ gs[n] = EmptyFile
               /\ Untouched(d, fs, gs)
               /\ Untouched(e, fs, gs)
<1> DEFINE n  == SealedNext(d.sealed)
           gs == [fs EXCEPT ![n] = EmptyFile]
<1>1. d.sealed \in Seq(Segment) /\ e.sealed \in Seq(Segment)
  BY DirectoryFacts
<1>2. n \in Nat /\ n \in Ids
  BY <1>1, SegmentFacts, IdFacts DEF DirOK
<1>3. gs \in [Ids -> File] /\ gs[n] = EmptyFile
  BY <1>2, EmptyFileFacts
<1>4. ASSUME NEW i \in 1..Len(d.sealed) PROVE gs[d.sealed[i].first] = fs[d.sealed[i].first]
  <2>1. d.sealed[i].first \in Nat /\ d.sealed[i].first < n
    BY <1>1, FirstsBefore DEF DirOK
  <2>2. d.sealed[i].first \in Ids /\ d.sealed[i].first # n
    BY <2>1, <1>2, IdFacts DEF Ids
  <2>3. QED
    BY <2>2
<1>5. Len(d.sealed) \in Nat /\ Len(e.sealed) \in Nat
  BY <1>1, SegmentFacts
<1>6. ASSUME NEW i \in 1..Len(e.sealed) PROVE gs[e.sealed[i].first] = fs[e.sealed[i].first]
  BY <1>4, <1>5 DEF Ahead
<1>7. e.active # NoFile => gs[e.active] = fs[e.active]
  <2>1. CASE Len(d.sealed) = Len(e.sealed) + 1 /\ e.active = d.sealed[Len(d.sealed)].first
    BY <2>1, <1>4, <1>5
  <2>2. QED
    BY <2>1 DEF Ahead
<1>8. QED
  BY <1>2, <1>3, <1>4, <1>6, <1>7 DEF Untouched

\* A prefix that is on disk fits the writer that has read the file.
LEMMA DiskFitsDir ==
    ASSUME NEW fs \in [Ids -> File], NEW d \in Directory, NEW p \in Seq(Segment),
           \A f \in Ids : fs[f].stable <= Len(fs[f].data), DiskFits(p, d, fs)
    PROVE  DirFits(p, d, fs)
BY DataFacts, FitsGrow DEF DiskFits, DirFits

---------------------------------------------------------------------------
(* Lemmas on the state. *)

LEMMA TypeFacts ==
    ASSUME TypeOK
    PROVE  /\ files \in [Ids -> File]
           /\ \A f \in Ids : /\ files[f] \in File
                             /\ files[f].data \in Seq(Record) /\ Len(files[f].data) \in Nat
                             /\ files[f].stable \in Nat /\ files[f].torn \in BOOLEAN
           /\ dir \in Directory /\ dir.sealed \in Seq(Segment) /\ Len(dir.sealed) \in Nat
           /\ durDir \in Directory /\ durDir.sealed \in Seq(Segment) /\ Len(durDir.sealed) \in Nat
           /\ segments \in Seq(Segment) /\ Len(segments) \in Nat
           /\ active \in Ids \cup {NoFile} /\ active_first \in Nat
           /\ active_hash \in Seq(Record) /\ Len(active_hash) \in Nat
           /\ next_sequence \in Nat
           /\ batch \in Seq(Record) /\ Len(batch) \in Nat
           /\ acked \in Seq(Segment)
           /\ MaxSeq \in Nat /\ MaxSegment \in Nat
BY FileFacts, DirectoryFacts, LenProperties, JournalAssumption DEF TypeOK

\* The segment a seal names.
LEMMA SealedSegmentFacts ==
    ASSUME TypeOK
    PROVE  /\ SealedSegment \in Segment
           /\ SealedSegment.first = active_first
           /\ SealedSegment.next = next_sequence
           /\ SealedSegment.digest = active_hash
BY DEF SealedSegment, Segment, TypeOK

\* Views and their identities.
LEMMA ViewFacts ==
    ASSUME NEW v \in View
    PROVE  /\ v.segs \in Seq(Segment) /\ v.tail \in Seq(Segment) /\ v.next \in Nat
           /\ Len(v.segs) \in Nat /\ Len(v.tail) \in Nat
           /\ prefix_identity(v) \in Seq(Segment)
<1>1. v.segs \in Seq(Segment) /\ v.tail \in Seq(Segment) /\ v.next \in Nat
  BY DEF View
<1>2. QED
  BY <1>1, LenProperties, ConcatProperties DEF prefix_identity

LEMMA NoViewFacts ==
    /\ NoView \in View
    /\ prefix_identity(NoView) = <<>>
    /\ NoView.next = 0 /\ NoView.segs = <<>> /\ NoView.tail = <<>>
<1>1. /\ NoView.segs = <<>> /\ NoView.tail = <<>> /\ NoView.active = NoFile
      /\ NoView.next = 0 /\ NoView.live = FALSE
  BY DEF NoView
<1>2. NoView \in View
  BY EmptySeq, IdFacts DEF View, NoView
<1>3. <<>> \o <<>> = <<>>
  BY EmptySeq, ConcatEmptySeq
<1>4. QED
  BY <1>1, <1>2, <1>3 DEF prefix_identity

\* A view with at most one tail segment has the identity of its parts.
LEMMA IdentityParts ==
    ASSUME NEW v \in View, Len(v.tail) <= 1
    PROVE  /\ v.tail = <<>> => prefix_identity(v) = v.segs
           /\ v.tail # <<>> =>
                 /\ prefix_identity(v) = Append(v.segs, v.tail[1])
                 /\ v.tail[1] \in Segment
                 /\ v.tail = <<v.tail[1]>>
<1>1. /\ v.segs \in Seq(Segment) /\ v.tail \in Seq(Segment) /\ Len(v.tail) \in Nat
  BY ViewFacts
<1>2. v.tail = <<>> => prefix_identity(v) = v.segs
  BY <1>1, ConcatEmptySeq DEF prefix_identity
<1>3. ASSUME v.tail # <<>>
      PROVE  /\ prefix_identity(v) = Append(v.segs, v.tail[1])
             /\ v.tail[1] \in Segment
             /\ v.tail = <<v.tail[1]>>
  <2>1. Len(v.tail) = 1
    <3>1. Len(v.tail) # 0
      BY <1>1, <1>3, SegmentFacts
    <3>2. Len(v.tail) <= 1 /\ Len(v.tail) \in Nat
      BY <1>1
    <3>3. \A n \in Nat : n # 0 /\ n <= 1 => n = 1
      OBVIOUS
    <3>4. QED
      BY <3>1, <3>2, <3>3, Zenon
  <2>2. v.tail[1] \in Segment
    BY <1>1, <2>1, ElementOfSeq
  <2> DEFINE t == v.tail
             x == v.tail[1]
  <2>3. <<x>> \in Seq(Segment) /\ Len(<<x>>) = 1 /\ <<x>>[1] = x
    BY <2>2
  <2>4. t = <<x>>
    <3>1. t \in Seq(Segment) /\ Len(t) = Len(<<x>>) /\ \A i \in 1..Len(t) : t[i] = <<x>>[i]
      BY <1>1, <2>1, <2>3
    <3> HIDE DEF t, x
    <3>2. QED
      BY <3>1, <2>3, SeqEqual
  <2>5. Append(v.segs, x) = v.segs \o <<x>>
    BY <1>1, <2>2, AppendIsConcat
  <2>6. QED
    BY <2>2, <2>4, <2>5 DEF prefix_identity
<1>4. QED
  BY <1>2, <1>3

\* The view of a writer.
LEMMA ReadViewFacts ==
    ASSUME TypeOK, FieldsInv
    PROVE  /\ read_view \in View
           /\ prefix_identity(read_view) = Parts(segments, active_hash)
           /\ prefix_identity(read_view) \in Seq(Segment)
           /\ read_view.segs = segments
           /\ Len(read_view.tail) <= 1
           /\ read_view.tail # <<>> => read_view.tail[1].first = active
           /\ read_view.active = active
           /\ read_view.next = next_sequence
           /\ SealedNext(prefix_identity(read_view)) = next_sequence
           /\ WriterFits(prefix_identity(read_view))
<1> DEFINE v == read_view
           s == [first |-> active_first, next |-> next_sequence, digest |-> active_hash]
<1>1. /\ segments \in Seq(Segment) /\ active_hash \in Seq(Record)
      /\ active_first \in Nat /\ next_sequence \in Nat /\ active \in Ids \cup {NoFile}
  BY TypeFacts
<1>2. s \in Segment /\ s.first = active_first
  BY <1>1 DEF Segment
<1> HIDE DEF s
<1>3. /\ v.segs = segments /\ v.active = active /\ v.next = next_sequence /\ v.live = TRUE
      /\ v.tail = IF active_hash = <<>> THEN <<>> ELSE <<s>>
      /\ v = [segs |-> v.segs, tail |-> v.tail, active |-> v.active, next |-> v.next,
              live |-> v.live]
  BY DEF read_view, s
<1> HIDE DEF v
<1>4. v.tail \in Seq(Segment) /\ Len(v.tail) <= 1 /\ (v.tail # <<>> => v.tail[1] = s)
  BY <1>2, <1>3, EmptySeq
<1>5. v \in View
  BY <1>1, <1>3, <1>4 DEF View
<1>6. prefix_identity(v) = Parts(segments, active_hash)
  <2>1. CASE active_hash = <<>>
    BY <2>1, <1>3, <1>4, <1>5, IdentityParts DEF Parts
  <2>2. CASE active_hash # <<>>
    <3>1. v.tail # <<>>
      BY <2>2, <1>3
    <3>2. prefix_identity(v) = Append(segments, s)
      BY <3>1, <1>3, <1>4, <1>5, IdentityParts
    <3>3. s = [first |-> SealedNext(segments), next |-> SealedNext(segments) + Len(active_hash),
               digest |-> active_hash]
      BY DEF s, FieldsInv
    <3>4. QED
      BY <2>2, <3>2, <3>3 DEF Parts
  <2>3. QED
    BY <2>1, <2>2
<1>7. /\ Parts(segments, active_hash) \in Seq(Segment)
      /\ SealedNext(Parts(segments, active_hash)) = next_sequence
      /\ WriterFits(Parts(segments, active_hash))
  BY <1>1, PartsFacts DEF FieldsInv, WriterFits
<1>8. v.tail # <<>> => v.tail[1].first = active
  BY <1>2, <1>4 DEF FieldsInv
<1>9. QED
  BY <1>3, <1>4, <1>5, <1>6, <1>7, <1>8 DEF v

\* What fits the writer fits the directory.
LEMMA WriterOnDisk ==
    ASSUME TypeOK, FieldsInv, NEW p \in Seq(Segment), WriterFits(p)
    PROVE  DirFits(p, dir, files)
<1>1. /\ files \in [Ids -> File] /\ dir \in Directory /\ segments \in Seq(Segment)
      /\ Len(active_hash) \in Nat /\ active_hash \in Seq(Record)
  BY TypeFacts
<1>2. /\ Data(dir, files) \in Seq(Record) /\ Len(Data(dir, files)) \in Nat
  BY <1>1, DataFacts
<1>3. CASE Home
  <2>1. dir.sealed = segments /\ dir.active = active
    BY <1>3 DEF Home
  <2>2. active # NoFile
    BY SegmentFacts, <1>1, IdFacts DEF FieldsInv
  <2>3. Data(dir, files) = files[active].data
    BY <2>1, <2>2 DEF Data
  <2>4. /\ Len(active_hash) <= Len(Data(dir, files))
        /\ \A k \in 1..Len(active_hash) : Data(dir, files)[k] = active_hash[k]
    BY <2>3 DEF FieldsInv
  <2>5. Fits(p, segments, Data(dir, files), Len(Data(dir, files)))
    BY <1>1, <1>2, <2>4, FitsGrow DEF WriterFits
  <2>6. QED
    BY <2>1, <2>5 DEF DirFits
<1>4. CASE Moved
  <2>1. dir.sealed = Append(segments, SealedSegment)
    BY <1>4 DEF Moved
  <2>2. /\ SealedSegment \in Segment /\ SealedSegment.first = SealedNext(segments)
        /\ SealedSegment.digest = active_hash
    BY SealedSegmentFacts DEF FieldsInv
  <2>3. Fits(p, Append(segments, SealedSegment), Data(dir, files), Len(Data(dir, files)))
    <3>1. /\ Len(active_hash) <= Len(SealedSegment.digest) /\ Len(active_hash) \in Int
          /\ \A k \in 1..Len(active_hash) : SealedSegment.digest[k] = active_hash[k]
          /\ Fits(p, segments, active_hash, Len(active_hash))
      BY <1>1, <2>2 DEF WriterFits
    <3>2. QED
      BY <1>1, <2>2, <3>1, FitsSeal
  <2>4. QED
    BY <2>1, <2>3 DEF DirFits
<1>5. QED
  BY <1>3, <1>4 DEF FieldsInv

LEMMA CurTypes ==
    ASSUME TypeOK
    PROVE  CurSegs \in Seq(Segment) /\ CurData \in Seq(Record) /\ Len(CurData) \in Nat
BY TypeFacts, DataFacts DEF CurSegs, CurData

\* A view stays one when the directory and what it is a prefix of grow.
LEMMA ViewStays ==
    ASSUME NEW v \in View, NEW names \in Seq(Segment), NEW segs, NEW data,
           NEW names2 \in Seq(Segment), NEW segs2, NEW data2,
           ViewOK(v, names, segs, data), Len(names) <= Len(names2),
           \A i \in 1..Len(names) : names2[i] = names[i],
           Fits(prefix_identity(v), segs, data, Len(data)) =>
              Fits(prefix_identity(v), segs2, data2, Len(data2))
    PROVE  ViewOK(v, names2, segs2, data2)
<1>1. Len(names) \in Nat /\ Len(names2) \in Nat /\ Len(v.segs) \in Nat
  BY SegmentFacts, ViewFacts
<1>2. QED
  BY <1>1 DEF ViewOK

LEMMA NoViewOK ==
    ASSUME NEW names \in Seq(Segment), NEW segs \in Seq(Segment), NEW data
    PROVE  ViewOK(NoView, names, segs, data)
<1>1. Len(names) \in Nat /\ Len(<<>>) = 0
  BY SegmentFacts
<1>2. Fits(<<>>, segs, data, Len(data)) /\ SealedNext(<<>>) = 0
  BY FitsEmpty, CatalogEmpty
<1>3. QED
  BY <1>1, <1>2, NoViewFacts DEF ViewOK

\* Views are kept by a step that keeps what they are prefixes of.
LEMMA ViewsKept ==
    ASSUME TypeOK, TypeOK', ViewInv,
           \A r \in Readers : views'[r] = views[r] \/ views'[r] = NoView,
           published' = published \/ published' = NoView,
           Len(dir.sealed) <= Len(dir'.sealed),
           \A i \in 1..Len(dir.sealed) : dir'.sealed[i] = dir.sealed[i],
           \A p \in Seq(Segment) : Current(p) => Current(p)'
    PROVE  ViewInv'
<1>1. /\ dir.sealed \in Seq(Segment) /\ dir'.sealed \in Seq(Segment)
      /\ published \in View /\ views \in [Readers -> View]
  BY DirectoryFacts DEF TypeOK
<1>2. CurSegs' \in Seq(Segment)
  <2>1. segments' \in Seq(Segment)
    BY DEF TypeOK
  <2>2. QED
    BY <1>1, <2>1 DEF CurSegs
<1>3. ViewOK(NoView, dir'.sealed, CurSegs', CurData')
  BY <1>1, <1>2, NoViewOK
<1>4. ASSUME NEW v \in View, ViewOK(v, dir.sealed, CurSegs, CurData)
      PROVE  ViewOK(v, dir'.sealed, CurSegs', CurData')
  <2>1. prefix_identity(v) \in Seq(Segment)
    BY ViewFacts
  <2>2. Fits(prefix_identity(v), CurSegs, CurData, Len(CurData)) =>
           Fits(prefix_identity(v), CurSegs', CurData', Len(CurData'))
    BY <2>1 DEF Current
  <2>3. QED
    BY <1>1, <1>4, <2>2, ViewStays
<1>5. \A r \in Readers : ViewOK(views'[r], dir'.sealed, CurSegs', CurData')
  <2>1. \A r \in Readers : /\ views[r] \in View
                           /\ ViewOK(views[r], dir.sealed, CurSegs, CurData)
    BY <1>1 DEF ViewInv
  <2>2. QED
    BY <2>1, <1>3, <1>4
<1>6. ViewOK(published', dir'.sealed, CurSegs', CurData')
  BY <1>1, <1>3, <1>4 DEF ViewInv
<1>7. QED
  BY <1>5, <1>6 DEF ViewInv

LEMMA InitInv == ASSUME Init PROVE IInv
<1> USE IdFacts
<1>1. /\ dir.sealed = <<>> /\ dir.active = NoFile /\ durDir = dir
      /\ pc = "closed" /\ acked = <<>> /\ ~sealedDirty
      /\ published = NoView /\ \A r \in Readers : views[r] = NoView
      /\ \A f \in Ids : files[f] = EmptyFile
  BY DEF Init
<1>2. TypeOK
  <2>1. <<>> \in Seq(Segment) /\ <<>> \in Seq(Record)
    BY EmptySeq
  <2>2. [sealed |-> <<>>, active |-> NoFile] \in Directory
    BY <2>1 DEF Directory
  <2>3. QED
    BY <2>1, <2>2, EmptyFileFacts, NoViewFacts DEF Init, TypeOK
<1>3. FileInv
  BY <1>1, EmptyFileFacts DEF FileInv
<1>4. DirsInv
  BY <1>1, CatalogEmpty DEF DirsInv, DirOK, Ahead
<1>5. WriterInv
  BY <1>1 DEF WriterInv, Past, PcInv
<1>6. SurviveInv
  BY <1>1 DEF SurviveInv, Whole
<1>7. <<>> \in Seq(Segment)
  BY EmptySeq
<1>8. AckInv
  BY <1>1, <1>7, FitsEmpty DEF AckInv, DiskFits, Past
<1>9. CurSegs = <<>>
  BY <1>1 DEF CurSegs, Past
<1>10. ViewInv
  BY <1>1, <1>7, <1>9, NoViewOK DEF ViewInv
<1>11. QED
  BY <1>2, <1>3, <1>4, <1>5, <1>6, <1>8, <1>10 DEF IInv

---------------------------------------------------------------------------
(* Steps that leave the disk alone. *)

\* The parts of the invariant that speak of the disk only.
LEMMA SameDisk ==
    ASSUME IInv, UNCHANGED <<disk, history>>
    PROVE  /\ FileInv' /\ DirsInv' /\ SurviveInv'
           /\ DiskFits(acked, dir, files)' /\ DiskFits(acked, durDir, files)'
<1>1. /\ files' = files /\ dir' = dir /\ durDir' = durDir
      /\ acked' = acked /\ sealedDirty' = sealedDirty
  BY DEF disk, history
<1>2. FileInv /\ DirsInv /\ SurviveInv /\ AckInv
  BY DEF IInv
<1>3. FileInv'
  BY <1>1, <1>2 DEF FileInv
<1>4. DirsInv'
  BY <1>1, <1>2 DEF DirsInv
<1>5. SurviveInv'
  BY <1>1, <1>2 DEF SurviveInv
<1>6. DiskFits(acked', dir', files') /\ DiskFits(acked', durDir', files')
  BY <1>1, <1>2 DEF AckInv
<1>7. QED
  BY <1>3, <1>4, <1>5, <1>6

\* A writer goes on without touching the disk or its fields.
LEMMA WriterStep ==
    ASSUME IInv, TypeOK', UNCHANGED <<disk, writer, history, readers>>,
           Past, Past', Home \/ poisoned'
    PROVE  FileInv' /\ DirsInv' /\ SurviveInv' /\ AckInv' /\ ViewInv' /\ FieldsInv'
<1>1. /\ files' = files /\ dir' = dir /\ durDir' = durDir
      /\ acked' = acked /\ sealedDirty' = sealedDirty
      /\ segments' = segments /\ active' = active /\ active_first' = active_first
      /\ active_hash' = active_hash /\ next_sequence' = next_sequence
      /\ views' = views /\ published' = published
  BY DEF disk, history, writer, readers
<1>2. TypeOK /\ AckInv /\ ViewInv /\ WriterInv
  BY DEF IInv
<1>3. /\ FileInv' /\ DirsInv' /\ SurviveInv'
      /\ DiskFits(acked, dir, files)' /\ DiskFits(acked, durDir, files)'
  BY SameDisk
<1>4. AckInv'
  BY <1>1, <1>2, <1>3 DEF AckInv, WriterFits
<1>5. CurSegs' = CurSegs /\ CurData' = CurData
  BY <1>1 DEF CurSegs, CurData
<1>6. ViewInv'
  BY <1>1, <1>2, <1>5 DEF ViewInv
<1>7. FieldsInv'
  <2>1. FieldsInv
    BY <1>2 DEF WriterInv
  <2>2. Home' = Home /\ Moved' = Moved
    BY <1>1 DEF Home, Moved, SealedSegment
  <2>3. Home' \/ (Moved' /\ poisoned')
    BY <2>1, <2>2 DEF FieldsInv
  <2>4. QED
    BY <1>1, <2>1, <2>3 DEF FieldsInv
<1>8. QED
  BY <1>3, <1>4, <1>6, <1>7

\* The writer is gone and the disk is as it was.
LEMMA ForgetStep ==
    ASSUME IInv, TypeOK', Forget, UNCHANGED <<disk, history>>,
           \A r \in Readers : views'[r] = views[r] \/ views'[r] = NoView,
           published' = published \/ published' = NoView
    PROVE  IInv'
<1>1. /\ files' = files /\ dir' = dir /\ durDir' = durDir /\ acked' = acked
      /\ pc' = "closed"
  BY DEF disk, history, Forget
<1>2. TypeOK /\ WriterInv /\ ViewInv
  BY DEF IInv
<1>3. /\ FileInv' /\ DirsInv' /\ SurviveInv'
      /\ DiskFits(acked, dir, files)' /\ DiskFits(acked, durDir, files)'
  BY SameDisk
<1>4. ~Past'
  BY <1>1 DEF Past
<1>5. AckInv'
  BY <1>3, <1>4 DEF AckInv
<1>6. WriterInv'
  BY <1>1, <1>4 DEF WriterInv, PcInv
<1>7. CurSegs' = dir.sealed /\ CurData' = Data(dir, files)
  BY <1>1, <1>4 DEF CurSegs, CurData
<1>8. ASSUME NEW p \in Seq(Segment), Current(p) PROVE Current(p)'
  <2>1. DirFits(p, dir, files)
    <3>1. CASE Past
      <4>1. WriterFits(p) /\ FieldsInv
        BY <1>2, <1>8, <3>1 DEF Current, CurSegs, CurData, WriterFits, WriterInv
      <4>2. QED
        BY <4>1, <1>2, WriterOnDisk
    <3>2. CASE ~Past
      BY <1>8, <3>2 DEF Current, CurSegs, CurData, DirFits
    <3>3. QED
      BY <3>1, <3>2
  <2>2. QED
    BY <1>7, <2>1 DEF Current, DirFits
<1>9. dir.sealed \in Seq(Segment)
  BY <1>2, TypeFacts
<1>10. ViewInv'
  <2>1. /\ Len(dir.sealed) <= Len(dir'.sealed)
        /\ \A i \in 1..Len(dir.sealed) : dir'.sealed[i] = dir.sealed[i]
    BY <1>1, <1>9, SegmentFacts
  <2>2. QED
    BY <1>2, <1>8, <2>1, ViewsKept
<1>11. QED
  BY <1>3, <1>5, <1>6, <1>10 DEF IInv

LEMMA ForgetTypes ==
    ASSUME TypeOK, Forget, files' \in [Ids -> File], dir' \in Directory, durDir' \in Directory,
           UNCHANGED history,
           \A r \in Readers : views'[r] = views[r] \/ views'[r] = NoView,
           views' = [r \in Readers |-> views'[r]],
           published' = published \/ published' = NoView
    PROVE  TypeOK'
<1>1. <<>> \in Seq(Segment) /\ <<>> \in Seq(Record)
  BY EmptySeq
<1>2. views' \in [Readers -> View] /\ published' \in View
  BY NoViewFacts DEF TypeOK
<1>3. acked' \in Seq(Segment) /\ sealedDirty' \in BOOLEAN
  BY DEF TypeOK, history
<1>4. QED
  BY <1>1, <1>2, <1>3 DEF TypeOK, Forget

\* encode_records numbers a batch from `first' on.
LEMMA PreparedFacts ==
    ASSUME NEW first \in Nat, NEW n \in Nat, NEW vals \in [1..n -> Vals]
    PROVE  /\ Prepared(first, vals) \in Seq(Record)
           /\ Len(vals) = n
           /\ Len(Prepared(first, vals)) = n
           /\ ValidFrom(Prepared(first, vals), first)
<1> DEFINE b == [i \in 1..n |-> [seq |-> first + i - 1, val |-> vals[i]]]
<1>1. vals \in Seq(Vals) /\ Len(vals) = n
  BY SeqDef
<1>2. \A i \in 1..n : first + i - 1 \in Nat /\ vals[i] \in Vals
  OBVIOUS
<1>3. b \in [1..n -> Record]
  BY <1>2 DEF Record
<1>4. b \in Seq(Record) /\ Len(b) = n
  BY <1>3, SeqDef
<1>5. Prepared(first, vals) = b
  BY <1>1 DEF Prepared
<1>6. \A i \in 1..n : b[i].seq = first + i - 1
  OBVIOUS
<1> HIDE DEF b
<1>7. QED
  BY <1>1, <1>4, <1>5, <1>6 DEF ValidFrom

LEMMA AppendPreparedInv ==
    ASSUME IInv, NEW first \in 0..MaxSeq, NEW n \in 1..MaxSegment,
           NEW vals \in [1..n -> Vals], append_prepared(first, vals)
    PROVE  IInv'
<1>1. TypeOK /\ WriterInv /\ MaxSeq \in Nat /\ MaxSegment \in Nat
  BY TypeFacts DEF IInv
<1>2. /\ pc = "ready" /\ ~poisoned /\ first = next_sequence /\ vals # <<>>
      /\ first + Len(vals) <= MaxSeq
      /\ batch' = Prepared(first, vals)
      /\ UNCHANGED <<disk, writer, readers, history>>
      /\ \/ /\ MustSeal(Len(vals)) /\ pc' = "sealing" /\ poisoned' = TRUE
         \/ /\ ~MustSeal(Len(vals)) /\ pc' = "writing" /\ poisoned' = FALSE
  BY <1>1 DEF append_prepared, admitted, TypeOK
<1>3. /\ files' = files /\ dir' = dir /\ durDir' = durDir /\ acked' = acked
      /\ sealedDirty' = sealedDirty /\ segments' = segments /\ active' = active
      /\ active_first' = active_first /\ active_hash' = active_hash
      /\ next_sequence' = next_sequence /\ views' = views /\ published' = published
  BY <1>2 DEF disk, history, writer, readers
<1>4. /\ batch' \in Seq(Record) /\ Len(vals) = n /\ Len(batch') = n
      /\ ValidFrom(batch', first)
  BY <1>2, <1>1, PreparedFacts
<1>5. TypeOK'
  BY <1>1, <1>2, <1>3, <1>4 DEF TypeOK
<1>6. Past /\ Past' /\ Home /\ Exact
  BY <1>1, <1>2 DEF Past, WriterInv, PcInv
<1>7. FileInv' /\ DirsInv' /\ SurviveInv' /\ AckInv' /\ ViewInv' /\ FieldsInv'
  BY <1>2, <1>5, <1>6, WriterStep
<1>8. FieldsInv /\ active \in Ids
  <2>1. FieldsInv
    BY <1>1, <1>6 DEF WriterInv
  <2>2. QED
    BY <2>1, <1>1, IdFacts, TypeFacts DEF FieldsInv
<1>9. BatchInv'
  <2>1. batch' # <<>>
    BY <1>4
  <2>2. QED
    BY <1>1, <1>2, <1>3, <1>4, <2>1 DEF BatchInv
<1>10. files[active].stable <= Len(active_hash)
  <2>1. files[active].stable <= Len(files[active].data)
    BY <1>8 DEF IInv, FileInv
  <2>2. QED
    BY <2>1, <1>6 DEF Exact
<1>11. Home' /\ Exact'
  BY <1>3, <1>6 DEF Home, Exact
<1>12. pc' = "sealing" => active_hash' # <<>>
  BY <1>2, <1>3 DEF MustSeal
<1>13. pc' = "writing" => Len(active_hash') + Len(batch') <= MaxSegment
  <2>1. Len(active_hash) \in Nat /\ Target \in Nat /\ Target <= MaxSegment
        /\ (active_hash = <<>> => Len(active_hash) = 0)
    BY <1>1, TypeFacts, JournalAssumption, EmptySeq
  <2>2. QED
    BY <1>1, <1>2, <1>3, <1>4, <2>1 DEF MustSeal
<1>14. PcInv'
  BY <1>2, <1>3, <1>9, <1>10, <1>11, <1>12, <1>13 DEF PcInv
<1>15. QED
  BY <1>5, <1>7, <1>14 DEF IInv, WriterInv

\* The writer comes back to rest, poisoned or as it was.
LEMMA BackToReady ==
    ASSUME IInv, Past, pc' = "ready", batch' \in Seq(Record),
           poisoned' \in BOOLEAN, ~poisoned' => Home /\ Exact,
           UNCHANGED <<disk, writer, readers, history>>
    PROVE  IInv'
<1>1. TypeOK
  BY DEF IInv
<1>2. /\ files' = files /\ dir' = dir /\ durDir' = durDir /\ acked' = acked
      /\ sealedDirty' = sealedDirty /\ segments' = segments /\ active' = active
      /\ active_first' = active_first /\ active_hash' = active_hash
      /\ next_sequence' = next_sequence /\ views' = views /\ published' = published
  BY DEF disk, history, writer, readers
<1>3. TypeOK'
  BY <1>1, <1>2 DEF TypeOK
<1>4. Past'
  BY DEF Past
<1>5. Home \/ poisoned'
  OBVIOUS
<1>6. FileInv' /\ DirsInv' /\ SurviveInv' /\ AckInv' /\ ViewInv' /\ FieldsInv'
  BY <1>3, <1>4, <1>5, WriterStep
<1>7. ~poisoned' => Home' /\ Exact'
  BY <1>2 DEF Home, Exact
<1>8. PcInv'
  BY <1>7 DEF PcInv
<1>9. QED
  BY <1>3, <1>6, <1>8 DEF IInv, WriterInv

LEMMA VerifyFailsInv == ASSUME IInv, verify_fails PROVE IInv'
<1>1. TypeOK
  BY DEF IInv
<1>2. /\ pc = "ready" /\ pc' = "ready" /\ poisoned' = TRUE /\ batch' = batch
      /\ UNCHANGED <<disk, writer, readers, history>>
  BY DEF verify_fails
<1>3. Past /\ batch' \in Seq(Record)
  BY <1>1, <1>2 DEF Past, TypeOK
<1>4. QED
  BY <1>2, <1>3, BackToReady

LEMMA SealFailsInv == ASSUME IInv, seal_fails PROVE IInv'
<1>1. TypeOK /\ PcInv
  BY DEF IInv, WriterInv
<1>2. /\ pc \in {"sealing", "renamed", "unnamed", "created"}
      /\ pc' = "ready" /\ poisoned' = poisoned /\ batch' = <<>>
      /\ UNCHANGED <<disk, writer, readers, history>>
  BY DEF seal_fails
<1>3. Past /\ poisoned /\ poisoned \in BOOLEAN /\ batch' \in Seq(Record)
  BY <1>1, <1>2, EmptySeq DEF Past, PcInv, TypeOK
<1>4. QED
  BY <1>2, <1>3, BackToReady

LEMMA MetadataFailsInv == ASSUME IInv, metadata_fails PROVE IInv'
<1>1. TypeOK /\ PcInv
  BY DEF IInv, WriterInv
<1>2. /\ pc = "writing" /\ pc' = "ready" /\ poisoned' = poisoned /\ batch' = <<>>
      /\ UNCHANGED <<disk, writer, readers, history>>
  BY DEF metadata_fails
<1>3. Past /\ poisoned \in BOOLEAN /\ batch' \in Seq(Record) /\ Home /\ Exact
  BY <1>1, <1>2, EmptySeq DEF Past, PcInv, TypeOK
<1>4. QED
  BY <1>2, <1>3, BackToReady

LEMMA SettleFailsInv == ASSUME IInv, settle_fails PROVE IInv'
<1>1. TypeOK /\ PcInv
  BY DEF IInv, WriterInv
<1>2. /\ pc = "settling" /\ pc' = "ready" /\ poisoned' = poisoned /\ batch' = <<>>
      /\ UNCHANGED <<disk, writer, readers, history>>
  BY DEF settle_fails
<1>3. Past /\ poisoned \in BOOLEAN /\ batch' \in Seq(Record) /\ Home /\ Exact
  BY <1>1, <1>2, EmptySeq DEF Past, PcInv, TypeOK
<1>4. QED
  BY <1>2, <1>3, BackToReady

LEMMA SyncFailsInv == ASSUME IInv, sync_fails PROVE IInv'
<1>1. TypeOK /\ PcInv
  BY DEF IInv, WriterInv
<1>2. /\ pc = "syncing" /\ pc' = "rollback" /\ poisoned' = poisoned /\ batch' = batch
      /\ UNCHANGED <<disk, writer, readers, history>>
  BY DEF sync_fails
<1>3. /\ files' = files /\ dir' = dir /\ durDir' = durDir /\ acked' = acked
      /\ sealedDirty' = sealedDirty /\ segments' = segments /\ active' = active
      /\ active_first' = active_first /\ active_hash' = active_hash
      /\ next_sequence' = next_sequence /\ views' = views /\ published' = published
  BY <1>2 DEF disk, history, writer, readers
<1>4. TypeOK'
  BY <1>1, <1>2, <1>3 DEF TypeOK
<1>5. Past /\ Past' /\ Home
  BY <1>1, <1>2 DEF Past, PcInv
<1>6. FileInv' /\ DirsInv' /\ SurviveInv' /\ AckInv' /\ ViewInv' /\ FieldsInv'
  BY <1>2, <1>4, <1>5, WriterStep
<1>7. PcInv'
  BY <1>1, <1>2, <1>3 DEF PcInv, Home, BatchInv
<1>8. QED
  BY <1>4, <1>6, <1>7 DEF IInv, WriterInv

\* The writer's own view is a view of its directory.
LEMMA ReadViewOK ==
    ASSUME TypeOK, FieldsInv, DirsInv, Past
    PROVE  ViewOK(read_view, dir.sealed, CurSegs, CurData)
<1>1. /\ dir.sealed \in Seq(Segment) /\ segments \in Seq(Segment)
      /\ Len(dir.sealed) \in Nat /\ Len(segments) \in Nat
  BY TypeFacts
<1>2. CurSegs = segments /\ CurData = active_hash
  BY DEF CurSegs, CurData
<1>3. Len(segments) <= Len(dir.sealed) /\ \A i \in 1..Len(segments) : segments[i] = dir.sealed[i]
  <2>1. CASE Home
    BY <2>1, <1>1 DEF Home
  <2>2. CASE Moved
    BY <2>2, <1>1, AppendFacts, SealedSegmentFacts DEF Moved
  <2>3. QED
    BY <2>1, <2>2 DEF FieldsInv
<1>4. QED
  BY <1>2, <1>3, ReadViewFacts DEF ViewOK, WriterFits

\* The acknowledged prefix becomes the writer's whole prefix, and the
\* published one too.
LEMMA SettleInv == ASSUME IInv, settle PROVE IInv'
<1>1. TypeOK /\ WriterInv /\ DirsInv /\ ViewInv
  BY DEF IInv
<1>2. /\ pc = "settling" /\ poisoned' = FALSE /\ pc' = "ready" /\ batch' = <<>>
      /\ acked' = prefix_identity(read_view)
      /\ published' = NoView \/ published' = read_view
      /\ UNCHANGED <<disk, writer, views, sealedDirty>>
  BY DEF settle
<1>3. /\ files' = files /\ dir' = dir /\ durDir' = durDir
      /\ sealedDirty' = sealedDirty /\ segments' = segments /\ active' = active
      /\ active_first' = active_first /\ active_hash' = active_hash
      /\ next_sequence' = next_sequence /\ views' = views
  BY <1>2 DEF disk, writer
<1>4. Past /\ Past' /\ FieldsInv
  BY <1>1, <1>2 DEF Past, WriterInv
<1>5. Home /\ Exact /\ files[active].stable = Len(active_hash)
  BY <1>1, <1>2 DEF WriterInv, PcInv
<1>6. read_view \in View /\ prefix_identity(read_view) \in Seq(Segment)
      /\ WriterFits(prefix_identity(read_view))
  BY <1>1, <1>4, ReadViewFacts
<1>7. TypeOK'
  BY <1>1, <1>2, <1>3, <1>6, EmptySeq, NoViewFacts DEF TypeOK
<1>8. FileInv' /\ DirsInv' /\ SurviveInv'
  BY <1>3 DEF IInv, FileInv, DirsInv, SurviveInv
<1>9. AckInv'
  <2>1. active # NoFile
    BY <1>1, <1>4, IdFacts, TypeFacts DEF FieldsInv
  <2>2. /\ dir.sealed = segments /\ dir.active = active /\ durDir = dir
        /\ files[active].data = active_hash
    BY <1>5 DEF Home, Exact
  <2>3. Data(dir, files) = active_hash /\ Stable(dir, files) = Len(active_hash)
    BY <2>1, <2>2, <1>5 DEF Data, Stable
  <2>4. DiskFits(acked', dir', files') /\ DiskFits(acked', durDir', files')
    BY <1>2, <1>3, <1>6, <2>2, <2>3 DEF DiskFits, WriterFits
  <2>5. Fits(acked', segments', active_hash', Len(active_hash'))
    BY <1>2, <1>3, <1>6 DEF WriterFits
  <2>6. QED
    BY <2>4, <2>5 DEF AckInv, WriterFits
<1>10. CurSegs' = CurSegs /\ CurData' = CurData
  BY <1>3, <1>4 DEF CurSegs, CurData
<1>11. ViewInv'
  <2>1. CurSegs \in Seq(Segment) /\ dir.sealed \in Seq(Segment)
    BY <1>1, CurTypes, TypeFacts
  <2>2. ViewOK(published', dir.sealed, CurSegs, CurData)
    BY <1>1, <1>2, <1>4, <2>1, ReadViewOK, NoViewOK
  <2>3. QED
    BY <1>1, <1>3, <1>10, <2>2 DEF ViewInv
<1>12. FieldsInv'
  <2>1. Home'
    BY <1>3, <1>5 DEF Home
  <2>2. QED
    BY <1>3, <1>4, <2>1 DEF FieldsInv
<1>13. PcInv'
  BY <1>2, <1>3, <1>5 DEF PcInv, Home, Exact
<1>14. QED
  BY <1>7, <1>8, <1>9, <1>11, <1>12, <1>13 DEF IInv, WriterInv

\* Only the registry and the readers' views change.
LEMMA ReadersStep ==
    ASSUME IInv, UNCHANGED <<disk, writer, poisoned, batch, history>>,
           pc' = pc \/ (pc = "ready" /\ pc' = "closing"),
           views' \in [Readers -> View], published' \in View,
           \A r \in Readers : ViewOK(views'[r], dir.sealed, CurSegs, CurData),
           ViewOK(published', dir.sealed, CurSegs, CurData)
    PROVE  IInv'
<1>1. TypeOK /\ WriterInv /\ AckInv
  BY DEF IInv
<1>2. /\ files' = files /\ dir' = dir /\ durDir' = durDir /\ acked' = acked
      /\ sealedDirty' = sealedDirty /\ segments' = segments /\ active' = active
      /\ active_first' = active_first /\ active_hash' = active_hash
      /\ next_sequence' = next_sequence /\ poisoned' = poisoned /\ batch' = batch
  BY DEF disk, writer, history
<1>3. Past' = Past
  BY DEF Past
<1>4. TypeOK'
  BY <1>1, <1>2 DEF TypeOK
<1>5. /\ FileInv' /\ DirsInv' /\ SurviveInv'
      /\ DiskFits(acked, dir, files)' /\ DiskFits(acked, durDir, files)'
  BY SameDisk
<1>6. AckInv'
  BY <1>1, <1>2, <1>3, <1>5 DEF AckInv, WriterFits
<1>7. ViewInv'
  <2>1. CurSegs' = CurSegs /\ CurData' = CurData
    BY <1>2, <1>3 DEF CurSegs, CurData
  <2>2. QED
    BY <1>2, <2>1 DEF ViewInv
<1>8. WriterInv'
  <2>1. Home' = Home /\ Moved' = Moved /\ Exact' = Exact /\ BatchInv' = BatchInv
    BY <1>2 DEF Home, Moved, Exact, BatchInv, SealedSegment
  <2>2. Past' => FieldsInv'
    <3>1. Past => FieldsInv
      BY <1>1 DEF WriterInv
    <3>2. FieldsInv' = FieldsInv
      BY <1>2, <2>1 DEF FieldsInv
    <3>3. QED
      BY <3>1, <3>2, <1>3
  <2>3. PcInv'
    <3>1. CASE pc' = pc
      <4>1. PcInv' = PcInv
        BY <1>2, <2>1, <3>1 DEF PcInv
      <4>2. QED
        BY <4>1, <1>1 DEF WriterInv
    <3>2. CASE pc' = "closing"
      BY <3>2 DEF PcInv
    <3>3. QED
      BY <3>1, <3>2
  <2>4. QED
    BY <2>2, <2>3 DEF WriterInv
<1>9. QED
  BY <1>4, <1>5, <1>6, <1>7, <1>8 DEF IInv

LEMMA RegisterInv == ASSUME IInv, register PROVE IInv'
<1>1. TypeOK /\ WriterInv /\ DirsInv /\ ViewInv
  BY DEF IInv
<1>2. /\ pc = "ready" /\ pc' = pc /\ published' = read_view /\ views' = views
      /\ UNCHANGED <<disk, writer, poisoned, batch, history>>
  BY DEF register
<1>3. Past /\ FieldsInv
  BY <1>1, <1>2 DEF Past, WriterInv
<1>4. read_view \in View /\ ViewOK(read_view, dir.sealed, CurSegs, CurData)
  BY <1>1, <1>3, ReadViewFacts, ReadViewOK
<1>5. /\ views' \in [Readers -> View]
      /\ \A r \in Readers : ViewOK(views'[r], dir.sealed, CurSegs, CurData)
  BY <1>1, <1>2 DEF TypeOK, ViewInv
<1>6. QED
  BY <1>2, <1>4, <1>5, ReadersStep

LEMMA UnregisterInv == ASSUME IInv, unregister PROVE IInv'
<1>1. TypeOK /\ ViewInv /\ dir.sealed \in Seq(Segment) /\ CurSegs \in Seq(Segment)
  BY TypeFacts, CurTypes DEF IInv
<1>2. /\ pc = "ready" /\ pc' = "closing" /\ published' = NoView /\ views' = views
      /\ UNCHANGED <<disk, writer, poisoned, batch, history>>
  BY DEF unregister
<1>3. /\ views' \in [Readers -> View]
      /\ \A r \in Readers : ViewOK(views'[r], dir.sealed, CurSegs, CurData)
  BY <1>1, <1>2 DEF TypeOK, ViewInv
<1>4. published' \in View /\ ViewOK(published', dir.sealed, CurSegs, CurData)
  BY <1>1, <1>2, NoViewFacts, NoViewOK
<1>5. QED
  BY <1>2, <1>3, <1>4, ReadersStep

\* The view of an offline reader.
LEMMA OfflineViewFacts ==
    ASSUME TypeOK, DirsInv, dir.active # NoFile, ~Past
    PROVE  /\ offline_view \in View
           /\ ViewOK(offline_view, dir.sealed, CurSegs, CurData)
<1> DEFINE v == offline_view
           data == files[dir.active].data
           first == SealedNext(dir.sealed)
           s == [first |-> first, next |-> first + Len(data), digest |-> data]
<1>1. /\ dir.sealed \in Seq(Segment) /\ dir.active \in Ids
      /\ data \in Seq(Record) /\ Len(data) \in Nat /\ Len(dir.sealed) \in Nat
  BY TypeFacts, DirectoryFacts
<1>2. first \in Nat /\ Catalog(dir.sealed) /\ dir.active = first
  BY <1>1, SegmentFacts DEF DirsInv, DirOK
<1> HIDE DEF data, first
<1>3. s \in Segment /\ s.first = first
  BY <1>1, <1>2 DEF Segment
<1>4. /\ v.segs = dir.sealed /\ v.active = dir.active /\ v.next = first + Len(data)
      /\ v.live = FALSE
      /\ v.tail = IF data = <<>> THEN <<>> ELSE <<s>>
      /\ v = [segs |-> v.segs, tail |-> v.tail, active |-> v.active, next |-> v.next,
              live |-> v.live]
  BY DEF offline_view, data, first
<1>5. s = [first |-> SealedNext(dir.sealed), next |-> SealedNext(dir.sealed) + Len(data),
           digest |-> data]
  BY DEF first
<1> HIDE DEF v, s
<1>6. v.tail \in Seq(Segment) /\ Len(v.tail) <= 1 /\ (v.tail # <<>> => v.tail[1] = s)
  BY <1>3, <1>4, EmptySeq
<1>7. v \in View
  <2>1. first + Len(data) \in Nat
    BY <1>1, <1>2
  <2>2. QED
    BY <1>1, <1>4, <1>6, <2>1 DEF View
<1>8. prefix_identity(v) = Parts(dir.sealed, data)
  <2>1. CASE data = <<>>
    BY <2>1, <1>4, <1>6, <1>7, IdentityParts DEF Parts
  <2>2. CASE data # <<>>
    <3>1. v.tail # <<>>
      BY <2>2, <1>4
    <3>2. prefix_identity(v) = Append(dir.sealed, s)
      BY <3>1, <1>4, <1>6, <1>7, IdentityParts
    <3>3. QED
      BY <2>2, <3>2, <1>5 DEF Parts
  <2>3. QED
    BY <2>1, <2>2
<1>9. /\ SealedNext(Parts(dir.sealed, data)) = first + Len(data)
      /\ Fits(Parts(dir.sealed, data), dir.sealed, data, Len(data))
  BY <1>1, <1>2, PartsFacts DEF first
<1>10. CurSegs = dir.sealed /\ CurData = data
  BY DEF CurSegs, CurData, Data, data
<1>11. v.tail # <<>> => v.active = v.tail[1].first
  BY <1>2, <1>3, <1>4, <1>6
<1>12. ViewOK(v, dir.sealed, CurSegs, CurData)
  BY <1>1, <1>4, <1>6, <1>8, <1>9, <1>10, <1>11 DEF ViewOK
<1>13. QED
  BY <1>7, <1>12 DEF v

LEMMA CaptureInv == ASSUME IInv, NEW r \in Readers, capture(r) PROVE IInv'
<1>1. TypeOK /\ DirsInv /\ ViewInv /\ published \in View /\ views \in [Readers -> View]
  BY DEF IInv, TypeOK
<1>2. /\ pc' = pc /\ published' = published
      /\ UNCHANGED <<disk, writer, poisoned, batch, history>>
  BY DEF capture
<1>3. PICK v \in View : /\ views' = [views EXCEPT ![r] = v]
                        /\ ViewOK(v, dir.sealed, CurSegs, CurData)
  <2>1. CASE views' = [views EXCEPT ![r] = published]
    BY <2>1, <1>1 DEF ViewInv
  <2>2. CASE /\ pc = "closed" /\ dir.active # NoFile
             /\ views' = [views EXCEPT ![r] = offline_view]
    <3>1. ~Past
      BY <2>2 DEF Past
    <3>2. QED
      BY <2>2, <3>1, <1>1, OfflineViewFacts
  <2>3. QED
    BY <2>1, <2>2 DEF capture
<1>4. /\ views' \in [Readers -> View]
      /\ \A q \in Readers : ViewOK(views'[q], dir.sealed, CurSegs, CurData)
  BY <1>1, <1>3 DEF ViewInv
<1>5. ViewOK(published', dir.sealed, CurSegs, CurData) /\ published' \in View
  BY <1>1, <1>2 DEF ViewInv
<1>6. QED
  BY <1>2, <1>4, <1>5, ReadersStep

LEMMA DropViewInv == ASSUME IInv, NEW r \in Readers, drop_view(r) PROVE IInv'
<1>1. /\ ViewInv /\ published \in View /\ views \in [Readers -> View]
      /\ dir.sealed \in Seq(Segment) /\ CurSegs \in Seq(Segment)
  BY TypeFacts, CurTypes DEF IInv, TypeOK
<1>2. /\ pc' = pc /\ published' = published /\ views' = [views EXCEPT ![r] = NoView]
      /\ UNCHANGED <<disk, writer, poisoned, batch, history>>
  BY DEF drop_view
<1>3. ViewOK(NoView, dir.sealed, CurSegs, CurData)
  BY <1>1, NoViewOK
<1>4. /\ views' \in [Readers -> View]
      /\ \A q \in Readers : ViewOK(views'[q], dir.sealed, CurSegs, CurData)
  BY <1>1, <1>2, <1>3, NoViewFacts DEF ViewInv
<1>5. ViewOK(published', dir.sealed, CurSegs, CurData) /\ published' \in View
  BY <1>1, <1>2 DEF ViewInv
<1>6. QED
  BY <1>2, <1>4, <1>5, ReadersStep

LEMMA ReleaseInv == ASSUME IInv, release PROVE IInv'
<1>1. TypeOK
  BY DEF IInv
<1>2. Forget /\ UNCHANGED <<disk, readers, history>>
  BY DEF release
<1>3. /\ files' = files /\ dir' = dir /\ durDir' = durDir /\ views' = views
      /\ published' = published /\ UNCHANGED history /\ UNCHANGED disk
  BY <1>2 DEF disk, readers
<1>4. TypeOK'
  <2>1. views' = [r \in Readers |-> views'[r]]
    BY <1>1, <1>3 DEF TypeOK
  <2>2. QED
    BY <1>1, <1>2, <1>3, <2>1, ForgetTypes DEF TypeOK
<1>5. QED
  BY <1>2, <1>3, <1>4, ForgetStep

LEMMA KillInv == ASSUME IInv, Kill PROVE IInv'
<1>1. TypeOK
  BY DEF IInv
<1>2. /\ Forget /\ UNCHANGED <<disk, history>> /\ published' = NoView
      /\ views' = [r \in Readers |-> IF views[r].live THEN NoView ELSE views[r]]
  BY DEF Kill
<1>3. /\ files' = files /\ dir' = dir /\ durDir' = durDir /\ UNCHANGED history
      /\ UNCHANGED disk
  BY <1>2 DEF disk
<1>4. \A r \in Readers : views'[r] = views[r] \/ views'[r] = NoView
  BY <1>2
<1>5. TypeOK'
  <2>1. views' = [r \in Readers |-> views'[r]]
    BY <1>2
  <2>2. QED
    BY <1>1, <1>2, <1>3, <1>4, <2>1, ForgetTypes DEF TypeOK
<1>6. QED
  BY <1>2, <1>3, <1>4, <1>5, ForgetStep

---------------------------------------------------------------------------
(* Steps that synchronize the directory or create a file. *)

\* The directory on disk becomes the one processes see.
LEMMA SyncDirectory ==
    ASSUME IInv, files' = files, dir' = dir, durDir' = dir, UNCHANGED history
    PROVE  /\ FileInv' /\ DirsInv' /\ SurviveInv'
           /\ DiskFits(acked, dir, files)' /\ DiskFits(acked, durDir, files)'
<1>1. acked' = acked /\ sealedDirty' = sealedDirty
  BY DEF history
<1>2. FileInv /\ DirsInv /\ SurviveInv /\ AckInv
  BY DEF IInv
<1>3. FileInv' /\ DirsInv' /\ SurviveInv'
  BY <1>1, <1>2 DEF FileInv, DirsInv, SurviveInv, Ahead
<1>4. DiskFits(acked', dir', files') /\ DiskFits(acked', durDir', files')
  BY <1>1, <1>2 DEF AckInv
<1>5. QED
  BY <1>3, <1>4

LEMMA OpenSyncInv == ASSUME IInv, open_sync PROVE IInv'
<1>1. TypeOK /\ WriterInv /\ ViewInv
  BY DEF IInv
<1>2. /\ pc = "opening" /\ pc' = "repairing" /\ durDir' = dir /\ files' = files /\ dir' = dir
      /\ segments' = segments /\ active' = active /\ active_first' = active_first
      /\ active_hash' = active_hash /\ next_sequence' = next_sequence
      /\ poisoned' = poisoned /\ batch' = batch /\ views' = views /\ published' = published
      /\ UNCHANGED history /\ acked' = acked /\ sealedDirty' = sealedDirty
  BY DEF open_sync, writer, readers, history
<1>3. TypeOK'
  BY <1>1, <1>2 DEF TypeOK
<1>4. /\ FileInv' /\ DirsInv' /\ SurviveInv'
      /\ DiskFits(acked, dir, files)' /\ DiskFits(acked, durDir, files)'
  BY <1>2, SyncDirectory
<1>5. ~Past /\ ~Past'
  BY <1>2 DEF Past
<1>6. AckInv'
  BY <1>4, <1>5 DEF AckInv
<1>7. ViewInv'
  <2>1. CurSegs' = CurSegs /\ CurData' = CurData
    BY <1>2, <1>5 DEF CurSegs, CurData
  <2>2. QED
    BY <1>1, <1>2, <2>1 DEF ViewInv
<1>8. WriterInv'
  BY <1>1, <1>2, <1>5 DEF WriterInv, PcInv
<1>9. QED
  BY <1>3, <1>4, <1>6, <1>7, <1>8 DEF IInv

LEMMA SealRenameSyncInv == ASSUME IInv, seal_rename_sync PROVE IInv'
<1>1. TypeOK /\ WriterInv /\ ViewInv /\ AckInv
  BY DEF IInv
<1>2. /\ pc = "renamed" /\ pc' = "unnamed" /\ durDir' = dir /\ files' = files /\ dir' = dir
      /\ segments' = segments /\ active' = active /\ active_first' = active_first
      /\ active_hash' = active_hash /\ next_sequence' = next_sequence
      /\ poisoned' = poisoned /\ batch' = batch /\ views' = views /\ published' = published
      /\ UNCHANGED history /\ acked' = acked /\ sealedDirty' = sealedDirty
  BY DEF seal_rename_sync, writer, readers, history
<1>3. TypeOK'
  BY <1>1, <1>2 DEF TypeOK
<1>4. /\ FileInv' /\ DirsInv' /\ SurviveInv'
      /\ DiskFits(acked, dir, files)' /\ DiskFits(acked, durDir, files)'
  BY <1>2, SyncDirectory
<1>5. Past /\ Past'
  BY <1>2 DEF Past
<1>6. AckInv'
  BY <1>1, <1>2, <1>4, <1>5 DEF AckInv, WriterFits
<1>7. ViewInv'
  <2>1. CurSegs' = CurSegs /\ CurData' = CurData
    BY <1>2, <1>5 DEF CurSegs, CurData
  <2>2. QED
    BY <1>1, <1>2, <2>1 DEF ViewInv
<1>8. PcInv'
  BY <1>1, <1>2 DEF WriterInv, PcInv, Moved, BatchInv, SealedSegment
<1>9. FieldsInv'
  <2>1. FieldsInv /\ Moved /\ poisoned
    BY <1>1, <1>2, <1>5 DEF WriterInv, PcInv
  <2>2. Moved' /\ poisoned'
    BY <1>2, <2>1 DEF Moved, SealedSegment
  <2>3. QED
    BY <1>2, <2>1, <2>2 DEF FieldsInv
<1>10. QED
  BY <1>3, <1>4, <1>6, <1>7, <1>8, <1>9 DEF IInv, WriterInv

\* The new file is empty and no directory had named it.
LEMMA CreateActive ==
    ASSUME IInv, dir.active = NoFile, NEW n, n = SealedNext(dir.sealed),
           dir' = [dir EXCEPT !.active = n], files' = [files EXCEPT ![n] = EmptyFile],
           durDir' = durDir, UNCHANGED history
    PROVE  /\ n \in Ids /\ files' \in [Ids -> File] /\ dir' \in Directory
           /\ files'[n] = EmptyFile /\ dir'.active = n /\ dir'.sealed = dir.sealed
           /\ \A i \in 1..Len(dir.sealed) : files'[dir.sealed[i].first] = files[dir.sealed[i].first]
           /\ FileInv' /\ DirsInv' /\ SurviveInv'
           /\ DiskFits(acked, dir, files)' /\ DiskFits(acked, durDir, files)'
<1>1. /\ TypeOK /\ FileInv /\ DirsInv /\ SurviveInv /\ AckInv
      /\ files \in [Ids -> File] /\ dir \in Directory /\ durDir \in Directory
      /\ dir.sealed \in Seq(Segment) /\ acked \in Seq(Segment)
  BY TypeFacts DEF IInv
<1>2. acked' = acked /\ sealedDirty' = sealedDirty
  BY DEF history
<1>3. /\ DirOK(dir, files) /\ DirOK(durDir, files) /\ Ahead(dir, durDir, files)
  BY <1>1 DEF DirsInv
<1>4. /\ n \in Ids /\ files' \in [Ids -> File] /\ files'[n] = EmptyFile
      /\ Untouched(dir, files, files') /\ Untouched(durDir, files, files')
  BY <1>1, <1>3, CreateFile
<1>5. dir' \in Directory /\ dir'.active = n /\ dir'.sealed = dir.sealed /\ n # NoFile
  BY <1>1, <1>4, IdFacts DEF Directory
<1>6. FileInv'
  <2>1. \A f \in Ids : files'[f] = IF f = n THEN EmptyFile ELSE files[f]
    BY <1>1
  <2>2. QED
    BY <1>1, <2>1, EmptyFileFacts DEF FileInv
<1>7. DirOK(dir', files')
  <2>1. Catalog(dir.sealed) /\ SealedNext(dir.sealed) <= MaxSeq
    BY <1>3 DEF DirOK
  <2>2. MaxSegment \in Nat /\ n \in Nat
    BY <1>4, IdFacts, JournalAssumption
  <2>3. QED
    BY <1>4, <1>5, <2>1, <2>2, EmptyFileFacts DEF DirOK
<1>8. DirOK(durDir, files')
  BY <1>3, <1>4, UntouchedDirectory
<1>9. Ahead(dir', durDir, files')
  <2>1. CASE durDir = dir
    BY <2>1, <1>4, <1>5 DEF Ahead
  <2>2. CASE durDir # dir
    BY <2>2, <1>3, <1>4, <1>5 DEF Ahead
  <2>3. QED
    BY <2>1, <2>2
<1>10. SurviveInv'
  <2>1. Whole(dir, files) => Whole(dir, files')
    BY <1>4, UntouchedDirectory
  <2>2. Whole(dir, files') => Whole(dir', files')
    BY <1>5 DEF Whole
  <2>3. Whole(durDir, files) => Whole(durDir, files')
    BY <1>4, UntouchedDirectory
  <2>4. QED
    BY <1>1, <1>2, <2>1, <2>2, <2>3 DEF SurviveInv
<1>11. DiskFits(acked', durDir', files')
  <2>1. DiskFits(acked, durDir, files)
    BY <1>1 DEF AckInv
  <2>2. QED
    BY <1>2, <1>4, <2>1, UntouchedDirectory
<1>12. DiskFits(acked', dir', files')
  <2>1. DiskFits(acked, dir, files)
    BY <1>1 DEF AckInv
  <2>2. Fits(acked, dir.sealed, Data(dir, files), 0)
    BY <2>1 DEF DiskFits, Stable
  <2>3. Stable(dir', files') = 0
    BY <1>4, <1>5, EmptyFileFacts DEF Stable
  <2>4. Fits(acked, dir.sealed, Data(dir', files'), 0)
    BY <1>1, <2>2, FitsGrow
  <2>5. QED
    BY <1>2, <1>5, <2>3, <2>4 DEF DiskFits
<1>13. DirsInv'
  BY <1>7, <1>8, <1>9 DEF DirsInv
<1>14. QED
  BY <1>4, <1>5, <1>6, <1>10, <1>11, <1>12, <1>13 DEF Untouched

LEMMA OpenInv == ASSUME IInv, open PROVE IInv'
<1>1. /\ TypeOK /\ DirsInv /\ ViewInv
      /\ files \in [Ids -> File] /\ dir \in Directory /\ dir.sealed \in Seq(Segment)
  BY TypeFacts DEF IInv
<1>2. /\ pc = "closed" /\ pc' = "opening" /\ segments' = dir.sealed
      /\ active_first' = SealedNext(dir.sealed)
      /\ durDir' = durDir /\ active_hash' = active_hash /\ next_sequence' = next_sequence
      /\ poisoned' = poisoned /\ batch' = batch /\ views' = views /\ published' = published
      /\ UNCHANGED history /\ acked' = acked /\ sealedDirty' = sealedDirty
      /\ active' = dir'.active
  BY DEF open, readers, history
<1>3. dir.active = NoFile =>
         /\ dir' = [dir EXCEPT !.active = SealedNext(dir.sealed)]
         /\ files' = [files EXCEPT ![SealedNext(dir.sealed)] = EmptyFile]
  BY Zenon DEF open
<1>4. dir.active # NoFile => dir' = dir /\ files' = files
  BY DEF open
<1>5. SealedNext(dir.sealed) \in Nat /\ SealedNext(dir.sealed) \in Ids
  BY <1>1, SegmentFacts, IdFacts DEF DirsInv, DirOK
<1>6. /\ files' \in [Ids -> File] /\ dir' \in Directory /\ dir'.sealed = dir.sealed
      /\ dir'.active = SealedNext(dir.sealed)
      /\ FileInv' /\ DirsInv' /\ SurviveInv'
      /\ DiskFits(acked, dir, files)' /\ DiskFits(acked, durDir, files)'
      /\ Data(dir', files') = Data(dir, files)
  <2>1. CASE dir.active = NoFile
    <3>1. /\ files' \in [Ids -> File] /\ dir' \in Directory
          /\ files'[SealedNext(dir.sealed)] = EmptyFile
          /\ dir'.active = SealedNext(dir.sealed) /\ dir'.sealed = dir.sealed
          /\ FileInv' /\ DirsInv' /\ SurviveInv'
          /\ DiskFits(acked, dir, files)' /\ DiskFits(acked, durDir, files)'
      BY <1>2, <1>3, <2>1, CreateActive
    <3>2. Data(dir', files') = Data(dir, files)
      BY <2>1, <3>1, <1>5, IdFacts, EmptyFileFacts DEF Data
    <3>3. QED
      BY <3>1, <3>2
  <2>2. CASE dir.active # NoFile
    <3>1. dir' = dir /\ files' = files /\ UNCHANGED disk
      BY <1>2, <1>4, <2>2 DEF disk
    <3>2. /\ FileInv' /\ DirsInv' /\ SurviveInv'
          /\ DiskFits(acked, dir, files)' /\ DiskFits(acked, durDir, files)'
      BY <1>2, <3>1, SameDisk
    <3>3. dir.active = SealedNext(dir.sealed)
      BY <1>1, <2>2 DEF DirsInv, DirOK
    <3>4. QED
      BY <1>1, <3>1, <3>2, <3>3
  <2>3. QED
    BY <2>1, <2>2
<1>7. TypeOK'
  BY <1>1, <1>2, <1>5, <1>6 DEF TypeOK
<1>8. ~Past /\ ~Past'
  BY <1>2 DEF Past
<1>9. AckInv'
  BY <1>6, <1>8 DEF AckInv
<1>10. ViewInv'
  <2>1. CurSegs' = CurSegs /\ CurData' = CurData
    BY <1>6, <1>8 DEF CurSegs, CurData
  <2>2. QED
    BY <1>1, <1>2, <1>6, <2>1 DEF ViewInv
<1>11. WriterInv'
  BY <1>2, <1>6, <1>8 DEF WriterInv, PcInv
<1>12. QED
  BY <1>6, <1>7, <1>9, <1>10, <1>11 DEF IInv

LEMMA SealCreateInv == ASSUME IInv, seal_create PROVE IInv'
<1>1. /\ TypeOK /\ WriterInv /\ AckInv /\ ViewInv
      /\ files \in [Ids -> File] /\ segments \in Seq(Segment)
  BY TypeFacts DEF IInv
<1>2. /\ pc = "unnamed" /\ pc' = "created"
      /\ dir' = [dir EXCEPT !.active = next_sequence]
      /\ files' = [files EXCEPT ![next_sequence] = EmptyFile]
      /\ durDir' = durDir
      /\ segments' = segments /\ active' = active /\ active_first' = active_first
      /\ active_hash' = active_hash /\ next_sequence' = next_sequence
      /\ poisoned' = poisoned /\ batch' = batch /\ views' = views /\ published' = published
      /\ UNCHANGED history /\ acked' = acked /\ sealedDirty' = sealedDirty
  BY DEF seal_create, writer, readers, history
<1>3. /\ Past /\ Past' /\ FieldsInv /\ Moved /\ poisoned /\ BatchInv
      /\ dir.active = NoFile
  BY <1>1, <1>2 DEF Past, WriterInv, PcInv
<1>4. /\ dir.sealed = Append(segments, SealedSegment) /\ SealedSegment \in Segment
      /\ SealedSegment.first = active /\ SealedSegment.next = next_sequence
      /\ SealedNext(dir.sealed) = next_sequence
      /\ dir.sealed[Len(segments) + 1] = SealedSegment
      /\ Len(segments) + 1 \in 1..Len(dir.sealed)
  <2>1. /\ dir.sealed = Append(segments, SealedSegment) /\ SealedSegment \in Segment
        /\ SealedSegment.first = active /\ SealedSegment.next = next_sequence
    BY <1>1, <1>3, SealedSegmentFacts DEF Moved, FieldsInv
  <2>2. Len(segments) \in Nat
    BY <1>1, SegmentFacts
  <2>3. QED
    BY <1>1, <2>1, <2>2, AppendFacts
<1>5. /\ next_sequence \in Ids /\ files' \in [Ids -> File] /\ dir' \in Directory
      /\ files'[next_sequence] = EmptyFile /\ dir'.active = next_sequence
      /\ dir'.sealed = dir.sealed
      /\ \A i \in 1..Len(dir.sealed) : files'[dir.sealed[i].first] = files[dir.sealed[i].first]
      /\ FileInv' /\ DirsInv' /\ SurviveInv'
      /\ DiskFits(acked, dir, files)' /\ DiskFits(acked, durDir, files)'
  BY <1>2, <1>3, <1>4, CreateActive
<1>6. files'[active] = files[active]
  BY <1>4, <1>5
<1>7. TypeOK'
  BY <1>1, <1>2, <1>5 DEF TypeOK
<1>8. AckInv'
  BY <1>1, <1>2, <1>3, <1>5 DEF AckInv, WriterFits
<1>9. ViewInv'
  <2>1. CurSegs' = CurSegs /\ CurData' = CurData
    BY <1>2, <1>3 DEF CurSegs, CurData
  <2>2. QED
    BY <1>1, <1>2, <1>5, <2>1 DEF ViewInv
<1>10. Moved' /\ BatchInv' /\ poisoned'
  BY <1>2, <1>3, <1>5, <1>6 DEF Moved, BatchInv, SealedSegment
<1>11. FieldsInv'
  BY <1>2, <1>3, <1>6, <1>10 DEF FieldsInv
<1>12. PcInv'
  BY <1>2, <1>5, <1>10 DEF PcInv
<1>13. QED
  BY <1>5, <1>7, <1>8, <1>9, <1>11, <1>12 DEF IInv, WriterInv

LEMMA SealFinishInv == ASSUME IInv, seal_finish PROVE IInv'
<1>1. /\ TypeOK /\ WriterInv /\ AckInv /\ ViewInv /\ DirsInv
      /\ segments \in Seq(Segment) /\ dir \in Directory /\ dir.sealed \in Seq(Segment)
      /\ acked \in Seq(Segment) /\ active_hash \in Seq(Record) /\ Len(active_hash) \in Nat
      /\ MaxSeq \in Nat /\ MaxSegment \in Nat /\ Len(batch) \in Nat
      /\ next_sequence \in Nat
  BY TypeFacts DEF IInv
<1>2. /\ pc = "created" /\ pc' = "writing" /\ durDir' = dir /\ files' = files /\ dir' = dir
      /\ segments' = Append(segments, SealedSegment) /\ active' = dir.active
      /\ active_first' = next_sequence /\ active_hash' = <<>>
      /\ next_sequence' = next_sequence
      /\ poisoned' = FALSE /\ batch' = batch /\ views' = views /\ published' = published
      /\ UNCHANGED history /\ acked' = acked /\ sealedDirty' = sealedDirty
  BY DEF seal_finish, readers, history
<1>3. /\ Past /\ Past' /\ FieldsInv /\ Moved /\ BatchInv
      /\ dir.active = next_sequence /\ files[next_sequence] = EmptyFile
  BY <1>1, <1>2 DEF Past, WriterInv, PcInv
<1>4. /\ dir.sealed = Append(segments, SealedSegment) /\ SealedSegment \in Segment
      /\ SealedSegment.first = SealedNext(segments) /\ SealedSegment.next = next_sequence
      /\ SealedSegment.digest = active_hash
      /\ SealedNext(dir.sealed) = next_sequence
  BY <1>1, <1>3, SealedSegmentFacts, AppendFacts DEF Moved, FieldsInv
<1>5. /\ FileInv' /\ DirsInv' /\ SurviveInv'
      /\ DiskFits(acked, dir, files)' /\ DiskFits(acked, durDir, files)'
  BY <1>2, SyncDirectory
<1>6. TypeOK'
  <2>1. <<>> \in Seq(Record) /\ dir.active \in Ids \cup {NoFile}
    BY <1>1, EmptySeq, DirectoryFacts
  <2>2. QED
    BY <1>1, <1>2, <1>4, <2>1 DEF TypeOK
<1>7. ASSUME NEW p \in Seq(Segment), WriterFits(p)
      PROVE  Fits(p, segments', active_hash', Len(active_hash'))
  <2>1. /\ Len(active_hash) <= Len(SealedSegment.digest) /\ Len(active_hash) \in Int
        /\ \A k \in 1..Len(active_hash) : SealedSegment.digest[k] = active_hash[k]
        /\ Fits(p, segments, active_hash, Len(active_hash))
    BY <1>1, <1>4, <1>7 DEF WriterFits
  <2>2. Fits(p, Append(segments, SealedSegment), <<>>, Len(<<>>))
    BY <1>1, <1>4, <2>1, FitsSeal
  <2>3. QED
    BY <1>2, <2>2
<1>8. AckInv'
  <2>1. Fits(acked, segments', active_hash', Len(active_hash'))
    BY <1>1, <1>3, <1>7 DEF AckInv
  <2>2. QED
    BY <1>2, <1>5, <2>1 DEF AckInv, WriterFits
<1>9. ViewInv'
  <2>1. \A p \in Seq(Segment) : Current(p) => Current(p)'
    BY <1>3, <1>7 DEF Current, CurSegs, CurData, WriterFits
  <2>2. Len(dir.sealed) <= Len(dir'.sealed)
    BY <1>1, <1>2, SegmentFacts
  <2>3. QED
    BY <1>1, <1>2, <1>6, <2>1, <2>2, ViewsKept
<1>10. next_sequence \in Ids /\ files'[active'] = EmptyFile /\ active' = next_sequence
  BY <1>1, <1>2, <1>3, IdFacts DEF FieldsInv
<1>11. Home' /\ Exact'
  <2>1. dir' = [sealed |-> segments', active |-> active']
    BY <1>1, <1>2, <1>4, DirectoryFacts
  <2>2. QED
    BY <1>2, <1>10, <2>1, EmptyFileFacts DEF Home, Exact
<1>12. FieldsInv'
  <2>1. Catalog(segments') /\ SealedNext(segments') = next_sequence
    BY <1>1, <1>2, <1>4 DEF DirsInv, DirOK
  <2>2. ValidFrom(active_hash', active_first') /\ Len(active_hash') = 0
    BY <1>2 DEF ValidFrom
  <2>3. \A k \in 1..Len(active_hash') : FALSE
    BY <2>2
  <2>4. Len(active_hash') <= Len(files'[active'].data) /\ Len(active_hash') <= MaxSegment
    BY <1>1, <1>10, <2>2, EmptyFileFacts
  <2>5. next_sequence' = active_first' + Len(active_hash') /\ next_sequence' <= MaxSeq
    BY <1>1, <1>2, <1>3, <2>2 DEF FieldsInv
  <2>6. active' = active_first' /\ active_first' = SealedNext(segments')
    BY <1>2, <1>10, <2>1
  <2>7. QED
    BY <1>11, <2>1, <2>2, <2>3, <2>4, <2>5, <2>6 DEF FieldsInv
<1>13. PcInv'
  <2>1. BatchInv'
    BY <1>2, <1>3 DEF BatchInv
  <2>2. files'[active'].stable <= Len(active_hash') /\ Len(active_hash') = 0
    BY <1>2, <1>10, EmptyFileFacts
  <2>3. Len(active_hash') + Len(batch') <= MaxSegment
    BY <1>1, <1>2, <1>3, <2>2 DEF BatchInv
  <2>4. QED
    BY <1>2, <1>11, <2>1, <2>2, <2>3 DEF PcInv
<1>14. QED
  BY <1>5, <1>6, <1>8, <1>9, <1>12, <1>13 DEF IInv, WriterInv

\* The active file gets its sealed name; the directory on disk still calls it
\* active.
LEMMA SealRenameInv == ASSUME IInv, seal_rename PROVE IInv'
<1>1. /\ TypeOK /\ WriterInv /\ AckInv /\ ViewInv /\ DirsInv /\ FileInv /\ SurviveInv
      /\ segments \in Seq(Segment) /\ Len(segments) \in Nat
      /\ files \in [Ids -> File] /\ dir \in Directory /\ durDir \in Directory
      /\ dir.sealed \in Seq(Segment)
      /\ acked \in Seq(Segment) /\ active_hash \in Seq(Record) /\ Len(active_hash) \in Nat
      /\ MaxSeq \in Nat /\ next_sequence \in Nat
  BY TypeFacts DEF IInv
<1>2. /\ pc = "sealing" /\ pc' = "renamed"
      /\ dir' = [sealed |-> Append(dir.sealed, SealedSegment), active |-> NoFile]
      /\ sealedDirty' = (sealedDirty \/ files[active].stable < Len(files[active].data))
      /\ files' = files /\ durDir' = durDir
      /\ segments' = segments /\ active' = active /\ active_first' = active_first
      /\ active_hash' = active_hash /\ next_sequence' = next_sequence
      /\ poisoned' = poisoned /\ batch' = batch /\ views' = views /\ published' = published
      /\ acked' = acked
  BY DEF seal_rename, writer, readers
<1>3. /\ Past /\ Past' /\ FieldsInv /\ Home /\ Exact /\ BatchInv /\ poisoned
      /\ active_hash # <<>>
  BY <1>1, <1>2 DEF Past, WriterInv, PcInv
<1>4. /\ dir.sealed = segments /\ dir.active = active /\ durDir = dir
      /\ files[active].data = active_hash /\ ~files[active].torn
  BY <1>3 DEF Home, Exact
<1>5. active \in Nat /\ active \in Ids /\ active # NoFile
      /\ files[active].stable \in Nat /\ files[active].stable <= Len(active_hash)
  <2>1. active \in Ids
    BY <1>1, <1>3, IdFacts, TypeFacts DEF FieldsInv
  <2>2. QED
    BY <1>1, <1>4, <2>1, IdFacts, TypeFacts DEF FileInv
<1>6. /\ SealedSegment \in Segment /\ SealedSegment.first = SealedNext(segments)
      /\ SealedSegment.first = active
      /\ SealedSegment.next = next_sequence /\ SealedSegment.digest = active_hash
      /\ SealedSegment.next = SealedSegment.first + Len(SealedSegment.digest)
  BY <1>1, <1>3, SealedSegmentFacts DEF FieldsInv
<1> DEFINE t == Append(segments, SealedSegment)
<1>7. /\ t \in Seq(Segment) /\ Len(t) = Len(segments) + 1
      /\ \A i \in 1..Len(segments) : t[i] = segments[i]
      /\ t[Len(segments) + 1] = SealedSegment
      /\ SealedNext(t) = next_sequence
  BY <1>1, <1>6, AppendFacts
<1>8. Catalog(t)
  BY <1>1, <1>3, <1>6, CatalogAppend DEF FieldsInv
<1>9. dir'.sealed = t /\ dir'.active = NoFile
  BY <1>2, <1>4
<1> HIDE DEF t
<1>10. TypeOK'
  <2>1. dir' \in Directory
    BY <1>2, <1>4, <1>7 DEF Directory, t
  <2>2. sealedDirty' \in BOOLEAN
    BY <1>1, <1>2 DEF TypeOK
  <2>3. QED
    BY <1>1, <1>2, <2>1, <2>2 DEF TypeOK
<1>11. FileInv'
  BY <1>1, <1>2 DEF FileInv
<1>12. DirsInv'
  <2>1. DirOK(dir', files')
    BY <1>3, <1>7, <1>8, <1>9 DEF DirOK, FieldsInv
  <2>2. DirOK(durDir', files')
    BY <1>1, <1>2 DEF DirsInv
  <2>3. Ahead(dir', durDir', files')
    <3>1. Len(dir'.sealed) = Len(durDir'.sealed) + 1
      BY <1>2, <1>4, <1>7, <1>9
    <3>2. \A i \in 1..Len(durDir'.sealed) : durDir'.sealed[i] = dir'.sealed[i]
      BY <1>2, <1>4, <1>7, <1>9
    <3>3. durDir'.active = dir'.sealed[Len(dir'.sealed)].first
      BY <1>2, <1>4, <1>6, <1>7, <1>9
    <3>4. QED
      BY <3>1, <3>2, <3>3, <1>9 DEF Ahead
  <2>4. QED
    BY <2>1, <2>2, <2>3 DEF DirsInv
<1>13. SurviveInv'
  <2>1. SUFFICES ASSUME ~sealedDirty'
                 PROVE  Whole(dir', files') /\ Whole(durDir', files')
    BY DEF SurviveInv
  <2>2. ~sealedDirty /\ ~(files[active].stable < Len(active_hash))
    BY <1>2, <1>4, <2>1
  <2>3. Whole(dir, files) /\ Whole(durDir, files)
    BY <1>1, <2>2 DEF SurviveInv
  <2>4. files[active].stable = Len(active_hash)
    BY <1>1, <1>5, <2>2
  <2>5. ASSUME NEW i \in 1..Len(t)
        PROVE  /\ files[t[i].first].data = t[i].digest
               /\ files[t[i].first].stable = Len(t[i].digest)
               /\ ~files[t[i].first].torn
    <3>1. CASE i \in 1..Len(segments)
      BY <3>1, <1>4, <1>7, <2>3 DEF Whole
    <3>2. CASE i = Len(segments) + 1
      BY <3>2, <1>4, <1>6, <1>7, <2>4
    <3>3. QED
      BY <3>1, <3>2, <1>1, <1>7
  <2>6. Whole(dir', files')
    BY <1>2, <1>9, <2>5 DEF Whole
  <2>7. QED
    BY <1>2, <2>3, <2>6
<1>14. AckInv'
  <2>1. DiskFits(acked, dir, files) /\ DiskFits(acked, durDir, files) /\ WriterFits(acked)
    BY <1>1, <1>3 DEF AckInv
  <2>2. Fits(acked, segments, active_hash, files[active].stable)
    BY <1>4, <1>5, <2>1 DEF DiskFits, Data, Stable
  <2>3. /\ files[active].stable <= Len(SealedSegment.digest)
        /\ \A k \in 1..files[active].stable : SealedSegment.digest[k] = active_hash[k]
    BY <1>5, <1>6
  <2>4. Fits(acked, t, Data(dir', files'), Stable(dir', files'))
    <3> DEFINE n == files[active].stable
    <3>1. n \in Int
      BY <1>5
    <3> HIDE DEF n
    <3>2. QED
      BY <1>1, <1>6, <2>2, <2>3, <3>1, FitsSeal DEF t, n
  <2>5. DiskFits(acked', dir', files')
    BY <1>2, <1>9, <2>4 DEF DiskFits
  <2>6. DiskFits(acked', durDir', files')
    BY <1>2, <2>1
  <2>7. WriterFits(acked)'
    BY <1>2, <2>1 DEF WriterFits
  <2>8. QED
    BY <2>5, <2>6, <2>7 DEF AckInv
<1>15. ViewInv'
  <2>1. CurSegs' = CurSegs /\ CurData' = CurData
    BY <1>2, <1>3 DEF CurSegs, CurData
  <2>2. \A p \in Seq(Segment) : Current(p) => Current(p)'
    BY <2>1 DEF Current
  <2>3. /\ Len(dir.sealed) <= Len(dir'.sealed)
        /\ \A i \in 1..Len(dir.sealed) : dir'.sealed[i] = dir.sealed[i]
    BY <1>1, <1>4, <1>7, <1>9
  <2>4. QED
    BY <1>1, <1>2, <1>10, <2>2, <2>3, ViewsKept
<1>16. Moved' /\ poisoned' /\ BatchInv'
  <2>1. SealedSegment' = SealedSegment
    BY <1>2 DEF SealedSegment
  <2>2. QED
    BY <1>2, <1>3, <1>4, <1>9, <2>1 DEF Moved, BatchInv, t
<1>17. FieldsInv'
  BY <1>2, <1>3, <1>16 DEF FieldsInv
<1>18. PcInv'
  BY <1>2, <1>9, <1>16 DEF PcInv
<1>19. QED
  BY <1>10, <1>11, <1>12, <1>13, <1>14, <1>15, <1>17, <1>18 DEF IInv, WriterInv

---------------------------------------------------------------------------
(* Steps that write the active file. *)

\* fsync and set_len, as far as they leave what was on disk.
LEMMA SyncFacts ==
    ASSUME NEW F \in File
    PROVE  /\ Synced(F) \in File /\ Synced(F).data = F.data
           /\ Synced(F).torn = F.torn /\ Synced(F).stable = Len(F.data)
BY FileFacts DEF Synced, File

LEMMA TruncateFacts ==
    ASSUME NEW F \in File, NEW n \in 0..Len(F.data), F.stable <= n
    PROVE  LET T == Truncated(F, n)
           IN  /\ T \in File /\ Len(T.data) = n /\ ~T.torn /\ T.stable = F.stable
               /\ \A k \in 1..n : T.data[k] = F.data[k]
               /\ n = Len(F.data) => T.data = F.data
<1> DEFINE d == SubSeq(F.data, 1, n)
<1>1. F.data \in Seq(Record) /\ Len(F.data) \in Nat /\ F.stable \in Nat /\ n \in Nat
  BY FileFacts
<1>2. \A k \in 1..n : F.data[k] \in Record
  BY <1>1, FileFacts
<1>3. /\ d \in Seq(Record)
      /\ Len(d) = IF 1 <= n THEN n - 1 + 1 ELSE 0
      /\ \A k \in 1..(n - 1 + 1) : d[k] = F.data[1 + k - 1]
  BY <1>1, <1>2, SubSeqProperties
<1>4. Len(d) = n /\ \A k \in 1..n : d[k] = F.data[k]
  BY <1>1, <1>3
<1>5. n = Len(F.data) => d = F.data
  BY <1>1, SubSeqFull
<1> HIDE DEF d
<1>6. Truncated(F, n) = [data |-> d, torn |-> FALSE, stable |-> F.stable]
  <2>1. (IF F.stable < n THEN F.stable ELSE n) = F.stable
    BY <1>1
  <2>2. QED
    BY <2>1 DEF Truncated, d
<1>7. QED
  BY <1>1, <1>3, <1>4, <1>5, <1>6 DEF File

\* Records that go on where a file ends.
LEMMA ValidConcat ==
    ASSUME NEW a \in Seq(Record), NEW b \in Seq(Record), NEW first \in Nat,
           ValidFrom(a, first), ValidFrom(b, first + Len(a)), NEW w \in 0..Len(b)
    PROVE  LET c == a \o SubSeq(b, 1, w)
           IN  /\ c \in Seq(Record) /\ Len(c) = Len(a) + w
               /\ ValidFrom(c, first)
               /\ \A k \in 1..Len(a) : c[k] = a[k]
               /\ w = Len(b) => c = a \o b
<1> DEFINE d == SubSeq(b, 1, w)
           c == a \o d
<1>1. Len(a) \in Nat /\ Len(b) \in Nat /\ w \in Nat /\ \A k \in 1..Len(b) : b[k] \in Record
  BY LenProperties, ElementOfSeq
<1>2. /\ d \in Seq(Record)
      /\ Len(d) = IF 1 <= w THEN w - 1 + 1 ELSE 0
      /\ \A k \in 1..(w - 1 + 1) : d[k] = b[1 + k - 1]
  <2>1. \A k \in 1..w : b[k] \in Record
    BY <1>1
  <2>2. QED
    BY <1>1, <2>1, SubSeqProperties
<1>3. Len(d) = w /\ \A k \in 1..w : d[k] = b[k]
  BY <1>1, <1>2
<1>4. w = Len(b) => d = b
  BY <1>1, SubSeqFull
<1> HIDE DEF d
<1>5. /\ c \in Seq(Record) /\ Len(c) = Len(a) + w
      /\ \A k \in 1..(Len(a) + w) : c[k] = IF k <= Len(a) THEN a[k] ELSE d[k - Len(a)]
  BY <1>2, <1>3, ConcatProperties
<1> HIDE DEF c
<1>6. \A k \in 1..Len(a) : c[k] = a[k]
  BY <1>1, <1>5
<1>7. ValidFrom(c, first)
  <2>1. ASSUME NEW k \in 1..Len(c) PROVE c[k].seq = first + k - 1
    <3>1. CASE k \in 1..Len(a)
      BY <3>1, <1>6 DEF ValidFrom
    <3>2. CASE k \notin 1..Len(a)
      <4>1. k - Len(a) \in 1..w /\ k - Len(a) \in 1..Len(b) /\ ~(k <= Len(a))
            /\ k \in 1..(Len(a) + w)
        BY <3>2, <1>1, <1>5
      <4>2. c[k] = b[k - Len(a)]
        BY <4>1, <1>3, <1>5
      <4>3. b[k - Len(a)].seq = (first + Len(a)) + (k - Len(a)) - 1
        BY <4>1 DEF ValidFrom
      <4>4. QED
        BY <4>2, <4>3, <1>1, <1>5
    <3>3. QED
      BY <3>1, <3>2
  <2>2. QED
    BY <2>1 DEF ValidFrom
<1>8. QED
  BY <1>4, <1>5, <1>6, <1>7 DEF c, d

\* The active file of a synchronized directory is written and keeps what was
\* on disk of it.
LEMMA ActiveStep ==
    ASSUME IInv, dir.active # NoFile, durDir = dir, dir' = dir, durDir' = dir,
           UNCHANGED history, NEW F \in File,
           files' = [files EXCEPT ![dir.active] = F],
           F.stable <= Len(F.data), ValidFrom(F.data, dir.active),
           Len(F.data) <= MaxSegment, dir.active + Len(F.data) <= MaxSeq,
           files[dir.active].stable <= F.stable,
           \A k \in 1..files[dir.active].stable : F.data[k] = files[dir.active].data[k]
    PROVE  /\ files' \in [Ids -> File] /\ files'[dir.active] = F
           /\ FileInv' /\ DirsInv' /\ SurviveInv'
           /\ DiskFits(acked, dir, files)' /\ DiskFits(acked, durDir, files)'
<1>1. /\ TypeOK /\ FileInv /\ DirsInv /\ SurviveInv /\ AckInv
      /\ files \in [Ids -> File] /\ dir \in Directory
      /\ acked \in Seq(Segment)
  BY TypeFacts DEF IInv
<1>2. acked' = acked /\ sealedDirty' = sealedDirty
  BY DEF history
<1>3. DirOK(dir, files) /\ dir.active \in Ids
  BY <1>1, DirectoryFacts DEF DirsInv
<1>4. /\ files' \in [Ids -> File] /\ files'[dir.active] = F
      /\ DirOK(dir, files') /\ (Whole(dir, files) => Whole(dir, files'))
      /\ Data(dir, files') = F.data /\ Stable(dir, files') = F.stable
  BY <1>1, <1>3, ActiveWrite, ZenonT(60)
<1>5. FileInv'
  <2>1. \A f \in Ids : files'[f] = IF f = dir.active THEN F ELSE files[f]
    BY <1>1
  <2>2. QED
    BY <1>1, <2>1 DEF FileInv
<1>6. DirsInv'
  BY <1>4 DEF DirsInv, Ahead
<1>7. SurviveInv'
  BY <1>1, <1>2, <1>4 DEF SurviveInv
<1>8. DiskFits(acked, dir, files')
  <2>1. Fits(acked, dir.sealed, files[dir.active].data, files[dir.active].stable)
    BY <1>1 DEF AckInv, DiskFits, Data, Stable
  <2>2. files[dir.active].stable \in Int /\ F.stable \in Int
    BY <1>1, <1>3, FileFacts
  <2>3. Fits(acked, dir.sealed, F.data, F.stable)
    BY <1>1, <2>1, <2>2, FitsGrow
  <2>4. QED
    BY <1>4, <2>3 DEF DiskFits
<1>9. DiskFits(acked', dir', files') /\ DiskFits(acked', durDir', files')
  BY <1>2, <1>8
<1>10. QED
  BY <1>4, <1>5, <1>6, <1>7, <1>9

\* The writer's fields stay, and the file still begins with its hash.
LEMMA ActiveKept ==
    ASSUME IInv, Past, Past', Home, dir' = dir, durDir' = durDir,
           UNCHANGED <<writer, readers, history>>,
           poisoned' \in BOOLEAN, batch' \in Seq(Record),
           NEW F \in File, files' = [files EXCEPT ![active] = F],
           F.stable <= Len(F.data), ValidFrom(F.data, active),
           Len(F.data) <= MaxSegment, active + Len(F.data) <= MaxSeq,
           files[active].stable <= F.stable, files[active].stable <= Len(active_hash),
           Len(active_hash) <= Len(F.data),
           \A k \in 1..Len(active_hash) : F.data[k] = active_hash[k],
           pc' \in {"ready", "syncing", "rollback"}
    PROVE  /\ TypeOK' /\ FileInv' /\ DirsInv' /\ SurviveInv' /\ AckInv' /\ ViewInv' /\ FieldsInv'
           /\ Home' /\ files'[active'] = F
<1>1. /\ TypeOK /\ WriterInv /\ AckInv /\ ViewInv /\ FieldsInv
      /\ Len(active_hash) \in Nat
  BY TypeFacts DEF IInv, WriterInv
<1>2. /\ segments' = segments /\ active' = active /\ active_first' = active_first
      /\ active_hash' = active_hash /\ next_sequence' = next_sequence
      /\ views' = views /\ published' = published /\ UNCHANGED history
      /\ acked' = acked /\ sealedDirty' = sealedDirty
  BY DEF writer, readers, history
<1>3. dir.sealed = segments /\ dir.active = active /\ durDir = dir
  BY DEF Home
<1>4. active # NoFile /\ active \in Ids
  BY <1>1, IdFacts, TypeFacts DEF FieldsInv
<1>5. \A k \in 1..files[dir.active].stable : F.data[k] = files[dir.active].data[k]
  <2>1. files[active].stable \in Nat
    BY <1>1, <1>4, TypeFacts
  <2>2. \A k \in 1..files[active].stable : k \in 1..Len(active_hash)
    BY <1>1, <2>1
  <2>3. QED
    BY <1>1, <1>3, <2>2 DEF FieldsInv
<1>6. /\ files' \in [Ids -> File] /\ files'[dir.active] = F
      /\ FileInv' /\ DirsInv' /\ SurviveInv'
      /\ DiskFits(acked, dir, files)' /\ DiskFits(acked, durDir, files)'
  BY <1>2, <1>3, <1>4, <1>5, ActiveStep
<1>7. TypeOK'
  BY <1>1, <1>2, <1>6 DEF TypeOK
<1>8. AckInv'
  BY <1>1, <1>2, <1>6 DEF AckInv, WriterFits
<1>9. ViewInv'
  <2>1. CurSegs' = CurSegs /\ CurData' = CurData
    BY <1>2 DEF CurSegs, CurData
  <2>2. QED
    BY <1>1, <1>2, <2>1 DEF ViewInv
<1>10. Home'
  BY <1>2 DEF Home
<1>11. files'[active'] = F
  BY <1>2, <1>3, <1>6
<1>12. FieldsInv'
  BY <1>1, <1>2, <1>10, <1>11 DEF FieldsInv
<1>13. QED
  BY <1>6, <1>7, <1>8, <1>9, <1>10, <1>11, <1>12

LEMMA WriteEventBytesInv ==
    ASSUME IInv, NEW written \in 0..MaxSegment, NEW torn \in BOOLEAN,
           write_event_bytes(written, torn)
    PROVE  IInv'
<1> DEFINE old == files[active]
           F == [data |-> old.data \o SubSeq(batch, 1, written), torn |-> torn,
                 stable |-> old.stable]
<1>1. /\ TypeOK /\ WriterInv /\ FileInv /\ files \in [Ids -> File]
      /\ active_hash \in Seq(Record) /\ Len(active_hash) \in Nat
      /\ batch \in Seq(Record) /\ Len(batch) \in Nat /\ poisoned \in BOOLEAN
      /\ next_sequence \in Nat /\ MaxSeq \in Nat /\ MaxSegment \in Nat
  BY TypeFacts DEF IInv, TypeOK
<1>2. /\ pc = "writing" /\ written <= Len(batch) /\ (torn => written < Len(batch))
      /\ files' = [files EXCEPT ![active].data = @ \o SubSeq(batch, 1, written),
                                ![active].torn = torn]
      /\ pc' = (IF written = Len(batch) THEN "syncing" ELSE "rollback")
      /\ dir' = dir /\ durDir' = durDir /\ poisoned' = poisoned /\ batch' = batch
      /\ UNCHANGED <<writer, readers, history>>
  BY DEF write_event_bytes
<1>3. /\ Past /\ Past' /\ FieldsInv /\ Home /\ BatchInv /\ Exact
      /\ old.stable <= Len(active_hash) /\ Len(active_hash) + Len(batch) <= MaxSegment
  BY <1>1, <1>2 DEF Past, WriterInv, PcInv
<1>4. active \in Ids /\ active \in Nat /\ active = active_first
  BY <1>1, <1>3, IdFacts, TypeFacts DEF FieldsInv
<1>5. old \in File /\ old.stable \in Nat /\ old.data = active_hash
  BY <1>1, <1>3, <1>4, FileFacts DEF Exact
<1>6. written \in 0..Len(batch) /\ next_sequence = active + Len(active_hash)
  BY <1>1, <1>2, <1>3, <1>4 DEF FieldsInv
<1>7. /\ F.data \in Seq(Record) /\ Len(F.data) = Len(active_hash) + written
      /\ ValidFrom(F.data, active)
      /\ \A k \in 1..Len(active_hash) : F.data[k] = active_hash[k]
      /\ written = Len(batch) => F.data = active_hash \o batch
  <2>1. ValidFrom(active_hash, active) /\ ValidFrom(batch, active + Len(active_hash))
    BY <1>3, <1>4, <1>6 DEF FieldsInv, BatchInv
  <2>2. F.data = active_hash \o SubSeq(batch, 1, written)
    BY <1>5
  <2> DEFINE c == active_hash \o SubSeq(batch, 1, written)
  <2>3. /\ c \in Seq(Record) /\ Len(c) = Len(active_hash) + written
        /\ ValidFrom(c, active)
        /\ \A k \in 1..Len(active_hash) : c[k] = active_hash[k]
        /\ written = Len(batch) => c = active_hash \o batch
    BY <1>1, <1>4, <1>6, <2>1, ValidConcat
  <2> HIDE DEF c, F
  <2>4. F.data = c
    BY <2>2 DEF c
  <2>5. QED
    BY <2>3, <2>4
<1>8. F \in File /\ F.torn = torn /\ F.stable = old.stable
  BY <1>5, <1>7 DEF File
<1>9. files' = [files EXCEPT ![active] = F]
  <2>1. old = [data |-> old.data, torn |-> old.torn, stable |-> old.stable]
    BY <1>5 DEF File
  <2>2. [[old EXCEPT !.data = old.data \o SubSeq(batch, 1, written)] EXCEPT !.torn = torn] = F
    <3> DEFINE c == old.data \o SubSeq(batch, 1, written)
               G == [old EXCEPT !.data = c]
               H == [G EXCEPT !.torn = torn]
    <3>1. c \in Seq(Record) /\ F = [data |-> c, torn |-> torn, stable |-> old.stable]
      BY <1>7
    <3> HIDE DEF old, c, F
    <3>2. G \in File /\ G.data = c /\ G.stable = old.stable
      BY <1>5, <3>1 DEF File
    <3> HIDE DEF G
    <3>3. H \in File /\ H.data = c /\ H.torn = torn /\ H.stable = old.stable
      BY <3>2 DEF File
    <3> HIDE DEF H
    <3>4. H = F
      BY <3>1, <3>3 DEF File
    <3>5. QED
      BY <3>4 DEF H, G, c
  <2>3. files' = [files EXCEPT ![active] =
                     [[old EXCEPT !.data = old.data \o SubSeq(batch, 1, written)]
                         EXCEPT !.torn = torn]]
    BY <1>1, <1>2, <1>4
  <2>4. QED
    BY <2>2, <2>3, Zenon
<1> HIDE DEF F, old
<1>10. /\ F.stable <= Len(F.data) /\ Len(F.data) <= MaxSegment
       /\ active + Len(F.data) <= MaxSeq /\ Len(active_hash) <= Len(F.data)
  <2>1. /\ written <= Len(batch) /\ written \in Nat
        /\ (active + Len(active_hash)) + Len(batch) <= MaxSeq
    BY <1>1, <1>3, <1>6 DEF BatchInv
  <2>2. \A a, h, b, w, m, s, x \in Nat :
           /\ x <= h /\ h + b <= m /\ w <= b /\ (a + h) + b <= s
           => x <= h + w /\ h + w <= m /\ a + (h + w) <= s /\ h <= h + w
    OBVIOUS
  <2>3. /\ old.stable <= Len(active_hash) + written
        /\ Len(active_hash) + written <= MaxSegment
        /\ active + (Len(active_hash) + written) <= MaxSeq
        /\ Len(active_hash) <= Len(active_hash) + written
    <3> DEFINE h == Len(active_hash)
               b == Len(batch)
               x == old.stable
    <3>1. /\ h \in Nat /\ b \in Nat /\ x \in Nat /\ x <= h /\ h + b <= MaxSegment
          /\ written <= b /\ (active + h) + b <= MaxSeq
      BY <1>1, <1>3, <1>5, <2>1
    <3>2. active \in Nat /\ MaxSegment \in Nat /\ MaxSeq \in Nat /\ written \in Nat
      BY <1>1, <1>4, <2>1
    <3> HIDE DEF h, b, x
    <3>3. x <= h + written /\ h + written <= MaxSegment /\ active + (h + written) <= MaxSeq
          /\ h <= h + written
      BY <2>2, <3>1, <3>2
    <3>4. QED
      BY <3>3 DEF h, b, x
  <2>4. QED
    BY <1>7, <1>8, <2>3, Zenon
<1>11. pc' \in {"ready", "syncing", "rollback"} /\ old.stable <= F.stable
  BY <1>2, <1>5, <1>8
<1>12. /\ TypeOK' /\ FileInv' /\ DirsInv' /\ SurviveInv' /\ AckInv' /\ ViewInv' /\ FieldsInv'
       /\ Home' /\ files'[active'] = F
  BY <1>1, <1>2, <1>3, <1>7, <1>8, <1>9, <1>10, <1>11, ActiveKept DEF old
<1>13. active_hash' = active_hash /\ next_sequence' = next_sequence
  BY <1>2 DEF writer
<1>14. BatchInv'
  BY <1>2, <1>3, <1>13 DEF BatchInv
<1>15. PcInv'
  <2>1. files'[active'].stable <= Len(active_hash')
        /\ Len(active_hash') + Len(batch') <= MaxSegment
    BY <1>2, <1>3, <1>8, <1>12, <1>13
  <2>2. CASE pc' = "syncing"
    <3>1. written = Len(batch) /\ torn = FALSE
      BY <1>1, <1>2, <2>2
    <3>2. files'[active'].data = active_hash' \o batch' /\ ~files'[active'].torn
      BY <1>2, <1>7, <1>8, <1>12, <1>13, <3>1
    <3>3. QED
      BY <1>12, <1>14, <2>1, <2>2, <3>2 DEF PcInv
  <2>3. CASE pc' = "rollback"
    BY <1>12, <1>14, <2>1, <2>3 DEF PcInv
  <2>4. QED
    BY <1>2, <2>2, <2>3
<1>16. QED
  BY <1>12, <1>15 DEF IInv, WriterInv

LEMMA SyncEventFileInv == ASSUME IInv, sync_event_file PROVE IInv'
<1> DEFINE old == files[active]
<1>1. /\ TypeOK /\ WriterInv /\ FileInv /\ AckInv /\ ViewInv /\ DirsInv
      /\ files \in [Ids -> File] /\ segments \in Seq(Segment) /\ acked \in Seq(Segment)
      /\ active_hash \in Seq(Record) /\ Len(active_hash) \in Nat
      /\ batch \in Seq(Record) /\ Len(batch) \in Nat
      /\ next_sequence \in Nat /\ MaxSeq \in Nat /\ MaxSegment \in Nat
      /\ dir.sealed \in Seq(Segment)
  BY TypeFacts DEF IInv, TypeOK
<1>2. /\ pc = "syncing" /\ pc' = "settling"
      /\ files' = [files EXCEPT ![active] = Synced(old)]
      /\ active_hash' = active_hash \o batch
      /\ next_sequence' = next_sequence + Len(batch) /\ poisoned' = TRUE
      /\ dir' = dir /\ durDir' = durDir /\ segments' = segments /\ active' = active
      /\ active_first' = active_first /\ batch' = batch
      /\ views' = views /\ published' = published
      /\ UNCHANGED history /\ acked' = acked /\ sealedDirty' = sealedDirty
  BY DEF sync_event_file, readers, history
<1>3. /\ Past /\ Past' /\ FieldsInv /\ Home /\ BatchInv
      /\ old.data = active_hash \o batch /\ ~old.torn
      /\ old.stable <= Len(active_hash) /\ Len(active_hash) + Len(batch) <= MaxSegment
  BY <1>1, <1>2 DEF Past, WriterInv, PcInv
<1>4. active \in Ids /\ active \in Nat /\ active = active_first /\ active # NoFile
  BY <1>1, <1>3, IdFacts, TypeFacts DEF FieldsInv
<1>5. dir.sealed = segments /\ dir.active = active /\ durDir = dir
  BY <1>3 DEF Home
<1>6. /\ active_hash' \in Seq(Record) /\ Len(active_hash') = Len(active_hash) + Len(batch)
      /\ \A k \in 1..Len(active_hash) : active_hash'[k] = active_hash[k]
  <2>1. /\ active_hash \o batch \in Seq(Record)
        /\ Len(active_hash \o batch) = Len(active_hash) + Len(batch)
        /\ \A k \in 1..(Len(active_hash) + Len(batch)) : (active_hash \o batch)[k] =
              IF k <= Len(active_hash) THEN active_hash[k] ELSE batch[k - Len(active_hash)]
    BY <1>1, ConcatProperties
  <2>2. \A k \in 1..Len(active_hash) : k \in 1..(Len(active_hash) + Len(batch)) /\ k <= Len(active_hash)
    BY <1>1
  <2>3. QED
    BY <1>2, <2>1, <2>2
<1>7. old \in File /\ old.stable \in Nat /\ old.data = active_hash'
  BY <1>1, <1>2, <1>3, <1>4, FileFacts
<1>8. /\ Synced(old) \in File /\ Synced(old).data = active_hash' /\ ~Synced(old).torn
      /\ Synced(old).stable = Len(active_hash')
  BY <1>3, <1>7, SyncFacts
<1>9. ValidFrom(active_hash', active)
      /\ Len(active_hash') <= MaxSegment /\ active + Len(active_hash') <= MaxSeq
      /\ next_sequence' = active + Len(active_hash')
  <2>1. DirOK(dir, files)
    BY <1>1 DEF DirsInv
  <2>2. ValidFrom(old.data, active) /\ Len(old.data) <= MaxSegment
        /\ active + Len(old.data) <= MaxSeq
    BY <1>4, <1>5, <2>1 DEF DirOK
  <2>3. next_sequence = active + Len(active_hash)
    BY <1>3, <1>4 DEF FieldsInv
  <2>4. QED
    BY <1>1, <1>2, <1>4, <1>6, <1>7, <2>2, <2>3
<1>10. /\ files' \in [Ids -> File] /\ files'[dir.active] = Synced(old)
       /\ FileInv' /\ DirsInv' /\ SurviveInv'
       /\ DiskFits(acked, dir, files)' /\ DiskFits(acked, durDir, files)'
  <2>1. /\ Synced(old).stable <= Len(Synced(old).data)
        /\ old.stable <= Synced(old).stable
    BY <1>1, <1>3, <1>6, <1>7, <1>8
  <2>2. \A k \in 1..old.stable : Synced(old).data[k] = old.data[k]
    BY <1>7, <1>8
  <2> HIDE DEF old
  <2>3. files' = [files EXCEPT ![dir.active] = Synced(old)]
        /\ files[dir.active].stable = old.stable /\ files[dir.active].data = old.data
        /\ dir.active # NoFile
    BY <1>2, <1>4, <1>5 DEF old
  <2>4. ValidFrom(Synced(old).data, dir.active) /\ Len(Synced(old).data) <= MaxSegment
        /\ dir.active + Len(Synced(old).data) <= MaxSeq
    BY <1>5, <1>8, <1>9
  <2>5. QED
    BY <1>2, <1>5, <1>8, <2>1, <2>2, <2>3, <2>4, ActiveStep
<1>11. TypeOK'
  BY <1>1, <1>2, <1>6, <1>10 DEF TypeOK
<1>12. ASSUME NEW p \in Seq(Segment), WriterFits(p)
       PROVE  Fits(p, segments', active_hash', Len(active_hash'))
  <2>1. Len(active_hash) <= Len(active_hash') /\ Len(active_hash') \in Nat
    BY <1>1, <1>6
  <2>2. Fits(p, segments, active_hash', Len(active_hash'))
    BY <1>1, <1>6, <1>12, <2>1, FitsGrow DEF WriterFits
  <2>3. QED
    BY <1>2, <2>2
<1>13. AckInv'
  <2>1. Fits(acked, segments', active_hash', Len(active_hash'))
    BY <1>1, <1>3, <1>12 DEF AckInv
  <2>2. QED
    BY <1>2, <1>10, <2>1 DEF AckInv, WriterFits
<1>14. ViewInv'
  <2>1. \A p \in Seq(Segment) : Current(p) => Current(p)'
    BY <1>3, <1>12 DEF Current, CurSegs, CurData, WriterFits
  <2>2. Len(dir.sealed) <= Len(dir'.sealed)
    BY <1>1, <1>2, SegmentFacts
  <2>3. QED
    BY <1>1, <1>2, <1>11, <2>1, <2>2, ViewsKept
<1>15. Home' /\ files'[active'].data = active_hash' /\ ~files'[active'].torn
       /\ files'[active'].stable = Len(active_hash')
  BY <1>2, <1>3, <1>5, <1>8, <1>10 DEF Home
<1>16. FieldsInv'
  <2>1. /\ Len(active_hash') <= Len(files'[active'].data)
        /\ \A k \in 1..Len(active_hash') : files'[active'].data[k] = active_hash'[k]
    BY <1>1, <1>6, <1>15
  <2>2. Catalog(segments') /\ active_first' = SealedNext(segments') /\ active' = active_first'
    BY <1>2, <1>3 DEF FieldsInv
  <2>3. ValidFrom(active_hash', active_first') /\ next_sequence' = active_first' + Len(active_hash')
        /\ next_sequence' <= MaxSeq
    BY <1>2, <1>4, <1>9
  <2>4. QED
    BY <1>9, <1>15, <2>1, <2>2, <2>3 DEF FieldsInv
<1>17. PcInv'
  <2>1. active_hash' # <<>>
    <3>1. Len(batch) > 0
      BY <1>1, <1>3, EmptySeq DEF BatchInv
    <3>2. Len(active_hash') # 0
      BY <1>1, <1>6, <3>1
    <3>3. QED
      BY <3>2
  <2>2. QED
    BY <1>2, <1>15, <2>1 DEF PcInv, Exact
<1>18. QED
  BY <1>10, <1>11, <1>13, <1>14, <1>16, <1>17 DEF IInv, WriterInv

\* What a rollback finds and what it leaves.
LEMMA RollbackFacts ==
    ASSUME IInv, pc = "rollback"
    PROVE  /\ Past /\ FieldsInv /\ Home
           /\ active \in Ids /\ active \in Nat
           /\ files[active] \in File /\ files[active].stable <= Len(active_hash)
           /\ LET T == Truncated(files[active], Len(active_hash))
              IN  /\ T \in File /\ Len(T.data) = Len(active_hash) /\ ~T.torn
                  /\ T.stable = files[active].stable
                  /\ \A k \in 1..Len(active_hash) : T.data[k] = active_hash[k]
                  /\ T.data = active_hash
<1>1. /\ TypeOK /\ WriterInv /\ files \in [Ids -> File] /\ Len(active_hash) \in Nat
      /\ active_hash \in Seq(Record)
  BY TypeFacts DEF IInv
<1>2. Past /\ FieldsInv /\ Home /\ files[active].stable <= Len(active_hash)
  BY <1>1 DEF Past, WriterInv, PcInv
<1>3. active \in Ids /\ active \in Nat
  BY <1>1, <1>2, IdFacts, TypeFacts DEF FieldsInv
<1>4. files[active] \in File /\ Len(files[active].data) \in Nat
  BY <1>1, <1>3, FileFacts
<1>5. Len(active_hash) \in 0..Len(files[active].data)
  BY <1>1, <1>2, <1>4 DEF FieldsInv
<1> DEFINE T == Truncated(files[active], Len(active_hash))
<1>6. /\ T \in File /\ Len(T.data) = Len(active_hash) /\ ~T.torn
      /\ T.stable = files[active].stable
      /\ \A k \in 1..Len(active_hash) : T.data[k] = files[active].data[k]
  BY <1>2, <1>4, <1>5, TruncateFacts
<1>7. \A k \in 1..Len(active_hash) : T.data[k] = active_hash[k]
  BY <1>2, <1>6 DEF FieldsInv
<1> HIDE DEF T
<1>8. T.data = active_hash
  <2>1. T.data \in Seq(Record)
    BY <1>6, FileFacts
  <2>2. QED
    BY <1>1, <1>6, <1>7, <2>1, SeqEqual
<1>9. QED
  BY <1>2, <1>3, <1>4, <1>6, <1>7, <1>8 DEF T

\* The active file is cut back to the writer's hash.
LEMMA CutBack ==
    ASSUME IInv, pc = "rollback", pc' = "ready", poisoned' \in BOOLEAN, batch' = <<>>,
           dir' = dir, durDir' = durDir, UNCHANGED <<writer, readers, history>>,
           NEW F \in File, files' = [files EXCEPT ![active] = F],
           F.data = active_hash, ~F.torn, F.stable <= Len(active_hash),
           files[active].stable <= F.stable
    PROVE  IInv'
<1>1. /\ Past /\ FieldsInv /\ Home /\ active \in Nat
      /\ files[active].stable <= Len(active_hash) /\ active = active_first
  BY RollbackFacts DEF FieldsInv
<1>2. /\ ValidFrom(F.data, active) /\ Len(F.data) <= MaxSegment
      /\ active + Len(F.data) <= MaxSeq
  BY <1>1 DEF FieldsInv
<1>3. Past' /\ batch' \in Seq(Record) /\ Len(active_hash) \in Nat
  BY EmptySeq, TypeFacts DEF Past, IInv
<1>4. /\ Len(active_hash) <= Len(F.data)
      /\ \A k \in 1..Len(active_hash) : F.data[k] = active_hash[k]
      /\ F.stable <= Len(F.data) /\ pc' \in {"ready", "syncing", "rollback"}
  BY <1>3
<1>5. /\ TypeOK' /\ FileInv' /\ DirsInv' /\ SurviveInv' /\ AckInv' /\ ViewInv' /\ FieldsInv'
      /\ Home' /\ files'[active'] = F
  BY <1>1, <1>2, <1>3, <1>4, ActiveKept
<1>6. active_hash' = active_hash
  BY DEF writer
<1>7. PcInv'
  BY <1>5, <1>6 DEF PcInv, Exact
<1>8. QED
  BY <1>5, <1>7 DEF IInv, WriterInv

LEMMA RollbackInv == ASSUME IInv, rollback PROVE IInv'
<1> DEFINE T == Truncated(files[active], Len(active_hash))
<1>1. /\ pc = "rollback" /\ pc' = "ready" /\ poisoned' \in BOOLEAN /\ batch' = <<>>
      /\ dir' = dir /\ durDir' = durDir /\ UNCHANGED <<writer, readers, history>>
      /\ files' = [files EXCEPT ![active] = Synced(T)]
  BY DEF rollback, rolled_back
<1>2. /\ T \in File /\ Len(T.data) = Len(active_hash) /\ ~T.torn
      /\ T.stable = files[active].stable /\ T.data = active_hash
      /\ files[active].stable <= Len(active_hash)
  BY <1>1, RollbackFacts
<1> HIDE DEF T
<1>3. /\ Synced(T) \in File /\ Synced(T).data = active_hash /\ ~Synced(T).torn
      /\ Synced(T).stable = Len(active_hash)
  BY <1>2, SyncFacts
<1>4. Len(active_hash) \in Nat
  BY TypeFacts DEF IInv
<1>5. Synced(T).stable <= Len(active_hash) /\ files[active].stable <= Synced(T).stable
  BY <1>2, <1>3, <1>4
<1>6. QED
  BY <1>1, <1>3, <1>5, CutBack

LEMMA RollbackFailsInv == ASSUME IInv, rollback_fails PROVE IInv'
<1> DEFINE T == Truncated(files[active], Len(active_hash))
<1>1. /\ pc = "rollback" /\ pc' = "ready" /\ poisoned' = TRUE /\ batch' = <<>>
      /\ dir' = dir /\ durDir' = durDir /\ UNCHANGED <<writer, readers, history>>
      /\ \/ files' = files
         \/ files' = [files EXCEPT ![active] = T]
  BY DEF rollback_fails
<1>2. /\ T \in File /\ Len(T.data) = Len(active_hash) /\ ~T.torn
      /\ T.stable = files[active].stable /\ T.data = active_hash
      /\ files[active].stable <= Len(active_hash) /\ Past
      /\ files[active] \in File
  BY <1>1, RollbackFacts
<1> HIDE DEF T
<1>3. CASE files' = files
  <2>1. UNCHANGED disk /\ batch' \in Seq(Record) /\ poisoned' \in BOOLEAN
    BY <1>1, <1>3, EmptySeq DEF disk
  <2>2. QED
    BY <1>1, <1>2, <2>1, BackToReady
<1>4. CASE files' = [files EXCEPT ![active] = T]
  <2>1. T.stable <= Len(active_hash) /\ files[active].stable <= T.stable
    BY <1>2, FileFacts
  <2>2. poisoned' \in BOOLEAN
    BY <1>1
  <2>3. QED
    BY <1>1, <1>2, <1>4, <2>1, <2>2, CutBack
<1>5. QED
  BY <1>1, <1>3, <1>4

\* What a writer finds when it has synchronized the directory it opens: the
\* active file can be read, and cutting a torn record off loses no record.
LEMMA RepairFacts ==
    ASSUME IInv, pc = "repairing"
    PROVE  /\ ~Past /\ durDir = dir /\ dir.active = active /\ dir.sealed = segments
           /\ active \in Ids /\ active \in Nat /\ active # NoFile
           /\ active = active_first /\ active_first = SealedNext(segments)
           /\ Catalog(segments)
           /\ LET old == files[active]
                  T   == Truncated(old, Len(old.data))
              IN  /\ old \in File /\ old.stable <= Len(old.data)
                  /\ ValidFrom(old.data, active)
                  /\ Len(old.data) <= MaxSegment /\ active + Len(old.data) <= MaxSeq
                  /\ T \in File /\ T.data = old.data /\ ~T.torn /\ T.stable = old.stable
<1>1. /\ TypeOK /\ WriterInv /\ FileInv /\ DirsInv /\ files \in [Ids -> File]
      /\ active_first \in Nat /\ active \in Ids \cup {NoFile}
  BY TypeFacts DEF IInv
<1>2. /\ ~Past /\ durDir = dir /\ dir.active = active /\ dir.sealed = segments
      /\ active = active_first /\ active_first = SealedNext(segments)
  BY <1>1 DEF WriterInv, PcInv, Past
<1>3. active \in Ids /\ active \in Nat /\ active # NoFile
  BY <1>1, <1>2, IdFacts
<1> DEFINE old == files[active]
           T   == Truncated(old, Len(old.data))
<1>4. old \in File /\ old.stable <= Len(old.data) /\ Len(old.data) \in Nat /\ old.stable \in Nat
  BY <1>1, <1>3, FileFacts DEF FileInv
<1>5. DirOK(dir, files)
  BY <1>1 DEF DirsInv
<1>6. /\ Catalog(segments) /\ ValidFrom(old.data, active)
      /\ Len(old.data) <= MaxSegment /\ active + Len(old.data) <= MaxSeq
  BY <1>2, <1>3, <1>5 DEF DirOK
<1> HIDE DEF old
<1>7. Len(old.data) \in 0..Len(old.data)
  BY <1>4
<1>8. T \in File /\ T.data = old.data /\ ~T.torn /\ T.stable = old.stable
  BY <1>4, <1>7, TruncateFacts
<1>9. QED
  BY <1>2, <1>3, <1>4, <1>6, <1>8 DEF old

\* The file is written with the records it had.
LEMMA SameRecords ==
    ASSUME IInv, pc = "repairing", dir' = dir, durDir' = durDir, UNCHANGED history,
           NEW F \in File, files' = [files EXCEPT ![active] = F],
           F.data = files[active].data,
           files[active].stable <= F.stable, F.stable <= Len(F.data)
    PROVE  /\ files' \in [Ids -> File] /\ files'[active] = F
           /\ FileInv' /\ DirsInv' /\ SurviveInv'
           /\ DiskFits(acked, dir, files)' /\ DiskFits(acked, durDir, files)'
           /\ Data(dir, files') = Data(dir, files) /\ Data(dir, files) = F.data
<1>1. /\ durDir = dir /\ dir.active = active /\ dir.active # NoFile
      /\ ValidFrom(F.data, dir.active)
      /\ Len(F.data) <= MaxSegment /\ dir.active + Len(F.data) <= MaxSeq
  BY RepairFacts
<1>2. \A k \in 1..files[dir.active].stable : F.data[k] = files[dir.active].data[k]
  BY <1>1
<1>3. /\ files' \in [Ids -> File] /\ files'[dir.active] = F
      /\ FileInv' /\ DirsInv' /\ SurviveInv'
      /\ DiskFits(acked, dir, files)' /\ DiskFits(acked, durDir, files)'
  BY <1>1, <1>2, ActiveStep
<1>4. Data(dir, files') = Data(dir, files) /\ Data(dir, files) = F.data
  BY <1>1, <1>3 DEF Data
<1>5. QED
  BY <1>1, <1>3, <1>4

LEMMA OpenRepairInv == ASSUME IInv, open_repair PROVE IInv'
<1> DEFINE old == files[active]
           F   == repair(old)
<1>1. /\ pc = "repairing" /\ pc' = "ready"
      /\ files' = [files EXCEPT ![active] = F]
      /\ active_hash' = files'[active].data
      /\ next_sequence' = active_first + Len(active_hash') /\ poisoned' = FALSE
      /\ dir' = dir /\ durDir' = durDir /\ segments' = segments /\ active' = active
      /\ active_first' = active_first /\ batch' = batch
      /\ views' = views /\ published' = published
      /\ UNCHANGED history /\ acked' = acked
  BY DEF open_repair, readers, history
<1>2. /\ ~Past /\ durDir = dir /\ dir.active = active /\ dir.sealed = segments
      /\ active \in Ids /\ active \in Nat /\ active # NoFile
      /\ active = active_first /\ active_first = SealedNext(segments)
      /\ Catalog(segments)
      /\ old \in File /\ old.stable <= Len(old.data)
      /\ ValidFrom(old.data, active)
      /\ Len(old.data) <= MaxSegment /\ active + Len(old.data) <= MaxSeq
  BY <1>1, RepairFacts
<1>3. /\ F \in File /\ F.data = old.data /\ ~F.torn
      /\ old.stable <= F.stable /\ F.stable <= Len(F.data)
  <2> DEFINE T == Truncated(old, Len(old.data))
  <2>1. T \in File /\ T.data = old.data /\ ~T.torn /\ T.stable = old.stable
    BY <1>1, RepairFacts
  <2>2. Len(old.data) \in Nat /\ old.stable \in Nat
    BY <1>2, FileFacts
  <2>3. CASE old.torn
    <3>1. F = Synced(T)
      BY <2>3 DEF repair
    <3> HIDE DEF old, F, T
    <3>2. /\ Synced(T) \in File /\ Synced(T).data = old.data /\ ~Synced(T).torn
          /\ Synced(T).stable = Len(old.data)
      BY <2>1, SyncFacts
    <3>3. QED
      BY <1>2, <2>2, <3>1, <3>2
  <2>4. CASE ~old.torn
    <3>1. F = old
      BY <2>4 DEF repair
    <3> HIDE DEF old, F
    <3>2. QED
      BY <1>2, <2>2, <2>4, <3>1
  <2>5. QED
    BY <2>3, <2>4
<1> HIDE DEF F
<1>4. /\ files' \in [Ids -> File] /\ files'[active] = F
      /\ FileInv' /\ DirsInv' /\ SurviveInv'
      /\ DiskFits(acked, dir, files)' /\ DiskFits(acked, durDir, files)'
      /\ Data(dir, files') = Data(dir, files) /\ Data(dir, files) = F.data
  BY <1>1, <1>3, SameRecords
<1>5. /\ TypeOK /\ WriterInv /\ ViewInv /\ acked \in Seq(Segment)
      /\ dir \in Directory /\ dir.sealed \in Seq(Segment) /\ Len(dir.sealed) \in Nat
  BY TypeFacts DEF IInv
<1>6. /\ active_hash' = F.data /\ active_hash' \in Seq(Record) /\ Len(active_hash') \in Nat
      /\ next_sequence' \in Nat
  BY <1>1, <1>2, <1>3, <1>4, FileFacts
<1>7. TypeOK'
  BY <1>1, <1>4, <1>5, <1>6 DEF TypeOK, history
<1>8. Past'
  BY <1>1 DEF Past
<1>9. AckInv'
  <2>1. DirFits(acked', dir', files')
    <3>1. \A f \in Ids : files'[f].stable <= Len(files'[f].data)
      BY <1>4 DEF FileInv
    <3>2. DiskFits(acked, dir, files')
      BY <1>1, <1>4
    <3>3. QED
      BY <1>1, <1>4, <1>5, <3>1, <3>2, DiskFitsDir
  <2>2. Fits(acked', segments', active_hash', Len(active_hash'))
    BY <1>1, <1>2, <1>4, <1>6, <2>1 DEF DirFits
  <2>3. QED
    BY <1>4, <2>2 DEF AckInv, WriterFits
<1>10. ViewInv'
  <2>1. ASSUME NEW p \in Seq(Segment), Current(p) PROVE Current(p)'
    <3>1. Fits(p, segments', active_hash', Len(active_hash'))
      BY <1>1, <1>2, <1>4, <1>6, <2>1 DEF Current, CurSegs, CurData
    <3>2. QED
      BY <1>8, <3>1 DEF Current, CurSegs, CurData
  <2>2. /\ Len(dir.sealed) <= Len(dir'.sealed)
        /\ \A i \in 1..Len(dir.sealed) : dir'.sealed[i] = dir.sealed[i]
    BY <1>1, <1>5
  <2>3. QED
    BY <1>1, <1>5, <1>7, <2>1, <2>2, ViewsKept
<1>11. Home' /\ Exact'
  <2>1. dir = [sealed |-> segments, active |-> active]
    BY <1>2, <1>5, DirectoryFacts
  <2>2. QED
    BY <1>1, <1>2, <1>3, <1>4, <1>6, <2>1 DEF Home, Exact
<1>12. FieldsInv'
  <2>1. /\ Len(active_hash') <= Len(files'[active'].data)
        /\ \A k \in 1..Len(active_hash') : files'[active'].data[k] = active_hash'[k]
    BY <1>1, <1>4, <1>6
  <2>2. /\ ValidFrom(active_hash', active_first') /\ Len(active_hash') <= MaxSegment
        /\ next_sequence' <= MaxSeq
    BY <1>1, <1>2, <1>3, <1>6
  <2>3. Catalog(segments') /\ active_first' = SealedNext(segments') /\ active' = active_first'
    BY <1>1, <1>2
  <2>4. QED
    BY <1>1, <1>11, <2>1, <2>2, <2>3 DEF FieldsInv
<1>13. PcInv'
  BY <1>1, <1>11 DEF PcInv
<1>14. QED
  BY <1>4, <1>7, <1>9, <1>10, <1>12, <1>13 DEF IInv, WriterInv

LEMMA OpenFailsInv == ASSUME IInv, open_fails PROVE IInv'
<1>1. /\ pc \in {"opening", "repairing"} /\ Forget /\ pc' = "closed"
      /\ dir' = dir /\ durDir' = durDir /\ views' = views /\ published' = published
      /\ UNCHANGED history /\ acked' = acked
  BY DEF open_fails, readers, history, Forget
<1>2. /\ TypeOK /\ WriterInv /\ ViewInv /\ files \in [Ids -> File]
      /\ dir \in Directory /\ durDir \in Directory
      /\ dir.sealed \in Seq(Segment) /\ Len(dir.sealed) \in Nat
      /\ views' = [r \in Readers |-> views'[r]]
  <2>1. TypeOK
    BY DEF IInv
  <2>2. views' = [r \in Readers |-> views'[r]]
    BY <1>1, <2>1 DEF TypeOK
  <2>3. QED
    BY <2>1, <2>2, TypeFacts DEF IInv
<1>3. CASE files' = files
  <2>1. TypeOK'
    BY <1>1, <1>2, <1>3, ForgetTypes
  <2>2. UNCHANGED <<disk, history>>
    BY <1>1, <1>3 DEF disk
  <2>3. QED
    BY <1>1, <2>1, <2>2, ForgetStep
<1>4. CASE pc = "repairing" /\ files' = [files EXCEPT ![active] =
                                            Truncated(files[active], Len(files[active].data))]
  <2> DEFINE F == Truncated(files[active], Len(files[active].data))
  <2>1. /\ F \in File /\ F.data = files[active].data
        /\ F.stable = files[active].stable /\ files[active].stable <= Len(files[active].data)
        /\ files[active] \in File /\ ~Past
    BY <1>4, RepairFacts
  <2>2. files' = [files EXCEPT ![active] = F]
    BY <1>4
  <2> HIDE DEF F
  <2>3. files[active].stable <= F.stable /\ F.stable <= Len(F.data)
    BY <2>1, FileFacts
  <2>4. /\ files' \in [Ids -> File]
        /\ FileInv' /\ DirsInv' /\ SurviveInv'
        /\ DiskFits(acked, dir, files)' /\ DiskFits(acked, durDir, files)'
        /\ Data(dir, files') = Data(dir, files)
    BY <1>1, <1>4, <2>1, <2>2, <2>3, SameRecords
  <2>5. TypeOK'
    BY <1>1, <1>2, <2>4, ForgetTypes
  <2>6. ~Past'
    BY <1>1 DEF Past
  <2>7. AckInv'
    BY <2>4, <2>6 DEF AckInv
  <2>8. WriterInv'
    BY <1>1, <2>6 DEF WriterInv, PcInv
  <2>9. CurSegs' = CurSegs /\ CurData' = CurData
    BY <1>1, <2>1, <2>4, <2>6 DEF CurSegs, CurData
  <2>10. ViewInv'
    BY <1>1, <1>2, <2>9 DEF ViewInv
  <2>11. QED
    BY <2>4, <2>5, <2>7, <2>8, <2>10 DEF IInv
<1>5. QED
  BY <1>3, <1>4 DEF open_fails

---------------------------------------------------------------------------
(* Power loss. *)

\* A power loss may leave G of a file F.
Left(F, G) ==
    /\ G.stable <= Len(G.data)
    /\ F.stable <= G.stable
    /\ Len(G.data) <= Len(F.data)
    /\ \A k \in 1..Len(G.data) : G.data[k] = F.data[k]
    /\ ~(F.stable < Len(F.data) \/ F.torn) => G = F

LEMMA RemainsFacts ==
    ASSUME NEW F \in File, F.stable <= Len(F.data), NEW G \in Remains(F)
    PROVE  /\ G \in File /\ G.stable <= Len(G.data) /\ F.stable <= G.stable
           /\ Len(G.data) <= Len(F.data)
           /\ \A k \in 1..Len(G.data) : G.data[k] = F.data[k]
<1>1. F.data \in Seq(Record) /\ Len(F.data) \in Nat /\ F.stable \in Nat
      /\ \A k \in 1..Len(F.data) : F.data[k] \in Record
  BY FileFacts
<1>2. PICK k \in F.stable..Len(F.data), t \in BOOLEAN :
         G = [data |-> SubSeq(F.data, 1, k), torn |-> t, stable |-> k]
  <2>1. \/ \E k \in F.stable..Len(F.data) :
              G = [data |-> SubSeq(F.data, 1, k), torn |-> FALSE, stable |-> k]
        \/ \E k \in F.stable..(Len(F.data) - (IF F.torn THEN 0 ELSE 1)) :
              G = [data |-> SubSeq(F.data, 1, k), torn |-> TRUE, stable |-> k]
    BY Zenon DEF Remains
  <2>2. \A k \in F.stable..(Len(F.data) - (IF F.torn THEN 0 ELSE 1)) : k \in F.stable..Len(F.data)
    <3>1. CASE F.torn
      BY <1>1, <3>1
    <3>2. CASE ~F.torn
      BY <1>1, <3>2
    <3>3. QED
      BY <3>1, <3>2
  <2>3. QED
    BY <2>1, <2>2, Zenon
<1> DEFINE s == SubSeq(F.data, 1, k)
<1>3. k \in Nat /\ F.stable <= k /\ k <= Len(F.data)
  BY <1>1
<1>4. /\ s \in Seq(Record)
      /\ Len(s) = IF 1 <= k THEN k - 1 + 1 ELSE 0
      /\ \A i \in 1..(k - 1 + 1) : s[i] = F.data[1 + i - 1]
  <2>1. \A i \in 1..k : F.data[i] \in Record
    BY <1>1, <1>3
  <2>2. QED
    BY <1>1, <1>3, <2>1, SubSeqProperties
<1>5. Len(s) = k /\ \A i \in 1..k : s[i] = F.data[i]
  BY <1>3, <1>4
<1>6. G.data = s /\ G.torn = t /\ G.stable = k /\ G = [data |-> s, torn |-> t, stable |-> k]
  BY <1>2
<1> HIDE DEF s
<1>7. G \in File
  BY <1>3, <1>4, <1>6 DEF File
<1>8. QED
  BY <1>1, <1>3, <1>5, <1>6, <1>7

LEMMA CrashFiles ==
    ASSUME IInv, PowerLoss
    PROVE  files' \in [Ids -> File] /\ \A f \in Ids : Left(files[f], files'[f])
<1>1. files \in [Ids -> File] /\ FileInv
  BY TypeFacts DEF IInv
<1>2. PICK left \in [Dirty -> UNION {Remains(files[f]) : f \in Dirty}] :
         /\ \A f \in Dirty : left[f] \in Remains(files[f])
         /\ files' = [f \in Ids |-> IF f \in Dirty THEN left[f] ELSE files[f]]
  BY Zenon DEF PowerLoss
<1>3. ASSUME NEW f \in Ids PROVE files'[f] \in File /\ Left(files[f], files'[f])
  <2>1. files[f] \in File /\ files[f].stable <= Len(files[f].data)
    BY <1>1 DEF FileInv
  <2>2. CASE f \in Dirty
    <3>1. files'[f] \in Remains(files[f])
      BY <1>2, <2>2
    <3>2. files[f].stable < Len(files[f].data) \/ files[f].torn
      BY <2>2 DEF Dirty
    <3>3. QED
      BY <2>1, <3>1, <3>2, RemainsFacts DEF Left
  <2>3. CASE f \notin Dirty
    <3>1. files'[f] = files[f]
      BY <1>2, <2>3
    <3>2. QED
      BY <2>1, <3>1, FileFacts DEF Left
  <2>4. QED
    BY <2>2, <2>3
<1>4. files' = [f \in Ids |-> files'[f]]
  BY <1>2
<1>5. QED
  BY <1>3, <1>4

LEMMA LeftDirectory ==
    ASSUME NEW fs \in [Ids -> File], NEW gs \in [Ids -> File], NEW d \in Directory,
           \A f \in Ids : Left(fs[f], gs[f]), DirOK(d, fs)
    PROVE  /\ DirOK(d, gs)
           /\ Whole(d, fs) => Whole(d, gs)
           /\ \A p \in Seq(Segment) : DiskFits(p, d, fs) => DiskFits(p, d, gs)
           /\ \A i \in 1..Len(d.sealed) : d.sealed[i].first \in Ids
<1>1. /\ d.sealed \in Seq(Segment) /\ d.active \in Ids \cup {NoFile}
      /\ d.active # NoFile => d.active \in Ids /\ d.active \in Nat
      /\ MaxSeq \in Nat /\ MaxSegment \in Nat
  BY DirectoryFacts, IdFacts, JournalAssumption
<1>2. DirOK(d, gs)
  <2>1. CASE d.active = NoFile
    BY <2>1 DEF DirOK
  <2>2. CASE d.active # NoFile
    <3> DEFINE F == fs[d.active]
               G == gs[d.active]
    <3>1. F \in File /\ G \in File /\ Left(F, G)
      BY <1>1, <2>2
    <3>2. /\ Catalog(d.sealed) /\ SealedNext(d.sealed) <= MaxSeq
          /\ d.active = SealedNext(d.sealed) /\ ValidFrom(F.data, d.active)
          /\ Len(F.data) <= MaxSegment /\ d.active + Len(F.data) <= MaxSeq
      BY <2>2 DEF DirOK
    <3>3. SUFFICES /\ ValidFrom(G.data, d.active) /\ Len(G.data) <= MaxSegment
                   /\ d.active + Len(G.data) <= MaxSeq
      BY <2>2, <3>2 DEF DirOK
    <3> HIDE DEF F, G
    <3>4. /\ Len(F.data) \in Nat /\ Len(G.data) \in Nat /\ Len(G.data) <= Len(F.data)
          /\ \A k \in 1..Len(G.data) : G.data[k] = F.data[k]
      BY <3>1, FileFacts DEF Left
    <3>5. \A k \in 1..Len(G.data) : k \in 1..Len(F.data)
      BY <3>4
    <3>6. ValidFrom(G.data, d.active)
      BY <3>2, <3>4, <3>5 DEF ValidFrom
    <3>7. \A x, y, a, m, s \in Nat : x <= y /\ y <= m /\ a + y <= s => x <= m /\ a + x <= s
      OBVIOUS
    <3>8. Len(G.data) <= MaxSegment /\ d.active + Len(G.data) <= MaxSeq
      BY <1>1, <2>2, <3>2, <3>4, <3>7, Zenon
    <3>9. QED
      BY <3>6, <3>8
  <2>3. QED
    BY <2>1, <2>2
<1>3. \A i \in 1..Len(d.sealed) : d.sealed[i].first \in Ids
  <2>1. Catalog(d.sealed) /\ SealedNext(d.sealed) <= MaxSeq /\ SealedNext(d.sealed) \in Nat
    BY <1>1, SegmentFacts DEF DirOK
  <2>2. QED
    BY <1>1, <2>1, FirstsBefore DEF Ids
<1>4. ASSUME Whole(d, fs) PROVE Whole(d, gs)
  <2>1. ASSUME NEW i \in 1..Len(d.sealed)
        PROVE  gs[d.sealed[i].first] = fs[d.sealed[i].first]
    <3> DEFINE F == fs[d.sealed[i].first]
               G == gs[d.sealed[i].first]
    <3>1. F.data = d.sealed[i].digest /\ F.stable = Len(d.sealed[i].digest) /\ ~F.torn
      BY <1>4 DEF Whole
    <3>2. Left(F, G) /\ F \in File
      BY <1>3
    <3> HIDE DEF F, G
    <3>3. ~(F.stable < Len(F.data))
      BY <3>1, <3>2, FileFacts
    <3>4. G = F
      BY <3>1, <3>2, <3>3 DEF Left
    <3>5. QED
      BY <3>4 DEF F, G
  <2>2. QED
    BY <1>4, <2>1 DEF Whole
<1>5. ASSUME NEW p \in Seq(Segment), DiskFits(p, d, fs) PROVE DiskFits(p, d, gs)
  <2>1. Stable(d, fs) \in Nat /\ Stable(d, gs) \in Nat
    BY DataFacts
  <2>2. /\ Stable(d, fs) <= Stable(d, gs)
        /\ \A k \in 1..Stable(d, fs) : Data(d, gs)[k] = Data(d, fs)[k]
    <3>1. CASE d.active = NoFile
      BY <3>1 DEF Data, Stable
    <3>2. CASE d.active # NoFile
      <4> DEFINE F == fs[d.active]
                 G == gs[d.active]
      <4>1. F \in File /\ G \in File /\ Left(F, G)
        BY <1>1, <3>2
      <4>2. Data(d, fs) = F.data /\ Stable(d, fs) = F.stable
            /\ Data(d, gs) = G.data /\ Stable(d, gs) = G.stable
        BY <3>2 DEF Data, Stable
      <4> HIDE DEF F, G
      <4>3. /\ Len(G.data) \in Nat /\ F.stable \in Nat /\ G.stable \in Nat
            /\ G.stable <= Len(G.data) /\ F.stable <= G.stable
            /\ \A k \in 1..Len(G.data) : G.data[k] = F.data[k]
        BY <4>1, FileFacts DEF Left
      <4>4. \A k \in 1..F.stable : k \in 1..Len(G.data)
        BY <4>3
      <4>5. QED
        BY <4>2, <4>3, <4>4
    <3>3. QED
      BY <3>1, <3>2
  <2>3. QED
    BY <1>5, <2>1, <2>2, FitsGrow DEF DiskFits
<1>6. QED
  BY <1>2, <1>3, <1>4, <1>5

LEMMA PowerLossInv == ASSUME IInv, PowerLoss PROVE IInv'
<1>1. /\ TypeOK /\ FileInv /\ DirsInv /\ SurviveInv /\ AckInv /\ files \in [Ids -> File]
      /\ dir \in Directory /\ durDir \in Directory /\ acked \in Seq(Segment)
  BY TypeFacts DEF IInv
<1>2. PICK d \in {dir, durDir} : dir' = d /\ durDir' = d
  BY DEF PowerLoss
<1>3. /\ Forget /\ pc' = "closed" /\ published' = NoView
      /\ views' = [r \in Readers |-> NoView] /\ UNCHANGED history
      /\ acked' = acked /\ sealedDirty' = sealedDirty
  BY DEF PowerLoss, Forget, history
<1>4. files' \in [Ids -> File] /\ \A f \in Ids : Left(files[f], files'[f])
  BY CrashFiles
<1>5. d \in Directory /\ DirOK(d, files) /\ DiskFits(acked, d, files)
      /\ (~sealedDirty => Whole(d, files))
  BY <1>1, <1>2 DEF DirsInv, AckInv, SurviveInv
<1>6. DirOK(d, files') /\ DiskFits(acked, d, files') /\ (~sealedDirty => Whole(d, files'))
  BY <1>1, <1>4, <1>5, LeftDirectory
<1>7. TypeOK'
  <2>1. views' = [r \in Readers |-> views'[r]] /\ \A r \in Readers : views'[r] = NoView
    BY <1>3
  <2>2. QED
    BY <1>1, <1>2, <1>3, <1>4, <1>5, <2>1, ForgetTypes
<1>8. FileInv'
  BY <1>4 DEF FileInv, Left
<1>9. DirsInv'
  BY <1>2, <1>6 DEF DirsInv, Ahead
<1>10. SurviveInv'
  BY <1>2, <1>3, <1>6 DEF SurviveInv
<1>11. ~Past'
  BY <1>3 DEF Past
<1>12. AckInv'
  <2>1. DiskFits(acked', dir', files') /\ DiskFits(acked', durDir', files')
    BY <1>2, <1>3, <1>6
  <2>2. QED
    BY <1>11, <2>1 DEF AckInv
<1>13. WriterInv'
  BY <1>3, <1>11 DEF WriterInv, PcInv
<1>14. ViewInv'
  <2>1. CurSegs' = d.sealed
    BY <1>2, <1>11 DEF CurSegs
  <2>2. d.sealed \in Seq(Segment)
    BY <1>5, DirectoryFacts
  <2>3. ViewOK(NoView, d.sealed, d.sealed, CurData')
    BY <2>2, NoViewOK
  <2>4. \A r \in Readers : views'[r] = NoView
    BY <1>3
  <2>5. QED
    BY <1>2, <1>3, <2>1, <2>3, <2>4 DEF ViewInv
<1>15. QED
  BY <1>7, <1>8, <1>9, <1>10, <1>12, <1>13, <1>14 DEF IInv

---------------------------------------------------------------------------
(* The invariant holds in every behaviour. *)

LEMMA StutterInv == ASSUME IInv, UNCHANGED vars PROVE IInv'
<1>1. /\ files' = files /\ dir' = dir /\ durDir' = durDir /\ pc' = pc
      /\ segments' = segments /\ active' = active /\ active_first' = active_first
      /\ active_hash' = active_hash /\ next_sequence' = next_sequence
      /\ poisoned' = poisoned /\ batch' = batch
      /\ published' = published /\ views' = views
      /\ acked' = acked /\ sealedDirty' = sealedDirty
  BY DEF vars, disk, writer, readers, history
<1>2. TypeOK' /\ FileInv' /\ DirsInv' /\ SurviveInv'
  BY <1>1 DEF IInv, TypeOK, FileInv, DirsInv, SurviveInv
<1>3. WriterInv'
  <2>1. FieldsInv' = FieldsInv
    BY <1>1 DEF FieldsInv, Home, Moved, SealedSegment
  <2>2. PcInv' = PcInv
    BY <1>1 DEF PcInv, Home, Moved, SealedSegment, BatchInv, Exact
  <2>3. Past' = Past
    BY <1>1 DEF Past
  <2>4. QED
    BY <2>1, <2>2, <2>3 DEF IInv, WriterInv
<1>4. AckInv' /\ ViewInv'
  BY <1>1 DEF IInv, AckInv, ViewInv, Past, WriterFits, CurSegs, CurData
<1>5. QED
  BY <1>2, <1>3, <1>4 DEF IInv

LEMMA NextInv == ASSUME IInv, [Next]_vars PROVE IInv'
<1>1. ASSUME Writer PROVE IInv'
  <2>1. CASE open \/ open_sync \/ open_repair \/ open_fails
    BY <2>1, OpenInv, OpenSyncInv, OpenRepairInv, OpenFailsInv
  <2>2. CASE \E first \in 0..MaxSeq, n \in 1..MaxSegment :
                \E vals \in [1..n -> Vals] : append_prepared(first, vals)
    BY <2>2, AppendPreparedInv
  <2>3. CASE verify_fails \/ metadata_fails \/ sync_fails \/ settle \/ settle_fails
    BY <2>3, VerifyFailsInv, MetadataFailsInv, SyncFailsInv, SettleInv, SettleFailsInv
  <2>4. CASE seal_rename \/ seal_rename_sync \/ seal_create \/ seal_finish \/ seal_fails
    BY <2>4, SealRenameInv, SealRenameSyncInv, SealCreateInv, SealFinishInv, SealFailsInv
  <2>5. CASE \E written \in 0..MaxSegment, torn \in BOOLEAN : write_event_bytes(written, torn)
    BY <2>5, WriteEventBytesInv
  <2>6. CASE sync_event_file \/ rollback \/ rollback_fails
    BY <2>6, SyncEventFileInv, RollbackInv, RollbackFailsInv
  <2>7. CASE register \/ unregister \/ release
    BY <2>7, RegisterInv, UnregisterInv, ReleaseInv
  <2>8. QED
    BY <1>1, <2>1, <2>2, <2>3, <2>4, <2>5, <2>6, <2>7 DEF Writer
<1>2. ASSUME NEW r \in Readers, capture(r) \/ drop_view(r) PROVE IInv'
  BY <1>2, CaptureInv, DropViewInv
<1>3. CASE Kill \/ PowerLoss
  BY <1>3, KillInv, PowerLossInv
<1>4. CASE UNCHANGED vars
  BY <1>4, StutterInv
<1>5. QED
  BY <1>1, <1>2, <1>3, <1>4 DEF Next

\* The invariant holds in every reachable state of the journal, the states a
\* crash leaves included.
THEOREM JournalInvariant == Spec => []IInv
<1>1. Init => IInv
  BY InitInv
<1>2. IInv /\ [Next]_vars => IInv'
  BY NextInv
<1>3. QED
  BY <1>1, <1>2, PTL DEF Spec

---------------------------------------------------------------------------
(* What the invariant shows. *)

\* A prefix on disk of a directory whose sealed files are whole is stored in
\* the files the directory names.
LEMMA FitsDurable ==
    ASSUME TypeOK, NEW d \in Directory, Whole(d, files), DirOK(d, files),
           NEW p \in Seq(Segment), DiskFits(p, d, files)
    PROVE  \A i \in 1..Len(p) : \A j \in 1..Len(p[i].digest) : p[i].digest[j] \in Durable(d)
<1> DEFINE Named == {d.sealed[i].first : i \in 1..Len(d.sealed)} \cup ({d.active} \ {NoFile})
<1>1. ASSUME NEW f \in Named, NEW k \in 1..files[f].stable PROVE files[f].data[k] \in Durable(d)
  <2>1. Durable(d) = UNION {{files[g].data[i] : i \in 1..files[g].stable} : g \in Named}
    BY DEF Durable
  <2> HIDE DEF Named
  <2>2. QED
    BY <1>1, <2>1
<1>2. /\ Len(p) \in Nat /\ Len(d.sealed) \in Nat /\ d.sealed \in Seq(Segment)
      /\ \A i \in 1..Len(p) : Len(p[i].digest) \in Nat
      /\ \A i \in 1..Len(d.sealed) : Len(d.sealed[i].digest) \in Nat
  BY DirectoryFacts, SegmentFacts
<1>3. SUFFICES ASSUME NEW i \in 1..Len(p), NEW j \in 1..Len(p[i].digest)
               PROVE  p[i].digest[j] \in Durable(d)
  OBVIOUS
<1>4. /\ Len(p) <= Len(d.sealed) + 1
      /\ i < Len(p) => p[i] = d.sealed[i]
      /\ i = Len(p) /\ i <= Len(d.sealed) =>
            Cut(p[i], d.sealed[i].first, d.sealed[i].digest, Len(d.sealed[i].digest))
      /\ i = Len(d.sealed) + 1 =>
            Cut(p[i], SealedNext(d.sealed), Data(d, files), Stable(d, files))
  BY Zenon DEF DiskFits, Fits
<1>5. CASE i \in 1..Len(d.sealed)
  <2> DEFINE s == d.sealed[i]
  <2>1. s.first \in Named /\ files[s.first].data = s.digest /\ files[s.first].stable = Len(s.digest)
    BY <1>5 DEF Whole
  <2>2. Len(p[i].digest) <= Len(s.digest) /\ p[i].digest[j] = s.digest[j]
    <3>1. CASE i < Len(p)
      BY <1>2, <1>4, <1>5, <3>1
    <3>2. CASE i = Len(p)
      <4>1. Cut(p[i], s.first, s.digest, Len(s.digest))
        BY <1>2, <1>4, <1>5, <3>2
      <4>2. QED
        BY <4>1 DEF Cut
    <3>3. QED
      BY <1>2, <3>1, <3>2
  <2>3. j \in 1..files[s.first].stable
    BY <1>2, <1>5, <2>1, <2>2
  <2>4. files[s.first].data[j] \in Durable(d)
    BY <1>1, <2>1, <2>3
  <2>5. QED
    BY <2>1, <2>2, <2>4
<1>6. CASE i = Len(d.sealed) + 1
  <2>1. /\ 0 < Len(p[i].digest) /\ Len(p[i].digest) <= Stable(d, files)
        /\ p[i].digest[j] = Data(d, files)[j]
    BY <1>4, <1>6 DEF Cut
  <2>2. d.active # NoFile
    BY <1>2, <2>1 DEF Stable
  <2>3. d.active \in Named /\ Stable(d, files) = files[d.active].stable
        /\ Data(d, files) = files[d.active].data /\ files[d.active].stable \in Nat
    BY <2>2, DirectoryFacts, TypeFacts DEF Stable, Data
  <2>4. j \in 1..files[d.active].stable
    BY <1>2, <2>1, <2>3
  <2>5. files[d.active].data[j] \in Durable(d)
    BY <1>1, <2>3, <2>4
  <2>6. QED
    BY <2>1, <2>3, <2>5
<1>7. QED
  BY <1>2, <1>4, <1>5, <1>6

LEMMA SurviveImplied == ASSUME IInv PROVE AcknowledgedSurvive
<1>1. SUFFICES ASSUME ~sealedDirty PROVE AckedDurable
  BY DEF AcknowledgedSurvive
<1>2. /\ TypeOK /\ dir \in Directory /\ durDir \in Directory /\ acked \in Seq(Segment)
  BY TypeFacts DEF IInv
<1>3. ASSUME NEW d \in {dir, durDir}
      PROVE  /\ \A i \in 1..Len(d.sealed) : Survives(d.sealed[i])
             /\ \A i \in 1..Len(acked) : \A j \in 1..Len(acked[i].digest) :
                   acked[i].digest[j] \in Durable(d)
  <2>1. d \in Directory /\ Whole(d, files) /\ DirOK(d, files) /\ DiskFits(acked, d, files)
    BY <1>1, <1>2, <1>3 DEF IInv, SurviveInv, DirsInv, AckInv
  <2>2. \A i \in 1..Len(d.sealed) : Survives(d.sealed[i])
    BY <2>1 DEF Whole, Survives
  <2>3. QED
    BY <1>2, <2>1, <2>2, FitsDurable
<1>4. QED
  BY <1>3, Zenon DEF AckedDurable

\* What the readers hold is a prefix of the directory.
LEMMA CurrentFitsDir ==
    ASSUME IInv, NEW p \in Seq(Segment), Current(p)
    PROVE  DirFits(p, dir, files)
<1>1. CASE Past
  <2>1. TypeOK /\ FieldsInv /\ WriterFits(p)
    BY <1>1 DEF IInv, WriterInv, Current, CurSegs, CurData, WriterFits
  <2>2. QED
    BY <2>1, WriterOnDisk
<1>2. CASE ~Past
  BY <1>2 DEF Current, CurSegs, CurData, DirFits
<1>3. QED
  BY <1>1, <1>2

\* A file that starts with the records of a segment can be read through it.
LEMMA CutReadable ==
    ASSUME NEW F \in File, NEW s \in Segment, NEW first, Cut(s, first, F.data, Len(F.data))
    PROVE  active_readable(F, s)
<1> DEFINE n == Len(s.digest)
           c == SubSeq(F.data, 1, n)
<1>1. /\ F.data \in Seq(Record) /\ Len(F.data) \in Nat
      /\ \A k \in 1..Len(F.data) : F.data[k] \in Record
      /\ s.digest \in Seq(Record) /\ n \in Nat
  BY FileFacts, LenProperties DEF Segment
<1>2. n <= Len(F.data) /\ \A k \in 1..n : s.digest[k] = F.data[k]
  BY DEF Cut
<1>3. /\ c \in Seq(Record)
      /\ Len(c) = IF 1 <= n THEN n - 1 + 1 ELSE 0
      /\ \A k \in 1..(n - 1 + 1) : c[k] = F.data[1 + k - 1]
  <2>1. \A k \in 1..n : F.data[k] \in Record
    BY <1>1, <1>2
  <2>2. QED
    BY <1>1, <1>2, <2>1, SubSeqProperties
<1>4. Len(c) = n /\ \A k \in 1..n : c[k] = F.data[k]
  BY <1>1, <1>3
<1> HIDE DEF c, n
<1>5. c = s.digest
  BY <1>1, <1>2, <1>3, <1>4, SeqEqual DEF n
<1>6. QED
  BY <1>1, <1>2, <1>5 DEF active_readable, c, n

LEMMA ViewReadable ==
    ASSUME IInv, ~sealedDirty, NEW v \in View, ViewOK(v, dir.sealed, CurSegs, CurData)
    PROVE  Readable(v)
<1> DEFINE p == prefix_identity(v)
           n == Len(dir.sealed)
           m == Len(v.segs) + 1
<1>1. /\ TypeOK /\ dir \in Directory /\ dir.sealed \in Seq(Segment) /\ n \in Nat
      /\ files \in [Ids -> File]
      /\ DirOK(dir, files) /\ Whole(dir, files)
  BY TypeFacts DEF IInv, DirsInv, SurviveInv
<1>2. /\ v.segs \in Seq(Segment) /\ v.tail \in Seq(Segment) /\ p \in Seq(Segment)
      /\ Len(v.segs) \in Nat /\ Len(v.tail) \in Nat
  BY ViewFacts
<1>3. /\ Len(v.tail) <= 1 /\ (v.tail # <<>> => v.active = v.tail[1].first)
      /\ Len(v.segs) <= n /\ \A i \in 1..Len(v.segs) : v.segs[i] = dir.sealed[i]
      /\ Current(p)
  BY DEF ViewOK, Current
<1>4. DirFits(p, dir, files)
  BY <1>2, <1>3, CurrentFitsDir
<1>5. ASSUME NEW i \in 1..Len(v.segs) PROVE sealed_readable(v.segs[i])
  <2>1. i \in 1..n
    BY <1>1, <1>2, <1>3
  <2>2. QED
    BY <1>1, <1>3, <2>1 DEF sealed_readable, Whole
<1>6. ASSUME NEW i \in 1..Len(v.tail) PROVE active_readable(files[v.active], v.tail[i])
  <2>1. i = 1 /\ v.tail # <<>>
    BY <1>2, <1>3, EmptySeq
  <2> DEFINE s == v.tail[1]
  <2>2. p = Append(v.segs, s) /\ s \in Segment
    BY <1>3, <2>1, IdentityParts
  <2>3. Len(p) = m /\ p[m] = s
    BY <1>2, <2>2, AppendFacts
  <2>4. v.active = s.first
    BY <1>3, <2>1
  <2>5. m \in Nat /\ m \in 1..Len(p) /\ (m <= n \/ m = n + 1)
    BY <1>1, <1>2, <1>3, <2>3
  <2> HIDE DEF s, p, m
  <2>6. CASE m <= n
    <3>1. Cut(s, dir.sealed[m].first, dir.sealed[m].digest, Len(dir.sealed[m].digest))
      BY <1>4, <2>3, <2>5, <2>6 DEF DirFits, Fits
    <3>2. m \in 1..n
      BY <1>1, <2>5, <2>6
    <3>3. s.first = dir.sealed[m].first /\ files[s.first].data = dir.sealed[m].digest
      BY <1>1, <3>1, <3>2 DEF Cut, Whole
    <3>4. files[s.first] \in File
      <4>1. s.first < SealedNext(dir.sealed) /\ s.first \in Nat
        BY <1>1, <3>2, <3>3, FirstsBefore DEF DirOK
      <4>2. SealedNext(dir.sealed) <= MaxSeq /\ SealedNext(dir.sealed) \in Nat /\ MaxSeq \in Nat
        BY <1>1, SegmentFacts, IdFacts DEF DirOK
      <4>3. s.first \in Ids
        BY <4>1, <4>2 DEF Ids
      <4>4. QED
        BY <1>1, <4>3
    <3>5. active_readable(files[s.first], s)
      BY <2>2, <3>1, <3>3, <3>4, CutReadable
    <3>6. QED
      BY <2>1, <2>4, <3>5 DEF s
  <2>7. CASE m = n + 1
    <3>1. Cut(s, SealedNext(dir.sealed), Data(dir, files), Len(Data(dir, files)))
      BY <1>4, <2>3, <2>5, <2>7 DEF DirFits, Fits
    <3>2. dir.active # NoFile
      <4>1. Len(Data(dir, files)) # 0
        <5>1. 0 < Len(s.digest) /\ Len(s.digest) <= Len(Data(dir, files))
          BY <3>1 DEF Cut
        <5>2. Len(s.digest) \in Nat
          BY <2>2, LenProperties DEF Segment
        <5>3. QED
          BY <5>1, <5>2
      <4>2. QED
        BY <4>1, EmptySeq DEF Data
    <3>3. /\ Data(dir, files) = files[dir.active].data /\ dir.active = SealedNext(dir.sealed)
          /\ files[dir.active] \in File
      BY <1>1, <3>2, DirectoryFacts DEF Data, DirOK
    <3>4. s.first = dir.active
      BY <3>1, <3>3 DEF Cut
    <3>5. active_readable(files[dir.active], s)
      BY <2>2, <3>1, <3>3, CutReadable
    <3>6. QED
      BY <2>1, <2>4, <3>4, <3>5 DEF s
  <2>8. QED
    BY <2>5, <2>6, <2>7
<1>7. QED
  BY <1>5, <1>6 DEF Readable

LEMMA ReadableImplied == ASSUME IInv PROVE ViewsStayReadable
<1>1. SUFFICES ASSUME ~sealedDirty, NEW v \in {views[r] : r \in Readers} \cup {published}
               PROVE  Readable(v)
  BY DEF ViewsStayReadable
<1>2. TypeOK /\ ViewInv
  BY DEF IInv
<1>3. v \in View /\ ViewOK(v, dir.sealed, CurSegs, CurData)
  BY <1>2 DEF TypeOK, ViewInv
<1>4. QED
  BY <1>1, <1>3, ViewReadable

\* Every segment of a readable view can be read.
LEMMA EachReadable ==
    ASSUME NEW v \in View, Readable(v), NEW i \in 1..Len(prefix_identity(v))
    PROVE  segment_readable(v, i)
<1>1. /\ Len(v.segs) \in Nat /\ Len(v.tail) \in Nat
      /\ Len(prefix_identity(v)) = Len(v.segs) + Len(v.tail)
  BY ViewFacts, ConcatProperties DEF prefix_identity
<1>2. CASE i <= Len(v.segs)
  <2>1. i \in 1..Len(v.segs)
    BY <1>1, <1>2
  <2>2. QED
    BY <1>2, <2>1 DEF Readable, segment_readable
<1>3. CASE ~(i <= Len(v.segs))
  <2>1. \A a, b \in Nat : \A k \in 1..(a + b) : ~(k <= a) => k - a \in 1..b
    OBVIOUS
  <2>2. i \in 1..(Len(v.segs) + Len(v.tail))
    BY <1>1, Zenon
  <2>3. i - Len(v.segs) \in 1..Len(v.tail)
    BY <1>1, <1>3, <2>1, <2>2, Zenon
  <2>4. QED
    BY <1>3, <2>3 DEF Readable, segment_readable
<1>4. QED
  BY <1>2, <1>3

\* The writer finds every prefix that fits its journal, if it can read its
\* boundary: always, unless a file was sealed before an fsync covered it.
LEMMA FitsFound ==
    ASSUME IInv, pc = "ready", NEW p \in Seq(Segment), WriterFits(p)
    PROVE  FoundAgain(SealedNext(p), p)
<1> DEFINE next == SealedNext(p)
<1>1. /\ TypeOK /\ Past /\ FieldsInv /\ DirsInv
      /\ segments \in Seq(Segment) /\ active_hash \in Seq(Record)
  BY TypeFacts DEF IInv, WriterInv, Past
<1>2. /\ prefix_identity(read_view) = Parts(segments, active_hash) /\ Catalog(segments)
      /\ next_sequence = SealedNext(segments) + Len(active_hash)
      /\ read_view \in View /\ read_view.next = next_sequence
  BY <1>1, ReadViewFacts DEF FieldsInv
<1>3. /\ next <= next_sequence /\ CutAt(read_view, next) = p
      /\ next # 0 => Boundary(read_view, next) \in 1..Len(prefix_identity(read_view))
  BY <1>1, <1>2, PrefixAt DEF WriterFits
<1>4. ASSUME ~sealedDirty, next # 0
      PROVE  segment_readable(read_view, Boundary(read_view, next))
  <2>1. ViewOK(read_view, dir.sealed, CurSegs, CurData)
    BY <1>1, ReadViewOK
  <2>2. Readable(read_view)
    BY <1>2, <1>4, <2>1, ViewReadable
  <2>3. QED
    BY <1>2, <1>3, <1>4, <2>2, EachReadable
<1> HIDE DEF next
<1>5. prefix_at(read_view, next) \subseteq {p}
  BY <1>3, Zenon DEF prefix_at
<1>6. ~sealedDirty => prefix_at(read_view, next) = {p}
  BY <1>2, <1>3, <1>4, Zenon DEF prefix_at
<1>7. QED
  BY <1>3, <1>5, <1>6 DEF FoundAgain, next

LEMMA IdentityImplied == ASSUME IInv PROVE IdentityStable
<1>1. SUFFICES ASSUME pc = "ready"
               PROVE  /\ \A r \in Readers :
                            FoundAgain(views[r].next, prefix_identity(views[r]))
                      /\ FoundAgain(AckedNext, acked)
  BY Zenon DEF IdentityStable
<1>2. /\ TypeOK /\ Past /\ AckInv /\ ViewInv /\ acked \in Seq(Segment)
      /\ views \in [Readers -> View]
  BY <1>1, TypeFacts DEF IInv, Past, TypeOK
<1>3. ASSUME NEW r \in Readers
      PROVE  FoundAgain(views[r].next, prefix_identity(views[r]))
  <2>1. ViewOK(views[r], dir.sealed, CurSegs, CurData) /\ views[r] \in View
    BY <1>2 DEF ViewInv
  <2>2. WriterFits(prefix_identity(views[r])) /\ views[r].next = SealedNext(prefix_identity(views[r]))
    BY <1>2, <2>1 DEF ViewOK, WriterFits, CurSegs, CurData
  <2>3. prefix_identity(views[r]) \in Seq(Segment)
    BY <2>1, ViewFacts
  <2>4. QED
    BY <1>1, <2>2, <2>3, FitsFound
<1>4. FoundAgain(AckedNext, acked)
  BY <1>1, <1>2, FitsFound DEF AckInv, AckedNext
<1>5. QED
  BY <1>3, <1>4

LEMMA KnowsImplied == ASSUME IInv PROVE WriterKnowsDisk
<1>1. SUFFICES ASSUME pc \in {"ready", "writing"}, ~poisoned
               PROVE  /\ dir.active = active /\ dir.sealed = segments
                      /\ files[active].data = active_hash /\ ~files[active].torn
                      /\ active_first = SealedNext(segments)
                      /\ next_sequence = active_first + Len(active_hash)
  BY DEF WriterKnowsDisk
<1>2. FieldsInv /\ Home /\ Exact
  BY <1>1 DEF IInv, WriterInv, PcInv, Past
<1>3. QED
  BY <1>2 DEF FieldsInv, Home, Exact

LEMMA ReopensImplied == ASSUME IInv PROVE AlwaysReopens
<1>1. ASSUME NEW d \in {dir, durDir} PROVE DirOK(d, files)
  BY DEF IInv, DirsInv
<1>2. QED
  BY <1>1 DEF AlwaysReopens, DirOK, Catalog

---------------------------------------------------------------------------
(* Records on disk are never taken back. *)

\* The files directory d names, and the records of them that are on disk.
Named(d) == {d.sealed[i].first : i \in 1..Len(d.sealed)} \cup ({d.active} \ {NoFile})
OnDisk(d, fs) == UNION {{fs[f].data[k] : k \in 1..fs[f].stable} : f \in Named(d)}

\* G still holds what was on disk of F.
Kept(F, G) == F.stable <= G.stable /\ \A k \in 1..F.stable : G.data[k] = F.data[k]

LEMMA OnDiskGrows ==
    ASSUME NEW d, NEW e, NEW fs, NEW gs, Named(d) \subseteq Named(e),
           \A f \in Named(d) : fs[f].stable \in Nat /\ gs[f].stable \in Nat /\ Kept(fs[f], gs[f])
    PROVE  OnDisk(d, fs) \subseteq OnDisk(e, gs)
<1>1. ASSUME NEW f \in Named(d), NEW k \in 1..fs[f].stable PROVE fs[f].data[k] \in OnDisk(e, gs)
  <2>1. f \in Named(e) /\ k \in 1..gs[f].stable /\ gs[f].data[k] = fs[f].data[k]
    BY <1>1 DEF Kept
  <2>2. gs[f].data[k] \in OnDisk(e, gs)
    BY <2>1 DEF OnDisk
  <2>3. QED
    BY <2>1, <2>2
<1>2. QED
  BY <1>1 DEF OnDisk

\* Every file a directory names has its number among the identifiers.
LEMMA NamedFacts ==
    ASSUME NEW d \in Directory, NEW fs \in [Ids -> File], DirOK(d, fs)
    PROVE  Named(d) \subseteq Ids
<1>1. /\ d.sealed \in Seq(Segment) /\ Catalog(d.sealed)
      /\ SealedNext(d.sealed) <= MaxSeq /\ SealedNext(d.sealed) \in Nat /\ MaxSeq \in Nat
      /\ d.active \in Ids \cup {NoFile}
  BY DirectoryFacts, SegmentFacts, IdFacts DEF DirOK
<1>2. \A i \in 1..Len(d.sealed) : d.sealed[i].first \in Ids
  BY <1>1, FirstsBefore DEF Ids
<1>3. QED
  BY <1>1, <1>2 DEF Named

\* Directory d names every file that the one on disk names.
LEMMA AheadNames ==
    ASSUME NEW d \in Directory, NEW e \in Directory, NEW fs, Ahead(d, e, fs)
    PROVE  Named(e) \subseteq Named(d)
<1>1. Len(d.sealed) \in Nat /\ Len(e.sealed) \in Nat
  BY DirectoryFacts, SegmentFacts
<1>2. CASE e = d
  BY <1>2
<1>3. CASE e.sealed = d.sealed /\ e.active = NoFile
  BY <1>3 DEF Named
<1>4. CASE /\ Len(d.sealed) = Len(e.sealed) + 1
           /\ \A i \in 1..Len(e.sealed) : e.sealed[i] = d.sealed[i]
           /\ e.active = d.sealed[Len(d.sealed)].first
  <2>1. \A i \in 1..Len(e.sealed) : i \in 1..Len(d.sealed)
    BY <1>1, <1>4
  <2>2. Len(d.sealed) \in 1..Len(d.sealed)
    BY <1>1, <1>4
  <2>3. QED
    BY <1>4, <2>1, <2>2 DEF Named
<1>5. QED
  BY <1>2, <1>3, <1>4 DEF Ahead

\* What a step has to do for the records on disk to stay there.
DiskStep ==
    /\ Named(durDir) \subseteq Named(durDir')
    /\ \A f \in Named(durDir) : files'[f].stable \in Nat /\ Kept(files[f], files'[f])

LEMMA DiskStepGrows ==
    ASSUME IInv, DiskStep
    PROVE  Durable(durDir) \subseteq Durable(durDir)'
<1>1. /\ TypeOK /\ files \in [Ids -> File] /\ durDir \in Directory /\ DirOK(durDir, files)
  BY TypeFacts DEF IInv, DirsInv
<1>2. \A f \in Named(durDir) : files[f].stable \in Nat
  BY <1>1, NamedFacts, TypeFacts
<1>3. OnDisk(durDir, files) \subseteq OnDisk(durDir', files')
  BY <1>2, OnDiskGrows DEF DiskStep
<1>4. Durable(durDir) = OnDisk(durDir, files) /\ Durable(durDir)' = OnDisk(durDir', files')
  BY DEF Durable, OnDisk, Named
<1>5. QED
  BY <1>3, <1>4

\* The files stay; the directory on disk stays or catches up.
LEMMA SameFiles ==
    ASSUME IInv, files' = files, durDir' = durDir \/ durDir' = dir
    PROVE  DiskStep
<1>1. /\ TypeOK /\ files \in [Ids -> File] /\ durDir \in Directory /\ dir \in Directory
      /\ DirOK(durDir, files) /\ Ahead(dir, durDir, files)
  BY TypeFacts DEF IInv, DirsInv
<1>2. Named(durDir) \subseteq Named(durDir') /\ Named(durDir) \subseteq Ids
  BY <1>1, AheadNames, NamedFacts
<1>3. \A f \in Ids : files[f].stable \in Nat
  BY <1>1, TypeFacts
<1>4. QED
  BY <1>2, <1>3 DEF DiskStep, Kept

\* The file that is written keeps what was on disk of it.
LEMMA WrittenFile ==
    ASSUME IInv, durDir' = durDir, active \in Ids, NEW F \in File,
           files' = [files EXCEPT ![active] = F], Kept(files[active], F)
    PROVE  DiskStep
<1>1. /\ TypeOK /\ files \in [Ids -> File] /\ durDir \in Directory /\ DirOK(durDir, files)
  BY TypeFacts DEF IInv, DirsInv
<1>2. Named(durDir) \subseteq Ids /\ F.stable \in Nat
      /\ \A f \in Ids : files[f].stable \in Nat
  BY <1>1, NamedFacts, FileFacts, TypeFacts
<1>3. ASSUME NEW f \in Named(durDir) PROVE files'[f].stable \in Nat /\ Kept(files[f], files'[f])
  <2>1. CASE f = active
    <3>1. files'[f] = F
      BY <1>1, <1>2, <2>1
    <3>2. QED
      BY <1>2, <2>1, <3>1
  <2>2. CASE f # active
    <3>1. files'[f] = files[f] /\ files[f].stable \in Nat
      BY <1>1, <1>2, <2>2
    <3>2. QED
      BY <3>1 DEF Kept
  <2>3. QED
    BY <2>1, <2>2
<1>4. QED
  BY <1>3 DEF DiskStep

\* A file is created that neither directory names.
LEMMA CreatedFile ==
    ASSUME IInv, durDir' = durDir, dir.active = NoFile,
           files' = [files EXCEPT ![SealedNext(dir.sealed)] = EmptyFile]
    PROVE  DiskStep
<1>1. /\ TypeOK /\ files \in [Ids -> File] /\ durDir \in Directory /\ dir \in Directory
      /\ DirOK(durDir, files) /\ DirOK(dir, files) /\ Ahead(dir, durDir, files)
  BY TypeFacts DEF IInv, DirsInv
<1>2. Untouched(durDir, files, files')
  BY <1>1, CreateFile
<1>3. Named(durDir) \subseteq Ids /\ \A f \in Ids : files[f].stable \in Nat
  BY <1>1, NamedFacts, TypeFacts
<1>4. \A f \in Named(durDir) : files'[f] = files[f]
  BY <1>2 DEF Untouched, Named
<1>5. QED
  BY <1>3, <1>4 DEF DiskStep, Kept

LEMMA CrashStep == ASSUME IInv, PowerLoss PROVE DiskStep
<1>1. /\ TypeOK /\ files \in [Ids -> File] /\ durDir \in Directory /\ dir \in Directory
      /\ DirOK(durDir, files) /\ Ahead(dir, durDir, files)
  BY TypeFacts DEF IInv, DirsInv
<1>2. durDir' = dir \/ durDir' = durDir
  BY DEF PowerLoss
<1>3. Named(durDir) \subseteq Named(durDir') /\ Named(durDir) \subseteq Ids
  BY <1>1, <1>2, AheadNames, NamedFacts
<1>4. ASSUME NEW f \in Ids PROVE files'[f].stable \in Nat /\ Kept(files[f], files'[f])
  <2>1. files[f] \in File /\ files'[f] \in File /\ Left(files[f], files'[f])
    BY <1>1, CrashFiles
  <2> DEFINE F == files[f]
             G == files'[f]
  <2>2. /\ Len(G.data) \in Nat /\ F.stable \in Nat /\ G.stable \in Nat
        /\ G.stable <= Len(G.data) /\ F.stable <= G.stable
        /\ \A k \in 1..Len(G.data) : G.data[k] = F.data[k]
    BY <2>1, FileFacts DEF Left
  <2> HIDE DEF F, G
  <2>3. \A k \in 1..F.stable : k \in 1..Len(G.data)
    BY <2>2
  <2>4. G.stable \in Nat /\ Kept(F, G)
    BY <2>2, <2>3 DEF Kept
  <2>5. QED
    BY <2>4 DEF F, G
<1>5. QED
  BY <1>3, <1>4 DEF DiskStep

LEMMA WriteStep ==
    ASSUME IInv, NEW written \in 0..MaxSegment, NEW torn \in BOOLEAN,
           write_event_bytes(written, torn)
    PROVE  DiskStep
<1> DEFINE old == files[active]
           b   == SubSeq(batch, 1, written)
           F   == [data |-> old.data \o b, torn |-> torn, stable |-> old.stable]
<1>1. /\ TypeOK /\ FileInv /\ files \in [Ids -> File] /\ pc = "writing" /\ Past /\ FieldsInv
      /\ durDir' = durDir /\ written <= Len(batch)
      /\ files' = [files EXCEPT ![active].data = @ \o b, ![active].torn = torn]
      /\ batch \in Seq(Record) /\ Len(batch) \in Nat /\ written \in Nat
  <2>1. TypeOK /\ FileInv /\ pc = "writing" /\ Past /\ FieldsInv
    BY DEF write_event_bytes, Past, IInv, WriterInv
  <2>2. written \in Nat
    BY JournalAssumption
  <2>3. QED
    BY <2>1, <2>2, TypeFacts DEF write_event_bytes
<1>2. active \in Ids
  BY <1>1, IdFacts, TypeFacts DEF FieldsInv
<1>3. /\ old \in File /\ old.data \in Seq(Record) /\ Len(old.data) \in Nat
      /\ old.stable \in Nat /\ old.stable <= Len(old.data)
  BY <1>1, <1>2, FileFacts DEF FileInv
<1>4. b \in Seq(Record)
  <2>1. \A i \in 1..written : batch[i] \in Record
    BY <1>1, ElementOfSeq
  <2>2. QED
    BY <1>1, <2>1, SubSeqProperties
<1> HIDE DEF b, old
<1>5. /\ old.data \o b \in Seq(Record)
      /\ \A k \in 1..Len(old.data) : (old.data \o b)[k] = old.data[k]
  <2>1. /\ old.data \o b \in Seq(Record)
        /\ \A k \in 1..(Len(old.data) + Len(b)) : (old.data \o b)[k] =
              IF k <= Len(old.data) THEN old.data[k] ELSE b[k - Len(old.data)]
    BY <1>3, <1>4, ConcatProperties
  <2>2. Len(b) \in Nat
    BY <1>4, LenProperties
  <2>3. \A k \in 1..Len(old.data) : k \in 1..(Len(old.data) + Len(b)) /\ k <= Len(old.data)
    BY <1>3, <2>2
  <2>4. QED
    BY <2>1, <2>3
<1>6. F \in File /\ F.data = old.data \o b /\ F.stable = old.stable /\ F.torn = torn
  BY <1>3, <1>5 DEF File
<1>7. files' = [files EXCEPT ![active] = F]
  <2> DEFINE G == [old EXCEPT !.data = old.data \o b]
             H == [G EXCEPT !.torn = torn]
  <2>1. G \in File /\ G.data = old.data \o b /\ G.stable = old.stable
    BY <1>3, <1>5 DEF File
  <2>2. files' = [files EXCEPT ![active] = H]
    BY <1>1, <1>2 DEF old
  <2> HIDE DEF G
  <2>3. H \in File /\ H.data = old.data \o b /\ H.torn = torn /\ H.stable = old.stable
    BY <2>1 DEF File
  <2>4. F = [data |-> old.data \o b, torn |-> torn, stable |-> old.stable]
    OBVIOUS
  <2> HIDE DEF H, F
  <2>5. H = F
    BY <2>3, <2>4 DEF File
  <2>6. QED
    BY <2>2, <2>5
<1> HIDE DEF F
<1>8. Kept(old, F)
  <2>1. \A k \in 1..old.stable : k \in 1..Len(old.data)
    BY <1>3
  <2>2. QED
    BY <1>3, <1>5, <1>6, <2>1 DEF Kept
<1>9. QED
  BY <1>1, <1>2, <1>6, <1>7, <1>8, WrittenFile DEF old

\* fsync leaves the records as they are.
LEMMA SyncKept ==
    ASSUME NEW F \in File, NEW T \in File, T.data = F.data, F.stable <= Len(F.data)
    PROVE  Kept(F, Synced(T)) /\ Synced(T) \in File /\ (T.stable = F.stable => Kept(F, T))
<1>1. Synced(T) \in File /\ Synced(T).data = F.data /\ Synced(T).stable = Len(F.data)
  BY SyncFacts
<1>2. F.stable \in Nat
  BY FileFacts
<1>3. QED
  BY <1>1, <1>2 DEF Kept

LEMMA SyncStep == ASSUME IInv, sync_event_file PROVE DiskStep
<1>1. /\ TypeOK /\ FileInv /\ files \in [Ids -> File] /\ FieldsInv
      /\ durDir' = durDir /\ files' = [files EXCEPT ![active] = Synced(files[active])]
  BY TypeFacts DEF sync_event_file, Past, IInv, WriterInv
<1>2. active \in Ids
  BY <1>1, IdFacts, TypeFacts DEF FieldsInv
<1>3. files[active] \in File /\ files[active].stable <= Len(files[active].data)
  BY <1>1, <1>2 DEF FileInv
<1>4. Kept(files[active], Synced(files[active])) /\ Synced(files[active]) \in File
  BY <1>3, SyncKept
<1>5. QED
  BY <1>1, <1>2, <1>4, WrittenFile

\* A rollback cuts off records that no fsync covered.
LEMMA RollbackStep == ASSUME IInv, rollback \/ rollback_fails PROVE DiskStep
<1> DEFINE T == Truncated(files[active], Len(active_hash))
<1>1. /\ pc = "rollback" /\ durDir' = durDir
      /\ \/ files' = files
         \/ files' = [files EXCEPT ![active] = T]
         \/ files' = [files EXCEPT ![active] = Synced(T)]
  BY DEF rollback, rollback_fails, rolled_back
<1>2. /\ FieldsInv /\ active \in Ids
      /\ files[active] \in File /\ files[active].stable <= Len(active_hash)
      /\ T \in File /\ T.data = active_hash /\ T.stable = files[active].stable
      /\ Len(active_hash) \in Nat
  <2>1. Len(active_hash) \in Nat
    BY TypeFacts DEF IInv
  <2>2. QED
    BY <1>1, <2>1, RollbackFacts
<1> HIDE DEF T
<1>3. files[active].stable \in Nat
      /\ \A k \in 1..files[active].stable : active_hash[k] = files[active].data[k]
  <2>1. files[active].stable \in Nat
    BY <1>2, FileFacts
  <2>2. \A k \in 1..files[active].stable : k \in 1..Len(active_hash)
    BY <1>2, <2>1
  <2>3. QED
    BY <1>2, <2>1, <2>2 DEF FieldsInv
<1>4. Kept(files[active], T)
  BY <1>2, <1>3 DEF Kept
<1>5. Kept(files[active], Synced(T)) /\ Synced(T) \in File
  <2>1. Synced(T) \in File /\ Synced(T).data = active_hash /\ Synced(T).stable = Len(active_hash)
    BY <1>2, SyncFacts
  <2>2. QED
    BY <1>2, <1>3, <2>1 DEF Kept
<1>6. QED
  BY <1>1, <1>2, <1>4, <1>5, SameFiles, WrittenFile

\* Repairing the tail cuts off no record.
LEMMA RepairStep == ASSUME IInv, open_repair \/ open_fails PROVE DiskStep
<1> DEFINE old == files[active]
           T   == Truncated(old, Len(old.data))
<1>1. /\ durDir' = durDir
      /\ \/ files' = files
         \/ /\ pc = "repairing"
            /\ files' = [files EXCEPT ![active] = T] \/ files' = [files EXCEPT ![active] = Synced(T)]
  <2>1. CASE open_repair
    <3>1. pc = "repairing" /\ durDir' = durDir /\ files' = [files EXCEPT ![active] = repair(old)]
      BY <2>1 DEF open_repair
    <3>2. CASE old.torn
      BY <3>1, <3>2 DEF repair
    <3>3. CASE ~old.torn
      <4>1. files' = [files EXCEPT ![active] = old]
        BY <3>1, <3>3 DEF repair
      <4>2. files \in [Ids -> File] /\ active \in Ids
        BY <3>1, RepairFacts, TypeFacts DEF IInv
      <4>3. QED
        BY <3>1, <4>1, <4>2
    <3>4. QED
      BY <3>2, <3>3
  <2>2. CASE open_fails
    BY <2>2 DEF open_fails
  <2>3. QED
    BY <2>1, <2>2
<1>2. CASE files' = files
  BY <1>1, <1>2, SameFiles
<1>3. CASE pc = "repairing" /\ (\/ files' = [files EXCEPT ![active] = T]
                                \/ files' = [files EXCEPT ![active] = Synced(T)])
  <2>1. /\ active \in Ids /\ old \in File /\ old.stable <= Len(old.data)
        /\ T \in File /\ T.data = old.data /\ T.stable = old.stable
    BY <1>3, RepairFacts
  <2> HIDE DEF T
  <2>2. Kept(old, T) /\ Kept(old, Synced(T)) /\ Synced(T) \in File
    BY <2>1, SyncKept
  <2>3. QED
    BY <1>1, <1>3, <2>1, <2>2, WrittenFile
<1>4. QED
  BY <1>1, <1>2, <1>3

LEMMA CreateStep == ASSUME IInv, open \/ seal_create PROVE DiskStep
<1>1. CASE open
  <2>1. CASE dir.active = NoFile
    BY <1>1, <2>1, CreatedFile DEF open
  <2>2. CASE dir.active # NoFile
    BY <1>1, <2>2, SameFiles DEF open
  <2>3. QED
    BY <2>1, <2>2
<1>2. CASE seal_create
  <2>1. /\ durDir' = durDir /\ files' = [files EXCEPT ![next_sequence] = EmptyFile]
        /\ dir.active = NoFile /\ Moved /\ TypeOK
    BY <1>2 DEF seal_create, IInv, WriterInv, PcInv
  <2>2. SealedNext(dir.sealed) = next_sequence
    BY <2>1, TypeFacts, SealedSegmentFacts, AppendFacts DEF Moved
  <2>3. QED
    BY <2>1, <2>2, CreatedFile
<1>3. QED
  BY <1>1, <1>2

LEMMA NextDiskStep == ASSUME IInv, [Next]_vars PROVE DiskStep
<1>1. CASE Writer
  <2>1. CASE open \/ seal_create
    BY <2>1, CreateStep
  <2>2. CASE open_repair \/ open_fails
    BY <2>2, RepairStep
  <2>3. CASE \E written \in 0..MaxSegment, torn \in BOOLEAN : write_event_bytes(written, torn)
    BY <2>3, WriteStep
  <2>4. CASE sync_event_file
    BY <2>4, SyncStep
  <2>5. CASE rollback \/ rollback_fails
    BY <2>5, RollbackStep
  <2>6. CASE open_sync \/ seal_rename \/ seal_rename_sync \/ seal_finish
    <3>1. files' = files /\ (durDir' = durDir \/ durDir' = dir)
      BY <2>6 DEF open_sync, seal_rename, seal_rename_sync, seal_finish
    <3>2. QED
      BY <3>1, SameFiles
  <2>7. CASE \/ verify_fails \/ seal_fails \/ metadata_fails \/ sync_fails
             \/ settle \/ settle_fails \/ register \/ unregister \/ release
    <3>1. files' = files /\ durDir' = durDir
      BY <2>7 DEF verify_fails, seal_fails, metadata_fails, sync_fails, settle, settle_fails,
                  register, unregister, release, disk
    <3>2. QED
      BY <3>1, SameFiles
  <2>8. CASE \E first \in 0..MaxSeq, n \in 1..MaxSegment :
                \E vals \in [1..n -> Vals] : append_prepared(first, vals)
    <3>1. files' = files /\ durDir' = durDir
      BY <2>8 DEF append_prepared, disk
    <3>2. QED
      BY <3>1, SameFiles
  <2>9. QED
    BY <1>1, <2>1, <2>2, <2>3, <2>4, <2>5, <2>6, <2>7, <2>8 DEF Writer
<1>2. CASE \E r \in Readers : capture(r) \/ drop_view(r)
  <2>1. files' = files /\ durDir' = durDir
    BY <1>2 DEF capture, drop_view, disk
  <2>2. QED
    BY <2>1, SameFiles
<1>3. CASE PowerLoss
  BY <1>3, CrashStep
<1>4. CASE Kill \/ UNCHANGED vars
  <2>1. files' = files /\ durDir' = durDir
    BY <1>4 DEF Kill, vars, disk
  <2>2. QED
    BY <2>1, SameFiles
<1>5. QED
  BY <1>1, <1>2, <1>3, <1>4 DEF Next

---------------------------------------------------------------------------
(* The theorems. *)

\* Every variable of the journal keeps its type.
THEOREM JournalTypes == Spec => []TypeOK
<1>1. IInv => TypeOK
  BY DEF IInv
<1>2. QED
  BY <1>1, JournalInvariant, PTL

\* Acknowledged events survive: whatever step of an append, a rollback, a seal
\* or an open a crash interrupts, every acknowledged record is on disk in a
\* file that either directory names, and the sealed segments before it are
\* whole, as long as no file was sealed before an fsync covered its records.
THEOREM AcknowledgedAlwaysSurvive == Spec => []AcknowledgedSurvive
<1>1. IInv => AcknowledgedSurvive
  BY SurviveImplied
<1>2. QED
  BY <1>1, JournalInvariant, PTL

\* A captured or published prefix stays readable, by name or through the
\* descriptor of the active file, while writers append, roll back, seal and
\* reopen (under the same condition).
THEOREM ViewsAlwaysReadable == Spec => []ViewsStayReadable
<1>1. IInv => ViewsStayReadable
  BY ReadableImplied
<1>2. QED
  BY <1>1, JournalInvariant, PTL

\* prefix_at of the current owner reads the segment where a captured prefix or
\* the acknowledged one ends and finds it under the identity it had, wherever
\* a rotation has put its records; only the read of a file sealed before an
\* fsync covered it can fail, and then nothing is answered.
THEOREM IdentityAlwaysStable == Spec => []IdentityStable
<1>1. IInv => IdentityStable
  BY IdentityImplied
<1>2. QED
  BY <1>1, JournalInvariant, PTL

\* A writer that is not poisoned knows what is in the directory, after every
\* failure of an append, a rollback or a seal.
THEOREM WriterAlwaysKnowsDisk == Spec => []WriterKnowsDisk
<1>1. IInv => WriterKnowsDisk
  BY KnowsImplied
<1>2. QED
  BY <1>1, JournalInvariant, PTL

\* SegmentedJournal::open accepts the directory and the active file whatever
\* interrupted the last writer and whichever directory a crash leaves.
THEOREM JournalAlwaysReopens == Spec => []AlwaysReopens
<1>1. IInv => AlwaysReopens
  BY ReopensImplied
<1>2. QED
  BY <1>1, JournalInvariant, PTL

\* No step takes back a record that reached the disk: not a rollback, a repair
\* of the tail, a seal, a new file or a power loss.
THEOREM DurableAlwaysGrows == Spec => DurableOnlyGrows
<1>1. IInv /\ [Next]_vars => Durable(durDir) \subseteq Durable(durDir)'
  BY NextDiskStep, DiskStepGrows
<1>2. QED
  BY <1>1, JournalInvariant, PTL DEF Spec, DurableOnlyGrows

============================================================================
