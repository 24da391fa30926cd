-------------------------- MODULE SegmentedJournal --------------------------
(***************************************************************************)
(* The segmented session journal (rw-store/src/session/journal.rs) and the *)
(* committed-prefix publication its readers go through                     *)
(* (rw-runtime/src/journal_service.rs, durable_session.rs).                *)
(*                                                                         *)
(* A journal directory holds sealed segments, whose names carry the range  *)
(* and the digest of their contents, and one file "active.jsonl".  The     *)
(* model keeps the page cache and the disk apart: files[f].data is what a  *)
(* reader of the file sees, its first files[f].stable records are the ones *)
(* an fsync covered, dir is the directory readers see and durDir the one   *)
(* the last fsync of the directory covered.  Two kinds of crash follow:    *)
(* Kill (the process dies, the page cache stays) and PowerLoss (anything   *)
(* not synchronized may vanish or be cut in the middle of a record).       *)
(*                                                                         *)
(* A record carries its sequence number and a value; sizes are counted in  *)
(* records, a partly written record is the flag `torn'; a digest is the    *)
(* sequence of records it was computed from.  A file is identified by the  *)
(* sequence number its first record will have when it is created, which    *)
(* stands for its inode: it keeps its identity when it is renamed.         *)
(***************************************************************************)
EXTENDS Integers, Sequences, FiniteSets

CONSTANTS
    Vals,          \* event payloads
    Readers,       \* holders of a captured view
    MaxSeq,        \* bound on the sequence numbers of a behaviour
    Target,        \* SEGMENT_TARGET_BYTES
    MaxSegment,    \* MAX_SEGMENT_BYTES, the largest batch
    MaxSegments    \* MAX_SEGMENTS

ASSUME JournalAssumption ==
    /\ MaxSeq \in Nat
    /\ Target \in Nat \ {0}
    /\ MaxSegment \in Nat
    /\ MaxSegment >= Target
    /\ MaxSegments \in Nat \ {0}

VARIABLES
    files,          \* contents of every file of the directory
    dir,            \* the directory as processes see it
    durDir,         \* the directory as the last fsync left it on disk
    pc,             \* what the writer is doing; "closed" when no one owns it
    segments,       \* SegmentedJournal.segments: the sealed catalog
    active,         \* SegmentedJournal.active: the opened active file
    active_first,   \* SegmentedJournal.active_first
    active_hash,    \* SegmentedJournal.active_hash (and active_bytes: its length)
    next_sequence,  \* SegmentedJournal.next_sequence
    poisoned,       \* SegmentedJournal.poisoned
    batch,          \* the PreparedJournalAppend being written
    published,      \* JournalPublication.committed, NoView when unregistered
    views,          \* the view each reader holds
    acked,          \* history: identity of the longest acknowledged prefix
    sealedDirty     \* history: some file was sealed before an fsync covered it

disk == <<files, dir, durDir>>
writer == <<segments, active, active_first, active_hash, next_sequence>>
readers == <<published, views>>
history == <<acked, sealedDirty>>
vars == <<disk, pc, writer, poisoned, batch, readers, history>>

---------------------------------------------------------------------------
(* Files, segments and views. *)

NoFile == -1

Ids == 0..MaxSeq

Record == [seq : Nat, val : Vals]

File == [data : Seq(Record), torn : BOOLEAN, stable : Nat]

EmptyFile == [data |-> <<>>, torn |-> FALSE, stable |-> 0]

Segment == [first : Nat, next : Nat, digest : Seq(Record)]

Directory == [sealed : Seq(Segment), active : Ids \cup {NoFile}]

View == [segs : Seq(Segment), tail : Seq(Segment), active : Ids \cup {NoFile},
         next : Nat, live : BOOLEAN]

NoView == [segs |-> <<>>, tail |-> <<>>, active |-> NoFile, next |-> 0, live |-> FALSE]

Last(s) == s[Len(s)]

\* The sequence number after the last sealed segment.
SealedNext(segs) == IF segs = <<>> THEN 0 ELSE Last(segs).next

\* fsync: everything written so far is on disk.
Synced(file) == [file EXCEPT !.stable = Len(file.data)]

\* set_len to a record boundary.  What is left was on disk if it was before.
Truncated(file, len) ==
    [data |-> SubSeq(file.data, 1, len), torn |-> FALSE,
     stable |-> IF file.stable < len THEN file.stable ELSE len]

\* Directory::catalog: the sealed names are contiguous from sequence zero.
CatalogOK(segs) ==
    \A i \in 1..Len(segs) :
        /\ segs[i].first = (IF i = 1 THEN 0 ELSE segs[i - 1].next)
        /\ segs[i].first < segs[i].next

\* validate_events_from_sequence: the records count up from `first'.
ValidFrom(data, first) ==
    \A i \in 1..Len(data) : data[i].seq = first + i - 1

\* SegmentedJournal::read_view: the committed prefix, without reading bytes.
read_view ==
    [segs |-> segments,
     tail |-> IF active_hash = <<>> THEN <<>>
              ELSE <<[first |-> active_first, next |-> next_sequence,
                      digest |-> active_hash]>>,
     active |-> active, next |-> next_sequence, live |-> TRUE]

\* JournalReadView::from_directory: the prefix an offline reader captures.
offline_view ==
    LET first == SealedNext(dir.sealed)
        data  == files[dir.active].data
    IN  [segs |-> dir.sealed,
         tail |-> IF data = <<>> THEN <<>>
                  ELSE <<[first |-> first, next |-> first + Len(data), digest |-> data]>>,
         active |-> dir.active, next |-> first + Len(data), live |-> FALSE]

\* JournalReadView::prefix_identity: the chained digest of a prefix is a
\* function of its segments' ranges and digests.
prefix_identity(view) == view.segs \o view.tail

\* JournalReadView::read_segment_bytes: a sealed segment is opened by name
\* and must have exactly the named bytes; the active one is read through the
\* retained descriptor and must start with the captured bytes.
sealed_readable(segment) ==
    /\ segment \in {dir.sealed[i] : i \in 1..Len(dir.sealed)}
    /\ files[segment.first].data = segment.digest
    /\ ~files[segment.first].torn

active_readable(file, segment) ==
    /\ Len(file.data) >= Len(segment.digest)
    /\ SubSeq(file.data, 1, Len(segment.digest)) = segment.digest

\* JournalReadView::segment_file: which of the two the i-th segment needs.
segment_readable(view, i) ==
    IF i <= Len(view.segs)
    THEN sealed_readable(view.segs[i])
    ELSE active_readable(files[view.active], view.tail[i - Len(view.segs)])

\* The segment that holds the end of the prefix before `next'.
Boundary(view, next) ==
    LET parts == prefix_identity(view)
    IN  CHOOSE i \in 1..Len(parts) :
            /\ parts[i].next >= next
            /\ \A j \in 1..(i - 1) : parts[j].next < next

\* Seeded fault: the boundary segment keeps its own digest.
CutAt_whole(view, next) ==
    LET parts == prefix_identity(view)
        index == Boundary(view, next)
    IN  IF next = 0 THEN <<>>
        ELSE Append(SubSeq(parts, 1, index - 1), [parts[index] EXCEPT !.next = next])

\* The identity of that prefix, recomputed from the bytes of its boundary.
CutAt(view, next) ==
    LET parts    == prefix_identity(view)
        index    == Boundary(view, next)
        boundary == parts[index]
    IN  IF next = 0 THEN <<>>
        ELSE Append(SubSeq(parts, 1, index - 1),
                    [first |-> boundary.first, next |-> next,
                     digest |-> SubSeq(boundary.digest, 1, next - boundary.first)])

\* JournalReadView::prefix_at, as the set of its answers: none when the call
\* returns an error, because the cursor is ahead of the view or because the
\* boundary segment, the only one it reads, is no longer what it was.
prefix_at(view, next) ==
    IF next <= view.next /\ (next = 0 \/ segment_readable(view, Boundary(view, next)))
    THEN {CutAt(view, next)}
    ELSE {}

Readable(view) ==
    /\ \A i \in 1..Len(view.segs) : sealed_readable(view.segs[i])
    /\ \A i \in 1..Len(view.tail) : active_readable(files[view.active], view.tail[i])

---------------------------------------------------------------------------
TypeOK ==
    /\ files \in [Ids -> File]
    /\ dir \in Directory /\ durDir \in Directory
    /\ pc \in {"closed", "opening", "repairing", "ready", "sealing", "renamed",
               "unnamed", "created", "writing", "syncing", "rollback", "settling",
               "closing"}
    /\ segments \in Seq(Segment)
    /\ active \in Ids \cup {NoFile}
    /\ active_first \in Nat
    /\ active_hash \in Seq(Record)
    /\ next_sequence \in Nat
    /\ poisoned \in BOOLEAN
    /\ batch \in Seq(Record)
    /\ published \in View
    /\ views \in [Readers -> View]
    /\ acked \in Seq(Segment)
    /\ sealedDirty \in BOOLEAN

\* A session that has no journal directory yet.
Init ==
    /\ files = [f \in Ids |-> EmptyFile]
    /\ dir = [sealed |-> <<>>, active |-> NoFile]
    /\ durDir = [sealed |-> <<>>, active |-> NoFile]
    /\ pc = "closed"
    /\ segments = <<>>
    /\ active = NoFile
    /\ active_first = 0
    /\ active_hash = <<>>
    /\ next_sequence = 0
    /\ poisoned = FALSE
    /\ batch = <<>>
    /\ published = NoView
    /\ views = [r \in Readers |-> NoView]
    /\ acked = <<>>
    /\ sealedDirty = FALSE

\* The owner is gone, and its fields with it.
Forget ==
    /\ pc' = "closed"
    /\ segments' = <<>>
    /\ active' = NoFile
    /\ active_first' = 0
    /\ active_hash' = <<>>
    /\ next_sequence' = 0
    /\ poisoned' = FALSE
    /\ batch' = <<>>

---------------------------------------------------------------------------
(* SegmentedJournal::open. *)

\* Takes the writer lock, reads the catalog and opens or creates active.jsonl.
open ==
    /\ pc = "closed"
    /\ CatalogOK(dir.sealed)
    /\ segments' = dir.sealed
    /\ active_first' = SealedNext(dir.sealed)
    /\ IF dir.active = NoFile
       THEN /\ dir' = [dir EXCEPT !.active = active_first']
            /\ files' = [files EXCEPT ![active_first'] = EmptyFile]
       ELSE UNCHANGED <<dir, files>>
    /\ active' = dir'.active
    /\ pc' = "opening"
    /\ UNCHANGED <<durDir, active_hash, next_sequence, poisoned, batch, readers, history>>

\* The directory entry of active.jsonl is synchronized before it is used.
open_sync ==
    /\ pc = "opening"
    /\ durDir' = dir
    /\ pc' = "repairing"
    /\ UNCHANGED <<files, dir, writer, poisoned, batch, readers, history>>

\* Seeded fault: the whole active file is cut off, not its last record.
repair_all(file) == IF file.torn THEN Synced(Truncated(file, 0)) ELSE file

\* An incomplete last record is cut off and the cut synchronized; a file that
\* ends with a complete record is taken over as it is.
repair(file) == IF file.torn THEN Synced(Truncated(file, Len(file.data))) ELSE file

open_repair ==
    /\ pc = "repairing"
    /\ Len(files[active].data) <= MaxSegment
    /\ ValidFrom(files[active].data, active_first)
    /\ files' = [files EXCEPT ![active] = repair(@)]
    /\ active_hash' = files'[active].data
    /\ next_sequence' = active_first + Len(active_hash')
    /\ poisoned' = FALSE
    /\ pc' = "ready"
    /\ UNCHANGED <<dir, durDir, segments, active, active_first, batch, readers, history>>

\* Any of these calls may fail: the lock is released and the caller sees an
\* error.  The cut may have been made without having been synchronized.
open_fails ==
    /\ pc \in {"opening", "repairing"}
    /\ \/ UNCHANGED files
       \/ /\ pc = "repairing"
          /\ files[active].torn
          /\ files' = [files EXCEPT ![active] = Truncated(@, Len(@.data))]
    /\ Forget
    /\ UNCHANGED <<dir, durDir, readers, history>>

---------------------------------------------------------------------------
(* SegmentedJournal::write_prepared and seal. *)

\* encode_records: one envelope per event, numbered from `first'.
Prepared(first, vals) == [i \in 1..Len(vals) |-> [seq |-> first + i - 1, val |-> vals[i]]]

\* Seeded fault: the batch's sequence number is not compared.
admitted_stale(first) == ~poisoned

\* A batch is refused when the writer has moved on since it was encoded, and
\* by a poisoned writer.
admitted(first) == first = next_sequence /\ ~poisoned

MustSeal(len) == active_hash # <<>> /\ Len(active_hash) + len > Target

append_prepared(first, vals) ==
    /\ pc = "ready"
    /\ admitted(first)
    /\ vals # <<>>
    /\ first + Len(vals) <= MaxSeq
    /\ batch' = Prepared(first, vals)
    /\ IF MustSeal(Len(vals))
       THEN /\ Len(segments) < MaxSegments
            /\ pc' = "sealing"
            /\ poisoned' = TRUE
       ELSE /\ pc' = "writing"
            /\ UNCHANGED poisoned
    /\ UNCHANGED <<disk, writer, readers, history>>

\* verify_event_file_snapshot cannot inspect the descriptor.
verify_fails ==
    /\ pc = "ready"
    /\ ~poisoned
    /\ poisoned' = TRUE
    /\ UNCHANGED <<disk, pc, writer, batch, readers, history>>

\* Directory::rename gives the active file its sealed name ...
SealedSegment == [first |-> active_first, next |-> next_sequence, digest |-> active_hash]

seal_rename ==
    /\ pc = "sealing"
    /\ dir' = [sealed |-> Append(dir.sealed, SealedSegment), active |-> NoFile]
    /\ sealedDirty' = (sealedDirty \/ files[active].stable < Len(files[active].data))
    /\ pc' = "renamed"
    /\ UNCHANGED <<files, durDir, writer, poisoned, batch, readers, acked>>

\* ... and synchronizes the directory,
seal_rename_sync ==
    /\ pc = "renamed"
    /\ durDir' = dir
    /\ pc' = "unnamed"
    /\ UNCHANGED <<files, dir, writer, poisoned, batch, readers, history>>

\* a new active file is created,
seal_create ==
    /\ pc = "unnamed"
    /\ dir' = [dir EXCEPT !.active = next_sequence]
    /\ files' = [files EXCEPT ![next_sequence] = EmptyFile]
    /\ pc' = "created"
    /\ UNCHANGED <<durDir, writer, poisoned, batch, readers, history>>

\* Seeded fault: the new directory entry is not synchronized.
seal_finish_unsynced ==
    /\ pc = "created"
    /\ segments' = Append(segments, SealedSegment)
    /\ active' = dir.active
    /\ active_first' = next_sequence
    /\ active_hash' = <<>>
    /\ poisoned' = FALSE
    /\ pc' = "writing"
    /\ UNCHANGED <<files, dir, durDir, next_sequence, batch, readers, history>>

\* and once its directory entry is synchronized the writer moves to it.
seal_finish ==
    /\ pc = "created"
    /\ durDir' = dir
    /\ segments' = Append(segments, SealedSegment)
    /\ active' = dir.active
    /\ active_first' = next_sequence
    /\ active_hash' = <<>>
    /\ poisoned' = FALSE
    /\ pc' = "writing"
    /\ UNCHANGED <<files, dir, next_sequence, batch, readers, history>>

\* A failure inside seal leaves the writer poisoned with its old fields.
seal_fails ==
    /\ pc \in {"sealing", "renamed", "unnamed", "created"}
    /\ pc' = "ready"
    /\ batch' = <<>>
    /\ UNCHANGED <<disk, writer, poisoned, readers, history>>

\* The length of the active file cannot be read: nothing is written.
metadata_fails ==
    /\ pc = "writing"
    /\ pc' = "ready"
    /\ batch' = <<>>
    /\ UNCHANGED <<disk, writer, poisoned, readers, history>>

\* write_all may stop after any byte: `written' complete records and perhaps
\* a part of the next one.
write_event_bytes(written, torn) ==
    /\ pc = "writing"
    /\ written <= Len(batch)
    /\ torn => written < Len(batch)
    /\ files' = [files EXCEPT ![active].data = @ \o SubSeq(batch, 1, written),
                              ![active].torn = torn]
    /\ pc' = IF written = Len(batch) THEN "syncing" ELSE "rollback"
    /\ UNCHANGED <<dir, durDir, writer, poisoned, batch, readers, history>>

\* fsync of the active file commits the batch.
sync_event_file ==
    /\ pc = "syncing"
    /\ files' = [files EXCEPT ![active] = Synced(@)]
    /\ active_hash' = active_hash \o batch
    /\ next_sequence' = next_sequence + Len(batch)
    /\ poisoned' = TRUE
    /\ pc' = "settling"
    /\ UNCHANGED <<dir, durDir, segments, active, active_first, batch, readers, history>>

sync_fails ==
    /\ pc = "syncing"
    /\ pc' = "rollback"
    /\ UNCHANGED <<disk, writer, poisoned, batch, readers, history>>

\* The descriptor snapshot is refreshed, the append returns Ok, and
\* append_and_publish publishes the new prefix before the caller hears of it.
settle ==
    /\ pc = "settling"
    /\ poisoned' = FALSE
    /\ pc' = "ready"
    /\ batch' = <<>>
    /\ acked' = prefix_identity(read_view)
    /\ published' = IF published = NoView THEN NoView ELSE read_view
    /\ UNCHANGED <<disk, writer, views, sealedDirty>>

\* The snapshot fails: the batch is on disk but reported as an error.
settle_fails ==
    /\ pc = "settling"
    /\ pc' = "ready"
    /\ batch' = <<>>
    /\ UNCHANGED <<disk, writer, poisoned, readers, history>>

\* Seeded fault: the cut assumes that the whole batch was written.
rolled_back_by_batch(file) ==
    Synced(Truncated(file, IF Len(file.data) > Len(batch)
                           THEN Len(file.data) - Len(batch) ELSE 0))

\* truncate_and_sync_event_file back to the bytes before the failed append,
\* then a fresh snapshot; without it the writer stays poisoned.
rolled_back(file) == Synced(Truncated(file, Len(active_hash)))

rollback ==
    /\ pc = "rollback"
    /\ files' = [files EXCEPT ![active] = rolled_back(@)]
    /\ poisoned' \in BOOLEAN
    /\ pc' = "ready"
    /\ batch' = <<>>
    /\ UNCHANGED <<dir, durDir, writer, readers, history>>

\* Seeded fault: a failed rollback does not poison the writer.
rollback_fails_quietly ==
    /\ pc = "rollback"
    /\ \/ UNCHANGED files
       \/ files' = [files EXCEPT ![active] = Truncated(@, Len(active_hash))]
    /\ pc' = "ready"
    /\ batch' = <<>>
    /\ UNCHANGED <<dir, durDir, writer, poisoned, readers, history>>

\* Either half of the rollback fails.
rollback_fails ==
    /\ pc = "rollback"
    /\ \/ UNCHANGED files
       \/ files' = [files EXCEPT ![active] = Truncated(@, Len(active_hash))]
    /\ poisoned' = TRUE
    /\ pc' = "ready"
    /\ batch' = <<>>
    /\ UNCHANGED <<dir, durDir, writer, readers, history>>

---------------------------------------------------------------------------
(* JournalService: registration of the writer, capture by readers. *)

register ==
    /\ pc = "ready"
    /\ published = NoView
    /\ published' = read_view
    /\ UNCHANGED <<disk, pc, writer, poisoned, batch, views, history>>

\* The registration goes first; the lock is still held.
unregister ==
    /\ pc = "ready"
    /\ published' = NoView
    /\ pc' = "closing"
    /\ UNCHANGED <<disk, writer, poisoned, batch, views, history>>

\* Dropping the writer releases its lock.
release ==
    /\ pc = "closing"
    /\ Forget
    /\ UNCHANGED <<disk, readers, history>>

\* capture_admitted: the registered owner's published prefix, whatever its
\* append is doing; without an owner the directory itself, under the lock no
\* writer holds, unless its last record is incomplete.
capture(r) ==
    /\ views[r] = NoView
    /\ \/ /\ published # NoView
          /\ views' = [views EXCEPT ![r] = published]
       \/ /\ published = NoView
          /\ pc = "closed"
          /\ dir.active # NoFile
          /\ CatalogOK(dir.sealed)
          /\ ~files[dir.active].torn
          /\ ValidFrom(files[dir.active].data, SealedNext(dir.sealed))
          /\ views' = [views EXCEPT ![r] = offline_view]
    /\ UNCHANGED <<disk, pc, writer, poisoned, batch, published, history>>

drop_view(r) ==
    /\ views[r] # NoView
    /\ views' = [views EXCEPT ![r] = NoView]
    /\ UNCHANGED <<disk, pc, writer, poisoned, batch, published, history>>

---------------------------------------------------------------------------
(* Crashes. *)

\* The process dies at any point; the page cache and the views of other
\* processes stay.
Kill ==
    /\ pc # "closed"
    /\ Forget
    /\ published' = NoView
    /\ views' = [r \in Readers |-> IF views[r].live THEN NoView ELSE views[r]]
    /\ UNCHANGED <<disk, history>>

\* What may be left of a file: at least what was synchronized, perhaps more
\* of what was written, perhaps with an incomplete record at the end.
Remains(file) ==
    {[data |-> SubSeq(file.data, 1, k), torn |-> FALSE, stable |-> k] :
        k \in file.stable..Len(file.data)}
    \cup {[data |-> SubSeq(file.data, 1, k), torn |-> TRUE, stable |-> k] :
        k \in file.stable..(Len(file.data) - (IF file.torn THEN 0 ELSE 1))}

Dirty == {f \in Ids : files[f].stable < Len(files[f].data) \/ files[f].torn}

PowerLoss ==
    /\ \E left \in [Dirty -> UNION {Remains(files[f]) : f \in Dirty}] :
          /\ \A f \in Dirty : left[f] \in Remains(files[f])
          /\ files' = [f \in Ids |-> IF f \in Dirty THEN left[f] ELSE files[f]]
    /\ \E left \in {dir, durDir} : dir' = left /\ durDir' = left
    /\ Forget
    /\ published' = NoView
    /\ views' = [r \in Readers |-> NoView]
    /\ UNCHANGED history

---------------------------------------------------------------------------
Writer ==
    \/ open \/ open_sync \/ open_repair \/ open_fails
    \/ \E first \in 0..MaxSeq, n \in 1..MaxSegment :
          \E vals \in [1..n -> Vals] : append_prepared(first, vals)
    \/ verify_fails
    \/ seal_rename \/ seal_rename_sync \/ seal_create \/ seal_finish \/ seal_fails
    \/ metadata_fails
    \/ \E written \in 0..MaxSegment, torn \in BOOLEAN : write_event_bytes(written, torn)
    \/ sync_event_file \/ sync_fails
    \/ settle \/ settle_fails
    \/ rollback \/ rollback_fails
    \/ register \/ unregister \/ release

Next ==
    \/ Writer
    \/ \E r \in Readers : capture(r) \/ drop_view(r)
    \/ Kill \/ PowerLoss

Spec == Init /\ [][Next]_vars

---------------------------------------------------------------------------
(* Properties. *)

AckedNext == SealedNext(acked)

\* The records of directory d that no power loss can take away.
Durable(d) ==
    UNION {{files[f].data[k] : k \in 1..files[f].stable} :
              f \in {d.sealed[i].first : i \in 1..Len(d.sealed)} \cup ({d.active} \ {NoFile})}

\* A sealed segment would be read whole after a power loss.
Survives(segment) ==
    /\ files[segment.first].data = segment.digest
    /\ files[segment.first].stable = Len(segment.digest)

\* Whatever a power loss leaves of the directory and the files, every
\* acknowledged record is still stored, and every sealed segment a reader has
\* to go through to reach it is whole.
AckedDurable ==
    \A d \in {dir, durDir} :
        /\ \A i \in 1..Len(d.sealed) :
              d.sealed[i].first < AckedNext => Survives(d.sealed[i])
        /\ \A i \in 1..Len(acked) : \A j \in 1..Len(acked[i].digest) :
              acked[i].digest[j] \in Durable(d)

\* Acknowledged events survive every crash at every step of an append, a
\* rollback, a seal or an open, as long as no file was sealed before an fsync
\* covered its records.
AcknowledgedSurvive == ~sealedDirty => AckedDurable

\* Records that reached the disk are never taken back: not by a rollback, a
\* repair of the tail, a rotation or a crash.
DurableOnlyGrows == [][Durable(durDir) \subseteq Durable(durDir)']_vars

\* A captured prefix stays readable while appends, rollbacks, rotations and
\* new writers go on, and so does the published one (under the condition of
\* AcknowledgedSurvive: a view may be captured after a crash).
ViewsStayReadable ==
    ~sealedDirty =>
    \A v \in {views[r] : r \in Readers} \cup {published} : Readable(v)

\* The current owner's prefix_at answers for the prefix before `next', and
\* answers `identity'.  After a power loss that cut a segment sealed before an
\* fsync covered it the call may fail, and gives no other answer.
FoundAgain(next, identity) ==
    /\ next <= next_sequence
    /\ prefix_at(read_view, next) \subseteq {identity}
    /\ ~sealedDirty => prefix_at(read_view, next) # {}

\* The identity of a captured prefix is found again by the current owner,
\* wherever the rotation has put its records since, and no reader is ahead of
\* it; the owner of a reopened journal finds the acknowledged prefix under the
\* identity it was acknowledged with.  Only a segment sealed before an fsync
\* covered it can make the search fail, and it never finds another prefix.
IdentityStable ==
    pc = "ready" =>
        /\ \A r \in Readers : FoundAgain(views[r].next, prefix_identity(views[r]))
        /\ FoundAgain(AckedNext, acked)

\* A writer that is not poisoned knows exactly what is in the directory, so
\* the length check before a write never fires.
WriterKnowsDisk ==
    pc \in {"ready", "writing"} /\ ~poisoned =>
        /\ dir.active = active /\ dir.sealed = segments
        /\ files[active].data = active_hash /\ ~files[active].torn
        /\ active_first = SealedNext(segments)
        /\ next_sequence = active_first + Len(active_hash)

\* Whatever interrupted the writer, and whichever directory a crash leaves,
\* the journal can be opened: names are contiguous, the records of the active
\* file go on where they end, and the file is not too large to be read.
AlwaysReopens ==
    \A d \in {dir, durDir} :
        /\ CatalogOK(d.sealed)
        /\ d.active # NoFile =>
              /\ ValidFrom(files[d.active].data, SealedNext(d.sealed))
              /\ Len(files[d.active].data) <= MaxSegment

===========================================================================
