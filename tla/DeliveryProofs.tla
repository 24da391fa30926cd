---------------------------- MODULE DeliveryProofs ----------------------------
(*****************************************************************************)
(* Proofs about SessionSubscription, for any number of subscriptions and     *)
(* clients and any capacity, batch and page size.  The inductive invariant   *)
(* IInv says that the ring is an unbroken suffix of what was published       *)
(* (RingInv), that publication follows the journal (JournalInv), what each   *)
(* subscription has handed over, holds and may still read (CursorInv), and   *)
(* that every sleeping receiver and every addressed transient event is       *)
(* accounted for.  From it follow the safety properties and, with a mapping  *)
(* of phases to stages, the refinement of OrderedDelivery.                   *)
(*****************************************************************************)
EXTENDS SessionSubscription, SequenceTheorems, WellFoundedInduction, TLAPS

\* Every non-empty set of naturals has a least element.
LEMMA LeastNatural ==
    ASSUME NEW T \in SUBSET Nat, T # {}
    PROVE  \E m \in T : \A x \in T : m <= x
<1>1. \E m \in T : \A x \in T : ~(<<x, m>> \in OpToRel(<, Nat))
  BY WFMin, NatLessThanWellFounded, Zenon
<1>2. \A m, x \in Nat : ~(<<x, m>> \in OpToRel(<, Nat)) => m <= x
  BY SMT DEF OpToRel
<1> QED BY <1>1, <1>2

\* reclaim_observed keeps a suffix: what it drops was observed by every live
\* cursor, and its first remaining frame was not.
LEMMA ReclaimKeepsSuffix ==
    ASSUME NEW fs \in Seq(Frame), NEW cursor, NEW live
    PROVE  \E k \in 0..Len(fs) :
              /\ reclaim_observed(fs, cursor, live) = SubSeq(fs, k + 1, Len(fs))
              /\ \A i \in 1..k : Observed(fs[i], cursor, live)
              /\ k < Len(fs) => ~Observed(fs[k + 1], cursor, live)
<1> DEFINE T == {k \in 0..Len(fs) : k < Len(fs) => ~Observed(fs[k + 1], cursor, live)}
           P(k) == /\ \A i \in 1..k : Observed(fs[i], cursor, live)
                   /\ k < Len(fs) => ~Observed(fs[k + 1], cursor, live)
<1>1. T \in SUBSET Nat /\ T # {}
  <2>1. Len(fs) \in T
    BY LenProperties
  <2> QED BY <2>1
<1>2. PICK m \in T : \A x \in T : m <= x
  BY <1>1, LeastNatural
<1>3. P(m)
  <2>1. m \in 0..Len(fs) /\ Len(fs) \in Nat
    BY LenProperties
  <2>2. ASSUME NEW i \in 1..m PROVE Observed(fs[i], cursor, live)
    <3> HIDE DEF T
    <3>1. i - 1 \notin T
      BY <1>2, <2>1
    <3> USE DEF T
    <3>2. i - 1 \in 0..Len(fs) /\ i - 1 < Len(fs) /\ (i - 1) + 1 = i
      BY <2>1
    <3> QED BY <3>1, <3>2
  <2> QED BY <2>2
<1>4. \E k \in 0..Len(fs) : P(k)
  BY <1>3
<1> DEFINE n == CHOOSE k \in 0..Len(fs) : P(k)
<1>5. n \in 0..Len(fs) /\ P(n)
  BY <1>4
<1>6. reclaim_observed(fs, cursor, live) = SubSeq(fs, n + 1, Len(fs))
  BY Zenon DEF reclaim_observed
<1> HIDE DEF n
<1> QED BY <1>5, <1>6

\* What the invariant proofs use of it: r is a suffix of fs that keeps every frame
\* some live cursor has not passed.
KeepsUnseen(fs, cursor, live, r) ==
    /\ r \in Seq(Frame)
    /\ Len(r) \in Nat
    /\ Len(r) <= Len(fs)
    /\ \A i \in 1..Len(r) : r[i] = fs[i + Len(fs) - Len(r)]
    /\ \A i \in 1..Len(fs) : \A s \in live :
          cursor[s] < fs[i].ordinal => \E j \in 1..Len(r) : r[j] = fs[i]

\* reclaim_observed returns such a suffix.
LEMMA ReclaimFacts ==
    ASSUME NEW fs \in Seq(Frame), NEW cursor, NEW live,
           \A s \in live : cursor[s] \in Nat
    PROVE  KeepsUnseen(fs, cursor, live, reclaim_observed(fs, cursor, live))
<1> DEFINE r == reclaim_observed(fs, cursor, live)
<1>1. PICK k \in 0..Len(fs) :
        /\ r = SubSeq(fs, k + 1, Len(fs))
        /\ \A i \in 1..k : Observed(fs[i], cursor, live)
  BY ReclaimKeepsSuffix
<1>2. Len(fs) \in Nat /\ \A i \in 1..Len(fs) : fs[i] \in Frame
  BY LenProperties, ElementOfSeq
<1>3. /\ r \in Seq(Frame)
      /\ Len(r) = Len(fs) - k
      /\ \A i \in 1..Len(fs) - k : r[i] = fs[k + i]
  <2>1. k + 1 \in Int /\ \A i \in (k + 1)..Len(fs) : fs[i] \in Frame
    BY <1>2
  <2> QED BY <1>1, <1>2, <2>1, SubSeqProperties
<1>4. ASSUME NEW i \in 1..Len(fs), NEW s \in live, cursor[s] < fs[i].ordinal
      PROVE  \E j \in 1..Len(r) : r[j] = fs[i]
  <2>1. ~(i \in 1..k)
    <3>1. cursor[s] \in Nat /\ fs[i].ordinal \in Nat
      BY <1>2 DEF Frame
    <3> QED BY <1>1, <1>4, <3>1 DEF Observed
  <2>2. i - k \in 1..Len(r) /\ r[i - k] = fs[i]
    BY <1>2, <1>3, <2>1
  <2> QED BY <2>2
<1> HIDE DEF r
<1>5. \A i \in 1..Len(r) : r[i] = fs[i + Len(fs) - Len(r)]
  BY <1>2, <1>3
<1>6. Len(r) \in Nat /\ Len(r) <= Len(fs)
  BY <1>2, <1>3
<1>7. KeepsUnseen(fs, cursor, live, r)
  BY <1>3, <1>4, <1>5, <1>6 DEF KeepsUnseen
<1> QED BY <1>7 DEF r
-------------------------------------------------------------------------------
(* The inductive invariant.                                                   *)

\* The ring is a suffix of the published frames, no cursor is ahead of it, and an
\* empty ring means that every live cursor is at its end.
RingInv ==
    /\ Len(frames) <= Capacity
    /\ \A i \in 1..Len(frames) :
          /\ frames[i].ordinal = ordinal - Len(frames) + i
          /\ frames[i].ordinal > 0
    /\ \A s \in Live : seen[s] <= ordinal
    /\ frames = <<>> => \A s \in Live : seen[s] = ordinal

\* Publication follows the journal, and the frame with ordinal `fence` is the
\* session-wide frame of the last published event.
JournalInv ==
    /\ published <= tail
    /\ outbox.next > 0
    /\ outbox.last <= tail
    /\ fence <= ordinal
    /\ \A i \in 1..Len(frames) :
          /\ frames[i].source <= tail
          /\ frames[i].ordinal = fence =>
                frames[i].target = Everyone /\ frames[i].source = published

\* What a subscription has handed over, holds in pages, and may still read.
CursorInv(s) ==
    /\ phase[s] \notin {"none", "ended", "broken"} => conn[s] = "live"
    /\ last[s] = from[s] + Len(out[s])
    /\ \A i \in 1..Len(out[s]) : out[s][i] = from[s] + i
    /\ last[s] <= tail
    /\ view[s] <= tail
    /\ view[s] # NoView => last[s] + Len(pending[s]) <= view[s]
    /\ view[s] = NoView => pending[s] = <<>> /\ read[s].status = "none"
    /\ \A i \in 1..Len(pending[s]) : pending[s][i] = last[s] + i
    /\ read[s].status # "none" =>
          /\ read[s].after = last[s]
          /\ last[s] < view[s]
          /\ pending[s] = <<>>
          /\ read[s].after + read[s].count <= view[s]
    /\ phase[s] \in {"none", "joining", "live", "waiting", "capture", "closing"} =>
          view[s] = NoView
    /\ phase[s] \in {"none", "joining"} => last[s] = 0 /\ out[s] = <<>>

\* Anything published is already handed over, or inside the prefix being
\* replayed, or ahead of the cursor, unless recv is about to capture the tail.
Covered(s) ==
    phase[s] \in {"head", "body", "live", "waiting"} =>
        published <= last[s] \/ published <= view[s] \/ seen[s] < fence

\* A sleeping receiver without a notification has read the whole open channel.
Asleep(s) ==
    phase[s] = "waiting" /\ waker[s] = "armed" =>
        ~failed[s] /\ ~closed /\ seen[s] = ordinal

\* An event owed to an unfailed subscriber was heard, or is a transient frame
\* ahead of its cursor.
Kept(s, o) ==
    \/ o \in heard[s]
    \/ /\ o > seen[s]
       /\ \E i \in 1..Len(frames) :
             /\ frames[i].ordinal = o
             /\ frames[i].source = NoSource
             /\ frames[i].payload
             /\ Addressed(s, frames[i].target)

TransientInv(s) ==
    /\ conn[s] = "none" => owed[s] = {}
    /\ conn[s] = "live" /\ ~failed[s] => \A o \in owed[s] : Kept(s, o)

SubsInv ==
    \A s \in Subs : CursorInv(s) /\ Covered(s) /\ Asleep(s) /\ TransientInv(s)

IInv == TypeOK /\ RingInv /\ JournalInv /\ SubsInv
-------------------------------------------------------------------------------
(* What the ring's operations do to the frames, cursors and failure flags.    *)

\* What reclaiming a contiguous ring leaves behind is contiguous again, and empty
\* only if every live cursor has reached its end.
Contiguous(fs, o) == \A i \in 1..Len(fs) : fs[i].ordinal = o - Len(fs) + i

\* What is left after reclaiming still ends at the newest ordinal, and is only
\* empty when every live cursor is there.
LEMMA ReclaimContiguous ==
    ASSUME NEW fs \in Seq(Frame), NEW o \in Nat, NEW cursor, NEW live,
           \A s \in live : cursor[s] \in Nat /\ cursor[s] <= o,
           Contiguous(fs, o),
           fs = <<>> => \A s \in live : cursor[s] = o,
           NEW r, KeepsUnseen(fs, cursor, live, r)
    PROVE  /\ Contiguous(r, o)
           /\ r = <<>> => \A s \in live : cursor[s] = o
<1>1. /\ r \in Seq(Frame)
      /\ Len(r) <= Len(fs)
      /\ \A i \in 1..Len(r) : r[i] = fs[i + Len(fs) - Len(r)]
      /\ \A i \in 1..Len(fs) : \A s \in live :
            cursor[s] < fs[i].ordinal => \E j \in 1..Len(r) : r[j] = fs[i]
  BY DEF KeepsUnseen
<1>2. Len(fs) \in Nat /\ Len(r) \in Nat
  BY <1>1, LenProperties
<1>3. ASSUME NEW i \in 1..Len(r) PROVE r[i].ordinal = o - Len(r) + i
  <2> DEFINE m == i + Len(fs) - Len(r)
  <2>1. m \in 1..Len(fs) /\ m = i + Len(fs) - Len(r) /\ r[i] = fs[m]
    BY <1>1, <1>2
  <2> HIDE DEF m
  <2>2. fs[m].ordinal = o - Len(fs) + m
    BY <2>1 DEF Contiguous
  <2> QED BY <1>2, <2>1, <2>2
<1>4. ASSUME r = <<>>, NEW s \in live PROVE cursor[s] = o
  <2>1. CASE fs = <<>>
    BY <2>1
  <2>2. CASE fs # <<>>
    <3>1. Len(fs) \in 1..Len(fs) /\ fs[Len(fs)].ordinal = o
      BY <1>2, <2>2, EmptySeq DEF Contiguous
    <3>2. Len(r) = 0
      BY <1>4
    <3>3. ~(cursor[s] < o)
      BY <1>1, <3>1, <3>2
    <3> QED BY <3>3
  <2> QED BY <2>1, <2>2
<1> QED BY <1>3, <1>4 DEF Contiguous

NewFrame(target, source, payload) ==
    [target |-> target, source |-> source, payload |-> payload, ordinal |-> ordinal + 1]

\* What one accepted publication leaves in the ring for every live subscriber.
Published(f) ==
    /\ RingTypeOK' /\ RingInv' /\ Live' = Live
    /\ ordinal' = ordinal + 1
    /\ \A i \in 1..Len(frames') :
          frames'[i] = f \/ \E j \in 1..Len(frames) : frames'[i] = frames[j]
    /\ \A s \in Live : \E i \in 1..Len(frames') : frames'[i] = f
    /\ \A s \in Live : \A j \in 1..Len(frames) :
          /\ frames[j].ordinal > seen[s]
          /\ frames[j].source = NoSource
          /\ Addressed(s, frames[j].target)
          => failed'[s] \/ \E i \in 1..Len(frames') : frames'[i] = frames[j]
    /\ \A s \in Subs : failed[s] => failed'[s]

\* LiveEvents::publish, when it accepts a frame, does what the invariant needs:
\* it appends the frame, fails whoever lost a transient one, and wakes sleepers.
LEMMA PublishAccepted ==
    ASSUME IInv, NEW target \in Targets, NEW source \in Nat, NEW payload \in BOOLEAN,
           publish(target, source, payload), payload \/ source # NoSource
    PROVE  Published(NewFrame(target, source, payload))
<1> USE DEF NoSource
<1> DEFINE f == NewFrame(target, source, payload)
<1>1. RingTypeOK /\ RingInv /\ f \in Frame
  BY DEF IInv, TypeOK, RingTypeOK, Frame, NewFrame
<1>2. f.ordinal = ordinal + 1 /\ ordinal \in Nat /\ Len(frames) \in Nat /\ Capacity \in Nat \ {0}
  BY <1>1, LenProperties, RingAssumption DEF RingTypeOK, NewFrame
<1> DEFINE full == Len(frames) = Capacity
           kept == IF full THEN Tail(frames) ELSE frames
           fs == Append(kept, f)
<1>3. /\ ordinal' = ordinal + 1
      /\ frames' = reclaim_observed(fs, seen, Live)
      /\ failed' = IF full /\ frames[1].source = NoSource
                      THEN fail_unseen(frames[1].target, frames[1].ordinal)
                      ELSE failed
      /\ UNCHANGED <<closed, conn, client, seen>>
      /\ waker' = [s \in Subs |-> IF waker[s] = "armed" THEN "woken" ELSE waker[s]]
  BY DEF publish, push, notify_waiters, NewFrame
<1> HIDE DEF f
<1>4. /\ kept \in Seq(Frame)
      /\ Len(kept) < Capacity
      /\ ~full => kept = frames
      /\ full => /\ Len(kept) = Len(frames) - 1
                 /\ \A i \in 1..Len(kept) : kept[i] = frames[i + 1]
  <2>1. CASE full
    <3>1. frames # <<>>
      BY <1>2, <2>1
    <3> QED BY <1>1, <1>2, <2>1, <3>1, HeadTailProperties DEF RingTypeOK
  <2>2. CASE ~full
    BY <1>1, <1>2, <2>2 DEF RingTypeOK, RingInv
  <2> QED BY <2>1, <2>2
<1> HIDE DEF full, kept
<1>5. \A i \in 1..Len(kept) : kept[i].ordinal = ordinal - Len(kept) + i /\ kept[i].ordinal > 0
  <2>1. Len(kept) \in Nat
    BY <1>4, LenProperties
  <2>2. CASE full
    <3>1. ASSUME NEW i \in 1..Len(kept)
          PROVE  kept[i].ordinal = ordinal - Len(kept) + i /\ kept[i].ordinal > 0
      <4>1. i + 1 \in 1..Len(frames) /\ kept[i] = frames[i + 1] /\ Len(kept) = Len(frames) - 1
        BY <1>2, <1>4, <2>1, <2>2
      <4> QED BY <1>1, <1>2, <4>1 DEF RingInv
    <3> QED BY <3>1
  <2>3. CASE ~full
    BY <1>1, <1>4, <2>3 DEF RingInv
  <2> QED BY <2>2, <2>3
<1>6. /\ fs \in Seq(Frame) /\ fs # <<>>
      /\ Len(fs) = Len(kept) + 1 /\ Len(kept) \in Nat
      /\ \A i \in 1..Len(kept) : fs[i] = kept[i]
      /\ fs[Len(fs)] = f
  BY <1>1, <1>4, AppendProperties, LenProperties
<1> HIDE DEF fs
<1>7. \A s \in Live : seen[s] \in Nat /\ seen[s] <= ordinal + 1 /\ seen[s] <= ordinal
  BY <1>1, <1>2 DEF RingInv, RingTypeOK, Live
<1>8. ASSUME NEW i \in 1..Len(fs)
      PROVE  fs[i].ordinal = (ordinal + 1) - Len(fs) + i /\ fs[i].ordinal > 0
  <2>1. CASE i = Len(fs)
    BY <1>2, <1>6, <2>1
  <2>2. CASE i # Len(fs)
    <3>1. i \in 1..Len(kept) /\ fs[i] = kept[i]
      BY <1>6, <2>2
    <3> QED BY <1>2, <1>5, <1>6, <3>1
  <2> QED BY <2>1, <2>2
<1>9a. KeepsUnseen(fs, seen, Live, frames')
  BY <1>3, <1>6, <1>7, ReclaimFacts
<1>9. /\ frames' \in Seq(Frame) /\ Len(frames') \in Nat
      /\ Len(frames') <= Len(fs)
      /\ \A i \in 1..Len(frames') : frames'[i] = fs[i + Len(fs) - Len(frames')]
      /\ \A i \in 1..Len(fs) : \A s \in Live :
            seen[s] < fs[i].ordinal => \E j \in 1..Len(frames') : frames'[j] = fs[i]
  BY <1>9a DEF KeepsUnseen
<1>10. /\ Contiguous(frames', ordinal + 1)
       /\ frames' = <<>> => \A s \in Live : seen[s] = ordinal + 1
  <2>1. Contiguous(fs, ordinal + 1)
    BY <1>8 DEF Contiguous
  <2>2. ordinal + 1 \in Nat /\ \A s \in Live : seen[s] \in Nat /\ seen[s] <= ordinal + 1
    BY <1>2, <1>7
  <2>3. fs \in Seq(Frame) /\ (fs = <<>> => \A s \in Live : seen[s] = ordinal + 1)
    BY <1>6
  <2> QED BY <1>9a, <2>1, <2>2, <2>3, ReclaimContiguous
<1>11. \A i \in 1..Len(frames') : i + Len(fs) - Len(frames') \in 1..Len(fs)
  BY <1>6, <1>9
<1>12. Live' = Live
  BY <1>3 DEF Live
<1>13. failed' \in [Subs -> BOOLEAN] /\ \A s \in Subs : failed[s] => failed'[s]
  BY <1>1, <1>3, Zenon DEF fail_unseen, RingTypeOK
<1>14. RingTypeOK'
  BY <1>1, <1>2, <1>3, <1>9, <1>13 DEF RingTypeOK
<1>15. RingInv'
  <2>1. Len(frames') <= Capacity
    BY <1>2, <1>4, <1>6, <1>9
  <2> QED BY <1>3, <1>7, <1>8, <1>9, <1>10, <1>11, <1>12, <2>1 DEF RingInv, Contiguous
<1>16. ASSUME NEW i \in 1..Len(fs)
       PROVE  fs[i] = f \/ \E j \in 1..Len(frames) : fs[i] = frames[j]
  <2>1. CASE i = Len(fs)
    BY <1>6, <2>1
  <2>2. CASE i # Len(fs)
    <3>1. i \in 1..Len(kept) /\ fs[i] = kept[i]
      BY <1>6, <2>2
    <3>2. CASE full
      <4>1. i + 1 \in 1..Len(frames) /\ kept[i] = frames[i + 1]
        BY <1>2, <1>4, <3>1, <3>2
      <4> QED BY <3>1, <4>1
    <3>3. CASE ~full
      BY <1>4, <3>1, <3>3
    <3> QED BY <3>2, <3>3
  <2> QED BY <2>1, <2>2
<1>17. \A s \in Live : \E i \in 1..Len(frames') : frames'[i] = f
  <2>1. Len(fs) \in 1..Len(fs)
    BY <1>6
  <2>2. \A s \in Live : seen[s] < fs[Len(fs)].ordinal
    BY <1>2, <1>6, <1>7
  <2> QED BY <1>6, <1>9, <2>1, <2>2
<1>18. ASSUME NEW s \in Live, NEW j \in 1..Len(frames),
              frames[j].ordinal > seen[s], frames[j].source = NoSource,
              Addressed(s, frames[j].target), ~failed'[s]
       PROVE  \E i \in 1..Len(frames') : frames'[i] = frames[j]
  <2>1. ~(full /\ j = 1)
    <3>1. SUFFICES ASSUME full, j = 1 PROVE FALSE
      OBVIOUS
    <3>2. failed'[s] = (failed[s] \/ (s \in Live /\ Addressed(s, frames[1].target) /\ seen[s] < frames[1].ordinal))
      BY <1>3, <1>18, <3>1, Zenon DEF fail_unseen, Live
    <3>3. seen[s] < frames[1].ordinal
      BY <1>1, <1>7, <1>18, <3>1, ElementOfSeq DEF RingTypeOK, Frame
    <3> QED BY <1>18, <3>1, <3>2, <3>3
  <2>2. PICK i \in 1..Len(fs) : fs[i] = frames[j]
    <3>1. CASE full
      <4>1. j - 1 \in 1..Len(kept) /\ j - 1 \in 1..Len(fs)
        BY <1>2, <1>4, <1>6, <2>1, <3>1
      <4>2. kept[j - 1] = frames[(j - 1) + 1]
        BY <1>4, <3>1, <4>1
      <4> QED BY <1>6, <4>1, <4>2
    <3>2. CASE ~full
      BY <1>2, <1>4, <1>6, <3>2
    <3> QED BY <3>1, <3>2
  <2>3. seen[s] < fs[i].ordinal
    BY <1>1, <1>6, <1>7, <1>18, <2>2, ElementOfSeq DEF RingTypeOK, Frame
  <2> QED BY <1>9, <2>2, <2>3
<1>19. \A i \in 1..Len(frames') :
         frames'[i] = f \/ \E j \in 1..Len(frames) : frames'[i] = frames[j]
  BY <1>9, <1>11, <1>16
<1>20. Published(f)
  BY <1>3, <1>12, <1>13, <1>14, <1>15, <1>17, <1>18, <1>19 DEF Published
<1> QED BY <1>20 DEF f

\* A rejected transient event changes nothing but the failure flags.
LEMMA PublishRejected ==
    ASSUME IInv, NEW target \in Targets,
           publish(target, NoSource, FALSE)
    PROVE  /\ RingTypeOK' /\ RingInv' /\ Live' = Live
           /\ UNCHANGED <<frames, ordinal, closed, conn, client, seen>>
           /\ \A s \in Subs : failed[s] => failed'[s]
           /\ \A s \in Live : Addressed(s, target) => failed'[s]
<1>1. RingTypeOK /\ RingInv
  BY DEF IInv, TypeOK
<1>2. /\ failed' = fail_unseen(target, ordinal + 1)
      /\ waker' = [s \in Subs |-> IF waker[s] = "armed" THEN "woken" ELSE waker[s]]
      /\ UNCHANGED <<frames, ordinal, closed, conn, client, seen>>
  BY DEF publish, notify_waiters
<1>3. \A s \in Live : seen[s] < ordinal + 1
  BY <1>1 DEF RingTypeOK, RingInv, Live
<1>4. /\ failed' \in [Subs -> BOOLEAN]
      /\ \A s \in Subs : failed[s] => failed'[s]
      /\ \A s \in Live : Addressed(s, target) => failed'[s]
  BY <1>1, <1>2, <1>3, Zenon DEF fail_unseen, RingTypeOK, Live
<1>5. RingTypeOK'
  BY <1>1, <1>2, <1>4 DEF RingTypeOK
<1>6. RingInv' /\ Live' = Live
  BY <1>1, <1>2 DEF RingInv, Live
<1> QED BY <1>2, <1>4, <1>5, <1>6

\* A step that only moves cursors forward and reclaims leaves an unbroken suffix
\* holding every frame that some live cursor has still to pass.
LEMMA ReclaimStep ==
    ASSUME IInv, NEW cursor \in [Subs -> Nat], NEW live \in SUBSET Subs,
           \A s \in live : cursor[s] <= ordinal,
           frames = <<>> => \A s \in live : cursor[s] = ordinal,
           frames' = reclaim_observed(frames, cursor, live)
    PROVE  /\ frames' \in Seq(Frame)
           /\ Len(frames') <= Capacity
           /\ \A i \in 1..Len(frames') :
                 /\ frames'[i].ordinal = ordinal - Len(frames') + i
                 /\ frames'[i].ordinal > 0
           /\ frames' = <<>> => \A s \in live : cursor[s] = ordinal
           /\ \A i \in 1..Len(frames') : \E j \in 1..Len(frames) : frames'[i] = frames[j]
           /\ \A s \in live : \A j \in 1..Len(frames) :
                 frames[j].ordinal > cursor[s] => \E i \in 1..Len(frames') : frames'[i] = frames[j]
<1>1. /\ frames \in Seq(Frame) /\ ordinal \in Nat /\ Len(frames) \in Nat
      /\ Len(frames) <= Capacity /\ Capacity \in Nat
      /\ Contiguous(frames, ordinal)
      /\ \A i \in 1..Len(frames) : frames[i].ordinal > 0 /\ frames[i].ordinal \in Nat
  BY LenProperties, ElementOfSeq, RingAssumption
     DEF IInv, TypeOK, RingTypeOK, RingInv, Contiguous, Frame
<1>2. \A s \in live : cursor[s] \in Nat /\ cursor[s] <= ordinal
  OBVIOUS
<1>3. KeepsUnseen(frames, cursor, live, frames')
  BY <1>1, <1>2, ReclaimFacts
<1>4. Contiguous(frames', ordinal) /\ (frames' = <<>> => \A s \in live : cursor[s] = ordinal)
  BY <1>1, <1>2, <1>3, ReclaimContiguous
<1>5. /\ frames' \in Seq(Frame) /\ Len(frames') \in Nat
      /\ Len(frames') <= Len(frames)
      /\ \A i \in 1..Len(frames') : frames'[i] = frames[i + Len(frames) - Len(frames')]
      /\ \A i \in 1..Len(frames) : \A s \in live :
            cursor[s] < frames[i].ordinal => \E j \in 1..Len(frames') : frames'[j] = frames[i]
  BY <1>3 DEF KeepsUnseen
<1>6. \A i \in 1..Len(frames') : i + Len(frames) - Len(frames') \in 1..Len(frames)
  BY <1>1, <1>5
<1>7. \A i \in 1..Len(frames') : \E j \in 1..Len(frames) : frames'[i] = frames[j]
  BY <1>5, <1>6
<1>8. \A s \in live : \A j \in 1..Len(frames) :
         frames[j].ordinal > cursor[s] => \E i \in 1..Len(frames') : frames'[i] = frames[j]
  BY <1>1, <1>2, <1>5
<1>9. Len(frames') <= Capacity
  BY <1>1, <1>5
<1> QED BY <1>1, <1>4, <1>5, <1>7, <1>8, <1>9 DEF Contiguous

\* The frames of the ring and their fields have their types.
LEMMA FrameTypes ==
    ASSUME IInv
    PROVE  /\ frames \in Seq(Frame) /\ Len(frames) \in Nat
           /\ \A i \in 1..Len(frames) :
                 /\ frames[i] \in Frame
                 /\ frames[i].ordinal \in Nat
                 /\ frames[i].source \in Nat
                 /\ frames[i].ordinal <= ordinal
<1>1. frames \in Seq(Frame) /\ ordinal \in Nat
  BY DEF IInv, TypeOK, RingTypeOK
<1>2. Len(frames) \in Nat /\ \A i \in 1..Len(frames) : frames[i] \in Frame
  BY <1>1, LenProperties, ElementOfSeq
<1>3. \A i \in 1..Len(frames) : frames[i].ordinal \in Nat /\ frames[i].source \in Nat
  BY <1>2 DEF Frame
<1>4. \A i \in 1..Len(frames) : frames[i].ordinal <= ordinal
  BY <1>1, <1>2 DEF IInv, RingInv
<1> QED BY <1>1, <1>2, <1>3, <1>4

\* The initial state satisfies the invariant.
LEMMA InitIInv == Init => IInv
<1> SUFFICES ASSUME Init PROVE IInv
  OBVIOUS
<1> USE DEF Init, RingInit
<1>1. TypeOK
  BY EmptySeq DEF TypeOK, RingTypeOK, Targets, Phases, ReadTask, NoRead, NoView
<1>2. RingInv /\ JournalInv
  BY RingAssumption DEF RingInv, JournalInv, Live
<1>3. SubsInv
  BY DEF SubsInv, CursorInv, Covered, Asleep, TransientInv, NoRead, NoView
<1> QED BY <1>1, <1>2, <1>3 DEF IInv

\* What one subscription's step must establish when only its own cursor moves.
CursorTypeOK ==
    /\ phase \in [Subs -> Phases]
    /\ last \in [Subs -> Nat]
    /\ view \in [Subs -> Nat \cup {NoView}]
    /\ read \in [Subs -> ReadTask]
    /\ pending \in [Subs -> Seq(Nat)]
    /\ from \in [Subs -> Nat]
    /\ out \in [Subs -> Seq(Nat)]

OnlyCursorOf(s) ==
    \A t \in Subs \ {s} :
        /\ phase'[t] = phase[t] /\ last'[t] = last[t] /\ view'[t] = view[t]
        /\ read'[t] = read[t] /\ pending'[t] = pending[t]
        /\ from'[t] = from[t] /\ out'[t] = out[t]

\* A step on the cursor of one subscription keeps the facts of the others.
LEMMA OthersKeepCursor ==
    ASSUME IInv, NEW s \in Subs, OnlyCursorOf(s), UNCHANGED <<conn, tail>>
    PROVE  \A t \in Subs \ {s} : CursorInv(t)'
BY DEF IInv, SubsInv, CursorInv, OnlyCursorOf

\* A step of one subscription that leaves the ring, the journal and the
\* transient events alone keeps the invariant when it keeps its own facts.
LEMMA LocalFrame ==
    ASSUME IInv, NEW s \in Subs,
           UNCHANGED <<ringVars, journalVars, transientVars>>,
           CursorTypeOK', OnlyCursorOf(s),
           CursorInv(s)', Covered(s)', phase'[s] # "waiting"
    PROVE  IInv'
<1> USE DEF ringVars, journalVars, transientVars
<1>1. TypeOK'
  BY DEF IInv, TypeOK, RingTypeOK, CursorTypeOK
<1>2. RingInv' /\ JournalInv'
  BY DEF IInv, RingInv, JournalInv, Live
<1>3. \A t \in Subs : CursorInv(t)'
  BY OthersKeepCursor
<1>4. \A t \in Subs : Covered(t)' /\ Asleep(t)'
  BY DEF IInv, SubsInv, Covered, Asleep, OnlyCursorOf
<1>5. \A t \in Subs : TransientInv(t)'
  BY DEF IInv, SubsInv, TransientInv, Kept, Addressed
<1> QED BY <1>1, <1>2, <1>3, <1>4, <1>5 DEF IInv, SubsInv

\* Steps that leave the ring alone.
LEMMA LocalStep ==
    ASSUME IInv, NEW s \in Subs,
           \/ \E cursor \in 0..MaxSeq : OpenClient(s, cursor)
           \/ OpenLive(s) \/ OpenRefused(s)
           \/ Recv(s) \/ ReplayDone(s) \/ StartRead(s)
           \/ \E n \in 1..MaxPage : FinishRead(s, n)
           \/ TakePage(s) \/ ReplayFails(s) \/ DeliverPending(s)
           \/ Capture(s) \/ CaptureClosed(s) \/ CaptureFails(s)
    PROVE  IInv'
<1>0. /\ CursorTypeOK /\ CursorInv(s) /\ Covered(s)
      /\ tail \in Nat /\ published \in Nat /\ published <= tail
  BY DEF IInv, TypeOK, CursorTypeOK, SubsInv, JournalInv
<1>1. CASE \E cursor \in 0..MaxSeq : OpenClient(s, cursor)
  <2>0. PICK cursor \in 0..MaxSeq : OpenClient(s, cursor)
    BY <1>1
  <2> USE <1>0, <2>0, DeliveryAssumption DEF OpenClient
  <2>1. UNCHANGED <<ringVars, journalVars, transientVars>> /\ phase'[s] # "waiting"
    BY DEF CursorInv, CursorTypeOK, ringVars, journalVars, transientVars
  <2>2. CursorTypeOK' /\ OnlyCursorOf(s)
    BY DEF CursorTypeOK, OnlyCursorOf, Phases, NoView, ReadTask, NoRead
  <2>2a. /\ last'[s] = cursor /\ from'[s] = cursor /\ out'[s] = <<>> /\ pending'[s] = <<>>
        /\ view'[s] = tail /\ read'[s].status = "none" /\ phase'[s] = "head"
        /\ conn'[s] = "live" /\ tail' = tail /\ Len(out'[s]) = 0 /\ Len(pending'[s]) = 0
    BY <2>1 DEF CursorInv, CursorTypeOK, ringVars, journalVars
  <2>3. CursorInv(s)'
    BY ONLY <1>0, <2>2a, cursor \in Nat, cursor <= tail, tail \in Nat DEF CursorInv, NoView
  <2>4. Covered(s)'
    BY <2>1 DEF Covered, CursorInv, CursorTypeOK, ringVars, journalVars, NoView
  <2> QED BY <2>1, <2>2, <2>3, <2>4, LocalFrame
<1>2. CASE OpenLive(s)
  <2> USE <1>0, <1>2 DEF OpenLive
  <2>1. UNCHANGED <<ringVars, journalVars, transientVars>> /\ phase'[s] # "waiting"
    BY DEF CursorInv, CursorTypeOK, ringVars, journalVars, transientVars
  <2>2. CursorTypeOK' /\ OnlyCursorOf(s)
    BY DEF CursorTypeOK, OnlyCursorOf, Phases, NoView, ReadTask, NoRead
  <2>2a. /\ last'[s] = tail /\ from'[s] = tail /\ out'[s] = <<>> /\ pending'[s] = <<>>
        /\ view'[s] = NoView /\ read'[s].status = "none" /\ phase'[s] = "head"
        /\ conn'[s] = "live" /\ tail' = tail /\ Len(out'[s]) = 0 /\ Len(pending'[s]) = 0
    BY <2>1 DEF CursorInv, CursorTypeOK, ringVars, journalVars
  <2>3. CursorInv(s)'
    BY ONLY <1>0, <2>2a, tail \in Nat DEF CursorInv, NoView
  <2>4. Covered(s)'
    BY <2>1 DEF Covered, CursorInv, CursorTypeOK, ringVars, journalVars, NoView
  <2> QED BY <2>1, <2>2, <2>3, <2>4, LocalFrame
<1>3. CASE OpenRefused(s)
  <2> USE <1>0, <1>3 DEF OpenRefused
  <2>1. UNCHANGED <<ringVars, journalVars, transientVars>> /\ phase'[s] # "waiting"
    BY DEF CursorInv, CursorTypeOK, ringVars, journalVars, transientVars
  <2>2. CursorTypeOK' /\ OnlyCursorOf(s)
    BY DEF CursorTypeOK, OnlyCursorOf, Phases, NoView, ReadTask, NoRead
  <2>3. CursorInv(s)'
    BY <2>1 DEF CursorInv, CursorTypeOK, ringVars, journalVars, NoRead, NoView
  <2>4. Covered(s)'
    BY <2>1 DEF Covered, CursorInv, CursorTypeOK, ringVars, journalVars, NoView
  <2> QED BY <2>1, <2>2, <2>3, <2>4, LocalFrame
<1>4. CASE Recv(s)
  <2> USE <1>0, <1>4 DEF Recv, Goto
  <2>1. UNCHANGED <<ringVars, journalVars, transientVars>> /\ phase'[s] # "waiting"
    BY DEF CursorInv, CursorTypeOK, ringVars, journalVars, transientVars
  <2>2. CursorTypeOK' /\ OnlyCursorOf(s)
    BY DEF CursorTypeOK, OnlyCursorOf, Phases, NoView, ReadTask, NoRead
  <2>3. CursorInv(s)'
    BY <2>1 DEF CursorInv, CursorTypeOK, ringVars, journalVars, NoRead, NoView
  <2>4. Covered(s)'
    BY <2>1 DEF Covered, CursorInv, CursorTypeOK, ringVars, journalVars, NoView
  <2> QED BY <2>1, <2>2, <2>3, <2>4, LocalFrame
<1>5. CASE ReplayDone(s)
  <2> USE <1>0, <1>5 DEF ReplayDone
  <2>1. UNCHANGED <<ringVars, journalVars, transientVars>> /\ phase'[s] # "waiting"
    BY DEF CursorInv, CursorTypeOK, ringVars, journalVars, transientVars
  <2>2. CursorTypeOK' /\ OnlyCursorOf(s)
    BY DEF CursorTypeOK, OnlyCursorOf, Phases, NoView, ReadTask, NoRead
  <2>3. CursorInv(s)'
    <3>1. /\ view'[s] = NoView /\ pending'[s] = <<>> /\ pending[s] = <<>> /\ read'[s] = read[s]
          /\ last'[s] = last[s] /\ from'[s] = from[s] /\ out'[s] = out[s] /\ phase'[s] = "body"
          /\ conn'[s] = conn[s] /\ tail' = tail /\ view[s] = last[s] /\ phase[s] = "body"
      BY <2>1 DEF CursorTypeOK, ringVars, journalVars
    <3>2. read[s].status = "none" /\ Len(pending[s]) = 0 /\ last[s] \in Nat
      BY <3>1 DEF CursorInv, CursorTypeOK
    <3> QED BY <3>1, <3>2 DEF CursorInv, NoView
  <2>4. Covered(s)'
    BY <2>1 DEF Covered, CursorInv, CursorTypeOK, ringVars, journalVars, NoView
  <2> QED BY <2>1, <2>2, <2>3, <2>4, LocalFrame
<1>6. CASE StartRead(s)
  <2> USE <1>0, <1>6 DEF StartRead, NeedsPage
  <2>1. UNCHANGED <<ringVars, journalVars, transientVars>> /\ phase'[s] # "waiting"
    BY DEF CursorInv, CursorTypeOK, ringVars, journalVars, transientVars
  <2>2. CursorTypeOK' /\ OnlyCursorOf(s)
    BY DEF CursorTypeOK, OnlyCursorOf, Phases, NoView, ReadTask, NoRead
  <2>3. CursorInv(s)'
    BY <2>1 DEF CursorInv, CursorTypeOK, ringVars, journalVars, NoRead, NoView
  <2>4. Covered(s)'
    BY <2>1 DEF Covered, CursorInv, CursorTypeOK, ringVars, journalVars, NoView
  <2> QED BY <2>1, <2>2, <2>3, <2>4, LocalFrame
<1>7. CASE \E n \in 1..MaxPage : FinishRead(s, n)
  <2>0. PICK n \in 1..MaxPage : FinishRead(s, n)
    BY <1>7
  <2> USE <1>0, <2>0, DeliveryAssumption DEF FinishRead
  <2>1. UNCHANGED <<ringVars, journalVars, transientVars>> /\ phase'[s] # "waiting"
    BY DEF CursorInv, CursorTypeOK, ringVars, journalVars, transientVars
  <2>2a. /\ n \in Nat /\ read[s] \in ReadTask
        /\ read' = [read EXCEPT ![s] = [status |-> "ready", after |-> read[s].after, count |-> n]]
    BY DEF CursorTypeOK
  <2>2. CursorTypeOK' /\ OnlyCursorOf(s)
    BY <2>2a DEF CursorTypeOK, OnlyCursorOf, ReadTask
  <2>2b. /\ read'[s] = [status |-> "ready", after |-> read[s].after, count |-> n]
        /\ phase'[s] = phase[s] /\ last'[s] = last[s] /\ view'[s] = view[s]
        /\ pending'[s] = pending[s] /\ from'[s] = from[s] /\ out'[s] = out[s]
        /\ conn'[s] = conn[s] /\ tail' = tail
        /\ read[s].status # "none" /\ read[s].after + n <= view[s]
    BY <2>1, <2>2a DEF CursorTypeOK, ringVars, journalVars
  <2>3. CursorInv(s)'
    BY ONLY <1>0, <2>2b DEF CursorInv, NoView
  <2>4. Covered(s)'
    BY <2>1 DEF Covered, CursorInv, CursorTypeOK, ringVars, journalVars, NoView
  <2> QED BY <2>1, <2>2, <2>3, <2>4, LocalFrame
<1>8. CASE TakePage(s)
  <2> USE <1>0, <1>8 DEF TakePage, NeedsPage
  <2>1. UNCHANGED <<ringVars, journalVars, transientVars>> /\ phase'[s] # "waiting"
    BY DEF CursorInv, CursorTypeOK, ringVars, journalVars, transientVars
  <2> DEFINE page == [i \in 1..read[s].count |-> read[s].after + i]
  <2>2a. read[s].count \in Nat /\ read[s].after \in Nat
    BY DEF CursorTypeOK, ReadTask
  <2>2b. page \in Seq(Nat) /\ Len(page) = read[s].count
    <3>1. \A i \in 1..read[s].count : read[s].after + i \in Nat
      BY <2>2a
    <3>2. page \in [1..read[s].count -> Nat]
      BY <3>1
    <3> HIDE DEF page
    <3> QED BY ONLY <2>2a, <3>2
  <2>2c. \A i \in 1..Len(page) : page[i] = read[s].after + i
    BY <2>2b
  <2> HIDE DEF page
  <2>2d. /\ pending' = [pending EXCEPT ![s] = page] /\ read' = [read EXCEPT ![s] = NoRead]
         /\ UNCHANGED <<phase, last, view, from, out>>
    BY DEF page
  <2>2e. /\ pending'[s] = page /\ read'[s].status = "none"
         /\ phase'[s] = "body" /\ phase[s] = "body" /\ last'[s] = last[s] /\ view'[s] = view[s]
         /\ from'[s] = from[s] /\ out'[s] = out[s]
         /\ conn'[s] = conn[s] /\ tail' = tail
    BY <2>1, <2>2d DEF CursorTypeOK, ringVars, journalVars, NoRead
  <2>2f. /\ read[s].status # "none" /\ last[s] \in Nat /\ view[s] \in Nat
         /\ read[s].after = last[s] /\ view[s] # NoView /\ last[s] + Len(page) <= view[s]
    BY <2>2b DEF NeedsPage, CursorInv, CursorTypeOK, NoView
  <2>2. CursorTypeOK' /\ OnlyCursorOf(s)
    BY ONLY <1>0, <2>2b, <2>2d DEF CursorTypeOK, OnlyCursorOf, ReadTask, NoRead
  <2>3. CursorInv(s)'
    BY ONLY <1>0, <2>2c, <2>2e, <2>2f DEF CursorInv, NoView
  <2>4. Covered(s)'
    BY <2>1 DEF Covered, CursorInv, CursorTypeOK, ringVars, journalVars, NoView
  <2> QED BY <2>1, <2>2, <2>3, <2>4, LocalFrame
<1>9. CASE ReplayFails(s)
  <2> USE <1>0, <1>9 DEF ReplayFails, NeedsPage, Goto
  <2>1. UNCHANGED <<ringVars, journalVars, transientVars>> /\ phase'[s] # "waiting"
    BY DEF CursorInv, CursorTypeOK, ringVars, journalVars, transientVars
  <2>2. CursorTypeOK' /\ OnlyCursorOf(s)
    BY DEF CursorTypeOK, OnlyCursorOf, Phases, NoView, ReadTask, NoRead
  <2>3. CursorInv(s)'
    BY <2>1 DEF CursorInv, CursorTypeOK, ringVars, journalVars, NoRead, NoView
  <2>4. Covered(s)'
    BY <2>1 DEF Covered, CursorInv, CursorTypeOK, ringVars, journalVars, NoView
  <2> QED BY <2>1, <2>2, <2>3, <2>4, LocalFrame
<1>10. CASE DeliverPending(s)
  <2> USE <1>0, <1>10 DEF DeliverPending, Hand, Goto
  <2>1. UNCHANGED <<ringVars, journalVars, transientVars>> /\ phase'[s] # "waiting"
    BY DEF CursorInv, CursorTypeOK, ringVars, journalVars, transientVars
  <2> DEFINE rest == Tail(pending[s])
             q == Head(pending[s])
  <2>2a. /\ q \in Nat /\ rest \in Seq(Nat) /\ Len(rest) = Len(pending[s]) - 1
         /\ \A i \in 1..Len(rest) : rest[i] = pending[s][i + 1]
         /\ Len(rest) \in Nat /\ q = pending[s][1] /\ Len(pending[s]) \in Nat
    BY HeadTailProperties, LenProperties DEF CursorTypeOK
  <2>2b. /\ Append(out[s], q) \in Seq(Nat) /\ Len(Append(out[s], q)) = Len(out[s]) + 1
         /\ Len(out[s]) \in Nat
         /\ \A i \in 1..Len(out[s]) : Append(out[s], q)[i] = out[s][i]
         /\ Append(out[s], q)[Len(out[s]) + 1] = q
    BY <2>2a, AppendProperties, LenProperties DEF CursorTypeOK
  <2> HIDE DEF rest, q
  <2>2c. /\ pending' = [pending EXCEPT ![s] = rest]
         /\ last' = [last EXCEPT ![s] = q]
         /\ out' = [out EXCEPT ![s] = Append(out[s], q)]
    BY DEF rest, q
  <2>2. CursorTypeOK' /\ OnlyCursorOf(s)
    BY <2>2a, <2>2b, <2>2c DEF CursorTypeOK, OnlyCursorOf, Phases
  <2>2d. /\ pending'[s] = rest /\ last'[s] = q /\ out'[s] = Append(out[s], q)
         /\ phase'[s] = "head" /\ phase[s] = "body" /\ view'[s] = view[s] /\ read'[s] = read[s]
         /\ from'[s] = from[s] /\ conn'[s] = conn[s] /\ tail' = tail
         /\ from[s] \in Nat /\ last[s] \in Nat
    BY <2>1, <2>2c DEF CursorTypeOK, ringVars, journalVars
  <2>2e. /\ pending[s] # <<>> /\ view[s] # NoView /\ view[s] \in Nat
         /\ read[s].status = "none" /\ q = last[s] + 1 /\ Len(pending[s]) >= 1
         /\ last[s] + Len(pending[s]) <= view[s]
    <3>1. pending[s] # <<>> /\ view[s] \in Nat \cup {NoView} /\ pending[s] \in Seq(Nat)
      BY DEF CursorTypeOK
    <3>2. Len(pending[s]) >= 1
      BY <2>2a, <3>1, EmptySeq
    <3>3. view[s] # NoView /\ read[s].status = "none" /\ last[s] + Len(pending[s]) <= view[s]
          /\ pending[s][1] = last[s] + 1
      BY ONLY <1>0, <3>1, <3>2, <2>2a DEF CursorInv
    <3> QED BY ONLY <2>2a, <3>1, <3>2, <3>3
  <2>3. CursorInv(s)'
    <3>1. ASSUME NEW i \in 1..Len(rest) PROVE rest[i] = q + i
      <4>1. i + 1 \in 1..Len(pending[s]) /\ rest[i] = pending[s][i + 1] /\ i \in Nat
        BY ONLY <2>2a, <3>1
      <4>2. pending[s][i + 1] = last[s] + (i + 1)
        BY ONLY <1>0, <4>1 DEF CursorInv
      <4>3. i \in Nat /\ last[s] \in Nat
        BY <2>2d, <4>1
      <4>4. last[s] + (i + 1) = (last[s] + 1) + i
        BY ONLY <4>3
      <4> QED BY <2>2e, <4>1, <4>2, <4>4, Zenon
    <3>a. /\ q = last[s] + 1 /\ last[s] \in Nat /\ from[s] \in Nat
          /\ last[s] = from[s] + Len(out[s]) /\ view[s] <= tail /\ view[s] \in Nat
          /\ last[s] + Len(pending[s]) <= view[s] /\ Len(pending[s]) >= 1 /\ tail \in Nat
      BY ONLY <1>0, <2>2d, <2>2e DEF CursorInv
    <3>b. \A i \in 1..Len(out[s]) : out[s][i] = from[s] + i
      BY ONLY <1>0 DEF CursorInv
    <3>2. \A i \in 1..Len(Append(out[s], q)) : Append(out[s], q)[i] = from[s] + i
      <4>1. q = from[s] + (Len(out[s]) + 1)
        BY ONLY <2>2b, <3>a
      <4> QED BY ONLY <2>2b, <3>b, <4>1
    <3>c. /\ q = from[s] + Len(Append(out[s], q)) /\ q + Len(rest) <= view[s]
          /\ q <= tail /\ view[s] # NoView
      <4>1. q = from[s] + Len(Append(out[s], q))
        BY ONLY <2>2b, <3>a
      <4>2. Len(rest) = Len(pending[s]) - 1 /\ Len(pending[s]) \in Nat
        BY <2>2a
      <4>2a. q = last[s] + 1 /\ last[s] \in Nat
        BY ONLY <3>a
      <4>3. q + Len(rest) = last[s] + Len(pending[s])
        BY ONLY <4>2, <4>2a
      <4>4. view[s] # NoView
        BY ONLY <3>a DEF NoView
      <4> QED BY ONLY <3>a, <4>1, <4>3, <4>4
    <3>3. /\ last'[s] = from'[s] + Len(out'[s]) /\ last'[s] + Len(pending'[s]) <= view'[s]
          /\ last'[s] <= tail' /\ view'[s] <= tail' /\ view'[s] # NoView
      BY ONLY <2>2d, <3>a, <3>c
    <3>4. conn'[s] = "live" /\ read'[s].status = "none"
      BY ONLY <1>0, <2>2d, <2>2e DEF CursorInv
    <3> QED BY ONLY <2>2d, <3>1, <3>2, <3>3, <3>4 DEF CursorInv
  <2>4. Covered(s)'
    BY <2>1 DEF Covered, CursorInv, CursorTypeOK, ringVars, journalVars, NoView
  <2> QED BY <2>1, <2>2, <2>3, <2>4, LocalFrame
<1>11. CASE Capture(s)
  <2> USE <1>0, <1>11 DEF Capture, Goto
  <2>1. UNCHANGED <<ringVars, journalVars, transientVars>> /\ phase'[s] # "waiting"
    BY DEF CursorInv, CursorTypeOK, ringVars, journalVars, transientVars
  <2>2. CursorTypeOK' /\ OnlyCursorOf(s)
    BY DEF CursorTypeOK, OnlyCursorOf, Phases, NoView, ReadTask, NoRead
  <2>3. CursorInv(s)'
    BY <2>1 DEF CursorInv, CursorTypeOK, ringVars, journalVars, NoRead, NoView
  <2>4. Covered(s)'
    BY <2>1 DEF Covered, CursorInv, CursorTypeOK, ringVars, journalVars, NoView
  <2> QED BY <2>1, <2>2, <2>3, <2>4, LocalFrame
<1>12. CASE CaptureClosed(s)
  <2> USE <1>0, <1>12 DEF CaptureClosed, Goto
  <2>1. UNCHANGED <<ringVars, journalVars, transientVars>> /\ phase'[s] # "waiting"
    BY DEF CursorInv, CursorTypeOK, ringVars, journalVars, transientVars
  <2>1a. PICK p \in {"ended", "head"} : phase' = [phase EXCEPT ![s] = p]
    BY ONLY <1>12 DEF CaptureClosed, Goto
  <2>1b. view' = view \/ view' = [view EXCEPT ![s] = tail]
    BY ONLY <1>12 DEF CaptureClosed
  <2>1c. UNCHANGED <<last, read, pending, from, out>>
    BY ONLY <1>12 DEF CaptureClosed
  <2>2. CursorTypeOK' /\ OnlyCursorOf(s)
    BY ONLY <1>0, <2>1a, <2>1b, <2>1c DEF CursorTypeOK, OnlyCursorOf, Phases
  <2>3. CursorInv(s)'
    <3>1. /\ phase[s] = "closing" /\ view[s] = NoView /\ pending[s] = <<>> /\ Len(pending[s]) = 0
          /\ last'[s] = last[s] /\ from'[s] = from[s] /\ out'[s] = out[s]
          /\ pending'[s] = pending[s] /\ read'[s] = read[s] /\ conn'[s] = conn[s] /\ tail' = tail
          /\ \/ phase'[s] = "ended" /\ view'[s] = view[s]
             \/ phase'[s] = "head" /\ view'[s] = tail
      BY <2>1 DEF CursorInv, CursorTypeOK, ringVars, journalVars
    <3>2. last[s] \in Nat /\ read[s].status = "none"
      BY <3>1 DEF CursorInv, CursorTypeOK
    <3> QED BY ONLY <1>0, <3>1, <3>2 DEF CursorInv, NoView
  <2>4. Covered(s)'
    BY <2>1 DEF Covered, CursorInv, CursorTypeOK, ringVars, journalVars, NoView
  <2> QED BY <2>1, <2>2, <2>3, <2>4, LocalFrame
<1>13. CASE CaptureFails(s)
  <2> USE <1>0, <1>13 DEF CaptureFails, Goto
  <2>1. UNCHANGED <<ringVars, journalVars, transientVars>> /\ phase'[s] # "waiting"
    BY DEF CursorInv, CursorTypeOK, ringVars, journalVars, transientVars
  <2>2. CursorTypeOK' /\ OnlyCursorOf(s)
    BY DEF CursorTypeOK, OnlyCursorOf, Phases, NoView, ReadTask, NoRead
  <2>3. CursorInv(s)'
    BY <2>1 DEF CursorInv, CursorTypeOK, ringVars, journalVars, NoRead, NoView
  <2>4. Covered(s)'
    BY <2>1 DEF Covered, CursorInv, CursorTypeOK, ringVars, journalVars, NoView
  <2> QED BY <2>1, <2>2, <2>3, <2>4, LocalFrame
<1> QED BY <1>1, <1>2, <1>3, <1>4, <1>5, <1>6, <1>7, <1>8, <1>9, <1>10, <1>11, <1>12, <1>13
\* Commits and an abandoned outbox: the ring and the cursors stay.
LEMMA JournalStep ==
    ASSUME IInv,
           \/ \E n \in 1..MaxBatch, credit \in BOOLEAN : Commit(n, credit)
           \/ CommitUnacknowledged
           \/ PublishClosed
    PROVE  IInv'
<1>1. /\ UNCHANGED <<ringVars, published, fence, cursorVars, transientVars>>
      /\ tail' \in Nat /\ tail <= tail' /\ outbox'.last <= tail' /\ outbox'.next > 0
      /\ outbox' \in [next : Nat, last : Nat, credit : BOOLEAN]
  <2> USE DEF IInv, TypeOK, JournalInv
  <2>1. CASE \E n \in 1..MaxBatch, credit \in BOOLEAN : Commit(n, credit)
    BY <2>1, DeliveryAssumption DEF Commit
  <2>2. CASE CommitUnacknowledged
    BY <2>2 DEF CommitUnacknowledged
  <2>3. CASE PublishClosed
    <3>1. /\ outbox \in [next : Nat, last : Nat, credit : BOOLEAN]
          /\ outbox' = [next |-> outbox.last + 1, last |-> outbox.last, credit |-> outbox.credit]
          /\ UNCHANGED <<ringVars, tail, published, fence, cursorVars, transientVars>>
      BY <2>3 DEF PublishClosed
    <3>2. outbox' \in [next : Nat, last : Nat, credit : BOOLEAN]
          /\ outbox'.last = outbox.last /\ outbox'.next = outbox.last + 1
      BY <3>1
    <3> QED BY <3>1, <3>2
  <2> QED BY <2>1, <2>2, <2>3
<1>2. TypeOK'
  BY <1>1 DEF IInv, TypeOK, RingTypeOK, ringVars, cursorVars, transientVars
<1>3. RingInv'
  BY <1>1 DEF IInv, RingInv, Live, ringVars
<1>4. JournalInv'
  <2>1. \A i \in 1..Len(frames) : frames[i].source \in Nat
    BY FrameTypes
  <2> QED BY <1>1, <2>1 DEF IInv, TypeOK, JournalInv, ringVars
<1>5. ASSUME NEW s \in Subs PROVE CursorInv(s)'
  <2>1. last[s] \in Nat /\ view[s] \in Int /\ tail \in Nat
    BY DEF IInv, TypeOK, NoView
  <2>2. CursorInv(s) /\ UNCHANGED <<conn, phase, last, view, read, pending, from, out>>
    BY <1>1 DEF IInv, SubsInv, ringVars, cursorVars
  <2>3. last[s] <= tail' /\ view[s] <= tail'
    BY <1>1, <2>1, <2>2 DEF CursorInv
  <2> QED BY <2>2, <2>3 DEF CursorInv
<1>6. \A s \in Subs : Covered(s)' /\ Asleep(s)' /\ TransientInv(s)'
  BY <1>1 DEF IInv, SubsInv, Covered, Asleep, TransientInv, Kept, Addressed,
              ringVars, cursorVars, transientVars
<1> QED BY <1>2, <1>3, <1>4, <1>5, <1>6 DEF IInv, SubsInv

\* Publishing the next event of the batch.  The new frame lies ahead of every
\* live cursor, so it covers the new last published event.
LEMMA PublishStep == IInv /\ PublishCommitted => IInv'
<1> SUFFICES ASSUME IInv, PublishCommitted PROVE IInv'
  OBVIOUS
<1> DEFINE f == NewFrame(Everyone, outbox.next, outbox.credit)
<1>1. /\ outbox.next \in Nat /\ outbox.last \in Nat /\ outbox.credit \in BOOLEAN
      /\ outbox.next <= outbox.last /\ outbox.next <= tail /\ outbox.next # NoSource
      /\ outbox.last <= tail /\ tail \in Nat /\ ordinal \in Nat
  BY DEF IInv, TypeOK, RingTypeOK, JournalInv, PublishCommitted, Publishing, NoSource
<1>2. publish(Everyone, outbox.next, outbox.credit) /\ Everyone \in Targets
  BY DEF PublishCommitted, Targets
<1>3. /\ RingTypeOK' /\ RingInv' /\ Live' = Live /\ ordinal' = ordinal + 1
      /\ \A i \in 1..Len(frames') :
            frames'[i] = f \/ \E j \in 1..Len(frames) : frames'[i] = frames[j]
      /\ \A s \in Live : \A j \in 1..Len(frames) :
            /\ frames[j].ordinal > seen[s]
            /\ frames[j].source = NoSource
            /\ Addressed(s, frames[j].target)
            => failed'[s] \/ \E i \in 1..Len(frames') : frames'[i] = frames[j]
      /\ \A s \in Subs : failed[s] => failed'[s]
  <2>1. Published(f)
    BY <1>1, <1>2, PublishAccepted
  <2> HIDE DEF f
  <2> QED BY <2>1 DEF Published
<1>4. /\ tail' = tail /\ published' = outbox.next /\ fence' = ordinal + 1
      /\ outbox' = [next |-> outbox.next + 1, last |-> outbox.last, credit |-> outbox.credit]
      /\ UNCHANGED <<cursorVars, transientVars, closed, conn, client, seen>>
      /\ waker' = [s \in Subs |-> IF waker[s] = "armed" THEN "woken" ELSE waker[s]]
  BY DEF PublishCommitted, publish, notify_waiters
<1>5. f.ordinal = ordinal + 1 /\ f.target = Everyone /\ f.source = outbox.next
  BY DEF NewFrame
<1> HIDE DEF f
<1>6. TypeOK'
  <2>1. outbox' \in [next : Nat, last : Nat, credit : BOOLEAN]
    BY <1>1, <1>4 DEF IInv, TypeOK
  <2> QED BY <1>1, <1>3, <1>4, <2>1 DEF IInv, TypeOK, cursorVars, transientVars
<1>7. JournalInv'
  <2>1. \A j \in 1..Len(frames) : frames[j].ordinal <= ordinal /\ frames[j].source <= tail
        /\ frames[j].ordinal \in Nat
    BY FrameTypes DEF IInv, JournalInv
  <2>2. ASSUME NEW i \in 1..Len(frames')
        PROVE  /\ frames'[i].source <= tail
               /\ frames'[i].ordinal = ordinal + 1 =>
                     frames'[i].target = Everyone /\ frames'[i].source = outbox.next
    <3>1. CASE frames'[i] = f
      BY <1>1, <1>5, <3>1
    <3>2. CASE \E j \in 1..Len(frames) : frames'[i] = frames[j]
      BY <1>1, <2>1, <3>2
    <3> QED BY <1>3, <3>1, <3>2
  <2>3. outbox'.last = outbox.last /\ outbox'.next = outbox.next + 1
    BY <1>4 DEF IInv, TypeOK
  <2> QED BY <1>1, <1>3, <1>4, <2>2, <2>3 DEF JournalInv
<1>8. \A s \in Subs : CursorInv(s)'
  BY <1>4 DEF IInv, SubsInv, CursorInv, cursorVars
<1>9. ASSUME NEW s \in Subs PROVE Covered(s)' /\ Asleep(s)'
  <2>1. phase[s] \in {"head", "body", "live", "waiting"} => seen[s] < ordinal + 1
    <3>1. phase[s] \in {"head", "body", "live", "waiting"} => s \in Live
      BY DEF IInv, SubsInv, CursorInv, Live
    <3>2. s \in Live => seen[s] \in Nat /\ seen[s] <= ordinal
      BY DEF IInv, RingInv, TypeOK, RingTypeOK
    <3> QED BY <1>1, <3>1, <3>2
  <2>2. Covered(s)'
    BY <1>4, <2>1 DEF Covered, cursorVars
  <2>3. waker'[s] # "armed"
    BY <1>4
  <2> QED BY <2>2, <2>3 DEF Asleep
<1>10. ASSUME NEW s \in Subs PROVE TransientInv(s)'
  <2> SUFFICES ASSUME conn[s] = "live", ~failed'[s], NEW o \in owed[s] PROVE Kept(s, o)'
    BY <1>4 DEF IInv, SubsInv, TransientInv, transientVars
  <2>1. s \in Live /\ ~failed[s] /\ Kept(s, o)
    BY <1>3 DEF IInv, SubsInv, TransientInv, Live
  <2> QED BY <1>3, <1>4, <2>1 DEF Kept, Addressed, transientVars
<1> QED BY <1>3, <1>6, <1>7, <1>8, <1>9, <1>10 DEF IInv, SubsInv

\* A transient event: delivered to the ring, or every addressee is failed.
LEMMA SendStep ==
    ASSUME IInv, NEW target \in Targets, NEW credit \in BOOLEAN, Send(target, credit)
    PROVE  IInv'
<1> DEFINE f == NewFrame(target, NoSource, credit)
<1>1. publish(target, NoSource, credit) /\ NoSource \in Nat /\ ordinal \in Nat
  BY DEF Send, NoSource, IInv, TypeOK, RingTypeOK
<1>2. /\ UNCHANGED <<journalVars, cursorVars, heard, closed, conn, client, seen>>
      /\ sends' = sends + 1
      /\ owed' = [s \in Subs |->
                    IF s \in Live /\ Addressed(s, target)
                       THEN owed[s] \cup {IF credit THEN ordinal + 1 ELSE 0}
                       ELSE owed[s]]
      /\ waker' = [s \in Subs |-> IF waker[s] = "armed" THEN "woken" ELSE waker[s]]
  BY DEF Send, publish, notify_waiters
<1>3. /\ RingTypeOK' /\ RingInv' /\ Live' = Live
      /\ ordinal' \in Nat /\ ordinal <= ordinal'
      /\ \A i \in 1..Len(frames') :
            \/ frames'[i].source = NoSource /\ frames'[i].ordinal = ordinal + 1
            \/ \E j \in 1..Len(frames) : frames'[i] = frames[j]
      /\ credit => \A s \in Live : \E i \in 1..Len(frames') : frames'[i] = f
      /\ \A s \in Live : \A j \in 1..Len(frames) :
            /\ frames[j].ordinal > seen[s]
            /\ frames[j].source = NoSource
            /\ Addressed(s, frames[j].target)
            => failed'[s] \/ \E i \in 1..Len(frames') : frames'[i] = frames[j]
      /\ \A s \in Subs : failed[s] => failed'[s]
      /\ ~credit => \A s \in Live : Addressed(s, target) => failed'[s]
  <2>1. CASE credit
    <3>1. /\ RingTypeOK' /\ RingInv' /\ Live' = Live /\ ordinal' = ordinal + 1
          /\ \A i \in 1..Len(frames') :
                frames'[i] = f \/ \E j \in 1..Len(frames) : frames'[i] = frames[j]
          /\ \A s \in Live : \E i \in 1..Len(frames') : frames'[i] = f
          /\ \A s \in Live : \A j \in 1..Len(frames) :
                /\ frames[j].ordinal > seen[s]
                /\ frames[j].source = NoSource
                /\ Addressed(s, frames[j].target)
                => failed'[s] \/ \E i \in 1..Len(frames') : frames'[i] = frames[j]
          /\ \A s \in Subs : failed[s] => failed'[s]
      <4>1. Published(f)
        BY <1>1, <2>1, PublishAccepted
      <4> HIDE DEF f
      <4> QED BY <4>1 DEF Published
    <3>2. f.source = NoSource /\ f.ordinal = ordinal + 1
      BY DEF NewFrame
    <3> HIDE DEF f
    <3> QED BY <1>1, <2>1, <3>1, <3>2
  <2>2. CASE ~credit
    <3>1. publish(target, NoSource, FALSE)
      BY <1>1, <2>2
    <3>2. /\ RingTypeOK' /\ RingInv' /\ Live' = Live
          /\ UNCHANGED <<frames, ordinal, closed, conn, client, seen>>
          /\ \A s \in Subs : failed[s] => failed'[s]
          /\ \A s \in Live : Addressed(s, target) => failed'[s]
      BY <3>1, PublishRejected
    <3> QED BY <1>1, <2>2, <3>2
  <2> QED BY <2>1, <2>2
<1>4. f.ordinal = ordinal + 1 /\ f.source = NoSource /\ f.payload = credit /\ f.target = target
  BY DEF NewFrame
<1> HIDE DEF f
<1>5. TypeOK'
  <2>1. owed' \in [Subs -> SUBSET Nat]
    BY <1>1, <1>2 DEF IInv, TypeOK
  <2> QED BY <1>2, <1>3, <2>1 DEF IInv, TypeOK, journalVars, cursorVars
<1>6. JournalInv'
  <2>1. fence \in Nat /\ fence <= ordinal /\ tail \in Nat
    BY DEF IInv, TypeOK, JournalInv
  <2> QED BY <1>1, <1>2, <1>3, <2>1 DEF IInv, JournalInv, journalVars, NoSource
<1>7. \A s \in Subs : CursorInv(s)' /\ Covered(s)'
  BY <1>2 DEF IInv, SubsInv, CursorInv, Covered, journalVars, cursorVars
<1>8. \A s \in Subs : Asleep(s)'
  BY <1>2 DEF Asleep
<1>9. ASSUME NEW s \in Subs PROVE TransientInv(s)'
  <2>0. conn[s] = "none" => owed'[s] = {}
    BY <1>2 DEF IInv, SubsInv, TransientInv, Live
  <2> SUFFICES ASSUME conn[s] = "live", ~failed'[s], NEW o \in owed'[s] PROVE Kept(s, o)'
    BY <1>2, <2>0 DEF TransientInv
  <2>1. s \in Live /\ ~failed[s] /\ seen[s] \in Nat /\ seen[s] <= ordinal
    BY <1>3 DEF IInv, TypeOK, RingTypeOK, RingInv, Live
  <2>2. CASE o \in owed[s]
    <3>1. Kept(s, o)
      BY <2>1, <2>2 DEF IInv, SubsInv, TransientInv, Live
    <3> QED BY <1>2, <1>3, <2>1, <3>1 DEF Kept, Addressed
  <2>3. CASE o \notin owed[s]
    <3>1. Addressed(s, target) /\ credit /\ o = ordinal + 1
      BY <1>2, <1>3, <2>1, <2>3
    <3>2. PICK i \in 1..Len(frames') : frames'[i] = f
      BY <1>3, <2>1, <3>1
    <3>3. o > seen'[s]
      BY <1>1, <1>2, <2>1, <3>1
    <3>4. /\ frames'[i].ordinal = o /\ frames'[i].source = NoSource
          /\ frames'[i].payload /\ Addressed(s, frames[i].target)'
      BY <1>2, <1>4, <3>1, <3>2 DEF Addressed
    <3> QED BY <3>3, <3>4 DEF Kept
  <2> QED BY <2>2, <2>3
<1> QED BY <1>3, <1>5, <1>6, <1>7, <1>8, <1>9 DEF IInv, SubsInv
\* Close keeps the invariant.
LEMMA CloseStep == IInv /\ Close => IInv'
<1> SUFFICES ASSUME IInv, Close PROVE IInv'
  OBVIOUS
<1>1. /\ UNCHANGED <<frames, ordinal, conn, client, seen, failed>>
      /\ UNCHANGED <<journalVars, cursorVars, transientVars>>
      /\ closed' = TRUE
      /\ waker' = [s \in Subs |-> IF waker[s] = "armed" THEN "woken" ELSE waker[s]]
  BY DEF Close, close, notify_waiters
<1>2. TypeOK'
  BY <1>1 DEF IInv, TypeOK, RingTypeOK, journalVars, cursorVars, transientVars
<1>3. RingInv' /\ JournalInv'
  BY <1>1 DEF IInv, RingInv, JournalInv, Live, journalVars
<1>4. \A s \in Subs : CursorInv(s)' /\ Covered(s)'
  BY <1>1 DEF IInv, SubsInv, CursorInv, Covered, journalVars, cursorVars
<1>5. \A s \in Subs : Asleep(s)'
  BY <1>1 DEF Asleep
<1>6. \A s \in Subs : TransientInv(s)'
  BY <1>1 DEF IInv, SubsInv, TransientInv, Kept, Addressed, transientVars
<1> QED BY <1>2, <1>3, <1>4, <1>5, <1>6 DEF IInv, SubsInv

\* Arming, waking and cancelling move only the phase and the notification.
LEMMA WakerStep ==
    ASSUME IInv, NEW s \in Subs,
           GoLive(s) \/ Wake(s) \/ Cancel(s) \/ PollFailed(s)
    PROVE  IInv'
<1>1. PICK p \in {"live", "head", "broken"}, w \in {"idle", "armed"} :
        /\ phase' = [phase EXCEPT ![s] = p]
        /\ waker' = [waker EXCEPT ![s] = w]
        /\ phase[s] \in {"body", "waiting", "live"}
        /\ p = "live" => view[s] = NoView
        /\ p = "head" => phase[s] # "live"
        /\ UNCHANGED <<frames, ordinal, closed, conn, client, seen, failed>>
        /\ UNCHANGED <<journalVars, last, view, read, pending, from, out, transientVars>>
  <2> USE DEF Goto, enable, disarm
  <2>1. CASE GoLive(s)
    BY <2>1 DEF GoLive
  <2>2. CASE Wake(s)
    BY <2>2 DEF Wake, IInv, SubsInv, CursorInv
  <2>3. CASE Cancel(s)
    BY <2>3 DEF Cancel, NeedsPage
  <2>4. CASE PollFailed(s)
    BY <2>4 DEF PollFailed
  <2> QED BY <2>1, <2>2, <2>3, <2>4
<1>2. phase \in [Subs -> Phases] /\ waker \in [Subs -> {"idle", "armed", "woken"}]
  BY DEF IInv, TypeOK, RingTypeOK
<1>3. TypeOK'
  <2>1. phase' \in [Subs -> Phases] /\ waker' \in [Subs -> {"idle", "armed", "woken"}]
    BY <1>1, <1>2 DEF Phases
  <2> QED BY <1>1, <2>1 DEF IInv, TypeOK, RingTypeOK, journalVars, transientVars
<1>4. RingInv' /\ JournalInv'
  BY <1>1 DEF IInv, RingInv, JournalInv, Live, journalVars
<1>5. \A t \in Subs : phase'[t] = IF t = s THEN p ELSE phase[t]
  BY <1>1, <1>2
<1>6. \A t \in Subs : waker'[t] = IF t = s THEN w ELSE waker[t]
  BY <1>1, <1>2
<1>7. ASSUME NEW t \in Subs PROVE CursorInv(t)' /\ Covered(t)' /\ Asleep(t)'
  <2>1. CASE t = s
    BY <1>1, <1>5, <2>1 DEF IInv, SubsInv, CursorInv, Covered, Asleep, journalVars
  <2>2. CASE t # s
    BY <1>1, <1>5, <1>6, <2>2 DEF IInv, SubsInv, CursorInv, Covered, Asleep, journalVars
  <2> QED BY <2>1, <2>2
<1>8. \A t \in Subs : TransientInv(t)'
  BY <1>1 DEF IInv, SubsInv, TransientInv, Kept, Addressed, transientVars
<1> QED BY <1>3, <1>4, <1>7, <1>8 DEF IInv, SubsInv

\* A new subscription starts at the end of the ring.
LEMMA SubscribeStep ==
    ASSUME IInv, NEW s \in Subs, NEW c \in Clients, Subscribe(s, c)
    PROVE  IInv'
<1>1. /\ conn[s] = "none" /\ phase[s] = "none"
      /\ conn' = [conn EXCEPT ![s] = "live"]
      /\ client' = [client EXCEPT ![s] = c]
      /\ seen' = [seen EXCEPT ![s] = ordinal]
      /\ phase' = [phase EXCEPT ![s] = "joining"]
      /\ UNCHANGED <<frames, ordinal, closed, failed, waker>>
      /\ UNCHANGED <<journalVars, last, view, read, pending, from, out, transientVars>>
  BY DEF Subscribe, subscribe
<1>2. TypeOK /\ ordinal \in Nat
  BY DEF IInv, TypeOK, RingTypeOK
<1>3. TypeOK'
  BY <1>1, <1>2 DEF TypeOK, RingTypeOK, Targets, Phases, journalVars, transientVars
<1>4. \A t \in Subs :
         /\ conn'[t] = IF t = s THEN "live" ELSE conn[t]
         /\ client'[t] = IF t = s THEN c ELSE client[t]
         /\ seen'[t] = IF t = s THEN ordinal ELSE seen[t]
         /\ phase'[t] = IF t = s THEN "joining" ELSE phase[t]
  BY <1>1, <1>2 DEF TypeOK, RingTypeOK
<1>5. RingInv'
  <2>1. Live' = Live \cup {s}
    BY <1>4 DEF Live
  <2> QED BY <1>1, <1>2, <1>4, <2>1 DEF IInv, RingInv, Live
<1>6. JournalInv'
  BY <1>1 DEF IInv, JournalInv, journalVars
<1>7. ASSUME NEW t \in Subs PROVE CursorInv(t)' /\ Covered(t)' /\ Asleep(t)'
  <2>1. CASE t = s
    BY <1>1, <1>4, <2>1 DEF IInv, SubsInv, CursorInv, Covered, Asleep, journalVars
  <2>2. CASE t # s
    BY <1>1, <1>4, <2>2 DEF IInv, SubsInv, CursorInv, Covered, Asleep, journalVars
  <2> QED BY <2>1, <2>2
<1>8. ASSUME NEW t \in Subs PROVE TransientInv(t)'
  <2>1. CASE t = s
    BY <1>1, <1>4, <2>1 DEF IInv, SubsInv, TransientInv, transientVars
  <2>2. CASE t # s
    BY <1>1, <1>4, <2>2 DEF IInv, SubsInv, TransientInv, Kept, Addressed, transientVars
  <2> QED BY <2>1, <2>2
<1> QED BY <1>3, <1>5, <1>6, <1>7, <1>8 DEF IInv, SubsInv

\* A receiver is dropped: its cursor stops counting.
LEMMA DropStep ==
    ASSUME IInv, NEW s \in Subs, Drop(s)
    PROVE  IInv'
<1>1. PICK p \in {"ended", "broken"} :
        /\ conn' = [conn EXCEPT ![s] = "dropping"]
        /\ phase' = [phase EXCEPT ![s] = p]
        /\ view' = [view EXCEPT ![s] = NoView]
        /\ read' = [read EXCEPT ![s] = NoRead]
        /\ pending' = [pending EXCEPT ![s] = <<>>]
        /\ UNCHANGED <<frames, ordinal, closed, client, seen, failed, waker>>
        /\ UNCHANGED <<journalVars, last, from, out, transientVars>>
  <2>1. phase' = [phase EXCEPT ![s] = IF phase[s] = "ended" THEN "ended" ELSE "broken"]
    BY DEF Drop, IInv, TypeOK
  <2> QED BY <2>1 DEF Drop, drop_cursor
<1>2. TypeOK
  BY DEF IInv
<1>3. \A t \in Subs :
         /\ conn'[t] = IF t = s THEN "dropping" ELSE conn[t]
         /\ phase'[t] = IF t = s THEN p ELSE phase[t]
         /\ view'[t] = IF t = s THEN NoView ELSE view[t]
         /\ read'[t] = IF t = s THEN NoRead ELSE read[t]
         /\ pending'[t] = IF t = s THEN <<>> ELSE pending[t]
  BY <1>1, <1>2 DEF TypeOK, RingTypeOK
<1>4. TypeOK'
  <2>1. pending' \in [Subs -> Seq(Nat)]
    BY <1>1, <1>2, EmptySeq DEF TypeOK
  <2>2. read' \in [Subs -> ReadTask] /\ view' \in [Subs -> Nat \cup {NoView}]
    BY <1>1, <1>2 DEF TypeOK, ReadTask, NoRead
  <2> QED BY <1>1, <1>2, <2>1, <2>2 DEF TypeOK, RingTypeOK, Phases, journalVars, transientVars
<1>5. RingInv'
  <2>1. Live' \subseteq Live
    BY <1>3 DEF Live
  <2> QED BY <1>1, <2>1 DEF IInv, RingInv
<1>6. JournalInv'
  BY <1>1 DEF IInv, JournalInv, journalVars
<1>7. ASSUME NEW t \in Subs PROVE CursorInv(t)' /\ Covered(t)' /\ Asleep(t)' /\ TransientInv(t)'
  <2>1. CASE t = s
    <3>1. /\ last[s] \in Nat /\ tail \in Nat /\ NoView <= tail
          /\ read'[s].status = "none" /\ Len(pending'[s]) = 0 /\ pending'[s] = <<>>
      BY <1>2, <1>3 DEF TypeOK, NoView, NoRead
    <3> QED BY <1>1, <1>3, <2>1, <3>1
            DEF IInv, SubsInv, CursorInv, Covered, Asleep, TransientInv, journalVars
  <2>2. CASE t # s
    <3>1. CursorInv(t)' /\ Covered(t)' /\ Asleep(t)'
      BY <1>1, <1>3, <2>2 DEF IInv, SubsInv, CursorInv, Covered, Asleep, journalVars
    <3>2. TransientInv(t)'
      BY <1>1, <1>3, <2>2 DEF IInv, SubsInv, TransientInv, Kept, Addressed, transientVars
    <3> QED BY <3>1, <3>2
  <2> QED BY <2>1, <2>2
<1> QED BY <1>4, <1>5, <1>6, <1>7 DEF IInv, SubsInv
\* What survives a reclaim keeps the invariant of every subscription whose own
\* cursor did not move.
LEMMA ReclaimKeepsOthers ==
    ASSUME IInv, NEW t \in Subs, NEW live,
           \A i \in 1..Len(frames') : \E j \in 1..Len(frames) : frames'[i] = frames[j],
           t \in Live => \A j \in 1..Len(frames) :
               frames[j].ordinal > seen[t] => \E i \in 1..Len(frames') : frames'[i] = frames[j],
           seen'[t] = seen[t], conn'[t] = "live" => conn[t] = "live",
           conn'[t] = "none" => conn[t] = "none",
           client'[t] = client[t], failed'[t] = failed[t],
           owed'[t] = owed[t], heard'[t] = heard[t]
    PROVE  TransientInv(t)'
<1>1. TransientInv(t)
  BY DEF IInv, SubsInv
<1>2. ASSUME conn'[t] = "live", ~failed'[t], NEW o \in owed[t] PROVE Kept(t, o)'
  <2>1. Kept(t, o) /\ t \in Live /\ seen[t] \in Nat
    BY <1>1, <1>2 DEF TransientInv, Live, IInv, TypeOK, RingTypeOK
  <2>2. CASE o \in heard[t]
    BY <2>2 DEF Kept
  <2>3. CASE o \notin heard[t]
    <3>1. PICK j \in 1..Len(frames) :
            /\ frames[j].ordinal = o /\ o > seen[t]
            /\ frames[j].source = NoSource
            /\ frames[j].payload
            /\ Addressed(t, frames[j].target)
      BY <2>1, <2>3 DEF Kept
    <3>2. PICK i \in 1..Len(frames') : frames'[i] = frames[j]
      BY <2>1, <3>1
    <3> QED BY <3>1, <3>2 DEF Kept, Addressed
  <2> QED BY <2>2, <2>3
<1> QED BY <1>1, <1>2 DEF TransientInv

\* Reclaiming drops frames and changes none.
LEMMA ReclaimKeepsJournal ==
    ASSUME IInv, UNCHANGED <<journalVars, ordinal>>,
           \A i \in 1..Len(frames') : \E j \in 1..Len(frames) : frames'[i] = frames[j]
    PROVE  JournalInv'
BY DEF IInv, JournalInv, journalVars

\* The second half of the drop reclaims what only that cursor retained.
LEMMA DropReclaimStep ==
    ASSUME IInv, NEW s \in Subs, DropReclaim(s)
    PROVE  IInv'
<1>1. /\ conn[s] = "dropping" /\ conn' = [conn EXCEPT ![s] = "gone"]
      /\ frames' = reclaim_observed(frames, seen, Live)
      /\ UNCHANGED <<ordinal, closed, client, seen, failed, waker>>
      /\ UNCHANGED <<journalVars, cursorVars, transientVars>>
  BY DEF DropReclaim, drop_reclaim
<1>2. TypeOK /\ seen \in [Subs -> Nat] /\ Live \in SUBSET Subs
  BY DEF IInv, TypeOK, RingTypeOK, Live
<1>3. \A t \in Subs : conn'[t] = IF t = s THEN "gone" ELSE conn[t]
  BY <1>1, <1>2 DEF TypeOK, RingTypeOK
<1>4. Live' = Live
  BY <1>1, <1>3 DEF Live
<1>5. /\ frames' \in Seq(Frame)
      /\ Len(frames') <= Capacity
      /\ \A i \in 1..Len(frames') :
            /\ frames'[i].ordinal = ordinal - Len(frames') + i
            /\ frames'[i].ordinal > 0
      /\ frames' = <<>> => \A t \in Live : seen[t] = ordinal
      /\ \A i \in 1..Len(frames') : \E j \in 1..Len(frames) : frames'[i] = frames[j]
      /\ \A t \in Live : \A j \in 1..Len(frames) :
            frames[j].ordinal > seen[t] => \E i \in 1..Len(frames') : frames'[i] = frames[j]
  <2>1. /\ \A t \in Live : seen[t] <= ordinal
        /\ frames = <<>> => \A t \in Live : seen[t] = ordinal
    BY DEF IInv, RingInv
  <2> QED BY <1>1, <1>2, <2>1, ReclaimStep
<1>6. TypeOK'
  BY <1>1, <1>2, <1>5 DEF TypeOK, RingTypeOK, journalVars, cursorVars, transientVars
<1>7. RingInv'
  BY <1>1, <1>4, <1>5 DEF IInv, RingInv
<1>8. JournalInv'
  BY <1>1, <1>5, ReclaimKeepsJournal
<1>9. \A t \in Subs : CursorInv(t)' /\ Covered(t)' /\ Asleep(t)'
  BY <1>1, <1>3 DEF IInv, SubsInv, CursorInv, Covered, Asleep, journalVars, cursorVars
<1>10. ASSUME NEW t \in Subs PROVE TransientInv(t)'
  <2>1. /\ seen'[t] = seen[t] /\ (conn'[t] = "live" => conn[t] = "live")
        /\ (conn'[t] = "none" => conn[t] = "none")
        /\ client'[t] = client[t] /\ failed'[t] = failed[t]
        /\ owed'[t] = owed[t] /\ heard'[t] = heard[t]
    BY <1>1, <1>3 DEF transientVars
  <2> QED BY <1>5, <2>1, ReclaimKeepsOthers
<1> QED BY <1>6, <1>7, <1>8, <1>9, <1>10 DEF IInv, SubsInv

\* Unseen is computed by index arithmetic; in an unbroken ring it is what it
\* should be, and an unseen fence is visible to every subscriber.
LEMMA UnseenFacts ==
    ASSUME IInv, NEW s \in Live, ~Lagging(s)
    PROVE  /\ Unseen(s) = {k \in 1..Len(frames) : frames[k].ordinal > seen[s]}
           /\ Unseen(s) = {} => seen[s] = ordinal
           /\ seen[s] < fence => \E k \in Visible(s) : frames[k].ordinal = fence
<1>1. /\ seen[s] \in Nat /\ ordinal \in Nat /\ seen[s] <= ordinal /\ s \in Subs
      /\ frames = <<>> => seen[s] = ordinal
      /\ fence \in Nat /\ fence <= ordinal
  BY DEF IInv, TypeOK, RingTypeOK, RingInv, JournalInv, Live
<1>2. /\ frames \in Seq(Frame) /\ Len(frames) \in Nat
      /\ \A k \in 1..Len(frames) :
            frames[k].ordinal = ordinal - Len(frames) + k /\ frames[k].ordinal \in Nat
  BY FrameTypes DEF IInv, RingInv
<1>3. CASE frames = <<>>
  BY <1>1, <1>3 DEF Unseen, Visible
<1>4. CASE frames # <<>>
  <2>1. /\ 1 \in 1..Len(frames) /\ frames[1].ordinal = ordinal - Len(frames) + 1
        /\ seen[s] >= ordinal - Len(frames)
        /\ Offset(s) = seen[s] - ordinal + Len(frames) + 1
    <3>1. 1 \in 1..Len(frames)
      BY <1>2, <1>4, EmptySeq
    <3>2. frames[1].ordinal = ordinal - Len(frames) + 1
      BY <1>2, <3>1
    <3>3. ~(seen[s] < frames[1].ordinal - 1)
      BY <1>4 DEF Lagging
    <3> QED BY <1>1, <1>2, <3>1, <3>2, <3>3 DEF Offset
  <2>2. Unseen(s) = Offset(s)..Len(frames)
    BY <1>4 DEF Unseen
  <2>3. \A k \in 1..Len(frames) : (k \in Offset(s)..Len(frames)) <=> frames[k].ordinal > seen[s]
    BY <1>1, <1>2, <2>1
  <2>4. Offset(s)..Len(frames) \subseteq 1..Len(frames)
    BY <1>1, <1>2, <2>1
  <2>5. Unseen(s) = {k \in 1..Len(frames) : frames[k].ordinal > seen[s]}
    BY <2>2, <2>3, <2>4
  <2>6. Unseen(s) = {} => seen[s] = ordinal
    <3>1. Len(frames) \in 1..Len(frames) /\ frames[Len(frames)].ordinal = ordinal
      BY <1>1, <1>2, <2>1
    <3> QED BY <1>1, <2>5, <3>1
  <2>7. ASSUME seen[s] < fence PROVE \E k \in Visible(s) : frames[k].ordinal = fence
    <3> DEFINE k == fence - ordinal + Len(frames)
    <3>0. k \in 1..Len(frames) /\ ordinal - Len(frames) + k = fence
      <4>1. /\ fence \in Nat /\ ordinal \in Nat /\ Len(frames) \in Nat /\ seen[s] \in Nat
            /\ fence <= ordinal /\ seen[s] < fence /\ seen[s] >= ordinal - Len(frames)
        BY <1>1, <1>2, <2>1, <2>7
      <4> QED BY ONLY <4>1
    <3>1. k \in 1..Len(frames) /\ frames[k].ordinal = fence
      <4>1. \A j \in 1..Len(frames) : frames[j].ordinal = ordinal - Len(frames) + j
        BY <1>2
      <4> HIDE DEF k
      <4> QED BY ONLY <3>0, <4>1
    <3> HIDE DEF k
    <3>2. k \in Unseen(s)
      BY <1>1, <2>5, <2>7, <3>1
    <3>3. frames[k].target = Everyone
      BY <3>1 DEF IInv, JournalInv
    <3> QED BY <3>1, <3>2, <3>3 DEF Visible, Addressed
  <2> QED BY <2>5, <2>6, <2>7
<1> QED BY <1>3, <1>4

\* A lagging receiver skips to the ring's first frame, with a capture to follow.
LEMMA LaggingStep ==
    ASSUME IInv, NEW s \in Subs, PollLagging(s)
    PROVE  IInv'
<1>1. /\ phase[s] = "live" /\ frames # <<>> /\ seen[s] < frames[1].ordinal - 1
      /\ seen' = [seen EXCEPT ![s] = frames[1].ordinal - 1]
      /\ waker' = [waker EXCEPT ![s] = "idle"]
      /\ phase' = [phase EXCEPT ![s] = "capture"]
      /\ UNCHANGED <<frames, ordinal, closed, conn, client, failed>>
      /\ UNCHANGED <<journalVars, last, view, read, pending, from, out, transientVars>>
  BY DEF PollLagging, poll_lagging, Lagging, Goto, disarm
<1>2. /\ 1 \in 1..Len(frames) /\ Len(frames) \in Nat /\ frames[1].ordinal \in Nat
      /\ frames[1].ordinal <= ordinal /\ ordinal \in Nat /\ seen[s] \in Nat
      /\ \A k \in 1..Len(frames) :
            frames[k].ordinal \in Nat /\ frames[k].ordinal >= frames[1].ordinal
  <2>1. /\ Len(frames) \in Nat /\ ordinal \in Nat /\ seen[s] \in Nat /\ 1 \in 1..Len(frames)
    BY <1>1, FrameTypes, EmptySeq DEF IInv, TypeOK, RingTypeOK
  <2> QED BY <2>1, FrameTypes DEF IInv, RingInv
<1>3. TypeOK
  BY DEF IInv
<1>4. \A t \in Subs :
         /\ seen'[t] = IF t = s THEN frames[1].ordinal - 1 ELSE seen[t]
         /\ waker'[t] = IF t = s THEN "idle" ELSE waker[t]
         /\ phase'[t] = IF t = s THEN "capture" ELSE phase[t]
  BY <1>1, <1>3 DEF TypeOK, RingTypeOK
<1>5. TypeOK'
  <2>1. seen' \in [Subs -> Nat]
    BY <1>1, <1>2, <1>3 DEF TypeOK, RingTypeOK
  <2> QED BY <1>1, <1>3, <2>1 DEF TypeOK, RingTypeOK, Phases, journalVars, transientVars
<1>6. RingInv'
  <2>1. ASSUME NEW t \in Live PROVE seen'[t] <= ordinal
    <3>1. t \in Subs /\ seen[t] <= ordinal
      BY DEF IInv, RingInv, Live
    <3>2. CASE t = s
      BY <1>2, <1>4, <3>1, <3>2
    <3>3. CASE t # s
      BY <1>4, <3>1, <3>3
    <3> QED BY <3>2, <3>3
  <2> QED BY <1>1, <2>1 DEF IInv, RingInv, Live
<1>7. JournalInv'
  BY <1>1 DEF IInv, JournalInv, journalVars
<1>8. ASSUME NEW t \in Subs PROVE CursorInv(t)' /\ Covered(t)' /\ Asleep(t)'
  <2>1. CASE t = s
    BY <1>1, <1>4, <2>1 DEF IInv, SubsInv, CursorInv, Covered, Asleep, journalVars
  <2>2. CASE t # s
    BY <1>1, <1>4, <2>2 DEF IInv, SubsInv, CursorInv, Covered, Asleep, journalVars
  <2> QED BY <2>1, <2>2
<1>9. ASSUME NEW t \in Subs PROVE TransientInv(t)'
  <2>1. TransientInv(t)
    BY DEF IInv, SubsInv
  <2>2. ASSUME NEW o, Kept(t, o) PROVE Kept(t, o)'
    <3>1. CASE t = s
      BY <1>1, <1>2, <1>4, <2>2, <3>1 DEF Kept, Addressed, transientVars
    <3>2. CASE t # s
      BY <1>1, <1>4, <2>2, <3>2 DEF Kept, Addressed, transientVars
    <3> QED BY <3>1, <3>2
  <2> QED BY <1>1, <2>1, <2>2 DEF TransientInv, transientVars
<1> QED BY <1>5, <1>6, <1>7, <1>8, <1>9 DEF IInv, SubsInv

\* Passing the frame i: everything but the polling subscription is preserved, and
\* the frames after i are still there for it.
LEMMA ObserveStep ==
    ASSUME IInv, NEW s \in Live, NEW i \in 1..Len(frames), frames[i].ordinal > seen[s],
           observe_frame(s, i), UNCHANGED journalVars,
           waker' \in [Subs -> {"idle", "armed", "woken"}],
           CursorTypeOK', OnlyCursorOf(s),
           heard' \in [Subs -> SUBSET Nat], UNCHANGED <<owed, sends>>,
           \A t \in Subs \ {s} : heard'[t] = heard[t] /\ waker'[t] = waker[t],
           CursorInv(s)', Covered(s)', Asleep(s)',
           \A o \in owed[s] : ~failed[s] /\ Kept(s, o) /\ o <= frames[i].ordinal => o \in heard'[s],
           heard[s] \subseteq heard'[s]
    PROVE  IInv'
<1>1. /\ seen' = [seen EXCEPT ![s] = frames[i].ordinal]
      /\ frames' = reclaim_observed(frames, seen', Live)
      /\ UNCHANGED <<ordinal, closed, conn, client, failed>>
  BY DEF observe_frame
<1>2. /\ s \in Subs /\ frames[i].ordinal \in Nat /\ frames[i].ordinal <= ordinal
      /\ frames # <<>> /\ seen \in [Subs -> Nat] /\ Live \in SUBSET Subs /\ ordinal \in Nat
      /\ Len(frames) \in Nat
  <2>1. s \in Subs /\ seen \in [Subs -> Nat] /\ Live \in SUBSET Subs /\ ordinal \in Nat
    BY DEF IInv, TypeOK, RingTypeOK, Live
  <2>2. /\ frames[i].ordinal \in Nat /\ Len(frames) \in Nat
        /\ frames[i].ordinal = ordinal - Len(frames) + i
    BY FrameTypes DEF IInv, RingInv
  <2>3. frames[i].ordinal <= ordinal /\ frames # <<>>
    BY <2>1, <2>2
  <2> QED BY <2>1, <2>2, <2>3
<1>3. seen' \in [Subs -> Nat] /\ \A t \in Subs : seen'[t] = IF t = s THEN frames[i].ordinal ELSE seen[t]
  BY <1>1, <1>2
<1>4. \A t \in Live : seen'[t] <= ordinal
  BY <1>2, <1>3 DEF IInv, RingInv
<1>5. /\ frames' \in Seq(Frame)
      /\ Len(frames') <= Capacity
      /\ \A k \in 1..Len(frames') :
            /\ frames'[k].ordinal = ordinal - Len(frames') + k
            /\ frames'[k].ordinal > 0
      /\ frames' = <<>> => \A t \in Live : seen'[t] = ordinal
      /\ \A k \in 1..Len(frames') : \E j \in 1..Len(frames) : frames'[k] = frames[j]
      /\ \A t \in Live : \A j \in 1..Len(frames) :
            frames[j].ordinal > seen'[t] => \E k \in 1..Len(frames') : frames'[k] = frames[j]
  <2>1. /\ seen' \in [Subs -> Nat] /\ Live \in SUBSET Subs
        /\ \A t \in Live : seen'[t] <= ordinal
        /\ frames = <<>> => \A t \in Live : seen'[t] = ordinal
        /\ frames' = reclaim_observed(frames, seen', Live)
    BY <1>1, <1>2, <1>3, <1>4
  <2> HIDE DEF Live
  <2> QED BY ONLY IInv, <2>1, ReclaimStep
<1>6. TypeOK'
  BY <1>1, <1>3, <1>5 DEF IInv, TypeOK, RingTypeOK, CursorTypeOK, journalVars
<1>7. Live' = Live
  BY <1>1 DEF Live
<1>8. RingInv'
  BY <1>1, <1>4, <1>5, <1>7 DEF RingInv
<1>9. JournalInv'
  BY <1>1, <1>5, ReclaimKeepsJournal
<1>10. \A t \in Subs : CursorInv(t)'
  BY <1>1, <1>2, OthersKeepCursor DEF journalVars
<1>11. \A t \in Subs \ {s} : Covered(t)' /\ Asleep(t)'
  BY <1>1, <1>3 DEF IInv, SubsInv, Covered, Asleep, OnlyCursorOf, journalVars
<1>12. ASSUME NEW t \in Subs \ {s} PROVE TransientInv(t)'
  <2>1. seen'[t] = seen[t]
    BY <1>3
  <2> QED BY <1>1, <1>5, <2>1, ReclaimKeepsOthers
<1>13. TransientInv(s)'
  <2>1. conn[s] = "live" /\ conn'[s] = "live" /\ owed'[s] = owed[s]
    BY <1>1 DEF Live
  <2> SUFFICES ASSUME ~failed[s], NEW o \in owed[s] PROVE Kept(s, o)'
    BY <1>1, <2>1 DEF TransientInv
  <2>2. Kept(s, o) /\ o \in Nat
    BY <1>2, <2>1 DEF IInv, SubsInv, TransientInv, TypeOK
  <2>3. CASE o <= frames[i].ordinal
    BY <2>2, <2>3 DEF Kept
  <2>4. CASE ~(o <= frames[i].ordinal) /\ o \in heard[s]
    BY <2>4 DEF Kept
  <2>5. CASE ~(o <= frames[i].ordinal) /\ o \notin heard[s]
    <3>1. PICK j \in 1..Len(frames) :
            /\ frames[j].ordinal = o
            /\ frames[j].source = NoSource
            /\ frames[j].payload
            /\ Addressed(s, frames[j].target)
      BY <2>2, <2>5 DEF Kept
    <3>2. o > seen'[s]
      BY <1>2, <1>3, <2>2, <2>5
    <3>3. PICK k \in 1..Len(frames') : frames'[k] = frames[j]
      BY <1>5, <3>1, <3>2
    <3> QED BY <1>1, <3>1, <3>2, <3>3 DEF Kept, Addressed
  <2> QED BY <2>3, <2>4, <2>5
<1> QED BY <1>2, <1>6, <1>8, <1>9, <1>10, <1>11, <1>12, <1>13 DEF IInv, SubsInv

\* The first visible frame: nothing owed lies between the cursor and it, and a
\* cursor behind the last published event does not step over it.
LEMMA FirstVisible ==
    ASSUME IInv, NEW s \in Subs, phase[s] = "live", NEW i \in Visible(s), poll_frame(s, i)
    PROVE  /\ s \in Live /\ i \in 1..Len(frames) /\ frames[i].ordinal > seen[s]
           /\ ~failed[s] /\ observe_frame(s, i) /\ waker' = [waker EXCEPT ![s] = "idle"]
           /\ \A o \in owed[s] : Kept(s, o) /\ o \notin heard[s] /\ o <= frames[i].ordinal =>
                 o = frames[i].ordinal /\ frames[i].source = NoSource /\ frames[i].payload
           /\ \/ published <= last[s]
              \/ frames[i].ordinal < fence
              \/ frames[i].source = published
           /\ frames[i].ordinal \in Nat /\ frames[i].source \in Nat
           /\ frames[i].source <= tail
<1>1. /\ ~failed[s] /\ ~Lagging(s) /\ \A j \in Visible(s) : i <= j
      /\ observe_frame(s, i) /\ waker' = [waker EXCEPT ![s] = "idle"]
  BY DEF poll_frame, disarm
<1>2. s \in Live /\ view[s] = NoView /\ Covered(s) /\ published \in Nat /\ seen[s] \in Nat
      /\ fence \in Nat
  BY DEF IInv, SubsInv, CursorInv, Live, TypeOK, RingTypeOK
<1>3. /\ Unseen(s) = {k \in 1..Len(frames) : frames[k].ordinal > seen[s]}
      /\ seen[s] < fence => \E k \in Visible(s) : frames[k].ordinal = fence
  BY <1>1, <1>2, UnseenFacts
<1>4. i \in 1..Len(frames) /\ frames[i].ordinal > seen[s]
  BY <1>3 DEF Visible
<1>5. /\ Len(frames) \in Nat
      /\ \A j, k \in 1..Len(frames) : j <= k => frames[j].ordinal <= frames[k].ordinal
      /\ \A j, k \in 1..Len(frames) : frames[j].ordinal = frames[k].ordinal => j = k
      /\ \A j \in 1..Len(frames) :
            /\ frames[j].ordinal \in Nat /\ frames[j].source \in Nat /\ frames[j].source <= tail
            /\ frames[j].ordinal = fence => frames[j].source = published
  <2>1. ordinal \in Nat
    BY DEF IInv, TypeOK, RingTypeOK
  <2> QED BY <2>1, FrameTypes DEF IInv, RingInv, JournalInv
<1>6. ASSUME NEW o \in owed[s], Kept(s, o), o \notin heard[s], o <= frames[i].ordinal
      PROVE  o = frames[i].ordinal /\ frames[i].source = NoSource /\ frames[i].payload
  <2>1. PICK k \in 1..Len(frames) :
          /\ frames[k].ordinal = o /\ o > seen[s]
          /\ frames[k].source = NoSource
          /\ frames[k].payload
          /\ Addressed(s, frames[k].target)
    BY <1>6 DEF Kept
  <2>2. k \in Visible(s)
    BY <1>3, <2>1 DEF Visible
  <2>3. frames[i].ordinal <= frames[k].ordinal
    BY <1>1, <1>4, <1>5, <2>2
  <2>4. frames[i].ordinal = frames[k].ordinal
    BY <1>4, <1>5, <1>6, <2>1, <2>3
  <2>5. i = k
    BY <1>4, <1>5, <2>4
  <2> QED BY <2>1, <2>5
<1>7. published <= last[s] \/ seen[s] < fence
  BY <1>2 DEF Covered, NoView
<1>8. ASSUME seen[s] < fence PROVE frames[i].ordinal < fence \/ frames[i].source = published
  <2>1. PICK k \in Visible(s) : frames[k].ordinal = fence
    BY <1>3, <1>8
  <2>2. k \in 1..Len(frames) /\ frames[i].ordinal <= fence
    BY <1>1, <1>3, <1>4, <1>5, <2>1 DEF Visible
  <2> QED BY <1>2, <1>4, <1>5, <2>2
<1> QED BY <1>1, <1>2, <1>4, <1>5, <1>6, <1>7, <1>8

\* One polled frame: recv moves on with at most the next durable event handed
\* over, or asks for a capture.
LEMMA FrameStep ==
    ASSUME IInv, NEW s \in Subs, phase[s] = "live", NEW i \in Visible(s), poll_frame(s, i),
           UNCHANGED <<journalVars, view, read, pending, from, owed, sends>>,
           NEW p \in {"head", "capture"}, phase' = [phase EXCEPT ![s] = p],
           \/ UNCHANGED <<last, out>>
           \/ Hand(s, frames[i].source) /\ frames[i].source = last[s] + 1,
           \/ UNCHANGED heard /\ (frames[i].source # NoSource \/ ~frames[i].payload)
           \/ heard' = [heard EXCEPT ![s] = heard[s] \cup {frames[i].ordinal}],
           p = "head" /\ frames[i].source = published => published <= last'[s]
    PROVE  IInv'
<1>1. /\ s \in Live /\ i \in 1..Len(frames) /\ frames[i].ordinal > seen[s]
      /\ ~failed[s] /\ observe_frame(s, i) /\ waker' = [waker EXCEPT ![s] = "idle"]
      /\ \A o \in owed[s] : Kept(s, o) /\ o \notin heard[s] /\ o <= frames[i].ordinal =>
            o = frames[i].ordinal /\ frames[i].source = NoSource /\ frames[i].payload
      /\ \/ published <= last[s]
         \/ frames[i].ordinal < fence
         \/ frames[i].source = published
      /\ frames[i].ordinal \in Nat /\ frames[i].source \in Nat
      /\ frames[i].source <= tail
  BY FirstVisible
<1>2. /\ CursorTypeOK /\ CursorInv(s) /\ tail \in Nat /\ published \in Nat
      /\ heard \in [Subs -> SUBSET Nat] /\ seen \in [Subs -> Nat]
      /\ waker \in [Subs -> {"idle", "armed", "woken"}]
  BY DEF IInv, TypeOK, RingTypeOK, CursorTypeOK, SubsInv
<1>3. /\ waker' \in [Subs -> {"idle", "armed", "woken"}]
      /\ heard' \in [Subs -> SUBSET Nat]
      /\ \A t \in Subs \ {s} : heard'[t] = heard[t] /\ waker'[t] = waker[t]
      /\ heard[s] \subseteq heard'[s]
  <2>1. /\ waker' \in [Subs -> {"idle", "armed", "woken"}]
        /\ \A t \in Subs \ {s} : waker'[t] = waker[t]
    BY <1>1, <1>2
  <2>2. CASE UNCHANGED heard
    BY <1>2, <2>1, <2>2
  <2>3. CASE heard' = [heard EXCEPT ![s] = heard[s] \cup {frames[i].ordinal}]
    <3>1. heard[s] \cup {frames[i].ordinal} \in SUBSET Nat
      BY <1>1, <1>2
    <3>2. heard' \in [Subs -> SUBSET Nat]
      BY <1>2, <2>3, <3>1
    <3> QED BY <1>2, <2>1, <2>3, <3>2
  <2> QED BY <2>2, <2>3
<1>4. \A o \in owed[s] : ~failed[s] /\ Kept(s, o) /\ o <= frames[i].ordinal => o \in heard'[s]
  BY <1>1, <1>2
<1>5. /\ phase'[s] = p /\ view'[s] = NoView /\ pending'[s] = <<>> /\ read'[s].status = "none"
      /\ view[s] = NoView /\ Len(pending'[s]) = 0
      /\ from'[s] = from[s] /\ conn'[s] = "live" /\ tail' = tail
      /\ seen'[s] = frames[i].ordinal /\ published' = published /\ fence' = fence
  <2>1. view[s] = NoView /\ conn[s] = "live"
    BY <1>2 DEF CursorInv
  <2>2. pending[s] = <<>> /\ read[s].status = "none"
    BY <1>2, <2>1 DEF CursorInv
  <2> QED BY <1>1, <1>2, <2>1, <2>2 DEF CursorTypeOK, observe_frame, journalVars
<1>6. CASE UNCHANGED <<last, out>>
  <2>1. CursorTypeOK' /\ OnlyCursorOf(s)
    BY <1>2, <1>6 DEF CursorTypeOK, OnlyCursorOf, Phases
  <2>2. CursorInv(s)'
    BY <1>2, <1>5, <1>6 DEF CursorInv, NoView
  <2>3. Covered(s)' /\ Asleep(s)'
    BY <1>1, <1>5, <1>6 DEF Covered, Asleep
  <2> QED BY <1>1, <1>3, <1>4, <2>1, <2>2, <2>3, ObserveStep
<1>7. CASE Hand(s, frames[i].source) /\ frames[i].source = last[s] + 1
  <2> DEFINE q == frames[i].source
  <2>1. /\ Append(out[s], q) \in Seq(Nat) /\ Len(Append(out[s], q)) = Len(out[s]) + 1
        /\ Len(out[s]) \in Nat
        /\ \A k \in 1..Len(out[s]) : Append(out[s], q)[k] = out[s][k]
        /\ Append(out[s], q)[Len(out[s]) + 1] = q
    BY <1>1, <1>2, AppendProperties, LenProperties DEF CursorTypeOK
  <2>2. last' = [last EXCEPT ![s] = q] /\ out' = [out EXCEPT ![s] = Append(out[s], q)]
        /\ q \in Nat /\ q = last[s] + 1 /\ q <= tail
    BY <1>1, <1>7 DEF Hand
  <2> HIDE DEF q
  <2>3. CursorTypeOK' /\ OnlyCursorOf(s)
    BY <1>2, <2>1, <2>2 DEF CursorTypeOK, OnlyCursorOf, Phases
  <2>4. last'[s] = q /\ out'[s] = Append(out[s], q) /\ from[s] \in Nat /\ last[s] \in Nat
    BY <1>2, <2>2 DEF CursorTypeOK
  <2>5. CursorInv(s)'
    <3>1. \A k \in 1..Len(Append(out[s], q)) : Append(out[s], q)[k] = from[s] + k
      BY <1>2, <2>1, <2>2, <2>4 DEF CursorInv
    <3>2. /\ last'[s] = from'[s] + Len(out'[s]) /\ last'[s] <= tail' /\ view'[s] <= tail'
      BY ONLY <1>2, <1>5, <2>1, <2>2, <2>4 DEF CursorInv, NoView
    <3> QED BY ONLY <1>5, <2>4, <3>1, <3>2 DEF CursorInv
  <2>6. Covered(s)' /\ Asleep(s)'
    BY <1>1, <1>2, <1>5, <2>2, <2>4 DEF Covered, Asleep
  <2> QED BY <1>1, <1>3, <1>4, <2>3, <2>5, <2>6, ObserveStep
<1> QED BY <1>6, <1>7

\* Taking a frame from the ring: durable, fence or transient.
LEMMA PollFrameStep ==
    ASSUME IInv, NEW s \in Subs, PollDurable(s) \/ PollFence(s) \/ PollTransient(s)
    PROVE  IInv'
<1>0. published \in Nat /\ last \in [Subs -> Nat] /\ last[s] \in Nat /\ phase[s] = "live"
  BY DEF IInv, TypeOK, PollDurable, PollFence, PollTransient
<1>1. CASE PollDurable(s)
  <2>1. PICK i \in Visible(s) :
          /\ poll_frame(s, i)
          /\ frames[i].source # NoSource
          /\ Accept(s, frames[i].source)
    BY <1>1 DEF PollDurable
  <2>2. UNCHANGED <<journalVars, view, read, pending, from, owed, sends>> /\ UNCHANGED heard
    BY <1>1 DEF PollDurable, transientVars
  <2>3. frames[i].source \in Nat
    BY <1>0, <2>1, FirstVisible
  <2>4. CASE frames[i].source <= last[s] /\ Goto(s, "head") /\ UNCHANGED <<last, out>>
    BY <1>0, <2>1, <2>2, <2>3, <2>4, FrameStep DEF Goto
  <2>5. CASE frames[i].source = last[s] + 1 /\ Hand(s, frames[i].source) /\ Goto(s, "head")
    <3>1. last'[s] = frames[i].source
      BY <1>0, <2>5 DEF Hand
    <3>2. /\ phase' = [phase EXCEPT ![s] = "head"] /\ "head" \in {"head", "capture"}
          /\ Hand(s, frames[i].source) /\ frames[i].source = last[s] + 1
          /\ frames[i].source = published => published <= last'[s]
      BY <1>0, <2>3, <2>5, <3>1 DEF Goto
    <3> QED BY <1>0, <2>1, <2>2, <3>2, FrameStep
  <2>6. CASE Goto(s, "capture") /\ UNCHANGED <<last, out>>
    BY <1>0, <2>1, <2>2, <2>6, FrameStep DEF Goto
  <2> QED BY <2>1, <2>4, <2>5, <2>6 DEF Accept
<1>2. CASE PollFence(s)
  <2>1. PICK i \in Visible(s) : poll_frame(s, i) /\ ~frames[i].payload
    BY <1>2 DEF PollFence
  <2>2. /\ phase' = [phase EXCEPT ![s] = "capture"]
        /\ UNCHANGED <<journalVars, view, read, pending, from, owed, sends>>
        /\ UNCHANGED <<last, out>> /\ UNCHANGED heard
    BY <1>2 DEF PollFence, Goto, transientVars
  <2> QED BY <1>0, <2>1, <2>2, FrameStep
<1>3. CASE PollTransient(s)
  <2>1. PICK i \in Visible(s) :
          /\ poll_frame(s, i)
          /\ frames[i].source = NoSource
          /\ heard' = [heard EXCEPT ![s] = heard[s] \cup {frames[i].ordinal}]
    BY <1>3 DEF PollTransient
  <2>2. /\ phase' = [phase EXCEPT ![s] = "head"]
        /\ UNCHANGED <<journalVars, view, read, pending, from, owed, sends>>
        /\ UNCHANGED <<last, out>>
    BY <1>3 DEF PollTransient, Goto
  <2>3. frames[i].source = published => published <= last'[s]
    BY <1>0, <2>1, <2>2 DEF NoSource
  <2> QED BY <1>0, <2>1, <2>2, <2>3, FrameStep
<1> QED BY <1>1, <1>2, <1>3

\* Nothing for this client is left in the ring: the cursor is at its end, and a
\* receiver about to sleep has everything that was published.
LEMMA PollEmptyStep ==
    ASSUME IInv, NEW s \in Subs, PollEmpty(s)
    PROVE  IInv'
<1>1. /\ phase[s] = "live" /\ ~failed[s] /\ ~Lagging(s) /\ Visible(s) = {}
      /\ IF Unseen(s) = {}
            THEN UNCHANGED <<frames, ordinal, closed, conn, client, seen, failed>>
            ELSE observe_frame(s, Len(frames))
      /\ waker' = IF closed THEN [waker EXCEPT ![s] = "idle"] ELSE waker
      /\ phase' = [phase EXCEPT ![s] = IF closed THEN "closing" ELSE "waiting"]
      /\ UNCHANGED <<journalVars, last, view, read, pending, from, out, transientVars>>
  BY DEF PollEmpty, poll_empty, Goto, disarm
<1>2. /\ TypeOK /\ CursorTypeOK /\ CursorInv(s) /\ Covered(s) /\ s \in Live /\ view[s] = NoView
      /\ published \in Nat /\ fence \in Nat /\ fence <= ordinal /\ ordinal \in Nat
      /\ seen[s] \in Nat /\ TransientInv(s) /\ conn[s] = "live"
  BY <1>1 DEF IInv, TypeOK, RingTypeOK, CursorTypeOK, SubsInv, CursorInv, JournalInv, Live
<1>3. /\ Unseen(s) = {k \in 1..Len(frames) : frames[k].ordinal > seen[s]}
      /\ Unseen(s) = {} => seen[s] = ordinal
      /\ ~(seen[s] < fence)
  BY <1>1, <1>2, UnseenFacts
<1>4. published <= last[s]
  BY <1>1, <1>2, <1>3 DEF Covered, NoView
<1>5. /\ CursorTypeOK' /\ OnlyCursorOf(s)
      /\ waker' \in [Subs -> {"idle", "armed", "woken"}]
      /\ \A t \in Subs \ {s} : waker'[t] = waker[t]
      /\ phase'[s] = IF closed THEN "closing" ELSE "waiting"
  BY <1>1, <1>2 DEF TypeOK, RingTypeOK, CursorTypeOK, OnlyCursorOf, Phases
<1>6. /\ closed' = closed /\ failed' = failed /\ conn' = conn /\ ordinal' = ordinal
      /\ client' = client
  BY <1>1 DEF observe_frame
<1>7. CursorInv(s)'
  BY <1>1, <1>2, <1>5, <1>6 DEF CursorInv, journalVars, NoView
<1>8. Covered(s)'
  BY <1>1, <1>4, <1>5 DEF Covered, journalVars
<1>9. CASE Unseen(s) = {}
  <2>1. UNCHANGED <<frames, ordinal, closed, conn, client, seen, failed>>
    BY <1>1, <1>9
  <2>2. TypeOK'
    BY <1>1, <1>2, <1>5, <2>1
       DEF TypeOK, RingTypeOK, CursorTypeOK, journalVars, transientVars
  <2>3. RingInv' /\ JournalInv'
    BY <1>1, <2>1 DEF IInv, RingInv, JournalInv, Live, journalVars
  <2>4. \A t \in Subs : CursorInv(t)'
    BY <1>1, <1>5, <1>6, <1>7, OthersKeepCursor DEF journalVars
  <2>5. \A t \in Subs \ {s} : Covered(t)' /\ Asleep(t)'
    BY <1>1, <1>5, <2>1 DEF IInv, SubsInv, Covered, Asleep, OnlyCursorOf, journalVars
  <2>6. Asleep(s)'
    BY <1>1, <1>3, <1>5, <1>9, <2>1 DEF Asleep
  <2>7. \A t \in Subs : TransientInv(t)'
    BY <1>1, <2>1 DEF IInv, SubsInv, TransientInv, Kept, Addressed, transientVars
  <2> QED BY <1>8, <2>2, <2>3, <2>4, <2>5, <2>6, <2>7 DEF IInv, SubsInv
<1>10. CASE Unseen(s) # {}
  <2> DEFINE n == Len(frames)
  <2>1. /\ n \in Nat /\ \A k \in 1..n : frames[k].ordinal = ordinal - n + k
    BY FrameTypes DEF IInv, RingInv
  <2>2. PICK k \in 1..n : frames[k].ordinal > seen[s]
    BY <1>3, <1>10
  <2>3. n \in 1..n /\ frames[n].ordinal = ordinal /\ frames[n].ordinal > seen[s]
    BY <1>2, <2>1, <2>2
  <2>4. observe_frame(s, n)
    BY <1>1, <1>10
  <2>5. seen'[s] = ordinal
    BY <1>2, <2>3, <2>4 DEF observe_frame, TypeOK, RingTypeOK
  <2>6. Asleep(s)'
    BY <1>1, <1>5, <1>6, <2>5 DEF Asleep
  <2>7. \A o \in owed[s] : ~failed[s] /\ Kept(s, o) => o \in heard[s]
    <3> SUFFICES ASSUME NEW o \in owed[s], Kept(s, o), o \notin heard[s] PROVE FALSE
      OBVIOUS
    <3>1. PICK j \in 1..Len(frames) :
            frames[j].ordinal = o /\ o > seen[s] /\ Addressed(s, frames[j].target)
      BY DEF Kept
    <3>2. j \in Visible(s)
      BY <1>3, <3>1 DEF Visible
    <3> QED BY <1>1, <3>2
  <2>8. /\ heard' = heard /\ UNCHANGED <<owed, sends>> /\ UNCHANGED journalVars
        /\ heard' \in [Subs -> SUBSET Nat]
    BY <1>1, <1>2 DEF transientVars, TypeOK
  <2>9. /\ \A o \in owed[s] : ~failed[s] /\ Kept(s, o) /\ o <= frames[n].ordinal => o \in heard'[s]
        /\ \A t \in Subs \ {s} : heard'[t] = heard[t] /\ waker'[t] = waker[t]
        /\ heard[s] \subseteq heard'[s]
    BY <1>5, <2>7, <2>8
  <2> HIDE DEF n
  <2>10. n = Len(frames)
    BY DEF n
  <2> QED BY <1>2, <1>5, <1>7, <1>8, <2>3, <2>4, <2>6, <2>8, <2>9, <2>10, ObserveStep
<1> QED BY <1>9, <1>10

-------------------------------------------------------------------------------
(* The invariant and what it implies.                                         *)

\* Stuttering keeps the invariant.
LEMMA StutterStep == IInv /\ UNCHANGED vars => IInv'
<1> SUFFICES ASSUME IInv, UNCHANGED vars PROVE IInv'
  OBVIOUS
<1> USE DEF vars, ringVars, journalVars, cursorVars, transientVars
<1>1. TypeOK'
  BY DEF IInv, TypeOK, RingTypeOK
<1>2. RingInv' /\ JournalInv'
  BY DEF IInv, RingInv, JournalInv, Live
<1>3. \A t \in Subs : CursorInv(t)' /\ Covered(t)' /\ Asleep(t)'
  BY DEF IInv, SubsInv, CursorInv, Covered, Asleep
<1>4. \A t \in Subs : TransientInv(t)'
  BY DEF IInv, SubsInv, TransientInv, Kept, Addressed
<1> QED BY <1>1, <1>2, <1>3, <1>4 DEF IInv, SubsInv

\* Every step of the session actor keeps the invariant.
LEMMA PublisherStep == IInv /\ Publisher => IInv'
BY JournalStep, PublishStep, SendStep, CloseStep DEF Publisher

\* Every step of a subscription keeps the invariant.
LEMMA SubscriberStep ==
    ASSUME IInv, NEW s \in Subs, Subscriber(s)
    PROVE  IInv'
<1>1. CASE \E c \in Clients : Subscribe(s, c)
  BY <1>1, SubscribeStep
<1>2. CASE Drop(s)
  BY <1>2, DropStep
<1>3. CASE DropReclaim(s)
  BY <1>3, DropReclaimStep
<1>4. CASE \/ \E cursor \in 0..MaxSeq : OpenClient(s, cursor)
           \/ OpenLive(s) \/ OpenRefused(s)
           \/ Recv(s) \/ ReplayDone(s) \/ StartRead(s)
           \/ \E n \in 1..MaxPage : FinishRead(s, n)
           \/ TakePage(s) \/ ReplayFails(s) \/ DeliverPending(s)
           \/ Capture(s) \/ CaptureClosed(s) \/ CaptureFails(s)
  BY <1>4, LocalStep
<1>5. CASE GoLive(s) \/ Wake(s) \/ Cancel(s) \/ PollFailed(s)
  BY <1>5, WakerStep
<1>6. CASE PollLagging(s)
  BY <1>6, LaggingStep
<1>7. CASE PollDurable(s) \/ PollFence(s) \/ PollTransient(s)
  BY <1>7, PollFrameStep
<1>8. CASE PollEmpty(s)
  BY <1>8, PollEmptyStep
<1> QED BY <1>1, <1>2, <1>3, <1>4, <1>5, <1>6, <1>7, <1>8 DEF Subscriber, Replay, Poll

\* The invariant holds in every reachable state of the session's live delivery
\* (live_events.rs, receiver.rs, subscription.rs).
THEOREM InductiveInvariant == Spec => []IInv
<1>1. IInv /\ [Next]_vars => IInv'
  BY StutterStep, PublisherStep, SubscriberStep DEF Next
<1> QED BY <1>1, InitIInv, PTL DEF Spec

\* Every variable keeps its type, with journal positions, ordinals and cursors
\* never negative: the index arithmetic of poll and the ring cannot underflow.
THEOREM TypeCorrect == Spec => []TypeOK
<1>1. IInv => TypeOK
  BY DEF IInv
<1> QED BY <1>1, InductiveInvariant, PTL

\* Any number of subscribers, any capacity, any batch and page size: recv hands
\* over the durable events after the opening position once each, in order.
THEOREM DeliveryIsContiguous == Spec => []ContiguousDelivery
<1>1. IInv => ContiguousDelivery
  BY DEF IInv, SubsInv, CursorInv, ContiguousDelivery
<1> QED BY <1>1, InductiveInvariant, PTL

\* No transient event addressed to an unfailed subscriber disappears unheard.
THEOREM NothingLostSilently == Spec => []NoSilentLoss
<1>1. IInv => NoSilentLoss
  BY DEF IInv, SubsInv, TransientInv, Kept, NoSilentLoss
<1> QED BY <1>1, InductiveInvariant, PTL

\* No wake-up is lost, and none is needed for an event stranded behind a cursor.
THEOREM SleepersAreCaughtUp == Spec => []SleepingIsCaughtUp
<1>1. ASSUME IInv PROVE SleepingIsCaughtUp
  <2> SUFFICES ASSUME NEW s \in Subs, phase[s] = "waiting", waker[s] = "armed"
               PROVE  ~failed[s] /\ ~closed /\ seen[s] = ordinal /\ published <= last[s]
    BY DEF SleepingIsCaughtUp
  <2>1. ~failed[s] /\ ~closed /\ seen[s] = ordinal
    BY <1>1 DEF IInv, SubsInv, Asleep
  <2>2. view[s] = NoView /\ published \in Nat /\ fence \in Nat /\ ordinal \in Nat /\ fence <= ordinal
    BY <1>1 DEF IInv, SubsInv, CursorInv, TypeOK, RingTypeOK, JournalInv
  <2>3. published <= last[s] \/ published <= view[s] \/ seen[s] < fence
    BY <1>1 DEF IInv, SubsInv, Covered
  <2> QED BY <2>1, <2>2, <2>3 DEF NoView
<1> QED BY <1>1, InductiveInvariant, PTL

\* The index arithmetic of poll is sound for every capacity.
THEOREM RingStaysSuffix == Spec => []RingIsSuffix
<1>1. IInv => RingIsSuffix
  BY DEF IInv, RingInv, JournalInv, RingIsSuffix
<1> QED BY <1>1, InductiveInvariant, PTL

-------------------------------------------------------------------------------
(* Subscriptions implement OrderedDelivery.                                   *)

\* The abstract stage of a phase; Stage(s) is StageOf(phase[s]).
StageOf(p) ==
    IF p \in {"none", "joining"} THEN "none"
    ELSE IF p = "ended" THEN "ended"
    ELSE IF p = "broken" THEN "gone"
    ELSE "open"

Stages == [s \in Subs |-> Stage(s)]

OnlyPhaseOf(s) == \A t \in Subs \ {s} : phase'[t] = phase[t]

\* The abstract stage of the one subscription whose phase changes follows it.
LEMMA StageMoves ==
    ASSUME NEW s \in Subs, OnlyPhaseOf(s)
    PROVE  /\ Stages' = [Stages EXCEPT ![s] = StageOf(phase'[s])]
           /\ Stages[s] = StageOf(phase[s])
           /\ StageOf(phase'[s]) = StageOf(phase[s]) => Stages' = Stages
<1>1. \A t \in Subs : Stage(t) = StageOf(phase[t]) /\ Stage(t)' = StageOf(phase'[t])
  BY DEF Stage, StageOf
<1>2. \A t \in Subs : Stages[t] = StageOf(phase[t]) /\ Stages'[t] = StageOf(phase'[t])
  BY <1>1 DEF Stages
<1>3. /\ Stages = [t \in Subs |-> Stages[t]] /\ Stages' = [t \in Subs |-> Stages'[t]]
  BY DEF Stages
<1> HIDE DEF Stages
<1> QED BY <1>2, <1>3 DEF OnlyPhaseOf

\* No phase changes: no stage does.
LEMMA StageStays ==
    ASSUME UNCHANGED phase PROVE Stages' = Stages
BY DEF Stages, Stage

\* Steps that hand over nothing and leave the stage of every subscription.
LEMMA Stutters ==
    ASSUME UNCHANGED <<tail, last>>, Stages' = Stages
    PROVE  UNCHANGED Abstract!vars
BY DEF Abstract!vars, Stages

\* Opening a subscription at a position the journal has is Open.
LEMMA Opens ==
    ASSUME NEW s \in Subs, NEW p \in 0..tail, Stages[s] = "none",
           Stages' = [Stages EXCEPT ![s] = "open"], last' = [last EXCEPT ![s] = p],
           UNCHANGED tail
    PROVE  Abstract!Next
<1>1. Abstract!Open(s, p)
  BY DEF Abstract!Open, Stages
<1> QED BY <1>1 DEF Abstract!Next

\* Handing over the next journal event is Take.
LEMMA Takes ==
    ASSUME NEW s \in Subs, Stages[s] = "open", last[s] < tail,
           Stages' = Stages, last' = [last EXCEPT ![s] = last[s] + 1],
           UNCHANGED tail
    PROVE  Abstract!Next
<1>1. Abstract!Take(s)
  BY DEF Abstract!Take, Stages
<1> QED BY <1>1 DEF Abstract!Next

\* Reporting the end with everything handed over is End.
LEMMA Ends ==
    ASSUME NEW s \in Subs, Stages[s] = "open", last[s] = tail,
           Stages' = [Stages EXCEPT ![s] = "ended"], UNCHANGED <<tail, last>>
    PROVE  Abstract!Next
<1>1. Abstract!End(s)
  BY DEF Abstract!End, Stages
<1> QED BY <1>1 DEF Abstract!Next

\* Dropping or failing a subscription is Leave.
LEMMA Leaves ==
    ASSUME NEW s \in Subs, Stages[s] # "gone",
           Stages' = [Stages EXCEPT ![s] = "gone"], UNCHANGED <<tail, last>>
    PROVE  Abstract!Next
<1>1. Abstract!Leave(s)
  BY DEF Abstract!Leave, Stages
<1> QED BY <1>1 DEF Abstract!Next

\* Steps of the actor are steps of OrderedDelivery, or stutter.
LEMMA PublisherRefines ==
    ASSUME IInv, Publisher
    PROVE  Abstract!Next \/ UNCHANGED Abstract!vars
<1>0. tail \in Nat
  BY DEF IInv, TypeOK
<1>1. CASE (\E n \in 1..MaxBatch, credit \in BOOLEAN : Commit(n, credit)) \/ CommitUnacknowledged
  <2>1. tail' \in Nat /\ tail' > tail /\ UNCHANGED cursorVars
    BY <1>0, <1>1, DeliveryAssumption DEF Commit, CommitUnacknowledged
  <2>2. Stages' = Stages /\ last' = last
    BY <2>1, StageStays DEF cursorVars
  <2>3. Abstract!Grow
    BY <2>1, <2>2 DEF Abstract!Grow, Stages
  <2> QED BY <2>3 DEF Abstract!Next
<1>2. CASE \/ PublishCommitted \/ PublishClosed \/ Close
           \/ \E target \in Targets, credit \in BOOLEAN : Send(target, credit)
  <2>1. tail' = tail /\ UNCHANGED cursorVars
    BY <1>2 DEF PublishCommitted, PublishClosed, Close, Send, journalVars
  <2> QED BY <2>1, StageStays, Stutters DEF cursorVars
<1> QED BY <1>1, <1>2 DEF Publisher

\* Steps of a subscription are steps of OrderedDelivery, or stutter.
LEMMA SubscriberRefines ==
    ASSUME IInv, NEW s \in Subs, Subscriber(s)
    PROVE  Abstract!Next \/ UNCHANGED Abstract!vars
<1>0. /\ phase \in [Subs -> Phases] /\ last \in [Subs -> Nat] /\ tail \in Nat /\ last[s] \in Nat
      /\ CursorInv(s) /\ CursorTypeOK
  BY DEF IInv, TypeOK, SubsInv, CursorTypeOK
<1> USE DEF Goto
<1>1. CASE \E cursor \in 0..MaxSeq : OpenClient(s, cursor)
  <2>0. PICK cursor \in 0..MaxSeq : OpenClient(s, cursor)
    BY <1>1
  <2>1. /\ phase[s] = "joining" /\ phase' = [phase EXCEPT ![s] = "head"]
        /\ last' = [last EXCEPT ![s] = cursor] /\ UNCHANGED tail /\ cursor \in 0..tail
    BY <1>0, <2>0, DeliveryAssumption DEF OpenClient, journalVars
  <2>2. Stages[s] = "none" /\ Stages' = [Stages EXCEPT ![s] = "open"]
    <3>1. OnlyPhaseOf(s) /\ phase'[s] = "head"
      BY <1>0, <2>1 DEF OnlyPhaseOf
    <3> QED BY <1>0, <2>1, <3>1, StageMoves DEF StageOf
  <2> QED BY <2>1, <2>2, Opens
<1>2. CASE OpenLive(s)
  <2>1. /\ phase[s] = "joining" /\ phase' = [phase EXCEPT ![s] = "head"]
        /\ last' = [last EXCEPT ![s] = tail] /\ UNCHANGED tail /\ tail \in 0..tail
    BY <1>0, <1>2 DEF OpenLive, journalVars
  <2>2. Stages[s] = "none" /\ Stages' = [Stages EXCEPT ![s] = "open"]
    <3>1. OnlyPhaseOf(s) /\ phase'[s] = "head"
      BY <1>0, <2>1 DEF OnlyPhaseOf
    <3> QED BY <1>0, <2>1, <3>1, StageMoves DEF StageOf
  <2> QED BY <2>1, <2>2, Opens
<1>3. CASE OpenRefused(s) \/ ReplayFails(s) \/ CaptureFails(s) \/ PollFailed(s)
           \/ (Recv(s) /\ failed[s])
  <2>1. /\ phase[s] \in {"joining", "body", "capture", "closing", "live", "head"}
        /\ phase' = [phase EXCEPT ![s] = "broken"] /\ UNCHANGED <<tail, last>>
    BY <1>3 DEF OpenRefused, ReplayFails, NeedsPage, CaptureFails, PollFailed, Recv, journalVars
  <2>2. Stages[s] # "gone" /\ Stages' = [Stages EXCEPT ![s] = "gone"]
    <3>1. OnlyPhaseOf(s) /\ phase'[s] = "broken"
      BY <1>0, <2>1 DEF OnlyPhaseOf
    <3> QED BY <1>0, <2>1, <3>1, StageMoves DEF StageOf
  <2> QED BY <2>1, <2>2, Leaves
<1>4. CASE Drop(s)
  <2>1. /\ phase[s] \in {"head", "ended", "broken"} /\ UNCHANGED <<tail, last>>
        /\ phase' = [phase EXCEPT ![s] = IF phase[s] = "ended" THEN phase[s] ELSE "broken"]
    BY <1>4 DEF Drop, journalVars
  <2>2. CASE phase[s] = "head"
    <3>1. Stages[s] # "gone" /\ Stages' = [Stages EXCEPT ![s] = "gone"]
      <4>1. OnlyPhaseOf(s) /\ phase'[s] = "broken"
        BY <1>0, <2>1, <2>2 DEF OnlyPhaseOf
      <4> QED BY <1>0, <2>1, <2>2, <4>1, StageMoves DEF StageOf
    <3> QED BY <2>1, <3>1, Leaves
  <2>3. CASE phase[s] # "head"
    <3>1. Stages' = Stages
      <4>1. OnlyPhaseOf(s) /\ phase'[s] = phase[s]
        BY <1>0, <2>1, <2>3 DEF OnlyPhaseOf
      <4> QED BY <1>0, <2>1, <2>3, <4>1, StageMoves DEF StageOf
    <3> QED BY <2>1, <3>1, Stutters
  <2> QED BY <2>2, <2>3
<1>5. CASE DeliverPending(s)
  <2>1. /\ phase[s] = "body" /\ phase' = [phase EXCEPT ![s] = "head"] /\ UNCHANGED tail
        /\ pending[s] # <<>> /\ last' = [last EXCEPT ![s] = Head(pending[s])]
    BY <1>5 DEF DeliverPending, Hand, journalVars
  <2>2. Stages[s] = "open" /\ Stages' = Stages
    <3>1. OnlyPhaseOf(s) /\ phase'[s] = "head"
      BY <1>0, <2>1 DEF OnlyPhaseOf
    <3> QED BY <1>0, <2>1, <3>1, StageMoves DEF StageOf
  <2>3. pending[s] \in Seq(Nat) /\ Len(pending[s]) \in Nat /\ Len(pending[s]) >= 1
        /\ Head(pending[s]) = pending[s][1]
    BY <1>0, <2>1, EmptySeq, LenProperties, HeadTailProperties DEF CursorTypeOK
  <2>4. Head(pending[s]) = last[s] + 1 /\ last[s] < tail
    <3>1. pending[s][1] = last[s] + 1 /\ view[s] # NoView
      BY <1>0, <2>1, <2>3 DEF CursorInv
    <3>2. last[s] + Len(pending[s]) <= view[s] /\ view[s] <= tail /\ view[s] \in Nat
      BY <1>0, <3>1 DEF CursorInv, CursorTypeOK
    <3> QED BY <1>0, <2>3, <3>1, <3>2
  <2> QED BY <2>1, <2>2, <2>4, Takes
<1>6. CASE PollDurable(s)
  <2>1. PICK i \in Visible(s) : poll_frame(s, i) /\ Accept(s, frames[i].source)
    BY <1>6 DEF PollDurable
  <2>2. phase[s] = "live" /\ UNCHANGED tail /\ frames[i].source <= tail /\ frames[i].source \in Nat
    BY <1>6, <2>1, FirstVisible DEF PollDurable, journalVars
  <2>3. CASE UNCHANGED last
    <3>1. PICK p \in {"head", "capture"} : phase' = [phase EXCEPT ![s] = p]
      BY <2>1 DEF Accept
    <3>2. Stages' = Stages
      <4>1. OnlyPhaseOf(s) /\ phase'[s] = p
        BY <1>0, <2>2, <3>1 DEF OnlyPhaseOf
      <4> QED BY <1>0, <2>2, <3>1, <4>1, StageMoves DEF StageOf
    <3> QED BY <2>2, <2>3, <3>2, Stutters
  <2>4. CASE frames[i].source = last[s] + 1 /\ Hand(s, frames[i].source) /\ Goto(s, "head")
    <3>1. Stages[s] = "open" /\ Stages' = Stages
      <4>1. OnlyPhaseOf(s) /\ phase'[s] = "head"
        BY <1>0, <2>2, <2>4 DEF OnlyPhaseOf
      <4> QED BY <1>0, <2>2, <2>4, <4>1, StageMoves DEF StageOf
    <3>2. last' = [last EXCEPT ![s] = last[s] + 1] /\ last[s] < tail
      BY <1>0, <2>2, <2>4 DEF Hand
    <3> QED BY <2>2, <3>1, <3>2, Takes
  <2> QED BY <2>1, <2>3, <2>4 DEF Accept
<1>7. CASE CaptureClosed(s)
  <2>1. phase[s] = "closing" /\ UNCHANGED <<tail, last>>
    BY <1>7 DEF CaptureClosed, journalVars
  <2>2. CASE last[s] = tail
    <3>1. phase' = [phase EXCEPT ![s] = "ended"]
      BY <1>7, <2>2 DEF CaptureClosed
    <3>2. Stages[s] = "open" /\ Stages' = [Stages EXCEPT ![s] = "ended"]
      <4>1. OnlyPhaseOf(s) /\ phase'[s] = "ended"
        BY <1>0, <2>1, <3>1 DEF OnlyPhaseOf
      <4> QED BY <1>0, <2>1, <3>1, <4>1, StageMoves DEF StageOf
    <3> QED BY <2>1, <2>2, <3>2, Ends
  <2>3. CASE last[s] # tail
    <3>1. phase' = [phase EXCEPT ![s] = "head"]
      BY <1>7, <2>3 DEF CaptureClosed
    <3>2. Stages' = Stages
      <4>1. OnlyPhaseOf(s) /\ phase'[s] = "head"
        BY <1>0, <2>1, <3>1 DEF OnlyPhaseOf
      <4> QED BY <1>0, <2>1, <3>1, <4>1, StageMoves DEF StageOf
    <3> QED BY <2>1, <3>2, Stutters
  <2> QED BY <2>2, <2>3
<1>8. CASE \/ DropReclaim(s) \/ ReplayDone(s) \/ StartRead(s) \/ TakePage(s)
           \/ \E n \in 1..MaxPage : FinishRead(s, n)
  <2>1. UNCHANGED <<tail, last, phase>>
    BY <1>8 DEF DropReclaim, ReplayDone, StartRead, TakePage, FinishRead, journalVars, cursorVars
  <2> QED BY <2>1, StageStays, Stutters
<1>9. CASE \E c \in Clients : Subscribe(s, c)
  <2>1. phase[s] = "none" /\ phase' = [phase EXCEPT ![s] = "joining"] /\ UNCHANGED <<tail, last>>
    BY <1>9 DEF Subscribe, journalVars
  <2>2. Stages' = Stages
    <3>1. OnlyPhaseOf(s) /\ phase'[s] = "joining"
      BY <1>0, <2>1 DEF OnlyPhaseOf
    <3> QED BY <1>0, <2>1, <3>1, StageMoves DEF StageOf
  <2> QED BY <2>1, <2>2, Stutters
<1>10. CASE \/ (Recv(s) /\ ~failed[s]) \/ GoLive(s) \/ PollLagging(s) \/ PollFence(s)
            \/ PollTransient(s) \/ PollEmpty(s) \/ Wake(s) \/ Cancel(s) \/ Capture(s)
  <2>1. /\ UNCHANGED <<tail, last>>
        /\ phase[s] \in {"head", "body", "live", "waiting", "capture"}
        /\ \E p \in {"head", "body", "live", "waiting", "capture", "closing"} :
              phase' = [phase EXCEPT ![s] = p]
    BY <1>10 DEF Recv, GoLive, PollLagging, PollFence, PollTransient, PollEmpty, Wake, Cancel,
                 NeedsPage, Capture, journalVars
  <2>2. Stages' = Stages
    <3>1. OnlyPhaseOf(s) /\ phase'[s] \in {"head", "body", "live", "waiting", "capture", "closing"}
      BY <1>0, <2>1 DEF OnlyPhaseOf
    <3> QED BY <1>0, <2>1, <3>1, StageMoves DEF StageOf
  <2> QED BY <2>1, <2>2, Stutters
<1> QED BY <1>1, <1>2, <1>3, <1>4, <1>5, <1>6, <1>7, <1>8, <1>9, <1>10
        DEF Subscriber, Replay, Poll

\* For every instance, a subscription hands over exactly the next committed event
\* or nothing, and reports the end of the stream only with the whole journal.
THEOREM SubscriptionsImplementOrderedDelivery == Spec => ImplementsOrderedDelivery
<1>1. Init => Abstract!Init
  BY DEF Init, Abstract!Init, Stage
<1>2. IInv /\ [Next]_vars => [Abstract!Next]_(Abstract!vars)
  <2> SUFFICES ASSUME IInv, [Next]_vars PROVE Abstract!Next \/ UNCHANGED Abstract!vars
    OBVIOUS
  <2>1. CASE UNCHANGED vars
    BY <2>1, StageStays, Stutters DEF vars, journalVars, cursorVars
  <2>2. CASE Next
    BY <2>2, PublisherRefines, SubscriberRefines DEF Next
  <2> QED BY <2>1, <2>2
<1> QED BY <1>1, <1>2, InductiveInvariant, PTL DEF Spec, ImplementsOrderedDelivery, Abstract!Spec
===============================================================================
