------------------------- MODULE SessionSubscription -------------------------
(***************************************************************************)
(* Delivery of one session's events to its subscribers: the actor commits  *)
(* a batch to the journal and then publishes it on the live ring           *)
(* (engine/turn/journal_events.rs), other threads send transient events,   *)
(* and every subscription merges live frames with pages replayed from      *)
(* captured journal prefixes (engine/session/subscription.rs,              *)
(* engine/session/handle.rs).                                              *)
(*                                                                         *)
(* A step ends wherever the code releases the ring's lock, awaits, or      *)
(* takes the journal's lock, so commits, sends and closes interleave       *)
(* between a poll and the read view it asks for, and between registering a *)
(* receiver and capturing its first prefix.                                *)
(***************************************************************************)
EXTENDS LiveEvents

CONSTANTS
    MaxSeq,      \* bound on the journal's length
    MaxBatch,    \* bound on the events of one commit
    MaxSends,    \* bound on transient sends
    MaxPage      \* events in one replay page (256 in the code)

ASSUME DeliveryAssumption ==
    /\ MaxSeq \in Nat
    /\ MaxBatch \in Nat
    /\ MaxSends \in Nat
    /\ MaxPage \in Nat \ {0}

VARIABLES
    tail,      \* the journal: positions 1..tail are committed
    outbox,    \* the acknowledged batch the actor is publishing
    phase,     \* where SessionSubscription::recv is
    last,      \* last_sequence, 0 for None
    view,      \* tail of the captured replay prefix, NoView for None
    read,      \* the owned page-read task
    pending,   \* prepared replay events
    (* history *)
    from,      \* the position the subscription was opened after
    out,       \* durable events handed to the caller
    owed,      \* transient events addressed to the subscription since it joined
    heard,     \* transient events handed to the caller
    published, \* last durable position that has been published
    fence,     \* the ordinal it was published with
    sends      \* number of transient sends

journalVars == <<tail, outbox, published, fence>>
cursorVars == <<phase, last, view, read, pending, from, out>>
transientVars == <<owed, heard, sends>>

vars == <<ringVars, journalVars, cursorVars, transientVars>>

NoView == -1

Phases == {"none", "joining", "head", "body", "live", "waiting", "capture",
           "closing", "ended", "broken"}

NoRead == [status |-> "none", after |-> 0, count |-> 0]

ReadTask == [status : {"none", "running", "ready"}, after : Nat, count : Nat]

TypeOK ==
    /\ RingTypeOK
    /\ tail \in Nat
    /\ outbox \in [next : Nat, last : Nat, credit : BOOLEAN]
    /\ phase \in [Subs -> Phases]
    /\ last \in [Subs -> Nat]
    /\ view \in [Subs -> Nat \cup {NoView}]
    /\ read \in [Subs -> ReadTask]
    /\ pending \in [Subs -> Seq(Nat)]
    /\ from \in [Subs -> Nat]
    /\ out \in [Subs -> Seq(Nat)]
    /\ owed \in [Subs -> SUBSET Nat]
    /\ heard \in [Subs -> SUBSET Nat]
    /\ published \in Nat
    /\ fence \in Nat
    /\ sends \in Nat

Init ==
    /\ RingInit
    /\ tail = 0
    /\ outbox = [next |-> 1, last |-> 0, credit |-> FALSE]
    /\ phase = [s \in Subs |-> "none"]
    /\ last = [s \in Subs |-> 0]
    /\ view = [s \in Subs |-> NoView]
    /\ read = [s \in Subs |-> NoRead]
    /\ pending = [s \in Subs |-> <<>>]
    /\ from = [s \in Subs |-> 0]
    /\ out = [s \in Subs |-> <<>>]
    /\ owed = [s \in Subs |-> {}]
    /\ heard = [s \in Subs |-> {}]
    /\ published = 0
    /\ fence = 0
    /\ sends = 0

-----------------------------------------------------------------------------
(* The publishing side.                                                     *)

Publishing == outbox.next <= outbox.last

\* The actor's commit is acknowledged: the batch is durable before any of it is
\* published.  One byte reservation covers the whole batch.
Commit(n, credit) ==
    /\ ~closed
    /\ ~Publishing
    /\ tail + n <= MaxSeq
    /\ tail' = tail + n
    /\ outbox' = [next |-> tail + 1, last |-> tail + n, credit |-> credit]
    /\ UNCHANGED <<ringVars, published, fence, cursorVars, transientVars>>

\* A commit whose acknowledgement never reaches the actor (the write landed but
\* the commit returned an error, or the actor stopped): durable, never published.
CommitUnacknowledged ==
    /\ ~Publishing
    /\ tail + 1 <= MaxSeq
    /\ tail' = tail + 1
    /\ UNCHANGED <<ringVars, outbox, published, fence, cursorVars, transientVars>>

\* publish_committed takes the ring's lock once per event.
PublishCommitted ==
    /\ Publishing
    /\ publish(Everyone, outbox.next, outbox.credit)
    /\ outbox' = [next |-> outbox.next + 1, last |-> outbox.last, credit |-> outbox.credit]
    /\ published' = outbox.next
    /\ fence' = ordinal + 1
    /\ UNCHANGED <<tail, cursorVars, transientVars>>

\* The first publish that finds the channel closed abandons the rest.
PublishClosed ==
    /\ Publishing
    /\ closed
    /\ outbox' = [next |-> outbox.last + 1, last |-> outbox.last, credit |-> outbox.credit]
    /\ UNCHANGED <<ringVars, tail, published, fence, cursorVars, transientVars>>

\* LiveEvents::send of a transient event: progress, acknowledgements, interrupts.
\* A rejected event is owed under the ordinal 0, which is never delivered.
Send(target, credit) ==
    /\ sends < MaxSends
    /\ sends' = sends + 1
    /\ publish(target, NoSource, credit)
    /\ owed' = [s \in Subs |->
                  IF s \in Live /\ Addressed(s, target)
                     THEN owed[s] \cup {IF credit THEN ordinal + 1 ELSE 0}
                     ELSE owed[s]]
    /\ UNCHANGED <<journalVars, cursorVars, heard>>

Close ==
    /\ ~closed
    /\ close
    /\ UNCHANGED <<journalVars, cursorVars, transientVars>>

-----------------------------------------------------------------------------
(* Opening and leaving.                                                     *)

\* The receiver is registered before any journal prefix is captured.
Subscribe(s, c) ==
    /\ phase[s] = "none"
    /\ subscribe(s, c)
    /\ phase' = [phase EXCEPT ![s] = "joining"]
    /\ UNCHANGED <<journalVars, last, view, read, pending, from, out, transientVars>>

\* subscribe_client: replay the captured prefix after the client's cursor.
OpenClient(s, cursor) ==
    /\ phase[s] = "joining"
    /\ cursor <= tail
    /\ phase' = [phase EXCEPT ![s] = "head"]
    /\ last' = [last EXCEPT ![s] = cursor]
    /\ from' = [from EXCEPT ![s] = cursor]
    /\ view' = [view EXCEPT ![s] = tail]
    /\ UNCHANGED <<ringVars, journalVars, read, pending, out, transientVars>>

\* subscribe_live: start at the captured tail.
OpenLive(s) ==
    /\ phase[s] = "joining"
    /\ phase' = [phase EXCEPT ![s] = "head"]
    /\ last' = [last EXCEPT ![s] = tail]
    /\ from' = [from EXCEPT ![s] = tail]
    /\ UNCHANGED <<ringVars, journalVars, view, read, pending, out, transientVars>>

\* ReplayCursorAhead, or no read view: the new receiver is dropped.
OpenRefused(s) ==
    /\ phase[s] = "joining"
    /\ phase' = [phase EXCEPT ![s] = "broken"]
    /\ UNCHANGED <<ringVars, journalVars, last, view, read, pending, from, out, transientVars>>

\* The subscription is dropped outside recv (Cancel leaves a waiting recv); an
\* error or the end of the stream makes every caller drop it.  A running page read
\* finishes unobserved.
Drop(s) ==
    /\ phase[s] \in {"head", "ended", "broken"}
    /\ drop_cursor(s)
    /\ phase' = [phase EXCEPT ![s] = IF @ = "ended" THEN @ ELSE "broken"]
    /\ view' = [view EXCEPT ![s] = NoView]
    /\ read' = [read EXCEPT ![s] = NoRead]
    /\ pending' = [pending EXCEPT ![s] = <<>>]
    /\ UNCHANGED <<journalVars, last, from, out, transientVars>>

DropReclaim(s) ==
    /\ drop_reclaim(s)
    /\ UNCHANGED <<journalVars, cursorVars, transientVars>>

-----------------------------------------------------------------------------
(* SessionSubscription::recv.                                               *)

Goto(s, p) == phase' = [phase EXCEPT ![s] = p]

\* A durable event is observed and handed to the caller.
Hand(s, q) ==
    /\ last' = [last EXCEPT ![s] = q]
    /\ out' = [out EXCEPT ![s] = Append(@, q)]

\* The loop head: check_failure returns the error to the caller.
Recv(s) ==
    /\ phase[s] = "head"
    /\ Goto(s, IF failed[s] THEN "broken" ELSE "body")
    /\ UNCHANGED <<ringVars, journalVars, last, view, read, pending, from, out, transientVars>>

\* refill_replay finds the captured prefix exhausted.
ReplayDone(s) ==
    /\ phase[s] = "body"
    /\ pending[s] = <<>>
    /\ view[s] # NoView
    /\ last[s] = view[s]
    /\ view' = [view EXCEPT ![s] = NoView]
    /\ UNCHANGED <<ringVars, journalVars, phase, last, read, pending, from, out, transientVars>>

NeedsPage(s) ==
    /\ phase[s] = "body"
    /\ pending[s] = <<>>
    /\ view[s] # NoView
    /\ last[s] # view[s]

\* refill_replay spawns the read task, which outlives a cancelled recv.
StartRead(s) ==
    /\ NeedsPage(s)
    /\ read[s].status = "none"
    /\ read' = [read EXCEPT ![s] = [status |-> "running", after |-> last[s], count |-> 0]]
    /\ UNCHANGED <<ringVars, journalVars, phase, last, view, pending, from, out, transientVars>>

\* The task returns a validated, non-empty page inside the captured prefix.
FinishRead(s, n) ==
    /\ read[s].status = "running"
    /\ n <= MaxPage
    /\ read[s].after + n <= view[s]
    /\ read' = [read EXCEPT ![s] = [status |-> "ready", after |-> @.after, count |-> n]]
    /\ UNCHANGED <<ringVars, journalVars, phase, last, view, pending, from, out, transientVars>>

TakePage(s) ==
    /\ NeedsPage(s)
    /\ read[s].status = "ready"
    /\ pending' = [pending EXCEPT ![s] = [i \in 1..read[s].count |-> read[s].after + i]]
    /\ read' = [read EXCEPT ![s] = NoRead]
    /\ UNCHANGED <<ringVars, journalVars, phase, last, view, from, out, transientVars>>

\* Replay admission timed out, or the read task failed: recv returns the error.
ReplayFails(s) ==
    /\ NeedsPage(s)
    /\ read[s].status \in {"none", "running"}
    /\ read' = [read EXCEPT ![s] = NoRead]
    /\ Goto(s, "broken")
    /\ UNCHANGED <<ringVars, journalVars, last, view, pending, from, out, transientVars>>

DeliverPending(s) ==
    /\ phase[s] = "body"
    /\ pending[s] # <<>>
    /\ pending' = [pending EXCEPT ![s] = Tail(@)]
    /\ Hand(s, Head(pending[s]))
    /\ Goto(s, "head")
    /\ UNCHANGED <<ringVars, journalVars, view, read, from, transientVars>>

\* No replay is left: wait on the ring.
GoLive(s) ==
    /\ phase[s] = "body"
    /\ pending[s] = <<>>
    /\ view[s] = NoView
    /\ enable(s)
    /\ Goto(s, "live")
    /\ UNCHANGED <<journalVars, last, view, read, pending, from, out, transientVars>>

\* Seeded fault: the evicted frames are skipped without a capture.
PollLaggingOnly(s) ==
    /\ phase[s] = "live"
    /\ poll_lagging(s)
    /\ Goto(s, "head")
    /\ UNCHANGED <<journalVars, last, view, read, pending, from, out, transientVars>>

PollLagging(s) ==
    /\ phase[s] = "live"
    /\ poll_lagging(s)
    /\ Goto(s, "capture")
    /\ UNCHANGED <<journalVars, last, view, read, pending, from, out, transientVars>>

PollFailed(s) ==
    /\ phase[s] = "live"
    /\ failed[s]
    /\ disarm(s)
    /\ Goto(s, "broken")
    /\ UNCHANGED <<frames, ordinal, closed, conn, client, seen, failed, journalVars, last, view, read, pending, from, out, transientVars>>

\* Seeded fault: no gap check.
AcceptAny(s, q) ==
    \/ /\ q <= last[s]
       /\ Goto(s, "head")
       /\ UNCHANGED <<last, out>>
    \/ /\ q > last[s]
       /\ Hand(s, q)
       /\ Goto(s, "head")

\* What recv does with a received durable event: skip a duplicate, take the
\* next one, or catch up over a gap.
Accept(s, q) ==
    \/ /\ q <= last[s]
       /\ Goto(s, "head")
       /\ UNCHANGED <<last, out>>
    \/ /\ q = last[s] + 1
       /\ Hand(s, q)
       /\ Goto(s, "head")
    \/ /\ q > last[s] + 1
       /\ Goto(s, "capture")
       /\ UNCHANGED <<last, out>>

PollDurable(s) ==
    /\ phase[s] = "live"
    /\ \E i \in Visible(s) :
          /\ poll_frame(s, i)
          /\ frames[i].source # NoSource
          /\ frames[i].payload
          /\ Accept(s, frames[i].source)
    /\ UNCHANGED <<journalVars, view, read, pending, from, transientVars>>

\* Seeded fault: a fence is treated like another client's frame.
PollFenceIgnored(s) ==
    /\ phase[s] = "live"
    /\ \E i \in Visible(s) :
          /\ poll_frame(s, i)
          /\ ~frames[i].payload
    /\ Goto(s, "head")
    /\ UNCHANGED <<journalVars, last, view, read, pending, from, out, transientVars>>

\* A source fence carries no body: catch up from the journal.
PollFence(s) ==
    /\ phase[s] = "live"
    /\ \E i \in Visible(s) :
          /\ poll_frame(s, i)
          /\ ~frames[i].payload
    /\ Goto(s, "capture")
    /\ UNCHANGED <<journalVars, last, view, read, pending, from, out, transientVars>>

PollTransient(s) ==
    /\ phase[s] = "live"
    /\ \E i \in Visible(s) :
          /\ poll_frame(s, i)
          /\ frames[i].source = NoSource
          /\ frames[i].payload
          /\ heard' = [heard EXCEPT ![s] = @ \cup {frames[i].ordinal}]
    /\ Goto(s, "head")
    /\ UNCHANGED <<journalVars, last, view, read, pending, from, out, owed, sends>>

\* At most other clients' frames were left: they are passed over, then recv
\* reports the close or awaits its notification.
PollEmpty(s) ==
    /\ phase[s] = "live"
    /\ poll_empty(s)
    /\ Goto(s, IF closed THEN "closing" ELSE "waiting")
    /\ UNCHANGED <<journalVars, last, view, read, pending, from, out, transientVars>>

\* The notification arrived: a new future is enabled and the ring is polled again.
Wake(s) ==
    /\ phase[s] = "waiting"
    /\ waker[s] = "woken"
    /\ enable(s)
    /\ Goto(s, "live")
    /\ UNCHANGED <<journalVars, last, view, read, pending, from, out, transientVars>>

\* A recv future dropped at one of its awaits; a page read keeps running.
Cancel(s) ==
    /\ \/ NeedsPage(s) /\ read[s].status = "running"
       \/ phase[s] = "waiting"
    /\ disarm(s)
    /\ Goto(s, "head")
    /\ UNCHANGED <<frames, ordinal, closed, conn, client, seen, failed, journalVars,
                   last, view, read, pending, from, out, transientVars>>

\* The journal prefix to catch up from is captured after the poll.
Capture(s) ==
    /\ phase[s] = "capture"
    /\ view' = [view EXCEPT ![s] = tail]
    /\ Goto(s, "head")
    /\ UNCHANGED <<ringVars, journalVars, last, read, pending, from, out, transientVars>>

\* Seeded fault: the close is reported as soon as the ring is drained.
CaptureClosedEarly(s) ==
    /\ phase[s] = "closing"
    /\ Goto(s, "ended")
    /\ UNCHANGED <<ringVars, journalVars, last, view, read, pending, from, out, transientVars>>

\* The close is reported only when the journal holds nothing further.
CaptureClosed(s) ==
    /\ phase[s] = "closing"
    /\ IF last[s] = tail
          THEN Goto(s, "ended") /\ UNCHANGED view
          ELSE Goto(s, "head") /\ view' = [view EXCEPT ![s] = tail]
    /\ UNCHANGED <<ringVars, journalVars, last, read, pending, from, out, transientVars>>

CaptureFails(s) ==
    /\ phase[s] \in {"capture", "closing"}
    /\ Goto(s, "broken")
    /\ UNCHANGED <<ringVars, journalVars, last, view, read, pending, from, out, transientVars>>

-----------------------------------------------------------------------------

Publisher ==
    \/ \E n \in 1..MaxBatch, credit \in BOOLEAN : Commit(n, credit)
    \/ CommitUnacknowledged
    \/ PublishCommitted
    \/ PublishClosed
    \/ \E target \in Targets, credit \in BOOLEAN : Send(target, credit)
    \/ Close

Replay(s) ==
    \/ ReplayDone(s)
    \/ StartRead(s)
    \/ TakePage(s)
    \/ DeliverPending(s)
    \/ GoLive(s)

Poll(s) ==
    \/ PollLagging(s)
    \/ PollFailed(s)
    \/ PollDurable(s)
    \/ PollFence(s)
    \/ PollTransient(s)
    \/ PollEmpty(s)

Subscriber(s) ==
    \/ \E c \in Clients : Subscribe(s, c)
    \/ \E cursor \in 0..MaxSeq : OpenClient(s, cursor)
    \/ OpenLive(s)
    \/ OpenRefused(s)
    \/ Drop(s)
    \/ DropReclaim(s)
    \/ Recv(s)
    \/ Replay(s)
    \/ \E n \in 1..MaxPage : FinishRead(s, n)
    \/ ReplayFails(s)
    \/ Poll(s)
    \/ Wake(s)
    \/ Cancel(s)
    \/ Capture(s)
    \/ CaptureClosed(s)
    \/ CaptureFails(s)

Next == Publisher \/ \E s \in Subs : Subscriber(s)

Spec == Init /\ [][Next]_vars

\* The actor publishes what it committed; read tasks and receivers run on the
\* runtime's scheduler; the caller keeps calling recv.  Nothing forces a commit,
\* a send, a close, a cancellation, a drop or an error.
Fairness ==
    /\ WF_vars(PublishCommitted)
    /\ \A s \in Subs :
          /\ WF_vars(Recv(s))
          /\ WF_vars(Replay(s))
          /\ WF_vars(\E n \in 1..MaxPage : FinishRead(s, n))
          /\ WF_vars(Poll(s))
          /\ WF_vars(Wake(s))
          /\ WF_vars(Capture(s))
          /\ WF_vars(CaptureClosed(s))

FairSpec == Spec /\ Fairness

-----------------------------------------------------------------------------
(* Properties.                                                              *)

\* A caller of recv gets the durable events after its opening position exactly
\* once each, in journal order: duplicate suppression, gap detection and the
\* replay pages together never skip or repeat one, however live frames, fences,
\* evictions and captured prefixes interleave.
ContiguousDelivery ==
    \A s \in Subs : \A i \in 1..Len(out[s]) : out[s][i] = from[s] + i

\* A transient event exists nowhere but in the ring.  A registered subscriber
\* that has not been failed has either been handed every transient event
\* addressed to it since it joined, or the event still lies ahead of its cursor.
NoSilentLoss ==
    \A s \in Subs :
        conn[s] = "live" /\ ~failed[s] =>
            \A o \in owed[s] :
                \/ o \in heard[s]
                \/ o > seen[s] /\ \E i \in 1..Len(frames) : frames[i].ordinal = o

\* A receiver that sleeps without a pending notification has nothing to wake up
\* for: it was not failed, the channel is open, it has passed every frame, and it
\* has been handed everything that was published (no lost wake-up, no lost gap).
SleepingIsCaughtUp ==
    \A s \in Subs :
        phase[s] = "waiting" /\ waker[s] = "armed" =>
            /\ ~failed[s]
            /\ ~closed
            /\ seen[s] = ordinal
            /\ published <= last[s]

\* poll computes a frame's index from the ordinal of the ring's first frame, which
\* is right only while the ring is an unbroken suffix of what was published.  It
\* never exceeds its capacity and never holds an event before it is durable.
RingIsSuffix ==
    /\ Len(frames) <= Capacity
    /\ \A i \in 1..Len(frames) :
          /\ frames[i].ordinal = ordinal - Len(frames) + i
          /\ frames[i].source <= tail

\* Stage of the abstract reader a subscription implements.
Stage(s) ==
    CASE phase[s] \in {"none", "joining"} -> "none"
      [] phase[s] = "ended" -> "ended"
      [] phase[s] = "broken" -> "gone"
      [] OTHER -> "open"

Abstract == INSTANCE OrderedDelivery
    WITH Readers <- Subs, log <- tail, stage <- [s \in Subs |-> Stage(s)], pos <- last

\* Subscriptions implement ordered delivery of the journal: each step of a
\* subscriber hands over exactly the next committed event or nothing, and the end
\* of the stream is reported only to a subscriber that has the whole journal.
ImplementsOrderedDelivery == Abstract!Spec

Served(s, n) ==
    last[s] >= n \/ failed[s] \/ phase[s] = "broken" \/ conn[s] # "live"

\* Every published event reaches every subscriber that keeps receiving, unless
\* the subscription is failed, broken or dropped: fences, evictions and lag delay
\* an event but cannot strand it.
PublishedIsDelivered ==
    \A s \in Subs : \A n \in 1..MaxSeq :
        (published >= n /\ phase[s] \notin {"none", "joining"}) ~> Served(s, n)

\* After the channel closes, every subscriber that keeps receiving drains the
\* journal and is told so; none sleeps forever on a closed channel.
CloseIsReported ==
    \A s \in Subs :
        (closed /\ phase[s] \notin {"none", "joining"}) ~>
            (phase[s] \in {"ended", "broken"} \/ conn[s] # "live")

=============================================================================
