----------------------------- MODULE LiveEvents -----------------------------
(***************************************************************************)
(* The shared live-event ring of one session actor                         *)
(* (rw-core/src/engine/live_events.rs and live_events/receiver.rs).        *)
(*                                                                         *)
(* Every publisher and every receiver works under one mutex, so each       *)
(* operation below is one step.  A durable event is a journal position     *)
(* (1, 2, ...; the code's sequence id plus one) and its frame may lose its *)
(* payload when the byte budget is exhausted: it is then a source fence.   *)
(* A transient event has no journal position (NoSource) and exists only in *)
(* the ring.  Whether a byte reservation succeeds is decided by payloads   *)
(* held anywhere in the process, so it is a free Boolean here.             *)
(*                                                                         *)
(* This module defines the ring and its operations.  SessionSubscription   *)
(* composes them with the journal and with the receiving side.             *)
(***************************************************************************)
EXTENDS Integers, Sequences, FiniteSets

CONSTANTS
    Subs,              \* subscription instances
    Clients,           \* protocol client identities
    Everyone,          \* the target of a session-wide event
    Capacity,          \* event_capacity of the session
    MaxSubscriptions   \* MAX_SESSION_SUBSCRIPTIONS

ASSUME RingAssumption ==
    /\ Capacity \in Nat \ {0}
    /\ MaxSubscriptions \in Nat \ {0}
    /\ Everyone \notin Clients

VARIABLES
    frames,    \* Channel.frames: the retained suffix of the published frames
    ordinal,   \* Channel.ordinal: ordinal of the last published frame
    closed,    \* Channel.closed
    conn,      \* "none", "live" (registered), "dropping" (seen = MAX), "gone"
    client,    \* Subscriber.client (Everyone until the receiver is registered)
    seen,      \* Subscriber.seen
    failed,    \* Subscriber.failed
    waker      \* the receiver's Notified future: "idle" (none), "armed", "woken"

ringVars == <<frames, ordinal, closed, conn, client, seen, failed, waker>>

NoSource == 0

Targets == Clients \cup {Everyone}

Frame == [target : Targets, source : Nat, payload : BOOLEAN, ordinal : Nat]

RingTypeOK ==
    /\ frames \in Seq(Frame)
    /\ ordinal \in Nat
    /\ closed \in BOOLEAN
    /\ conn \in [Subs -> {"none", "live", "dropping", "gone"}]
    /\ client \in [Subs -> Targets]
    /\ seen \in [Subs -> Nat]
    /\ failed \in [Subs -> BOOLEAN]
    /\ waker \in [Subs -> {"idle", "armed", "woken"}]

RingInit ==
    /\ frames = <<>>
    /\ ordinal = 0
    /\ closed = FALSE
    /\ conn = [s \in Subs |-> "none"]
    /\ client = [s \in Subs |-> Everyone]
    /\ seen = [s \in Subs |-> 0]
    /\ failed = [s \in Subs |-> FALSE]
    /\ waker = [s \in Subs |-> "idle"]

-----------------------------------------------------------------------------

\* Subscribers whose cursor still holds frames back.  A dropping receiver has
\* stored u64::MAX, which neither fails nor retains anything.
Live == {s \in Subs : conn[s] = "live"}

\* The registry keeps an entry until the last strong reference is gone.
Registered == {s \in Subs : conn[s] \in {"live", "dropping"}}

Addressed(s, target) == target \in {Everyone, client[s]}

\* Seeded fault: fence-post, a subscriber just behind the lost frame is spared.
fail_unseen_fencepost(target, ord) ==
    [s \in Subs |-> failed[s] \/ (s \in Live /\ Addressed(s, target) /\ seen[s] < ord - 1)]

fail_unseen(target, ord) ==
    [s \in Subs |-> failed[s] \/ (s \in Live /\ Addressed(s, target) /\ seen[s] < ord)]

Observed(f, cursor, live) == \A s \in live : f.ordinal <= cursor[s]

\* Pops frames from the front while every live cursor has passed them.
reclaim_observed(fs, cursor, live) ==
    LET n == CHOOSE k \in 0..Len(fs) :
                /\ \A i \in 1..k : Observed(fs[i], cursor, live)
                /\ k < Len(fs) => ~Observed(fs[k + 1], cursor, live)
    IN  SubSeq(fs, n + 1, Len(fs))

\* A full ring evicts its oldest frame.  Losing a frame that the journal cannot
\* replay fails every addressed subscriber that had not seen it.
push(frame) ==
    LET full == Len(frames) = Capacity
        kept == IF full THEN Tail(frames) ELSE frames
    IN  /\ failed' = IF full /\ frames[1].source = NoSource
                        THEN fail_unseen(frames[1].target, frames[1].ordinal)
                        ELSE failed
        /\ frames' = reclaim_observed(Append(kept, frame), seen, Live)

\* Notify::notify_waiters wakes the futures enabled so far and leaves no permit.
notify_waiters ==
    waker' = [s \in Subs |-> IF waker[s] = "armed" THEN "woken" ELSE waker[s]]

\* A transient event without byte credit is rejected: no ordinal is consumed and
\* every addressed subscriber fails.
publish(target, source, payload) ==
    /\ ~closed
    /\ IF ~payload /\ source = NoSource
          THEN /\ failed' = fail_unseen(target, ordinal + 1)
               /\ UNCHANGED <<frames, ordinal>>
          ELSE /\ ordinal' = ordinal + 1
               /\ push([target |-> target, source |-> source,
                        payload |-> payload, ordinal |-> ordinal + 1])
    /\ notify_waiters
    /\ UNCHANGED <<closed, conn, client, seen>>

\* Seeded fault: sleeping receivers are not told.
close_silently ==
    /\ closed' = TRUE
    /\ UNCHANGED <<frames, ordinal, conn, client, seen, failed, waker>>

close ==
    /\ closed' = TRUE
    /\ notify_waiters
    /\ UNCHANGED <<frames, ordinal, conn, client, seen, failed>>

subscribe(s, c) ==
    /\ conn[s] = "none"
    /\ Cardinality(Registered) < MaxSubscriptions
    /\ conn' = [conn EXCEPT ![s] = "live"]
    /\ client' = [client EXCEPT ![s] = c]
    /\ seen' = [seen EXCEPT ![s] = ordinal]
    /\ UNCHANGED <<frames, ordinal, closed, failed, waker>>

\* LiveReceiver::drop stores the departing cursor before it takes the lock ...
drop_cursor(s) ==
    /\ conn[s] = "live"
    /\ conn' = [conn EXCEPT ![s] = "dropping"]
    /\ UNCHANGED <<frames, ordinal, closed, client, seen, failed, waker>>

\* ... and only then reclaims what that cursor held back.
drop_reclaim(s) ==
    /\ conn[s] = "dropping"
    /\ conn' = [conn EXCEPT ![s] = "gone"]
    /\ frames' = reclaim_observed(frames, seen, Live)
    /\ UNCHANGED <<ordinal, closed, client, seen, failed, waker>>

-----------------------------------------------------------------------------
(* LiveReceiver::recv and poll, split by what poll returns.                 *)

\* recv enables a Notified future before it polls.
enable(s) ==
    /\ waker' = [waker EXCEPT ![s] = "armed"]
    /\ UNCHANGED <<frames, ordinal, closed, conn, client, seen, failed>>

\* The future is dropped, because recv returns or is cancelled.
disarm(s) == waker' = [waker EXCEPT ![s] = "idle"]

Lagging(s) == frames # <<>> /\ seen[s] < frames[1].ordinal - 1

\* Index of the first frame after the cursor, when the ring is not empty.
Offset(s) == seen[s] - (frames[1].ordinal - 1) + 1

Unseen(s) == IF frames = <<>> \/ Lagging(s) THEN {} ELSE Offset(s)..Len(frames)

\* Frames for other clients are skipped inside one poll.
Visible(s) == {i \in Unseen(s) : Addressed(s, frames[i].target)}

observe_frame(s, i) ==
    /\ seen' = [seen EXCEPT ![s] = frames[i].ordinal]
    /\ frames' = reclaim_observed(frames, seen', Live)
    /\ UNCHANGED <<ordinal, closed, conn, client, failed>>

\* Evicted frames are unknown: skip to the ring's first frame and catch up.
poll_lagging(s) ==
    /\ ~failed[s]
    /\ Lagging(s)
    /\ seen' = [seen EXCEPT ![s] = frames[1].ordinal - 1]
    /\ disarm(s)
    /\ UNCHANGED <<frames, ordinal, closed, conn, client, failed>>

poll_frame(s, i) ==
    /\ ~failed[s]
    /\ ~Lagging(s)
    /\ i \in Visible(s)
    /\ \A j \in Visible(s) : i <= j
    /\ observe_frame(s, i)
    /\ disarm(s)

\* Nothing for this client is left: Closed, or await the notification.
poll_empty(s) ==
    /\ ~failed[s]
    /\ ~Lagging(s)
    /\ Visible(s) = {}
    /\ IF Unseen(s) = {}
          THEN UNCHANGED <<frames, ordinal, closed, conn, client, seen, failed>>
          ELSE observe_frame(s, Len(frames))
    /\ IF closed THEN disarm(s) ELSE UNCHANGED waker

=============================================================================
