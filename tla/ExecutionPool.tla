---------------------------- MODULE ExecutionPool ----------------------------
(***************************************************************************)
(* One execution pool of rw-resources: a semaphore of `Capacity' permits   *)
(* (Pool.execution) with a bounded number of waiting callers               *)
(* (Pool.waiting), acquired in units by `acquire_units', at once or not at *)
(* all by `try_acquire', and by `run_blocking', whose lease moves into a   *)
(* worker that outlives its caller.                                        *)
(*                                                                         *)
(* The permits follow tokio's semaphore: first come first served, returned *)
(* permits are assigned to the oldest waiter even when they do not yet     *)
(* suffice, and a waiter that goes away passes on what it was assigned.    *)
(* The semaphores of a pool are never closed.                              *)
(***************************************************************************)
EXTENDS Integers, Sequences, FiniteSets, SequencesExt

CONSTANTS
    Requesters,   \* callers of acquire and acquire_units; they own the lease
    Runners,      \* callers of run_blocking; a worker owns the lease
    Launchers,    \* callers of try_acquire; a process owner keeps the lease
    Capacity,     \* Pool.capacity
    MaxWaiting    \* permits of Pool.waiting

Callers == Requesters \cup Runners \cup Launchers

ASSUME PoolAssumption ==
    /\ IsFiniteSet(Callers)
    /\ Requesters \cap Runners = {}
    /\ Launchers \cap (Requesters \cup Runners) = {}
    /\ Capacity \in Nat \ {0}
    /\ MaxWaiting \in Nat \ {0}

VARIABLES
    free,       \* permits of `execution' nobody has
    queue,      \* callers in the semaphore's queue, oldest first
    want,       \* the units a caller asked for
    got,        \* the permits assigned to it or held by its lease
    stage,      \* how far the call has come
    gone,       \* run_blocking calls whose future was dropped
    withdrawn   \* permits forgotten by `quarantine'

pool == <<free, queue, want, got, withdrawn>>
vars == <<free, queue, want, got, stage, gone, withdrawn>>

Waiting == {c \in Callers : stage[c] \in {"admitted", "queued", "assigned"}}
Leased == {c \in Callers : stage[c] \in {"held", "working"}}

Init ==
    /\ free = Capacity
    /\ queue = <<>>
    /\ want = [c \in Callers |-> 0]
    /\ got = [c \in Callers |-> 0]
    /\ stage = [c \in Callers |-> "idle"]
    /\ gone = {}
    /\ withdrawn = 0

-----------------------------------------------------------------------------
(* The semaphore. *)

(* Returning n permits serves the queue from its head: the i-th waiter gets
   what the ones before it leave, and a waiter that has everything is woken
   and leaves the queue. *)
add_permits(n, q, have) ==
    LET lack == [i \in DOMAIN q |-> want[q[i]] - have[q[i]]]
        before(i) == SumFunctionOnSet(lack, 1..(i - 1))
        share == [i \in DOMAIN q |-> Min({lack[i], Max({0, n - before(i)})})]
        served == {i \in DOMAIN q : share[i] = lack[i]}
        left == SubSeq(q, Cardinality(served) + 1, Len(q))
        given == [c \in Callers |->
                    have[c] + SumFunctionOnSet(share, {i \in DOMAIN q : q[i] = c})]
    IN [given |-> given, queue |-> left, ready |-> {q[i] : i \in served},
        rest |-> n - SumFunctionOnSet(share, DOMAIN q)]

(* c gives back what it has (a lease dropped, or a waiting future dropped)
   and is left in stage s.  What the queue takes of it is computed once. *)
surrender(c, s) ==
    \E a \in {add_permits(got[c], RemoveFirst(queue, c), [got EXCEPT ![c] = 0])} :
       /\ got' = a.given
       /\ queue' = a.queue
       /\ free' = free + a.rest
       /\ stage' = [d \in Callers |-> IF d = c THEN s
                                      ELSE IF d \in a.ready THEN "assigned" ELSE stage[d]]

-----------------------------------------------------------------------------
(* acquire_units *)

(* An impossible demand is refused before it can wait for ever; so is a call
   that finds every waiting slot taken.  A refused call changes nothing. *)
acquire_units(c, u) ==
    /\ stage[c] = "idle"
    /\ u \in 1..Capacity
    /\ Cardinality(Waiting) < MaxWaiting
    /\ want' = [want EXCEPT ![c] = u]
    /\ stage' = [stage EXCEPT ![c] = "admitted"]
    /\ UNCHANGED <<free, queue, got, gone, withdrawn>>

(* The first poll of acquire_many_owned: all the permits, or a place in the
   queue with the ones there are. *)
poll_first(c) ==
    /\ stage[c] = "admitted"
    /\ LET n == Min({free, want[c]})
       IN /\ free' = free - n
          /\ got' = [got EXCEPT ![c] = n]
          /\ IF n = want[c]
             THEN stage' = [stage EXCEPT ![c] = "assigned"] /\ queue' = queue
             ELSE stage' = [stage EXCEPT ![c] = "queued"] /\ queue' = Append(queue, c)
    /\ UNCHANGED <<want, gone, withdrawn>>

(* The call returns its lease and drops its waiting slot.  run_blocking moves
   the lease into the worker it spawns. *)
claim(c) ==
    /\ stage[c] = "assigned"
    /\ stage' = [stage EXCEPT ![c] = IF c \in Runners THEN "working" ELSE "held"]
    /\ UNCHANGED <<pool, gone>>

(* `biased': a call that was assigned its permits and is cancelled, or whose
   30 seconds are over, before it is polled does not get them.  A dropped
   call is a cancelled one. *)
give_up(c) ==
    /\ c \in Waiting
    /\ surrender(c, "idle")
    /\ want' = [want EXCEPT ![c] = 0]
    /\ UNCHANGED <<gone, withdrawn>>

cancelled(c) == give_up(c)

(* Seeded fault: a call that has been assigned some permits has no deadline. *)
deadline_unassigned(c) == stage[c] = "queued" /\ got[c] = 0 /\ give_up(c)

deadline(c) == stage[c] \in {"queued", "assigned"} /\ give_up(c)

-----------------------------------------------------------------------------
(* Leases and workers. *)

try_acquire(c) ==
    /\ stage[c] = "idle"
    /\ free > 0
    /\ free' = free - 1
    /\ want' = [want EXCEPT ![c] = 1]
    /\ got' = [got EXCEPT ![c] = 1]
    /\ stage' = [stage EXCEPT ![c] = "held"]
    /\ UNCHANGED <<queue, gone, withdrawn>>

release(c) ==
    /\ stage[c] = "held"
    /\ surrender(c, "idle")
    /\ want' = [want EXCEPT ![c] = 0]
    /\ UNCHANGED <<gone, withdrawn>>

quarantine(c) ==
    /\ stage[c] = "held"
    /\ withdrawn' = withdrawn + got[c]
    /\ got' = [got EXCEPT ![c] = 0]
    /\ want' = [want EXCEPT ![c] = 0]
    /\ stage' = [stage EXCEPT ![c] = "idle"]
    /\ UNCHANGED <<free, queue, gone>>

(* Seeded fault: the lease goes away with the future, the worker does not. *)
drop_caller_lease(c) ==
    /\ stage[c] = "working" /\ c \notin gone
    /\ gone' = gone \cup {c}
    /\ surrender(c, "working")
    /\ UNCHANGED <<want, withdrawn>>

(* The future of run_blocking is dropped: work and lease stay in the worker. *)
drop_caller(c) ==
    /\ stage[c] \in {"working", "settled"} /\ c \notin gone
    /\ IF stage[c] = "working"
       THEN gone' = gone \cup {c} /\ UNCHANGED stage
       ELSE stage' = [stage EXCEPT ![c] = "idle"] /\ UNCHANGED gone
    /\ UNCHANGED pool

(* The worker returns or panics; either way its lease is dropped before its
   join completes. *)
worker_ends(c) ==
    /\ stage[c] = "working"
    /\ surrender(c, IF c \in gone THEN "idle" ELSE "settled")
    /\ want' = [want EXCEPT ![c] = 0]
    /\ gone' = gone \ {c}
    /\ UNCHANGED withdrawn

join(c) ==
    /\ stage[c] = "settled"
    /\ stage' = [stage EXCEPT ![c] = "idle"]
    /\ UNCHANGED <<pool, gone>>

-----------------------------------------------------------------------------
Demands == 0..(Capacity + 1)

Request(c) == \E u \in Demands : acquire_units(c, u)

Runner(c) ==
    acquire_units(c, 1) \/ drop_caller(c) \/ join(c) \/ worker_ends(c)

Requester(c) == Request(c) \/ release(c) \/ quarantine(c)

Launcher(c) == try_acquire(c) \/ release(c)

Admission(c) == poll_first(c) \/ claim(c) \/ cancelled(c) \/ deadline(c)

Waiter == \E c \in Callers : Admission(c)
Run == \E c \in Runners : Runner(c)
Own == \E c \in Requesters : Requester(c)
Launch == \E c \in Launchers : Launcher(c)

Next == Waiter \/ Run \/ Own \/ Launch

Spec == Init /\ [][Next]_vars

(* Tokio polls a task that can run, and its timers fire.  Nothing obliges an
   owner to return a lease or a worker to end. *)
TimerFairness ==
    \A c \in Callers :
        /\ WF_vars(poll_first(c))
        /\ WF_vars(claim(c) \/ deadline(c))

-----------------------------------------------------------------------------
(* Properties *)

(* A waiter is never stranded: while somebody queues, no permit is free, and
   every permit is free, assigned, leased or withdrawn.  A call that gives up
   while its permits are being assigned (lib.rs, the biased select of
   acquire_units) hands all of them on, and a caller that is gone does not
   free the permits of work that still runs (blocking.rs, execute: the lease
   lives in the worker, not in the future). *)
PermitsAccounted ==
    /\ free + SumFunctionOnSet(got, Callers) + withdrawn = Capacity
    /\ queue # <<>> => free = 0
    /\ SumFunctionOnSet(want, Leased) <= Capacity - withdrawn

(* Every call that waits is answered, even when every lease is kept for ever
   and permits have been withdrawn (the 30 second deadline). *)
EveryAdmissionEnds == \A c \in Callers : (c \in Waiting) ~> (c \notin Waiting)

=============================================================================
