--------------------------- MODULE JournalCommits ---------------------------
(***************************************************************************)
(* Commit admission of the journal service                                 *)
(* (rw-runtime/src/journal_service/commits.rs) as the event sink of every  *)
(* session uses it (session_runtime/durable_session.rs): a batch reserves  *)
(* credit, waits for its session's order lock, becomes a job owned by a    *)
(* task of its own, waits for an execution permit and is written by a      *)
(* worker the owner gives a deadline.  A job that is not proved written    *)
(* keeps its lock, its permit and its credit, and closes admission for     *)
(* every session.                                                          *)
(*                                                                         *)
(* Entrant <<s, i>> with i > 0 is the i-th batch of session s; <<s, 0>> is *)
(* a call of settle_effects, which only passes through the order lock.     *)
(* A step ends at every await and every lock; the statements of            *)
(* JobOwner::drop and of an expired deadline interleave with the callers.  *)
(* A batch stands for all of its events; the byte credit and a full queue  *)
(* only make reserve fail, which is the step not taken.                    *)
(***************************************************************************)
EXTENDS Integers, Sequences, FiniteSets

CONSTANTS
    Sessions,
    Settling,       \* the sessions whose cleanup calls settle_effects
    PerSession,     \* bound on the batches one session submits
    MaxBatches,     \* MAX_BATCHES
    MaxExecuting,   \* MAX_EXECUTING
    MaxReads,       \* MAX_SESSION_READ_JOBS
    MaxCalls        \* bound on the calls made, running reads included

ASSUME CommitsAssumption ==
    /\ IsFiniteSet(Sessions)
    /\ Settling \subseteq Sessions
    /\ PerSession \in Nat
    /\ MaxBatches \in Nat \ {0}
    /\ MaxExecuting \in Nat \ {0}
    /\ MaxReads \in Nat
    /\ MaxCalls \in Nat

Batches == Sessions \X (1..PerSession)
Settlers == Settling \X {0}
Entrants == Batches \cup Settlers
Reads == Sessions \X (1..MaxReads)
Session(e) == e[1]
Siblings(b) == {c \in Batches : Session(c) = Session(b) /\ c # b}

VARIABLES
    stage,             \* how far an entrant has come
    woken,             \* its `closed' future was notified
    order,             \* commit_order of a session: its holders (at most one)
    credit,            \* the batch still holds its reservation
    abandoned,         \* the caller dropped the commit it was awaiting
    reply,             \* what the caller was told: "none", "ok", "err", "taken"
    first,             \* the position the batch was numbered with
    retained,          \* JobOwner.retained is Some
    executing,         \* RetainedCommit.execution is Some
    worker,            \* the spawned write
    completion,        \* Completion.result: "none", "ok", "err"
    jobs,              \* State.jobs
    state_closed,      \* State.closed
    batches_closed,    \* the batches and bytes semaphores are closed
    execution_closed,  \* the execution semaphore is closed
    shutdown,          \* "none", "waiting", "proved", "failed"
    waits,             \* the jobs shutdown waits for
    log,               \* the batches in the journal of a session
    read,              \* read jobs of a session: "free", "running", "done"
    read_failed,       \* Jobs.failed of a session's ReadOperations
    sequence           \* ActorState.sequence: batches known to be committed

callVars == <<credit, abandoned, reply, first, sequence>>
jobVars == <<retained, executing, worker, completion, jobs>>
closeVars == <<state_closed, batches_closed, execution_closed>>
shutVars == <<shutdown, waits>>
readVars == <<read, read_failed>>
vars == <<stage, woken, order, callVars, jobVars, closeVars, shutVars, log, readVars>>

\* A job whose write is not proved.
Unproven == {"queued", "working", "expiring", "late", "unproven", "closing",
             "notifying", "failed"}

Stages == Unproven \cup {"idle", "reserved", "enabled", "ordering", "holding",
                         "refused", "releasing", "delivered", "reading", "settled"}

CallTypeOK ==
    /\ stage \in [Entrants -> Stages]
    /\ woken \subseteq Entrants
    /\ order \in [Sessions -> SUBSET Batches]
    /\ credit \subseteq Batches
    /\ abandoned \subseteq Batches
    /\ reply \in [Batches -> {"none", "ok", "err", "taken"}]
    /\ first \in [Batches -> Nat]
    /\ sequence \in [Sessions -> Nat]

JobTypeOK ==
    /\ retained \subseteq Batches
    /\ executing \subseteq Batches
    /\ worker \in [Batches -> {"none", "running", "landed", "ok", "error"}]
    /\ completion \in [Batches -> {"none", "ok", "err"}]
    /\ jobs \subseteq Batches
    /\ log \in [Sessions -> Seq(Batches)]

QueueTypeOK ==
    /\ state_closed \in BOOLEAN
    /\ batches_closed \in BOOLEAN
    /\ execution_closed \in BOOLEAN
    /\ shutdown \in {"none", "waiting", "proved", "failed"}
    /\ waits \subseteq Batches
    /\ read \in [Reads -> {"free", "running", "done"}]
    /\ read_failed \in [Sessions -> BOOLEAN]

TypeOK == CallTypeOK /\ JobTypeOK /\ QueueTypeOK

Init ==
    /\ stage = [e \in Entrants |-> "idle"]
    /\ woken = {}
    /\ order = [s \in Sessions |-> {}]
    /\ credit = {}
    /\ abandoned = {}
    /\ reply = [b \in Batches |-> "none"]
    /\ first = [b \in Batches |-> 0]
    /\ retained = {}
    /\ executing = {}
    /\ worker = [b \in Batches |-> "none"]
    /\ completion = [b \in Batches |-> "none"]
    /\ jobs = {}
    /\ state_closed = FALSE
    /\ batches_closed = FALSE
    /\ execution_closed = FALSE
    /\ shutdown = "none"
    /\ waits = {}
    /\ log = [s \in Sessions |-> <<>>]
    /\ read = [r \in Reads |-> "free"]
    /\ read_failed = [s \in Sessions |-> FALSE]
    /\ sequence = [s \in Sessions |-> 0]

Goto(e, p) == stage' = [stage EXCEPT ![e] = p]

\* Notify::notify_waiters reaches the futures that exist.
notify_closed ==
    woken' = woken \cup {e \in Entrants : stage[e] \in {"enabled", "ordering"}}

\* Completion::finish keeps the first result.
finish(b, result) ==
    completion' = [completion EXCEPT ![b] = IF @ = "none" THEN result ELSE @]

\* oneshot::Sender::send: a caller that went away hears nothing.
send(b, result) ==
    reply' = [reply EXCEPT ![b] = IF b \in abandoned \/ @ # "none" THEN @ ELSE result]

-----------------------------------------------------------------------------
(* The caller: commit_session_events and DurableEventSink::commit.          *)

\* The one actor of a session has at most one commit of its own under way.
Waiting(b) == stage[b] \notin {"idle", "refused"} /\ reply[b] = "none" /\ b \notin abandoned

\* Commits, settlings and the reads under way, to be bounded.
Calls == Cardinality({e \in Entrants : stage[e] # "idle"})
         + Cardinality({r \in Reads : read[r] # "free"})

\* emit_batch numbers the batch after the last one it knows to be committed.
reserve(b) ==
    /\ stage[b] = "idle" /\ Calls < MaxCalls
    /\ \A c \in Siblings(b) : ~Waiting(c) /\ reply[c] # "ok"
    /\ ~batches_closed
    /\ Cardinality(credit) < MaxBatches
    /\ credit' = credit \cup {b}
    /\ first' = [first EXCEPT ![b] = sequence[Session(b)] + 1]
    /\ Goto(b, "reserved")
    /\ UNCHANGED <<woken, order, abandoned, reply, sequence, jobVars, closeVars, shutVars, log, readVars>>

\* settle_effects is called by the cleanup of the session.
settle_effects(e) ==
    /\ stage[e] = "idle" /\ Calls < MaxCalls
    /\ Goto(e, "reserved")
    /\ UNCHANGED <<woken, order, callVars, jobVars, closeVars, shutVars, log, readVars>>

\* enter creates and enables its notification ...
enter_enable(e) ==
    /\ stage[e] = "reserved"
    /\ Goto(e, "enabled")
    /\ woken' = woken \ {e}
    /\ UNCHANGED <<order, callVars, jobVars, closeVars, shutVars, log, readVars>>

\* The entrant returns an error; a batch drops its reservation with it.
Refused(e) ==
    /\ Goto(e, "refused")
    /\ IF e \in Batches
          THEN credit' = credit \ {e}
          ELSE UNCHANGED credit

\* Seeded fault: admission closed before the call is not noticed.
enter_check_never(e) ==
    /\ stage[e] = "enabled"
    /\ Goto(e, "ordering")
    /\ UNCHANGED <<woken, order, callVars, jobVars, closeVars, shutVars, log, readVars>>

\* ... before it looks whether admission is closed.
enter_check(e) ==
    /\ stage[e] = "enabled"
    /\ IF batches_closed
          THEN Refused(e)
          ELSE Goto(e, "ordering") /\ UNCHANGED credit
    /\ UNCHANGED <<woken, order, abandoned, reply, first, sequence, jobVars,
                   closeVars, shutVars, log, readVars>>

\* The order lock is granted.  settle_effects lets go of it at once and turns
\* to the session's reads.
enter_granted(e) ==
    /\ stage[e] = "ordering"
    /\ order[Session(e)] = {}
    /\ IF e \in Batches
          THEN /\ order' = [order EXCEPT ![Session(e)] = {e}]
               /\ Goto(e, "holding")
          ELSE /\ UNCHANGED order
               /\ Goto(e, "reading")
    /\ UNCHANGED <<woken, callVars, jobVars, closeVars, shutVars, log, readVars>>

enter_refused(e) ==
    /\ stage[e] = "ordering"
    /\ e \in woken
    /\ Refused(e)
    /\ UNCHANGED <<woken, order, abandoned, reply, first, sequence, jobVars,
                   closeVars, shutVars, log, readVars>>

\* execute registers the job and spawns its owner, unless the queue is closed:
\* then the lock is released and nothing was done.
execute(b) ==
    /\ stage[b] = "holding"
    /\ IF state_closed
          THEN /\ Refused(b)
               /\ order' = [order EXCEPT ![Session(b)] = {}]
               /\ UNCHANGED <<jobs, retained>>
          ELSE /\ Goto(b, "queued")
               /\ jobs' = jobs \cup {b}
               /\ retained' = retained \cup {b}
               /\ UNCHANGED <<credit, order>>
    /\ UNCHANGED <<woken, abandoned, reply, first, sequence, executing, worker,
                   completion, closeVars, shutVars, log, readVars>>

\* Seeded fault: the lock belongs to the caller's future, not to the job.
cancel_releasing(b) ==
    /\ b \in jobs
    /\ Waiting(b)
    /\ abandoned' = abandoned \cup {b}
    /\ order' = [order EXCEPT ![Session(b)] = {}]
    /\ UNCHANGED <<stage, credit, woken, reply, first, sequence, jobVars, closeVars, shutVars, log, readVars>>

\* The caller's future is dropped: while it waits for the lock nothing has
\* happened yet, afterwards the job goes on without it, and a delivered batch is
\* dropped although it was committed: the sequence stays behind the journal.
cancel(b) ==
    /\ \/ /\ stage[b] = "ordering"
          /\ Refused(b)
          /\ UNCHANGED <<abandoned, reply>>
       \/ /\ b \in jobs
          /\ Waiting(b)
          /\ abandoned' = abandoned \cup {b}
          /\ UNCHANGED <<stage, credit, reply>>
       \/ /\ reply[b] = "ok"
          /\ reply' = [reply EXCEPT ![b] = "taken"]
          /\ abandoned' = abandoned \cup {b}
          /\ credit' = credit \ {b}
          /\ UNCHANGED stage
    /\ UNCHANGED <<woken, order, first, sequence, jobVars, closeVars, shutVars, log, readVars>>

\* emit_batch takes the acknowledged batch over, advances its sequence and
\* drops the reservation after publication.
consume(b) ==
    /\ reply[b] = "ok"
    /\ reply' = [reply EXCEPT ![b] = "taken"]
    /\ sequence' = [sequence EXCEPT ![Session(b)] = first[b]]
    /\ credit' = credit \ {b}
    /\ UNCHANGED <<stage, woken, order, abandoned, first, jobVars, closeVars, shutVars, log, readVars>>

-----------------------------------------------------------------------------
(* The worker: DurableEventSink::persist.                                   *)

\* Seeded fault: the numbers of the batch are not compared with the journal's.
append_any(b) ==
    /\ worker[b] = "running"
    /\ log' = [log EXCEPT ![Session(b)] = Append(@, b)]

\* append_and_publish: the batch must continue the journal.
append(b) ==
    /\ worker[b] = "running"
    /\ first[b] = Len(log[Session(b)]) + 1
    /\ log' = [log EXCEPT ![Session(b)] = Append(@, b)]

persist_append(b) ==
    /\ append(b)
    /\ worker' = [worker EXCEPT ![b] = "landed"]
    /\ UNCHANGED <<stage, woken, order, callVars, retained, executing, completion,
                   jobs, closeVars, shutVars, readVars>>

\* The projections are refreshed by a second blocking job.
persist_done(b) ==
    /\ worker[b] = "landed"
    /\ worker' = [worker EXCEPT ![b] = "ok"]
    /\ UNCHANGED <<stage, woken, order, callVars, retained, executing, completion,
                   jobs, closeVars, shutVars, log, readVars>>

\* Refused, failed or panicked: before the write, in a write that reached the
\* disk, or in the second job.
persist_fails(b) ==
    /\ \/ worker[b] \in {"running", "landed"} /\ UNCHANGED log
       \/ append(b)
    /\ worker' = [worker EXCEPT ![b] = "error"]
    /\ UNCHANGED <<stage, woken, order, callVars, retained, executing, completion,
                   jobs, closeVars, shutVars, readVars>>

-----------------------------------------------------------------------------
(* The owner task of a job.                                                 *)

CloseSemaphores == batches_closed' = TRUE /\ execution_closed' = TRUE

acquire(b) ==
    /\ stage[b] = "queued"
    /\ ~execution_closed
    /\ Cardinality(executing) < MaxExecuting
    /\ executing' = executing \cup {b}
    /\ worker' = [worker EXCEPT ![b] = "running"]
    /\ Goto(b, "working")
    /\ UNCHANGED <<woken, order, callVars, retained, completion, jobs, closeVars,
                   shutVars, log, readVars>>

acquire_closed(b) ==
    /\ stage[b] = "queued"
    /\ execution_closed
    /\ send(b, "err")
    /\ Goto(b, "unproven")
    /\ UNCHANGED <<woken, order, credit, abandoned, first, sequence, jobVars,
                   closeVars, shutVars, log, readVars>>

\* The write is proved: first everything the job retained is let go ...
join_ok(b) ==
    /\ stage[b] = "working"
    /\ worker[b] = "ok"
    /\ retained' = retained \ {b}
    /\ executing' = executing \ {b}
    /\ order' = [order EXCEPT ![Session(b)] = {}]
    /\ Goto(b, "releasing")
    /\ UNCHANGED <<woken, callVars, worker, completion, jobs, closeVars, shutVars, log, readVars>>

\* ... then the batch is delivered, or dropped with its credit when nobody
\* waits for it,
deliver(b) ==
    /\ stage[b] = "releasing"
    /\ send(b, "ok")
    /\ credit' = IF b \in abandoned THEN credit \ {b} ELSE credit
    /\ Goto(b, "delivered")
    /\ UNCHANGED <<woken, order, abandoned, first, sequence, jobVars, closeVars,
                   shutVars, log, readVars>>

\* and only then does the job end.
settle(b) ==
    /\ stage[b] = "delivered"
    /\ finish(b, "ok")
    /\ jobs' = jobs \ {b}
    /\ Goto(b, "settled")
    /\ UNCHANGED <<woken, order, callVars, retained, executing, worker, closeVars,
                   shutVars, log, readVars>>

\* Seeded fault: an error lets go of the lock as a success does.
join_error_releasing(b) ==
    /\ stage[b] = "working"
    /\ worker[b] = "error"
    /\ finish(b, "err")
    /\ send(b, "err")
    /\ order' = [order EXCEPT ![Session(b)] = {}]
    /\ Goto(b, "unproven")
    /\ UNCHANGED <<woken, credit, abandoned, first, sequence, retained,
                   executing, worker, jobs, closeVars, shutVars, log, readVars>>

\* An error of the write is the job's result at once; a worker that panicked or
\* returned another batch leaves it to the drop of the owner.
join_error(b) ==
    /\ stage[b] = "working"
    /\ worker[b] = "error"
    /\ finish(b, "err") \/ UNCHANGED completion
    /\ send(b, "err")
    /\ Goto(b, "unproven")
    /\ UNCHANGED <<woken, order, credit, abandoned, first, sequence, retained,
                   executing, worker, jobs, closeVars, shutVars, log, readVars>>

\* Seeded fault: a write that hangs gives its permit and its session's lock up and
\* admission goes on.
deadline_releasing(b) ==
    /\ stage[b] = "working"
    /\ worker[b] \in {"running", "landed"}
    /\ executing' = executing \ {b}
    /\ order' = [order EXCEPT ![Session(b)] = {}]
    /\ Goto(b, "expiring")
    /\ UNCHANGED <<woken, callVars, retained, worker, completion, jobs,
                   closeVars, shutVars, log, readVars>>

\* proof_timeout: admission is closed although the write may still succeed,
deadline(b) ==
    /\ stage[b] = "working"
    /\ worker[b] \in {"running", "landed"}
    /\ CloseSemaphores
    /\ Goto(b, "expiring")
    /\ UNCHANGED <<woken, order, callVars, jobVars, state_closed, shutVars, log, readVars>>

\* everyone who waits is told,
deadline_tell(b) ==
    /\ stage[b] = "expiring"
    /\ notify_closed
    /\ finish(b, "err")
    /\ send(b, "err")
    /\ Goto(b, "late")
    /\ UNCHANGED <<order, credit, abandoned, first, sequence, retained, executing,
                   worker, jobs, closeVars, shutVars, log, readVars>>

\* and the owner stays until the worker ends; its result is not looked at.
late_join(b) ==
    /\ stage[b] = "late"
    /\ worker[b] \in {"ok", "error"}
    /\ Goto(b, "unproven")
    /\ UNCHANGED <<woken, order, callVars, jobVars, closeVars, shutVars, log, readVars>>

\* JobOwner::drop with something retained, statement by statement.
drop_close(b) ==
    /\ stage[b] = "unproven"
    /\ CloseSemaphores
    /\ Goto(b, "closing")
    /\ UNCHANGED <<woken, order, callVars, jobVars, state_closed, shutVars, log, readVars>>

\* The job moves to State.failed with its lock, permit and credit.
drop_retain(b) ==
    /\ stage[b] = "closing"
    /\ state_closed' = TRUE
    /\ Goto(b, "notifying")
    /\ UNCHANGED <<woken, order, callVars, jobVars, batches_closed, execution_closed,
                   shutVars, log, readVars>>

\* Seeded fault: callers waiting for the retained lock are not told.
drop_notify_nobody(b) ==
    /\ stage[b] = "notifying"
    /\ finish(b, "err")
    /\ Goto(b, "failed")
    /\ UNCHANGED <<woken, order, callVars, retained, executing, worker, jobs,
                   closeVars, shutVars, log, readVars>>

drop_notify(b) ==
    /\ stage[b] = "notifying"
    /\ notify_closed
    /\ finish(b, "err")
    /\ Goto(b, "failed")
    /\ UNCHANGED <<order, callVars, retained, executing, worker, jobs, closeVars,
                   shutVars, log, readVars>>

-----------------------------------------------------------------------------
(* JournalCommits::shutdown.                                                *)

\* Seeded fault: the queue is not closed to batches that are already ordered.
shutdown_open ==
    /\ shutdown = "none"
    /\ shutdown' = "waiting"
    /\ waits' = jobs
    /\ batches_closed' = TRUE
    /\ notify_closed
    /\ UNCHANGED <<stage, order, callVars, jobVars, state_closed, execution_closed, log, readVars>>

\* One critical section closes the queue and lists the jobs to wait for; jobs
\* waiting for a permit still get it.
shutdown_close ==
    /\ shutdown = "none"
    /\ shutdown' = "waiting"
    /\ waits' = jobs
    /\ state_closed' = TRUE
    /\ batches_closed' = TRUE
    /\ notify_closed
    /\ UNCHANGED <<stage, order, callVars, jobVars, execution_closed, log, readVars>>

\* All of them have ended, or were given up.
shutdown_done ==
    /\ shutdown = "waiting"
    /\ \A b \in waits : completion[b] # "none"
    /\ shutdown' = IF \E b \in waits : completion[b] = "err" THEN "failed" ELSE "proved"
    /\ UNCHANGED <<stage, woken, order, callVars, jobVars, closeVars, waits, log, readVars>>

-----------------------------------------------------------------------------
(* ReadOperations: blocking reads, and the wait of settle_effects for them. *)

Active(s) == {r \in Reads : Session(r) = s /\ read[r] = "running"}

\* A read is admitted while a permit is free and no read was lost before.
read_admit(r) ==
    /\ read[r] = "free" /\ Calls < MaxCalls
    /\ ~read_failed[Session(r)]
    /\ read' = [read EXCEPT ![r] = "running"]
    /\ UNCHANGED <<stage, woken, order, callVars, jobVars, closeVars, shutVars, log, read_failed>>

\* The job ends, with or without a panic; its reply stays charged.
read_end(r) ==
    /\ read[r] = "running"
    /\ read' = [read EXCEPT ![r] = "done"]
    /\ \E panicking \in BOOLEAN :
          read_failed' = [read_failed EXCEPT ![Session(r)] = @ \/ panicking]
    /\ UNCHANGED <<stage, woken, order, callVars, jobVars, closeVars, shutVars, log>>

\* The reply is delivered or dropped.
read_deliver(r) ==
    /\ read[r] = "done"
    /\ read' = [read EXCEPT ![r] = "free"]
    /\ UNCHANGED <<stage, woken, order, callVars, jobVars, closeVars, shutVars, log, read_failed>>

\* ReadOperations::settle looks at the jobs whenever one has ended ...
reads_settle(e) ==
    /\ stage[e] = "reading"
    /\ read_failed[Session(e)] \/ Active(Session(e)) = {}
    /\ Goto(e, IF read_failed[Session(e)] THEN "refused" ELSE "settled")
    /\ UNCHANGED <<woken, order, callVars, jobVars, closeVars, shutVars, log, readVars>>

\* ... and gives up after its deadline, which fails the reads for good.
reads_expire(e) ==
    /\ stage[e] = "reading"
    /\ ~read_failed[Session(e)] /\ Active(Session(e)) # {}
    /\ read_failed' = [read_failed EXCEPT ![Session(e)] = TRUE]
    /\ Goto(e, "refused")
    /\ UNCHANGED <<woken, order, callVars, jobVars, closeVars, shutVars, log, read>>

-----------------------------------------------------------------------------

Enter(e) ==
    \/ enter_enable(e)
    \/ enter_check(e)
    \/ enter_granted(e)
    \/ enter_refused(e)

Worker(b) ==
    \/ persist_append(b)
    \/ persist_done(b)
    \/ persist_fails(b)

Owner(b) ==
    \/ acquire(b) \/ acquire_closed(b)
    \/ join_ok(b) \/ deliver(b) \/ settle(b) \/ join_error(b)
    \/ deadline(b) \/ deadline_tell(b) \/ late_join(b)
    \/ drop_close(b) \/ drop_retain(b) \/ drop_notify(b)

Next ==
    \/ \E b \in Batches : reserve(b) \/ execute(b) \/ cancel(b) \/ consume(b)
    \/ \E e \in Settlers : settle_effects(e)
    \/ \E e \in Settlers : reads_settle(e) \/ reads_expire(e)
    \/ \E r \in Reads : read_admit(r) \/ read_end(r) \/ read_deliver(r)
    \/ \E e \in Entrants : Enter(e)
    \/ \E b \in Batches : Worker(b) \/ Owner(b)
    \/ shutdown_close
    \/ shutdown_done

Spec == Init /\ [][Next]_vars

\* Tasks of the runtime are scheduled, timers fire and callers take what they
\* were given.  Writes and reads may hang for ever: nothing is assumed of them.
Fairness ==
    /\ \A e \in Entrants : WF_vars(Enter(e))
    /\ \A b \in Batches : WF_vars(execute(b)) /\ WF_vars(Owner(b)) /\ WF_vars(consume(b))
    /\ \A e \in Settlers : WF_vars(reads_settle(e) \/ reads_expire(e))
    /\ WF_vars(shutdown_done)

FairSpec == Spec /\ Fairness

-----------------------------------------------------------------------------
(* Properties.                                                              *)

\* The journal of a session stops at the first write that is not proved: one
\* session never has two unproved jobs, and nothing follows an unproved batch in
\* its journal, whether it failed, hangs, or landed after its deadline.
FailStop ==
    \A b \in Batches :
        stage[b] \in Unproven =>
            /\ \A c \in Siblings(b) : stage[c] \notin Unproven
            /\ \A i \in 1..Len(log[Session(b)]) :
                  log[Session(b)][i] = b => i = Len(log[Session(b)])

\* A caller that is told "committed" has its batch in the journal at the
\* position it numbered it with, and is the only owner left of the batch, which
\* emit_batch relies on when it unwraps the shared allocation.
AcknowledgedIsOwned ==
    \A b \in Batches :
        reply[b] = "ok" =>
            /\ first[b] \in DOMAIN log[Session(b)] /\ log[Session(b)][first[b]] = b
            /\ b \notin retained /\ b \in credit

\* Whatever is still writing is still paid for: at most MaxExecuting writes run,
\* those past their deadline or without a caller included, each with its credit
\* and its session's lock.
WritesAreCharged ==
    LET writing == {b \in Batches : worker[b] \in {"running", "landed"}}
    IN  /\ Cardinality(writing) <= MaxExecuting
        /\ \A b \in writing : b \in credit /\ order[Session(b)] = {b}

\* A successful shutdown is a proof: no job is left that could still write, and
\* the batches nobody waited for have been released.
ShutdownProves ==
    shutdown = "proved" =>
        \A b \in Batches :
            /\ stage[b] \notin Unproven
            /\ worker[b] \notin {"running", "landed"}
            /\ b \in abandoned => b \notin credit

\* settle_effects passes its session's lock only at a moment at which no write of
\* the session is unproved, and returns Ok only if no read of it was lost.
SettleMeansQuiet ==
    [][\A e \in Settlers :
          /\ stage[e] # "reading" /\ stage'[e] = "reading" =>
                \A b \in Batches : Session(b) = Session(e) => stage[b] \notin Unproven
          /\ stage[e] # "settled" /\ stage'[e] = "settled" => ~read_failed[Session(e)]]_vars

\* Every commit is answered, although writes may hang: by its result, by its
\* deadline, or because admission was closed while it waited for a lock that is
\* never released.
EveryCommitAnswered ==
    \A b \in Batches :
        (stage[b] = "reserved") ~> (stage[b] = "refused" \/ reply[b] # "none" \/ b \in abandoned)

\* Neither shutdown nor settle_effects waits for ever.
EveryWaitEnds ==
    /\ (shutdown = "waiting") ~> (shutdown \in {"proved", "failed"})
    /\ \A e \in Settlers : (stage[e] = "reserved") ~> (stage[e] \in {"settled", "refused"})

=============================================================================
