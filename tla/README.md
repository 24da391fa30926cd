# Rottweiler in TLA+

Rottweiler is a coding agent: a Rust engine that runs sessions, keeps each
session's history in a journal of its own, serves that history live to any
number of clients, and lets a model call tools and delegate work to child
sessions. This directory models the concurrent core of the engine, checks it
with TLC, and proves with TLAPS the safety properties that it checks, for
instances of every size.

    Subagents            the children of a session, their slots, records, recovery
        |
    SessionActor         turns, inputs, recovery fence, owned tasks, shutdown
    (InputClaims)            |
        |                ToolBatch       one batch of tool calls of a turn
        v
    JournalCommits --->  SegmentedJournal  --->  LiveEvents, SessionSubscription
    (who may write,      (what is on disk,       (what a client sees)
     and who is told)     and what a crash           |            |
                          leaves of it)         OrderedDelivery   ReplayAdmission
                                                (the promise)     (who may read pages)

    ExecutionPool, OwnedProcess      permits for all blocking work and processes

`PROJECT.json` lists the components, the runs, the source lines every definition
translates, the hazards of the code with the properties aimed at them, and the
theorems.

## 1. Inventory

### The parts that carry the core logic

| Part | Source | State | Operations | Hard because |
|---|---|---|---|---|
| Session actor | `rw-core/src/engine/session/actor.rs`, `dispatch.rs`, `session/control.rs` | sequence number, running turn, driver, closed flag | one task selects over commands, turn signals, owned tasks and shutdown | commands arrive in every state; shutdown races turns |
| Recovery | `session/recovery.rs`, `session/recovery/fence.rs` | the journal's unfinished turn, the fence | repair commits at start-up | a crash inside the repair |
| Task ownership, shutdown | `task_ownership.rs`, `shutdown.rs` | admitted tasks, failures, first result | spawn, cancel, idle, close with a 30 s deadline | panics, late results, a deadline against a slow cleanup |
| Turn loop | `engine/turn/` | provider stream, tool calls, pending approvals | start, signal, prepare, launch, collect, commit results | parallel tools with ordered results; approvals of a diff that changes |
| Committing and publishing | `turn/journal_events.rs`, `durability.rs` | the batch between commit and publication | number, commit, take over, publish | a commit without an acknowledgement |
| Live event ring | `live_events.rs`, `live_events/receiver.rs` | bounded ring, ordinals, a cursor per receiver | publish, send, subscribe, poll, drop, close | eviction, lag, lost wake-ups |
| Subscriptions | `session/subscription.rs`, `session/handle.rs` | last delivered event, captured view, page being read | open, recv, replay, gap recovery | replay and live delivery overlap; recv is cancelled |
| Journal | `rw-store/src/session/journal.rs`, `journal/`, `journal_io.rs` | sealed segments, active file, poisoned flag | open, append, rollback, seal, capture, read | partial writes, process death, power loss |
| Journal service | `rw-runtime/src/journal_service.rs` | registered owners, published prefix | register, publish, capture | capture while an owner opens or closes |
| Commit admission | `journal_service/commits.rs` | credits, permits, per-session lock, jobs, failed jobs | reserve, enter, execute, shutdown | hung writes, abandoned callers, failure that must stop a session |
| Durable sink | `session_runtime/durable_session.rs`, `durable_session/reads.rs` | commit order, read jobs | commit, persist, settle_effects, reads | settling races commits and hung reads |
| Execution pools | `rw-resources` | permits, waiters, quarantined leases, owned processes | acquire with deadline, run_blocking, spawn, settle, drop | a leaked lease is a lost permit; group numbers are reused |
| Replay admission | `live_events/budget.rs` | byte budget, FIFO windows | reserve, wait, refund | cancellation at every await |
| Orchestration | `rw-core/src/orchestration/`, `session_runtime/subagent_recovery.rs` | child table, queue, slots, private records, lifecycle events | submit, start, undo, run, continue, close, suspend, recover | dropped calls, failing steps of a startup, the parent's end, crashes |
| Permissions | `rw-core/src/permission*`, `dispatch/permissions.rs` | rules, pending requests | decide, ask, answer | precedence; answers for requests that ended |

The rest of the repository (providers, MCP, plugins, tools, sandbox, context
assembly, configuration, the command line, the TUI) is listed in `PROJECT.json`
with the reason it is not modelled: protocol encoding, operating-system effects,
transactions of SQLite, or wiring of the parts above.

### How the parts interact

`emit_batch` (the actor) numbers a batch after the last sequence it knows to be
committed and hands it to `commit_session_events`. The durable sink reserves
credit, waits for the session's order lock and turns the batch into a job of
`JournalCommits`. The job's owner task waits for one of four execution permits
and spawns the write, `persist`, which appends to the `SegmentedJournal`,
publishes the new committed prefix in the `JournalService` registry and refreshes
the projections. When the write is proved, the caller gets the very allocation
it submitted, advances its sequence and publishes the events one by one in the
`LiveEvents` ring. A `SessionSubscription` delivers from the ring while it can;
when it joins late, falls behind or sees a gap it captures a read view through
the `JournalService`, replays pages of it, and returns to the ring. Transient
events (progress, streamed text) exist in the ring only.

### What makes each part correct

- Delivery: every subscriber gets the durable events after its opening position
  once each and in order; a transient event is delivered or the subscriber is
  told that it lost something; no receiver sleeps over something it should
  hear; a close is reported after the journal has been drained.
- Journal: an acknowledged event survives every crash; what a reader captured
  stays readable and keeps its identity; the journal can always be opened again;
  a writer that is not poisoned knows what is on disk.
- Commit admission: a session's journal stops at the first write that is not
  proved; what is acknowledged is in the journal where it was numbered; what is
  still running is still charged; every caller is answered; a successful
  shutdown or settle is a proof.
- Execution pools: permits are conserved; what still runs is still charged; a
  waiter is served, cancelled or timed out; no signal reaches a stranger's group.
- Session actor: the journal's turns are bracketed whatever crashes; memory
  follows the journal whenever new work is taken; an acknowledged message is
  never lost; `Ok` from `close` is a proof that nothing is left.
- Tool batches: results are committed in the order of the calls; a mutation
  runs alone and on the diff that was approved; every prepared call ends.
- Replay admission: bytes and slots are conserved, waiting readers are served.
- Orchestration: every run of a child is bracketed in the parent's journal;
  records match children; a cleanup that reports success left nothing alive;
  a killed session resumes.

## 2. Modules

### LiveEvents, SessionSubscription, OrderedDelivery

`LiveEvents` holds the ring and its receivers: `frames`, `ordinal`, `closed`, and
per subscription `conn`, `client`, `seen`, `failed` and `waker` (the `Notified`
future of a sleeping receiver). Its operators are the statements that run under
the channel's lock, named as in the code (`publish`, `push`, `fail_unseen`,
`reclaim_observed`, `poll_frame`, ...). `SessionSubscription` puts a subscription
and the session's journal around them: `tail` (the journal's length),
`outbox` (the committed batch being published, one lock per event), and per
subscription a `phase` that says where `recv` stands, the last delivered event,
the captured view, the page task and the pending page. A step ends where the code
releases the lock or awaits. `OrderedDelivery` is the promise: a subscription
opens at a position of a growing log, takes the next event, ends only when it has
taken everything, or leaves. `SessionSubscription` implements it, with
`phase` mapped to the abstract stage.

Abstractions. An event is its sequence number; a frame carries a payload or not.
Whether the byte budget grants credit is a free choice of the publisher. A
refused subscription (64 of a session, 512 of the process, or an identity credit)
is the step not taken. `close` sets the flag and wakes everybody in one step. `prime()` outside `recv`, and a `recv` cancelled while it waits for replay
admission, leave the subscription as a `recv` that has not got further. The last
part of a receiver's drop and the release of its `Arc` are one step.

### SegmentedJournal

The directory and the files are kept twice: as processes see them (`files`,
`dir`) and as they are on disk (`files[f].stable`, `durDir`). `Kill` loses the
process and keeps the page cache; `PowerLoss` keeps, of every file, any prefix
that contains what an fsync covered, possibly with a torn record, and either
version of the directory. The writer's fields have their names in the code; `pc`
is the statement an append, a rollback, a seal or an open has reached. `views`
are captured read views, `published` is the registry's committed prefix. `acked`
and `sealedDirty` are history: the longest acknowledged prefix, and whether a
file was ever sealed with records no fsync had covered.

Abstractions. A record is a sequence number and a value; sizes are counted in
records; a digest is the record sequence it was computed from (no collisions); a
file is named by the sequence number it started at, which stands for its inode.
The refresh of the file snapshot, the `Ok` of the append and the publication are
one step (`settle`). Reaching `MAX_SEGMENTS` and refused read admission are steps not
taken. Changes of the files by other programs are excluded: `WriterKnowsDisk`
shows that the code's checks against them never fire by themselves. Truncations
that a power loss undoes and pages written back out of order are not modelled.
The decoding of pages changes no state and is left out. `prefix_at` reads the segment
the cut falls into and answers nothing when that segment cannot be read, which is so
only after a seal of the kind of finding 1. A seal that fails after its last field was
assigned (`journal.rs:700`) is `seal_fails`; the writer is poisoned either way. In the runtime a failed
commit keeps its writer for ever (see below), so releasing the writer after a
failure stands for other users of the store and for process exit.

### JournalCommits

An entrant `<<s, i>>` is the i-th batch of session `s`, `<<s, 0>>` a call of
`settle_effects`; `stage` is how far it has come. `order` is the session's lock,
`credit` the reservations, `retained`, `executing`, `worker` and `completion` the parts
of a job, `jobs` and the three `closed` flags the queue. `reply` is what the caller
was told, `first` the number it gave the batch, `sequence` what the actor knows.
`read` and `read_failed` are `ReadOperations`. The statements of `JobOwner::drop`
and of an expired deadline are separate steps, because callers run in between.

Abstractions. A batch stands for its events; the byte credit and a full queue
make `reserve` not happen. The actor is sequential: a session has one live caller,
while jobs it has abandoned go on. `persist` is the append and a second blocking
job; it may fail before the write, in a write that reached the disk, or in the
second job. The waits of `shutdown`, one job after the other, are one step, which
sees the same results because a completion never changes. A closed queue is
never opened again; a new process starts over, which is `SegmentedJournal`'s
subject.

### ExecutionPool, OwnedProcess

`ExecutionPool` is one of the four process-wide pools: `free` permits, the FIFO
`queue` of tokio's semaphore (external; permits returned are assigned to the oldest
waiter even when they do not yet suffice), what each caller `want`s and has `got`, the
`stage` of its call, and `withdrawn` permits. Requesters own their lease, runners
move it into a blocking worker that outlives its caller, launchers keep it in an
owned process. `OwnedProcess` extends it with `BlockingProcess`: the owner's step, the
child, its descendants and group as the operating system has them (external), and
`reused`, a group number that names somebody else's group.

Abstractions. A sleep of the polling loops is the step not taken; pipes and
`try_status` change nothing. Nothing in production calls `ResourceLease::quarantine`
at this commit; the model takes the step anyway.

### InputClaims, SessionActor

`InputClaims` is the fold of the durable prefix that recovery reads, one operator per
event that moves turns, input claims and the queue. `SessionActor` keeps the journal
in that folded form, the actor's memory (`running`, `next_turn`, `queued`, `suspended` and
`held`), its flags, the signal channel, the task set, the cleanup and the shutdown
handle. Its steps are the start-up (notices, repair, resume), the checks at the top
of the loop one by one, the arms of the select, the handlers of signals, the steps
of the turn's task, `close` and its deadline, and a crash that keeps only the
journal. The journal is the only durable state, so a crash inside a repair is any
crash between two of its commits.

Abstractions. A commit succeeds, is refused without effect, or fails with or without
effect, after which the sink is closed and `settle_effects` fails. A handler that
awaits one commit is one step. Cancelling a task is left out, because a task may end
at any step anyway. Publishing fails only after the events channel is closed. A batch
reaches the journal whole or not at all (`emit_batch`), while the code expects that a
failed or interrupted append may leave a prefix of one (`recovery.rs:153-157`). A turn whose task cannot be spawned after its opening was
committed (`start.rs:341`), and the refusals of the fold (`input_claims.rs:115-137`,
`:190-214`), which no journal the actor writes meets, are left out. The loop's two idle reads at
`actor.rs:403` and `:407` are one step; `unsettled` is already set when they could differ.
The constant `RetryOpening` lets the opening of a turn for a message be refused (the run
of finding 2).

The cleanup is a task of its own (`shutdown.rs:124`) and may be over before the actor
polls again. `CloseIsProof` is therefore stated with what the loop can still miss. It
reads the tasks three times on the way to a cleanup (idle for the recovery at
`actor.rs:371`, failed at `:400`, idle at `:407`), and tasks end in between. The history
variable `late` collects the tasks that ended between those reads. A task in it that panicked is not
seen to have failed, and a fenced session whose last task is in it is closed without
the repair the fence had asked for. In both cases `close` reports `Ok`, and a turn that is
still open is repaired by the next start. Everything else a settled session promises
holds whatever the cleanup's speed. Pending commands, model and context jobs, deferred
controls, the wake by child results, removal from the queue and rewind are not
modelled.

### ToolBatch

The calls of one batch, each in a stage from `unprepared` to `past`, from which the
scheduler's counters `next` and `launched` follow; one call at a time is being prepared
(`phase`: hooks, authorization, the question to the client); a prepared call is
launched inside the window, a mutation alone, runs on its own task and is collected
when it ends; results are admitted and committed by the session actor in order.
`emitting`, `woken`, `chunks` and `buffered` are the ordered output: the first unfinished
call streams at once, later ones wait for a background permit or for `advance`. The
actor's side is `signals`, the pending approval with the diff it shows, the fence and
`unsettled`. `transcript` is what the journal tells of the batch.

Abstractions. A diff is "fresh" or "stale" with respect to the workspace; a mutation
makes every other diff stale. The client approves what it was shown, denies, or
never answers. Checkpoints and hooks are settled or leave the effects unproven.
Notices that only reach the screen are left out. So are some failures: a commit that
fails while the session closes raises the fence in the model, where the code only marks
the session unsettled (`actor.rs:575-576`); a permission hook whose effects do not settle
(`tool_requests.rs:318-330`); admissions of a result that fail for other reasons than
unproven effects (`tool_result_closure.rs:47-54`, `:98`); a stale denial whose commit fails
(`admission.rs:748-765`). `MutationAlone` is about tools that have started; preparations
are not covered by it (section 4).

### ReplayAdmission

A reader is one refill of a subscription and the page that comes of it. `used`,
`waiters` and `counted` are the three atomics, `gate` the FIFO lock, `armed` the registered
wake-ups, `held` the bytes of a credit. A release is two steps (subtract, notify), and so
are arming the wake-up and trying again. Deadlines and dropped calls happen only at
awaits. A failing read and the CPU lease it needs are one step, `read_fails`.

### Subagents

Per child a record with the startup's owner task, the turn task, the row of the
table and the last result; the running slots `permit` with their FIFO `line`; `queue`,
`admission`, `caller` and `unproven` of the startups; `actor`, the sessions alive in this
process. Durable are `meta` (the private recovery record), `log` (the parent's lifecycle
events) and `tree` (worktrees). `phase` and `ending` are the process and the parent's
cleanup. A startup is create, save pending, publish, save active, reply; each step
may fail with or without effect, and the owner then undoes what was done. A crash
loses everything but the disk; loading repairs the parent's journal and recovers or
discards record by record.

Abstractions. Children of depth one only; an identity that left no trace may be used
again. A failed commit closes the parent's sink. The owner's end and its removal from
the queue follow each other; waiting for a child and suspending it, and setting a
follow-up's Active and its result, are one step each, and so are the end of a turn in
the table, its result and its permit (`lifecycle.rs:358-375`). A follow-up goes to a child
whose start the parent was told of; the code looks only at the row (`lifecycle.rs:489`), so
that a parent that lists its children could also continue one nobody has claimed, whose
owner then fails to close it and reports it as unproven. A `close` dropped in mid-await
leaves the row Closing (`lifecycle.rs:611`), as a failed one does. A startup's panic and its
`EffectsUnsettled` (`startup.rs:334-338`, `:375-377`) are modelled for `create` only. Nobody
calls the orchestrator for a parent whose cleanup has begun: the closing actor refuses
the driver's check, but the host's close (`host/lifecycle/shutdown.rs:127`) does not take
`session.lifecycle`, which `ContinueSubagent` and `CloseSubagent` hold
(`host/commands.rs:1321-1396`), so that a call preempted between that check and the table's
lock could still leave a turn behind; this is assumed not to happen. Recovery meets no I/O faults of its own.
Retained capacity, artifacts, rewind and the activity watch are not modelled.

### Proof modules

`DeliveryProofs`, `JournalProofs`, `CommitsProofs`, `PoolProofs` (for both pool modules),
`SessionProofs`, `BatchProofs`, `ReplayProofs` and `SubagentsProofs` extend the modules they
are about and hold the inductive invariants, the lemmas and the theorems of
section 5. No run uses them.

The definitions marked "Seeded fault" are not part of the specifications: each is
a plausible mistake in one operation, used to confirm that a property notices it.

## 3. Runs

| Run | Instance | Shows |
|---|---|---|
| `delivery` | 1 subscription, 2 clients, ring of 1, 2 durable and 2 transient events, batches of 2, pages of 1, fair | ordered delivery, no silent loss, no missed wake-up, refinement of `OrderedDelivery`; everything published is delivered, a close is reported |
| `journal` | 2 values, 1 reader, 4 records, segments of 2 | crash safety, readable views, stable identities, reopening |
| `journal_seal` | same | finding 1 |
| `commits` | 2 sessions with 2 batches and 1 read each, `settle_effects` of one, any 2 of these calls, 1 permit, 2 credits, fair | fail-stop, ownership, charging, shutdown, settling; every caller is answered |
| `pool` | 2 requesters of 1 or 2 units, a blocking worker, an owned process, 2 permits, fair | conservation, leases, signals, waits that end |
| `session` | 2 messages, 2 turns, 1 crash, fair | bracketed turns, memory against journal, no lost message, close as proof, the fence ends |
| `session_retry` | same with refused openings, 3 turns | finding 2 |
| `tools` | 3 calls, window 3, 2 permits, 1 chunk each, an interrupt, a failed emit, 1 unproven effect, fair | ordered transcript, mutation alone, approved diffs, calls finish |
| `tools_refresh` | 3 calls without faults | finding 3 |
| `replay` | 4 readers, budget of two windows, pages of 1 or 2, 3 waiters, fair | conservation, readers served |
| `subagents` | 2 children, 1 slot, 2 turns each, 1 fault, 1 crash, fair | bracketed lifecycles, records, end as proof, resume, queue and cleanup end |
| `subagents_resume` | same, one child with a worktree, no fault | finding 4 |

Why the bounds are enough to be interesting: a ring of one with two durable and two
transient events evicts both kinds, lags a cursor, and lets a batch be published
across a join and a close. Four records in segments of two rotate once with a full
and once with a partly filled segment, and leave room for a failed append before and
after. Two calls are one that goes wrong and one that comes after it in the same
session, waits for the same permit in another, settles, or reads (`MaxCalls`). Two units of
two permits make a waiter hold one permit while it waits for the other. Two turns
and two messages give one message that is running or interrupted and one that is
queued behind it. Three calls are one that commits, one that runs and one that is
prepared, with a window that admits all three. Three waiters behind two windows make
a queue behind a parked reader, and a fourth is refused. Two children on one slot
are one that runs and one that waits, is cancelled, or is handed the slot.

Larger instances of the same models were checked without an error: the safety
properties of `commits` with three calls (5.1 million states) and of `subagents` with two
faults (0.7 million). The theorems below cover every instance, so that the bounds matter
for liveness and for finding mistakes in the model, and no longer for safety.

Symmetry is used on values and readers of the journal only. Deadlock is checked for
the journal, the tool batch and the replay admission; the others may legitimately
stop (all numbers used up, the session closed).

Fairness. Tasks that can run are scheduled and timers fire; a timer that other steps
can disable again has strong fairness (`deadline`, `leak`). `delivery` also assumes that
the actor publishes what it committed and that the client keeps calling `recv`;
`OwnedProcess` that the system ends killed processes; `ReadersServed` assumes, in its
own statement, that clients let go of their pages. Nothing is assumed of clients who
might commit, send, approve, interrupt, cancel or drop, of crashes, of blocking writes
and reads, of the tasks and the cleanup of a session (which may hang: the deadlines
are for that), or of the parent of a subagent.

## 4. Findings

1. **A seal can promise bytes no fsync has covered** (`journal_seal`,
   `AckedDurable`). A process writes a batch and dies before its fsync. The next
   owner adopts the complete records (`journal.rs:504-545`) and synchronizes
   the file only if it had to cut a torn record. If its first append rotates the
   segment, `seal` (`journal.rs:678`) renames the file without an fsync. After a
   power loss the file is shorter than its name says, and `read_segment_bytes`
   (`journal.rs:984`) rejects the segment with the acknowledged records in it.
   An fsync in `open`, or before the rename, closes it: `AcknowledgedSurvive` holds in
   every behaviour in which no such file was sealed.
2. **A refused turn opening loses suspended inputs** (`session_retry`,
   `InputsSurvive`). `start_turn_with_overrides` takes `suspended_inputs` before the
   opening is committed (`turn/start.rs:243`) and does not put them back when the
   commit is refused, while the session stays usable. The next opening claims the
   inputs in the journal without carrying them, and its end drops them.
3. **A refreshed approval can never be used** (`tools_refresh`, `FreshApprovalRuns`).
   When the workspace changed after a diff was displayed, the pending approval is
   refreshed in the actor (`dispatch/admission.rs:717-727`) and the client is asked
   again; the preparation keeps the first diff (`turn/tool_requests.rs:303`), so the
   execution refuses the fresh approval as stale (`turn/tool_execution.rs:307`).
4. **A crash while a child is closed can block the resume** (`subagents_resume`,
   `ResumeLoads`). The worktree is removed before the record that names it
   (`lifecycle.rs:668-696`); a process that dies in between leaves a record the
   next start refuses (`subagent_recovery.rs:248-260`).

Observations without a run of their own:

- A follow-up dropped while its spawn commits (a cancelled tool is dropped after its
  grace, `tool_execution.rs:339-357`) leaves the child Active without a turn, spawned and
  never finished, until the process restarts (`lifecycle.rs:515`). It can be neither
  messaged nor closed, although `tools.rs:119` says that a stopped child can still receive
  a message. `LifecyclesBracketed` exempts exactly this child, by the mark `drop_continue` sets.
- `close` can report `Ok` for a session with a task that panicked, or with a turn the
  fence had still to repair, when the last task ends between the loop's reads
  (`actor.rs:371`, `:400`, `:407`; `late` in section 2). `CloseIsProof` exempts these tasks.
- A preparation that began before a mutation was launched goes on beside it
  (`tool_scheduling.rs:171`), although the comment at `tool_scheduling.rs:43-45` says that
  previews and hooks observe a settled workspace. `ApprovedDiffHolds` shows that no tool
  works on a diff such a preparation got wrong.
- An offline capture that finds the lock of a dead writer free includes complete records
  no fsync covered; the comment at `journal.rs:755-757` reads as if it could not.

## 5. Proofs

Eight modules hold the theorems. They are proved for every value of the constants
under the named assumptions of the modules, which say that sessions, callers,
readers of pages, children and inputs are finite sets and that bounds and
capacities are naturals, positive where the code's constants have to be:
`RingAssumption` (the address `Everyone` is no client), `DeliveryAssumption`,
`JournalAssumption` (the largest segment is at least the size at which one is
sealed), `CommitsAssumption`, `PoolAssumption` (the three kinds of callers are
disjoint), `SessionAssumption`, `BatchAssumption` (at least two permits for chunks of
output: background calls leave one to the call that streams),
`ReplayAssumption` (the budget holds a window, a page fits one) and
`SubagentsAssumption`. TLC evaluates them in the runs.

Every proof has the same form. The property is not inductive, so an invariant is
found that is, lemmas show action by action that it is kept, and the theorems follow
from it.

**Delivery.** The invariant `IInv` adds: the
ring ends at the newest ordinal without a hole and an empty ring means that every
live cursor has reached the end (`RingInv`); publication follows the journal and
the newest durable frame is known by its ordinal (`JournalInv`); the pending page
and the page being read continue the last delivered event inside the captured
view (`CursorInv`); whatever was published is delivered, inside the view or
ahead of the cursor (`Covered`); a sleeper without a notification has passed
everything (`Asleep`); a transient event owed was heard or is ahead
(`TransientInv`). What `reclaim_observed` returns is proved once (`ReclaimFacts`),
from the least-element property of the naturals. From `IInv`: `TypeCorrect`,
`DeliveryIsContiguous`, `NothingLostSilently`, `SleepersAreCaughtUp`, `RingStaysSuffix`,
and, step by step under the refinement mapping,
`SubscriptionsImplementOrderedDelivery`.

**Journal.** An acknowledged prefix, a captured view and the published one are
sequences of segments whose last may be a part of a file that has grown or been
sealed since. `Fits` says that such a sequence is a prefix of a catalog and an active
file; it is kept when the file grows (`FitsGrow`) and when it is sealed (`FitsSeal`), and
`prefix_at` finds the prefix again in whatever it fits (`PrefixAt`), if the segment at the
cut can be read, which `~sealedDirty` ensures (`FitsFound`). The invariant says:
both directories can be opened (`DirOK`), and the one on disk is at most one rename and
one new, empty file behind (`Ahead`); what the writer's fields have to do with the disk
at every statement it can be interrupted at (`FieldsInv`, `PcInv`), the crux being that
what an fsync covered of the active file never exceeds the writer's hash while an
append is under way, so that a rollback takes back nothing durable; the acknowledged
prefix fits what is on disk of either directory (`AckInv`); views fit the writer's fields,
or the directory while nobody has read it (`ViewInv`); sealed files are whole unless one
was sealed too early (`SurviveInv`, the condition of finding 1). What a power loss leaves of
a file and of a directory is proved once (`RemainsFacts`, `LeftDirectory`). From it:
`AcknowledgedAlwaysSurvive`, `ViewsAlwaysReadable`, `IdentityAlwaysStable`,
`WriterAlwaysKnowsDisk`, `JournalAlwaysReopens`, `JournalTypes`, and the action property
`DurableAlwaysGrows`.

**Commit admission.** `FailStop` depends on who holds the session's lock: exactly the
batches between grant and proof do (`LockInv`), an unproved job keeps it, and a
worker can only write in three of its owner's stages (`JobInv`). The journal
contains every batch at the position it was numbered with, and an unproved one
only at its end (`LogInv`); credit follows the batch (`CreditInv`); the jobs
shutdown has listed are all there will ever be (`DoneInv`); permits are counted
with `FiniteSetTheorems` (`PermitInv`). Most steps concern one batch: `LocalStep` reduces
them to the facts of that batch. From `IInv`: `CommitsTypes`,
`UnprovedWritesStopTheirSession`, `AcknowledgedBatchesAreOwned`,
`RunningWritesAreCharged`, `ShutdownIsAProof`, and the action property
`SettledSessionsAreQuiet`.

**Pools and processes.** `PermitsAccounted` is a sum over callers. The sum is a fold over a
set; that a summand may be taken out, and what changing one does, is proved by
induction over a set of numbers, which the provers can do where they cannot
instantiate an induction theorem. `add_permits` hands permits to the queue in order
until they run out; the invariant says that the queue names every waiting call once
(`QueueInv`), what a call has in each stage (`CallInv`), and that no permit is lost or
lies idle while someone waits (`PermitInv`). `ProcessesImplementPool` shows that a
pool with owned processes is a pool, so that `PermitsAlwaysAccounted` holds of both.
For processes, `OwnerInv` relates the owner's step to what the system still has of the
child and its group: a group number is given up only when nothing is left.
`ProcessAlwaysLeased` and `StrangersNeverSignalled` follow.

**Session actor.** What holds of every journal the actor writes (`Good`: turns are
bracketed and numbered upwards, claims go with turns) is kept by every event it
commits, and hence by a crash between any two. Around it the invariant says how the
phase of the loop, the running turn, its task and the buffered signals agree with
the journal (`StartInv`, `SyncInv`, `RunInv`): `TurnsAlwaysBracketed` and
`AcknowledgedAlwaysKnown` hold without a condition. A second layer, `MemInv`, is about
the inputs memory holds: `MemoryAlwaysFollowsJournal` and `InputsAlwaysSurvive` assume
`~RetryOpening`, because finding 2 is exactly what happens otherwise. A third
(`CleanInv`, `LateInv`, `DoneInv`) follows the tasks that ended between the loop's reads to
the cleanup and gives `CloseIsAlwaysProof`, without a condition. `~RetryOpening` is a value
the `session` run uses.

**Tool batch.** The calls are past, launched, ready, in preparation and unprepared in
that order, which is what gives the scheduler's two counters their meaning (`Shape`);
only one launched call can be a mutation, and then it is alone (`MutInv`), and a
working call's diff is not stale (`DiffInv`): `MutationsAlwaysAlone`,
`ApprovedDiffsAlwaysHold`. For `TranscriptAlwaysInOrder` a second layer follows what was
sent through the channel: it continues what the journal has (`LogInv`), the scheduler
has at most one question open (`AskInv`), and when a result is missing the actor knows
it before it can admit another (`FailInv`).

**Replay admission.** Only the head of the gate has passed it (`GateInv`), and what a
credit is worth follows from the stage of its reader (`HeldInv`); with these the three
counters are sums and cardinalities over the readers (`CountInv`):
`CreditsAlwaysAccounted`.

**Subagents.** The invariant is stated child by child: how the owner, the turn and the
table row go together (`RowInv`), what the record (`RecordInv`) and the parent's journal
(`LogInv`) say in each of these states, what a cleanup may have left (`EndInv`), what is
gone while the process is down (`DownInv`); only slots are shared (`SlotInv`).
`LifecyclesAlwaysBracketed`, `EndIsAlwaysProof` and `RecordsAlwaysMatchChildren` hold without
a condition on the constants; the first with the three exemptions its property names. `ResumeLoads` fails with worktrees (finding 4); the theorems say how far:
`RefusedOnlyForWorktree` (a refused resume is always a published child whose worktree is
gone) and `ResumeAlwaysLoads` (where no child has a worktree, `Isolated = {}`, as in the
run, every resume loads).

`TypeCorrect`, `CommitsTypes`, `JournalTypes`, `RingStaysSuffix`, `ProcessesImplementPool`,
`AcknowledgedAlwaysKnown` and `RefusedOnlyForWorktree` are proved and not repeated by a run.

**Only model-checked.** The liveness properties (`PublishedIsDelivered`,
`CloseIsReported`, `EveryCommitAnswered`, `EveryWaitEnds`, `EveryAdmissionEnds`,
`OwnersFinish`, `FenceEnds`, `PreparedCallsFinish`, `ReadersServed`,
`QueueAndCleanupEnd`): the prover does not handle fairness and ENABLED. Every other
property of a passing run is stated by a theorem. The runs of section 4 show what
the theorems' conditions exclude: `AckedDurable` without `~sealedDirty`, `InputsSurvive` with
`RetryOpening`, `ResumeLoads` with worktrees; `FreshApprovalRuns` is false of the model and
has no theorem.

## 6. Not modelled

`PROJECT.json` gives the reason for every part that is left out. Beside the parts that
are encoding, operating-system effects, SQLite transactions or wiring, these hold
protocols of their own and are candidates: deferred controls and the wake of a
parent by child results, the engine host with its operation receipts, provider
admission and routing retries, checkpoints, plugin processes, workflows, background
tools, the MCP connection manager, forks of a journal. The page readers of the
journal and the precedence of permission rules are pure algorithms, to be checked
against reference definitions.

## 7. Plan

1. An abstract durable log (acknowledged prefixes that only grow, crashes that keep
   them) that `SegmentedJournal` implements, with the records of the acknowledged prefix as
   the refinement mapping. `JournalProofs` has the invariant such a proof needs; what is
   missing is that `acked` itself only grows (it is replaced by the identity of a longer
   prefix), which is a lemma about `Fits` and `Parts`.
2. The composition of `SessionActor`, `JournalCommits` and `SessionSubscription`, with the
   actor's sequence as the number of the batches and the journal as the tail of the
   subscriptions.
3. Deferred controls and the child-result wake in `SessionActor`; nested children in
   `Subagents`.
4. Journal pages and permission rules as operators against reference definitions.
