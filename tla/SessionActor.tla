---------------------------- MODULE SessionActor ----------------------------
(***************************************************************************)
(* The actor that owns one session (rw-core engine/session/actor.rs): its  *)
(* start-up repair, the loop that starts turns and serves their signals,   *)
(* the recovery fence, the tasks it owns, and its shutdown.  The journal   *)
(* survives a crash; everything else is rebuilt from it.                   *)
(*                                                                         *)
(* A handler that awaits one commit is one step: other threads only touch  *)
(* the channels, the task set and the shutdown token, which the handler    *)
(* does not read again.  The checks of the loop between two polls are      *)
(* separate steps, because tasks end on other threads.                     *)
(*                                                                         *)
(* Cancelling a task is left out: a task may end at any time anyway.       *)
(***************************************************************************)
EXTENDS InputClaims

CONSTANTS
    MaxTurn,          \* bound on the turns
    MaxCrashes,       \* bound on the times the process dies
    RetryOpening      \* a message sent while inputs are suspended may be refused

ASSUME SessionAssumption ==
    /\ IsFiniteSet(Inputs)
    /\ MaxTurn \in Nat \ {0} /\ MaxCrashes \in Nat
    /\ RetryOpening \in BOOLEAN

VARIABLES
    journal,      \* the durable fold (InputClaims)
    sink,         \* "open"; "closed" after a commit without proof
    (* the actor *)
    pc,           \* where it is: see Places
    running,      \* state.running: a turn, or 0
    next_turn,    \* state.next_turn
    queued,       \* state.queued
    suspended,    \* state.suspended_inputs is Some ...
    held,         \* ... of these
    recovery_requested,
    unsettled,    \* state.unsettled is Some
    closing,      \* state.closing
    armed,        \* closing_started is Some
    signals,      \* the signal channel
    cleanup,      \* the cleanup task
    (* the tasks it owns *)
    task,         \* TaskEntry of a task: "none", "running", "dropping", "failed"
    changed,      \* the permit of TaskSet.changed
    work,         \* what the turn's task is doing
    (* the handle *)
    requested,    \* ActorShutdown.cancellation, or every handle dropped
    completion,   \* ActorShutdown.completion: "none", "ok", "err"
    (* history *)
    acked,        \* inputs whose sender was told Started or Queued
    orphaned,     \* inputs dropped by a turn that was never given them
    late,         \* tasks that ended or failed since the loop's last look at them
    crashes

durable == <<journal, sink>>
memory == <<running, next_turn, queued, suspended, held>>
flags == <<recovery_requested, unsettled, closing, armed>>
tasks == <<task, changed, work>>
handle == <<requested, completion>>
history == <<acked, orphaned, late, crashes>>
vars == <<durable, pc, memory, flags, signals, cleanup, tasks, handle, history>>

Tasks == {"turn", "title"}
Places == {"off", "notices", "repair", "resume",      \* start-up
           "recover", "failure", "start",             \* the checks of the loop
           "select", "done", "ended"}
Idle == [turn |-> 0, stage |-> "none", left |-> {}, given |-> {}]

Init ==
    /\ journal = EmptyJournal /\ sink = "open"
    /\ pc = "notices"
    /\ running = 0 /\ next_turn = 1 /\ queued = {} /\ suspended = FALSE /\ held = {}
    /\ recovery_requested = FALSE /\ unsettled = FALSE /\ closing = FALSE /\ armed = FALSE
    /\ signals = <<>> /\ cleanup = "none"
    /\ task = [t \in Tasks |-> "none"] /\ changed = FALSE /\ work = Idle
    /\ requested = FALSE /\ completion = "none"
    /\ acked = {} /\ orphaned = {} /\ late = {} /\ crashes = 0

-----------------------------------------------------------------------------
(* emit_batch: the batch is durable; or it was refused before it reached the
   journal (no room for it); or it may have been written, and the journal
   service takes nothing more. *)
Outcomes == {"ok", "refused", "failed"}

emit_batch(o, j) ==
    /\ o \in {"ok", "failed"} => sink = "open"
    /\ CASE o = "ok" -> journal' = j /\ UNCHANGED sink
         [] o = "refused" -> UNCHANGED durable
         [] o = "failed" -> journal' \in {journal, j} /\ sink' = "closed"

(* The inputs that finishing the open turn loses although its task never had
   them: what `orphaned' collects. *)
Orphans == {i \in journal'.dropped \ journal.dropped : i \notin work.given}

-----------------------------------------------------------------------------
(* The task set. *)

idle == \A t \in Tasks : task[t] \in {"none", "failed"}
failure == \E t \in Tasks : task[t] \in {"dropping", "failed"}

(* A closing actor looks at its tasks when it may recover, when it collects
   their failures and before it starts its cleanup; `late' are the ones that
   end between these looks, while the actor has no failure to report. *)
Leaves(t) ==
    late' = IF closing /\ ~unsettled /\ pc \in {"failure", "start"} THEN late \cup {t} ELSE late

(* TaskGuard::drop of a task that did not complete: `failed' is stored before
   `complete', and the entry stays. *)
guard_drop(t) ==
    \/ /\ task[t] = "running"
       /\ task' = [task EXCEPT ![t] = "dropping"]
       /\ UNCHANGED changed
    \/ /\ task[t] = "dropping"
       /\ task' = [task EXCEPT ![t] = "failed"]
       /\ changed' = TRUE

task_panics(t) ==
    /\ guard_drop(t)
    /\ Leaves(t)
    /\ UNCHANGED <<durable, pc, memory, flags, signals, cleanup, work, handle, acked, orphaned, crashes>>

(* A completed task removes its entry. *)
task_ends(t) ==
    /\ task' = [task EXCEPT ![t] = "none"]
    /\ changed' = TRUE
    /\ Leaves(t)

-----------------------------------------------------------------------------
(* start_turn *)

(* The opening batch of turn t for the accepted inputs S and the new ones N;
   without prompt hooks the inputs are committed with it. *)
opening(t, S, N, synchronous) ==
    LET j == UserMessageAccepted(TurnStarted(journal, t), t, N)
    IN IF synchronous THEN ConversationInputCommitted(j, S \cup N) ELSE j

(* M are the messages of the call, `rest' what the caller leaves queued.
   "invalid": a check fails before anything is changed.  Otherwise the
   suspended inputs and, with them, the queue are handed over before the
   opening is committed. *)
start_turn(o, M, rest) ==
    \E synchronous \in BOOLEAN :
        IF o = "invalid"
        THEN queued' = rest /\ UNCHANGED <<durable, running, next_turn, suspended, held, task, work>>
        ELSE /\ next_turn <= MaxTurn
             /\ LET t == next_turn
                    new == M \cup (IF suspended THEN rest ELSE {})
                IN /\ emit_batch(o, opening(t, held, new, synchronous))
                   /\ queued' = (IF suspended THEN {} ELSE rest)
                   /\ suspended' = FALSE /\ held' = {}
                   /\ next_turn' = t + 1
                   /\ IF o = "ok"
                      THEN /\ running' = t
                           /\ task' = [task EXCEPT !["turn"] = "running"]
                           /\ work' = [turn |-> t, stage |-> "work", given |-> held \cup new,
                                       left |-> IF synchronous THEN {} ELSE held \cup new]
                      ELSE UNCHANGED <<running, task, work>>

-----------------------------------------------------------------------------
(* Recovery from the journal. *)

(* Seeded fault: the interrupted turn is closed and its inputs with it. *)
Repair_inputs(j) == IF OpenTurn(j) = 0 THEN j ELSE TurnFinished(j, OpenTurn(j))

(* interrupted_turn_recovery_events *)
Repair(j) ==
    LET t == OpenTurn(j)
    IN IF t = 0 THEN j
       ELSE TurnFinished(UserMessageRetained(j, {i \in ClaimedBy(j, t) : ~j.claim[i].retained}), t)

repair(o) ==
    IF OpenTurn(journal) = 0 THEN o = "ok" /\ UNCHANGED durable ELSE emit_batch(o, Repair(journal))

(* recover_actor_from_journal, first call: raise the fence; the tasks are
   still there. *)
request_recovery ==
    /\ recovery_requested' = TRUE
    /\ unsettled' = (unsettled \/ failure)

(* reject_signal of every signal buffered: only an unproved effect counts. *)
Unproved(s) == \E k \in DOMAIN s : s[k][1] = "unsettled"

Answer(s) ==
    IF \E k \in DOMAIN s : s[k][1] = "commit" THEN [work EXCEPT !.stage = "stop"] ELSE work

Answered(s) ==
    IF \E k \in DOMAIN s : s[k][1] = "hook" THEN "err" ELSE cleanup

(* Seeded fault: the fence falls although the repair is not durable. *)
recover_actor_early(o) ==
    /\ o # "unreadable" /\ repair(o)
    /\ running' = 0
    /\ next_turn' = NextTurn(journal)
    /\ queued' = journal.queued
    /\ held' = Pending(journal)
    /\ suspended' = (suspended \/ Pending(journal) # {})
    /\ recovery_requested' = FALSE
    /\ UNCHANGED unsettled

(* Second call, once every task is gone: memory is rebuilt from the journal
   and the fence falls when the repair is durable.  The history may be
   unreadable. *)
recover_actor(o) ==
    IF failure \/ o = "unreadable"
    THEN unsettled' = TRUE /\ UNCHANGED <<durable, memory, recovery_requested>>
    ELSE /\ repair(o)
         /\ running' = 0
         /\ next_turn' = NextTurn(journal)
         /\ queued' = journal.queued
         /\ held' = Pending(journal)
         /\ suspended' = (suspended \/ Pending(journal) # {})
         /\ recovery_requested' = (o # "ok")
         /\ unsettled' = (o # "ok")

-----------------------------------------------------------------------------
(* Start-up. *)

restart ==
    /\ pc = "off"
    /\ pc' = "notices"
    /\ sink' = "open"
    /\ queued' = journal.queued
    /\ next_turn' = NextTurn(journal)
    /\ UNCHANGED <<journal, running, suspended, held, flags, signals, cleanup, tasks, handle, history>>

(* Plugin notices, the SessionStart hook and an aborted compaction are
   published first. *)
startup_notices ==
    /\ pc = "notices"
    /\ \E o \in Outcomes :
         /\ emit_batch(o, journal)
         /\ unsettled' = (o # "ok")
         /\ pc' = IF o = "ok" THEN "repair" ELSE "recover"
    /\ UNCHANGED <<memory, recovery_requested, closing, armed, signals, cleanup, tasks, handle, history>>

startup_repair ==
    /\ pc = "repair"
    /\ \E o \in Outcomes :
         /\ repair(o)
         /\ unsettled' = (o # "ok")
         /\ pc' = IF o = "ok" THEN "resume" ELSE "recover"
         /\ suspended' = (o = "ok")
         /\ held' = IF o = "ok" THEN Pending(journal) ELSE {}
    /\ orphaned' = orphaned \cup Orphans
    /\ UNCHANGED <<running, next_turn, queued, recovery_requested, closing, armed, signals, cleanup,
                   tasks, handle, acked, late, crashes>>

(* resume_inputs of spawn and spawn_for_controls. *)
startup_resume ==
    /\ pc = "resume"
    /\ pc' = "recover"
    /\ \E resume_inputs \in BOOLEAN :
         IF resume_inputs /\ (held # {} \/ queued # {})
         THEN \E o \in Outcomes \cup {"invalid"} :
                /\ start_turn(o, {}, queued)
                /\ unsettled' = (o # "ok")
         ELSE /\ suspended' = ~resume_inputs
              /\ UNCHANGED <<durable, running, next_turn, queued, held, unsettled, task, work>>
    /\ UNCHANGED <<recovery_requested, closing, armed, signals, cleanup, changed, handle, history>>

-----------------------------------------------------------------------------
(* The loop. *)

Fenced == recovery_requested

(* Seeded fault: only a close arms the deadline. *)
loop_top_unarmed ==
    LET close == requested \/ unsettled
    IN /\ closing' = (closing \/ close)
       /\ armed' = (armed \/ close)

(* A close, or an unproved effect, is noticed here; so is a raised fence, and
   each starts the deadline. *)
loop_top ==
    LET close == requested \/ unsettled
    IN /\ closing' = (closing \/ close)
       /\ armed' = (armed \/ close \/ Fenced)

(* While the fence is up and every task is gone the buffered signals are
   rejected and the journal is repaired.  A repaired session that is not
   closing has no deadline any more. *)
loop_recover ==
    /\ pc = "recover"
    /\ pc' = "failure"
    /\ IF Fenced /\ idle /\ ~unsettled
       THEN /\ signals' = <<>>
            /\ work' = Answer(signals)
            /\ cleanup' = Answered(signals)
            /\ closing' = (closing \/ requested)
            /\ IF Unproved(signals)
               THEN /\ unsettled' = TRUE
                    /\ armed' = TRUE
                    /\ UNCHANGED <<durable, memory, recovery_requested>>
               ELSE \E o \in Outcomes \cup {"unreadable"} :
                      /\ recover_actor(o)
                      /\ armed' = (closing' \/ unsettled')
            /\ orphaned' = orphaned \cup Orphans
       ELSE /\ loop_top
            /\ UNCHANGED <<durable, memory, recovery_requested, unsettled, signals, work, cleanup, orphaned>>
    /\ late' = {}
    /\ UNCHANGED <<task, changed, handle, acked, crashes>>

loop_failure ==
    /\ pc = "failure"
    /\ pc' = "start"
    /\ unsettled' = (unsettled \/ failure)
    /\ UNCHANGED <<durable, memory, recovery_requested, closing, armed, signals, cleanup, tasks, handle,
                   history>>

(* Seeded fault: signals that are still buffered do not hold up the cleanup. *)
start_cleanup_eager ==
    cleanup' = IF closing /\ idle /\ cleanup = "none" THEN "running" ELSE cleanup

(* A closing session with nothing left to do starts its cleanup, once. *)
start_cleanup ==
    cleanup' = IF closing /\ idle /\ signals = <<>> /\ cleanup = "none"
               THEN "running" ELSE cleanup

(* An idle session takes its queue. *)
take_queue ==
    IF ~closing /\ ~Fenced /\ ~suspended /\ running = 0 /\ queued # {}
    THEN \E o \in Outcomes \cup {"invalid"} :
           /\ start_turn(o, queued, {})
           /\ unsettled' = (unsettled \/ o # "ok")
           /\ pc' = IF o = "ok" THEN "select" ELSE "recover"
    ELSE /\ pc' = "select"
         /\ UNCHANGED <<durable, memory, unsettled, task, work>>

(* An unproved recovery ends the loop; otherwise it goes on to wait. *)
loop_start ==
    /\ pc = "start"
    /\ IF Fenced /\ idle /\ unsettled
       THEN pc' = "done" /\ UNCHANGED <<durable, memory, unsettled, cleanup, task, work, late>>
       ELSE /\ start_cleanup /\ take_queue
            /\ late' = IF cleanup' = "none" THEN {} ELSE late
    /\ UNCHANGED <<recovery_requested, closing, armed, signals, changed, handle,
                   acked, orphaned, crashes>>

-----------------------------------------------------------------------------
(* What the loop waits for. *)

select == pc = "select" /\ pc' = "recover"

tasks_changed ==
    /\ select
    /\ changed
    /\ changed' = FALSE
    /\ UNCHANGED <<durable, memory, flags, signals, cleanup, task, work, handle, history>>

shutdown_cancelled ==
    /\ select
    /\ requested /\ ~closing
    /\ UNCHANGED <<durable, memory, flags, signals, cleanup, tasks, handle, history>>

deadline ==
    /\ pc = "select"
    /\ armed
    /\ unsettled' = TRUE
    /\ pc' = "done"
    /\ UNCHANGED <<durable, memory, recovery_requested, closing, armed, signals, cleanup, tasks, handle, history>>

cleanup_result ==
    /\ pc = "select"
    /\ cleanup \in {"ok", "err"}
    /\ unsettled' = (unsettled \/ cleanup = "err")
    /\ pc' = "done"
    /\ UNCHANGED <<durable, memory, recovery_requested, closing, armed, signals, cleanup, tasks, handle, history>>

(* dispatch_message.  A fenced or closing session refuses it; a running turn
   queues it; otherwise it opens a turn together with the suspended inputs.
   Its sender may try again after an error. *)
send_message(i) ==
    /\ select
    /\ ~closing /\ ~Fenced
    /\ i \notin Known(journal)
    /\ IF running # 0
       THEN \E o \in Outcomes :
              /\ emit_batch(o, MessageQueued(journal, i))
              /\ queued' = IF o = "ok" THEN queued \cup {i} ELSE queued
              /\ acked' = IF o = "ok" THEN acked \cup {i} ELSE acked
              /\ UNCHANGED <<running, next_turn, suspended, held, task, work>>
       ELSE \E o \in Outcomes :
              /\ o = "refused" /\ suspended => RetryOpening
              /\ start_turn(o, {i}, queued)
              /\ acked' = IF o = "ok" THEN acked \cup {i} ELSE acked
    /\ UNCHANGED <<flags, signals, cleanup, changed, handle, orphaned, late, crashes>>

(* Seeded fault: a failed commit is only reported to its sender. *)
signal_failed_ignored == UNCHANGED <<unsettled, recovery_requested>>

(* handle_turn_signal failed: a closing session gives up its proof, any other
   one raises the fence. *)
signal_failed ==
    IF closing THEN unsettled' = TRUE /\ UNCHANGED recovery_requested ELSE request_recovery

(* DurableEvent: the task, or the cleanup, learns the outcome first. *)
durable_event(o, s) ==
    /\ emit_batch(o, IF s[1] = "commit" THEN ConversationInputCommitted(journal, s[2]) ELSE journal)
    /\ work' = IF s[1] # "commit" THEN work
               ELSE IF o = "ok" THEN [work EXCEPT !.left = @ \ s[2], !.stage = "work"]
               ELSE [work EXCEPT !.stage = "stop"]
    /\ cleanup' = IF s[1] # "hook" THEN cleanup ELSE IF o = "ok" THEN "running" ELSE "err"
    /\ IF o = "ok" THEN UNCHANGED <<recovery_requested, unsettled>> ELSE signal_failed
    /\ UNCHANGED <<memory, task, orphaned>>

title_generated(o) ==
    /\ emit_batch(o, SessionTitleUpdated(journal))
    /\ IF o = "ok" THEN UNCHANGED <<recovery_requested, unsettled>> ELSE signal_failed
    /\ UNCHANGED <<memory, work, cleanup, task, orphaned>>

effects_unsettled(o) ==
    /\ emit_batch(o, journal)
    /\ unsettled' = TRUE
    /\ recovery_requested' = (recovery_requested \/ (o # "ok" /\ ~closing))
    /\ UNCHANGED <<memory, work, cleanup, task, orphaned>>

(* Complete: the turn is over in memory, then in the journal; a first
   completed turn gets the session a title. *)
complete(o, t, status) ==
    /\ running' = IF running = t THEN 0 ELSE running
    /\ UNCHANGED <<next_turn, queued, suspended, held, work, cleanup>>
    /\ IF running # t \/ unsettled
       THEN o = "ok" /\ UNCHANGED <<durable, recovery_requested, unsettled, task>>
       ELSE /\ emit_batch(o, TurnFinished(journal, t))
            /\ IF o = "ok" THEN UNCHANGED <<recovery_requested, unsettled>> ELSE signal_failed
            /\ task' = IF o = "ok" /\ status = "completed" /\ ~closing /\ ~journal.titled
                          /\ task["title"] = "none"
                       THEN [task EXCEPT !["title"] = "running"] ELSE task
    /\ orphaned' = orphaned \cup Orphans

handle_turn_signal ==
    /\ select
    /\ signals # <<>>
    /\ signals' = Tail(signals)
    /\ LET s == Head(signals)
       IN IF Fenced
          THEN /\ work' = Answer(<<s>>)
               /\ cleanup' = Answered(<<s>>)
               /\ unsettled' = (unsettled \/ Unproved(<<s>>))
               /\ UNCHANGED <<durable, memory, recovery_requested, task, orphaned>>
          ELSE \E o \in Outcomes :
                 CASE s[1] \in {"commit", "hook"} -> durable_event(o, s)
                   [] s[1] = "title" -> title_generated(o)
                   [] s[1] = "unsettled" -> effects_unsettled(o)
                   [] s[1] = "complete" -> complete(o, s[2], s[3])
    /\ UNCHANGED <<closing, armed, changed, handle, acked, late, crashes>>

(* After the loop the channels are closed and drained, and the result is
   published unless a caller's deadline was first.  The state is dropped, or
   kept without a reader. *)
actor_ends ==
    /\ pc = "done"
    /\ pc' = "ended"
    /\ unsettled' = (unsettled \/ Unproved(signals))
    /\ work' = Answer(signals)
    /\ signals' = <<>>
    /\ cleanup' = "none"
    /\ running' = 0 /\ next_turn' = 1 /\ queued' = {} /\ suspended' = FALSE /\ held' = {}
    /\ completion' = IF completion # "none" THEN completion ELSE IF unsettled' THEN "err" ELSE "ok"
    /\ closing' = TRUE /\ armed' = FALSE /\ changed' = FALSE
    /\ UNCHANGED <<durable, recovery_requested, task, requested, history>>

-----------------------------------------------------------------------------
(* The tasks: the turn commits the inputs it was given one by one and waits
   for each answer; it ends with Complete, and reports a panic or an
   unsettled provider before that. *)

Alive == pc \notin {"off", "ended"}
Send(s) == signals' = IF pc = "ended" THEN signals ELSE Append(signals, s)

turn_commits(i) ==
    /\ task["turn"] = "running" /\ work.stage = "work" /\ i \in work.left
    /\ Alive
    /\ Send(<<"commit", {i}>>)
    /\ work' = [work EXCEPT !.stage = "waiting"]
    /\ UNCHANGED <<durable, pc, memory, flags, cleanup, task, changed, handle, history>>

turn_unsettled ==
    /\ task["turn"] = "running" /\ work.stage \in {"work", "stop"}
    /\ Send(<<"unsettled">>)
    /\ work' = [work EXCEPT !.stage = "panicked"]
    /\ UNCHANGED <<durable, pc, memory, flags, cleanup, task, changed, handle, history>>

turn_completes ==
    /\ task["turn"] = "running" /\ work.stage \in {"work", "stop", "panicked"}
    /\ \E status \in {"completed", "failed"} :
         /\ status = "completed" => work.stage = "work" /\ work.left = {}
         /\ Send(<<"complete", work.turn, status>>)
    /\ work' = [work EXCEPT !.stage = "sent"]
    /\ UNCHANGED <<durable, pc, memory, flags, cleanup, task, changed, handle, history>>

turn_ends ==
    /\ task["turn"] = "running" /\ work.stage = "sent"
    /\ task_ends("turn")
    /\ UNCHANGED <<durable, pc, memory, flags, signals, cleanup, work, handle, acked, orphaned, crashes>>

title_ends ==
    /\ task["title"] = "running"
    /\ Send(<<"title">>)
    /\ task_ends("title")
    /\ UNCHANGED <<durable, pc, memory, flags, cleanup, work, handle, acked, orphaned, crashes>>

(* The cleanup settles every owner of effects (the journal among them: it
   fails when that is closed), may publish a failed SessionEnd hook through
   the loop, and ends with a result. *)
cleanup_publishes ==
    /\ cleanup = "running" /\ Alive
    /\ Send(<<"hook">>)
    /\ cleanup' = "waiting"
    /\ UNCHANGED <<durable, pc, memory, flags, tasks, handle, history>>

cleanup_ends ==
    /\ cleanup = "running"
    /\ cleanup' \in {"ok", "err"}
    /\ unsettled \/ sink = "closed" => cleanup' = "err"
    /\ UNCHANGED <<durable, pc, memory, flags, signals, tasks, handle, history>>

-----------------------------------------------------------------------------
(* The handle. *)

(* Every caller waits for the same result and for its own deadline, which
   publishes a failure unless there is a result. *)
close ==
    /\ ~requested /\ pc # "off"
    /\ requested' = TRUE
    /\ UNCHANGED <<durable, pc, memory, flags, signals, cleanup, tasks, completion, history>>

close_deadline ==
    /\ requested /\ completion = "none"
    /\ completion' = "err"
    /\ UNCHANGED <<durable, pc, memory, flags, signals, cleanup, tasks, requested, history>>

(* The process dies, or the session is over: the next start finds only the
   journal. *)
crash ==
    /\ pc # "off" /\ crashes < MaxCrashes
    /\ crashes' = crashes + 1
    /\ pc' = "off"
    /\ running' = 0 /\ next_turn' = 1 /\ queued' = {} /\ suspended' = FALSE /\ held' = {}
    /\ recovery_requested' = FALSE /\ unsettled' = FALSE /\ closing' = FALSE /\ armed' = FALSE
    /\ signals' = <<>> /\ cleanup' = "none"
    /\ task' = [t \in Tasks |-> "none"] /\ changed' = FALSE /\ work' = Idle
    /\ requested' = FALSE /\ completion' = "none"
    /\ late' = {}
    /\ UNCHANGED <<durable, acked, orphaned>>

-----------------------------------------------------------------------------
Startup == restart \/ startup_notices \/ startup_repair \/ startup_resume
Loop == loop_recover \/ loop_failure \/ loop_start
Select ==
    \/ tasks_changed \/ shutdown_cancelled \/ deadline \/ cleanup_result
    \/ handle_turn_signal \/ \E i \in Inputs : send_message(i)
Work ==
    \/ \E t \in Tasks : task_panics(t)
    \/ \E i \in Inputs : turn_commits(i)
    \/ turn_unsettled \/ turn_completes \/ turn_ends \/ title_ends
    \/ cleanup_publishes \/ cleanup_ends
Handle == close \/ close_deadline

Next == Startup \/ Loop \/ Select \/ actor_ends \/ Work \/ Handle \/ crash

(* The runtime keeps polling the actor, and an expired timer is not passed
   over for ever by `select!'.  Nothing is assumed of the tasks, of the
   cleanup, of the journal or of the callers of close. *)
Fairness == WF_vars(Startup \/ Loop \/ actor_ends) /\ SF_vars(deadline)

Spec == Init /\ [][Next]_vars /\ Fairness

-----------------------------------------------------------------------------
(* However the session was interrupted, repaired and closed, the journal
   starts a turn only when the last one is finished, finishes each turn at
   most once, and never reuses a number. *)
TurnsBracketed ==
    LET log == journal.log
    IN \A k \in DOMAIN log :
         /\ log[k][1] = IF k % 2 = 1 THEN "started" ELSE "finished"
         /\ k % 2 = 0 => log[k][2] = log[k - 1][2]
         /\ k > 1 /\ k % 2 = 1 => log[k][2] > log[k - 1][2]

(* While the actor takes work, its memory is what a restart would rebuild: the
   running turn is the open one, the queue is the journal's, and the inputs it
   still owes an answer are either suspended or with the turn that claims
   them. *)
MemoryFollowsJournal ==
    pc = "select" /\ ~Fenced /\ ~unsettled /\ sink = "open" =>
        /\ running = OpenTurn(journal)
        /\ next_turn >= NextTurn(journal)
        /\ queued = journal.queued
        /\ \A i \in Pending(journal) :
             IF journal.claim[i].ended THEN suspended /\ i \in held
             ELSE journal.claim[i].turn = running /\ i \in work.given

(* A message its sender was told is Started or Queued is never lost: it stays
   queued or pending in the journal until a turn commits it, and a turn that
   ends without committing it is one that was given it. *)
InputsSurvive == acked \subseteq Known(journal) /\ orphaned = {}

(* close returns Ok only when no task is still running, the journal took every
   event, every task proved its end and no turn is open.  The last two have one
   exception each, for a task that ended after the loop's last look at it and
   before the cleanup began: its failure, or the repair it was holding up, is
   not waited for. *)
CloseIsProof ==
    completion = "ok" /\ pc = "ended" =>
        /\ idle /\ sink = "open"
        /\ \A t \in Tasks : task[t] = "failed" => t \in late
        /\ OpenTurn(journal) # 0 =>
              late # {} /\ (recovery_requested \/ task["turn"] = "failed")

(* A session that is closing or fenced ends or gets out of it, although a
   task may never end, the cleanup may hang and the journal may be closed. *)
FenceEnds ==
    LET Stopping == closing \/ recovery_requested
    IN Stopping ~> (pc = "ended" \/ ~Stopping)
=============================================================================
