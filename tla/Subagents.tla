----------------------------- MODULE Subagents -----------------------------
(***************************************************************************)
(* The children of one parent session (rw-core/src/orchestration): the     *)
(* FIFO of running slots, the owner task of every startup, child turns,    *)
(* follow-ups, closing, the parent's shutdown, and the recovery of the     *)
(* children from their private records and the parent's journal when the   *)
(* process comes back (rw-runtime, subagent_recovery.rs).                  *)
(*                                                                         *)
(* A child is named by a member of Children; a child that left no trace    *)
(* may be submitted again, as another child.  Only children of depth one   *)
(* are modelled.                                                           *)
(***************************************************************************)
EXTENDS Naturals, Sequences, FiniteSets, SequencesExt

CONSTANTS
    Children,   \* child identities
    Isolated,   \* the children that own a worktree
    Slots,      \* limits.max_concurrency
    MaxTurns,   \* bound: turns of one child
    MaxFaults,  \* bound: failing calls to the disk, the journal and the child
    MaxCrashes  \* bound: process deaths

ASSUME SubagentsAssumption ==
    /\ IsFiniteSet(Children)
    /\ Isolated \subseteq Children
    /\ Slots \in Nat \ {0}
    /\ MaxTurns \in Nat
    /\ MaxFaults \in Nat
    /\ MaxCrashes \in Nat

VARIABLES
    child,      \* per child: startup owner, turn task, table row, last result
    permit,     \* children that hold a running slot
    line,       \* children waiting for a running slot, oldest first
    admission,  \* children that hold a startup admission
    queue,      \* the queue's entries
    caller,     \* startups whose caller still waits for the reply
    cancelled,  \* children whose current token is cancelled
    unproven,   \* startups whose cleanup failed
    actor,      \* children with a live session in this process
    meta,       \* durable: phase of the private recovery record
    log,        \* durable: the parent's lifecycle events of each child
    tree,       \* durable: worktrees on disk
    sink,       \* the parent's journal: open, or closed by a failed commit
    phase,      \* the process: down, loading, up, or refused to load
    ending,     \* the parent's cleanup
    faults,
    crashes

slotVars == <<permit, line>>
callVars == <<queue, caller, admission, unproven>>
diskVars == <<meta, log, tree>>
runVars  == <<phase, ending, crashes>>
vars == <<child, slotVars, callVars, cancelled, actor, diskVars, sink,
          runVars, faults>>

Startup == {"create", "pending", "spawn", "activate", "reply", "unclaimed",
            "abandon", "undo_bare", "undo_session", "undo_record",
            "undo_finish", "undo_remove"}
Owner == Startup \cup {"idle", "queued", "fail_spawn", "fail_finish", "leave"}
Turn  == {"none", "commit", "waiting", "running", "finish", "ok", "err"}
Table == {"none", "active", "inactive", "closing", "finalized"}

Absent == [owner |-> "idle", pub |-> "unattempted", turn |-> "none",
           table |-> "none", result |-> "ok", close |-> "none"]
NotEnding == [stage |-> "no", failed |-> FALSE, left |-> {}, awaited |-> {}]

Init ==
    /\ child = [c \in Children |-> Absent]
    /\ permit = {} /\ line = << >> /\ admission = {}
    /\ queue = {} /\ caller = {} /\ cancelled = {} /\ unproven = {}
    /\ actor = {}
    /\ meta = [c \in Children |-> "none"]
    /\ log = [c \in Children |-> << >>]
    /\ tree = {}
    /\ sink = "open" /\ phase = "up" /\ ending = NotEnding
    /\ faults = 0 /\ crashes = 0

(***************************************************************************)
(* The outside world: every call may fail, with or without its effect.     *)
(***************************************************************************)
Fault == faults < MaxFaults /\ faults' = faults + 1

Logged(c, e) == log' = [log EXCEPT ![c] = Append(@, e)]

\* A lifecycle event is acknowledged once the parent's journal committed it.
Committed(c, e) == sink = "open" /\ Logged(c, e) /\ UNCHANGED <<sink, faults>>

\* A commit that failed may have reached the disk; the sink then stays closed.
CommitFailed(c, e) ==
    \/ sink = "closed" /\ UNCHANGED <<log, sink, faults>>
    \/ sink = "open" /\ Fault /\ sink' = "closed" /\ (Logged(c, e) \/ UNCHANGED log)

Recorded(c, p) == meta' = [meta EXCEPT ![c] = p]
Saved(c, p) == Recorded(c, p) /\ UNCHANGED faults
SaveFailed(c, p) == Fault /\ (Recorded(c, p) \/ UNCHANGED meta)

\* SubagentSession::close stops the actor and then removes the worktree.
SessionClosed(c) ==
    actor' = actor \ {c} /\ tree' = tree \ {c} /\ UNCHANGED faults
CloseFailed(c) == Fault /\ actor' \in {actor, actor \ {c}} /\ UNCHANGED tree

(***************************************************************************)
(* Running slots: a tokio semaphore, which hands a freed permit to the     *)
(* oldest waiter, so a free permit means that nobody waits.                *)
(***************************************************************************)
SlotFree == Cardinality(permit) < Slots
AdmissionFree == Cardinality(admission) < Slots

\* Seeded fault: a freed slot is not handed to the waiters.
release_unheard(c) ==
    /\ permit' = permit \ {c}
    /\ line' = RemoveFirst(line, c)

\* Dropping a permit, or a future that waits for one.
release(c) ==
    IF c \in permit /\ line # << >>
    THEN permit' = (permit \ {c}) \cup {Head(line)} /\ line' = Tail(line)
    ELSE /\ permit' = permit \ {c}
         /\ line' = RemoveFirst(line, c)

acquire(c) ==
    /\ c \notin permit
    /\ \A i \in 1..Len(line) : line[i] # c
    /\ IF SlotFree
       THEN permit' = permit \cup {c} /\ UNCHANGED line
       ELSE line' = Append(line, c) /\ UNCHANGED permit

(***************************************************************************)
(* Submitting: a free slot starts the child at once, otherwise it queues.  *)
(***************************************************************************)
Up == phase = "up"
Serving == Up /\ ending.stage = "no"
Traceless(c) ==
    /\ child[c] = Absent /\ meta[c] = "none" /\ log[c] = << >>
    /\ c \notin tree \cup actor \cup unproven \cup queue \cup admission

submit(c) ==
    /\ Serving /\ Traceless(c)
    /\ IF SlotFree /\ AdmissionFree
       THEN /\ permit' = permit \cup {c}
            /\ admission' = admission \cup {c}
            /\ caller' = caller \cup {c}
            /\ child' = [child EXCEPT ![c].owner = "create"]
            /\ UNCHANGED queue
       ELSE /\ queue' = queue \cup {c}
            /\ child' = [child EXCEPT ![c].owner = "queued"]
            /\ UNCHANGED <<permit, admission, caller>>
    /\ cancelled' = cancelled \ {c}
    /\ UNCHANGED <<line, unproven, actor, diskVars, sink, runVars, faults>>

acquire_slots(c) ==
    /\ Up /\ child[c].owner = "queued"
    /\ \/ /\ acquire(c)
          /\ UNCHANGED <<child, callVars>>
       \/ /\ c \in permit /\ AdmissionFree
          /\ admission' = admission \cup {c}
          /\ caller' = caller \cup {c}
          /\ child' = [child EXCEPT ![c].owner = "create"]
          /\ UNCHANGED <<slotVars, queue, unproven>>
       \/ /\ c \in cancelled
          /\ release(c)
          /\ child' = [child EXCEPT ![c].owner = "leave"]
          /\ UNCHANGED callVars
    /\ UNCHANGED <<cancelled, actor, diskVars, sink, runVars, faults>>

\* The tool call that waits for a direct startup is dropped.
drop_caller(c) ==
    /\ Up /\ c \in caller \ queue
    /\ caller' = caller \ {c}
    /\ cancelled' = cancelled \cup {c}
    /\ UNCHANGED <<child, slotVars, queue, admission, unproven, actor, diskVars,
                   sink, runVars, faults>>

(***************************************************************************)
(* start_owned: create, record as Pending, publish the spawn, record as    *)
(* Active, enter the table and run.                                        *)
(***************************************************************************)
\* Owners that leave the startup: a queued child's entry outlives it.
After(c, unpublished) ==
    IF c \notin queue THEN "idle"
    ELSE IF unpublished THEN "fail_spawn" ELSE "leave"

\* own_startup, settlement Ok: the child and its admission are dropped.
settled(c, next) ==
    /\ release(c)
    /\ admission' = admission \ {c}
    /\ caller' = caller \ {c}
    /\ child' = [child EXCEPT ![c].owner = next, ![c].pub = "unattempted"]
    /\ UNCHANGED <<queue, unproven>>

\* own_startup, settlement Err: the child keeps its slot and its admission.
left_unproven(c, next) ==
    /\ unproven' = unproven \cup {c}
    /\ caller' = caller \ {c}
    /\ child' = [child EXCEPT ![c].owner = next, ![c].pub = "unattempted"]
    /\ UNCHANGED <<slotVars, queue, admission>>

\* Factory::create, and the check of the token that follows it.
create(c) ==
    /\ Up /\ child[c].owner = "create"
    /\ \/ /\ actor' = actor \cup {c}
          /\ tree' = tree \cup ({c} \cap Isolated)
          /\ child' = [child EXCEPT ![c].owner =
                         IF c \in cancelled THEN "undo_bare" ELSE "pending"]
          /\ UNCHANGED <<slotVars, callVars, faults>>
       \/ Fault /\ settled(c, After(c, TRUE)) /\ UNCHANGED <<actor, tree>>
       \/ /\ Fault /\ left_unproven(c, After(c, TRUE))
          /\ actor' \in {actor, actor \cup {c}} /\ UNCHANGED tree
    /\ UNCHANGED <<cancelled, meta, log, sink, runVars>>

\* Seeded fault: the first record is written as if the spawn were published.
save_pending_early(c) ==
    /\ Up /\ child[c].owner = "pending"
    /\ \/ Saved(c, "active") /\ child' = [child EXCEPT ![c].owner = "spawn"]
       \/ SaveFailed(c, "active") /\ child' = [child EXCEPT ![c].owner = "undo_session"]
    /\ UNCHANGED <<slotVars, callVars, cancelled, actor, log, tree, sink, runVars>>

save_pending(c) ==
    /\ Up /\ child[c].owner = "pending"
    /\ \/ Saved(c, "pending") /\ child' = [child EXCEPT ![c].owner = "spawn"]
       \/ SaveFailed(c, "pending") /\ child' = [child EXCEPT ![c].owner = "undo_session"]
    /\ UNCHANGED <<slotVars, callVars, cancelled, actor, log, tree, sink, runVars>>

spawned(c) ==
    /\ Up /\ child[c].owner = "spawn"
    /\ \/ /\ Committed(c, "spawned")
          /\ child' = [child EXCEPT ![c].owner = "activate", ![c].pub = "acknowledged"]
       \/ /\ CommitFailed(c, "spawned")
          /\ child' = [child EXCEPT ![c].owner = "undo_session", ![c].pub = "uncertain"]
    /\ UNCHANGED <<slotVars, callVars, cancelled, actor, meta, tree, runVars>>

save_active(c) ==
    /\ Up /\ child[c].owner = "activate"
    /\ \/ /\ Saved(c, "active")
          /\ child' = [child EXCEPT ![c].owner = "reply", ![c].pub = "unattempted",
                         ![c].table = "active", ![c].turn = "running",
                         ![c].result = "pending"]
       \/ SaveFailed(c, "active") /\ child' = [child EXCEPT ![c].owner = "undo_session"]
    /\ UNCHANGED <<slotVars, callVars, cancelled, actor, log, tree, sink, runVars>>

\* The reply is claimed by the caller, or the child is nobody's.
reply(c) ==
    /\ Up /\ child[c].owner = "reply"
    /\ IF c \in caller
       THEN /\ child' = [child EXCEPT ![c].owner = After(c, FALSE)]
            /\ admission' = admission \ {c}
            /\ caller' = caller \ {c}
            /\ UNCHANGED cancelled
       ELSE /\ child' = [child EXCEPT ![c].owner = "unclaimed"]
            /\ cancelled' = cancelled \cup {c}
            /\ UNCHANGED <<admission, caller>>
    /\ UNCHANGED <<slotVars, queue, unproven, actor, diskVars, sink, runVars, faults>>

\* The owner of an unclaimed child waits for its turn and closes it.
unclaimed(c) ==
    /\ Up /\ child[c].owner = "unclaimed"
    /\ child[c].result # "pending" /\ child[c].table = "inactive"
    /\ child' = [child EXCEPT ![c].owner = "abandon", ![c].table = "closing",
                              ![c].close = "session"]
    /\ UNCHANGED <<slotVars, callVars, cancelled, actor, diskVars, sink, runVars, faults>>

(***************************************************************************)
(* ChildStartup::cleanup and publish_start_failure.                        *)
(***************************************************************************)
undo_session(c) ==
    /\ Up /\ child[c].owner \in {"undo_bare", "undo_session"}
    /\ \/ /\ SessionClosed(c)
          /\ IF child[c].owner = "undo_bare"
             THEN settled(c, After(c, TRUE))
             ELSE /\ child' = [child EXCEPT ![c].owner = "undo_record"]
                  /\ UNCHANGED <<slotVars, callVars>>
       \/ CloseFailed(c) /\ left_unproven(c, After(c, child[c].pub = "unattempted"))
    /\ UNCHANGED <<cancelled, meta, log, sink, runVars>>

\* Seeded fault: a child nobody heard of keeps its record.
undo_record_kept(c) ==
    /\ Up /\ child[c].owner = "undo_record"
    /\ UNCHANGED <<meta, faults>>
    /\ settled(c, After(c, child[c].pub = "unattempted"))
    /\ UNCHANGED <<cancelled, actor, log, tree, sink, runVars>>

undo_record(c) ==
    LET kept == IF child[c].pub = "unattempted" THEN "none" ELSE "closed" IN
    /\ Up /\ child[c].owner = "undo_record"
    /\ \/ /\ Saved(c, kept)
          /\ IF child[c].pub = "acknowledged"
             THEN /\ child' = [child EXCEPT ![c].owner = "undo_finish"]
                  /\ UNCHANGED <<slotVars, callVars>>
             ELSE settled(c, After(c, child[c].pub = "unattempted"))
       \/ SaveFailed(c, kept) /\ left_unproven(c, After(c, child[c].pub = "unattempted"))
    /\ UNCHANGED <<cancelled, actor, log, tree, sink, runVars>>

\* Seeded fault: a startup that failed after its spawn ends without a result.
undo_finish_silent(c) ==
    /\ Up /\ child[c].owner = "undo_finish"
    /\ child' = [child EXCEPT ![c].owner = "undo_remove"]
    /\ UNCHANGED <<slotVars, callVars, cancelled, actor, diskVars, sink, runVars, faults>>

undo_finish(c) ==
    /\ Up /\ child[c].owner = "undo_finish"
    /\ \/ /\ Committed(c, "finished")
          /\ child' = [child EXCEPT ![c].owner = "undo_remove"]
          /\ UNCHANGED <<slotVars, callVars>>
       \/ CommitFailed(c, "finished") /\ left_unproven(c, After(c, FALSE))
    /\ UNCHANGED <<cancelled, actor, meta, tree, runVars>>

undo_remove(c) ==
    /\ Up /\ child[c].owner = "undo_remove"
    /\ \/ Saved(c, "none") /\ settled(c, After(c, FALSE))
       \/ SaveFailed(c, "none") /\ left_unproven(c, After(c, FALSE))
    /\ UNCHANGED <<cancelled, actor, log, tree, sink, runVars>>

\* A parent that was told its child is queued learns that it never started.
publish_start_failure(c) ==
    /\ Up
    /\ \/ /\ child[c].owner = "fail_spawn"
          /\ \/ /\ Committed(c, "spawned")
                /\ child' = [child EXCEPT ![c].owner = "fail_finish"]
             \/ /\ CommitFailed(c, "spawned")
                /\ child' = [child EXCEPT ![c].owner = "leave"]
       \/ /\ child[c].owner = "fail_finish"
          /\ Committed(c, "finished") \/ CommitFailed(c, "finished")
          /\ child' = [child EXCEPT ![c].owner = "leave"]
    /\ UNCHANGED <<slotVars, callVars, cancelled, actor, meta, tree, runVars>>

leave_queue(c) ==
    /\ Up /\ child[c].owner = "leave"
    /\ queue' = queue \ {c}
    /\ child' = [child EXCEPT ![c].owner = "idle"]
    /\ UNCHANGED <<slotVars, caller, admission, unproven, cancelled, actor,
                   diskVars, sink, runVars, faults>>

(***************************************************************************)
(* A child's turn task (spawn_turn) and follow-ups (continue_child).       *)
(***************************************************************************)
Turns(c) == Len(SelectSeq(log[c], LAMBDA e : e = "spawned"))

\* A follow-up is sent to a child whose start the parent was told of.
continue_child(c) ==
    /\ Serving /\ child[c].owner \in {"idle", "leave"} /\ child[c].table = "inactive"
    /\ Turns(c) < MaxTurns
    /\ permit' = IF SlotFree THEN permit \cup {c} ELSE permit
    /\ child' = [child EXCEPT ![c].table = "active", ![c].turn = "commit",
                              ![c].result = "pending"]
    /\ cancelled' = cancelled \ {c}
    /\ UNCHANGED <<line, callVars, actor, diskVars, sink, runVars, faults>>

continued(c) ==
    /\ Up /\ child[c].turn = "commit"
    /\ \/ /\ Committed(c, "spawned")
          /\ child' = [child EXCEPT ![c].turn =
                         IF c \in permit THEN "running" ELSE "waiting"]
          /\ actor' = IF c \in permit THEN actor \cup {c} ELSE actor
          /\ UNCHANGED slotVars
       \/ /\ CommitFailed(c, "spawned")
          /\ release(c)
          /\ child' = [child EXCEPT ![c].turn = "none", ![c].table = "inactive",
                                    ![c].result = "err"]
          /\ UNCHANGED actor
    /\ UNCHANGED <<callVars, cancelled, meta, tree, runVars>>

\* The call is dropped while its spawn commits, and its result channel with it:
\* no turn will run, and nothing resets the table row.
drop_continue(c) ==
    /\ Up /\ child[c].turn = "commit"
    /\ sink = "open" /\ (Logged(c, "spawned") \/ UNCHANGED log)
    /\ release(c)
    /\ child' = [child EXCEPT ![c].turn = "none", ![c].result = "dropped"]
    /\ UNCHANGED <<callVars, cancelled, actor, meta, tree, sink, runVars, faults>>

await_slot(c) ==
    /\ Up /\ child[c].turn = "waiting"
    /\ \/ acquire(c) /\ UNCHANGED <<child, actor>>
       \/ /\ c \in permit
          /\ child' = [child EXCEPT ![c].turn = "running"]
          /\ actor' = actor \cup {c}
          /\ UNCHANGED slotVars
       \/ /\ c \in cancelled
          /\ release(c)
          /\ child' = [child EXCEPT ![c].turn = "finish"]
          /\ UNCHANGED actor
    /\ UNCHANGED <<callVars, cancelled, diskVars, sink, runVars, faults>>

\* The turn ends by itself, by its deadline or by cancellation.
run_turn(c) ==
    /\ Up /\ child[c].turn = "running"
    /\ child' = [child EXCEPT ![c].turn = "finish"]
    /\ UNCHANGED <<slotVars, callVars, cancelled, actor, diskVars, sink, runVars, faults>>

finished(c) ==
    /\ Up /\ child[c].turn = "finish"
    /\ \/ Committed(c, "finished") /\ child' = [child EXCEPT ![c].turn = "ok"]
       \/ CommitFailed(c, "finished") /\ child' = [child EXCEPT ![c].turn = "err"]
    /\ UNCHANGED <<slotVars, callVars, cancelled, actor, meta, tree, runVars>>

settle_turn(c) ==
    /\ Up /\ child[c].turn \in {"ok", "err"}
    /\ child' = [child EXCEPT ![c].turn = "none", ![c].result = child[c].turn,
                   ![c].table = IF @ = "none" THEN @ ELSE "inactive"]
    /\ release(c)
    /\ UNCHANGED <<callVars, cancelled, actor, diskVars, sink, runVars, faults>>

cancel(c) ==
    /\ Up /\ c \notin cancelled /\ (c \in queue \/ child[c].table # "none")
    /\ cancelled' = cancelled \cup {c}
    /\ UNCHANGED <<child, slotVars, callVars, actor, diskVars, sink, runVars, faults>>

(***************************************************************************)
(* Closing a child: its session and worktree, its record, its table row.   *)
(***************************************************************************)
close(c) ==
    /\ Serving /\ c \notin queue /\ child[c].owner = "idle" /\ child[c].close = "none"
    /\ \/ /\ child[c].table = "inactive"
          /\ child' = [child EXCEPT ![c].table = "closing", ![c].close = "session"]
       \/ /\ child[c].table = "finalized"
          /\ child' = [child EXCEPT ![c].close = "record"]
    /\ UNCHANGED <<slotVars, callVars, cancelled, actor, diskVars, sink, runVars, faults>>

\* An error ends the call; the owner of an unclaimed child gives up with it.
CloseGivesUp(c) ==
    /\ IF child[c].owner = "abandon"
       THEN /\ unproven' = unproven \cup {c}
            /\ caller' = caller \ {c}
            /\ child' = [child EXCEPT ![c].close = "none", ![c].owner = "idle"]
       ELSE child' = [child EXCEPT ![c].close = "none"] /\ UNCHANGED <<unproven, caller>>
    /\ UNCHANGED <<queue, admission>>

close_session(c) ==
    /\ Up /\ child[c].close = "session"
    /\ \/ /\ SessionClosed(c)
          /\ child' = [child EXCEPT ![c].table = "finalized", ![c].close = "record"]
          /\ UNCHANGED callVars
       \/ CloseFailed(c) /\ CloseGivesUp(c)
    /\ UNCHANGED <<slotVars, cancelled, meta, log, sink, runVars>>

remove_record(c) ==
    /\ Up /\ child[c].close = "record"
    /\ \/ /\ Saved(c, "none")
          /\ child' = [child EXCEPT ![c].table = "none", ![c].close = "none",
                                    ![c].owner = IF @ = "abandon" THEN "idle" ELSE @]
          /\ admission' = IF child[c].owner = "abandon" THEN admission \ {c} ELSE admission
          /\ caller' = caller \ {c}
          /\ UNCHANGED <<queue, unproven>>
       \/ SaveFailed(c, "none") /\ CloseGivesUp(c)
    /\ UNCHANGED <<slotVars, cancelled, actor, log, tree, sink, runVars>>

(***************************************************************************)
(* The parent's cleanup: end_session settles startups, drains the queue    *)
(* and suspends the children; settle_effects proves the startups again.    *)
(***************************************************************************)
Starting == {c \in Children : child[c].owner \in Startup}

\* The cleanup begins when the parent's own calls have returned or are dropped.
end_session ==
    /\ Serving
    /\ caller \subseteq queue
    /\ \A c \in Children : child[c].turn # "commit" /\ child[c].close = "none"
    /\ ending' = [ending EXCEPT !.stage = "settle"]
    /\ UNCHANGED <<child, slotVars, callVars, cancelled, actor, diskVars, sink,
                   phase, crashes, faults>>

\* Startups::settle: an unproven startup is an error at once, else wait for all.
settle_startups ==
    /\ Up /\ ending.stage = "settle"
    /\ unproven # {} \/ Starting = {}
    /\ ending' = [ending EXCEPT !.stage = "drain", !.failed = @ \/ unproven # {}]
    /\ UNCHANGED <<child, slotVars, callVars, cancelled, actor, diskVars, sink,
                   phase, crashes, faults>>

drain_queue ==
    /\ Up /\ ending.stage = "drain"
    /\ IF queue # {}
       THEN /\ ~ queue \subseteq cancelled
            /\ cancelled' = cancelled \cup queue
            /\ UNCHANGED ending
       ELSE LET held == {c \in Children : child[c].table # "none"} IN
            /\ cancelled' = cancelled \cup held
            /\ ending' = [ending EXCEPT !.stage = "suspend", !.left = held,
                            !.awaited = {c \in held : child[c].table = "active"}]
    /\ UNCHANGED <<child, slotVars, callVars, actor, diskVars, sink, phase, crashes, faults>>

\* Each child is awaited if it ran, suspended, and forgotten if both went well.
suspend_child(c) ==
    /\ Up /\ ending.stage = "suspend" /\ c \in ending.left
    /\ LET done == c \notin ending.awaited \/ child[c].result = "ok" IN
       \/ /\ c \in ending.awaited => child[c].result # "pending"
          /\ actor' = actor \ {c}
          /\ child' = [child EXCEPT ![c].table = IF done THEN "none" ELSE @]
          /\ ending' = [ending EXCEPT !.left = @ \ {c}, !.failed = @ \/ ~ done]
          /\ UNCHANGED faults
       \/ /\ Fault
          /\ actor' \in {actor, actor \ {c}}
          /\ ending' = [ending EXCEPT !.left = @ \ {c}, !.failed = TRUE]
          /\ UNCHANGED child
    /\ UNCHANGED <<slotVars, callVars, cancelled, diskVars, sink, phase, crashes>>

suspended ==
    /\ Up /\ ending.stage = "suspend" /\ ending.left = {}
    /\ ending' = [ending EXCEPT !.stage = "prove"]
    /\ UNCHANGED <<child, slotVars, callVars, cancelled, actor, diskVars, sink,
                   phase, crashes, faults>>

Verdict(failed) == [ending EXCEPT !.stage = IF failed THEN "failed" ELSE "ok"]

\* Seeded fault: the cleanup trusts the first settlement of the startups.
settle_effects_once ==
    /\ Up /\ ending.stage = "prove"
    /\ ending' = Verdict(ending.failed)
    /\ UNCHANGED <<child, slotVars, callVars, cancelled, actor, diskVars, sink,
                   phase, crashes, faults>>

settle_effects ==
    /\ Up /\ ending.stage = "prove"
    /\ unproven # {} \/ Starting = {}
    /\ ending' = Verdict(ending.failed \/ unproven # {})
    /\ UNCHANGED <<child, slotVars, callVars, cancelled, actor, diskVars, sink,
                   phase, crashes, faults>>

(***************************************************************************)
(* The process dies, and comes back: the parent's journal is repaired and  *)
(* every record is matched with it.                                        *)
(***************************************************************************)
crash ==
    /\ crashes < MaxCrashes /\ crashes' = crashes + 1
    /\ phase \in {"up", "load"} /\ phase' = "down"
    /\ child' = [c \in Children |-> Absent]
    /\ permit' = {} /\ line' = << >> /\ admission' = {}
    /\ queue' = {} /\ caller' = {} /\ cancelled' = {} /\ unproven' = {}
    /\ actor' = {} /\ sink' = "open" /\ ending' = NotEnding
    /\ UNCHANGED <<diskVars, faults>>

Open(c) == log[c] # << >> /\ log[c][Len(log[c])] = "spawned"

repair_incomplete_subagent_lifecycles ==
    /\ phase = "down" /\ phase' = "load"
    /\ log' = [c \in Children |-> IF Open(c) THEN Append(log[c], "finished") ELSE log[c]]
    /\ UNCHANGED <<child, slotVars, callVars, cancelled, actor, meta, tree, sink,
                   ending, crashes, faults>>

refuse == phase' = "refused" /\ UNCHANGED <<child, meta, tree>>

\* A record without a spawn in the journal is dropped with its worktree, if it
\* never got past Pending.
discard_rewound_subagent_record(c) ==
    /\ meta[c] \in {"pending", "active"} /\ log[c] = << >>
    /\ IF meta[c] = "active" THEN refuse
       ELSE /\ Recorded(c, "none")
            /\ tree' = tree \ {c}
            /\ UNCHANGED <<phase, child>>

\* A published child is rebound to its worktree, promoted, and listed as idle.
recover_record(c) ==
    /\ meta[c] \in {"pending", "active"} /\ log[c] # << >>
    /\ IF c \in Isolated /\ c \notin tree THEN refuse
       ELSE /\ Recorded(c, "active")
            /\ child' = [child EXCEPT ![c].table = "inactive"]
            /\ UNCHANGED <<phase, tree>>

recover_subagent_tree(c) ==
    /\ phase = "load" /\ child[c].table = "none"
    /\ \/ meta[c] = "closed" /\ Recorded(c, "none") /\ UNCHANGED <<phase, child, tree>>
       \/ discard_rewound_subagent_record(c)
       \/ recover_record(c)
    /\ UNCHANGED <<slotVars, callVars, cancelled, actor, log, sink, ending, crashes, faults>>

recovered ==
    /\ phase = "load"
    /\ \A c \in Children : meta[c] # "none" => child[c].table # "none"
    /\ phase' = "up"
    /\ UNCHANGED <<child, slotVars, callVars, cancelled, actor, diskVars, sink,
                   ending, crashes, faults>>

-----------------------------------------------------------------------------
OwnerStep(c) ==
    \/ acquire_slots(c) \/ create(c) \/ save_pending(c) \/ spawned(c)
    \/ save_active(c) \/ reply(c) \/ unclaimed(c) \/ undo_session(c)
    \/ undo_record(c) \/ undo_finish(c) \/ undo_remove(c)
    \/ publish_start_failure(c) \/ leave_queue(c)
TurnStep(c) ==
    continued(c) \/ await_slot(c) \/ run_turn(c) \/ finished(c) \/ settle_turn(c)
CloseStep(c) == close_session(c) \/ remove_record(c)
ParentStep(c) ==
    \/ submit(c) \/ continue_child(c) \/ cancel(c) \/ close(c)
    \/ drop_caller(c) \/ drop_continue(c)
EndStep ==
    \/ settle_startups \/ drain_queue \/ suspended \/ settle_effects
    \/ \E c \in Children : suspend_child(c)
LoadStep ==
    \/ repair_incomplete_subagent_lifecycles \/ recovered
    \/ \E c \in Children : recover_subagent_tree(c)

Next ==
    \/ \E c \in Children :
         OwnerStep(c) \/ TurnStep(c) \/ CloseStep(c) \/ ParentStep(c)
    \/ end_session \/ EndStep \/ crash \/ LoadStep

\* Tasks and the restarted process run; nothing is asked of the parent.
Fairness ==
    /\ \A c \in Children :
         WF_vars(OwnerStep(c)) /\ WF_vars(TurnStep(c)) /\ WF_vars(CloseStep(c))
    /\ WF_vars(EndStep) /\ WF_vars(LoadStep)

Spec == Init /\ [][Next]_vars /\ Fairness

-----------------------------------------------------------------------------
\* The journal tells a child's runs apart: spawned and finished alternate, and
\* a child whose startup is over and for which no turn task runs has finished,
\* however its startup, its turns, its cleanup or the process ended.  Exempt are
\* every child once the parent's journal has failed, a child whose startup could
\* not be undone (reported as unproven), and a child whose follow-up call was
\* dropped while its spawn committed (lifecycle.rs:515): the last stays spawned,
\* without a turn, its row Active, until the process restarts.
LifecyclesBracketed ==
    \A c \in Children :
        /\ \A i \in 1..Len(log[c]) : (log[c][i] = "spawned") = (i % 2 = 1)
        /\ Up /\ child[c].owner = "idle" /\ child[c].turn = "none"
           /\ sink = "open" /\ c \notin unproven /\ child[c].result # "dropped"
           => ~ Open(c)

\* A cleanup that reports success left nothing behind: no child session, no
\* turn, no startup and no queued child that could still start.
EndIsProof ==
    ending.stage = "ok" =>
        /\ actor = {} /\ queue = {} /\ Starting = {} /\ permit = {}
        /\ \A c \in Children : child[c].turn = "none"

\* The private records follow the children: one the parent can still message
\* has a record from which a restart finds it, and a record a restart would
\* revive belongs to a child that is in the table, starting or unproven.
RecordsMatchChildren ==
    Up => \A c \in Children :
        /\ child[c].table \in {"active", "inactive", "closing"} =>
             meta[c] = "active" /\ log[c] # << >>
        /\ ending.stage = "no" /\ meta[c] \in {"pending", "active"} =>
             child[c].table # "none" \/ child[c].owner # "idle" \/ c \in unproven

\* Killed at any point, the session can be resumed: no combination of record,
\* journal and worktree left behind makes the recovery of the children fail.
ResumeLoads == phase # "refused"

\* A queued child leaves the queue, unless an unproven startup holds its slot,
\* and the parent's cleanup comes to a verdict.
QueueAndCleanupEnd ==
    /\ \A c \in Children : c \in queue ~> (c \notin queue \/ unproven # {})
    /\ ending.stage = "settle" ~> ending.stage \in {"no", "ok", "failed"}
=============================================================================
