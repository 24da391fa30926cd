----------------------------- MODULE ToolBatch -----------------------------
(***************************************************************************)
(* One batch of tool calls of a turn (rw-core engine/turn):                *)
(*   - tool_scheduling.rs prepares the calls one at a time, launches them  *)
(*     inside a window, a mutation alone, and commits the results in the   *)
(*     order of the calls;                                                 *)
(*   - tool_requests.rs and dispatch/admission.rs obtain the approval, for *)
(*     a diff when the tool can show one;                                  *)
(*   - tool_execution.rs runs a prepared call on a task of its own;        *)
(*   - ordered_output.rs lets the calls stream output, the first           *)
(*     unfinished one at once and the later ones into bounded buffers;     *)
(*   - signals.rs is the session actor's side: what it commits for the     *)
(*     batch, and what it refuses.                                         *)
(*                                                                         *)
(* The scheduler polls the preparation only while it waits for something,  *)
(* so its steps are steps of the scheduler; tools run on other threads.    *)
(* Each emit of a tool is awaited, so a call has one chunk on its way.     *)
(* The notices that reach only the screen are left out.                    *)
(***************************************************************************)
EXTENDS Naturals, Sequences, FiniteSets, FiniteSetsExt

CONSTANTS
    Total,      \* number of calls in the batch
    Window,     \* MAX_TOOL_EXECUTION_WINDOW
    Permits,    \* MAX_IN_FLIGHT_TOOL_OUTPUT_CHUNKS
    MaxChunks,  \* bound on the chunks a call emits
    MaxUnproven,\* bound on the executions whose effects stay unproven
    Faults      \* subset of {"emit", "interrupt"}: what may go wrong

ASSUME BatchAssumption ==
    /\ Total \in Nat \ {0} /\ Window \in Nat \ {0}
    /\ Permits \in Nat \ {0, 1} /\ MaxChunks \in Nat
    /\ MaxUnproven \in Nat
    /\ Faults \subseteq {"emit", "interrupt"}

VARIABLES
    (* execute_tool_calls *)
    pc,          \* "loop", "admit", "readmit", "persist", "results", "returned"
    st,          \* where each call is: see Stages
    kind,        \* what its preparation made of it: see Kinds
    bad,         \* calls whose execution is unsettled
    mutation_running,
    failure,     \* failure is Some
    reply,       \* the answer to the request the scheduler awaits, or "none"
    (* prepare_tool_call *)
    phase,       \* of the one call being prepared: see Phases
    again,       \* it was rewritten by a hook and is authorized a second time
    diff,        \* the diff a call was authorized with: "none", "fresh", "stale"
    shown,       \* the diff the client was last shown for it
    ran,         \* what its execution did: "no", "ran", "refused" as stale
    (* OrderedOutputCoordinator *)
    emitting,    \* what each call's emit waits for: see Emits
    woken,       \* emits whose `advanced` has fired
    chunks,      \* chunks each call has emitted
    buffered,    \* chunks of later calls that wait for their turn
    (* the session actor *)
    signals,     \* the signal channel
    cancelled,   \* the turn's cancellation token
    unsettled,   \* state.unsettled is Some
    fenced,      \* state.recovery_requested
    transcript   \* what the journal holds of the batch

schedule == <<pc, st, kind, bad, mutation_running, failure, reply>>
approval == <<phase, again, diff, shown, ran>>
output == <<emitting, woken, chunks, buffered>>
actor == <<signals, cancelled, unsettled, fenced, transcript>>
vars == <<schedule, approval, output, actor>>

Calls == 0 .. Total - 1
Stages == {"unprepared", "preparing", "ready", "spawned", "begun", "work",
           "ended", "completed", "past"}
Kinds == {"none", "complete", "read", "mutate"}
Phases == {"none", "preview", "asking", "asked", "allowed", "denied", "hook"}
Emits == {"none", "background", "permit", "held", "have", "haveheld"}

-----------------------------------------------------------------------------
(* The scheduler's counters. *)

In(S) == {i \in Calls : st[i] \in S}
next == Cardinality(In({"past"}))
launched == Total - Cardinality(In({"unprepared", "preparing", "ready"}))
Front == launched
ReadyNonempty == In({"ready"}) # {}
Preparing == In({"preparing"})

Init ==
    /\ pc = "loop"
    /\ st = [i \in Calls |-> "unprepared"]
    /\ kind = [i \in Calls |-> "none"]
    /\ bad = {} /\ mutation_running = FALSE /\ failure = FALSE /\ reply = "none"
    /\ phase = "none" /\ again = FALSE
    /\ diff = [i \in Calls |-> "none"] /\ shown = [i \in Calls |-> "none"]
    /\ ran = [i \in Calls |-> "no"]
    /\ emitting = [i \in Calls |-> "none"] /\ woken = {}
    /\ chunks = [i \in Calls |-> 0] /\ buffered = [i \in Calls |-> 0]
    /\ signals = <<>> /\ cancelled = FALSE /\ unsettled = FALSE
    /\ fenced = FALSE /\ transcript = <<>>

-----------------------------------------------------------------------------
(* Ordered output. *)

(* Chunks that hold a permit, and the ones that hold a background permit. *)
PermitsUsed ==
    Cardinality({i \in Calls : emitting[i] \in {"have", "haveheld"}})
    + MapThenSumSet(LAMBDA i : buffered[i], Calls)
    + Cardinality({n \in DOMAIN signals : signals[n].t = "output"})
BackgroundUsed ==
    Cardinality({i \in Calls : emitting[i] \in {"held", "haveheld"}})
    + MapThenSumSet(LAMBDA i : buffered[i], Calls)

Output(i, n) == [k \in 1 .. n |-> [t |-> "output", i |-> i]]

(* One pass of the loop of emit up to its first wait. *)
Wait(i) == IF i > next THEN "background" ELSE "permit"

emit(i) ==
    /\ st[i] = "work" /\ emitting[i] = "none"
    /\ chunks[i] < MaxChunks
    /\ emitting' = [emitting EXCEPT ![i] = Wait(i)]
    /\ chunks' = [chunks EXCEPT ![i] = @ + 1]
    /\ UNCHANGED <<schedule, approval, woken, buffered, actor>>

(* `advanced` has fired: drop what was acquired and look again. *)
retry_emit(i) ==
    /\ i \in woken
    /\ woken' = woken \ {i}
    /\ emitting' = [emitting EXCEPT ![i] = Wait(i)]
    /\ UNCHANGED <<schedule, approval, chunks, buffered, actor>>

acquire(i) ==
    /\ i \notin woken
    /\ \/ /\ emitting[i] = "background" /\ BackgroundUsed < Permits - 1
          /\ emitting' = [emitting EXCEPT ![i] = "held"]
       \/ /\ emitting[i] \in {"permit", "held"} /\ PermitsUsed < Permits
          /\ emitting' = [emitting EXCEPT ![i] =
                             IF @ = "held" THEN "haveheld" ELSE "have"]
    /\ UNCHANGED <<schedule, approval, woken, chunks, buffered, actor>>

(* Under the lock: the current call's chunk is sent, a later one's kept. *)
deliver(i) ==
    /\ emitting[i] \in {"have", "haveheld"}
    /\ emitting' = [emitting EXCEPT ![i] = "none"]
    /\ woken' = woken \ {i}
    /\ IF i = next
       THEN /\ signals' = signals \o Output(i, 1)
            /\ UNCHANGED buffered
       ELSE /\ buffered' = [buffered EXCEPT ![i] = @ + 1]
            /\ UNCHANGED signals
    /\ UNCHANGED <<schedule, approval, chunks, cancelled, unsettled, fenced,
                   transcript>>

(* The new current call's chunks are sent, after `before`, and every emit  *)
(* that waits looks again.                                                 *)
Waiting == {i \in Calls : emitting[i] \in {"background", "permit", "held"}}

advance(n, before) ==
    /\ signals' = signals \o before
                  \o (IF n \in Calls THEN Output(n, buffered[n]) ELSE <<>>)
    /\ buffered' = [i \in Calls |-> IF i = n THEN 0 ELSE buffered[i]]
    /\ woken' = woken \cup Waiting
    /\ UNCHANGED emitting

-----------------------------------------------------------------------------
(* Preparing a call: authorization, the read-only pre-tool hooks, and a    *)
(* second authorization when a hook rewrote the invocation.                *)

(* Seeded fault: a mutation does not wait for the calls before it. *)
LaunchMutationEarly ==
    /\ ReadyNonempty /\ ~mutation_running
    /\ launched - next < Window

CanLaunch ==
    /\ ReadyNonempty /\ ~mutation_running
    /\ launched - next < Window
    /\ kind[Front] = "mutate" => launched = next

CanPrepare ==
    /\ Preparing = {} /\ ~mutation_running
    /\ launched + Cardinality(In({"ready"})) - next < Window
    /\ In({"unprepared"}) # {}

Selecting ==
    /\ pc = "loop" /\ ~CanLaunch /\ ~CanPrepare
    /\ next < Total /\ st[next] # "completed"

start_preparing ==
    /\ pc = "loop" /\ ~CanLaunch /\ CanPrepare
    /\ st' = [st EXCEPT ![Min(In({"unprepared"}))] = "preparing"]
    /\ phase' = "preview" /\ again' = FALSE
    /\ UNCHANGED <<pc, kind, bad, mutation_running, failure, reply, diff,
                   shown, ran, output, actor>>

(* The preparation of i ends and its result joins the ready calls. *)
Prepared(i, k) ==
    /\ st' = [st EXCEPT ![i] = "ready"]
    /\ kind' = [kind EXCEPT ![i] = k]
    /\ phase' = "none"
    /\ UNCHANGED <<pc, mutation_running, failure, reply, again, ran>>

(* Only a mutation has a diff to approve. *)
Executes(i, k) == k = "mutate" \/ diff'[i] = "none"

(* What an allowed authorization leads to: the hooks, or, the second time, *)
(* the result itself.                                                      *)
Authorized(i) ==
    IF again
    THEN \E k \in {"read", "mutate"} : Executes(i, k) /\ Prepared(i, k)
    ELSE /\ phase' = "hook"
         /\ UNCHANGED <<pc, st, kind, mutation_running, failure, reply, again, ran>>

(* authorize_tool_call: preview the diff, then a rule allows or denies the *)
(* call or its client is asked.  A call refused on the way is complete.    *)
authorize(i) ==
    /\ Selecting /\ st[i] = "preparing" /\ phase = "preview"
    /\ \E d \in {"none", "fresh"} :
          /\ diff' = [diff EXCEPT ![i] = d]
          /\ shown' = [shown EXCEPT ![i] = d]
    /\ \/ Prepared(i, "complete") /\ UNCHANGED signals
       \/ Authorized(i) /\ UNCHANGED signals
       \/ /\ phase' = "asking"
          /\ signals' = Append(signals, [t |-> "approval", i |-> i])
          /\ UNCHANGED <<pc, st, kind, mutation_running, failure, reply, again, ran>>
    /\ UNCHANGED <<bad, output, cancelled, unsettled, fenced, transcript>>

(* ChannelApprover::decide: cancellation denies. *)
decided(i) ==
    /\ Selecting /\ st[i] = "preparing"
    /\ UNCHANGED <<bad, diff, shown, output, actor>>
    /\ \/ phase = "allowed" /\ Authorized(i)
       \/ phase = "denied" /\ Prepared(i, "complete")
       \/ /\ phase \in {"asking", "asked", "allowed", "denied"} /\ cancelled
          /\ Prepared(i, "complete")

(* The pre-tool hooks reject the call, keep it or rewrite it; their own    *)
(* effects may stay unproven, reported at once or by the result alone.     *)
Unsettled == [t |-> "unsettled", i |-> Total]

Unproven(i) ==
    /\ Cardinality(bad) < MaxUnproven
    /\ bad' = bad \cup {i}
    /\ \/ signals' = Append(signals, Unsettled) /\ cancelled' = TRUE
       \/ UNCHANGED <<signals, cancelled>>

pre_tool(i) ==
    /\ Selecting /\ st[i] = "preparing" /\ phase = "hook"
    /\ UNCHANGED <<diff, shown, output, unsettled, fenced, transcript>>
    /\ \/ /\ Prepared(i, "complete")
          /\ UNCHANGED <<bad, signals, cancelled>>
       \/ Prepared(i, "complete") /\ Unproven(i)
       \/ /\ ~cancelled
          /\ \E k \in {"read", "mutate"} : Executes(i, k) /\ Prepared(i, k)
          /\ UNCHANGED <<bad, signals, cancelled>>
       \/ /\ ~cancelled /\ phase' = "preview" /\ again' = TRUE
          /\ UNCHANGED <<pc, st, kind, bad, mutation_running, failure, reply,
                         ran, signals, cancelled>>

-----------------------------------------------------------------------------
(* The client's answer, handled by the actor. *)

(* A diff that is no longer current is shown again instead of approved. *)
Stale(i) == shown[i] = "stale"

(* ApproveTool commits its resolution before it answers. *)
Resolves(answer) ==
    \/ phase' = answer /\ UNCHANGED <<cancelled, fenced>>
    \/ /\ "emit" \in Faults
       /\ phase' = "denied" /\ cancelled' = TRUE /\ fenced' = TRUE

approve(i) ==
    /\ st[i] = "preparing" /\ phase = "asked" /\ ~fenced
    /\ IF Stale(i)
       THEN /\ \/ (* refreshed; the approval stays pending *)
                  shown' = [shown EXCEPT ![i] = "fresh"] /\ UNCHANGED phase
               \/ (* no diff any more, or it cannot be committed *)
                  phase' = "denied" /\ UNCHANGED shown
            /\ UNCHANGED <<cancelled, fenced>>
       ELSE Resolves("allowed") /\ UNCHANGED shown
    /\ UNCHANGED <<schedule, again, diff, ran, output, signals, unsettled,
                   transcript>>

deny(i) ==
    /\ st[i] = "preparing" /\ phase = "asked" /\ ~fenced
    /\ Resolves("denied")
    /\ UNCHANGED <<schedule, again, diff, shown, ran, output, signals,
                   unsettled, transcript>>

interrupt ==
    /\ "interrupt" \in Faults /\ ~cancelled /\ pc # "returned"
    /\ cancelled' = TRUE
    /\ UNCHANGED <<schedule, approval, output, signals, unsettled, fenced,
                   transcript>>

-----------------------------------------------------------------------------
(* Executing a call: execute_prepared_tool. *)

launch ==
    LET i == Front IN
    /\ pc = "loop" /\ CanLaunch
    /\ IF kind[i] = "complete" \/ cancelled
       THEN /\ st' = [st EXCEPT ![i] = "completed"]
            /\ UNCHANGED mutation_running
       ELSE /\ st' = [st EXCEPT ![i] = "spawned"]
            /\ mutation_running' = (kind[i] = "mutate")
    /\ UNCHANGED <<pc, kind, bad, failure, reply, approval, output, actor>>

(* The task of call i is over: its result, or its loss when it panicked.   *)
(* An emit in progress is dropped with what it held.                       *)
Ended(i) ==
    /\ st' = [st EXCEPT ![i] = "ended"]
    /\ emitting' = [emitting EXCEPT ![i] = "none"]
    /\ woken' = woken \ {i}
    /\ UNCHANGED <<pc, kind, mutation_running, failure, reply, chunks, buffered>>

Settled == UNCHANGED <<bad, signals, cancelled>>
(* The checkpoint before a mutation opens, or the call ends here. *)
begin(i) ==
    /\ st[i] = "spawned"
    /\ \/ /\ st' = [st EXCEPT ![i] = "begun"]
          /\ Settled
          /\ UNCHANGED <<pc, kind, mutation_running, failure, reply, output>>
       \/ kind[i] = "mutate" /\ Ended(i) /\ (Settled \/ Unproven(i))
    /\ UNCHANGED <<approval, unsettled, fenced, transcript>>

(* Seeded fault: the approval is taken as given. *)
TrustsApproval(i) == i \in Calls

(* An approved diff must still be the current one. *)
Revalidates(i) == diff[i] # "stale"

revalidate(i) ==
    /\ st[i] = "begun"
    /\ IF ~Revalidates(i)
       THEN /\ ran' = [ran EXCEPT ![i] = "refused"]
            /\ Ended(i)
       ELSE IF cancelled
       THEN Ended(i) /\ UNCHANGED ran
       ELSE /\ st' = [st EXCEPT ![i] = "work"]
            /\ ran' = [ran EXCEPT ![i] = "ran"]
            /\ UNCHANGED <<pc, kind, mutation_running, failure, reply, output>>
    /\ Settled
    /\ UNCHANGED <<phase, again, diff, shown, unsettled, fenced, transcript>>

(* A mutation, or the workspace-mutating hook before it, changes the       *)
(* workspace: diffs of calls that have not run may be out of date now.     *)
mutate(i) ==
    /\ st[i] \in {"begun", "work"} /\ kind[i] = "mutate"
    /\ LET hit == {j \in (IF st[i] = "work" THEN Calls \ {i} ELSE Calls) :
                      st[j] \in {"preparing", "ready", "spawned", "begun", "work"}}
           After(d) == [j \in Calls |->
                           IF j \in hit /\ d[j] = "fresh" THEN "stale" ELSE d[j]] IN
       /\ diff' = After(diff)
       /\ shown' = After(shown)
    /\ UNCHANGED <<schedule, phase, again, ran, output, actor>>

end(i) ==
    /\ st[i] = "work"
    /\ emitting[i] = "none" \/ cancelled
    /\ Ended(i)
    /\ Settled \/ Unproven(i)
    /\ UNCHANGED <<approval, unsettled, fenced, transcript>>

-----------------------------------------------------------------------------
(* Collecting and committing the results, in the order of the calls. *)

collect(i) ==
    /\ Selecting /\ st[i] = "ended"
    /\ st' = [st EXCEPT ![i] = "completed"]
    /\ UNCHANGED <<pc, kind, bad, mutation_running, failure, reply, approval,
                   output, actor>>

(* The next call is done with: its execution is dropped, its output closed *)
(* and the following call's goes out after the signals in `before`.        *)
Pass(before) ==
    /\ st' = [st EXCEPT ![next] = "past"]
    /\ kind' = [kind EXCEPT ![next] = "none"]
    /\ diff' = [diff EXCEPT ![next] = "none"]
    /\ shown' = [shown EXCEPT ![next] = "none"]
    /\ ran' = [ran EXCEPT ![next] = "no"]
    /\ chunks' = [chunks EXCEPT ![next] = 0]
    /\ advance(next + 1, before)
    /\ pc' = "loop"
    /\ UNCHANGED <<bad, phase, again, unsettled, fenced, transcript>>

Committing ==
    /\ pc = "loop" /\ ~CanLaunch /\ ~CanPrepare
    /\ next < Total /\ st[next] = "completed"

(* Seeded fault: the mutation's end does not admit the calls behind it. *)
ClearedLate == mutation_running' = (mutation_running /\ next + 1 < Total)

Cleared == mutation_running' = (mutation_running /\ kind[next] # "mutate")

(* An execution that is not settled has no result to commit. *)
skip_unsettled ==
    /\ Committing /\ next \in bad
    /\ Pass(<<Unsettled>>)
    /\ Cleared
    /\ failure' = TRUE /\ cancelled' = TRUE
    /\ UNCHANGED reply

(* profiles.admit: the actor must still own the turn and be settled. *)
admit ==
    /\ Committing /\ next \notin bad
    /\ Cleared
    /\ pc' = "admit"
    /\ signals' = Append(signals, [t |-> "admit", i |-> next])
    /\ UNCHANGED <<st, kind, bad, failure, reply, approval, output, cancelled,
                   unsettled, fenced, transcript>>

Asks(from, to, signal) ==
    /\ pc = from
    /\ pc' = to /\ reply' = "none"
    /\ signals' = Append(signals, signal)
    /\ UNCHANGED <<st, kind, bad, mutation_running, failure, approval, output,
                   cancelled, unsettled, fenced, transcript>>

Finished(i) == [t |-> "finished", i |-> i]

(* A result that does not fit gives way to the reserved error. *)
admitted ==
    \/ reply = "ok" /\ (\E from \in {"admit", "readmit"} :
                           Asks(from, "persist", Finished(next)))
    \/ reply = "err" /\ Asks("admit", "readmit", [t |-> "admit", i |-> next])

refused ==
    /\ pc = "readmit" /\ reply = "err"
    /\ Pass(<<Unsettled>>)
    /\ reply' = "none" /\ failure' = TRUE /\ cancelled' = TRUE
    /\ UNCHANGED mutation_running

persisted ==
    /\ pc = "persist" /\ reply # "none"
    /\ Pass(<<>>)
    /\ reply' = "none"
    /\ failure' = (failure \/ reply = "err")
    /\ cancelled' = (cancelled \/ reply = "err")
    /\ UNCHANGED mutation_running

(* run_turn: the results of a whole batch are committed as one turn. *)
commit_results ==
    /\ next = Total /\ ~failure
    /\ Asks("loop", "results", [t |-> "results", i |-> Total])

batch_failed ==
    /\ \/ pc = "loop" /\ next = Total /\ failure
       \/ pc = "results" /\ reply = "err"
    /\ pc' = "returned" /\ reply' = "none"
    /\ signals' = Append(signals, Unsettled) /\ cancelled' = TRUE
    /\ UNCHANGED <<st, kind, bad, mutation_running, failure, approval, output,
                   unsettled, fenced, transcript>>

batch_ends ==
    /\ pc = "results" /\ reply = "ok"
    /\ pc' = "returned" /\ reply' = "none"
    /\ UNCHANGED <<st, kind, bad, mutation_running, failure, approval, output,
                   actor>>

-----------------------------------------------------------------------------
(* The actor serves the channel (handle_turn_signal); once it awaits       *)
(* recovery it only answers (reject_signal).                               *)

Rest == /\ signals' = Tail(signals)
        /\ UNCHANGED <<pc, st, kind, bad, mutation_running, failure, output>>
KeepApproval == UNCHANGED approval
Answer(r) == reply' = r /\ KeepApproval
Emitted(record) ==
    /\ transcript' = Append(transcript, record)
    /\ UNCHANGED <<cancelled, unsettled, fenced>>
(* A commit that fails raises the fence and cancels the turn. *)
Fence ==
    /\ "emit" \in Faults
    /\ fenced' = TRUE /\ cancelled' = TRUE
    /\ UNCHANGED <<unsettled, transcript>>
Quiet == UNCHANGED <<cancelled, unsettled, fenced, transcript>>

handle_output(s) ==
    s.t = "output" /\ UNCHANGED reply /\ KeepApproval /\ (Emitted(s) \/ Fence)

(* Seeded fault: a result is admitted although an earlier one is missing. *)
AdmitsUnsettled(s) ==
    /\ s.t = "admit"
    /\ Answer("ok") \/ (pc = "admit" /\ Answer("err"))
    /\ Quiet

(* validate: the admission is refused while effects are unproven; a body   *)
(* may also be too large.                                                  *)
handle_admit(s) ==
    /\ s.t = "admit"
    /\ IF unsettled THEN Answer("err")
       ELSE \/ Answer("ok")
            \/ pc = "admit" /\ Answer("err")
    /\ Quiet

handle_durable(s) ==
    /\ s.t \in {"finished", "results"}
    /\ \/ Answer("ok") /\ Emitted(s)
       \/ Answer("err") /\ Fence

handle_unsettled(s) ==
    /\ s.t = "unsettled"
    /\ unsettled' = TRUE /\ cancelled' = TRUE
    /\ \/ UNCHANGED <<fenced, transcript>>
       \/ "emit" \in Faults /\ fenced' = TRUE /\ UNCHANGED transcript
    /\ UNCHANGED reply /\ KeepApproval

handle_approval(s) ==
    /\ s.t = "approval"
    /\ phase' = IF phase = "asking" /\ st[s.i] = "preparing" THEN "asked" ELSE phase
    /\ UNCHANGED <<reply, again, diff, shown, ran>>
    /\ Quiet \/ Fence

reject_signal(s) ==
    /\ UNCHANGED reply \/ s.t \in {"admit", "finished", "results"}
    /\ s.t \in {"admit", "finished", "results"} => reply' = "err"
    /\ unsettled' = (unsettled \/ s.t = "unsettled")
    /\ KeepApproval
    /\ UNCHANGED <<cancelled, fenced, transcript>>

handle_turn_signal ==
    /\ signals # <<>>
    /\ LET s == Head(signals) IN
       IF fenced THEN reject_signal(s)
       ELSE \/ handle_output(s) \/ handle_admit(s) \/ handle_durable(s)
            \/ handle_unsettled(s) \/ handle_approval(s)
    /\ Rest

-----------------------------------------------------------------------------

Coordinator ==
    \/ launch \/ start_preparing
    \/ skip_unsettled \/ admit \/ admitted \/ refused \/ persisted
    \/ commit_results \/ batch_failed \/ batch_ends

Preparation(i) == authorize(i) \/ decided(i) \/ pre_tool(i)
Client(i) == approve(i) \/ deny(i)
Task(i) ==
    \/ begin(i) \/ revalidate(i) \/ end(i)
    \/ retry_emit(i) \/ acquire(i) \/ deliver(i)

(* The batch is over and its last signal is handled. *)
over == pc = "returned" /\ signals = <<>> /\ UNCHANGED vars

Next ==
    \/ Coordinator \/ handle_turn_signal \/ interrupt \/ over
    \/ \E i \in Calls : Preparation(i) \/ Client(i) \/ Task(i) \/ collect(i)
                        \/ emit(i) \/ mutate(i)

(* The runtime polls whatever is ready and the tools finish; nothing makes *)
(* the client answer, or a hook return.                                    *)
Fairness ==
    /\ WF_vars(Coordinator) /\ WF_vars(handle_turn_signal)
    /\ \A i \in Calls : WF_vars(Task(i)) /\ WF_vars(collect(i))

Spec == Init /\ [][Next]_vars /\ Fairness

-----------------------------------------------------------------------------
(* Properties. *)

Rank(s) == 2 * s.i + (IF s.t = "output" THEN 0 ELSE 1)
Finishes(s, i) == s.t = "finished" /\ s.i = i

(* The journal tells the batch in the order of the calls whatever order    *)
(* they ran in: a call's output comes before its result and after every    *)
(* earlier result, no result comes twice or without the ones of all the    *)
(* earlier calls, and the results are committed as a turn, once, only when *)
(* all are there (execute_tool_calls, OrderedOutputCoordinator::advance).  *)
TranscriptInOrder ==
    LET T == transcript
    IN \A n \in DOMAIN T :
          /\ \A m \in 1 .. n - 1 :
                /\ Rank(T[m]) <= Rank(T[n])
                /\ T[m].t # "output" => Rank(T[m]) < Rank(T[n])
          /\ T[n].t # "output" =>
                \A i \in Calls : i < T[n].i => \E m \in 1 .. n - 1 : Finishes(T[m], i)

(* A mutation that runs has the workspace to itself: no other tool of the  *)
(* batch has started and not ended (the launch rule of                     *)
(* execute_tool_calls).  Preparations are not covered: one under way when  *)
(* a mutation is launched goes on beside it.                               *)
MutationAlone ==
    \A i \in In({"begun", "work"}) :
        kind[i] = "mutate" => In({"begun", "work"}) = {i}

(* A tool approved for a diff never works on a workspace in which that     *)
(* diff is out of date, although its approval may have been given while an *)
(* earlier call was changing the workspace (the revalidation in            *)
(* execute_prepared_tool).                                                 *)
ApprovedDiffHolds == \A i \in In({"work"}) : diff[i] # "stale"

(* A call that is prepared gets its turn and its result, whatever the      *)
(* later calls wait for: an approval nobody answers, or room for output    *)
(* (the comment on execute_tool_calls; OrderedOutputCoordinator::emit).    *)
PreparedCallsFinish == \A i \in Calls : st[i] = "ready" ~> st[i] = "past"

(* A tool refuses an approved diff as stale only when the diff the client  *)
(* approved is out of date (dispatch/admission.rs asks for a fresh         *)
(* approval).                                                              *)
FreshApprovalRuns == \A i \in Calls : ran[i] = "refused" => shown[i] = "stale"
=============================================================================
