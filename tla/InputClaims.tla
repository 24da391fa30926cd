----------------------------- MODULE InputClaims -----------------------------
(***************************************************************************)
(* What the journal of a session says about its turns and its inputs: the  *)
(* fold of the durable prefix that recovery reads (rw-types               *)
(* input_claims.rs and rw-core recovery/reduce.rs), one operator for each  *)
(* event that moves it.  A journal is a record                             *)
(*   log     : the turns started and finished, in order                    *)
(*   claim   : InputClaimState.pending, one claim or NoClaim for an input  *)
(*   queued  : the messages queued and not yet accepted                    *)
(*   taken   : the inputs committed to the conversation                    *)
(*   dropped : the inputs a TurnFinished removed from `pending'            *)
(*   titled  : SessionTitleUpdated was committed                           *)
(***************************************************************************)
EXTENDS Naturals, Sequences, FiniteSets

CONSTANT Inputs     \* user messages, told apart by their content

NoClaim == [turn |-> 0, retained |-> FALSE, ended |-> FALSE]

EmptyJournal ==
    [log |-> <<>>, claim |-> [i \in Inputs |-> NoClaim], queued |-> {},
     taken |-> {}, dropped |-> {}, titled |-> FALSE]

(* accepted_messages of a recovery: every pending input. *)
Pending(j) == {i \in Inputs : j.claim[i] # NoClaim}

ClaimedBy(j, t) == {i \in Pending(j) : j.claim[i].turn = t}

(* InputClaimState.active and Control.active: the turn started last, unless it
   is finished. *)
OpenTurn(j) ==
    IF j.log # <<>> /\ j.log[Len(j.log)][1] = "started" THEN j.log[Len(j.log)][2] ELSE 0

(* Control.next_turn *)
NextTurn(j) == IF j.log = <<>> THEN 1 ELSE j.log[Len(j.log)][2] + 1

Known(j) == Pending(j) \cup j.queued \cup j.taken \cup j.dropped

(* A retained input belongs to the next turn that starts. *)
TurnStarted(j, t) ==
    [j EXCEPT !.log = Append(@, <<"started", t>>),
              !.claim = [i \in Inputs |->
                           IF @[i].retained THEN [turn |-> t, retained |-> FALSE, ended |-> FALSE]
                           ELSE @[i]]]

MessageQueued(j, i) == [j EXCEPT !.queued = @ \cup {i}]

UserMessageAccepted(j, t, S) ==
    [j EXCEPT !.queued = @ \ S,
              !.claim = [i \in Inputs |->
                           IF i \in S THEN [turn |-> t, retained |-> FALSE, ended |-> FALSE]
                           ELSE @[i]]]

UserMessageRetained(j, S) ==
    [j EXCEPT !.claim = [i \in Inputs |-> IF i \in S THEN [@[i] EXCEPT !.retained = TRUE] ELSE @[i]]]

ConversationInputCommitted(j, S) ==
    [j EXCEPT !.taken = @ \cup S,
              !.claim = [i \in Inputs |-> IF i \in S THEN NoClaim ELSE @[i]]]

(* The inputs of a finished turn that were not retained are pending no more. *)
TurnFinished(j, t) ==
    LET lost == {i \in ClaimedBy(j, t) : ~j.claim[i].retained}
    IN [j EXCEPT !.log = Append(@, <<"finished", t>>),
                 !.dropped = @ \cup lost,
                 !.claim = [i \in Inputs |->
                              IF i \in lost THEN NoClaim
                              ELSE IF @[i].turn = t /\ @[i] # NoClaim THEN [@[i] EXCEPT !.ended = TRUE]
                              ELSE @[i]]]

SessionTitleUpdated(j) == [j EXCEPT !.titled = TRUE]
=============================================================================
