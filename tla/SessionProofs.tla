---------------------------- MODULE SessionProofs ----------------------------
(***************************************************************************)
(* Proofs about SessionActor, for every set of inputs and every number of  *)
(* turns, faults and restarts.                                             *)
(*                                                                         *)
(* The inductive invariant has three layers.  IInv holds of every          *)
(* behaviour: what the journal says (Good), and how the loop's phases, the *)
(* running turn, its task and the buffered signals agree with it.  IMem    *)
(* adds what the actor's memory knows of pending inputs, and IClose what a *)
(* cleanup and the end of the loop have proved.  Each of the two latter    *)
(* needs one of the environments that the module's constants leave out,    *)
(* and says so as a hypothesis.                                            *)
(***************************************************************************)
EXTENDS SessionActor, SequenceTheorems, TLAPS

-----------------------------------------------------------------------------
(* The journal: its records, and what holds of every journal the actor      *)
(* writes.                                                                   *)

Claim == [turn : Nat, retained : BOOLEAN, ended : BOOLEAN]
Entry == {"started", "finished"} \X (Nat \ {0})
Journal ==
    [log : Seq(Entry), claim : [Inputs -> Claim], queued : SUBSET Inputs,
     taken : SUBSET Inputs, dropped : SUBSET Inputs, titled : BOOLEAN]

Brackets(log) ==
    \A k \in 1..Len(log) :
        /\ log[k][1] = IF k % 2 = 1 THEN "started" ELSE "finished"
        /\ k % 2 = 0 => log[k][2] = log[k - 1][2]
        /\ k > 1 /\ k % 2 = 1 => log[k][2] > log[k - 1][2]

(* A claim that is retained is one of a turn that has ended, and any other
   claim belongs to the open turn. *)
ClaimsInv(j) ==
    \A i \in Inputs :
        /\ j.claim[i].retained <=> j.claim[i].ended
        /\ j.claim[i].turn = 0 => ~j.claim[i].ended
        /\ j.claim[i].turn # 0 /\ ~j.claim[i].ended => j.claim[i].turn = OpenTurn(j)

Good(j) == j \in Journal /\ Brackets(j.log) /\ ClaimsInv(j)

(* A claim is pending exactly when it names a turn. *)
LEMMA PendingFacts ==
    ASSUME NEW j \in Journal, ClaimsInv(j)
    PROVE  /\ Pending(j) \subseteq Inputs
           /\ \A i \in Inputs : i \in Pending(j) <=> j.claim[i].turn # 0
<1>1. Pending(j) \subseteq Inputs
    BY DEF Pending
<1>2. ASSUME NEW i \in Inputs
      PROVE  i \in Pending(j) <=> j.claim[i].turn # 0
  <2>1. j.claim[i] \in Claim
      BY DEF Journal
  <2>2. /\ j.claim[i].retained <=> j.claim[i].ended
        /\ j.claim[i].turn = 0 => ~j.claim[i].ended
      BY DEF ClaimsInv
  <2>3. j.claim[i].turn = 0 => j.claim[i].retained = FALSE /\ j.claim[i].ended = FALSE
      BY <2>1, <2>2 DEF Claim
  <2>4. j.claim[i] = [turn |-> j.claim[i].turn, retained |-> j.claim[i].retained,
                      ended |-> j.claim[i].ended]
      BY <2>1 DEF Claim
  <2>5. j.claim[i].turn = 0 => j.claim[i] = NoClaim
    <3>1. SUFFICES ASSUME j.claim[i].turn = 0
                   PROVE  j.claim[i] = NoClaim
        OBVIOUS
    <3> QED
        BY <2>3, <2>4, <3>1, Zenon DEF NoClaim
  <2>6. NoClaim.turn = 0
      BY DEF NoClaim
  <2> QED
      BY <2>5, <2>6, Zenon DEF Pending
<1> QED
    BY <1>1, <1>2

(* Odd and even. *)
LEMMA Parity ==
    ASSUME NEW n \in Nat
    PROVE  /\ n % 2 = 0 \/ n % 2 = 1
           /\ n % 2 = 0 => (n + 1) % 2 = 1
           /\ n % 2 = 1 => (n + 1) % 2 = 0
           /\ n % 2 = 0 /\ n # 0 => n > 1
           /\ n = 0 => n % 2 = 0
OBVIOUS

(* The last entry says which turn is open and which comes next. *)
LEMMA OpenFacts ==
    ASSUME NEW j \in Journal, Brackets(j.log)
    PROVE  /\ OpenTurn(j) \in Nat
           /\ NextTurn(j) \in Nat \ {0}
           /\ OpenTurn(j) # 0 => NextTurn(j) = OpenTurn(j) + 1
           /\ OpenTurn(j) = 0 <=> Len(j.log) % 2 = 0
           /\ OpenTurn(j) # 0 => j.log[Len(j.log)][2] = OpenTurn(j)
           /\ j.log # <<>> => NextTurn(j) = j.log[Len(j.log)][2] + 1
<1> DEFINE n == Len(j.log)
<1>1. /\ j.log \in Seq(Entry)
      /\ n \in Nat
      /\ j.log = <<>> <=> n = 0
    BY DEF Journal
<1>0. n = Len(j.log) /\ (n = 0 => n % 2 = 0)
    BY <1>1, Parity
<1> HIDE DEF n
<1>2. CASE n = 0
    BY <1>0, <1>1, <1>2 DEF OpenTurn, NextTurn
<1>3. CASE n # 0
  <2>1. j.log[n] \in Entry
      BY <1>0, <1>1, <1>3
  <2>2. /\ j.log[n][1] = (IF n % 2 = 1 THEN "started" ELSE "finished")
        /\ j.log[n][2] \in Nat \ {0}
    <3>1. n \in 1..n
        BY <1>1, <1>3
    <3>2. j.log[n][1] = (IF n % 2 = 1 THEN "started" ELSE "finished")
        BY <1>0, <3>1 DEF Brackets
    <3> QED
        BY <2>1, <3>2 DEF Entry
  <2>3. n % 2 = 1 \/ n % 2 = 0
      BY <1>1, Parity
  <2>4. /\ OpenTurn(j) = IF n % 2 = 1 THEN j.log[n][2] ELSE 0
        /\ NextTurn(j) = j.log[n][2] + 1
    <3>1. j.log # <<>>
        BY <1>1, <1>3
    <3>2. "started" # "finished"
        OBVIOUS
    <3> QED
        BY <1>0, <2>2, <2>3, <3>1, <3>2, Zenon DEF OpenTurn, NextTurn
  <2>5. PICK m \in Nat \ {0} : j.log[n][2] = m
      BY <2>2
  <2>6. NextTurn(j) = m + 1 /\ NextTurn(j) \in Nat \ {0}
      BY <2>4, <2>5
  <2>7. CASE n % 2 = 1
    <3>1. OpenTurn(j) = m /\ ~(n % 2 = 0)
        BY <2>4, <2>5, <2>7
    <3>2. OpenTurn(j) \in Nat /\ OpenTurn(j) # 0 /\ NextTurn(j) = OpenTurn(j) + 1
        BY <2>6, <3>1
    <3> QED
        BY <1>0, <2>4, <2>5, <2>6, <3>1, <3>2, Zenon
  <2>8. CASE n % 2 = 0
    <3>1. OpenTurn(j) = 0 /\ 0 \in Nat
        BY <2>4, <2>8
    <3> QED
        BY <1>0, <2>4, <2>5, <2>6, <2>8, <3>1, Zenon
  <2> QED
      BY <2>3, <2>7, <2>8
<1> QED
    BY <1>2, <1>3

(* An entry appended to a bracketed log. *)
LEMMA AppendLemma ==
    ASSUME NEW j \in Journal, Brackets(j.log), NEW t \in Nat \ {0}, NEW kind \in {"started", "finished"},
           \/ kind = "started" /\ OpenTurn(j) = 0 /\ t >= NextTurn(j)
           \/ kind = "finished" /\ OpenTurn(j) = t
    PROVE  /\ Append(j.log, <<kind, t>>) \in Seq(Entry)
           /\ Brackets(Append(j.log, <<kind, t>>))
           /\ Append(j.log, <<kind, t>>) # <<>>
           /\ Append(j.log, <<kind, t>>)[Len(Append(j.log, <<kind, t>>))] = <<kind, t>>
<1> DEFINE n == Len(j.log)
           a == Append(j.log, <<kind, t>>)
<1>1. /\ j.log \in Seq(Entry)
      /\ n \in Nat
      /\ j.log = <<>> <=> n = 0
      /\ <<kind, t>> \in Entry
    BY DEF Journal, Entry
<1>0. n = Len(j.log)
    OBVIOUS
<1>2. /\ a \in Seq(Entry) /\ Len(a) = n + 1 /\ a[n + 1] = <<kind, t>>
      /\ \A k \in 1..n : a[k] = j.log[k]
    BY <1>1
<1>3. /\ OpenTurn(j) = 0 <=> n % 2 = 0
      /\ OpenTurn(j) # 0 => j.log[n][2] = OpenTurn(j)
      /\ n # 0 => NextTurn(j) = j.log[n][2] + 1
    BY <1>1, OpenFacts
<1>5. a = Append(j.log, <<kind, t>>)
    OBVIOUS
<1> HIDE DEF n, a
<1>4. ASSUME NEW k \in 1..Len(a)
      PROVE  /\ a[k][1] = IF k % 2 = 1 THEN "started" ELSE "finished"
             /\ k % 2 = 0 => a[k][2] = a[k - 1][2]
             /\ k > 1 /\ k % 2 = 1 => a[k][2] > a[k - 1][2]
  <2>1. CASE k <= n
    <3>1. k \in 1..n /\ a[k] = j.log[k] /\ (k > 1 => a[k - 1] = j.log[k - 1])
        BY <1>1, <1>2, <2>1
    <3>2. k % 2 = 0 => k > 1
        BY <3>1, Parity
    <3> QED
        BY <1>0, <3>1, <3>2 DEF Brackets
  <2>2. CASE k = n + 1
    <3>1. a[k][1] = kind /\ a[k][2] = t /\ (n # 0 => a[k - 1] = j.log[n])
        BY <1>1, <1>2, <2>2
    <3>2. n # 0 => j.log[n][2] \in Nat
      <4>1. n # 0 => j.log[n] \in Entry
          BY <1>0, <1>1
      <4> QED
          BY <4>1 DEF Entry
    <3>3. CASE kind = "started"
      <4>1. n % 2 = 0 /\ k % 2 = 1
          BY <1>1, <1>3, <2>2, <3>3, Parity
      <4> QED
          BY <1>1, <1>3, <2>2, <3>1, <3>2, <3>3, <4>1
    <3>4. CASE kind = "finished"
      <4>1. n % 2 # 0 /\ k % 2 = 0 /\ n # 0
          BY <1>1, <1>3, <2>2, <3>4, Parity
      <4> QED
          BY <1>1, <1>3, <2>2, <3>1, <3>2, <3>4, <4>1
    <3> QED
        BY <3>3, <3>4
  <2> QED
      BY <1>1, <1>2, <2>1, <2>2
<1>6. Brackets(a)
    BY <1>4 DEF Brackets
<1>7. a # <<>>
    BY <1>1, <1>2
<1> QED
    BY <1>1, <1>2, <1>5, <1>6, <1>7

(* A journal with a new claim map. *)
LEMMA ClaimFields ==
    ASSUME NEW j \in Journal, NEW i \in Inputs
    PROVE  /\ j.claim[i] \in Claim
           /\ j.claim[i].turn \in Nat
           /\ j.claim[i].retained \in BOOLEAN
           /\ j.claim[i].ended \in BOOLEAN
<1>1. j.claim[i] \in Claim
    BY DEF Journal
<1> QED
    BY <1>1 DEF Claim

(* TurnStarted: no claim was left with another turn, so every pending input is
   the new turn's. *)
LEMMA StartedLemma ==
    ASSUME NEW j, Good(j), NEW t \in Nat, OpenTurn(j) = 0, t >= NextTurn(j)
    PROVE  /\ Good(TurnStarted(j, t))
           /\ OpenTurn(TurnStarted(j, t)) = t
           /\ NextTurn(TurnStarted(j, t)) = t + 1
           /\ TurnStarted(j, t).queued = j.queued
           /\ TurnStarted(j, t).taken = j.taken
           /\ TurnStarted(j, t).dropped = j.dropped
           /\ Pending(TurnStarted(j, t)) = Pending(j)
           /\ \A i \in Pending(j) : ~TurnStarted(j, t).claim[i].ended
<1> DEFINE n == TurnStarted(j, t)
           fresh == [turn |-> t, retained |-> FALSE, ended |-> FALSE]
<1>1. j \in Journal /\ Brackets(j.log) /\ ClaimsInv(j)
    BY DEF Good
<1>2. t \in Nat \ {0}
  <2>1. NextTurn(j) \in Nat \ {0}
      BY <1>1, OpenFacts
  <2> QED
      BY <2>1
<1>3. /\ n.log = Append(j.log, <<"started", t>>)
      /\ n.claim = [i \in Inputs |-> IF j.claim[i].retained THEN fresh ELSE j.claim[i]]
      /\ n.queued = j.queued /\ n.taken = j.taken /\ n.dropped = j.dropped /\ n.titled = j.titled
  <2>1. j = [log |-> j.log, claim |-> j.claim, queued |-> j.queued, taken |-> j.taken,
             dropped |-> j.dropped, titled |-> j.titled]
      BY <1>1 DEF Journal
  <2>2. DOMAIN j = {"log", "claim", "queued", "taken", "dropped", "titled"}
      BY <1>1 DEF Journal
  <2>3. n.log = Append(j.log, <<"started", t>>)
      BY <2>1, <2>2 DEF TurnStarted
  <2>4. n.claim = [i \in Inputs |-> IF j.claim[i].retained THEN fresh ELSE j.claim[i]]
      BY <2>1, <2>2 DEF TurnStarted
  <2>5. n.queued = j.queued /\ n.taken = j.taken /\ n.dropped = j.dropped /\ n.titled = j.titled
      BY <2>1, <2>2 DEF TurnStarted
  <2> HIDE DEF n
  <2> QED
      BY <2>3, <2>4, <2>5
<1>4. /\ n.log \in Seq(Entry) /\ Brackets(n.log) /\ n.log # <<>>
      /\ n.log[Len(n.log)] = <<"started", t>>
  <2>1. n.log = Append(j.log, <<"started", t>>)
      BY <1>3
  <2> HIDE DEF n
  <2> QED
      BY <1>1, <1>2, <2>1, AppendLemma
<1>5. fresh \in Claim /\ fresh.turn = t /\ ~fresh.retained /\ ~fresh.ended
    BY <1>2 DEF Claim
<1>6. \A i \in Inputs : n.claim[i] = IF j.claim[i].retained THEN fresh ELSE j.claim[i]
    BY <1>3
<1>7. n \in Journal
  <2>1. n.claim \in [Inputs -> Claim]
    <3>1. \A i \in Inputs : (IF j.claim[i].retained THEN fresh ELSE j.claim[i]) \in Claim
        BY <1>1, <1>5, ClaimFields
    <3> HIDE DEF n, fresh
    <3> QED
        BY <1>3, <3>1
  <2> DEFINE x == Append(j.log, <<"started", t>>)
             c == [i \in Inputs |-> IF j.claim[i].retained THEN fresh ELSE j.claim[i]]
  <2>2. n = [j EXCEPT !.log = x, !.claim = c]
      BY DEF TurnStarted
  <2>3. x \in Seq(Entry) /\ c \in [Inputs -> Claim]
      BY <1>1, <1>3, <1>4, <2>1 DEF Journal
  <2> HIDE DEF n, x, c
  <2> QED
      BY <1>1, <2>2, <2>3 DEF Journal
<1>8. OpenTurn(n) = t /\ NextTurn(n) = t + 1
  <2> HIDE DEF n
  <2> QED
      BY <1>4 DEF OpenTurn, NextTurn
<1> HIDE DEF n, fresh
<1>9. ASSUME NEW i \in Inputs
      PROVE  /\ n.claim[i].turn # 0 <=> j.claim[i].turn # 0
             /\ ~n.claim[i].retained /\ ~n.claim[i].ended
             /\ n.claim[i].turn # 0 => n.claim[i].turn = t
  <2>1. /\ j.claim[i].retained <=> j.claim[i].ended
        /\ j.claim[i].turn = 0 => ~j.claim[i].ended
        /\ j.claim[i].turn # 0 /\ ~j.claim[i].ended => j.claim[i].turn = 0
      BY <1>1 DEF ClaimsInv
  <2>2. CASE j.claim[i].retained
      BY <1>2, <1>5, <1>6, <2>1, <2>2
  <2>3. CASE ~j.claim[i].retained
      BY <1>6, <2>1, <2>3
  <2> QED
      BY <2>2, <2>3
<1>10. ClaimsInv(n)
    BY <1>8, <1>9 DEF ClaimsInv
<1>11. Pending(n) = Pending(j)
    BY <1>1, <1>7, <1>9, <1>10, PendingFacts
<1>12. \A i \in Pending(j) : ~n.claim[i].ended
    BY <1>1, <1>9, PendingFacts
<1> QED
    BY <1>3, <1>4, <1>7, <1>8, <1>10, <1>11, <1>12 DEF Good, n

(* UserMessageAccepted into the open turn. *)
LEMMA AcceptedLemma ==
    ASSUME NEW j, Good(j), NEW t, OpenTurn(j) = t, t # 0, NEW S \in SUBSET Inputs
    PROVE  /\ Good(UserMessageAccepted(j, t, S))
           /\ OpenTurn(UserMessageAccepted(j, t, S)) = t
           /\ NextTurn(UserMessageAccepted(j, t, S)) = NextTurn(j)
           /\ UserMessageAccepted(j, t, S).queued = j.queued \ S
           /\ UserMessageAccepted(j, t, S).taken = j.taken
           /\ UserMessageAccepted(j, t, S).dropped = j.dropped
           /\ Pending(UserMessageAccepted(j, t, S)) = Pending(j) \cup S
           /\ \A i \in Inputs : UserMessageAccepted(j, t, S).claim[i].ended => i \notin S /\ j.claim[i].ended
<1> DEFINE n == UserMessageAccepted(j, t, S)
           fresh == [turn |-> t, retained |-> FALSE, ended |-> FALSE]
<1>1. j \in Journal /\ Brackets(j.log) /\ ClaimsInv(j)
    BY DEF Good
<1>2. t \in Nat \ {0}
    BY <1>1, OpenFacts
<1>3. /\ n.log = j.log
      /\ n.claim = [i \in Inputs |-> IF i \in S THEN fresh ELSE j.claim[i]]
      /\ n.queued = j.queued \ S /\ n.taken = j.taken /\ n.dropped = j.dropped /\ n.titled = j.titled
  <2>1. j = [log |-> j.log, claim |-> j.claim, queued |-> j.queued, taken |-> j.taken,
             dropped |-> j.dropped, titled |-> j.titled]
      BY <1>1 DEF Journal
  <2>2. DOMAIN j = {"log", "claim", "queued", "taken", "dropped", "titled"}
      BY <1>1 DEF Journal
  <2>3. n.log = j.log
      BY <2>1, <2>2 DEF UserMessageAccepted
  <2>4. n.claim = [i \in Inputs |-> IF i \in S THEN fresh ELSE j.claim[i]]
      BY <2>1, <2>2 DEF UserMessageAccepted
  <2>5. n.queued = j.queued \ S /\ n.taken = j.taken /\ n.dropped = j.dropped /\ n.titled = j.titled
      BY <2>1, <2>2 DEF UserMessageAccepted
  <2> HIDE DEF n
  <2> QED
      BY <2>3, <2>4, <2>5
<1>5. fresh \in Claim /\ fresh.turn = t /\ ~fresh.retained /\ ~fresh.ended
    BY <1>2 DEF Claim
<1>6. \A i \in Inputs : n.claim[i] = IF i \in S THEN fresh ELSE j.claim[i]
    BY <1>3
<1>7. n \in Journal
  <2>1. n.claim \in [Inputs -> Claim]
    <3>1. \A i \in Inputs : (IF i \in S THEN fresh ELSE j.claim[i]) \in Claim
        BY <1>1, <1>5, ClaimFields
    <3> HIDE DEF n, fresh
    <3> QED
        BY <1>3, <3>1
  <2> DEFINE x == j.queued \ S
             c == [i \in Inputs |-> IF i \in S THEN fresh ELSE j.claim[i]]
  <2>2. n = [j EXCEPT !.queued = x, !.claim = c]
      BY DEF UserMessageAccepted
  <2>3. x \in SUBSET Inputs /\ c \in [Inputs -> Claim]
      BY <1>1, <1>3, <2>1 DEF Journal
  <2> HIDE DEF n, x, c
  <2> QED
      BY <1>1, <2>2, <2>3 DEF Journal
<1> HIDE DEF n, fresh
<1>8. OpenTurn(n) = t /\ NextTurn(n) = NextTurn(j)
    BY <1>3 DEF OpenTurn, NextTurn
<1>9. ASSUME NEW i \in Inputs
      PROVE  /\ n.claim[i].turn # 0 <=> (i \in S \/ j.claim[i].turn # 0)
             /\ n.claim[i].retained <=> n.claim[i].ended
             /\ n.claim[i].turn = 0 => ~n.claim[i].ended
             /\ n.claim[i].turn # 0 /\ ~n.claim[i].ended => n.claim[i].turn = t
             /\ n.claim[i].ended => i \notin S /\ j.claim[i].ended
  <2>1. /\ j.claim[i].retained <=> j.claim[i].ended
        /\ j.claim[i].turn = 0 => ~j.claim[i].ended
        /\ j.claim[i].turn # 0 /\ ~j.claim[i].ended => j.claim[i].turn = t
      BY <1>1 DEF ClaimsInv
  <2>2. CASE i \in S
      BY <1>2, <1>5, <1>6, <2>1, <2>2
  <2>3. CASE i \notin S
      BY <1>6, <2>1, <2>3
  <2> QED
      BY <2>2, <2>3
<1>10. ClaimsInv(n)
    BY <1>8, <1>9 DEF ClaimsInv
<1>11. Pending(n) = Pending(j) \cup S
    BY <1>1, <1>7, <1>9, <1>10, PendingFacts
<1> QED
    BY <1>1, <1>3, <1>7, <1>8, <1>9, <1>10, <1>11 DEF Good, n

(* ConversationInputCommitted: what is taken is pending no more. *)
LEMMA CommittedLemma ==
    ASSUME NEW j, Good(j), NEW S \in SUBSET Inputs
    PROVE  /\ Good(ConversationInputCommitted(j, S))
           /\ OpenTurn(ConversationInputCommitted(j, S)) = OpenTurn(j)
           /\ NextTurn(ConversationInputCommitted(j, S)) = NextTurn(j)
           /\ ConversationInputCommitted(j, S).queued = j.queued
           /\ ConversationInputCommitted(j, S).taken = j.taken \cup S
           /\ ConversationInputCommitted(j, S).dropped = j.dropped
           /\ Pending(ConversationInputCommitted(j, S)) = Pending(j) \ S
           /\ \A i \in Inputs \ S : ConversationInputCommitted(j, S).claim[i].ended <=> j.claim[i].ended
<1> DEFINE n == ConversationInputCommitted(j, S)
<1>1. j \in Journal /\ Brackets(j.log) /\ ClaimsInv(j)
    BY DEF Good
<1>3. /\ n.log = j.log
      /\ n.claim = [i \in Inputs |-> IF i \in S THEN NoClaim ELSE j.claim[i]]
      /\ n.queued = j.queued /\ n.taken = j.taken \cup S /\ n.dropped = j.dropped /\ n.titled = j.titled
  <2>1. j = [log |-> j.log, claim |-> j.claim, queued |-> j.queued, taken |-> j.taken,
             dropped |-> j.dropped, titled |-> j.titled]
      BY <1>1 DEF Journal
  <2>2. DOMAIN j = {"log", "claim", "queued", "taken", "dropped", "titled"}
      BY <1>1 DEF Journal
  <2>3. n.log = j.log
      BY <2>1, <2>2 DEF ConversationInputCommitted
  <2>4. n.claim = [i \in Inputs |-> IF i \in S THEN NoClaim ELSE j.claim[i]]
      BY <2>1, <2>2 DEF ConversationInputCommitted
  <2>5. n.queued = j.queued /\ n.taken = j.taken \cup S /\ n.dropped = j.dropped /\ n.titled = j.titled
      BY <2>1, <2>2 DEF ConversationInputCommitted
  <2> HIDE DEF n
  <2> QED
      BY <2>3, <2>4, <2>5
<1>5. NoClaim \in Claim /\ NoClaim.turn = 0 /\ ~NoClaim.retained /\ ~NoClaim.ended
    BY DEF Claim, NoClaim
<1>6. \A i \in Inputs : n.claim[i] = IF i \in S THEN NoClaim ELSE j.claim[i]
    BY <1>3
<1>7. n \in Journal
  <2>1. n.claim \in [Inputs -> Claim]
    <3>1. \A i \in Inputs : (IF i \in S THEN NoClaim ELSE j.claim[i]) \in Claim
        BY <1>1, <1>5, ClaimFields
    <3> HIDE DEF n
    <3> QED
        BY <1>3, <3>1
  <2> DEFINE x == j.taken \cup S
             c == [i \in Inputs |-> IF i \in S THEN NoClaim ELSE j.claim[i]]
  <2>2. n = [j EXCEPT !.taken = x, !.claim = c]
      BY DEF ConversationInputCommitted
  <2>3. x \in SUBSET Inputs /\ c \in [Inputs -> Claim]
      BY <1>1, <1>3, <2>1 DEF Journal
  <2> HIDE DEF n, x, c
  <2> QED
      BY <1>1, <2>2, <2>3 DEF Journal
<1> HIDE DEF n
<1>8. OpenTurn(n) = OpenTurn(j) /\ NextTurn(n) = NextTurn(j)
    BY <1>3 DEF OpenTurn, NextTurn
<1>9. ASSUME NEW i \in Inputs
      PROVE  /\ n.claim[i].turn # 0 <=> (i \notin S /\ j.claim[i].turn # 0)
             /\ n.claim[i].retained <=> n.claim[i].ended
             /\ n.claim[i].turn = 0 => ~n.claim[i].ended
             /\ n.claim[i].turn # 0 /\ ~n.claim[i].ended => n.claim[i].turn = OpenTurn(j)
             /\ i \notin S => (n.claim[i].ended <=> j.claim[i].ended)
  <2>1. /\ j.claim[i].retained <=> j.claim[i].ended
        /\ j.claim[i].turn = 0 => ~j.claim[i].ended
        /\ j.claim[i].turn # 0 /\ ~j.claim[i].ended => j.claim[i].turn = OpenTurn(j)
      BY <1>1 DEF ClaimsInv
  <2>2. CASE i \in S
      BY <1>5, <1>6, <2>1, <2>2
  <2>3. CASE i \notin S
      BY <1>6, <2>1, <2>3
  <2> QED
      BY <2>2, <2>3
<1>10. ClaimsInv(n)
    BY <1>8, <1>9 DEF ClaimsInv
<1>11. Pending(n) = Pending(j) \ S
    BY <1>1, <1>7, <1>9, <1>10, PendingFacts
<1> QED
    BY <1>1, <1>3, <1>7, <1>8, <1>9, <1>10, <1>11 DEF Good, n

(* TurnFinished of the open turn: what is still pending is retained. *)
LEMMA FinishedLemma ==
    ASSUME NEW j, Good(j), NEW t, OpenTurn(j) = t, t # 0
    PROVE  /\ Good(TurnFinished(j, t))
           /\ OpenTurn(TurnFinished(j, t)) = 0
           /\ NextTurn(TurnFinished(j, t)) = NextTurn(j)
           /\ TurnFinished(j, t).queued = j.queued
           /\ TurnFinished(j, t).taken = j.taken
           /\ j.dropped \subseteq TurnFinished(j, t).dropped
           /\ Pending(TurnFinished(j, t)) \subseteq Pending(j)
           /\ Pending(j) \subseteq Pending(TurnFinished(j, t)) \cup TurnFinished(j, t).dropped
           /\ \A i \in Pending(TurnFinished(j, t)) : j.claim[i].ended
           /\ \A i \in TurnFinished(j, t).dropped \ j.dropped : i \in Pending(j) /\ ~j.claim[i].ended
<1> DEFINE n == TurnFinished(j, t)
           lost == {i \in ClaimedBy(j, t) : ~j.claim[i].retained}
           ending(i) == [j.claim[i] EXCEPT !.ended = TRUE]
           next(i) == IF i \in lost THEN NoClaim
                      ELSE IF j.claim[i].turn = t /\ j.claim[i] # NoClaim THEN ending(i)
                      ELSE j.claim[i]
<1>1. j \in Journal /\ Brackets(j.log) /\ ClaimsInv(j)
    BY DEF Good
<1>2. t \in Nat \ {0}
    BY <1>1, OpenFacts
<1>3. /\ n.log = Append(j.log, <<"finished", t>>)
      /\ n.claim = [i \in Inputs |-> next(i)]
      /\ n.dropped = j.dropped \cup lost
      /\ n.queued = j.queued /\ n.taken = j.taken /\ n.titled = j.titled
  <2>1. j = [log |-> j.log, claim |-> j.claim, queued |-> j.queued, taken |-> j.taken,
             dropped |-> j.dropped, titled |-> j.titled]
      BY <1>1 DEF Journal
  <2>2. DOMAIN j = {"log", "claim", "queued", "taken", "dropped", "titled"}
      BY <1>1 DEF Journal
  <2> DEFINE x == Append(j.log, <<"finished", t>>)
             y == j.dropped \cup lost
             c == [i \in Inputs |-> next(i)]
  <2>3. n = [j EXCEPT !.log = x, !.dropped = y, !.claim = c]
      BY DEF TurnFinished
  <2> HIDE DEF n, x, y, c
  <2>4. /\ n.log = x /\ n.dropped = y /\ n.claim = c
        /\ n.queued = j.queued /\ n.taken = j.taken /\ n.titled = j.titled
      BY <2>1, <2>2, <2>3
  <2> QED
      BY <2>4, Zenon DEF x, y, c
<1>4. /\ n.log \in Seq(Entry) /\ Brackets(n.log) /\ n.log # <<>>
      /\ n.log[Len(n.log)] = <<"finished", t>>
  <2>1. n.log = Append(j.log, <<"finished", t>>)
      BY <1>3
  <2> HIDE DEF n
  <2> QED
      BY <1>1, <1>2, <2>1, AppendLemma
<1>5. \A i \in Inputs : i \in lost <=> j.claim[i].turn = t /\ ~j.claim[i].ended
    BY <1>1, <1>2, PendingFacts DEF ClaimedBy, ClaimsInv
<1>6. lost \subseteq Pending(j) /\ lost \subseteq Inputs
    BY <1>1, PendingFacts DEF ClaimedBy
<1>7. NoClaim \in Claim /\ NoClaim.turn = 0 /\ ~NoClaim.retained /\ ~NoClaim.ended
    BY DEF Claim, NoClaim
<1>8. ASSUME NEW i \in Inputs
      PROVE  /\ next(i) \in Claim
             /\ i \in lost => next(i) = NoClaim
             /\ i \notin lost => /\ next(i).turn = j.claim[i].turn
                                 /\ next(i).retained <=> j.claim[i].retained
                                 /\ next(i).ended <=> j.claim[i].ended
  <2>1. j.claim[i] \in Claim
      BY <1>1, ClaimFields
  <2>2. CASE i \in lost
      BY <1>7, <2>2
  <2>3. CASE i \notin lost /\ j.claim[i].turn = t /\ j.claim[i] # NoClaim
    <3>1. j.claim[i].ended
        BY <1>5, <2>3
    <3>2. next(i) = ending(i)
        BY <2>3
    <3>3. ending(i) \in Claim /\ ending(i).turn = j.claim[i].turn
        BY <2>1 DEF Claim
    <3>4. ending(i).ended
        BY <2>1 DEF Claim
    <3>5. ending(i).retained <=> j.claim[i].retained
        BY <2>1 DEF Claim
    <3> HIDE DEF next, ending
    <3> QED
        BY <2>3, <3>1, <3>2, <3>3, <3>4, <3>5
  <2>4. CASE i \notin lost /\ ~(j.claim[i].turn = t /\ j.claim[i] # NoClaim)
    <3>1. next(i) = j.claim[i]
        BY <2>4
    <3> HIDE DEF next
    <3> QED
        BY <2>1, <2>4, <3>1
  <2> QED
      BY <2>2, <2>3, <2>4
<1>9. n \in Journal
  <2> DEFINE x == Append(j.log, <<"finished", t>>)
             y == j.dropped \cup lost
             c == [i \in Inputs |-> next(i)]
  <2>1. n = [j EXCEPT !.log = x, !.dropped = y, !.claim = c]
      BY DEF TurnFinished
  <2>2. x \in Seq(Entry)
      BY <1>3, <1>4
  <2>3. y \in SUBSET Inputs
      BY <1>1, <1>6 DEF Journal
  <2>4. c \in [Inputs -> Claim]
    <3> HIDE DEF next
    <3> QED
        BY <1>8
  <2> HIDE DEF n, x, y, c
  <2> QED
      BY <1>1, <2>1, <2>2, <2>3, <2>4 DEF Journal
<1>10. \A i \in Inputs : n.claim[i] = next(i)
  <2> HIDE DEF next, n
  <2> QED
      BY <1>3
<1> HIDE DEF n, lost, next
<1>11. OpenTurn(n) = 0 /\ NextTurn(n) = t + 1
    BY <1>4 DEF OpenTurn, NextTurn
<1>12. NextTurn(n) = NextTurn(j)
    BY <1>1, <1>11, OpenFacts
<1>13. ASSUME NEW i \in Inputs
       PROVE  /\ n.claim[i].turn # 0 => j.claim[i].turn # 0 /\ j.claim[i].ended
              /\ j.claim[i].turn # 0 => n.claim[i].turn # 0 \/ i \in lost
              /\ n.claim[i].retained <=> n.claim[i].ended
              /\ n.claim[i].turn = 0 => ~n.claim[i].ended
              /\ n.claim[i].turn # 0 => n.claim[i].ended
  <2>1. /\ j.claim[i].retained <=> j.claim[i].ended
        /\ j.claim[i].turn = 0 => ~j.claim[i].ended
        /\ j.claim[i].turn # 0 /\ ~j.claim[i].ended => j.claim[i].turn = t
      BY <1>1 DEF ClaimsInv
  <2>2. CASE i \in lost
      BY <1>7, <1>8, <1>10, <2>2
  <2>3. CASE i \notin lost
      BY <1>5, <1>8, <1>10, <2>1, <2>3
  <2> QED
      BY <2>2, <2>3
<1>14. ClaimsInv(n)
    BY <1>13 DEF ClaimsInv
<1>15. /\ Pending(n) \subseteq Pending(j)
       /\ Pending(j) \subseteq Pending(n) \cup lost
       /\ \A i \in Pending(n) : j.claim[i].ended
    BY <1>1, <1>9, <1>13, <1>14, PendingFacts
<1>16. \A i \in n.dropped \ j.dropped : i \in Pending(j) /\ ~j.claim[i].ended
    BY <1>3, <1>5, <1>6
<1> QED
    BY <1>3, <1>4, <1>9, <1>11, <1>12, <1>14, <1>15, <1>16 DEF Good, n

(* Repair closes the open turn and loses nothing. *)
LEMMA RepairLemma ==
    ASSUME NEW j, Good(j)
    PROVE  /\ Good(Repair(j))
           /\ OpenTurn(Repair(j)) = 0
           /\ NextTurn(Repair(j)) = NextTurn(j)
           /\ Repair(j).queued = j.queued
           /\ Repair(j).taken = j.taken
           /\ Repair(j).dropped = j.dropped
           /\ Pending(Repair(j)) = Pending(j)
           /\ \A i \in Pending(j) : Repair(j).claim[i].ended
<1>1. j \in Journal /\ Brackets(j.log) /\ ClaimsInv(j)
    BY DEF Good
<1>2. OpenTurn(j) \in Nat
    BY <1>1, OpenFacts
<1>3. CASE OpenTurn(j) = 0
  <2>1. Repair(j) = j
      BY <1>3 DEF Repair
  <2>2. \A i \in Pending(j) : j.claim[i].ended
      BY <1>1, <1>3, PendingFacts DEF ClaimsInv
  <2> QED
      BY <1>3, <2>1, <2>2
<1>4. CASE OpenTurn(j) # 0
  <2> DEFINE t == OpenTurn(j)
             R == {i \in ClaimedBy(j, t) : ~j.claim[i].retained}
             k(i) == IF i \in R THEN [j.claim[i] EXCEPT !.retained = TRUE] ELSE j.claim[i]
             m == UserMessageRetained(j, R)
             lost == {i \in ClaimedBy(m, t) : ~m.claim[i].retained}
             n == TurnFinished(m, t)
             next(i) == IF k(i).turn = t /\ k(i) # NoClaim THEN [k(i) EXCEPT !.ended = TRUE]
                        ELSE k(i)
  <2>1. Repair(j) = n
      BY <1>4 DEF Repair
  <2>2. /\ m.log = j.log /\ m.queued = j.queued /\ m.taken = j.taken /\ m.dropped = j.dropped
        /\ m.titled = j.titled
        /\ m.claim = [i \in Inputs |-> k(i)]
    <3>1. j = [log |-> j.log, claim |-> j.claim, queued |-> j.queued, taken |-> j.taken,
               dropped |-> j.dropped, titled |-> j.titled]
        BY <1>1 DEF Journal
    <3>2. DOMAIN j = {"log", "claim", "queued", "taken", "dropped", "titled"}
        BY <1>1 DEF Journal
    <3> DEFINE c == [i \in Inputs |-> k(i)]
    <3>3. m = [j EXCEPT !.claim = c]
        BY DEF UserMessageRetained
    <3> HIDE DEF m, c
    <3>4. /\ m.log = j.log /\ m.queued = j.queued /\ m.taken = j.taken /\ m.dropped = j.dropped
          /\ m.titled = j.titled
          /\ m.claim = c
        BY <3>1, <3>2, <3>3
    <3> QED
        BY <3>4, Zenon DEF c
  <2>3. \A i \in Inputs : i \in R <=> j.claim[i].turn = t /\ ~j.claim[i].ended
      BY <1>1, <1>4, PendingFacts DEF ClaimedBy, ClaimsInv
  <2>4. ASSUME NEW i \in Inputs
        PROVE  /\ k(i) \in Claim
               /\ k(i).turn = j.claim[i].turn
               /\ k(i).ended <=> j.claim[i].ended
               /\ k(i).retained <=> i \in R \/ j.claim[i].retained
    <3>1. j.claim[i] \in Claim
        BY <1>1, ClaimFields
    <3>2. CASE i \in R
      <4>1. k(i) = [j.claim[i] EXCEPT !.retained = TRUE]
          BY <3>2
      <4> DEFINE e == [j.claim[i] EXCEPT !.retained = TRUE]
      <4>2. e \in Claim /\ e.turn = j.claim[i].turn
          BY <3>1 DEF Claim
      <4>3. e.ended <=> j.claim[i].ended
          BY <3>1 DEF Claim
      <4>4. e.retained
          BY <3>1 DEF Claim
      <4>5. k(i) = e
          BY <4>1
      <4> HIDE DEF k, e
      <4> QED
          BY <3>2, <4>2, <4>3, <4>4, <4>5
    <3>3. CASE i \notin R
      <4>1. k(i) = j.claim[i]
          BY <3>3
      <4> HIDE DEF k
      <4> QED
          BY <3>1, <3>3, <4>1
    <3> QED
        BY <3>2, <3>3
  <2>5. \A i \in Inputs : m.claim[i] = k(i)
    <3> HIDE DEF m, k
    <3> QED
        BY <2>2
  <2>6. lost = {}
    <3> HIDE DEF m, k
    <3>1. ASSUME NEW i \in lost
          PROVE  FALSE
      <4>1. i \in Inputs /\ m.claim[i].turn = t /\ ~m.claim[i].retained
          BY DEF ClaimedBy, Pending
      <4>2. i \notin R /\ ~j.claim[i].retained /\ j.claim[i].turn = t
          BY <2>4, <2>5, <4>1
      <4> QED
          BY <1>1, <2>3, <4>1, <4>2 DEF ClaimsInv
    <3> QED
        BY <3>1
  <2>7. /\ n.log = Append(j.log, <<"finished", t>>)
        /\ n.claim = [i \in Inputs |-> next(i)]
        /\ n.dropped = j.dropped
        /\ n.queued = j.queued /\ n.taken = j.taken
        /\ n \in Journal
    <3>1. m \in Journal
      <4> DEFINE c == [i \in Inputs |-> k(i)]
      <4>1. m = [j EXCEPT !.claim = c]
          BY DEF UserMessageRetained
      <4>2. c \in [Inputs -> Claim]
        <5> HIDE DEF k
        <5> QED
            BY <2>4
      <4> HIDE DEF m, c
      <4> QED
          BY <1>1, <4>1, <4>2 DEF Journal
    <3> DEFINE x == Append(m.log, <<"finished", t>>)
               y == m.dropped \cup lost
               f(i) == IF i \in lost THEN NoClaim
                       ELSE IF m.claim[i].turn = t /\ m.claim[i] # NoClaim
                            THEN [m.claim[i] EXCEPT !.ended = TRUE] ELSE m.claim[i]
               c == [i \in Inputs |-> f(i)]
    <3>2. n = [m EXCEPT !.log = x, !.dropped = y, !.claim = c]
      <4> HIDE DEF m
      <4> QED
          BY DEF TurnFinished
    <3>3. m = [log |-> m.log, claim |-> m.claim, queued |-> m.queued, taken |-> m.taken,
               dropped |-> m.dropped, titled |-> m.titled]
      <4> HIDE DEF m
      <4> QED
          BY <3>1 DEF Journal
    <3>4. DOMAIN m = {"log", "claim", "queued", "taken", "dropped", "titled"}
      <4> HIDE DEF m
      <4> QED
          BY <3>1 DEF Journal
    <3>5. \A i \in Inputs : f(i) = next(i)
      <4> HIDE DEF m, k, lost
      <4> QED
          BY <2>5, <2>6
    <3>6. c = [i \in Inputs |-> next(i)]
      <4> HIDE DEF f, next
      <4> QED
          BY <3>5
    <3>7. y = j.dropped
      <4> HIDE DEF m, lost
      <4> QED
          BY <2>2, <2>6
    <3>8. ASSUME NEW i \in Inputs
          PROVE  next(i) \in Claim
      <4>1. k(i) \in Claim
          BY <2>4
      <4> HIDE DEF k
      <4> QED
          BY <4>1 DEF Claim
    <3>9. x = Append(j.log, <<"finished", t>>)
      <4> HIDE DEF m
      <4> QED
          BY <2>2
    <3>10. x \in Seq(Entry)
        BY <1>1, <1>2, <1>4, <3>9, AppendLemma
    <3>11. c \in [Inputs -> Claim]
      <4> HIDE DEF next, c
      <4> QED
          BY <3>6, <3>8
    <3>12. y \in SUBSET Inputs
        BY <1>1, <3>7 DEF Journal
    <3> HIDE DEF m, n, x, y, c, next
    <3>13. /\ n.log = x /\ n.claim = c /\ n.dropped = y
           /\ n.queued = m.queued /\ n.taken = m.taken
        BY <3>2, <3>3, <3>4
    <3>14. n \in Journal
        BY <3>1, <3>2, <3>10, <3>11, <3>12 DEF Journal
    <3> QED
        BY <2>2, <3>6, <3>7, <3>9, <3>13, <3>14
  <2>8. ASSUME NEW i \in Inputs
        PROVE  /\ n.claim[i].turn = j.claim[i].turn
               /\ n.claim[i].retained <=> n.claim[i].ended
               /\ n.claim[i].turn # 0 <=> n.claim[i].ended
    <3>1. n.claim[i] = next(i)
      <4> HIDE DEF n, next
      <4> QED
          BY <2>7
    <3>2. /\ j.claim[i].retained <=> j.claim[i].ended
          /\ j.claim[i].turn = 0 => ~j.claim[i].ended
          /\ j.claim[i].turn # 0 /\ ~j.claim[i].ended => j.claim[i].turn = t
        BY <1>1 DEF ClaimsInv
    <3>3. NoClaim.turn = 0
        BY DEF NoClaim
    <3>4. CASE j.claim[i].turn = t
      <4>1. k(i) # NoClaim /\ k(i) \in Claim
          BY <1>4, <2>4, <3>3, <3>4
      <4>2. next(i) = [k(i) EXCEPT !.ended = TRUE]
          BY <2>4, <3>4, <4>1
      <4> DEFINE e == [k(i) EXCEPT !.ended = TRUE]
      <4>3. /\ e.turn = k(i).turn
            /\ e.ended
        <5> HIDE DEF k
        <5> QED
            BY <4>1 DEF Claim
      <4>4. e.retained <=> k(i).retained
        <5> HIDE DEF k
        <5> QED
            BY <4>1 DEF Claim
      <4>5. k(i).retained
          BY <2>3, <2>4, <3>2, <3>4
      <4>6. n.claim[i] = e
          BY <3>1, <4>2
      <4> HIDE DEF n, k, e, next
      <4> QED
          BY <1>4, <2>4, <3>4, <4>3, <4>4, <4>5, <4>6
    <3>5. CASE j.claim[i].turn # t
      <4>1. next(i) = k(i)
          BY <2>4, <3>5
      <4>2. i \notin R
          BY <2>3, <3>5
      <4> HIDE DEF n, k, next, R
      <4> QED
          BY <2>4, <3>1, <3>2, <3>5, <4>1, <4>2
    <3> QED
        BY <3>4, <3>5
  <2> HIDE DEF n, m, k, next, R, lost
  <2>9. /\ n.log \in Seq(Entry) /\ Brackets(n.log) /\ n.log # <<>>
        /\ n.log[Len(n.log)] = <<"finished", t>>
      BY <1>1, <1>2, <1>4, <2>7, AppendLemma, ZenonT(60)
  <2>10. OpenTurn(n) = 0 /\ NextTurn(n) = t + 1
      BY <2>9 DEF OpenTurn, NextTurn
  <2>11. NextTurn(n) = NextTurn(j)
      BY <1>1, <1>4, <2>10, OpenFacts
  <2>12. ClaimsInv(n)
      BY <2>8 DEF ClaimsInv
  <2>13. Pending(n) = Pending(j)
      BY <1>1, <2>7, <2>8, <2>12, PendingFacts, ZenonT(60)
  <2>14. \A i \in Pending(j) : n.claim[i].ended
      BY <1>1, <2>8, PendingFacts
  <2> QED
      BY <2>1, <2>7, <2>9, <2>10, <2>11, <2>12, <2>13, <2>14 DEF Good
<1> QED
    BY <1>3, <1>4

(* MessageQueued and SessionTitleUpdated move no turn and no claim. *)
LEMMA QueuedLemma ==
    ASSUME NEW j, Good(j), NEW i \in Inputs
    PROVE  /\ Good(MessageQueued(j, i))
           /\ OpenTurn(MessageQueued(j, i)) = OpenTurn(j)
           /\ NextTurn(MessageQueued(j, i)) = NextTurn(j)
           /\ MessageQueued(j, i).queued = j.queued \cup {i}
           /\ MessageQueued(j, i).taken = j.taken
           /\ MessageQueued(j, i).dropped = j.dropped
           /\ MessageQueued(j, i).claim = j.claim
           /\ Pending(MessageQueued(j, i)) = Pending(j)
<1> DEFINE n == MessageQueued(j, i)
           x == j.queued \cup {i}
<1>1. j \in Journal /\ Brackets(j.log) /\ ClaimsInv(j)
    BY DEF Good
<1>2. n = [j EXCEPT !.queued = x]
    BY DEF MessageQueued
<1>3. x \in SUBSET Inputs
    BY <1>1 DEF Journal
<1>4. x = j.queued \cup {i}
    OBVIOUS
<1> HIDE DEF n, x
<1>5. /\ n \in Journal /\ n.log = j.log /\ n.claim = j.claim /\ n.queued = x
      /\ n.taken = j.taken /\ n.dropped = j.dropped
    BY <1>1, <1>2, <1>3 DEF Journal
<1>6. OpenTurn(n) = OpenTurn(j) /\ NextTurn(n) = NextTurn(j) /\ Pending(n) = Pending(j)
    BY <1>5, Zenon DEF OpenTurn, NextTurn, Pending
<1>7. ClaimsInv(n)
    BY <1>1, <1>5, <1>6 DEF ClaimsInv
<1> QED
    BY <1>1, <1>4, <1>5, <1>6, <1>7, Zenon DEF Good, n

LEMMA TitledLemma ==
    ASSUME NEW j, Good(j)
    PROVE  /\ Good(SessionTitleUpdated(j))
           /\ OpenTurn(SessionTitleUpdated(j)) = OpenTurn(j)
           /\ NextTurn(SessionTitleUpdated(j)) = NextTurn(j)
           /\ SessionTitleUpdated(j).queued = j.queued
           /\ SessionTitleUpdated(j).taken = j.taken
           /\ SessionTitleUpdated(j).dropped = j.dropped
           /\ SessionTitleUpdated(j).claim = j.claim
           /\ Pending(SessionTitleUpdated(j)) = Pending(j)
<1> DEFINE n == SessionTitleUpdated(j)
<1>1. j \in Journal /\ Brackets(j.log) /\ ClaimsInv(j)
    BY DEF Good
<1>2. n = [j EXCEPT !.titled = TRUE]
    BY DEF SessionTitleUpdated
<1> HIDE DEF n
<1>5. /\ n \in Journal /\ n.log = j.log /\ n.claim = j.claim /\ n.queued = j.queued
      /\ n.taken = j.taken /\ n.dropped = j.dropped
    BY <1>1, <1>2 DEF Journal
<1>6. OpenTurn(n) = OpenTurn(j) /\ NextTurn(n) = NextTurn(j) /\ Pending(n) = Pending(j)
    BY <1>5, Zenon DEF OpenTurn, NextTurn, Pending
<1>7. ClaimsInv(n)
    BY <1>1, <1>5, <1>6 DEF ClaimsInv
<1> QED
    BY <1>1, <1>5, <1>6, <1>7, Zenon DEF Good, n

(* The journal n is this one with turn t open and the new inputs N accepted. *)
Opened(n, t, N) ==
    /\ Good(n)
    /\ OpenTurn(n) = t
    /\ NextTurn(n) = t + 1
    /\ n.queued = journal.queued \ N
    /\ n.dropped = journal.dropped
    /\ Known(journal) \subseteq Known(n)
    /\ N \subseteq Known(n)
    /\ \A i \in Pending(n) : i \in Pending(journal) \cup N /\ ~n.claim[i].ended

(* The opening batch of a turn: the pending inputs, the new ones among them,
   are all the new turn's, or taken. *)
LEMMA OpeningLemma ==
    ASSUME Good(journal), NEW t \in Nat, OpenTurn(journal) = 0, t >= NextTurn(journal),
           NEW S \in SUBSET Inputs, NEW N \in SUBSET Inputs, NEW n,
           \/ n = UserMessageAccepted(TurnStarted(journal, t), t, N)
           \/ n = ConversationInputCommitted(UserMessageAccepted(TurnStarted(journal, t), t, N), S \cup N)
    PROVE  Opened(n, t, N)
<1> DEFINE a == TurnStarted(journal, t)
           b == UserMessageAccepted(a, t, N)
           c == ConversationInputCommitted(b, S \cup N)
<1>1. journal \in Journal /\ Brackets(journal.log) /\ ClaimsInv(journal)
    BY DEF Good
<1>2. t # 0
  <2>1. NextTurn(journal) \in Nat \ {0}
      BY <1>1, OpenFacts
  <2> QED
      BY <2>1
<1>3. /\ Good(a) /\ OpenTurn(a) = t /\ NextTurn(a) = t + 1
      /\ a.queued = journal.queued /\ a.taken = journal.taken /\ a.dropped = journal.dropped
      /\ Pending(a) = Pending(journal)
      /\ \A i \in Pending(journal) : ~a.claim[i].ended
    BY StartedLemma
<1>4. n = b \/ n = c
    OBVIOUS
<1> HIDE DEF a
<1>5. /\ Good(b) /\ OpenTurn(b) = t /\ NextTurn(b) = NextTurn(a)
      /\ b.queued = a.queued \ N /\ b.taken = a.taken /\ b.dropped = a.dropped
      /\ Pending(b) = Pending(a) \cup N
      /\ \A i \in Inputs : b.claim[i].ended => i \notin N /\ a.claim[i].ended
    BY <1>2, <1>3, AcceptedLemma
<1> HIDE DEF b
<1>6. /\ Good(c) /\ OpenTurn(c) = OpenTurn(b) /\ NextTurn(c) = NextTurn(b)
      /\ c.queued = b.queued /\ c.taken = b.taken \cup (S \cup N) /\ c.dropped = b.dropped
      /\ Pending(c) = Pending(b) \ (S \cup N)
      /\ \A i \in Inputs \ (S \cup N) : c.claim[i].ended <=> b.claim[i].ended
    BY <1>5, CommittedLemma
<1> HIDE DEF c
<1>7. \A i \in Pending(b) : i \in Inputs /\ i \in Pending(journal) \cup N /\ ~b.claim[i].ended
    BY <1>1, <1>3, <1>5, PendingFacts
<1>8. /\ Known(journal) \subseteq Known(b)
      /\ N \subseteq Known(b)
    BY <1>3, <1>5 DEF Known
<1>9. CASE n = b
    BY <1>3, <1>5, <1>7, <1>8, <1>9 DEF Opened
<1>10. CASE n = c
  <2>1. Known(b) \subseteq Known(c)
      BY <1>6 DEF Known
  <2>2. \A i \in Pending(c) : i \in Pending(journal) \cup N /\ ~c.claim[i].ended
      BY <1>6, <1>7
  <2> QED
      BY <1>3, <1>5, <1>6, <1>8, <1>10, <2>1, <2>2 DEF Opened
<1> QED
    BY <1>4, <1>9, <1>10

(* No event takes an input out of the journal. *)
LEMMA KnownLemma ==
    ASSUME NEW j, Good(j)
    PROVE  /\ \A S \in SUBSET Inputs : Known(j) \subseteq Known(ConversationInputCommitted(j, S))
           /\ OpenTurn(j) # 0 => Known(j) \subseteq Known(TurnFinished(j, OpenTurn(j)))
           /\ Known(j) \subseteq Known(Repair(j))
           /\ \A i \in Inputs : Known(MessageQueued(j, i)) = Known(j) \cup {i}
           /\ Known(SessionTitleUpdated(j)) = Known(j)
<1>1. ASSUME NEW S \in SUBSET Inputs
      PROVE  Known(j) \subseteq Known(ConversationInputCommitted(j, S))
    BY CommittedLemma DEF Known
<1>2. ASSUME OpenTurn(j) # 0
      PROVE  Known(j) \subseteq Known(TurnFinished(j, OpenTurn(j)))
    BY <1>2, FinishedLemma DEF Known
<1>3. Known(j) \subseteq Known(Repair(j))
    BY RepairLemma DEF Known
<1>4. ASSUME NEW i \in Inputs
      PROVE  Known(MessageQueued(j, i)) = Known(j) \cup {i}
    BY QueuedLemma DEF Known
<1>5. Known(SessionTitleUpdated(j)) = Known(j)
    BY TitledLemma DEF Known
<1> QED
    BY <1>1, <1>2, <1>3, <1>4, <1>5

-----------------------------------------------------------------------------
(* The inductive invariant. *)

Signal ==
    ({"commit"} \X SUBSET Inputs) \cup {<<"hook">>, <<"title">>, <<"unsettled">>}
    \cup ({"complete"} \X (Nat \ {0}) \X {"completed", "failed"})

Stages == {"none", "work", "waiting", "stop", "panicked", "sent"}
Cleanups == {"none", "running", "waiting", "ok", "err"}
Entries == {"none", "running", "dropping", "failed"}
Works == [turn : Nat, stage : Stages, left : SUBSET Inputs, given : SUBSET Inputs]

DurableTypeOK ==
    /\ journal \in Journal
    /\ sink \in {"open", "closed"}
    /\ acked \in SUBSET Inputs /\ orphaned \in SUBSET Inputs /\ crashes \in Nat

ActorTypeOK ==
    /\ pc \in Places
    /\ running \in Nat /\ next_turn \in Nat \ {0}
    /\ queued \in SUBSET Inputs /\ suspended \in BOOLEAN /\ held \in SUBSET Inputs
    /\ recovery_requested \in BOOLEAN /\ unsettled \in BOOLEAN
    /\ closing \in BOOLEAN /\ armed \in BOOLEAN
    /\ signals \in Seq(Signal)
    /\ cleanup \in Cleanups

TaskTypeOK ==
    /\ task \in [Tasks -> Entries] /\ changed \in BOOLEAN
    /\ work \in Works
    /\ task["turn"] # "none" => work.turn # 0
    /\ requested \in BOOLEAN /\ completion \in {"none", "ok", "err"}

SessionTypeOK == DurableTypeOK /\ ActorTypeOK /\ TaskTypeOK

Starting == pc \in {"notices", "repair", "resume"}
Looping == pc \in {"recover", "failure", "start", "select"}

(* Before the loop nothing runs, and memory is the journal's. *)
StartInv ==
    /\ pc = "off" \/ Starting =>
         /\ running = 0 /\ ~closing /\ ~recovery_requested /\ ~unsettled
         /\ cleanup = "none" /\ signals = <<>>
         /\ \A t \in Tasks : task[t] = "none"
    /\ Starting => sink = "open" /\ next_turn = NextTurn(journal) /\ queued = journal.queued
    /\ pc \in {"off", "notices", "repair"} => ~suspended
    /\ pc = "resume" => suspended /\ OpenTurn(journal) = 0 /\ held = Pending(journal)

HeldInv == ~suspended => held = {}

(* The running turn is the open one: also after an effect was left unproved,
   until the loop has noticed it. *)
SyncInv ==
    Looping /\ sink = "open" /\ ~recovery_requested /\ ~(unsettled /\ (closing \/ pc = "recover")) =>
        running = OpenTurn(journal) /\ next_turn >= NextTurn(journal)

Completes(s, t) == \E k \in 1..Len(s) : s[k][1] = "complete" /\ s[k][2] = t

(* A running turn has its task, or the signal that completes it is buffered. *)
RunInv ==
    running # 0 =>
        /\ Looping \/ pc = "done"
        /\ work.turn = running
        /\ ~recovery_requested /\ (task["turn"] = "none" \/ work.stage = "sent") =>
               Completes(signals, running)

HistInv == acked \subseteq Known(journal)

IInv ==
    /\ SessionTypeOK
    /\ Good(journal)
    /\ StartInv
    /\ HeldInv
    /\ SyncInv
    /\ RunInv
    /\ HistInv

USE DEF durable, memory, flags, tasks, handle, history, Fenced

-----------------------------------------------------------------------------
(* Signals. *)

LEMMA SignalKinds ==
    ASSUME NEW s \in Signal
    PROVE  /\ s[1] \in {"commit", "hook", "title", "unsettled", "complete"}
           /\ s[1] = "commit" => s[2] \in SUBSET Inputs
           /\ s[1] = "complete" => s[2] \in Nat \ {0}
<1>1. CASE s \in {"commit"} \X SUBSET Inputs
    BY <1>1
<1>2. CASE s \in {<<"hook">>, <<"title">>, <<"unsettled">>}
    BY <1>2
<1>3. CASE s \in {"complete"} \X (Nat \ {0}) \X {"completed", "failed"}
    BY <1>3
<1> QED
    BY <1>1, <1>2, <1>3 DEF Signal

LEMMA SignalForms ==
    /\ \A S \in SUBSET Inputs : <<"commit", S>> \in Signal
    /\ <<"hook">> \in Signal /\ <<"title">> \in Signal /\ <<"unsettled">> \in Signal
    /\ \A t \in Nat \ {0}, r \in {"completed", "failed"} : <<"complete", t, r>> \in Signal
BY DEF Signal

LEMMA TailCompletes ==
    ASSUME NEW X, NEW s \in Seq(X), s # <<>>, NEW t, Completes(s, t),
           ~(Head(s)[1] = "complete" /\ Head(s)[2] = t)
    PROVE  Completes(Tail(s), t)
<1>1. PICK k \in 1..Len(s) : s[k][1] = "complete" /\ s[k][2] = t
    BY DEF Completes
<1>2. k # 1
    BY <1>1
<1>3. k - 1 \in 1..Len(Tail(s)) /\ Tail(s)[k - 1] = s[k]
    BY <1>1, <1>2
<1> QED
    BY <1>1, <1>3 DEF Completes

LEMMA AppendCompletes ==
    ASSUME NEW X, NEW s \in Seq(X), NEW e \in X, NEW t
    PROVE  /\ Completes(s, t) => Completes(Append(s, e), t)
           /\ e[1] = "complete" /\ e[2] = t => Completes(Append(s, e), t)
<1>1. Len(Append(s, e)) = Len(s) + 1 /\ Append(s, e)[Len(s) + 1] = e /\ Len(s) \in Nat
    BY DEF Completes
<1>2. \A k \in 1..Len(s) : k \in 1..(Len(s) + 1) /\ Append(s, e)[k] = s[k]
    BY <1>1
<1>3. Len(s) + 1 \in 1..(Len(s) + 1)
    BY <1>1
<1> QED
    BY <1>1, <1>2, <1>3, Zenon DEF Completes

(* An answer leaves the task its turn and its inputs. *)
LEMMA AnswerFacts ==
    ASSUME work \in Works, NEW s
    PROVE  /\ Answer(s) \in Works
           /\ Answer(s).turn = work.turn
           /\ Answer(s).given = work.given
           /\ Answer(s).stage = work.stage \/ Answer(s).stage = "stop"
BY DEF Answer, Works, Stages

-----------------------------------------------------------------------------
(* A commit. *)

LEMMA EmitFacts ==
    ASSUME NEW o \in Outcomes, NEW j, emit_batch(o, j), sink \in {"open", "closed"}
    PROVE  /\ o = "ok" => sink = "open" /\ journal' = j /\ sink' = "open"
           /\ o = "refused" => journal' = journal /\ sink' = sink
           /\ o = "failed" => sink = "open" /\ sink' = "closed" /\ (journal' = journal \/ journal' = j)
           /\ journal' = journal \/ (journal' = j /\ sink = "open")
           /\ sink' \in {"open", "closed"}
BY DEF emit_batch, Outcomes

(* A batch that is good for the journal and forgets no input leaves a good
   journal, whatever becomes of it. *)
LEMMA EmitGood ==
    ASSUME NEW o \in Outcomes, NEW j, emit_batch(o, j), sink \in {"open", "closed"},
           Good(journal), acked \subseteq Known(journal),
           sink = "open" => Good(j) /\ Known(journal) \subseteq Known(j)
    PROVE  Good(journal') /\ journal' \in Journal /\ acked \subseteq Known(journal')
<1>1. journal' = journal \/ (journal' = j /\ sink = "open")
    BY EmitFacts
<1>2. CASE journal' = journal
    BY <1>2 DEF Good
<1>3. CASE journal' = j /\ sink = "open"
    BY <1>3 DEF Good
<1> QED
    BY <1>1, <1>2, <1>3

LEMMA RepairFacts ==
    ASSUME NEW o \in Outcomes, repair(o), sink \in {"open", "closed"}, Good(journal),
           acked \subseteq Known(journal)
    PROVE  /\ o = "ok" => journal' = Repair(journal) /\ sink' = sink
           /\ Good(journal') /\ journal' \in Journal /\ acked \subseteq Known(journal')
           /\ journal'.dropped = journal.dropped
           /\ sink' \in {"open", "closed"}
           /\ o = "failed" => sink' = "closed"
<1>1. Repair(journal).dropped = journal.dropped /\ Good(Repair(journal))
    BY RepairLemma
<1>2. Known(journal) \subseteq Known(Repair(journal))
    BY KnownLemma
<1>3. CASE OpenTurn(journal) = 0
  <2>1. o = "ok" /\ journal' = journal /\ sink' = sink
      BY <1>3 DEF repair
  <2>2. Repair(journal) = journal
      BY <1>3 DEF Repair
  <2> QED
      BY <1>1, <2>1, <2>2 DEF Good
<1>4. CASE OpenTurn(journal) # 0
  <2>1. emit_batch(o, Repair(journal))
      BY <1>4 DEF repair
  <2>2. Good(journal') /\ journal' \in Journal /\ acked \subseteq Known(journal')
      BY <1>1, <1>2, <2>1, EmitGood
  <2> QED
      BY <1>1, <2>1, <2>2, EmitFacts
<1> QED
    BY <1>3, <1>4

(* With no open turn every pending input is retained. *)
LEMMA ClosedFacts ==
    ASSUME NEW j, Good(j), OpenTurn(j) = 0
    PROVE  \A i \in Pending(j) : j.claim[i].ended
BY PendingFacts DEF Good, ClaimsInv

(* The new inputs of a turn: with suspended inputs the queue joins them. *)
Joined(M, rest) == M \cup (IF suspended THEN rest ELSE {})

(* The turn is open in the journal and in memory, and its task runs. *)
TurnOpened(M, rest) ==
    /\ sink = "open" /\ sink' = "open"
    /\ running' = next_turn /\ next_turn' = next_turn + 1
    /\ task'["turn"] = "running" /\ task'["title"] = task["title"]
    /\ work'.turn = next_turn /\ work'.stage = "work"
    /\ work'.given = held \cup Joined(M, rest)
    /\ OpenTurn(journal') = next_turn /\ NextTurn(journal') = next_turn + 1
    /\ journal'.queued = journal.queued \ Joined(M, rest)
    /\ M \subseteq Known(journal')
    /\ \A i \in Pending(journal') :
          /\ i \in Pending(journal) \cup Joined(M, rest)
          /\ ~journal'.claim[i].ended

(* start_turn, when the actor knows that no turn is open. *)
LEMMA StartTurnFacts ==
    ASSUME SessionTypeOK, Good(journal), HistInv,
           NEW o \in Outcomes \cup {"invalid"}, NEW M \in SUBSET Inputs, NEW rest \in SUBSET Inputs,
           start_turn(o, M, rest),
           sink = "open" => OpenTurn(journal) = 0 /\ next_turn >= NextTurn(journal)
    PROVE  /\ Good(journal') /\ journal' \in Journal /\ acked \subseteq Known(journal')
           /\ sink' \in {"open", "closed"}
           /\ next_turn' \in Nat \ {0} /\ queued' \in SUBSET Inputs /\ held' \in SUBSET Inputs
           /\ suspended' \in BOOLEAN /\ (o # "invalid" => ~suspended' /\ held' = {})
           /\ work' \in Works /\ task' \in [Tasks -> Entries] /\ running' \in Nat
           /\ o = "ok" => TurnOpened(M, rest)
           /\ o # "ok" => running' = running /\ task' = task /\ work' = work
           /\ o = "refused" => journal' = journal /\ sink' = sink /\ next_turn' = next_turn + 1
           /\ o = "failed" => sink' = "closed"
           /\ o = "invalid" =>
                /\ journal' = journal /\ sink' = sink /\ next_turn' = next_turn
                /\ suspended' = suspended /\ held' = held
           /\ queued' = IF o = "invalid" \/ ~suspended THEN rest ELSE {}
<1>1. /\ sink \in {"open", "closed"} /\ next_turn \in Nat \ {0} /\ running \in Nat
      /\ held \in SUBSET Inputs /\ suspended \in BOOLEAN
      /\ work \in Works /\ task \in [Tasks -> Entries] /\ journal \in Journal
      /\ acked \subseteq Known(journal)
    BY DEF SessionTypeOK, DurableTypeOK, ActorTypeOK, TaskTypeOK, HistInv
<1>2. CASE o = "invalid"
  <2>1. /\ queued' = rest /\ journal' = journal /\ sink' = sink /\ running' = running
        /\ next_turn' = next_turn /\ suspended' = suspended /\ held' = held /\ task' = task
        /\ work' = work
      BY <1>2 DEF start_turn
  <2> QED
      BY <1>1, <1>2, <2>1
<1>3. CASE o # "invalid"
  <2> DEFINE new == M \cup (IF suspended THEN rest ELSE {})
  <2>1. o \in Outcomes
      BY <1>3
  <2>2. new \in SUBSET Inputs
      OBVIOUS
  <2>3. PICK synchronous \in BOOLEAN :
          /\ emit_batch(o, opening(next_turn, held, new, synchronous))
          /\ queued' = (IF suspended THEN {} ELSE rest)
          /\ suspended' = FALSE /\ held' = {}
          /\ next_turn' = next_turn + 1
          /\ IF o = "ok"
             THEN /\ running' = next_turn
                  /\ task' = [task EXCEPT !["turn"] = "running"]
                  /\ work' = [turn |-> next_turn, stage |-> "work", given |-> held \cup new,
                              left |-> IF synchronous THEN {} ELSE held \cup new]
             ELSE UNCHANGED <<running, task, work>>
      BY <1>3, Zenon DEF start_turn
  <2>4. new = Joined(M, rest) /\ M \subseteq new
      BY DEF Joined
  <2> HIDE DEF new
  <2> DEFINE n == opening(next_turn, held, new, synchronous)
  <2>5. sink = "open" =>
          /\ Good(n) /\ OpenTurn(n) = next_turn /\ NextTurn(n) = next_turn + 1
          /\ n.queued = journal.queued \ new
          /\ Known(journal) \subseteq Known(n) /\ new \subseteq Known(n)
          /\ \A i \in Pending(n) : i \in Pending(journal) \cup new /\ ~n.claim[i].ended
    <3>1. SUFFICES ASSUME sink = "open"
                   PROVE  Opened(n, next_turn, new)
        BY DEF Opened
    <3>2. /\ next_turn \in Nat /\ OpenTurn(journal) = 0 /\ next_turn >= NextTurn(journal)
          /\ held \in SUBSET Inputs
        BY <1>1, <3>1
    <3>3. \/ n = UserMessageAccepted(TurnStarted(journal, next_turn), next_turn, new)
          \/ n = ConversationInputCommitted(
                     UserMessageAccepted(TurnStarted(journal, next_turn), next_turn, new), held \cup new)
        BY DEF opening
    <3> HIDE DEF n
    <3> QED
        BY <2>2, <3>2, <3>3, OpeningLemma, Zenon
  <2> HIDE DEF n
  <2>6. emit_batch(o, n)
      BY <2>3 DEF n
  <2>7. Good(journal') /\ journal' \in Journal /\ acked \subseteq Known(journal')
      BY <1>1, <2>1, <2>5, <2>6, EmitGood
  <2>8. /\ o = "ok" => sink = "open" /\ journal' = n /\ sink' = "open"
        /\ o = "refused" => journal' = journal /\ sink' = sink
        /\ o = "failed" => sink' = "closed"
        /\ sink' \in {"open", "closed"}
      BY <1>1, <2>1, <2>6, EmitFacts
  <2>9. /\ next_turn' \in Nat \ {0} /\ queued' \in SUBSET Inputs /\ held' \in SUBSET Inputs
        /\ ~suspended' /\ suspended' \in BOOLEAN /\ held' = {} /\ next_turn' = next_turn + 1
        /\ queued' = IF o = "invalid" \/ ~suspended THEN rest ELSE {}
    <3>1. next_turn' \in Nat \ {0} /\ next_turn' = next_turn + 1 /\ held' \in SUBSET Inputs /\ held' = {}
        BY <1>1, <2>3
    <3>2. ~suspended' /\ suspended' \in BOOLEAN
        BY <2>3
    <3>3. /\ queued' \in SUBSET Inputs
          /\ queued' = IF o = "invalid" \/ ~suspended THEN rest ELSE {}
        BY <1>3, <2>3
    <3> QED
        BY <3>1, <3>2, <3>3
  <2>10. CASE o = "ok"
    <3>1. /\ running' = next_turn
          /\ task' = [task EXCEPT !["turn"] = "running"]
          /\ work' = [turn |-> next_turn, stage |-> "work", given |-> held \cup new,
                      left |-> IF synchronous THEN {} ELSE held \cup new]
        BY <2>3, <2>10
    <3>2. running' \in Nat /\ running' = next_turn
        BY <1>1, <3>1
    <3>3. /\ task' \in [Tasks -> Entries]
          /\ task'["turn"] = "running" /\ task'["title"] = task["title"]
        BY <1>1, <3>1 DEF Tasks, Entries
    <3>4. /\ work' \in Works /\ work'.turn = next_turn /\ work'.stage = "work"
          /\ work'.given = held \cup new
        BY <1>1, <2>2, <3>1 DEF Works, Stages
    <3>5. M \subseteq new
        BY <2>4
    <3>6. /\ OpenTurn(journal') = next_turn /\ NextTurn(journal') = next_turn + 1
          /\ journal'.queued = journal.queued \ new
          /\ M \subseteq Known(journal')
          /\ \A i \in Pending(journal') : i \in Pending(journal) \cup new /\ ~journal'.claim[i].ended
        BY <2>5, <2>8, <2>10, <3>5
    <3> QED
        BY <2>4, <2>7, <2>8, <2>9, <2>10, <3>2, <3>3, <3>4, <3>6 DEF TurnOpened
  <2>11. CASE o # "ok"
    <3>1. running' = running /\ task' = task /\ work' = work
        BY <2>3, <2>11
    <3> QED
        BY <1>1, <1>3, <2>7, <2>8, <2>9, <2>11, <3>1
  <2> QED
      BY <2>10, <2>11
<1> QED
    BY <1>2, <1>3

-----------------------------------------------------------------------------
(* Every step preserves the invariant: one lemma per action. *)

(* restart: memory is read from the journal. *)
LEMMA RestartStep ==
    ASSUME IInv, restart
    PROVE  IInv'
<1>0. SessionTypeOK /\ Good(journal) /\ StartInv /\ HeldInv /\ SyncInv /\ RunInv /\ HistInv
    BY DEF IInv
<1>1. /\ pc = "off" /\ pc' = "notices"
      /\ sink' = "open" /\ queued' = journal.queued /\ next_turn' = NextTurn(journal)
      /\ journal' = journal /\ running' = running /\ suspended' = suspended /\ held' = held
      /\ recovery_requested' = recovery_requested /\ unsettled' = unsettled /\ closing' = closing /\ armed' = armed
      /\ signals' = signals /\ cleanup' = cleanup /\ task' = task /\ changed' = changed
      /\ work' = work /\ requested' = requested /\ completion' = completion /\ acked' = acked
      /\ orphaned' = orphaned /\ crashes' = crashes
    BY DEF restart
<1>type. SessionTypeOK'
  <2>1. NextTurn(journal) \in Nat \ {0} /\ journal.queued \in SUBSET Inputs
    <3>1. journal \in Journal /\ Brackets(journal.log)
        BY <1>0 DEF Good
    <3> QED
        BY <3>1, OpenFacts DEF Journal
  <2> QED
      BY <1>0, <1>1, <2>1 DEF SessionTypeOK, DurableTypeOK, ActorTypeOK, TaskTypeOK, Places
<1>good. Good(journal')
    BY <1>0, <1>1
<1>start. StartInv'
    BY <1>0, <1>1 DEF StartInv, Starting
<1>held. HeldInv'
    BY <1>0, <1>1 DEF HeldInv
<1>sync. SyncInv'
    BY <1>0, <1>1 DEF SyncInv, Looping
<1>run. RunInv'
    BY <1>0, <1>1 DEF RunInv, Looping
<1>hist. HistInv'
    BY <1>0, <1>1 DEF HistInv
<1> QED
    BY <1>type, <1>good, <1>start, <1>held, <1>sync, <1>run, <1>hist DEF IInv

(* close: only the request is recorded. *)
LEMMA CloseStep ==
    ASSUME IInv, close
    PROVE  IInv'
<1>0. SessionTypeOK /\ Good(journal) /\ StartInv /\ HeldInv /\ SyncInv /\ RunInv /\ HistInv
    BY DEF IInv
<1>1. /\ requested' = TRUE
      /\ journal' = journal /\ sink' = sink /\ pc' = pc /\ running' = running
      /\ next_turn' = next_turn /\ queued' = queued /\ suspended' = suspended /\ held' = held
      /\ recovery_requested' = recovery_requested /\ unsettled' = unsettled /\ closing' = closing /\ armed' = armed
      /\ signals' = signals /\ cleanup' = cleanup /\ task' = task /\ changed' = changed
      /\ work' = work /\ completion' = completion /\ acked' = acked /\ orphaned' = orphaned
      /\ crashes' = crashes
    BY DEF close, select
<1>type. SessionTypeOK'
    BY <1>0, <1>1 DEF SessionTypeOK, DurableTypeOK, ActorTypeOK, TaskTypeOK, Places, Cleanups
<1>good. Good(journal')
    BY <1>0, <1>1
<1>start. StartInv'
    BY <1>0, <1>1 DEF StartInv, Starting
<1>held. HeldInv'
    BY <1>0, <1>1 DEF HeldInv
<1>sync. SyncInv'
    BY <1>0, <1>1 DEF SyncInv, Looping
<1>run. RunInv'
    BY <1>0, <1>1 DEF RunInv, Looping
<1>hist. HistInv'
    BY <1>0, <1>1 DEF HistInv
<1> QED
    BY <1>type, <1>good, <1>start, <1>held, <1>sync, <1>run, <1>hist DEF IInv

(* close_deadline: only the result is published. *)
LEMMA CloseDeadlineStep ==
    ASSUME IInv, close_deadline
    PROVE  IInv'
<1>0. SessionTypeOK /\ Good(journal) /\ StartInv /\ HeldInv /\ SyncInv /\ RunInv /\ HistInv
    BY DEF IInv
<1>1. /\ completion' = "err"
      /\ journal' = journal /\ sink' = sink /\ pc' = pc /\ running' = running
      /\ next_turn' = next_turn /\ queued' = queued /\ suspended' = suspended /\ held' = held
      /\ recovery_requested' = recovery_requested /\ unsettled' = unsettled /\ closing' = closing /\ armed' = armed
      /\ signals' = signals /\ cleanup' = cleanup /\ task' = task /\ changed' = changed
      /\ work' = work /\ requested' = requested /\ acked' = acked /\ orphaned' = orphaned
      /\ crashes' = crashes
    BY DEF close_deadline, select
<1>type. SessionTypeOK'
    BY <1>0, <1>1 DEF SessionTypeOK, DurableTypeOK, ActorTypeOK, TaskTypeOK, Places, Cleanups
<1>good. Good(journal')
    BY <1>0, <1>1
<1>start. StartInv'
    BY <1>0, <1>1 DEF StartInv, Starting
<1>held. HeldInv'
    BY <1>0, <1>1 DEF HeldInv
<1>sync. SyncInv'
    BY <1>0, <1>1 DEF SyncInv, Looping
<1>run. RunInv'
    BY <1>0, <1>1 DEF RunInv, Looping
<1>hist. HistInv'
    BY <1>0, <1>1 DEF HistInv
<1> QED
    BY <1>type, <1>good, <1>start, <1>held, <1>sync, <1>run, <1>hist DEF IInv

(* tasks_changed: the loop goes round. *)
LEMMA TasksChangedStep ==
    ASSUME IInv, tasks_changed
    PROVE  IInv'
<1>0. SessionTypeOK /\ Good(journal) /\ StartInv /\ HeldInv /\ SyncInv /\ RunInv /\ HistInv
    BY DEF IInv
<1>1. /\ pc = "select" /\ pc' = "recover" /\ changed' = FALSE
      /\ journal' = journal /\ sink' = sink /\ running' = running /\ next_turn' = next_turn
      /\ queued' = queued /\ suspended' = suspended /\ held' = held /\ recovery_requested' = recovery_requested
      /\ unsettled' = unsettled /\ closing' = closing /\ armed' = armed /\ signals' = signals
      /\ cleanup' = cleanup /\ task' = task /\ work' = work /\ requested' = requested
      /\ completion' = completion /\ acked' = acked /\ orphaned' = orphaned /\ crashes' = crashes
    BY DEF tasks_changed, select
<1>type. SessionTypeOK'
    BY <1>0, <1>1, ZenonT(60) DEF SessionTypeOK, DurableTypeOK, ActorTypeOK, TaskTypeOK, Places, Cleanups
<1>good. Good(journal')
    BY <1>0, <1>1
<1>start. StartInv'
    BY <1>0, <1>1 DEF StartInv, Starting
<1>held. HeldInv'
    BY <1>0, <1>1 DEF HeldInv
<1>sync. SyncInv'
    BY <1>0, <1>1 DEF SyncInv, Looping
<1>run. RunInv'
    BY <1>0, <1>1 DEF RunInv, Looping
<1>hist. HistInv'
    BY <1>0, <1>1 DEF HistInv
<1> QED
    BY <1>type, <1>good, <1>start, <1>held, <1>sync, <1>run, <1>hist DEF IInv

(* shutdown_cancelled: the loop goes round. *)
LEMMA ShutdownCancelledStep ==
    ASSUME IInv, shutdown_cancelled
    PROVE  IInv'
<1>0. SessionTypeOK /\ Good(journal) /\ StartInv /\ HeldInv /\ SyncInv /\ RunInv /\ HistInv
    BY DEF IInv
<1>1. /\ pc = "select" /\ pc' = "recover"
      /\ journal' = journal /\ sink' = sink /\ running' = running /\ next_turn' = next_turn
      /\ queued' = queued /\ suspended' = suspended /\ held' = held /\ recovery_requested' = recovery_requested
      /\ unsettled' = unsettled /\ closing' = closing /\ armed' = armed /\ signals' = signals
      /\ cleanup' = cleanup /\ task' = task /\ changed' = changed /\ work' = work
      /\ requested' = requested /\ completion' = completion /\ acked' = acked /\ orphaned' = orphaned
      /\ crashes' = crashes
    BY DEF shutdown_cancelled, select
<1>type. SessionTypeOK'
    BY <1>0, <1>1 DEF SessionTypeOK, DurableTypeOK, ActorTypeOK, TaskTypeOK, Places, Cleanups
<1>good. Good(journal')
    BY <1>0, <1>1
<1>start. StartInv'
    BY <1>0, <1>1 DEF StartInv, Starting
<1>held. HeldInv'
    BY <1>0, <1>1 DEF HeldInv
<1>sync. SyncInv'
    BY <1>0, <1>1 DEF SyncInv, Looping
<1>run. RunInv'
    BY <1>0, <1>1 DEF RunInv, Looping
<1>hist. HistInv'
    BY <1>0, <1>1 DEF HistInv
<1> QED
    BY <1>type, <1>good, <1>start, <1>held, <1>sync, <1>run, <1>hist DEF IInv

(* deadline: the loop is over, without proof. *)
LEMMA DeadlineStep ==
    ASSUME IInv, deadline
    PROVE  IInv'
<1>0. SessionTypeOK /\ Good(journal) /\ StartInv /\ HeldInv /\ SyncInv /\ RunInv /\ HistInv
    BY DEF IInv
<1>1. /\ pc = "select" /\ pc' = "done" /\ unsettled' = TRUE
      /\ journal' = journal /\ sink' = sink /\ running' = running /\ next_turn' = next_turn
      /\ queued' = queued /\ suspended' = suspended /\ held' = held /\ recovery_requested' = recovery_requested
      /\ closing' = closing /\ armed' = armed /\ signals' = signals /\ cleanup' = cleanup
      /\ task' = task /\ changed' = changed /\ work' = work /\ requested' = requested
      /\ completion' = completion /\ acked' = acked /\ orphaned' = orphaned /\ crashes' = crashes
    BY DEF deadline, select
<1>type. SessionTypeOK'
    BY <1>0, <1>1 DEF SessionTypeOK, DurableTypeOK, ActorTypeOK, TaskTypeOK, Places, Cleanups
<1>good. Good(journal')
    BY <1>0, <1>1
<1>start. StartInv'
    BY <1>0, <1>1 DEF StartInv, Starting
<1>held. HeldInv'
    BY <1>0, <1>1 DEF HeldInv
<1>sync. SyncInv'
    BY <1>0, <1>1 DEF SyncInv, Looping
<1>run. RunInv'
    BY <1>0, <1>1 DEF RunInv, Looping
<1>hist. HistInv'
    BY <1>0, <1>1 DEF HistInv
<1> QED
    BY <1>type, <1>good, <1>start, <1>held, <1>sync, <1>run, <1>hist DEF IInv

(* cleanup_result: the loop is over. *)
LEMMA CleanupResultStep ==
    ASSUME IInv, cleanup_result
    PROVE  IInv'
<1>0. SessionTypeOK /\ Good(journal) /\ StartInv /\ HeldInv /\ SyncInv /\ RunInv /\ HistInv
    BY DEF IInv
<1>1. /\ pc = "select" /\ pc' = "done"
      /\ unsettled' = (unsettled \/ cleanup = "err")
      /\ journal' = journal /\ sink' = sink /\ running' = running /\ next_turn' = next_turn
      /\ queued' = queued /\ suspended' = suspended /\ held' = held /\ recovery_requested' = recovery_requested
      /\ closing' = closing /\ armed' = armed /\ signals' = signals /\ cleanup' = cleanup
      /\ task' = task /\ changed' = changed /\ work' = work /\ requested' = requested
      /\ completion' = completion /\ acked' = acked /\ orphaned' = orphaned /\ crashes' = crashes
    BY DEF cleanup_result, select
<1>type. SessionTypeOK'
    BY <1>0, <1>1 DEF SessionTypeOK, DurableTypeOK, ActorTypeOK, TaskTypeOK, Places, Cleanups
<1>good. Good(journal')
    BY <1>0, <1>1
<1>start. StartInv'
    BY <1>0, <1>1 DEF StartInv, Starting
<1>held. HeldInv'
    BY <1>0, <1>1 DEF HeldInv
<1>sync. SyncInv'
    BY <1>0, <1>1 DEF SyncInv, Looping
<1>run. RunInv'
    BY <1>0, <1>1 DEF RunInv, Looping
<1>hist. HistInv'
    BY <1>0, <1>1 DEF HistInv
<1> QED
    BY <1>type, <1>good, <1>start, <1>held, <1>sync, <1>run, <1>hist DEF IInv

(* loop_failure: a failed task is an unproved effect. *)
LEMMA LoopFailureStep ==
    ASSUME IInv, loop_failure
    PROVE  IInv'
<1>0. SessionTypeOK /\ Good(journal) /\ StartInv /\ HeldInv /\ SyncInv /\ RunInv /\ HistInv
    BY DEF IInv
<1>1. /\ pc = "failure" /\ pc' = "start"
      /\ unsettled' = (unsettled \/ failure)
      /\ cleanup' = cleanup
      /\ journal' = journal /\ sink' = sink /\ running' = running /\ next_turn' = next_turn
      /\ queued' = queued /\ suspended' = suspended /\ held' = held /\ recovery_requested' = recovery_requested
      /\ closing' = closing /\ armed' = armed /\ signals' = signals /\ task' = task
      /\ changed' = changed /\ work' = work /\ requested' = requested /\ completion' = completion
      /\ acked' = acked /\ orphaned' = orphaned /\ crashes' = crashes
    BY DEF loop_failure, select
<1>type. SessionTypeOK'
    BY <1>0, <1>1 DEF SessionTypeOK, DurableTypeOK, ActorTypeOK, TaskTypeOK, Places, Cleanups
<1>good. Good(journal')
    BY <1>0, <1>1
<1>start. StartInv'
    BY <1>0, <1>1 DEF StartInv, Starting
<1>held. HeldInv'
    BY <1>0, <1>1 DEF HeldInv
<1>sync. SyncInv'
    BY <1>0, <1>1 DEF SyncInv, Looping
<1>run. RunInv'
    BY <1>0, <1>1 DEF RunInv, Looping
<1>hist. HistInv'
    BY <1>0, <1>1 DEF HistInv
<1> QED
    BY <1>type, <1>good, <1>start, <1>held, <1>sync, <1>run, <1>hist DEF IInv

(* task_panics: the entry of the task stays. *)
LEMMA TaskPanicsStep ==
    ASSUME IInv, NEW t \in Tasks, task_panics(t)
    PROVE  IInv'
<1>0. SessionTypeOK /\ Good(journal) /\ StartInv /\ HeldInv /\ SyncInv /\ RunInv /\ HistInv
    BY DEF IInv
<1>1. /\ task[t] \in {"running", "dropping"} /\ task' = [task EXCEPT ![t] = IF task[t] = "running" THEN "dropping" ELSE "failed"]
      /\ changed' \in BOOLEAN
      /\ journal' = journal /\ sink' = sink /\ pc' = pc /\ running' = running
      /\ next_turn' = next_turn /\ queued' = queued /\ suspended' = suspended /\ held' = held
      /\ recovery_requested' = recovery_requested /\ unsettled' = unsettled /\ closing' = closing /\ armed' = armed
      /\ signals' = signals /\ cleanup' = cleanup /\ work' = work /\ requested' = requested
      /\ completion' = completion /\ acked' = acked /\ orphaned' = orphaned /\ crashes' = crashes
    BY DEF task_panics, guard_drop, SessionTypeOK, TaskTypeOK, IInv
<1>type. SessionTypeOK'
    BY <1>0, <1>1 DEF SessionTypeOK, DurableTypeOK, ActorTypeOK, TaskTypeOK, Entries, Tasks
<1>good. Good(journal')
    BY <1>0, <1>1
<1>start. StartInv'
    BY <1>0, <1>1 DEF StartInv, Starting, Tasks
<1>held. HeldInv'
    BY <1>0, <1>1 DEF HeldInv
<1>sync. SyncInv'
    BY <1>0, <1>1 DEF SyncInv, Looping
<1>run. RunInv'
    BY <1>0, <1>1 DEF RunInv, Looping, SessionTypeOK, TaskTypeOK, Tasks
<1>hist. HistInv'
    BY <1>0, <1>1 DEF HistInv
<1> QED
    BY <1>type, <1>good, <1>start, <1>held, <1>sync, <1>run, <1>hist DEF IInv

(* turn_commits: the task waits for the answer. *)
LEMMA TurnCommitsStep ==
    ASSUME IInv, NEW i \in Inputs, turn_commits(i)
    PROVE  IInv'
<1>0. SessionTypeOK /\ Good(journal) /\ StartInv /\ HeldInv /\ SyncInv /\ RunInv /\ HistInv
    BY DEF IInv
<1>1. /\ task["turn"] = "running" /\ work.stage = "work"
      /\ signals' = (IF pc = "ended" THEN signals ELSE Append(signals, <<"commit", {i}>>))
      /\ work' = [work EXCEPT !.stage = "waiting"]
      /\ journal' = journal /\ sink' = sink /\ pc' = pc /\ running' = running
      /\ next_turn' = next_turn /\ queued' = queued /\ suspended' = suspended /\ held' = held
      /\ recovery_requested' = recovery_requested /\ unsettled' = unsettled /\ closing' = closing /\ armed' = armed
      /\ cleanup' = cleanup /\ task' = task /\ changed' = changed /\ requested' = requested
      /\ completion' = completion /\ acked' = acked /\ orphaned' = orphaned /\ crashes' = crashes
    BY DEF turn_commits, Send
<1>type. SessionTypeOK'
  <2>1. <<"commit", {i}>> \in Signal
      BY SignalForms
  <2>2. signals' \in Seq(Signal)
      BY <1>0, <1>1, <2>1 DEF SessionTypeOK, ActorTypeOK
  <2> QED
      BY <1>0, <1>1, <2>2 DEF SessionTypeOK, DurableTypeOK, ActorTypeOK, TaskTypeOK, Works, Stages, Entries, Tasks, Cleanups
<1>good. Good(journal')
    BY <1>0, <1>1
<1>start. StartInv'
    BY <1>0, <1>1 DEF StartInv, Starting, Tasks
<1>held. HeldInv'
    BY <1>0, <1>1 DEF HeldInv
<1>sync. SyncInv'
    BY <1>0, <1>1 DEF SyncInv, Looping
<1>run. RunInv'
  <2>1. SUFFICES ASSUME running # 0
                 PROVE  RunInv'
      BY <1>1 DEF RunInv
  <2>2. pc # "ended" /\ work.turn = running /\ signals \in Seq(Signal)
      BY <1>0, <2>1 DEF RunInv, Looping, SessionTypeOK, ActorTypeOK
  <2>3. signals' = Append(signals, <<"commit", {i}>>) /\ <<"commit", {i}>> \in Signal
      BY <1>1, <1>type, <2>2, SignalForms
  <2>4. Completes(signals, running) => Completes(signals', running)
      BY <2>2, <2>3, AppendCompletes
  <2> QED
      BY <1>0, <1>1, <2>1, <2>2, <2>4 DEF RunInv, Looping, SessionTypeOK, TaskTypeOK, Works
<1>hist. HistInv'
    BY <1>0, <1>1 DEF HistInv
<1> QED
    BY <1>type, <1>good, <1>start, <1>held, <1>sync, <1>run, <1>hist DEF IInv

(* turn_unsettled: the task reports an unproved effect. *)
LEMMA TurnUnsettledStep ==
    ASSUME IInv, turn_unsettled
    PROVE  IInv'
<1>0. SessionTypeOK /\ Good(journal) /\ StartInv /\ HeldInv /\ SyncInv /\ RunInv /\ HistInv
    BY DEF IInv
<1>1. /\ task["turn"] = "running" /\ work.stage # "sent"
      /\ signals' = (IF pc = "ended" THEN signals ELSE Append(signals, <<"unsettled">>))
      /\ work' = [work EXCEPT !.stage = "panicked"]
      /\ journal' = journal /\ sink' = sink /\ pc' = pc /\ running' = running
      /\ next_turn' = next_turn /\ queued' = queued /\ suspended' = suspended /\ held' = held
      /\ recovery_requested' = recovery_requested /\ unsettled' = unsettled /\ closing' = closing /\ armed' = armed
      /\ cleanup' = cleanup /\ task' = task /\ changed' = changed /\ requested' = requested
      /\ completion' = completion /\ acked' = acked /\ orphaned' = orphaned /\ crashes' = crashes
    BY DEF turn_unsettled, Send
<1>type. SessionTypeOK'
  <2>1. <<"unsettled">> \in Signal
      BY SignalForms
  <2>2. signals' \in Seq(Signal)
      BY <1>0, <1>1, <2>1 DEF SessionTypeOK, ActorTypeOK
  <2> QED
      BY <1>0, <1>1, <2>2 DEF SessionTypeOK, DurableTypeOK, ActorTypeOK, TaskTypeOK, Works, Stages, Entries, Tasks, Cleanups
<1>good. Good(journal')
    BY <1>0, <1>1
<1>start. StartInv'
    BY <1>0, <1>1 DEF StartInv, Starting, Tasks
<1>held. HeldInv'
    BY <1>0, <1>1 DEF HeldInv
<1>sync. SyncInv'
    BY <1>0, <1>1 DEF SyncInv, Looping
<1>run. RunInv'
  <2>1. SUFFICES ASSUME running # 0
                 PROVE  RunInv'
      BY <1>1 DEF RunInv
  <2>2. pc # "ended" /\ work.turn = running /\ signals \in Seq(Signal)
      BY <1>0, <2>1 DEF RunInv, Looping, SessionTypeOK, ActorTypeOK
  <2>3. signals' = Append(signals, <<"unsettled">>) /\ <<"unsettled">> \in Signal
      BY <1>1, <1>type, <2>2, SignalForms
  <2>4. Completes(signals, running) => Completes(signals', running)
      BY <2>2, <2>3, AppendCompletes
  <2> QED
      BY <1>0, <1>1, <2>1, <2>2, <2>4 DEF RunInv, Looping, SessionTypeOK, TaskTypeOK, Works
<1>hist. HistInv'
    BY <1>0, <1>1 DEF HistInv
<1> QED
    BY <1>type, <1>good, <1>start, <1>held, <1>sync, <1>run, <1>hist DEF IInv

(* turn_completes: the completion of the running turn is buffered. *)
LEMMA TurnCompletesStep ==
    ASSUME IInv, turn_completes
    PROVE  IInv'
<1>0. SessionTypeOK /\ Good(journal) /\ StartInv /\ HeldInv /\ SyncInv /\ RunInv /\ HistInv
    BY DEF IInv
<1>2. PICK status \in {"completed", "failed"} :
        signals' = (IF pc = "ended" THEN signals ELSE Append(signals, <<"complete", work.turn, status>>))
    BY DEF turn_completes, Send
<1>1. /\ task["turn"] = "running"
      /\ work' = [work EXCEPT !.stage = "sent"]
      /\ journal' = journal /\ sink' = sink /\ pc' = pc /\ running' = running
      /\ next_turn' = next_turn /\ queued' = queued /\ suspended' = suspended /\ held' = held
      /\ recovery_requested' = recovery_requested /\ unsettled' = unsettled /\ closing' = closing /\ armed' = armed
      /\ cleanup' = cleanup /\ task' = task /\ changed' = changed /\ requested' = requested
      /\ completion' = completion /\ acked' = acked /\ orphaned' = orphaned /\ crashes' = crashes
    BY DEF turn_completes
<1>type. SessionTypeOK'
  <2>1. work.turn \in Nat \ {0}
      BY <1>0, <1>1 DEF SessionTypeOK, TaskTypeOK, Works
  <2>2. <<"complete", work.turn, status>> \in Signal
      BY <2>1, SignalForms
  <2>3. signals' \in Seq(Signal)
      BY <1>0, <1>2, <2>2 DEF SessionTypeOK, ActorTypeOK
  <2> QED
      BY <1>0, <1>1, <2>3, SMTT(60) DEF SessionTypeOK, DurableTypeOK, ActorTypeOK, TaskTypeOK, Works, Stages
<1>good. Good(journal')
    BY <1>0, <1>1
<1>start. StartInv'
    BY <1>0, <1>1 DEF StartInv, Starting, Tasks
<1>held. HeldInv'
    BY <1>0, <1>1 DEF HeldInv
<1>sync. SyncInv'
    BY <1>0, <1>1 DEF SyncInv, Looping
<1>run. RunInv'
  <2>1. SUFFICES ASSUME running # 0
                 PROVE  RunInv'
      BY <1>1 DEF RunInv
  <2>2. pc # "ended" /\ work.turn = running /\ signals \in Seq(Signal) /\ work.turn \in Nat \ {0}
      BY <1>0, <1>1, <2>1 DEF RunInv, Looping, SessionTypeOK, ActorTypeOK, TaskTypeOK, Works
  <2> DEFINE e == <<"complete", work.turn, status>>
  <2>3. signals' = Append(signals, e) /\ e \in Signal
      BY <1>2, <2>2, SignalForms
  <2>4. e[1] = "complete" /\ e[2] = running
      BY <2>2
  <2> HIDE DEF e
  <2>5. Completes(signals', running)
      BY <2>2, <2>3, <2>4, AppendCompletes
  <2> QED
      BY <1>0, <1>1, <2>1, <2>2, <2>5 DEF RunInv, Looping, SessionTypeOK, TaskTypeOK, Works
<1>hist. HistInv'
    BY <1>0, <1>1 DEF HistInv
<1> QED
    BY <1>type, <1>good, <1>start, <1>held, <1>sync, <1>run, <1>hist DEF IInv

(* turn_ends: its completion was buffered before. *)
LEMMA TurnEndsStep ==
    ASSUME IInv, turn_ends
    PROVE  IInv'
<1>0. SessionTypeOK /\ Good(journal) /\ StartInv /\ HeldInv /\ SyncInv /\ RunInv /\ HistInv
    BY DEF IInv
<1>1. /\ task["turn"] = "running" /\ work.stage = "sent"
      /\ task' = [task EXCEPT !["turn"] = "none"]
      /\ changed' = TRUE
      /\ journal' = journal /\ sink' = sink /\ pc' = pc /\ running' = running
      /\ next_turn' = next_turn /\ queued' = queued /\ suspended' = suspended /\ held' = held
      /\ recovery_requested' = recovery_requested /\ unsettled' = unsettled /\ closing' = closing /\ armed' = armed
      /\ signals' = signals /\ cleanup' = cleanup /\ work' = work /\ requested' = requested
      /\ completion' = completion /\ acked' = acked /\ orphaned' = orphaned /\ crashes' = crashes
    BY DEF turn_ends, task_ends
<1>type. SessionTypeOK'
    BY <1>0, <1>1 DEF SessionTypeOK, DurableTypeOK, ActorTypeOK, TaskTypeOK, Entries, Tasks
<1>good. Good(journal')
    BY <1>0, <1>1
<1>start. StartInv'
    BY <1>0, <1>1 DEF StartInv, Starting, Tasks
<1>held. HeldInv'
    BY <1>0, <1>1 DEF HeldInv
<1>sync. SyncInv'
    BY <1>0, <1>1 DEF SyncInv, Looping
<1>run. RunInv'
    BY <1>0, <1>1 DEF RunInv, Looping
<1>hist. HistInv'
    BY <1>0, <1>1 DEF HistInv
<1> QED
    BY <1>type, <1>good, <1>start, <1>held, <1>sync, <1>run, <1>hist DEF IInv

(* title_ends: the title is buffered. *)
LEMMA TitleEndsStep ==
    ASSUME IInv, title_ends
    PROVE  IInv'
<1>0. SessionTypeOK /\ Good(journal) /\ StartInv /\ HeldInv /\ SyncInv /\ RunInv /\ HistInv
    BY DEF IInv
<1>1. /\ task["title"] = "running"
      /\ signals' = (IF pc = "ended" THEN signals ELSE Append(signals, <<"title">>))
      /\ task' = [task EXCEPT !["title"] = "none"]
      /\ changed' = TRUE
      /\ journal' = journal /\ sink' = sink /\ pc' = pc /\ running' = running
      /\ next_turn' = next_turn /\ queued' = queued /\ suspended' = suspended /\ held' = held
      /\ recovery_requested' = recovery_requested /\ unsettled' = unsettled /\ closing' = closing /\ armed' = armed
      /\ cleanup' = cleanup /\ work' = work /\ requested' = requested /\ completion' = completion
      /\ acked' = acked /\ orphaned' = orphaned /\ crashes' = crashes
    BY DEF title_ends, task_ends, Send
<1>type. SessionTypeOK'
  <2>1. <<"title">> \in Signal
      BY SignalForms
  <2>2. signals' \in Seq(Signal)
      BY <1>0, <1>1, <2>1 DEF SessionTypeOK, ActorTypeOK
  <2> QED
      BY <1>0, <1>1, <2>2 DEF SessionTypeOK, DurableTypeOK, ActorTypeOK, TaskTypeOK, Works, Stages, Entries, Tasks, Cleanups
<1>good. Good(journal')
    BY <1>0, <1>1
<1>start. StartInv'
    BY <1>0, <1>1 DEF StartInv, Starting, Tasks
<1>held. HeldInv'
    BY <1>0, <1>1 DEF HeldInv
<1>sync. SyncInv'
    BY <1>0, <1>1 DEF SyncInv, Looping
<1>run. RunInv'
  <2>1. SUFFICES ASSUME running # 0
                 PROVE  RunInv'
      BY <1>1 DEF RunInv
  <2>2. pc # "ended" /\ work.turn = running /\ signals \in Seq(Signal)
      BY <1>0, <2>1 DEF RunInv, Looping, SessionTypeOK, ActorTypeOK
  <2>3. signals' = Append(signals, <<"title">>) /\ <<"title">> \in Signal
      BY <1>1, <1>type, <2>2, SignalForms
  <2>4. Completes(signals, running) => Completes(signals', running)
      BY <2>2, <2>3, AppendCompletes
  <2> QED
      BY <1>0, <1>1, <2>1, <2>2, <2>4 DEF RunInv, Looping, SessionTypeOK, TaskTypeOK, Works, Tasks
<1>hist. HistInv'
    BY <1>0, <1>1 DEF HistInv
<1> QED
    BY <1>type, <1>good, <1>start, <1>held, <1>sync, <1>run, <1>hist DEF IInv

(* cleanup_publishes: the hook is buffered. *)
LEMMA CleanupPublishesStep ==
    ASSUME IInv, cleanup_publishes
    PROVE  IInv'
<1>0. SessionTypeOK /\ Good(journal) /\ StartInv /\ HeldInv /\ SyncInv /\ RunInv /\ HistInv
    BY DEF IInv
<1>1. /\ cleanup = "running" /\ cleanup' = "waiting"
      /\ signals' = (IF pc = "ended" THEN signals ELSE Append(signals, <<"hook">>))
      /\ journal' = journal /\ sink' = sink /\ pc' = pc /\ running' = running
      /\ next_turn' = next_turn /\ queued' = queued /\ suspended' = suspended /\ held' = held
      /\ recovery_requested' = recovery_requested /\ unsettled' = unsettled /\ closing' = closing /\ armed' = armed
      /\ task' = task /\ changed' = changed /\ work' = work /\ requested' = requested
      /\ completion' = completion /\ acked' = acked /\ orphaned' = orphaned /\ crashes' = crashes
    BY DEF cleanup_publishes, Send
<1>type. SessionTypeOK'
  <2>1. <<"hook">> \in Signal
      BY SignalForms
  <2>2. signals' \in Seq(Signal)
      BY <1>0, <1>1, <2>1 DEF SessionTypeOK, ActorTypeOK
  <2> QED
      BY <1>0, <1>1, <2>2 DEF SessionTypeOK, DurableTypeOK, ActorTypeOK, TaskTypeOK, Works, Stages, Entries, Tasks, Cleanups
<1>good. Good(journal')
    BY <1>0, <1>1
<1>start. StartInv'
    BY <1>0, <1>1 DEF StartInv, Starting
<1>held. HeldInv'
    BY <1>0, <1>1 DEF HeldInv
<1>sync. SyncInv'
    BY <1>0, <1>1 DEF SyncInv, Looping
<1>run. RunInv'
  <2>1. SUFFICES ASSUME running # 0
                 PROVE  RunInv'
      BY <1>1 DEF RunInv
  <2>2. pc # "ended" /\ work.turn = running /\ signals \in Seq(Signal)
      BY <1>0, <2>1 DEF RunInv, Looping, SessionTypeOK, ActorTypeOK
  <2>3. signals' = Append(signals, <<"hook">>) /\ <<"hook">> \in Signal
      BY <1>1, <1>type, <2>2, SignalForms
  <2>4. Completes(signals, running) => Completes(signals', running)
      BY <2>2, <2>3, AppendCompletes
  <2> QED
      BY <1>0, <1>1, <2>1, <2>2, <2>4 DEF RunInv, Looping, SessionTypeOK, TaskTypeOK, Works
<1>hist. HistInv'
    BY <1>0, <1>1 DEF HistInv
<1> QED
    BY <1>type, <1>good, <1>start, <1>held, <1>sync, <1>run, <1>hist DEF IInv

(* cleanup_ends: its result. *)
LEMMA CleanupEndsStep ==
    ASSUME IInv, cleanup_ends
    PROVE  IInv'
<1>0. SessionTypeOK /\ Good(journal) /\ StartInv /\ HeldInv /\ SyncInv /\ RunInv /\ HistInv
    BY DEF IInv
<1>1. /\ cleanup = "running" /\ cleanup' \in {"ok", "err"}
      /\ journal' = journal /\ sink' = sink /\ pc' = pc /\ running' = running
      /\ next_turn' = next_turn /\ queued' = queued /\ suspended' = suspended /\ held' = held
      /\ recovery_requested' = recovery_requested /\ unsettled' = unsettled /\ closing' = closing /\ armed' = armed
      /\ signals' = signals /\ task' = task /\ changed' = changed /\ work' = work
      /\ requested' = requested /\ completion' = completion /\ acked' = acked /\ orphaned' = orphaned
      /\ crashes' = crashes
    BY DEF cleanup_ends
<1>type. SessionTypeOK'
    BY <1>0, <1>1 DEF SessionTypeOK, DurableTypeOK, ActorTypeOK, TaskTypeOK, Cleanups
<1>good. Good(journal')
    BY <1>0, <1>1
<1>start. StartInv'
    BY <1>0, <1>1 DEF StartInv, Starting
<1>held. HeldInv'
    BY <1>0, <1>1 DEF HeldInv
<1>sync. SyncInv'
    BY <1>0, <1>1 DEF SyncInv, Looping
<1>run. RunInv'
    BY <1>0, <1>1 DEF RunInv, Looping
<1>hist. HistInv'
    BY <1>0, <1>1 DEF HistInv
<1> QED
    BY <1>type, <1>good, <1>start, <1>held, <1>sync, <1>run, <1>hist DEF IInv

(* crash: only the journal is left. *)
LEMMA CrashStep ==
    ASSUME IInv, crash
    PROVE  IInv'
<1>0. SessionTypeOK /\ Good(journal) /\ StartInv /\ HeldInv /\ SyncInv /\ RunInv /\ HistInv
    BY DEF IInv
<1>1. /\ pc' = "off" /\ crashes < MaxCrashes /\ crashes' = crashes + 1
      /\ running' = 0 /\ next_turn' = 1 /\ queued' = {} /\ held' = {}
      /\ ~suspended' /\ ~recovery_requested' /\ ~unsettled' /\ ~closing' /\ ~armed'
      /\ suspended' \in BOOLEAN /\ recovery_requested' \in BOOLEAN /\ unsettled' \in BOOLEAN /\ closing' \in BOOLEAN
      /\ armed' \in BOOLEAN /\ changed' \in BOOLEAN /\ requested' \in BOOLEAN
      /\ signals' = <<>> /\ cleanup' = "none" /\ task' = [t \in Tasks |-> "none"] /\ work' = Idle /\ completion' = "none"
      /\ journal' = journal /\ sink' = sink /\ acked' = acked /\ orphaned' = orphaned
    BY DEF crash
<1>type. SessionTypeOK'
    BY <1>0, <1>1 DEF SessionTypeOK, DurableTypeOK, ActorTypeOK, TaskTypeOK, Places, Cleanups, Entries, Tasks, Works, Stages, Idle
<1>good. Good(journal')
    BY <1>0, <1>1
<1>start. StartInv'
    BY <1>0, <1>1 DEF StartInv, Starting, Tasks
<1>held. HeldInv'
    BY <1>0, <1>1 DEF HeldInv
<1>sync. SyncInv'
    BY <1>0, <1>1 DEF SyncInv, Looping
<1>run. RunInv'
    BY <1>0, <1>1 DEF RunInv, Looping
<1>hist. HistInv'
    BY <1>0, <1>1 DEF HistInv
<1> QED
    BY <1>type, <1>good, <1>start, <1>held, <1>sync, <1>run, <1>hist DEF IInv

(* actor_ends: the state is dropped. *)
LEMMA ActorEndsStep ==
    ASSUME IInv, actor_ends
    PROVE  IInv'
<1>0. SessionTypeOK /\ Good(journal) /\ StartInv /\ HeldInv /\ SyncInv /\ RunInv /\ HistInv
    BY DEF IInv
<1>1. /\ pc = "done" /\ pc' = "ended"
      /\ running' = 0 /\ next_turn' = 1 /\ queued' = {} /\ held' = {} /\ ~suspended' /\ suspended' \in BOOLEAN
      /\ signals' = <<>> /\ cleanup' = "none" /\ work' = Answer(signals)
      /\ completion' \in {"none", "ok", "err"}
      /\ closing' \in BOOLEAN /\ armed' \in BOOLEAN /\ recovery_requested' \in BOOLEAN /\ changed' \in BOOLEAN /\ unsettled' \in BOOLEAN
      /\ journal' = journal /\ sink' = sink /\ task' = task /\ requested' = requested
      /\ acked' = acked /\ orphaned' = orphaned /\ crashes' = crashes
    BY DEF actor_ends, IInv, SessionTypeOK, TaskTypeOK, ActorTypeOK
<1>type. SessionTypeOK'
  <2>1. work' \in Works /\ work'.turn = work.turn
      BY <1>0, <1>1, AnswerFacts DEF SessionTypeOK, TaskTypeOK
  <2> QED
      BY <1>0, <1>1, <2>1 DEF SessionTypeOK, DurableTypeOK, ActorTypeOK, TaskTypeOK, Places, Cleanups
<1>good. Good(journal')
    BY <1>0, <1>1
<1>start. StartInv'
    BY <1>0, <1>1 DEF StartInv, Starting
<1>held. HeldInv'
    BY <1>0, <1>1 DEF HeldInv
<1>sync. SyncInv'
    BY <1>0, <1>1 DEF SyncInv, Looping
<1>run. RunInv'
    BY <1>0, <1>1 DEF RunInv, Looping
<1>hist. HistInv'
    BY <1>0, <1>1 DEF HistInv
<1> QED
    BY <1>type, <1>good, <1>start, <1>held, <1>sync, <1>run, <1>hist DEF IInv

(* startup_notices: a failure leaves the start unproved. *)
LEMMA StartupNoticesStep ==
    ASSUME IInv, startup_notices
    PROVE  IInv'
<1>0. SessionTypeOK /\ Good(journal) /\ StartInv /\ HeldInv /\ SyncInv /\ RunInv /\ HistInv
    BY DEF IInv
<1>a. /\ journal \in Journal /\ sink \in {"open", "closed"} /\ acked \subseteq Known(journal)
    BY <1>0 DEF SessionTypeOK, DurableTypeOK, HistInv
<1>1. PICK o \in Outcomes :
        /\ emit_batch(o, journal)
        /\ unsettled' = (o # "ok")
        /\ pc' = IF o = "ok" THEN "repair" ELSE "recover"
    BY DEF startup_notices
<1>2. /\ pc = "notices"
      /\ running' = running /\ next_turn' = next_turn /\ queued' = queued /\ suspended' = suspended
      /\ held' = held /\ recovery_requested' = recovery_requested /\ closing' = closing /\ armed' = armed
      /\ signals' = signals /\ cleanup' = cleanup /\ task' = task /\ changed' = changed
      /\ work' = work /\ requested' = requested /\ completion' = completion /\ acked' = acked
      /\ orphaned' = orphaned /\ crashes' = crashes
    BY DEF startup_notices
<1>3. /\ journal' = journal /\ sink' \in {"open", "closed"}
      /\ o = "ok" => sink' = sink /\ pc' = "repair" /\ ~unsettled'
      /\ o # "ok" => pc' = "recover" /\ unsettled'
      /\ unsettled' \in BOOLEAN
    BY <1>a, <1>1, EmitFacts
<1>type. SessionTypeOK'
    BY <1>0, <1>2, <1>3 DEF SessionTypeOK, DurableTypeOK, ActorTypeOK, TaskTypeOK, Places, Cleanups
<1>good. Good(journal')
    BY <1>0, <1>2, <1>3
<1>start. StartInv'
    BY <1>0, <1>2, <1>3 DEF StartInv, Starting
<1>held. HeldInv'
    BY <1>0, <1>2, <1>3 DEF HeldInv
<1>sync. SyncInv'
    BY <1>0, <1>2, <1>3 DEF SyncInv, Looping
<1>run. RunInv'
    BY <1>0, <1>2, <1>3 DEF RunInv, Looping
<1>hist. HistInv'
    BY <1>0, <1>2, <1>3 DEF HistInv
<1> QED
    BY <1>type, <1>good, <1>start, <1>held, <1>sync, <1>run, <1>hist DEF IInv

(* startup_repair: the open turn is closed and its inputs are held. *)
LEMMA StartupRepairStep ==
    ASSUME IInv, startup_repair
    PROVE  IInv'
<1>0. SessionTypeOK /\ Good(journal) /\ StartInv /\ HeldInv /\ SyncInv /\ RunInv /\ HistInv
    BY DEF IInv
<1>a. /\ journal \in Journal /\ sink \in {"open", "closed"} /\ acked \subseteq Known(journal)
    BY <1>0 DEF SessionTypeOK, DurableTypeOK, HistInv
<1>1. PICK o \in Outcomes :
        /\ repair(o)
        /\ unsettled' = (o # "ok")
        /\ pc' = IF o = "ok" THEN "resume" ELSE "recover"
        /\ suspended' = (o = "ok")
        /\ held' = IF o = "ok" THEN Pending(journal) ELSE {}
    BY DEF startup_repair
<1>2. /\ pc = "repair"
      /\ running' = running /\ next_turn' = next_turn /\ queued' = queued /\ recovery_requested' = recovery_requested
      /\ closing' = closing /\ armed' = armed /\ signals' = signals /\ cleanup' = cleanup
      /\ task' = task /\ changed' = changed /\ work' = work /\ requested' = requested
      /\ completion' = completion /\ acked' = acked /\ crashes' = crashes
    BY DEF startup_repair
<1>3. /\ o = "ok" => journal' = Repair(journal) /\ sink' = sink
      /\ Good(journal') /\ journal' \in Journal /\ acked \subseteq Known(journal')
      /\ journal'.dropped = journal.dropped
      /\ sink' \in {"open", "closed"}
    BY <1>0, <1>a, <1>1, RepairFacts
<1>4. /\ OpenTurn(Repair(journal)) = 0 /\ NextTurn(Repair(journal)) = NextTurn(journal)
      /\ Repair(journal).queued = journal.queued /\ Pending(Repair(journal)) = Pending(journal)
    BY <1>0, RepairLemma
<1>5. /\ o = "ok" => pc' = "resume" /\ ~unsettled' /\ suspended' /\ held' = Pending(journal)
      /\ o # "ok" => pc' = "recover" /\ unsettled' /\ ~suspended' /\ held' = {}
      /\ unsettled' \in BOOLEAN /\ suspended' \in BOOLEAN
    BY <1>1
<1>6. orphaned' \in SUBSET Inputs
  <2>1. orphaned' = orphaned \cup Orphans
      BY DEF startup_repair
  <2>2. Orphans = {}
      BY <1>3 DEF Orphans
  <2> QED
      BY <1>0, <2>1, <2>2 DEF SessionTypeOK, DurableTypeOK
<1>7. Pending(journal) \in SUBSET Inputs
    BY DEF Pending
<1>type. SessionTypeOK'
    BY <1>0, <1>2, <1>3, <1>4, <1>5, <1>6, <1>7 DEF SessionTypeOK, DurableTypeOK, ActorTypeOK, TaskTypeOK, Places
<1>good. Good(journal')
    BY <1>3
<1>start. StartInv'
  <2>1. CASE o = "ok"
    <3>1. /\ journal' = Repair(journal) /\ sink' = sink /\ pc' = "resume" /\ ~unsettled' /\ suspended'
          /\ held' = Pending(journal)
        BY <1>3, <1>5, <2>1
    <3>2. OpenTurn(journal') = 0 /\ NextTurn(journal') = NextTurn(journal) /\ journal'.queued = journal.queued
        BY <1>4, <3>1
    <3>3. held' = Pending(journal')
        BY <1>4, <3>1, Zenon
    <3> QED
        BY <1>0, <1>2, <3>1, <3>2, <3>3 DEF StartInv, Starting
  <2>2. CASE o # "ok"
      BY <1>5, <2>2 DEF StartInv, Starting
  <2> QED
      BY <2>1, <2>2
<1>held. HeldInv'
    BY <1>0, <1>2, <1>3, <1>4, <1>5 DEF HeldInv
<1>sync. SyncInv'
    BY <1>0, <1>2, <1>3, <1>4, <1>5 DEF SyncInv, Looping
<1>run. RunInv'
    BY <1>0, <1>2, <1>3, <1>4, <1>5 DEF RunInv, Looping
<1>hist. HistInv'
    BY <1>0, <1>2, <1>3, <1>4, <1>5 DEF HistInv
<1> QED
    BY <1>type, <1>good, <1>start, <1>held, <1>sync, <1>run, <1>hist DEF IInv

(* startup_resume: the suspended inputs and the queue open a turn, or wait. *)
LEMMA StartupResumeStep ==
    ASSUME IInv, startup_resume
    PROVE  IInv'
<1>0. SessionTypeOK /\ Good(journal) /\ StartInv /\ HeldInv /\ SyncInv /\ RunInv /\ HistInv
    BY DEF IInv
<1>a. /\ journal \in Journal /\ sink \in {"open", "closed"} /\ acked \subseteq Known(journal)
    BY <1>0 DEF SessionTypeOK, DurableTypeOK, HistInv
<1>1. /\ pc = "resume" /\ pc' = "recover"
      /\ recovery_requested' = recovery_requested /\ closing' = closing /\ armed' = armed /\ signals' = signals
      /\ cleanup' = cleanup /\ changed' = changed /\ requested' = requested /\ completion' = completion
      /\ acked' = acked /\ orphaned' = orphaned /\ crashes' = crashes
    BY DEF startup_resume
<1>2. /\ running = 0 /\ ~closing /\ ~recovery_requested /\ ~unsettled
      /\ sink = "open" /\ next_turn = NextTurn(journal) /\ queued = journal.queued
      /\ suspended /\ OpenTurn(journal) = 0 /\ held = Pending(journal)
      /\ next_turn \in Nat /\ queued \in SUBSET Inputs
    BY <1>0, <1>1 DEF StartInv, Starting, SessionTypeOK, ActorTypeOK
<1>3. PICK resume_inputs \in BOOLEAN :
        IF resume_inputs /\ (held # {} \/ queued # {})
        THEN \E o \in Outcomes \cup {"invalid"} :
                start_turn(o, {}, queued) /\ unsettled' = (o # "ok")
        ELSE /\ suspended' = ~resume_inputs
             /\ UNCHANGED <<durable, running, next_turn, queued, held, unsettled, task, work>>
    BY DEF startup_resume
<1>4. CASE resume_inputs /\ (held # {} \/ queued # {})
  <2>1. PICK o \in Outcomes \cup {"invalid"} : start_turn(o, {}, queued) /\ unsettled' = (o # "ok")
      BY <1>3, <1>4
  <2>2. {} \in SUBSET Inputs /\ next_turn >= NextTurn(journal)
      BY <1>2
  <2>3. /\ Good(journal') /\ journal' \in Journal /\ acked \subseteq Known(journal')
        /\ sink' \in {"open", "closed"}
        /\ next_turn' \in Nat \ {0} /\ queued' \in SUBSET Inputs /\ held' \in SUBSET Inputs
        /\ suspended' \in BOOLEAN /\ (o # "invalid" => ~suspended' /\ held' = {})
        /\ work' \in Works /\ task' \in [Tasks -> Entries] /\ running' \in Nat
        /\ o = "ok" =>
             /\ running' = next_turn /\ next_turn' = next_turn + 1
             /\ task'["turn"] = "running" /\ task'["title"] = task["title"]
             /\ work'.turn = next_turn /\ work'.stage = "work"
             /\ OpenTurn(journal') = next_turn /\ NextTurn(journal') = next_turn + 1
             /\ {} \subseteq Known(journal')
        /\ o # "ok" => running' = running /\ task' = task /\ work' = work
        /\ o = "refused" => journal' = journal /\ sink' = sink /\ next_turn' = next_turn + 1
        /\ o = "failed" => sink' = "closed"
        /\ o = "invalid" =>
             /\ journal' = journal /\ sink' = sink /\ next_turn' = next_turn
             /\ suspended' = suspended /\ held' = held
      BY <1>0, <1>2, <2>1, <2>2, StartTurnFacts DEF TurnOpened
  <2>4. /\ o # "ok" => unsettled'
        /\ o = "ok" => ~unsettled'
        /\ unsettled' \in BOOLEAN
      BY <2>1
  <2>type. SessionTypeOK'
      BY <1>0, <1>1, <1>2, <2>3, <2>4 DEF SessionTypeOK, DurableTypeOK, ActorTypeOK, TaskTypeOK, Places
  <2>good. Good(journal')
      BY <2>3
  <2>start. StartInv'
      BY <1>0, <1>1, <1>2, <2>3, <2>4 DEF StartInv, Starting
  <2>held. HeldInv'
    <3>1. o = "invalid" \/ held' = {}
        BY <2>3
    <3> QED
        BY <1>0, <1>2, <2>3, <3>1 DEF HeldInv
  <2>sync. SyncInv'
      BY <1>0, <1>1, <1>2, <2>3, <2>4 DEF SyncInv, Looping
  <2>run. RunInv'
    <3>1. CASE o = "ok"
        BY <1>1, <2>3, <3>1 DEF RunInv, Looping
    <3>2. CASE o # "ok"
        BY <1>2, <2>3, <3>2 DEF RunInv
    <3> QED
        BY <3>1, <3>2
  <2>hist. HistInv'
      BY <1>0, <1>1, <1>2, <2>3, <2>4 DEF HistInv
  <2> QED
      BY <2>type, <2>good, <2>start, <2>held, <2>sync, <2>run, <2>hist DEF IInv
<1>5. CASE ~(resume_inputs /\ (held # {} \/ queued # {}))
  <2>1. /\ journal' = journal /\ sink' = sink /\ running' = running /\ next_turn' = next_turn
        /\ queued' = queued /\ held' = held /\ ~unsettled' /\ unsettled' \in BOOLEAN
        /\ task' = task /\ work' = work
    <3>1. UNCHANGED <<durable, running, next_turn, queued, held, unsettled, task, work>>
        BY <1>3, <1>5, Zenon
    <3>2. unsettled \in BOOLEAN
        BY <1>0 DEF SessionTypeOK, ActorTypeOK
    <3> QED
        BY <1>2, <3>1, <3>2
  <2>2. /\ suspended' \in BOOLEAN
        /\ ~suspended' => held = {}
      BY <1>3, <1>5
  <2>type. SessionTypeOK'
      BY <1>0, <1>1, <1>2, <2>1, <2>2 DEF SessionTypeOK, DurableTypeOK, ActorTypeOK, TaskTypeOK, Places, Cleanups
  <2>good. Good(journal')
      BY <1>0, <2>1
  <2>start. StartInv'
      BY <1>0, <1>1, <1>2, <2>1, <2>2 DEF StartInv, Starting
  <2>held. HeldInv'
      BY <1>0, <1>1, <1>2, <2>1, <2>2 DEF HeldInv
  <2>sync. SyncInv'
      BY <1>0, <1>1, <1>2, <2>1, <2>2 DEF SyncInv, Looping
  <2>run. RunInv'
      BY <1>0, <1>1, <1>2, <2>1, <2>2 DEF RunInv, Looping
  <2>hist. HistInv'
      BY <1>0, <1>1, <1>2, <2>1, <2>2 DEF HistInv
  <2> QED
      BY <2>type, <2>good, <2>start, <2>held, <2>sync, <2>run, <2>hist DEF IInv
<1> QED
    BY <1>4, <1>5

(* loop_recover: the fence falls when the journal is repaired and memory rebuilt. *)
LEMMA LoopRecoverStep ==
    ASSUME IInv, loop_recover
    PROVE  IInv'
<1>0. SessionTypeOK /\ Good(journal) /\ StartInv /\ HeldInv /\ SyncInv /\ RunInv /\ HistInv
    BY DEF IInv
<1>a. /\ journal \in Journal /\ sink \in {"open", "closed"} /\ acked \subseteq Known(journal)
    BY <1>0 DEF SessionTypeOK, DurableTypeOK, HistInv
<1>1. /\ pc = "recover" /\ pc' = "failure"
      /\ task' = task /\ changed' = changed /\ requested' = requested /\ completion' = completion
      /\ acked' = acked /\ crashes' = crashes
    BY DEF loop_recover
<1>2. CASE ~(recovery_requested /\ idle /\ ~unsettled)
  <2>1. loop_top /\ UNCHANGED <<durable, memory, recovery_requested, unsettled, signals, work, cleanup, orphaned>>
      BY <1>2 DEF loop_recover
  <2>2. /\ journal' = journal /\ sink' = sink /\ running' = running /\ next_turn' = next_turn
        /\ queued' = queued /\ suspended' = suspended /\ held' = held
        /\ recovery_requested' = recovery_requested /\ unsettled' = unsettled /\ signals' = signals
        /\ work' = work /\ cleanup' = cleanup /\ orphaned' = orphaned
      BY <2>1
  <2>3. /\ closing' \in BOOLEAN /\ armed' \in BOOLEAN
        /\ unsettled => closing'
        /\ closing => closing'
      BY <1>0, <2>1 DEF loop_top, SessionTypeOK, ActorTypeOK
  <2>type. SessionTypeOK'
      BY <1>0, <1>1, <2>2, <2>3 DEF SessionTypeOK, DurableTypeOK, ActorTypeOK, TaskTypeOK, Places, Cleanups
  <2>good. Good(journal')
      BY <1>0, <1>1, <2>2, <2>3
  <2>start. StartInv'
      BY <1>0, <1>1, <2>2, <2>3 DEF StartInv, Starting
  <2>held. HeldInv'
      BY <1>0, <1>1, <2>2, <2>3 DEF HeldInv
  <2>sync. SyncInv'
      BY <1>0, <1>1, <2>2, <2>3 DEF SyncInv, Looping
  <2>run. RunInv'
      BY <1>0, <1>1, <2>2, <2>3 DEF RunInv, Looping
  <2>hist. HistInv'
      BY <1>0, <1>1, <2>2, <2>3 DEF HistInv
  <2> QED
      BY <2>type, <2>good, <2>start, <2>held, <2>sync, <2>run, <2>hist DEF IInv
<1>3. CASE recovery_requested /\ idle /\ ~unsettled
  <2>1. /\ signals' = <<>> /\ work' = Answer(signals) /\ cleanup' = Answered(signals)
        /\ closing' = (closing \/ requested)
        /\ orphaned' = orphaned \cup Orphans
        /\ IF Unproved(signals)
           THEN unsettled' = TRUE /\ armed' = TRUE /\ UNCHANGED <<durable, memory, recovery_requested>>
           ELSE \E o \in Outcomes \cup {"unreadable"} : recover_actor(o) /\ armed' = (closing' \/ unsettled')
      BY <1>3, Zenon DEF loop_recover
  <2>2. /\ work' \in Works /\ work'.turn = work.turn
        /\ cleanup' \in Cleanups /\ signals' \in Seq(Signal)
    <3>1. work \in Works /\ cleanup \in Cleanups
        BY <1>0 DEF SessionTypeOK, ActorTypeOK, TaskTypeOK
    <3>2. work' \in Works /\ work'.turn = work.turn
        BY <2>1, <3>1, AnswerFacts
    <3>3. cleanup' \in Cleanups
        BY <2>1, <3>1 DEF Answered, Cleanups
    <3> QED
        BY <2>1, <3>2, <3>3
  <2>3. closing' \in BOOLEAN
      BY <1>0, <2>1 DEF SessionTypeOK, ActorTypeOK, TaskTypeOK
  <2>4. CASE /\ unsettled' = TRUE /\ armed' \in BOOLEAN
             /\ UNCHANGED <<durable, memory, recovery_requested>>
    <3>1. /\ journal' = journal /\ sink' = sink /\ running' = running /\ next_turn' = next_turn
          /\ queued' = queued /\ suspended' = suspended /\ held' = held
          /\ recovery_requested' = recovery_requested /\ unsettled' /\ unsettled' \in BOOLEAN
          /\ armed' \in BOOLEAN
        BY <2>4
    <3>2. orphaned' \in SUBSET Inputs
      <4>1. Orphans = {}
          BY <3>1 DEF Orphans
      <4> QED
          BY <1>0, <2>1, <4>1 DEF SessionTypeOK, DurableTypeOK
    <3>type. SessionTypeOK'
        BY <1>0, <1>1, <2>2, <2>3, <3>1, <3>2 DEF SessionTypeOK, DurableTypeOK, ActorTypeOK, TaskTypeOK, Places
    <3>good. Good(journal')
        BY <1>0, <3>1
    <3>start. StartInv'
        BY <1>1 DEF StartInv, Starting
    <3>held. HeldInv'
        BY <1>0, <3>1 DEF HeldInv
    <3>sync. SyncInv'
        BY <1>3, <3>1 DEF SyncInv
    <3>run. RunInv'
        BY <1>0, <1>1, <1>3, <2>2, <3>1 DEF RunInv, Looping
    <3>hist. HistInv'
        BY <1>0, <1>1, <3>1 DEF HistInv
    <3> QED
        BY <3>type, <3>good, <3>start, <3>held, <3>sync, <3>run, <3>hist DEF IInv
  <2>5. CASE \E o \in Outcomes : /\ ~failure /\ recover_actor(o) /\ armed' = (closing' \/ unsettled')
    <3>1. PICK o \in Outcomes : ~failure /\ recover_actor(o) /\ armed' = (closing' \/ unsettled')
        BY <2>5
    <3>2. /\ repair(o)
          /\ running' = 0 /\ next_turn' = NextTurn(journal) /\ queued' = journal.queued
          /\ held' = Pending(journal) /\ suspended' = (suspended \/ Pending(journal) # {})
          /\ recovery_requested' = (o # "ok") /\ unsettled' = (o # "ok")
        BY <3>1 DEF recover_actor, Outcomes
    <3>3. /\ o = "ok" => journal' = Repair(journal) /\ sink' = sink
          /\ Good(journal') /\ journal' \in Journal /\ acked \subseteq Known(journal')
          /\ journal'.dropped = journal.dropped
          /\ sink' \in {"open", "closed"}
        BY <1>0, <1>a, <3>2, RepairFacts
    <3>4. OpenTurn(Repair(journal)) = 0 /\ NextTurn(Repair(journal)) = NextTurn(journal)
        BY <1>0, RepairLemma
    <3>5. /\ recovery_requested' \in BOOLEAN /\ unsettled' \in BOOLEAN /\ armed' \in BOOLEAN
          /\ suspended' \in BOOLEAN
          /\ o # "ok" => recovery_requested'
          /\ ~suspended' => held' = {}
        BY <1>0, <2>3, <3>1, <3>2 DEF SessionTypeOK, ActorTypeOK
    <3>6. orphaned' \in SUBSET Inputs
      <4>1. Orphans = {}
          BY <3>3 DEF Orphans
      <4> QED
          BY <1>0, <2>1, <4>1 DEF SessionTypeOK, DurableTypeOK
    <3>7. next_turn' \in Nat \ {0} /\ queued' \in SUBSET Inputs /\ held' \in SUBSET Inputs
      <4>1. Brackets(journal.log)
          BY <1>0 DEF Good
      <4>2. NextTurn(journal) \in Nat \ {0} /\ journal.queued \in SUBSET Inputs
          BY <1>a, <4>1, OpenFacts DEF Journal
      <4> QED
          BY <3>2, <4>2 DEF Pending
    <3>type. SessionTypeOK'
        BY <1>0, <1>1, <2>2, <2>3, <3>2, <3>3, <3>5, <3>6, <3>7 DEF SessionTypeOK, DurableTypeOK, ActorTypeOK, TaskTypeOK, Places
    <3>good. Good(journal')
        BY <3>3
    <3>start. StartInv'
        BY <1>1 DEF StartInv, Starting
    <3>held. HeldInv'
        BY <3>5 DEF HeldInv
    <3>sync. SyncInv'
      <4>1. SUFFICES ASSUME ~recovery_requested'
                     PROVE  running' = OpenTurn(journal') /\ next_turn' >= NextTurn(journal')
          BY DEF SyncInv
      <4>2. journal' = Repair(journal)
          BY <3>3, <3>5, <4>1
      <4>3. OpenTurn(journal') = 0 /\ NextTurn(journal') = next_turn'
          BY <3>2, <3>4, <4>2
      <4> QED
          BY <3>2, <3>7, <4>3
    <3>run. RunInv'
        BY <3>2 DEF RunInv
    <3>hist. HistInv'
        BY <1>1, <3>3 DEF HistInv
    <3> QED
        BY <3>type, <3>good, <3>start, <3>held, <3>sync, <3>run, <3>hist DEF IInv
  <2>6. CASE Unproved(signals)
    <3>1. unsettled' = TRUE /\ armed' \in BOOLEAN /\ UNCHANGED <<durable, memory, recovery_requested>>
        BY <2>1, <2>6
    <3> QED
        BY <2>4, <3>1
  <2>7. CASE ~Unproved(signals)
    <3>1. PICK o \in Outcomes \cup {"unreadable"} : recover_actor(o) /\ armed' = (closing' \/ unsettled')
        BY <2>1, <2>7
    <3>2. CASE failure \/ o = "unreadable"
      <4>1. unsettled' = TRUE /\ UNCHANGED <<durable, memory, recovery_requested>>
          BY <3>1, <3>2, Zenon DEF recover_actor
      <4>2. armed' \in BOOLEAN
          BY <2>3, <3>1, <4>1
      <4> QED
          BY <2>4, <4>1, <4>2
    <3>3. CASE ~(failure \/ o = "unreadable")
      <4>1. o \in Outcomes /\ ~failure
          BY <3>3
      <4> QED
          BY <2>5, <3>1, <4>1
    <3> QED
        BY <3>2, <3>3
  <2> QED
      BY <2>6, <2>7
<1> QED
    BY <1>2, <1>3

(* loop_start: the loop ends, or takes the queue and goes on to wait. *)
LEMMA LoopStartStep ==
    ASSUME IInv, loop_start
    PROVE  IInv'
<1>0. SessionTypeOK /\ Good(journal) /\ StartInv /\ HeldInv /\ SyncInv /\ RunInv /\ HistInv
    BY DEF IInv
<1>a. /\ journal \in Journal /\ sink \in {"open", "closed"} /\ acked \subseteq Known(journal)
    BY <1>0 DEF SessionTypeOK, DurableTypeOK, HistInv
<1>1. /\ pc = "start"
      /\ recovery_requested' = recovery_requested /\ closing' = closing /\ armed' = armed /\ signals' = signals
      /\ changed' = changed /\ requested' = requested /\ completion' = completion /\ acked' = acked
      /\ orphaned' = orphaned /\ crashes' = crashes
    BY DEF loop_start
<1>2. CASE recovery_requested /\ idle /\ unsettled
  <2>1. pc' = "done" /\ UNCHANGED <<durable, memory, unsettled, cleanup, task, work>>
      BY <1>2, Zenon DEF loop_start
  <2>2. /\ pc' = "done"
        /\ journal' = journal /\ sink' = sink /\ running' = running /\ next_turn' = next_turn
        /\ queued' = queued /\ suspended' = suspended /\ held' = held
        /\ unsettled' = unsettled /\ cleanup' = cleanup /\ task' = task /\ work' = work
      BY <2>1
  <2>type. SessionTypeOK'
      BY <1>0, <1>1, <2>2 DEF SessionTypeOK, DurableTypeOK, ActorTypeOK, TaskTypeOK, Places, Cleanups
  <2>good. Good(journal')
      BY <1>0, <1>1, <2>2
  <2>start. StartInv'
      BY <1>0, <1>1, <2>2 DEF StartInv, Starting
  <2>held. HeldInv'
      BY <1>0, <1>1, <2>2 DEF HeldInv
  <2>sync. SyncInv'
      BY <1>0, <1>1, <2>2 DEF SyncInv, Looping
  <2>run. RunInv'
      BY <1>0, <1>1, <2>2 DEF RunInv, Looping
  <2>hist. HistInv'
      BY <1>0, <1>1, <2>2 DEF HistInv
  <2> QED
      BY <2>type, <2>good, <2>start, <2>held, <2>sync, <2>run, <2>hist DEF IInv
<1>3. CASE ~(recovery_requested /\ idle /\ unsettled)
  <2>0. start_cleanup /\ take_queue
      BY <1>3, Zenon DEF loop_start
  <2>c. cleanup' \in Cleanups
      BY <1>0, <2>0 DEF start_cleanup, Cleanups, SessionTypeOK, ActorTypeOK
  <2>5. CASE ~(~closing /\ ~recovery_requested /\ ~suspended /\ running = 0 /\ queued # {})
    <3>1. pc' = "select" /\ UNCHANGED <<durable, memory, unsettled, task, work>>
        BY <2>0, <2>5, Zenon DEF take_queue
    <3>2. /\ pc' = "select"
          /\ journal' = journal /\ sink' = sink /\ running' = running /\ next_turn' = next_turn
          /\ queued' = queued /\ suspended' = suspended /\ held' = held
          /\ unsettled' = unsettled /\ task' = task /\ work' = work
        BY <3>1
    <3>type. SessionTypeOK'
        BY <1>0, <1>1, <2>c, <3>2 DEF SessionTypeOK, DurableTypeOK, ActorTypeOK, TaskTypeOK, Places
    <3>good. Good(journal')
        BY <1>0, <1>1, <3>2
    <3>start. StartInv'
        BY <1>0, <1>1, <3>2 DEF StartInv, Starting
    <3>held. HeldInv'
        BY <1>0, <1>1, <3>2 DEF HeldInv
    <3>sync. SyncInv'
        BY <1>0, <1>1, <3>2 DEF SyncInv, Looping
    <3>run. RunInv'
        BY <1>0, <1>1, <3>2 DEF RunInv, Looping
    <3>hist. HistInv'
        BY <1>0, <1>1, <3>2 DEF HistInv
    <3> QED
        BY <3>type, <3>good, <3>start, <3>held, <3>sync, <3>run, <3>hist DEF IInv
  <2>6. CASE ~closing /\ ~recovery_requested /\ ~suspended /\ running = 0 /\ queued # {}
    <3>1. PICK o \in Outcomes \cup {"invalid"} :
            /\ start_turn(o, queued, {})
            /\ unsettled' = (unsettled \/ o # "ok")
            /\ pc' = IF o = "ok" THEN "select" ELSE "recover"
        BY <2>0, <2>6, Zenon DEF take_queue
    <3>2. /\ {} \in SUBSET Inputs /\ queued \in SUBSET Inputs /\ next_turn \in Nat
          /\ unsettled \in BOOLEAN
          /\ sink = "open" => OpenTurn(journal) = 0 /\ next_turn >= NextTurn(journal)
      <4>1. queued \in SUBSET Inputs /\ next_turn \in Nat /\ unsettled \in BOOLEAN
          BY <1>0 DEF SessionTypeOK, ActorTypeOK
      <4>2. sink = "open" => OpenTurn(journal) = 0 /\ next_turn >= NextTurn(journal)
          BY <1>0, <1>1, <2>6 DEF SyncInv, Looping
      <4> QED
          BY <4>1, <4>2
    <3>3. /\ Good(journal') /\ journal' \in Journal /\ acked \subseteq Known(journal')
          /\ sink' \in {"open", "closed"}
          /\ next_turn' \in Nat \ {0} /\ queued' \in SUBSET Inputs /\ held' \in SUBSET Inputs
          /\ suspended' \in BOOLEAN /\ (o # "invalid" => ~suspended' /\ held' = {})
          /\ work' \in Works /\ task' \in [Tasks -> Entries] /\ running' \in Nat
          /\ o = "ok" =>
               /\ running' = next_turn /\ next_turn' = next_turn + 1
               /\ task'["turn"] = "running" /\ task'["title"] = task["title"]
               /\ work'.turn = next_turn /\ work'.stage = "work"
               /\ OpenTurn(journal') = next_turn /\ NextTurn(journal') = next_turn + 1
               /\ queued \subseteq Known(journal')
          /\ o # "ok" => running' = running /\ task' = task /\ work' = work
          /\ o = "refused" => journal' = journal /\ sink' = sink /\ next_turn' = next_turn + 1
          /\ o = "failed" => sink' = "closed"
          /\ o = "invalid" =>
               /\ journal' = journal /\ sink' = sink /\ next_turn' = next_turn
               /\ suspended' = suspended /\ held' = held
        BY <1>0, <3>1, <3>2, StartTurnFacts DEF TurnOpened
    <3>4. /\ o # "ok" => unsettled' /\ pc' = "recover"
          /\ o = "ok" => pc' = "select"
          /\ unsettled' \in BOOLEAN
        BY <3>1, <3>2
    <3>type. SessionTypeOK'
        BY <1>0, <1>1, <2>c, <3>2, <3>3, <3>4 DEF SessionTypeOK, DurableTypeOK, ActorTypeOK, TaskTypeOK, Places
    <3>good. Good(journal')
        BY <3>3
    <3>start. StartInv'
        BY <1>1, <3>4 DEF StartInv, Starting
    <3>held. HeldInv'
      <4>1. o = "invalid" \/ held' = {}
          BY <3>3
      <4> QED
          BY <1>0, <3>3, <4>1 DEF HeldInv
    <3>sync. SyncInv'
        BY <1>0, <1>1, <2>6, <3>2, <3>3, <3>4 DEF SyncInv, Looping
    <3>run. RunInv'
      <4>1. CASE o = "ok"
          BY <1>1, <3>3, <3>4, <4>1 DEF RunInv, Looping
      <4>2. CASE o # "ok"
          BY <2>6, <3>3, <4>2 DEF RunInv
      <4> QED
          BY <4>1, <4>2
    <3>hist. HistInv'
        BY <1>1, <3>3 DEF HistInv
    <3> QED
        BY <3>type, <3>good, <3>start, <3>held, <3>sync, <3>run, <3>hist DEF IInv
  <2> QED
      BY <2>5, <2>6
<1> QED
    BY <1>2, <1>3

(* send_message: the message is queued, or opens a turn. *)
LEMMA SendMessageStep ==
    ASSUME IInv, NEW i \in Inputs, send_message(i)
    PROVE  IInv'
<1>0. SessionTypeOK /\ Good(journal) /\ StartInv /\ HeldInv /\ SyncInv /\ RunInv /\ HistInv
    BY DEF IInv
<1>a. /\ journal \in Journal /\ sink \in {"open", "closed"} /\ acked \subseteq Known(journal)
    BY <1>0 DEF SessionTypeOK, DurableTypeOK, HistInv
<1>1. /\ pc = "select" /\ pc' = "recover" /\ ~closing /\ ~recovery_requested
      /\ recovery_requested' = recovery_requested /\ unsettled' = unsettled /\ closing' = closing /\ armed' = armed
      /\ signals' = signals /\ cleanup' = cleanup /\ changed' = changed /\ requested' = requested
      /\ completion' = completion /\ orphaned' = orphaned /\ crashes' = crashes
    BY DEF send_message, select
<1>2. CASE running # 0
  <2>1. PICK o \in Outcomes :
          /\ emit_batch(o, MessageQueued(journal, i))
          /\ queued' = IF o = "ok" THEN queued \cup {i} ELSE queued
          /\ acked' = IF o = "ok" THEN acked \cup {i} ELSE acked
          /\ UNCHANGED <<running, next_turn, suspended, held, task, work>>
      BY <1>2, Zenon DEF send_message
  <2>2. /\ Good(MessageQueued(journal, i))
        /\ OpenTurn(MessageQueued(journal, i)) = OpenTurn(journal)
        /\ NextTurn(MessageQueued(journal, i)) = NextTurn(journal)
        /\ Known(MessageQueued(journal, i)) = Known(journal) \cup {i}
      BY <1>0, QueuedLemma, KnownLemma
  <2>3. Good(journal') /\ journal' \in Journal /\ acked \subseteq Known(journal')
      BY <1>0, <1>a, <2>1, <2>2, EmitGood
  <2>4. /\ OpenTurn(journal') = OpenTurn(journal) /\ NextTurn(journal') = NextTurn(journal)
        /\ sink' \in {"open", "closed"}
        /\ sink' = "open" => sink = "open"
        /\ o = "ok" => i \in Known(journal')
    <3>1. /\ o = "ok" => journal' = MessageQueued(journal, i)
          /\ journal' = journal \/ journal' = MessageQueued(journal, i)
          /\ sink' \in {"open", "closed"}
          /\ sink' = "open" => sink = "open"
        BY <1>a, <2>1, EmitFacts DEF Outcomes
    <3> QED
        BY <2>2, <3>1
  <2>5. /\ running' = running /\ next_turn' = next_turn /\ suspended' = suspended /\ held' = held
        /\ task' = task /\ work' = work
      BY <2>1
  <2>6. queued' \in SUBSET Inputs /\ acked' \in SUBSET Inputs /\ acked' \subseteq Known(journal')
      BY <1>0, <2>1, <2>3, <2>4 DEF SessionTypeOK, DurableTypeOK, ActorTypeOK
  <2>type. SessionTypeOK'
      BY <1>0, <1>1, <2>3, <2>4, <2>5, <2>6 DEF SessionTypeOK, DurableTypeOK, ActorTypeOK, TaskTypeOK, Places
  <2>good. Good(journal')
      BY <2>3
  <2>start. StartInv'
      BY <1>1 DEF StartInv, Starting
  <2>held. HeldInv'
      BY <1>0, <1>1, <2>4, <2>5 DEF HeldInv
  <2>sync. SyncInv'
      BY <1>0, <1>1, <2>4, <2>5 DEF SyncInv, Looping
  <2>run. RunInv'
      BY <1>0, <1>1, <2>4, <2>5 DEF RunInv, Looping
  <2>hist. HistInv'
      BY <2>6 DEF HistInv
  <2> QED
      BY <2>type, <2>good, <2>start, <2>held, <2>sync, <2>run, <2>hist DEF IInv
<1>3. CASE running = 0
  <2>1. PICK o \in Outcomes :
          /\ start_turn(o, {i}, queued)
          /\ acked' = IF o = "ok" THEN acked \cup {i} ELSE acked
      BY <1>3, Zenon DEF send_message
  <2>2. /\ {i} \in SUBSET Inputs /\ queued \in SUBSET Inputs /\ next_turn \in Nat
        /\ o \in Outcomes \cup {"invalid"} /\ o # "invalid"
        /\ sink = "open" => OpenTurn(journal) = 0 /\ next_turn >= NextTurn(journal)
    <3>1. queued \in SUBSET Inputs /\ next_turn \in Nat
        BY <1>0 DEF SessionTypeOK, ActorTypeOK
    <3>2. sink = "open" => OpenTurn(journal) = 0 /\ next_turn >= NextTurn(journal)
        BY <1>0, <1>1, <1>3 DEF SyncInv, Looping
    <3> QED
        BY <3>1, <3>2 DEF Outcomes
  <2> DEFINE M == {i}
  <2>m. M \in SUBSET Inputs /\ start_turn(o, M, queued)
      BY <2>1
  <2>i. i \in M
      OBVIOUS
  <2> HIDE DEF M
  <2>3. /\ Good(journal') /\ journal' \in Journal /\ acked \subseteq Known(journal')
        /\ sink' \in {"open", "closed"}
        /\ next_turn' \in Nat \ {0} /\ queued' \in SUBSET Inputs /\ held' \in SUBSET Inputs
        /\ suspended' \in BOOLEAN /\ (o # "invalid" => ~suspended' /\ held' = {})
        /\ work' \in Works /\ task' \in [Tasks -> Entries] /\ running' \in Nat
        /\ o = "ok" =>
             /\ running' = next_turn /\ next_turn' = next_turn + 1
             /\ task'["turn"] = "running" /\ task'["title"] = task["title"]
             /\ work'.turn = next_turn /\ work'.stage = "work"
             /\ OpenTurn(journal') = next_turn /\ NextTurn(journal') = next_turn + 1
             /\ M \subseteq Known(journal')
        /\ o # "ok" => running' = running /\ task' = task /\ work' = work
        /\ o = "refused" => journal' = journal /\ sink' = sink /\ next_turn' = next_turn + 1
        /\ o = "failed" => sink' = "closed"
        /\ o = "invalid" =>
             /\ journal' = journal /\ sink' = sink /\ next_turn' = next_turn
             /\ suspended' = suspended /\ held' = held
      BY <1>0, <2>m, <2>2, StartTurnFacts DEF TurnOpened
  <2>4. acked' \in SUBSET Inputs /\ acked' \subseteq Known(journal')
      BY <1>0, <2>1, <2>3, <2>i DEF SessionTypeOK, DurableTypeOK
  <2>type. SessionTypeOK'
      BY <1>0, <1>1, <2>3, <2>4 DEF SessionTypeOK, DurableTypeOK, ActorTypeOK, TaskTypeOK, Places
  <2>good. Good(journal')
      BY <2>3
  <2>start. StartInv'
      BY <1>1 DEF StartInv, Starting
  <2>held. HeldInv'
      BY <2>2, <2>3 DEF HeldInv
  <2>sync. SyncInv'
    <3>1. NextTurn(journal) \in Nat
        BY <1>0, <1>a, OpenFacts DEF Good
    <3>2. CASE o = "ok"
        BY <2>2, <2>3, <3>2 DEF SyncInv
    <3>3. CASE o = "refused"
        BY <1>3, <2>2, <2>3, <3>1, <3>3 DEF SyncInv
    <3>4. CASE o = "failed"
        BY <2>3, <3>4 DEF SyncInv
    <3> QED
        BY <3>2, <3>3, <3>4 DEF Outcomes
  <2>run. RunInv'
    <3>1. CASE o = "ok"
        BY <1>1, <2>3, <3>1 DEF RunInv, Looping
    <3>2. CASE o # "ok"
        BY <1>3, <2>3, <3>2 DEF RunInv
    <3> QED
        BY <3>1, <3>2
  <2>hist. HistInv'
      BY <2>4 DEF HistInv
  <2> QED
      BY <2>type, <2>good, <2>start, <2>held, <2>sync, <2>run, <2>hist DEF IInv
<1> QED
    BY <1>2, <1>3

(* What every signal handler leaves alone. *)
Handled ==
    /\ pc = "select" /\ pc' = "recover"
    /\ signals # <<>> /\ signals' = Tail(signals)
    /\ UNCHANGED <<closing, armed, changed, handle, acked, crashes>>

LEMMA HandledRun ==
    ASSUME SessionTypeOK, RunInv, Handled,
           running' = 0 \/ running' = running,
           work'.turn = work.turn, work'.stage = "sent" => work.stage = "sent",
           task'["turn"] = task["turn"],
           recovery_requested => recovery_requested',
           running' # 0 /\ ~recovery_requested => ~(Head(signals)[1] = "complete" /\ Head(signals)[2] = running)
    PROVE  RunInv'
<1>1. SUFFICES ASSUME running' # 0
               PROVE  RunInv'
    BY DEF RunInv
<1>2. running' = running /\ work'.turn = running' /\ pc' = "recover"
    BY <1>1 DEF RunInv, Handled
<1>3. ASSUME ~recovery_requested', task'["turn"] = "none" \/ work'.stage = "sent"
      PROVE  Completes(signals', running')
  <2>1. ~recovery_requested /\ Completes(signals, running)
      BY <1>2, <1>3, <1>1 DEF RunInv
  <2>2. signals \in Seq(Signal)
      BY DEF SessionTypeOK, ActorTypeOK
  <2>3. Completes(Tail(signals), running)
      BY <1>1, <2>1, <2>2, TailCompletes DEF Handled
  <2> QED
      BY <1>2, <2>3 DEF Handled
<1> QED
    BY <1>2, <1>3 DEF RunInv, Looping

LEMMA SignalFailedFacts ==
    ASSUME SessionTypeOK, signal_failed
    PROVE  /\ unsettled' \in BOOLEAN /\ recovery_requested' \in BOOLEAN
           /\ unsettled' \/ recovery_requested'
           /\ unsettled => unsettled'
           /\ recovery_requested => recovery_requested'
           /\ closing => unsettled' /\ (recovery_requested' => recovery_requested)
<1>1. unsettled \in BOOLEAN /\ recovery_requested \in BOOLEAN /\ closing \in BOOLEAN
    BY DEF SessionTypeOK, ActorTypeOK
<1>2. CASE closing
  <2>1. unsettled' = TRUE /\ recovery_requested' = recovery_requested
      BY <1>2, Zenon DEF signal_failed
  <2> QED
      BY <1>1, <1>2, <2>1
<1>3. CASE ~closing
  <2>1. recovery_requested' = TRUE /\ unsettled' = (unsettled \/ failure)
      BY <1>3, Zenon DEF signal_failed, request_recovery
  <2> QED
      BY <1>1, <1>3, <2>1
<1> QED
    BY <1>2, <1>3

(* A handler that commits batch j, which moves no turn. *)
LEMMA CommitHandled ==
    ASSUME IInv, Handled, ~recovery_requested, NEW o \in Outcomes, NEW j, emit_batch(o, j),
           Good(j), Known(journal) \subseteq Known(j),
           OpenTurn(j) = OpenTurn(journal), NextTurn(j) = NextTurn(journal),
           IF o = "ok" THEN UNCHANGED <<recovery_requested, unsettled>> ELSE signal_failed,
           UNCHANGED <<memory, task, orphaned>>,
           work' \in Works, work'.turn = work.turn, work'.stage = "sent" => work.stage = "sent",
           cleanup' \in Cleanups,
           Head(signals)[1] # "complete"
    PROVE  IInv'
<1>0. SessionTypeOK /\ Good(journal) /\ StartInv /\ HeldInv /\ SyncInv /\ RunInv /\ HistInv
    BY DEF IInv
<1>a. /\ journal \in Journal /\ sink \in {"open", "closed"} /\ acked \subseteq Known(journal)
      /\ unsettled \in BOOLEAN /\ recovery_requested \in BOOLEAN /\ signals' \in Seq(Signal)
    BY <1>0 DEF SessionTypeOK, DurableTypeOK, ActorTypeOK, HistInv, Handled
<1>h. /\ pc = "select" /\ pc' = "recover"
      /\ closing' = closing /\ armed' = armed /\ changed' = changed /\ requested' = requested
      /\ completion' = completion /\ acked' = acked /\ crashes' = crashes
    BY DEF Handled
<1>1. Good(journal') /\ journal' \in Journal /\ acked \subseteq Known(journal')
    BY <1>0, <1>a, EmitGood
<1>2. /\ OpenTurn(journal') = OpenTurn(journal) /\ NextTurn(journal') = NextTurn(journal)
      /\ sink' \in {"open", "closed"}
      /\ o = "ok" => sink = "open"
  <2>1. /\ journal' = journal \/ journal' = j
        /\ sink' \in {"open", "closed"}
        /\ o = "ok" => sink = "open"
      BY <1>a, EmitFacts
  <2> QED
      BY <2>1
<1>3. /\ unsettled' \in BOOLEAN /\ recovery_requested' \in BOOLEAN
      /\ o # "ok" => unsettled' \/ recovery_requested'
      /\ unsettled => unsettled'
  <2>1. CASE o = "ok"
    <3>1. UNCHANGED <<recovery_requested, unsettled>>
        BY <2>1
    <3> QED
        BY <1>a, <2>1, <3>1
  <2>2. CASE o # "ok"
    <3>1. signal_failed
        BY <2>2
    <3> QED
        BY <1>0, <3>1, SignalFailedFacts
  <2> QED
      BY <2>1, <2>2
<1>4. /\ running' = running /\ next_turn' = next_turn /\ queued' = queued /\ suspended' = suspended
      /\ held' = held /\ task' = task /\ orphaned' = orphaned
    OBVIOUS
<1>type. SessionTypeOK'
    BY <1>0, <1>a, <1>h, <1>1, <1>2, <1>3, <1>4 DEF SessionTypeOK, DurableTypeOK, ActorTypeOK, TaskTypeOK, Places
<1>good. Good(journal')
    BY <1>1
<1>start. StartInv'
    BY <1>h DEF StartInv, Starting
<1>held. HeldInv'
    BY <1>0, <1>h, <1>2, <1>3, <1>4 DEF HeldInv
<1>sync. SyncInv'
    BY <1>0, <1>h, <1>2, <1>3, <1>4 DEF SyncInv, Looping
<1>run. RunInv'
    BY <1>0, <1>4, HandledRun
<1>hist. HistInv'
    BY <1>1, <1>h DEF HistInv
<1> QED
    BY <1>type, <1>good, <1>start, <1>held, <1>sync, <1>run, <1>hist DEF IInv

LEMMA DurableEventStep ==
    ASSUME IInv, Handled, ~recovery_requested, NEW o \in Outcomes,
           Head(signals)[1] \in {"commit", "hook"}, durable_event(o, Head(signals))
    PROVE  IInv'
<1>0. SessionTypeOK /\ Good(journal) /\ StartInv /\ HeldInv /\ SyncInv /\ RunInv /\ HistInv
    BY DEF IInv
<1>a. /\ journal \in Journal /\ sink \in {"open", "closed"} /\ acked \subseteq Known(journal)
      /\ unsettled \in BOOLEAN /\ recovery_requested \in BOOLEAN /\ signals' \in Seq(Signal)
    BY <1>0 DEF SessionTypeOK, DurableTypeOK, ActorTypeOK, HistInv, Handled
<1>h. /\ pc = "select" /\ pc' = "recover"
      /\ closing' = closing /\ armed' = armed /\ changed' = changed /\ requested' = requested
      /\ completion' = completion /\ acked' = acked /\ crashes' = crashes
    BY DEF Handled
<1> DEFINE s == Head(signals)
           j == IF s[1] = "commit" THEN ConversationInputCommitted(journal, s[2]) ELSE journal
<1>1. s \in Signal
    BY <1>0 DEF SessionTypeOK, ActorTypeOK, Handled
<1>2. /\ emit_batch(o, j)
      /\ work' = IF s[1] # "commit" THEN work
                 ELSE IF o = "ok" THEN [work EXCEPT !.left = @ \ s[2], !.stage = "work"]
                 ELSE [work EXCEPT !.stage = "stop"]
      /\ cleanup' = IF s[1] # "hook" THEN cleanup ELSE IF o = "ok" THEN "running" ELSE "err"
      /\ IF o = "ok" THEN UNCHANGED <<recovery_requested, unsettled>> ELSE signal_failed
      /\ UNCHANGED <<memory, task, orphaned>>
    BY Zenon DEF durable_event
<1>3. s[1] = "commit" => s[2] \in SUBSET Inputs
    BY <1>1, SignalKinds
<1> HIDE DEF s
<1>4. /\ Good(j) /\ Known(journal) \subseteq Known(j)
      /\ OpenTurn(j) = OpenTurn(journal) /\ NextTurn(j) = NextTurn(journal)
  <2>1. CASE s[1] = "commit"
    <3>1. j = ConversationInputCommitted(journal, s[2])
        BY <2>1
    <3> HIDE DEF j
    <3> QED
        BY <1>0, <1>3, <2>1, <3>1, CommittedLemma, KnownLemma
  <2>2. CASE s[1] # "commit"
    <3>1. j = journal
        BY <2>2
    <3> HIDE DEF j
    <3> QED
        BY <1>0, <3>1
  <2> QED
      BY <2>1, <2>2
<1>5. work' \in Works /\ work'.turn = work.turn /\ (work'.stage = "sent" => work.stage = "sent")
  <2>1. work \in Works
      BY <1>0 DEF SessionTypeOK, TaskTypeOK
  <2> QED
      BY <1>2, <2>1 DEF Works, Stages
<1>6. cleanup' \in Cleanups
    BY <1>0, <1>2 DEF Cleanups, SessionTypeOK, ActorTypeOK
<1>7. Head(signals)[1] # "complete"
    OBVIOUS
<1> HIDE DEF j
<1> QED
    BY <1>2, <1>4, <1>5, <1>6, <1>7, CommitHandled

LEMMA TitleGeneratedStep ==
    ASSUME IInv, Handled, ~recovery_requested, NEW o \in Outcomes,
           Head(signals)[1] = "title", title_generated(o)
    PROVE  IInv'
<1>0. SessionTypeOK /\ Good(journal) /\ StartInv /\ HeldInv /\ SyncInv /\ RunInv /\ HistInv
    BY DEF IInv
<1>a. /\ journal \in Journal /\ sink \in {"open", "closed"} /\ acked \subseteq Known(journal)
      /\ unsettled \in BOOLEAN /\ recovery_requested \in BOOLEAN /\ signals' \in Seq(Signal)
    BY <1>0 DEF SessionTypeOK, DurableTypeOK, ActorTypeOK, HistInv, Handled
<1>h. /\ pc = "select" /\ pc' = "recover"
      /\ closing' = closing /\ armed' = armed /\ changed' = changed /\ requested' = requested
      /\ completion' = completion /\ acked' = acked /\ crashes' = crashes
    BY DEF Handled
<1>1. /\ emit_batch(o, SessionTitleUpdated(journal))
      /\ IF o = "ok" THEN UNCHANGED <<recovery_requested, unsettled>> ELSE signal_failed
      /\ UNCHANGED <<memory, task, orphaned>>
      /\ work' = work /\ cleanup' = cleanup
    BY Zenon DEF title_generated
<1>2. /\ Good(SessionTitleUpdated(journal)) /\ Known(journal) \subseteq Known(SessionTitleUpdated(journal))
      /\ OpenTurn(SessionTitleUpdated(journal)) = OpenTurn(journal)
      /\ NextTurn(SessionTitleUpdated(journal)) = NextTurn(journal)
    BY <1>0, TitledLemma, KnownLemma
<1>3. /\ work' \in Works /\ work'.turn = work.turn /\ (work'.stage = "sent" => work.stage = "sent")
      /\ cleanup' \in Cleanups /\ Head(signals)[1] # "complete"
    BY <1>0, <1>1 DEF SessionTypeOK, ActorTypeOK, TaskTypeOK
<1> QED
    BY <1>1, <1>2, <1>3, CommitHandled

LEMMA EffectsUnsettledStep ==
    ASSUME IInv, Handled, ~recovery_requested, NEW o \in Outcomes,
           Head(signals)[1] = "unsettled", effects_unsettled(o)
    PROVE  IInv'
<1>0. SessionTypeOK /\ Good(journal) /\ StartInv /\ HeldInv /\ SyncInv /\ RunInv /\ HistInv
    BY DEF IInv
<1>a. /\ journal \in Journal /\ sink \in {"open", "closed"} /\ acked \subseteq Known(journal)
      /\ unsettled \in BOOLEAN /\ recovery_requested \in BOOLEAN /\ signals' \in Seq(Signal)
    BY <1>0 DEF SessionTypeOK, DurableTypeOK, ActorTypeOK, HistInv, Handled
<1>h. /\ pc = "select" /\ pc' = "recover"
      /\ closing' = closing /\ armed' = armed /\ changed' = changed /\ requested' = requested
      /\ completion' = completion /\ acked' = acked /\ crashes' = crashes
    BY DEF Handled
<1>1. /\ emit_batch(o, journal)
      /\ unsettled' = TRUE
      /\ recovery_requested' = (recovery_requested \/ (o # "ok" /\ ~closing))
      /\ UNCHANGED <<memory, work, cleanup, task, orphaned>>
    BY Zenon DEF effects_unsettled
<1>2. journal' = journal /\ sink' \in {"open", "closed"}
    BY <1>a, <1>1, EmitFacts
<1>3. unsettled' \in BOOLEAN /\ unsettled' /\ recovery_requested' \in BOOLEAN
    BY <1>1
<1>4. /\ running' = running /\ next_turn' = next_turn /\ queued' = queued /\ suspended' = suspended
      /\ held' = held /\ work' = work /\ cleanup' = cleanup /\ task' = task /\ orphaned' = orphaned
    BY <1>1
<1>type. SessionTypeOK'
    BY <1>0, <1>a, <1>h, <1>2, <1>3, <1>4 DEF SessionTypeOK, DurableTypeOK, ActorTypeOK, TaskTypeOK, Places
<1>good. Good(journal')
    BY <1>0, <1>2
<1>start. StartInv'
    BY <1>h DEF StartInv, Starting
<1>held. HeldInv'
    BY <1>0, <1>h, <1>2, <1>3, <1>4 DEF HeldInv
<1>sync. SyncInv'
    BY <1>0, <1>h, <1>2, <1>3, <1>4 DEF SyncInv, Looping
<1>run. RunInv'
    BY <1>0, <1>4, HandledRun
<1>hist. HistInv'
    BY <1>0, <1>2, <1>h DEF HistInv
<1> QED
    BY <1>type, <1>good, <1>start, <1>held, <1>sync, <1>run, <1>hist DEF IInv

LEMMA CompleteStep ==
    ASSUME IInv, Handled, ~recovery_requested, NEW o \in Outcomes, NEW status,
           Head(signals)[1] = "complete", complete(o, Head(signals)[2], status)
    PROVE  IInv'
<1>0. SessionTypeOK /\ Good(journal) /\ StartInv /\ HeldInv /\ SyncInv /\ RunInv /\ HistInv
    BY DEF IInv
<1>a. /\ journal \in Journal /\ sink \in {"open", "closed"} /\ acked \subseteq Known(journal)
      /\ unsettled \in BOOLEAN /\ recovery_requested \in BOOLEAN /\ signals' \in Seq(Signal)
    BY <1>0 DEF SessionTypeOK, DurableTypeOK, ActorTypeOK, HistInv, Handled
<1>h. /\ pc = "select" /\ pc' = "recover"
      /\ closing' = closing /\ armed' = armed /\ changed' = changed /\ requested' = requested
      /\ completion' = completion /\ acked' = acked /\ crashes' = crashes
    BY DEF Handled
<1> DEFINE t == Head(signals)[2]
<1>1. t \in Nat \ {0}
  <2>1. Head(signals) \in Signal
      BY <1>0 DEF SessionTypeOK, ActorTypeOK, Handled
  <2> QED
      BY <2>1, SignalKinds
<1>2. /\ complete(o, t, status)
      /\ t = Head(signals)[2]
    OBVIOUS
<1> HIDE DEF t
<1>3. /\ running' = IF running = t THEN 0 ELSE running
      /\ next_turn' = next_turn /\ queued' = queued /\ suspended' = suspended /\ held' = held
      /\ work' = work /\ cleanup' = cleanup
      /\ orphaned' = orphaned \cup Orphans
    BY <1>2 DEF complete
<1>4. running' \in Nat /\ (running' = 0 \/ running' = running)
    BY <1>0, <1>3 DEF SessionTypeOK, ActorTypeOK
<1>5. running' # 0 => running # t
    BY <1>3
<1>r. /\ work'.turn = work.turn /\ (work'.stage = "sent" => work.stage = "sent")
      /\ (running' # 0 => ~(Head(signals)[1] = "complete" /\ Head(signals)[2] = running))
    BY <1>2, <1>3, <1>5
<1>6. CASE running # t \/ unsettled
  <2>1. UNCHANGED <<durable, recovery_requested, unsettled, task>>
      BY <1>2, <1>6, Zenon DEF complete
  <2>2. /\ journal' = journal /\ sink' = sink /\ recovery_requested' = recovery_requested
        /\ unsettled' = unsettled /\ task' = task
      BY <2>1
  <2>3. orphaned' \in SUBSET Inputs
    <3>1. Orphans = {}
        BY <2>2 DEF Orphans
    <3> QED
        BY <1>0, <1>3, <3>1 DEF SessionTypeOK, DurableTypeOK
  <2>type. SessionTypeOK'
      BY <1>0, <1>a, <1>h, <1>3, <1>4, <2>2, <2>3 DEF SessionTypeOK, DurableTypeOK, ActorTypeOK, TaskTypeOK, Places
  <2>good. Good(journal')
      BY <1>0, <1>h, <1>3, <2>2
  <2>start. StartInv'
      BY <1>h DEF StartInv, Starting
  <2>held. HeldInv'
      BY <1>0, <1>h, <1>3, <2>2 DEF HeldInv
  <2>sync. SyncInv'
    <3>1. CASE unsettled
      <4>1. unsettled'
          BY <2>2, <3>1
      <4> QED
          BY <1>h, <4>1 DEF SyncInv
    <3>2. CASE running # t /\ ~unsettled
      <4>1. running' = running
          BY <1>3, <3>2
      <4> QED
          BY <1>0, <1>h, <1>3, <2>2, <3>2, <4>1 DEF SyncInv, Looping
    <3> QED
        BY <1>6, <3>1, <3>2
  <2>run. RunInv'
      BY <1>0, <1>4, <1>r, <2>2, HandledRun
  <2>hist. HistInv'
      BY <1>0, <1>h, <1>3, <2>2 DEF HistInv
  <2> QED
      BY <2>type, <2>good, <2>start, <2>held, <2>sync, <2>run, <2>hist DEF IInv
<1>7. CASE running = t /\ ~unsettled
  <2>1. /\ emit_batch(o, TurnFinished(journal, t))
        /\ IF o = "ok" THEN UNCHANGED <<recovery_requested, unsettled>> ELSE signal_failed
        /\ task' = IF o = "ok" /\ status = "completed" /\ ~closing /\ ~journal.titled
                      /\ task["title"] = "none"
                   THEN [task EXCEPT !["title"] = "running"] ELSE task
      BY <1>2, <1>7, Zenon DEF complete
  <2>2. running' = 0
      BY <1>3, <1>7
  <2>3. sink = "open" => OpenTurn(journal) = t /\ t # 0 /\ next_turn >= NextTurn(journal)
      BY <1>0, <1>1, <1>h, <1>7 DEF SyncInv, Looping
  <2>4. sink = "open" =>
          /\ Good(TurnFinished(journal, t)) /\ OpenTurn(TurnFinished(journal, t)) = 0
          /\ NextTurn(TurnFinished(journal, t)) = NextTurn(journal)
          /\ Known(journal) \subseteq Known(TurnFinished(journal, t))
    <3>1. SUFFICES ASSUME sink = "open"
                   PROVE  /\ Good(TurnFinished(journal, t)) /\ OpenTurn(TurnFinished(journal, t)) = 0
                          /\ NextTurn(TurnFinished(journal, t)) = NextTurn(journal)
                          /\ Known(journal) \subseteq Known(TurnFinished(journal, t))
        BY Zenon
    <3>2. OpenTurn(journal) = t /\ t # 0
        BY <2>3, <3>1
    <3>3. Known(journal) \subseteq Known(TurnFinished(journal, t))
        BY <1>0, <3>2, KnownLemma
    <3> QED
        BY <1>0, <3>2, <3>3, FinishedLemma
  <2>5. Good(journal') /\ journal' \in Journal /\ acked \subseteq Known(journal')
      BY <1>0, <1>a, <2>1, <2>4, EmitGood
  <2>6. /\ o = "ok" => sink = "open" /\ journal' = TurnFinished(journal, t)
        /\ sink' \in {"open", "closed"}
      BY <1>a, <2>1, EmitFacts
  <2>7. /\ unsettled' \in BOOLEAN /\ recovery_requested' \in BOOLEAN
        /\ o # "ok" => unsettled' \/ recovery_requested'
    <3>1. CASE o = "ok"
      <4>1. UNCHANGED <<recovery_requested, unsettled>>
          BY <2>1, <3>1
      <4> QED
          BY <1>a, <3>1, <4>1
    <3>2. CASE o # "ok"
      <4>1. signal_failed
          BY <2>1, <3>2
      <4> QED
          BY <1>0, <4>1, SignalFailedFacts
    <3> QED
        BY <3>1, <3>2
  <2>8. task' \in [Tasks -> Entries] /\ task'["turn"] = task["turn"]
      BY <1>0, <2>1 DEF SessionTypeOK, TaskTypeOK, Tasks, Entries
  <2>9. orphaned' \in SUBSET Inputs
    <3>1. journal'.dropped \in SUBSET Inputs
        BY <2>5 DEF Journal
    <3>2. Orphans \in SUBSET Inputs
        BY <3>1 DEF Orphans
    <3> QED
        BY <1>0, <1>3, <3>2 DEF SessionTypeOK, DurableTypeOK
  <2>type. SessionTypeOK'
      BY <1>0, <1>a, <1>h, <1>3, <1>4, <2>5, <2>6, <2>7, <2>8, <2>9 DEF SessionTypeOK, DurableTypeOK, ActorTypeOK, TaskTypeOK, Places
  <2>good. Good(journal')
      BY <2>5
  <2>start. StartInv'
      BY <1>h DEF StartInv, Starting
  <2>held. HeldInv'
      BY <1>0, <1>h, <1>3, <2>2 DEF HeldInv
  <2>sync. SyncInv'
    <3>1. CASE o = "ok"
      <4>1. OpenTurn(journal') = 0 /\ NextTurn(journal') = NextTurn(journal) /\ next_turn' >= NextTurn(journal)
          BY <1>3, <2>3, <2>4, <2>6, <3>1
      <4> QED
          BY <2>2, <4>1 DEF SyncInv
    <3>2. CASE o # "ok"
        BY <1>h, <2>7, <3>2 DEF SyncInv
    <3> QED
        BY <3>1, <3>2
  <2>run. RunInv'
      BY <2>2 DEF RunInv
  <2>hist. HistInv'
      BY <2>5, <1>h DEF HistInv
  <2> QED
      BY <2>type, <2>good, <2>start, <2>held, <2>sync, <2>run, <2>hist DEF IInv
<1> QED
    BY <1>6, <1>7

(* handle_turn_signal: a fenced session only answers. *)
LEMMA HandleSignalStep ==
    ASSUME IInv, handle_turn_signal
    PROVE  IInv'
<1>1. Handled
    BY DEF Handled, handle_turn_signal, select
<1>0. SessionTypeOK /\ Good(journal) /\ StartInv /\ HeldInv /\ SyncInv /\ RunInv /\ HistInv
    BY DEF IInv
<1>a. /\ journal \in Journal /\ sink \in {"open", "closed"} /\ acked \subseteq Known(journal)
      /\ unsettled \in BOOLEAN /\ recovery_requested \in BOOLEAN /\ signals' \in Seq(Signal)
    BY <1>0, <1>1 DEF SessionTypeOK, DurableTypeOK, ActorTypeOK, HistInv, Handled
<1>h. /\ pc = "select" /\ pc' = "recover"
      /\ closing' = closing /\ armed' = armed /\ changed' = changed /\ requested' = requested
      /\ completion' = completion /\ acked' = acked /\ crashes' = crashes
    BY <1>1 DEF Handled
<1> DEFINE s == Head(signals)
<1>2. s \in Signal /\ s = Head(signals)
    BY <1>0, <1>1 DEF SessionTypeOK, ActorTypeOK, Handled
<1>3. CASE recovery_requested
  <2>1. /\ work' = Answer(<<s>>) /\ cleanup' = Answered(<<s>>)
        /\ unsettled' = (unsettled \/ Unproved(<<s>>))
        /\ UNCHANGED <<durable, memory, recovery_requested, task, orphaned>>
      BY <1>3, Zenon DEF handle_turn_signal
  <2>2. /\ journal' = journal /\ sink' = sink /\ running' = running /\ next_turn' = next_turn
        /\ queued' = queued /\ suspended' = suspended /\ held' = held
        /\ recovery_requested' = recovery_requested /\ task' = task /\ orphaned' = orphaned
      BY <2>1
  <2>3. /\ work' \in Works /\ work'.turn = work.turn
        /\ work'.stage = "sent" => work.stage = "sent"
    <3>1. work \in Works
        BY <1>0 DEF SessionTypeOK, TaskTypeOK
    <3> QED
        BY <2>1, <3>1, AnswerFacts
  <2>4. cleanup' \in Cleanups
      BY <1>0, <2>1 DEF Answered, Cleanups, SessionTypeOK, ActorTypeOK
  <2>5. unsettled' \in BOOLEAN
      BY <1>a, <2>1
  <2>type. SessionTypeOK'
      BY <1>0, <1>a, <1>h, <2>2, <2>3, <2>4, <2>5 DEF SessionTypeOK, DurableTypeOK, ActorTypeOK, TaskTypeOK, Places
  <2>good. Good(journal')
      BY <1>0, <1>h, <2>2
  <2>start. StartInv'
      BY <1>h DEF StartInv, Starting
  <2>held. HeldInv'
      BY <1>0, <1>h, <2>2 DEF HeldInv
  <2>sync. SyncInv'
      BY <1>3, <2>2 DEF SyncInv
  <2>run. RunInv'
      BY <1>0, <1>1, <1>3, <2>2, <2>3, HandledRun
  <2>hist. HistInv'
      BY <1>0, <1>h, <2>2 DEF HistInv
  <2> QED
      BY <2>type, <2>good, <2>start, <2>held, <2>sync, <2>run, <2>hist DEF IInv
<1>4. CASE ~recovery_requested
  <2>1. PICK o \in Outcomes :
          CASE s[1] \in {"commit", "hook"} -> durable_event(o, s)
            [] s[1] = "title" -> title_generated(o)
            [] s[1] = "unsettled" -> effects_unsettled(o)
            [] s[1] = "complete" -> complete(o, s[2], s[3])
      BY <1>4 DEF handle_turn_signal
  <2>2. CASE s[1] \in {"commit", "hook"}
    <3>1. durable_event(o, s)
        BY <2>1, <2>2
    <3> QED
        BY <1>1, <1>4, <2>2, <3>1, DurableEventStep
  <2>3. CASE s[1] = "title"
    <3>1. title_generated(o)
        BY <2>1, <2>3
    <3> QED
        BY <1>1, <1>4, <2>3, <3>1, TitleGeneratedStep
  <2>4. CASE s[1] = "unsettled"
    <3>1. effects_unsettled(o)
        BY <2>1, <2>4
    <3> QED
        BY <1>1, <1>4, <2>4, <3>1, EffectsUnsettledStep
  <2>5. CASE s[1] = "complete"
    <3>1. complete(o, s[2], s[3])
        BY <2>1, <2>5
    <3> QED
        BY <1>1, <1>4, <2>5, <3>1, CompleteStep
  <2> QED
      BY <1>2, <2>2, <2>3, <2>4, <2>5, SignalKinds
<1> QED
    BY <1>3, <1>4

-----------------------------------------------------------------------------
LEMMA InitIInv == Init => IInv
<1>1. SUFFICES ASSUME Init
               PROVE  IInv
    OBVIOUS
<1>2. EmptyJournal \in Journal /\ EmptyJournal.log = <<>> /\ EmptyJournal.queued = {}
    BY DEF EmptyJournal, Journal, Claim, NoClaim
<1>3. Good(EmptyJournal)
  <2>1. Brackets(EmptyJournal.log)
      BY <1>2 DEF Brackets
  <2>2. \A i \in Inputs : EmptyJournal.claim[i] = NoClaim
      BY DEF EmptyJournal
  <2>3. NoClaim.turn = 0 /\ ~NoClaim.retained /\ ~NoClaim.ended
      BY DEF NoClaim
  <2>4. ClaimsInv(EmptyJournal)
      BY <2>2, <2>3 DEF ClaimsInv
  <2> QED
      BY <1>2, <2>1, <2>4 DEF Good
<1>4. NextTurn(EmptyJournal) = 1
    BY <1>2 DEF NextTurn
<1>5. SessionTypeOK
  <2>1. DurableTypeOK
      BY <1>1, <1>2 DEF Init, DurableTypeOK
  <2>2. ActorTypeOK
    <3>1. /\ pc \in Places /\ running \in Nat /\ next_turn \in Nat \ {0}
          /\ queued \in SUBSET Inputs /\ held \in SUBSET Inputs /\ cleanup \in Cleanups
        BY <1>1 DEF Init, Places, Cleanups
    <3>2. /\ suspended \in BOOLEAN /\ recovery_requested \in BOOLEAN /\ unsettled \in BOOLEAN
          /\ closing \in BOOLEAN /\ armed \in BOOLEAN
        BY <1>1 DEF Init
    <3>3. signals \in Seq(Signal)
        BY <1>1 DEF Init
    <3> QED
        BY <3>1, <3>2, <3>3 DEF ActorTypeOK
  <2>3. task \in [Tasks -> Entries] /\ work \in Works /\ task["turn"] = "none"
      BY <1>1 DEF Init, Entries, Tasks, Works, Stages, Idle
  <2>4. changed \in BOOLEAN /\ requested \in BOOLEAN /\ completion \in {"none", "ok", "err"}
      BY <1>1 DEF Init
  <2> QED
      BY <2>1, <2>2, <2>3, <2>4 DEF SessionTypeOK, TaskTypeOK
<1>6. StartInv
    BY <1>1, <1>2, <1>4 DEF Init, StartInv, Starting, Tasks
<1>7. HeldInv /\ SyncInv /\ RunInv
    BY <1>1 DEF Init, HeldInv, SyncInv, Looping, RunInv
<1>8. HistInv
    BY <1>1 DEF Init, HistInv
<1> QED
    BY <1>1, <1>3, <1>5, <1>6, <1>7, <1>8 DEF Init, IInv

LEMMA StutterIInv == IInv /\ UNCHANGED vars => IInv'
<1>1. SUFFICES ASSUME IInv, UNCHANGED vars
               PROVE  IInv'
    OBVIOUS
<1>2. /\ journal' = journal /\ sink' = sink /\ pc' = pc /\ running' = running
      /\ next_turn' = next_turn /\ queued' = queued /\ suspended' = suspended /\ held' = held
      /\ recovery_requested' = recovery_requested /\ unsettled' = unsettled /\ closing' = closing /\ armed' = armed
      /\ signals' = signals /\ cleanup' = cleanup /\ task' = task /\ changed' = changed
      /\ work' = work /\ requested' = requested /\ completion' = completion /\ acked' = acked
      /\ orphaned' = orphaned /\ crashes' = crashes
    BY <1>1 DEF vars
<1> QED
    BY <1>1, <1>2 DEF IInv, SessionTypeOK, DurableTypeOK, ActorTypeOK, TaskTypeOK, StartInv, Starting, HeldInv, SyncInv, Looping, RunInv, HistInv

(* Every step preserves the invariant. *)
LEMMA NextIInv == IInv /\ [Next]_vars => IInv'
<1>1. SUFFICES ASSUME IInv, [Next]_vars
               PROVE  IInv'
    OBVIOUS
<1>2. CASE Startup
    BY <1>1, <1>2, RestartStep, StartupNoticesStep, StartupRepairStep, StartupResumeStep DEF Startup
<1>3. CASE Loop
    BY <1>1, <1>3, LoopRecoverStep, LoopFailureStep, LoopStartStep DEF Loop
<1>4. CASE Select
    BY <1>1, <1>4, TasksChangedStep, ShutdownCancelledStep, DeadlineStep, CleanupResultStep,
       HandleSignalStep, SendMessageStep DEF Select
<1>5. CASE Work
    BY <1>1, <1>5, TaskPanicsStep, TurnCommitsStep, TurnUnsettledStep, TurnCompletesStep, TurnEndsStep,
       TitleEndsStep, CleanupPublishesStep, CleanupEndsStep DEF Work
<1>6. CASE Handle
    BY <1>1, <1>6, CloseStep, CloseDeadlineStep DEF Handle
<1>7. CASE UNCHANGED vars
    BY <1>1, <1>7, StutterIInv
<1> QED
    BY <1>1, <1>2, <1>3, <1>4, <1>5, <1>6, <1>7, ActorEndsStep, CrashStep DEF Next

LEMMA AlwaysIInv == Spec => []IInv
BY InitIInv, NextIInv, PTL DEF Spec

(* However a session was interrupted, repaired, fenced and closed, its journal
   starts a turn only when the last one is finished, finishes each at most
   once, and never reuses a number. *)
THEOREM TurnsAlwaysBracketed == Spec => []TurnsBracketed
<1>1. IInv => TurnsBracketed
  <2>1. SUFFICES ASSUME IInv
                 PROVE  TurnsBracketed
      OBVIOUS
  <2>2. Brackets(journal.log) /\ DOMAIN journal.log = 1..Len(journal.log)
      BY <2>1 DEF IInv, Good, Journal
  <2> QED
      BY <2>2 DEF TurnsBracketed, Brackets
<1> QED
    BY <1>1, AlwaysIInv, PTL

(* An input whose sender was told Started or Queued is queued, claimed, taken
   or dropped in the journal ever after, retried openings included. *)
THEOREM AcknowledgedAlwaysKnown == Spec => [](acked \subseteq Known(journal))
<1>1. IInv => acked \subseteq Known(journal)
    BY DEF IInv, HistInv
<1> QED
    BY <1>1, AlwaysIInv, PTL

-----------------------------------------------------------------------------
(* The inputs the actor owes an answer. *)

(* While the actor takes work the queue is the journal's, a retained input is
   suspended and any other pending one was given to the turn's task. *)
MemInv ==
    Looping /\ sink = "open" /\ ~recovery_requested /\ ~unsettled =>
        /\ queued = journal.queued
        /\ \A i \in Pending(journal) :
             IF journal.claim[i].ended THEN suspended /\ i \in held ELSE i \in work.given

IMem == MemInv /\ orphaned = {}

(* A step that leaves all of this alone, or makes the actor stop taking work. *)
LEMMA MemFrame ==
    ASSUME IMem, orphaned' = orphaned,
           \/ ~Looping'
           \/ recovery_requested'
           \/ unsettled'
           \/ /\ Looping
              /\ sink' = "open" => sink = "open" /\ journal' = journal
              /\ queued' = queued /\ suspended' = suspended /\ held' = held
              /\ work'.given = work.given
              /\ recovery_requested => recovery_requested'
              /\ unsettled => unsettled'
    PROVE  IMem'
BY DEF IMem, MemInv

(* The steps that neither take nor give back an input. *)
LEMMA MemQuietStep ==
    ASSUME IInv, IMem,
           \/ restart \/ startup_notices \/ loop_failure \/ tasks_changed \/ shutdown_cancelled
           \/ deadline \/ cleanup_result \/ actor_ends \/ (\E t \in Tasks : task_panics(t))
           \/ (\E i \in Inputs : turn_commits(i)) \/ turn_unsettled \/ turn_completes \/ turn_ends
           \/ title_ends \/ cleanup_publishes \/ cleanup_ends \/ close \/ close_deadline \/ crash
    PROVE  IMem'
<1>0. work \in Works /\ sink \in {"open", "closed"}
    BY DEF IInv, SessionTypeOK, DurableTypeOK, TaskTypeOK
<1>1. CASE restart
  <2>1. orphaned' = orphaned /\ pc' = "notices"
      BY <1>1 DEF restart
  <2> QED
      BY <2>1, MemFrame DEF Looping
<1>2. CASE startup_notices
  <2>1. orphaned' = orphaned /\ (pc' = "repair" \/ unsettled')
    <3>1. PICK o \in Outcomes : unsettled' = (o # "ok") /\ pc' = IF o = "ok" THEN "repair" ELSE "recover"
        BY <1>2 DEF startup_notices
    <3>2. orphaned' = orphaned
        BY <1>2 DEF startup_notices
    <3> QED
        BY <3>1, <3>2
  <2> QED
      BY <2>1, MemFrame DEF Looping
<1>3. CASE loop_failure
  <2>1. /\ orphaned' = orphaned /\ journal' = journal /\ sink' = sink /\ queued' = queued
        /\ suspended' = suspended /\ held' = held
        /\ pc = "failure" /\ work' = work /\ recovery_requested' = recovery_requested
        /\ unsettled' = (unsettled \/ failure)
      BY <1>3 DEF loop_failure
  <2> QED
      BY <2>1, MemFrame DEF Looping
<1>4. CASE tasks_changed
  <2>1. /\ orphaned' = orphaned /\ journal' = journal /\ sink' = sink /\ queued' = queued
        /\ suspended' = suspended /\ held' = held
        /\ pc = "select" /\ work' = work /\ recovery_requested' = recovery_requested /\ unsettled' = unsettled
      BY <1>4 DEF tasks_changed, select
  <2> QED
      BY <2>1, MemFrame DEF Looping
<1>5. CASE shutdown_cancelled
  <2>1. /\ orphaned' = orphaned /\ journal' = journal /\ sink' = sink /\ queued' = queued
        /\ suspended' = suspended /\ held' = held
        /\ pc = "select" /\ work' = work /\ recovery_requested' = recovery_requested /\ unsettled' = unsettled
      BY <1>5 DEF shutdown_cancelled, select
  <2> QED
      BY <2>1, MemFrame DEF Looping
<1>6. CASE deadline
  <2>1. orphaned' = orphaned /\ pc' = "done"
      BY <1>6 DEF deadline
  <2> QED
      BY <2>1, MemFrame DEF Looping
<1>7. CASE cleanup_result
  <2>1. orphaned' = orphaned /\ pc' = "done"
      BY <1>7 DEF cleanup_result
  <2> QED
      BY <2>1, MemFrame DEF Looping
<1>8. CASE actor_ends
  <2>1. orphaned' = orphaned /\ pc' = "ended"
      BY <1>8 DEF actor_ends
  <2> QED
      BY <2>1, MemFrame DEF Looping
<1>9. CASE \E t \in Tasks : task_panics(t)
  <2>0. PICK t \in Tasks : task_panics(t)
      BY <1>9
  <2>1. /\ orphaned' = orphaned /\ journal' = journal /\ sink' = sink /\ queued' = queued
        /\ suspended' = suspended /\ held' = held
        /\ pc' = pc /\ work' = work /\ recovery_requested' = recovery_requested /\ unsettled' = unsettled
      BY <2>0 DEF task_panics
  <2> QED
      BY <2>1, MemFrame DEF Looping
<1>10. CASE \E i \in Inputs : turn_commits(i)
  <2>0. (\E i \in Inputs : turn_commits(i)) /\ work \in Works
      BY <1>0, <1>10
  <2>1. /\ orphaned' = orphaned /\ journal' = journal /\ sink' = sink /\ queued' = queued
        /\ suspended' = suspended /\ held' = held
        /\ pc' = pc /\ work'.given = work.given /\ recovery_requested' = recovery_requested /\ unsettled' = unsettled
      BY <2>0 DEF turn_commits, Works
  <2> QED
      BY <2>1, MemFrame DEF Looping
<1>11. CASE turn_unsettled
  <2>0. turn_unsettled /\ work \in Works
      BY <1>0, <1>11
  <2>1. /\ orphaned' = orphaned /\ journal' = journal /\ sink' = sink /\ queued' = queued
        /\ suspended' = suspended /\ held' = held
        /\ pc' = pc /\ work'.given = work.given /\ recovery_requested' = recovery_requested /\ unsettled' = unsettled
      BY <2>0 DEF turn_unsettled, Works
  <2> QED
      BY <2>1, MemFrame DEF Looping
<1>12. CASE turn_completes
  <2>0. turn_completes /\ work \in Works
      BY <1>0, <1>12
  <2>1. /\ orphaned' = orphaned /\ journal' = journal /\ sink' = sink /\ queued' = queued
        /\ suspended' = suspended /\ held' = held
        /\ pc' = pc /\ work'.given = work.given /\ recovery_requested' = recovery_requested /\ unsettled' = unsettled
      BY <2>0 DEF turn_completes, Works
  <2> QED
      BY <2>1, MemFrame DEF Looping
<1>13. CASE turn_ends
  <2>1. /\ orphaned' = orphaned /\ journal' = journal /\ sink' = sink /\ queued' = queued
        /\ suspended' = suspended /\ held' = held
        /\ pc' = pc /\ work' = work /\ recovery_requested' = recovery_requested /\ unsettled' = unsettled
      BY <1>13 DEF turn_ends
  <2> QED
      BY <2>1, MemFrame DEF Looping
<1>14. CASE title_ends
  <2>1. /\ orphaned' = orphaned /\ journal' = journal /\ sink' = sink /\ queued' = queued
        /\ suspended' = suspended /\ held' = held
        /\ pc' = pc /\ work' = work /\ recovery_requested' = recovery_requested /\ unsettled' = unsettled
      BY <1>14 DEF title_ends
  <2> QED
      BY <2>1, MemFrame DEF Looping
<1>15. CASE cleanup_publishes
  <2>1. /\ orphaned' = orphaned /\ journal' = journal /\ sink' = sink /\ queued' = queued
        /\ suspended' = suspended /\ held' = held
        /\ pc' = pc /\ work' = work /\ recovery_requested' = recovery_requested /\ unsettled' = unsettled
      BY <1>15 DEF cleanup_publishes
  <2> QED
      BY <2>1, MemFrame DEF Looping
<1>16. CASE cleanup_ends
  <2>1. /\ orphaned' = orphaned /\ journal' = journal /\ sink' = sink /\ queued' = queued
        /\ suspended' = suspended /\ held' = held
        /\ pc' = pc /\ work' = work /\ recovery_requested' = recovery_requested /\ unsettled' = unsettled
      BY <1>16 DEF cleanup_ends
  <2> QED
      BY <2>1, MemFrame DEF Looping
<1>17. CASE close
  <2>1. /\ orphaned' = orphaned /\ journal' = journal /\ sink' = sink /\ queued' = queued
        /\ suspended' = suspended /\ held' = held
        /\ pc' = pc /\ work' = work /\ recovery_requested' = recovery_requested /\ unsettled' = unsettled
      BY <1>17 DEF close
  <2> QED
      BY <2>1, MemFrame DEF Looping
<1>18. CASE close_deadline
  <2>1. /\ orphaned' = orphaned /\ journal' = journal /\ sink' = sink /\ queued' = queued
        /\ suspended' = suspended /\ held' = held
        /\ pc' = pc /\ work' = work /\ recovery_requested' = recovery_requested /\ unsettled' = unsettled
      BY <1>18 DEF close_deadline
  <2> QED
      BY <2>1, MemFrame DEF Looping
<1>19. CASE crash
  <2>1. orphaned' = orphaned /\ pc' = "off"
      BY <1>19 DEF crash
  <2> QED
      BY <2>1, MemFrame DEF Looping
<1> QED
    BY <1>1, <1>2, <1>3, <1>4, <1>5, <1>6, <1>7, <1>8, <1>9, <1>10, <1>11, <1>12, <1>13, <1>14, <1>15, <1>16, <1>17, <1>18, <1>19

(* startup_repair loses no input. *)
LEMMA MemRepairStep ==
    ASSUME IInv, IMem, startup_repair
    PROVE  IMem'
<1>1. PICK o \in Outcomes :
        repair(o) /\ unsettled' = (o # "ok") /\ pc' = IF o = "ok" THEN "resume" ELSE "recover"
    BY DEF startup_repair
<1>2. pc' = "resume" \/ unsettled'
    BY <1>1
<1>3. journal'.dropped = journal.dropped
    BY <1>1, RepairFacts DEF IInv, SessionTypeOK, DurableTypeOK, HistInv
<1>4. orphaned' = orphaned
  <2>1. orphaned' = orphaned \cup Orphans
      BY DEF startup_repair
  <2>2. Orphans = {}
      BY <1>3 DEF Orphans
  <2> QED
      BY <2>1, <2>2
<1> QED
    BY <1>2, <1>4, MemFrame DEF Looping

(* A turn is opened with every suspended input, and with the queue. *)
LEMMA MemStart ==
    ASSUME IInv, NEW M \in SUBSET Inputs, NEW rest \in SUBSET Inputs, start_turn("ok", M, rest),
           sink = "open" => OpenTurn(journal) = 0 /\ next_turn >= NextTurn(journal),
           M \cup rest = journal.queued \/ (rest = journal.queued /\ M \cap journal.queued = {}),
           ~suspended /\ M \cap journal.queued # {} => rest = {},
           \A i \in Pending(journal) : i \in held,
           orphaned' = {}
    PROVE  IMem'
<1>0. SessionTypeOK /\ Good(journal) /\ HistInv
    BY DEF IInv
<1>1. PICK o \in Outcomes \cup {"invalid"} : o = "ok"
    BY DEF Outcomes
<1>s. start_turn(o, M, rest)
    BY <1>1
<1> DEFINE new == Joined(M, rest)
<1>2. /\ work'.given = held \cup new
      /\ journal'.queued = journal.queued \ new
      /\ \A i \in Pending(journal') : i \in Pending(journal) \cup new /\ ~journal'.claim[i].ended
      /\ queued' = IF ~suspended THEN rest ELSE {}
  <2>1. TurnOpened(M, rest)
      BY <1>0, <1>1, <1>s, StartTurnFacts, Zenon
  <2>2. queued' = IF o = "invalid" \/ ~suspended THEN rest ELSE {}
      BY <1>0, <1>s, StartTurnFacts, Zenon
  <2> QED
      BY <1>1, <2>1, <2>2 DEF TurnOpened
<1>3. \A i \in Pending(journal') : i \in work'.given /\ ~journal'.claim[i].ended
    BY <1>2
<1>4. queued' = journal'.queued
  <2>1. CASE suspended
    <3>1. new = M \cup rest
        BY <2>1 DEF Joined
    <3>2. journal.queued \subseteq new
        BY <3>1
    <3> HIDE DEF new
    <3> QED
        BY <1>2, <2>1, <3>2
  <2>2. CASE ~suspended
    <3>1. new = M
        BY <2>2 DEF Joined
    <3> HIDE DEF new
    <3>2. queued' = rest
        BY <1>2, <2>2
    <3>3. journal.queued \ M = rest
        BY <2>2
    <3> QED
        BY <1>2, <3>1, <3>2, <3>3
  <2> QED
      BY <2>1, <2>2
<1> QED
    BY <1>3, <1>4 DEF IMem, MemInv

(* startup_resume *)
LEMMA MemResumeStep ==
    ASSUME IInv, IMem, startup_resume
    PROVE  IMem'
<1>0. SessionTypeOK /\ Good(journal) /\ StartInv
    BY DEF IInv
<1>1. pc = "resume" /\ pc' = "recover" /\ recovery_requested' = recovery_requested /\ orphaned' = orphaned
    BY DEF startup_resume
<1>2. /\ sink = "open" /\ next_turn = NextTurn(journal) /\ queued = journal.queued
      /\ suspended /\ OpenTurn(journal) = 0 /\ held = Pending(journal)
      /\ next_turn \in Nat /\ queued \in SUBSET Inputs
    BY <1>0, <1>1 DEF StartInv, Starting, SessionTypeOK, ActorTypeOK
<1>3. PICK resume_inputs \in BOOLEAN :
        IF resume_inputs /\ (held # {} \/ queued # {})
        THEN \E o \in Outcomes \cup {"invalid"} :
                start_turn(o, {}, queued) /\ unsettled' = (o # "ok")
        ELSE /\ suspended' = ~resume_inputs
             /\ UNCHANGED <<durable, running, next_turn, queued, held, unsettled, task, work>>
    BY DEF startup_resume
<1>4. CASE resume_inputs /\ (held # {} \/ queued # {})
  <2>1. PICK o \in Outcomes \cup {"invalid"} : start_turn(o, {}, queued) /\ unsettled' = (o # "ok")
      BY <1>3, <1>4
  <2>2. CASE o = "ok"
    <3> DEFINE M == {}
    <3>1. /\ start_turn("ok", M, queued)
          /\ M \in SUBSET Inputs /\ M \cup queued = journal.queued /\ M \cap journal.queued = {}
          /\ \A i \in Pending(journal) : i \in held
          /\ next_turn >= NextTurn(journal)
          /\ orphaned' = {}
        BY <1>1, <1>2, <2>1, <2>2 DEF IMem
    <3> HIDE DEF M
    <3> QED
        BY <1>2, <3>1, MemStart
  <2>3. CASE o # "ok"
    <3>1. unsettled'
        BY <2>1, <2>3
    <3> QED
        BY <1>1, <3>1, MemFrame
  <2> QED
      BY <2>2, <2>3
<1>5. CASE ~(resume_inputs /\ (held # {} \/ queued # {}))
  <2>1. /\ suspended' = ~resume_inputs
        /\ UNCHANGED <<durable, running, next_turn, queued, held, unsettled, task, work>>
      BY <1>3, <1>5, Zenon
  <2>2. journal' = journal /\ queued' = queued /\ held' = held
      BY <2>1
  <2>3. \A i \in Pending(journal) : journal.claim[i].ended
      BY <1>0, <1>2, ClosedFacts
  <2>4. \A i \in Pending(journal) : suspended' /\ i \in held'
    <3>1. CASE resume_inputs
      <4>1. Pending(journal) = {}
          BY <1>2, <1>5, <3>1
      <4> QED
          BY <4>1
    <3>2. CASE ~resume_inputs
        BY <1>2, <2>1, <2>2, <3>2
    <3> QED
        BY <3>1, <3>2
  <2>5. queued' = journal'.queued
      BY <1>2, <2>2
  <2> QED
      BY <1>1, <2>2, <2>3, <2>4, <2>5 DEF IMem, MemInv
<1> QED
    BY <1>4, <1>5

(* loop_recover rebuilds all of it from the repaired journal. *)
LEMMA MemRecoverStep ==
    ASSUME IInv, IMem, loop_recover
    PROVE  IMem'
<1>0. SessionTypeOK /\ Good(journal) /\ sink \in {"open", "closed"} /\ acked \subseteq Known(journal)
    BY DEF IInv, SessionTypeOK, DurableTypeOK, HistInv
<1>1. pc = "recover" /\ pc' = "failure"
    BY DEF loop_recover
<1>2. CASE ~(recovery_requested /\ idle /\ ~unsettled)
  <2>1. UNCHANGED <<durable, memory, recovery_requested, unsettled, signals, work, cleanup, orphaned>>
      BY <1>2, Zenon DEF loop_recover
  <2>2. /\ orphaned' = orphaned /\ journal' = journal /\ sink' = sink /\ queued' = queued
        /\ suspended' = suspended /\ held' = held /\ work' = work
        /\ recovery_requested' = recovery_requested /\ unsettled' = unsettled
      BY <2>1
  <2> QED
      BY <1>1, <2>2, MemFrame DEF Looping
<1>3. CASE recovery_requested /\ idle /\ ~unsettled
  <2>1. /\ orphaned' = orphaned \cup Orphans
        /\ IF Unproved(signals)
           THEN unsettled' = TRUE /\ armed' = TRUE /\ UNCHANGED <<durable, memory, recovery_requested>>
           ELSE \E o \in Outcomes \cup {"unreadable"} : recover_actor(o) /\ armed' = (closing' \/ unsettled')
      BY <1>3, Zenon DEF loop_recover
  <2>2. CASE unsettled' /\ journal' = journal
    <3>1. Orphans = {}
        BY <2>2 DEF Orphans
    <3>2. orphaned' = orphaned
        BY <2>1, <3>1
    <3> QED
        BY <2>2, <3>2, MemFrame
  <2>3. CASE Unproved(signals)
    <3>1. unsettled' = TRUE /\ UNCHANGED <<durable, memory, recovery_requested>>
        BY <2>1, <2>3, Zenon
    <3> QED
        BY <2>2, <3>1
  <2>4. CASE ~Unproved(signals)
    <3>1. PICK o \in Outcomes \cup {"unreadable"} : recover_actor(o)
        BY <2>1, <2>4
    <3>2. CASE failure \/ o = "unreadable"
      <4>1. unsettled' = TRUE /\ UNCHANGED <<durable, memory, recovery_requested>>
          BY <3>1, <3>2, Zenon DEF recover_actor
      <4> QED
          BY <2>2, <4>1
    <3>3. CASE ~(failure \/ o = "unreadable")
      <4>1. o \in Outcomes
          BY <3>3
      <4>2. /\ repair(o)
            /\ queued' = journal.queued
            /\ held' = Pending(journal) /\ suspended' = (suspended \/ Pending(journal) # {})
            /\ unsettled' = (o # "ok")
          BY <3>1, <3>3, Zenon DEF recover_actor
      <4>3. /\ o = "ok" => journal' = Repair(journal)
            /\ journal'.dropped = journal.dropped
          BY <1>0, <4>1, <4>2, RepairFacts
      <4>4. orphaned' = orphaned
        <5>1. Orphans = {}
            BY <4>3 DEF Orphans
        <5> QED
            BY <2>1, <5>1
      <4>5. CASE o # "ok"
        <5>1. unsettled'
            BY <4>2, <4>5
        <5> QED
            BY <4>4, <5>1, MemFrame
      <4>6. CASE o = "ok"
        <5>1. journal' = Repair(journal)
            BY <4>3, <4>6
        <5>2. /\ journal'.queued = journal.queued
              /\ Pending(journal') = Pending(journal)
              /\ \A i \in Pending(journal) : journal'.claim[i].ended
            BY <1>0, <5>1, RepairLemma
        <5>3. \A i \in Pending(journal) : suspended' /\ i \in held'
            BY <4>2
        <5>4. queued' = journal'.queued
            BY <4>2, <5>2
        <5> QED
            BY <4>4, <5>2, <5>3, <5>4 DEF IMem, MemInv
      <4> QED
          BY <4>5, <4>6
    <3> QED
        BY <3>2, <3>3
  <2> QED
      BY <2>3, <2>4
<1> QED
    BY <1>2, <1>3

(* loop_start: an idle session that holds nothing takes its queue. *)
LEMMA MemLoopStartStep ==
    ASSUME IInv, IMem, loop_start
    PROVE  IMem'
<1>0. SessionTypeOK /\ Good(journal) /\ HeldInv /\ SyncInv
    BY DEF IInv
<1>1. pc = "start" /\ recovery_requested' = recovery_requested /\ orphaned' = orphaned
    BY DEF loop_start
<1>2. CASE recovery_requested /\ idle /\ unsettled
  <2>1. pc' = "done"
      BY <1>2, Zenon DEF loop_start
  <2> QED
      BY <1>1, <2>1, MemFrame DEF Looping
<1>3. CASE ~(recovery_requested /\ idle /\ unsettled)
  <2>0. take_queue
      BY <1>3, Zenon DEF loop_start
  <2>1. CASE ~(~closing /\ ~recovery_requested /\ ~suspended /\ running = 0 /\ queued # {})
    <3>1. pc' = "select" /\ UNCHANGED <<durable, memory, unsettled, task, work>>
        BY <2>0, <2>1, Zenon DEF take_queue
    <3>2. /\ journal' = journal /\ sink' = sink /\ queued' = queued
          /\ suspended' = suspended /\ held' = held /\ work' = work /\ unsettled' = unsettled
        BY <3>1
    <3> QED
        BY <1>1, <3>2, MemFrame DEF Looping
  <2>2. CASE ~closing /\ ~recovery_requested /\ ~suspended /\ running = 0 /\ queued # {}
    <3>1. PICK o \in Outcomes \cup {"invalid"} :
            start_turn(o, queued, {}) /\ unsettled' = (unsettled \/ o # "ok")
        BY <2>0, <2>2, Zenon DEF take_queue
    <3>2. CASE o # "ok" \/ unsettled
      <4>1. unsettled'
          BY <3>1, <3>2
      <4> QED
          BY <1>1, <4>1, MemFrame
    <3>3. CASE o = "ok" /\ ~unsettled
      <4>0. queued \in SUBSET Inputs
          BY <1>0 DEF SessionTypeOK, ActorTypeOK
      <4>1. sink = "open" => OpenTurn(journal) = 0 /\ next_turn >= NextTurn(journal)
          BY <1>0, <1>1, <2>2 DEF SyncInv, Looping
      <4>2. sink = "open"
          BY <1>0, <3>1, <3>3, <4>0, <4>1, StartTurnFacts DEF IInv, TurnOpened
      <4>3. \A i \in Pending(journal) : journal.claim[i].ended
          BY <1>0, <4>1, <4>2, ClosedFacts
      <4>4. queued = journal.queued /\ (\A i \in Pending(journal) : suspended /\ i \in held)
          BY <1>1, <2>2, <3>3, <4>2, <4>3 DEF IMem, MemInv, Looping
      <4> DEFINE rest == {}
      <4>5. /\ start_turn("ok", queued, rest) /\ rest \in SUBSET Inputs
            /\ queued \cup rest = journal.queued /\ rest = {}
            /\ orphaned' = {}
          BY <1>1, <3>1, <3>3, <4>4 DEF IMem
      <4> HIDE DEF rest
      <4> QED
          BY <4>0, <4>1, <4>4, <4>5, MemStart
    <3> QED
        BY <3>2, <3>3
  <2> QED
      BY <2>1, <2>2
<1> QED
    BY <1>2, <1>3

(* send_message: queued behind the running turn, or opening one with what is
   suspended. *)
LEMMA MemSendStep ==
    ASSUME ~RetryOpening, IInv, IMem, NEW i \in Inputs, send_message(i)
    PROVE  IMem'
<1>0. SessionTypeOK /\ Good(journal) /\ HeldInv /\ SyncInv /\ HistInv /\ sink \in {"open", "closed"}
    BY DEF IInv, SessionTypeOK, DurableTypeOK
<1>1. /\ pc = "select" /\ pc' = "recover" /\ ~closing /\ ~recovery_requested
      /\ recovery_requested' = recovery_requested /\ unsettled' = unsettled /\ orphaned' = orphaned
      /\ i \notin Known(journal)
    BY DEF send_message, select
<1>2. CASE running # 0
  <2>1. PICK o \in Outcomes :
          /\ emit_batch(o, MessageQueued(journal, i))
          /\ queued' = IF o = "ok" THEN queued \cup {i} ELSE queued
          /\ UNCHANGED <<running, next_turn, suspended, held, task, work>>
      BY <1>2, Zenon DEF send_message
  <2>2. suspended' = suspended /\ held' = held /\ work' = work
      BY <2>1
  <2>3. CASE o # "ok"
    <3>1. sink' = "open" => sink = "open" /\ journal' = journal
        BY <1>0, <2>1, <2>3, EmitFacts DEF Outcomes
    <3> QED
        BY <1>1, <2>1, <2>2, <2>3, <3>1, MemFrame DEF Looping
  <2>4. CASE o = "ok"
    <3>1. sink = "open" /\ journal' = MessageQueued(journal, i)
        BY <1>0, <2>1, <2>4, EmitFacts
    <3>2. journal'.queued = journal.queued \cup {i} /\ journal'.claim = journal.claim
          /\ Pending(journal') = Pending(journal)
        BY <1>0, <3>1, QueuedLemma
    <3>3. queued' = queued \cup {i}
        BY <2>1, <2>4
    <3>4. ASSUME ~unsettled
          PROVE  /\ queued' = journal'.queued
                 /\ \A x \in Pending(journal') :
                      IF journal'.claim[x].ended THEN suspended' /\ x \in held' ELSE x \in work'.given
      <4>1. /\ queued = journal.queued
            /\ \A x \in Pending(journal) :
                 IF journal.claim[x].ended THEN suspended /\ x \in held ELSE x \in work.given
          BY <1>1, <3>1, <3>4 DEF IMem, MemInv, Looping
      <4>2. queued' = journal'.queued
          BY <3>2, <3>3, <4>1
      <4> QED
          BY <2>2, <3>2, <4>1, <4>2
    <3> QED
        BY <1>1, <3>4 DEF IMem, MemInv
  <2> QED
      BY <2>3, <2>4
<1>3. CASE running = 0
  <2>1. PICK o \in Outcomes :
          start_turn(o, {i}, queued) /\ (o = "refused" /\ suspended => RetryOpening)
      BY <1>3, Zenon DEF send_message
  <2> DEFINE M == {i}
  <2>2. M \in SUBSET Inputs /\ start_turn(o, M, queued) /\ (M = {i})
      BY <2>1
  <2> HIDE DEF M
  <2>3. queued \in SUBSET Inputs /\ suspended \in BOOLEAN
      BY <1>0 DEF SessionTypeOK, ActorTypeOK
  <2>4. sink = "open" => OpenTurn(journal) = 0 /\ next_turn >= NextTurn(journal)
      BY <1>0, <1>1, <1>3 DEF SyncInv, Looping
  <2>5. /\ o = "ok" => sink = "open"
        /\ o # "ok" => work' = work
        /\ o = "refused" => journal' = journal /\ sink' = sink
        /\ o = "failed" => sink' = "closed"
        /\ ~suspended => queued' = queued
    <3>1. o \in Outcomes \cup {"invalid"} /\ o # "invalid"
        BY DEF Outcomes
    <3> QED
        BY <1>0, <2>2, <2>3, <2>4, <3>1, StartTurnFacts DEF TurnOpened
  <2>6. ASSUME sink = "open", ~unsettled
        PROVE  queued = journal.queued /\ (\A x \in Pending(journal) : suspended /\ x \in held)
    <3>1. \A x \in Pending(journal) : journal.claim[x].ended
        BY <1>0, <2>4, <2>6, ClosedFacts
    <3> QED
        BY <1>1, <2>6, <3>1 DEF IMem, MemInv, Looping
  <2>7. CASE unsettled
      BY <1>1, <2>7, MemFrame
  <2>8. CASE o = "failed"
      BY <1>1, <2>5, <2>8 DEF IMem, MemInv
  <2>9. CASE o = "refused" /\ ~unsettled
    <3>1. ~suspended
        BY <2>1, <2>9
    <3>2. ASSUME sink' = "open"
          PROVE  queued' = journal'.queued /\ Pending(journal') = {}
      <4>1. sink = "open" /\ journal' = journal /\ queued' = queued
          BY <2>5, <2>9, <3>1, <3>2
      <4>2. queued = journal.queued /\ Pending(journal) = {}
          BY <2>6, <2>9, <3>1, <4>1
      <4> QED
          BY <4>1, <4>2
    <3> QED
        BY <1>1, <3>2 DEF IMem, MemInv
  <2>10. CASE o = "ok" /\ ~unsettled
    <3>1. queued = journal.queued /\ (\A x \in Pending(journal) : suspended /\ x \in held)
        BY <2>5, <2>6, <2>10
    <3>2. M \cap journal.queued = {}
        BY <1>1, <2>2 DEF Known
    <3>3. orphaned' = {} /\ start_turn("ok", M, queued)
        BY <1>1, <2>2, <2>10 DEF IMem
    <3> QED
        BY <2>2, <2>3, <2>4, <3>1, <3>2, <3>3, MemStart
  <2> QED
      BY <2>7, <2>8, <2>9, <2>10 DEF Outcomes
<1> QED
    BY <1>2, <1>3

(* handle_turn_signal: a turn that ends loses only inputs its task was given. *)
LEMMA MemSignalStep ==
    ASSUME IInv, IMem, handle_turn_signal
    PROVE  IMem'
<1>0. /\ SessionTypeOK /\ Good(journal) /\ SyncInv /\ sink \in {"open", "closed"} /\ work \in Works
      /\ acked \subseteq Known(journal)
    BY DEF IInv, SessionTypeOK, DurableTypeOK, TaskTypeOK, HistInv
<1>1. pc = "select" /\ pc' = "recover" /\ signals # <<>> /\ closing' = closing
    BY DEF handle_turn_signal, select
<1> DEFINE s == Head(signals)
<1>2. s \in Signal /\ s = Head(signals)
    BY <1>0, <1>1 DEF SessionTypeOK, ActorTypeOK
<1>3. CASE recovery_requested
  <2>1. recovery_requested' = recovery_requested /\ orphaned' = orphaned
      BY <1>3, Zenon DEF handle_turn_signal
  <2> QED
      BY <1>3, <2>1, MemFrame
<1>4. CASE ~recovery_requested
  <2>1. PICK o \in Outcomes :
          CASE s[1] \in {"commit", "hook"} -> durable_event(o, s)
            [] s[1] = "title" -> title_generated(o)
            [] s[1] = "unsettled" -> effects_unsettled(o)
            [] s[1] = "complete" -> complete(o, s[2], s[3])
      BY <1>4 DEF handle_turn_signal
  <2> HIDE DEF s
  <2>2. CASE s[1] \in {"commit", "hook"}
    <3>1. durable_event(o, s)
        BY <2>1, <2>2
    <3>2. /\ emit_batch(o, IF s[1] = "commit" THEN ConversationInputCommitted(journal, s[2]) ELSE journal)
          /\ work' = IF s[1] # "commit" THEN work
                     ELSE IF o = "ok" THEN [work EXCEPT !.left = @ \ s[2], !.stage = "work"]
                     ELSE [work EXCEPT !.stage = "stop"]
          /\ IF o = "ok" THEN UNCHANGED <<recovery_requested, unsettled>> ELSE signal_failed
          /\ UNCHANGED <<memory, task, orphaned>>
        BY <3>1, Zenon DEF durable_event
    <3>3. CASE o # "ok"
        BY <1>0, <3>2, <3>3, SignalFailedFacts, MemFrame
    <3>4. CASE o = "ok"
      <4>1. work'.given = work.given
          BY <1>0, <3>2 DEF Works
      <4>2. /\ unsettled' = unsettled /\ queued' = queued /\ suspended' = suspended /\ held' = held
            /\ orphaned' = orphaned /\ recovery_requested' = recovery_requested
          BY <3>2, <3>4
      <4>3. CASE s[1] = "commit"
        <5>1. s[2] \in SUBSET Inputs
            BY <1>2, <4>3, SignalKinds
        <5>2. sink = "open" /\ journal' = ConversationInputCommitted(journal, s[2])
            BY <1>0, <3>2, <3>4, <4>3, EmitFacts
        <5>3. /\ journal'.queued = journal.queued
              /\ Pending(journal') = Pending(journal) \ s[2]
              /\ \A i \in Inputs \ s[2] : journal'.claim[i].ended <=> journal.claim[i].ended
            BY <1>0, <5>1, <5>2, CommittedLemma
        <5>4. Pending(journal) \subseteq Inputs
            BY DEF Pending
        <5>5. ASSUME ~unsettled
              PROVE  /\ queued' = journal'.queued
                     /\ \A i \in Pending(journal') :
                          IF journal'.claim[i].ended THEN suspended' /\ i \in held' ELSE i \in work'.given
          <6>1. /\ queued = journal.queued
                /\ \A i \in Pending(journal) :
                     IF journal.claim[i].ended THEN suspended /\ i \in held ELSE i \in work.given
              BY <1>1, <1>4, <5>2, <5>5 DEF IMem, MemInv, Looping
          <6>2. queued' = journal'.queued
              BY <4>2, <5>3, <6>1
          <6> QED
              BY <4>1, <4>2, <5>3, <5>4, <6>1, <6>2
        <5> QED
            BY <4>2, <5>5 DEF IMem, MemInv
      <4>4. CASE s[1] # "commit"
        <5>1. sink = "open" /\ sink' = "open" /\ journal' = journal
            BY <1>0, <3>2, <3>4, <4>4, EmitFacts
        <5> QED
            BY <1>1, <4>1, <4>2, <5>1, MemFrame DEF Looping
      <4> QED
          BY <4>3, <4>4
    <3> QED
        BY <3>3, <3>4
  <2>3. CASE s[1] = "title"
    <3>1. title_generated(o)
        BY <2>1, <2>3
    <3>2. /\ emit_batch(o, SessionTitleUpdated(journal))
          /\ IF o = "ok" THEN UNCHANGED <<recovery_requested, unsettled>> ELSE signal_failed
          /\ UNCHANGED <<memory, work, cleanup, task, orphaned>>
        BY <3>1, Zenon DEF title_generated
    <3>3. CASE o # "ok"
        BY <1>0, <3>2, <3>3, SignalFailedFacts, MemFrame
    <3>4. CASE o = "ok"
      <4>1. /\ unsettled' = unsettled /\ queued' = queued /\ suspended' = suspended /\ held' = held
            /\ orphaned' = orphaned /\ recovery_requested' = recovery_requested /\ work' = work
          BY <3>2, <3>4
      <4>2. sink = "open" /\ journal' = SessionTitleUpdated(journal)
          BY <1>0, <3>2, <3>4, EmitFacts
      <4>3. /\ journal'.queued = journal.queued /\ journal'.claim = journal.claim
            /\ Pending(journal') = Pending(journal)
          BY <1>0, <4>2, TitledLemma
      <4>4. ASSUME ~unsettled
            PROVE  /\ queued' = journal'.queued
                   /\ \A i \in Pending(journal') :
                        IF journal'.claim[i].ended THEN suspended' /\ i \in held' ELSE i \in work'.given
        <5>1. /\ queued = journal.queued
              /\ \A i \in Pending(journal) :
                   IF journal.claim[i].ended THEN suspended /\ i \in held ELSE i \in work.given
            BY <1>1, <1>4, <4>2, <4>4 DEF IMem, MemInv, Looping
        <5> QED
            BY <4>1, <4>3, <5>1
      <4> QED
          BY <4>1, <4>4 DEF IMem, MemInv
    <3> QED
        BY <3>3, <3>4
  <2>4. CASE s[1] = "unsettled"
    <3>1. effects_unsettled(o)
        BY <2>1, <2>4
    <3>2. unsettled' /\ orphaned' = orphaned
        BY <3>1 DEF effects_unsettled
    <3> QED
        BY <3>2, MemFrame
  <2>5. CASE s[1] = "complete"
    <3> DEFINE t == s[2]
    <3>1. complete(o, t, s[3]) /\ t \in Nat \ {0}
        BY <1>2, <2>1, <2>5, SignalKinds
    <3> HIDE DEF t
    <3>2. /\ queued' = queued /\ suspended' = suspended /\ held' = held /\ work' = work
          /\ orphaned' = orphaned \cup Orphans
        BY <3>1 DEF complete
    <3>3. CASE running # t \/ unsettled
      <4>1. UNCHANGED <<durable, recovery_requested, unsettled, task>>
          BY <3>1, <3>3, Zenon DEF complete
      <4>2. /\ journal' = journal /\ sink' = sink /\ recovery_requested' = recovery_requested
            /\ unsettled' = unsettled
          BY <4>1
      <4>3. Orphans = {}
          BY <4>2 DEF Orphans
      <4>4. orphaned' = orphaned
          BY <3>2, <4>3
      <4> QED
          BY <1>1, <3>2, <4>2, <4>4, MemFrame DEF Looping
    <3>4. CASE running = t /\ ~unsettled
      <4>1. /\ emit_batch(o, TurnFinished(journal, t))
            /\ IF o = "ok" THEN UNCHANGED <<recovery_requested, unsettled>> ELSE signal_failed
          BY <3>1, <3>4, Zenon DEF complete
      <4>2. journal' = journal \/ (journal' = TurnFinished(journal, t) /\ sink = "open")
          BY <1>0, <4>1, EmitFacts
      <4>3. ASSUME journal' = TurnFinished(journal, t), sink = "open"
            PROVE  /\ OpenTurn(journal) = t /\ t # 0
                   /\ queued = journal.queued
                   /\ \A i \in Pending(journal) :
                        IF journal.claim[i].ended THEN suspended /\ i \in held ELSE i \in work.given
                   /\ Good(journal') /\ OpenTurn(journal') = 0 /\ journal'.queued = journal.queued
                   /\ Pending(journal') \subseteq Pending(journal)
                   /\ \A i \in Pending(journal') : journal.claim[i].ended
                   /\ \A i \in journal'.dropped \ journal.dropped :
                        i \in Pending(journal) /\ ~journal.claim[i].ended
        <5>1. OpenTurn(journal) = t /\ t # 0
            BY <1>0, <1>1, <1>4, <3>1, <3>4, <4>3 DEF SyncInv, Looping
        <5>2. /\ queued = journal.queued
              /\ \A i \in Pending(journal) :
                   IF journal.claim[i].ended THEN suspended /\ i \in held ELSE i \in work.given
            BY <1>1, <1>4, <3>4, <4>3 DEF IMem, MemInv, Looping
        <5> QED
            BY <1>0, <4>3, <5>1, <5>2, FinishedLemma
      <4>4. Orphans = {}
        <5>1. CASE journal' = journal
            BY <5>1 DEF Orphans
        <5>2. CASE journal' = TurnFinished(journal, t) /\ sink = "open"
          <6>1. \A i \in journal'.dropped \ journal.dropped : i \in work.given
              BY <4>3, <5>2
          <6> QED
              BY <6>1 DEF Orphans
        <5> QED
            BY <4>2, <5>1, <5>2
      <4>5. orphaned' = orphaned
          BY <3>2, <4>4
      <4>6. CASE o # "ok"
          BY <1>0, <4>1, <4>5, <4>6, SignalFailedFacts, MemFrame
      <4>7. CASE o = "ok"
        <5>1. journal' = TurnFinished(journal, t) /\ sink = "open"
            BY <1>0, <4>1, <4>7, EmitFacts
        <5>2. \A i \in Pending(journal') : journal'.claim[i].ended
            BY <4>3, <5>1, ClosedFacts
        <5>3. \A i \in Pending(journal') : suspended' /\ i \in held'
            BY <3>2, <4>3, <5>1
        <5>4. queued' = journal'.queued
            BY <3>2, <4>3, <5>1
        <5> QED
            BY <4>5, <5>2, <5>3, <5>4 DEF IMem, MemInv
      <4> QED
          BY <4>6, <4>7
    <3> QED
        BY <3>3, <3>4
  <2> QED
      BY <1>2, <2>2, <2>3, <2>4, <2>5, SignalKinds
<1> QED
    BY <1>3, <1>4

LEMMA NextIMem ==
    ASSUME ~RetryOpening
    PROVE  IInv /\ IMem /\ [Next]_vars => IMem'
<1>1. SUFFICES ASSUME IInv, IMem, [Next]_vars
               PROVE  IMem'
    OBVIOUS
<1>2. CASE Startup
    BY <1>1, <1>2, MemQuietStep, MemRepairStep, MemResumeStep DEF Startup
<1>3. CASE Loop
    BY <1>1, <1>3, MemQuietStep, MemRecoverStep, MemLoopStartStep DEF Loop
<1>4. CASE Select
    BY <1>1, <1>4, MemQuietStep, MemSignalStep, MemSendStep DEF Select
<1>5. CASE Work
    BY <1>1, <1>5, MemQuietStep DEF Work
<1>6. CASE Handle
    BY <1>1, <1>6, MemQuietStep DEF Handle
<1>7. CASE actor_ends \/ crash
    BY <1>1, <1>7, MemQuietStep
<1>8. CASE UNCHANGED vars
  <2>1. /\ journal' = journal /\ sink' = sink /\ pc' = pc /\ queued' = queued /\ suspended' = suspended
        /\ held' = held /\ recovery_requested' = recovery_requested /\ unsettled' = unsettled
        /\ work' = work /\ orphaned' = orphaned
      BY <1>8 DEF vars
  <2> QED
      BY <1>1, <2>1 DEF IMem, MemInv, Looping
<1> QED
    BY <1>1, <1>2, <1>3, <1>4, <1>5, <1>6, <1>7, <1>8 DEF Next

LEMMA AlwaysIMem ==
    ASSUME ~RetryOpening
    PROVE  Spec => [](IInv /\ IMem)
<1>1. Init => IInv /\ IMem
  <2>1. Init => IMem
      BY DEF Init, IMem, MemInv, Looping
  <2> QED
      BY <2>1, InitIInv
<1>2. IInv /\ IMem /\ [Next]_vars => (IInv /\ IMem)'
    BY NextIInv, NextIMem
<1> QED
    BY <1>1, <1>2, PTL DEF Spec

(* An actor whose sender does not retry a refused opening takes work only
   while its memory is what a restart would rebuild from the journal. *)
THEOREM MemoryAlwaysFollowsJournal ==
    ASSUME ~RetryOpening
    PROVE  Spec => []MemoryFollowsJournal
<1>1. IInv /\ IMem => MemoryFollowsJournal
  <2>1. SUFFICES ASSUME IInv, IMem, pc = "select", ~recovery_requested, ~unsettled, sink = "open"
                 PROVE  /\ running = OpenTurn(journal)
                        /\ next_turn >= NextTurn(journal)
                        /\ queued = journal.queued
                        /\ \A i \in Pending(journal) :
                             IF journal.claim[i].ended THEN suspended /\ i \in held
                             ELSE journal.claim[i].turn = running /\ i \in work.given
      BY Zenon DEF MemoryFollowsJournal
  <2>2. running = OpenTurn(journal) /\ next_turn >= NextTurn(journal)
      BY <2>1 DEF IInv, SyncInv, Looping
  <2>3. /\ queued = journal.queued
        /\ \A i \in Pending(journal) :
             IF journal.claim[i].ended THEN suspended /\ i \in held ELSE i \in work.given
      BY <2>1 DEF IMem, MemInv, Looping
  <2>4. journal \in Journal /\ ClaimsInv(journal)
      BY <2>1 DEF IInv, Good
  <2>5. \A i \in Pending(journal) : ~journal.claim[i].ended => journal.claim[i].turn = OpenTurn(journal)
      BY <2>4, PendingFacts DEF ClaimsInv
  <2> QED
      BY <2>2, <2>3, <2>5
<1> QED
    BY <1>1, AlwaysIMem, PTL

(* An input whose sender was told Started or Queued stays in the journal, and
   no turn drops one its task was never given. *)
THEOREM InputsAlwaysSurvive ==
    ASSUME ~RetryOpening
    PROVE  Spec => []InputsSurvive
<1>1. IInv /\ IMem => InputsSurvive
    BY DEF IInv, HistInv, IMem, InputsSurvive
<1> QED
    BY <1>1, AlwaysIMem, PTL

-----------------------------------------------------------------------------
(* The proof that close returns. *)

(* A failed task is excused when it failed after the loop's last look. *)
Excused == \A t \in Tasks : task[t] = "failed" => t \in late

(* The cleanup runs with nothing else left to do; unless an effect is
   unproved, a fence it meets and a failure nobody has seen are late. *)
CleanInv ==
    /\ cleanup # "none" =>
         closing /\ idle /\ (signals = <<>> \/ (cleanup = "waiting" /\ signals = <<<<"hook">>>>))
    /\ \A k \in 1..Len(signals) : signals[k][1] = "hook" => cleanup # "none"
    /\ cleanup # "none" =>
         unsettled \/ ((recovery_requested => late # {}) /\ (pc # "failure" => Excused))
    /\ cleanup = "ok" => unsettled \/ sink = "open"

(* Between the looks of a closing loop, whatever becomes idle or fails is
   late. *)
LateInv ==
    closing /\ ~unsettled =>
        /\ pc = "start" => \A t \in Tasks : task[t] \in {"dropping", "failed"} => t \in late
        /\ pc \in {"failure", "start"} /\ recovery_requested /\ idle => late # {}

DoneInv ==
    /\ (pc = "done" /\ ~unsettled) \/ completion = "ok" =>
         /\ sink = "open" /\ idle /\ Excused
         /\ OpenTurn(journal) # 0 => late # {} /\ (recovery_requested \/ task["turn"] = "failed")
    /\ completion = "ok" => pc = "ended"

IClose == CleanInv /\ LateInv /\ DoneInv

(* A step that leaves the cleanup, the signals and the tasks alone. *)
LEMMA CloseFrame ==
    ASSUME IClose, cleanup' = cleanup, signals' = signals, task' = task, late' = late,
           closing' = closing, unsettled => unsettled',
           recovery_requested' = recovery_requested, sink' = sink, journal' = journal,
           completion' = completion \/ completion' = "err",
           \/ pc' = pc
           \/ /\ completion # "ok" /\ (pc' # "done" \/ unsettled')
              /\ pc # "failure" /\ pc' \notin {"failure", "start"}
    PROVE  IClose'
<1>1. Excused' <=> Excused
    BY DEF Excused
<1>2. idle' <=> idle
    BY DEF idle
<1>3. CleanInv'
    BY <1>1, <1>2 DEF IClose, CleanInv
<1>4. LateInv'
    BY <1>2 DEF IClose, LateInv
<1>5. DoneInv'
    BY <1>1, <1>2 DEF IClose, DoneInv
<1> QED
    BY <1>3, <1>4, <1>5 DEF IClose

(* A step of an actor that has no cleanup, and does not start one. *)
LEMMA CloseNoCleanup ==
    ASSUME IClose, cleanup = "none", cleanup' = "none", pc \notin {"done", "ended"},
           pc' # "done" \/ unsettled', completion' = completion \/ completion' # "ok",
           pc' \notin {"failure", "start"},
           \A k \in 1..Len(signals') : signals'[k][1] # "hook"
    PROVE  IClose'
<1>1. CleanInv'
    BY DEF CleanInv
<1>2. completion # "ok"
    BY DEF IClose, DoneInv
<1>3. DoneInv'
    BY <1>2 DEF DoneInv
<1>4. LateInv'
    BY DEF LateInv
<1> QED
    BY <1>1, <1>3, <1>4 DEF IClose

(* Without a cleanup no hook is buffered. *)
LEMMA NoHooks ==
    ASSUME IInv, IClose, cleanup = "none"
    PROVE  /\ \A k \in 1..Len(signals) : signals[k][1] # "hook"
           /\ signals # <<>> =>
                /\ Head(signals)[1] # "hook"
                /\ \A k \in 1..Len(Tail(signals)) : Tail(signals)[k][1] # "hook"
<1>1. \A k \in 1..Len(signals) : signals[k][1] # "hook"
    BY DEF IClose, CleanInv
<1>2. signals \in Seq(Signal)
    BY DEF IInv, SessionTypeOK, ActorTypeOK
<1>3. ASSUME signals # <<>>
      PROVE  /\ Head(signals)[1] # "hook"
             /\ \A k \in 1..Len(Tail(signals)) : Tail(signals)[k][1] # "hook"
  <2>1. Len(signals) \in Nat /\ Len(signals) # 0 /\ Head(signals) = signals[1] /\ 1 \in 1..Len(signals)
      BY <1>2, <1>3
  <2>2. ASSUME NEW k \in 1..Len(Tail(signals))
        PROVE  Tail(signals)[k][1] # "hook"
    <3>1. Tail(signals)[k] = signals[k + 1] /\ k + 1 \in 1..Len(signals)
        BY <1>2, <1>3, <2>2
    <3> QED
        BY <1>1, <3>1
  <2> QED
      BY <1>1, <2>1, <2>2
<1> QED
    BY <1>1, <1>3

(* A task that runs: there is no cleanup, and the actor has not returned. *)
LEMMA RunningFacts ==
    ASSUME IInv, IClose, NEW t \in Tasks, task[t] \in {"running", "dropping"}
    PROVE  cleanup = "none" /\ completion # "ok" /\ (pc = "done" => unsettled)
<1>1. ~idle
    BY DEF idle
<1> QED
    BY <1>1 DEF IClose, CleanInv, DoneInv

(* What such a task does: it may send a signal that is no hook. *)
LEMMA CloseTaskStep ==
    ASSUME IInv, IClose, NEW t \in Tasks, task[t] \in {"running", "dropping"},
           cleanup' = cleanup, pc' = pc, completion' = completion, unsettled' = unsettled,
           closing' = closing, recovery_requested' = recovery_requested,
           \/ task' = task /\ late' = late
           \/ Leaves(t) /\ \A u \in Tasks \ {t} : task'[u] = task[u],
           \/ signals' = signals
           \/ \E e \in Signal : e[1] # "hook" /\ signals' = Append(signals, e)
    PROVE  IClose'
<1>1. cleanup = "none" /\ completion # "ok" /\ (pc = "done" => unsettled)
    BY RunningFacts
<1>2. \A k \in 1..Len(signals) : signals[k][1] # "hook"
    BY <1>1, NoHooks
<1>3. signals \in Seq(Signal)
    BY DEF IInv, SessionTypeOK, ActorTypeOK
<1>4. \A k \in 1..Len(signals') : signals'[k][1] # "hook"
  <2>1. CASE signals' = signals
      BY <1>2, <2>1
  <2>2. CASE \E e \in Signal : e[1] # "hook" /\ signals' = Append(signals, e)
    <3>1. PICK e \in Signal : e[1] # "hook" /\ signals' = Append(signals, e)
        BY <2>2
    <3>2. /\ Len(signals') = Len(signals) + 1 /\ signals'[Len(signals) + 1] = e
          /\ \A k \in 1..Len(signals) : signals'[k] = signals[k]
          /\ Len(signals) \in Nat
        BY <1>3, <3>1
    <3>3. ASSUME NEW k \in 1..Len(signals')
          PROVE  signals'[k][1] # "hook"
      <4>1. k \in 1..Len(signals) \/ k = Len(signals) + 1
          BY <3>2
      <4> QED
          BY <1>2, <3>1, <3>2, <4>1
    <3> QED
        BY <3>3
  <2> QED
      BY <2>1, <2>2
<1>5. CleanInv'
    BY <1>1, <1>4 DEF CleanInv
<1>6. DoneInv'
  <2>1. completion' # "ok" /\ (pc' = "done" => unsettled')
      BY <1>1
  <2> QED
      BY <2>1 DEF DoneInv
<1>7. LateInv'
  <2>1. SUFFICES ASSUME closing, ~unsettled, pc \in {"failure", "start"}
                 PROVE  /\ pc = "start" =>
                             \A u \in Tasks : task'[u] \in {"dropping", "failed"} => u \in late'
                        /\ recovery_requested /\ idle' => late' # {}
      BY DEF LateInv
  <2>2. pc = "start" => \A u \in Tasks : task[u] \in {"dropping", "failed"} => u \in late
      BY <2>1 DEF IClose, LateInv
  <2>3. CASE task' = task /\ late' = late
    <3>1. ~idle'
      <4>1. task[t] \notin {"none", "failed"}
          OBVIOUS
      <4> QED
          BY <2>3, <4>1 DEF idle
    <3> QED
        BY <2>2, <2>3, <3>1
  <2>4. CASE Leaves(t) /\ \A u \in Tasks \ {t} : task'[u] = task[u]
    <3>1. late' = late \cup {t}
        BY <2>1, <2>4 DEF Leaves
    <3>2. ASSUME NEW u \in Tasks, pc = "start", task'[u] \in {"dropping", "failed"}
          PROVE  u \in late'
      <4>1. CASE u = t
          BY <3>1, <4>1
      <4>2. CASE u # t
        <5>1. task[u] \in {"dropping", "failed"}
            BY <2>4, <3>2, <4>2
        <5> QED
            BY <2>2, <3>1, <3>2, <5>1
      <4> QED
          BY <4>1, <4>2
    <3> QED
        BY <3>1, <3>2
  <2> QED
      BY <2>3, <2>4
<1> QED
    BY <1>5, <1>6, <1>7 DEF IClose

LEMMA CloseWorkStep ==
    ASSUME IInv, IClose,
           \/ (\E t \in Tasks : task_panics(t)) \/ (\E i \in Inputs : turn_commits(i))
           \/ turn_unsettled \/ turn_completes \/ turn_ends \/ title_ends
    PROVE  IClose'
<1>0. /\ "turn" \in Tasks /\ "title" \in Tasks
      /\ work \in Works
      /\ task["turn"] # "none" => work.turn # 0
    BY DEF Tasks, IInv, SessionTypeOK, TaskTypeOK
<1>1. CASE \E t \in Tasks : task_panics(t)
  <2>1. PICK t \in Tasks : task_panics(t)
      BY <1>1
  <2>2. /\ task[t] \in {"running", "dropping"}
        /\ cleanup' = cleanup /\ pc' = pc /\ completion' = completion /\ unsettled' = unsettled
        /\ closing' = closing /\ recovery_requested' = recovery_requested
        /\ Leaves(t) /\ \A u \in Tasks \ {t} : task'[u] = task[u]
        /\ signals' = signals
      BY <2>1 DEF task_panics, guard_drop, TaskTypeOK, IInv, SessionTypeOK
  <2> QED
      BY <2>2, CloseTaskStep
<1>2. CASE \E i \in Inputs : turn_commits(i)
  <2>1. PICK i \in Inputs : turn_commits(i)
      BY <1>2
  <2> DEFINE e == <<"commit", {i}>>
  <2>2. /\ task["turn"] = "running"
        /\ cleanup' = cleanup /\ pc' = pc /\ completion' = completion /\ unsettled' = unsettled
        /\ closing' = closing /\ recovery_requested' = recovery_requested
        /\ task' = task /\ late' = late
        /\ signals' = signals \/ signals' = Append(signals, e)
      BY <2>1 DEF turn_commits, Send
  <2>3. e \in Signal /\ e[1] # "hook"
      BY SignalForms
  <2> HIDE DEF e
  <2> QED
      BY <1>0, <2>2, <2>3, CloseTaskStep
<1>3. CASE turn_unsettled
  <2> DEFINE e == <<"unsettled">>
  <2>2. /\ task["turn"] = "running"
        /\ cleanup' = cleanup /\ pc' = pc /\ completion' = completion /\ unsettled' = unsettled
        /\ closing' = closing /\ recovery_requested' = recovery_requested
        /\ task' = task /\ late' = late
        /\ signals' = signals \/ signals' = Append(signals, e)
      BY <1>3 DEF turn_unsettled, Send
  <2>3. e \in Signal /\ e[1] # "hook"
      BY SignalForms
  <2> HIDE DEF e
  <2> QED
      BY <1>0, <2>2, <2>3, CloseTaskStep
<1>4. CASE turn_completes
  <2>1. PICK status \in {"completed", "failed"} :
          signals' = signals \/ signals' = Append(signals, <<"complete", work.turn, status>>)
      BY <1>4 DEF turn_completes, Send
  <2> DEFINE e == <<"complete", work.turn, status>>
  <2>2. /\ task["turn"] = "running"
        /\ cleanup' = cleanup /\ pc' = pc /\ completion' = completion /\ unsettled' = unsettled
        /\ closing' = closing /\ recovery_requested' = recovery_requested
        /\ task' = task /\ late' = late
      BY <1>4 DEF turn_completes
  <2>3. work.turn \in Nat \ {0}
      BY <1>0, <2>2 DEF Works
  <2>4. e \in Signal /\ e[1] # "hook"
      BY <2>3, SignalForms
  <2>5. signals' = signals \/ signals' = Append(signals, e)
      BY <2>1
  <2> HIDE DEF e
  <2> QED
      BY <1>0, <2>2, <2>4, <2>5, CloseTaskStep
<1>5. CASE turn_ends
  <2>2. /\ task["turn"] = "running"
        /\ cleanup' = cleanup /\ pc' = pc /\ completion' = completion /\ unsettled' = unsettled
        /\ closing' = closing /\ recovery_requested' = recovery_requested
        /\ Leaves("turn") /\ \A u \in Tasks \ {"turn"} : task'[u] = task[u]
        /\ signals' = signals
      BY <1>5 DEF turn_ends, task_ends, TaskTypeOK, IInv, SessionTypeOK
  <2> QED
      BY <1>0, <2>2, CloseTaskStep
<1>6. CASE title_ends
  <2> DEFINE e == <<"title">>
  <2>2. /\ task["title"] = "running"
        /\ cleanup' = cleanup /\ pc' = pc /\ completion' = completion /\ unsettled' = unsettled
        /\ closing' = closing /\ recovery_requested' = recovery_requested
        /\ Leaves("title") /\ \A u \in Tasks \ {"title"} : task'[u] = task[u]
        /\ signals' = signals \/ signals' = Append(signals, e)
      BY <1>6 DEF title_ends, task_ends, Send, TaskTypeOK, IInv, SessionTypeOK
  <2>3. e \in Signal /\ e[1] # "hook"
      BY SignalForms
  <2> HIDE DEF e
  <2> QED
      BY <1>0, <2>2, <2>3, CloseTaskStep
<1> QED
    BY <1>1, <1>2, <1>3, <1>4, <1>5, <1>6

(* The steps of the handle, of the start-up and of the loop's ends. *)
LEMMA CloseQuietStep ==
    ASSUME IInv, IClose,
           \/ close \/ close_deadline \/ tasks_changed \/ shutdown_cancelled \/ deadline
           \/ restart \/ startup_notices \/ startup_repair \/ startup_resume \/ crash
    PROVE  IClose'
<1>1. CASE close \/ close_deadline
  <2>1. /\ cleanup' = cleanup /\ signals' = signals /\ task' = task /\ late' = late /\ closing' = closing
        /\ unsettled' = unsettled /\ recovery_requested' = recovery_requested
        /\ sink' = sink /\ journal' = journal /\ pc' = pc
        /\ completion' = completion \/ completion' = "err"
      BY <1>1 DEF close, close_deadline
  <2> QED
      BY <2>1, CloseFrame
<1>2. CASE tasks_changed \/ shutdown_cancelled \/ deadline
  <2>1. /\ cleanup' = cleanup /\ signals' = signals /\ task' = task /\ late' = late /\ closing' = closing
        /\ recovery_requested' = recovery_requested
        /\ sink' = sink /\ journal' = journal /\ pc = "select"
        /\ completion' = completion
      BY <1>2 DEF tasks_changed, shutdown_cancelled, deadline, select
  <2>2. (pc' = "recover" /\ unsettled' = unsettled) \/ (pc' = "done" /\ unsettled')
      BY <1>2 DEF tasks_changed, shutdown_cancelled, deadline, select
  <2>3. completion # "ok"
      BY <2>1 DEF IClose, DoneInv
  <2> QED
      BY <2>1, <2>2, <2>3, CloseFrame
<1>3. CASE restart \/ startup_notices \/ startup_repair \/ startup_resume
  <2>1. /\ pc \in {"off", "notices", "repair", "resume"}
        /\ pc' \notin {"done", "failure", "start"} /\ cleanup' = cleanup /\ signals' = signals /\ completion' = completion
      BY <1>3 DEF restart, startup_notices, startup_repair, startup_resume
  <2>2. cleanup = "none"
      BY <2>1 DEF IInv, StartInv, Starting
  <2>3. \A k \in 1..Len(signals') : signals'[k][1] # "hook"
      BY <2>1, <2>2, NoHooks
  <2> QED
      BY <2>1, <2>2, <2>3, CloseNoCleanup
<1>4. CASE crash
  <2>1. pc' = "off" /\ cleanup' = "none" /\ signals' = <<>> /\ completion' = "none"
      BY <1>4 DEF crash
  <2>2. CleanInv' /\ LateInv' /\ DoneInv'
      BY <2>1 DEF CleanInv, LateInv, DoneInv
  <2> QED
      BY <2>2 DEF IClose
<1> QED
    BY <1>1, <1>2, <1>3, <1>4

(* cleanup_result: the loop ends with proof only when nothing is left. *)
LEMMA CloseResultStep ==
    ASSUME IInv, IClose, cleanup_result
    PROVE  IClose'
<1>1. /\ pc = "select" /\ pc' = "done" /\ cleanup \in {"ok", "err"} /\ cleanup' = cleanup
      /\ signals' = signals /\ task' = task /\ closing' = closing /\ sink' = sink /\ journal' = journal
      /\ recovery_requested' = recovery_requested /\ completion' = completion /\ late' = late
    BY DEF cleanup_result
<1>2. /\ unsettled' <=> unsettled \/ cleanup = "err"
    BY DEF cleanup_result
<1>3. completion # "ok"
    BY <1>1 DEF IClose, DoneInv
<1>4. CASE unsettled'
    BY <1>1, <1>2, <1>3, <1>4, CloseFrame
<1>5. CASE ~unsettled'
  <2>1. cleanup = "ok" /\ ~unsettled
      BY <1>1, <1>2, <1>5
  <2>2. sink = "open" /\ (recovery_requested => late # {}) /\ Excused /\ idle /\ signals = <<>>
      BY <1>1, <2>1 DEF IClose, CleanInv
  <2>3. OpenTurn(journal) # 0 => late # {} /\ (recovery_requested \/ task["turn"] = "failed")
    <3>1. SUFFICES ASSUME OpenTurn(journal) # 0, ~recovery_requested
                   PROVE  late # {} /\ task["turn"] = "failed"
        BY <2>2
    <3>2. running # 0
      <4>1. running = OpenTurn(journal)
          BY <1>1, <2>1, <2>2, <3>1 DEF IInv, SyncInv, Looping
      <4> QED
          BY <3>1, <4>1
    <3>3. ~Completes(signals, running)
        BY <2>2 DEF Completes
    <3>4. "turn" \in Tasks /\ task["turn"] # "none"
        BY <3>1, <3>2, <3>3, <2>1, <2>2 DEF IInv, RunInv, Tasks
    <3>5. task["turn"] = "failed"
        BY <2>2, <3>4 DEF idle
    <3> QED
        BY <2>2, <3>4, <3>5 DEF Excused
  <2>4. (Excused' <=> Excused) /\ (idle' <=> idle)
      BY <1>1 DEF Excused, idle
  <2>5. DoneInv'
      BY <1>1, <1>3, <2>2, <2>3, <2>4 DEF DoneInv
  <2>6. CleanInv'
      BY <1>1, <1>2, <2>1, <2>2, <2>4 DEF IClose, CleanInv
  <2>7. LateInv'
      BY <1>1 DEF LateInv
  <2> QED
      BY <2>5, <2>6, <2>7 DEF IClose
<1> QED
    BY <1>4, <1>5

LEMMA CloseCleanupStep ==
    ASSUME IInv, IClose, cleanup_publishes \/ cleanup_ends
    PROVE  IClose'
<1>1. /\ cleanup = "running" /\ task' = task /\ closing' = closing /\ sink' = sink /\ journal' = journal
      /\ recovery_requested' = recovery_requested /\ unsettled' = unsettled /\ completion' = completion
      /\ pc' = pc /\ late' = late
    BY DEF cleanup_publishes, cleanup_ends
<1>2. /\ closing /\ idle /\ signals = <<>>
      /\ unsettled \/ ((recovery_requested => late # {}) /\ (pc # "failure" => Excused))
    BY <1>1 DEF IClose, CleanInv
<1>3. (Excused' <=> Excused) /\ (idle' <=> idle)
    BY <1>1 DEF Excused, idle
<1>4. DoneInv' /\ LateInv'
    BY <1>1, <1>3 DEF IClose, DoneInv, LateInv
<1>5. CASE cleanup_publishes
  <2>1. cleanup' = "waiting" /\ signals' = Append(signals, <<"hook">>)
      BY <1>5 DEF cleanup_publishes, Send, Alive
  <2>2. signals' = <<<<"hook">>>>
      BY <1>2, <2>1
  <2>3. CleanInv'
      BY <1>1, <1>2, <1>3, <2>1, <2>2 DEF CleanInv
  <2> QED
      BY <1>4, <2>3 DEF IClose
<1>6. CASE cleanup_ends
  <2>1. /\ cleanup' \in {"ok", "err"} /\ signals' = signals
        /\ unsettled \/ sink = "closed" => cleanup' = "err"
      BY <1>6 DEF cleanup_ends
  <2>2. sink \in {"open", "closed"}
      BY DEF IInv, SessionTypeOK, DurableTypeOK
  <2>3. CleanInv'
      BY <1>1, <1>2, <1>3, <2>1, <2>2 DEF CleanInv
  <2> QED
      BY <1>4, <2>3 DEF IClose
<1> QED
    BY <1>5, <1>6

(* loop_recover: an idle session lowers its fence or is unproved. *)
LEMMA CloseRecoverStep ==
    ASSUME IInv, IClose, loop_recover
    PROVE  IClose'
<1>1. /\ pc = "recover" /\ pc' = "failure" /\ task' = task /\ completion' = completion
    BY DEF loop_recover
<1>2. idle' <=> idle
    BY <1>1 DEF idle
<1>3. DoneInv'
    BY <1>1 DEF IClose, DoneInv
<1>4. CASE ~(recovery_requested /\ idle /\ ~unsettled)
  <2>1. loop_top /\ UNCHANGED <<durable, memory, recovery_requested, unsettled, signals, work, cleanup, orphaned>>
      BY <1>4 DEF loop_recover
  <2>2. /\ sink' = sink /\ recovery_requested' = recovery_requested /\ unsettled' = unsettled
        /\ signals' = signals /\ cleanup' = cleanup
      BY <2>1
  <2>3. closing => closing'
      BY <2>1 DEF loop_top
  <2>4. CleanInv'
      BY <1>1, <1>2, <1>4, <2>2, <2>3 DEF IClose, CleanInv
  <2>5. LateInv'
      BY <1>1, <1>2, <1>4, <2>2 DEF LateInv
  <2> QED
      BY <1>3, <2>4, <2>5 DEF IClose
<1>5. CASE recovery_requested /\ idle /\ ~unsettled
  <2>1. /\ signals' = <<>> /\ cleanup' = Answered(signals)
        /\ closing' = (closing \/ requested)
        /\ IF Unproved(signals)
           THEN unsettled' = TRUE /\ armed' = TRUE /\ UNCHANGED <<durable, memory, recovery_requested>>
           ELSE \E o \in Outcomes \cup {"unreadable"} : recover_actor(o) /\ armed' = (closing' \/ unsettled')
      BY <1>5, Zenon DEF loop_recover
  <2>2. cleanup' # "none" => cleanup # "none"
    <3>1. DOMAIN signals = 1..Len(signals)
        BY DEF IInv, SessionTypeOK, ActorTypeOK
    <3>2. cleanup = "none" => ~\E k \in DOMAIN signals : signals[k][1] = "hook"
        BY <3>1, NoHooks
    <3> QED
        BY <2>1, <3>2 DEF Answered
  <2>3. cleanup' = "ok" => sink = "open"
    <3>1. cleanup' = "ok" => cleanup = "ok"
        BY <2>1 DEF Answered
    <3> QED
        BY <1>5, <3>1 DEF IClose, CleanInv
  <2>4. unsettled' \/ ~recovery_requested'
    <3>1. CASE Unproved(signals)
        BY <2>1, <3>1
    <3>2. CASE ~Unproved(signals)
      <4>1. PICK o \in Outcomes \cup {"unreadable"} : recover_actor(o)
          BY <2>1, <3>2
      <4>2. CASE failure \/ o = "unreadable"
        <5>1. unsettled' = TRUE
            BY <4>1, <4>2, Zenon DEF recover_actor
        <5> QED
            BY <5>1
      <4>3. CASE ~(failure \/ o = "unreadable")
        <5>1. recovery_requested' = (o # "ok") /\ unsettled' = (o # "ok")
            BY <4>1, <4>3, Zenon DEF recover_actor
        <5> QED
            BY <5>1
      <4> QED
          BY <4>2, <4>3
    <3> QED
        BY <3>1, <3>2
  <2>5. closing => closing'
      BY <2>1
  <2>6. cleanup' = "ok" => unsettled' \/ sink' = "open"
    <3>1. CASE Unproved(signals)
        BY <2>1, <3>1
    <3>2. CASE ~Unproved(signals)
      <4>1. PICK o \in Outcomes \cup {"unreadable"} : recover_actor(o)
          BY <2>1, <3>2
      <4>2. CASE failure \/ o = "unreadable"
        <5>1. unsettled' = TRUE
            BY <4>1, <4>2, Zenon DEF recover_actor
        <5> QED
            BY <5>1
      <4>3. CASE ~(failure \/ o = "unreadable")
        <5>1. repair(o) /\ unsettled' = (o # "ok")
            BY <4>1, <4>3, Zenon DEF recover_actor
        <5>2. o = "ok" => sink' = sink
            BY <5>1 DEF repair, emit_batch, durable
        <5> QED
            BY <2>3, <5>1, <5>2
      <4> QED
          BY <4>2, <4>3
    <3> QED
        BY <3>1, <3>2
  <2>7. CleanInv'
    <3>1. cleanup' # "none" => closing' /\ idle' /\ signals' = <<>>
        BY <1>2, <2>1, <2>2, <2>5 DEF IClose, CleanInv
    <3>2. Len(signals') = 0
        BY <2>1
    <3> QED
        BY <1>1, <2>4, <2>6, <3>1, <3>2 DEF CleanInv
  <2>8. LateInv'
      BY <1>1, <2>4 DEF LateInv
  <2> QED
      BY <1>3, <2>7, <2>8 DEF IClose
<1> QED
    BY <1>4, <1>5

(* loop_failure: a task that has failed is noticed here. *)
LEMMA CloseFailureStep ==
    ASSUME IInv, IClose, loop_failure
    PROVE  IClose'
<1>1. /\ pc = "failure" /\ pc' = "start" /\ task' = task /\ completion' = completion
      /\ signals' = signals /\ closing' = closing /\ recovery_requested' = recovery_requested
      /\ sink' = sink /\ journal' = journal /\ cleanup' = cleanup /\ late' = late
    BY DEF loop_failure
<1>2. unsettled' <=> unsettled \/ failure
    BY DEF loop_failure
<1>3. idle' <=> idle
    BY <1>1 DEF idle
<1>4. DoneInv'
    BY <1>1 DEF IClose, DoneInv
<1>5. ~failure => Excused' /\ \A t \in Tasks : task'[t] \notin {"dropping", "failed"}
    BY <1>1 DEF failure, Excused
<1>6. CleanInv'
    BY <1>1, <1>2, <1>3, <1>5 DEF IClose, CleanInv
<1>7. LateInv'
    BY <1>1, <1>2, <1>3, <1>5 DEF IClose, LateInv
<1> QED
    BY <1>4, <1>6, <1>7 DEF IClose

(* loop_start: the cleanup starts when no task and no signal is left. *)
LEMMA CloseStartStep ==
    ASSUME IInv, IClose, loop_start
    PROVE  IClose'
<1>1. /\ pc = "start" /\ completion' = completion /\ signals' = signals /\ closing' = closing
      /\ recovery_requested' = recovery_requested
    BY DEF loop_start
<1>2. CASE recovery_requested /\ idle /\ unsettled
  <2>1. pc' = "done" /\ UNCHANGED <<durable, memory, unsettled, cleanup, task, work, late>>
      BY <1>2, Zenon DEF loop_start
  <2>2. /\ journal' = journal /\ sink' = sink /\ unsettled' = unsettled /\ cleanup' = cleanup /\ task' = task
        /\ late' = late
      BY <2>1
  <2>3. unsettled' /\ completion # "ok"
      BY <1>1, <1>2, <2>2 DEF IClose, DoneInv
  <2> QED
      BY <1>1, <2>1, <2>2, <2>3, CloseFrame
<1>3. CASE ~(recovery_requested /\ idle /\ unsettled)
  <2>0. start_cleanup /\ take_queue /\ late' = IF cleanup' = "none" THEN {} ELSE late
      BY <1>3, Zenon DEF loop_start
  <2>1. pc' \in {"select", "recover"}
      BY <2>0 DEF take_queue
  <2>2. DoneInv'
      BY <1>1, <2>1 DEF IClose, DoneInv
  <2>3. CASE closing
    <3>1. UNCHANGED <<durable, memory, unsettled, task, work>>
        BY <2>0, <2>3, Zenon DEF take_queue
    <3>2. sink' = sink /\ unsettled' = unsettled /\ task' = task
        BY <3>1
    <3>3. /\ idle' <=> idle
          /\ cleanup' # "none" => late' = late /\ (Excused' <=> Excused)
        BY <2>0, <3>2 DEF Excused, idle
    <3>4. \/ cleanup' = cleanup
          \/ cleanup' = "running" /\ idle /\ signals = <<>>
        BY <2>0 DEF start_cleanup
    <3>5. CleanInv'
      <4>1. CASE cleanup' = cleanup
          BY <1>1, <2>1, <3>2, <3>3, <4>1 DEF IClose, CleanInv
      <4>2. CASE cleanup' = "running" /\ idle /\ signals = <<>>
        <5>1. unsettled \/ (Excused /\ (recovery_requested => late # {}))
            BY <1>1, <2>3, <4>2 DEF IClose, LateInv, Excused
        <5> QED
            BY <1>1, <2>1, <2>3, <3>2, <3>3, <4>2, <5>1 DEF CleanInv
      <4> QED
          BY <3>4, <4>1, <4>2
    <3>6. LateInv'
        BY <2>1 DEF LateInv
    <3> QED
        BY <2>2, <3>5, <3>6 DEF IClose
  <2>4. CASE ~closing
    <3>1. cleanup = "none"
        BY <2>4 DEF IClose, CleanInv
    <3>2. cleanup' = "none"
        BY <2>0, <2>4, <3>1 DEF start_cleanup
    <3>3. \A k \in 1..Len(signals') : signals'[k][1] # "hook"
        BY <1>1, <3>1, NoHooks
    <3> QED
        BY <1>1, <2>1, <3>1, <3>2, <3>3, CloseNoCleanup
  <2> QED
      BY <2>3, <2>4
<1> QED
    BY <1>2, <1>3

LEMMA CloseSendStep ==
    ASSUME IInv, IClose, NEW i \in Inputs, send_message(i)
    PROVE  IClose'
<1>1. /\ pc = "select" /\ pc' = "recover" /\ ~closing /\ cleanup' = cleanup /\ signals' = signals
      /\ completion' = completion
    BY DEF send_message, select
<1>2. cleanup = "none"
    BY <1>1 DEF IClose, CleanInv
<1>3. \A k \in 1..Len(signals') : signals'[k][1] # "hook"
    BY <1>1, <1>2, NoHooks
<1> QED
    BY <1>1, <1>2, <1>3, CloseNoCleanup

(* handle_turn_signal: during a cleanup the only signal is its own hook. *)
LEMMA CloseSignalStep ==
    ASSUME IInv, IClose, handle_turn_signal
    PROVE  IClose'
<1>0. SessionTypeOK /\ signals \in Seq(Signal)
    BY DEF IInv, SessionTypeOK, ActorTypeOK
<1>1. /\ pc = "select" /\ pc' = "recover" /\ signals # <<>> /\ signals' = Tail(signals)
      /\ closing' = closing /\ completion' = completion /\ late' = late
    BY DEF handle_turn_signal, select
<1> DEFINE s == Head(signals)
<1>2. s \in Signal
    BY <1>0, <1>1
<1>3. CASE cleanup = "none"
  <2>1. /\ s[1] # "hook"
        /\ \A k \in 1..Len(signals') : signals'[k][1] # "hook"
      BY <1>1, <1>3, NoHooks
  <2>2. cleanup' = "none"
    <3>1. CASE recovery_requested
      <4>1. cleanup' = Answered(<<s>>)
          BY <3>1, Zenon DEF handle_turn_signal
      <4>2. DOMAIN <<s>> = {1} /\ <<s>>[1] = s
          OBVIOUS
      <4> HIDE DEF s
      <4> QED
          BY <1>3, <2>1, <4>1, <4>2 DEF Answered
    <3>2. CASE ~recovery_requested
      <4>1. PICK o \in Outcomes :
              CASE s[1] \in {"commit", "hook"} -> durable_event(o, s)
                [] s[1] = "title" -> title_generated(o)
                [] s[1] = "unsettled" -> effects_unsettled(o)
                [] s[1] = "complete" -> complete(o, s[2], s[3])
          BY <3>2 DEF handle_turn_signal
      <4> HIDE DEF s
      <4>2. CASE s[1] = "commit"
        <5>1. durable_event(o, s)
            BY <4>1, <4>2
        <5> QED
            BY <1>3, <4>2, <5>1 DEF durable_event
      <4>3. CASE s[1] = "title"
        <5>1. title_generated(o)
            BY <4>1, <4>3
        <5> QED
            BY <1>3, <5>1 DEF title_generated
      <4>4. CASE s[1] = "unsettled"
        <5>1. effects_unsettled(o)
            BY <4>1, <4>4
        <5> QED
            BY <1>3, <5>1 DEF effects_unsettled
      <4>5. CASE s[1] = "complete"
        <5>1. complete(o, s[2], s[3])
            BY <4>1, <4>5
        <5> QED
            BY <1>3, <5>1 DEF complete
      <4> QED
          BY <1>2, <2>1, <4>2, <4>3, <4>4, <4>5, SignalKinds
    <3> QED
        BY <3>1, <3>2
  <2> QED
      BY <1>1, <1>3, <2>1, <2>2, CloseNoCleanup
<1>4. CASE cleanup # "none"
  <2>1. closing /\ idle /\ cleanup = "waiting" /\ signals = <<<<"hook">>>>
      BY <1>1, <1>4 DEF IClose, CleanInv
  <2>2. s = <<"hook">> /\ s[1] = "hook" /\ signals' = <<>>
      BY <1>1, <2>1
  <2>3. unsettled \/ ((recovery_requested => late # {}) /\ Excused)
      BY <1>1, <2>1 DEF IClose, CleanInv
  <2>4. /\ cleanup' \in {"running", "err"}
        /\ task' = task
        /\ unsettled => unsettled'
        /\ recovery_requested' => recovery_requested
    <3>1. CASE recovery_requested
      <4>1. /\ cleanup' = Answered(<<s>>)
            /\ unsettled' = (unsettled \/ Unproved(<<s>>))
            /\ UNCHANGED <<durable, memory, recovery_requested, task, orphaned>>
          BY <3>1, Zenon DEF handle_turn_signal
      <4>2. DOMAIN <<s>> = {1} /\ <<s>>[1] = s
          OBVIOUS
      <4>3. cleanup' = "err"
          BY <2>2, <4>1, <4>2 DEF Answered
      <4>4. task' = task /\ recovery_requested' = recovery_requested
          BY <4>1
      <4> QED
          BY <3>1, <4>1, <4>3, <4>4
    <3>2. CASE ~recovery_requested
      <4>1. PICK o \in Outcomes :
              CASE s[1] \in {"commit", "hook"} -> durable_event(o, s)
                [] s[1] = "title" -> title_generated(o)
                [] s[1] = "unsettled" -> effects_unsettled(o)
                [] s[1] = "complete" -> complete(o, s[2], s[3])
          BY <3>2 DEF handle_turn_signal
      <4>2. durable_event(o, s)
          BY <2>2, <4>1
      <4>3. /\ cleanup' = (IF o = "ok" THEN "running" ELSE "err")
            /\ IF o = "ok" THEN UNCHANGED <<recovery_requested, unsettled>> ELSE signal_failed
            /\ task' = task
          BY <2>2, <4>2 DEF durable_event
      <4>4. CASE o = "ok"
          BY <4>3, <4>4
      <4>5. CASE o # "ok"
          BY <1>0, <2>1, <4>3, <4>5, SignalFailedFacts
      <4> QED
          BY <4>4, <4>5
    <3> QED
        BY <3>1, <3>2
  <2>5. (Excused' <=> Excused) /\ (idle' <=> idle)
      BY <1>1, <2>4 DEF Excused, idle
  <2>6. CleanInv'
      BY <1>1, <2>1, <2>2, <2>3, <2>4, <2>5 DEF CleanInv
  <2>7. DoneInv' /\ LateInv'
      BY <1>1 DEF IClose, DoneInv, LateInv
  <2> QED
      BY <2>6, <2>7 DEF IClose
<1> QED
    BY <1>3, <1>4

(* actor_ends publishes Ok only for a loop that ended with proof. *)
LEMMA CloseEndsStep ==
    ASSUME IInv, IClose, actor_ends
    PROVE  IClose'
<1>1. /\ pc = "done" /\ pc' = "ended" /\ signals' = <<>> /\ cleanup' = "none"
      /\ journal' = journal /\ sink' = sink /\ task' = task /\ late' = late
      /\ recovery_requested' = recovery_requested
    BY DEF actor_ends
<1>2. completion' = "ok" => ~unsettled
  <2>1. unsettled => unsettled'
      BY DEF actor_ends
  <2>2. completion # "ok"
      BY <1>1 DEF IClose, DoneInv
  <2>3. completion' = IF completion # "none" THEN completion ELSE IF unsettled' THEN "err" ELSE "ok"
      BY DEF actor_ends
  <2> QED
      BY <2>1, <2>2, <2>3
<1>3. (Excused' <=> Excused) /\ (idle' <=> idle)
    BY <1>1 DEF Excused, idle
<1>4. DoneInv'
    BY <1>1, <1>2, <1>3 DEF IClose, DoneInv
<1>5. CleanInv' /\ LateInv'
    BY <1>1 DEF CleanInv, LateInv
<1> QED
    BY <1>4, <1>5 DEF IClose

LEMMA NextIClose == IInv /\ IClose /\ [Next]_vars => IClose'
<1>1. SUFFICES ASSUME IInv, IClose, [Next]_vars
               PROVE  IClose'
    OBVIOUS
<1>2. CASE Startup
    BY <1>1, <1>2, CloseQuietStep DEF Startup
<1>3. CASE Loop
    BY <1>1, <1>3, CloseRecoverStep, CloseFailureStep, CloseStartStep DEF Loop
<1>4. CASE Select
    BY <1>1, <1>4, CloseQuietStep, CloseResultStep, CloseSignalStep, CloseSendStep DEF Select
<1>5. CASE Work
    BY <1>1, <1>5, CloseWorkStep, CloseCleanupStep DEF Work
<1>6. CASE Handle
    BY <1>1, <1>6, CloseQuietStep DEF Handle
<1>7. CASE actor_ends \/ crash
    BY <1>1, <1>7, CloseEndsStep, CloseQuietStep
<1>8. CASE UNCHANGED vars
  <2>1. /\ journal' = journal /\ sink' = sink /\ pc' = pc /\ closing' = closing
        /\ recovery_requested' = recovery_requested /\ unsettled' = unsettled
        /\ signals' = signals /\ cleanup' = cleanup /\ task' = task /\ completion' = completion
        /\ late' = late
      BY <1>8 DEF vars, history
  <2> QED
      BY <1>1, <2>1, CloseFrame
<1> QED
    BY <1>1, <1>2, <1>3, <1>4, <1>5, <1>6, <1>7, <1>8 DEF Next

(* A caller of close is told Ok only when no task is still running, the journal
   took every event, every task has proved its end and no turn is open, for
   every order of failures and wherever the scheduler lets the cleanup run;
   the only exceptions are of tasks that ended after the loop's last look. *)
THEOREM CloseIsAlwaysProof == Spec => []CloseIsProof
<1>1. Init => IInv /\ IClose
  <2>1. Init => IClose
      BY DEF Init, IClose, CleanInv, LateInv, DoneInv
  <2> QED
      BY <2>1, InitIInv
<1>2. IInv /\ IClose /\ [Next]_vars => (IInv /\ IClose)'
    BY NextIInv, NextIClose
<1>3. IInv /\ IClose => CloseIsProof
    BY DEF IClose, DoneInv, CloseIsProof, Excused
<1> QED
    BY <1>1, <1>2, <1>3, PTL DEF Spec
=============================================================================
