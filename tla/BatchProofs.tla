---------------------------- MODULE BatchProofs ----------------------------
(***************************************************************************)
(* Proofs about ToolBatch, for every number of calls, every window, every  *)
(* number of permits and chunks, and every set of faults.                  *)
(*                                                                         *)
(* The inductive invariant has two layers.  ISched is about the scheduler: *)
(* the calls are past, launched, ready, being prepared and unprepared in   *)
(* that order (Shape), which is what makes its two counters mean what the  *)
(* code takes them to mean, and a mutation is the only call launched       *)
(* (MutInv).  ILog is about the channel and the journal: what was sent and *)
(* not yet committed continues what was committed (LogInv), the scheduler  *)
(* has at most one question open (AskInv), and once a result is missing    *)
(* the actor knows of it before it can admit another (FailInv).            *)
(***************************************************************************)
EXTENDS ToolBatch, FiniteSetTheorems, SequenceTheorems, TLAPS

-----------------------------------------------------------------------------
(* The inductive invariant: the scheduler. *)

Launched == {"spawned", "begun", "work", "ended", "completed"}

SchedTypeOK ==
    /\ st \in [Calls -> Stages] /\ kind \in [Calls -> Kinds]
    /\ diff \in [Calls -> {"none", "fresh", "stale"}]
    /\ mutation_running \in BOOLEAN
    /\ emitting \in [Calls -> Emits] /\ woken \subseteq Calls

(* The calls from the first to the last. *)
Shape(f) ==
    \A i, j \in Calls : i < j =>
        /\ f[j] = "past" => f[i] = "past"
        /\ f[j] \in Launched => f[i] \in Launched \cup {"past"}
        /\ f[j] \in {"ready", "preparing"} => f[i] \notin {"unprepared", "preparing"}

Only(i) == \A j \in Calls : st[j] \in Launched => j = i

MutInv ==
    /\ mutation_running =>
         pc = "loop" /\ \E i \in Calls : st[i] \in Launched /\ kind[i] = "mutate" /\ Only(i)
    /\ \A i \in Calls :
         kind[i] = "mutate" /\ st[i] \in {"spawned", "begun", "work", "ended"} => mutation_running

DiffInv == \A i \in Calls : st[i] = "work" => diff[i] # "stale"

(* Only a call at work emits. *)
EmitInv == \A i \in Calls :
    /\ i \in woken => emitting[i] # "none"
    /\ emitting[i] # "none" => st[i] = "work"

(* Where the scheduler is between two results. *)
PcInv ==
    /\ pc \in {"loop", "admit", "readmit", "persist", "results", "returned"}
    /\ pc \in {"admit", "readmit", "persist"} => next < Total /\ st[next] = "completed"
    /\ pc \in {"results", "returned"} => next = Total

ISched == SchedTypeOK /\ Shape(st) /\ MutInv /\ DiffInv /\ EmitInv /\ PcInv

-----------------------------------------------------------------------------
(* The inductive invariant: the channel and the journal. *)

Signal == [t : {"output", "approval", "unsettled", "admit", "finished", "results"},
           i : 0 .. Total]
Durable(s) == s.t \in {"output", "finished", "results"}
Question(s) == s.t \in {"admit", "finished", "results"}

(* What the scheduler may have sent so far. *)
Sent == {s \in Signal :
            /\ s.t = "output" => s.i <= next /\ s.i < Total
            /\ s.t = "finished" => s.i < next \/ (s.i = next /\ pc = "persist")
            /\ s.t = "finished" => s.i < Total
            /\ s.t = "results" => s.i = Total /\ pc \in {"results", "returned"}}

Before(a, b) ==
    Durable(a) /\ Durable(b) =>
        Rank(a) <= Rank(b) /\ (a.t # "output" => Rank(a) < Rank(b))

Sorted(s) == \A n \in 1 .. Len(s) : \A m \in 1 .. n - 1 : Before(s[m], s[n])

LogTypeOK ==
    /\ reply \in {"none", "ok", "err"} /\ failure \in BOOLEAN
    /\ fenced \in BOOLEAN /\ unsettled \in BOOLEAN
    /\ buffered \in [Calls -> Nat]
    /\ signals \in Seq(Signal) /\ transcript \in Seq(Signal)

LogInv ==
    /\ \A n \in 1 .. Len(transcript) : Durable(transcript[n])
    /\ transcript \in Seq(Sent) /\ signals \in Seq(Sent)
    /\ Sorted(transcript \o signals)

(* A question is answered before the next one is asked. *)
Open == {k \in 1 .. Len(signals) : Question(signals[k])}

AskInv ==
    /\ \A k, l \in Open : k = l
    /\ \A k \in Open :
         /\ reply = "none"
         /\ signals[k].t = "admit" => pc \in {"admit", "readmit"}
         /\ signals[k].t = "finished" => pc = "persist" /\ signals[k].i = next
         /\ signals[k].t = "results" => pc = "results"
    /\ pc \in {"loop", "returned"} => reply = "none"

InJournal(i) == \E m \in 1 .. Len(transcript) : Finishes(transcript[m], i)

(* The actor knows that a result is missing, or will before it is asked. *)
Warned(k) ==
    /\ signals[k].t = "unsettled"
    /\ \A l \in 1 .. Len(signals) : signals[l].t = "admit" => k < l

FailInv ==
    /\ failure => fenced \/ unsettled \/ \E k \in 1 .. Len(signals) : Warned(k)
    /\ (pc \in {"admit", "readmit"} /\ reply = "ok") \/ pc \in {"persist", "results"} => ~failure
    /\ pc = "persist" /\ reply = "ok" => InJournal(next)
    /\ pc = "persist" /\ reply = "err" => fenced
    /\ ~failure => \A i \in Calls : i < next => InJournal(i)

(* No result without the earlier ones. *)
NoGap ==
    \A n \in 1 .. Len(transcript) :
        transcript[n].t # "output" =>
            \A i \in Calls : i < transcript[n].i =>
                \E m \in 1 .. n - 1 : Finishes(transcript[m], i)

ILog == LogTypeOK /\ LogInv /\ AskInv /\ FailInv /\ NoGap

-----------------------------------------------------------------------------
(* The scheduler's counters count what they are taken for. *)

(* A set of calls with no gap before it counts up to its end. *)
LEMMA Prefix ==
    ASSUME NEW S \in SUBSET Calls,
           \A i, j \in Calls : i < j /\ j \in S => i \in S
    PROVE  /\ Cardinality(S) \in 0 .. Total
           /\ \A i \in Calls : i \in S <=> i < Cardinality(S)
<1>1. Total \in Nat
    BY BatchAssumption
<1>2. IsFiniteSet(Calls) /\ Cardinality(Calls) = Total
    BY <1>1, BatchAssumption, FS_Interval DEF Calls
<1>3. IsFiniteSet(S) /\ Cardinality(S) <= Total /\ Cardinality(S) \in Nat
    BY <1>2, FS_Subset, FS_CardinalityType
<1>4. ASSUME NEW i \in Calls, i \in S
      PROVE  i < Cardinality(S)
  <2>1. 0 .. i \subseteq S
      BY <1>1, <1>4 DEF Calls
  <2>2. Cardinality(0 .. i) <= Cardinality(S)
      BY <1>3, <2>1, FS_Subset
  <2>3. Cardinality(0 .. i) = i + 1
      BY <1>1, <1>4, FS_Interval DEF Calls
  <2> QED
      BY <1>1, <1>3, <1>4, <2>2, <2>3 DEF Calls
<1>5. ASSUME NEW i \in Calls, i \notin S
      PROVE  ~(i < Cardinality(S))
  <2>1. i \in Nat /\ i - 1 \in Int
      BY <1>1 DEF Calls
  <2>2. \A j \in S : j \in 0 .. i - 1
    <3>1. SUFFICES ASSUME NEW j \in S, ~(j < i)
                   PROVE  FALSE
        BY <1>1, <2>1 DEF Calls
    <3>2. j \in Calls /\ (i = j \/ i < j)
        BY <1>1, <3>1, <2>1 DEF Calls
    <3> QED
        BY <1>5, <3>1, <3>2
  <2>3. IsFiniteSet(0 .. i - 1) /\ Cardinality(0 .. i - 1) = i
    <3>1. PICK b \in Int : b = i - 1
        BY <2>1
    <3>2. IsFiniteSet(0 .. b) /\ Cardinality(0 .. b) = IF 0 > b THEN 0 ELSE b - 0 + 1
        BY FS_Interval
    <3> QED
        BY <2>1, <3>1, <3>2
  <2>4. Cardinality(S) <= Cardinality(0 .. i - 1)
      BY <2>2, <2>3, FS_Subset
  <2> QED
      BY <1>3, <2>1, <2>3, <2>4
<1> QED
    BY <1>1, <1>3, <1>4, <1>5

(* And one with no gap after it counts down to its start. *)
LEMMA Suffix ==
    ASSUME NEW S \in SUBSET Calls,
           \A i, j \in Calls : i < j /\ i \in S => j \in S
    PROVE  /\ Total - Cardinality(S) \in 0 .. Total
           /\ \A i \in Calls : i \in S <=> ~(i < Total - Cardinality(S))
<1>1. Total \in Nat
    BY BatchAssumption
<1>2. IsFiniteSet(Calls) /\ Cardinality(Calls) = Total
    BY <1>1, BatchAssumption, FS_Interval DEF Calls
<1>3. IsFiniteSet(S) /\ Cardinality(S) <= Total /\ Cardinality(S) \in Nat
    BY <1>2, FS_Subset, FS_CardinalityType
<1>4. ASSUME NEW i \in Calls, i \in S
      PROVE  ~(i < Total - Cardinality(S))
  <2>1. i \in Nat /\ i <= Total - 1 /\ Total - 1 \in Int
      BY <1>1 DEF Calls
  <2>2. i .. Total - 1 \subseteq S
    <3>1. SUFFICES ASSUME NEW j \in i .. Total - 1
                   PROVE  j \in S
        OBVIOUS
    <3>2. j \in Calls /\ (i = j \/ i < j)
        BY <1>1, <2>1 DEF Calls
    <3> QED
        BY <1>4, <3>2
  <2>3. Cardinality(i .. Total - 1) <= Cardinality(S)
      BY <1>3, <2>2, FS_Subset
  <2>4. Cardinality(i .. Total - 1) = Total - i
      BY <1>1, <2>1, FS_Interval
  <2> QED
      BY <1>1, <1>3, <2>1, <2>3, <2>4
<1>5. ASSUME NEW i \in Calls, i \notin S
      PROVE  i < Total - Cardinality(S)
  <2>1. i \in Nat /\ i <= Total - 1 /\ Total - 1 \in Int /\ i + 1 \in Int
      BY <1>1 DEF Calls
  <2>2. \A j \in S : j \in i + 1 .. Total - 1
    <3>1. SUFFICES ASSUME NEW j \in S, ~(i < j)
                   PROVE  FALSE
        BY <1>1, <2>1 DEF Calls
    <3>2. j \in Calls /\ (i = j \/ j < i)
        BY <1>1, <3>1, <2>1 DEF Calls
    <3> QED
        BY <1>5, <3>1, <3>2
  <2>3. IsFiniteSet(i + 1 .. Total - 1) /\ Cardinality(i + 1 .. Total - 1) = Total - 1 - i
      BY <1>1, <2>1, FS_Interval
  <2>4. Cardinality(S) <= Cardinality(i + 1 .. Total - 1)
      BY <2>2, <2>3, FS_Subset
  <2> QED
      BY <1>1, <1>3, <2>1, <2>3, <2>4
<1> QED
    BY <1>1, <1>3, <1>4, <1>5

(* next is the first call that is not past. *)
LEMMA NextFacts ==
    ASSUME Shape(st)
    PROVE  /\ next \in 0 .. Total
           /\ \A i \in Calls : st[i] = "past" <=> i < next
<1> DEFINE S == In({"past"})
<1>1. S \in SUBSET Calls /\ \A i \in Calls : i \in S <=> st[i] = "past"
    BY DEF In
<1>2. \A i, j \in Calls : i < j /\ j \in S => i \in S
    BY <1>1 DEF Shape
<1>3. next = Cardinality(S)
    BY DEF next
<1> HIDE DEF S
<1> QED
    BY <1>1, <1>2, <1>3, Prefix

(* The same of the state a step leads to. *)
LEMMA NextFactsPrimed ==
    ASSUME Shape(st')
    PROVE  /\ next' \in 0 .. Total
           /\ \A i \in Calls : st'[i] = "past" <=> i < next'
<1> DEFINE S == In({"past"})'
<1>1. S \in SUBSET Calls /\ \A i \in Calls : i \in S <=> st'[i] = "past"
    BY DEF In
<1>2. \A i, j \in Calls : i < j /\ j \in S => i \in S
    BY <1>1 DEF Shape
<1>3. next' = Cardinality(S)
    BY DEF next
<1> HIDE DEF S
<1> QED
    BY <1>1, <1>2, <1>3, Prefix

(* launched is the first call that is not launched. *)
LEMMA LaunchedFacts ==
    ASSUME st \in [Calls -> Stages], Shape(st)
    PROVE  /\ launched \in 0 .. Total
           /\ \A i \in Calls : st[i] \in Launched \cup {"past"} <=> i < launched
<1> DEFINE S == In({"unprepared", "preparing", "ready"})
<1>1. S \in SUBSET Calls /\ \A i \in Calls : i \in S <=> st[i] \in {"unprepared", "preparing", "ready"}
    BY DEF In
<1>2. \A i \in Calls : i \in S <=> st[i] \notin Launched \cup {"past"}
    BY <1>1 DEF Launched, Stages
<1>3. \A i, j \in Calls : i < j /\ i \in S => j \in S
    BY <1>2 DEF Shape
<1>4. launched = Total - Cardinality(S)
    BY DEF launched
<1> HIDE DEF S
<1> QED
    BY <1>1, <1>2, <1>3, <1>4, Suffix

(* A step that passes over no call keeps next. *)
LEMMA SameNext ==
    ASSUME Shape(st), Shape(st'), \A i \in Calls : st'[i] = "past" <=> st[i] = "past"
    PROVE  next' = next
<1>1. /\ next \in 0 .. Total /\ next' \in 0 .. Total
      /\ \A i \in Calls : i < next <=> i < next'
    BY NextFacts, NextFactsPrimed
<1>2. Total \in Nat
    BY BatchAssumption
<1>3. ~(next < next')
  <2>1. SUFFICES ASSUME next < next'
                 PROVE  FALSE
      OBVIOUS
  <2>2. next \in Calls
      BY <1>1, <1>2, <2>1 DEF Calls
  <2> QED
      BY <1>1, <2>1, <2>2
<1>4. ~(next' < next)
  <2>1. SUFFICES ASSUME next' < next
                 PROVE  FALSE
      OBVIOUS
  <2>2. next' \in Calls
      BY <1>1, <1>2, <2>1 DEF Calls
  <2> QED
      BY <1>1, <2>1, <2>2
<1> QED
    BY <1>1, <1>2, <1>3, <1>4

-----------------------------------------------------------------------------
(* The scheduler's invariant holds initially and every step keeps it. *)

LEMMA InitISched == Init => ISched
<1>1. SUFFICES ASSUME Init
               PROVE  ISched
    OBVIOUS
<1>2. \A i \in Calls : st[i] = "unprepared" /\ emitting[i] = "none"
    BY <1>1 DEF Init
<1>3. SchedTypeOK
    BY <1>1 DEF Init, SchedTypeOK, Stages, Kinds, Emits
<1>4. Shape(st)
    BY <1>2 DEF Shape, Launched
<1>5. MutInv /\ DiffInv /\ EmitInv
    BY <1>1, <1>2 DEF Init, MutInv, DiffInv, EmitInv
<1>6. PcInv
    BY <1>1 DEF Init, PcInv
<1> QED
    BY <1>3, <1>4, <1>5, <1>6 DEF ISched

LEMMA SchedQuiet ==
    ASSUME ISched, st' = st, kind' = kind, diff' = diff, mutation_running' = mutation_running,
           emitting' = emitting, woken' = woken, pc' = pc
    PROVE  ISched' /\ next' = next
<1>1. next' = next
    BY DEF next, In
<1>2. SchedTypeOK' /\ Shape(st)' /\ DiffInv' /\ EmitInv'
    BY DEF ISched, SchedTypeOK, Shape, DiffInv, EmitInv
<1>3. MutInv'
    BY DEF ISched, MutInv, Only
<1>4. PcInv'
    BY <1>1 DEF ISched, PcInv
<1> QED
    BY <1>1, <1>2, <1>3, <1>4 DEF ISched

(* A call at work emits; its emit ends, and is woken only while it waits. *)
LEMMA SchedEmit ==
    ASSUME ISched, NEW i \in Calls, emit(i) \/ retry_emit(i) \/ acquire(i) \/ deliver(i)
    PROVE  ISched' /\ next' = next
<1>1. /\ st' = st /\ kind' = kind /\ diff' = diff /\ mutation_running' = mutation_running
      /\ pc' = pc
    BY DEF emit, retry_emit, acquire, deliver, schedule, approval
<1>2. \E e \in Emits : emitting' = [emitting EXCEPT ![i] = e]
    BY DEF emit, retry_emit, acquire, deliver, Wait, Emits
<1>3. PICK e \in Emits : emitting' = [emitting EXCEPT ![i] = e]
    BY <1>2
<1>4. emitting \in [Calls -> Emits] /\ woken \subseteq Calls /\ EmitInv
    BY DEF ISched, SchedTypeOK
<1>5. st[i] = "work"
    BY <1>4 DEF emit, retry_emit, acquire, deliver, EmitInv
<1>6. woken' \subseteq woken /\ (i \in woken' => e # "none")
  <2>1. CASE emit(i)
      BY <1>4, <2>1 DEF emit, EmitInv
  <2>2. CASE retry_emit(i)
      BY <1>4, <2>2 DEF retry_emit
  <2>3. CASE acquire(i)
      BY <1>4, <2>3 DEF acquire
  <2>4. CASE deliver(i)
      BY <1>4, <2>4 DEF deliver
  <2> QED
      BY <2>1, <2>2, <2>3, <2>4
<1>7. emitting' \in [Calls -> Emits] /\ \A j \in Calls : emitting'[j] = IF j = i THEN e ELSE emitting[j]
    BY <1>3, <1>4
<1>8. EmitInv'
    BY <1>1, <1>4, <1>5, <1>6, <1>7 DEF EmitInv
<1>9. SchedTypeOK'
    BY <1>1, <1>4, <1>6, <1>7 DEF ISched, SchedTypeOK
<1>10. next' = next
    BY <1>1 DEF next, In
<1>11. Shape(st)' /\ DiffInv'
    BY <1>1 DEF ISched, Shape, DiffInv
<1>12. MutInv'
    BY <1>1 DEF ISched, MutInv, Only
<1>13. PcInv'
    BY <1>1, <1>10 DEF ISched, PcInv
<1> QED
    BY <1>10, <1>8, <1>9, <1>11, <1>12, <1>13 DEF ISched

(* The call that mutates is the only one launched. *)
LEMMA MutatesAlone ==
    ASSUME ISched, NEW i \in Calls, kind[i] = "mutate", st[i] \in {"spawned", "begun", "work", "ended"}
    PROVE  \A j \in Calls : st[j] \in Launched => j = i
<1>1. mutation_running
    BY DEF ISched, MutInv
<1>2. PICK k \in Calls : st[k] \in Launched /\ Only(k)
    BY <1>1 DEF ISched, MutInv
<1>3. k = i
    BY <1>2 DEF Only, Launched
<1> QED
    BY <1>2, <1>3 DEF Only

(* So the diffs its changes put out of date are not those of calls at work. *)
LEMMA SchedMutate ==
    ASSUME ISched, NEW i \in Calls, mutate(i)
    PROVE  ISched' /\ next' = next
<1>1. /\ st' = st /\ kind' = kind /\ mutation_running' = mutation_running
      /\ emitting' = emitting /\ woken' = woken /\ pc' = pc
    BY DEF mutate, schedule, output
<1>2. st[i] \in {"begun", "work"} /\ kind[i] = "mutate"
    BY DEF mutate
<1>3. \A j \in Calls : st[j] = "work" => j = i
    BY <1>2, MutatesAlone DEF Launched
<1>4. diff \in [Calls -> {"none", "fresh", "stale"}]
    BY DEF ISched, SchedTypeOK
<1>5. /\ diff' \in [Calls -> {"none", "fresh", "stale"}]
      /\ st[i] = "work" => diff'[i] = diff[i]
    BY <1>4 DEF mutate
<1>6. DiffInv'
    BY <1>1, <1>3, <1>5 DEF ISched, DiffInv
<1>7. next' = next
    BY <1>1 DEF next, In
<1>8. SchedTypeOK' /\ Shape(st)' /\ EmitInv'
    BY <1>1, <1>5 DEF ISched, SchedTypeOK, Shape, EmitInv
<1>9. MutInv'
    BY <1>1 DEF ISched, MutInv, Only
<1>10. PcInv'
    BY <1>1, <1>7 DEF ISched, PcInv
<1> QED
    BY <1>7, <1>6, <1>8, <1>9, <1>10 DEF ISched

(* The scheduler asks, and moves on with the answer. *)
LEMMA SchedAsks ==
    ASSUME ISched, admit \/ admitted \/ commit_results \/ batch_failed \/ batch_ends
    PROVE  ISched' /\ next' = next
<1>1. /\ st' = st /\ kind' = kind /\ diff' = diff
      /\ emitting' = emitting /\ woken' = woken
    BY DEF admit, admitted, commit_results, batch_failed, batch_ends, Asks, approval, output
<1>2. next' = next
    BY <1>1 DEF next, In
<1>3. mutation_running' => mutation_running
    BY DEF admit, admitted, commit_results, batch_failed, batch_ends, Asks, Cleared
<1>0. mutation_running \in BOOLEAN /\ Shape(st) /\ MutInv /\ PcInv
    BY DEF ISched, SchedTypeOK
<1>4. PcInv'
  <2>1. CASE admit
      BY <1>1, <1>2, <2>1 DEF admit, Committing, PcInv
  <2>2. CASE admitted
      BY <1>0, <1>1, <1>2, <2>2 DEF admitted, Asks, PcInv
  <2>3. CASE commit_results
      BY <1>1, <1>2, <2>3 DEF commit_results, Asks, PcInv
  <2>4. CASE batch_failed \/ batch_ends
      BY <1>0, <1>1, <1>2, <2>4 DEF batch_failed, batch_ends, PcInv
  <2> QED
      BY <2>1, <2>2, <2>3, <2>4
<1>5. mutation_running' \in BOOLEAN
    BY <1>0 DEF admit, admitted, commit_results, batch_failed, batch_ends, Asks, Cleared
<1>6. SchedTypeOK' /\ Shape(st)' /\ DiffInv' /\ EmitInv'
    BY <1>1, <1>5 DEF ISched, SchedTypeOK, Shape, DiffInv, EmitInv
<1>7. /\ ~mutation_running'
      /\ \A i \in Calls :
           ~(kind[i] = "mutate" /\ st[i] \in {"spawned", "begun", "work", "ended"})
  <2>1. CASE admit
    <3>1. next \in Calls /\ st[next] = "completed"
      <4>1. next \in 0 .. Total /\ next < Total /\ st[next] = "completed"
          BY <1>0, <2>1, NextFacts DEF admit, Committing
      <4> QED
          BY <4>1, BatchAssumption DEF Calls
    <3>2. mutation_running => kind[next] = "mutate" /\ Only(next)
        BY <1>0, <3>1 DEF MutInv, Only, Launched
    <3>3. ~mutation_running'
        BY <1>0, <2>1, <3>2 DEF admit, Cleared
    <3>4. ASSUME NEW i \in Calls, kind[i] = "mutate", st[i] \in {"spawned", "begun", "work", "ended"}
          PROVE  FALSE
      <4>1. next = i
          BY <3>1, <3>4, MutatesAlone DEF Launched
      <4> QED
          BY <3>1, <3>4, <4>1
    <3> QED
        BY <3>3, <3>4
  <2>2. CASE pc # "loop"
    <3>1. ~mutation_running
        BY <1>0, <2>2 DEF MutInv
    <3> QED
        BY <1>0, <1>3, <3>1 DEF MutInv
  <2>3. CASE pc = "loop" /\ next = Total
    <3>1. \A i \in Calls : st[i] = "past"
      <4>1. \A i \in Calls : i < Total
          BY BatchAssumption DEF Calls
      <4> QED
          BY <1>0, <2>3, <4>1, NextFacts
    <3>2. ~mutation_running
        BY <1>0, <3>1 DEF MutInv, Launched
    <3> QED
        BY <1>3, <3>1, <3>2
  <2> QED
      BY <2>1, <2>2, <2>3 DEF admitted, commit_results, batch_failed, batch_ends, Asks
<1>8. MutInv'
    BY <1>1, <1>7 DEF MutInv
<1> QED
    BY <1>2, <1>4, <1>6, <1>8 DEF ISched

(* A launched call goes on to its next stage. *)
LEMMA SchedStage ==
    ASSUME ISched, NEW i \in Calls, NEW x \in {"begun", "work", "ended", "completed"},
           st[i] \in {"spawned", "begun", "work", "ended"},
           st' = [st EXCEPT ![i] = x],
           x = "work" => diff[i] # "stale",
           kind' = kind, diff' = diff, mutation_running' = mutation_running, pc' = pc,
           \/ emitting' = emitting /\ woken' = woken /\ st[i] # "work"
           \/ emitting' = [emitting EXCEPT ![i] = "none"] /\ woken' = woken \ {i}
    PROVE  ISched' /\ next' = next
<1>1. SchedTypeOK /\ Shape(st) /\ MutInv /\ DiffInv /\ EmitInv /\ PcInv
    BY DEF ISched
<1>2. st \in [Calls -> Stages] /\ emitting \in [Calls -> Emits] /\ woken \subseteq Calls
    BY <1>1 DEF SchedTypeOK
<1>3. st' \in [Calls -> Stages] /\ \A j \in Calls : st'[j] = IF j = i THEN x ELSE st[j]
    BY <1>2 DEF Stages
<1>4. \A j \in Calls : /\ st'[j] = "past" <=> st[j] = "past"
                       /\ st'[j] \in Launched <=> st[j] \in Launched
                       /\ st'[j] \in {"ready", "preparing"} <=> st[j] \in {"ready", "preparing"}
                       /\ st'[j] \in {"unprepared", "preparing"} <=> st[j] \in {"unprepared", "preparing"}
    BY <1>3 DEF Launched
<1>5. Shape(st')
    BY <1>1, <1>4 DEF Shape
<1>6. next' = next
    BY <1>1, <1>4, <1>5, SameNext
<1>7. /\ emitting' \in [Calls -> Emits] /\ woken' \subseteq Calls
      /\ EmitInv'
  <2>1. CASE emitting' = emitting /\ woken' = woken /\ st[i] # "work"
      BY <1>1, <1>2, <1>3, <2>1 DEF EmitInv
  <2>2. CASE emitting' = [emitting EXCEPT ![i] = "none"] /\ woken' = woken \ {i}
    <3>1. \A j \in Calls : emitting'[j] = IF j = i THEN "none" ELSE emitting[j]
        BY <1>2, <2>2
    <3>2. emitting' \in [Calls -> Emits]
        BY <1>2, <2>2 DEF Emits
    <3> QED
        BY <1>1, <1>2, <1>3, <2>2, <3>1, <3>2 DEF EmitInv
  <2> QED
      BY <2>1, <2>2
<1>8. SchedTypeOK'
    BY <1>1, <1>3, <1>7 DEF SchedTypeOK
<1>9. MutInv'
  <2>1. mutation_running' =>
          pc' = "loop" /\ \E k \in Calls : st'[k] \in Launched /\ kind'[k] = "mutate" /\ Only(k)'
      BY <1>1, <1>4 DEF MutInv, Only
  <2>2. \A j \in Calls :
          kind'[j] = "mutate" /\ st'[j] \in {"spawned", "begun", "work", "ended"} => mutation_running'
      BY <1>1, <1>3 DEF MutInv
  <2> QED
      BY <2>1, <2>2 DEF MutInv
<1>10. DiffInv'
    BY <1>1, <1>3 DEF DiffInv
<1>11. PcInv'
  <2>1. pc \in {"admit", "readmit", "persist"} => next \in Calls
      BY <1>1, NextFacts, BatchAssumption DEF PcInv, Calls
  <2> QED
      BY <1>1, <1>3, <1>6, <2>1 DEF PcInv
<1> QED
    BY <1>6, <1>5, <1>7, <1>8, <1>9, <1>10, <1>11 DEF ISched

(* execute_prepared_tool: the steps of a call's task. *)
LEMMA SchedTask ==
    ASSUME ISched, NEW i \in Calls, begin(i) \/ revalidate(i) \/ end(i) \/ collect(i)
    PROVE  ISched' /\ next' = next
<1>1. /\ kind' = kind /\ diff' = diff /\ mutation_running' = mutation_running /\ pc' = pc
      /\ st[i] \in {"spawned", "begun", "work", "ended"}
    BY DEF begin, revalidate, end, collect, Ended, approval
<1>2. CASE st' = [st EXCEPT ![i] = "ended"] /\ Ended(i)
  <2>1. emitting' = [emitting EXCEPT ![i] = "none"] /\ woken' = woken \ {i}
      BY <1>2 DEF Ended
  <2> QED
      BY <1>1, <1>2, <2>1, SchedStage
<1>3. CASE begin(i) /\ ~Ended(i)
  <2>1. st' = [st EXCEPT ![i] = "begun"] /\ emitting' = emitting /\ woken' = woken /\ st[i] # "work"
      BY <1>3 DEF begin, output
  <2> QED
      BY <1>1, <2>1, SchedStage
<1>4. CASE revalidate(i) /\ ~Ended(i)
  <2>1. /\ st' = [st EXCEPT ![i] = "work"] /\ emitting' = emitting /\ woken' = woken
        /\ st[i] # "work" /\ diff[i] # "stale"
      BY <1>4 DEF revalidate, output, Revalidates
  <2> QED
      BY <1>1, <2>1, SchedStage
<1>5. CASE collect(i)
  <2>1. /\ st' = [st EXCEPT ![i] = "completed"] /\ emitting' = emitting /\ woken' = woken
        /\ st[i] # "work"
      BY <1>5 DEF collect, output
  <2> QED
      BY <1>1, <2>1, SchedStage
<1>6. Ended(i) => st' = [st EXCEPT ![i] = "ended"]
    BY DEF Ended
<1> QED
    BY <1>2, <1>3, <1>4, <1>5, <1>6 DEF end

(* A call that is being prepared becomes ready, or is authorized further. *)
LEMMA SchedReady ==
    ASSUME ISched, NEW i \in Calls, st[i] = "preparing", NEW k \in Kinds, Prepared(i, k),
           \/ diff' = diff
           \/ \E d \in {"none", "fresh"} : diff' = [diff EXCEPT ![i] = d],
           emitting' = emitting, woken' = woken
    PROVE  ISched' /\ next' = next
<1>1. SchedTypeOK /\ Shape(st) /\ MutInv /\ DiffInv /\ EmitInv /\ PcInv
    BY DEF ISched
<1>2. /\ st \in [Calls -> Stages] /\ kind \in [Calls -> Kinds]
      /\ diff \in [Calls -> {"none", "fresh", "stale"}]
    BY <1>1 DEF SchedTypeOK
<1>3. /\ st' = [st EXCEPT ![i] = "ready"] /\ kind' = [kind EXCEPT ![i] = k]
      /\ pc' = pc /\ mutation_running' = mutation_running
    BY DEF Prepared
<1>4. /\ st' \in [Calls -> Stages] /\ kind' \in [Calls -> Kinds]
      /\ \A j \in Calls : st'[j] = IF j = i THEN "ready" ELSE st[j]
      /\ \A j \in Calls : j # i => kind'[j] = kind[j]
    BY <1>2, <1>3 DEF Stages
<1>5. /\ diff' \in [Calls -> {"none", "fresh", "stale"}]
      /\ \A j \in Calls : j # i => diff'[j] = diff[j]
    BY <1>2
<1>6. Shape(st')
    BY <1>1, <1>4 DEF Shape, Launched
<1>7. next' = next
    BY <1>1, <1>4, <1>6, SameNext
<1>8. SchedTypeOK' /\ DiffInv' /\ EmitInv'
    BY <1>1, <1>4, <1>5, <1>3 DEF SchedTypeOK, DiffInv, EmitInv
<1>9. MutInv'
  <2>1. ASSUME mutation_running'
        PROVE  pc' = "loop" /\ \E j \in Calls : st'[j] \in Launched /\ kind'[j] = "mutate" /\ Only(j)'
    <3>1. PICK j \in Calls : st[j] \in Launched /\ kind[j] = "mutate" /\ Only(j) /\ pc = "loop"
        BY <1>1, <1>3, <2>1 DEF MutInv
    <3>2. j # i
        BY <3>1 DEF Launched
    <3>3. Only(j)'
        BY <1>4, <3>1 DEF Only, Launched
    <3> QED
        BY <1>3, <1>4, <3>1, <3>2, <3>3
  <2>2. \A j \in Calls :
          kind'[j] = "mutate" /\ st'[j] \in {"spawned", "begun", "work", "ended"} => mutation_running'
      BY <1>1, <1>3, <1>4 DEF MutInv
  <2> QED
      BY <2>1, <2>2 DEF MutInv
<1>10. PcInv'
  <2>1. pc \in {"admit", "readmit", "persist"} => next \in Calls
      BY <1>1, NextFacts, BatchAssumption DEF PcInv, Calls
  <2> QED
      BY <1>1, <1>3, <1>4, <1>7, <2>1 DEF PcInv
<1> QED
    BY <1>7, <1>6, <1>8, <1>9, <1>10 DEF ISched

(* The diff of a call that is being prepared may change freely. *)
LEMMA SchedPreview ==
    ASSUME ISched, NEW i \in Calls, st[i] = "preparing",
           \/ diff' = diff
           \/ \E d \in {"none", "fresh"} : diff' = [diff EXCEPT ![i] = d],
           st' = st, kind' = kind, mutation_running' = mutation_running, pc' = pc,
           emitting' = emitting, woken' = woken
    PROVE  ISched' /\ next' = next
<1>1. diff \in [Calls -> {"none", "fresh", "stale"}]
    BY DEF ISched, SchedTypeOK
<1>2. /\ diff' \in [Calls -> {"none", "fresh", "stale"}]
      /\ \A j \in Calls : j # i => diff'[j] = diff[j]
    BY <1>1
<1>3. next' = next
    BY DEF next, In
<1>4. SchedTypeOK' /\ Shape(st)' /\ DiffInv' /\ EmitInv'
    BY <1>2 DEF ISched, SchedTypeOK, Shape, DiffInv, EmitInv
<1>5. MutInv'
    BY DEF ISched, MutInv, Only
<1>6. PcInv'
    BY <1>3 DEF ISched, PcInv
<1> QED
    BY <1>3, <1>4, <1>5, <1>6 DEF ISched

LEMMA SchedPreparation ==
    ASSUME ISched, NEW i \in Calls, Preparation(i)
    PROVE  ISched' /\ next' = next
<1>1. /\ st[i] = "preparing" /\ emitting' = emitting /\ woken' = woken
      /\ \/ diff' = diff
         \/ \E d \in {"none", "fresh"} : diff' = [diff EXCEPT ![i] = d]
    BY DEF Preparation, authorize, decided, pre_tool, output
<1>2. \/ \E k \in Kinds : Prepared(i, k)
      \/ st' = st /\ kind' = kind /\ mutation_running' = mutation_running /\ pc' = pc
  <2>1. Authorized(i) => \/ \E k \in Kinds : Prepared(i, k)
                         \/ st' = st /\ kind' = kind /\ mutation_running' = mutation_running /\ pc' = pc
      BY DEF Authorized, Kinds
  <2>2. "complete" \in Kinds /\ "read" \in Kinds /\ "mutate" \in Kinds
      BY DEF Kinds
  <2>3. CASE authorize(i)
      BY <2>1, <2>2, <2>3 DEF authorize
  <2>4. CASE decided(i)
      BY <2>1, <2>2, <2>4 DEF decided
  <2>5. CASE pre_tool(i)
      BY <2>2, <2>5 DEF pre_tool
  <2> QED
      BY <2>3, <2>4, <2>5 DEF Preparation
<1>3. CASE \E k \in Kinds : Prepared(i, k)
    BY <1>1, <1>3, SchedReady
<1>4. CASE st' = st /\ kind' = kind /\ mutation_running' = mutation_running /\ pc' = pc
    BY <1>1, <1>4, SchedPreview
<1> QED
    BY <1>2, <1>3, <1>4

(* start_preparing takes the first unprepared call, which is behind all others. *)
LEMMA SchedStart ==
    ASSUME ISched, start_preparing
    PROVE  ISched' /\ next' = next
<1>1. SchedTypeOK /\ Shape(st) /\ MutInv /\ DiffInv /\ EmitInv /\ PcInv
    BY DEF ISched
<1>2. st \in [Calls -> Stages]
    BY <1>1 DEF SchedTypeOK
<1> DEFINE U == In({"unprepared"})
           i == Min(U)
<1>3. U \in SUBSET Calls /\ (\A j \in Calls : j \in U <=> st[j] = "unprepared") /\ U # {}
    BY DEF In, start_preparing, CanPrepare
<1>4. \A j \in Calls : st[j] # "preparing"
    BY DEF start_preparing, CanPrepare, Preparing, In
<1>5. /\ st' = [st EXCEPT ![i] = "preparing"] /\ kind' = kind /\ diff' = diff
      /\ mutation_running' = mutation_running /\ pc' = pc /\ pc = "loop"
      /\ emitting' = emitting /\ woken' = woken
    BY DEF start_preparing, output
<1>6. i \in U /\ \A j \in U : i <= j
  <2>1. \A j, k \in Calls : j < k /\ j \in U => k \in U
    <3>1. SUFFICES ASSUME NEW j \in Calls, NEW k \in Calls, j < k, st[j] = "unprepared"
                   PROVE  st[k] = "unprepared"
        BY <1>3
    <3>2. st[k] \in Stages /\ st[k] # "past" /\ st[k] \notin Launched /\ st[k] \notin {"ready", "preparing"}
        BY <1>1, <1>2, <3>1 DEF Shape, Launched
    <3> QED
        BY <3>2 DEF Stages, Launched
  <2> DEFINE b == Total - Cardinality(U)
  <2> HIDE DEF U
  <2>2. b \in 0 .. Total /\ \A j \in Calls : j \in U <=> ~(j < b)
      BY <1>3, <2>1, Suffix
  <2> HIDE DEF b
  <2>3. b \in Calls /\ b \in U /\ \A j \in U : b <= j
    <3>1. PICK u \in U : u \in Calls
        BY <1>3
    <3>2. ~(u < b)
        BY <2>2, <3>1
    <3>3. b \in Calls
        BY <2>2, <3>1, <3>2, BatchAssumption DEF Calls
    <3>4. \A j \in Calls : ~(j < b) => b <= j
        BY <2>2 DEF Calls
    <3> QED
        BY <1>3, <2>2, <3>3, <3>4
  <2>4. \E x \in U : \A y \in U : x <= y
      BY <2>3
  <2> QED
      BY <2>4, Zenon DEF Min
<1> HIDE DEF i, U
<1>7. /\ i \in Calls /\ st[i] = "unprepared" /\ \A j \in Calls : j < i => st[j] # "unprepared"
  <2>1. \A j \in Calls : j < i => ~(i <= j)
      BY <1>3, <1>6, BatchAssumption DEF Calls
  <2> QED
      BY <1>3, <1>6, <2>1
<1>8. st' \in [Calls -> Stages] /\ \A j \in Calls : st'[j] = IF j = i THEN "preparing" ELSE st[j]
    BY <1>2, <1>5, <1>7 DEF Stages
<1>9. Shape(st')
    BY <1>1, <1>4, <1>7, <1>8 DEF Shape, Launched
<1>10. next' = next
    BY <1>1, <1>7, <1>8, <1>9, SameNext
<1>11. SchedTypeOK' /\ DiffInv' /\ EmitInv'
    BY <1>1, <1>5, <1>7, <1>8 DEF SchedTypeOK, DiffInv, EmitInv
<1>12. MutInv'
  <2>1. \A j \in Calls : st'[j] \in Launched <=> st[j] \in Launched
      BY <1>7, <1>8 DEF Launched
  <2>2. \A j \in Calls : st'[j] \in {"spawned", "begun", "work", "ended"} => st'[j] = st[j]
      BY <1>8
  <2> QED
      BY <1>1, <1>5, <2>1, <2>2 DEF MutInv, Only
<1>13. PcInv'
    BY <1>1, <1>5, <1>10 DEF PcInv
<1> QED
    BY <1>10, <1>9, <1>11, <1>12, <1>13 DEF ISched

(* launch takes the first ready call, and a mutation only when none is launched. *)
LEMMA SchedLaunch ==
    ASSUME ISched, launch
    PROVE  ISched' /\ next' = next
<1>1. SchedTypeOK /\ Shape(st) /\ MutInv /\ DiffInv /\ EmitInv /\ PcInv
    BY DEF ISched
<1>2. st \in [Calls -> Stages]
    BY <1>1 DEF SchedTypeOK
<1>0. PICK i \in 0 .. Total : i = launched
    BY <1>1, <1>2, LaunchedFacts
<1>3. \A j \in Calls : st[j] \in Launched \cup {"past"} <=> j < i
    BY <1>0, <1>1, <1>2, LaunchedFacts
<1>4. PICK x \in {"completed", "spawned"} :
        /\ st' = [st EXCEPT ![i] = x]
        /\ \/ x = "completed" /\ mutation_running' = mutation_running
           \/ x = "spawned" /\ mutation_running' = (kind[i] = "mutate")
    BY <1>0 DEF launch, Front
<1>5. /\ kind' = kind /\ diff' = diff /\ pc' = pc /\ pc = "loop"
      /\ emitting' = emitting /\ woken' = woken
    BY DEF launch, approval, output
<1>6. /\ ~mutation_running /\ ReadyNonempty
      /\ kind[i] = "mutate" => i = next
    BY <1>0 DEF launch, CanLaunch, Front
<1>7. i \in Calls /\ st[i] = "ready"
  <2>1. PICK r \in Calls : st[r] = "ready"
      BY <1>6 DEF ReadyNonempty, In
  <2>2. ~(r < i)
      BY <1>3, <2>1 DEF Launched
  <2>3. i \in Calls /\ (i = r \/ i < r)
      BY <1>3, <2>2, BatchAssumption DEF Calls
  <2>4. ~(i < i)
      BY <1>3
  <2>5. st[i] \in Stages /\ st[i] \notin Launched \cup {"past"}
      BY <1>2, <1>3, <2>3, <2>4
  <2>6. i # r => st[i] \notin {"unprepared", "preparing"}
      BY <1>1, <2>1, <2>3 DEF Shape
  <2> QED
      BY <2>1, <2>3, <2>5, <2>6 DEF Stages, Launched
<1>8. st' \in [Calls -> Stages] /\ \A j \in Calls : st'[j] = IF j = i THEN x ELSE st[j]
    BY <1>2, <1>4, <1>7 DEF Stages
<1>9. x \in Launched /\ x # "work"
    BY DEF Launched
<1>10. Shape(st')
  <2>1. \A j \in Calls : j < i => st[j] \in Launched \cup {"past"}
      BY <1>3
  <2>2. \A j \in Calls : i < j => st[j] \notin Launched \cup {"past"}
      BY <1>3, <1>7, BatchAssumption DEF Calls
  <2>3. SUFFICES ASSUME NEW j \in Calls, NEW k \in Calls, j < k
                 PROVE  /\ st'[k] = "past" => st'[j] = "past"
                        /\ st'[k] \in Launched => st'[j] \in Launched \cup {"past"}
                        /\ st'[k] \in {"ready", "preparing"} => st'[j] \notin {"unprepared", "preparing"}
      BY DEF Shape
  <2>4. CASE j = i
      BY <1>8, <1>9, <2>2, <2>3, <2>4 DEF Launched
  <2>5. CASE k = i
      BY <1>8, <1>9, <2>1, <2>3, <2>5 DEF Launched
  <2>6. CASE j # i /\ k # i
      BY <1>1, <1>8, <2>3, <2>6 DEF Shape
  <2> QED
      BY <2>4, <2>5, <2>6
<1>11. next' = next
    BY <1>1, <1>7, <1>8, <1>9, <1>10, SameNext DEF Launched
<1>12. SchedTypeOK' /\ DiffInv' /\ EmitInv'
  <2>1. mutation_running' \in BOOLEAN
      BY <1>1, <1>4 DEF SchedTypeOK
  <2> QED
      BY <1>1, <1>5, <1>7, <1>8, <1>9, <2>1 DEF SchedTypeOK, DiffInv, EmitInv
<1>13. MutInv'
  <2>1. \A j \in Calls : ~(kind[j] = "mutate" /\ st[j] \in {"spawned", "begun", "work", "ended"})
      BY <1>1, <1>6 DEF MutInv
  <2>2. ASSUME mutation_running'
        PROVE  pc' = "loop" /\ \E j \in Calls : st'[j] \in Launched /\ kind'[j] = "mutate" /\ Only(j)'
    <3>1. kind[i] = "mutate" /\ i = next
        BY <1>4, <1>6, <2>2
    <3>2. \A j \in Calls : st[j] \notin Launched
      <4>1. \A j \in Calls : st[j] = "past" <=> j < i
          BY <1>1, <3>1, NextFacts
      <4> QED
          BY <1>3, <4>1 DEF Launched
    <3>3. Only(i)'
        BY <1>8, <3>2 DEF Only
    <3> QED
        BY <1>5, <1>7, <1>8, <1>9, <3>1, <3>3
  <2>3. \A j \in Calls :
          kind'[j] = "mutate" /\ st'[j] \in {"spawned", "begun", "work", "ended"} => mutation_running'
      BY <1>4, <1>5, <1>8, <2>1
  <2> QED
      BY <2>2, <2>3 DEF MutInv
<1>14. PcInv'
    BY <1>1, <1>5, <1>11 DEF PcInv
<1> QED
    BY <1>11, <1>10, <1>12, <1>13, <1>14 DEF ISched

(* A result is passed over: the call was completed, so nothing of it runs. *)
LEMMA SchedPass ==
    ASSUME ISched, skip_unsettled \/ refused \/ persisted
    PROVE  /\ ISched'
           /\ next \in Calls /\ next' = next + 1
           /\ st[next] = "completed" /\ pc' = "loop"
<1>1. SchedTypeOK /\ Shape(st) /\ MutInv /\ DiffInv /\ EmitInv /\ PcInv
    BY DEF ISched
<1>2. /\ st \in [Calls -> Stages] /\ kind \in [Calls -> Kinds]
      /\ diff \in [Calls -> {"none", "fresh", "stale"}] /\ emitting \in [Calls -> Emits]
      /\ woken \subseteq Calls /\ mutation_running \in BOOLEAN
    BY <1>1 DEF SchedTypeOK
<1>3. PICK b : Pass(b)
    BY DEF skip_unsettled, refused, persisted
<1> DEFINE i == next
<1>4. i \in 0 .. Total /\ \A j \in Calls : st[j] = "past" <=> j < i
    BY <1>1, NextFacts
<1>5. i \in Calls /\ st[i] = "completed"
  <2>1. i < Total /\ st[i] = "completed"
      BY <1>1 DEF skip_unsettled, refused, persisted, Committing, PcInv
  <2> QED
      BY <1>4, <2>1, BatchAssumption DEF Calls
<1>6. /\ st' = [st EXCEPT ![i] = "past"] /\ kind' = [kind EXCEPT ![i] = "none"]
      /\ diff' = [diff EXCEPT ![i] = "none"] /\ pc' = "loop"
      /\ emitting' = emitting /\ woken' = woken \cup Waiting
    BY <1>3 DEF Pass, advance
<1>7. /\ mutation_running' \in BOOLEAN /\ (mutation_running' => mutation_running /\ kind[i] # "mutate")
  <2>1. CASE skip_unsettled
      BY <1>2, <2>1 DEF skip_unsettled, Cleared
  <2>2. CASE refused \/ persisted
    <3>1. mutation_running' = mutation_running /\ ~mutation_running
        BY <1>1, <2>2 DEF refused, persisted, MutInv
    <3> QED
        BY <1>2, <3>1
  <2> QED
      BY <2>1, <2>2
<1> HIDE DEF i
<1>8. /\ st' \in [Calls -> Stages] /\ kind' \in [Calls -> Kinds]
      /\ diff' \in [Calls -> {"none", "fresh", "stale"}]
      /\ \A j \in Calls : st'[j] = IF j = i THEN "past" ELSE st[j]
      /\ \A j \in Calls : kind'[j] = IF j = i THEN "none" ELSE kind[j]
      /\ \A j \in Calls : diff'[j] = IF j = i THEN "none" ELSE diff[j]
    BY <1>2, <1>5, <1>6 DEF Stages, Kinds
<1>9. Shape(st')
  <2>1. SUFFICES ASSUME NEW j \in Calls, NEW k \in Calls, j < k
                 PROVE  /\ st'[k] = "past" => st'[j] = "past"
                        /\ st'[k] \in Launched => st'[j] \in Launched \cup {"past"}
                        /\ st'[k] \in {"ready", "preparing"} => st'[j] \notin {"unprepared", "preparing"}
      BY DEF Shape
  <2>2. CASE j = i
      BY <1>8, <2>2
  <2>3. CASE k = i
      BY <1>4, <1>8, <2>1, <2>3
  <2>4. CASE j # i /\ k # i
      BY <1>1, <1>8, <2>1, <2>4 DEF Shape
  <2> QED
      BY <2>2, <2>3, <2>4
<1>10. ~mutation_running'
  <2>1. ASSUME mutation_running
        PROVE  kind[i] = "mutate"
      BY <1>1, <1>5, <2>1 DEF MutInv, Only, Launched
  <2> QED
      BY <1>7, <2>1
<1>11. next' = i + 1
  <2>1. next' \in 0 .. Total /\ \A j \in Calls : j < next' <=> j < i \/ j = i
      BY <1>4, <1>8, <1>9, NextFactsPrimed
  <2>2. i \in Nat /\ i < Total /\ Total \in Nat
      BY <1>5, BatchAssumption DEF Calls
  <2>3. i < next'
      BY <1>5, <2>1
  <2>4. ~(i + 1 < next')
    <3>1. SUFFICES ASSUME i + 1 < next'
                   PROVE  FALSE
        OBVIOUS
    <3>2. i + 1 \in Calls
        BY <2>1, <2>2, <3>1 DEF Calls
    <3> QED
        BY <2>1, <2>2, <3>1, <3>2
  <2> QED
      BY <2>1, <2>2, <2>3, <2>4
<1>12. EmitInv'
  <2>1. emitting[i] = "none"
      BY <1>1, <1>5 DEF EmitInv
  <2>2. \A j \in Calls : j \in Waiting => emitting[j] # "none"
      BY DEF Waiting
  <2> QED
      BY <1>1, <1>6, <1>8, <2>1, <2>2 DEF EmitInv
<1>13. SchedTypeOK' /\ DiffInv'
  <2>1. woken' \subseteq Calls
      BY <1>2, <1>6 DEF Waiting
  <2> QED
      BY <1>1, <1>2, <1>6, <1>7, <1>8, <2>1 DEF SchedTypeOK, DiffInv
<1>14. MutInv'
  <2>1. \A j \in Calls : ~(kind'[j] = "mutate" /\ st'[j] \in {"spawned", "begun", "work", "ended"})
    <3>1. SUFFICES ASSUME NEW j \in Calls, kind'[j] = "mutate", st'[j] \in {"spawned", "begun", "work", "ended"}
                   PROVE  FALSE
        OBVIOUS
    <3>2. j # i /\ kind[j] = "mutate" /\ st[j] \in {"spawned", "begun", "work", "ended"}
        BY <1>8, <3>1
    <3>3. i = j
        BY <1>5, <3>2, MutatesAlone DEF Launched
    <3> QED
        BY <3>2, <3>3
  <2> QED
      BY <1>10, <2>1 DEF MutInv
<1>15. PcInv'
    BY <1>6 DEF PcInv
<1> QED
    BY <1>5, <1>6, <1>9, <1>11, <1>12, <1>13, <1>14, <1>15 DEF ISched, i

LEMMA NextISched == ISched /\ [Next]_vars => ISched'
<1>1. SUFFICES ASSUME ISched, [Next]_vars
               PROVE  ISched'
    OBVIOUS
<1>2. CASE Coordinator
    BY <1>1, <1>2, SchedLaunch, SchedStart, SchedPass, SchedAsks DEF Coordinator
<1>3. CASE handle_turn_signal \/ interrupt \/ UNCHANGED vars
  <2>1. /\ st' = st /\ kind' = kind /\ diff' = diff /\ mutation_running' = mutation_running
        /\ emitting' = emitting /\ woken' = woken /\ pc' = pc
    <3>1. CASE handle_turn_signal
      <4>1. /\ st' = st /\ kind' = kind /\ mutation_running' = mutation_running
            /\ emitting' = emitting /\ woken' = woken /\ pc' = pc
          BY <3>1 DEF handle_turn_signal, Rest, output
      <4>2. diff' = diff
          BY <3>1 DEF handle_turn_signal, reject_signal, handle_output, handle_admit, handle_durable,
             handle_unsettled, handle_approval, Answer, KeepApproval, approval
      <4> QED
          BY <4>1, <4>2
    <3>2. CASE interrupt
        BY <3>2 DEF interrupt, schedule, approval, output
    <3>3. CASE UNCHANGED vars
        BY <3>3 DEF vars, schedule, approval, output
    <3> QED
        BY <1>3, <3>1, <3>2, <3>3
  <2> QED
      BY <1>1, <2>1, SchedQuiet
<1>4. CASE \E i \in Calls : Client(i)
  <2>1. /\ st' = st /\ kind' = kind /\ diff' = diff /\ mutation_running' = mutation_running
        /\ emitting' = emitting /\ woken' = woken /\ pc' = pc
      BY <1>4 DEF Client, approve, deny, schedule, output
  <2> QED
      BY <1>1, <2>1, SchedQuiet
<1>5. CASE \E i \in Calls : Preparation(i) \/ Task(i) \/ collect(i) \/ emit(i) \/ mutate(i)
    BY <1>1, <1>5, SchedPreparation, SchedTask, SchedEmit, SchedMutate DEF Task
<1> QED
    BY <1>1, <1>2, <1>3, <1>4, <1>5 DEF Next, over

LEMMA AlwaysISched == Spec => []ISched
BY InitISched, NextISched, PTL DEF Spec

(* In every batch, a mutation at work has the workspace to itself: the window
   and the order of the calls do not let another tool of the batch start
   before its result is committed. *)
THEOREM MutationsAlwaysAlone == Spec => []MutationAlone
<1>1. ISched => MutationAlone
  <2>1. SUFFICES ASSUME ISched, NEW i \in In({"begun", "work"}), kind[i] = "mutate"
                 PROVE  In({"begun", "work"}) = {i}
      BY DEF MutationAlone
  <2>2. i \in Calls /\ st[i] \in {"begun", "work"}
      BY <2>1 DEF In
  <2>3. \A j \in Calls : st[j] \in {"begun", "work"} => j = i
      BY <2>1, <2>2, MutatesAlone DEF Launched
  <2> QED
      BY <2>2, <2>3 DEF In
<1> QED
    BY <1>1, AlwaysISched, PTL

(* In every batch, no tool works under an approved diff that an earlier call
   has put out of date. *)
THEOREM ApprovedDiffsAlwaysHold == Spec => []ApprovedDiffHolds
<1>1. ISched => ApprovedDiffHolds
    BY DEF ISched, DiffInv, ApprovedDiffHolds, In
<1> QED
    BY <1>1, AlwaysISched, PTL

-----------------------------------------------------------------------------
(* Sequences of signals. *)

LEMMA SeqWider ==
    ASSUME NEW A, NEW B, A \subseteq B, NEW s \in Seq(A)
    PROVE  s \in Seq(B)
<1>1. s \in [1 .. Len(s) -> A] /\ Len(s) \in Nat
    OBVIOUS
<1>2. s \in [1 .. Len(s) -> B]
    BY <1>1
<1> QED
    BY <1>1, <1>2

LEMMA ConcatFacts ==
    ASSUME NEW S, NEW s \in Seq(S), NEW w \in Seq(S)
    PROVE  /\ s \o w \in Seq(S) /\ Len(s \o w) = Len(s) + Len(w)
           /\ Len(s) \in Nat /\ Len(w) \in Nat
           /\ \A k \in 1 .. Len(s) : (s \o w)[k] = s[k]
           /\ \A k \in 1 .. Len(w) : (s \o w)[k + Len(s)] = w[k]
OBVIOUS

(* What is sent later continues what is sorted. *)
LEMMA SortedConcat ==
    ASSUME NEW S, NEW s \in Seq(S), NEW w \in Seq(S), Sorted(s), Sorted(w),
           \A m \in 1 .. Len(s), n \in 1 .. Len(w) : Before(s[m], w[n])
    PROVE  Sorted(s \o w)
<1>1. /\ Len(s) \in Nat /\ Len(w) \in Nat /\ Len(s \o w) = Len(s) + Len(w)
      /\ \A k \in 1 .. Len(s) : (s \o w)[k] = s[k]
      /\ \A k \in 1 .. Len(w) : (s \o w)[k + Len(s)] = w[k]
    OBVIOUS
<1> DEFINE v == s \o w
           a == Len(s)
           b == Len(w)
<1> HIDE DEF v
<1>2. SUFFICES ASSUME NEW n \in 1 .. a + b, NEW m \in 1 .. n - 1
               PROVE  Before(v[m], v[n])
    BY <1>1 DEF Sorted, v
<1>3. a \in Nat /\ b \in Nat
    BY <1>1
<1>4. CASE n <= a
  <2>1. m \in 1 .. a /\ n \in 1 .. a
      BY <1>2, <1>3, <1>4
  <2>2. v[m] = s[m] /\ v[n] = s[n]
      BY <1>1, <2>1 DEF v
  <2> QED
      BY <1>2, <2>1, <2>2 DEF Sorted
<1>5. CASE a < n /\ m <= a
  <2>1. m \in 1 .. a /\ n - a \in 1 .. b /\ n = (n - a) + a
      BY <1>2, <1>3, <1>5
  <2>2. v[m] = s[m] /\ v[n] = w[n - a]
      BY <1>1, <2>1 DEF v
  <2> QED
      BY <2>1, <2>2
<1>6. CASE a < m
  <2>1. /\ m - a \in 1 .. b /\ m = (m - a) + a /\ n - a \in 1 .. b /\ n = (n - a) + a
        /\ m - a \in 1 .. (n - a) - 1
      BY <1>2, <1>3, <1>6
  <2>2. v[m] = w[m - a] /\ v[n] = w[n - a]
      BY <1>1, <2>1 DEF v
  <2> QED
      BY <2>1, <2>2 DEF Sorted
<1> QED
    BY <1>2, <1>3, <1>4, <1>5, <1>6

(* The first signal moves to the journal, or is dropped. *)
LEMMA StreamTake ==
    ASSUME NEW S, NEW t \in Seq(S), NEW s \in Seq(S), s # <<>>
    PROVE  Append(t, Head(s)) \o Tail(s) = t \o s
<1> DEFINE u == Append(t, Head(s))
           r == Tail(s)
           v == u \o r
           w == t \o s
<1>1. /\ Len(t) \in Nat /\ Len(s) \in Nat /\ Len(s) # 0 /\ Head(s) \in S /\ Head(s) = s[1]
      /\ r \in Seq(S) /\ Len(r) = Len(s) - 1 /\ \A k \in 1 .. Len(r) : r[k] = s[k + 1]
    OBVIOUS
<1>2. /\ u \in Seq(S) /\ Len(u) = Len(t) + 1 /\ u[Len(t) + 1] = Head(s)
      /\ \A k \in 1 .. Len(t) : u[k] = t[k]
    BY <1>1
<1> HIDE DEF u, r
<1>3. /\ v \in Seq(S) /\ Len(v) = Len(u) + Len(r)
      /\ \A k \in 1 .. Len(u) : v[k] = u[k]
      /\ \A k \in 1 .. Len(r) : v[k + Len(u)] = r[k]
  <2>1. u \in Seq(S) /\ r \in Seq(S)
      BY <1>1, <1>2
  <2> QED
      BY <2>1, ConcatFacts
<1>4. /\ w \in Seq(S) /\ Len(w) = Len(t) + Len(s)
      /\ \A k \in 1 .. Len(t) : w[k] = t[k]
      /\ \A k \in 1 .. Len(s) : w[k + Len(t)] = s[k]
    BY <1>1
<1> HIDE DEF v, w
<1>5. Len(v) = Len(w)
    BY <1>1, <1>2, <1>3, <1>4
<1>6. ASSUME NEW k \in 1 .. Len(v)
      PROVE  v[k] = w[k]
  <2>1. CASE k <= Len(t)
    <3>1. k \in 1 .. Len(t) /\ k \in 1 .. Len(u)
        BY <1>1, <1>2, <2>1
    <3> QED
        BY <1>2, <1>3, <1>4, <3>1
  <2>2. CASE k = Len(t) + 1
    <3>1. k \in 1 .. Len(u) /\ 1 \in 1 .. Len(s) /\ k = 1 + Len(t)
        BY <1>1, <1>2, <2>2
    <3>2. v[k] = s[1]
        BY <1>1, <1>2, <1>3, <2>2, <3>1
    <3>3. w[k] = s[1]
        BY <1>4, <3>1
    <3> QED
        BY <3>2, <3>3
  <2>3. CASE k > Len(t) + 1
    <3> DEFINE j == k - (Len(t) + 1)
    <3>1. j \in 1 .. Len(r) /\ k = j + Len(u) /\ j + 1 \in 1 .. Len(s) /\ k = (j + 1) + Len(t)
        BY <1>1, <1>2, <1>3, <2>3
    <3> HIDE DEF j
    <3>2. v[k] = s[j + 1]
        BY <1>1, <1>3, <3>1
    <3>3. w[k] = s[j + 1]
        BY <1>4, <3>1
    <3> QED
        BY <3>2, <3>3
  <2> QED
      BY <1>1, <2>1, <2>2, <2>3
<1>7. v = w
    BY <1>3, <1>4, <1>5, <1>6, SeqEqual
<1> QED
    BY <1>7 DEF v, w, u, r

LEMMA StreamDrop ==
    ASSUME NEW S, NEW t \in Seq(S), NEW s \in Seq(S), s # <<>>, Sorted(t \o s)
    PROVE  Sorted(t \o Tail(s))
<1> DEFINE r == Tail(s)
           v == t \o r
           w == t \o s
<1>1. /\ Len(t) \in Nat /\ Len(s) \in Nat /\ Len(s) # 0
      /\ r \in Seq(S) /\ Len(r) = Len(s) - 1 /\ \A k \in 1 .. Len(r) : r[k] = s[k + 1]
    OBVIOUS
<1> HIDE DEF r
<1>2. /\ Len(v) = Len(t) + Len(r)
      /\ \A k \in 1 .. Len(t) : v[k] = t[k]
      /\ \A k \in 1 .. Len(r) : v[k + Len(t)] = r[k]
  <2>1. r \in Seq(S)
      BY <1>1
  <2> QED
      BY <2>1, ConcatFacts
<1>3. /\ Len(w) = Len(t) + Len(s)
      /\ \A k \in 1 .. Len(t) : w[k] = t[k]
      /\ \A k \in 1 .. Len(s) : w[k + Len(t)] = s[k]
    BY <1>1
<1>4. Sorted(w)
    OBVIOUS
<1> HIDE DEF v, w
<1> DEFINE g(k) == IF k <= Len(t) THEN k ELSE k + 1
<1>5. \A k \in 1 .. Len(v) : g(k) \in 1 .. Len(w) /\ v[k] = w[g(k)]
  <2>1. SUFFICES ASSUME NEW k \in 1 .. Len(v)
                 PROVE  g(k) \in 1 .. Len(w) /\ v[k] = w[g(k)]
      OBVIOUS
  <2>2. CASE k <= Len(t)
      BY <1>1, <1>2, <1>3, <2>2
  <2>3. CASE ~(k <= Len(t))
    <3> DEFINE j == k - Len(t)
    <3>1. j \in 1 .. Len(r) /\ k = j + Len(t) /\ j + 1 \in 1 .. Len(s) /\ k + 1 = (j + 1) + Len(t)
        BY <1>1, <1>2, <2>3
    <3> HIDE DEF j
    <3>2. v[k] = s[j + 1]
        BY <1>1, <1>2, <3>1
    <3>3. w[k + 1] = s[j + 1]
        BY <1>3, <3>1
    <3>4. k + 1 \in 1 .. Len(w)
        BY <1>1, <1>2, <1>3, <2>3
    <3> QED
        BY <2>3, <3>2, <3>3, <3>4
  <2> QED
      BY <2>2, <2>3
<1>6. ASSUME NEW n \in 1 .. Len(v), NEW m \in 1 .. n - 1
      PROVE  Before(v[m], v[n])
  <2>1. m \in 1 .. Len(v) /\ g(m) \in 1 .. g(n) - 1
      BY <1>1, <1>2
  <2>2. Before(w[g(m)], w[g(n)])
      BY <1>4, <1>5, <2>1, Zenon DEF Sorted
  <2> QED
      BY <1>5, <2>1, <2>2
<1>7. Sorted(v)
    BY <1>6 DEF Sorted
<1> QED
    BY <1>7 DEF v, r

-----------------------------------------------------------------------------
(* The channel and the journal: what an appended signal leaves true. *)

LEMMA InitILog == Init => ILog
<1>1. SUFFICES ASSUME Init
               PROVE  ILog
    OBVIOUS
<1>2. /\ signals = <<>> /\ transcript = <<>> /\ reply = "none" /\ ~failure /\ pc = "loop"
      /\ Len(signals) = 0 /\ Len(transcript) = 0 /\ transcript \o signals = <<>>
    BY <1>1 DEF Init
<1>3. LogTypeOK
  <2>1. signals \in Seq(Signal) /\ transcript \in Seq(Signal)
      BY <1>2
  <2>2. buffered \in [Calls -> Nat] /\ failure = FALSE /\ fenced = FALSE /\ unsettled = FALSE
      BY <1>1 DEF Init
  <2> QED
      BY <1>2, <2>1, <2>2 DEF LogTypeOK
<1>4. LogInv
    BY <1>2 DEF LogInv, Sorted
<1>5. AskInv /\ NoGap
    BY <1>2 DEF AskInv, Open, NoGap
<1>6. FailInv
  <2>1. next = 0
    <3>1. Shape(st)
        BY <1>1, InitISched DEF ISched
    <3>2. next \in 0 .. Total /\ \A i \in Calls : st[i] = "past" <=> i < next
        BY <3>1, NextFacts
    <3>3. 0 \in Calls /\ st[0] # "past"
        BY <1>1, BatchAssumption DEF Init, Calls
    <3> QED
        BY <3>2, <3>3
  <2>2. \A i \in Calls : ~(i < next)
      BY <2>1, BatchAssumption DEF Calls
  <2> QED
      BY <1>2, <2>2 DEF FailInv
<1> QED
    BY <1>3, <1>4, <1>5, <1>6 DEF ILog

LEMMA SentWider ==
    ASSUME ISched, next' \in Nat, next <= next',
           pc = "persist" => pc' = "persist" \/ next < next',
           pc \in {"results", "returned"} => pc' \in {"results", "returned"}
    PROVE  Sent \subseteq Sent'
<1>1. next \in 0 .. Total /\ Total \in Nat
    BY NextFacts, BatchAssumption DEF ISched
<1>2. SUFFICES ASSUME NEW s \in Sent
               PROVE  s \in Sent'
    OBVIOUS
<1>3. s \in Signal /\ s.i \in 0 .. Total
    BY <1>2 DEF Sent, Signal
<1> QED
    BY <1>1, <1>2, <1>3 DEF Sent, Signal

LEMMA LogExtend ==
    ASSUME LogInv, NEW w \in Seq(Sent'), Sorted(w), signals' = signals \o w,
           transcript' = transcript, Sent \subseteq Sent',
           \A a \in Sent, n \in 1 .. Len(w) : Before(a, w[n])
    PROVE  LogInv'
<1>1. transcript \in Seq(Sent) /\ signals \in Seq(Sent) /\ Sorted(transcript \o signals)
    BY DEF LogInv
<1>2. transcript \in Seq(Sent') /\ signals \in Seq(Sent')
    BY <1>1, SeqWider
<1> DEFINE s == transcript \o signals
<1>3. s \in Seq(Sent) /\ s \in Seq(Sent')
    BY <1>1, <1>2, ConcatFacts
<1>4. transcript' \o signals' = s \o w
    BY <1>2, ConcatAssociative
<1> HIDE DEF s
<1>5. \A m \in 1 .. Len(s), n \in 1 .. Len(w) : Before(s[m], w[n])
  <2>1. \A m \in 1 .. Len(s) : s[m] \in Sent
      BY <1>3
  <2> QED
      BY <2>1
<1>6. Sorted(s \o w)
    BY <1>1, <1>3, <1>5, SortedConcat DEF s
<1>7. signals' \in Seq(Sent')
    BY <1>2, ConcatFacts
<1> QED
    BY <1>2, <1>4, <1>6, <1>7 DEF LogInv

LEMMA OpenExtend ==
    ASSUME NEW S, signals \in Seq(S), NEW w \in Seq(S), signals' = signals \o w,
           \A n \in 1 .. Len(w) : ~Question(w[n])
    PROVE  Open' = Open /\ \A k \in Open : signals'[k] = signals[k]
<1>1. /\ Len(signals') = Len(signals) + Len(w) /\ Len(signals) \in Nat /\ Len(w) \in Nat
      /\ \A k \in 1 .. Len(signals) : signals'[k] = signals[k]
      /\ \A k \in 1 .. Len(w) : signals'[k + Len(signals)] = w[k]
    BY ConcatFacts
<1>2. ASSUME NEW k \in 1 .. Len(signals')
      PROVE  /\ k \in 1 .. Len(signals) => signals'[k] = signals[k]
             /\ k \notin 1 .. Len(signals) => ~Question(signals'[k])
  <2>1. CASE k \in 1 .. Len(signals)
      BY <1>1, <2>1
  <2>2. CASE k \notin 1 .. Len(signals)
    <3>1. k - Len(signals) \in 1 .. Len(w) /\ k = (k - Len(signals)) + Len(signals)
        BY <1>1, <2>2
    <3>2. signals'[k] = w[k - Len(signals)]
        BY <1>1, <3>1
    <3> QED
        BY <2>2, <3>1, <3>2
  <2> QED
      BY <2>1, <2>2
<1>3. 1 .. Len(signals) \subseteq 1 .. Len(signals')
    BY <1>1
<1>4. \A k : k \in Open' <=> k \in Open
    BY <1>1, <1>2, <1>3 DEF Open
<1> QED
    BY <1>1, <1>4 DEF Open

LEMMA OpenAsk ==
    ASSUME NEW S, signals \in Seq(S), NEW q \in S, signals' = Append(signals, q), Question(q),
           Open = {}
    PROVE  \A k \in Open' : k = Len(signals) + 1 /\ signals'[k] = q
<1>1. /\ Len(signals') = Len(signals) + 1 /\ Len(signals) \in Nat
      /\ \A k \in 1 .. Len(signals) : signals'[k] = signals[k]
      /\ signals'[Len(signals) + 1] = q
    BY AppendProperties
<1>2. SUFFICES ASSUME NEW k \in Open'
               PROVE  k = Len(signals) + 1
    BY <1>1
<1>3. k \in 1 .. Len(signals') /\ Question(signals'[k])
    BY <1>2 DEF Open, Question
<1>4. k \notin 1 .. Len(signals)
    BY <1>1, <1>3 DEF Open, Question
<1> QED
    BY <1>1, <1>3, <1>4

LEMMA WarnedExtend ==
    ASSUME NEW S, signals \in Seq(S), NEW w \in Seq(S), signals' = signals \o w,
           NEW k \in 1 .. Len(signals), Warned(k)
    PROVE  k \in 1 .. Len(signals') /\ Warned(k)'
<1>1. /\ Len(signals') = Len(signals) + Len(w) /\ Len(signals) \in Nat /\ Len(w) \in Nat
      /\ \A l \in 1 .. Len(signals) : signals'[l] = signals[l]
    BY ConcatFacts
<1>2. k \in 1 .. Len(signals') /\ signals'[k].t = "unsettled"
    BY <1>1 DEF Warned
<1>3. ASSUME NEW l \in 1 .. Len(signals'), signals'[l].t = "admit"
      PROVE  k < l
  <2>1. CASE l \in 1 .. Len(signals)
      BY <1>1, <1>3, <2>1 DEF Warned
  <2>2. CASE l \notin 1 .. Len(signals)
      BY <1>1, <2>2
  <2> QED
      BY <2>1, <2>2
<1> QED
    BY <1>2, <1>3 DEF Warned

(* A step that asks nothing, passes nothing and records nothing. *)
LEMMA LogQuiet ==
    ASSUME ISched, ILog, next' = next, pc' = pc, reply' = reply, failure' = failure,
           transcript' = transcript, unsettled' = unsettled,
           fenced' \in BOOLEAN, fenced => fenced', buffered' \in [Calls -> Nat],
           NEW w \in Seq(Sent), signals' = signals \o w, Sorted(w),
           \A a \in Sent, n \in 1 .. Len(w) : Before(a, w[n]),
           \A n \in 1 .. Len(w) : ~Question(w[n])
    PROVE  ILog'
<1>0. LogTypeOK /\ LogInv /\ AskInv /\ FailInv /\ NoGap
    BY DEF ILog
<1>1. Sent' = Sent
    BY DEF Sent
<1>2. signals \in Seq(Sent)
    BY <1>0 DEF LogInv
<1>3. LogInv'
    BY <1>0, <1>1, LogExtend
<1>4. LogTypeOK'
  <2>1. signals' \in Seq(Sent)
      BY <1>2, ConcatFacts
  <2>2. Sent \subseteq Signal
      BY DEF Sent
  <2>3. signals' \in Seq(Signal)
      BY <2>1, <2>2, SeqWider
  <2> QED
      BY <1>0, <2>3 DEF LogTypeOK
<1>5. AskInv'
  <2>1. Open' = Open /\ \A k \in Open : signals'[k] = signals[k]
      BY <1>2, OpenExtend
  <2> QED
      BY <1>0, <2>1 DEF AskInv
<1>6. \A i : InJournal(i)' <=> InJournal(i)
    BY DEF InJournal
<1>7. FailInv'
  <2>1. ASSUME failure'
        PROVE  fenced' \/ unsettled' \/ \E k \in 1 .. Len(signals') : Warned(k)'
    <3>1. CASE \E k \in 1 .. Len(signals) : Warned(k)
        BY <1>2, <3>1, WarnedExtend
    <3> QED
        BY <1>0, <2>1, <3>1 DEF FailInv
  <2> QED
      BY <1>0, <1>6, <2>1 DEF FailInv
<1>8. NoGap'
    BY <1>0 DEF NoGap
<1> QED
    BY <1>3, <1>4, <1>5, <1>7, <1>8 DEF ILog

(* In particular one that sends nothing, or a signal the journal never holds. *)
LEMMA LogSilent ==
    ASSUME ISched, ILog, next' = next, pc' = pc, reply' = reply, failure' = failure,
           transcript' = transcript, unsettled' = unsettled,
           fenced' \in BOOLEAN, fenced => fenced', buffered' = buffered,
           \/ signals' = signals
           \/ \E x \in Signal : x.t \in {"unsettled", "approval"} /\ signals' = Append(signals, x)
    PROVE  ILog'
<1>1. signals \in Seq(Sent) /\ buffered \in [Calls -> Nat]
    BY DEF ILog, LogInv, LogTypeOK
<1>2. CASE signals' = signals
  <2>1. signals' = signals \o <<>> /\ <<>> \in Seq(Sent) /\ Sorted(<<>>) /\ Len(<<>>) = 0
      BY <1>1, <1>2 DEF Sorted
  <2> DEFINE w == <<>>
  <2>2. w \in Seq(Sent) /\ signals' = signals \o w /\ Sorted(w) /\ Len(w) = 0
      BY <2>1
  <2> HIDE DEF w
  <2>3. (\A a \in Sent, n \in 1 .. Len(w) : Before(a, w[n])) /\ (\A n \in 1 .. Len(w) : ~Question(w[n]))
      BY <2>2
  <2> QED
      BY <1>1, <2>2, <2>3, LogQuiet
<1>3. CASE \E x \in Signal : x.t \in {"unsettled", "approval"} /\ signals' = Append(signals, x)
  <2>1. PICK x \in Signal : x.t \in {"unsettled", "approval"} /\ signals' = Append(signals, x)
      BY <1>3
  <2>2. x \in Sent
      BY <2>1 DEF Sent
  <2> DEFINE w == <<x>>
  <2>3. w \in Seq(Sent) /\ Len(w) = 1 /\ w[1] = x
      BY <2>2
  <2>4. signals' = signals \o w
      BY <1>1, <2>1, <2>2, AppendIsConcat
  <2> HIDE DEF w
  <2>5. /\ \A a \in Sent, n \in 1 .. Len(w) : Before(a, w[n])
        /\ \A n \in 1 .. Len(w) : ~Question(w[n])
        /\ Sorted(w)
      BY <2>1, <2>3 DEF Before, Durable, Question, Sorted
  <2> QED
      BY <1>1, <2>3, <2>4, <2>5, LogQuiet
<1> QED
    BY <1>2, <1>3

-----------------------------------------------------------------------------
(* The channel and the journal: the steps. *)

(* The steps of the scheduler, the client and the tools that ask nothing. *)
LEMMA LogLaunch ==
    ASSUME ISched, ILog, launch \/ start_preparing \/ interrupt
    PROVE  ILog'
<1>1. /\ pc' = pc /\ reply' = reply /\ failure' = failure /\ transcript' = transcript
      /\ unsettled' = unsettled /\ fenced' = fenced /\ buffered' = buffered /\ signals' = signals
    BY DEF launch, start_preparing, interrupt, schedule, output, actor
<1>2. next' = next
  <2>1. CASE interrupt
      BY <2>1 DEF interrupt, schedule, next, In
  <2> QED
      BY <2>1, SchedLaunch, SchedStart
<1>3. fenced \in BOOLEAN
    BY DEF ILog, LogTypeOK
<1> QED
    BY <1>1, <1>2, <1>3, LogSilent

LEMMA LogClient ==
    ASSUME ISched, ILog, NEW i \in Calls, Client(i)
    PROVE  ILog'
<1>1. /\ pc' = pc /\ reply' = reply /\ failure' = failure /\ transcript' = transcript
      /\ unsettled' = unsettled /\ buffered' = buffered /\ signals' = signals
    BY DEF Client, approve, deny, schedule, output
<1>2. fenced \in BOOLEAN
    BY DEF ILog, LogTypeOK
<1>3. fenced' \in BOOLEAN /\ (fenced => fenced')
    BY <1>2 DEF Client, approve, deny, Resolves
<1>4. next' = next
    BY DEF Client, approve, deny, schedule, next, In
<1> QED
    BY <1>1, <1>3, <1>4, LogSilent

LEMMA UnprovenSends ==
    ASSUME NEW i, Unproven(i)
    PROVE  \/ signals' = signals
           \/ \E x \in Signal : x.t \in {"unsettled", "approval"} /\ signals' = Append(signals, x)
<1>1. Unsettled \in Signal /\ Unsettled.t = "unsettled"
    BY BatchAssumption DEF Unsettled, Signal
<1> QED
    BY <1>1 DEF Unproven

LEMMA LogPreparation ==
    ASSUME ISched, ILog, NEW i \in Calls, Preparation(i)
    PROVE  ILog'
<1>1. /\ transcript' = transcript /\ unsettled' = unsettled /\ fenced' = fenced
      /\ buffered' = buffered
    BY DEF Preparation, authorize, decided, pre_tool, output, actor
<1>2. /\ pc' = pc /\ reply' = reply /\ failure' = failure
  <2>1. \A k : Prepared(i, k) => pc' = pc /\ reply' = reply /\ failure' = failure
      BY DEF Prepared
  <2>2. Authorized(i) => pc' = pc /\ reply' = reply /\ failure' = failure
      BY <2>1 DEF Authorized
  <2> QED
      BY <2>1, <2>2 DEF Preparation, authorize, decided, pre_tool
<1>3. \/ signals' = signals
      \/ \E x \in Signal : x.t \in {"unsettled", "approval"} /\ signals' = Append(signals, x)
  <2>1. CASE authorize(i)
    <3> DEFINE x == [t |-> "approval", i |-> i]
    <3>1. x \in Signal /\ x.t = "approval"
        BY BatchAssumption DEF Signal, Calls
    <3>2. signals' = signals \/ signals' = Append(signals, x)
        BY <2>1 DEF authorize
    <3> HIDE DEF x
    <3> QED
        BY <3>1, <3>2
  <2>2. CASE decided(i)
      BY <2>2 DEF decided, actor
  <2>3. CASE pre_tool(i)
      BY <2>3, UnprovenSends DEF pre_tool
  <2> QED
      BY <2>1, <2>2, <2>3 DEF Preparation
<1>4. next' = next
    BY SchedPreparation
<1>5. fenced \in BOOLEAN
    BY DEF ILog, LogTypeOK
<1> QED
    BY <1>1, <1>2, <1>3, <1>4, <1>5, LogSilent

LEMMA LogTask ==
    ASSUME ISched, ILog, NEW i \in Calls, begin(i) \/ revalidate(i) \/ end(i) \/ collect(i)
    PROVE  ILog'
<1>1. /\ transcript' = transcript /\ unsettled' = unsettled /\ fenced' = fenced
    BY DEF begin, revalidate, end, collect, actor
<1>2. /\ pc' = pc /\ reply' = reply /\ failure' = failure /\ buffered' = buffered
    BY DEF begin, revalidate, end, collect, Ended, output
<1>3. \/ signals' = signals
      \/ \E x \in Signal : x.t \in {"unsettled", "approval"} /\ signals' = Append(signals, x)
  <2>1. CASE begin(i)
      BY <2>1, UnprovenSends DEF begin, Settled
  <2>2. CASE revalidate(i)
      BY <2>2 DEF revalidate, Settled
  <2>3. CASE end(i)
      BY <2>3, UnprovenSends DEF end, Settled
  <2>4. CASE collect(i)
      BY <2>4 DEF collect, actor
  <2> QED
      BY <2>1, <2>2, <2>3, <2>4
<1>4. next' = next
    BY SchedTask
<1>5. fenced \in BOOLEAN
    BY DEF ILog, LogTypeOK
<1> QED
    BY <1>1, <1>2, <1>3, <1>4, <1>5, LogSilent

(* An output sent by the first unfinished call follows everything sent. *)
LEMMA OutputFollows ==
    ASSUME ISched, pc # "persist", next < Total,
           NEW w \in Seq(Signal), \A n \in 1 .. Len(w) : w[n].t = "output" /\ w[n].i = next
    PROVE  /\ w \in Seq(Sent) /\ Sorted(w)
           /\ \A a \in Sent, n \in 1 .. Len(w) : Before(a, w[n])
           /\ \A n \in 1 .. Len(w) : ~Question(w[n])
<1>1. next \in 0 .. Total /\ Total \in Nat
    BY NextFacts, BatchAssumption DEF ISched
<1>2. pc \notin {"results", "returned"}
    BY <1>1 DEF ISched, PcInv
<1>3. \A n \in 1 .. Len(w) : w[n] \in Sent
    BY <1>1 DEF Sent
<1>4. w \in Seq(Sent)
  <2>1. Len(w) \in Nat /\ w \in [1 .. Len(w) -> Signal]
      OBVIOUS
  <2>2. w \in [1 .. Len(w) -> Sent]
      BY <1>3, <2>1
  <2> QED
      BY <2>1, <2>2
<1>5. ASSUME NEW a \in Sent, NEW n \in 1 .. Len(w)
      PROVE  Before(a, w[n])
  <2>1. a.i \in 0 .. Total
      BY <1>5 DEF Sent, Signal
  <2>2. a.t = "output" => a.i <= next
      BY <1>5 DEF Sent
  <2>3. a.t = "finished" => a.i < next
      BY <1>5 DEF Sent
  <2>4. a.t # "results"
      BY <1>2, <1>5 DEF Sent
  <2>5. Rank(w[n]) = 2 * next
      BY <1>1 DEF Rank
  <2>6. CASE a.t = "output"
    <3>1. Rank(a) = 2 * a.i
        BY <2>1, <2>6 DEF Rank
    <3> QED
        BY <1>1, <2>1, <2>2, <2>5, <2>6, <3>1 DEF Before
  <2>7. CASE a.t = "finished"
    <3>1. Rank(a) = 2 * a.i + 1
        BY <2>1, <2>7 DEF Rank
    <3> QED
        BY <1>1, <2>1, <2>3, <2>5, <2>7, <3>1 DEF Before
  <2> QED
      BY <2>4, <2>6, <2>7 DEF Before, Durable
<1>6. Sorted(w)
  <2>1. SUFFICES ASSUME NEW n \in 1 .. Len(w), NEW m \in 1 .. n - 1
                 PROVE  Before(w[m], w[n])
      BY DEF Sorted
  <2>2. m \in 1 .. Len(w)
      OBVIOUS
  <2> QED
      BY <1>3, <1>5, <2>2
<1>7. \A n \in 1 .. Len(w) : ~Question(w[n])
    BY DEF Question
<1> QED
    BY <1>4, <1>5, <1>6, <1>7

(* The steps of an emit. *)
LEMMA LogEmit ==
    ASSUME ISched, ILog, NEW i \in Calls, emit(i) \/ retry_emit(i) \/ acquire(i) \/ deliver(i) \/ mutate(i)
    PROVE  ILog'
<1>1. /\ pc' = pc /\ reply' = reply /\ failure' = failure /\ transcript' = transcript
      /\ unsettled' = unsettled /\ fenced' = fenced
    BY DEF emit, retry_emit, acquire, deliver, mutate, schedule, actor
<1>2. next' = next
    BY SchedEmit, SchedMutate
<1>3. fenced \in BOOLEAN /\ buffered \in [Calls -> Nat] /\ signals \in Seq(Signal)
    BY DEF ILog, LogTypeOK
<1>4. CASE ~deliver(i)
  <2>1. signals' = signals /\ buffered' = buffered
      BY <1>4 DEF emit, retry_emit, acquire, mutate, output, actor
  <2> QED
      BY <1>1, <1>2, <1>3, <2>1, LogSilent
<1>5. CASE deliver(i)
  <2>1. st[i] = "work"
      BY <1>5 DEF deliver, ISched, EmitInv
  <2>2. CASE i # next
    <3>1. signals' = signals /\ buffered' = [buffered EXCEPT ![i] = @ + 1]
        BY <1>5, <2>2 DEF deliver
    <3>2. buffered' \in [Calls -> Nat]
        BY <1>3, <3>1
    <3> DEFINE w == <<>>
    <3>3. w \in Seq(Sent) /\ signals' = signals \o w /\ Sorted(w) /\ Len(w) = 0
        BY <1>3, <3>1 DEF Sorted
    <3> HIDE DEF w
    <3>4. (\A a \in Sent, n \in 1 .. Len(w) : Before(a, w[n])) /\ (\A n \in 1 .. Len(w) : ~Question(w[n]))
        BY <3>3
    <3> QED
        BY <1>1, <1>2, <1>3, <3>2, <3>3, <3>4, LogQuiet
  <2>3. CASE i = next
    <3> DEFINE w == Output(i, 1)
    <3>1. signals' = signals \o w /\ buffered' = buffered
        BY <1>5, <2>3 DEF deliver
    <3>2. w \in Seq(Signal) /\ \A n \in 1 .. Len(w) : w[n].t = "output" /\ w[n].i = i
      <4>1. [t |-> "output", i |-> i] \in Signal
          BY BatchAssumption DEF Signal, Calls
      <4> QED
          BY <4>1 DEF Output
    <3>3. pc # "persist" /\ next < Total
        BY <2>1, <2>3, BatchAssumption DEF ISched, PcInv, Calls
    <3> HIDE DEF w
    <3>4. /\ w \in Seq(Sent) /\ Sorted(w)
          /\ \A a \in Sent, n \in 1 .. Len(w) : Before(a, w[n])
          /\ \A n \in 1 .. Len(w) : ~Question(w[n])
        BY <2>3, <3>2, <3>3, OutputFollows
    <3> QED
        BY <1>1, <1>2, <1>3, <3>1, <3>4, LogQuiet
  <2> QED
      BY <2>2, <2>3
<1> QED
    BY <1>4, <1>5

LEMMA NoneOpen ==
    ASSUME AskInv, reply # "none" \/ pc \in {"loop", "returned"}
    PROVE  Open = {}
<1>1. ASSUME NEW k \in Open
      PROVE  FALSE
  <2>1. Question(signals[k]) /\ reply = "none"
      BY <1>1 DEF Open, AskInv
  <2> QED
      BY <1>1, <2>1 DEF AskInv, Question
<1> QED
    BY <1>1

(* The scheduler asks the actor, and knows the question is its only one. *)
LEMMA LogQuestion ==
    ASSUME ISched, ILog, next' = next, failure' = failure, transcript' = transcript,
           unsettled' = unsettled, fenced' = fenced, buffered' = buffered, reply' = "none",
           NEW q \in Sent', Question(q), signals' = Append(signals, q), Open = {},
           Sent \subseteq Sent', \A a \in Sent : Before(a, q),
           q.t = "admit" => pc' \in {"admit", "readmit"},
           q.t = "finished" => pc' = "persist" /\ q.i = next,
           q.t = "results" => pc' = "results",
           pc' \in {"persist", "results"} => ~failure
    PROVE  ILog'
<1>0. LogTypeOK /\ LogInv /\ AskInv /\ FailInv /\ NoGap
    BY DEF ILog
<1>1. signals \in Seq(Sent) /\ signals \in Seq(Sent')
    BY <1>0, SeqWider DEF LogInv
<1> DEFINE w == <<q>>
<1>2. w \in Seq(Sent') /\ Len(w) = 1 /\ w[1] = q
    OBVIOUS
<1>3. signals' = signals \o w
    BY <1>1, AppendIsConcat
<1> HIDE DEF w
<1>4. Sorted(w) /\ \A a \in Sent, n \in 1 .. Len(w) : Before(a, w[n])
    BY <1>2 DEF Sorted
<1>5. LogInv'
    BY <1>0, <1>2, <1>3, <1>4, LogExtend
<1>6. LogTypeOK'
  <2>1. Sent' \subseteq Signal
      BY DEF Sent, Signal
  <2>2. signals' \in Seq(Signal)
      BY <1>5, <2>1, SeqWider DEF LogInv
  <2> QED
      BY <1>0, <2>2 DEF LogTypeOK
<1>7. AskInv'
  <2>1. \A k \in Open' : k = Len(signals) + 1 /\ signals'[k] = q
      BY <1>1, OpenAsk
  <2> QED
      BY <2>1 DEF AskInv
<1>8. FailInv'
  <2>1. \A i : InJournal(i)' <=> InJournal(i)
      BY DEF InJournal
  <2>2. ASSUME failure'
        PROVE  fenced' \/ unsettled' \/ \E k \in 1 .. Len(signals') : Warned(k)'
    <3>1. CASE \E k \in 1 .. Len(signals) : Warned(k)
        BY <1>1, <1>2, <1>3, <3>1, WarnedExtend
    <3> QED
        BY <1>0, <2>2, <3>1 DEF FailInv
  <2> QED
      BY <1>0, <2>1, <2>2 DEF FailInv
<1>9. NoGap'
    BY <1>0 DEF NoGap
<1> QED
    BY <1>5, <1>6, <1>7, <1>8, <1>9 DEF ILog

(* The rank of what was sent, by its kind. *)
LEMMA SentRank ==
    ASSUME NEW a \in Sent, Durable(a)
    PROVE  /\ a.i \in 0 .. Total
           /\ a.t = "output" => Rank(a) = 2 * a.i /\ a.i <= next /\ a.i < Total
           /\ a.t = "finished" =>
                Rank(a) = 2 * a.i + 1 /\ a.i < Total /\ (a.i < next \/ (a.i = next /\ pc = "persist"))
           /\ a.t = "results" => pc \in {"results", "returned"}
           /\ a.t \in {"output", "finished", "results"}
<1>1. a.i \in 0 .. Total /\ Total \in Nat
    BY BatchAssumption DEF Sent, Signal
<1>2. a.t = "output" => Rank(a) = 2 * a.i
    BY <1>1 DEF Rank
<1>3. a.t # "output" => Rank(a) = 2 * a.i + 1
    BY <1>1 DEF Rank
<1> QED
    BY <1>1, <1>2, <1>3 DEF Sent, Durable

LEMMA LogAsks ==
    ASSUME ISched, ILog, admit \/ admitted \/ commit_results
    PROVE  ILog'
<1>0. AskInv /\ FailInv /\ PcInv /\ next \in 0 .. Total /\ Total \in Nat
    BY NextFacts, BatchAssumption DEF ILog, ISched
<1>1. /\ failure' = failure /\ transcript' = transcript /\ unsettled' = unsettled
      /\ fenced' = fenced /\ buffered' = buffered
    BY DEF admit, admitted, commit_results, Asks, output
<1>2. next' = next
    BY SchedAsks
<1>3. CASE pc' \in {"admit", "readmit"}
  <2> DEFINE q == [t |-> "admit", i |-> next]
  <2>1. /\ signals' = Append(signals, q) /\ reply' = "none" /\ Open = {}
        /\ pc \in {"loop", "admit"}
    <3>1. CASE admit
        BY <1>0, <3>1, NoneOpen DEF admit, Committing, AskInv
    <3>2. CASE admitted
        BY <1>0, <1>3, <3>2, NoneOpen DEF admitted, Asks
    <3> QED
        BY <1>3, <3>1, <3>2 DEF commit_results, Asks
  <2>2. q \in Sent' /\ q.t = "admit" /\ Question(q) /\ ~Durable(q)
      BY <1>0, <1>2 DEF Sent, Signal, Question, Durable
  <2> HIDE DEF q
  <2>3. \A a \in Sent : Before(a, q)
      BY <2>2 DEF Before
  <2>4. Sent \subseteq Sent'
      BY <1>0, <1>2, <2>1, SentWider
  <2> QED
      BY <1>1, <1>2, <1>3, <2>1, <2>2, <2>3, <2>4, LogQuestion
<1>4. CASE pc' = "persist"
  <2> DEFINE q == Finished(next)
  <2>1. /\ signals' = Append(signals, q) /\ reply' = "none" /\ Open = {} /\ reply = "ok"
        /\ pc \in {"admit", "readmit"}
    <3>1. CASE admitted
        BY <1>0, <1>4, <3>1, NoneOpen DEF admitted, Asks
    <3> QED
        BY <1>4, <3>1 DEF admit, commit_results, Asks
  <2>2. ~failure /\ next < Total
      BY <1>0, <2>1 DEF FailInv, PcInv
  <2>3. q.t = "finished" /\ q.i = next /\ q \in Sent' /\ Question(q)
      BY <1>0, <1>2, <1>4, <2>2 DEF Finished, Sent, Signal, Question
  <2>4. Sent \subseteq Sent'
      BY <1>0, <1>2, <2>1, SentWider
  <2> HIDE DEF q
  <2>5. ASSUME NEW a \in Sent
        PROVE  Before(a, q)
    <3>1. Rank(q) = 2 * next + 1
        BY <1>0, <2>3 DEF Rank
    <3>2. SUFFICES ASSUME Durable(a)
                   PROVE  Rank(a) < Rank(q)
      <4>1. Durable(a) => Rank(a) \in Int
          BY <1>0 DEF Rank, Sent, Signal
      <4> QED
          BY <1>0, <3>1, <4>1 DEF Before
    <3> QED
        BY <1>0, <2>1, <3>1, <3>2, SentRank
  <2> QED
      BY <1>1, <1>2, <1>4, <2>1, <2>2, <2>3, <2>4, <2>5, LogQuestion
<1>5. CASE commit_results
  <2> DEFINE q == [t |-> "results", i |-> Total]
  <2>1. /\ signals' = Append(signals, q) /\ reply' = "none" /\ Open = {}
        /\ pc = "loop" /\ pc' = "results" /\ next = Total /\ ~failure
      BY <1>0, <1>5, NoneOpen DEF commit_results, Asks
  <2>2. q.t = "results" /\ q.i = Total /\ q \in Sent' /\ Question(q)
      BY <1>0, <1>2, <2>1 DEF Sent, Signal, Question
  <2>3. Sent \subseteq Sent'
      BY <1>0, <1>2, <2>1, SentWider
  <2> HIDE DEF q
  <2>4. ASSUME NEW a \in Sent
        PROVE  Before(a, q)
    <3>1. Rank(q) = 2 * Total + 1
        BY <1>0, <2>2 DEF Rank
    <3>2. SUFFICES ASSUME Durable(a)
                   PROVE  Rank(a) < Rank(q)
      <4>1. Durable(a) => Rank(a) \in Int
          BY <1>0 DEF Rank, Sent, Signal
      <4> QED
          BY <1>0, <3>1, <4>1 DEF Before
    <3> QED
        BY <1>0, <2>1, <3>1, <3>2, SentRank
  <2> QED
      BY <1>1, <1>2, <2>1, <2>2, <2>3, <2>4, LogQuestion
<1> QED
  <2>1. admit => pc' = "admit"
      BY DEF admit
  <2>2. admitted => pc' \in {"persist", "readmit"}
      BY DEF admitted, Asks
  <2> QED
      BY <1>3, <1>4, <1>5, <2>1, <2>2

(* The batch returns. *)
LEMMA LogReturns ==
    ASSUME ISched, ILog, batch_failed \/ batch_ends
    PROVE  ILog'
<1>0. LogTypeOK /\ LogInv /\ AskInv /\ FailInv /\ NoGap /\ PcInv /\ next \in 0 .. Total
    BY NextFacts DEF ILog, ISched
<1>1. /\ failure' = failure /\ transcript' = transcript /\ unsettled' = unsettled
      /\ fenced' = fenced /\ buffered' = buffered /\ reply' = "none" /\ pc' = "returned"
      /\ pc \in {"loop", "results"} /\ (reply # "none" \/ pc = "loop")
    BY DEF batch_failed, batch_ends, output, actor
<1>2. next' = next
    BY SchedAsks
<1>3. Open = {}
    BY <1>0, <1>1, NoneOpen
<1>4. Sent \subseteq Sent'
    BY <1>0, <1>1, <1>2, SentWider
<1>5. signals \in Seq(Sent) /\ signals \in Seq(Sent')
    BY <1>0, <1>4, SeqWider DEF LogInv
<1>6. \E w \in Seq(Sent') :
        /\ signals' = signals \o w /\ Sorted(w)
        /\ \A a \in Sent, n \in 1 .. Len(w) : Before(a, w[n])
        /\ \A n \in 1 .. Len(w) : ~Question(w[n])
  <2>1. CASE batch_failed
    <3> DEFINE w == <<Unsettled>>
    <3>1. Unsettled \in Sent' /\ Unsettled.t = "unsettled"
        BY BatchAssumption DEF Unsettled, Sent, Signal
    <3>2. w \in Seq(Sent') /\ Len(w) = 1 /\ w[1] = Unsettled
        BY <3>1
    <3>3. signals' = signals \o w
        BY <1>5, <2>1, <3>1, AppendIsConcat DEF batch_failed
    <3> HIDE DEF w
    <3>4. /\ Sorted(w)
          /\ \A a \in Sent, n \in 1 .. Len(w) : Before(a, w[n])
          /\ \A n \in 1 .. Len(w) : ~Question(w[n])
        BY <3>1, <3>2 DEF Sorted, Before, Durable, Question
    <3> QED
        BY <3>2, <3>3, <3>4
  <2>2. CASE batch_ends
    <3> DEFINE w == <<>>
    <3>1. w \in Seq(Sent') /\ signals' = signals \o w /\ Len(w) = 0
        BY <1>5, <2>2 DEF batch_ends, actor
    <3> HIDE DEF w
    <3>2. /\ Sorted(w)
          /\ \A a \in Sent, n \in 1 .. Len(w) : Before(a, w[n])
          /\ \A n \in 1 .. Len(w) : ~Question(w[n])
        BY <3>1 DEF Sorted
    <3> QED
        BY <3>1, <3>2
  <2> QED
      BY <2>1, <2>2
<1>7. PICK w \in Seq(Sent') :
        /\ signals' = signals \o w /\ Sorted(w)
        /\ \A a \in Sent, n \in 1 .. Len(w) : Before(a, w[n])
        /\ \A n \in 1 .. Len(w) : ~Question(w[n])
    BY <1>6
<1>8. LogInv'
    BY <1>0, <1>1, <1>4, <1>7, LogExtend
<1>9. LogTypeOK'
  <2>1. Sent' \subseteq Signal
      BY DEF Sent, Signal
  <2>2. signals' \in Seq(Signal)
      BY <1>8, <2>1, SeqWider DEF LogInv
  <2> QED
      BY <1>0, <1>1, <2>2 DEF LogTypeOK
<1>10. AskInv'
  <2>1. Open' = {}
      BY <1>3, <1>5, <1>7, OpenExtend
  <2> QED
      BY <1>1, <2>1 DEF AskInv
<1>11. FailInv'
  <2>1. \A i : InJournal(i)' <=> InJournal(i)
      BY <1>1 DEF InJournal
  <2>2. ASSUME failure'
        PROVE  fenced' \/ unsettled' \/ \E k \in 1 .. Len(signals') : Warned(k)'
    <3>1. CASE \E k \in 1 .. Len(signals) : Warned(k)
        BY <1>5, <1>7, <3>1, WarnedExtend
    <3> QED
        BY <1>0, <1>1, <2>2, <3>1 DEF FailInv
  <2> QED
      BY <1>0, <1>1, <1>2, <2>1, <2>2 DEF FailInv
<1>12. NoGap'
    BY <1>0, <1>1 DEF NoGap
<1> QED
    BY <1>8, <1>9, <1>10, <1>11, <1>12 DEF ILog

(* A call is passed over: the output of the next one follows, and when the
   call has no result the warning goes ahead of anything asked later. *)
LEMMA LogPass ==
    ASSUME ISched, ILog, skip_unsettled \/ refused \/ persisted
    PROVE  ILog'
<1>0. LogTypeOK /\ LogInv /\ AskInv /\ FailInv /\ NoGap /\ PcInv /\ next \in 0 .. Total /\ Total \in Nat
    BY NextFacts, BatchAssumption DEF ILog, ISched
<1>1. next \in Calls /\ next' = next + 1 /\ pc' = "loop" /\ st[next] = "completed"
    BY SchedPass
<1>2. /\ transcript' = transcript /\ unsettled' = unsettled /\ fenced' = fenced /\ reply' = "none"
    BY <1>0 DEF skip_unsettled, refused, persisted, Pass, Committing, AskInv
<1>3. /\ pc \in {"loop", "readmit", "persist"} /\ (reply # "none" \/ pc = "loop")
    BY DEF skip_unsettled, refused, persisted, Committing
<1>4. Open = {}
    BY <1>0, <1>3, NoneOpen
<1>5. next' \in Nat /\ next < next' /\ Sent \subseteq Sent'
  <2>1. next' \in Nat /\ next < next' /\ next <= next'
      BY <1>0, <1>1
  <2> QED
      BY <1>0, <1>3, <2>1, SentWider
<1>6. signals \in Seq(Sent) /\ signals \in Seq(Sent')
    BY <1>0, <1>5, SeqWider DEF LogInv
<1> DEFINE o == IF next + 1 \in Calls THEN Output(next + 1, buffered[next + 1]) ELSE <<>>
<1>7. o \in Seq(Sent') /\ \A n \in 1 .. Len(o) : o[n].t = "output" /\ o[n].i = next + 1
  <2>1. CASE next + 1 \in Calls
    <3> DEFINE x == [t |-> "output", i |-> next + 1]
    <3>1. x \in Sent' /\ x.t = "output" /\ x.i = next + 1
        BY <1>0, <1>1, <2>1 DEF Sent, Signal, Calls
    <3>2. buffered[next + 1] \in Nat
        BY <1>0, <2>1 DEF LogTypeOK
    <3>3. o = [k \in 1 .. buffered[next + 1] |-> x]
        BY <2>1 DEF Output
    <3> HIDE DEF x, o
    <3>4. o \in [1 .. buffered[next + 1] -> Sent'] /\ \A k \in 1 .. buffered[next + 1] : o[k] = x
        BY <3>1, <3>3
    <3>5. o \in Seq(Sent') /\ Len(o) = buffered[next + 1]
        BY <3>2, <3>4
    <3> QED
        BY <3>1, <3>4, <3>5
  <2>2. CASE next + 1 \notin Calls
      BY <2>2
  <2> QED
      BY <2>1, <2>2
<1>8. /\ signals' = (signals \o (IF persisted THEN <<>> ELSE <<Unsettled>>)) \o o
      /\ buffered' = [i \in Calls |-> IF i = next + 1 THEN 0 ELSE buffered[i]]
  <2>1. CASE persisted
      BY <2>1 DEF persisted, Pass, advance
  <2>2. CASE (skip_unsettled \/ refused) /\ ~persisted
      BY <2>2 DEF skip_unsettled, refused, Pass, advance
  <2> QED
      BY <2>1, <2>2
<1>9. buffered' \in [Calls -> Nat]
    BY <1>0, <1>8 DEF LogTypeOK
<1> HIDE DEF o
<1> DEFINE b == IF persisted THEN <<>> ELSE <<Unsettled>>
<1>10. /\ b \in Seq(Sent') /\ Len(b) \in {0, 1}
       /\ \A n \in 1 .. Len(b) : b[n] = Unsettled
       /\ ~persisted => Len(b) = 1
  <2>1. Unsettled \in Sent'
      BY BatchAssumption DEF Unsettled, Sent, Signal
  <2>2. CASE persisted
      BY <2>2
  <2>3. CASE ~persisted
      BY <2>1, <2>3
  <2> QED
      BY <2>2, <2>3
<1>11. signals' = (signals \o b) \o o
    BY <1>8
<1> HIDE DEF b
<1>12. PICK w \in Seq(Sent') :
         /\ signals' = signals \o w
         /\ \A n \in 1 .. Len(w) : (w[n].t = "output" /\ w[n].i = next + 1) \/ w[n] = Unsettled
         /\ ~persisted => Len(w) >= 1 /\ w[1] = Unsettled
  <2> DEFINE v == b \o o
  <2>1. signals' = signals \o v
    <3>1. signals \in Seq(Sent') /\ b \in Seq(Sent') /\ o \in Seq(Sent')
        BY <1>6, <1>7, <1>10
    <3>2. (signals \o b) \o o = signals \o (b \o o)
        BY <3>1, ConcatAssociative
    <3> QED
        BY <1>11, <3>2
  <2>2. /\ v \in Seq(Sent') /\ Len(v) = Len(b) + Len(o) /\ Len(b) \in Nat /\ Len(o) \in Nat
        /\ \A k \in 1 .. Len(b) : v[k] = b[k]
        /\ \A k \in 1 .. Len(o) : v[k + Len(b)] = o[k]
      BY <1>7, <1>10, ConcatFacts
  <2> HIDE DEF v
  <2>3. ASSUME NEW n \in 1 .. Len(v)
        PROVE  (v[n].t = "output" /\ v[n].i = next + 1) \/ v[n] = Unsettled
    <3>1. CASE n \in 1 .. Len(b)
        BY <1>10, <2>2, <3>1
    <3>2. CASE n \notin 1 .. Len(b)
      <4>1. n - Len(b) \in 1 .. Len(o) /\ n = (n - Len(b)) + Len(b)
          BY <2>2, <3>2
      <4>2. v[n] = o[n - Len(b)]
          BY <2>2, <4>1
      <4> QED
          BY <1>7, <4>1, <4>2
    <3> QED
        BY <3>1, <3>2
  <2>4. ~persisted => Len(v) >= 1 /\ v[1] = Unsettled
      BY <1>10, <2>2
  <2> QED
      BY <2>1, <2>2, <2>3, <2>4
<1>13. \A n \in 1 .. Len(w) :
         /\ w[n].t \in {"output", "unsettled"}
         /\ w[n].t = "output" => w[n].i = next + 1
    BY <1>12 DEF Unsettled
<1>14. /\ Sorted(w)
       /\ \A a \in Sent, n \in 1 .. Len(w) : Before(a, w[n])
       /\ \A n \in 1 .. Len(w) : ~Question(w[n])
  <2>1. \A n \in 1 .. Len(w) : ~Question(w[n])
      BY <1>13 DEF Question
  <2>2. \A n \in 1 .. Len(w) : w[n].t = "output" => Rank(w[n]) = 2 * (next + 1)
      BY <1>0, <1>13 DEF Rank
  <2>3. ASSUME NEW n \in 1 .. Len(w), NEW m \in 1 .. n - 1
        PROVE  Before(w[m], w[n])
    <3>1. m \in 1 .. Len(w)
        BY <1>12
    <3>2. Durable(w[m]) /\ Durable(w[n]) => w[m].t = "output" /\ w[n].t = "output"
        BY <1>13, <3>1 DEF Durable
    <3> QED
        BY <1>0, <2>2, <3>1, <3>2 DEF Before
  <2>4. ASSUME NEW a \in Sent, NEW n \in 1 .. Len(w)
        PROVE  Before(a, w[n])
    <3>1. SUFFICES ASSUME Durable(a), w[n].t = "output"
                   PROVE  Rank(a) <= Rank(w[n]) /\ Rank(a) < Rank(w[n])
        BY <1>13 DEF Before, Durable
    <3> QED
        BY <1>0, <1>3, <2>2, <3>1, SentRank
  <2>5. Sorted(w)
      BY <2>3 DEF Sorted
  <2> QED
      BY <2>1, <2>4, <2>5
<1>15. LogInv'
    BY <1>0, <1>2, <1>5, <1>12, <1>14, LogExtend
<1>16. failure' \in BOOLEAN
    BY <1>0 DEF LogTypeOK, skip_unsettled, refused, persisted
<1>17. LogTypeOK'
  <2>1. Sent' \subseteq Signal
      BY DEF Sent, Signal
  <2>2. signals' \in Seq(Signal)
      BY <1>15, <2>1, SeqWider DEF LogInv
  <2> QED
      BY <1>0, <1>2, <1>9, <1>16, <2>2 DEF LogTypeOK
<1>18. AskInv'
  <2>1. Open' = {}
      BY <1>4, <1>6, <1>12, <1>14, OpenExtend
  <2> QED
      BY <1>2, <2>1 DEF AskInv
<1>19. \A i : InJournal(i)' <=> InJournal(i)
    BY <1>2 DEF InJournal
<1>20. FailInv'
  <2>1. CASE persisted
    <3>1. ~failure /\ pc = "persist" /\ reply \in {"ok", "err"} /\ (failure' <=> reply = "err")
        BY <1>0, <2>1 DEF persisted, FailInv, LogTypeOK
    <3>2. failure' => fenced'
        BY <1>0, <1>2, <3>1 DEF FailInv
    <3>3. ASSUME ~failure', NEW i \in Calls, i < next'
          PROVE  InJournal(i)
      <4>1. InJournal(next)
          BY <1>0, <3>1, <3>3 DEF FailInv
      <4>2. i < next => InJournal(i)
          BY <1>0, <3>1 DEF FailInv
      <4>3. i = next \/ i < next
          BY <1>0, <1>1, <3>3 DEF Calls
      <4> QED
          BY <4>1, <4>2, <4>3
    <3> QED
        BY <1>1, <1>2, <1>19, <3>2, <3>3 DEF FailInv
  <2>2. CASE ~persisted
    <3>1. failure'
        BY <2>2 DEF skip_unsettled, refused
    <3> DEFINE k == Len(signals) + 1
    <3>2. /\ Len(signals') = Len(signals) + Len(w) /\ Len(signals) \in Nat /\ Len(w) \in Nat
          /\ \A l \in 1 .. Len(signals) : signals'[l] = signals[l]
          /\ \A l \in 1 .. Len(w) : signals'[l + Len(signals)] = w[l]
        BY <1>6, <1>12, ConcatFacts
    <3>3. 1 \in 1 .. Len(w) /\ w[1] = Unsettled
        BY <1>12, <2>2, <3>2
    <3>4. k \in 1 .. Len(signals') /\ signals'[k] = Unsettled /\ k = 1 + Len(signals)
        BY <3>2, <3>3
    <3>5. ASSUME NEW l \in 1 .. Len(signals'), signals'[l].t = "admit"
          PROVE  FALSE
      <4>1. l \in Open'
          BY <3>5 DEF Open, Question
      <4>2. Open' = {}
          BY <1>4, <1>6, <1>12, <1>14, OpenExtend
      <4> QED
          BY <4>1, <4>2
    <3>6. \E m \in 1 .. Len(signals') : Warned(m)'
      <4>1. PICK m \in 1 .. Len(signals') : m = k
          BY <3>4
      <4>2. Warned(m)'
          BY <3>4, <3>5, <4>1 DEF Warned, Unsettled
      <4> QED
          BY <4>2
    <3> QED
        BY <1>1, <1>2, <3>1, <3>6 DEF FailInv
  <2> QED
      BY <2>1, <2>2
<1>21. NoGap'
    BY <1>0, <1>2 DEF NoGap
<1> QED
    BY <1>15, <1>17, <1>18, <1>20, <1>21 DEF ILog

(* What the actor may do with a signal that asks nothing, and with a question. *)
Takes(s) ==
    /\ reply' = reply
    /\ fenced' \in BOOLEAN /\ (fenced => fenced')
    /\ unsettled' \in BOOLEAN /\ (unsettled => unsettled') /\ (s.t = "unsettled" => unsettled')
    /\ \/ transcript' = transcript
       \/ s.t = "output" /\ transcript' = Append(transcript, s)

Answers(s) ==
    /\ reply' \in {"ok", "err"}
    /\ fenced' \in BOOLEAN /\ (fenced => fenced') /\ unsettled' = unsettled
    /\ \/ /\ s.t = "admit" /\ transcript' = transcript
          /\ reply' = "ok" => ~unsettled /\ ~fenced
       \/ /\ s.t \in {"finished", "results"} /\ reply' = "err" /\ transcript' = transcript
          /\ fenced'
       \/ /\ s.t \in {"finished", "results"} /\ reply' = "ok"
          /\ transcript' = Append(transcript, s)

LEMMA HandleCases ==
    ASSUME ILog, handle_turn_signal, NEW s \in Signal, s = Head(signals)
    PROVE  IF Question(s) THEN Answers(s) ELSE Takes(s)
<1>0. fenced \in BOOLEAN /\ unsettled \in BOOLEAN
    BY DEF ILog, LogTypeOK
<1>1. CASE fenced
  <2>1. reject_signal(s)
      BY <1>1 DEF handle_turn_signal
  <2>2. CASE Question(s)
    <3>1. /\ reply' = "err" /\ unsettled' = unsettled /\ fenced' = fenced /\ transcript' = transcript
        BY <1>0, <2>1, <2>2 DEF reject_signal, Question
    <3> QED
        BY <1>0, <1>1, <2>2, <3>1 DEF Answers, Question
  <2>3. CASE ~Question(s)
      BY <1>0, <2>1, <2>3 DEF reject_signal, Question, Takes
  <2> QED
      BY <2>2, <2>3
<1>2. CASE ~fenced
  <2>0. handle_output(s) \/ handle_admit(s) \/ handle_durable(s) \/ handle_unsettled(s) \/ handle_approval(s)
      BY <1>2 DEF handle_turn_signal
  <2>1. CASE handle_output(s)
    <3>1. /\ s.t = "output" /\ reply' = reply /\ unsettled' = unsettled
          /\ \/ transcript' = Append(transcript, s) /\ fenced' = fenced
             \/ transcript' = transcript /\ fenced' = TRUE
        BY <2>1 DEF handle_output, Emitted, Fence
    <3> QED
        BY <1>0, <3>1 DEF Question, Takes
  <2>2. CASE handle_admit(s)
    <3>1. /\ s.t = "admit" /\ reply' \in {"ok", "err"} /\ (unsettled => reply' = "err")
          /\ unsettled' = unsettled /\ fenced' = fenced /\ transcript' = transcript
        BY <2>2 DEF handle_admit, Answer, Quiet
    <3> QED
        BY <1>0, <1>2, <3>1 DEF Question, Answers
  <2>3. CASE handle_durable(s)
    <3>1. /\ s.t \in {"finished", "results"} /\ unsettled' = unsettled
          /\ \/ reply' = "ok" /\ transcript' = Append(transcript, s) /\ fenced' = fenced
             \/ reply' = "err" /\ transcript' = transcript /\ fenced' = TRUE
        BY <2>3 DEF handle_durable, Answer, Emitted, Fence
    <3>2. Question(s)
        BY <3>1 DEF Question
    <3>3. CASE reply' = "ok" /\ transcript' = Append(transcript, s) /\ fenced' = fenced
        BY <1>0, <3>1, <3>2, <3>3 DEF Answers
    <3>4. CASE reply' = "err" /\ transcript' = transcript /\ fenced' = TRUE
        BY <1>0, <3>1, <3>2, <3>4 DEF Answers
    <3> QED
        BY <3>1, <3>3, <3>4
  <2>4. CASE handle_unsettled(s)
    <3>1. /\ s.t = "unsettled" /\ unsettled' = TRUE /\ reply' = reply /\ transcript' = transcript
          /\ fenced' = fenced \/ fenced' = TRUE
        BY <2>4 DEF handle_unsettled
    <3> QED
        BY <1>0, <3>1 DEF Question, Takes
  <2>5. CASE handle_approval(s)
    <3>1. /\ s.t = "approval" /\ unsettled' = unsettled /\ reply' = reply /\ transcript' = transcript
          /\ fenced' = fenced \/ fenced' = TRUE
        BY <2>5 DEF handle_approval, Quiet, Fence
    <3> QED
        BY <1>0, <3>1 DEF Question, Takes
  <2> QED
      BY <2>0, <2>1, <2>2, <2>3, <2>4, <2>5
<1> QED
    BY <1>1, <1>2

(* The first signal leaves the channel. *)
LEMMA HandleFacts ==
    ASSUME ISched, ILog, handle_turn_signal
    PROVE  /\ signals # <<>> /\ signals' = Tail(signals) /\ pc' = pc /\ failure' = failure
           /\ buffered' = buffered /\ next' = next
           /\ Head(signals) \in Sent /\ Head(signals) \in Signal /\ Head(signals) = signals[1]
           /\ Len(signals) \in Nat /\ Len(signals) # 0 /\ 1 \in 1 .. Len(signals)
           /\ Len(signals') = Len(signals) - 1
           /\ \A k \in 1 .. Len(signals') : signals'[k] = signals[k + 1] /\ k + 1 \in 1 .. Len(signals)
           /\ \A k \in Open' : k + 1 \in Open
<1>1. /\ signals # <<>> /\ signals' = Tail(signals) /\ pc' = pc /\ failure' = failure
      /\ buffered' = buffered /\ st' = st
    BY DEF handle_turn_signal, Rest, output
<1>2. next' = next
    BY <1>1 DEF next, In
<1>3. signals \in Seq(Sent)
    BY DEF ILog, LogInv
<1>4. /\ Head(signals) \in Sent /\ Head(signals) = signals[1]
      /\ Len(signals) \in Nat /\ Len(signals) # 0 /\ 1 \in 1 .. Len(signals)
      /\ Len(signals') = Len(signals) - 1
      /\ \A k \in 1 .. Len(signals') : signals'[k] = signals[k + 1]
    BY <1>1, <1>3
<1>5. \A k \in 1 .. Len(signals') : k + 1 \in 1 .. Len(signals)
    BY <1>4
<1>6. \A k \in Open' : k + 1 \in Open
    BY <1>4, <1>5 DEF Open, Question
<1>7. Head(signals) \in Signal
    BY <1>4 DEF Sent
<1> QED
    BY <1>1, <1>2, <1>4, <1>5, <1>6, <1>7

(* The journal takes it or does not: what was sent keeps its order. *)
LEMMA HandleLog ==
    ASSUME ISched, ILog, handle_turn_signal,
           \/ transcript' = transcript
           \/ Durable(Head(signals)) /\ transcript' = Append(transcript, Head(signals))
    PROVE  LogInv' /\ transcript' \in Seq(Signal) /\ signals' \in Seq(Signal)
<1>0. /\ signals # <<>> /\ signals' = Tail(signals) /\ pc' = pc /\ next' = next
      /\ Head(signals) \in Sent
    BY HandleFacts
<1>1. /\ transcript \in Seq(Sent) /\ signals \in Seq(Sent) /\ Sorted(transcript \o signals)
      /\ \A n \in 1 .. Len(transcript) : Durable(transcript[n])
    BY DEF ILog, LogInv
<1>2. Sent' = Sent /\ Sent \subseteq Signal
    BY <1>0 DEF Sent
<1>3. signals' \in Seq(Sent)
    BY <1>0, <1>1
<1>4. /\ transcript' \in Seq(Sent) /\ Sorted(transcript' \o signals')
      /\ \A n \in 1 .. Len(transcript') : Durable(transcript'[n])
  <2>1. CASE transcript' = transcript
      BY <1>0, <1>1, <2>1, StreamDrop
  <2>2. CASE Durable(Head(signals)) /\ transcript' = Append(transcript, Head(signals))
    <3>1. transcript' \o signals' = transcript \o signals
        BY <1>0, <1>1, <2>2, StreamTake
    <3>2. /\ transcript' \in Seq(Sent) /\ Len(transcript') = Len(transcript) + 1
          /\ \A n \in 1 .. Len(transcript) : transcript'[n] = transcript[n]
          /\ transcript'[Len(transcript) + 1] = Head(signals) /\ Len(transcript) \in Nat
        BY <1>0, <1>1, <2>2, AppendProperties
    <3>3. \A n \in 1 .. Len(transcript') : n \in 1 .. Len(transcript) \/ n = Len(transcript) + 1
        BY <3>2
    <3>4. \A n \in 1 .. Len(transcript') : Durable(transcript'[n])
        BY <1>1, <2>2, <3>2, <3>3
    <3> QED
        BY <1>1, <3>1, <3>2, <3>4
  <2> QED
      BY <2>1, <2>2
<1>5. LogInv'
    BY <1>2, <1>3, <1>4 DEF LogInv
<1> QED
    BY <1>2, <1>3, <1>4, <1>5, SeqWider

(* The journal only grows, and a result joins it after all the earlier ones. *)
LEMMA JournalGrows ==
    ASSUME ILog, NEW s \in Signal, transcript' = Append(transcript, s),
           s.t # "output" => \A i \in Calls : i < s.i => InJournal(i)
    PROVE  /\ NoGap'
           /\ \A i : InJournal(i) => InJournal(i)'
           /\ s.t = "finished" => InJournal(s.i)'
<1>1. transcript \in Seq(Signal) /\ NoGap
    BY DEF ILog, LogTypeOK
<1>2. /\ Len(transcript') = Len(transcript) + 1 /\ Len(transcript) \in Nat
      /\ \A n \in 1 .. Len(transcript) : transcript'[n] = transcript[n]
      /\ transcript'[Len(transcript) + 1] = s
    BY <1>1, AppendProperties
<1>3. 1 .. Len(transcript) \subseteq 1 .. Len(transcript') /\ Len(transcript) + 1 \in 1 .. Len(transcript')
    BY <1>2
<1>4. ASSUME NEW i, InJournal(i)
      PROVE  InJournal(i)'
  <2>1. PICK m \in 1 .. Len(transcript) : Finishes(transcript[m], i)
      BY <1>4 DEF InJournal
  <2>2. m \in 1 .. Len(transcript') /\ transcript'[m] = transcript[m]
      BY <1>2, <1>3
  <2> QED
      BY <2>1, <2>2 DEF InJournal, Finishes
<1>5. s.t = "finished" => InJournal(s.i)'
    BY <1>2, <1>3 DEF InJournal, Finishes
<1>6. NoGap'
  <2>1. SUFFICES ASSUME NEW n \in 1 .. Len(transcript'), transcript'[n].t # "output",
                        NEW i \in Calls, i < transcript'[n].i
                 PROVE  \E m \in 1 .. n - 1 : Finishes(transcript'[m], i)
      BY DEF NoGap, Finishes
  <2>2. CASE n \in 1 .. Len(transcript)
    <3>1. PICK m \in 1 .. n - 1 : Finishes(transcript[m], i)
        BY <1>1, <1>2, <2>1, <2>2 DEF NoGap
    <3>2. m \in 1 .. Len(transcript)
        BY <1>2, <2>2
    <3> QED
        BY <1>2, <3>1, <3>2
  <2>3. CASE n = Len(transcript) + 1
    <3>1. InJournal(i)
        BY <1>2, <2>1, <2>3
    <3>2. PICK m \in 1 .. Len(transcript) : Finishes(transcript[m], i)
        BY <3>1 DEF InJournal
    <3>3. m \in 1 .. n - 1
        BY <1>2, <2>3
    <3> QED
        BY <1>2, <3>2, <3>3
  <2> QED
      BY <1>2, <2>2, <2>3
<1> QED
    BY <1>4, <1>5, <1>6

LEMMA LogHandle ==
    ASSUME ISched, ILog, handle_turn_signal
    PROVE  ILog'
<1>0. LogTypeOK /\ LogInv /\ AskInv /\ FailInv /\ NoGap /\ PcInv
    BY DEF ILog, ISched
<1>1. PICK s \in Signal : s = Head(signals)
    BY HandleFacts
<1>2. /\ signals # <<>> /\ signals' = Tail(signals) /\ pc' = pc /\ failure' = failure
      /\ buffered' = buffered /\ next' = next
      /\ s \in Sent /\ s = signals[1]
      /\ Len(signals) \in Nat /\ Len(signals) # 0 /\ 1 \in 1 .. Len(signals)
      /\ Len(signals') = Len(signals) - 1
      /\ \A k \in 1 .. Len(signals') : signals'[k] = signals[k + 1] /\ k + 1 \in 1 .. Len(signals)
      /\ \A k \in Open' : k + 1 \in Open
    BY <1>1, HandleFacts
<1>3. IF Question(s) THEN Answers(s) ELSE Takes(s)
    BY <1>1, HandleCases
<1>4. \/ transcript' = transcript
      \/ Durable(s) /\ transcript' = Append(transcript, s)
    BY <1>3 DEF Answers, Takes, Durable
<1>5. LogInv' /\ transcript' \in Seq(Signal) /\ signals' \in Seq(Signal)
    BY <1>1, <1>4, HandleLog
<1>6. LogTypeOK'
    BY <1>0, <1>2, <1>3, <1>5 DEF LogTypeOK, Answers, Takes
<1>7. \A k \in 2 .. Len(signals) : Warned(k) => k - 1 \in 1 .. Len(signals') /\ Warned(k - 1)'
  <2>1. SUFFICES ASSUME NEW k \in 2 .. Len(signals), Warned(k)
                 PROVE  k - 1 \in 1 .. Len(signals') /\ Warned(k - 1)'
      OBVIOUS
  <2>2. PICK j \in 1 .. Len(signals') : j = k - 1 /\ j + 1 = k
      BY <1>2
  <2>3. signals'[j].t = "unsettled"
      BY <1>2, <2>1, <2>2 DEF Warned
  <2>4. ASSUME NEW l \in 1 .. Len(signals'), signals'[l].t = "admit"
        PROVE  j < l
    <3>1. signals[l + 1].t = "admit" /\ l + 1 \in 1 .. Len(signals)
        BY <1>2, <2>4
    <3>2. k < l + 1
        BY <2>1, <3>1 DEF Warned
    <3> QED
        BY <2>2, <3>2
  <2>5. Warned(j)'
      BY <2>3, <2>4 DEF Warned
  <2> QED
      BY <2>2, <2>5
<1>8. CASE ~Question(s)
  <2>1. Takes(s)
      BY <1>3, <1>8
  <2>2. AskInv'
    <3>1. \A k, l \in Open' : k = l
      <4>1. SUFFICES ASSUME NEW k \in Open', NEW l \in Open'
                     PROVE  k = l
          OBVIOUS
      <4>2. k + 1 = l + 1 /\ k \in Nat /\ l \in Nat
          BY <1>0, <1>2, <4>1 DEF AskInv, Open
      <4> QED
          BY <4>2
    <3>2. ASSUME NEW k \in Open'
          PROVE  k + 1 \in Open /\ signals'[k] = signals[k + 1]
        BY <1>2, <3>2 DEF Open
    <3>3. reply' = reply
        BY <2>1 DEF Takes
    <3> QED
        BY <1>0, <1>2, <3>1, <3>2, <3>3 DEF AskInv
  <2>3. NoGap' /\ \A i : InJournal(i) => InJournal(i)'
    <3>1. CASE transcript' = transcript
        BY <1>0, <3>1 DEF NoGap, InJournal
    <3>2. CASE s.t = "output" /\ transcript' = Append(transcript, s)
        BY <3>2, JournalGrows
    <3> QED
        BY <2>1, <3>1, <3>2 DEF Takes
  <2>4. ASSUME failure'
        PROVE  fenced' \/ unsettled' \/ \E k \in 1 .. Len(signals') : Warned(k)'
    <3>1. fenced \/ unsettled \/ \E k \in 1 .. Len(signals) : Warned(k)
        BY <1>0, <1>2, <2>4 DEF FailInv
    <3>2. CASE Warned(1)
        BY <1>2, <2>1, <3>2 DEF Warned, Takes
    <3>3. CASE \E k \in 2 .. Len(signals) : Warned(k)
      <4>1. PICK k \in 2 .. Len(signals) : Warned(k)
          BY <3>3
      <4>2. k - 1 \in 1 .. Len(signals') /\ Warned(k - 1)'
          BY <1>7, <4>1
      <4>3. PICK j \in 1 .. Len(signals') : j = k - 1
          BY <4>2
      <4>4. Warned(j)'
          BY <4>2, <4>3
      <4> QED
          BY <4>4
    <3>4. \A k \in 1 .. Len(signals) : k = 1 \/ k \in 2 .. Len(signals)
        BY <1>2
    <3> QED
        BY <2>1, <3>1, <3>2, <3>3, <3>4 DEF Takes
  <2>5. FailInv'
      BY <1>0, <1>2, <2>1, <2>3, <2>4 DEF FailInv, Takes
  <2> QED
      BY <1>5, <1>6, <2>2, <2>3, <2>5 DEF ILog
<1>9. CASE Question(s)
  <2>1. Answers(s)
      BY <1>3, <1>9
  <2>2. 1 \in Open
      BY <1>2, <1>9 DEF Open
  <2>3. /\ s.t = "admit" => pc \in {"admit", "readmit"}
        /\ s.t = "finished" => pc = "persist" /\ s.i = next
        /\ s.t = "results" => pc = "results"
        /\ s.t \in {"admit", "finished", "results"}
      BY <1>0, <1>2, <1>9, <2>2 DEF AskInv, Question
  <2>4. Open' = {}
    <3>1. SUFFICES ASSUME NEW k \in Open'
                   PROVE  FALSE
        OBVIOUS
    <3>2. k + 1 = 1 /\ k \in 1 .. Len(signals')
        BY <1>0, <1>2, <2>2, <3>1 DEF AskInv, Open
    <3> QED
        BY <1>2, <3>2
  <2>5. AskInv'
      BY <1>2, <2>3, <2>4 DEF AskInv
  <2>6. s.t # "admit" => ~failure
      BY <1>0, <2>3 DEF FailInv
  <2>7. s.t # "admit" => \A i \in Calls : i < s.i => InJournal(i)
    <3>1. s.t = "results" => s.i = Total /\ next = Total
        BY <1>0, <1>2, <2>3 DEF Sent, PcInv
    <3> QED
        BY <1>0, <2>3, <2>6, <3>1 DEF FailInv
  <2>8. /\ NoGap' /\ \A i : InJournal(i) => InJournal(i)'
        /\ s.t = "finished" /\ reply' = "ok" => InJournal(next)'
    <3>1. CASE transcript' = transcript /\ (s.t = "finished" => reply' = "err")
        BY <1>0, <3>1 DEF NoGap, InJournal
    <3>2. CASE s.t \in {"finished", "results"} /\ transcript' = Append(transcript, s)
      <4>1. /\ NoGap' /\ \A i : InJournal(i) => InJournal(i)'
            /\ s.t = "finished" => InJournal(s.i)'
          BY <2>7, <3>2, JournalGrows
      <4>2. s.t = "finished" => s.i = next'
          BY <1>2, <2>3
      <4> QED
          BY <4>1, <4>2 DEF InJournal
    <3> QED
        BY <2>1, <3>1, <3>2 DEF Answers
  <2>9. ASSUME failure'
        PROVE  fenced' \/ unsettled' \/ \E k \in 1 .. Len(signals') : Warned(k)'
    <3>1. s.t = "admit"
        BY <1>2, <2>6, <2>9
    <3>2. \A k \in 1 .. Len(signals) : ~Warned(k)
        BY <1>2, <3>1 DEF Warned
    <3> QED
        BY <1>0, <1>2, <2>1, <2>9, <3>2 DEF FailInv, Answers
  <2>10. pc \in {"admit", "readmit"} /\ reply' = "ok" => ~failure
    <3>1. SUFFICES ASSUME pc \in {"admit", "readmit"}, reply' = "ok", failure
                   PROVE  FALSE
        OBVIOUS
    <3>2. s.t = "admit"
        BY <2>3, <3>1
    <3>3. ~unsettled /\ ~fenced
        BY <2>1, <3>1, <3>2 DEF Answers
    <3>4. \A k \in 1 .. Len(signals) : ~Warned(k)
        BY <1>2, <3>2 DEF Warned
    <3> QED
        BY <1>0, <3>1, <3>3, <3>4 DEF FailInv
  <2>11. pc = "persist" => /\ reply' = "ok" => InJournal(next)'
                           /\ reply' = "err" => fenced'
      BY <2>1, <2>3, <2>8 DEF Answers
  <2>12. FailInv'
      BY <1>0, <1>2, <2>8, <2>9, <2>10, <2>11 DEF FailInv
  <2> QED
      BY <1>5, <1>6, <2>5, <2>8, <2>12 DEF ILog
<1> QED
    BY <1>8, <1>9

LEMMA NextILog == ISched /\ ILog /\ [Next]_vars => ILog'
<1>1. SUFFICES ASSUME ISched, ILog, [Next]_vars
               PROVE  ILog'
    OBVIOUS
<1>2. CASE Coordinator
    BY <1>1, <1>2, LogLaunch, LogAsks, LogPass, LogReturns DEF Coordinator
<1>3. CASE handle_turn_signal \/ interrupt
    BY <1>1, <1>3, LogHandle, LogLaunch
<1>4. CASE \E i \in Calls : Preparation(i) \/ Client(i) \/ Task(i) \/ collect(i) \/ emit(i) \/ mutate(i)
    BY <1>1, <1>4, LogPreparation, LogClient, LogTask, LogEmit DEF Task
<1>5. CASE UNCHANGED vars
  <2>1. /\ pc' = pc /\ reply' = reply /\ failure' = failure /\ transcript' = transcript
        /\ unsettled' = unsettled /\ fenced' = fenced /\ buffered' = buffered /\ signals' = signals
        /\ st' = st
      BY <1>5 DEF vars, schedule, output, actor
  <2>2. next' = next
      BY <2>1 DEF next, In
  <2>3. fenced \in BOOLEAN
      BY <1>1 DEF ILog, LogTypeOK
  <2> QED
      BY <1>1, <2>1, <2>2, <2>3, LogSilent
<1> QED
    BY <1>1, <1>2, <1>3, <1>4, <1>5 DEF Next, over

(* In every batch the journal tells the calls in order, output before result,
   with no result missing before another and the turn's results only when all
   are there: whatever order the tools end in, and whatever fails on the way. *)
THEOREM TranscriptAlwaysInOrder == Spec => []TranscriptInOrder
<1>1. Init => ISched /\ ILog
    BY InitISched, InitILog
<1>2. ISched /\ ILog /\ [Next]_vars => (ISched /\ ILog)'
    BY NextISched, NextILog
<1>3. ILog => TranscriptInOrder
  <2>1. SUFFICES ASSUME ILog
                 PROVE  TranscriptInOrder
      OBVIOUS
  <2>2. /\ transcript \in Seq(Signal) /\ signals \in Seq(Signal) /\ NoGap
        /\ Sorted(transcript \o signals)
        /\ \A n \in 1 .. Len(transcript) : Durable(transcript[n])
      BY <2>1 DEF ILog, LogTypeOK, LogInv
  <2>3. DOMAIN transcript = 1 .. Len(transcript) /\ Len(transcript) \in Nat
      BY <2>2
  <2>4. ASSUME NEW n \in 1 .. Len(transcript), NEW m \in 1 .. n - 1
        PROVE  /\ Rank(transcript[m]) <= Rank(transcript[n])
               /\ transcript[m].t # "output" => Rank(transcript[m]) < Rank(transcript[n])
    <3> DEFINE v == transcript \o signals
    <3>1. /\ Len(v) = Len(transcript) + Len(signals) /\ Len(signals) \in Nat
          /\ \A k \in 1 .. Len(transcript) : v[k] = transcript[k]
        BY <2>2, ConcatFacts
    <3> HIDE DEF v
    <3>2. m \in 1 .. Len(transcript) /\ n \in 1 .. Len(v)
        BY <2>3, <3>1
    <3>3. Before(v[m], v[n])
        BY <2>2, <3>2 DEF Sorted, v
    <3> QED
        BY <2>2, <3>1, <3>2, <3>3 DEF Before
  <2> QED
      BY <2>2, <2>3, <2>4 DEF TranscriptInOrder, NoGap
<1> QED
    BY <1>1, <1>2, <1>3, PTL DEF Spec
=============================================================================
