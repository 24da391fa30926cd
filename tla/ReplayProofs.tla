----------------------------- MODULE ReplayProofs -----------------------------
(***************************************************************************)
(* Proofs about ReplayAdmission, for every set of readers and every size   *)
(* of the budget, the window and the gate.  That the counters are right    *)
(* rests on who has passed the gate (GateInv: only its head has) and on    *)
(* what a credit is worth in each stage (HeldInv).                         *)
(***************************************************************************)
EXTENDS ReplayAdmission, FiniteSetTheorems, SequenceTheorems, TLAPS

-----------------------------------------------------------------------------
(* The inductive invariant. *)

ReplayTypeOK ==
    /\ used \in Nat /\ waiters \in Nat /\ counted \in Nat
    /\ gate \in Seq(Readers)
    /\ armed \subseteq Readers
    /\ held \in [Readers -> 0..Window]
    /\ stage \in [Readers -> Stages]

\* The readers a wake-up is for, and the ones that have come through the gate.
Counted == {r \in Readers : stage[r] \in {"counted", "armed", "parked"}}
Inside == Counted \cup {r \in Readers : stage[r] = "granted"}

\* A reader has its window from the grant until the page is prepared, and
\* nothing while it waits.
HeldInv == \A r \in Readers :
    /\ r \in Calling \ {q \in Readers : stage[q] = "granted"} => held[r] = 0
    /\ stage[r] \in {"granted", "reading"} => held[r] = Window
    /\ stage[r] \in {"idle", "refund"} => held[r] = 0

\* The gate names each call under way once, and whoever is past it is its head.
GateInv ==
    /\ \A i, j \in 1..Len(gate) : gate[i] = gate[j] => i = j
    /\ {gate[i] : i \in 1..Len(gate)} = Calling
    /\ \A r \in Inside : gate[1] = r

\* The counters count.
CountInv ==
    /\ used = Cardinality(Held) /\ used <= Limit
    /\ waiters = Cardinality(Calling) /\ waiters = Len(gate)
    /\ counted = Cardinality(Counted)
    /\ armed \subseteq {r \in Readers : stage[r] \in {"armed", "parked"}}

IInv == ReplayTypeOK /\ HeldInv /\ GateInv /\ CountInv

-----------------------------------------------------------------------------
(* Queues and counts. *)

\* Taking a reader out of a queue it is in, or of one it is not in.
LEMMA RemoveFirstFacts ==
    ASSUME NEW S, NEW q \in Seq(S), \A i, j \in 1..Len(q) : q[i] = q[j] => i = j, NEW c
    PROVE  /\ RemoveFirst(q, c) \in Seq(S)
           /\ \A i, j \in 1..Len(RemoveFirst(q, c)) :
                 RemoveFirst(q, c)[i] = RemoveFirst(q, c)[j] => i = j
           /\ {RemoveFirst(q, c)[i] : i \in 1..Len(RemoveFirst(q, c))}
                 = {q[i] : i \in 1..Len(q)} \ {c}
           /\ Len(RemoveFirst(q, c))
                 = IF \E i \in 1..Len(q) : q[i] = c THEN Len(q) - 1 ELSE Len(q)
           /\ Len(q) > 1 /\ q[1] # c => RemoveFirst(q, c)[1] = q[1]
<1> DEFINE r == RemoveFirst(q, c)
<1>1. Len(q) \in Nat /\ \A i \in 1..Len(q) : q[i] \in S
  BY LenProperties, ElementOfSeq
<1>2. CASE ~\E i \in 1..Len(q) : q[i] = c
  <2>1. r = q
    BY <1>2 DEF RemoveFirst
  <2> HIDE DEF r
  <2> QED BY <1>1, <1>2, <2>1 DEF r
<1>3. ASSUME NEW k \in 1..Len(q), q[k] = c
      PROVE  /\ r \in Seq(S) /\ Len(r) = Len(q) - 1
             /\ \A i \in 1..Len(r) : r[i] = IF i < k THEN q[i] ELSE q[i + 1]
  <2> DEFINE I == {i \in 1..Len(q) : q[i] = c}
  <2>1. I = {k}
    BY <1>3
  <2>2. Min({k}) = k
    <3>1. Min({k}) = CHOOSE x \in {k} : \A y \in {k} : x <= y
      BY DEF Min
    <3> QED BY <3>1
  <2>3. SelectInSeq(q, LAMBDA v : v = c) = Min(I)
    BY <2>1 DEF SelectInSeq
  <2>4. r = RemoveAt(q, k)
    BY <1>3, <2>1, <2>2, <2>3, Zenon DEF RemoveFirst
  <2> DEFINE x == SubSeq(q, 1, k - 1)
             y == SubSeq(q, k + 1, Len(q))
  <2>5. x \in Seq(S) /\ Len(x) = k - 1 /\ \A i \in 1..(k - 1) : x[i] = q[i]
    <3>1. 1 \in Int /\ k - 1 \in Int /\ \A i \in 1..(k - 1) : q[i] \in S
      BY <1>1
    <3> QED BY <3>1, SubSeqProperties
  <2>6. y \in Seq(S) /\ Len(y) = Len(q) - k /\ \A i \in 1..(Len(q) - k) : y[i] = q[k + i]
    <3>1. k + 1 \in Int /\ Len(q) \in Int /\ \A i \in (k + 1)..Len(q) : q[i] \in S
      BY <1>1
    <3> QED BY <1>1, <3>1, SubSeqProperties
  <2>7. r = x \o y
    BY <2>4 DEF RemoveAt
  <2> HIDE DEF x, y, r
  <2>8. /\ r \in Seq(S) /\ Len(r) = Len(x) + Len(y)
        /\ \A i \in 1..(Len(x) + Len(y)) : r[i] = IF i <= Len(x) THEN x[i] ELSE y[i - Len(x)]
    <3>1. x \in Seq(S) /\ y \in Seq(S)
      BY <2>5, <2>6
    <3>2. /\ x \o y \in Seq(S) /\ Len(x \o y) = Len(x) + Len(y)
          /\ \A i \in 1..(Len(x) + Len(y)) : (x \o y)[i] = IF i <= Len(x) THEN x[i] ELSE y[i - Len(x)]
      BY <3>1, ConcatProperties
    <3> QED BY <2>7, <3>2, Zenon
  <2>9. ASSUME NEW i \in 1..Len(r) PROVE r[i] = IF i < k THEN q[i] ELSE q[i + 1]
    <3>1. CASE i < k
      BY <1>1, <2>5, <2>6, <2>8, <3>1
    <3>2. CASE ~(i < k)
      <4>1. i - (k - 1) \in 1..(Len(q) - k) /\ k + (i - (k - 1)) = i + 1
        BY <1>1, <2>5, <2>6, <2>8, <3>2
      <4> QED BY <1>1, <2>5, <2>6, <2>8, <3>2, <4>1
    <3> QED BY <3>1, <3>2
  <2> QED BY <1>1, <2>5, <2>6, <2>8, <2>9
<1>4. CASE \E i \in 1..Len(q) : q[i] = c
  <2>1. PICK k \in 1..Len(q) : q[k] = c
    BY <1>4
  <2>2. /\ r \in Seq(S) /\ Len(r) = Len(q) - 1
        /\ \A i \in 1..Len(r) : r[i] = IF i < k THEN q[i] ELSE q[i + 1]
    BY <1>3, <2>1
  <2> HIDE DEF r
  <2>3. \A i, j \in 1..Len(r) : r[i] = r[j] => i = j
    BY <1>1, <2>2
  <2>4. \A i \in 1..Len(r) : \E j \in 1..Len(q) : q[j] = r[i] /\ r[i] # c
    BY <1>1, <2>1, <2>2
  <2>5. ASSUME NEW i \in 1..Len(q), q[i] # c PROVE \E j \in 1..Len(r) : r[j] = q[i]
    <3>1. CASE i < k
      BY <1>1, <2>2, <3>1
    <3>2. CASE ~(i < k)
      <4>1. i - 1 \in 1..Len(r) /\ ~(i - 1 < k) /\ (i - 1) + 1 = i
        BY <1>1, <2>1, <2>2, <2>5, <3>2
      <4> QED BY <2>2, <4>1
    <3> QED BY <3>1, <3>2
  <2>6. {r[i] : i \in 1..Len(r)} = {q[i] : i \in 1..Len(q)} \ {c}
    BY <2>4, <2>5
  <2>7. Len(q) > 1 /\ q[1] # c => r[1] = q[1]
    BY <1>1, <2>1, <2>2
  <2> QED BY <1>4, <2>2, <2>3, <2>6, <2>7 DEF r
<1> QED BY <1>2, <1>4


LEMMA ReadersFinite ==
    /\ IsFiniteSet(Readers) /\ Window \in Nat /\ Limit \in Nat
    /\ IsFiniteSet(Calling) /\ IsFiniteSet(Counted)
<1>1. IsFiniteSet(Readers) /\ Window \in Nat /\ Limit \in Nat
  BY ReplayAssumption
<1>2. Calling \in SUBSET Readers /\ Counted \in SUBSET Readers
  BY DEF Calling, Counted
<1> QED BY <1>1, <1>2, FS_Subset

\* The bytes held when reader r holds f[r].
Bytes(f) == {x \in Readers \X (1..Window) : x[2] <= f[x[1]]}

\* A credit that changes its size changes the bytes held by as much.
LEMMA BytesUpdate ==
    ASSUME NEW f \in [Readers -> 0..Window], NEW r \in Readers, NEW b \in 0..Window
    PROVE  /\ Cardinality(Bytes(f)) \in Nat
           /\ Cardinality(Bytes([f EXCEPT ![r] = b])) = Cardinality(Bytes(f)) + b - f[r]
<1> DEFINE Row(n) == {r} \X (1..n)
           Rest == {x \in Bytes(f) : x[1] # r}
<1>0. Window \in Nat /\ IsFiniteSet(Readers \X (1..Window))
  <2>1. IsFiniteSet(1..Window)
    BY ReadersFinite, FS_Interval
  <2> QED BY <2>1, ReadersFinite, FS_Product
<1>1. IsFiniteSet(Bytes(f)) /\ IsFiniteSet(Rest)
  <2>1. Bytes(f) \in SUBSET (Readers \X (1..Window)) /\ Rest \in SUBSET (Readers \X (1..Window))
    BY DEF Bytes
  <2> QED BY <1>0, <2>1, FS_Subset
<1>2. ASSUME NEW n \in 0..Window
      PROVE  IsFiniteSet(Row(n)) /\ Cardinality(Row(n)) = n
  <2>1. IsFiniteSet(1..n) /\ Cardinality(1..n) = n
    <3>1. 1 \in Int /\ n \in Int /\ n >= 0
      BY <1>0
    <3>2. IsFiniteSet(1..n) /\ Cardinality(1..n) = IF 1 > n THEN 0 ELSE n - 1 + 1
      BY <3>1, FS_Interval
    <3> QED BY <3>1, <3>2
  <2>2. IsFiniteSet({r}) /\ Cardinality({r}) = 1
    BY FS_Singleton
  <2>3. IsFiniteSet({r} \X (1..n)) /\ Cardinality({r} \X (1..n)) = Cardinality({r}) * Cardinality(1..n)
    BY <2>1, <2>2, FS_Product
  <2> QED BY <2>1, <2>2, <2>3
<1>3. ASSUME NEW g \in [Readers -> 0..Window], \A q \in Readers \ {r} : g[q] = f[q]
      PROVE  Cardinality(Bytes(g)) = Cardinality(Rest) + g[r]
  <2>1. Bytes(g) = Rest \cup Row(g[r])
    <3>1. \A x \in Bytes(g) : x \in Rest \cup Row(g[r])
      <4> SUFFICES ASSUME NEW x \in Readers \X (1..Window), x[2] <= g[x[1]]
                   PROVE  x \in Rest \cup Row(g[r])
        BY DEF Bytes
      <4>1. CASE x[1] = r
        BY <1>0, <4>1
      <4>2. CASE x[1] # r
        BY <1>3, <4>2 DEF Bytes
      <4> QED BY <4>1, <4>2
    <3>2. \A x \in Rest : x \in Bytes(g)
      BY <1>3 DEF Bytes
    <3>3. \A x \in Row(g[r]) : x \in Bytes(g)
      <4> SUFFICES ASSUME NEW n \in 1..g[r] PROVE <<r, n>> \in Bytes(g)
        OBVIOUS
      <4>1. n \in 1..Window /\ n <= g[r]
        BY <1>0
      <4> QED BY <4>1 DEF Bytes
    <3> QED BY <3>1, <3>2, <3>3
  <2>2. Rest \cap Row(g[r]) = {}
    OBVIOUS
  <2>3. IsFiniteSet(Row(g[r])) /\ Cardinality(Row(g[r])) = g[r]
    BY <1>2
  <2>4. Cardinality(Rest \cap Row(g[r])) = 0
    BY <2>2, FS_EmptySet, Zenon
  <2>5. Cardinality(Rest \cup Row(g[r])) = Cardinality(Rest) + g[r] - 0
    <3> HIDE DEF Rest, Row
    <3>1. Cardinality(Rest \cup Row(g[r]))
             = Cardinality(Rest) + Cardinality(Row(g[r])) - Cardinality(Rest \cap Row(g[r]))
      BY <1>1, <2>3, FS_Union
    <3> QED BY <2>3, <2>4, <3>1
  <2>6. Cardinality(Bytes(g)) = Cardinality(Rest \cup Row(g[r]))
    BY <2>1, Zenon
  <2>7. Cardinality(Rest) \in Nat /\ g[r] \in Nat
    BY <1>0, <1>1, FS_CardinalityType
  <2> HIDE DEF Rest, Row
  <2> QED BY <2>5, <2>6, <2>7
<1>4. Cardinality(Bytes(f)) = Cardinality(Rest) + f[r]
  BY <1>3
<1>5. Cardinality(Bytes([f EXCEPT ![r] = b])) = Cardinality(Rest) + b
  <2> DEFINE g == [f EXCEPT ![r] = b]
  <2>1. g \in [Readers -> 0..Window] /\ (\A q \in Readers \ {r} : g[q] = f[q]) /\ g[r] = b
    OBVIOUS
  <2> HIDE DEF g, Rest
  <2>2. Cardinality(Bytes(g)) = Cardinality(Rest) + b
    BY <1>3, <2>1
  <2> QED BY <2>2 DEF g
<1>6. Cardinality(Rest) \in Nat /\ f[r] \in Nat /\ b \in Nat
  BY <1>0, <1>1, FS_CardinalityType
<1> HIDE DEF Rest
<1> QED BY <1>4, <1>5, <1>6

\* A credit may be given, kept in part or dropped.
LEMMA HeldUpdate ==
    ASSUME ReplayTypeOK, NEW r \in Readers, NEW b \in 0..Window, held' = [held EXCEPT ![r] = b]
    PROVE  /\ Cardinality(Held) \in Nat
           /\ Cardinality(Held') = Cardinality(Held) + b - held[r]
           /\ held' \in [Readers -> 0..Window]
<1>1. Held = Bytes(held) /\ Held' = Bytes([held EXCEPT ![r] = b])
  BY DEF Held, Bytes
<1>2. held \in [Readers -> 0..Window]
  BY DEF ReplayTypeOK
<1>3. /\ Cardinality(Bytes(held)) \in Nat
      /\ Cardinality(Bytes([held EXCEPT ![r] = b])) = Cardinality(Bytes(held)) + b - held[r]
  BY <1>2, BytesUpdate
<1> QED BY <1>1, <1>2, <1>3

\* One reader joins or leaves a set that is counted.
LEMMA CountFacts ==
    ASSUME NEW S, IsFiniteSet(S), NEW r
    PROVE  /\ Cardinality(S) \in Nat
           /\ r \notin S => Cardinality(S \cup {r}) = Cardinality(S) + 1
           /\ r \in S => Cardinality(S \ {r}) = Cardinality(S) - 1
BY FS_CardinalityType, FS_AddElement, FS_RemoveElement

LEMMA InitIInv == Init => IInv
<1> SUFFICES ASSUME Init PROVE IInv
  OBVIOUS
<1>1. ReplayTypeOK
  BY ReadersFinite, EmptySeq DEF Init, ReplayTypeOK, Stages
<1>2. Calling = {} /\ Counted = {} /\ Inside = {} /\ Held = {} /\ Len(gate) = 0
  BY EmptySeq DEF Init, Calling, Counted, Inside, Held
<1>3. HeldInv
  BY DEF Init, HeldInv, Calling
<1>4. GateInv
  BY <1>2 DEF GateInv
<1>5. CountInv
  <2>1. Cardinality(Calling) = 0 /\ Cardinality(Counted) = 0 /\ Cardinality(Held) = 0
    BY <1>2, FS_EmptySet, Zenon
  <2> QED BY <1>2, <2>1, ReadersFinite DEF Init, CountInv
<1> QED BY <1>1, <1>3, <1>4, <1>5 DEF IInv

\* Only the head of the gate can be past it.
LEMMA InsideIsHead ==
    ASSUME IInv
    PROVE  /\ Len(gate) \in Nat
           /\ \A r \in Calling : Len(gate) > 0
           /\ \A r \in Inside : r \in Calling /\ gate[1] = r
           /\ Len(gate) > 0 => gate # <<>> /\ Head(gate) = gate[1]
<1>1. Len(gate) \in Nat /\ (Len(gate) > 0 => gate # <<>>)
  BY LenProperties, EmptySeq DEF IInv, ReplayTypeOK
<1>2. \A r \in Calling : Len(gate) > 0
  BY <1>1 DEF IInv, GateInv
<1>3. Len(gate) > 0 => Head(gate) = gate[1]
  BY <1>1 DEF IInv, ReplayTypeOK
<1>4. Inside \subseteq Calling
  BY DEF Inside, Counted, Calling
<1> QED BY <1>1, <1>2, <1>3, <1>4 DEF IInv, GateInv

-----------------------------------------------------------------------------
(* Every step keeps the invariant. *)

LEMMA AdmitInv == ASSUME IInv, NEW r \in Readers, admit(r) PROVE IInv'
<1>1. ReplayTypeOK /\ HeldInv /\ GateInv /\ CountInv
  BY DEF IInv
<1>2. /\ stage[r] = "idle" /\ waiters' = waiters + 1 /\ gate' = Append(gate, r)
      /\ stage' = [stage EXCEPT ![r] = "gate"]
      /\ used' = used /\ counted' = counted /\ armed' = armed /\ held' = held
  BY DEF admit, Goes
<1>3. stage'[r] = "gate" /\ \A q \in Readers \ {r} : stage'[q] = stage[q]
  BY <1>1, <1>2 DEF ReplayTypeOK
<1>4. r \notin Calling /\ Calling' = Calling \cup {r} /\ Counted' = Counted /\ Inside' = Inside
  BY <1>2, <1>3 DEF Calling, Counted, Inside
<1>5. /\ gate \in Seq(Readers) /\ Len(gate) \in Nat
      /\ gate' \in Seq(Readers) /\ Len(gate') = Len(gate) + 1
      /\ \A i \in 1..Len(gate) : gate'[i] = gate[i]
      /\ gate'[Len(gate) + 1] = r
  BY <1>1, <1>2, AppendProperties, LenProperties DEF ReplayTypeOK
<1>6. ReplayTypeOK'
  BY <1>1, <1>2, <1>5 DEF ReplayTypeOK, Stages
<1>7. HeldInv'
  BY <1>1, <1>2, <1>3 DEF HeldInv, Calling
<1>8. GateInv'
  <2>1. \A i \in 1..Len(gate') : i \in 1..Len(gate) \/ i = Len(gate) + 1
    BY <1>5
  <2>2. \A i \in 1..Len(gate) : gate[i] # r
    BY <1>1, <1>4 DEF GateInv
  <2>3. \A i, j \in 1..Len(gate') : gate'[i] = gate'[j] => i = j
    BY <1>1, <1>5, <2>1, <2>2 DEF GateInv
  <2>4. \A q : (\E i \in 1..Len(gate') : gate'[i] = q) <=> q \in Calling'
    <3>1. Len(gate) + 1 \in 1..Len(gate') /\ \A i \in 1..Len(gate) : i \in 1..Len(gate')
      BY <1>5
    <3> QED BY <1>1, <1>4, <1>5, <2>1, <3>1 DEF GateInv
  <2>5. {gate'[i] : i \in 1..Len(gate')} = Calling'
    BY <2>4
  <2>6. \A q \in Inside' : gate'[1] = q
    <3>1. \A q \in Inside : Len(gate) > 0 /\ gate[1] = q
      BY InsideIsHead
    <3> QED BY <1>4, <1>5, <3>1
  <2> QED BY <2>3, <2>5, <2>6 DEF GateInv
<1>9. CountInv'
  <2>1. Held' = Held
    BY <1>2 DEF Held
  <2>2. Cardinality(Calling') = Cardinality(Calling) + 1
    BY <1>4, ReadersFinite, CountFacts
  <2>3. armed' \subseteq {q \in Readers : stage'[q] \in {"armed", "parked"}}
    BY <1>1, <1>2, <1>3 DEF CountInv
  <2> QED BY <1>1, <1>2, <1>4, <1>5, <2>1, <2>2, <2>3 DEF CountInv
<1> QED BY <1>6, <1>7, <1>8, <1>9 DEF IInv

\* The head of the gate takes a window, or waits for one; nobody else can be
\* waiting.
LEMMA ReserveInv ==
    ASSUME IInv, NEW r \in Readers, reserve_first(r) \/ reserve_again(r) PROVE IInv'
<1>1. ReplayTypeOK /\ HeldInv /\ GateInv /\ CountInv
  BY DEF IInv
<1>2. r \in Calling /\ gate[1] = r /\ gate' = gate /\ waiters' = waiters /\ Inside \subseteq {r}
      /\ held[r] = 0
  <2>1. r \in Calling /\ gate' = gate /\ waiters' = waiters /\ held[r] = 0
    BY <1>1 DEF reserve_first, reserve_again, Calling, HeldInv
  <2>2. Len(gate) > 0 /\ Head(gate) = gate[1] /\ \A q \in Inside : gate[1] = q
    BY <2>1, InsideIsHead
  <2>3. reserve_first(r) => gate[1] = r
    BY <2>2 DEF reserve_first
  <2>4. reserve_again(r) => r \in Inside
    BY DEF reserve_again, Inside, Counted
  <2> QED BY <2>1, <2>2, <2>3, <2>4
<1>3. PICK s \in {"granted", "counted", "parked"} :
          /\ stage' = [stage EXCEPT ![r] = s]
          /\ s = "granted" => /\ used' = used + Window /\ used' <= Limit
                              /\ held' = [held EXCEPT ![r] = Window] /\ armed' = armed \ {r}
                              /\ counted' = IF stage[r] = "armed" THEN counted - 1 ELSE counted
          /\ s = "counted" => stage[r] = "gate" /\ counted' = counted + 1 /\ armed' = armed
          /\ s = "parked" => stage[r] = "armed" /\ counted' = counted /\ armed' = armed
          /\ s # "granted" => used' = used /\ held' = held
          /\ stage[r] \in {"gate", "armed"}
  <2>1. stage[r] = "gate" => armed \ {r} = armed
    BY <1>1 DEF CountInv
  <2>2. CASE reserve_first(r)
    BY <1>1, <2>1, <2>2 DEF reserve_first, reserve, Fits, Goes
  <2>3. CASE reserve_again(r)
    BY <1>1, <2>3 DEF reserve_again, reserve, Fits, Goes
  <2> QED BY <2>2, <2>3
<1>4. stage'[r] = s /\ \A q \in Readers \ {r} : stage'[q] = stage[q]
  BY <1>1, <1>3 DEF ReplayTypeOK
<1>5. Calling' = Calling /\ Inside' \subseteq {r}
  BY <1>2, <1>3, <1>4 DEF Calling, Inside, Counted
<1>6. counted' = Cardinality(Counted') /\ counted' \in Nat
  <2>1. counted = Cardinality(Counted) /\ IsFiniteSet(Counted) /\ counted \in Nat
    BY <1>1, ReadersFinite DEF CountInv, ReplayTypeOK
  <2>2. CASE s = "counted"
    <3>1. r \notin Counted /\ Counted' = Counted \cup {r}
      BY <1>3, <1>4, <2>2 DEF Counted
    <3> QED BY <1>3, <2>1, <2>2, <3>1, CountFacts
  <2>3. CASE s = "parked" \/ (s = "granted" /\ stage[r] = "gate")
    <3>1. Counted' = Counted
      BY <1>3, <1>4, <2>3 DEF Counted
    <3> QED BY <1>3, <2>1, <2>3, <3>1
  <2>4. CASE s = "granted" /\ stage[r] = "armed"
    <3>1. r \in Counted /\ Counted' = Counted \ {r}
      BY <1>3, <1>4, <2>4 DEF Counted
    <3>2. Cardinality(Counted \ {r}) \in Nat
      BY <2>1, FS_RemoveElement, FS_CardinalityType
    <3> QED BY <1>3, <2>1, <2>4, <3>1, <3>2, CountFacts
  <2> QED BY <1>3, <2>2, <2>3, <2>4
<1>7. used' = Cardinality(Held') /\ used' <= Limit /\ used' \in Nat /\ held' \in [Readers -> 0..Window]
  <2>1. CASE s = "granted"
    <3>1. Window \in 0..Window /\ Window \in Nat
      BY ReadersFinite
    <3>2. Cardinality(Held') = Cardinality(Held) + Window - held[r] /\ held' \in [Readers -> 0..Window]
      BY <1>1, <1>3, <2>1, <3>1, HeldUpdate
    <3> QED BY <1>1, <1>2, <1>3, <2>1, <3>1, <3>2 DEF CountInv, ReplayTypeOK
  <2>2. CASE s # "granted"
    <3>1. Held' = Held
      BY <1>3, <2>2 DEF Held
    <3> QED BY <1>1, <1>3, <2>2, <3>1 DEF CountInv, ReplayTypeOK
  <2> QED BY <2>1, <2>2
<1>8. ReplayTypeOK'
  <2>1. armed' \subseteq Readers /\ stage' \in [Readers -> Stages]
    BY <1>1, <1>3 DEF ReplayTypeOK, Stages
  <2> QED BY <1>1, <1>2, <1>6, <1>7, <2>1 DEF ReplayTypeOK
<1>9. HeldInv'
  BY <1>1, <1>2, <1>3, <1>4 DEF HeldInv, Calling, ReplayTypeOK
<1>10. GateInv'
  BY <1>1, <1>2, <1>5 DEF GateInv
<1>11. CountInv'
  <2>1. armed' \subseteq {q \in Readers : stage'[q] \in {"armed", "parked"}}
    BY <1>1, <1>3, <1>4 DEF CountInv
  <2> QED BY <1>1, <1>2, <1>5, <1>6, <1>7, <2>1 DEF CountInv
<1> QED BY <1>8, <1>9, <1>10, <1>11 DEF IInv

\* Arming, waking up and being notified move nobody past the gate.
LEMMA WakeInv ==
    ASSUME IInv, NEW r \in Readers, enable(r) \/ woken(r) PROVE IInv'
<1>1. ReplayTypeOK /\ HeldInv /\ GateInv /\ CountInv
  BY DEF IInv
<1>2. /\ used' = used /\ waiters' = waiters /\ counted' = counted /\ gate' = gate /\ held' = held
      /\ r \in Counted /\ stage'[r] \in {"counted", "armed"}
      /\ \A q \in Readers \ {r} : stage'[q] = stage[q]
  BY <1>1 DEF enable, woken, Goes, ReplayTypeOK, Counted
<1>3. Calling' = Calling /\ Counted' = Counted /\ Inside' = Inside /\ Held' = Held
  BY <1>2 DEF Calling, Counted, Inside, Held
<1>4. ReplayTypeOK'
  BY <1>1 DEF ReplayTypeOK, enable, woken, Goes, Stages
<1>5. HeldInv'
  BY <1>1, <1>2 DEF HeldInv, Calling, Counted
<1>6. armed' \subseteq {q \in Readers : stage'[q] \in {"armed", "parked"}}
  BY <1>1 DEF CountInv, ReplayTypeOK, enable, woken, Goes
<1>7. CountInv'
  BY <1>1, <1>2, <1>3, <1>6 DEF CountInv
<1>8. GateInv'
  BY <1>1, <1>2, <1>3 DEF GateInv
<1> QED BY <1>4, <1>5, <1>7, <1>8 DEF IInv

\* A call that ends, admitted or not, leaves the gate to the next one.
LEMMA LeaveGate ==
    ASSUME IInv, NEW r \in Calling,
           \A i, j \in 1..Len(gate') : gate'[i] = gate'[j] => i = j,
           {gate'[i] : i \in 1..Len(gate')} = Calling \ {r},
           Len(gate') = Len(gate) - 1,
           gate[1] # r => gate'[1] = gate[1],
           waiters' = waiters - 1, Calling' = Calling \ {r}, Inside' \subseteq Inside \ {r}
    PROVE  GateInv' /\ waiters' = Cardinality(Calling') /\ waiters' = Len(gate') /\ waiters' \in Nat
<1>1. GateInv /\ CountInv
  BY DEF IInv
<1>2. \A q \in Inside' : gate'[1] = q
  <2>1. \A q \in Inside : q = gate[1]
    BY InsideIsHead
  <2> QED BY <2>1
<1>3. GateInv'
  BY <1>2 DEF GateInv
<1>4. Cardinality(Calling \ {r}) = Cardinality(Calling) - 1 /\ Cardinality(Calling \ {r}) \in Nat
  <2>1. IsFiniteSet(Calling)
    BY ReadersFinite
  <2> QED BY <2>1, CountFacts, FS_RemoveElement, FS_CardinalityType
<1> QED BY <1>1, <1>3, <1>4 DEF CountInv

LEMMA AdmittedInv == ASSUME IInv, NEW r \in Readers, admitted(r) PROVE IInv'
<1>1. ReplayTypeOK /\ HeldInv /\ GateInv /\ CountInv
  BY DEF IInv
<1>2. /\ stage[r] = "granted" /\ gate' = Tail(gate) /\ waiters' = waiters - 1
      /\ used' = used /\ counted' = counted /\ armed' = armed /\ held' = held
      /\ stage'[r] = "reading" /\ \A q \in Readers \ {r} : stage'[q] = stage[q]
      /\ stage' \in [Readers -> Stages]
  BY <1>1 DEF admitted, Goes, ReplayTypeOK, Stages
<1>3. r \in Calling /\ Len(gate) \in Nat /\ Len(gate) > 0 /\ gate # <<>> /\ gate[1] = r
  <2>1. r \in Inside /\ r \in Calling
    BY <1>2 DEF Inside, Calling
  <2> QED BY <2>1, InsideIsHead
<1>4. Calling' = Calling \ {r} /\ Counted' = Counted /\ Inside' \subseteq Inside \ {r} /\ Held' = Held
  BY <1>2 DEF Calling, Counted, Inside, Held
<1>5. /\ gate' \in Seq(Readers) /\ Len(gate') = Len(gate) - 1
      /\ \A i \in 1..Len(gate') : gate'[i] = gate[i + 1]
  BY <1>1, <1>2, <1>3, HeadTailProperties DEF ReplayTypeOK
<1>6. \A i, j \in 1..Len(gate') : gate'[i] = gate'[j] => i = j
  BY <1>1, <1>3, <1>5 DEF GateInv
<1>7. {gate'[i] : i \in 1..Len(gate')} = Calling \ {r}
  <2>1. \A i \in 1..Len(gate') : gate'[i] \in Calling \ {r}
    <3>1. \A i \in 1..Len(gate') : i + 1 \in 1..Len(gate) /\ i + 1 # 1 /\ 1 \in 1..Len(gate)
      BY <1>3, <1>5
    <3> QED BY <1>1, <1>3, <1>5, <3>1 DEF GateInv
  <2>2. ASSUME NEW q \in Calling \ {r} PROVE \E i \in 1..Len(gate') : gate'[i] = q
    <3>1. PICK i \in 1..Len(gate) : gate[i] = q
      BY <1>1 DEF GateInv
    <3>2. i - 1 \in 1..Len(gate') /\ (i - 1) + 1 = i
      BY <1>3, <1>5, <3>1
    <3> QED BY <1>5, <3>1, <3>2
  <2> QED BY <2>1, <2>2
<1>8. GateInv' /\ waiters' = Cardinality(Calling') /\ waiters' = Len(gate') /\ waiters' \in Nat
  BY <1>2, <1>3, <1>4, <1>5, <1>6, <1>7, LeaveGate
<1>9. ReplayTypeOK'
  BY <1>1, <1>2, <1>5, <1>8 DEF ReplayTypeOK
<1>10. HeldInv'
  BY <1>1, <1>2 DEF HeldInv, Calling
<1>11. armed' \subseteq {q \in Readers : stage'[q] \in {"armed", "parked"}}
  BY <1>1, <1>2 DEF CountInv
<1>12. CountInv'
  BY <1>1, <1>2, <1>4, <1>8, <1>11 DEF CountInv
<1> QED BY <1>8, <1>9, <1>10, <1>12 DEF IInv

\* A call that gives up, wherever it waits, takes its place at the gate and its
\* count with it.
LEMMA ExpireInv == ASSUME IInv, NEW r \in Readers, expire(r) PROVE IInv'
<1>1. ReplayTypeOK /\ HeldInv /\ GateInv /\ CountInv
  BY DEF IInv
<1>2. /\ stage[r] \in {"gate", "parked"} /\ gate' = RemoveFirst(gate, r) /\ waiters' = waiters - 1
      /\ counted' = IF stage[r] = "parked" THEN counted - 1 ELSE counted
      /\ used' = used /\ armed' = armed \ {r} /\ held' = held
      /\ stage'[r] = "idle" /\ \A q \in Readers \ {r} : stage'[q] = stage[q]
      /\ stage' \in [Readers -> Stages]
  BY <1>1 DEF expire, Goes, ReplayTypeOK, Stages
<1>3. r \in Calling /\ Calling' = Calling \ {r} /\ Inside' \subseteq Inside \ {r} /\ Held' = Held
  BY <1>2 DEF Calling, Counted, Inside, Held
<1>4. gate \in Seq(Readers) /\ Len(gate) \in Nat /\ \E i \in 1..Len(gate) : gate[i] = r
  BY <1>1, <1>3, LenProperties DEF GateInv, ReplayTypeOK
<1>5. /\ gate' \in Seq(Readers)
      /\ \A i, j \in 1..Len(gate') : gate'[i] = gate'[j] => i = j
      /\ {gate'[i] : i \in 1..Len(gate')} = {gate[i] : i \in 1..Len(gate)} \ {r}
      /\ Len(gate') = IF \E i \in 1..Len(gate) : gate[i] = r THEN Len(gate) - 1 ELSE Len(gate)
      /\ Len(gate) > 1 /\ gate[1] # r => gate'[1] = gate[1]
  <2>1. \A i, j \in 1..Len(gate) : gate[i] = gate[j] => i = j
    BY <1>1 DEF GateInv
  <2> DEFINE g == RemoveFirst(gate, r)
  <2>2. /\ g \in Seq(Readers)
        /\ \A i, j \in 1..Len(g) : g[i] = g[j] => i = j
        /\ {g[i] : i \in 1..Len(g)} = {gate[i] : i \in 1..Len(gate)} \ {r}
        /\ Len(g) = IF \E i \in 1..Len(gate) : gate[i] = r THEN Len(gate) - 1 ELSE Len(gate)
        /\ Len(gate) > 1 /\ gate[1] # r => g[1] = gate[1]
    BY <1>4, <2>1, RemoveFirstFacts
  <2>3. gate' = g
    BY <1>2
  <2> HIDE DEF g
  <2> QED BY <2>2, <2>3, ZenonT(60)
<1>6. Len(gate') = Len(gate) - 1 /\ {gate'[i] : i \in 1..Len(gate')} = Calling \ {r}
      /\ (gate[1] # r => gate'[1] = gate[1])
  <2>1. gate[1] # r => Len(gate) > 1
    BY <1>4
  <2>2. {gate'[i] : i \in 1..Len(gate')} = Calling \ {r}
    BY <1>1, <1>5, Zenon DEF GateInv
  <2> QED BY <1>4, <1>5, <2>1, <2>2
<1>7. GateInv' /\ waiters' = Cardinality(Calling') /\ waiters' = Len(gate') /\ waiters' \in Nat
  BY <1>2, <1>3, <1>5, <1>6, LeaveGate
<1>8. counted' = Cardinality(Counted') /\ counted' \in Nat
  <2>1. counted = Cardinality(Counted) /\ IsFiniteSet(Counted) /\ counted \in Nat
    BY <1>1, ReadersFinite DEF CountInv, ReplayTypeOK
  <2>2. CASE stage[r] = "gate"
    <3>1. Counted' = Counted
      BY <1>2, <2>2 DEF Counted
    <3> QED BY <1>2, <2>1, <2>2, <3>1
  <2>3. CASE stage[r] = "parked"
    <3>1. r \in Counted /\ Counted' = Counted \ {r}
      BY <1>2, <2>3 DEF Counted
    <3>2. Cardinality(Counted \ {r}) \in Nat
      BY <2>1, FS_RemoveElement, FS_CardinalityType
    <3> QED BY <1>2, <2>1, <2>3, <3>1, <3>2, CountFacts
  <2> QED BY <1>2, <2>2, <2>3
<1>9. ReplayTypeOK'
  BY <1>1, <1>2, <1>5, <1>7, <1>8 DEF ReplayTypeOK
<1>10. HeldInv'
  BY <1>1, <1>2 DEF HeldInv, Calling
<1>11. armed' \subseteq {q \in Readers : stage'[q] \in {"armed", "parked"}}
  BY <1>1, <1>2 DEF CountInv
<1>12. CountInv'
  BY <1>1, <1>2, <1>3, <1>7, <1>8, <1>11 DEF CountInv
<1> QED BY <1>7, <1>9, <1>10, <1>12 DEF IInv

\* A page that is read keeps some of its window, a page that is dropped keeps
\* nothing, and what is given back was held.
LEMMA CreditInv ==
    ASSUME IInv, NEW r \in Readers, NEW b \in 0..Window, NEW s \in {"shrunk", "refund"},
           stage[r] \in {"reading", "page"}, s = "refund" => b = 0, b <= held[r],
           used' = used - (held[r] - b), held' = [held EXCEPT ![r] = b],
           stage' = [stage EXCEPT ![r] = s], UNCHANGED <<waiters, counted, gate, armed>>
    PROVE  IInv'
<1>1. ReplayTypeOK /\ HeldInv /\ GateInv /\ CountInv
  BY DEF IInv
<1>2. stage'[r] = s /\ (\A q \in Readers \ {r} : stage'[q] = stage[q]) /\ stage' \in [Readers -> Stages]
      /\ held'[r] = b /\ (\A q \in Readers \ {r} : held'[q] = held[q])
  BY <1>1 DEF ReplayTypeOK, Stages
<1>3. Calling' = Calling /\ Counted' = Counted /\ Inside' = Inside
  BY <1>2 DEF Calling, Counted, Inside
<1>4. /\ Cardinality(Held) \in Nat
      /\ Cardinality(Held') = Cardinality(Held) + b - held[r]
      /\ held' \in [Readers -> 0..Window]
  BY <1>1, HeldUpdate
<1>5. used' = Cardinality(Held') /\ used' <= Limit /\ used' \in Int
  <2>1. held[r] \in Nat /\ b \in Nat /\ used \in Nat /\ used <= Limit /\ Limit \in Nat
        /\ used = Cardinality(Held)
    BY <1>1, ReadersFinite DEF CountInv, ReplayTypeOK
  <2> QED BY <1>4, <2>1
<1>6. used' \in Nat
  <2>1. IsFiniteSet(Held')
    <3>0. IsFiniteSet(1..Window)
      BY ReadersFinite, FS_Interval
    <3>1. IsFiniteSet(Readers \X (1..Window))
      BY <3>0, ReadersFinite, FS_Product
    <3>2. Held' \in SUBSET (Readers \X (1..Window))
      BY DEF Held
    <3> QED BY <3>1, <3>2, FS_Subset
  <2> QED BY <1>5, <2>1, FS_CardinalityType
<1>7. ReplayTypeOK'
  BY <1>1, <1>2, <1>4, <1>6 DEF ReplayTypeOK
<1>8. HeldInv'
  BY <1>1, <1>2 DEF HeldInv, Calling
<1>9. GateInv'
  BY <1>1, <1>3 DEF GateInv
<1>10. armed' \subseteq {q \in Readers : stage'[q] \in {"armed", "parked"}}
  BY <1>1, <1>2 DEF CountInv
<1>11. CountInv'
  BY <1>1, <1>3, <1>5, <1>10 DEF CountInv
<1> QED BY <1>7, <1>8, <1>9, <1>11 DEF IInv

LEMMA PageInv ==
    ASSUME IInv, NEW r \in Readers, read(r) \/ drop_page(r) PROVE IInv'
<1>1. ReplayTypeOK /\ HeldInv
  BY DEF IInv
<1>2. held[r] \in 0..Window /\ Window \in Nat
  BY <1>1, ReadersFinite DEF ReplayTypeOK
<1>3. ASSUME NEW b \in PageSizes, shrink(r, b) PROVE IInv'
  <2>1. b \in 0..Window /\ stage[r] = "reading" /\ held[r] = Window
    BY <1>1, <1>3, ReplayAssumption DEF shrink, HeldInv
  <2>2. b <= held[r]
    BY <1>2, <2>1
  <2> QED BY <1>3, <2>1, <2>2, CreditInv DEF shrink, Goes
<1>4. CASE read_fails(r) \/ drop_page(r)
  <2>1. /\ stage[r] \in {"reading", "page"} /\ used' = used - held[r] /\ held' = [held EXCEPT ![r] = 0]
        /\ stage' = [stage EXCEPT ![r] = "refund"] /\ UNCHANGED <<waiters, counted, gate, armed>>
    BY <1>4 DEF read_fails, drop_page, drop_credit, Goes
  <2>2. 0 \in 0..Window /\ 0 <= held[r] /\ used' = used - (held[r] - 0)
    BY <1>2, <2>1
  <2> QED BY <2>1, <2>2, CreditInv
<1> QED BY <1>3, <1>4 DEF read

LEMMA NotifyInv == ASSUME IInv, NEW r \in Readers, notify_waiters(r) PROVE IInv'
<1>1. ReplayTypeOK /\ HeldInv /\ GateInv /\ CountInv
  BY DEF IInv
<1>2. /\ stage[r] \in {"shrunk", "refund"} /\ armed' = {}
      /\ used' = used /\ waiters' = waiters /\ counted' = counted /\ gate' = gate /\ held' = held
      /\ stage'[r] = IF stage[r] = "shrunk" THEN "page" ELSE "idle"
      /\ \A q \in Readers \ {r} : stage'[q] = stage[q]
      /\ stage' \in [Readers -> Stages]
  BY <1>1 DEF notify_waiters, Goes, ReplayTypeOK, Stages
<1>3. Calling' = Calling /\ Counted' = Counted /\ Inside' = Inside /\ Held' = Held
  BY <1>2 DEF Calling, Counted, Inside, Held
<1>4. ReplayTypeOK'
  BY <1>1, <1>2 DEF ReplayTypeOK
<1>5. HeldInv'
  BY <1>1, <1>2 DEF HeldInv, Calling
<1>6. GateInv'
  BY <1>1, <1>2, <1>3 DEF GateInv
<1>7. CountInv'
  BY <1>1, <1>2, <1>3 DEF CountInv
<1> QED BY <1>4, <1>5, <1>6, <1>7 DEF IInv

LEMMA NextIInv == IInv /\ [Next]_vars => IInv'
<1> SUFFICES ASSUME IInv, [Next]_vars PROVE IInv'
  OBVIOUS
<1>1. ASSUME NEW r \in Readers, admit(r) \/ call(r) \/ expire(r) PROVE IInv'
  BY <1>1, AdmitInv, ReserveInv, WakeInv, AdmittedInv, ExpireInv DEF call
<1>2. ASSUME NEW r \in Readers, read(r) \/ drop_page(r) \/ notify_waiters(r) PROVE IInv'
  BY <1>2, PageInv, NotifyInv
<1>3. CASE UNCHANGED vars
  <2>1. ReplayTypeOK' /\ HeldInv'
    BY <1>3 DEF vars, IInv, ReplayTypeOK, HeldInv, Calling
  <2>2. GateInv' /\ CountInv'
    BY <1>3 DEF vars, IInv, GateInv, CountInv, Calling, Counted, Inside, Held
  <2> QED BY <2>1, <2>2 DEF IInv
<1> QED BY <1>1, <1>2, <1>3 DEF Next

\* At most one reader waits for bytes: the head of the gate.
LEMMA IInvAccounts == IInv => CreditsAccounted
<1> SUFFICES ASSUME IInv PROVE CreditsAccounted
  OBVIOUS
<1>1. DOMAIN gate = 1..Len(gate)
  BY LenProperties DEF IInv, ReplayTypeOK
<1>2. counted <= 1
  <2>1. Counted \in SUBSET {gate[1]}
    BY DEF IInv, GateInv, Inside
  <2>2. IsFiniteSet({gate[1]}) /\ Cardinality({gate[1]}) = 1
    BY FS_Singleton
  <2>3. Cardinality(Counted) <= 1
    BY <2>1, <2>2, FS_Subset
  <2> QED BY <2>3 DEF IInv, CountInv
<1>3. {gate[i] : i \in DOMAIN gate} = Calling
  BY <1>1 DEF IInv, GateInv
<1> QED BY <1>2, <1>3 DEF IInv, CountInv, CreditsAccounted, Counted

\* However many readers there are, every byte of the budget that is taken is
\* held by a reader's credit, the budget is never exceeded, and every waiting
\* slot, place at the gate and registration belongs to a call under way.
THEOREM CreditsAlwaysAccounted == Spec => []CreditsAccounted
<1>1. Init => IInv
  BY InitIInv
<1>2. IInv /\ [Next]_vars => IInv'
  BY NextIInv
<1>3. IInv => CreditsAccounted
  BY IInvAccounts
<1> QED BY <1>1, <1>2, <1>3, PTL DEF Spec
=============================================================================
