--------------------------- MODULE SubagentsProofs ---------------------------
(***************************************************************************)
(* Proofs about Subagents, for every set of children, every number of      *)
(* slots and every number of turns, faults and crashes.                    *)
(*                                                                         *)
(* One inductive invariant carries the four results.  It is stated child   *)
(* by child: how the owner, the turn and the table row of a child go       *)
(* together (RowInv), what its record says (RecordInv), what the parent's  *)
(* journal says (LogInv), what a cleanup may have left (EndInv), and what  *)
(* is gone while the process is down (DownInv); only the slots are shared  *)
(* (SlotInv).                                                              *)
(***************************************************************************)
EXTENDS Subagents, SequenceTheorems, TLAPS

-----------------------------------------------------------------------------
(* The inductive invariant. *)

Row == [owner : Owner, pub : {"unattempted", "uncertain", "acknowledged"}, turn : Turn,
        table : Table, result : {"ok", "err", "pending", "dropped"}, close : {"none", "session", "record"}]
Event == {"spawned", "finished"}
Stages == {"no", "settle", "drain", "suspend", "prove", "ok", "failed"}

SubagentsTypeOK ==
    /\ child \in [Children -> Row]
    /\ permit \subseteq Children /\ line \in Seq(Children)
    /\ queue \subseteq Children /\ unproven \subseteq Children /\ actor \subseteq Children
    /\ meta \in [Children -> {"none", "pending", "active", "closed"}]
    /\ log \in [Children -> Seq(Event)]
    /\ sink \in {"open", "closed"}
    /\ phase \in {"up", "down", "load", "refused"}
    /\ ending \in [stage : Stages, failed : BOOLEAN, left : SUBSET Children,
                    awaited : SUBSET Children]

Waiting(q) == {q[i] : i \in 1..Len(q)}

\* A slot is held for a startup, for a turn, or by a startup that left it behind;
\* whoever is in line still wants one.
Holds(c) ==
    \/ child[c].owner \in (Startup \ {"reply", "unclaimed", "abandon"}) \cup {"queued"}
    \/ child[c].turn # "none" \/ c \in unproven
Waits(c) == child[c].owner = "queued" \/ child[c].turn = "waiting"
SlotInv ==
    /\ \A i, j \in 1..Len(line) : line[i] = line[j] => i = j
    /\ \A c \in Waiting(line) : Waits(c) /\ c \notin permit
    /\ \A c \in permit : Holds(c)

Alternates(s) == \A i \in 1..Len(s) : (s[i] = "spawned") = (i % 2 = 1)
OpenLog(s) == s # << >> /\ s[Len(s)] = "spawned"

Unborn(c) ==
    \/ child[c].owner \in {"queued", "create", "pending", "spawn", "undo_bare", "fail_spawn"}
    \/ child[c].owner \in {"undo_session", "undo_record"} /\ child[c].pub = "unattempted"
Live(c) ==
    \/ child[c].owner \in {"activate", "undo_finish", "fail_finish"}
    \/ child[c].owner \in {"undo_session", "undo_record"} /\ child[c].pub = "acknowledged"
    \/ child[c].turn \in {"waiting", "running", "finish"}
Over(c) ==
    \/ child[c].turn \in {"commit", "ok"} \/ child[c].close # "none"
    \/ child[c].table \in {"inactive", "closing", "finalized"}
    \/ child[c].owner \in {"undo_remove", "abandon"}
    \/ child[c].table = "none" /\ child[c].owner \in {"idle", "leave", "reply", "unclaimed"}
         /\ c \notin unproven
Listed(c) == child[c].table \in {"active", "inactive", "closing"}

RowInv(c) ==
    LET k == child[c] IN
    /\ k.turn # "none" => k.table = "active"
    /\ k.turn # "none" <=> k.result = "pending"
    /\ k.table = "active" => k.result \in {"pending", "dropped"}
    /\ k.table # "none" => k.owner \in {"idle", "leave", "reply", "unclaimed", "abandon"}
    /\ k.owner \in {"queued", "fail_spawn", "fail_finish", "leave"} => c \in queue
    /\ k.pub # "unattempted" =>
         k.owner \in {"activate", "undo_session", "undo_record", "undo_finish", "undo_remove"}
    /\ k.owner = "activate" => k.pub = "acknowledged"
    /\ k.close # "none" => k.owner \in {"idle", "abandon"}
    /\ k.close = "session" => k.table \in {"closing", "none"}
    /\ k.close = "record" => k.table \in {"finalized", "none"}
    /\ k.owner = "abandon" => k.table # "active"
    /\ c \in actor => \/ Listed(c) \/ c \in unproven
                      \/ k.owner \in {"pending", "spawn", "activate", "undo_bare", "undo_session"}
RecordInv(c) ==
    LET k == child[c] IN
    /\ k.owner \in {"queued", "create", "pending", "undo_bare"} => meta[c] = "none"
    /\ k.owner \in {"activate", "reply", "unclaimed"} => log[c] # << >>
    /\ Listed(c) => meta[c] = "active" /\ log[c] # << >>
    /\ meta[c] = "active" => log[c] # << >>
    /\ Up /\ ending.stage = "no" /\ k.owner \in {"reply", "unclaimed"} => k.table # "none"
    /\ Up /\ ending.stage = "no" /\ meta[c] \in {"pending", "active"} =>
         \/ k.table # "none" \/ c \in unproven
         \/ k.owner \notin {"idle", "queued", "fail_spawn", "fail_finish", "leave"}
LogInv(c) ==
    /\ Alternates(log[c])
    /\ Unborn(c) => log[c] = << >>
    /\ child[c].pub = "uncertain" \/ child[c].turn = "err" => sink = "closed"
    /\ Up /\ sink = "open" => (Live(c) => Open(c)) /\ (Over(c) => ~ Open(c))
    /\ phase = "load" => ~ Open(c)
EndInv(c) ==
    LET k == child[c] IN
    /\ ending.stage # "no" /\ k.close # "none" => k.owner = "abandon"
    /\ ending.stage \in {"suspend", "prove", "ok", "failed"} => c \notin queue
    /\ ending.stage = "drain" /\ ~ ending.failed /\ k.owner \in Startup => c \in queue
    /\ ending.stage \in {"suspend", "prove", "ok"} /\ ~ ending.failed =>
         k.owner \notin Startup /\ (k.table # "none" => c \in ending.left)
    /\ ending.stage = "suspend" /\ c \in ending.left =>
         /\ k.owner \in {"idle", "reply", "unclaimed", "abandon"}
         /\ c \notin ending.awaited => k.table # "active"
    /\ ending.stage \in {"prove", "ok", "failed"} => ending.left = {}
    /\ ending.stage = "ok" => ~ ending.failed /\ c \notin unproven
DownInv(c) ==
    phase # "up" =>
        /\ child[c].owner = "idle" /\ child[c].pub = "unattempted" /\ child[c].turn = "none"
        /\ child[c].result = "ok" /\ child[c].close = "none"
        /\ child[c].table = "none" \/ (child[c].table = "inactive" /\ phase # "down")
        /\ c \notin queue \cup actor \cup unproven /\ permit = {} /\ line = << >>
        /\ ending = NotEnding /\ sink = "open"
IInv ==
    /\ SubagentsTypeOK /\ SlotInv
    /\ \A c \in Children : RowInv(c) /\ RecordInv(c) /\ LogInv(c) /\ EndInv(c) /\ DownInv(c)

-----------------------------------------------------------------------------
(* Queues and logs. *)

\* Taking a child out of a queue it is in, or of one it is not in.
LEMMA RemoveFirstFacts ==
    ASSUME NEW S, NEW q \in Seq(S), \A i, j \in 1..Len(q) : q[i] = q[j] => i = j, NEW c
    PROVE  /\ RemoveFirst(q, c) \in Seq(S)
           /\ \A i, j \in 1..Len(RemoveFirst(q, c)) :
                 RemoveFirst(q, c)[i] = RemoveFirst(q, c)[j] => i = j
           /\ {RemoveFirst(q, c)[i] : i \in 1..Len(RemoveFirst(q, c))}
                 = {q[i] : i \in 1..Len(q)} \ {c}
           /\ Len(RemoveFirst(q, c))
                 = IF \E i \in 1..Len(q) : q[i] = c THEN Len(q) - 1 ELSE Len(q)
           /\ Len(q) > 1 /\ q[1] # c => RemoveFirst(q, c)[1] = q[1]
<1> DEFINE r == RemoveFirst(q, c)
<1>1. Len(q) \in Nat /\ \A i \in 1..Len(q) : q[i] \in S
  BY LenProperties, ElementOfSeq
<1>2. CASE ~\E i \in 1..Len(q) : q[i] = c
  <2>1. r = q
    BY <1>2 DEF RemoveFirst
  <2> HIDE DEF r
  <2> QED BY <1>1, <1>2, <2>1 DEF r
<1>3. ASSUME NEW k \in 1..Len(q), q[k] = c
      PROVE  /\ r \in Seq(S) /\ Len(r) = Len(q) - 1
             /\ \A i \in 1..Len(r) : r[i] = IF i < k THEN q[i] ELSE q[i + 1]
  <2> DEFINE I == {i \in 1..Len(q) : q[i] = c}
  <2>1. I = {k}
    BY <1>3
  <2>2. Min({k}) = k
    <3>1. Min({k}) = CHOOSE x \in {k} : \A y \in {k} : x <= y
      BY DEF Min
    <3> QED BY <3>1
  <2>3. SelectInSeq(q, LAMBDA v : v = c) = Min(I)
    BY <2>1 DEF SelectInSeq
  <2>4. r = RemoveAt(q, k)
    BY <1>3, <2>1, <2>2, <2>3, Zenon DEF RemoveFirst
  <2> DEFINE x == SubSeq(q, 1, k - 1)
             y == SubSeq(q, k + 1, Len(q))
  <2>5. x \in Seq(S) /\ Len(x) = k - 1 /\ \A i \in 1..(k - 1) : x[i] = q[i]
    <3>1. 1 \in Int /\ k - 1 \in Int /\ \A i \in 1..(k - 1) : q[i] \in S
      BY <1>1
    <3> QED BY <3>1, SubSeqProperties
  <2>6. y \in Seq(S) /\ Len(y) = Len(q) - k /\ \A i \in 1..(Len(q) - k) : y[i] = q[k + i]
    <3>1. k + 1 \in Int /\ Len(q) \in Int /\ \A i \in (k + 1)..Len(q) : q[i] \in S
      BY <1>1
    <3> QED BY <1>1, <3>1, SubSeqProperties
  <2>7. r = x \o y
    BY <2>4 DEF RemoveAt
  <2> HIDE DEF x, y, r
  <2>8. /\ r \in Seq(S) /\ Len(r) = Len(x) + Len(y)
        /\ \A i \in 1..(Len(x) + Len(y)) : r[i] = IF i <= Len(x) THEN x[i] ELSE y[i - Len(x)]
    <3>1. x \in Seq(S) /\ y \in Seq(S)
      BY <2>5, <2>6
    <3>2. /\ x \o y \in Seq(S) /\ Len(x \o y) = Len(x) + Len(y)
          /\ \A i \in 1..(Len(x) + Len(y)) : (x \o y)[i] = IF i <= Len(x) THEN x[i] ELSE y[i - Len(x)]
      BY <3>1, ConcatProperties
    <3> QED BY <2>7, <3>2, Zenon
  <2>9. ASSUME NEW i \in 1..Len(r) PROVE r[i] = IF i < k THEN q[i] ELSE q[i + 1]
    <3>1. CASE i < k
      BY <1>1, <2>5, <2>6, <2>8, <3>1
    <3>2. CASE ~(i < k)
      <4>1. i - (k - 1) \in 1..(Len(q) - k) /\ k + (i - (k - 1)) = i + 1
        BY <1>1, <2>5, <2>6, <2>8, <3>2
      <4> QED BY <1>1, <2>5, <2>6, <2>8, <3>2, <4>1
    <3> QED BY <3>1, <3>2
  <2> QED BY <1>1, <2>5, <2>6, <2>8, <2>9
<1>4. CASE \E i \in 1..Len(q) : q[i] = c
  <2>1. PICK k \in 1..Len(q) : q[k] = c
    BY <1>4
  <2>2. /\ r \in Seq(S) /\ Len(r) = Len(q) - 1
        /\ \A i \in 1..Len(r) : r[i] = IF i < k THEN q[i] ELSE q[i + 1]
    BY <1>3, <2>1
  <2> HIDE DEF r
  <2>3. \A i, j \in 1..Len(r) : r[i] = r[j] => i = j
    BY <1>1, <2>2
  <2>4. \A i \in 1..Len(r) : \E j \in 1..Len(q) : q[j] = r[i] /\ r[i] # c
    BY <1>1, <2>1, <2>2
  <2>5. ASSUME NEW i \in 1..Len(q), q[i] # c PROVE \E j \in 1..Len(r) : r[j] = q[i]
    <3>1. CASE i < k
      BY <1>1, <2>2, <3>1
    <3>2. CASE ~(i < k)
      <4>1. i - 1 \in 1..Len(r) /\ ~(i - 1 < k) /\ (i - 1) + 1 = i
        BY <1>1, <2>1, <2>2, <2>5, <3>2
      <4> QED BY <2>2, <4>1
    <3> QED BY <3>1, <3>2
  <2>6. {r[i] : i \in 1..Len(r)} = {q[i] : i \in 1..Len(q)} \ {c}
    BY <2>4, <2>5
  <2>7. Len(q) > 1 /\ q[1] # c => r[1] = q[1]
    BY <1>1, <2>1, <2>2
  <2> QED BY <1>4, <2>2, <2>3, <2>6, <2>7 DEF r
<1> QED BY <1>2, <1>4

\* What an event does to a log in which the two kinds alternate.
LEMMA LogGrows ==
    ASSUME NEW s \in Seq(Event), Alternates(s)
    PROVE  /\ ~ OpenLog(s) => LET t == Append(s, "spawned") IN Alternates(t) /\ OpenLog(t)
           /\ OpenLog(s) => LET t == Append(s, "finished") IN Alternates(t) /\ ~ OpenLog(t)
<1>1. Len(s) \in Nat
  BY LenProperties
<1>2. ASSUME NEW e \in Event
      PROVE  LET t == Append(s, e)
             IN /\ Len(t) = Len(s) + 1 /\ t[Len(s) + 1] = e
                /\ \A i \in 1..Len(s) : t[i] = s[i]
                /\ t # << >>
  BY <1>1, AppendProperties
<1>3. OpenLog(s) <=> Len(s) % 2 = 1
  <2>1. CASE s = << >>
    BY <2>1 DEF OpenLog
  <2>2. CASE s # << >>
    <3>1. Len(s) \in 1..Len(s)
      BY <1>1, <2>2, EmptySeq
    <3> QED BY <2>2, <3>1 DEF OpenLog, Alternates
  <2> QED BY <2>1, <2>2
<1>4. CASE ~ OpenLog(s)
  <2> DEFINE t == Append(s, "spawned")
  <2>1. /\ Len(t) = Len(s) + 1 /\ t[Len(s) + 1] = "spawned" /\ t # << >>
        /\ \A i \in 1..Len(s) : t[i] = s[i]
    BY <1>2 DEF Event
  <2> HIDE DEF t
  <2>2. (Len(s) + 1) % 2 = 1
    BY <1>1, <1>3, <1>4
  <2>3. Alternates(t)
    BY <1>1, <2>1, <2>2 DEF Alternates
  <2>4. OpenLog(t)
    BY <2>1 DEF OpenLog
  <2> QED BY <1>4, <2>3, <2>4 DEF t
<1>5. CASE OpenLog(s)
  <2> DEFINE t == Append(s, "finished")
  <2>1. /\ Len(t) = Len(s) + 1 /\ t[Len(s) + 1] = "finished" /\ t # << >>
        /\ \A i \in 1..Len(s) : t[i] = s[i]
    BY <1>2 DEF Event
  <2> HIDE DEF t
  <2>2. (Len(s) + 1) % 2 # 1
    BY <1>1, <1>3, <1>5
  <2>3. Alternates(t)
    BY <1>1, <2>1, <2>2 DEF Alternates
  <2>4. ~ OpenLog(t)
    BY <2>1 DEF OpenLog
  <2> QED BY <1>5, <2>3, <2>4 DEF t
<1> QED BY <1>4, <1>5

-----------------------------------------------------------------------------
(* What the calls to the outside world may leave. *)

LEMMA Commits ==
    ASSUME SubagentsTypeOK, NEW c \in Children, NEW e \in Event
    PROVE  /\ Logged(c, e) =>
                /\ log' \in [Children -> Seq(Event)]
                /\ log'[c] = Append(log[c], e) /\ log'[c] # << >>
                /\ \A d \in Children \ {c} : log'[d] = log[d]
           /\ Committed(c, e) => sink = "open" /\ sink' = "open" /\ Logged(c, e)
           /\ CommitFailed(c, e) => /\ sink' = "closed"
                                    /\ log' = log \/ (Logged(c, e) /\ sink = "open")
<1>1. log[c] \in Seq(Event) /\ log \in [Children -> Seq(Event)]
  BY DEF SubagentsTypeOK
<1>2. Append(log[c], e) \in Seq(Event) /\ Append(log[c], e) # << >>
  BY <1>1, AppendProperties
<1>3. Logged(c, e) =>
         /\ log' \in [Children -> Seq(Event)]
         /\ log'[c] = Append(log[c], e) /\ log'[c] # << >>
         /\ \A d \in Children \ {c} : log'[d] = log[d]
  BY <1>1, <1>2 DEF Logged
<1>4. Committed(c, e) => sink = "open" /\ sink' = "open" /\ Logged(c, e)
  BY DEF Committed
<1>5. CommitFailed(c, e) => /\ sink' = "closed"
                            /\ log' = log \/ (Logged(c, e) /\ sink = "open")
  BY DEF CommitFailed
<1> QED BY <1>3, <1>4, <1>5

LEMMA Saves ==
    ASSUME SubagentsTypeOK, NEW c \in Children, NEW p \in {"none", "pending", "active", "closed"},
           Saved(c, p) \/ SaveFailed(c, p)
    PROVE  /\ meta' \in [Children -> {"none", "pending", "active", "closed"}]
           /\ meta'[c] \in {p, meta[c]} /\ (Saved(c, p) => meta'[c] = p)
           /\ \A d \in Children \ {c} : meta'[d] = meta[d]
BY DEF Saved, SaveFailed, Recorded, SubagentsTypeOK

-----------------------------------------------------------------------------
(* Slots. *)

\* What the others have does not change when one child moves.
Apart(c) == \A d \in Children \ {c} :
    /\ child'[d] = child[d] /\ meta'[d] = meta[d] /\ log'[d] = log[d]
    /\ d \in queue' <=> d \in queue
    /\ d \in unproven' <=> d \in unproven
    /\ d \in actor' <=> d \in actor

LEMMA SlotsKept ==
    ASSUME SubagentsTypeOK, SlotInv, NEW c \in Children, Apart(c), UNCHANGED slotVars,
           c \in permit /\ Holds(c) => Holds(c)', Waits(c) => Waits(c)' \/ c \in permit
    PROVE  SlotInv'
<1>1. permit' = permit /\ line' = line
  BY DEF slotVars
<1>2. \A d \in Children \ {c} : Holds(d)' = Holds(d) /\ Waits(d)' = Waits(d)
  BY DEF Apart, Holds, Waits
<1>3. \A d \in Waiting(line) : d \in Children
  BY ElementOfSeq DEF SubagentsTypeOK, Waiting
<1>4. \A d \in Waiting(line') : Waits(d)' /\ d \notin permit'
  BY <1>1, <1>2, <1>3 DEF SlotInv
<1>5. \A d \in permit' : Holds(d)'
  BY <1>1, <1>2 DEF SlotInv, SubagentsTypeOK
<1> QED BY <1>1, <1>4, <1>5 DEF SlotInv

\* A freed slot goes to the oldest waiter, who wants it; a waiter that gives up
\* leaves the line.
LEMMA SlotReleased ==
    ASSUME SubagentsTypeOK, SlotInv, NEW c \in Children, Apart(c), release(c)
    PROVE  SlotInv' /\ permit' \subseteq Children /\ line' \in Seq(Children)
<1>1. \A d \in Children \ {c} : Holds(d)' = Holds(d) /\ Waits(d)' = Waits(d)
  BY DEF Apart, Holds, Waits
<1>2. line \in Seq(Children) /\ Len(line) \in Nat /\ \A i \in 1..Len(line) : line[i] \in Children
  BY ElementOfSeq, LenProperties DEF SubagentsTypeOK
<1>3. CASE c \in permit /\ line # << >>
  <2>1. permit' = (permit \ {c}) \cup {Head(line)} /\ line' = Tail(line)
    BY <1>3 DEF release
  <2>2. Head(line) = line[1] /\ 1 \in 1..Len(line) /\ Tail(line) \in Seq(Children)
        /\ Len(Tail(line)) = Len(line) - 1
        /\ \A i \in 1..(Len(line) - 1) : Tail(line)[i] = line[i + 1]
    BY <1>2, <1>3, HeadTailProperties, EmptySeq
  <2>3. \A i \in 1..Len(line) : line[i] # c /\ line[i] \in Waiting(line)
    BY <1>3 DEF SlotInv, Waiting
  <2>4. \A i \in 1..Len(line') : i + 1 \in 1..Len(line) /\ line'[i] = line[i + 1] /\ i + 1 # 1
    BY <1>2, <2>1, <2>2
  <2>5. \A i, j \in 1..Len(line') : line'[i] = line'[j] => i = j
    BY <2>4, <1>2 DEF SlotInv
  <2>6. ASSUME NEW d \in Waiting(line') PROVE Waits(d)' /\ d \notin permit'
    <3>1. PICK k \in 1..Len(line) : d = line[k] /\ k # 1
      BY <2>4 DEF Waiting
    <3>2. d # line[1] /\ d # c /\ d \in Children /\ d \in Waiting(line)
      BY <1>2, <2>2, <2>3, <3>1 DEF SlotInv
    <3>3. Waits(d)' /\ d \notin permit
      BY <1>1, <3>2 DEF SlotInv
    <3> QED BY <2>1, <2>2, <3>2, <3>3
  <2>7. \A d \in Waiting(line') : Waits(d)' /\ d \notin permit'
    BY <2>6
  <2>8. PICK h \in Children \ {c} : h = line[1] /\ Waits(h)
    BY <1>2, <2>2, <2>3 DEF SlotInv
  <2>9. Holds(h)'
    <3>1. Holds(h)
      BY <2>8 DEF Holds, Waits
    <3> QED BY <1>1, <3>1
  <2>10. \A d \in permit' : Holds(d)'
    BY <1>1, <2>1, <2>2, <2>8, <2>9 DEF SlotInv, SubagentsTypeOK
  <2> QED BY <2>1, <2>2, <2>5, <2>7, <2>8, <2>10 DEF SlotInv, SubagentsTypeOK
<1>4. CASE ~(c \in permit /\ line # << >>)
  <2>1. permit' = permit \ {c} /\ line' = RemoveFirst(line, c)
    BY <1>4 DEF release
  <2> DEFINE q == RemoveFirst(line, c)
  <2>2. /\ q \in Seq(Children)
        /\ \A i, j \in 1..Len(q) : q[i] = q[j] => i = j
        /\ {q[i] : i \in 1..Len(q)} = {line[i] : i \in 1..Len(line)} \ {c}
    <3>1. \A i, j \in 1..Len(line) : line[i] = line[j] => i = j
      BY DEF SlotInv
    <3>2. line \in Seq(Children)
      BY <1>2
    <3>3. /\ q \in Seq(Children)
          /\ \A i, j \in 1..Len(q) : q[i] = q[j] => i = j
          /\ {q[i] : i \in 1..Len(q)} = {line[i] : i \in 1..Len(line)} \ {c}
          /\ Len(q) = IF \E i \in 1..Len(line) : line[i] = c THEN Len(line) - 1 ELSE Len(line)
          /\ Len(line) > 1 /\ line[1] # c => q[1] = line[1]
      BY <3>1, <3>2, RemoveFirstFacts, Zenon
    <3> QED BY <3>3
  <2> HIDE DEF q
  <2>3. Waiting(q) = Waiting(line) \ {c} /\ line' = q
    BY <2>1, <2>2, Zenon DEF Waiting, q
  <2>4. Waiting(line) \subseteq Children
    BY <1>2 DEF Waiting
  <2>5. Waiting(line') = Waiting(line) \ {c}
    BY <2>3, Zenon
  <2>6. \A d \in Waiting(line') : Waits(d)' /\ d \notin permit'
    BY <1>1, <2>1, <2>4, <2>5 DEF SlotInv
  <2>7. \A d \in permit' : Holds(d)'
    BY <1>1, <2>1 DEF SlotInv, SubagentsTypeOK
  <2>8. \A i, j \in 1..Len(line') : line'[i] = line'[j] => i = j
    BY <2>2, <2>3, Zenon
  <2> QED BY <2>1, <2>2, <2>3, <2>6, <2>7, <2>8 DEF SlotInv, SubagentsTypeOK
<1> QED BY <1>3, <1>4

\* A child that has no slot and waits for none takes a free one.
LEMMA SlotTaken ==
    ASSUME SubagentsTypeOK, SlotInv, NEW c \in Children, Apart(c),
           permit' \in {permit, permit \cup {c}}, line' = line, ~ Waits(c), Holds(c)'
    PROVE  SlotInv' /\ permit' \subseteq Children /\ line' \in Seq(Children)
<1>1. \A d \in Children \ {c} : Holds(d)' = Holds(d) /\ Waits(d)' = Waits(d)
  BY DEF Apart, Holds, Waits
<1>2. \A d \in Waiting(line) : d \in Children \ {c}
  BY ElementOfSeq DEF SubagentsTypeOK, Waiting, SlotInv
<1>3. \A d \in Waiting(line') : Waits(d)' /\ d \notin permit'
  BY <1>1, <1>2 DEF SlotInv
<1>4. \A d \in permit' : Holds(d)'
  BY <1>1 DEF SlotInv, SubagentsTypeOK
<1> QED BY <1>3, <1>4 DEF SlotInv, SubagentsTypeOK

\* A child that waits gets a free slot, or a place at the end of the line.
LEMMA SlotAwaited ==
    ASSUME SubagentsTypeOK, SlotInv, NEW c \in Children, acquire(c), Waits(c),
           UNCHANGED <<child, unproven>>
    PROVE  SlotInv' /\ permit' \subseteq Children /\ line' \in Seq(Children)
<1>1. \A d : Holds(d)' = Holds(d) /\ Waits(d)' = Waits(d)
  BY DEF Holds, Waits
<1>2. line \in Seq(Children) /\ Len(line) \in Nat
  BY LenProperties DEF SubagentsTypeOK
<1>3. c \notin permit /\ c \notin Waiting(line)
  BY DEF acquire, Waiting
<1>4. CASE SlotFree
  <2>1. permit' = permit \cup {c} /\ line' = line
    BY <1>4 DEF acquire
  <2>2. Holds(c)
    BY DEF Holds, Waits
  <2>3. \A d \in Waiting(line') : Waits(d)' /\ d \notin permit'
    BY <1>1, <1>3, <2>1 DEF SlotInv
  <2>4. \A d \in permit' : Holds(d)'
    BY <1>1, <2>1, <2>2 DEF SlotInv
  <2> QED BY <2>1, <2>3, <2>4 DEF SlotInv, SubagentsTypeOK
<1>5. CASE ~ SlotFree
  <2>1. permit' = permit /\ line' = Append(line, c)
    BY <1>5 DEF acquire
  <2>2. /\ line' \in Seq(Children) /\ Len(line') = Len(line) + 1 /\ line'[Len(line) + 1] = c
        /\ \A i \in 1..Len(line) : line'[i] = line[i]
    BY <1>2, <2>1, AppendProperties
  <2>3. \A i \in 1..Len(line) : line[i] # c /\ line[i] \in Waiting(line)
    BY DEF acquire, Waiting
  <2>4. \A i, j \in 1..Len(line') : line'[i] = line'[j] => i = j
    BY <1>2, <2>2, <2>3 DEF SlotInv
  <2>5. \A d \in Waiting(line') : d \in Waiting(line) \/ d = c
    BY <1>2, <2>2 DEF Waiting
  <2>6. \A d \in Waiting(line') : Waits(d)' /\ d \notin permit'
    BY <1>1, <1>3, <2>1, <2>5 DEF SlotInv
  <2>7. \A d \in permit' : Holds(d)'
    BY <1>1, <2>1 DEF SlotInv
  <2> QED BY <2>1, <2>2, <2>4, <2>6, <2>7 DEF SlotInv, SubagentsTypeOK
<1> QED BY <1>4, <1>5

-----------------------------------------------------------------------------
(* A step of one child leaves the others as they were. *)

Mine(c) == RowInv(c) /\ RecordInv(c) /\ LogInv(c) /\ EndInv(c)

LEMMA Framed ==
    ASSUME IInv, NEW c \in Children, Up, Apart(c),
           phase' = phase, ending' = ending, sink' \in {sink, "closed"},
           SubagentsTypeOK', SlotInv', Mine(c)'
    PROVE  IInv'
<1>1. \A d \in Children : RowInv(d) /\ RecordInv(d) /\ LogInv(d) /\ EndInv(d)
  BY DEF IInv
<1>2. ASSUME NEW d \in Children, d # c PROVE Mine(d)'
  <2>1. /\ child'[d] = child[d] /\ meta'[d] = meta[d] /\ log'[d] = log[d]
        /\ d \in queue' <=> d \in queue
        /\ d \in unproven' <=> d \in unproven
        /\ d \in actor' <=> d \in actor
    BY <1>2 DEF Apart
  <2>2. RowInv(d)'
    BY <1>1, <2>1 DEF RowInv, Listed
  <2>3. RecordInv(d)'
    BY <1>1, <2>1 DEF RecordInv, Listed, Up
  <2>4. LogInv(d)'
    BY <1>1, <2>1 DEF LogInv, Unborn, Live, Over, Open, Up
  <2>5. EndInv(d)'
    BY <1>1, <2>1 DEF EndInv
  <2> QED BY <2>2, <2>3, <2>4, <2>5 DEF Mine
<1>3. \A d \in Children : DownInv(d)'
  BY DEF DownInv, Up
<1> QED BY <1>2, <1>3 DEF IInv, Mine

-----------------------------------------------------------------------------
(* The startup owner. *)

USE DEF slotVars, callVars, diskVars, runVars, Up, Listed

\* The row of one child after a step of that child.
Became(c, o, p, t, b, r, x) ==
    /\ child' \in [Children -> Row] /\ \A d \in Children \ {c} : child'[d] = child[d]
    /\ child'[c].owner = o /\ child'[c].pub = p /\ child'[c].turn = t
    /\ child'[c].table = b /\ child'[c].result = r /\ child'[c].close = x

\* A startup that leaves nothing behind.
LEMMA Settled ==
    ASSUME IInv, NEW c \in Children, Up, NEW n \in {"idle", "fail_spawn", "leave"},
           settled(c, n), n # "idle" => c \in queue,
           child[c].owner \in {"create", "undo_bare", "undo_record", "undo_remove"},
           meta' \in [Children -> {"none", "pending", "active", "closed"}],
           meta'[c] \in {"none", "closed"}, \A d \in Children \ {c} : meta'[d] = meta[d],
           actor' \in SUBSET Children, c \in actor' => c \in unproven,
           \A d \in Children \ {c} : d \in actor' <=> d \in actor,
           n = "fail_spawn" => log[c] = << >>, sink = "open" /\ n # "fail_spawn" => ~ Open(c),
           UNCHANGED <<log, sink, runVars>>
    PROVE  IInv'
<1>1. SubagentsTypeOK /\ SlotInv /\ Mine(c)
  BY DEF IInv, Mine
<1>2. child[c] \in Row /\ child \in [Children -> Row]
  BY <1>1 DEF SubagentsTypeOK
<1>3. /\ Became(c, n, "unattempted", child[c].turn, child[c].table, child[c].result, child[c].close)
      /\ release(c) /\ UNCHANGED <<queue, unproven>>
  BY <1>2 DEF settled, Became, Row, Owner, Startup
<1>4. child[c].table = "none" /\ child[c].turn = "none"
  BY <1>1, <1>2 DEF Mine, RowInv, Row, Table
<1>5. Apart(c)
  BY <1>3 DEF Apart, Became
<1>6. SlotInv' /\ permit' \subseteq Children /\ line' \in Seq(Children)
  BY <1>1, <1>3, <1>5, SlotReleased
<1>7. SubagentsTypeOK'
  BY <1>1, <1>3, <1>6 DEF SubagentsTypeOK, Became
<1>8. RowInv(c)'
  BY <1>1, <1>3, <1>4 DEF Mine, RowInv, Became
<1>9. RecordInv(c)'
  BY <1>1, <1>3, <1>4 DEF Mine, RecordInv, Became
<1>10. LogInv(c)'
  BY <1>1, <1>3, <1>4 DEF Mine, LogInv, Unborn, Live, Over, Open, Became
<1>11. EndInv(c)'
  BY <1>1, <1>3, <1>4 DEF Mine, EndInv, Startup, Became
<1> QED BY <1>5, <1>6, <1>7, <1>8, <1>9, <1>10, <1>11, Framed DEF Mine

\* A startup that keeps its slot because it could not prove its cleanup.
LEMMA LeftUnproven ==
    ASSUME IInv, NEW c \in Children, Up, NEW n \in {"idle", "fail_spawn", "leave"},
           left_unproven(c, n), n # "idle" => c \in queue,
           child[c].owner \in Startup \ {"reply", "unclaimed", "abandon"},
           meta' \in [Children -> {"none", "pending", "active", "closed"}],
           \A d \in Children \ {c} : meta'[d] = meta[d],
           meta'[c] = "active" => log[c] # << >>,
           actor' \in SUBSET Children, \A d \in Children \ {c} : d \in actor' <=> d \in actor,
           log' \in [Children -> Seq(Event)], \A d \in Children \ {c} : log'[d] = log[d],
           Alternates(log'[c]), n = "fail_spawn" => log'[c] = << >>,
           log[c] # << >> => log'[c] # << >>,
           sink' \in {sink, "closed"}, UNCHANGED runVars
    PROVE  IInv'
<1>1. SubagentsTypeOK /\ SlotInv /\ Mine(c)
  BY DEF IInv, Mine
<1>2. child[c] \in Row /\ child \in [Children -> Row]
  BY <1>1 DEF SubagentsTypeOK
<1>3. /\ Became(c, n, "unattempted", child[c].turn, child[c].table, child[c].result, child[c].close)
      /\ unproven' = unproven \cup {c} /\ UNCHANGED <<slotVars, queue>>
  BY <1>2 DEF left_unproven, Became, Row, Owner, Startup
<1>4. child[c].table = "none" /\ child[c].turn = "none" /\ child[c].close = "none"
  BY <1>1, <1>2 DEF Mine, RowInv, Row, Table, Startup
<1>5. Apart(c)
  BY <1>3 DEF Apart, Became
<1>6. SubagentsTypeOK'
  BY <1>1, <1>3 DEF SubagentsTypeOK, Became
<1>7. SlotInv'
  <2>1. Holds(c)' /\ ~ Waits(c)
    BY <1>3, <1>4 DEF Holds, Waits, Startup
  <2> QED BY <1>1, <1>3, <1>5, <2>1, SlotsKept
<1>8. RowInv(c)'
  BY <1>1, <1>3, <1>4 DEF Mine, RowInv, Became, Startup
<1>9. RecordInv(c)'
  BY <1>1, <1>3, <1>4 DEF Mine, RecordInv, Became
<1>10. LogInv(c)'
  BY <1>1, <1>3, <1>4 DEF Mine, LogInv, Unborn, Live, Over, Open, Became
<1>11. EndInv(c)'
  BY <1>1, <1>3, <1>4 DEF Mine, EndInv, Startup, Became
<1> QED BY <1>5, <1>6, <1>7, <1>8, <1>9, <1>10, <1>11, Framed DEF Mine

\* A child that is not under way is spawned, and one that is finishes.
LEMMA Spawns ==
    ASSUME SubagentsTypeOK, NEW c \in Children, LogInv(c), ~ Open(c), Logged(c, "spawned")
    PROVE  /\ log' \in [Children -> Seq(Event)] /\ \A d \in Children \ {c} : log'[d] = log[d]
           /\ Alternates(log'[c]) /\ log'[c] # << >> /\ Open(c)'
<1>1. log[c] \in Seq(Event) /\ Alternates(log[c]) /\ ~ OpenLog(log[c])
  BY DEF SubagentsTypeOK, LogInv, Open, OpenLog
<1>2. /\ log' \in [Children -> Seq(Event)] /\ log'[c] = Append(log[c], "spawned")
      /\ log'[c] # << >> /\ \A d \in Children \ {c} : log'[d] = log[d]
  BY Commits DEF Event
<1>3. Alternates(log'[c]) /\ OpenLog(log'[c])
  BY <1>1, <1>2, LogGrows
<1> QED BY <1>2, <1>3 DEF Open, OpenLog

LEMMA Finishes ==
    ASSUME SubagentsTypeOK, NEW c \in Children, LogInv(c), Open(c), Logged(c, "finished")
    PROVE  /\ log' \in [Children -> Seq(Event)] /\ \A d \in Children \ {c} : log'[d] = log[d]
           /\ Alternates(log'[c]) /\ log'[c] # << >> /\ ~ Open(c)'
<1>1. log[c] \in Seq(Event) /\ Alternates(log[c]) /\ OpenLog(log[c])
  BY DEF SubagentsTypeOK, LogInv, Open, OpenLog
<1>2. /\ log' \in [Children -> Seq(Event)] /\ log'[c] = Append(log[c], "finished")
      /\ log'[c] # << >> /\ \A d \in Children \ {c} : log'[d] = log[d]
  BY Commits DEF Event
<1>3. Alternates(log'[c]) /\ ~ OpenLog(log'[c])
  BY <1>1, <1>2, LogGrows
<1> QED BY <1>2, <1>3 DEF Open, OpenLog

\* What a commit that was tried may leave of the log and the sink.
LEMMA SpawnTried ==
    ASSUME SubagentsTypeOK, NEW c \in Children, LogInv(c), sink = "open" => ~ Open(c)
    PROVE  /\ Committed(c, "spawned") => sink = "open" /\ sink' = "open" /\ Open(c)' /\ log'[c] # << >>
           /\ CommitFailed(c, "spawned") => sink' = "closed"
           /\ Committed(c, "spawned") \/ CommitFailed(c, "spawned") =>
                /\ log' \in [Children -> Seq(Event)] /\ \A d \in Children \ {c} : log'[d] = log[d]
                /\ Alternates(log'[c]) /\ (log[c] # << >> => log'[c] # << >>)
<1>1. "spawned" \in Event /\ Alternates(log[c]) /\ log \in [Children -> Seq(Event)]
  BY DEF Event, LogInv, SubagentsTypeOK
<1>2. CASE Committed(c, "spawned")
  <2>1. sink = "open" /\ sink' = "open" /\ Logged(c, "spawned")
    BY <1>1, <1>2, Commits
  <2> QED BY <1>2, <2>1, Spawns DEF CommitFailed
<1>3. CASE CommitFailed(c, "spawned")
  <2>1. sink' = "closed" /\ (log' = log \/ (Logged(c, "spawned") /\ sink = "open"))
    BY <1>1, <1>3, Commits
  <2>2. ~ Committed(c, "spawned")
    BY <2>1, <1>1, Commits
  <2> QED BY <1>1, <1>3, <2>1, <2>2, Spawns
<1> QED BY <1>2, <1>3

LEMMA FinishTried ==
    ASSUME SubagentsTypeOK, NEW c \in Children, LogInv(c), sink = "open" => Open(c)
    PROVE  /\ Committed(c, "finished") => sink = "open" /\ sink' = "open" /\ ~ Open(c)' /\ log'[c] # << >>
           /\ CommitFailed(c, "finished") => sink' = "closed"
           /\ Committed(c, "finished") \/ CommitFailed(c, "finished") =>
                /\ log' \in [Children -> Seq(Event)] /\ \A d \in Children \ {c} : log'[d] = log[d]
                /\ Alternates(log'[c]) /\ (log[c] # << >> => log'[c] # << >>)
<1>1. "finished" \in Event /\ Alternates(log[c]) /\ log \in [Children -> Seq(Event)]
  BY DEF Event, LogInv, SubagentsTypeOK
<1>2. CASE Committed(c, "finished")
  <2>1. sink = "open" /\ sink' = "open" /\ Logged(c, "finished")
    BY <1>1, <1>2, Commits
  <2> QED BY <1>2, <2>1, Finishes DEF CommitFailed
<1>3. CASE CommitFailed(c, "finished")
  <2>1. sink' = "closed" /\ (log' = log \/ (Logged(c, "finished") /\ sink = "open"))
    BY <1>1, <1>3, Commits
  <2>2. ~ Committed(c, "finished")
    BY <2>1, <1>1, Commits
  <2> QED BY <1>1, <1>3, <2>1, <2>2, Finishes
<1> QED BY <1>2, <1>3

LEMMA SavePendingInv == ASSUME IInv, NEW c \in Children, save_pending(c) PROVE IInv'
<1>1. /\ SubagentsTypeOK /\ SlotInv /\ Mine(c) /\ Up
      /\ child[c] \in Row /\ child \in [Children -> Row]
      /\ child[c].owner = "pending"
      /\ UNCHANGED <<slotVars, callVars, cancelled, actor, log, tree, sink, runVars>>
  BY DEF IInv, Mine, SubagentsTypeOK, save_pending
<1>2. CASE Saved(c, "pending") /\ child' = [child EXCEPT ![c].owner = "spawn"]
  <2>1. Became(c, "spawn", child[c].pub, child[c].turn, child[c].table, child[c].result, child[c].close)
    BY <1>1, <1>2 DEF Became, Row, Owner, Startup
  <2>2. /\ meta' \in [Children -> {"none", "pending", "active", "closed"}] /\ meta'[c] \in {"none", "pending"}
        /\ \A d \in Children \ {c} : meta'[d] = meta[d]
    BY <1>1, <1>2, Saves
  <2>3. Apart(c)
    BY <1>1, <1>2, <2>1, <2>2 DEF Apart, Became
  <2>4. SlotInv'
    BY <1>1, <1>2, <2>1, <2>2, <2>3, SlotsKept DEF Holds, Waits, Startup, Became, Mine, RowInv
  <2>5. SubagentsTypeOK'
    BY <1>1, <1>2, <2>1, <2>2 DEF SubagentsTypeOK, Became
  <2>6. RowInv(c)'
    BY <1>1, <1>2, <2>1, <2>2 DEF Mine, RowInv, Became
  <2>7. RecordInv(c)'
    BY <1>1, <1>2, <2>1, <2>2 DEF Mine, RowInv, RecordInv, Became
  <2>8. LogInv(c)'
    BY <1>1, <1>2, <2>1, <2>2 DEF Mine, RowInv, LogInv, Unborn, Live, Over, Open, Became
  <2>9. EndInv(c)'
    BY <1>1, <1>2, <2>1, <2>2 DEF Mine, RowInv, EndInv, Startup, Became
  <2> QED BY <1>1, <1>2, <2>1, <2>2, <2>3, <2>4, <2>5, <2>6, <2>7, <2>8, <2>9, Framed DEF Mine
<1>3. CASE SaveFailed(c, "pending") /\ child' = [child EXCEPT ![c].owner = "undo_session"]
  <2>1. Became(c, "undo_session", child[c].pub, child[c].turn, child[c].table, child[c].result, child[c].close)
    BY <1>1, <1>3 DEF Became, Row, Owner, Startup
  <2>2. /\ meta' \in [Children -> {"none", "pending", "active", "closed"}] /\ meta'[c] \in {"none", "pending"}
        /\ \A d \in Children \ {c} : meta'[d] = meta[d]
    BY <1>1, <1>3, Saves DEF Mine, RecordInv
  <2>3. Apart(c)
    BY <1>1, <1>3, <2>1, <2>2 DEF Apart, Became
  <2>4. SlotInv'
    BY <1>1, <1>3, <2>1, <2>2, <2>3, SlotsKept DEF Holds, Waits, Startup, Became, Mine, RowInv
  <2>5. SubagentsTypeOK'
    BY <1>1, <1>3, <2>1, <2>2 DEF SubagentsTypeOK, Became
  <2>6. RowInv(c)'
    BY <1>1, <1>3, <2>1, <2>2 DEF Mine, RowInv, Became
  <2>7. RecordInv(c)'
    BY <1>1, <1>3, <2>1, <2>2 DEF Mine, RowInv, RecordInv, Became
  <2>8. LogInv(c)'
    BY <1>1, <1>3, <2>1, <2>2 DEF Mine, RowInv, LogInv, Unborn, Live, Over, Open, Became
  <2>9. EndInv(c)'
    BY <1>1, <1>3, <2>1, <2>2 DEF Mine, RowInv, EndInv, Startup, Became
  <2> QED BY <1>1, <1>3, <2>1, <2>2, <2>3, <2>4, <2>5, <2>6, <2>7, <2>8, <2>9, Framed DEF Mine
<1> QED BY <1>2, <1>3 DEF save_pending

\* A dropped call and a cancellation only leave word.
LEMMA CallInv == ASSUME IInv, NEW c \in Children, drop_caller(c) \/ cancel(c) PROVE IInv'
<1>1. UNCHANGED <<child, slotVars, queue, unproven, actor, diskVars, sink, runVars>>
  BY DEF drop_caller, cancel
<1>2. \A d \in Children : RowInv(d) /\ RecordInv(d) /\ LogInv(d) /\ EndInv(d) /\ DownInv(d)
  BY DEF IInv
<1>3. SubagentsTypeOK' /\ SlotInv'
  BY <1>1 DEF IInv, SubagentsTypeOK, SlotInv, Holds, Waits, Waiting
<1>4. \A d \in Children : (RowInv(d) /\ RecordInv(d))'
  BY <1>1, <1>2 DEF RowInv, RecordInv
<1>5. \A d \in Children : (LogInv(d) /\ EndInv(d) /\ DownInv(d))'
  BY <1>1, <1>2 DEF LogInv, EndInv, DownInv, Unborn, Live, Over, Open
<1> QED BY <1>3, <1>4, <1>5 DEF IInv

LEMMA SubmitInv == ASSUME IInv, NEW c \in Children, submit(c) PROVE IInv'
<1>1. /\ SubagentsTypeOK /\ SlotInv /\ Mine(c) /\ Up
      /\ child[c] \in Row /\ child \in [Children -> Row]
      /\ child[c] = Absent /\ meta[c] = "none" /\ log[c] = << >>
      /\ c \notin actor /\ c \notin unproven /\ ending.stage = "no"
      /\ UNCHANGED <<line, unproven, actor, diskVars, sink, runVars, faults>>
  BY DEF IInv, Mine, SubagentsTypeOK, submit, Traceless, Serving
<1>2. CASE /\ permit' = permit \cup {c} /\ UNCHANGED queue
           /\ child' = [child EXCEPT ![c].owner = "create"]
  <2>1. Became(c, "create", "unattempted", "none", "none", "ok", "none")
    BY <1>1, <1>2 DEF Became, Row, Owner, Startup, Absent
  <2>2. Apart(c)
    BY <1>1, <1>2, <2>1 DEF Apart, Became
  <2>3. SlotInv' /\ permit' \subseteq Children /\ line' \in Seq(Children)
    BY <1>1, <1>2, <2>1, <2>2, SlotTaken DEF Holds, Waits, Startup, Became, Mine, RowInv, Absent
  <2>4. SubagentsTypeOK'
    BY <1>1, <1>2, <2>1, <2>3 DEF SubagentsTypeOK, Became
  <2>5. RowInv(c)'
    BY <1>1, <1>2, <2>1 DEF Mine, RowInv, Became
  <2>6. RecordInv(c)'
    BY <1>1, <1>2, <2>1 DEF Mine, RowInv, RecordInv, Became
  <2>7. LogInv(c)'
    BY <1>1, <1>2, <2>1 DEF Mine, RowInv, LogInv, Unborn, Live, Over, Open, Became
  <2>8. EndInv(c)'
    BY <1>1, <1>2, <2>1 DEF Mine, RowInv, EndInv, Startup, Became
  <2> QED BY <1>1, <1>2, <2>1, <2>2, <2>3, <2>4, <2>5, <2>6, <2>7, <2>8, Framed DEF Mine
<1>3. CASE /\ queue' = queue \cup {c} /\ UNCHANGED permit
           /\ child' = [child EXCEPT ![c].owner = "queued"]
  <2>1. Became(c, "queued", "unattempted", "none", "none", "ok", "none")
    BY <1>1, <1>3 DEF Became, Row, Owner, Startup, Absent
  <2>2. Apart(c)
    BY <1>1, <1>3, <2>1 DEF Apart, Became
  <2>3. SlotInv' /\ permit' \subseteq Children /\ line' \in Seq(Children)
    BY <1>1, <1>3, <2>1, <2>2, SlotTaken DEF Holds, Waits, Startup, Became, Mine, RowInv, Absent
  <2>4. SubagentsTypeOK'
    BY <1>1, <1>3, <2>1, <2>3 DEF SubagentsTypeOK, Became
  <2>5. RowInv(c)'
    BY <1>1, <1>3, <2>1 DEF Mine, RowInv, Became
  <2>6. RecordInv(c)'
    BY <1>1, <1>3, <2>1 DEF Mine, RowInv, RecordInv, Became
  <2>7. LogInv(c)'
    BY <1>1, <1>3, <2>1 DEF Mine, RowInv, LogInv, Unborn, Live, Over, Open, Became
  <2>8. EndInv(c)'
    BY <1>1, <1>3, <2>1 DEF Mine, RowInv, EndInv, Startup, Became
  <2> QED BY <1>1, <1>3, <2>1, <2>2, <2>3, <2>4, <2>5, <2>6, <2>7, <2>8, Framed DEF Mine
<1> QED BY <1>2, <1>3 DEF submit

LEMMA AcquireSlotsInv == ASSUME IInv, NEW c \in Children, acquire_slots(c) PROVE IInv'
<1>1. /\ SubagentsTypeOK /\ SlotInv /\ Mine(c) /\ Up
      /\ child[c] \in Row /\ child \in [Children -> Row]
      /\ child[c].owner = "queued"
      /\ UNCHANGED <<cancelled, actor, diskVars, sink, runVars, faults>>
  BY DEF IInv, Mine, SubagentsTypeOK, acquire_slots
<1>2. CASE acquire(c) /\ UNCHANGED <<child, callVars>>
  <2>1. Became(c, child[c].owner, child[c].pub, child[c].turn, child[c].table, child[c].result, child[c].close)
    BY <1>1, <1>2 DEF Became, Row, Owner, Startup
  <2>2. Apart(c)
    BY <1>1, <1>2, <2>1 DEF Apart, Became
  <2>3. SlotInv' /\ permit' \subseteq Children /\ line' \in Seq(Children)
    BY <1>1, <1>2, <2>1, <2>2, SlotAwaited DEF Holds, Waits, Startup, Became, Mine, RowInv
  <2>4. SubagentsTypeOK'
    BY <1>1, <1>2, <2>1, <2>3 DEF SubagentsTypeOK, Became
  <2>5. RowInv(c)'
    BY <1>1, <1>2, <2>1 DEF Mine, RowInv, Became
  <2>6. RecordInv(c)'
    BY <1>1, <1>2, <2>1 DEF Mine, RowInv, RecordInv, Became
  <2>7. LogInv(c)'
    BY <1>1, <1>2, <2>1 DEF Mine, RowInv, LogInv, Unborn, Live, Over, Open, Became
  <2>8. EndInv(c)'
    BY <1>1, <1>2, <2>1 DEF Mine, RowInv, EndInv, Startup, Became
  <2> QED BY <1>1, <1>2, <2>1, <2>2, <2>3, <2>4, <2>5, <2>6, <2>7, <2>8, Framed DEF Mine
<1>3. CASE /\ c \in permit /\ child' = [child EXCEPT ![c].owner = "create"]
           /\ UNCHANGED <<slotVars, queue, unproven>>
  <2>1. Became(c, "create", child[c].pub, child[c].turn, child[c].table, child[c].result, child[c].close)
    BY <1>1, <1>3 DEF Became, Row, Owner, Startup
  <2>2. Apart(c)
    BY <1>1, <1>3, <2>1 DEF Apart, Became
  <2>3. SlotInv'
    BY <1>1, <1>3, <2>1, <2>2, SlotsKept DEF Holds, Waits, Startup, Became, Mine, RowInv
  <2>4. SubagentsTypeOK'
    BY <1>1, <1>3, <2>1 DEF SubagentsTypeOK, Became
  <2>5. RowInv(c)'
    BY <1>1, <1>3, <2>1 DEF Mine, RowInv, Became
  <2>6. RecordInv(c)'
    BY <1>1, <1>3, <2>1 DEF Mine, RowInv, RecordInv, Became
  <2>7. LogInv(c)'
    BY <1>1, <1>3, <2>1 DEF Mine, RowInv, LogInv, Unborn, Live, Over, Open, Became
  <2>8. EndInv(c)'
    BY <1>1, <1>3, <2>1 DEF Mine, RowInv, EndInv, Startup, Became
  <2> QED BY <1>1, <1>3, <2>1, <2>2, <2>3, <2>4, <2>5, <2>6, <2>7, <2>8, Framed DEF Mine
<1>4. CASE /\ release(c) /\ UNCHANGED callVars
           /\ child' = [child EXCEPT ![c].owner = "leave"]
  <2>1. Became(c, "leave", child[c].pub, child[c].turn, child[c].table, child[c].result, child[c].close)
    BY <1>1, <1>4 DEF Became, Row, Owner, Startup
  <2>2. Apart(c)
    BY <1>1, <1>4, <2>1 DEF Apart, Became
  <2>3. SlotInv' /\ permit' \subseteq Children /\ line' \in Seq(Children)
    BY <1>1, <1>4, <2>1, <2>2, SlotReleased DEF Holds, Waits, Startup, Became, Mine, RowInv
  <2>4. SubagentsTypeOK'
    BY <1>1, <1>4, <2>1, <2>3 DEF SubagentsTypeOK, Became
  <2>5. RowInv(c)'
    BY <1>1, <1>4, <2>1 DEF Mine, RowInv, Became
  <2>6. RecordInv(c)'
    BY <1>1, <1>4, <2>1 DEF Mine, RowInv, RecordInv, Became
  <2>7. LogInv(c)'
    BY <1>1, <1>4, <2>1 DEF Mine, RowInv, LogInv, Unborn, Live, Over, Open, Became
  <2>8. EndInv(c)'
    BY <1>1, <1>4, <2>1 DEF Mine, RowInv, EndInv, Startup, Became
  <2> QED BY <1>1, <1>4, <2>1, <2>2, <2>3, <2>4, <2>5, <2>6, <2>7, <2>8, Framed DEF Mine
<1> QED BY <1>2, <1>3, <1>4 DEF acquire_slots

\* Whoever leaves a startup: a queued child's entry outlives its owner.
LEMMA Afterwards ==
    ASSUME NEW c, NEW u \in BOOLEAN
    PROVE  /\ After(c, u) \in {"idle", "fail_spawn", "leave"}
           /\ After(c, u) # "idle" => c \in queue
           /\ After(c, u) = "fail_spawn" => u
BY DEF After

LEMMA CreateInv == ASSUME IInv, NEW c \in Children, create(c) PROVE IInv'
<1>1. /\ SubagentsTypeOK /\ SlotInv /\ Mine(c) /\ Up
      /\ child[c] \in Row /\ child \in [Children -> Row] /\ child[c].owner = "create"
      /\ UNCHANGED <<cancelled, meta, log, sink, runVars>>
  BY DEF IInv, Mine, SubagentsTypeOK, create
<1>2. /\ log[c] = << >> /\ meta[c] = "none" /\ ~ Open(c) /\ Alternates(log[c])
      /\ c \in actor => c \in unproven
  BY <1>1 DEF Mine, LogInv, Unborn, RecordInv, RowInv, Open
<1>3. CASE /\ actor' = actor \cup {c} /\ UNCHANGED <<slotVars, callVars, faults>>
           /\ child' = [child EXCEPT ![c].owner = IF c \in cancelled THEN "undo_bare" ELSE "pending"]
  <2>1. Became(c, IF c \in cancelled THEN "undo_bare" ELSE "pending", child[c].pub, child[c].turn, child[c].table, child[c].result, child[c].close)
    BY <1>1, <1>2, <1>3 DEF Became, Row, Owner, Startup
  <2>2. Apart(c)
    BY <1>1, <1>2, <1>3, <2>1 DEF Apart, Became
  <2>3. SlotInv'
    BY <1>1, <1>2, <1>3, <2>1, <2>2, SlotsKept DEF Holds, Waits, Startup, Became, Mine, RowInv
  <2>4. SubagentsTypeOK'
    BY <1>1, <1>2, <1>3, <2>1 DEF SubagentsTypeOK, Became
  <2>5. RowInv(c)'
    BY <1>1, <1>2, <1>3, <2>1 DEF Mine, RowInv, Became
  <2>6. RecordInv(c)'
    BY <1>1, <1>2, <1>3, <2>1 DEF Mine, RowInv, RecordInv, Became
  <2>7. LogInv(c)'
    BY <1>1, <1>2, <1>3, <2>1 DEF Mine, RowInv, LogInv, Unborn, Live, Over, Open, Became
  <2>8. EndInv(c)'
    BY <1>1, <1>2, <1>3, <2>1 DEF Mine, RowInv, EndInv, Startup, Became
  <2> QED BY <1>1, <1>2, <1>3, <2>1, <2>2, <2>3, <2>4, <2>5, <2>6, <2>7, <2>8, Framed DEF Mine
<1>4. CASE settled(c, After(c, TRUE)) /\ UNCHANGED <<actor, tree>>
  <2>1. /\ meta' \in [Children -> {"none", "pending", "active", "closed"}] /\ meta'[c] = "none"
        /\ \A d \in Children \ {c} : meta'[d] = meta[d]
        /\ actor' \in SUBSET Children /\ \A d \in Children \ {c} : d \in actor' <=> d \in actor
    BY <1>1, <1>2, <1>4 DEF SubagentsTypeOK
  <2> QED BY <1>1, <1>2, <1>4, <2>1, Settled, Afterwards
<1>5. CASE left_unproven(c, After(c, TRUE)) /\ actor' \in {actor, actor \cup {c}}
  <2>1. /\ meta' \in [Children -> {"none", "pending", "active", "closed"}]
        /\ meta'[c] = "none" /\ \A d \in Children \ {c} : meta'[d] = meta[d]
        /\ actor' \in SUBSET Children /\ \A d \in Children \ {c} : d \in actor' <=> d \in actor
        /\ log' \in [Children -> Seq(Event)] /\ \A d \in Children \ {c} : log'[d] = log[d]
        /\ child[c].owner \in Startup \ {"reply", "unclaimed", "abandon"}
        /\ Alternates(log'[c]) /\ log'[c] = << >> /\ sink' \in {sink, "closed"}
    BY <1>1, <1>2, <1>5 DEF SubagentsTypeOK, Startup
  <2> QED BY <1>1, <1>2, <1>5, <2>1, LeftUnproven, Afterwards
<1> QED BY <1>3, <1>4, <1>5 DEF create

LEMMA SpawnedInv == ASSUME IInv, NEW c \in Children, spawned(c) PROVE IInv'
<1>1. /\ SubagentsTypeOK /\ SlotInv /\ Mine(c) /\ Up
      /\ child[c] \in Row /\ child \in [Children -> Row]
      /\ child[c].owner = "spawn"
      /\ UNCHANGED <<slotVars, callVars, cancelled, actor, meta, tree, runVars>>
  BY DEF IInv, Mine, SubagentsTypeOK, spawned
<1>2. CASE /\ Committed(c, "spawned")
           /\ child' = [child EXCEPT ![c].owner = "activate", ![c].pub = "acknowledged"]
  <2>1. Became(c, "activate", "acknowledged", child[c].turn, child[c].table, child[c].result, child[c].close)
    BY <1>1, <1>2 DEF Became, Row, Owner, Startup
  <2>2. LogInv(c) /\ (sink = "open" => ~ Open(c))
    BY <1>1 DEF Mine, LogInv, Unborn, Open
  <2>3. /\ log' \in [Children -> Seq(Event)] /\ \A d \in Children \ {c} : log'[d] = log[d]
        /\ Alternates(log'[c]) /\ (log[c] # << >> => log'[c] # << >>)
        /\ sink' = sink /\ Open(c)' /\ log'[c] # << >>
    BY <1>1, <1>2, <2>2, SpawnTried
  <2>4. Apart(c)
    BY <1>1, <1>2, <2>1, <2>2, <2>3 DEF Apart, Became
  <2>5. SlotInv'
    BY <1>1, <1>2, <2>1, <2>2, <2>3, <2>4, SlotsKept DEF Holds, Waits, Startup, Became, Mine, RowInv
  <2>6. SubagentsTypeOK'
    BY <1>1, <1>2, <2>1, <2>2, <2>3 DEF SubagentsTypeOK, Became
  <2>7. RowInv(c)'
    BY <1>1, <1>2, <2>1, <2>2, <2>3 DEF Mine, RowInv, Became
  <2>8. RecordInv(c)'
    BY <1>1, <1>2, <2>1, <2>2, <2>3 DEF Mine, RowInv, RecordInv, Became
  <2>9. LogInv(c)'
    BY <1>1, <1>2, <2>1, <2>2, <2>3 DEF Mine, RowInv, LogInv, Unborn, Live, Over, Open, Became
  <2>10. EndInv(c)'
    BY <1>1, <1>2, <2>1, <2>2, <2>3 DEF Mine, RowInv, EndInv, Startup, Became
  <2> QED BY <1>1, <1>2, <2>1, <2>2, <2>3, <2>4, <2>5, <2>6, <2>7, <2>8, <2>9, <2>10, Framed DEF Mine
<1>3. CASE /\ CommitFailed(c, "spawned")
           /\ child' = [child EXCEPT ![c].owner = "undo_session", ![c].pub = "uncertain"]
  <2>1. Became(c, "undo_session", "uncertain", child[c].turn, child[c].table, child[c].result, child[c].close)
    BY <1>1, <1>3 DEF Became, Row, Owner, Startup
  <2>2. LogInv(c) /\ (sink = "open" => ~ Open(c))
    BY <1>1 DEF Mine, LogInv, Unborn, Open
  <2>3. /\ log' \in [Children -> Seq(Event)] /\ \A d \in Children \ {c} : log'[d] = log[d]
        /\ Alternates(log'[c]) /\ (log[c] # << >> => log'[c] # << >>)
        /\ sink' = "closed"
    BY <1>1, <1>3, <2>2, SpawnTried
  <2>4. Apart(c)
    BY <1>1, <1>3, <2>1, <2>2, <2>3 DEF Apart, Became
  <2>5. SlotInv'
    BY <1>1, <1>3, <2>1, <2>2, <2>3, <2>4, SlotsKept DEF Holds, Waits, Startup, Became, Mine, RowInv
  <2>6. SubagentsTypeOK'
    BY <1>1, <1>3, <2>1, <2>2, <2>3 DEF SubagentsTypeOK, Became
  <2>7. RowInv(c)'
    BY <1>1, <1>3, <2>1, <2>2, <2>3 DEF Mine, RowInv, Became
  <2>8. RecordInv(c)'
    BY <1>1, <1>3, <2>1, <2>2, <2>3 DEF Mine, RowInv, RecordInv, Became
  <2>9. LogInv(c)'
    BY <1>1, <1>3, <2>1, <2>2, <2>3 DEF Mine, RowInv, LogInv, Unborn, Live, Over, Open, Became
  <2>10. EndInv(c)'
    BY <1>1, <1>3, <2>1, <2>2, <2>3 DEF Mine, RowInv, EndInv, Startup, Became
  <2> QED BY <1>1, <1>3, <2>1, <2>2, <2>3, <2>4, <2>5, <2>6, <2>7, <2>8, <2>9, <2>10, Framed DEF Mine
<1> QED BY <1>2, <1>3 DEF spawned

LEMMA SaveActiveInv == ASSUME IInv, NEW c \in Children, save_active(c) PROVE IInv'
<1>1. /\ SubagentsTypeOK /\ SlotInv /\ Mine(c) /\ Up
      /\ child[c] \in Row /\ child \in [Children -> Row]
      /\ child[c].owner = "activate"
      /\ UNCHANGED <<slotVars, callVars, cancelled, actor, log, tree, sink, runVars>>
  BY DEF IInv, Mine, SubagentsTypeOK, save_active
<1>2. CASE /\ Saved(c, "active")
           /\ child' = [child EXCEPT ![c].owner = "reply", ![c].pub = "unattempted",
                         ![c].table = "active", ![c].turn = "running", ![c].result = "pending"]
  <2>1. Became(c, "reply", "unattempted", "running", "active", "pending", child[c].close)
    BY <1>1, <1>2, ZenonT(60) DEF Became, Row, Owner, Startup, Turn, Table
  <2>2. /\ meta' \in [Children -> {"none", "pending", "active", "closed"}] /\ meta'[c] = "active"
        /\ \A d \in Children \ {c} : meta'[d] = meta[d]
    BY <1>1, <1>2, Saves
  <2>3. Apart(c)
    BY <1>1, <1>2, <2>1, <2>2 DEF Apart, Became
  <2>4. SlotInv'
    BY <1>1, <1>2, <2>1, <2>2, <2>3, SlotsKept DEF Holds, Waits, Startup, Became, Mine, RowInv
  <2>5. SubagentsTypeOK'
    BY <1>1, <1>2, <2>1, <2>2 DEF SubagentsTypeOK, Became
  <2>6. RowInv(c)'
    BY <1>1, <1>2, <2>1, <2>2 DEF Mine, RowInv, Became
  <2>7. RecordInv(c)'
    BY <1>1, <1>2, <2>1, <2>2 DEF Mine, RowInv, RecordInv, Became
  <2>8. LogInv(c)'
    BY <1>1, <1>2, <2>1, <2>2 DEF Mine, RowInv, LogInv, Unborn, Live, Over, Open, Became
  <2>9. EndInv(c)'
    BY <1>1, <1>2, <2>1, <2>2 DEF Mine, RowInv, EndInv, Startup, Became
  <2> QED BY <1>1, <1>2, <2>1, <2>2, <2>3, <2>4, <2>5, <2>6, <2>7, <2>8, <2>9, Framed DEF Mine
<1>3. CASE SaveFailed(c, "active") /\ child' = [child EXCEPT ![c].owner = "undo_session"]
  <2>1. Became(c, "undo_session", child[c].pub, child[c].turn, child[c].table, child[c].result, child[c].close)
    BY <1>1, <1>3 DEF Became, Row, Owner, Startup
  <2>2. /\ meta' \in [Children -> {"none", "pending", "active", "closed"}] /\ meta'[c] \in {"active", meta[c]}
        /\ \A d \in Children \ {c} : meta'[d] = meta[d]
    BY <1>1, <1>3, Saves
  <2>3. Apart(c)
    BY <1>1, <1>3, <2>1, <2>2 DEF Apart, Became
  <2>4. SlotInv'
    BY <1>1, <1>3, <2>1, <2>2, <2>3, SlotsKept DEF Holds, Waits, Startup, Became, Mine, RowInv
  <2>5. SubagentsTypeOK'
    BY <1>1, <1>3, <2>1, <2>2 DEF SubagentsTypeOK, Became
  <2>6. RowInv(c)'
    BY <1>1, <1>3, <2>1, <2>2 DEF Mine, RowInv, Became
  <2>7. RecordInv(c)'
    BY <1>1, <1>3, <2>1, <2>2 DEF Mine, RowInv, RecordInv, Became
  <2>8. LogInv(c)'
    BY <1>1, <1>3, <2>1, <2>2 DEF Mine, RowInv, LogInv, Unborn, Live, Over, Open, Became
  <2>9. EndInv(c)'
    BY <1>1, <1>3, <2>1, <2>2 DEF Mine, RowInv, EndInv, Startup, Became
  <2> QED BY <1>1, <1>3, <2>1, <2>2, <2>3, <2>4, <2>5, <2>6, <2>7, <2>8, <2>9, Framed DEF Mine
<1> QED BY <1>2, <1>3 DEF save_active

LEMMA ReplyInv == ASSUME IInv, NEW c \in Children, reply(c) PROVE IInv'
<1>1. /\ SubagentsTypeOK /\ SlotInv /\ Mine(c) /\ Up
      /\ child[c] \in Row /\ child \in [Children -> Row]
      /\ child[c].owner = "reply"
      /\ UNCHANGED <<slotVars, queue, unproven, actor, diskVars, sink, runVars, faults>>
  BY DEF IInv, Mine, SubagentsTypeOK, reply
<1>2. CASE child' = [child EXCEPT ![c].owner = After(c, FALSE)]
  <2>1. Became(c, After(c, FALSE), child[c].pub, child[c].turn, child[c].table, child[c].result, child[c].close)
    BY <1>1, <1>2 DEF Became, Row, Owner, Startup, After
  <2>2. /\ After(c, FALSE) = IF c \in queue THEN "leave" ELSE "idle"
    BY DEF After
  <2>3. Apart(c)
    BY <1>1, <1>2, <2>1, <2>2 DEF Apart, Became
  <2>4. SlotInv'
    BY <1>1, <1>2, <2>1, <2>2, <2>3, SlotsKept DEF Holds, Waits, Startup, Became, Mine, RowInv
  <2>5. SubagentsTypeOK'
    BY <1>1, <1>2, <2>1, <2>2 DEF SubagentsTypeOK, Became
  <2>6. RowInv(c)'
    BY <1>1, <1>2, <2>1, <2>2 DEF Mine, RowInv, Became
  <2>7. RecordInv(c)'
    BY <1>1, <1>2, <2>1, <2>2 DEF Mine, RowInv, RecordInv, Became
  <2>8. LogInv(c)'
    BY <1>1, <1>2, <2>1, <2>2 DEF Mine, RowInv, LogInv, Unborn, Live, Over, Open, Became
  <2>9. EndInv(c)'
    BY <1>1, <1>2, <2>1, <2>2 DEF Mine, RowInv, EndInv, Startup, Became
  <2> QED BY <1>1, <1>2, <2>1, <2>2, <2>3, <2>4, <2>5, <2>6, <2>7, <2>8, <2>9, Framed DEF Mine
<1>3. CASE child' = [child EXCEPT ![c].owner = "unclaimed"]
  <2>1. Became(c, "unclaimed", child[c].pub, child[c].turn, child[c].table, child[c].result, child[c].close)
    BY <1>1, <1>3 DEF Became, Row, Owner, Startup
  <2>2. Apart(c)
    BY <1>1, <1>3, <2>1 DEF Apart, Became
  <2>3. SlotInv'
    BY <1>1, <1>3, <2>1, <2>2, SlotsKept DEF Holds, Waits, Startup, Became, Mine, RowInv
  <2>4. SubagentsTypeOK'
    BY <1>1, <1>3, <2>1 DEF SubagentsTypeOK, Became
  <2>5. RowInv(c)'
    BY <1>1, <1>3, <2>1 DEF Mine, RowInv, Became
  <2>6. RecordInv(c)'
    BY <1>1, <1>3, <2>1 DEF Mine, RowInv, RecordInv, Became
  <2>7. LogInv(c)'
    BY <1>1, <1>3, <2>1 DEF Mine, RowInv, LogInv, Unborn, Live, Over, Open, Became
  <2>8. EndInv(c)'
    BY <1>1, <1>3, <2>1 DEF Mine, RowInv, EndInv, Startup, Became
  <2> QED BY <1>1, <1>3, <2>1, <2>2, <2>3, <2>4, <2>5, <2>6, <2>7, <2>8, Framed DEF Mine
<1> QED BY <1>2, <1>3 DEF reply

LEMMA UnclaimedInv == ASSUME IInv, NEW c \in Children, unclaimed(c) PROVE IInv'
<1>1. /\ SubagentsTypeOK /\ SlotInv /\ Mine(c) /\ Up
      /\ child[c] \in Row /\ child \in [Children -> Row]
      /\ child[c].owner = "unclaimed"
      /\ child[c].result # "pending" /\ child[c].table = "inactive"
      /\ UNCHANGED <<slotVars, callVars, cancelled, actor, diskVars, sink, runVars, faults>>
  BY DEF IInv, Mine, SubagentsTypeOK, unclaimed
<1>2. CASE child' = [child EXCEPT ![c].owner = "abandon", ![c].table = "closing",
                                    ![c].close = "session"]
  <2>1. Became(c, "abandon", child[c].pub, child[c].turn, "closing", child[c].result, "session")
    BY <1>1, <1>2 DEF Became, Row, Owner, Startup, Turn, Table
  <2>2. Apart(c)
    BY <1>1, <1>2, <2>1 DEF Apart, Became
  <2>3. SlotInv'
    BY <1>1, <1>2, <2>1, <2>2, SlotsKept DEF Holds, Waits, Startup, Became, Mine, RowInv
  <2>4. SubagentsTypeOK'
    BY <1>1, <1>2, <2>1 DEF SubagentsTypeOK, Became
  <2>5. RowInv(c)'
    BY <1>1, <1>2, <2>1 DEF Mine, RowInv, Became
  <2>6. RecordInv(c)'
    BY <1>1, <1>2, <2>1 DEF Mine, RowInv, RecordInv, Became
  <2>7. LogInv(c)'
    BY <1>1, <1>2, <2>1 DEF Mine, RowInv, LogInv, Unborn, Live, Over, Open, Became
  <2>8. EndInv(c)'
    BY <1>1, <1>2, <2>1 DEF Mine, RowInv, EndInv, Startup, Became
  <2> QED BY <1>1, <1>2, <2>1, <2>2, <2>3, <2>4, <2>5, <2>6, <2>7, <2>8, Framed DEF Mine
<1> QED BY <1>2 DEF unclaimed

LEMMA UndoSessionInv == ASSUME IInv, NEW c \in Children, undo_session(c) PROVE IInv'
<1>1. /\ SubagentsTypeOK /\ SlotInv /\ Mine(c) /\ Up
      /\ child[c] \in Row /\ child \in [Children -> Row]
      /\ child[c].owner \in {"undo_bare", "undo_session"}
      /\ UNCHANGED <<cancelled, meta, log, sink, runVars>>
  BY DEF IInv, Mine, SubagentsTypeOK, undo_session
<1>2. CASE actor' = actor \ {c} /\ child[c].owner = "undo_bare" /\ settled(c, After(c, TRUE))
  <2>1. log[c] = << >> /\ meta[c] = "none" /\ ~ Open(c)
    BY <1>1, <1>2 DEF Mine, LogInv, Unborn, RecordInv, Open
  <2>2. /\ meta' \in [Children -> {"none", "pending", "active", "closed"}] /\ meta'[c] = "none"
        /\ \A d \in Children \ {c} : meta'[d] = meta[d]
        /\ actor' \in SUBSET Children /\ c \notin actor'
        /\ \A d \in Children \ {c} : d \in actor' <=> d \in actor
    BY <1>1, <1>2, <2>1 DEF SubagentsTypeOK
  <2> QED BY <1>1, <1>2, <2>1, <2>2, Settled, Afterwards
<1>3. CASE /\ actor' = actor \ {c} /\ UNCHANGED <<slotVars, callVars>>
           /\ child[c].owner = "undo_session"
           /\ child' = [child EXCEPT ![c].owner = "undo_record"]
  <2>1. Became(c, "undo_record", child[c].pub, child[c].turn, child[c].table, child[c].result, child[c].close)
    BY <1>1, <1>3 DEF Became, Row, Owner, Startup
  <2>2. Apart(c)
    BY <1>1, <1>3, <2>1 DEF Apart, Became
  <2>3. SlotInv'
    BY <1>1, <1>3, <2>1, <2>2, SlotsKept DEF Holds, Waits, Startup, Became, Mine, RowInv
  <2>4. SubagentsTypeOK'
    BY <1>1, <1>3, <2>1 DEF SubagentsTypeOK, Became
  <2>5. RowInv(c)'
    BY <1>1, <1>3, <2>1 DEF Mine, RowInv, Became
  <2>6. RecordInv(c)'
    BY <1>1, <1>3, <2>1 DEF Mine, RowInv, RecordInv, Became
  <2>7. LogInv(c)'
    BY <1>1, <1>3, <2>1 DEF Mine, RowInv, LogInv, Unborn, Live, Over, Open, Became
  <2>8. EndInv(c)'
    BY <1>1, <1>3, <2>1 DEF Mine, RowInv, EndInv, Startup, Became
  <2> QED BY <1>1, <1>3, <2>1, <2>2, <2>3, <2>4, <2>5, <2>6, <2>7, <2>8, Framed DEF Mine
<1>4. CASE /\ left_unproven(c, After(c, child[c].pub = "unattempted"))
           /\ actor' \in {actor, actor \ {c}}
  <2>1. /\ meta' \in [Children -> {"none", "pending", "active", "closed"}]
        /\ \A d \in Children \ {c} : meta'[d] = meta[d]
        /\ actor' \in SUBSET Children /\ \A d \in Children \ {c} : d \in actor' <=> d \in actor
        /\ log' \in [Children -> Seq(Event)] /\ \A d \in Children \ {c} : log'[d] = log[d]
        /\ child[c].owner \in Startup \ {"reply", "unclaimed", "abandon"}
        /\ log' = log /\ sink' \in {sink, "closed"}
    BY <1>1, <1>4 DEF SubagentsTypeOK, Startup
  <2>2. /\ Alternates(log'[c]) /\ (meta'[c] = "active" => log[c] # << >>)
        /\ child[c].pub = "unattempted" => log'[c] = << >>
    BY <1>1, <2>1 DEF Mine, LogInv, RecordInv, Unborn
  <2>3. /\ After(c, child[c].pub = "unattempted") \in {"idle", "fail_spawn", "leave"}
        /\ After(c, child[c].pub = "unattempted") # "idle" => c \in queue
        /\ After(c, child[c].pub = "unattempted") = "fail_spawn" => log'[c] = << >>
    BY <2>2 DEF After
  <2> QED BY <1>1, <1>4, <2>1, <2>2, <2>3, LeftUnproven
<1> QED BY <1>1, <1>2, <1>3, <1>4 DEF undo_session, SessionClosed, CloseFailed

LEMMA UndoRecordInv == ASSUME IInv, NEW c \in Children, undo_record(c) PROVE IInv'
<1> DEFINE kept == IF child[c].pub = "unattempted" THEN "none" ELSE "closed"
<1>1. /\ SubagentsTypeOK /\ SlotInv /\ Mine(c) /\ Up
      /\ child[c] \in Row /\ child \in [Children -> Row] /\ child[c].owner = "undo_record"
      /\ UNCHANGED <<cancelled, actor, log, tree, sink, runVars>>
  BY DEF IInv, Mine, SubagentsTypeOK, undo_record
<1>2. /\ child[c].pub = "unattempted" => log[c] = << >>
      /\ child[c].pub = "uncertain" => sink = "closed"
      /\ c \in actor => c \in unproven
      /\ Alternates(log[c])
  BY <1>1 DEF Mine, RowInv, LogInv, Unborn, Row, Table
<1>3. CASE /\ Saved(c, kept) /\ child' = [child EXCEPT ![c].owner = "undo_finish"]
           /\ child[c].pub = "acknowledged" /\ UNCHANGED <<slotVars, callVars>>
  <2>1. Became(c, "undo_finish", child[c].pub, child[c].turn, child[c].table, child[c].result, child[c].close)
    BY <1>1, <1>3 DEF Became, Row, Owner, Startup
  <2>2. /\ meta' \in [Children -> {"none", "pending", "active", "closed"}] /\ meta'[c] = "closed"
        /\ \A d \in Children \ {c} : meta'[d] = meta[d]
    BY <1>1, <1>3, Saves
  <2>3. Apart(c)
    BY <1>1, <1>3, <2>1, <2>2 DEF Apart, Became
  <2>4. SlotInv'
    BY <1>1, <1>3, <2>1, <2>2, <2>3, SlotsKept DEF Holds, Waits, Startup, Became, Mine, RowInv
  <2>5. SubagentsTypeOK'
    BY <1>1, <1>3, <2>1, <2>2 DEF SubagentsTypeOK, Became
  <2>6. RowInv(c)'
    BY <1>1, <1>3, <2>1, <2>2 DEF Mine, RowInv, Became
  <2>7. RecordInv(c)'
    BY <1>1, <1>3, <2>1, <2>2 DEF Mine, RowInv, RecordInv, Became
  <2>8. LogInv(c)'
    BY <1>1, <1>3, <2>1, <2>2 DEF Mine, RowInv, LogInv, Unborn, Live, Over, Open, Became
  <2>9. EndInv(c)'
    BY <1>1, <1>3, <2>1, <2>2 DEF Mine, RowInv, EndInv, Startup, Became
  <2> QED BY <1>1, <1>3, <2>1, <2>2, <2>3, <2>4, <2>5, <2>6, <2>7, <2>8, <2>9, Framed DEF Mine
<1>4. CASE /\ Saved(c, kept) /\ child[c].pub # "acknowledged"
           /\ settled(c, After(c, child[c].pub = "unattempted"))
  <2>1. /\ meta' \in [Children -> {"none", "pending", "active", "closed"}] /\ meta'[c] \in {"none", "closed"}
        /\ \A d \in Children \ {c} : meta'[d] = meta[d]
    BY <1>1, <1>4, Saves
  <2>2. /\ actor' \in SUBSET Children /\ \A d \in Children \ {c} : d \in actor' <=> d \in actor
        /\ c \in actor' => c \in unproven
    BY <1>1, <1>2 DEF SubagentsTypeOK
  <2>3. sink = "open" => ~ Open(c)
    BY <1>1, <1>2, <1>4 DEF Open, Row
  <2> QED BY <1>1, <1>2, <1>4, <2>1, <2>2, <2>3, Settled, Afterwards
<1>5. CASE SaveFailed(c, kept) /\ left_unproven(c, After(c, child[c].pub = "unattempted"))
  <2>1. /\ meta' \in [Children -> {"none", "pending", "active", "closed"}]
        /\ \A d \in Children \ {c} : meta'[d] = meta[d]
        /\ meta'[c] \in {"none", "closed", meta[c]}
    BY <1>1, <1>5, Saves
  <2>2. /\ actor' \in SUBSET Children /\ \A d \in Children \ {c} : d \in actor' <=> d \in actor
        /\ log' \in [Children -> Seq(Event)] /\ \A d \in Children \ {c} : log'[d] = log[d]
        /\ child[c].owner \in Startup \ {"reply", "unclaimed", "abandon"}
        /\ log' = log /\ sink' \in {sink, "closed"}
    BY <1>1, <1>5 DEF SubagentsTypeOK, Startup
  <2>3. meta'[c] = "active" => log[c] # << >>
    BY <1>1, <2>1 DEF Mine, RecordInv
  <2>4. /\ After(c, child[c].pub = "unattempted") \in {"idle", "fail_spawn", "leave"}
        /\ After(c, child[c].pub = "unattempted") # "idle" => c \in queue
        /\ After(c, child[c].pub = "unattempted") = "fail_spawn" => log'[c] = << >>
    BY <1>2, <2>2 DEF After
  <2> QED BY <1>1, <1>2, <1>5, <2>1, <2>2, <2>3, <2>4, LeftUnproven
<1> QED BY <1>1, <1>3, <1>4, <1>5 DEF undo_record

LEMMA UndoFinishInv == ASSUME IInv, NEW c \in Children, undo_finish(c) PROVE IInv'
<1>1. /\ SubagentsTypeOK /\ SlotInv /\ Mine(c) /\ Up
      /\ child[c] \in Row /\ child \in [Children -> Row] /\ child[c].owner = "undo_finish"
      /\ UNCHANGED <<cancelled, actor, meta, tree, runVars>>
  BY DEF IInv, Mine, SubagentsTypeOK, undo_finish
<1>2. CASE /\ Committed(c, "finished") /\ UNCHANGED <<slotVars, callVars>>
           /\ child' = [child EXCEPT ![c].owner = "undo_remove"]
  <2>1. Became(c, "undo_remove", child[c].pub, child[c].turn, child[c].table, child[c].result, child[c].close)
    BY <1>1, <1>2 DEF Became, Row, Owner, Startup
  <2>2. LogInv(c) /\ (sink = "open" => Open(c))
    BY <1>1 DEF Mine, LogInv, Live
  <2>3. /\ log' \in [Children -> Seq(Event)] /\ \A d \in Children \ {c} : log'[d] = log[d]
        /\ Alternates(log'[c]) /\ (log[c] # << >> => log'[c] # << >>)
        /\ sink' = sink /\ ~ Open(c)' /\ log'[c] # << >>
    BY <1>1, <1>2, <2>2, FinishTried
  <2>4. Apart(c)
    BY <1>1, <1>2, <2>1, <2>2, <2>3 DEF Apart, Became
  <2>5. SlotInv'
    BY <1>1, <1>2, <2>1, <2>2, <2>3, <2>4, SlotsKept DEF Holds, Waits, Startup, Became, Mine, RowInv
  <2>6. SubagentsTypeOK'
    BY <1>1, <1>2, <2>1, <2>2, <2>3 DEF SubagentsTypeOK, Became
  <2>7. RowInv(c)'
    BY <1>1, <1>2, <2>1, <2>2, <2>3 DEF Mine, RowInv, Became
  <2>8. RecordInv(c)'
    BY <1>1, <1>2, <2>1, <2>2, <2>3 DEF Mine, RowInv, RecordInv, Became
  <2>9. LogInv(c)'
    BY <1>1, <1>2, <2>1, <2>2, <2>3 DEF Mine, RowInv, LogInv, Unborn, Live, Over, Open, Became
  <2>10. EndInv(c)'
    BY <1>1, <1>2, <2>1, <2>2, <2>3 DEF Mine, RowInv, EndInv, Startup, Became
  <2> QED BY <1>1, <1>2, <2>1, <2>2, <2>3, <2>4, <2>5, <2>6, <2>7, <2>8, <2>9, <2>10, Framed DEF Mine
<1>3. CASE CommitFailed(c, "finished") /\ left_unproven(c, After(c, FALSE))
  <2>1. LogInv(c) /\ (sink = "open" => Open(c)) /\ (meta[c] = "active" => log[c] # << >>)
    BY <1>1 DEF Mine, LogInv, RecordInv, Live
  <2>2. /\ log' \in [Children -> Seq(Event)] /\ \A d \in Children \ {c} : log'[d] = log[d]
        /\ Alternates(log'[c]) /\ (log[c] # << >> => log'[c] # << >>) /\ sink' = "closed"
    BY <1>1, <1>3, <2>1, FinishTried
  <2>3. /\ meta' \in [Children -> {"none", "pending", "active", "closed"}]
        /\ \A d \in Children \ {c} : meta'[d] = meta[d]
        /\ actor' \in SUBSET Children /\ \A d \in Children \ {c} : d \in actor' <=> d \in actor
        /\ child[c].owner \in Startup \ {"reply", "unclaimed", "abandon"}
        /\ meta' = meta
    BY <1>1 DEF SubagentsTypeOK, Startup
  <2>4. /\ sink' \in {sink, "closed"} /\ After(c, FALSE) # "fail_spawn"
    BY <2>2 DEF After
  <2> QED BY <1>1, <1>3, <2>1, <2>2, <2>3, <2>4, LeftUnproven, Afterwards
<1> QED BY <1>2, <1>3 DEF undo_finish

LEMMA UndoRemoveInv == ASSUME IInv, NEW c \in Children, undo_remove(c) PROVE IInv'
<1>1. /\ SubagentsTypeOK /\ SlotInv /\ Mine(c) /\ Up
      /\ child[c] \in Row /\ child \in [Children -> Row] /\ child[c].owner = "undo_remove"
      /\ UNCHANGED <<cancelled, actor, log, tree, sink, runVars>>
  BY DEF IInv, Mine, SubagentsTypeOK, undo_remove
<1>2. /\ sink = "open" => ~ Open(c)
      /\ c \in actor => c \in unproven
      /\ Alternates(log[c]) /\ (meta[c] = "active" => log[c] # << >>)
  BY <1>1 DEF Mine, RowInv, LogInv, RecordInv, Over, Row, Table
<1>3. /\ actor' \in SUBSET Children /\ \A d \in Children \ {c} : d \in actor' <=> d \in actor
      /\ c \in actor' => c \in unproven
      /\ log' \in [Children -> Seq(Event)] /\ \A d \in Children \ {c} : log'[d] = log[d]
      /\ child[c].owner \in Startup \ {"reply", "unclaimed", "abandon"}
      /\ log' = log /\ sink' \in {sink, "closed"} /\ After(c, FALSE) # "fail_spawn"
  BY <1>1, <1>2 DEF SubagentsTypeOK, Startup, After
<1>4. CASE Saved(c, "none") /\ settled(c, After(c, FALSE))
  <2>1. /\ meta' \in [Children -> {"none", "pending", "active", "closed"}] /\ meta'[c] = "none"
        /\ \A d \in Children \ {c} : meta'[d] = meta[d]
    BY <1>1, <1>4, Saves
  <2> QED BY <1>1, <1>2, <1>3, <1>4, <2>1, Settled, Afterwards
<1>5. CASE SaveFailed(c, "none") /\ left_unproven(c, After(c, FALSE))
  <2>1. /\ meta' \in [Children -> {"none", "pending", "active", "closed"}]
        /\ \A d \in Children \ {c} : meta'[d] = meta[d]
        /\ meta'[c] \in {"none", meta[c]}
    BY <1>1, <1>5, Saves
  <2> QED BY <1>1, <1>2, <1>3, <1>5, <2>1, LeftUnproven, Afterwards
<1> QED BY <1>4, <1>5 DEF undo_remove

LEMMA PublishStartFailureInv == ASSUME IInv, NEW c \in Children, publish_start_failure(c) PROVE IInv'
<1>1. /\ SubagentsTypeOK /\ SlotInv /\ Mine(c) /\ Up
      /\ child[c] \in Row /\ child \in [Children -> Row]
      /\ UNCHANGED <<slotVars, callVars, cancelled, actor, meta, tree, runVars>>
  BY DEF IInv, Mine, SubagentsTypeOK, publish_start_failure
<1>2. CASE /\ child[c].owner = "fail_spawn" /\ Committed(c, "spawned")
           /\ child' = [child EXCEPT ![c].owner = "fail_finish"]
  <2>1. Became(c, "fail_finish", child[c].pub, child[c].turn, child[c].table, child[c].result, child[c].close)
    BY <1>1, <1>2 DEF Became, Row, Owner, Startup
  <2>2. LogInv(c) /\ (sink = "open" => ~ Open(c))
    BY <1>1, <1>2 DEF Mine, LogInv, Unborn, Open
  <2>3. /\ log' \in [Children -> Seq(Event)] /\ \A d \in Children \ {c} : log'[d] = log[d]
        /\ Alternates(log'[c]) /\ (log[c] # << >> => log'[c] # << >>)
        /\ sink' = sink /\ Open(c)' /\ log'[c] # << >>
    BY <1>1, <1>2, <2>2, SpawnTried
  <2>4. Apart(c)
    BY <1>1, <1>2, <2>1, <2>2, <2>3 DEF Apart, Became
  <2>5. SlotInv'
    BY <1>1, <1>2, <2>1, <2>2, <2>3, <2>4, SlotsKept DEF Holds, Waits, Startup, Became, Mine, RowInv
  <2>6. SubagentsTypeOK'
    BY <1>1, <1>2, <2>1, <2>2, <2>3 DEF SubagentsTypeOK, Became
  <2>7. RowInv(c)'
    BY <1>1, <1>2, <2>1, <2>2, <2>3 DEF Mine, RowInv, Became
  <2>8. RecordInv(c)'
    BY <1>1, <1>2, <2>1, <2>2, <2>3 DEF Mine, RowInv, RecordInv, Became
  <2>9. LogInv(c)'
    BY <1>1, <1>2, <2>1, <2>2, <2>3 DEF Mine, RowInv, LogInv, Unborn, Live, Over, Open, Became
  <2>10. EndInv(c)'
    BY <1>1, <1>2, <2>1, <2>2, <2>3 DEF Mine, RowInv, EndInv, Startup, Became
  <2> QED BY <1>1, <1>2, <2>1, <2>2, <2>3, <2>4, <2>5, <2>6, <2>7, <2>8, <2>9, <2>10, Framed DEF Mine
<1>3. CASE /\ child[c].owner = "fail_spawn" /\ CommitFailed(c, "spawned")
           /\ child' = [child EXCEPT ![c].owner = "leave"]
  <2>1. Became(c, "leave", child[c].pub, child[c].turn, child[c].table, child[c].result, child[c].close)
    BY <1>1, <1>3 DEF Became, Row, Owner, Startup
  <2>2. LogInv(c) /\ (sink = "open" => ~ Open(c))
    BY <1>1, <1>3 DEF Mine, LogInv, Unborn, Open
  <2>3. /\ log' \in [Children -> Seq(Event)] /\ \A d \in Children \ {c} : log'[d] = log[d]
        /\ Alternates(log'[c]) /\ (log[c] # << >> => log'[c] # << >>)
        /\ sink' = "closed"
    BY <1>1, <1>3, <2>2, SpawnTried
  <2>4. Apart(c)
    BY <1>1, <1>3, <2>1, <2>2, <2>3 DEF Apart, Became
  <2>5. SlotInv'
    BY <1>1, <1>3, <2>1, <2>2, <2>3, <2>4, SlotsKept DEF Holds, Waits, Startup, Became, Mine, RowInv
  <2>6. SubagentsTypeOK'
    BY <1>1, <1>3, <2>1, <2>2, <2>3 DEF SubagentsTypeOK, Became
  <2>7. RowInv(c)'
    BY <1>1, <1>3, <2>1, <2>2, <2>3 DEF Mine, RowInv, Became
  <2>8. RecordInv(c)'
    BY <1>1, <1>3, <2>1, <2>2, <2>3 DEF Mine, RowInv, RecordInv, Became
  <2>9. LogInv(c)'
    BY <1>1, <1>3, <2>1, <2>2, <2>3 DEF Mine, RowInv, LogInv, Unborn, Live, Over, Open, Became
  <2>10. EndInv(c)'
    BY <1>1, <1>3, <2>1, <2>2, <2>3 DEF Mine, RowInv, EndInv, Startup, Became
  <2> QED BY <1>1, <1>3, <2>1, <2>2, <2>3, <2>4, <2>5, <2>6, <2>7, <2>8, <2>9, <2>10, Framed DEF Mine
<1>4. CASE /\ child[c].owner = "fail_finish"
           /\ Committed(c, "finished") \/ CommitFailed(c, "finished")
           /\ child' = [child EXCEPT ![c].owner = "leave"]
  <2>1. Became(c, "leave", child[c].pub, child[c].turn, child[c].table, child[c].result, child[c].close)
    BY <1>1, <1>4 DEF Became, Row, Owner, Startup
  <2>2. LogInv(c) /\ (sink = "open" => Open(c))
    BY <1>1, <1>4 DEF Mine, LogInv, Live
  <2>3. /\ log' \in [Children -> Seq(Event)] /\ \A d \in Children \ {c} : log'[d] = log[d]
        /\ Alternates(log'[c]) /\ (log[c] # << >> => log'[c] # << >>)
        /\ sink' = "closed" \/ (sink' = sink /\ ~ Open(c)')
    BY <1>1, <1>4, <2>2, FinishTried
  <2>4. Apart(c)
    BY <1>1, <1>4, <2>1, <2>2, <2>3 DEF Apart, Became
  <2>5. SlotInv'
    BY <1>1, <1>4, <2>1, <2>2, <2>3, <2>4, SlotsKept DEF Holds, Waits, Startup, Became, Mine, RowInv
  <2>6. SubagentsTypeOK'
    BY <1>1, <1>4, <2>1, <2>2, <2>3 DEF SubagentsTypeOK, Became
  <2>7. RowInv(c)'
    BY <1>1, <1>4, <2>1, <2>2, <2>3 DEF Mine, RowInv, Became
  <2>8. RecordInv(c)'
    BY <1>1, <1>4, <2>1, <2>2, <2>3 DEF Mine, RowInv, RecordInv, Became
  <2>9. LogInv(c)'
    BY <1>1, <1>4, <2>1, <2>2, <2>3 DEF Mine, RowInv, LogInv, Unborn, Live, Over, Open, Became
  <2>10. EndInv(c)'
    BY <1>1, <1>4, <2>1, <2>2, <2>3 DEF Mine, RowInv, EndInv, Startup, Became
  <2> QED BY <1>1, <1>4, <2>1, <2>2, <2>3, <2>4, <2>5, <2>6, <2>7, <2>8, <2>9, <2>10, Framed DEF Mine
<1> QED BY <1>2, <1>3, <1>4 DEF publish_start_failure

LEMMA LeaveQueueInv == ASSUME IInv, NEW c \in Children, leave_queue(c) PROVE IInv'
<1>1. /\ SubagentsTypeOK /\ SlotInv /\ Mine(c) /\ Up
      /\ child[c] \in Row /\ child \in [Children -> Row]
      /\ child[c].owner = "leave"
      /\ UNCHANGED <<slotVars, caller, admission, unproven, cancelled, actor, diskVars, sink, runVars, faults>>
  BY DEF IInv, Mine, SubagentsTypeOK, leave_queue
<1>2. CASE queue' = queue \ {c} /\ child' = [child EXCEPT ![c].owner = "idle"]
  <2>1. Became(c, "idle", child[c].pub, child[c].turn, child[c].table, child[c].result, child[c].close)
    BY <1>1, <1>2 DEF Became, Row, Owner, Startup
  <2>2. Apart(c)
    BY <1>1, <1>2, <2>1 DEF Apart, Became
  <2>3. SlotInv'
    BY <1>1, <1>2, <2>1, <2>2, SlotsKept DEF Holds, Waits, Startup, Became, Mine, RowInv
  <2>4. SubagentsTypeOK'
    BY <1>1, <1>2, <2>1 DEF SubagentsTypeOK, Became
  <2>5. RowInv(c)'
    BY <1>1, <1>2, <2>1 DEF Mine, RowInv, Became
  <2>6. RecordInv(c)'
    BY <1>1, <1>2, <2>1 DEF Mine, RowInv, RecordInv, Became
  <2>7. LogInv(c)'
    BY <1>1, <1>2, <2>1 DEF Mine, RowInv, LogInv, Unborn, Live, Over, Open, Became
  <2>8. EndInv(c)'
    BY <1>1, <1>2, <2>1 DEF Mine, RowInv, EndInv, Startup, Became
  <2> QED BY <1>1, <1>2, <2>1, <2>2, <2>3, <2>4, <2>5, <2>6, <2>7, <2>8, Framed DEF Mine
<1> QED BY <1>2 DEF leave_queue

-----------------------------------------------------------------------------
(* The turn task, follow-ups and closing. *)

LEMMA ContinueChildInv == ASSUME IInv, NEW c \in Children, continue_child(c) PROVE IInv'
<1>1. /\ SubagentsTypeOK /\ SlotInv /\ Mine(c) /\ Up
      /\ child[c] \in Row /\ child \in [Children -> Row]
      /\ child[c].owner \in {"idle", "leave"} /\ child[c].table = "inactive"
      /\ ending.stage = "no"
      /\ permit' \in {permit, permit \cup {c}}
      /\ UNCHANGED <<line, callVars, actor, diskVars, sink, runVars, faults>>
  BY DEF IInv, Mine, SubagentsTypeOK, continue_child, Serving
<1>2. CASE child' = [child EXCEPT ![c].table = "active", ![c].turn = "commit",
                                    ![c].result = "pending"]
  <2>1. Became(c, child[c].owner, child[c].pub, "commit", "active", "pending", child[c].close)
    BY <1>1, <1>2 DEF Became, Row, Turn, Table
  <2>2. Apart(c)
    BY <1>1, <1>2, <2>1 DEF Apart, Became
  <2>3. SlotInv' /\ permit' \subseteq Children /\ line' \in Seq(Children)
    BY <1>1, <1>2, <2>1, <2>2, SlotTaken DEF Holds, Waits, Startup, Became, Mine, RowInv
  <2>4. SubagentsTypeOK'
    BY <1>1, <1>2, <2>1, <2>3 DEF SubagentsTypeOK, Became
  <2>5. RowInv(c)'
    BY <1>1, <1>2, <2>1 DEF Mine, RowInv, Became
  <2>6. RecordInv(c)'
    BY <1>1, <1>2, <2>1 DEF Mine, RowInv, RecordInv, Became
  <2>7. LogInv(c)'
    BY <1>1, <1>2, <2>1 DEF Mine, RowInv, LogInv, Unborn, Live, Over, Open, Became
  <2>8. EndInv(c)'
    BY <1>1, <1>2, <2>1 DEF Mine, RowInv, EndInv, Startup, Became
  <2> QED BY <1>1, <1>2, <2>1, <2>2, <2>3, <2>4, <2>5, <2>6, <2>7, <2>8, Framed DEF Mine
<1> QED BY <1>2 DEF continue_child

LEMMA ContinuedInv == ASSUME IInv, NEW c \in Children, continued(c) PROVE IInv'
<1>1. /\ SubagentsTypeOK /\ SlotInv /\ Mine(c) /\ Up
      /\ child[c] \in Row /\ child \in [Children -> Row]
      /\ child[c].turn = "commit"
      /\ UNCHANGED <<callVars, cancelled, meta, tree, runVars>>
  BY DEF IInv, Mine, SubagentsTypeOK, continued
<1>2. CASE /\ Committed(c, "spawned") /\ UNCHANGED slotVars
           /\ child' = [child EXCEPT ![c].turn = IF c \in permit THEN "running" ELSE "waiting"]
           /\ actor' = IF c \in permit THEN actor \cup {c} ELSE actor
  <2>1. Became(c, child[c].owner, child[c].pub, IF c \in permit THEN "running" ELSE "waiting", child[c].table, child[c].result, child[c].close)
    BY <1>1, <1>2 DEF Became, Row, Turn, Table
  <2>2. LogInv(c) /\ (sink = "open" => ~ Open(c))
    BY <1>1 DEF Mine, LogInv, Over
  <2>3. /\ log' \in [Children -> Seq(Event)] /\ \A d \in Children \ {c} : log'[d] = log[d]
        /\ Alternates(log'[c]) /\ (log[c] # << >> => log'[c] # << >>)
        /\ sink' = sink /\ Open(c)' /\ log'[c] # << >>
    BY <1>1, <1>2, <2>2, SpawnTried
  <2>4. child[c].close = "none"
    BY <1>1 DEF Mine, RowInv, Row
  <2>5. Apart(c)
    BY <1>1, <1>2, <2>1, <2>2, <2>3, <2>4 DEF Apart, Became
  <2>6. SlotInv'
    BY <1>1, <1>2, <2>1, <2>2, <2>3, <2>4, <2>5, SlotsKept DEF Holds, Waits, Startup, Became, Mine, RowInv
  <2>7. SubagentsTypeOK'
    BY <1>1, <1>2, <2>1, <2>2, <2>3, <2>4 DEF SubagentsTypeOK, Became
  <2>8. RowInv(c)'
    BY <1>1, <1>2, <2>1, <2>2, <2>3, <2>4 DEF Mine, RowInv, Became
  <2>9. RecordInv(c)'
    BY <1>1, <1>2, <2>1, <2>2, <2>3, <2>4 DEF Mine, RowInv, RecordInv, Became
  <2>10. LogInv(c)'
    BY <1>1, <1>2, <2>1, <2>2, <2>3, <2>4 DEF Mine, RowInv, LogInv, Unborn, Live, Over, Open, Became
  <2>11. EndInv(c)'
    BY <1>1, <1>2, <2>1, <2>2, <2>3, <2>4 DEF Mine, RowInv, EndInv, Startup, Became
  <2> QED BY <1>1, <1>2, <2>1, <2>2, <2>3, <2>4, <2>5, <2>6, <2>7, <2>8, <2>9, <2>10, <2>11, Framed DEF Mine
<1>3. CASE /\ CommitFailed(c, "spawned") /\ release(c) /\ UNCHANGED actor
           /\ child' = [child EXCEPT ![c].turn = "none", ![c].table = "inactive", ![c].result = "err"]
  <2>1. Became(c, child[c].owner, child[c].pub, "none", "inactive", "err", child[c].close)
    BY <1>1, <1>3 DEF Became, Row, Turn, Table
  <2>2. LogInv(c) /\ (sink = "open" => ~ Open(c))
    BY <1>1 DEF Mine, LogInv, Over
  <2>3. /\ log' \in [Children -> Seq(Event)] /\ \A d \in Children \ {c} : log'[d] = log[d]
        /\ Alternates(log'[c]) /\ (log[c] # << >> => log'[c] # << >>)
        /\ sink' = "closed"
    BY <1>1, <1>3, <2>2, SpawnTried
  <2>4. Apart(c)
    BY <1>1, <1>3, <2>1, <2>2, <2>3 DEF Apart, Became
  <2>5. SlotInv' /\ permit' \subseteq Children /\ line' \in Seq(Children)
    BY <1>1, <1>3, <2>1, <2>2, <2>3, <2>4, SlotReleased DEF Holds, Waits, Startup, Became, Mine, RowInv
  <2>6. SubagentsTypeOK'
    BY <1>1, <1>3, <2>1, <2>2, <2>3, <2>5 DEF SubagentsTypeOK, Became
  <2>7. RowInv(c)'
    BY <1>1, <1>3, <2>1, <2>2, <2>3 DEF Mine, RowInv, Became
  <2>8. RecordInv(c)'
    BY <1>1, <1>3, <2>1, <2>2, <2>3 DEF Mine, RowInv, RecordInv, Became
  <2>9. LogInv(c)'
    BY <1>1, <1>3, <2>1, <2>2, <2>3 DEF Mine, RowInv, LogInv, Unborn, Live, Over, Open, Became
  <2>10. EndInv(c)'
    BY <1>1, <1>3, <2>1, <2>2, <2>3 DEF Mine, RowInv, EndInv, Startup, Became
  <2> QED BY <1>1, <1>3, <2>1, <2>2, <2>3, <2>4, <2>5, <2>6, <2>7, <2>8, <2>9, <2>10, Framed DEF Mine
<1> QED BY <1>2, <1>3 DEF continued

LEMMA AwaitSlotInv == ASSUME IInv, NEW c \in Children, await_slot(c) PROVE IInv'
<1>1. /\ SubagentsTypeOK /\ SlotInv /\ Mine(c) /\ Up
      /\ child[c] \in Row /\ child \in [Children -> Row]
      /\ child[c].turn = "waiting"
      /\ UNCHANGED <<callVars, cancelled, diskVars, sink, runVars, faults>>
  BY DEF IInv, Mine, SubagentsTypeOK, await_slot
<1>2. CASE acquire(c) /\ UNCHANGED <<child, actor>>
  <2>1. Became(c, child[c].owner, child[c].pub, child[c].turn, child[c].table, child[c].result, child[c].close)
    BY <1>1, <1>2 DEF Became, Row, Owner, Startup
  <2>2. Apart(c)
    BY <1>1, <1>2, <2>1 DEF Apart, Became
  <2>3. SlotInv' /\ permit' \subseteq Children /\ line' \in Seq(Children)
    BY <1>1, <1>2, <2>1, <2>2, SlotAwaited DEF Holds, Waits, Startup, Became, Mine, RowInv
  <2>4. SubagentsTypeOK'
    BY <1>1, <1>2, <2>1, <2>3 DEF SubagentsTypeOK, Became
  <2>5. RowInv(c)'
    BY <1>1, <1>2, <2>1 DEF Mine, RowInv, Became
  <2>6. RecordInv(c)'
    BY <1>1, <1>2, <2>1 DEF Mine, RowInv, RecordInv, Became
  <2>7. LogInv(c)'
    BY <1>1, <1>2, <2>1 DEF Mine, RowInv, LogInv, Unborn, Live, Over, Open, Became
  <2>8. EndInv(c)'
    BY <1>1, <1>2, <2>1 DEF Mine, RowInv, EndInv, Startup, Became
  <2> QED BY <1>1, <1>2, <2>1, <2>2, <2>3, <2>4, <2>5, <2>6, <2>7, <2>8, Framed DEF Mine
<1>3. CASE /\ c \in permit /\ actor' = actor \cup {c} /\ UNCHANGED slotVars
           /\ child' = [child EXCEPT ![c].turn = "running"]
  <2>1. Became(c, child[c].owner, child[c].pub, "running", child[c].table, child[c].result, child[c].close)
    BY <1>1, <1>3 DEF Became, Row, Turn
  <2>2. Apart(c)
    BY <1>1, <1>3, <2>1 DEF Apart, Became
  <2>3. SlotInv'
    BY <1>1, <1>3, <2>1, <2>2, SlotsKept DEF Holds, Waits, Startup, Became, Mine, RowInv
  <2>4. SubagentsTypeOK'
    BY <1>1, <1>3, <2>1 DEF SubagentsTypeOK, Became
  <2>5. RowInv(c)'
    BY <1>1, <1>3, <2>1 DEF Mine, RowInv, Became
  <2>6. RecordInv(c)'
    BY <1>1, <1>3, <2>1 DEF Mine, RowInv, RecordInv, Became
  <2>7. LogInv(c)'
    BY <1>1, <1>3, <2>1 DEF Mine, RowInv, LogInv, Unborn, Live, Over, Open, Became
  <2>8. EndInv(c)'
    BY <1>1, <1>3, <2>1 DEF Mine, RowInv, EndInv, Startup, Became
  <2> QED BY <1>1, <1>3, <2>1, <2>2, <2>3, <2>4, <2>5, <2>6, <2>7, <2>8, Framed DEF Mine
<1>4. CASE /\ release(c) /\ UNCHANGED actor
           /\ child' = [child EXCEPT ![c].turn = "finish"]
  <2>1. Became(c, child[c].owner, child[c].pub, "finish", child[c].table, child[c].result, child[c].close)
    BY <1>1, <1>4 DEF Became, Row, Turn
  <2>2. Apart(c)
    BY <1>1, <1>4, <2>1 DEF Apart, Became
  <2>3. SlotInv' /\ permit' \subseteq Children /\ line' \in Seq(Children)
    BY <1>1, <1>4, <2>1, <2>2, SlotReleased DEF Holds, Waits, Startup, Became, Mine, RowInv
  <2>4. SubagentsTypeOK'
    BY <1>1, <1>4, <2>1, <2>3 DEF SubagentsTypeOK, Became
  <2>5. RowInv(c)'
    BY <1>1, <1>4, <2>1 DEF Mine, RowInv, Became
  <2>6. RecordInv(c)'
    BY <1>1, <1>4, <2>1 DEF Mine, RowInv, RecordInv, Became
  <2>7. LogInv(c)'
    BY <1>1, <1>4, <2>1 DEF Mine, RowInv, LogInv, Unborn, Live, Over, Open, Became
  <2>8. EndInv(c)'
    BY <1>1, <1>4, <2>1 DEF Mine, RowInv, EndInv, Startup, Became
  <2> QED BY <1>1, <1>4, <2>1, <2>2, <2>3, <2>4, <2>5, <2>6, <2>7, <2>8, Framed DEF Mine
<1> QED BY <1>2, <1>3, <1>4 DEF await_slot

LEMMA RunTurnInv == ASSUME IInv, NEW c \in Children, run_turn(c) PROVE IInv'
<1>1. /\ SubagentsTypeOK /\ SlotInv /\ Mine(c) /\ Up
      /\ child[c] \in Row /\ child \in [Children -> Row]
      /\ child[c].turn = "running"
      /\ UNCHANGED <<slotVars, callVars, cancelled, actor, diskVars, sink, runVars, faults>>
  BY DEF IInv, Mine, SubagentsTypeOK, run_turn
<1>2. CASE child' = [child EXCEPT ![c].turn = "finish"]
  <2>1. Became(c, child[c].owner, child[c].pub, "finish", child[c].table, child[c].result, child[c].close)
    BY <1>1, <1>2 DEF Became, Row, Turn
  <2>2. Apart(c)
    BY <1>1, <1>2, <2>1 DEF Apart, Became
  <2>3. SlotInv'
    BY <1>1, <1>2, <2>1, <2>2, SlotsKept DEF Holds, Waits, Startup, Became, Mine, RowInv
  <2>4. SubagentsTypeOK'
    BY <1>1, <1>2, <2>1 DEF SubagentsTypeOK, Became
  <2>5. RowInv(c)'
    BY <1>1, <1>2, <2>1 DEF Mine, RowInv, Became
  <2>6. RecordInv(c)'
    BY <1>1, <1>2, <2>1 DEF Mine, RowInv, RecordInv, Became
  <2>7. LogInv(c)'
    BY <1>1, <1>2, <2>1 DEF Mine, RowInv, LogInv, Unborn, Live, Over, Open, Became
  <2>8. EndInv(c)'
    BY <1>1, <1>2, <2>1 DEF Mine, RowInv, EndInv, Startup, Became
  <2> QED BY <1>1, <1>2, <2>1, <2>2, <2>3, <2>4, <2>5, <2>6, <2>7, <2>8, Framed DEF Mine
<1> QED BY <1>2 DEF run_turn

LEMMA FinishedInv == ASSUME IInv, NEW c \in Children, finished(c) PROVE IInv'
<1>1. /\ SubagentsTypeOK /\ SlotInv /\ Mine(c) /\ Up
      /\ child[c] \in Row /\ child \in [Children -> Row]
      /\ child[c].turn = "finish"
      /\ UNCHANGED <<slotVars, callVars, cancelled, actor, meta, tree, runVars>>
  BY DEF IInv, Mine, SubagentsTypeOK, finished
<1>2. CASE Committed(c, "finished") /\ child' = [child EXCEPT ![c].turn = "ok"]
  <2>1. Became(c, child[c].owner, child[c].pub, "ok", child[c].table, child[c].result, child[c].close)
    BY <1>1, <1>2 DEF Became, Row, Turn
  <2>2. LogInv(c) /\ (sink = "open" => Open(c))
    BY <1>1 DEF Mine, LogInv, Live
  <2>3. /\ log' \in [Children -> Seq(Event)] /\ \A d \in Children \ {c} : log'[d] = log[d]
        /\ Alternates(log'[c]) /\ (log[c] # << >> => log'[c] # << >>)
        /\ sink' = sink /\ ~ Open(c)' /\ log'[c] # << >>
    BY <1>1, <1>2, <2>2, FinishTried
  <2>4. Apart(c)
    BY <1>1, <1>2, <2>1, <2>2, <2>3 DEF Apart, Became
  <2>5. SlotInv'
    BY <1>1, <1>2, <2>1, <2>2, <2>3, <2>4, SlotsKept DEF Holds, Waits, Startup, Became, Mine, RowInv
  <2>6. SubagentsTypeOK'
    BY <1>1, <1>2, <2>1, <2>2, <2>3 DEF SubagentsTypeOK, Became
  <2>7. RowInv(c)'
    BY <1>1, <1>2, <2>1, <2>2, <2>3 DEF Mine, RowInv, Became
  <2>8. RecordInv(c)'
    BY <1>1, <1>2, <2>1, <2>2, <2>3 DEF Mine, RowInv, RecordInv, Became
  <2>9. LogInv(c)'
    BY <1>1, <1>2, <2>1, <2>2, <2>3 DEF Mine, RowInv, LogInv, Unborn, Live, Over, Open, Became
  <2>10. EndInv(c)'
    BY <1>1, <1>2, <2>1, <2>2, <2>3 DEF Mine, RowInv, EndInv, Startup, Became
  <2> QED BY <1>1, <1>2, <2>1, <2>2, <2>3, <2>4, <2>5, <2>6, <2>7, <2>8, <2>9, <2>10, Framed DEF Mine
<1>3. CASE CommitFailed(c, "finished") /\ child' = [child EXCEPT ![c].turn = "err"]
  <2>1. Became(c, child[c].owner, child[c].pub, "err", child[c].table, child[c].result, child[c].close)
    BY <1>1, <1>3 DEF Became, Row, Turn
  <2>2. LogInv(c) /\ (sink = "open" => Open(c))
    BY <1>1 DEF Mine, LogInv, Live
  <2>3. /\ log' \in [Children -> Seq(Event)] /\ \A d \in Children \ {c} : log'[d] = log[d]
        /\ Alternates(log'[c]) /\ (log[c] # << >> => log'[c] # << >>)
        /\ sink' = "closed"
    BY <1>1, <1>3, <2>2, FinishTried
  <2>4. Apart(c)
    BY <1>1, <1>3, <2>1, <2>2, <2>3 DEF Apart, Became
  <2>5. SlotInv'
    BY <1>1, <1>3, <2>1, <2>2, <2>3, <2>4, SlotsKept DEF Holds, Waits, Startup, Became, Mine, RowInv
  <2>6. SubagentsTypeOK'
    BY <1>1, <1>3, <2>1, <2>2, <2>3 DEF SubagentsTypeOK, Became
  <2>7. RowInv(c)'
    BY <1>1, <1>3, <2>1, <2>2, <2>3 DEF Mine, RowInv, Became
  <2>8. RecordInv(c)'
    BY <1>1, <1>3, <2>1, <2>2, <2>3 DEF Mine, RowInv, RecordInv, Became
  <2>9. LogInv(c)'
    BY <1>1, <1>3, <2>1, <2>2, <2>3 DEF Mine, RowInv, LogInv, Unborn, Live, Over, Open, Became
  <2>10. EndInv(c)'
    BY <1>1, <1>3, <2>1, <2>2, <2>3 DEF Mine, RowInv, EndInv, Startup, Became
  <2> QED BY <1>1, <1>3, <2>1, <2>2, <2>3, <2>4, <2>5, <2>6, <2>7, <2>8, <2>9, <2>10, Framed DEF Mine
<1> QED BY <1>2, <1>3 DEF finished

\* A dropped follow-up leaves the row active, with or without its spawn in the journal.
LEMMA DropContinueInv == ASSUME IInv, NEW c \in Children, drop_continue(c) PROVE IInv'
<1>1. /\ SubagentsTypeOK /\ SlotInv /\ Mine(c) /\ Up
      /\ child[c] \in Row /\ child \in [Children -> Row]
      /\ child[c].turn = "commit" /\ sink = "open" /\ release(c)
      /\ UNCHANGED <<callVars, cancelled, actor, meta, tree, sink, runVars, faults>>
  BY DEF IInv, Mine, SubagentsTypeOK, drop_continue
<1>2. CASE /\ Logged(c, "spawned")
           /\ child' = [child EXCEPT ![c].turn = "none", ![c].result = "dropped"]
  <2>1. Became(c, child[c].owner, child[c].pub, "none", child[c].table, "dropped", child[c].close)
    BY <1>1, <1>2 DEF Became, Row, Turn
  <2>2. LogInv(c) /\ ~ Open(c)
    BY <1>1 DEF Mine, LogInv, Over
  <2>3. /\ log' \in [Children -> Seq(Event)] /\ \A d \in Children \ {c} : log'[d] = log[d]
        /\ Alternates(log'[c]) /\ (log[c] # << >> => log'[c] # << >>)
    BY <1>1, <1>2, <2>2, Spawns
  <2>4. child[c].close = "none"
    BY <1>1 DEF Mine, RowInv, Row
  <2>5. Apart(c)
    BY <1>1, <1>2, <2>1, <2>2, <2>3, <2>4 DEF Apart, Became
  <2>6. SlotInv' /\ permit' \subseteq Children /\ line' \in Seq(Children)
    BY <1>1, <1>2, <2>1, <2>2, <2>3, <2>4, <2>5, SlotReleased DEF Holds, Waits, Startup, Became, Mine, RowInv
  <2>7. SubagentsTypeOK'
    BY <1>1, <1>2, <2>1, <2>2, <2>3, <2>4, <2>6 DEF SubagentsTypeOK, Became
  <2>8. RowInv(c)'
    BY <1>1, <1>2, <2>1, <2>2, <2>3, <2>4 DEF Mine, RowInv, Became
  <2>9. RecordInv(c)'
    BY <1>1, <1>2, <2>1, <2>2, <2>3, <2>4 DEF Mine, RowInv, RecordInv, Became
  <2>10. LogInv(c)'
    BY <1>1, <1>2, <2>1, <2>2, <2>3, <2>4 DEF Mine, RowInv, LogInv, Unborn, Live, Over, Open, Became
  <2>11. EndInv(c)'
    BY <1>1, <1>2, <2>1, <2>2, <2>3, <2>4 DEF Mine, RowInv, EndInv, Startup, Became
  <2> QED BY <1>1, <1>2, <2>1, <2>2, <2>3, <2>4, <2>5, <2>6, <2>7, <2>8, <2>9, <2>10, <2>11, Framed DEF Mine
<1>3. CASE /\ UNCHANGED log
           /\ child' = [child EXCEPT ![c].turn = "none", ![c].result = "dropped"]
  <2>1. Became(c, child[c].owner, child[c].pub, "none", child[c].table, "dropped", child[c].close)
    BY <1>1, <1>3 DEF Became, Row, Turn
  <2>2. Apart(c)
    BY <1>1, <1>3, <2>1 DEF Apart, Became
  <2>3. SlotInv' /\ permit' \subseteq Children /\ line' \in Seq(Children)
    BY <1>1, <1>3, <2>1, <2>2, SlotReleased DEF Holds, Waits, Startup, Became, Mine, RowInv
  <2>4. SubagentsTypeOK'
    BY <1>1, <1>3, <2>1, <2>3 DEF SubagentsTypeOK, Became
  <2>5. RowInv(c)'
    BY <1>1, <1>3, <2>1 DEF Mine, RowInv, Became
  <2>6. RecordInv(c)'
    BY <1>1, <1>3, <2>1 DEF Mine, RowInv, RecordInv, Became
  <2>7. LogInv(c)'
    BY <1>1, <1>3, <2>1 DEF Mine, RowInv, LogInv, Unborn, Live, Over, Open, Became
  <2>8. EndInv(c)'
    BY <1>1, <1>3, <2>1 DEF Mine, RowInv, EndInv, Startup, Became
  <2> QED BY <1>1, <1>3, <2>1, <2>2, <2>3, <2>4, <2>5, <2>6, <2>7, <2>8, Framed DEF Mine
<1> QED BY <1>2, <1>3 DEF drop_continue

LEMMA SettleTurnInv == ASSUME IInv, NEW c \in Children, settle_turn(c) PROVE IInv'
<1>1. /\ SubagentsTypeOK /\ SlotInv /\ Mine(c) /\ Up
      /\ child[c] \in Row /\ child \in [Children -> Row]
      /\ child[c].turn \in {"ok", "err"} /\ release(c)
      /\ UNCHANGED <<callVars, cancelled, actor, diskVars, sink, runVars, faults>>
  BY DEF IInv, Mine, SubagentsTypeOK, settle_turn
<1>2. CASE child' = [child EXCEPT ![c].turn = "none", ![c].result = child[c].turn,
                                    ![c].table = "inactive"]
  <2>1. Became(c, child[c].owner, child[c].pub, "none", "inactive", child[c].turn, child[c].close)
    BY <1>1, <1>2 DEF Became, Row, Turn, Table
  <2>2. Apart(c)
    BY <1>1, <1>2, <2>1 DEF Apart, Became
  <2>3. SlotInv' /\ permit' \subseteq Children /\ line' \in Seq(Children)
    BY <1>1, <1>2, <2>1, <2>2, SlotReleased DEF Holds, Waits, Startup, Became, Mine, RowInv
  <2>4. SubagentsTypeOK'
    BY <1>1, <1>2, <2>1, <2>3 DEF SubagentsTypeOK, Became
  <2>5. RowInv(c)'
    BY <1>1, <1>2, <2>1 DEF Mine, RowInv, Became
  <2>6. RecordInv(c)'
    BY <1>1, <1>2, <2>1 DEF Mine, RowInv, RecordInv, Became
  <2>7. LogInv(c)'
    BY <1>1, <1>2, <2>1 DEF Mine, RowInv, LogInv, Unborn, Live, Over, Open, Became
  <2>8. EndInv(c)'
    BY <1>1, <1>2, <2>1 DEF Mine, RowInv, EndInv, Startup, Became
  <2> QED BY <1>1, <1>2, <2>1, <2>2, <2>3, <2>4, <2>5, <2>6, <2>7, <2>8, Framed DEF Mine
<1>3. child[c].table = "active"
  BY <1>1 DEF Mine, RowInv
<1> QED BY <1>2, <1>3 DEF settle_turn

LEMMA CloseInv == ASSUME IInv, NEW c \in Children, close(c) PROVE IInv'
<1>1. /\ SubagentsTypeOK /\ SlotInv /\ Mine(c) /\ Up
      /\ child[c] \in Row /\ child \in [Children -> Row]
      /\ c \notin queue /\ child[c].owner = "idle" /\ child[c].close = "none" /\ ending.stage = "no"
      /\ UNCHANGED <<slotVars, callVars, cancelled, actor, diskVars, sink, runVars, faults>>
  BY DEF IInv, Mine, SubagentsTypeOK, close, Serving
<1>2. CASE /\ child[c].table = "inactive"
           /\ child' = [child EXCEPT ![c].table = "closing", ![c].close = "session"]
  <2>1. Became(c, child[c].owner, child[c].pub, child[c].turn, "closing", child[c].result, "session")
    BY <1>1, <1>2 DEF Became, Row, Table
  <2>2. Apart(c)
    BY <1>1, <1>2, <2>1 DEF Apart, Became
  <2>3. SlotInv'
    BY <1>1, <1>2, <2>1, <2>2, SlotsKept DEF Holds, Waits, Startup, Became, Mine, RowInv
  <2>4. SubagentsTypeOK'
    BY <1>1, <1>2, <2>1 DEF SubagentsTypeOK, Became
  <2>5. RowInv(c)'
    BY <1>1, <1>2, <2>1 DEF Mine, RowInv, Became
  <2>6. RecordInv(c)'
    BY <1>1, <1>2, <2>1 DEF Mine, RowInv, RecordInv, Became
  <2>7. LogInv(c)'
    BY <1>1, <1>2, <2>1 DEF Mine, RowInv, LogInv, Unborn, Live, Over, Open, Became
  <2>8. EndInv(c)'
    BY <1>1, <1>2, <2>1 DEF Mine, RowInv, EndInv, Startup, Became
  <2> QED BY <1>1, <1>2, <2>1, <2>2, <2>3, <2>4, <2>5, <2>6, <2>7, <2>8, Framed DEF Mine
<1>3. CASE /\ child[c].table = "finalized"
           /\ child' = [child EXCEPT ![c].close = "record"]
  <2>1. Became(c, child[c].owner, child[c].pub, child[c].turn, child[c].table, child[c].result, "record")
    BY <1>1, <1>3 DEF Became, Row, Table
  <2>2. Apart(c)
    BY <1>1, <1>3, <2>1 DEF Apart, Became
  <2>3. SlotInv'
    BY <1>1, <1>3, <2>1, <2>2, SlotsKept DEF Holds, Waits, Startup, Became, Mine, RowInv
  <2>4. SubagentsTypeOK'
    BY <1>1, <1>3, <2>1 DEF SubagentsTypeOK, Became
  <2>5. RowInv(c)'
    BY <1>1, <1>3, <2>1 DEF Mine, RowInv, Became
  <2>6. RecordInv(c)'
    BY <1>1, <1>3, <2>1 DEF Mine, RowInv, RecordInv, Became
  <2>7. LogInv(c)'
    BY <1>1, <1>3, <2>1 DEF Mine, RowInv, LogInv, Unborn, Live, Over, Open, Became
  <2>8. EndInv(c)'
    BY <1>1, <1>3, <2>1 DEF Mine, RowInv, EndInv, Startup, Became
  <2> QED BY <1>1, <1>3, <2>1, <2>2, <2>3, <2>4, <2>5, <2>6, <2>7, <2>8, Framed DEF Mine
<1> QED BY <1>2, <1>3 DEF close

LEMMA CloseSessionInv == ASSUME IInv, NEW c \in Children, close_session(c) PROVE IInv'
<1>1. /\ SubagentsTypeOK /\ SlotInv /\ Mine(c) /\ Up
      /\ child[c] \in Row /\ child \in [Children -> Row]
      /\ child[c].close = "session"
      /\ UNCHANGED <<slotVars, cancelled, meta, log, sink, runVars>>
  BY DEF IInv, Mine, SubagentsTypeOK, close_session
<1>2. CASE /\ actor' = actor \ {c} /\ UNCHANGED callVars
           /\ child' = [child EXCEPT ![c].table = "finalized", ![c].close = "record"]
  <2>1. Became(c, child[c].owner, child[c].pub, child[c].turn, "finalized", child[c].result, "record")
    BY <1>1, <1>2 DEF Became, Row, Table
  <2>2. Apart(c)
    BY <1>1, <1>2, <2>1 DEF Apart, Became
  <2>3. SlotInv'
    BY <1>1, <1>2, <2>1, <2>2, SlotsKept DEF Holds, Waits, Startup, Became, Mine, RowInv
  <2>4. SubagentsTypeOK'
    BY <1>1, <1>2, <2>1 DEF SubagentsTypeOK, Became
  <2>5. RowInv(c)'
    BY <1>1, <1>2, <2>1 DEF Mine, RowInv, Became
  <2>6. RecordInv(c)'
    BY <1>1, <1>2, <2>1 DEF Mine, RowInv, RecordInv, Became
  <2>7. LogInv(c)'
    BY <1>1, <1>2, <2>1 DEF Mine, RowInv, LogInv, Unborn, Live, Over, Open, Became
  <2>8. EndInv(c)'
    BY <1>1, <1>2, <2>1 DEF Mine, RowInv, EndInv, Startup, Became
  <2> QED BY <1>1, <1>2, <2>1, <2>2, <2>3, <2>4, <2>5, <2>6, <2>7, <2>8, Framed DEF Mine
<1>3. CASE /\ actor' \in {actor, actor \ {c}} /\ child[c].owner = "abandon"
           /\ unproven' = unproven \cup {c} /\ UNCHANGED queue
           /\ child' = [child EXCEPT ![c].close = "none", ![c].owner = "idle"]
  <2>1. Became(c, "idle", child[c].pub, child[c].turn, child[c].table, child[c].result, "none")
    BY <1>1, <1>3 DEF Became, Row, Owner, Startup
  <2>2. Apart(c)
    BY <1>1, <1>3, <2>1 DEF Apart, Became
  <2>3. SlotInv'
    BY <1>1, <1>3, <2>1, <2>2, SlotsKept DEF Holds, Waits, Startup, Became, Mine, RowInv
  <2>4. SubagentsTypeOK'
    BY <1>1, <1>3, <2>1 DEF SubagentsTypeOK, Became
  <2>5. RowInv(c)'
    BY <1>1, <1>3, <2>1 DEF Mine, RowInv, Became
  <2>6. RecordInv(c)'
    BY <1>1, <1>3, <2>1 DEF Mine, RowInv, RecordInv, Became
  <2>7. LogInv(c)'
    BY <1>1, <1>3, <2>1 DEF Mine, RowInv, LogInv, Unborn, Live, Over, Open, Became
  <2>8. EndInv(c)'
    BY <1>1, <1>3, <2>1 DEF Mine, RowInv, EndInv, Startup, Became
  <2> QED BY <1>1, <1>3, <2>1, <2>2, <2>3, <2>4, <2>5, <2>6, <2>7, <2>8, Framed DEF Mine
<1>4. CASE /\ actor' \in {actor, actor \ {c}} /\ child[c].owner # "abandon"
           /\ UNCHANGED <<unproven, queue>>
           /\ child' = [child EXCEPT ![c].close = "none"]
  <2>1. Became(c, child[c].owner, child[c].pub, child[c].turn, child[c].table, child[c].result, "none")
    BY <1>1, <1>4 DEF Became, Row, Owner, Startup
  <2>2. Apart(c)
    BY <1>1, <1>4, <2>1 DEF Apart, Became
  <2>3. SlotInv'
    BY <1>1, <1>4, <2>1, <2>2, SlotsKept DEF Holds, Waits, Startup, Became, Mine, RowInv
  <2>4. SubagentsTypeOK'
    BY <1>1, <1>4, <2>1 DEF SubagentsTypeOK, Became
  <2>5. RowInv(c)'
    BY <1>1, <1>4, <2>1 DEF Mine, RowInv, Became
  <2>6. RecordInv(c)'
    BY <1>1, <1>4, <2>1 DEF Mine, RowInv, RecordInv, Became
  <2>7. LogInv(c)'
    BY <1>1, <1>4, <2>1 DEF Mine, RowInv, LogInv, Unborn, Live, Over, Open, Became
  <2>8. EndInv(c)'
    BY <1>1, <1>4, <2>1 DEF Mine, RowInv, EndInv, Startup, Became
  <2> QED BY <1>1, <1>4, <2>1, <2>2, <2>3, <2>4, <2>5, <2>6, <2>7, <2>8, Framed DEF Mine
<1> QED BY <1>2, <1>3, <1>4 DEF close_session, SessionClosed, CloseFailed, CloseGivesUp

LEMMA RemoveRecordInv == ASSUME IInv, NEW c \in Children, remove_record(c) PROVE IInv'
<1>1. /\ SubagentsTypeOK /\ SlotInv /\ Mine(c) /\ Up
      /\ child[c] \in Row /\ child \in [Children -> Row]
      /\ child[c].close = "record"
      /\ UNCHANGED <<slotVars, cancelled, actor, log, tree, sink, runVars>>
  BY DEF IInv, Mine, SubagentsTypeOK, remove_record
<1>2. CASE /\ Saved(c, "none") /\ UNCHANGED <<queue, unproven>>
           /\ child' = [child EXCEPT ![c].table = "none", ![c].close = "none",
                         ![c].owner = IF @ = "abandon" THEN "idle" ELSE @]
  <2>1. Became(c, IF child[c].owner = "abandon" THEN "idle" ELSE child[c].owner, child[c].pub, child[c].turn, "none", child[c].result, "none")
    BY <1>1, <1>2 DEF Became, Row, Owner, Startup, Table
  <2>2. /\ meta' \in [Children -> {"none", "pending", "active", "closed"}] /\ meta'[c] = "none"
        /\ \A d \in Children \ {c} : meta'[d] = meta[d]
    BY <1>1, <1>2, Saves
  <2>3. Apart(c)
    BY <1>1, <1>2, <2>1, <2>2 DEF Apart, Became
  <2>4. SlotInv'
    BY <1>1, <1>2, <2>1, <2>2, <2>3, SlotsKept DEF Holds, Waits, Startup, Became, Mine, RowInv
  <2>5. SubagentsTypeOK'
    BY <1>1, <1>2, <2>1, <2>2 DEF SubagentsTypeOK, Became
  <2>6. RowInv(c)'
    BY <1>1, <1>2, <2>1, <2>2 DEF Mine, RowInv, Became
  <2>7. RecordInv(c)'
    BY <1>1, <1>2, <2>1, <2>2 DEF Mine, RowInv, RecordInv, Became
  <2>8. LogInv(c)'
    BY <1>1, <1>2, <2>1, <2>2 DEF Mine, RowInv, LogInv, Unborn, Live, Over, Open, Became
  <2>9. EndInv(c)'
    BY <1>1, <1>2, <2>1, <2>2 DEF Mine, RowInv, EndInv, Startup, Became
  <2> QED BY <1>1, <1>2, <2>1, <2>2, <2>3, <2>4, <2>5, <2>6, <2>7, <2>8, <2>9, Framed DEF Mine
<1>3. CASE /\ SaveFailed(c, "none") /\ child[c].owner = "abandon"
           /\ unproven' = unproven \cup {c} /\ UNCHANGED queue
           /\ child' = [child EXCEPT ![c].close = "none", ![c].owner = "idle"]
  <2>1. Became(c, "idle", child[c].pub, child[c].turn, child[c].table, child[c].result, "none")
    BY <1>1, <1>3 DEF Became, Row, Owner, Startup
  <2>2. /\ meta' \in [Children -> {"none", "pending", "active", "closed"}] /\ meta'[c] \in {"none", meta[c]}
        /\ \A d \in Children \ {c} : meta'[d] = meta[d]
    BY <1>1, <1>3, Saves
  <2>3. Apart(c)
    BY <1>1, <1>3, <2>1, <2>2 DEF Apart, Became
  <2>4. SlotInv'
    BY <1>1, <1>3, <2>1, <2>2, <2>3, SlotsKept DEF Holds, Waits, Startup, Became, Mine, RowInv
  <2>5. SubagentsTypeOK'
    BY <1>1, <1>3, <2>1, <2>2 DEF SubagentsTypeOK, Became
  <2>6. RowInv(c)'
    BY <1>1, <1>3, <2>1, <2>2 DEF Mine, RowInv, Became
  <2>7. RecordInv(c)'
    BY <1>1, <1>3, <2>1, <2>2 DEF Mine, RowInv, RecordInv, Became
  <2>8. LogInv(c)'
    BY <1>1, <1>3, <2>1, <2>2 DEF Mine, RowInv, LogInv, Unborn, Live, Over, Open, Became
  <2>9. EndInv(c)'
    BY <1>1, <1>3, <2>1, <2>2 DEF Mine, RowInv, EndInv, Startup, Became
  <2> QED BY <1>1, <1>3, <2>1, <2>2, <2>3, <2>4, <2>5, <2>6, <2>7, <2>8, <2>9, Framed DEF Mine
<1>4. CASE /\ SaveFailed(c, "none") /\ child[c].owner # "abandon"
           /\ UNCHANGED <<unproven, queue>>
           /\ child' = [child EXCEPT ![c].close = "none"]
  <2>1. Became(c, child[c].owner, child[c].pub, child[c].turn, child[c].table, child[c].result, "none")
    BY <1>1, <1>4 DEF Became, Row, Owner, Startup
  <2>2. /\ meta' \in [Children -> {"none", "pending", "active", "closed"}] /\ meta'[c] \in {"none", meta[c]}
        /\ \A d \in Children \ {c} : meta'[d] = meta[d]
    BY <1>1, <1>4, Saves
  <2>3. Apart(c)
    BY <1>1, <1>4, <2>1, <2>2 DEF Apart, Became
  <2>4. SlotInv'
    BY <1>1, <1>4, <2>1, <2>2, <2>3, SlotsKept DEF Holds, Waits, Startup, Became, Mine, RowInv
  <2>5. SubagentsTypeOK'
    BY <1>1, <1>4, <2>1, <2>2 DEF SubagentsTypeOK, Became
  <2>6. RowInv(c)'
    BY <1>1, <1>4, <2>1, <2>2 DEF Mine, RowInv, Became
  <2>7. RecordInv(c)'
    BY <1>1, <1>4, <2>1, <2>2 DEF Mine, RowInv, RecordInv, Became
  <2>8. LogInv(c)'
    BY <1>1, <1>4, <2>1, <2>2 DEF Mine, RowInv, LogInv, Unborn, Live, Over, Open, Became
  <2>9. EndInv(c)'
    BY <1>1, <1>4, <2>1, <2>2 DEF Mine, RowInv, EndInv, Startup, Became
  <2> QED BY <1>1, <1>4, <2>1, <2>2, <2>3, <2>4, <2>5, <2>6, <2>7, <2>8, <2>9, Framed DEF Mine
<1> QED BY <1>2, <1>3, <1>4 DEF remove_record, CloseGivesUp

-----------------------------------------------------------------------------
(* The parent's cleanup. *)

\* A step of the cleanup that touches no child.
LEMMA EndMoves ==
    ASSUME IInv, Up, UNCHANGED <<child, slotVars, callVars, actor, diskVars, sink, phase>>,
           ending' \in [stage : Stages, failed : BOOLEAN, left : SUBSET Children,
                        awaited : SUBSET Children],
           ending'.stage = "no" => ending.stage = "no", \A c \in Children : EndInv(c)'
    PROVE  IInv'
<1>1. \A c \in Children : RowInv(c) /\ RecordInv(c) /\ LogInv(c)
  BY DEF IInv
<1>2. SubagentsTypeOK' /\ SlotInv'
  BY DEF IInv, SubagentsTypeOK, SlotInv, Holds, Waits, Waiting
<1>3. \A c \in Children : (RowInv(c) /\ RecordInv(c))'
  BY <1>1 DEF RowInv, RecordInv
<1>4. \A c \in Children : (LogInv(c) /\ DownInv(c))'
  BY <1>1 DEF LogInv, DownInv, Unborn, Live, Over, Open
<1> QED BY <1>2, <1>3, <1>4 DEF IInv

LEMMA EndingInv ==
    ASSUME IInv, end_session \/ settle_startups \/ drain_queue \/ suspended \/ settle_effects
    PROVE  IInv'
<1>1. /\ Up /\ UNCHANGED <<child, slotVars, callVars, actor, diskVars, sink, phase>>
  BY DEF end_session, settle_startups, drain_queue, suspended, settle_effects, Serving
<1>2. /\ ending \in [stage : Stages, failed : BOOLEAN, left : SUBSET Children,
                     awaited : SUBSET Children]
      /\ \A c \in Children : RowInv(c) /\ EndInv(c) /\ child[c] \in Row
  BY DEF IInv, SubagentsTypeOK
<1>3. CASE end_session
  <2>1. /\ ending.stage = "no" /\ ending' = [ending EXCEPT !.stage = "settle"]
        /\ \A c \in Children : child[c].close = "none"
    BY <1>3 DEF end_session, Serving
  <2>2. \A c \in Children : EndInv(c)'
    BY <1>1, <1>2, <2>1 DEF EndInv
  <2> QED BY <1>1, <1>2, <2>1, <2>2, EndMoves DEF Stages
<1>4. CASE settle_startups
  <2>1. /\ ending.stage = "settle"
        /\ ending' = [ending EXCEPT !.stage = "drain", !.failed = @ \/ unproven # {}]
        /\ \A c \in Children : unproven = {} => child[c].owner \notin Startup
    BY <1>4 DEF settle_startups, Starting
  <2>2. \A c \in Children : EndInv(c)'
    BY <1>1, <1>2, <2>1 DEF EndInv
  <2>3. ending' \in [stage : Stages, failed : BOOLEAN, left : SUBSET Children,
                     awaited : SUBSET Children]
    BY <1>2, <2>1 DEF Stages
  <2> QED BY <1>1, <2>1, <2>2, <2>3, EndMoves
<1>5. CASE drain_queue
  <2>1. CASE queue # {}
    <3>1. ending' = ending
      BY <1>5, <2>1 DEF drain_queue
    <3>2. \A c \in Children : EndInv(c)'
      BY <1>1, <1>2, <3>1 DEF EndInv
    <3> QED BY <1>1, <1>2, <3>1, <3>2, EndMoves
  <2>2. CASE queue = {}
    <3> DEFINE h == {c \in Children : child[c].table # "none"}
               w == {c \in h : child[c].table = "active"}
    <3>1. /\ ending.stage = "drain"
          /\ ending' = [ending EXCEPT !.stage = "suspend", !.left = h, !.awaited = w]
      BY <1>5, <2>2 DEF drain_queue
    <3>2. \A c \in Children : /\ c \in h <=> child[c].table # "none"
                              /\ c \in w <=> child[c].table = "active"
      OBVIOUS
    <3>3. h \in SUBSET Children /\ w \in SUBSET Children
      OBVIOUS
    <3> HIDE DEF h, w
    <3>4. /\ ending'.stage = "suspend" /\ ending'.failed = ending.failed
          /\ ending'.left = h /\ ending'.awaited = w
          /\ ending' \in [stage : Stages, failed : BOOLEAN, left : SUBSET Children,
                          awaited : SUBSET Children]
      BY <1>2, <3>1, <3>3 DEF Stages
    <3>5. \A c \in Children : EndInv(c)'
      BY <1>1, <1>2, <2>2, <3>1, <3>2, <3>4 DEF EndInv, RowInv
    <3> QED BY <1>1, <3>4, <3>5, EndMoves
  <2> QED BY <2>1, <2>2
<1>6. CASE suspended
  <2>1. /\ ending.stage = "suspend" /\ ending.left = {}
        /\ ending' = [ending EXCEPT !.stage = "prove"]
    BY <1>6 DEF suspended
  <2>2. \A c \in Children : EndInv(c)'
    BY <1>1, <1>2, <2>1 DEF EndInv
  <2> QED BY <1>1, <1>2, <2>1, <2>2, EndMoves DEF Stages
<1>7. CASE settle_effects
  <2>1. /\ ending.stage = "prove"
        /\ ending' = [ending EXCEPT !.stage = IF ending.failed \/ unproven # {} THEN "failed" ELSE "ok"]
    BY <1>7 DEF settle_effects, Verdict
  <2>2. \A c \in Children : EndInv(c)'
    BY <1>1, <1>2, <2>1 DEF EndInv
  <2>3. ending' \in [stage : Stages, failed : BOOLEAN, left : SUBSET Children,
                     awaited : SUBSET Children]
    BY <1>2, <2>1 DEF Stages
  <2>4. ending'.stage # "no"
    BY <1>2, <2>1
  <2> QED BY <1>1, <2>2, <2>3, <2>4, EndMoves
<1> QED BY <1>3, <1>4, <1>5, <1>6, <1>7

\* A child that is suspended and has nothing to answer for is forgotten; its turn
\* is over by then.
LEMMA SuspendInv == ASSUME IInv, NEW c \in Children, suspend_child(c) PROVE IInv'
<1> DEFINE done == c \notin ending.awaited \/ child[c].result = "ok"
           table == IF done THEN "none" ELSE child[c].table
<1>1. /\ SubagentsTypeOK /\ SlotInv /\ Mine(c) /\ Up
      /\ child[c] \in Row /\ child \in [Children -> Row]
      /\ ending.stage = "suspend" /\ c \in ending.left
      /\ ending \in [stage : Stages, failed : BOOLEAN, left : SUBSET Children,
                     awaited : SUBSET Children]
      /\ UNCHANGED <<slotVars, callVars, cancelled, diskVars, sink, phase, crashes>>
  BY DEF IInv, Mine, SubagentsTypeOK, suspend_child
<1>2. \A d \in Children : RowInv(d) /\ RecordInv(d) /\ LogInv(d) /\ EndInv(d)
  BY DEF IInv
<1>3. CASE /\ c \in ending.awaited => child[c].result # "pending"
           /\ actor' = actor \ {c}
           /\ child' = [child EXCEPT ![c].table = IF done THEN "none" ELSE @]
           /\ ending' = [ending EXCEPT !.left = @ \ {c}, !.failed = @ \/ ~ done]
  <2>1. table \in Table
    BY <1>1 DEF Row, Table
  <2>2. child' = [child EXCEPT ![c].table = table]
    BY <1>3
  <2>3. done \in BOOLEAN /\ (done => table = "none") /\ (~ done => table = child[c].table)
        /\ (done <=> (c \notin ending.awaited \/ child[c].result = "ok"))
    OBVIOUS
  <2>4. /\ ending'.stage = "suspend" /\ ending'.left = ending.left \ {c}
        /\ ending'.awaited = ending.awaited
        /\ ending'.failed <=> (ending.failed \/ ~ done)
        /\ ending' \in [stage : Stages, failed : BOOLEAN, left : SUBSET Children,
                        awaited : SUBSET Children]
    BY <1>1, <1>3, <2>3
  <2> HIDE DEF done, table
  <2>5. Became(c, child[c].owner, child[c].pub, child[c].turn, table, child[c].result, child[c].close)
    BY <1>1, <2>1, <2>2 DEF Became, Row
  <2>6. child[c].turn = "none" /\ (done => child[c].table # "active")
    BY <1>1, <1>3, <2>3 DEF Mine, RowInv, EndInv
  <2>7. Apart(c)
    BY <1>1, <1>3, <2>5 DEF Apart, Became
  <2>8. SlotInv'
    BY <1>1, <2>5, <2>7, SlotsKept DEF Holds, Waits, Became
  <2>9. SubagentsTypeOK'
    BY <1>1, <1>3, <2>4, <2>5 DEF SubagentsTypeOK, Became
  <2>10. RowInv(c)'
    BY <1>1, <1>3, <2>3, <2>5, <2>6 DEF Mine, RowInv, Became
  <2>11. RecordInv(c)'
    BY <1>1, <2>3, <2>4, <2>5 DEF Mine, RecordInv, Became
  <2>12. LogInv(c)'
    <3>1. done /\ child[c].table # "none" /\ sink = "open" => ~ Open(c)
      BY <1>1, <2>6 DEF Mine, LogInv, EndInv, Over, Row, Table, RowInv
    <3> QED BY <1>1, <2>3, <2>5, <2>6, <3>1 DEF Mine, LogInv, Unborn, Live, Over, Open, Became
  <2>13. \A d \in Children : EndInv(d)'
    BY <1>1, <1>2, <2>3, <2>4, <2>5 DEF EndInv, Became
  <2>14. \A d \in Children \ {c} : (RowInv(d) /\ RecordInv(d) /\ LogInv(d))'
    BY <1>1, <1>2, <2>4, <2>7 DEF Apart, RowInv, RecordInv, LogInv, Unborn, Live, Over, Open
  <2>15. \A d \in Children : DownInv(d)'
    BY <1>1 DEF DownInv
  <2> QED BY <2>8, <2>9, <2>10, <2>11, <2>12, <2>13, <2>14, <2>15 DEF IInv
<1>4. CASE /\ actor' \in {actor, actor \ {c}} /\ UNCHANGED child
           /\ ending' = [ending EXCEPT !.left = @ \ {c}, !.failed = TRUE]
  <2>1. /\ ending'.stage = "suspend" /\ ending'.failed /\ ending'.left = ending.left \ {c}
        /\ ending'.awaited = ending.awaited
        /\ ending' \in [stage : Stages, failed : BOOLEAN, left : SUBSET Children,
                        awaited : SUBSET Children]
    BY <1>1, <1>4
  <2>2. SubagentsTypeOK' /\ SlotInv'
    BY <1>1, <1>4, <2>1 DEF SubagentsTypeOK, SlotInv, Holds, Waits, Waiting
  <2>3. \A d \in Children : (RowInv(d) /\ RecordInv(d))'
    BY <1>1, <1>2, <1>4, <2>1 DEF RowInv, RecordInv
  <2>4. \A d \in Children : (LogInv(d) /\ DownInv(d))'
    BY <1>1, <1>2, <1>4 DEF LogInv, DownInv, Unborn, Live, Over, Open
  <2>5. \A d \in Children : EndInv(d)'
    BY <1>1, <1>2, <1>4, <2>1 DEF EndInv
  <2> QED BY <2>2, <2>3, <2>4, <2>5 DEF IInv
<1> QED BY <1>3, <1>4 DEF suspend_child

-----------------------------------------------------------------------------
(* The process dies and comes back. *)

LEMMA CrashInv == ASSUME IInv, crash PROVE IInv'
<1>1. /\ phase' = "down" /\ child' = [c \in Children |-> Absent]
      /\ permit' = {} /\ line' = << >> /\ queue' = {} /\ unproven' = {}
      /\ actor' = {} /\ sink' = "open" /\ ending' = NotEnding /\ UNCHANGED diskVars
  BY DEF crash
<1>2. \A c \in Children : RecordInv(c) /\ LogInv(c)
  BY DEF IInv
<1>3. Absent \in Row
  BY DEF Absent, Row, Owner, Turn, Table
<1>4. NotEnding \in [stage : Stages, failed : BOOLEAN, left : SUBSET Children,
                     awaited : SUBSET Children]
  BY DEF NotEnding, Stages
<1>5. SubagentsTypeOK'
  BY <1>1, <1>3, <1>4 DEF IInv, SubagentsTypeOK
<1>6. SlotInv'
  BY <1>1 DEF SlotInv, Waiting
<1>7. \A c \in Children :
          /\ child'[c].owner = "idle" /\ child'[c].pub = "unattempted" /\ child'[c].turn = "none"
          /\ child'[c].table = "none" /\ child'[c].result = "ok" /\ child'[c].close = "none"
  BY <1>1 DEF Absent
<1>8. \A c \in Children : (RowInv(c) /\ RecordInv(c))'
  BY <1>1, <1>2, <1>7 DEF RowInv, RecordInv
<1>9. \A c \in Children : LogInv(c)'
  BY <1>1, <1>2, <1>7 DEF LogInv, Unborn, Live, Over, Open
<1>10. \A c \in Children : (EndInv(c) /\ DownInv(c))'
  BY <1>1, <1>7 DEF EndInv, DownInv, NotEnding
<1> QED BY <1>5, <1>6, <1>8, <1>9, <1>10 DEF IInv

LEMMA RepairInv == ASSUME IInv, repair_incomplete_subagent_lifecycles PROVE IInv'
<1>1. /\ phase = "down" /\ phase' = "load"
      /\ log' = [c \in Children |-> IF Open(c) THEN Append(log[c], "finished") ELSE log[c]]
      /\ UNCHANGED <<child, slotVars, callVars, actor, meta, sink, ending>>
  BY DEF repair_incomplete_subagent_lifecycles
<1>2. SubagentsTypeOK /\ SlotInv
      /\ \A c \in Children : RowInv(c) /\ RecordInv(c) /\ LogInv(c) /\ EndInv(c) /\ DownInv(c)
  BY DEF IInv
<1>3. ASSUME NEW c \in Children
      PROVE  /\ log'[c] \in Seq(Event) /\ Alternates(log'[c]) /\ ~ OpenLog(log'[c])
             /\ log'[c] = << >> <=> log[c] = << >>
  <2>1. log[c] \in Seq(Event) /\ Alternates(log[c]) /\ (Open(c) <=> OpenLog(log[c]))
    BY <1>2 DEF SubagentsTypeOK, LogInv, Open, OpenLog
  <2>2. CASE Open(c)
    <3>1. log'[c] = Append(log[c], "finished") /\ "finished" \in Event /\ log[c] # << >>
      BY <1>1, <2>2 DEF Event, Open
    <3>2. Append(log[c], "finished") \in Seq(Event) /\ Append(log[c], "finished") # << >>
      BY <2>1, <3>1, AppendProperties
    <3> QED BY <2>1, <2>2, <3>1, <3>2, LogGrows
  <2>3. CASE ~ Open(c)
    BY <1>1, <2>1, <2>3
  <2> QED BY <2>2, <2>3
<1>4. SubagentsTypeOK'
  BY <1>1, <1>2, <1>3 DEF SubagentsTypeOK
<1>5. SlotInv'
  BY <1>1, <1>2 DEF SlotInv, Holds, Waits, Waiting
<1>6. \A c \in Children : (RowInv(c) /\ EndInv(c))'
  BY <1>1, <1>2 DEF RowInv, EndInv
<1>7. \A c \in Children : (RecordInv(c) /\ DownInv(c))'
  BY <1>1, <1>2, <1>3 DEF RecordInv, DownInv
<1>8. ASSUME NEW c \in Children PROVE LogInv(c)'
  BY <1>1, <1>2, <1>3 DEF LogInv, DownInv, Unborn, Open, OpenLog
<1> QED BY <1>4, <1>5, <1>6, <1>7, <1>8 DEF IInv

LEMMA RecoverInv == ASSUME IInv, NEW c \in Children, recover_subagent_tree(c) PROVE IInv'
<1>1. /\ phase = "load" /\ child[c].table = "none"
      /\ UNCHANGED <<slotVars, callVars, actor, log, sink, ending>>
  BY DEF recover_subagent_tree
<1>2. /\ SubagentsTypeOK /\ SlotInv /\ child[c] \in Row /\ child \in [Children -> Row]
      /\ \A d \in Children : RowInv(d) /\ RecordInv(d) /\ LogInv(d) /\ EndInv(d) /\ DownInv(d)
  BY DEF IInv, SubagentsTypeOK
<1>3. PICK p \in {"none", "pending", "active", "closed"}, t \in {"none", "inactive"} :
          /\ meta' = [meta EXCEPT ![c] = p] /\ child' = [child EXCEPT ![c].table = t]
          /\ t = "inactive" => p = "active" /\ log[c] # << >>
          /\ p = "active" => log[c] # << >>
          /\ phase' \in {"load", "refused"}
  <2>1. CASE UNCHANGED <<child, meta>> /\ phase' \in {"load", "refused"}
    <3>1. meta' = [meta EXCEPT ![c] = meta[c]] /\ meta[c] \in {"none", "pending", "active", "closed"}
      BY <1>2, <2>1 DEF SubagentsTypeOK
    <3>2. child' = [child EXCEPT ![c].table = "none"]
      BY <1>1, <1>2, <2>1 DEF Row
    <3>3. meta[c] = "active" => log[c] # << >>
      BY <1>2 DEF RecordInv
    <3> QED BY <2>1, <3>1, <3>2, <3>3
  <2>2. CASE meta' = [meta EXCEPT ![c] = "none"] /\ UNCHANGED <<child, phase>>
    <3>1. child' = [child EXCEPT ![c].table = "none"]
      BY <1>1, <1>2, <2>2 DEF Row
    <3> QED BY <1>1, <2>2, <3>1
  <2>3. CASE /\ meta' = [meta EXCEPT ![c] = "active"] /\ log[c] # << >> /\ UNCHANGED phase
             /\ child' = [child EXCEPT ![c].table = "inactive"]
    BY <1>1, <2>3
  <2> QED BY <1>1, <2>1, <2>2, <2>3
      DEF recover_subagent_tree, discard_rewound_subagent_record, recover_record, refuse, Recorded
<1>4. Became(c, child[c].owner, child[c].pub, child[c].turn, t, child[c].result, child[c].close)
  BY <1>2, <1>3 DEF Became, Row, Table
<1>5. /\ meta' \in [Children -> {"none", "pending", "active", "closed"}] /\ meta'[c] = p
      /\ \A d \in Children \ {c} : meta'[d] = meta[d]
  BY <1>2, <1>3 DEF SubagentsTypeOK
<1>6. SubagentsTypeOK'
  BY <1>1, <1>2, <1>3, <1>4, <1>5 DEF SubagentsTypeOK, Became
<1>7. SlotInv'
  BY <1>1, <1>2 DEF SlotInv, DownInv, Waiting
<1>8. \A d \in Children : DownInv(d)'
  BY <1>1, <1>2, <1>3, <1>4 DEF DownInv, Became
<1>9. \A d \in Children : RowInv(d)'
  BY <1>1, <1>2, <1>4 DEF RowInv, DownInv, Became
<1>10. \A d \in Children : RecordInv(d)'
  BY <1>1, <1>2, <1>3, <1>4, <1>5 DEF RecordInv, DownInv, Became
<1>11. \A d \in Children : LogInv(d)'
  BY <1>1, <1>2, <1>3, <1>4 DEF LogInv, DownInv, Unborn, Open, Became
<1>12. \A d \in Children : EndInv(d)'
  BY <1>1, <1>2, <1>4 DEF EndInv, DownInv, NotEnding, Became
<1> QED BY <1>6, <1>7, <1>8, <1>9, <1>10, <1>11, <1>12 DEF IInv

LEMMA RecoveredInv == ASSUME IInv, recovered PROVE IInv'
<1>1. /\ phase = "load" /\ phase' = "up"
      /\ \A c \in Children : meta[c] # "none" => child[c].table # "none"
      /\ UNCHANGED <<child, slotVars, callVars, actor, diskVars, sink, ending>>
  BY DEF recovered
<1>2. SubagentsTypeOK /\ SlotInv
      /\ \A c \in Children : RowInv(c) /\ RecordInv(c) /\ LogInv(c) /\ EndInv(c) /\ DownInv(c)
  BY DEF IInv
<1>3. SubagentsTypeOK' /\ SlotInv'
  BY <1>1, <1>2 DEF SubagentsTypeOK, SlotInv, Holds, Waits, Waiting
<1>4. \A c \in Children : (RowInv(c) /\ EndInv(c) /\ DownInv(c))'
  BY <1>1, <1>2 DEF RowInv, EndInv, DownInv
<1>5. \A c \in Children : RecordInv(c)'
  BY <1>1, <1>2 DEF RecordInv, DownInv
<1>6. \A c \in Children : LogInv(c)'
  BY <1>1, <1>2 DEF LogInv, DownInv, Unborn, Live, Over, Open
<1> QED BY <1>3, <1>4, <1>5, <1>6 DEF IInv

-----------------------------------------------------------------------------
(* The results. *)

LEMMA InitInv == Init => IInv
<1> SUFFICES ASSUME Init PROVE IInv
  OBVIOUS
<1>1. Absent \in Row /\ << >> \in Seq(Event) /\ << >> \in Seq(Children) /\ Len(<< >>) = 0
  BY EmptySeq DEF Absent, Row, Owner, Turn, Table
<1>2. SubagentsTypeOK
  BY <1>1 DEF Init, SubagentsTypeOK, NotEnding, Stages
<1>3. SlotInv
  BY DEF Init, SlotInv, Waiting
<1>4. \A c \in Children :
          /\ child[c].owner = "idle" /\ child[c].pub = "unattempted" /\ child[c].turn = "none"
          /\ child[c].table = "none" /\ child[c].result = "ok" /\ child[c].close = "none"
          /\ meta[c] = "none" /\ log[c] = << >>
  BY DEF Init, Absent
<1>5. \A c \in Children : RowInv(c) /\ RecordInv(c) /\ EndInv(c) /\ DownInv(c)
  BY <1>4 DEF Init, RowInv, RecordInv, EndInv, DownInv, NotEnding
<1>6. \A c \in Children : LogInv(c)
  BY <1>1, <1>4 DEF Init, LogInv, Alternates, Unborn, Live, Over, Open
<1> QED BY <1>2, <1>3, <1>5, <1>6 DEF IInv

LEMMA NextInv == IInv /\ [Next]_vars => IInv'
<1> SUFFICES ASSUME IInv, [Next]_vars PROVE IInv'
  OBVIOUS
<1>1. ASSUME NEW c \in Children, OwnerStep(c) PROVE IInv'
  BY <1>1, AcquireSlotsInv, CreateInv, SavePendingInv, SpawnedInv, SaveActiveInv, ReplyInv,
     UnclaimedInv, UndoSessionInv, UndoRecordInv, UndoFinishInv, UndoRemoveInv,
     PublishStartFailureInv, LeaveQueueInv DEF OwnerStep
<1>2. ASSUME NEW c \in Children, TurnStep(c) PROVE IInv'
  BY <1>2, ContinuedInv, AwaitSlotInv, RunTurnInv, FinishedInv, SettleTurnInv DEF TurnStep
<1>3. ASSUME NEW c \in Children, CloseStep(c) PROVE IInv'
  BY <1>3, CloseSessionInv, RemoveRecordInv DEF CloseStep
<1>4. ASSUME NEW c \in Children, ParentStep(c) PROVE IInv'
  BY <1>4, SubmitInv, ContinueChildInv, CallInv, CloseInv, DropContinueInv DEF ParentStep
<1>5. CASE end_session \/ EndStep
  BY <1>5, EndingInv, SuspendInv DEF EndStep
<1>6. CASE crash
  BY <1>6, CrashInv
<1>7. CASE LoadStep
  BY <1>7, RepairInv, RecoverInv, RecoveredInv DEF LoadStep
<1>8. CASE UNCHANGED vars
  <2>1. UNCHANGED <<child, slotVars, queue, unproven, actor, diskVars, sink, runVars>>
    BY <1>8 DEF vars
  <2>2. \A d \in Children : RowInv(d) /\ RecordInv(d) /\ LogInv(d) /\ EndInv(d) /\ DownInv(d)
    BY DEF IInv
  <2>3. SubagentsTypeOK' /\ SlotInv'
    BY <2>1 DEF IInv, SubagentsTypeOK, SlotInv, Holds, Waits, Waiting
  <2>4. \A d \in Children : (RowInv(d) /\ RecordInv(d))'
    BY <2>1, <2>2 DEF RowInv, RecordInv
  <2>5. \A d \in Children : (LogInv(d) /\ EndInv(d) /\ DownInv(d))'
    BY <2>1, <2>2 DEF LogInv, EndInv, DownInv, Unborn, Live, Over, Open
  <2> QED BY <2>3, <2>4, <2>5 DEF IInv
<1> QED BY <1>1, <1>2, <1>3, <1>4, <1>5, <1>6, <1>7, <1>8 DEF Next

LEMMA AlwaysInv == Spec => []IInv
BY InitInv, NextInv, PTL DEF Spec

\* However a child's startup, its turns, its cleanup or the process ended, its
\* spawned and finished events alternate in the parent's journal, and a child whose
\* startup is over and for which no turn task runs has finished, as long as the
\* journal takes events, unless its startup is reported as unproven or its follow-up
\* call was dropped in mid-commit (lifecycle.rs, publication.rs, startup.rs,
\* subagent_recovery.rs).
THEOREM LifecyclesAlwaysBracketed == Spec => []LifecyclesBracketed
<1>1. IInv => LifecyclesBracketed
  <2> SUFFICES ASSUME IInv, NEW c \in Children
               PROVE  /\ \A i \in 1..Len(log[c]) : (log[c][i] = "spawned") = (i % 2 = 1)
                      /\ Up /\ child[c].owner = "idle" /\ child[c].turn = "none"
                         /\ sink = "open" /\ c \notin unproven /\ child[c].result # "dropped"
                         => ~ Open(c)
    BY DEF LifecyclesBracketed
  <2>1. LogInv(c) /\ RowInv(c) /\ child[c] \in Row
    BY DEF IInv, SubagentsTypeOK
  <2>2. child[c].turn = "none" /\ child[c].result # "dropped" => child[c].table # "active"
    BY <2>1 DEF RowInv
  <2> QED BY <2>1, <2>2 DEF LogInv, Alternates, Over, Row, Table
<1> QED BY <1>1, AlwaysInv, PTL

\* A cleanup of the parent that reports success left no child session, no turn, no
\* startup, no queued child and no running slot behind, whatever was under way when
\* it began (SubagentRuntime::end_session and settle_effects).
THEOREM EndIsAlwaysProof == Spec => []EndIsProof
<1>1. IInv => EndIsProof
  <2> SUFFICES ASSUME IInv, ending.stage = "ok"
               PROVE  /\ actor = {} /\ queue = {} /\ Starting = {} /\ permit = {}
                      /\ \A c \in Children : child[c].turn = "none"
    BY DEF EndIsProof
  <2>1. ASSUME NEW c \in Children
        PROVE  /\ child[c].turn = "none" /\ child[c].owner \notin Startup
               /\ c \notin actor /\ c \notin queue /\ c \notin permit
    <3>1. RowInv(c) /\ EndInv(c) /\ child[c] \in Row /\ (c \in permit => Holds(c))
      BY DEF IInv, SubagentsTypeOK, SlotInv
    <3>2. child[c].table = "none" /\ child[c].owner \notin Startup /\ c \notin unproven /\ c \notin queue
      BY <3>1 DEF EndInv
    <3>3. child[c].turn = "none" /\ child[c].owner # "queued" /\ c \notin actor
      BY <3>1, <3>2 DEF RowInv, Startup
    <3> QED BY <3>1, <3>2, <3>3 DEF Holds
  <2>2. permit \subseteq Children /\ actor \subseteq Children /\ queue \subseteq Children
    BY DEF IInv, SubagentsTypeOK
  <2> QED BY <2>1, <2>2 DEF Starting
<1> QED BY <1>1, AlwaysInv, PTL

\* A child the parent can still message has an Active record and a spawn in the
\* journal, so that a restart finds it, and a record a restart would revive belongs
\* to a child that is listed, starting or unproven (lifecycle.rs, registry.rs).
THEOREM RecordsAlwaysMatchChildren == Spec => []RecordsMatchChildren
<1>1. IInv => RecordsMatchChildren
  BY DEF IInv, RecordsMatchChildren, RecordInv
<1> QED BY <1>1, AlwaysInv, PTL

\* Recovery refuses to load only for a published child whose worktree is gone.
WorktreeLost ==
    phase = "refused" => \E c \in Isolated :
        meta[c] \in {"pending", "active"} /\ log[c] # << >> /\ c \notin tree

LEMMA RefusalStep == IInv /\ WorktreeLost /\ [Next]_vars => WorktreeLost'
<1> SUFFICES ASSUME IInv, WorktreeLost, [Next]_vars, phase' = "refused"
             PROVE  \E c \in Isolated :
                        meta'[c] \in {"pending", "active"} /\ log'[c] # << >> /\ c \notin tree'
  BY DEF WorktreeLost
<1>1. CASE UNCHANGED vars
  <2>1. UNCHANGED <<phase, meta, log, tree>>
    BY <1>1 DEF vars
  <2> QED BY <2>1 DEF WorktreeLost
<1>2. ASSUME NEW c \in Children, recover_subagent_tree(c)
      PROVE  \E d \in Isolated :
                 meta'[d] \in {"pending", "active"} /\ log'[d] # << >> /\ d \notin tree'
  <2>1. phase = "load" /\ log' = log
    BY <1>2 DEF recover_subagent_tree
  <2>2. meta[c] = "active" => log[c] # << >>
    BY DEF IInv, RecordInv
  <2>3. /\ c \in Isolated /\ c \notin tree /\ meta[c] \in {"pending", "active"} /\ log[c] # << >>
        /\ UNCHANGED <<meta, tree>>
    BY <1>2, <2>1, <2>2
    DEF recover_subagent_tree, discard_rewound_subagent_record, recover_record, refuse
  <2> QED BY <2>1, <2>3
<1>3. ASSUME NEW c \in Children, OwnerStep(c) PROVE FALSE
  BY <1>3 DEF OwnerStep, acquire_slots, create, save_pending, spawned, save_active, reply, unclaimed,
       undo_session, undo_record, undo_finish, undo_remove, publish_start_failure, leave_queue
<1>4. ASSUME NEW c \in Children, TurnStep(c) \/ CloseStep(c) \/ ParentStep(c) PROVE FALSE
  BY <1>4 DEF TurnStep, CloseStep, ParentStep, continued, await_slot, run_turn, finished, settle_turn,
       close_session, remove_record, submit, continue_child, cancel, close, drop_caller,
       drop_continue, Serving
<1>5. CASE end_session \/ EndStep \/ crash
  BY <1>5 DEF end_session, EndStep, crash, settle_startups, drain_queue, suspended, settle_effects,
       suspend_child, Serving
<1>6. CASE repair_incomplete_subagent_lifecycles \/ recovered
  BY <1>6 DEF repair_incomplete_subagent_lifecycles, recovered
<1> QED BY <1>1, <1>2, <1>3, <1>4, <1>5, <1>6 DEF Next, LoadStep

\* Killed at any point, the children are refused at the next start only if one that
\* owns a worktree was published and its worktree is no longer there: no other
\* combination of record and journal makes the recovery fail (subagent_recovery.rs).
THEOREM RefusedOnlyForWorktree == Spec => []WorktreeLost
<1>1. Init => WorktreeLost
  BY DEF Init, WorktreeLost
<1> QED BY <1>1, AlwaysInv, RefusalStep, PTL DEF Spec

\* Where no child owns a worktree, the session can always be resumed.
THEOREM ResumeAlwaysLoads == Isolated = {} => (Spec => []ResumeLoads)
<1> SUFFICES ASSUME Isolated = {} PROVE Spec => []ResumeLoads
  OBVIOUS
<1>1. WorktreeLost => ResumeLoads
  BY DEF WorktreeLost, ResumeLoads
<1> QED BY <1>1, RefusedOnlyForWorktree, PTL

=============================================================================
