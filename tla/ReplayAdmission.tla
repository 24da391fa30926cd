--------------------------- MODULE ReplayAdmission ---------------------------
(***************************************************************************)
(* Admission of replay pages (live_events/budget.rs): every subscription   *)
(* that reads a page of its journal first reserves a whole window of the   *)
(* process-wide byte budget, behind a gate that is served first come first *)
(* served, and the credit stays with the page until its last delivery is   *)
(* dropped.                                                                *)
(*                                                                         *)
(* A reader is one refill of a subscription and the page that comes of it. *)
(* The counters are atomics and the wake-up is a Notify, so a release is   *)
(* two steps (subtract, then notify) that other readers may come between,  *)
(* and so are arming the wake-up and trying the reservation again.  A      *)
(* subscription dropped while its page is read changes nothing here: the   *)
(* reading task owns the credit, and its page is dropped when it is done.  *)
(***************************************************************************)
EXTENDS Integers, Sequences, FiniteSets, SequencesExt

CONSTANTS
    Readers,      \* refills that may be under way at once
    Window,       \* MAX_REPLAY_BYTES, what a read reserves
    Limit,        \* Budget.limit of the replay pool, two windows
    PageSizes,    \* what a prepared page may keep of its window
    MaxWaiters    \* limit of ReplayPool.waiters

ASSUME ReplayAssumption ==
    /\ IsFiniteSet(Readers)
    /\ Window \in Nat \ {0}
    /\ Limit \in Nat /\ Window <= Limit
    /\ PageSizes \subseteq 0..Window /\ PageSizes # {}
    /\ MaxWaiters \in Nat \ {0}

VARIABLES
    used,       \* Budget.used of the byte budget
    waiters,    \* Budget.used of ReplayPool.waiters
    counted,    \* Budget.waiters, calls inside reserve_wait
    gate,       \* ReplayPool.admission: its holder, then who waits for it
    armed,      \* readers whose Notified is registered with `changed'
    held,       \* the bytes of a reader's Credit
    stage       \* how far a reader has come

vars == <<used, waiters, counted, gate, armed, held, stage>>

Stages == {"idle", "gate", "counted", "armed", "parked", "granted",
           "reading", "shrunk", "page", "refund"}

Init ==
    /\ used = 0 /\ waiters = 0 /\ counted = 0
    /\ gate = <<>>
    /\ armed = {}
    /\ held = [r \in Readers |-> 0]
    /\ stage = [r \in Readers |-> "idle"]

Fits == used + Window <= Limit

Goes(r, s) == stage' = [stage EXCEPT ![r] = s]

-----------------------------------------------------------------------------
(* ReplayPool::admit *)

(* A slot among the waiting readers, and a place behind the gate.  With every
   slot taken the call is refused and changes nothing. *)
admit(r) ==
    /\ stage[r] = "idle"
    /\ waiters < MaxWaiters
    /\ waiters' = waiters + 1
    /\ gate' = Append(gate, r)
    /\ Goes(r, "gate")
    /\ UNCHANGED <<used, counted, armed, held>>

(* Budget::reserve: the whole window or nothing, in one compare and swap. *)
reserve(r) ==
    /\ Fits
    /\ used' = used + Window
    /\ held' = [held EXCEPT ![r] = Window]
    /\ Goes(r, "granted")

(* reserve_wait begins: the gate's holder tries once before it counts itself
   among the waiters. *)
reserve_first(r) ==
    /\ stage[r] = "gate"
    /\ Head(gate) = r
    /\ \/ reserve(r) /\ UNCHANGED counted
       \/ /\ ~Fits
          /\ counted < 64
          /\ counted' = counted + 1
          /\ Goes(r, "counted")
          /\ UNCHANGED <<used, held>>
    /\ UNCHANGED <<waiters, gate, armed>>

(* Notified::enable, before the reservation is tried again. *)
enable(r) ==
    /\ stage[r] = "counted"
    /\ armed' = armed \cup {r}
    /\ Goes(r, "armed")
    /\ UNCHANGED <<used, waiters, counted, gate, held>>

reserve_again(r) ==
    /\ stage[r] = "armed"
    /\ \/ reserve(r) /\ counted' = counted - 1 /\ armed' = armed \ {r}
       \/ ~Fits /\ Goes(r, "parked") /\ UNCHANGED <<used, held, counted, armed>>
    /\ UNCHANGED <<waiters, gate>>

(* A parked reader that was notified goes round the loop. *)
woken(r) ==
    /\ stage[r] = "parked"
    /\ r \notin armed
    /\ Goes(r, "counted")
    /\ UNCHANGED <<used, waiters, counted, gate, armed, held>>

(* With its credit in hand the reader lets the next one through the gate and
   spawns the task that reads the page. *)
admitted(r) ==
    /\ stage[r] = "granted"
    /\ gate' = Tail(gate)
    /\ waiters' = waiters - 1
    /\ Goes(r, "reading")
    /\ UNCHANGED <<used, counted, armed, held>>

(* The deadline passes, or the subscription's future is dropped, where the
   call waits: at the gate or for bytes.  Everything it owns goes with it. *)
expire(r) ==
    /\ stage[r] \in {"gate", "parked"}
    /\ gate' = RemoveFirst(gate, r)
    /\ waiters' = waiters - 1
    /\ counted' = IF stage[r] = "parked" THEN counted - 1 ELSE counted
    /\ armed' = armed \ {r}
    /\ Goes(r, "idle")
    /\ UNCHANGED <<used, held>>

-----------------------------------------------------------------------------
(* The page and its credit. *)

(* Seeded fault: the credit takes its new size before the difference is given
   back. *)
shrink_first(r, b) ==
    /\ stage[r] = "reading"
    /\ held' = [held EXCEPT ![r] = b]
    /\ Goes(r, "shrunk")
    /\ UNCHANGED <<used, waiters, counted, gate, armed>>

(* Credit::shrink first gives the bytes back; the page keeps b of them. *)
shrink(r, b) ==
    /\ stage[r] = "reading"
    /\ used' = used - (held[r] - b)
    /\ held' = [held EXCEPT ![r] = b]
    /\ Goes(r, "shrunk")
    /\ UNCHANGED <<waiters, counted, gate, armed>>

(* Seeded fault: a dropped credit wakes nobody. *)
drop_silent(r) ==
    /\ used' = used - held[r]
    /\ held' = [held EXCEPT ![r] = 0]
    /\ Goes(r, "idle")
    /\ UNCHANGED <<waiters, counted, gate, armed>>

(* Credit::drop: the read or the preparation failed, or the last delivery of
   the page is gone. *)
drop_credit(r) ==
    /\ used' = used - held[r]
    /\ held' = [held EXCEPT ![r] = 0]
    /\ Goes(r, "refund")
    /\ UNCHANGED <<waiters, counted, gate, armed>>

read_fails(r) == stage[r] = "reading" /\ drop_credit(r)

drop_page(r) == stage[r] = "page" /\ drop_credit(r)

(* Both then wake every registered waiter. *)
notify_waiters(r) ==
    /\ stage[r] \in {"shrunk", "refund"}
    /\ armed' = {}
    /\ Goes(r, IF stage[r] = "shrunk" THEN "page" ELSE "idle")
    /\ UNCHANGED <<used, waiters, counted, gate, held>>

read(r) == (\E b \in PageSizes : shrink(r, b)) \/ read_fails(r)

call(r) ==
    \/ reserve_first(r) \/ enable(r) \/ reserve_again(r) \/ woken(r) \/ admitted(r)

Next == \E r \in Readers :
    \/ admit(r) \/ call(r) \/ expire(r)
    \/ read(r) \/ drop_page(r) \/ notify_waiters(r)

(* Calls are polled once they are woken, and a page read is finite.  Nothing
   is assumed of the deadline or of the clients that keep a page. *)
Fairness == \A r \in Readers :
    WF_vars(call(r)) /\ WF_vars(read(r)) /\ WF_vars(notify_waiters(r))

Spec == Init /\ [][Next]_vars /\ Fairness

-----------------------------------------------------------------------------
(* Properties *)

Calling == {r \in Readers : stage[r] \in {"gate", "counted", "armed", "parked", "granted"}}

(* The bytes that are held, one by one. *)
Held == {x \in Readers \X (1..Window) : x[2] <= held[x[1]]}

(* Every byte and every slot that is taken belongs to a reader that will give
   it back: used is what the credits hold and stays within the limit, a slot
   is taken by each call of admit and by no other, at most the gate's holder
   waits for bytes (so the 64 of reserve_wait never refuses), and only a call
   under way can hold the gate or a registration. *)
CreditsAccounted ==
    /\ used = Cardinality(Held)
    /\ used <= Limit
    /\ waiters = Cardinality(Calling)
    /\ counted = Cardinality({r \in Readers : stage[r] \in {"counted", "armed", "parked"}})
    /\ counted <= 1
    /\ Len(gate) = waiters /\ {gate[i] : i \in DOMAIN gate} = Calling
    /\ armed \subseteq {r \in Readers : stage[r] \in {"armed", "parked"}}

(* If clients let go of their pages, every reader that waits at the gate or
   for bytes is admitted (or withdraws), without help from the deadline and
   however many readers come after it: no release goes unnoticed by the
   reader it makes room for, and nobody overtakes it. *)
ReadersServed ==
    (\A r \in Readers : WF_vars(drop_page(r)))
        => \A r \in Readers : r \in Calling ~> r \notin Calling
=============================================================================
