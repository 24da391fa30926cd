--------------------------- MODULE OrderedDelivery ---------------------------
(***************************************************************************)
(* What a session subscription promises, independently of rings, fences,   *)
(* pages and budgets: one growing log, and readers that each take its      *)
(* entries one at a time, in order, from the position they opened at.      *)
(***************************************************************************)
EXTENDS Naturals

CONSTANT Readers

VARIABLES
    log,     \* number of committed entries
    stage,   \* "none", "open", "ended", "gone"
    pos      \* entries up to pos have been handed to the reader

vars == <<log, stage, pos>>

Init ==
    /\ log = 0
    /\ stage = [r \in Readers |-> "none"]
    /\ pos = [r \in Readers |-> 0]

\* The log only grows.
Grow ==
    /\ log' \in Nat
    /\ log' > log
    /\ UNCHANGED <<stage, pos>>

\* A reader opens at a position p of the committed log (Next bounds p by log).
Open(r, p) ==
    /\ stage[r] = "none"
    /\ stage' = [stage EXCEPT ![r] = "open"]
    /\ pos' = [pos EXCEPT ![r] = p]
    /\ UNCHANGED log

\* The only way to move: exactly the next committed entry.
Take(r) ==
    /\ stage[r] = "open"
    /\ pos[r] < log
    /\ pos' = [pos EXCEPT ![r] = pos[r] + 1]
    /\ UNCHANGED <<log, stage>>

\* End of stream is only reported to a reader that has the whole log.
End(r) ==
    /\ stage[r] = "open"
    /\ pos[r] = log
    /\ stage' = [stage EXCEPT ![r] = "ended"]
    /\ UNCHANGED <<log, pos>>

\* A reader may give up, or be refused, at any time.
Leave(r) ==
    /\ stage[r] # "gone"
    /\ stage' = [stage EXCEPT ![r] = "gone"]
    /\ UNCHANGED <<log, pos>>

Next ==
    \/ Grow
    \/ \E r \in Readers :
          \/ \E p \in 0..log : Open(r, p)
          \/ Take(r)
          \/ End(r)
          \/ Leave(r)

Spec == Init /\ [][Next]_vars

=============================================================================
