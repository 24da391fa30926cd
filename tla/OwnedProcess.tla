---------------------------- MODULE OwnedProcess ----------------------------
(***************************************************************************)
(* BlockingProcess (rw-resources/src/process.rs): a child process in a     *)
(* group of its own, owned together with an execution lease from spawn     *)
(* until the child has been reaped and its group is gone.  A launcher of   *)
(* ExecutionPool is a worker that owns one such process at a time.         *)
(*                                                                         *)
(* The operating system is external: a child exits and becomes a zombie,   *)
(* may leave descendants in its group, and once it is reaped and the group *)
(* is empty its number may name a stranger's group.  Pipes, identifiers    *)
(* and try_status (which looks without reaping) change nothing.            *)
(***************************************************************************)
EXTENDS ExecutionPool

VARIABLES
    owner,       \* what the owner of a process is doing
    child,       \* the child as the system sees it
    descendants, \* the launchers whose child left others in its group
    killed,      \* SIGKILL was sent to the group and the child
    group,       \* the launchers whose State.group is Some
    signalled,   \* the launchers whose State.signalled is set
    reused,      \* the group number names a group of somebody else
    struck       \* some signal was sent to a stranger's group

os == <<child, descendants, killed, reused, struck>>
procs == <<owner, child, descendants, killed, group, signalled, reused, struck>>
allVars == <<vars, procs>>

ProcessInit ==
    /\ Init
    /\ owner = [p \in Launchers |-> "none"]
    /\ child = [p \in Launchers |-> "none"]
    /\ descendants = {} /\ killed = {} /\ group = {} /\ signalled = {} /\ reused = {}
    /\ struck = FALSE

Goto(p, o) == owner' = [owner EXCEPT ![p] = o]

-----------------------------------------------------------------------------
(* spawn: the lease first, then the child; a failed spawn drops the lease. *)

spawn(p) ==
    /\ owner[p] = "none"
    /\ try_acquire(p)
    /\ Goto(p, "spawning")
    /\ UNCHANGED <<os, group, signalled>>

spawned(p) ==
    /\ owner[p] = "spawning"
    /\ Goto(p, "own")
    /\ child' = [child EXCEPT ![p] = "alive"]
    /\ group' = group \cup {p}
    /\ signalled' = signalled \ {p}
    /\ descendants' = descendants \ {p} /\ killed' = killed \ {p} /\ reused' = reused \ {p}
    /\ UNCHANGED <<vars, struck>>

spawn_fails(p) ==
    /\ owner[p] = "spawning"
    /\ release(p)
    /\ Goto(p, "none")
    /\ UNCHANGED <<os, group, signalled>>

(* Seeded fault: nothing is killed when the child itself has already exited. *)
signal_child_only(p) ==
    IF p \in signalled THEN UNCHANGED <<os, signalled>>
    ELSE /\ signalled' = signalled \cup {p}
         /\ killed' = IF child[p] = "alive" THEN killed \cup {p} ELSE killed
         /\ struck' = (struck \/ (p \in group /\ p \in reused))
         /\ UNCHANGED <<child, descendants, reused>>

-----------------------------------------------------------------------------
(* State::signal, at most once for a process. *)
signal(p) ==
    IF p \in signalled THEN UNCHANGED <<os, signalled>>
    ELSE /\ signalled' = signalled \cup {p}
         /\ killed' = IF p \in group \/ child[p] = "alive" THEN killed \cup {p} ELSE killed
         /\ struck' = (struck \/ (p \in group /\ p \in reused))
         /\ UNCHANGED <<child, descendants, reused>>

(* settle, and the destructor when the owner goes away without settling. *)
settle(p) ==
    /\ owner[p] = "own"
    /\ Goto(p, "settle")
    /\ signal(p)
    /\ UNCHANGED <<vars, group>>

drop(p) ==
    /\ owner[p] = "own"
    /\ Goto(p, "drop")
    /\ signal(p)
    /\ UNCHANGED <<vars, group>>

Probing(o) == IF o = "settle" THEN "settle_probe" ELSE "drop_probe"
Polling(o) == IF o = "settle_probe" THEN "settle" ELSE "drop"

(* Seeded fault: looking at the status of a child that is still owned reaps it. *)
try_wait_early(p) ==
    /\ owner[p] \in {"own", "settle", "drop"}
    /\ Goto(p, IF owner[p] = "own" THEN "own" ELSE Probing(owner[p]))
    /\ child' = [child EXCEPT ![p] = IF @ = "zombie" THEN "reaped" ELSE @]
    /\ UNCHANGED <<vars, group, signalled, descendants, killed, reused, struck>>

(* retired, first half: reap the child if it has exited. *)
try_wait(p) ==
    /\ owner[p] \in {"settle", "drop"}
    /\ Goto(p, Probing(owner[p]))
    /\ child' = [child EXCEPT ![p] = IF @ = "zombie" THEN "reaped" ELSE @]
    /\ UNCHANGED <<vars, group, signalled, descendants, killed, reused, struck>>

GroupExists(p) == child[p] \in {"alive", "zombie"} \/ p \in descendants \/ p \in reused

(* Seeded fault: a reaped child is enough, whoever is left in its group. *)
Retired_child(p) == child[p] = "reaped"

(* retired, second half: the group number is given up as soon as nobody has
   it; while somebody has it the process is not retired. *)
Retired(p) == (p \in group => ~GroupExists(p)) /\ child[p] = "reaped"

(* The lease goes back to the pool with the state that is dropped. *)
probe(p) ==
    /\ owner[p] \in {"settle_probe", "drop_probe"}
    /\ group' = IF p \in group /\ GroupExists(p) THEN group ELSE group \ {p}
    /\ IF Retired(p) THEN Goto(p, "none") /\ release(p)
                     ELSE Goto(p, Polling(owner[p])) /\ UNCHANGED vars
    /\ UNCHANGED <<os, signalled>>

(* The destructor waits two seconds; then it leaks the process with its lease. *)
leak(p) ==
    /\ owner[p] = "drop"
    /\ Goto(p, "leaked")
    /\ UNCHANGED <<vars, os, group, signalled>>

-----------------------------------------------------------------------------
(* The operating system. *)

child_exits(p) ==
    /\ child[p] = "alive"
    /\ child' = [child EXCEPT ![p] = "zombie"]
    /\ UNCHANGED <<vars, owner, descendants, killed, group, signalled, reused, struck>>

forks(p) ==
    /\ child[p] = "alive" /\ p \notin killed
    /\ descendants' = descendants \cup {p}
    /\ UNCHANGED <<vars, owner, child, killed, group, signalled, reused, struck>>

descendants_exit(p) ==
    /\ p \in descendants
    /\ descendants' = descendants \ {p}
    /\ UNCHANGED <<vars, owner, child, killed, group, signalled, reused, struck>>

reuse(p) ==
    /\ child[p] = "reaped" /\ p \notin descendants
    /\ reused' = reused \cup {p}
    /\ UNCHANGED <<vars, owner, child, descendants, killed, group, signalled, struck>>

-----------------------------------------------------------------------------
Owner(p) ==
    \/ spawn(p) \/ spawned(p) \/ spawn_fails(p)
    \/ settle(p) \/ drop(p) \/ try_wait(p) \/ probe(p) \/ leak(p)

System(p) == child_exits(p) \/ forks(p) \/ descendants_exit(p) \/ reuse(p)

ProcessNext ==
    \/ (Waiter \/ Run \/ Own) /\ UNCHANGED procs
    \/ \E p \in Launchers : Owner(p) \/ System(p)

ProcessSpec == ProcessInit /\ [][ProcessNext]_allVars

(* The owner's thread runs, what was killed dies, and once the two seconds are
   over every look at the clock sees it. *)
ProcessFairness ==
    \A p \in Launchers :
        /\ WF_allVars(try_wait(p) \/ probe(p))
        /\ SF_allVars(leak(p))
        /\ WF_allVars(p \in killed /\ (child_exits(p) \/ descendants_exit(p)))

FairProcessSpec == ProcessSpec /\ TimerFairness /\ ProcessFairness

-----------------------------------------------------------------------------
(* Properties *)

(* Whatever is left of a process is covered by a lease: the pool counts the
   process as long as the child has not been reaped or anyone is in its group
   (process.rs, retired), through settling, unwinding and leaking. *)
ProcessIsLeased ==
    \A p \in Launchers :
        (child[p] \in {"alive", "zombie"} \/ p \in descendants) => stage[p] = "held"

(* No signal is ever sent to a group number that has come to name somebody
   else's group (process.rs, "Never repeat a numeric signal after retirement
   has begun reaping"). *)
NeverSignalStranger == ~struck

(* Owners finish.  Settling ends once the killed processes are dead, unless
   the number was reused between the reaping and the probe of the group; a
   destructor ends even then, because after two seconds it leaks the process
   instead of blocking its thread. *)
OwnersFinish ==
    \A p \in Launchers :
        /\ (owner[p] = "settle") ~> (owner[p] = "none" \/ p \in reused)
        /\ (owner[p] = "drop") ~> (owner[p] \in {"none", "leaked"})

=============================================================================
