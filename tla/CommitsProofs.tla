---------------------------- MODULE CommitsProofs ----------------------------
(***************************************************************************)
(* Proofs about JournalCommits, for every number of sessions, batches,     *)
(* permits and credits.  The properties are not inductive by themselves:   *)
(* that an unproved write is the last of its session rests on who holds    *)
(* the session's lock (LockInv) and on what a worker in each stage can     *)
(* still do (JobInv); that a shutdown proves something rests on the jobs   *)
(* it listed being all there will ever be (DoneInv).                       *)
(***************************************************************************)
EXTENDS JournalCommits, FiniteSetTheorems, TLAPS

\* Stages in which a batch holds its session's lock, and in which it is a job.
Held == Unproven \cup {"holding"}
Job == Unproven \cup {"releasing", "delivered"}

\* The order lock has at most one holder, a batch of its session, and exactly
\* the batches between its grant and their proof hold it.
LockInv ==
    /\ \A s \in Sessions : \A b \in order[s] : Session(b) = s /\ order[s] = {b}
    /\ \A b \in Batches : b \in order[Session(b)] <=> stage[b] \in Held

\* What the owner of a job keeps, and what its worker can be doing.
JobOK(b) ==
    /\ b \in retained <=> stage[b] \in Unproven
    /\ b \in jobs <=> stage[b] \in Job
    /\ b \in executing => stage[b] \in Unproven
    /\ worker[b] \in {"running", "landed"} =>
          b \in executing /\ stage[b] \in {"working", "expiring", "late"}
    /\ stage[b] \in {"idle", "reserved", "enabled", "ordering", "holding",
                     "refused", "queued"} => worker[b] = "none"
    /\ stage[b] \in {"releasing", "delivered", "settled"} => worker[b] = "ok"
    /\ completion[b] = "ok" => stage[b] = "settled"

JobInv == \A b \in Batches : JobOK(b)

\* Who holds the credit of a batch.
CreditOK(b) ==
    /\ stage[b] \in {"reserved", "enabled", "ordering", "releasing"} \cup Held => b \in credit
    /\ reply[b] = "ok" => stage[b] \in {"delivered", "settled"} /\ b \in credit
    /\ b \in abandoned => stage[b] \in Job \cup {"settled"}
    /\ b \in abandoned /\ stage[b] \in {"delivered", "settled"} => b \notin credit
    /\ stage[b] \in {"delivered", "settled"} => reply[b] # "none" \/ b \in abandoned

CreditInv == \A b \in Batches : CreditOK(b)

\* Batches are in the journal where they were numbered, and an unproved one can
\* only be the last.
LogInv ==
    /\ \A s \in Sessions : \A i \in 1..Len(log[s]) :
          /\ Session(log[s][i]) = s
          /\ first[log[s][i]] = i
          /\ worker[log[s][i]] \notin {"none", "running"}
          /\ stage[log[s][i]] \in Unproven => i = Len(log[s])
    /\ \A b \in Batches :
          worker[b] \in {"landed", "ok"} =>
              first[b] \in 1..Len(log[Session(b)]) /\ log[Session(b)][first[b]] = b

\* What shutdown can conclude from the completions it has seen.
DoneInv ==
    /\ shutdown # "none" =>
          state_closed /\ \A b \in Batches : stage[b] \in Job => b \in waits
    /\ shutdown = "proved" => \A b \in waits : completion[b] = "ok"

\* Permits are only given out up to their number.
PermitInv == Cardinality(executing) <= MaxExecuting

IInv ==
    /\ TypeOK
    /\ LockInv
    /\ JobInv
    /\ CreditInv
    /\ LogInv
    /\ DoneInv
    /\ PermitInv

-----------------------------------------------------------------------------

\* Entrants are batches or settlers, never both, and belong to sessions.
LEMMA EntrantFacts ==
    /\ \A b \in Batches : b \in Entrants /\ Session(b) \in Sessions /\ b \notin Settlers
    /\ \A e \in Settlers : e \in Entrants /\ Session(e) \in Sessions /\ e \notin Batches
    /\ \A e \in Entrants : e \in Batches \/ e \in Settlers
<1>1. Settling \subseteq Sessions
  BY CommitsAssumption
<1> QED BY <1>1 DEF Batches, Settlers, Entrants, Session

\* A session's reads belong to it.
LEMMA ReadFacts == \A r \in Reads : Session(r) \in Sessions
BY DEF Reads, Session

\* There are finitely many batches.
LEMMA BatchesAreFinite == IsFiniteSet(Batches)
<1>1. IsFiniteSet(Sessions) /\ IsFiniteSet(1..PerSession)
  BY CommitsAssumption, FS_Interval
<1> QED BY <1>1, FS_Product DEF Batches

\* The initial state satisfies the invariant.
LEMMA InitIInv == Init => IInv
<1> SUFFICES ASSUME Init PROVE IInv
  OBVIOUS
<1>1. TypeOK
  <2>1. CallTypeOK
    BY DEF Init, CallTypeOK, Stages, Unproven
  <2>2. JobTypeOK
    BY DEF Init, JobTypeOK
  <2>3. QueueTypeOK
    BY DEF Init, QueueTypeOK
  <2> QED BY <2>1, <2>2, <2>3 DEF TypeOK
<1>2. LockInv /\ JobInv /\ CreditInv
  BY EntrantFacts DEF Init, LockInv, JobInv, JobOK, CreditInv, CreditOK, Held, Job, Unproven
<1>3. LogInv /\ DoneInv
  BY EntrantFacts DEF Init, LogInv, DoneInv
<1>4. PermitInv
  <2>1. executing = {}
    BY DEF Init
  <2>2. Cardinality({}) = 0 /\ MaxExecuting \in Nat
    BY FS_EmptySet, CommitsAssumption
  <2> QED BY <2>1, <2>2 DEF PermitInv
<1> QED BY <1>1, <1>2, <1>3, <1>4 DEF IInv

-----------------------------------------------------------------------------
(* What each conjunct of the invariant needs of a step.                     *)

\* A step that neither gives nor takes the lock.
LEMMA LockKept ==
    ASSUME LockInv, stage \in [Entrants -> Stages],
           NEW e \in Entrants, NEW p,
           stage' = [stage EXCEPT ![e] = p], order' = order,
           e \in Batches => (p \in Held <=> stage[e] \in Held)
    PROVE  LockInv'
BY EntrantFacts DEF LockInv

\* A step in which the holder releases the lock.
LEMMA LockReleased ==
    ASSUME LockInv, stage \in [Entrants -> Stages], order \in [Sessions -> SUBSET Batches],
           NEW b \in Batches, NEW p, p \notin Held, stage[b] \in Held,
           stage' = [stage EXCEPT ![b] = p],
           order' = [order EXCEPT ![Session(b)] = {}]
    PROVE  LockInv'
BY EntrantFacts DEF LockInv

\* A step in which a batch takes the free lock.
LEMMA LockTaken ==
    ASSUME LockInv, stage \in [Entrants -> Stages], order \in [Sessions -> SUBSET Batches],
           NEW b \in Batches, NEW p, p \in Held, order[Session(b)] = {},
           stage' = [stage EXCEPT ![b] = p],
           order' = [order EXCEPT ![Session(b)] = {b}]
    PROVE  LockInv'
BY EntrantFacts DEF LockInv

\* One session never has two holders of its lock.
LEMMA OneHolder ==
    ASSUME LockInv, NEW b \in Batches, NEW c \in Batches, Session(c) = Session(b),
           stage[b] \in Held, stage[c] \in Held
    PROVE  b = c
BY EntrantFacts DEF LockInv

\* What a step on e leaves alone of every other batch.
Same(c) ==
    /\ stage'[c] = stage[c]
    /\ c \in retained' <=> c \in retained
    /\ c \in jobs' <=> c \in jobs
    /\ c \in executing' <=> c \in executing
    /\ worker'[c] = worker[c]
    /\ completion'[c] = completion[c]
    /\ c \in credit' <=> c \in credit
    /\ reply'[c] = reply[c]
    /\ c \in abandoned' <=> c \in abandoned

\* Job and credit facts of one batch are not disturbed by steps of another.
LEMMA OthersKept ==
    ASSUME JobInv, CreditInv, NEW e,
           \A c \in Batches : c # e => Same(c),
           e \in Batches => JobOK(e)' /\ CreditOK(e)'
    PROVE  JobInv' /\ CreditInv'
<1>1. ASSUME NEW c \in Batches, c # e PROVE JobOK(c)' /\ CreditOK(c)'
  <2>1. JobOK(c) /\ CreditOK(c) /\ Same(c)
    BY <1>1 DEF JobInv, CreditInv
  <2> QED BY <2>1 DEF JobOK, CreditOK, Same
<1> QED BY <1>1 DEF JobInv, CreditInv

\* Giving permits back keeps their bound.
LEMMA PermitKept ==
    ASSUME PermitInv, executing \subseteq Batches, executing' \subseteq executing
    PROVE  PermitInv'
<1>1. IsFiniteSet(executing)
  BY BatchesAreFinite, FS_Subset
<1>2. Cardinality(executing') <= Cardinality(executing) /\ IsFiniteSet(executing')
  BY <1>1, FS_Subset
<1>3. Cardinality(executing) \in Nat /\ Cardinality(executing') \in Nat /\ MaxExecuting \in Nat
  BY <1>1, <1>2, FS_CardinalityType, CommitsAssumption
<1> QED BY <1>2, <1>3 DEF PermitInv

\* What a step may do to the batch it is about: a batch that was written stays
\* so and is not put in doubt, a completion is kept, and no job starts after the
\* queue was closed.
Onward(b) ==
    /\ worker[b] \notin {"none", "running"} =>
          /\ worker'[b] \notin {"none", "running"}
          /\ stage'[b] \in Unproven => stage[b] \in Unproven
    /\ worker'[b] \in {"landed", "ok"} => worker[b] \in {"landed", "ok"}
    /\ completion[b] = "ok" => completion'[b] = "ok"
    /\ stage'[b] \in Job => stage[b] \in Job \/ ~state_closed

\* What most steps leave alone.
Frame ==
    /\ log' = log /\ first' = first
    /\ shutdown' = shutdown /\ waits' = waits
    /\ state_closed => state_closed'

\* The journals are kept by a step that is about one batch and writes nothing.
LEMMA LogKept ==
    ASSUME LogInv, JobTypeOK, log' = log, first' = first,
           NEW e, \A c \in Batches : c # e => Same(c), e \in Batches => Onward(e)
    PROVE  LogInv'
<1>1. \A s \in Sessions : \A i \in 1..Len(log[s]) : log[s][i] \in Batches
  BY DEF JobTypeOK
<1>2. ASSUME NEW c \in Batches
      PROVE  /\ worker[c] \notin {"none", "running"} =>
                   /\ worker'[c] \notin {"none", "running"}
                   /\ stage'[c] \in Unproven => stage[c] \in Unproven
             /\ worker'[c] \in {"landed", "ok"} => worker[c] \in {"landed", "ok"}
  BY DEF Same, Onward
<1> QED BY <1>1, <1>2 DEF LogInv

\* What shutdown knows is kept by such a step too.
LEMMA DoneKept ==
    ASSUME DoneInv, waits \subseteq Batches, Frame,
           NEW e, \A c \in Batches : c # e => Same(c), e \in Batches => Onward(e)
    PROVE  DoneInv'
<1>1. ASSUME NEW c \in Batches
      PROVE  /\ completion[c] = "ok" => completion'[c] = "ok"
             /\ stage'[c] \in Job => stage[c] \in Job \/ ~state_closed
  BY DEF Same, Onward
<1> QED BY <1>1 DEF DoneInv, Frame

\* A step about one entrant that writes nothing keeps the invariant when it keeps
\* the types, the lock and the facts of that entrant.
LEMMA LocalStep ==
    ASSUME IInv, NEW e, TypeOK', LockInv', Frame,
           executing' \subseteq executing,
           \A c \in Batches : c # e => Same(c),
           e \in Batches => JobOK(e)' /\ CreditOK(e)' /\ Onward(e)
    PROVE  IInv'
<1>1. JobInv' /\ CreditInv'
  BY OthersKept DEF IInv
<1>2. LogInv'
  BY LogKept DEF IInv, TypeOK, Frame
<1>3. DoneInv'
  BY DoneKept DEF IInv, TypeOK, QueueTypeOK
<1>4. PermitInv'
  BY PermitKept DEF IInv, TypeOK, JobTypeOK
<1> QED BY <1>1, <1>2, <1>3, <1>4 DEF IInv

-----------------------------------------------------------------------------
(* One lemma per action.                                                    *)

\* A new batch takes its credit and is numbered; it is in no journal yet.
LEMMA ReserveStep ==
    ASSUME IInv, NEW b \in Batches, reserve(b)
    PROVE  IInv'
<1>0. /\ b \in Entrants /\ Session(b) \in Sessions
      /\ TypeOK /\ LockInv /\ JobInv /\ CreditInv /\ LogInv /\ DoneInv /\ PermitInv
      /\ stage \in [Entrants -> Stages] /\ order \in [Sessions -> SUBSET Batches]
  BY EntrantFacts DEF IInv, TypeOK, CallTypeOK
<1>1. TypeOK'
  <2>1. CallTypeOK'
    BY <1>0, EntrantFacts DEF TypeOK, CallTypeOK, reserve, Goto, Stages, Unproven, callVars, jobVars, closeVars, shutVars, readVars
  <2>2. JobTypeOK'
    BY <1>0 DEF TypeOK, JobTypeOK, reserve, Goto, callVars, jobVars, closeVars, shutVars, readVars
  <2>3. QueueTypeOK'
    BY <1>0 DEF TypeOK, QueueTypeOK, reserve, Goto, callVars, jobVars, closeVars, shutVars, readVars
  <2> QED BY <2>1, <2>2, <2>3 DEF TypeOK
<1>2. LockInv'
  BY <1>0, LockKept DEF reserve, Goto, Held, Unproven
<1>3. \A c \in Batches : c # b => Same(c)
  BY <1>0, EntrantFacts DEF Same, TypeOK, CallTypeOK, JobTypeOK, reserve, Goto, callVars, jobVars, closeVars, shutVars, readVars
<1>4. JobOK(b) /\ CreditOK(b) /\ JobOK(b)' /\ CreditOK(b)'
  <2>1. JobOK(b) /\ CreditOK(b)
    BY <1>0 DEF JobInv, CreditInv
  <2>2. JobOK(b)'
    BY <1>0, <2>1 DEF JobOK, TypeOK, CallTypeOK, JobTypeOK, reserve, Goto, Job, Unproven, callVars, jobVars, closeVars, shutVars, readVars
  <2>3. CreditOK(b)'
    BY <1>0, <2>1 DEF CreditOK, JobOK, TypeOK, CallTypeOK, JobTypeOK, reserve, Goto, Held, Job, Unproven, callVars, jobVars, closeVars, shutVars, readVars
  <2> QED BY <2>1, <2>2, <2>3
<1>5. JobInv' /\ CreditInv'
  BY <1>0, <1>3, <1>4, OthersKept
<1>6. LogInv'
  <2>1. /\ log' = log /\ worker' = worker
        /\ \A c \in Batches : c # b => first'[c] = first[c] /\ stage'[c] = stage[c]
    BY <1>0 DEF TypeOK, CallTypeOK, reserve, Goto, jobVars
  <2>2. worker[b] = "none"
    BY <1>0, <1>4 DEF JobOK, reserve
  <2>3. \A s \in Sessions : \A i \in 1..Len(log[s]) : log[s][i] \in Batches
    BY <1>0 DEF TypeOK, JobTypeOK
  <2> QED BY <1>0, <2>1, <2>2, <2>3 DEF LogInv
<1>7. DoneInv'
  <2>1. \A c \in Batches : stage'[c] \in Job => stage[c] \in Job
    BY <1>0 DEF reserve, Goto, Job, Unproven
  <2> QED BY <1>0, <2>1 DEF DoneInv, reserve, jobVars, closeVars, shutVars
<1>8. PermitInv'
  BY <1>0 DEF PermitInv, reserve, jobVars
<1> QED BY <1>1, <1>2, <1>5, <1>6, <1>7, <1>8 DEF IInv

\* settle_effects starts.
LEMMA SettleEffectsStep ==
    ASSUME IInv, NEW e \in Settlers, settle_effects(e)
    PROVE  IInv'
<1>0. /\ e \in Entrants /\ Session(e) \in Sessions
      /\ TypeOK /\ LockInv /\ JobInv /\ CreditInv
      /\ stage \in [Entrants -> Stages] /\ order \in [Sessions -> SUBSET Batches]
  BY EntrantFacts DEF IInv, TypeOK, CallTypeOK
<1>1. TypeOK'
  <2>1. CallTypeOK'
    BY <1>0, EntrantFacts DEF TypeOK, CallTypeOK, settle_effects, Goto, Stages, Unproven, callVars, jobVars, closeVars, shutVars, readVars
  <2>2. JobTypeOK'
    BY <1>0 DEF TypeOK, JobTypeOK, settle_effects, Goto, callVars, jobVars, closeVars, shutVars, readVars
  <2>3. QueueTypeOK'
    BY <1>0 DEF TypeOK, QueueTypeOK, settle_effects, Goto, callVars, jobVars, closeVars, shutVars, readVars
  <2> QED BY <2>1, <2>2, <2>3 DEF TypeOK
<1>2. LockInv'
  BY <1>0, LockKept, EntrantFacts DEF settle_effects, Goto, Held, Unproven, callVars, jobVars, closeVars, shutVars, readVars
<1>3. Frame /\ executing' \subseteq executing
  BY <1>0 DEF Frame, settle_effects, Goto, callVars, jobVars, closeVars, shutVars, readVars
<1>4. \A c \in Batches : c # e => Same(c)
  BY <1>0, EntrantFacts DEF Same, TypeOK, CallTypeOK, JobTypeOK, settle_effects, Goto, callVars, jobVars, closeVars, shutVars, readVars
<1> QED BY <1>1, <1>2, <1>3, <1>4, EntrantFacts, LocalStep

\* enter creates its notification.
LEMMA EnterEnableStep ==
    ASSUME IInv, NEW e \in Entrants, enter_enable(e)
    PROVE  IInv'
<1>0. /\ e \in Entrants /\ Session(e) \in Sessions
      /\ TypeOK /\ LockInv /\ JobInv /\ CreditInv
      /\ stage \in [Entrants -> Stages] /\ order \in [Sessions -> SUBSET Batches]
  BY EntrantFacts DEF IInv, TypeOK, CallTypeOK
<1>1. TypeOK'
  <2>1. CallTypeOK'
    BY <1>0, EntrantFacts DEF TypeOK, CallTypeOK, enter_enable, Goto, Stages, Unproven, callVars, jobVars, closeVars, shutVars, readVars
  <2>2. JobTypeOK'
    BY <1>0 DEF TypeOK, JobTypeOK, enter_enable, Goto, callVars, jobVars, closeVars, shutVars, readVars
  <2>3. QueueTypeOK'
    BY <1>0 DEF TypeOK, QueueTypeOK, enter_enable, Goto, callVars, jobVars, closeVars, shutVars, readVars
  <2> QED BY <2>1, <2>2, <2>3 DEF TypeOK
<1>2. LockInv'
  BY <1>0, LockKept, EntrantFacts DEF enter_enable, Goto, Held, Unproven, callVars, jobVars, closeVars, shutVars, readVars
<1>3. Frame /\ executing' \subseteq executing
  BY <1>0 DEF Frame, enter_enable, Goto, callVars, jobVars, closeVars, shutVars, readVars
<1>4. \A c \in Batches : c # e => Same(c)
  BY <1>0, EntrantFacts DEF Same, TypeOK, CallTypeOK, JobTypeOK, enter_enable, Goto, callVars, jobVars, closeVars, shutVars, readVars
<1>5. ASSUME e \in Batches PROVE JobOK(e)' /\ CreditOK(e)' /\ Onward(e)
  <2>1. JobOK(e) /\ CreditOK(e)
    BY <1>0, <1>5 DEF JobInv, CreditInv
  <2>2. JobOK(e)'
    BY <1>0, <1>5, <2>1 DEF JobOK, TypeOK, CallTypeOK, JobTypeOK, enter_enable, Goto, Job, Unproven, callVars, jobVars, closeVars, shutVars, readVars
  <2>3. CreditOK(e)'
    BY <1>0, <1>5, <2>1 DEF CreditOK, JobOK, TypeOK, CallTypeOK, JobTypeOK, enter_enable, Goto, Held, Job, Unproven, callVars, jobVars, closeVars, shutVars, readVars
  <2>4. Onward(e)
    BY <1>0, <1>5, <2>1 DEF Onward, JobOK, TypeOK, CallTypeOK, JobTypeOK, enter_enable, Goto, Job, Unproven, callVars, jobVars, closeVars, shutVars, readVars
  <2> QED BY <2>2, <2>3, <2>4
<1> QED BY <1>1, <1>2, <1>3, <1>4, <1>5, LocalStep

\* enter looks at the semaphore.
LEMMA EnterCheckStep ==
    ASSUME IInv, NEW e \in Entrants, enter_check(e)
    PROVE  IInv'
<1>0. /\ e \in Entrants /\ Session(e) \in Sessions
      /\ TypeOK /\ LockInv /\ JobInv /\ CreditInv
      /\ stage \in [Entrants -> Stages] /\ order \in [Sessions -> SUBSET Batches]
  BY EntrantFacts DEF IInv, TypeOK, CallTypeOK
<1>1. TypeOK'
  <2>1. CallTypeOK'
    BY <1>0, EntrantFacts DEF TypeOK, CallTypeOK, enter_check, Goto, Refused, Stages, Unproven, callVars, jobVars, closeVars, shutVars, readVars
  <2>2. JobTypeOK'
    BY <1>0 DEF TypeOK, JobTypeOK, enter_check, Goto, Refused, callVars, jobVars, closeVars, shutVars, readVars
  <2>3. QueueTypeOK'
    BY <1>0 DEF TypeOK, QueueTypeOK, enter_check, Goto, Refused, callVars, jobVars, closeVars, shutVars, readVars
  <2> QED BY <2>1, <2>2, <2>3 DEF TypeOK
<1>2. LockInv'
  BY <1>0, LockKept, EntrantFacts DEF enter_check, Goto, Refused, Held, Unproven, callVars, jobVars, closeVars, shutVars, readVars
<1>3. Frame /\ executing' \subseteq executing
  BY <1>0 DEF Frame, enter_check, Goto, Refused, callVars, jobVars, closeVars, shutVars, readVars
<1>4. \A c \in Batches : c # e => Same(c)
  BY <1>0, EntrantFacts DEF Same, TypeOK, CallTypeOK, JobTypeOK, enter_check, Goto, Refused, callVars, jobVars, closeVars, shutVars, readVars
<1>5. ASSUME e \in Batches PROVE JobOK(e)' /\ CreditOK(e)' /\ Onward(e)
  <2>1. JobOK(e) /\ CreditOK(e)
    BY <1>0, <1>5 DEF JobInv, CreditInv
  <2>2. JobOK(e)'
    BY <1>0, <1>5, <2>1 DEF JobOK, TypeOK, CallTypeOK, JobTypeOK, enter_check, Goto, Refused, Job, Unproven, callVars, jobVars, closeVars, shutVars, readVars
  <2>3. CreditOK(e)'
    BY <1>0, <1>5, <2>1 DEF CreditOK, JobOK, TypeOK, CallTypeOK, JobTypeOK, enter_check, Goto, Refused, Held, Job, Unproven, callVars, jobVars, closeVars, shutVars, readVars
  <2>4. Onward(e)
    BY <1>0, <1>5, <2>1 DEF Onward, JobOK, TypeOK, CallTypeOK, JobTypeOK, enter_check, Goto, Refused, Job, Unproven, callVars, jobVars, closeVars, shutVars, readVars
  <2> QED BY <2>2, <2>3, <2>4
<1> QED BY <1>1, <1>2, <1>3, <1>4, <1>5, LocalStep

\* The lock is granted.
LEMMA EnterGrantedStep ==
    ASSUME IInv, NEW e \in Entrants, enter_granted(e)
    PROVE  IInv'
<1>0. /\ e \in Entrants /\ Session(e) \in Sessions
      /\ TypeOK /\ LockInv /\ JobInv /\ CreditInv
      /\ stage \in [Entrants -> Stages] /\ order \in [Sessions -> SUBSET Batches]
  BY EntrantFacts DEF IInv, TypeOK, CallTypeOK
<1>1. TypeOK'
  <2>1. CallTypeOK'
    BY <1>0, EntrantFacts DEF TypeOK, CallTypeOK, enter_granted, Goto, Stages, Unproven, callVars, jobVars, closeVars, shutVars, readVars
  <2>2. JobTypeOK'
    BY <1>0 DEF TypeOK, JobTypeOK, enter_granted, Goto, callVars, jobVars, closeVars, shutVars, readVars
  <2>3. QueueTypeOK'
    BY <1>0 DEF TypeOK, QueueTypeOK, enter_granted, Goto, callVars, jobVars, closeVars, shutVars, readVars
  <2> QED BY <2>1, <2>2, <2>3 DEF TypeOK
<1>2. LockInv'
  <2>1. CASE e \in Batches
    BY <1>0, <2>1, LockTaken DEF enter_granted, Goto, Held, Unproven
  <2>2. CASE e \notin Batches
    BY <1>0, <2>2, LockKept DEF enter_granted, Goto
  <2> QED BY <2>1, <2>2
<1>3. Frame /\ executing' \subseteq executing
  BY <1>0 DEF Frame, enter_granted, Goto, callVars, jobVars, closeVars, shutVars, readVars
<1>4. \A c \in Batches : c # e => Same(c)
  BY <1>0, EntrantFacts DEF Same, TypeOK, CallTypeOK, JobTypeOK, enter_granted, Goto, callVars, jobVars, closeVars, shutVars, readVars
<1>5. ASSUME e \in Batches PROVE JobOK(e)' /\ CreditOK(e)' /\ Onward(e)
  <2>1. JobOK(e) /\ CreditOK(e)
    BY <1>0, <1>5 DEF JobInv, CreditInv
  <2>2. JobOK(e)'
    BY <1>0, <1>5, <2>1 DEF JobOK, TypeOK, CallTypeOK, JobTypeOK, enter_granted, Goto, Job, Unproven, callVars, jobVars, closeVars, shutVars, readVars
  <2>3. CreditOK(e)'
    BY <1>0, <1>5, <2>1 DEF CreditOK, JobOK, TypeOK, CallTypeOK, JobTypeOK, enter_granted, Goto, Held, Job, Unproven, callVars, jobVars, closeVars, shutVars, readVars
  <2>4. Onward(e)
    BY <1>0, <1>5, <2>1 DEF Onward, JobOK, TypeOK, CallTypeOK, JobTypeOK, enter_granted, Goto, Job, Unproven, callVars, jobVars, closeVars, shutVars, readVars
  <2> QED BY <2>2, <2>3, <2>4
<1> QED BY <1>1, <1>2, <1>3, <1>4, <1>5, LocalStep

\* A waiting entrant is told that admission is closed.
LEMMA EnterRefusedStep ==
    ASSUME IInv, NEW e \in Entrants, enter_refused(e)
    PROVE  IInv'
<1>0. /\ e \in Entrants /\ Session(e) \in Sessions
      /\ TypeOK /\ LockInv /\ JobInv /\ CreditInv
      /\ stage \in [Entrants -> Stages] /\ order \in [Sessions -> SUBSET Batches]
  BY EntrantFacts DEF IInv, TypeOK, CallTypeOK
<1>1. TypeOK'
  <2>1. CallTypeOK'
    BY <1>0, EntrantFacts DEF TypeOK, CallTypeOK, enter_refused, Goto, Refused, Stages, Unproven, callVars, jobVars, closeVars, shutVars, readVars
  <2>2. JobTypeOK'
    BY <1>0 DEF TypeOK, JobTypeOK, enter_refused, Goto, Refused, callVars, jobVars, closeVars, shutVars, readVars
  <2>3. QueueTypeOK'
    BY <1>0 DEF TypeOK, QueueTypeOK, enter_refused, Goto, Refused, callVars, jobVars, closeVars, shutVars, readVars
  <2> QED BY <2>1, <2>2, <2>3 DEF TypeOK
<1>2. LockInv'
  BY <1>0, LockKept, EntrantFacts DEF enter_refused, Goto, Refused, Held, Unproven, callVars, jobVars, closeVars, shutVars, readVars
<1>3. Frame /\ executing' \subseteq executing
  BY <1>0 DEF Frame, enter_refused, Goto, Refused, callVars, jobVars, closeVars, shutVars, readVars
<1>4. \A c \in Batches : c # e => Same(c)
  BY <1>0, EntrantFacts DEF Same, TypeOK, CallTypeOK, JobTypeOK, enter_refused, Goto, Refused, callVars, jobVars, closeVars, shutVars, readVars
<1>5. ASSUME e \in Batches PROVE JobOK(e)' /\ CreditOK(e)' /\ Onward(e)
  <2>1. JobOK(e) /\ CreditOK(e)
    BY <1>0, <1>5 DEF JobInv, CreditInv
  <2>2. JobOK(e)'
    BY <1>0, <1>5, <2>1 DEF JobOK, TypeOK, CallTypeOK, JobTypeOK, enter_refused, Goto, Refused, Job, Unproven, callVars, jobVars, closeVars, shutVars, readVars
  <2>3. CreditOK(e)'
    BY <1>0, <1>5, <2>1 DEF CreditOK, JobOK, TypeOK, CallTypeOK, JobTypeOK, enter_refused, Goto, Refused, Held, Job, Unproven, callVars, jobVars, closeVars, shutVars, readVars
  <2>4. Onward(e)
    BY <1>0, <1>5, <2>1 DEF Onward, JobOK, TypeOK, CallTypeOK, JobTypeOK, enter_refused, Goto, Refused, Job, Unproven, callVars, jobVars, closeVars, shutVars, readVars
  <2> QED BY <2>2, <2>3, <2>4
<1> QED BY <1>1, <1>2, <1>3, <1>4, <1>5, LocalStep

\* A batch becomes a job, or is refused and releases its lock.
LEMMA ExecuteStep ==
    ASSUME IInv, NEW b \in Batches, execute(b)
    PROVE  IInv'
<1>0. /\ b \in Entrants /\ Session(b) \in Sessions
      /\ TypeOK /\ LockInv /\ JobInv /\ CreditInv
      /\ stage \in [Entrants -> Stages] /\ order \in [Sessions -> SUBSET Batches]
  BY EntrantFacts DEF IInv, TypeOK, CallTypeOK
<1>1. TypeOK'
  <2>1. CallTypeOK'
    BY <1>0, EntrantFacts DEF TypeOK, CallTypeOK, execute, Goto, Refused, Stages, Unproven, callVars, jobVars, closeVars, shutVars, readVars
  <2>2. JobTypeOK'
    BY <1>0 DEF TypeOK, JobTypeOK, execute, Goto, Refused, callVars, jobVars, closeVars, shutVars, readVars
  <2>3. QueueTypeOK'
    BY <1>0 DEF TypeOK, QueueTypeOK, execute, Goto, Refused, callVars, jobVars, closeVars, shutVars, readVars
  <2> QED BY <2>1, <2>2, <2>3 DEF TypeOK
<1>2. LockInv'
  <2>1. CASE state_closed
    BY <1>0, <2>1, LockReleased DEF execute, Refused, Goto, Held, Unproven
  <2>2. CASE ~state_closed
    BY <1>0, <2>2, LockKept DEF execute, Goto, Held, Unproven
  <2> QED BY <2>1, <2>2
<1>3. Frame /\ executing' \subseteq executing
  BY <1>0 DEF Frame, execute, Goto, Refused, callVars, jobVars, closeVars, shutVars, readVars
<1>4. \A c \in Batches : c # b => Same(c)
  BY <1>0, EntrantFacts DEF Same, TypeOK, CallTypeOK, JobTypeOK, execute, Goto, Refused, callVars, jobVars, closeVars, shutVars, readVars
<1>5. ASSUME b \in Batches PROVE JobOK(b)' /\ CreditOK(b)' /\ Onward(b)
  <2>1. JobOK(b) /\ CreditOK(b)
    BY <1>0, <1>5 DEF JobInv, CreditInv
  <2>2. JobOK(b)'
    BY <1>0, <1>5, <2>1 DEF JobOK, TypeOK, CallTypeOK, JobTypeOK, execute, Goto, Refused, Job, Unproven, callVars, jobVars, closeVars, shutVars, readVars
  <2>3. CreditOK(b)'
    BY <1>0, <1>5, <2>1 DEF CreditOK, JobOK, TypeOK, CallTypeOK, JobTypeOK, execute, Goto, Refused, Held, Job, Unproven, callVars, jobVars, closeVars, shutVars, readVars
  <2>4. Onward(b)
    BY <1>0, <1>5, <2>1 DEF Onward, JobOK, TypeOK, CallTypeOK, JobTypeOK, execute, Goto, Refused, Job, Unproven, callVars, jobVars, closeVars, shutVars, readVars
  <2> QED BY <2>2, <2>3, <2>4
<1> QED BY <1>1, <1>2, <1>3, <1>4, <1>5, LocalStep

\* A caller goes away.
LEMMA CancelStep ==
    ASSUME IInv, NEW b \in Batches, cancel(b)
    PROVE  IInv'
<1>0. /\ b \in Entrants /\ Session(b) \in Sessions
      /\ TypeOK /\ LockInv /\ JobInv /\ CreditInv
      /\ stage \in [Entrants -> Stages] /\ order \in [Sessions -> SUBSET Batches]
  BY EntrantFacts DEF IInv, TypeOK, CallTypeOK
<1>1. TypeOK'
  <2>1. CallTypeOK'
    BY <1>0, EntrantFacts DEF TypeOK, CallTypeOK, cancel, Goto, Refused, Waiting, Stages, Unproven, callVars, jobVars, closeVars, shutVars, readVars
  <2>2. JobTypeOK'
    BY <1>0 DEF TypeOK, JobTypeOK, cancel, Goto, Refused, Waiting, callVars, jobVars, closeVars, shutVars, readVars
  <2>3. QueueTypeOK'
    BY <1>0 DEF TypeOK, QueueTypeOK, cancel, Goto, Refused, Waiting, callVars, jobVars, closeVars, shutVars, readVars
  <2> QED BY <2>1, <2>2, <2>3 DEF TypeOK
<1>2. LockInv'
  <2>1. CASE stage[b] = "ordering" /\ Refused(b)
    BY <1>0, <2>1, LockKept DEF cancel, Refused, Goto, Held, Unproven
  <2>2. CASE UNCHANGED stage
    BY <1>0, <2>2 DEF LockInv, cancel
  <2> QED BY <2>1, <2>2 DEF cancel
<1>3. Frame /\ executing' \subseteq executing
  BY <1>0 DEF Frame, cancel, Goto, Refused, Waiting, callVars, jobVars, closeVars, shutVars, readVars
<1>4. \A c \in Batches : c # b => Same(c)
  BY <1>0, EntrantFacts DEF Same, TypeOK, CallTypeOK, JobTypeOK, cancel, Goto, Refused, Waiting, callVars, jobVars, closeVars, shutVars, readVars
<1>5. ASSUME b \in Batches PROVE JobOK(b)' /\ CreditOK(b)' /\ Onward(b)
  <2>1. JobOK(b) /\ CreditOK(b)
    BY <1>0, <1>5 DEF JobInv, CreditInv
  <2>2. JobOK(b)'
    BY <1>0, <1>5, <2>1 DEF JobOK, TypeOK, CallTypeOK, JobTypeOK, cancel, Goto, Refused, Waiting, Job, Unproven, callVars, jobVars, closeVars, shutVars, readVars
  <2>3. CreditOK(b)'
    <3>0. reply \in [Batches -> {"none", "ok", "err", "taken"}]
      BY <1>0 DEF TypeOK, CallTypeOK
    <3>1. CASE stage[b] = "ordering" /\ Refused(b) /\ UNCHANGED <<abandoned, reply>>
      BY <1>0, <1>5, <2>1, <3>1 DEF CreditOK, Goto, Refused, Held, Job, Unproven
    <3>2. CASE b \in jobs /\ Waiting(b) /\ abandoned' = abandoned \cup {b}
               /\ UNCHANGED <<stage, credit, reply>>
      BY <1>0, <1>5, <2>1, <3>2 DEF CreditOK, JobOK, Waiting, Held, Job, Unproven
    <3>3. CASE /\ reply[b] = "ok" /\ reply' = [reply EXCEPT ![b] = "taken"]
               /\ abandoned' = abandoned \cup {b} /\ credit' = credit \ {b}
               /\ UNCHANGED stage
      BY <1>0, <1>5, <2>1, <3>0, <3>3 DEF CreditOK, Held, Job, Unproven
    <3> QED BY <1>0, <3>1, <3>2, <3>3 DEF cancel
  <2>4. Onward(b)
    BY <1>0, <1>5, <2>1 DEF Onward, JobOK, TypeOK, CallTypeOK, JobTypeOK, cancel, Goto, Refused, Waiting, Job, Unproven, callVars, jobVars, closeVars, shutVars, readVars
  <2> QED BY <2>2, <2>3, <2>4
<1> QED BY <1>1, <1>2, <1>3, <1>4, <1>5, LocalStep

\* The caller takes its batch over.
LEMMA ConsumeStep ==
    ASSUME IInv, NEW b \in Batches, consume(b)
    PROVE  IInv'
<1>0. /\ b \in Entrants /\ Session(b) \in Sessions
      /\ TypeOK /\ LockInv /\ JobInv /\ CreditInv
      /\ stage \in [Entrants -> Stages] /\ order \in [Sessions -> SUBSET Batches]
  BY EntrantFacts DEF IInv, TypeOK, CallTypeOK
<1>1. TypeOK'
  <2>1. CallTypeOK'
    BY <1>0, EntrantFacts DEF TypeOK, CallTypeOK, consume, Stages, Unproven, callVars, jobVars, closeVars, shutVars, readVars
  <2>2. JobTypeOK'
    BY <1>0 DEF TypeOK, JobTypeOK, consume, callVars, jobVars, closeVars, shutVars, readVars
  <2>3. QueueTypeOK'
    BY <1>0 DEF TypeOK, QueueTypeOK, consume, callVars, jobVars, closeVars, shutVars, readVars
  <2> QED BY <2>1, <2>2, <2>3 DEF TypeOK
<1>2. LockInv'
  BY <1>0 DEF LockInv, consume, callVars, jobVars, closeVars, shutVars, readVars
<1>3. Frame /\ executing' \subseteq executing
  BY <1>0 DEF Frame, consume, callVars, jobVars, closeVars, shutVars, readVars
<1>4. \A c \in Batches : c # b => Same(c)
  BY <1>0, EntrantFacts DEF Same, TypeOK, CallTypeOK, JobTypeOK, consume, callVars, jobVars, closeVars, shutVars, readVars
<1>5. ASSUME b \in Batches PROVE JobOK(b)' /\ CreditOK(b)' /\ Onward(b)
  <2>1. JobOK(b) /\ CreditOK(b)
    BY <1>0, <1>5 DEF JobInv, CreditInv
  <2>2. JobOK(b)'
    BY <1>0, <1>5, <2>1 DEF JobOK, TypeOK, CallTypeOK, JobTypeOK, consume, Job, Unproven, callVars, jobVars, closeVars, shutVars, readVars
  <2>3. CreditOK(b)'
    BY <1>0, <1>5, <2>1 DEF CreditOK, JobOK, TypeOK, CallTypeOK, JobTypeOK, consume, Held, Job, Unproven, callVars, jobVars, closeVars, shutVars, readVars
  <2>4. Onward(b)
    BY <1>0, <1>5, <2>1 DEF Onward, JobOK, TypeOK, CallTypeOK, JobTypeOK, consume, Job, Unproven, callVars, jobVars, closeVars, shutVars, readVars
  <2> QED BY <2>2, <2>3, <2>4
<1> QED BY <1>1, <1>2, <1>3, <1>4, <1>5, LocalStep

\* What a write does to the journals: the batch becomes the last of its session,
\* and no other unproved batch was there.
LEMMA LogGrows ==
    ASSUME TypeOK, LockInv, LogInv, NEW b \in Batches, append(b),
           stage[b] \in Held, stage' = stage, first' = first,
           worker' \in [Batches -> {"none", "running", "landed", "ok", "error"}],
           worker'[b] \in {"landed", "error"},
           \A c \in Batches : c # b => worker'[c] = worker[c]
    PROVE  LogInv'
<1> DEFINE s == Session(b)
           n == Len(log[s])
<1>0. /\ log \in [Sessions -> Seq(Batches)] /\ s \in Sessions
      /\ \A t \in Sessions : \A i \in 1..Len(log[t]) : log[t][i] \in Batches
  BY EntrantFacts DEF TypeOK, JobTypeOK
<1>1. /\ log[s] \in Seq(Batches) /\ n \in Nat
      /\ first[b] = n + 1 /\ log'[s] = Append(log[s], b)
      /\ \A t \in Sessions : t # s => log'[t] = log[t]
  BY <1>0 DEF append
<1>2. /\ Len(log'[s]) = n + 1 /\ log'[s][n + 1] = b
      /\ \A i \in 1..n : log'[s][i] = log[s][i]
  BY <1>1
<1>3. worker[b] = "running"
  BY DEF append
<1>4. \A t \in Sessions : \A i \in 1..Len(log[t]) : log[t][i] # b
  BY <1>3 DEF LogInv
<1>5. \A i \in 1..n : stage[log[s][i]] \notin Unproven
  <2> SUFFICES ASSUME NEW i \in 1..n, stage[log[s][i]] \in Unproven PROVE FALSE
    OBVIOUS
  <2>1. log[s][i] \in Batches /\ Session(log[s][i]) = s /\ stage[log[s][i]] \in Held
    BY <1>0 DEF LogInv, Held
  <2> QED BY <1>0, <1>4, <2>1, OneHolder
<1>6. ASSUME NEW t \in Sessions, NEW i \in 1..Len(log'[t])
      PROVE  /\ Session(log'[t][i]) = t
             /\ first[log'[t][i]] = i
             /\ worker'[log'[t][i]] \notin {"none", "running"}
             /\ stage[log'[t][i]] \in Unproven => i = Len(log'[t])
  <2>1. CASE t # s
    BY <1>0, <1>1, <1>4, <2>1 DEF LogInv
  <2>2. CASE t = s /\ i = n + 1
    BY <1>1, <1>2, <2>2
  <2>3. CASE t = s /\ i \in 1..n
    <3>1. log'[t][i] = log[s][i] /\ log[s][i] \in Batches /\ log[s][i] # b
      BY <1>0, <1>2, <1>4, <2>3
    <3> QED BY <1>0, <1>5, <2>3, <3>1 DEF LogInv
  <2>4. t = s => i = n + 1 \/ i \in 1..n
    BY <1>1, <1>2
  <2> QED BY <2>1, <2>2, <2>3, <2>4
<1>7. ASSUME NEW c \in Batches, worker'[c] \in {"landed", "ok"}
      PROVE  first[c] \in 1..Len(log'[Session(c)]) /\ log'[Session(c)][first[c]] = c
  <2>1. CASE c = b
    BY <1>1, <1>2, <2>1
  <2>2. CASE c # b
    <3>1. first[c] \in 1..Len(log[Session(c)]) /\ log[Session(c)][first[c]] = c
      BY <1>7, <2>2 DEF LogInv
    <3>2. Session(c) \in Sessions
      BY EntrantFacts
    <3> QED BY <1>1, <1>2, <3>1, <3>2
  <2> QED BY <2>1, <2>2
<1> QED BY <1>6, <1>7 DEF LogInv

\* The worker writes its batch.
LEMMA PersistAppendStep ==
    ASSUME IInv, NEW b \in Batches, persist_append(b)
    PROVE  IInv'
<1>0. /\ b \in Entrants /\ Session(b) \in Sessions
      /\ TypeOK /\ LockInv /\ JobInv /\ CreditInv /\ LogInv /\ DoneInv /\ PermitInv
      /\ stage \in [Entrants -> Stages] /\ order \in [Sessions -> SUBSET Batches]
  BY EntrantFacts DEF IInv, TypeOK, CallTypeOK
<1>1. TypeOK'
  <2>1. CallTypeOK'
    BY <1>0, EntrantFacts DEF TypeOK, CallTypeOK, persist_append, append, Stages, Unproven, callVars, jobVars, closeVars, shutVars, readVars
  <2>2. JobTypeOK'
    BY <1>0 DEF TypeOK, JobTypeOK, persist_append, append, callVars, jobVars, closeVars, shutVars, readVars
  <2>3. QueueTypeOK'
    BY <1>0 DEF TypeOK, QueueTypeOK, persist_append, append, callVars, jobVars, closeVars, shutVars, readVars
  <2> QED BY <2>1, <2>2, <2>3 DEF TypeOK
<1>2. LockInv'
  BY <1>0 DEF LockInv, persist_append, append
<1>3. \A c \in Batches : c # b => Same(c)
  BY <1>0, EntrantFacts DEF Same, TypeOK, CallTypeOK, JobTypeOK, persist_append, append, callVars, jobVars, closeVars, shutVars, readVars
<1>4. JobOK(b) /\ CreditOK(b) /\ JobOK(b)' /\ CreditOK(b)'
  <2>1. JobOK(b) /\ CreditOK(b)
    BY <1>0 DEF JobInv, CreditInv
  <2>2. JobOK(b)'
    BY <1>0, <2>1 DEF JobOK, TypeOK, CallTypeOK, JobTypeOK, persist_append, append, Job, Unproven, callVars, jobVars, closeVars, shutVars, readVars
  <2>3. CreditOK(b)'
    BY <1>0, <2>1 DEF CreditOK, JobOK, TypeOK, CallTypeOK, JobTypeOK, persist_append, append, Held, Job, Unproven, callVars, jobVars, closeVars, shutVars, readVars
  <2> QED BY <2>1, <2>2, <2>3
<1>5. JobInv' /\ CreditInv'
  BY <1>0, <1>3, <1>4, OthersKept
<1>6. LogInv'
  <2>1. stage[b] \in Held
    BY <1>0, <1>4 DEF JobOK, persist_append, append, Held, Unproven
  <2>2. worker' = [worker EXCEPT ![b] = "landed"] /\ stage' = stage /\ first' = first /\ append(b)
    BY DEF persist_append, callVars
  <2> QED BY <1>0, <1>1, <2>1, <2>2, LogGrows DEF TypeOK, JobTypeOK
<1>7. DoneInv' /\ PermitInv'
  BY <1>0 DEF DoneInv, PermitInv, persist_append, closeVars, shutVars
<1> QED BY <1>1, <1>2, <1>5, <1>6, <1>7 DEF IInv

\* The worker ends well.
LEMMA PersistDoneStep ==
    ASSUME IInv, NEW b \in Batches, persist_done(b)
    PROVE  IInv'
<1>0. /\ b \in Entrants /\ Session(b) \in Sessions
      /\ TypeOK /\ LockInv /\ JobInv /\ CreditInv
      /\ stage \in [Entrants -> Stages] /\ order \in [Sessions -> SUBSET Batches]
  BY EntrantFacts DEF IInv, TypeOK, CallTypeOK
<1>1. TypeOK'
  <2>1. CallTypeOK'
    BY <1>0, EntrantFacts DEF TypeOK, CallTypeOK, persist_done, Stages, Unproven, callVars, jobVars, closeVars, shutVars, readVars
  <2>2. JobTypeOK'
    BY <1>0 DEF TypeOK, JobTypeOK, persist_done, callVars, jobVars, closeVars, shutVars, readVars
  <2>3. QueueTypeOK'
    BY <1>0 DEF TypeOK, QueueTypeOK, persist_done, callVars, jobVars, closeVars, shutVars, readVars
  <2> QED BY <2>1, <2>2, <2>3 DEF TypeOK
<1>2. LockInv'
  BY <1>0 DEF LockInv, persist_done, callVars, jobVars, closeVars, shutVars, readVars
<1>3. Frame /\ executing' \subseteq executing
  BY <1>0 DEF Frame, persist_done, callVars, jobVars, closeVars, shutVars, readVars
<1>4. \A c \in Batches : c # b => Same(c)
  BY <1>0, EntrantFacts DEF Same, TypeOK, CallTypeOK, JobTypeOK, persist_done, callVars, jobVars, closeVars, shutVars, readVars
<1>5. ASSUME b \in Batches PROVE JobOK(b)' /\ CreditOK(b)' /\ Onward(b)
  <2>1. JobOK(b) /\ CreditOK(b)
    BY <1>0, <1>5 DEF JobInv, CreditInv
  <2>2. JobOK(b)'
    BY <1>0, <1>5, <2>1 DEF JobOK, TypeOK, CallTypeOK, JobTypeOK, persist_done, Job, Unproven, callVars, jobVars, closeVars, shutVars, readVars
  <2>3. CreditOK(b)'
    BY <1>0, <1>5, <2>1 DEF CreditOK, JobOK, TypeOK, CallTypeOK, JobTypeOK, persist_done, Held, Job, Unproven, callVars, jobVars, closeVars, shutVars, readVars
  <2>4. Onward(b)
    BY <1>0, <1>5, <2>1 DEF Onward, JobOK, TypeOK, CallTypeOK, JobTypeOK, persist_done, Job, Unproven, callVars, jobVars, closeVars, shutVars, readVars
  <2> QED BY <2>2, <2>3, <2>4
<1> QED BY <1>1, <1>2, <1>3, <1>4, <1>5, LocalStep

\* The worker fails, with or without having written its batch.
LEMMA PersistFailsStep ==
    ASSUME IInv, NEW b \in Batches, persist_fails(b)
    PROVE  IInv'
<1>0. /\ b \in Entrants /\ Session(b) \in Sessions
      /\ TypeOK /\ LockInv /\ JobInv /\ CreditInv /\ LogInv /\ DoneInv /\ PermitInv
      /\ stage \in [Entrants -> Stages] /\ order \in [Sessions -> SUBSET Batches]
  BY EntrantFacts DEF IInv, TypeOK, CallTypeOK
<1>1. TypeOK'
  <2>1. CallTypeOK'
    BY <1>0, EntrantFacts DEF TypeOK, CallTypeOK, persist_fails, append, Stages, Unproven, callVars, jobVars, closeVars, shutVars, readVars
  <2>2. JobTypeOK'
    <3>1. JobTypeOK /\ log \in [Sessions -> Seq(Batches)]
      BY <1>0 DEF TypeOK, JobTypeOK
    <3>2. log' \in [Sessions -> Seq(Batches)]
      <4>1. CASE append(b)
        BY <1>0, <3>1, <4>1 DEF append
      <4>2. CASE UNCHANGED log
        BY <3>1, <4>2
      <4> QED BY <4>1, <4>2 DEF persist_fails
    <3>3. worker' \in [Batches -> {"none", "running", "landed", "ok", "error"}]
      BY <3>1 DEF JobTypeOK, persist_fails
    <3> QED BY <3>1, <3>2, <3>3 DEF JobTypeOK, persist_fails
  <2>3. QueueTypeOK'
    BY <1>0 DEF TypeOK, QueueTypeOK, persist_fails, append, callVars, jobVars, closeVars, shutVars, readVars
  <2> QED BY <2>1, <2>2, <2>3 DEF TypeOK
<1>2. LockInv'
  BY <1>0 DEF LockInv, persist_fails, append
<1>3. \A c \in Batches : c # b => Same(c)
  BY <1>0, EntrantFacts DEF Same, TypeOK, CallTypeOK, JobTypeOK, persist_fails, append, callVars, jobVars, closeVars, shutVars, readVars
<1>4. JobOK(b) /\ CreditOK(b) /\ JobOK(b)' /\ CreditOK(b)'
  <2>1. JobOK(b) /\ CreditOK(b)
    BY <1>0 DEF JobInv, CreditInv
  <2>2. JobOK(b)'
    BY <1>0, <2>1 DEF JobOK, TypeOK, CallTypeOK, JobTypeOK, persist_fails, append, Job, Unproven, callVars, jobVars, closeVars, shutVars, readVars
  <2>3. CreditOK(b)'
    BY <1>0, <2>1 DEF CreditOK, JobOK, TypeOK, CallTypeOK, JobTypeOK, persist_fails, append, Held, Job, Unproven, callVars, jobVars, closeVars, shutVars, readVars
  <2> QED BY <2>1, <2>2, <2>3
<1>5. JobInv' /\ CreditInv'
  BY <1>0, <1>3, <1>4, OthersKept
<1>6. LogInv'
  <2>1. worker' = [worker EXCEPT ![b] = "error"] /\ stage' = stage /\ first' = first
    BY DEF persist_fails, callVars
  <2>2. CASE append(b)
    <3>1. stage[b] \in Held
      BY <1>0, <1>4, <2>2 DEF JobOK, append, Held, Unproven
    <3> QED BY <1>0, <1>1, <2>1, <2>2, <3>1, LogGrows DEF TypeOK, JobTypeOK
  <2>3. CASE worker[b] \in {"running", "landed"} /\ UNCHANGED log
    <3>1. Onward(b)
      BY <1>0, <2>1, <2>3 DEF Onward, TypeOK, JobTypeOK, persist_fails
    <3> QED BY <1>0, <1>3, <2>1, <2>3, <3>1, LogKept DEF TypeOK
  <2> QED BY <2>2, <2>3 DEF persist_fails
<1>7. DoneInv' /\ PermitInv'
  BY <1>0 DEF DoneInv, PermitInv, persist_fails, closeVars, shutVars
<1> QED BY <1>1, <1>2, <1>5, <1>6, <1>7 DEF IInv

\* A job gets its permit and its worker.
LEMMA AcquireStep ==
    ASSUME IInv, NEW b \in Batches, acquire(b)
    PROVE  IInv'
<1>0. /\ b \in Entrants /\ Session(b) \in Sessions
      /\ TypeOK /\ LockInv /\ JobInv /\ CreditInv /\ LogInv /\ DoneInv /\ PermitInv
      /\ stage \in [Entrants -> Stages] /\ order \in [Sessions -> SUBSET Batches]
  BY EntrantFacts DEF IInv, TypeOK, CallTypeOK
<1>1. TypeOK'
  <2>1. CallTypeOK'
    BY <1>0, EntrantFacts DEF TypeOK, CallTypeOK, acquire, Goto, Stages, Unproven, callVars, jobVars, closeVars, shutVars, readVars
  <2>2. JobTypeOK'
    BY <1>0 DEF TypeOK, JobTypeOK, acquire, Goto, callVars, jobVars, closeVars, shutVars, readVars
  <2>3. QueueTypeOK'
    BY <1>0 DEF TypeOK, QueueTypeOK, acquire, Goto, callVars, jobVars, closeVars, shutVars, readVars
  <2> QED BY <2>1, <2>2, <2>3 DEF TypeOK
<1>2. LockInv'
  BY <1>0, LockKept DEF acquire, Goto, Held, Unproven
<1>3. \A c \in Batches : c # b => Same(c)
  BY <1>0, EntrantFacts DEF Same, TypeOK, CallTypeOK, JobTypeOK, acquire, Goto, callVars, jobVars, closeVars, shutVars, readVars
<1>4. JobOK(b) /\ CreditOK(b) /\ JobOK(b)' /\ CreditOK(b)'
  <2>1. JobOK(b) /\ CreditOK(b)
    BY <1>0 DEF JobInv, CreditInv
  <2>2. JobOK(b)'
    BY <1>0, <2>1 DEF JobOK, TypeOK, CallTypeOK, JobTypeOK, acquire, Goto, Job, Unproven, callVars, jobVars, closeVars, shutVars, readVars
  <2>3. CreditOK(b)'
    BY <1>0, <2>1 DEF CreditOK, JobOK, TypeOK, CallTypeOK, JobTypeOK, acquire, Goto, Held, Job, Unproven, callVars, jobVars, closeVars, shutVars, readVars
  <2> QED BY <2>1, <2>2, <2>3
<1>5. JobInv' /\ CreditInv'
  BY <1>0, <1>3, <1>4, OthersKept
<1>6. Onward(b)
  BY <1>0, <1>4 DEF Onward, JobOK, TypeOK, CallTypeOK, JobTypeOK, acquire, Goto, Job, Unproven
<1>7. LogInv' /\ DoneInv'
  BY <1>0, <1>3, <1>6, LogKept, DoneKept
     DEF TypeOK, QueueTypeOK, Frame, acquire, callVars, closeVars, shutVars
<1>8. PermitInv'
  <2>1. executing \subseteq Batches /\ executing' = executing \cup {b}
    BY <1>0 DEF TypeOK, JobTypeOK, acquire
  <2>2. IsFiniteSet(executing) /\ Cardinality(executing) \in Nat
    BY <2>1, BatchesAreFinite, FS_Subset, FS_CardinalityType
  <2>3. Cardinality(executing') \in {Cardinality(executing), Cardinality(executing) + 1}
    BY <2>1, <2>2, FS_AddElement
  <2>4. MaxExecuting \in Nat /\ Cardinality(executing) < MaxExecuting
    BY CommitsAssumption DEF acquire
  <2> QED BY <2>2, <2>3, <2>4 DEF PermitInv
<1> QED BY <1>1, <1>2, <1>5, <1>7, <1>8 DEF IInv

\* A job is refused its permit.
LEMMA AcquireClosedStep ==
    ASSUME IInv, NEW b \in Batches, acquire_closed(b)
    PROVE  IInv'
<1>0. /\ b \in Entrants /\ Session(b) \in Sessions
      /\ TypeOK /\ LockInv /\ JobInv /\ CreditInv
      /\ stage \in [Entrants -> Stages] /\ order \in [Sessions -> SUBSET Batches]
  BY EntrantFacts DEF IInv, TypeOK, CallTypeOK
<1>1. TypeOK'
  <2>1. CallTypeOK'
    BY <1>0, EntrantFacts DEF TypeOK, CallTypeOK, acquire_closed, Goto, send, Stages, Unproven, callVars, jobVars, closeVars, shutVars, readVars
  <2>2. JobTypeOK'
    BY <1>0 DEF TypeOK, JobTypeOK, acquire_closed, Goto, send, callVars, jobVars, closeVars, shutVars, readVars
  <2>3. QueueTypeOK'
    BY <1>0 DEF TypeOK, QueueTypeOK, acquire_closed, Goto, send, callVars, jobVars, closeVars, shutVars, readVars
  <2> QED BY <2>1, <2>2, <2>3 DEF TypeOK
<1>2. LockInv'
  BY <1>0, LockKept, EntrantFacts DEF acquire_closed, Goto, send, Held, Unproven, callVars, jobVars, closeVars, shutVars, readVars
<1>3. Frame /\ executing' \subseteq executing
  BY <1>0 DEF Frame, acquire_closed, Goto, send, callVars, jobVars, closeVars, shutVars, readVars
<1>4. \A c \in Batches : c # b => Same(c)
  BY <1>0, EntrantFacts DEF Same, TypeOK, CallTypeOK, JobTypeOK, acquire_closed, Goto, send, callVars, jobVars, closeVars, shutVars, readVars
<1>5. ASSUME b \in Batches PROVE JobOK(b)' /\ CreditOK(b)' /\ Onward(b)
  <2>1. JobOK(b) /\ CreditOK(b)
    BY <1>0, <1>5 DEF JobInv, CreditInv
  <2>2. JobOK(b)'
    BY <1>0, <1>5, <2>1 DEF JobOK, TypeOK, CallTypeOK, JobTypeOK, acquire_closed, Goto, send, Job, Unproven, callVars, jobVars, closeVars, shutVars, readVars
  <2>3. CreditOK(b)'
    BY <1>0, <1>5, <2>1 DEF CreditOK, JobOK, TypeOK, CallTypeOK, JobTypeOK, acquire_closed, Goto, send, Held, Job, Unproven, callVars, jobVars, closeVars, shutVars, readVars
  <2>4. Onward(b)
    BY <1>0, <1>5, <2>1 DEF Onward, JobOK, TypeOK, CallTypeOK, JobTypeOK, acquire_closed, Goto, send, Job, Unproven, callVars, jobVars, closeVars, shutVars, readVars
  <2> QED BY <2>2, <2>3, <2>4
<1> QED BY <1>1, <1>2, <1>3, <1>4, <1>5, LocalStep

\* A proved write lets go of what its job retained.
LEMMA JoinOkStep ==
    ASSUME IInv, NEW b \in Batches, join_ok(b)
    PROVE  IInv'
<1>0. /\ b \in Entrants /\ Session(b) \in Sessions
      /\ TypeOK /\ LockInv /\ JobInv /\ CreditInv
      /\ stage \in [Entrants -> Stages] /\ order \in [Sessions -> SUBSET Batches]
  BY EntrantFacts DEF IInv, TypeOK, CallTypeOK
<1>1. TypeOK'
  <2>1. CallTypeOK'
    BY <1>0, EntrantFacts DEF TypeOK, CallTypeOK, join_ok, Goto, Stages, Unproven, callVars, jobVars, closeVars, shutVars, readVars
  <2>2. JobTypeOK'
    BY <1>0 DEF TypeOK, JobTypeOK, join_ok, Goto, callVars, jobVars, closeVars, shutVars, readVars
  <2>3. QueueTypeOK'
    BY <1>0 DEF TypeOK, QueueTypeOK, join_ok, Goto, callVars, jobVars, closeVars, shutVars, readVars
  <2> QED BY <2>1, <2>2, <2>3 DEF TypeOK
<1>2. LockInv'
  BY <1>0, LockReleased, EntrantFacts DEF join_ok, Goto, Held, Unproven, callVars, jobVars, closeVars, shutVars, readVars
<1>3. Frame /\ executing' \subseteq executing
  BY <1>0 DEF Frame, join_ok, Goto, callVars, jobVars, closeVars, shutVars, readVars
<1>4. \A c \in Batches : c # b => Same(c)
  BY <1>0, EntrantFacts DEF Same, TypeOK, CallTypeOK, JobTypeOK, join_ok, Goto, callVars, jobVars, closeVars, shutVars, readVars
<1>5. ASSUME b \in Batches PROVE JobOK(b)' /\ CreditOK(b)' /\ Onward(b)
  <2>1. JobOK(b) /\ CreditOK(b)
    BY <1>0, <1>5 DEF JobInv, CreditInv
  <2>2. JobOK(b)'
    BY <1>0, <1>5, <2>1 DEF JobOK, TypeOK, CallTypeOK, JobTypeOK, join_ok, Goto, Job, Unproven, callVars, jobVars, closeVars, shutVars, readVars
  <2>3. CreditOK(b)'
    BY <1>0, <1>5, <2>1 DEF CreditOK, JobOK, TypeOK, CallTypeOK, JobTypeOK, join_ok, Goto, Held, Job, Unproven, callVars, jobVars, closeVars, shutVars, readVars
  <2>4. Onward(b)
    BY <1>0, <1>5, <2>1 DEF Onward, JobOK, TypeOK, CallTypeOK, JobTypeOK, join_ok, Goto, Job, Unproven, callVars, jobVars, closeVars, shutVars, readVars
  <2> QED BY <2>2, <2>3, <2>4
<1> QED BY <1>1, <1>2, <1>3, <1>4, <1>5, LocalStep

\* A proved batch is delivered, or dropped with its credit.
LEMMA DeliverStep ==
    ASSUME IInv, NEW b \in Batches, deliver(b)
    PROVE  IInv'
<1>0. /\ b \in Entrants /\ Session(b) \in Sessions
      /\ TypeOK /\ LockInv /\ JobInv /\ CreditInv
      /\ stage \in [Entrants -> Stages] /\ order \in [Sessions -> SUBSET Batches]
  BY EntrantFacts DEF IInv, TypeOK, CallTypeOK
<1>1. TypeOK'
  <2>1. CallTypeOK'
    BY <1>0, EntrantFacts DEF TypeOK, CallTypeOK, deliver, Goto, send, Stages, Unproven, callVars, jobVars, closeVars, shutVars, readVars
  <2>2. JobTypeOK'
    BY <1>0 DEF TypeOK, JobTypeOK, deliver, Goto, send, callVars, jobVars, closeVars, shutVars, readVars
  <2>3. QueueTypeOK'
    BY <1>0 DEF TypeOK, QueueTypeOK, deliver, Goto, send, callVars, jobVars, closeVars, shutVars, readVars
  <2> QED BY <2>1, <2>2, <2>3 DEF TypeOK
<1>2. LockInv'
  BY <1>0, LockKept, EntrantFacts DEF deliver, Goto, send, Held, Unproven, callVars, jobVars, closeVars, shutVars, readVars
<1>3. Frame /\ executing' \subseteq executing
  BY <1>0 DEF Frame, deliver, Goto, send, callVars, jobVars, closeVars, shutVars, readVars
<1>4. \A c \in Batches : c # b => Same(c)
  BY <1>0, EntrantFacts DEF Same, TypeOK, CallTypeOK, JobTypeOK, deliver, Goto, send, callVars, jobVars, closeVars, shutVars, readVars
<1>5. ASSUME b \in Batches PROVE JobOK(b)' /\ CreditOK(b)' /\ Onward(b)
  <2>1. JobOK(b) /\ CreditOK(b)
    BY <1>0, <1>5 DEF JobInv, CreditInv
  <2>2. JobOK(b)'
    BY <1>0, <1>5, <2>1 DEF JobOK, TypeOK, CallTypeOK, JobTypeOK, deliver, Goto, send, Job, Unproven, callVars, jobVars, closeVars, shutVars, readVars
  <2>3. CreditOK(b)'
    BY <1>0, <1>5, <2>1 DEF CreditOK, JobOK, TypeOK, CallTypeOK, JobTypeOK, deliver, Goto, send, Held, Job, Unproven, callVars, jobVars, closeVars, shutVars, readVars
  <2>4. Onward(b)
    BY <1>0, <1>5, <2>1 DEF Onward, JobOK, TypeOK, CallTypeOK, JobTypeOK, deliver, Goto, send, Job, Unproven, callVars, jobVars, closeVars, shutVars, readVars
  <2> QED BY <2>2, <2>3, <2>4
<1> QED BY <1>1, <1>2, <1>3, <1>4, <1>5, LocalStep

\* Then its job ends.
LEMMA SettleStep ==
    ASSUME IInv, NEW b \in Batches, settle(b)
    PROVE  IInv'
<1>0. /\ b \in Entrants /\ Session(b) \in Sessions
      /\ TypeOK /\ LockInv /\ JobInv /\ CreditInv
      /\ stage \in [Entrants -> Stages] /\ order \in [Sessions -> SUBSET Batches]
  BY EntrantFacts DEF IInv, TypeOK, CallTypeOK
<1>1. TypeOK'
  <2>1. CallTypeOK'
    BY <1>0, EntrantFacts DEF TypeOK, CallTypeOK, settle, Goto, finish, Stages, Unproven, callVars, jobVars, closeVars, shutVars, readVars
  <2>2. JobTypeOK'
    BY <1>0 DEF TypeOK, JobTypeOK, settle, Goto, finish, callVars, jobVars, closeVars, shutVars, readVars
  <2>3. QueueTypeOK'
    BY <1>0 DEF TypeOK, QueueTypeOK, settle, Goto, finish, callVars, jobVars, closeVars, shutVars, readVars
  <2> QED BY <2>1, <2>2, <2>3 DEF TypeOK
<1>2. LockInv'
  BY <1>0, LockKept, EntrantFacts DEF settle, Goto, finish, Held, Unproven, callVars, jobVars, closeVars, shutVars, readVars
<1>3. Frame /\ executing' \subseteq executing
  BY <1>0 DEF Frame, settle, Goto, finish, callVars, jobVars, closeVars, shutVars, readVars
<1>4. \A c \in Batches : c # b => Same(c)
  BY <1>0, EntrantFacts DEF Same, TypeOK, CallTypeOK, JobTypeOK, settle, Goto, finish, callVars, jobVars, closeVars, shutVars, readVars
<1>5. ASSUME b \in Batches PROVE JobOK(b)' /\ CreditOK(b)' /\ Onward(b)
  <2>1. JobOK(b) /\ CreditOK(b)
    BY <1>0, <1>5 DEF JobInv, CreditInv
  <2>2. JobOK(b)'
    BY <1>0, <1>5, <2>1 DEF JobOK, TypeOK, CallTypeOK, JobTypeOK, settle, Goto, finish, Job, Unproven, callVars, jobVars, closeVars, shutVars, readVars
  <2>3. CreditOK(b)'
    BY <1>0, <1>5, <2>1 DEF CreditOK, JobOK, TypeOK, CallTypeOK, JobTypeOK, settle, Goto, finish, Held, Job, Unproven, callVars, jobVars, closeVars, shutVars, readVars
  <2>4. Onward(b)
    BY <1>0, <1>5, <2>1 DEF Onward, JobOK, TypeOK, CallTypeOK, JobTypeOK, settle, Goto, finish, Job, Unproven, callVars, jobVars, closeVars, shutVars, readVars
  <2> QED BY <2>2, <2>3, <2>4
<1> QED BY <1>1, <1>2, <1>3, <1>4, <1>5, LocalStep

\* The reply of a failed write.
LEMMA JoinErrorStep ==
    ASSUME IInv, NEW b \in Batches, join_error(b)
    PROVE  IInv'
<1>0. /\ b \in Entrants /\ Session(b) \in Sessions
      /\ TypeOK /\ LockInv /\ JobInv /\ CreditInv
      /\ stage \in [Entrants -> Stages] /\ order \in [Sessions -> SUBSET Batches]
  BY EntrantFacts DEF IInv, TypeOK, CallTypeOK
<1>1. TypeOK'
  <2>1. CallTypeOK'
    BY <1>0, EntrantFacts DEF TypeOK, CallTypeOK, join_error, Goto, send, finish, Stages, Unproven, callVars, jobVars, closeVars, shutVars, readVars
  <2>2. JobTypeOK'
    BY <1>0 DEF TypeOK, JobTypeOK, join_error, Goto, send, finish, callVars, jobVars, closeVars, shutVars, readVars
  <2>3. QueueTypeOK'
    BY <1>0 DEF TypeOK, QueueTypeOK, join_error, Goto, send, finish, callVars, jobVars, closeVars, shutVars, readVars
  <2> QED BY <2>1, <2>2, <2>3 DEF TypeOK
<1>2. LockInv'
  BY <1>0, LockKept, EntrantFacts DEF join_error, Goto, send, finish, Held, Unproven, callVars, jobVars, closeVars, shutVars, readVars
<1>3. Frame /\ executing' \subseteq executing
  BY <1>0 DEF Frame, join_error, Goto, send, finish, callVars, jobVars, closeVars, shutVars, readVars
<1>4. \A c \in Batches : c # b => Same(c)
  BY <1>0, EntrantFacts DEF Same, TypeOK, CallTypeOK, JobTypeOK, join_error, Goto, send, finish, callVars, jobVars, closeVars, shutVars, readVars
<1>5. ASSUME b \in Batches PROVE JobOK(b)' /\ CreditOK(b)' /\ Onward(b)
  <2>1. JobOK(b) /\ CreditOK(b)
    BY <1>0, <1>5 DEF JobInv, CreditInv
  <2>2. JobOK(b)'
    BY <1>0, <1>5, <2>1 DEF JobOK, TypeOK, CallTypeOK, JobTypeOK, join_error, Goto, send, finish, Job, Unproven, callVars, jobVars, closeVars, shutVars, readVars
  <2>3. CreditOK(b)'
    BY <1>0, <1>5, <2>1 DEF CreditOK, JobOK, TypeOK, CallTypeOK, JobTypeOK, join_error, Goto, send, finish, Held, Job, Unproven, callVars, jobVars, closeVars, shutVars, readVars
  <2>4. Onward(b)
    BY <1>0, <1>5, <2>1 DEF Onward, JobOK, TypeOK, CallTypeOK, JobTypeOK, join_error, Goto, send, finish, Job, Unproven, callVars, jobVars, closeVars, shutVars, readVars
  <2> QED BY <2>2, <2>3, <2>4
<1> QED BY <1>1, <1>2, <1>3, <1>4, <1>5, LocalStep

\* The deadline of a write closes admission.
LEMMA DeadlineStep ==
    ASSUME IInv, NEW b \in Batches, deadline(b)
    PROVE  IInv'
<1>0. /\ b \in Entrants /\ Session(b) \in Sessions
      /\ TypeOK /\ LockInv /\ JobInv /\ CreditInv
      /\ stage \in [Entrants -> Stages] /\ order \in [Sessions -> SUBSET Batches]
  BY EntrantFacts DEF IInv, TypeOK, CallTypeOK
<1>1. TypeOK'
  <2>1. CallTypeOK'
    BY <1>0, EntrantFacts DEF TypeOK, CallTypeOK, deadline, Goto, CloseSemaphores, Stages, Unproven, callVars, jobVars, closeVars, shutVars, readVars
  <2>2. JobTypeOK'
    BY <1>0 DEF TypeOK, JobTypeOK, deadline, Goto, CloseSemaphores, callVars, jobVars, closeVars, shutVars, readVars
  <2>3. QueueTypeOK'
    BY <1>0 DEF TypeOK, QueueTypeOK, deadline, Goto, CloseSemaphores, callVars, jobVars, closeVars, shutVars, readVars
  <2> QED BY <2>1, <2>2, <2>3 DEF TypeOK
<1>2. LockInv'
  BY <1>0, LockKept, EntrantFacts DEF deadline, Goto, CloseSemaphores, Held, Unproven, callVars, jobVars, closeVars, shutVars, readVars
<1>3. Frame /\ executing' \subseteq executing
  BY <1>0 DEF Frame, deadline, Goto, CloseSemaphores, callVars, jobVars, closeVars, shutVars, readVars
<1>4. \A c \in Batches : c # b => Same(c)
  BY <1>0, EntrantFacts DEF Same, TypeOK, CallTypeOK, JobTypeOK, deadline, Goto, CloseSemaphores, callVars, jobVars, closeVars, shutVars, readVars
<1>5. ASSUME b \in Batches PROVE JobOK(b)' /\ CreditOK(b)' /\ Onward(b)
  <2>1. JobOK(b) /\ CreditOK(b)
    BY <1>0, <1>5 DEF JobInv, CreditInv
  <2>2. JobOK(b)'
    BY <1>0, <1>5, <2>1 DEF JobOK, TypeOK, CallTypeOK, JobTypeOK, deadline, Goto, CloseSemaphores, Job, Unproven, callVars, jobVars, closeVars, shutVars, readVars
  <2>3. CreditOK(b)'
    BY <1>0, <1>5, <2>1 DEF CreditOK, JobOK, TypeOK, CallTypeOK, JobTypeOK, deadline, Goto, CloseSemaphores, Held, Job, Unproven, callVars, jobVars, closeVars, shutVars, readVars
  <2>4. Onward(b)
    BY <1>0, <1>5, <2>1 DEF Onward, JobOK, TypeOK, CallTypeOK, JobTypeOK, deadline, Goto, CloseSemaphores, Job, Unproven, callVars, jobVars, closeVars, shutVars, readVars
  <2> QED BY <2>2, <2>3, <2>4
<1> QED BY <1>1, <1>2, <1>3, <1>4, <1>5, LocalStep

\* The deadline of a write is reported.
LEMMA DeadlineTellStep ==
    ASSUME IInv, NEW b \in Batches, deadline_tell(b)
    PROVE  IInv'
<1>0. /\ b \in Entrants /\ Session(b) \in Sessions
      /\ TypeOK /\ LockInv /\ JobInv /\ CreditInv
      /\ stage \in [Entrants -> Stages] /\ order \in [Sessions -> SUBSET Batches]
  BY EntrantFacts DEF IInv, TypeOK, CallTypeOK
<1>1. TypeOK'
  <2>1. CallTypeOK'
    BY <1>0, EntrantFacts DEF TypeOK, CallTypeOK, deadline_tell, Goto, send, finish, notify_closed, Stages, Unproven, callVars, jobVars, closeVars, shutVars, readVars
  <2>2. JobTypeOK'
    BY <1>0 DEF TypeOK, JobTypeOK, deadline_tell, Goto, send, finish, notify_closed, callVars, jobVars, closeVars, shutVars, readVars
  <2>3. QueueTypeOK'
    BY <1>0 DEF TypeOK, QueueTypeOK, deadline_tell, Goto, send, finish, notify_closed, callVars, jobVars, closeVars, shutVars, readVars
  <2> QED BY <2>1, <2>2, <2>3 DEF TypeOK
<1>2. LockInv'
  BY <1>0, LockKept, EntrantFacts DEF deadline_tell, Goto, send, finish, notify_closed, Held, Unproven, callVars, jobVars, closeVars, shutVars, readVars
<1>3. Frame /\ executing' \subseteq executing
  BY <1>0 DEF Frame, deadline_tell, Goto, send, finish, notify_closed, callVars, jobVars, closeVars, shutVars, readVars
<1>4. \A c \in Batches : c # b => Same(c)
  BY <1>0, EntrantFacts DEF Same, TypeOK, CallTypeOK, JobTypeOK, deadline_tell, Goto, send, finish, notify_closed, callVars, jobVars, closeVars, shutVars, readVars
<1>5. ASSUME b \in Batches PROVE JobOK(b)' /\ CreditOK(b)' /\ Onward(b)
  <2>1. JobOK(b) /\ CreditOK(b)
    BY <1>0, <1>5 DEF JobInv, CreditInv
  <2>2. JobOK(b)'
    BY <1>0, <1>5, <2>1 DEF JobOK, TypeOK, CallTypeOK, JobTypeOK, deadline_tell, Goto, send, finish, notify_closed, Job, Unproven, callVars, jobVars, closeVars, shutVars, readVars
  <2>3. CreditOK(b)'
    BY <1>0, <1>5, <2>1 DEF CreditOK, JobOK, TypeOK, CallTypeOK, JobTypeOK, deadline_tell, Goto, send, finish, notify_closed, Held, Job, Unproven, callVars, jobVars, closeVars, shutVars, readVars
  <2>4. Onward(b)
    BY <1>0, <1>5, <2>1 DEF Onward, JobOK, TypeOK, CallTypeOK, JobTypeOK, deadline_tell, Goto, send, finish, notify_closed, Job, Unproven, callVars, jobVars, closeVars, shutVars, readVars
  <2> QED BY <2>2, <2>3, <2>4
<1> QED BY <1>1, <1>2, <1>3, <1>4, <1>5, LocalStep

\* A late worker ends.
LEMMA LateJoinStep ==
    ASSUME IInv, NEW b \in Batches, late_join(b)
    PROVE  IInv'
<1>0. /\ b \in Entrants /\ Session(b) \in Sessions
      /\ TypeOK /\ LockInv /\ JobInv /\ CreditInv
      /\ stage \in [Entrants -> Stages] /\ order \in [Sessions -> SUBSET Batches]
  BY EntrantFacts DEF IInv, TypeOK, CallTypeOK
<1>1. TypeOK'
  <2>1. CallTypeOK'
    BY <1>0, EntrantFacts DEF TypeOK, CallTypeOK, late_join, Goto, Stages, Unproven, callVars, jobVars, closeVars, shutVars, readVars
  <2>2. JobTypeOK'
    BY <1>0 DEF TypeOK, JobTypeOK, late_join, Goto, callVars, jobVars, closeVars, shutVars, readVars
  <2>3. QueueTypeOK'
    BY <1>0 DEF TypeOK, QueueTypeOK, late_join, Goto, callVars, jobVars, closeVars, shutVars, readVars
  <2> QED BY <2>1, <2>2, <2>3 DEF TypeOK
<1>2. LockInv'
  BY <1>0, LockKept, EntrantFacts DEF late_join, Goto, Held, Unproven, callVars, jobVars, closeVars, shutVars, readVars
<1>3. Frame /\ executing' \subseteq executing
  BY <1>0 DEF Frame, late_join, Goto, callVars, jobVars, closeVars, shutVars, readVars
<1>4. \A c \in Batches : c # b => Same(c)
  BY <1>0, EntrantFacts DEF Same, TypeOK, CallTypeOK, JobTypeOK, late_join, Goto, callVars, jobVars, closeVars, shutVars, readVars
<1>5. ASSUME b \in Batches PROVE JobOK(b)' /\ CreditOK(b)' /\ Onward(b)
  <2>1. JobOK(b) /\ CreditOK(b)
    BY <1>0, <1>5 DEF JobInv, CreditInv
  <2>2. JobOK(b)'
    BY <1>0, <1>5, <2>1 DEF JobOK, TypeOK, CallTypeOK, JobTypeOK, late_join, Goto, Job, Unproven, callVars, jobVars, closeVars, shutVars, readVars
  <2>3. CreditOK(b)'
    BY <1>0, <1>5, <2>1 DEF CreditOK, JobOK, TypeOK, CallTypeOK, JobTypeOK, late_join, Goto, Held, Job, Unproven, callVars, jobVars, closeVars, shutVars, readVars
  <2>4. Onward(b)
    BY <1>0, <1>5, <2>1 DEF Onward, JobOK, TypeOK, CallTypeOK, JobTypeOK, late_join, Goto, Job, Unproven, callVars, jobVars, closeVars, shutVars, readVars
  <2> QED BY <2>2, <2>3, <2>4
<1> QED BY <1>1, <1>2, <1>3, <1>4, <1>5, LocalStep

\* JobOwner::drop closes the semaphores.
LEMMA DropCloseStep ==
    ASSUME IInv, NEW b \in Batches, drop_close(b)
    PROVE  IInv'
<1>0. /\ b \in Entrants /\ Session(b) \in Sessions
      /\ TypeOK /\ LockInv /\ JobInv /\ CreditInv
      /\ stage \in [Entrants -> Stages] /\ order \in [Sessions -> SUBSET Batches]
  BY EntrantFacts DEF IInv, TypeOK, CallTypeOK
<1>1. TypeOK'
  <2>1. CallTypeOK'
    BY <1>0, EntrantFacts DEF TypeOK, CallTypeOK, drop_close, Goto, CloseSemaphores, Stages, Unproven, callVars, jobVars, closeVars, shutVars, readVars
  <2>2. JobTypeOK'
    BY <1>0 DEF TypeOK, JobTypeOK, drop_close, Goto, CloseSemaphores, callVars, jobVars, closeVars, shutVars, readVars
  <2>3. QueueTypeOK'
    BY <1>0 DEF TypeOK, QueueTypeOK, drop_close, Goto, CloseSemaphores, callVars, jobVars, closeVars, shutVars, readVars
  <2> QED BY <2>1, <2>2, <2>3 DEF TypeOK
<1>2. LockInv'
  BY <1>0, LockKept, EntrantFacts DEF drop_close, Goto, CloseSemaphores, Held, Unproven, callVars, jobVars, closeVars, shutVars, readVars
<1>3. Frame /\ executing' \subseteq executing
  BY <1>0 DEF Frame, drop_close, Goto, CloseSemaphores, callVars, jobVars, closeVars, shutVars, readVars
<1>4. \A c \in Batches : c # b => Same(c)
  BY <1>0, EntrantFacts DEF Same, TypeOK, CallTypeOK, JobTypeOK, drop_close, Goto, CloseSemaphores, callVars, jobVars, closeVars, shutVars, readVars
<1>5. ASSUME b \in Batches PROVE JobOK(b)' /\ CreditOK(b)' /\ Onward(b)
  <2>1. JobOK(b) /\ CreditOK(b)
    BY <1>0, <1>5 DEF JobInv, CreditInv
  <2>2. JobOK(b)'
    BY <1>0, <1>5, <2>1 DEF JobOK, TypeOK, CallTypeOK, JobTypeOK, drop_close, Goto, CloseSemaphores, Job, Unproven, callVars, jobVars, closeVars, shutVars, readVars
  <2>3. CreditOK(b)'
    BY <1>0, <1>5, <2>1 DEF CreditOK, JobOK, TypeOK, CallTypeOK, JobTypeOK, drop_close, Goto, CloseSemaphores, Held, Job, Unproven, callVars, jobVars, closeVars, shutVars, readVars
  <2>4. Onward(b)
    BY <1>0, <1>5, <2>1 DEF Onward, JobOK, TypeOK, CallTypeOK, JobTypeOK, drop_close, Goto, CloseSemaphores, Job, Unproven, callVars, jobVars, closeVars, shutVars, readVars
  <2> QED BY <2>2, <2>3, <2>4
<1> QED BY <1>1, <1>2, <1>3, <1>4, <1>5, LocalStep

\* JobOwner::drop retains the job.
LEMMA DropRetainStep ==
    ASSUME IInv, NEW b \in Batches, drop_retain(b)
    PROVE  IInv'
<1>0. /\ b \in Entrants /\ Session(b) \in Sessions
      /\ TypeOK /\ LockInv /\ JobInv /\ CreditInv
      /\ stage \in [Entrants -> Stages] /\ order \in [Sessions -> SUBSET Batches]
  BY EntrantFacts DEF IInv, TypeOK, CallTypeOK
<1>1. TypeOK'
  <2>1. CallTypeOK'
    BY <1>0, EntrantFacts DEF TypeOK, CallTypeOK, drop_retain, Goto, Stages, Unproven, callVars, jobVars, closeVars, shutVars, readVars
  <2>2. JobTypeOK'
    BY <1>0 DEF TypeOK, JobTypeOK, drop_retain, Goto, callVars, jobVars, closeVars, shutVars, readVars
  <2>3. QueueTypeOK'
    BY <1>0 DEF TypeOK, QueueTypeOK, drop_retain, Goto, callVars, jobVars, closeVars, shutVars, readVars
  <2> QED BY <2>1, <2>2, <2>3 DEF TypeOK
<1>2. LockInv'
  BY <1>0, LockKept, EntrantFacts DEF drop_retain, Goto, Held, Unproven, callVars, jobVars, closeVars, shutVars, readVars
<1>3. Frame /\ executing' \subseteq executing
  BY <1>0 DEF Frame, drop_retain, Goto, callVars, jobVars, closeVars, shutVars, readVars
<1>4. \A c \in Batches : c # b => Same(c)
  BY <1>0, EntrantFacts DEF Same, TypeOK, CallTypeOK, JobTypeOK, drop_retain, Goto, callVars, jobVars, closeVars, shutVars, readVars
<1>5. ASSUME b \in Batches PROVE JobOK(b)' /\ CreditOK(b)' /\ Onward(b)
  <2>1. JobOK(b) /\ CreditOK(b)
    BY <1>0, <1>5 DEF JobInv, CreditInv
  <2>2. JobOK(b)'
    BY <1>0, <1>5, <2>1 DEF JobOK, TypeOK, CallTypeOK, JobTypeOK, drop_retain, Goto, Job, Unproven, callVars, jobVars, closeVars, shutVars, readVars
  <2>3. CreditOK(b)'
    BY <1>0, <1>5, <2>1 DEF CreditOK, JobOK, TypeOK, CallTypeOK, JobTypeOK, drop_retain, Goto, Held, Job, Unproven, callVars, jobVars, closeVars, shutVars, readVars
  <2>4. Onward(b)
    BY <1>0, <1>5, <2>1 DEF Onward, JobOK, TypeOK, CallTypeOK, JobTypeOK, drop_retain, Goto, Job, Unproven, callVars, jobVars, closeVars, shutVars, readVars
  <2> QED BY <2>2, <2>3, <2>4
<1> QED BY <1>1, <1>2, <1>3, <1>4, <1>5, LocalStep

\* JobOwner::drop tells everyone.
LEMMA DropNotifyStep ==
    ASSUME IInv, NEW b \in Batches, drop_notify(b)
    PROVE  IInv'
<1>0. /\ b \in Entrants /\ Session(b) \in Sessions
      /\ TypeOK /\ LockInv /\ JobInv /\ CreditInv
      /\ stage \in [Entrants -> Stages] /\ order \in [Sessions -> SUBSET Batches]
  BY EntrantFacts DEF IInv, TypeOK, CallTypeOK
<1>1. TypeOK'
  <2>1. CallTypeOK'
    BY <1>0, EntrantFacts DEF TypeOK, CallTypeOK, drop_notify, Goto, finish, notify_closed, Stages, Unproven, callVars, jobVars, closeVars, shutVars, readVars
  <2>2. JobTypeOK'
    BY <1>0 DEF TypeOK, JobTypeOK, drop_notify, Goto, finish, notify_closed, callVars, jobVars, closeVars, shutVars, readVars
  <2>3. QueueTypeOK'
    BY <1>0 DEF TypeOK, QueueTypeOK, drop_notify, Goto, finish, notify_closed, callVars, jobVars, closeVars, shutVars, readVars
  <2> QED BY <2>1, <2>2, <2>3 DEF TypeOK
<1>2. LockInv'
  BY <1>0, LockKept, EntrantFacts DEF drop_notify, Goto, finish, notify_closed, Held, Unproven, callVars, jobVars, closeVars, shutVars, readVars
<1>3. Frame /\ executing' \subseteq executing
  BY <1>0 DEF Frame, drop_notify, Goto, finish, notify_closed, callVars, jobVars, closeVars, shutVars, readVars
<1>4. \A c \in Batches : c # b => Same(c)
  BY <1>0, EntrantFacts DEF Same, TypeOK, CallTypeOK, JobTypeOK, drop_notify, Goto, finish, notify_closed, callVars, jobVars, closeVars, shutVars, readVars
<1>5. ASSUME b \in Batches PROVE JobOK(b)' /\ CreditOK(b)' /\ Onward(b)
  <2>1. JobOK(b) /\ CreditOK(b)
    BY <1>0, <1>5 DEF JobInv, CreditInv
  <2>2. JobOK(b)'
    BY <1>0, <1>5, <2>1 DEF JobOK, TypeOK, CallTypeOK, JobTypeOK, drop_notify, Goto, finish, notify_closed, Job, Unproven, callVars, jobVars, closeVars, shutVars, readVars
  <2>3. CreditOK(b)'
    BY <1>0, <1>5, <2>1 DEF CreditOK, JobOK, TypeOK, CallTypeOK, JobTypeOK, drop_notify, Goto, finish, notify_closed, Held, Job, Unproven, callVars, jobVars, closeVars, shutVars, readVars
  <2>4. Onward(b)
    BY <1>0, <1>5, <2>1 DEF Onward, JobOK, TypeOK, CallTypeOK, JobTypeOK, drop_notify, Goto, finish, notify_closed, Job, Unproven, callVars, jobVars, closeVars, shutVars, readVars
  <2> QED BY <2>2, <2>3, <2>4
<1> QED BY <1>1, <1>2, <1>3, <1>4, <1>5, LocalStep

\* settle_effects finds its session's reads ended.
LEMMA ReadsSettleStep ==
    ASSUME IInv, NEW e \in Settlers, reads_settle(e)
    PROVE  IInv'
<1>0. /\ e \in Entrants /\ Session(e) \in Sessions
      /\ TypeOK /\ LockInv /\ JobInv /\ CreditInv
      /\ stage \in [Entrants -> Stages] /\ order \in [Sessions -> SUBSET Batches]
  BY EntrantFacts DEF IInv, TypeOK, CallTypeOK
<1>1. TypeOK'
  <2>1. CallTypeOK'
    BY <1>0, EntrantFacts DEF TypeOK, CallTypeOK, reads_settle, Goto, Stages, Unproven, callVars, jobVars, closeVars, shutVars, readVars
  <2>2. JobTypeOK'
    BY <1>0 DEF TypeOK, JobTypeOK, reads_settle, Goto, callVars, jobVars, closeVars, shutVars, readVars
  <2>3. QueueTypeOK'
    BY <1>0 DEF TypeOK, QueueTypeOK, reads_settle, Goto, callVars, jobVars, closeVars, shutVars, readVars
  <2> QED BY <2>1, <2>2, <2>3 DEF TypeOK
<1>2. LockInv'
  BY <1>0, LockKept, EntrantFacts DEF reads_settle, Goto, Held, Unproven, callVars, jobVars, closeVars, shutVars, readVars
<1>3. Frame /\ executing' \subseteq executing
  BY <1>0 DEF Frame, reads_settle, Goto, callVars, jobVars, closeVars, shutVars, readVars
<1>4. \A c \in Batches : c # e => Same(c)
  BY <1>0, EntrantFacts DEF Same, TypeOK, CallTypeOK, JobTypeOK, reads_settle, Goto, callVars, jobVars, closeVars, shutVars, readVars
<1> QED BY <1>1, <1>2, <1>3, <1>4, EntrantFacts, LocalStep

\* settle_effects gives its session's reads up.
LEMMA ReadsExpireStep ==
    ASSUME IInv, NEW e \in Settlers, reads_expire(e)
    PROVE  IInv'
<1>0. /\ e \in Entrants /\ Session(e) \in Sessions
      /\ TypeOK /\ LockInv /\ JobInv /\ CreditInv
      /\ stage \in [Entrants -> Stages] /\ order \in [Sessions -> SUBSET Batches]
  BY EntrantFacts DEF IInv, TypeOK, CallTypeOK
<1>1. TypeOK'
  <2>1. CallTypeOK'
    BY <1>0, EntrantFacts DEF TypeOK, CallTypeOK, reads_expire, Goto, Stages, Unproven, callVars, jobVars, closeVars, shutVars, readVars
  <2>2. JobTypeOK'
    BY <1>0 DEF TypeOK, JobTypeOK, reads_expire, Goto, callVars, jobVars, closeVars, shutVars, readVars
  <2>3. QueueTypeOK'
    BY <1>0 DEF TypeOK, QueueTypeOK, reads_expire, Goto, callVars, jobVars, closeVars, shutVars, readVars
  <2> QED BY <2>1, <2>2, <2>3 DEF TypeOK
<1>2. LockInv'
  BY <1>0, LockKept, EntrantFacts DEF reads_expire, Goto, Held, Unproven, callVars, jobVars, closeVars, shutVars, readVars
<1>3. Frame /\ executing' \subseteq executing
  BY <1>0 DEF Frame, reads_expire, Goto, callVars, jobVars, closeVars, shutVars, readVars
<1>4. \A c \in Batches : c # e => Same(c)
  BY <1>0, EntrantFacts DEF Same, TypeOK, CallTypeOK, JobTypeOK, reads_expire, Goto, callVars, jobVars, closeVars, shutVars, readVars
<1> QED BY <1>1, <1>2, <1>3, <1>4, EntrantFacts, LocalStep

\* A step of the reads touches nothing else.
LEMMA ReadStep ==
    ASSUME IInv, NEW r \in Reads, read_admit(r) \/ read_end(r) \/ read_deliver(r)
    PROVE  IInv'
<1>0. /\ TypeOK /\ Session(r) \in Sessions
      /\ LockInv /\ JobInv /\ CreditInv /\ LogInv /\ DoneInv /\ PermitInv
  BY ReadFacts DEF IInv
<1>1. UNCHANGED <<stage, woken, order, callVars, jobVars, closeVars, shutVars, log>>
  BY DEF read_admit, read_end, read_deliver
<1>2. TypeOK'
  <2>1. CallTypeOK' /\ JobTypeOK'
    BY <1>0, <1>1 DEF TypeOK, CallTypeOK, JobTypeOK, callVars, jobVars
  <2>2. QueueTypeOK'
    BY <1>0, <1>1 DEF TypeOK, QueueTypeOK, read_admit, read_end, read_deliver, closeVars, shutVars
  <2> QED BY <2>1, <2>2 DEF TypeOK
<1>3. LockInv' /\ JobInv' /\ CreditInv'
  BY <1>0, <1>1 DEF LockInv, JobInv, JobOK, CreditInv, CreditOK, callVars, jobVars
<1>4. LogInv' /\ DoneInv' /\ PermitInv'
  BY <1>0, <1>1 DEF LogInv, DoneInv, PermitInv, callVars, jobVars, closeVars, shutVars
<1> QED BY <1>2, <1>3, <1>4 DEF IInv

\* shutdown lists every job there is and closes the queue to new ones; its end
\* reads their completions.
LEMMA ShutdownStep ==
    ASSUME IInv, shutdown_close \/ shutdown_done
    PROVE  IInv'
<1>0. /\ TypeOK /\ LockInv /\ JobInv /\ CreditInv /\ LogInv /\ DoneInv /\ PermitInv
  BY DEF IInv
<1>1. UNCHANGED <<stage, order, callVars, jobVars, log, readVars>>
  BY DEF shutdown_close, shutdown_done
<1>2. TypeOK'
  <2>1. CallTypeOK'
    BY <1>0, <1>1 DEF TypeOK, CallTypeOK, shutdown_close, shutdown_done, notify_closed, callVars
  <2>2. JobTypeOK'
    BY <1>0, <1>1 DEF TypeOK, JobTypeOK, jobVars
  <2>3. QueueTypeOK'
    BY <1>0, <1>1 DEF TypeOK, QueueTypeOK, JobTypeOK, shutdown_close, shutdown_done,
                      closeVars, readVars
  <2> QED BY <2>1, <2>2, <2>3 DEF TypeOK
<1>3. LockInv' /\ JobInv' /\ CreditInv'
  BY <1>0, <1>1 DEF LockInv, JobInv, JobOK, CreditInv, CreditOK, callVars, jobVars
<1>4. LogInv' /\ PermitInv'
  BY <1>0, <1>1 DEF LogInv, PermitInv, callVars, jobVars
<1>5. DoneInv'
  <2>1. CASE shutdown_close
    BY <1>0, <1>1, <2>1 DEF DoneInv, JobInv, JobOK, shutdown_close, jobVars
  <2>2. CASE shutdown_done
    <3>1. waits' = waits /\ state_closed' = state_closed /\ shutdown # "none"
      BY <2>2 DEF shutdown_done, closeVars
    <3>2. shutdown' = "proved" => \A b \in waits : completion[b] = "ok"
      BY <1>0, <2>2 DEF shutdown_done, TypeOK, JobTypeOK, QueueTypeOK
    <3> QED BY <1>0, <1>1, <3>1, <3>2 DEF DoneInv, jobVars
  <2> QED BY <2>1, <2>2
<1> QED BY <1>2, <1>3, <1>4, <1>5 DEF IInv

\* Stuttering keeps the invariant.
LEMMA StutterStep == IInv /\ UNCHANGED vars => IInv'
<1> SUFFICES ASSUME IInv, UNCHANGED vars PROVE IInv'
  OBVIOUS
<1>1. TypeOK'
  BY DEF IInv, TypeOK, CallTypeOK, JobTypeOK, QueueTypeOK, vars, callVars, jobVars,
         closeVars, shutVars, readVars
<1>2. LockInv' /\ JobInv' /\ CreditInv'
  BY DEF IInv, LockInv, JobInv, JobOK, CreditInv, CreditOK, vars, callVars, jobVars
<1>3. LogInv' /\ DoneInv' /\ PermitInv'
  BY DEF IInv, LogInv, DoneInv, PermitInv, vars, callVars, jobVars, closeVars, shutVars
<1> QED BY <1>1, <1>2, <1>3 DEF IInv

\* Every step keeps the invariant.
LEMMA NextStep == IInv /\ [Next]_vars => IInv'
<1> SUFFICES ASSUME IInv, [Next]_vars PROVE IInv'
  OBVIOUS
<1>1. ASSUME NEW b \in Batches, reserve(b) \/ execute(b) \/ cancel(b) \/ consume(b) PROVE IInv'
  BY <1>1, ReserveStep, ExecuteStep, CancelStep, ConsumeStep
<1>2. ASSUME NEW e \in Settlers, settle_effects(e) \/ reads_settle(e) \/ reads_expire(e) PROVE IInv'
  BY <1>2, SettleEffectsStep, ReadsSettleStep, ReadsExpireStep
<1>3. ASSUME NEW r \in Reads, read_admit(r) \/ read_end(r) \/ read_deliver(r) PROVE IInv'
  BY <1>3, ReadStep
<1>4. ASSUME NEW e \in Entrants, Enter(e) PROVE IInv'
  BY <1>4, EnterEnableStep, EnterCheckStep, EnterGrantedStep, EnterRefusedStep DEF Enter
<1>5. ASSUME NEW b \in Batches, Worker(b) PROVE IInv'
  BY <1>5, PersistAppendStep, PersistDoneStep, PersistFailsStep DEF Worker
<1>6. ASSUME NEW b \in Batches, Owner(b) PROVE IInv'
  BY <1>6, AcquireStep, AcquireClosedStep, JoinOkStep, DeliverStep, SettleStep, JoinErrorStep,
     DeadlineStep, DeadlineTellStep, LateJoinStep, DropCloseStep, DropRetainStep,
     DropNotifyStep DEF Owner
<1>7. ASSUME shutdown_close \/ shutdown_done PROVE IInv'
  BY <1>7, ShutdownStep
<1> QED BY <1>1, <1>2, <1>3, <1>4, <1>5, <1>6, <1>7, StutterStep DEF Next

\* The inductive invariant holds in every reachable state.
THEOREM CommitsInvariant == Spec => []IInv
<1>1. Init => IInv
  BY InitIInv
<1>2. IInv /\ [Next]_vars => IInv'
  BY NextStep
<1> QED BY <1>1, <1>2, PTL DEF Spec

-----------------------------------------------------------------------------

\* Types: nothing but batches ever holds a lock, a credit or a permit.
THEOREM CommitsTypes == Spec => []TypeOK
<1>1. IInv => TypeOK
  BY DEF IInv
<1> QED BY <1>1, CommitsInvariant, PTL

\* A session's journal stops at its first unproved write, for any number of
\* sessions, batches, permits and credits (commits.rs, JobOwner::drop).
THEOREM UnprovedWritesStopTheirSession == Spec => []FailStop
<1>1. IInv => FailStop
  <2> SUFFICES ASSUME IInv, NEW b \in Batches, stage[b] \in Unproven
               PROVE  /\ \A c \in Siblings(b) : stage[c] \notin Unproven
                      /\ \A i \in 1..Len(log[Session(b)]) :
                            log[Session(b)][i] = b => i = Len(log[Session(b)])
    BY DEF FailStop
  <2>1. ASSUME NEW c \in Siblings(b), stage[c] \in Unproven PROVE FALSE
    BY <2>1, OneHolder DEF IInv, Held, Siblings
  <2>2. Session(b) \in Sessions
    BY EntrantFacts
  <2> QED BY <2>1, <2>2 DEF IInv, LogInv
<1> QED BY <1>1, CommitsInvariant, PTL

\* A caller told "committed" finds its batch where it numbered it and is its
\* only owner (journal_events.rs, Arc::try_unwrap).
THEOREM AcknowledgedBatchesAreOwned == Spec => []AcknowledgedIsOwned
<1>1. IInv => AcknowledgedIsOwned
  <2> SUFFICES ASSUME IInv, NEW b \in Batches, reply[b] = "ok"
               PROVE  /\ first[b] \in DOMAIN log[Session(b)] /\ log[Session(b)][first[b]] = b
                      /\ b \notin retained /\ b \in credit
    BY DEF AcknowledgedIsOwned
  <2>1. stage[b] \in {"delivered", "settled"} /\ b \in credit
    BY DEF IInv, CreditInv, CreditOK
  <2>2. b \notin retained /\ worker[b] = "ok"
    BY <2>1 DEF IInv, JobInv, JobOK, Unproven
  <2>3. first[b] \in 1..Len(log[Session(b)]) /\ log[Session(b)][first[b]] = b
    BY <2>2 DEF IInv, LogInv
  <2>4. log[Session(b)] \in Seq(Batches)
    BY EntrantFacts DEF IInv, TypeOK, JobTypeOK
  <2> QED BY <2>1, <2>2, <2>3, <2>4
<1> QED BY <1>1, CommitsInvariant, PTL

\* Everything that still writes is charged, late and abandoned writes included
\* (commits.rs, RetainedCommit).
THEOREM RunningWritesAreCharged == Spec => []WritesAreCharged
<1>1. IInv => WritesAreCharged
  <2> SUFFICES ASSUME IInv PROVE WritesAreCharged
    OBVIOUS
  <2> DEFINE writing == {b \in Batches : worker[b] \in {"running", "landed"}}
  <2>1. executing \subseteq Batches /\ PermitInv
    BY DEF IInv, TypeOK, JobTypeOK
  <2>2. writing \subseteq executing
    BY DEF IInv, JobInv, JobOK
  <2>3. IsFiniteSet(executing)
    BY <2>1, BatchesAreFinite, FS_Subset
  <2>4. IsFiniteSet(writing) /\ Cardinality(writing) <= Cardinality(executing)
    BY <2>2, <2>3, FS_Subset
  <2>5. /\ Cardinality(writing) \in Nat /\ Cardinality(executing) \in Nat
        /\ MaxExecuting \in Nat
    BY <2>3, <2>4, FS_CardinalityType, CommitsAssumption
  <2>6. Cardinality(writing) <= MaxExecuting
    BY <2>1, <2>4, <2>5 DEF PermitInv
  <2>7. ASSUME NEW b \in writing PROVE b \in credit /\ order[Session(b)] = {b}
    <3>1. b \in Batches /\ stage[b] \in Held
      BY DEF IInv, JobInv, JobOK, Held, Unproven
    <3>2. b \in credit
      BY <3>1 DEF IInv, CreditInv, CreditOK
    <3>3. b \in order[Session(b)] /\ Session(b) \in Sessions
      BY <3>1, EntrantFacts DEF IInv, LockInv
    <3> QED BY <3>2, <3>3 DEF IInv, LockInv
  <2> QED BY <2>6, <2>7 DEF WritesAreCharged
<1> QED BY <1>1, CommitsInvariant, PTL

\* A successful shutdown leaves no job that could still write (commits.rs,
\* JournalCommits::shutdown).
THEOREM ShutdownIsAProof == Spec => []ShutdownProves
<1>1. IInv => ShutdownProves
  <2> SUFFICES ASSUME IInv, shutdown = "proved", NEW b \in Batches
               PROVE  /\ stage[b] \notin Unproven
                      /\ worker[b] \notin {"running", "landed"}
                      /\ b \in abandoned => b \notin credit
    BY DEF ShutdownProves
  <2>1. JobOK(b) /\ CreditOK(b)
    BY DEF IInv, JobInv, CreditInv
  <2>2. stage[b] \notin Job
    <3>1. stage[b] \in Job => completion[b] = "ok"
      BY DEF IInv, DoneInv
    <3> QED BY <2>1, <3>1 DEF JobOK, Job, Unproven
  <2> QED BY <2>1, <2>2 DEF JobOK, CreditOK, Job, Unproven
<1> QED BY <1>1, CommitsInvariant, PTL

\* What a call of settle_effects has to have seen when it passes the lock and
\* when it returns Ok.
Passes(e) ==
    /\ stage[e] # "reading" /\ stage'[e] = "reading" => order[Session(e)] = {}
    /\ stage[e] # "settled" /\ stage'[e] = "settled" => ~read_failed[Session(e)]

\* Only the call itself moves a settler.
LEMMA SettlerMoves ==
    ASSUME IInv, [Next]_vars, NEW e \in Settlers
    PROVE  Passes(e)
<1>0. /\ stage \in [Entrants -> Stages] /\ e \in Entrants /\ e \notin Batches
      /\ \A b \in Batches : b \in Entrants /\ b # e
  BY EntrantFacts DEF IInv, TypeOK, CallTypeOK
<1>1. stage'[e] = stage[e] => Passes(e)
  BY DEF Passes
<1>2. ASSUME NEW b \in Batches, reserve(b) \/ execute(b) \/ cancel(b) \/ consume(b)
      PROVE  stage'[e] = stage[e]
  <2>1. CASE reserve(b)
    BY <1>0, <2>1 DEF reserve, Goto
  <2>2. CASE execute(b)
    BY <1>0, <2>2 DEF execute, Refused, Goto
  <2>3. CASE cancel(b)
    BY <1>0, <2>3 DEF cancel, Refused, Goto
  <2>4. CASE consume(b)
    BY <1>0, <2>4 DEF consume
  <2> QED BY <1>2, <2>1, <2>2, <2>3, <2>4
<1>3. ASSUME NEW b \in Batches, Worker(b)
      PROVE  stage'[e] = stage[e]
  BY <1>3 DEF Worker, persist_append, persist_done, persist_fails
<1>4. ASSUME NEW b \in Batches, Owner(b)
      PROVE  stage'[e] = stage[e]
  <2>1. \E p \in Stages : Goto(b, p)
    BY <1>4 DEF Owner, Stages, Unproven, acquire, acquire_closed, join_ok, deliver, settle, join_error,
                deadline, deadline_tell, late_join, drop_close, drop_retain, drop_notify
  <2> QED BY <1>0, <2>1 DEF Goto
<1>5. ASSUME NEW f \in Settlers, settle_effects(f)
      PROVE  Passes(e)
  BY <1>0, <1>5, EntrantFacts DEF settle_effects, Goto, Passes
<1>6. ASSUME NEW f \in Settlers, reads_settle(f) \/ reads_expire(f)
      PROVE  Passes(e)
  BY <1>0, <1>6, EntrantFacts DEF reads_settle, reads_expire, Goto, Passes
<1>7. ASSUME NEW r \in Reads, read_admit(r) \/ read_end(r) \/ read_deliver(r)
      PROVE  stage'[e] = stage[e]
  BY <1>7 DEF read_admit, read_end, read_deliver
<1>8. ASSUME NEW f \in Entrants, Enter(f)
      PROVE  Passes(e)
  <2>1. CASE enter_enable(f)
    BY <1>0, <2>1 DEF enter_enable, Goto, Passes
  <2>2. CASE enter_check(f)
    BY <1>0, <2>2 DEF enter_check, Refused, Goto, Passes
  <2>3. CASE enter_granted(f)
    BY <1>0, <2>3 DEF enter_granted, Goto, Passes
  <2>4. CASE enter_refused(f)
    BY <1>0, <2>4 DEF enter_refused, Refused, Goto, Passes
  <2> QED BY <1>8, <2>1, <2>2, <2>3, <2>4 DEF Enter
<1>9. CASE shutdown_close \/ shutdown_done \/ UNCHANGED vars
  BY <1>1, <1>9 DEF shutdown_close, shutdown_done, vars
<1> QED BY <1>1, <1>2, <1>3, <1>4, <1>5, <1>6, <1>7, <1>8, <1>9 DEF Next

\* settle_effects passes the lock only when no write of its session is unproved,
\* and returns Ok only when no read was lost (durable_session.rs, settle_effects;
\* durable_session/reads.rs, ReadOperations::settle).
THEOREM SettledSessionsAreQuiet == Spec => SettleMeansQuiet
<1> DEFINE Quiet ==
      \A e \in Settlers :
          /\ stage[e] # "reading" /\ stage'[e] = "reading" =>
                \A b \in Batches : Session(b) = Session(e) => stage[b] \notin Unproven
          /\ stage[e] # "settled" /\ stage'[e] = "settled" => ~read_failed[Session(e)]
<1>1. IInv /\ [Next]_vars => [Quiet]_vars
  <2> SUFFICES ASSUME IInv, [Next]_vars, NEW e \in Settlers
               PROVE  /\ stage[e] # "reading" /\ stage'[e] = "reading" =>
                            \A b \in Batches : Session(b) = Session(e) => stage[b] \notin Unproven
                      /\ stage[e] # "settled" /\ stage'[e] = "settled" => ~read_failed[Session(e)]
    OBVIOUS
  <2>1. Passes(e)
    BY SettlerMoves
  <2>2. ASSUME order[Session(e)] = {}, NEW b \in Batches, Session(b) = Session(e)
        PROVE  stage[b] \notin Unproven
    BY <2>2, EntrantFacts DEF IInv, LockInv, Held
  <2> QED BY <2>1, <2>2 DEF Passes
<1> QED BY <1>1, CommitsInvariant, PTL DEF Spec, SettleMeansQuiet

=============================================================================
