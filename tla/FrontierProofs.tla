--------------------------- MODULE FrontierProofs ---------------------------
(***************************************************************************)
(* Proofs about Frontier for any number of campaigns, creators, actions    *)
(* and processes, any retry limit and any number of faults.                *)
(*                                                                         *)
(* What makes lease ownership safe is that a claim numbers the execution   *)
(* it starts: copies of a row held by processes carry old numbers, and the *)
(* worker id in the row identifies the process with the newest one.        *)
(***************************************************************************)
EXTENDS Frontier, TLAPS

(* Copies held by processes are never newer than the row.                  *)
CopiesNotNewer ==
  \A p \in Process, t \in Task : held[p][t] <= attempts[t]

(* The process a row is leased to executes its latest attempt, if it       *)
(* executes the row at all (it may have crashed since).                    *)
OwnerIsLatest ==
  \A p \in Process, t \in Task :
    LeasedTo(t, p) /\ held[p][t] # 0 => held[p][t] = attempts[t]

(* A leased row was claimed at least once.                                 *)
LeasedWasClaimed ==
  \A t \in Task : status[t] = "leased" => attempts[t] >= 1

(* The inductive invariant.                                                *)
IInv ==
  /\ TypeOK
  /\ CopiesNotNewer
  /\ OwnerIsLatest
  /\ LeasedWasClaimed
  /\ OneExecutionPerAttempt
  /\ RetryBudget

-----------------------------------------------------------------------------
(* The initial states satisfy the inductive invariant.                     *)
LEMMA InitIInv == Init => IInv
  BY WorkerAssumption, BoundAssumption
  DEF Init, IInv, TypeOK, Status, Active, Queued, Settled, NothingHeld, CopiesNotNewer,
      OwnerIsLatest, LeasedTo, LeasedWasClaimed, OneExecutionPerAttempt, RetryBudget

(* Each action keeps the types of the columns and of the processes' state. *)
LEMMA TypeStep == TypeOK /\ [Next]_vars => TypeOK'
<1> SUFFICES ASSUME TypeOK, [Next]_vars PROVE TypeOK'
  OBVIOUS
<1> USE WorkerAssumption, BoundAssumption, NoTaskAssumption
    DEF TypeOK, Status, Active, Queued, Settled, NothingHeld, rows
<1>1. ASSUME NEW p \in Process, NEW t \in Task, EnqueueCheck(p, t) PROVE TypeOK'
  BY <1>1 DEF EnqueueCheck
<1>2. ASSUME NEW p \in Process, EnqueueInsert(p) PROVE TypeOK'
  BY <1>2 DEF EnqueueInsert
<1>3. ASSUME NEW p \in Process, NEW S \in SUBSET Task, Claim(p, S) PROVE TypeOK'
  BY <1>3 DEF Claim
<1>4. ASSUME NEW p \in Process, NEW t \in Task, Complete(p, t) PROVE TypeOK'
  <2> USE DEF Complete
  <2>1. held' \in [Process -> [Task -> Nat]]
    BY <1>4 DEF Complete, LetGo
  <2>2. CASE LeasedTo(t, p)
    <3>1. due' = [due EXCEPT ![t] = due[t]]
      BY <1>4, <2>2 DEF Release
    <3>2. due' = due
      BY <3>1, Zenon
    <3> QED
      BY <1>4, <2>1, <2>2, <3>2 DEF Release
  <2>3. CASE ~LeasedTo(t, p)
    BY <1>4, <2>1, <2>3 DEF Complete, LetGo
  <2> QED
    BY <2>2, <2>3
<1>5. ASSUME NEW p \in Process, NEW t \in Task, Fail(p, t) PROVE TypeOK'
  BY <1>5 DEF Fail, LetGo, Release, FailOutcome
<1>6. ASSUME NEW p \in Process, NEW t \in Task, FailLost(p, t) PROVE TypeOK'
  BY <1>6 DEF FailLost
<1>7. ASSUME NEW t \in Task, BecomeDue(t) PROVE TypeOK'
  BY <1>7 DEF BecomeDue
<1>8. ASSUME NEW t \in Task, ExpireAbandoned(t) \/ ExpireInHands(t) PROVE TypeOK'
  BY <1>8 DEF ExpireAbandoned, ExpireInHands, Expire
<1>9. ASSUME NEW p \in Process, Crash(p) PROVE TypeOK'
  BY <1>9 DEF Crash
<1>10. ASSUME NEW c \in Creator, Exclude(c) \/ Block(c) PROVE TypeOK'
  BY <1>10 DEF Exclude, Block
<1>11. ASSUME UNCHANGED vars PROVE TypeOK'
  BY <1>11 DEF vars
<1> QED
  BY <1>1, <1>2, <1>3, <1>4, <1>5, <1>6, <1>7, <1>8, <1>9, <1>10, <1>11
  DEF Next, Step, Quiescent

-----------------------------------------------------------------------------
(* What a step can do to an execution.  The parts of the invariant that    *)
(* relate held to the rows are preserved by any step of one of these kinds.*)

\* No row is claimed: attempts stay, processes only let go, and a row's owner
\* and status stay or the row is no longer leased.
Unclaimed ==
  /\ attempts' = attempts
  /\ \A q \in Process, u \in Task : held'[q][u] = held[q][u] \/ held'[q][u] = 0
  /\ \A u \in Task : status'[u] = "leased" => status[u] = "leased" /\ lockedBy'[u] = lockedBy[u]

\* A claim by p of the rows in S.
Claimed(p, S) ==
  /\ \A u \in Task :
       /\ attempts'[u] = IF u \in S THEN attempts[u] + 1 ELSE attempts[u]
       /\ status'[u] = IF u \in S THEN "leased" ELSE status[u]
       /\ lockedBy'[u] = IF u \in S THEN WorkerOf[p] ELSE lockedBy[u]
       /\ held'[p][u] = IF u \in S THEN attempts[u] + 1 ELSE 0
  /\ \A q \in Process : q # p => held'[q] = held[q]

(* Every step is of one of the two kinds.                                  *)
LEMMA StepKinds ==
  ASSUME TypeOK, [Next]_vars
  PROVE  Unclaimed \/ \E p \in Process, S \in SUBSET Task : Claimed(p, S)
<1> USE DEF TypeOK, NothingHeld, rows
<1>1. ASSUME NEW p \in Process, NEW t \in Task, EnqueueCheck(p, t) PROVE Unclaimed
  BY <1>1 DEF EnqueueCheck, Unclaimed
<1>2. ASSUME NEW p \in Process, EnqueueInsert(p) PROVE Unclaimed
  BY <1>2 DEF EnqueueInsert, Unclaimed
<1>3. ASSUME NEW p \in Process, NEW S \in SUBSET Task, Claim(p, S) PROVE Claimed(p, S)
  BY <1>3 DEF Claim, Claimed
<1>4. ASSUME NEW p \in Process, NEW t \in Task, Complete(p, t) PROVE Unclaimed
  <2>1. CASE LeasedTo(t, p)
    BY <1>4, <2>1 DEF Complete, LetGo, Release, Unclaimed
  <2>2. CASE ~LeasedTo(t, p)
    BY <1>4, <2>2 DEF Complete, LetGo, Unclaimed
  <2> QED
    BY <2>1, <2>2
<1>5. ASSUME NEW p \in Process, NEW t \in Task, Fail(p, t) PROVE Unclaimed
  BY <1>5 DEF Fail, LetGo, Release, FailOutcome, Unclaimed
<1>6. ASSUME NEW p \in Process, NEW t \in Task, FailLost(p, t) PROVE Unclaimed
  BY <1>6 DEF FailLost, Unclaimed
<1>7. ASSUME NEW t \in Task, BecomeDue(t) PROVE Unclaimed
  BY <1>7 DEF BecomeDue, Unclaimed
<1>8. ASSUME NEW t \in Task, ExpireAbandoned(t) \/ ExpireInHands(t) PROVE Unclaimed
  BY <1>8 DEF ExpireAbandoned, ExpireInHands, Expire, Unclaimed
<1>9. ASSUME NEW p \in Process, Crash(p) PROVE Unclaimed
  BY <1>9 DEF Crash, Unclaimed
<1>10. ASSUME NEW c \in Creator, Exclude(c) \/ Block(c) PROVE Unclaimed
  BY <1>10 DEF Exclude, Block, Unclaimed
<1>11. ASSUME UNCHANGED vars PROVE Unclaimed
  BY <1>11 DEF vars, Unclaimed
<1> QED
  BY <1>1, <1>2, <1>3, <1>4, <1>5, <1>6, <1>7, <1>8, <1>9, <1>10, <1>11
  DEF Next, Step, Quiescent

(* Lease ownership is preserved.                                           *)
LEMMA OwnershipStep ==
  ASSUME TypeOK, CopiesNotNewer, OwnerIsLatest, LeasedWasClaimed, OneExecutionPerAttempt,
         [Next]_vars
  PROVE  CopiesNotNewer' /\ OwnerIsLatest' /\ LeasedWasClaimed' /\ OneExecutionPerAttempt'
<1> USE DEF CopiesNotNewer, OwnerIsLatest, LeasedWasClaimed, OneExecutionPerAttempt, LeasedTo
<1>1. CASE Unclaimed
  BY <1>1, WorkerAssumption DEF TypeOK, Unclaimed
<1>2. ASSUME NEW p \in Process, NEW S \in SUBSET Task, Claimed(p, S)
      PROVE  CopiesNotNewer' /\ OwnerIsLatest' /\ LeasedWasClaimed' /\ OneExecutionPerAttempt'
  <2>1. CopiesNotNewer'
    BY <1>2 DEF TypeOK, Claimed
  <2>2. OwnerIsLatest'
    BY <1>2, WorkerAssumption DEF TypeOK, Claimed
  <2>3. LeasedWasClaimed'
    BY <1>2 DEF TypeOK, Claimed
  <2>4. OneExecutionPerAttempt'
    BY <1>2 DEF TypeOK, Claimed
  <2> QED
    BY <2>1, <2>2, <2>3, <2>4
<1> QED
  BY <1>1, <1>2, StepKinds

(* The retry budget is preserved: only Fail writes retry and dead, and it  *)
(* compares the attempts of a row that was claimed.                        *)
LEMMA RetryBudgetStep ==
  ASSUME TypeOK, LeasedWasClaimed, RetryBudget, [Next]_vars
  PROVE  RetryBudget'
<1> USE BoundAssumption DEF TypeOK, RetryBudget, rows
<1>1. ASSUME NEW p \in Process, NEW t \in Task, EnqueueCheck(p, t) PROVE RetryBudget'
  BY <1>1 DEF EnqueueCheck
<1>2. ASSUME NEW p \in Process, EnqueueInsert(p) PROVE RetryBudget'
  BY <1>2 DEF EnqueueInsert
<1>3. ASSUME NEW p \in Process, NEW S \in SUBSET Task, Claim(p, S) PROVE RetryBudget'
  BY <1>3 DEF Claim
<1>4. ASSUME NEW p \in Process, NEW t \in Task, Complete(p, t) PROVE RetryBudget'
  <2>1. CASE LeasedTo(t, p)
    BY <1>4, <2>1 DEF Complete, Release
  <2>2. CASE ~LeasedTo(t, p)
    BY <1>4, <2>2 DEF Complete
  <2> QED
    BY <2>1, <2>2
<1>5. ASSUME NEW p \in Process, NEW t \in Task, Fail(p, t) PROVE RetryBudget'
  BY <1>5 DEF Fail, Release, FailOutcome, LeasedTo, LeasedWasClaimed
<1>6. ASSUME NEW p \in Process, NEW t \in Task, FailLost(p, t) PROVE RetryBudget'
  BY <1>6 DEF FailLost
<1>7. ASSUME NEW t \in Task, BecomeDue(t) PROVE RetryBudget'
  BY <1>7 DEF BecomeDue
<1>8. ASSUME NEW t \in Task, ExpireAbandoned(t) \/ ExpireInHands(t) PROVE RetryBudget'
  BY <1>8 DEF ExpireAbandoned, ExpireInHands, Expire
<1>9. ASSUME NEW p \in Process, Crash(p) PROVE RetryBudget'
  BY <1>9 DEF Crash
<1>10. ASSUME NEW c \in Creator, Exclude(c) \/ Block(c) PROVE RetryBudget'
  BY <1>10 DEF Exclude, Block
<1>11. ASSUME UNCHANGED vars PROVE RetryBudget'
  BY <1>11 DEF vars
<1> QED
  BY <1>1, <1>2, <1>3, <1>4, <1>5, <1>6, <1>7, <1>8, <1>9, <1>10, <1>11
  DEF Next, Step, Quiescent

(* The inductive invariant holds in every reachable state.                 *)
LEMMA Invariant == Spec => []IInv
<1>1. IInv /\ [Next]_vars => IInv'
  BY TypeStep, OwnershipStep, RetryBudgetStep DEF IInv
<1> QED
  BY InitIInv, <1>1, PTL DEF Spec

-----------------------------------------------------------------------------
(* The columns and the processes' state keep their types.                  *)
THEOREM TypeCorrect == Spec => []TypeOK
  BY Invariant, PTL DEF IInv

(* No two processes execute the same attempt of a task.                    *)
THEOREM ExecutionsDistinct == Spec => []OneExecutionPerAttempt
  BY Invariant, PTL DEF IInv

(* A task waits for a retry only while attempts remain and is given up     *)
(* only when they are used.                                                *)
THEOREM RetriesBudgeted == Spec => []RetryBudget
  BY Invariant, PTL DEF IInv

(* Only a row's own worker can take it out of its lease into a settled or  *)
(* retry status, and the process with that worker id then lets go of it.   *)
LEMMA SettlingStep ==
  ASSUME TypeOK, [Next]_vars, NEW t \in Task,
         status[t] = "leased", status'[t] \in {"completed", "retry", "dead"}
  PROVE  \E p \in Process : LeasedTo(t, p) /\ held[p][t] > 0 /\ held'[p][t] = 0
<1> USE DEF TypeOK, rows, Queued
<1>1. ASSUME NEW p \in Process, NEW u \in Task, Complete(p, u) \/ Fail(p, u)
      PROVE  LeasedTo(t, p) /\ held[p][t] > 0 /\ held'[p][t] = 0
  <2>1. u = t /\ LeasedTo(u, p)
    BY <1>1 DEF Complete, Fail, Release
  <2>2. held[p][u] > 0 /\ held' = [held EXCEPT ![p][u] = 0]
    BY <1>1 DEF Complete, Fail, Executing, LetGo
  <2>3. held'[p][u] = 0
    BY <2>2
  <2> QED
    BY <2>1, <2>2, <2>3
<1>2. ASSUME NEW p \in Process, NEW S \in SUBSET Task, Claim(p, S) PROVE FALSE
  BY <1>2 DEF Claim
<1>3. ASSUME NEW c \in Creator, Block(c) PROVE FALSE
  BY <1>3 DEF Block, CancelledBy
<1>4. ASSUME NEW p \in Process, EnqueueInsert(p) PROVE FALSE
  BY <1>4, NoTaskAssumption DEF EnqueueInsert
<1> QED
  BY <1>1, <1>2, <1>3, <1>4
  DEF Next, Step, Quiescent, vars, EnqueueCheck, FailLost, BecomeDue, ExpireAbandoned,
      ExpireInHands, Expire, Crash, Exclude

(* A lease is settled only by the execution it was granted to.             *)
THEOREM LeasesSettledByHolder == Spec => SettledByHolder
<1>1. IInv /\ [Next]_vars =>
        [\A t \in Task :
           status[t] = "leased" /\ status'[t] \in {"completed", "retry", "dead"}
             => \E p \in Process : held[p][t] = attempts[t] /\ held'[p][t] = 0]_vars
  BY SettlingStep DEF IInv, OwnerIsLatest, TypeOK
<1> QED
  BY Invariant, <1>1, PTL DEF Spec, SettledByHolder

(* No step changes the status of a settled row.                            *)
LEMMA SettledStep ==
  ASSUME TypeOK, [Next]_vars, NEW t \in Task, status[t] \in Settled
  PROVE  status'[t] = status[t]
<1> USE NoTaskAssumption DEF TypeOK, rows, Settled, Queued
<1>1. ASSUME NEW p \in Process, EnqueueInsert(p) PROVE status'[t] = status[t]
  BY <1>1 DEF EnqueueInsert
<1>2. ASSUME NEW p \in Process, NEW S \in SUBSET Task, Claim(p, S) PROVE status'[t] = status[t]
  BY <1>2 DEF Claim, Claimable
<1>3. ASSUME NEW p \in Process, NEW u \in Task, Complete(p, u) \/ Fail(p, u)
      PROVE  status'[t] = status[t]
  BY <1>3 DEF Complete, Fail, Release, LeasedTo
<1>4. ASSUME NEW c \in Creator, Block(c) PROVE status'[t] = status[t]
  BY <1>4 DEF Block, CancelledBy
<1> QED
  BY <1>1, <1>2, <1>3, <1>4
  DEF Next, Step, Quiescent, vars, EnqueueCheck, FailLost, BecomeDue, ExpireAbandoned,
      ExpireInHands, Expire, Crash, Exclude

(* A completed, dead or cancelled task stays so.                           *)
THEOREM SettledStatusFinal == Spec => SettledForGood
<1>1. IInv /\ [Next]_vars =>
        [\A t \in Task : status[t] \in Settled => status'[t] = status[t]]_vars
  BY SettledStep DEF IInv
<1> QED
  BY Invariant, <1>1, PTL DEF Spec, SettledForGood

-----------------------------------------------------------------------------
(* The frontier implements WorkQueue: what a step does to the phase of     *)
(* each task and to who is entitled to it, action by action.               *)

LEMMA InitQueue == Init => Queue!Init
  BY DEF Init, Queue!Init, Phase, Entitled

(* A step that touches neither status, attempts nor executions is not seen.*)
LEMMA Unseen ==
  ASSUME UNCHANGED <<status, attempts, held>>
  PROVE  UNCHANGED Queue!queueVars
  BY DEF Queue!queueVars, Phase, Entitled

(* The insert of a new row puts a task.                                    *)
LEMMA InsertPuts ==
  ASSUME IInv, NEW p \in Process, EnqueueInsert(p), status[cand[p]] = "absent"
  PROVE  Queue!Put(cand[p])
<1> DEFINE u == cand[p]
<1>1. u \in Task /\ status' = [status EXCEPT ![u] = "pending"] /\ UNCHANGED <<attempts, held>>
  BY DEF EnqueueInsert, IInv, TypeOK
<1>2. \A t \in Task : Phase(t)' = IF t = u THEN "open" ELSE Phase(t)
  BY <1>1 DEF IInv, TypeOK, Phase, Queued
<1>3. \A t \in Task : Entitled(t)' = Entitled(t)
  BY <1>1 DEF IInv, TypeOK, Entitled
<1> QED
  BY <1>1, <1>2, <1>3 DEF Queue!Put, Phase, Queued, Settled

(* A claim takes tasks.                                                    *)
LEMMA ClaimTakes ==
  ASSUME IInv, NEW p \in Process, NEW S \in SUBSET Task, Claim(p, S)
  PROVE  Queue!Take(p, S)
<1>1. \A t \in Task : Phase(t)' = IF t \in S THEN "running" ELSE Phase(t)
  BY DEF Claim, IInv, TypeOK, Phase, Queued, Settled
<1>2. \A t \in Task : Entitled(t)' = IF t \in S THEN {p} ELSE Entitled(t)
  <2> TAKE t \in Task
  <2>1. CASE t \in S
    <3>1. status'[t] = "leased" /\ attempts'[t] = attempts[t] + 1
      BY <2>1 DEF Claim, IInv, TypeOK
    <3>2. \A q \in Process : held'[q][t] = attempts[t] + 1 <=> q = p
      BY <2>1 DEF Claim, IInv, TypeOK, CopiesNotNewer
    <3> QED
      BY <2>1, <3>1, <3>2 DEF Entitled
  <2>2. CASE t \notin S
    <3>1. status'[t] = status[t] /\ attempts'[t] = attempts[t]
      BY <2>2 DEF Claim, IInv, TypeOK
    <3>2. \A q \in Process : held'[q][t] = held[q][t]
      BY <2>2 DEF Claim, IInv, TypeOK, NothingHeld
    <3> QED
      BY <2>2, <3>1, <3>2 DEF Entitled
  <2> QED
    BY <2>1, <2>2
<1>3. \A t \in S : Phase(t) \in {"open", "running"}
  BY DEF Claim, Claimable, Phase, Queued
<1>4. attempts' = [t \in Task |-> IF t \in S THEN attempts[t] + 1 ELSE attempts[t]]
  BY DEF Claim
<1> QED
  BY <1>1, <1>2, <1>3, <1>4 DEF Queue!Take, Queue!Open

(* Who executes a row that is leased to it is entitled to it, alone.       *)
LEMMA HolderEntitled ==
  ASSUME IInv, NEW p \in Process, NEW t \in Task, held[p][t] > 0, LeasedTo(t, p)
  PROVE  Entitled(t) = {p} /\ Phase(t) = "running"
<1>1. held[p][t] = attempts[t]
  BY DEF IInv, TypeOK, OwnerIsLatest
<1>2. \A q \in Process : held[q][t] = attempts[t] => q = p
  BY <1>1 DEF IInv, TypeOK, OneExecutionPerAttempt
<1> QED
  BY <1>1, <1>2 DEF Entitled, LeasedTo, Phase, Queued

(* The holder's result settles the task.                                   *)
LEMMA ReleaseSettles ==
  ASSUME IInv, NEW p \in Process, NEW t \in Task, held[p][t] > 0, LeasedTo(t, p),
         NEW outcome \in {"completed", FailOutcome(t)},
         status' = [status EXCEPT ![t] = outcome], attempts' = attempts,
         held' = [held EXCEPT ![p][t] = 0]
  PROVE  Queue!Settle(p, t)
<1> DEFINE result == IF outcome = "retry" THEN "open" ELSE outcome
<1>1. result \in {"completed", Queue!AfterFailure(t)}
  BY DEF FailOutcome, Queue!AfterFailure
<1>2. \A u \in Task : Phase(u)' = IF u = t THEN result ELSE Phase(u)
  BY DEF IInv, TypeOK, Phase, FailOutcome, Queued, Settled
<1>3. \A u \in Task : Entitled(u)' = IF u = t THEN {} ELSE Entitled(u)
  BY DEF IInv, TypeOK, Entitled, FailOutcome
<1> QED
  BY <1>1, <1>2, <1>3, HolderEntitled DEF Queue!Settle

(* A process that lets go of executions without settling forsakes tasks.   *)
LEMMA LettingGoForsakes ==
  ASSUME IInv, NEW p \in Process, NEW S \in SUBSET Task,
         UNCHANGED <<status, attempts>>,
         held' = [held EXCEPT ![p] = [t \in Task |-> IF t \in S THEN 0 ELSE held[p][t]]]
  PROVE  Queue!Forsake(p, S)
<1>1. \A t \in Task : Entitled(t)' = IF t \in S THEN Entitled(t) \ {p} ELSE Entitled(t)
  <2> TAKE t \in Task
  <2>1. \A q \in Process : held'[q][t] = IF q = p /\ t \in S THEN 0 ELSE held[q][t]
    BY DEF IInv, TypeOK
  <2>2. status[t] = "leased" => attempts[t] # 0
    BY DEF IInv, TypeOK, LeasedWasClaimed
  <2> QED
    BY <2>1, <2>2 DEF Entitled
<1>2. \A t \in Task : Phase(t)' = Phase(t)
  BY DEF Phase
<1> QED
  BY <1>1, <1>2 DEF Queue!Forsake

(* A block withdraws tasks.                                                *)
LEMMA BlockWithdraws ==
  ASSUME IInv, NEW c \in Creator, Block(c)
  PROVE  Queue!Withdraw({t \in Task : CancelledBy(c, t)})
<1>1. \A t \in Task : Phase(t)' = IF CancelledBy(c, t) THEN "cancelled" ELSE Phase(t)
  BY DEF Block, CancelledBy, IInv, TypeOK, Phase, Queued, Settled
<1>2. \A t \in Task : Entitled(t)' = Entitled(t)
  BY DEF Block, CancelledBy, IInv, TypeOK, Entitled, Queued
<1>3. \A t \in Task : CancelledBy(c, t) => Phase(t) = "open"
  BY DEF CancelledBy, Phase, Queued
<1> QED
  BY <1>1, <1>2, <1>3 DEF Block, Queue!Withdraw

(* Every step of the frontier is a step of the queue, or unseen.           *)
LEMMA QueueStep ==
  ASSUME IInv, [Next]_vars
  PROVE  [Queue!Next]_(Queue!queueVars)
<1> USE DEF rows
<1>1. ASSUME NEW p \in Process, NEW t \in Task, EnqueueCheck(p, t)
      PROVE  UNCHANGED Queue!queueVars
  BY <1>1, Unseen DEF EnqueueCheck
<1>2. ASSUME NEW p \in Process, EnqueueInsert(p) PROVE [Queue!Next]_(Queue!queueVars)
  <2>1. CASE status[cand[p]] = "absent"
    <3>1. cand[p] \in Task
      BY <1>2 DEF EnqueueInsert, IInv, TypeOK
    <3> QED
      BY <1>2, <2>1, <3>1, InsertPuts DEF Queue!Next
  <2>2. CASE status[cand[p]] # "absent"
    BY <1>2, <2>2, Unseen DEF EnqueueInsert
  <2> QED
    BY <2>1, <2>2
<1>3. ASSUME NEW p \in Process, NEW S \in SUBSET Task, Claim(p, S) PROVE Queue!Next
  BY <1>3, ClaimTakes DEF Queue!Next
<1>4. ASSUME NEW p \in Process, NEW t \in Task, Complete(p, t) PROVE Queue!Next
  <2>1. CASE LeasedTo(t, p)
    <3>1. Queue!Settle(p, t)
      BY <1>4, <2>1, ReleaseSettles DEF Complete, Executing, LetGo, Release
    <3> QED
      BY <3>1 DEF Queue!Next
  <2>2. CASE ~LeasedTo(t, p)
    <3>1. held' = [held EXCEPT ![p] = [u \in Task |-> IF u \in {t} THEN 0 ELSE held[p][u]]]
      BY <1>4 DEF Complete, LetGo, IInv, TypeOK
    <3>2. Queue!Forsake(p, {t})
      BY <1>4, <2>2, <3>1, LettingGoForsakes DEF Complete
    <3> QED
      BY <3>2 DEF Queue!Next
  <2> QED
    BY <2>1, <2>2
<1>5. ASSUME NEW p \in Process, NEW t \in Task, Fail(p, t) PROVE Queue!Next
  <2>1. Queue!Settle(p, t)
    BY <1>5, ReleaseSettles DEF Fail, Executing, LetGo, Release
  <2> QED
    BY <2>1 DEF Queue!Next
<1>6. ASSUME NEW p \in Process, held' = [held EXCEPT ![p] = NothingHeld],
             UNCHANGED <<status, attempts>>
      PROVE  Queue!Next
  <2>1. held' = [held EXCEPT ![p] = [u \in Task |-> IF u \in Task THEN 0 ELSE held[p][u]]]
    BY <1>6 DEF NothingHeld
  <2>2. Queue!Forsake(p, Task)
    BY <1>6, <2>1, LettingGoForsakes
  <2> QED
    BY <2>2 DEF Queue!Next
<1>7. ASSUME NEW p \in Process, NEW t \in Task, FailLost(p, t) PROVE Queue!Next
  BY <1>6, <1>7 DEF FailLost
<1>8. ASSUME NEW p \in Process, Crash(p) PROVE Queue!Next
  BY <1>6, <1>8 DEF Crash
<1>9. ASSUME NEW t \in Task, BecomeDue(t) PROVE UNCHANGED Queue!queueVars
  BY <1>9, Unseen DEF BecomeDue
<1>10. ASSUME NEW t \in Task, ExpireAbandoned(t) \/ ExpireInHands(t)
       PROVE  UNCHANGED Queue!queueVars
  BY <1>10, Unseen DEF ExpireAbandoned, ExpireInHands, Expire
<1>11. ASSUME NEW c \in Creator, Exclude(c) PROVE UNCHANGED Queue!queueVars
  BY <1>11, Unseen DEF Exclude
<1>12. ASSUME NEW c \in Creator, Block(c) PROVE Queue!Next
  BY <1>12, BlockWithdraws DEF Queue!Next
<1>13. ASSUME UNCHANGED vars PROVE UNCHANGED Queue!queueVars
  BY <1>13, Unseen DEF vars
<1> QED
  BY <1>1, <1>2, <1>3, <1>4, <1>5, <1>7, <1>8, <1>9, <1>10, <1>11, <1>12, <1>13
  DEF Next, Step, Quiescent

(* The frontier implements the queue of tasks.                             *)
THEOREM FrontierImplementsQueue == Spec => ImplementsQueue
<1>1. IInv /\ [Next]_vars => [Queue!Next]_(Queue!queueVars)
  BY QueueStep
<1> QED
  BY InitQueue, Invariant, <1>1, PTL DEF Spec, Queue!Spec, ImplementsQueue
=============================================================================
