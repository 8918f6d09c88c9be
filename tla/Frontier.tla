------------------------------ MODULE Frontier ------------------------------
(***************************************************************************)
(* The discovery frontier: the table discovery.frontier_tasks of the       *)
(* PostgreSQL control plane and the transactions on it                     *)
(* (artsearch/discovery/repository.py), used by the coordinators that      *)
(* drain it (artsearch/discovery/pipeline.py) and by the operator who      *)
(* blocks a creator.                                                       *)
(*                                                                         *)
(* Every transaction of the repository is one action, except enqueue_task: *)
(* it reads (exclusions, active tasks) and then inserts under READ         *)
(* COMMITTED, so another transaction can commit between its two halves.    *)
(*                                                                         *)
(* Abstractions.  Time is what the queries compare with now(): lease[t]    *)
(* says whether locked_until is in the future, due[t] whether run_after is *)
(* in the past.  Priorities only order a claim: a claim takes any set of   *)
(* claimable tasks, so every order is covered.  A task is the triple that  *)
(* its idempotency key hashes.  Faults (a crash, or a handler that         *)
(* outlives its lease) are bounded by MaxFaults.                           *)
(***************************************************************************)
EXTENDS Naturals, FiniteSets

CONSTANTS
  Campaign,     \* discovery campaigns, of one process or of several
  Creator,      \* creator DIDs
  Action,       \* values of ExpansionAction
  Process,      \* operating-system processes running DiscoveryPipeline
  Worker,       \* worker ids
  WorkerOf,     \* the worker_id each process was started with
  NoWorker,     \* locked_by IS NULL
  NoTask,       \* "no enqueue_task transaction is open"
  MaxAttempts,  \* crawl.task_max_attempts
  Concurrency,  \* crawl.concurrency, the size of a claimed batch
  MaxFaults     \* bound on crashes and on leases outlived by their handler

(* Two running processes have different worker ids.  The Airflow task      *)
(* passes a run id; the CLI passes a constant, so an operator who runs two *)
(* CLI campaigns at once must set --worker-id.                             *)
ASSUME WorkerAssumption ==
  /\ WorkerOf \in [Process -> Worker]
  /\ NoWorker \notin Worker
  /\ \A p, q \in Process : WorkerOf[p] = WorkerOf[q] => p = q

ASSUME BoundAssumption ==
  /\ MaxAttempts \in Nat \ {0}
  /\ Concurrency \in Nat \ {0}
  /\ MaxFaults \in Nat

Task == Campaign \X Creator \X Action

ASSUME NoTaskAssumption == NoTask \notin Task

CreatorOf(t) == t[2]

\* Tasks that enqueue_task takes for one another: same entity, same action.
Equivalent(t, u) == t[2] = u[2] /\ t[3] = u[3]

Queued == {"pending", "retry"}
Active == Queued \union {"leased"}
Settled == {"completed", "dead", "cancelled"}
Status == Active \union Settled \union {"absent"}   \* absent: no row

VARIABLES
  status,     \* status column, by task
  attempts,   \* attempts column
  lockedBy,   \* locked_by column
  lease,      \* "none", "live" (locked_until >= now()) or "expired"
  due,        \* run_after <= now()
  excluded,   \* creators with an active exclusion
  cand,       \* cand[p]: task whose enqueue_task has read and not yet inserted
  held,       \* held[p][t]: attempt number of the copy of t that p is executing,
              \* 0 when p is not executing t
  faults      \* number of faults so far

rows == <<status, attempts, lockedBy, lease, due>>
vars == <<status, attempts, lockedBy, lease, due, excluded, cand, held, faults>>

TypeOK ==
  /\ status \in [Task -> Status]
  /\ attempts \in [Task -> Nat]
  /\ lockedBy \in [Task -> Worker \union {NoWorker}]
  /\ lease \in [Task -> {"none", "live", "expired"}]
  /\ due \in [Task -> BOOLEAN]
  /\ excluded \subseteq Creator
  /\ cand \in [Process -> Task \union {NoTask}]
  /\ held \in [Process -> [Task -> Nat]]
  /\ faults \in Nat

NothingHeld == [t \in Task |-> 0]

Init ==
  /\ status = [t \in Task |-> "absent"]
  /\ attempts = [t \in Task |-> 0]
  /\ lockedBy = [t \in Task |-> NoWorker]
  /\ lease = [t \in Task |-> "none"]
  /\ due = [t \in Task |-> FALSE]
  /\ excluded = {}
  /\ cand = [p \in Process |-> NoTask]
  /\ held = [p \in Process |-> NothingHeld]
  /\ faults = 0

-----------------------------------------------------------------------------
(* Enqueueing.                                                             *)

\* Repository calls block the process's event loop: while one is open, no other
\* coroutine of the process runs.
Idle(p) == cand[p] = NoTask

\* Mutant: enqueue_task without its exclusion check.
EnqueueCheckExcluded(p, t) ==
  /\ Idle(p)
  /\ \A u \in Task : Equivalent(t, u) => status[u] \notin Active
  /\ cand' = [cand EXCEPT ![p] = t]
  /\ UNCHANGED <<rows, excluded, held, faults>>

\* The reads of enqueue_task.  A refused enqueue changes nothing and is left out.
EnqueueCheck(p, t) ==
  /\ Idle(p)
  /\ CreatorOf(t) \notin excluded
  /\ \A u \in Task : Equivalent(t, u) => status[u] \notin Active
  /\ cand' = [cand EXCEPT ![p] = t]
  /\ UNCHANGED <<rows, excluded, held, faults>>

\* Its insert, ON CONFLICT (idempotency_key) DO NOTHING.
EnqueueInsert(p) ==
  /\ cand[p] # NoTask
  /\ cand' = [cand EXCEPT ![p] = NoTask]
  /\ IF status[cand[p]] = "absent"
       THEN /\ status' = [status EXCEPT ![cand[p]] = "pending"]
            /\ due' = [due EXCEPT ![cand[p]] = TRUE]
       ELSE UNCHANGED <<status, due>>
  /\ UNCHANGED <<attempts, lockedBy, lease, excluded, held, faults>>

-----------------------------------------------------------------------------
(* Claiming and settling.                                                  *)

\* Mutant: expired leases are not claimable.
ClaimableQueued(t) == status[t] \in Queued /\ due[t]

Claimable(t) ==
  \/ status[t] \in Queued /\ due[t]
  \/ status[t] = "leased" /\ lease[t] = "expired"

\* A batch is claimed when the coroutines of the previous one have ended.
\* FOR UPDATE SKIP LOCKED makes concurrent claims disjoint.
Claim(p, S) ==
  /\ Idle(p)
  /\ held[p] = NothingHeld
  /\ S # {} /\ Cardinality(S) <= Concurrency
  /\ \A t \in S : Claimable(t)
  /\ status' = [t \in Task |-> IF t \in S THEN "leased" ELSE status[t]]
  /\ attempts' = [t \in Task |-> IF t \in S THEN attempts[t] + 1 ELSE attempts[t]]
  /\ lockedBy' = [t \in Task |-> IF t \in S THEN WorkerOf[p] ELSE lockedBy[t]]
  /\ lease' = [t \in Task |-> IF t \in S THEN "live" ELSE lease[t]]
  /\ held' = [held EXCEPT ![p] = [t \in Task |-> IF t \in S THEN attempts[t] + 1 ELSE 0]]
  /\ UNCHANGED <<due, excluded, cand, faults>>

LeasedTo(t, p) == status[t] = "leased" /\ lockedBy[t] = WorkerOf[p]

Release(t, outcome, isDue) ==
  /\ status' = [status EXCEPT ![t] = outcome]
  /\ lockedBy' = [lockedBy EXCEPT ![t] = NoWorker]
  /\ lease' = [lease EXCEPT ![t] = "none"]
  /\ due' = [due EXCEPT ![t] = isDue]
  /\ UNCHANGED attempts

Executing(p, t) == Idle(p) /\ held[p][t] > 0

LetGo(p, t) == held' = [held EXCEPT ![p][t] = 0]

\* The handler returned.  complete_task matches the row only if it is still
\* leased to this worker; _execute_task does not look at the result.
Complete(p, t) ==
  /\ Executing(p, t)
  /\ LetGo(p, t)
  /\ IF LeasedTo(t, p)
       THEN Release(t, "completed", due[t])
       ELSE UNCHANGED rows
  /\ UNCHANGED <<excluded, cand, faults>>

FailOutcome(t) == IF attempts[t] >= MaxAttempts THEN "dead" ELSE "retry"

\* The handler raised and the row is still leased to this worker.
Fail(p, t) ==
  /\ Executing(p, t)
  /\ LeasedTo(t, p)
  /\ LetGo(p, t)
  /\ Release(t, FailOutcome(t), FALSE)
  /\ UNCHANGED <<excluded, cand, faults>>

\* The handler raised and the lease is lost: fail_task raises ValueError out of
\* _execute_task, and the whole batch is abandoned with the campaign.
FailLost(p, t) ==
  /\ Executing(p, t)
  /\ ~LeasedTo(t, p)
  /\ held' = [held EXCEPT ![p] = NothingHeld]
  /\ UNCHANGED <<rows, excluded, cand, faults>>

-----------------------------------------------------------------------------
(* Time and faults.                                                        *)

\* The retry delay elapses.
BecomeDue(t) ==
  /\ status[t] = "retry" /\ ~due[t]
  /\ due' = [due EXCEPT ![t] = TRUE]
  /\ UNCHANGED <<status, attempts, lockedBy, lease, excluded, cand, held, faults>>

\* Some process is executing the claim that set this lease.
InHands(t) == \E p \in Process : held[p][t] = attempts[t]

Expire(t) ==
  /\ lease[t] = "live"
  /\ lease' = [lease EXCEPT ![t] = "expired"]
  /\ UNCHANGED <<status, attempts, lockedBy, due, excluded, cand, held>>

ExpireAbandoned(t) == ~InHands(t) /\ Expire(t) /\ UNCHANGED faults

\* The handler is still running when its lease ends.
ExpireInHands(t) ==
  /\ faults < MaxFaults
  /\ InHands(t)
  /\ Expire(t)
  /\ faults' = faults + 1

\* The process dies and a later run starts in its place; an open transaction
\* rolls back and the rows keep their leases.
Crash(p) ==
  /\ faults < MaxFaults
  /\ held[p] # NothingHeld \/ cand[p] # NoTask
  /\ held' = [held EXCEPT ![p] = NothingHeld]
  /\ cand' = [cand EXCEPT ![p] = NoTask]
  /\ faults' = faults + 1
  /\ UNCHANGED <<rows, excluded>>

-----------------------------------------------------------------------------
(* The operator.                                                           *)

\* add_exclusion of a creator, or an approved removal.
Exclude(c) ==
  /\ c \notin excluded
  /\ excluded' = excluded \union {c}
  /\ UNCHANGED <<rows, cand, held, faults>>

\* Mutant: a block cancels every task of the creator, finished ones too.
CancelledByAll(c, t) == CreatorOf(t) = c /\ status[t] # "absent"

CancelledBy(c, t) == CreatorOf(t) = c /\ status[t] \in Queued

\* review_creator with decision BLOCK: the exclusion, and the creator's queued
\* tasks, in one transaction.
Block(c) ==
  /\ excluded' = excluded \union {c}
  /\ status' = [t \in Task |-> IF CancelledBy(c, t) THEN "cancelled" ELSE status[t]]
  /\ UNCHANGED <<attempts, lockedBy, lease, due, cand, held, faults>>

-----------------------------------------------------------------------------
Step ==
  \/ \E p \in Process, t \in Task : EnqueueCheck(p, t)
  \/ \E p \in Process : EnqueueInsert(p)
  \/ \E p \in Process, S \in SUBSET Task : Claim(p, S)
  \/ \E p \in Process, t \in Task : Complete(p, t)
  \/ \E p \in Process, t \in Task : Fail(p, t)
  \/ \E p \in Process, t \in Task : FailLost(p, t)
  \/ \E t \in Task : BecomeDue(t)
  \/ \E t \in Task : ExpireAbandoned(t)
  \/ \E t \in Task : ExpireInHands(t)
  \/ \E p \in Process : Crash(p)
  \/ \E c \in Creator : Exclude(c)
  \/ \E c \in Creator : Block(c)

\* Nothing is queued or running: the drain loop returns on an empty claim.
Quiescent ==
  /\ \A t \in Task : status[t] \notin Active
  /\ \A p \in Process : held[p] = NothingHeld /\ cand[p] = NoTask
  /\ UNCHANGED vars

Next == Step \/ Quiescent

(* Scheduled runs keep draining the frontier of every campaign, a handler  *)
(* ends, delays elapse.  Strong fairness where an enqueue of the same      *)
(* process can come between: a handler makes finitely many enqueues before *)
(* it ends.  Faults and the operator's decisions owe nothing.              *)
Fairness ==
  /\ \A p \in Process :
       /\ SF_vars(\E S \in SUBSET Task : Claim(p, S))
       /\ WF_vars(EnqueueInsert(p))
       /\ \A t \in Task : SF_vars(Complete(p, t) \/ Fail(p, t) \/ FailLost(p, t))
  /\ \A t \in Task : WF_vars(BecomeDue(t)) /\ WF_vars(ExpireAbandoned(t))

Spec == Init /\ [][Next]_vars
FairSpec == Spec /\ Fairness

-----------------------------------------------------------------------------
(* Properties.                                                             *)

(* A lease is settled only by the execution it was granted to: when a      *)
(* leased row becomes completed, retry or dead, the process that settles   *)
(* it is executing the row's latest attempt.  A worker whose lease expired *)
(* and was granted again cannot settle the new holder's attempt.           *)
SettledByHolder ==
  [][\A t \in Task :
       status[t] = "leased" /\ status'[t] \in {"completed", "retry", "dead"}
         => \E p \in Process : held[p][t] = attempts[t] /\ held'[p][t] = 0]_vars

(* Two processes never execute the same attempt of a task.                 *)
OneExecutionPerAttempt ==
  \A t \in Task : \A p, q \in Process :
    held[p][t] # 0 /\ held[p][t] = held[q][t] => p = q

(* Retrying stops: a task waits for a retry only while attempts remain,    *)
(* and is given up only when they are used.                                *)
RetryBudget ==
  \A t \in Task :
    /\ status[t] = "retry" => attempts[t] \in 1 .. (MaxAttempts - 1)
    /\ status[t] = "dead" => attempts[t] >= MaxAttempts

(* A finished task stays finished, whatever a late worker, a repeated      *)
(* enqueue or a block does.                                                *)
SettledForGood ==
  [][\A t \in Task : status[t] \in Settled => status'[t] = status[t]]_vars

(* Every enqueued task is eventually completed, dead or cancelled, across  *)
(* crashes, lost leases and abandoned batches (corpus_discovery.md, "leases*)
(* expire and can be reclaimed after worker interruption").                *)
EveryTaskSettles ==
  \A t \in Task : status[t] \in Active ~> status[t] \in Settled

\* No task of c is queued or leased, and no enqueue of one is open.
NoOpenWork(c) ==
  /\ \A t \in Task : CreatorOf(t) = c => status[t] \notin Active
  /\ \A p \in Process : cand[p] # NoTask => CreatorOf(cand[p]) # c

(* An excluded creator's work drains, for good: what was queued or leased  *)
(* ends, an enqueue that had read before the exclusion is the last one,    *)
(* and no campaign opens another.                                          *)
ExcludedWorkDrains ==
  \A c \in Creator : c \in excluded ~> []NoOpenWork(c)

(* corpus_discovery.md, "exhausted work becomes dead": no task is executed *)
(* more often than its max_attempts.  The code does not keep this: a claim *)
(* of an expired lease counts an attempt and never compares it.            *)
AttemptsWithinBudget == \A t \in Task : attempts[t] <= MaxAttempts

(* corpus_discovery.md, repeated DIDs "are not sampled twice while an      *)
(* equivalent task ... is present": one active task per creator and action.*)
(* The code does not keep this across processes: enqueue_task's read and   *)
(* its insert are not serialized.                                          *)
OneActiveTask ==
  \A t, u \in Task :
    Equivalent(t, u) /\ status[t] \in Active /\ status[u] \in Active => t = u

-----------------------------------------------------------------------------
(* The frontier as a queue of tasks.                                       *)

Phase(t) ==
  IF status[t] = "absent" THEN "unknown"
  ELSE IF status[t] \in Queued THEN "open"
  ELSE IF status[t] = "leased" THEN "running" ELSE status[t]

\* The processes that execute the latest attempt of a leased row.
Entitled(t) == {p \in Process : status[t] = "leased" /\ held[p][t] = attempts[t]}

Queue == INSTANCE WorkQueue WITH
  Executor <- Process,
  Budget   <- MaxAttempts,
  phase    <- [t \in Task |-> Phase(t)],
  tries    <- attempts,
  entitled <- [t \in Task |-> Entitled(t)]

(* The table, its leases and the processes that crash, lose a lease or     *)
(* come back late implement a queue in which each task has at most one     *)
(* executor, only that one settles it, and settled tasks stay settled.     *)
ImplementsQueue == Queue!Spec

=============================================================================
