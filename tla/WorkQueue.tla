------------------------------ MODULE WorkQueue ------------------------------
(***************************************************************************)
(* What a queue of tasks with leases promises to those who put work into   *)
(* it and those who take it out: one executor at a time is entitled to     *)
(* each task, only that one settles it, a task is offered again while      *)
(* attempts remain and given up when they are used, and a settled task is  *)
(* settled for good.  Clocks, rows and transactions are not visible here.  *)
(***************************************************************************)
EXTENDS Naturals

CONSTANTS
  Task,
  Executor,   \* who executes tasks
  Budget      \* attempts after which a failing task is given up

VARIABLES
  phase,      \* of each task
  tries,      \* how often it was taken
  entitled    \* who may settle it: nobody, or the executor that took it last

queueVars == <<phase, tries, entitled>>

Open == {"open", "running"}

Init ==
  /\ phase = [t \in Task |-> "unknown"]
  /\ tries = [t \in Task |-> 0]
  /\ entitled = [t \in Task |-> {}]

Put(t) ==
  /\ phase[t] = "unknown"
  /\ phase' = [phase EXCEPT ![t] = "open"]
  /\ UNCHANGED <<tries, entitled>>

\* Open tasks, or running ones whose executor is given up, go to e.
Take(e, S) ==
  /\ \A t \in S : phase[t] \in Open
  /\ phase' = [t \in Task |-> IF t \in S THEN "running" ELSE phase[t]]
  /\ tries' = [t \in Task |-> IF t \in S THEN tries[t] + 1 ELSE tries[t]]
  /\ entitled' = [t \in Task |-> IF t \in S THEN {e} ELSE entitled[t]]

\* The result of an execution that failed.
AfterFailure(t) == IF tries[t] >= Budget THEN "dead" ELSE "open"

Settle(e, t) ==
  /\ phase[t] = "running" /\ entitled[t] = {e}
  /\ \E result \in {"completed", AfterFailure(t)} : phase' = [phase EXCEPT ![t] = result]
  /\ entitled' = [entitled EXCEPT ![t] = {}]
  /\ UNCHANGED tries

\* e stops and leaves the tasks in S unsettled; they can be taken again.
Forsake(e, S) ==
  /\ entitled' = [t \in Task |-> IF t \in S THEN entitled[t] \ {e} ELSE entitled[t]]
  /\ UNCHANGED <<phase, tries>>

\* Tasks nobody has taken are withdrawn.
Withdraw(S) ==
  /\ \A t \in S : phase[t] = "open"
  /\ phase' = [t \in Task |-> IF t \in S THEN "cancelled" ELSE phase[t]]
  /\ UNCHANGED <<tries, entitled>>

Next ==
  \/ \E t \in Task : Put(t)
  \/ \E e \in Executor, S \in SUBSET Task : Take(e, S) \/ Forsake(e, S)
  \/ \E e \in Executor, t \in Task : Settle(e, t)
  \/ \E S \in SUBSET Task : Withdraw(S)

Spec == Init /\ [][Next]_queueVars
=============================================================================
