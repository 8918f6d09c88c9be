--------------------------- MODULE IntakeLauncher ---------------------------
(* The daily launch of the intake (production/scheduler.py): the Windows   *)
(* task starts `run-due`, again after a failure, an operator starts        *)
(* `run-now`; either takes an exclusive file lock, brings up the Airflow   *)
(* stack, triggers the day's DAG run unless it exists and waits for it.    *)
(* Commands fail, their replies get lost, the wait times out, a launcher   *)
(* dies: Airflow goes on.  Airflow and the Windows task are modelled from  *)
(* how they are used; INTAKE_SCHEDULE, a second trigger, is off.           *)
EXTENDS Integers, FiniteSets

CONSTANTS
  MaxDays,      \* bound on the days
  RestartCount, \* restarts of the Windows task after a failure
  MaxManual     \* bound on run-now

ASSUME LaunchAssumption == MaxDays \in Nat \ {0} /\ RestartCount \in Nat /\ MaxManual \in Nat

VARIABLES
  day,       \* the date
  clock,     \* before, inside or after the day's start window
  flock,     \* who holds intake-scheduler.lock
  launcher,  \* the two processes: where run_intake stands, and its run_id
  restarts,  \* launches the Windows task has left today
  dagRuns,   \* Airflow: state by run_id
  manual     \* run-now commands so far

launchVars == <<day, clock, flock, launcher, restarts, dagRuns, manual>>

Launcher == {"task", "operator"}

RunId == [kind : {"scheduled", "manual"}, day : 1..MaxDays, launch : 0..MaxManual]

Ready == [at |-> "rest"]

LaunchTypeOK ==
  /\ day \in 1..MaxDays /\ clock \in {"before", "inside", "after"}
  /\ flock \in Launcher \cup {"free"}
  /\ launcher \in [Launcher ->
       {Ready} \cup [at : {"named", "locked", "up", "absent", "waiting"}, run : RunId]]
  /\ restarts \in 0..(RestartCount + 1) /\ manual \in 0..MaxManual
  /\ DOMAIN dagRuns \subseteq RunId
  /\ \A r \in DOMAIN dagRuns : dagRuns[r] \in {"queued", "running", "success", "failed"}

LaunchInit ==
  /\ day = 1 /\ clock = "before" /\ flock = "free"
  /\ launcher = [l \in Launcher |-> Ready]
  /\ restarts = 0 /\ dagRuns = <<>> /\ manual = 0

Unfinished(r) == r \in DOMAIN dagRuns /\ dagRuns[r] \in {"queued", "running"}

(* Time *)

Pass ==
  /\ \/ clock = "before" /\ clock' = "inside" /\ restarts' = RestartCount + 1 /\ UNCHANGED day
     \/ clock = "inside" /\ clock' = "after" /\ UNCHANGED <<day, restarts>>
     \/ clock = "after" /\ day < MaxDays /\ day' = day + 1 /\ clock' = "before" /\ UNCHANGED restarts
  /\ UNCHANGED <<flock, launcher, dagRuns, manual>>

(* run_intake *)

\* Mutant: a name per launch.
DueRunPerLaunch(n) == [kind |-> "scheduled", day |-> day, launch |-> n]

\* The run's name: a restart of the day's launch finds the day's run.
DueRun(n) == [kind |-> "scheduled", day |-> day, launch |-> 0]

\* The Windows task at its daily time, or after a failure, or an operator's run-due:
\* outside the window it only records that it skipped. MultipleInstances IgnoreNew.
StartDue ==
  /\ launcher["task"] = Ready /\ clock = "inside"
  /\ launcher' = [launcher EXCEPT !["task"] = [at |-> "named", run |-> DueRun(restarts)]]
  /\ restarts > 0
  /\ restarts' = restarts - 1
  /\ UNCHANGED <<day, clock, flock, dagRuns, manual>>

StartNow ==
  /\ launcher["operator"] = Ready /\ manual < MaxManual
  /\ manual' = manual + 1
  /\ launcher' = [launcher EXCEPT !["operator"] =
       [at |-> "named", run |-> [kind |-> "manual", day |-> day, launch |-> manual']]]
  /\ UNCHANGED <<day, clock, flock, restarts, dagRuns>>

\* What ends a launcher: its lock, if it has it, is released.
Ends(l) ==
  /\ launcher' = [launcher EXCEPT ![l] = Ready]
  /\ flock' = IF flock = l THEN "free" ELSE flock

\* _exclusive_lock does not wait.
TakeLock(l) ==
  /\ launcher[l].at = "named"
  /\ IF flock = "free"
     THEN /\ flock' = l
          /\ launcher' = [launcher EXCEPT ![l].at = "locked"]
     ELSE Ends(l)
  /\ UNCHANGED <<day, clock, restarts, dagRuns, manual>>

\* The engine, `compose up --build`, the wait for the DAG, and unpause.
BringUp(l) ==
  /\ launcher[l].at = "locked"
  /\ launcher' = [launcher EXCEPT ![l].at = "up"]
  /\ UNCHANGED <<day, clock, flock, restarts, dagRuns, manual>>

\* _dag_state: a run that is not there, and a query that failed, look the same.
AskState(l) ==
  /\ launcher[l].at = "up"
  /\ \/ launcher' = [launcher EXCEPT ![l].at = "absent"]
     \/ launcher[l].run \in DOMAIN dagRuns /\ launcher' = [launcher EXCEPT ![l].at = "waiting"]
  /\ UNCHANGED <<day, clock, flock, restarts, dagRuns, manual>>

WithRun(r) == [q \in DOMAIN dagRuns \cup {r} |-> IF q = r THEN "queued" ELSE dagRuns[q]]

\* Airflow refuses a run_id it has. A reply may be lost after the run was created.
Trigger(l) ==
  /\ launcher[l].at = "absent" /\ launcher[l].run \notin DOMAIN dagRuns
  /\ dagRuns' = WithRun(launcher[l].run)
  /\ \/ launcher' = [launcher EXCEPT ![l].at = "waiting"] /\ UNCHANGED flock
     \/ Ends(l)
  /\ UNCHANGED <<day, clock, restarts, manual>>

\* _wait_for_run sees a final state and run_intake reports it.
SeeFinal(l) ==
  /\ launcher[l].at = "waiting" /\ ~Unfinished(launcher[l].run)
  /\ Ends(l)
  /\ UNCHANGED <<day, clock, restarts, dagRuns, manual>>

\* Any command fails, a time limit passes, the run_id exists already, or the process dies.
LaunchFails(l) ==
  /\ launcher[l] # Ready
  /\ Ends(l)
  /\ UNCHANGED <<day, clock, restarts, dagRuns, manual>>

(* Airflow *)

\* max_active_runs = 1.
RunBegins(r) ==
  /\ r \in DOMAIN dagRuns /\ dagRuns[r] = "queued"
  /\ \A q \in DOMAIN dagRuns : dagRuns[q] # "running"
  /\ dagRuns' = [dagRuns EXCEPT ![r] = "running"]
  /\ UNCHANGED <<day, clock, flock, launcher, restarts, manual>>

RunFinishes(r) ==
  /\ r \in DOMAIN dagRuns /\ dagRuns[r] = "running"
  /\ \E state \in {"success", "failed"} : dagRuns' = [dagRuns EXCEPT ![r] = state]
  /\ UNCHANGED <<day, clock, flock, launcher, restarts, manual>>

LaunchNext ==
  \/ Pass \/ StartDue \/ StartNow
  \/ \E l \in Launcher :
       \/ TakeLock(l) \/ BringUp(l) \/ AskState(l) \/ Trigger(l)
       \/ SeeFinal(l) \/ LaunchFails(l)
  \/ \E r \in DOMAIN dagRuns : RunBegins(r) \/ RunFinishes(r)

LaunchSpec == LaunchInit /\ [][LaunchNext]_launchVars

(* Properties *)

\* A day's scheduled intake runs once, although its launcher is restarted after failures,
\* lost replies and state queries that failed.
DayRunsOnce ==
  \A d \in 1..MaxDays :
    Cardinality({r \in DOMAIN dagRuns : r.kind = "scheduled" /\ r.day = d}) <= 1
=============================================================================
