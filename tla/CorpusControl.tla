---------------------------- MODULE CorpusControl ----------------------------
(***************************************************************************)
(* The corpus page of the monitoring dashboard: CorpusControlService       *)
(* (artsearch/monitoring/corpus_control.py), the server that holds it and  *)
(* its snapshot cache (monitoring/server.py).                              *)
(*                                                                         *)
(* A job is a directory with a status.json, a thread of the server that    *)
(* started it and a child process that does the work.  A second server     *)
(* finds its port taken and tries the next one; each start first recovers  *)
(* the latest job.                                                         *)
(*                                                                         *)
(* Abstractions.  Jobs are numbered in the order of their directories'     *)
(* names.  What a job changes in the databases is one fact: it has ended.  *)
(* A snapshot is what its build could see of that.  The age at which a     *)
(* snapshot expires is left out: one may be rebuilt at any time.           *)
(***************************************************************************)
EXTENDS Naturals, FiniteSets, FiniteSetsExt

CONSTANTS
  Server,      \* dashboard processes
  MaxJobs,     \* bound: jobs ever created
  DidCount,    \* creators with a DID in the corpus
  SeedCount    \* seeds one expansion takes

Job == 1 .. MaxJobs

ASSUME ControlAssumption ==
  /\ MaxJobs \in Nat
  /\ DidCount \in Nat \ {0}
  /\ SeedCount \in 1 .. DidCount

VARIABLES
  jobFile,     \* state in status.json; "none" before there is one
  owner,       \* the server that made each job's directory
  dashboard,   \* each server: up or not, _job, and the request being admitted
  worker,      \* the job's thread
  command,     \* the job's child process
  seedCursor,  \* discovery-seed-cursor.json
  snapshot,    \* SnapshotProvider: its lock, the build's input, the cached one if any
  unwritable   \* history: servers that failed to write a status since they started

controlVars == <<jobFile, owner, dashboard, worker, command, seedCursor, snapshot, unwritable>>

NoJob == 0
NotCached == {}
Down == [pc |-> "down", job |-> NoJob, state |-> "none", admitted |-> NoJob]
Empty == [building |-> FALSE, sees |-> {}, cached |-> NotCached]

ControlInit ==
  /\ jobFile = [j \in {} |-> "none"]
  /\ owner = [j \in {} |-> "none"]
  /\ dashboard = [s \in Server |-> Down]
  /\ worker = [j \in {} |-> "none"]
  /\ command = [j \in {} |-> "none"]
  /\ seedCursor = 0
  /\ snapshot = [s \in Server |-> Empty]
  /\ unwritable = {}

Created == DOMAIN jobFile
Active(state) == state \in {"queued", "running"}
Up(s) == dashboard[s].pc = "up"

-----------------------------------------------------------------------------
(* A server starts and stops.                                              *)

\* _recover_latest_job: a latest job that was active is marked interrupted.
Latest == LET written == {j \in Created : jobFile[j] # "none"}
          IN  IF written = {} THEN NoJob ELSE Max(written)
Recovered(state) == IF Active(state) THEN "interrupted" ELSE state

\* The services are made before the port is bound.
Boot(s) ==
  /\ dashboard[s].pc \in {"down", "booted"}
  /\ LET j == Latest IN
     /\ jobFile' = IF j = NoJob THEN jobFile ELSE [jobFile EXCEPT ![j] = Recovered(@)]
     /\ dashboard' = [dashboard EXCEPT ![s] =
          [pc |-> "booted", job |-> j, admitted |-> NoJob,
           state |-> IF j = NoJob THEN "none" ELSE Recovered(jobFile[j])]]
  /\ snapshot' = [snapshot EXCEPT ![s] = Empty]
  /\ unwritable' = unwritable \ {s}
  /\ UNCHANGED <<owner, worker, command, seedCursor>>

\* The port is free; otherwise the next Boot tries another one.
Bind(s) ==
  /\ dashboard[s].pc = "booted"
  /\ dashboard' = [dashboard EXCEPT ![s].pc = "up"]
  /\ UNCHANGED <<jobFile, owner, worker, command, seedCursor, snapshot, unwritable>>

\* The process ends, its threads with it.  A child process may outlive it.
Stop(s) ==
  /\ dashboard[s].pc # "down"
  /\ dashboard' = [dashboard EXCEPT ![s] = Down]
  /\ worker' = [j \in Created |-> IF owner[j] = s THEN "gone" ELSE worker[j]]
  /\ \E survive \in BOOLEAN :
       command' = [j \in Created |-> IF owner[j] = s /\ command[j] = "running" /\ ~survive
                                     THEN "ended" ELSE command[j]]
  /\ snapshot' = [snapshot EXCEPT ![s] = Empty]
  /\ UNCHANGED <<jobFile, owner, seedCursor, unwritable>>

-----------------------------------------------------------------------------
(* Starting a job.                                                         *)

SlotFree(s) == ~Active(dashboard[s].state)

RotatedSeeds == (seedCursor + SeedCount) % DidCount

\* Under the admission lock: the slot is checked, an expansion takes its
\* seeds, the job's directory is made.
Admit(s, kind) ==
  /\ Up(s) /\ dashboard[s].admitted = NoJob
  /\ SlotFree(s)
  /\ Cardinality(Created) < MaxJobs
  /\ LET j == Cardinality(Created) + 1
         extended(f, value) == [i \in Created \union {j} |-> IF i = j THEN value ELSE f[i]]
     IN /\ jobFile' = extended(jobFile, "none")
        /\ owner' = extended(owner, s)
        /\ worker' = extended(worker, "none")
        /\ command' = extended(command, "none")
        /\ dashboard' = [dashboard EXCEPT ![s].admitted = j]
  /\ seedCursor' = IF kind = "expand" THEN RotatedSeeds ELSE seedCursor
  /\ UNCHANGED <<snapshot, unwritable>>

\* _launch: the slot is checked again and taken; then the file is written and
\* the thread started, unless the write fails.
Launch(s) ==
  /\ Up(s) /\ dashboard[s].admitted # NoJob
  /\ LET j == dashboard[s].admitted IN
     \/ /\ SlotFree(s)
        /\ dashboard' = [dashboard EXCEPT ![s] = [pc |-> "up", job |-> j, state |-> "queued",
                                                  admitted |-> NoJob]]
        /\ \/ /\ jobFile' = [jobFile EXCEPT ![j] = "queued"]
              /\ worker' = [worker EXCEPT ![j] = "queued"]
              /\ UNCHANGED unwritable
           \/ /\ unwritable' = unwritable \union {s}
              /\ UNCHANGED <<jobFile, worker>>
     \/ /\ ~SlotFree(s)
        /\ dashboard' = [dashboard EXCEPT ![s].admitted = NoJob]
        /\ UNCHANGED <<jobFile, worker, unwritable>>
  /\ UNCHANGED <<owner, command, seedCursor, snapshot>>

-----------------------------------------------------------------------------
(* The job's thread, _execute_job.                                         *)

\* _update_job changes _job, whichever job that is, then writes the file in
\* the thread's own directory; a failing write comes after the change.
Update(j, state, onSuccess, onFailure) ==
  LET s == owner[j] IN
  /\ dashboard' = [dashboard EXCEPT ![s].state = state]
  /\ \/ /\ jobFile' = [jobFile EXCEPT ![j] = state]
        /\ worker' = [worker EXCEPT ![j] = onSuccess]
        /\ UNCHANGED unwritable
     \/ /\ worker' = [worker EXCEPT ![j] = onFailure]
        /\ unwritable' = unwritable \union {s}
        /\ UNCHANGED jobFile

\* The first update is outside the try: if it fails the thread is gone.
BeginJob(j) ==
  /\ worker[j] = "queued"
  /\ Update(j, "running", "starting", "gone")
  /\ UNCHANGED <<owner, command, seedCursor, snapshot>>

\* The child process starts, or cannot be started.
StartCommand(j) ==
  /\ worker[j] = "starting"
  /\ \/ /\ worker' = [worker EXCEPT ![j] = "waiting"]
        /\ command' = [command EXCEPT ![j] = "running"]
     \/ /\ worker' = [worker EXCEPT ![j] = "failing"]
        /\ UNCHANGED command
  /\ UNCHANGED <<jobFile, owner, dashboard, seedCursor, snapshot, unwritable>>

CommandEnds(j) ==
  /\ command[j] = "running"
  /\ command' = [command EXCEPT ![j] = "ended"]
  /\ UNCHANGED <<jobFile, owner, dashboard, worker, seedCursor, snapshot, unwritable>>

EndJob(j) ==
  /\ worker[j] = "waiting" /\ command[j] = "ended"
  /\ \E outcome \in {"succeeded", "failed"} : Update(j, outcome, "notifying", "failing")
  /\ UNCHANGED <<owner, command, seedCursor, snapshot>>

\* The exception handler: the job failed, unless that cannot be written.
FailJob(j) ==
  /\ worker[j] = "failing"
  /\ Update(j, "failed", "notifying", "gone")
  /\ UNCHANGED <<owner, command, seedCursor, snapshot>>

-----------------------------------------------------------------------------
(* The snapshot cache.                                                     *)

\* SnapshotProvider.get builds under its lock.
BuildSnapshot(s) ==
  /\ Up(s) /\ ~snapshot[s].building
  /\ snapshot' = [snapshot EXCEPT ![s].building = TRUE,
                                  ![s].sees = {j \in Created : command[j] = "ended"}]
  /\ UNCHANGED <<jobFile, owner, dashboard, worker, command, seedCursor, unwritable>>

CacheSnapshot(s) ==
  /\ snapshot[s].building
  /\ snapshot' = [snapshot EXCEPT ![s] = [building |-> FALSE, sees |-> {}, cached |-> {@.sees}]]
  /\ UNCHANGED <<jobFile, owner, dashboard, worker, command, seedCursor, unwritable>>

\* Mutant: the build does not hold the lock.
LockIgnored(s) == TRUE
LockFree(s) == ~snapshot[s].building

\* on_write = SnapshotProvider.invalidate, which waits for the lock.
Notify(j) ==
  /\ worker[j] = "notifying"
  /\ LockFree(owner[j])
  /\ snapshot' = [snapshot EXCEPT ![owner[j]].cached = NotCached]
  /\ worker' = [worker EXCEPT ![j] = "done"]
  /\ UNCHANGED <<jobFile, owner, dashboard, command, seedCursor, unwritable>>

WorkerStep(j) == BeginJob(j) \/ StartCommand(j) \/ EndJob(j) \/ FailJob(j) \/ Notify(j)

ControlNext ==
  \/ \E s \in Server : \/ Boot(s) \/ Bind(s) \/ Stop(s) \/ Launch(s)
                       \/ BuildSnapshot(s) \/ CacheSnapshot(s)
                       \/ \E kind \in {"refresh", "expand"} : Admit(s, kind)
  \/ \E j \in Created : WorkerStep(j) \/ CommandEnds(j)

ControlSpec == ControlInit /\ [][ControlNext]_controlVars

-----------------------------------------------------------------------------
(* Properties.                                                             *)

JobState == {"none", "queued", "running", "succeeded", "failed", "interrupted"}
Working == {"queued", "starting", "waiting", "failing"}

ControlTypeOK ==
  /\ Created = 1 .. Cardinality(Created) /\ Cardinality(Created) <= MaxJobs
  /\ \A j \in Created :
       /\ jobFile[j] \in JobState /\ owner[j] \in Server
       /\ worker[j] \in Working \union {"none", "notifying", "done", "gone"}
       /\ command[j] \in {"none", "running", "ended"}
  /\ \A s \in Server :
       /\ dashboard[s].pc \in {"down", "booted", "up"} /\ dashboard[s].state \in JobState
       /\ {dashboard[s].job, dashboard[s].admitted} \subseteq Created \union {NoJob}
       /\ snapshot[s].sees \subseteq Created
       /\ \A seen \in snapshot[s].cached : seen \subseteq Created
  /\ seedCursor \in 0 .. DidCount - 1
  /\ unwritable \subseteq Server

\* The slot and the threads agree.  A server that refuses a request because of
\* an active job has a thread at work on that job, which will free the slot,
\* and it has no other: two jobs it started never run at once.  It holds as
\* long as status files can be written.
SlotHasWorker ==
  \A s \in Server \ unwritable :
    /\ Active(dashboard[s].state) => worker[dashboard[s].job] \in Working
    /\ \A j \in Created :
         owner[j] = s /\ worker[j] \in Working => Active(dashboard[s].state) /\ dashboard[s].job = j

\* Once a job has reported its end, no page is answered from a snapshot that
\* was built before the job's command was through, even by a build that was
\* under way at the time.
SnapshotKnowsEndedJobs ==
  \A s \in Server, j \in Created :
    owner[j] = s /\ worker[j] = "done" /\ command[j] = "ended"
      => \A seen \in snapshot[s].cached : j \in seen
=============================================================================
