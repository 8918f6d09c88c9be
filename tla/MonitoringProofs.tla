-------------------------- MODULE MonitoringProofs --------------------------
(***************************************************************************)
(* Proofs about the two parts of the monitoring application: CorpusControl *)
(* for any number of servers and jobs and any seed list, OperationsReport  *)
(* for any artworks, decisions and configuration.                          *)
(*                                                                         *)
(* The slot of a server is its own: only its threads and its requests      *)
(* change it, and a server that is starting or stopped has no threads.     *)
(* What a report read of a source that has not moved since its first step  *)
(* is what the source still is, whichever step read it.                    *)
(***************************************************************************)
EXTENDS CorpusControl, OperationsReport, FiniteSetTheorems, WellFoundedInduction, TLAPS

WorkerState == Working \union {"none", "notifying", "done", "gone"}
CommandState == {"none", "running", "ended"}

(* The jobs are numbered in the order of their making.                     *)
Numbered == Cardinality(Created) \in 0 .. MaxJobs /\ Created = 1 .. Cardinality(Created)

Page(jobs) ==
  [pc : {"down", "booted", "up"}, job : jobs \union {NoJob}, state : JobState,
   admitted : jobs \union {NoJob}]

Types ==
  /\ Numbered
  /\ jobFile \in [Created -> JobState] /\ owner \in [Created -> Server]
  /\ worker \in [Created -> WorkerState] /\ command \in [Created -> CommandState]
  /\ dashboard \in [Server -> Page(Created)]
  /\ snapshot \in [Server -> [building : BOOLEAN, sees : SUBSET Created,
                              cached : SUBSET SUBSET Created]]
  /\ seedCursor \in 0 .. DidCount - 1
  /\ unwritable \subseteq Server

(* A server that is not up has no thread at work and no request at hand.   *)
IdleUnlessUp ==
  \A s \in Server : dashboard[s].pc # "up"
    => /\ ~Active(dashboard[s].state) /\ dashboard[s].admitted = NoJob
       /\ \A j \in Created : owner[j] = s => worker[j] \notin Working

(* An admitted job has nothing yet but its directory.                      *)
AdmittedIsNew ==
  \A s \in Server : dashboard[s].admitted # NoJob
    => LET j == dashboard[s].admitted IN
       owner[j] = s /\ worker[j] = "none" /\ command[j] = "none"

(* A command that runs is waited for, or its server is gone.               *)
CommandHasWaiter == \A j \in Created : command[j] = "running" => worker[j] \in {"waiting", "gone"}
FreshHasNoCommand ==
  \A j \in Created : worker[j] \in {"none", "queued", "starting"} => command[j] = "none"

(* A job that has reported its end is seen by the build under way.         *)
BuildSeesEndedJobs ==
  \A s \in Server, j \in Created :
    owner[j] = s /\ worker[j] = "done" /\ command[j] = "ended" /\ snapshot[s].building
      => j \in snapshot[s].sees

(* The job in a server's slot is one it made.                              *)
SlotIsOwn ==
  \A s \in Server \ unwritable :
    Active(dashboard[s].state) => /\ dashboard[s].job \in Created
                                  /\ owner[dashboard[s].job] = s

(* The inductive invariant.                                                *)
ControlInv ==
  /\ Types
  /\ IdleUnlessUp /\ AdmittedIsNew
  /\ CommandHasWaiter /\ FreshHasNoCommand
  /\ SlotIsOwn /\ SlotHasWorker
  /\ BuildSeesEndedJobs /\ SnapshotKnowsEndedJobs

-----------------------------------------------------------------------------
(* Changing one entry of a server's page keeps its type.                   *)
LEMMA PageChanges ==
  ASSUME NEW J, NEW K, J \subseteq K, NEW page \in [Server -> Page(J)], NEW s \in Server
  PROVE  /\ page \in [Server -> Page(K)]
         /\ \A j \in K \union {NoJob} : [page EXCEPT ![s].admitted = j] \in [Server -> Page(K)]
         /\ \A state \in JobState : [page EXCEPT ![s].state = state] \in [Server -> Page(K)]
         /\ [page EXCEPT ![s].pc = "up"] \in [Server -> Page(K)]
<1>1. \A q \in Server : page[q] \in Page(K)
  BY DEF Page
<1>2. \A j \in K \union {NoJob} : [page[s] EXCEPT !.admitted = j] \in Page(K)
  BY <1>1 DEF Page
<1>3. \A state \in JobState : [page[s] EXCEPT !.state = state] \in Page(K)
  BY <1>1 DEF Page
<1>4. [page[s] EXCEPT !.pc = "up"] \in Page(K)
  BY <1>1 DEF Page
<1> QED
  BY <1>1, <1>2, <1>3, <1>4

(* A set of numbers up to n has a greatest.                                *)
LEMMA GreatestOf ==
  ASSUME NEW n \in Nat, NEW S \in SUBSET (1 .. n), S # {}
  PROVE  Max(S) \in S
<1> DEFINE T == {n - x : x \in S}
<1>1. T \subseteq Nat /\ T # {}
  <2>1. \A x \in S : n - x \in Nat
    OBVIOUS
  <2> QED
    BY <2>1
<1> HIDE DEF T
<1>2. PICK m \in T : \A y \in T : <<y, m>> \notin OpToRel(<, Nat)
  BY <1>1, NatLessThanWellFounded, WFMin, Zenon
<1>3. \A y \in T : ~(y < m)
  BY <1>1, <1>2 DEF OpToRel
<1>4. PICK x \in S : m = n - x
  BY DEF T
<1>5. \A y \in S : x >= y
  <2> SUFFICES ASSUME NEW y \in S PROVE x >= y
    OBVIOUS
  <2>1. ~(n - y < m)
    BY <1>3 DEF T
  <2> QED
    BY <1>4, <2>1
<1> QED
  BY <1>5 DEF Max

(* The job a starting server recovers is one there is.                     *)
LEMMA LatestExists ==
  ASSUME Types
  PROVE  /\ Latest \in Created \union {NoJob}
         /\ Latest # NoJob => jobFile[Latest] # "none"
<1> DEFINE written == {j \in Created : jobFile[j] # "none"}
<1>1. CASE written = {}
  BY <1>1 DEF Latest
<1>2. CASE written # {}
  <2>1. Max(written) \in written
    <3>1. written \in SUBSET (1 .. Cardinality(Created)) /\ Cardinality(Created) \in Nat
      BY DEF Types, Numbered
    <3> QED
      BY <1>2, <3>1, GreatestOf
  <2> QED
    BY <1>2, <2>1 DEF Latest
<1> QED
  BY <1>1, <1>2

(* The initial states satisfy the inductive invariant.                     *)
LEMMA InitControlInv == ControlInit => ControlInv
<1> SUFFICES ASSUME ControlInit PROVE ControlInv
  OBVIOUS
<1> USE ControlAssumption DEF ControlInit, Created
<1>1. Created = {} /\ Cardinality(Created) = 0
  BY FS_EmptySet
<1>2. Numbered
  BY <1>1 DEF Numbered
<1>3. Types
  BY <1>1, <1>2 DEF Types, Page, Down, Empty, NotCached, NoJob, JobState
<1> QED
  BY <1>1, <1>3 DEF ControlInv, IdleUnlessUp, AdmittedIsNew, CommandHasWaiter, FreshHasNoCommand,
                    SlotIsOwn, SlotHasWorker, BuildSeesEndedJobs, SnapshotKnowsEndedJobs, Down, Active

-----------------------------------------------------------------------------
(* A server starts.                                                        *)
LEMMA BootStep ==
  ASSUME ControlInv, NEW s \in Server, Boot(s)
  PROVE  ControlInv'
<1> USE ControlAssumption DEF ControlInv
<1> DEFINE j == Latest
<1>1. /\ j \in Created \union {NoJob}
      /\ j # NoJob => j \in Created /\ jobFile[j] \in JobState
  BY LatestExists DEF Types
<1>2. ~Active(Recovered(jobFile[j])) /\ ~Active("none")
  BY DEF Recovered, Active
<1>3. j # NoJob => Recovered(jobFile[j]) \in JobState
  BY <1>1 DEF Recovered, JobState
<1>4. PICK state \in JobState :
        /\ ~Active(state)
        /\ dashboard' = [dashboard EXCEPT ![s] = [pc |-> "booted", job |-> j, admitted |-> NoJob,
                                                  state |-> state]]
        /\ jobFile' = IF j = NoJob THEN jobFile ELSE [jobFile EXCEPT ![j] = Recovered(@)]
  BY <1>1, <1>2, <1>3 DEF Boot, JobState
<1>5. /\ dashboard[s].pc # "up" /\ snapshot' = [snapshot EXCEPT ![s] = Empty]
      /\ unwritable' = unwritable \ {s} /\ UNCHANGED <<owner, worker, command, seedCursor>>
  BY DEF Boot
<1> HIDE DEF j
<1>6. jobFile' \in [Created -> JobState] /\ Created' = Created
  BY <1>1, <1>3, <1>4 DEF Types, Created
<1>7. Types'
  BY <1>1, <1>4, <1>5, <1>6 DEF Types, Page, Numbered, Empty, NotCached
<1>8. IdleUnlessUp'
  BY <1>4, <1>5, <1>6 DEF IdleUnlessUp, Types, Active
<1>9. AdmittedIsNew'
  BY <1>4, <1>5 DEF AdmittedIsNew, Types
<1>10. CommandHasWaiter' /\ FreshHasNoCommand'
  BY <1>5, <1>6 DEF CommandHasWaiter, FreshHasNoCommand
<1>11. SlotIsOwn' /\ SlotHasWorker'
  BY <1>4, <1>5, <1>6 DEF SlotIsOwn, SlotHasWorker, IdleUnlessUp, Types, Active
<1>12. BuildSeesEndedJobs' /\ SnapshotKnowsEndedJobs'
  BY <1>5, <1>6 DEF BuildSeesEndedJobs, SnapshotKnowsEndedJobs, Types, Empty, NotCached
<1> QED
  BY <1>7, <1>8, <1>9, <1>10, <1>11, <1>12

(* A server takes requests.                                                *)
LEMMA BindStep ==
  ASSUME ControlInv, NEW s \in Server, Bind(s)
  PROVE  ControlInv'
<1> USE DEF ControlInv, Bind
<1>1. Types' /\ Created' = Created
  <2>1. Created' = Created
    BY DEF Created
  <2>2. dashboard' \in [Server -> Page(Created)]
    BY PageChanges DEF Types
  <2> QED
    BY <2>1, <2>2 DEF Types, Numbered
<1>2. IdleUnlessUp' /\ AdmittedIsNew'
  BY <1>1 DEF IdleUnlessUp, AdmittedIsNew, Types, Active
<1>3. SlotIsOwn' /\ SlotHasWorker'
  BY <1>1 DEF SlotIsOwn, SlotHasWorker, Types, Active
<1>4. CommandHasWaiter' /\ FreshHasNoCommand' /\ BuildSeesEndedJobs' /\ SnapshotKnowsEndedJobs'
  BY <1>1 DEF CommandHasWaiter, FreshHasNoCommand, BuildSeesEndedJobs, SnapshotKnowsEndedJobs
<1> QED
  BY <1>1, <1>2, <1>3, <1>4

(* The process of a server ends.                                           *)
LEMMA StopStep ==
  ASSUME ControlInv, NEW s \in Server, Stop(s)
  PROVE  ControlInv'
<1> USE DEF ControlInv
<1>1. PICK survive \in BOOLEAN :
        command' = [j \in Created |-> IF owner[j] = s /\ command[j] = "running" /\ ~survive
                                      THEN "ended" ELSE command[j]]
  BY DEF Stop
<1>2. /\ dashboard' = [dashboard EXCEPT ![s] = Down]
      /\ worker' = [j \in Created |-> IF owner[j] = s THEN "gone" ELSE worker[j]]
      /\ snapshot' = [snapshot EXCEPT ![s] = Empty]
      /\ UNCHANGED <<jobFile, owner, seedCursor, unwritable>> /\ Created' = Created
  BY DEF Stop, Created
<1>3. Types'
  BY <1>1, <1>2 DEF Types, Page, Numbered, Down, Empty, NotCached, JobState, WorkerState, CommandState
<1>4. IdleUnlessUp'
  BY <1>2 DEF IdleUnlessUp, Types, Down, Active, Working
<1>5. AdmittedIsNew'
  <2> SUFFICES ASSUME NEW q \in Server, dashboard'[q].admitted # NoJob
               PROVE  LET j == dashboard'[q].admitted IN
                      owner'[j] = q /\ worker'[j] = "none" /\ command'[j] = "none"
    BY DEF AdmittedIsNew, NoJob
  <2>1. q # s /\ dashboard'[q] = dashboard[q]
    BY <1>2 DEF Types, Down
  <2> QED
    BY <1>1, <1>2, <2>1 DEF AdmittedIsNew, Types, Page, NoJob
<1>6. CommandHasWaiter' /\ FreshHasNoCommand'
  BY <1>1, <1>2 DEF CommandHasWaiter, FreshHasNoCommand, Types
<1>7. SlotIsOwn' /\ SlotHasWorker'
  <2> SUFFICES ASSUME NEW q \in Server \ unwritable
               PROVE  /\ Active(dashboard'[q].state)
                        => /\ dashboard'[q].job \in Created /\ owner'[dashboard'[q].job] = q
                           /\ worker'[dashboard'[q].job] \in Working
                      /\ \A j \in Created : owner'[j] = q /\ worker'[j] \in Working
                           => Active(dashboard'[q].state) /\ dashboard'[q].job = j
    BY <1>2 DEF SlotIsOwn, SlotHasWorker, Active
  <2>1. CASE q = s
    BY <1>2, <2>1 DEF Types, Down, Active, Working
  <2>2. CASE q # s
    BY <1>2, <2>2 DEF SlotIsOwn, SlotHasWorker, Types
  <2> QED
    BY <2>1, <2>2
<1>8. BuildSeesEndedJobs' /\ SnapshotKnowsEndedJobs'
  BY <1>1, <1>2 DEF BuildSeesEndedJobs, SnapshotKnowsEndedJobs, Types, Empty, NotCached
<1> QED
  BY <1>3, <1>4, <1>5, <1>6, <1>7, <1>8

-----------------------------------------------------------------------------
(* A request is admitted: there is a job more.                             *)
LEMMA AdmitStep ==
  ASSUME ControlInv, NEW s \in Server, NEW kind \in {"refresh", "expand"}, Admit(s, kind)
  PROVE  ControlInv'
<1> USE ControlAssumption DEF ControlInv
<1> DEFINE n == Cardinality(Created)
           j == n + 1
<1>1. /\ n \in Nat /\ n < MaxJobs /\ Created = 1 .. n
      /\ j \notin Created /\ j # NoJob
  BY DEF Admit, Types, Numbered, NoJob
<1>2. Created \union {j} = 1 .. j
  BY <1>1
<1>3. /\ jobFile' = [i \in Created \union {j} |-> IF i = j THEN "none" ELSE jobFile[i]]
      /\ owner' = [i \in Created \union {j} |-> IF i = j THEN s ELSE owner[i]]
      /\ worker' = [i \in Created \union {j} |-> IF i = j THEN "none" ELSE worker[i]]
      /\ command' = [i \in Created \union {j} |-> IF i = j THEN "none" ELSE command[i]]
      /\ dashboard' = [dashboard EXCEPT ![s].admitted = j]
      /\ UNCHANGED <<snapshot, unwritable>>
      /\ dashboard[s].pc = "up" /\ dashboard[s].admitted = NoJob
  BY DEF Admit, Up
<1>4. seedCursor' \in 0 .. DidCount - 1
  <2>1. (seedCursor + SeedCount) % DidCount \in 0 .. DidCount - 1
    BY DEF Types
  <2> QED
    BY <2>1 DEF Admit, RotatedSeeds, Types
<1>5. Created' = Created \union {j}
  BY <1>3 DEF Created
<1>6. Numbered'
  <2>1. Cardinality(1 .. j) = j
    BY <1>1, FS_Interval
  <2>2. Created' = 1 .. j
    BY <1>2, <1>5
  <2>3. Cardinality(Created)' = j /\ j \in 0 .. MaxJobs
    BY <1>1, <2>1, <2>2
  <2> HIDE DEF j
  <2> QED
    BY <2>2, <2>3 DEF Numbered
<1> HIDE DEF j, n
<1>7. dashboard' \in [Server -> Page(Created')]
  <2>1. Created \subseteq Created' /\ j \in Created' \union {NoJob}
    BY <1>5
  <2> QED
    BY <1>3, <2>1, PageChanges DEF Types
<1>8. Types'
  <2>1. /\ jobFile' \in [Created' -> JobState] /\ owner' \in [Created' -> Server]
        /\ worker' \in [Created' -> WorkerState] /\ command' \in [Created' -> CommandState]
    BY <1>3, <1>5 DEF Types, JobState, WorkerState, CommandState
  <2>2. /\ snapshot' \in [Server -> [building : BOOLEAN, sees : SUBSET Created',
                                     cached : SUBSET SUBSET Created']]
        /\ unwritable' \subseteq Server
    BY <1>3, <1>5 DEF Types
  <2> QED
    BY <1>4, <1>6, <1>7, <2>1, <2>2 DEF Types
<1>9. \A i \in Created : i # j /\ owner'[i] = owner[i] /\ worker'[i] = worker[i]
                         /\ command'[i] = command[i]
  BY <1>1, <1>3
<1>10. owner'[j] = s /\ worker'[j] = "none" /\ command'[j] = "none"
  BY <1>3
<1>11. \A q \in Server : /\ dashboard'[q].state = dashboard[q].state
                         /\ dashboard'[q].job = dashboard[q].job
                         /\ dashboard'[q].pc = dashboard[q].pc
                         /\ q # s => dashboard'[q].admitted = dashboard[q].admitted
  BY <1>3 DEF Types
<1>12. dashboard'[s].admitted = j
  BY <1>3 DEF Types
<1>13. IdleUnlessUp'
  BY <1>3, <1>5, <1>9, <1>10, <1>11 DEF IdleUnlessUp, Active, Working, NoJob
<1>14. AdmittedIsNew'
  <2> SUFFICES ASSUME NEW q \in Server, dashboard'[q].admitted # NoJob
               PROVE  LET i == dashboard'[q].admitted IN
                      owner'[i] = q /\ worker'[i] = "none" /\ command'[i] = "none"
    BY DEF AdmittedIsNew, NoJob
  <2>1. CASE q = s
    BY <1>10, <1>12, <2>1
  <2>2. CASE q # s
    BY <1>9, <1>11, <2>2 DEF AdmittedIsNew, Types, Page
  <2> QED
    BY <2>1, <2>2
<1>15. CommandHasWaiter' /\ FreshHasNoCommand'
  BY <1>5, <1>9, <1>10 DEF CommandHasWaiter, FreshHasNoCommand
<1>16. SlotIsOwn' /\ SlotHasWorker'
  BY <1>3, <1>5, <1>9, <1>10, <1>11 DEF SlotIsOwn, SlotHasWorker, Active, Working
<1>17. BuildSeesEndedJobs' /\ SnapshotKnowsEndedJobs'
  BY <1>3, <1>5, <1>9, <1>10 DEF BuildSeesEndedJobs, SnapshotKnowsEndedJobs
<1> QED
  BY <1>8, <1>13, <1>14, <1>15, <1>16, <1>17

(* It is launched, or turned away.                                         *)
LEMMA LaunchStep ==
  ASSUME ControlInv, NEW s \in Server, Launch(s)
  PROVE  ControlInv'
<1> USE DEF ControlInv
<1> DEFINE j == dashboard[s].admitted
<1>1. /\ j \in Created /\ owner[j] = s /\ worker[j] = "none" /\ command[j] = "none"
      /\ dashboard[s].pc = "up" /\ Created' = Created
      /\ UNCHANGED <<owner, command, seedCursor, snapshot>>
  BY DEF Launch, Up, Types, Page, AdmittedIsNew, Created
<1>2. CASE /\ SlotFree(s)
           /\ dashboard' = [dashboard EXCEPT ![s] = [pc |-> "up", job |-> j, state |-> "queued",
                                                     admitted |-> NoJob]]
           /\ \/ /\ jobFile' = [jobFile EXCEPT ![j] = "queued"]
                 /\ worker' = [worker EXCEPT ![j] = "queued"]
                 /\ UNCHANGED unwritable
              \/ /\ unwritable' = unwritable \union {s}
                 /\ UNCHANGED <<jobFile, worker>>
  <2> HIDE DEF j
  <2>1. Types'
    BY <1>1, <1>2 DEF Types, Page, Numbered, JobState, WorkerState, Working
  <2>2. IdleUnlessUp'
    BY <1>1, <1>2 DEF IdleUnlessUp, Types, Active
  <2>3. AdmittedIsNew'
    <3> SUFFICES ASSUME NEW q \in Server, dashboard'[q].admitted # NoJob
                 PROVE  LET i == dashboard'[q].admitted IN
                        owner'[i] = q /\ worker'[i] = "none" /\ command'[i] = "none"
      BY DEF AdmittedIsNew, NoJob
    <3>1. q # s /\ dashboard'[q] = dashboard[q]
      BY <1>2 DEF Types
    <3> QED
      BY <1>1, <1>2, <3>1 DEF AdmittedIsNew, Types, Page, NoJob
  <2>4. CommandHasWaiter' /\ FreshHasNoCommand'
    BY <1>1, <1>2 DEF CommandHasWaiter, FreshHasNoCommand, Types
  <2>5. SlotIsOwn' /\ SlotHasWorker'
    <3> SUFFICES ASSUME NEW q \in Server \ unwritable'
                 PROVE  /\ Active(dashboard'[q].state)
                          => /\ dashboard'[q].job \in Created /\ owner'[dashboard'[q].job] = q
                             /\ worker'[dashboard'[q].job] \in Working
                        /\ \A i \in Created : owner'[i] = q /\ worker'[i] \in Working
                             => Active(dashboard'[q].state) /\ dashboard'[q].job = i
      BY <1>1 DEF SlotIsOwn, SlotHasWorker, Active
    <3>1. CASE q = s
      <4>1. s \notin unwritable /\ worker' = [worker EXCEPT ![j] = "queued"]
        BY <1>2, <3>1
      <4>2. \A i \in Created : owner[i] = s => worker[i] \notin Working
        BY <1>2, <4>1 DEF SlotHasWorker, SlotFree
      <4>3. dashboard'[s].state = "queued" /\ dashboard'[s].job = j
        BY <1>2 DEF Types
      <4> QED
        BY <1>1, <3>1, <4>1, <4>2, <4>3 DEF Types, Active, Working
    <3>2. CASE q # s
      <4>1. \A i \in Created : i # j => worker'[i] = worker[i]
        BY <1>2 DEF Types
      <4>2. dashboard'[q] = dashboard[q] /\ q \notin unwritable
        BY <1>2, <3>2 DEF Types
      <4>3. \A i \in Created : owner[i] = q => i # j
        BY <1>1, <3>2
      <4>4. ASSUME Active(dashboard[q].state)
            PROVE  LET i == dashboard[q].job IN
                   i \in Created /\ owner[i] = q /\ worker'[i] \in Working
        <5>1. dashboard[q].job \in Created /\ owner[dashboard[q].job] = q
          BY <4>2, <4>4 DEF SlotIsOwn
        <5> QED
          BY <4>1, <4>2, <4>3, <4>4, <5>1 DEF SlotHasWorker
      <4>5. \A i \in Created : owner[i] = q /\ worker'[i] \in Working
              => Active(dashboard[q].state) /\ dashboard[q].job = i
        BY <4>1, <4>2, <4>3 DEF SlotHasWorker
      <4> QED
        BY <1>1, <4>2, <4>4, <4>5
    <3> QED
      BY <3>1, <3>2
  <2>6. BuildSeesEndedJobs' /\ SnapshotKnowsEndedJobs'
    BY <1>1, <1>2 DEF BuildSeesEndedJobs, SnapshotKnowsEndedJobs, Types
  <2> QED
    BY <2>1, <2>2, <2>3, <2>4, <2>5, <2>6
<1>3. CASE /\ dashboard' = [dashboard EXCEPT ![s].admitted = NoJob]
           /\ UNCHANGED <<jobFile, worker, unwritable>>
  <2>1. dashboard' \in [Server -> Page(Created)]
    BY <1>3, PageChanges DEF Types
  <2>2. \A q \in Server : /\ dashboard'[q].state = dashboard[q].state
                          /\ dashboard'[q].job = dashboard[q].job
                          /\ dashboard'[q].pc = dashboard[q].pc
                          /\ dashboard'[q].admitted \in {dashboard[q].admitted, NoJob}
    BY <1>3 DEF Types
  <2>3. Types'
    BY <1>1, <1>3, <2>1 DEF Types, Numbered
  <2>4. IdleUnlessUp' /\ AdmittedIsNew'
    BY <1>1, <1>3, <2>2 DEF IdleUnlessUp, AdmittedIsNew, Active, NoJob
  <2>5. SlotIsOwn' /\ SlotHasWorker'
    BY <1>1, <1>3, <2>2 DEF SlotIsOwn, SlotHasWorker, Active
  <2>6. CommandHasWaiter' /\ FreshHasNoCommand' /\ BuildSeesEndedJobs' /\ SnapshotKnowsEndedJobs'
    BY <1>1, <1>3 DEF CommandHasWaiter, FreshHasNoCommand, BuildSeesEndedJobs,
                      SnapshotKnowsEndedJobs
  <2> QED
    BY <2>3, <2>4, <2>5, <2>6
<1> QED
  BY <1>2, <1>3 DEF Launch

-----------------------------------------------------------------------------
(* A thread moves its job from one state to another.                       *)

(* What a move of job j of server s keeps, if the thread was at work and   *)
(* the job's command does not run meanwhile.                               *)
LEMMA MoveStep ==
  ASSUME ControlInv, NEW j \in Created, worker[j] \in Working, command[j] # "running",
         NEW s, s = owner[j],
         NEW state \in JobState \ {"none"}, NEW w \in WorkerState \ {"none", "queued", "done"},
         Active(state) <=> w \in Working,
         w = "starting" => command[j] = "none",
         dashboard' = [dashboard EXCEPT ![s].state = state],
         worker' = [worker EXCEPT ![j] = w],
         jobFile' \in [Created -> JobState],
         unwritable' = unwritable,
         UNCHANGED <<owner, command, seedCursor, snapshot>>
  PROVE  ControlInv'
<1> USE DEF ControlInv
<1>1. s \in Server /\ Created' = Created
  BY DEF Types, Created
<1>2. dashboard[s].pc = "up"
  BY <1>1 DEF IdleUnlessUp
<1>3. dashboard' \in [Server -> Page(Created)]
  BY <1>1, PageChanges DEF Types
<1>4. Types'
  BY <1>1, <1>3 DEF Types, Numbered
<1>5. \A q \in Server : /\ dashboard'[q].job = dashboard[q].job
                        /\ dashboard'[q].pc = dashboard[q].pc
                        /\ dashboard'[q].admitted = dashboard[q].admitted
                        /\ q # s => dashboard'[q].state = dashboard[q].state
  BY DEF Types
<1>6. dashboard'[s].state = state
  BY <1>1 DEF Types, Page
<1>7. worker'[j] = w /\ \A i \in Created : i # j => worker'[i] = worker[i]
  BY DEF Types
<1>8. IdleUnlessUp'
  BY <1>1, <1>2, <1>5, <1>7 DEF IdleUnlessUp, Active
<1>9. AdmittedIsNew'
  <2> SUFFICES ASSUME NEW q \in Server, dashboard'[q].admitted # NoJob
               PROVE  LET i == dashboard'[q].admitted IN
                      owner'[i] = q /\ worker'[i] = "none" /\ command'[i] = "none"
    BY DEF AdmittedIsNew, NoJob
  <2>1. dashboard[q].admitted # j /\ dashboard[q].admitted \in Created
    BY <1>5 DEF AdmittedIsNew, Working, Types, Page
  <2> QED
    BY <1>5, <1>7, <2>1 DEF AdmittedIsNew
<1>10. CommandHasWaiter' /\ FreshHasNoCommand'
  BY <1>1, <1>7 DEF CommandHasWaiter, FreshHasNoCommand
<1>11. SlotIsOwn' /\ SlotHasWorker'
  <2> SUFFICES ASSUME NEW q \in Server \ unwritable
               PROVE  /\ Active(dashboard'[q].state)
                        => /\ dashboard'[q].job \in Created /\ owner[dashboard'[q].job] = q
                           /\ worker'[dashboard'[q].job] \in Working
                      /\ \A i \in Created : owner[i] = q /\ worker'[i] \in Working
                           => Active(dashboard'[q].state) /\ dashboard'[q].job = i
    BY <1>1 DEF SlotIsOwn, SlotHasWorker, Active
  <2>1. CASE q = s
    <3>1. Active(dashboard[s].state) /\ dashboard[s].job = j
      BY <2>1 DEF SlotHasWorker
    <3>2. \A i \in Created : owner[i] = s /\ i # j => worker[i] \notin Working
      BY <2>1, <3>1 DEF SlotHasWorker
    <3> QED
      BY <1>5, <1>6, <1>7, <2>1, <3>1, <3>2
  <2>2. CASE q # s
    <3>1. Active(dashboard[q].state) => dashboard[q].job # j
      BY <2>2 DEF SlotIsOwn
    <3> QED
      BY <1>5, <1>7, <2>2, <3>1 DEF SlotIsOwn, SlotHasWorker
  <2> QED
    BY <2>1, <2>2
<1>12. BuildSeesEndedJobs' /\ SnapshotKnowsEndedJobs'
  BY <1>1, <1>7 DEF BuildSeesEndedJobs, SnapshotKnowsEndedJobs
<1> QED
  BY <1>4, <1>8, <1>9, <1>10, <1>11, <1>12

(* The same where the server could not write: its slot is waived.          *)
LEMMA UnwrittenStep ==
  ASSUME ControlInv, NEW j \in Created, worker[j] \in Working, command[j] # "running",
         NEW s, s = owner[j],
         NEW state \in JobState \ {"none"}, NEW w \in {"failing", "gone"},
         dashboard' = [dashboard EXCEPT ![s].state = state],
         worker' = [worker EXCEPT ![j] = w],
         unwritable' = unwritable \union {s},
         UNCHANGED <<jobFile, owner, command, seedCursor, snapshot>>
  PROVE  ControlInv'
<1> USE DEF ControlInv
<1>1. s \in Server /\ Created' = Created
  BY DEF Types, Created
<1>2. dashboard[s].pc = "up"
  BY <1>1 DEF IdleUnlessUp
<1>3. dashboard' \in [Server -> Page(Created)]
  BY <1>1, PageChanges DEF Types
<1>4. Types'
  BY <1>1, <1>3 DEF Types, Numbered, WorkerState, Working
<1>5. \A q \in Server : /\ dashboard'[q].job = dashboard[q].job
                        /\ dashboard'[q].pc = dashboard[q].pc
                        /\ dashboard'[q].admitted = dashboard[q].admitted
                        /\ q # s => dashboard'[q].state = dashboard[q].state
  BY DEF Types
<1>6. worker'[j] = w /\ \A i \in Created : i # j => worker'[i] = worker[i]
  BY DEF Types
<1>7. IdleUnlessUp'
  BY <1>1, <1>2, <1>5, <1>6 DEF IdleUnlessUp, Active
<1>8. AdmittedIsNew'
  <2> SUFFICES ASSUME NEW q \in Server, dashboard'[q].admitted # NoJob
               PROVE  LET i == dashboard'[q].admitted IN
                      owner'[i] = q /\ worker'[i] = "none" /\ command'[i] = "none"
    BY DEF AdmittedIsNew, NoJob
  <2>1. dashboard[q].admitted # j /\ dashboard[q].admitted \in Created
    BY <1>5 DEF AdmittedIsNew, Working, Types, Page
  <2> QED
    BY <1>5, <1>6, <2>1 DEF AdmittedIsNew
<1>9. CommandHasWaiter' /\ FreshHasNoCommand'
  BY <1>1, <1>6 DEF CommandHasWaiter, FreshHasNoCommand
<1>10. SlotIsOwn' /\ SlotHasWorker'
  BY <1>1, <1>5, <1>6 DEF SlotIsOwn, SlotHasWorker
<1>11. BuildSeesEndedJobs' /\ SnapshotKnowsEndedJobs'
  BY <1>1, <1>6 DEF BuildSeesEndedJobs, SnapshotKnowsEndedJobs
<1> QED
  BY <1>4, <1>7, <1>8, <1>9, <1>10, <1>11

(* The thread's updates are such moves.                                    *)
LEMMA UpdateStep ==
  ASSUME ControlInv, NEW j \in Created, worker[j] \in Working, command[j] # "running",
         NEW state \in JobState \ {"none"}, NEW w \in WorkerState \ {"none", "queued", "done"},
         NEW v \in {"failing", "gone"},
         Active(state) <=> w \in Working,
         w = "starting" => command[j] = "none",
         Update(j, state, w, v), UNCHANGED <<owner, command, seedCursor, snapshot>>
  PROVE  ControlInv'
<1> DEFINE s == owner[j]
<1>1. CASE jobFile' = [jobFile EXCEPT ![j] = state] /\ worker' = [worker EXCEPT ![j] = w]
           /\ UNCHANGED unwritable
  <2>1. jobFile' \in [Created -> JobState]
    BY <1>1 DEF ControlInv, Types
  <2> QED
    BY <1>1, <2>1, MoveStep DEF Update
<1>2. CASE worker' = [worker EXCEPT ![j] = v] /\ unwritable' = unwritable \union {s}
           /\ UNCHANGED jobFile
  BY <1>2, UnwrittenStep DEF Update
<1> QED
  BY <1>1, <1>2 DEF Update

(* Beginning, ending and failing a job.                                    *)
LEMMA ThreadUpdates ==
  ASSUME ControlInv, NEW j \in Created, BeginJob(j) \/ EndJob(j) \/ FailJob(j)
  PROVE  ControlInv'
<1>1. CASE BeginJob(j)
  <2>1. command[j] = "none"
    BY <1>1 DEF BeginJob, ControlInv, FreshHasNoCommand
  <2> QED
    BY <1>1, <2>1, UpdateStep DEF BeginJob, Working, WorkerState, JobState, Active
<1>2. CASE EndJob(j)
  BY <1>2, UpdateStep DEF EndJob, Working, WorkerState, JobState, Active
<1>3. CASE FailJob(j)
  <2>1. command[j] # "running"
    BY <1>3 DEF FailJob, ControlInv, CommandHasWaiter
  <2> QED
    BY <1>3, <2>1, UpdateStep DEF FailJob, Working, WorkerState, JobState, Active
<1> QED
  BY <1>1, <1>2, <1>3

-----------------------------------------------------------------------------
(* The child process starts and ends.                                      *)
LEMMA CommandStep ==
  ASSUME ControlInv, NEW j \in Created, StartCommand(j) \/ CommandEnds(j)
  PROVE  ControlInv'
<1> USE DEF ControlInv
<1>1. /\ UNCHANGED <<jobFile, owner, dashboard, seedCursor, snapshot, unwritable>>
      /\ Created' = Created
  BY DEF StartCommand, CommandEnds, Created
<1>2. /\ \A i \in Created : i # j => worker'[i] = worker[i] /\ command'[i] = command[i]
      /\ worker[j] \notin {"none", "queued", "done"}
      /\ \/ worker[j] \in {"waiting", "gone"} /\ worker'[j] = worker[j] /\ command'[j] = "ended"
         \/ worker[j] = "starting" /\ worker'[j] = "waiting" /\ command'[j] = "running"
         \/ worker[j] = "starting" /\ worker'[j] = "failing" /\ command'[j] = command[j]
  BY DEF StartCommand, CommandEnds, Types, CommandHasWaiter
<1>3. worker' \in [Created -> WorkerState] /\ command' \in [Created -> CommandState]
  BY DEF StartCommand, CommandEnds, Types, WorkerState, Working, CommandState
<1>4. Types'
  BY <1>1, <1>3 DEF Types, Numbered
<1>5. \A i \in Created : worker'[i] \in Working <=> worker[i] \in Working
  BY <1>2 DEF Working
<1>6. IdleUnlessUp'
  BY <1>1, <1>5 DEF IdleUnlessUp, Active
<1>7. AdmittedIsNew'
  <2> SUFFICES ASSUME NEW q \in Server, dashboard[q].admitted # NoJob
               PROVE  LET i == dashboard[q].admitted IN
                      owner'[i] = q /\ worker'[i] = "none" /\ command'[i] = "none"
    BY <1>1 DEF AdmittedIsNew, NoJob
  <2>1. dashboard[q].admitted # j /\ dashboard[q].admitted \in Created
    BY <1>2 DEF AdmittedIsNew, Types, Page
  <2> QED
    BY <1>1, <1>2, <2>1 DEF AdmittedIsNew
<1>8. CommandHasWaiter'
  BY <1>1, <1>2 DEF CommandHasWaiter
<1>9. FreshHasNoCommand'
  BY <1>1, <1>2 DEF FreshHasNoCommand
<1>10. SlotIsOwn' /\ SlotHasWorker'
  <2>1. SlotIsOwn'
    BY <1>1 DEF SlotIsOwn, Active
  <2>2. \A s \in Server \ unwritable : Active(dashboard[s].state) => dashboard[s].job \in Created
    BY DEF SlotIsOwn
  <2> QED
    BY <1>1, <1>5, <2>1, <2>2 DEF SlotHasWorker, Active
<1>11. BuildSeesEndedJobs' /\ SnapshotKnowsEndedJobs'
  BY <1>1, <1>2 DEF BuildSeesEndedJobs, SnapshotKnowsEndedJobs
<1> QED
  BY <1>4, <1>6, <1>7, <1>8, <1>9, <1>10, <1>11

-----------------------------------------------------------------------------
(* The snapshot is built, cached and dropped.                              *)
LEMMA SnapshotStep ==
  ASSUME ControlInv, NEW s \in Server, BuildSnapshot(s) \/ CacheSnapshot(s)
  PROVE  ControlInv'
<1> USE DEF ControlInv
<1>1. /\ UNCHANGED <<jobFile, owner, dashboard, worker, command, seedCursor, unwritable>>
      /\ Created' = Created
  BY DEF BuildSnapshot, CacheSnapshot, Created
<1>2. IdleUnlessUp' /\ AdmittedIsNew' /\ CommandHasWaiter' /\ FreshHasNoCommand' /\ SlotIsOwn'
      /\ SlotHasWorker'
  BY <1>1 DEF IdleUnlessUp, AdmittedIsNew, CommandHasWaiter, FreshHasNoCommand, SlotIsOwn,
              SlotHasWorker, Active, NoJob
<1>3. CASE BuildSnapshot(s)
  <2>1. snapshot' \in [Server -> [building : BOOLEAN, sees : SUBSET Created,
                                  cached : SUBSET SUBSET Created]]
    <3>1. [snapshot[s] EXCEPT !.building = TRUE, !.sees = {j \in Created : command[j] = "ended"}]
            \in [building : BOOLEAN, sees : SUBSET Created, cached : SUBSET SUBSET Created]
      <4>1. snapshot[s] \in [building : BOOLEAN, sees : SUBSET Created, cached : SUBSET SUBSET Created]
        BY DEF Types
      <4>2. {j \in Created : command[j] = "ended"} \in SUBSET Created
        OBVIOUS
      <4> QED
        BY <4>1, <4>2
    <3>2. snapshot' = [snapshot EXCEPT ![s] = [snapshot[s] EXCEPT !.building = TRUE,
                         !.sees = {j \in Created : command[j] = "ended"}]]
      BY <1>3 DEF BuildSnapshot
    <3> QED
      BY <3>1, <3>2 DEF Types
  <2>2. /\ snapshot'[s].sees = {j \in Created : command[j] = "ended"}
        /\ snapshot'[s].cached = snapshot[s].cached
        /\ \A q \in Server : q # s => snapshot'[q] = snapshot[q]
    BY <1>3 DEF BuildSnapshot, Types
  <2>3. Types'
    BY <1>1, <2>1 DEF Types, Numbered
  <2>4. BuildSeesEndedJobs' /\ SnapshotKnowsEndedJobs'
    BY <1>1, <2>2 DEF BuildSeesEndedJobs, SnapshotKnowsEndedJobs
  <2> QED
    BY <1>2, <2>3, <2>4
<1>4. CASE CacheSnapshot(s)
  <2>1. snapshot' = [snapshot EXCEPT ![s] = [building |-> FALSE, sees |-> {},
                                             cached |-> {snapshot[s].sees}]]
        /\ snapshot[s].building
    BY <1>4 DEF CacheSnapshot
  <2>2. snapshot[s].sees \in SUBSET Created
    BY DEF Types
  <2>3. Types'
    BY <1>1, <2>1, <2>2 DEF Types, Numbered
  <2>4. BuildSeesEndedJobs' /\ SnapshotKnowsEndedJobs'
    BY <1>1, <2>1 DEF BuildSeesEndedJobs, SnapshotKnowsEndedJobs, Types
  <2> QED
    BY <1>2, <2>3, <2>4
<1> QED
  BY <1>3, <1>4

(* The finished job's thread drops what is cached.                         *)
LEMMA NotifyStep ==
  ASSUME ControlInv, NEW j \in Created, Notify(j)
  PROVE  ControlInv'
<1> USE DEF ControlInv
<1> DEFINE s == owner[j]
<1>1. /\ UNCHANGED <<jobFile, owner, dashboard, command, seedCursor, unwritable>>
      /\ Created' = Created /\ s \in Server
      /\ worker' = [worker EXCEPT ![j] = "done"] /\ worker[j] = "notifying"
      /\ snapshot' = [snapshot EXCEPT ![s].cached = NotCached]
      /\ ~snapshot[s].building
  BY DEF Notify, Created, LockFree, Types
<1> HIDE DEF s
<1>2. snapshot' \in [Server -> [building : BOOLEAN, sees : SUBSET Created,
                                cached : SUBSET SUBSET Created]]
  <2>1. [snapshot[s] EXCEPT !.cached = NotCached]
          \in [building : BOOLEAN, sees : SUBSET Created, cached : SUBSET SUBSET Created]
    <3>1. snapshot[s] \in [building : BOOLEAN, sees : SUBSET Created, cached : SUBSET SUBSET Created]
      BY <1>1 DEF Types
    <3>2. NotCached \in SUBSET SUBSET Created
      BY DEF NotCached
    <3> QED
      BY <3>1, <3>2
  <2>2. snapshot' = [snapshot EXCEPT ![s] = [snapshot[s] EXCEPT !.cached = NotCached]]
    BY <1>1
  <2> QED
    BY <2>1, <2>2 DEF Types
<1>3. Types'
  BY <1>1, <1>2 DEF Types, Numbered, WorkerState
<1>4. worker'[j] = "done" /\ \A i \in Created : i # j => worker'[i] = worker[i]
  BY <1>1 DEF Types
<1>5. \A i \in Created : worker'[i] \in Working <=> worker[i] \in Working
  BY <1>1, <1>4 DEF Working
<1>6. IdleUnlessUp'
  BY <1>1, <1>5 DEF IdleUnlessUp, Active
<1>7. AdmittedIsNew'
  <2> SUFFICES ASSUME NEW q \in Server, dashboard[q].admitted # NoJob
               PROVE  LET i == dashboard[q].admitted IN
                      owner'[i] = q /\ worker'[i] = "none" /\ command'[i] = "none"
    BY <1>1 DEF AdmittedIsNew, NoJob
  <2>1. dashboard[q].admitted # j /\ dashboard[q].admitted \in Created
    BY <1>1 DEF AdmittedIsNew, Types, Page
  <2> QED
    BY <1>1, <1>4, <2>1 DEF AdmittedIsNew
<1>8. CommandHasWaiter' /\ FreshHasNoCommand'
  BY <1>1, <1>4 DEF CommandHasWaiter, FreshHasNoCommand
<1>9. SlotIsOwn' /\ SlotHasWorker'
  <2>1. SlotIsOwn'
    BY <1>1 DEF SlotIsOwn, Active
  <2>2. \A q \in Server \ unwritable : Active(dashboard[q].state) => dashboard[q].job \in Created
    BY DEF SlotIsOwn
  <2> QED
    BY <1>1, <1>5, <2>1, <2>2 DEF SlotHasWorker, Active
<1>10. /\ snapshot'[s].cached = {} /\ ~snapshot'[s].building
       /\ \A q \in Server : q # s => snapshot'[q] = snapshot[q]
  BY <1>1 DEF Types, NotCached
<1>11. BuildSeesEndedJobs' /\ SnapshotKnowsEndedJobs'
  BY <1>1, <1>4, <1>10 DEF BuildSeesEndedJobs, SnapshotKnowsEndedJobs, s
<1> QED
  BY <1>3, <1>6, <1>7, <1>8, <1>9, <1>11

-----------------------------------------------------------------------------
(* The invariant holds in every reachable state.                           *)
LEMMA ControlInvariant == ControlSpec => []ControlInv
<1>1. ControlInv /\ [ControlNext]_controlVars => ControlInv'
  <2> SUFFICES ASSUME ControlInv, [ControlNext]_controlVars PROVE ControlInv'
    OBVIOUS
  <2>1. CASE UNCHANGED controlVars
    BY <2>1 DEF controlVars, ControlInv, Types, Numbered, Created, IdleUnlessUp, AdmittedIsNew,
                CommandHasWaiter, FreshHasNoCommand, SlotIsOwn, SlotHasWorker, BuildSeesEndedJobs,
                SnapshotKnowsEndedJobs, Active, NoJob
  <2>2. CASE \E s \in Server : \/ Boot(s) \/ Bind(s) \/ Stop(s) \/ Launch(s)
                               \/ BuildSnapshot(s) \/ CacheSnapshot(s)
                               \/ \E kind \in {"refresh", "expand"} : Admit(s, kind)
    BY <2>2, BootStep, BindStep, StopStep, LaunchStep, SnapshotStep, AdmitStep
  <2>3. CASE \E j \in Created : WorkerStep(j) \/ CommandEnds(j)
    BY <2>3, ThreadUpdates, CommandStep, NotifyStep DEF WorkerStep
  <2> QED
    BY <2>1, <2>2, <2>3 DEF ControlNext
<1> QED
  BY InitControlInv, <1>1, PTL DEF ControlSpec

-----------------------------------------------------------------------------
(* The control service's state keeps its types; in particular the seed     *)
(* cursor stays within the list, _next_discovery_seeds.                    *)
THEOREM ControlTypeCorrect == ControlSpec => []ControlTypeOK
<1>1. ControlInv => ControlTypeOK
  <2> SUFFICES ASSUME ControlInv PROVE ControlTypeOK
    OBVIOUS
  <2>1. Numbered /\ seedCursor \in 0 .. DidCount - 1 /\ unwritable \subseteq Server
    BY DEF ControlInv, Types
  <2>2. \A j \in Created : /\ jobFile[j] \in JobState /\ owner[j] \in Server
                           /\ worker[j] \in WorkerState /\ command[j] \in CommandState
    BY DEF ControlInv, Types
  <2>3. \A s \in Server :
          /\ dashboard[s].pc \in {"down", "booted", "up"} /\ dashboard[s].state \in JobState
          /\ {dashboard[s].job, dashboard[s].admitted} \subseteq Created \union {NoJob}
          /\ snapshot[s].sees \subseteq Created
          /\ \A seen \in snapshot[s].cached : seen \subseteq Created
    BY DEF ControlInv, Types, Page
  <2> QED
    BY <2>1, <2>2, <2>3 DEF ControlTypeOK, Numbered, WorkerState, CommandState
<1> QED
  BY ControlInvariant, <1>1, PTL

(* A server that says a job is active has the one thread that works on it, *)
(* as long as it can write status files (_admission_lock, _launch,         *)
(* _execute_job).                                                          *)
THEOREM SlotKept == ControlSpec => []SlotHasWorker
  BY ControlInvariant, PTL DEF ControlInv

(* No page shows less than what a finished job did (SnapshotProvider.get   *)
(* and invalidate).                                                        *)
THEOREM SnapshotCurrent == ControlSpec => []SnapshotKnowsEndedJobs
  BY ControlInvariant, PTL DEF ControlInv
-----------------------------------------------------------------------------
(* The sources keep what the proof needs of their types.                   *)
WorldSource ==
  {"catalog", "works", "ledger", "points", "alias", "endpoint", "decisions", "evaluation",
   "labels", "judgments", "ann", "smoke", "postgres", "product", "frontier", "scheduler"}

WorldOK ==
  /\ DOMAIN world = WorldSource
  /\ world.decisions = absent \/ world.decisions \in Seq(Line)
  /\ world.ledger \subseteq Artwork
  /\ world.product \in Telemetry

(* How far the build is, and what moved since its first step.              *)
BuildOK ==
  /\ step \in 0..Len(Steps)
  /\ DOMAIN read = StepName

Done(s) == \E i \in 1..step : Steps[i] = s
Still(sources) == moved \intersect sources = {}
WorksStill == Still({"catalog", "works"}) /\ world.catalog = "ok"

(* What was read of a source that stands still is what it holds. A file is *)
(* opened if it was found.                                                 *)
CatalogSeen ==
  /\ \A s \in Statements :
       Done(s) /\ Still({"catalog"}) => (read[s] = unreadable <=> world.catalog # "ok")
  /\ WorksStill /\ Done("searchable")
       => read["searchable"] = [all |-> Cardinality(Searchable(world.works)),
                                unreviewed |-> Cardinality(Unreviewed(world.works))]
  /\ WorksStill /\ Done("complete") => read["complete"] = Cardinality(Complete(world.works))
  /\ WorksStill /\ Done("eligible") => read["eligible"] = Cardinality(Eligible(world.works))
  /\ WorksStill /\ Still({"ledger"}) /\ Done("ledger")
       => read["ledger"] = Cardinality(world.ledger)

FilesSeen ==
  \A f \in Found :
    Still({f}) => /\ step >= 1 => (f \in read["sources"] <=> world[f] # absent)
                  /\ Done(f) => read[f] = world[f]
LabelsSeen == Done("labels") /\ Still({"catalog", "labels"}) => read["labels"] = LabelsRead

PostgresSeen ==
  /\ Done("product") /\ Still({"postgres"})
       => IF world.postgres = "online" THEN read["product"] \in Telemetry
          ELSE read["product"] = world.postgres
  /\ Done("frontier") /\ Still({"postgres", "frontier"}) => read["frontier"] = FrontierRead

(* Whether there is an index at all is settled by the configuration.       *)
IndexSeen ==
  /\ \A s \in {"collection", "aliases"} : Done(s) =>
       /\ read[s].status = "disabled" <=> world.endpoint = "disabled"
       /\ Still({"endpoint"}) => read[s].status = world.endpoint
  /\ Done("collection") /\ Still({"points"})
       => read["collection"].points = Cardinality(world.points)
  /\ Done("aliases") /\ Still({"alias"}) => read["aliases"].target = world.alias

Servable == Cardinality(Eligible(world.works))
EligibleRead == Done("eligible") /\ read["eligible"] # unreadable
LedgerRead == Done("ledger") /\ read["ledger"] # unreadable
Agreed ==
  /\ ~Built /\ EligibleRead
       => /\ "points" \notin differed =>
               read["eligible"] = Servable /\ Cardinality(world.points) = Servable
          /\ "ledger" \notin differed =>
               read["eligible"] = Servable /\ Cardinality(world.ledger) = Servable
  /\ ~Built /\ Done("collection") /\ "points" \notin differed
       => read["collection"].points = Servable /\ Cardinality(world.points) = Servable
  /\ ~Built /\ LedgerRead /\ "ledger" \notin differed
       => read["ledger"] = Servable /\ Cardinality(world.ledger) = Servable
  /\ EligibleRead /\ Done("collection") /\ "points" \notin differed
       => read["collection"].points = read["eligible"]
  /\ EligibleRead /\ LedgerRead /\ "ledger" \notin differed
       => read["ledger"] = read["eligible"]

ReportInv ==
  /\ WorldOK /\ BuildOK
  /\ CatalogSeen /\ FilesSeen /\ LabelsSeen /\ PostgresSeen /\ IndexSeen
  /\ Agreed

-----------------------------------------------------------------------------
(* The literal steps: the sources are looked for first.                    *)
LEMMA StepsAre ==
  /\ Steps[1] = "sources" /\ Len(Steps) = 17 /\ \A i \in 1..17 : Steps[i] \in StepName
  /\ StepName =
       {"sources", "searchable", "complete", "ledger", "operations", "eligible", "decisions",
        "evaluation", "labels", "judgments", "ann", "product", "frontier", "smoke",
        "collection", "aliases", "scheduler"}
  /\ \A s \in StepName : \E i \in 1..17 : Steps[i] = s
<1>1. Len(Steps) = 17 /\ DOMAIN Steps = 1..17 /\ Steps[1] = "sources"
  BY DEF Steps
<1>2. StepName = {Steps[i] : i \in 1..17}
  BY <1>1 DEF StepName, ToSet
<1>3. \A i \in 1..17 : i \in {1, 2, 3, 4, 5, 6, 7, 8, 9, 10, 11, 12, 13, 14, 15, 16, 17}
  OBVIOUS
<1>4. StepName =
       {"sources", "searchable", "complete", "ledger", "operations", "eligible", "decisions",
        "evaluation", "labels", "judgments", "ann", "product", "frontier", "smoke",
        "collection", "aliases", "scheduler"}
  BY <1>2, <1>3 DEF Steps
<1> QED
  BY <1>1, <1>2, <1>4

(* A catalog that answers gives counts, never the mark of a failed read.   *)
LEMMA CountsAreNumbers ==
  ASSUME NEW w
  PROVE  /\ Cardinality(Searchable(w)) \in Nat /\ Cardinality(Unreviewed(w)) \in Nat
         /\ Cardinality(Complete(w)) \in Nat /\ Cardinality(Eligible(w)) \in Nat
         /\ IsFiniteSet(Unreviewed(w)) /\ IsFiniteSet(Eligible(w))
<1>1. /\ Searchable(w) \subseteq Artwork /\ Unreviewed(w) \subseteq Artwork
      /\ Complete(w) \subseteq Artwork /\ Eligible(w) \subseteq Artwork
  BY DEF Searchable, Unreviewed, Complete, Eligible
<1>2. \A S : S \subseteq Artwork => IsFiniteSet(S) /\ Cardinality(S) \in Nat
  BY ArtworkAssumption, FS_Subset, FS_CardinalityType
<1> QED
  BY <1>1, <1>2

LEMMA CountedIs ==
  ASSUME WorldOK
  PROVE  /\ Counted("searchable") = [all |-> Cardinality(Searchable(world.works)),
                                     unreviewed |-> Cardinality(Unreviewed(world.works))]
         /\ Counted("complete") = Cardinality(Complete(world.works))
         /\ Counted("ledger") = Cardinality(world.ledger)
         /\ Counted("eligible") = Cardinality(Eligible(world.works))
         /\ \A s \in Statements : Counted(s) # unreadable
<1>1. /\ Counted("searchable") = [all |-> Cardinality(Searchable(world.works)),
                                  unreviewed |-> Cardinality(Unreviewed(world.works))]
      /\ Counted("complete") = Cardinality(Complete(world.works))
      /\ Counted("ledger") = Cardinality(world.ledger)
      /\ Counted("operations") = "shown"
      /\ Counted("eligible") = Cardinality(Eligible(world.works))
  BY DEF Counted
<1>2. Cardinality(world.ledger) \in Nat
  BY ArtworkAssumption, FS_Subset, FS_CardinalityType DEF WorldOK
<1>3. \A n \in Nat : n # unreadable
  BY MarkersAssumption
<1>4. \A n \in Nat, k \in Nat : [all |-> n, unreviewed |-> k] # unreadable
  BY MarkersAssumption
<1>5. "shown" # unreadable
  BY MarkersAssumption
<1>6. \A s \in Statements : Counted(s) # unreadable
  <2>1. Counted("searchable") # unreadable
    BY <1>1, <1>4, CountsAreNumbers
  <2>2. Counted("complete") # unreadable /\ Counted("eligible") # unreadable
    BY <1>1, <1>3, CountsAreNumbers
  <2>3. Counted("ledger") # unreadable /\ Counted("operations") # unreadable
    BY <1>1, <1>2, <1>3, <1>5
  <2> QED
    BY <2>1, <2>2, <2>3 DEF Statements
<1> QED
  BY <1>1, <1>6

(* What each step reads.                                                   *)
LEMMA SeenIs ==
  /\ Seen("sources") = SourcesFound
  /\ \A s \in Statements : Seen(s) = IF world.catalog = "ok" THEN Counted(s) ELSE unreadable
  /\ \A f \in Found : Seen(f) = FileRead(f)
  /\ Seen("labels") = LabelsRead
  /\ Seen("product") = ProductRead /\ Seen("frontier") = FrontierRead
  /\ Seen("collection") = [status |-> world.endpoint, points |-> Cardinality(world.points)]
  /\ Seen("aliases") = [status |-> world.endpoint, target |-> world.alias]
<1>1. /\ Seen("sources") = SourcesFound
      /\ Seen("labels") = LabelsRead
      /\ Seen("product") = ProductRead /\ Seen("frontier") = FrontierRead
  BY DEF Seen, Found, Statements
<1>2. /\ Seen("collection") = [status |-> world.endpoint, points |-> Cardinality(world.points)]
      /\ Seen("aliases") = [status |-> world.endpoint, target |-> world.alias]
  BY DEF Seen, Found, Statements, IndexRead
<1>3. \A s \in Statements : Seen(s) = IF world.catalog = "ok" THEN Counted(s) ELSE unreadable
  <2>. SUFFICES ASSUME NEW s \in Statements
                PROVE  Seen(s) = IF world.catalog = "ok" THEN Counted(s) ELSE unreadable
    OBVIOUS
  <2>1. s # "sources"
    BY DEF Statements
  <2>2. /\ s \notin Found
        /\ s \notin {"labels", "product", "frontier", "collection", "aliases", "scheduler"}
    BY DEF Found, Statements
  <2> QED
    BY <2>1, <2>2 DEF Seen
<1>4. \A f \in Found : Seen(f) = FileRead(f)
  BY DEF Seen, Found, Statements
<1> QED
  BY <1>1, <1>2, <1>3, <1>4

(* Reading records what the source is now, and nothing is forgotten.       *)
LEMMA ReadNextEffect ==
  ASSUME ReportInv, ReadNext
  PROVE  /\ step \in 0..16 /\ step' = step + 1 /\ DOMAIN read' = StepName
         /\ UNCHANGED <<world, moved, changes>>
         /\ \A s \in StepName :
              read'[s] = IF s = Steps[step + 1] THEN Seen(s) ELSE read[s]
         /\ \A s \in StepName : Done(s)' <=> Done(s) \/ s = Steps[step + 1]
         /\ \A c \in {"points", "ledger"} :
              c \notin differed' => c \notin differed /\ Cardinality(world[c]) = Servable
<1>1. step \in 0..16 /\ step' = step + 1 /\ UNCHANGED <<world, moved, changes>>
  BY StepsAre DEF ReportInv, BuildOK, ReadNext, Built
<1>2. Steps[step + 1] \in StepName
  BY <1>1, StepsAre
<1>3. /\ DOMAIN read' = StepName
      /\ \A s \in StepName :
              read'[s] = IF s = Steps[step + 1] THEN Seen(s) ELSE read[s]
  BY <1>2 DEF ReportInv, BuildOK, ReadNext
<1>4. \A s \in StepName : Done(s)' <=> Done(s) \/ s = Steps[step + 1]
  <2>. SUFFICES ASSUME NEW s \in StepName
                PROVE  Done(s)' <=> Done(s) \/ s = Steps[step + 1]
    OBVIOUS
  <2>1. \A i : i \in 1..(step + 1) <=> i \in 1..step \/ i = step + 1
    BY <1>1
  <2> QED
    BY <1>1, <2>1 DEF Done, Steps
<1>5. \A c \in {"points", "ledger"} :
        c \notin differed' => c \notin differed /\ Cardinality(world[c]) = Servable
  BY DEF ReadNext, Differ, Servable
<1> QED
  BY <1>1, <1>3, <1>4, <1>5

(* A step of the build keeps each part of the invariant.                   *)
LEMMA ReadNextKeepsCatalog ==
  ASSUME ReportInv, ReadNext
  PROVE  CatalogSeen'
<1>. USE DEF ReportInv
<1>1. UNCHANGED world /\ (\A S : Still(S)' <=> Still(S))
  BY ReadNextEffect DEF Still
<1>2. \A s \in StepName :
        /\ read'[s] = Seen(s) \/ (read'[s] = read[s] /\ (Done(s)' => Done(s)))
  BY ReadNextEffect
<1>3. Statements \subseteq StepName
  BY StepsAre DEF Statements
<1>4. \A s \in Statements :
        Done(s)' /\ Still({"catalog"})' => (read'[s] = unreadable <=> world'.catalog # "ok")
  BY <1>1, <1>2, <1>3, SeenIs, CountedIs DEF CatalogSeen
<1>5. world.catalog = "ok" => \A s \in Statements : Seen(s) = Counted(s)
  BY SeenIs
<1>6. WorksStill' /\ Done("searchable")'
       => read'["searchable"] = [all |-> Cardinality(Searchable(world.works)),
                                unreviewed |-> Cardinality(Unreviewed(world.works))]
  <2>1. "searchable" \in Statements
    BY DEF Statements
  <2> QED
    BY <1>1, <1>2, <1>3, <1>5, <2>1, CountedIs DEF CatalogSeen, WorksStill
<1>7. WorksStill' /\ Done("complete")' => read'["complete"] = Cardinality(Complete(world.works))
  <2>1. "complete" \in Statements
    BY DEF Statements
  <2> QED
    BY <1>1, <1>2, <1>3, <1>5, <2>1, CountedIs DEF CatalogSeen, WorksStill
<1>8. WorksStill' /\ Done("eligible")' => read'["eligible"] = Cardinality(Eligible(world.works))
  <2>1. "eligible" \in Statements
    BY DEF Statements
  <2> QED
    BY <1>1, <1>2, <1>3, <1>5, <2>1, CountedIs DEF CatalogSeen, WorksStill
<1>9. WorksStill' /\ Still({"ledger"})' /\ Done("ledger")'
        => read'["ledger"] = Cardinality(world.ledger)
  <2>1. "ledger" \in Statements
    BY DEF Statements
  <2> QED
    BY <1>1, <1>2, <1>3, <1>5, <2>1, CountedIs DEF CatalogSeen, WorksStill
<1> QED
  BY <1>1, <1>4, <1>6, <1>7, <1>8, <1>9 DEF CatalogSeen

LEMMA ReadNextKeepsFiles ==
  ASSUME ReportInv, ReadNext
  PROVE  FilesSeen' /\ LabelsSeen'
<1>. USE DEF ReportInv
<1>1. UNCHANGED world /\ (\A S : Still(S)' <=> Still(S))
  BY ReadNextEffect DEF Still
<1>2. \A s \in StepName :
        /\ read'[s] = Seen(s) \/ (read'[s] = read[s] /\ (Done(s)' => Done(s)))
  BY ReadNextEffect
<1>3. Found \subseteq StepName /\ "sources" \in StepName /\ "labels" \in StepName
      /\ "sources" \notin Found
  BY StepsAre DEF Found
<1>4. FilesSeen'
  <2>. SUFFICES ASSUME NEW f \in Found, Still({f})
                PROVE  /\ f \in read'["sources"] <=> world[f] # absent
                       /\ Done(f)' => read'[f] = world[f]
    BY <1>1 DEF FilesSeen
  <2>1. f \in SourcesFound <=> world[f] # absent
    BY DEF SourcesFound
  <2>2. CASE step = 0
    <3>1. read'["sources"] = SourcesFound
      BY <2>2, <1>3, ReadNextEffect, SeenIs, StepsAre
    <3>2. ~Done(f)'
      <4>1. ~Done(f)
        BY <2>2 DEF Done
      <4>2. f \in StepName /\ f # Steps[step + 1]
        BY <2>2, <1>3, StepsAre
      <4> QED
        BY <4>1, <4>2, ReadNextEffect
    <3> QED
      BY <2>1, <3>1, <3>2
  <2>3. CASE step # 0
    <3>1. f \in read["sources"] <=> world[f] # absent
      BY <2>3, ReadNextEffect DEF FilesSeen
    <3>2. read'["sources"] = SourcesFound \/ read'["sources"] = read["sources"]
      BY <1>2, <1>3, SeenIs
    <3>3. Seen(f) = world[f]
      BY <3>1, SeenIs DEF FileRead
    <3> QED
      BY <1>2, <1>3, <2>1, <3>1, <3>2, <3>3 DEF FilesSeen
  <2> QED
    BY <2>2, <2>3
<1>5. LabelsSeen'
  BY <1>1, <1>2, <1>3, SeenIs DEF LabelsSeen, LabelsRead
<1> QED
  BY <1>4, <1>5

LEMMA ReadNextKeepsServices ==
  ASSUME ReportInv, ReadNext
  PROVE  PostgresSeen' /\ IndexSeen'
<1>. USE DEF ReportInv
<1>1. UNCHANGED world /\ (\A S : Still(S)' <=> Still(S))
  BY ReadNextEffect DEF Still
<1>2. \A s \in StepName :
        /\ read'[s] = Seen(s) \/ (read'[s] = read[s] /\ (Done(s)' => Done(s)))
  BY ReadNextEffect
<1>3. {"product", "frontier", "collection", "aliases"} \subseteq StepName
  BY StepsAre
<1>4. PostgresSeen'
  <2>1. Done("product")' /\ Still({"postgres"})'
          => IF world.postgres = "online" THEN read'["product"] \in Telemetry
             ELSE read'["product"] = world.postgres
    BY <1>1, <1>2, <1>3, SeenIs DEF PostgresSeen, WorldOK, ProductRead
  <2>2. Done("frontier")' /\ Still({"postgres", "frontier"})' => read'["frontier"] = FrontierRead
    BY <1>1, <1>2, <1>3, SeenIs DEF PostgresSeen
  <2>3. FrontierRead' = FrontierRead
    BY <1>1 DEF FrontierRead
  <2> QED
    BY <1>1, <2>1, <2>2, <2>3 DEF PostgresSeen
<1>5. IndexSeen'
  BY <1>1, <1>2, <1>3, SeenIs DEF IndexSeen
<1> QED
  BY <1>4, <1>5

LEMMA ReadNextKeepsAgreed ==
  ASSUME ReportInv, ReadNext
  PROVE  Agreed'
<1>. USE DEF ReportInv
<1>1. UNCHANGED world /\ Servable' = Servable /\ ~Built
  BY ReadNextEffect DEF Servable, ReadNext
<1>2. {"eligible", "ledger", "collection"} \subseteq StepName
  BY StepsAre
<1>3. "points" \notin differed' => "points" \notin differed /\ Cardinality(world.points) = Servable
  BY ReadNextEffect
<1>4. "ledger" \notin differed' => "ledger" \notin differed /\ Cardinality(world.ledger) = Servable
  BY ReadNextEffect
<1>5. EligibleRead' => \/ read'["eligible"] = Servable
                       \/ EligibleRead /\ read'["eligible"] = read["eligible"]
  <2>1. "eligible" \in Statements
    BY DEF Statements
  <2> QED
    BY <1>2, <2>1, ReadNextEffect, SeenIs, CountedIs DEF EligibleRead, Servable
<1>6. LedgerRead' => \/ read'["ledger"] = Cardinality(world.ledger)
                     \/ LedgerRead /\ read'["ledger"] = read["ledger"]
  <2>1. "ledger" \in Statements
    BY DEF Statements
  <2> QED
    BY <1>2, <2>1, ReadNextEffect, SeenIs, CountedIs DEF LedgerRead
<1>7. Done("collection")' =>
        \/ read'["collection"].points = Cardinality(world.points)
        \/ Done("collection") /\ read'["collection"] = read["collection"]
  BY <1>2, ReadNextEffect, SeenIs
<1>8. "points" \notin differed' /\ EligibleRead' => read'["eligible"] = Servable
  BY <1>1, <1>3, <1>5 DEF Agreed
<1>9. "ledger" \notin differed' /\ EligibleRead' => read'["eligible"] = Servable
  BY <1>1, <1>4, <1>5 DEF Agreed
<1>10. "points" \notin differed' /\ Done("collection")' => read'["collection"].points = Servable
  BY <1>1, <1>3, <1>7 DEF Agreed
<1>11. "ledger" \notin differed' /\ LedgerRead' => read'["ledger"] = Servable
  BY <1>1, <1>4, <1>6 DEF Agreed
<1> QED
  BY <1>1, <1>3, <1>4, <1>8, <1>9, <1>10, <1>11 DEF Agreed

-----------------------------------------------------------------------------
(* One source changes; from the first step on it is a source that moved.   *)
LEMMA ChangeEffect ==
  ASSUME ReportInv, NEW source \in DOMAIN world, Change(source)
  PROVE  /\ UNCHANGED <<read, step>> /\ WorldOK'
         /\ \A x \in WorldSource \ {source} : world'[x] = world[x]
         /\ world'.endpoint = "disabled" <=> world.endpoint = "disabled"
         /\ step # 0 => moved' = moved \union {source}
         /\ step # 0 /\ ~Built =>
              \A c \in {"points", "ledger"} :
                c \notin differed' => c \notin differed /\ Cardinality(world'[c]) = Servable'
         /\ step = 0 \/ Built => differed' = differed
<1>. USE DEF ReportInv
<1>1. UNCHANGED <<read, step>> /\ (step # 0 => moved' = moved \union {source})
  BY DEF Change
<1>2. PICK value \in Becomes(source) : world' = [world EXCEPT ![source] = value]
  BY DEF Change
<1>3. /\ DOMAIN world' = WorldSource /\ world'[source] = value
      /\ \A x \in WorldSource \ {source} : world'[x] = world[x]
  BY <1>2 DEF WorldOK
<1>4. WorldOK'
  <2>1. CASE source = "decisions"
    <3>1. \A l \in Line : <<l>> \in Seq(Line)
      OBVIOUS
    <3>2. \A l \in Line, lines \in Seq(Line) : Append(lines, l) \in Seq(Line)
      OBVIOUS
    <3>3. value \in Seq(Line)
      BY <1>2, <2>1, <3>1, <3>2 DEF Becomes, WorldOK
    <3> QED
      BY <1>3, <2>1, <3>3 DEF WorldOK, WorldSource
  <2>2. CASE source = "ledger"
    <3>1. Becomes("ledger") = IF world.catalog = "ok" THEN OneMoreOrLess(world.ledger) ELSE {}
      BY DEF Becomes
    <3>2. value \subseteq Artwork
      BY <1>2, <2>2, <3>1 DEF OneMoreOrLess, WorldOK
    <3> QED
      BY <1>3, <2>2, <3>2 DEF WorldOK, WorldSource
  <2>3. CASE source = "product"
    <3>1. Becomes("product") = Telemetry
      BY DEF Becomes
    <3> QED
      BY <1>2, <1>3, <2>3, <3>1 DEF WorldOK, WorldSource
  <2>4. CASE source \notin {"decisions", "ledger", "product"}
    BY <1>3, <2>4 DEF WorldOK, WorldSource
  <2> QED
    BY <2>1, <2>2, <2>3, <2>4
<1>5. world'.endpoint = "disabled" <=> world.endpoint = "disabled"
  <2>1. CASE source = "endpoint"
    <3>1. Becomes("endpoint") =
            IF IndexUp(world) \/ world.endpoint = "offline"
              THEN {"offline", "green", "yellow", "red"} ELSE {}
      BY DEF Becomes
    <3>2. value # "disabled" /\ world.endpoint # "disabled"
      BY <1>2, <2>1, <3>1 DEF IndexUp
    <3> QED
      BY <1>3, <2>1, <3>2
  <2>2. CASE source # "endpoint"
    BY <1>3, <2>2 DEF WorldSource
  <2> QED
    BY <2>1, <2>2
<1>6. step # 0 /\ ~Built =>
        \A c \in {"points", "ledger"} :
          c \notin differed' => c \notin differed /\ Cardinality(world'[c]) = Servable'
  BY DEF Change, Differ, Servable
<1>7. step = 0 \/ Built => differed' = differed
  BY DEF Change
<1> QED
  BY <1>1, <1>3, <1>4, <1>5, <1>6, <1>7

(* What a source was read as concerns the others only if it moved.         *)
LEMMA ChangeKeepsSeen ==
  ASSUME ReportInv, NEW source \in DOMAIN world, Change(source)
  PROVE  CatalogSeen' /\ FilesSeen' /\ LabelsSeen' /\ PostgresSeen' /\ IndexSeen'
<1>. USE DEF ReportInv
<1>1. \A s : Done(s)' <=> Done(s)
  BY ChangeEffect DEF Done
<1>2. CASE step = 0
  <2>1. \A s : ~Done(s)'
    BY <1>1, <1>2 DEF Done
  <2>2. step' = 0
    BY <1>2, ChangeEffect
  <2>3. CatalogSeen' /\ LabelsSeen' /\ PostgresSeen' /\ IndexSeen'
    BY <2>1 DEF CatalogSeen, LabelsSeen, PostgresSeen, IndexSeen
  <2>4. FilesSeen'
    BY <2>1, <2>2 DEF FilesSeen
  <2> QED
    BY <2>3, <2>4
<1>3. CASE step # 0
  <2>1. \A S : Still(S)' => Still(S) /\ source \notin S
    BY <1>3, ChangeEffect DEF Still
  <2>2. \A x \in WorldSource : source # x => world'[x] = world[x]
    BY ChangeEffect
  <2>3. read' = read /\ step' = step
    BY ChangeEffect
  <2>4. CatalogSeen'
    <3>1. Still({"catalog"})' => Still({"catalog"}) /\ world'.catalog = world.catalog
      BY <2>1, <2>2 DEF WorldSource
    <3>2. WorksStill' => WorksStill /\ world'.works = world.works
      BY <2>1, <2>2 DEF WorldSource, WorksStill
    <3>3. Still({"ledger"})' => Still({"ledger"}) /\ world'.ledger = world.ledger
      BY <2>1, <2>2 DEF WorldSource
    <3> QED
      BY <1>1, <2>3, <3>1, <3>2, <3>3 DEF CatalogSeen
  <2>5. FilesSeen'
    BY <1>1, <2>1, <2>2, <2>3 DEF FilesSeen, Found, WorldSource
  <2>6. LabelsSeen'
    <3>1. Still({"catalog", "labels"})' =>
            Still({"catalog", "labels"}) /\ world'.catalog = world.catalog
            /\ world'.labels = world.labels
      BY <2>1, <2>2 DEF WorldSource
    <3> QED
      BY <1>1, <2>3, <3>1 DEF LabelsSeen, LabelsRead
  <2>7. PostgresSeen'
    <3>1. Still({"postgres"})' => Still({"postgres"}) /\ world'.postgres = world.postgres
      BY <2>1, <2>2 DEF WorldSource
    <3>2. Still({"postgres", "frontier"})' =>
            /\ Still({"postgres", "frontier"})
            /\ world'.postgres = world.postgres /\ world'.frontier = world.frontier
      BY <2>1, <2>2 DEF WorldSource
    <3> QED
      BY <1>1, <2>3, <3>1, <3>2 DEF PostgresSeen, FrontierRead
  <2>8. IndexSeen'
    <3>1. Still({"endpoint"})' => Still({"endpoint"}) /\ world'.endpoint = world.endpoint
      BY <2>1, <2>2 DEF WorldSource
    <3>2. Still({"points"})' => Still({"points"}) /\ world'.points = world.points
      BY <2>1, <2>2 DEF WorldSource
    <3>3. Still({"alias"})' => Still({"alias"}) /\ world'.alias = world.alias
      BY <2>1, <2>2 DEF WorldSource
    <3> QED
      BY <1>1, <2>3, <3>1, <3>2, <3>3, ChangeEffect DEF IndexSeen
  <2> QED
    BY <2>4, <2>5, <2>6, <2>7, <2>8
<1> QED
  BY <1>2, <1>3

(* Of the catalog and the index one side changes at a time: where they     *)
(* still agree, the count that was read is still the count of both.        *)
LEMMA ChangeKeepsAgreed ==
  ASSUME ReportInv, NEW source \in DOMAIN world, Change(source)
  PROVE  Agreed'
<1>. USE DEF ReportInv
<1>1. /\ \A s : Done(s)' <=> Done(s)
      /\ read' = read /\ (Built' <=> Built)
  BY ChangeEffect DEF Done, Built
<1>2. (EligibleRead' <=> EligibleRead) /\ (LedgerRead' <=> LedgerRead)
  BY <1>1 DEF EligibleRead, LedgerRead
<1>3. CASE step = 0
  <2>1. \A s : ~Done(s)'
    BY <1>1, <1>3 DEF Done
  <2> QED
    BY <2>1 DEF Agreed, EligibleRead, LedgerRead
<1>4. CASE Built
  <2>1. differed' = differed
    BY <1>4, ChangeEffect
  <2> QED
    BY <1>1, <1>2, <1>4, <2>1 DEF Agreed
<1>5. CASE step # 0 /\ ~Built
  <2>1. "points" \notin differed' =>
          /\ "points" \notin differed /\ Cardinality(world'.points) = Servable'
          /\ source = "points" => Servable' = Servable
          /\ source # "points" => world'.points = world.points
    <3>1. source = "points" => world'.works = world.works
      BY ChangeEffect DEF WorldSource
    <3>2. source # "points" => world'.points = world.points
      BY ChangeEffect DEF WorldSource
    <3> QED
      BY <1>5, <3>1, <3>2, ChangeEffect DEF Servable
  <2>2. "ledger" \notin differed' =>
          /\ "ledger" \notin differed /\ Cardinality(world'.ledger) = Servable'
          /\ source = "ledger" => Servable' = Servable
          /\ source # "ledger" => world'.ledger = world.ledger
    <3>1. source = "ledger" => world'.works = world.works
      BY ChangeEffect DEF WorldSource
    <3>2. source # "ledger" => world'.ledger = world.ledger
      BY ChangeEffect DEF WorldSource
    <3> QED
      BY <1>5, <3>1, <3>2, ChangeEffect DEF Servable
  <2> QED
    BY <1>1, <1>2, <1>5, <2>1, <2>2 DEF Agreed
<1> QED
  BY <1>3, <1>4, <1>5

(* Before its first step a build has read nothing.                         *)
LEMMA RebuildKeeps ==
  ASSUME ReportInv, Rebuild
  PROVE  ReportInv'
<1>. USE DEF ReportInv
<1>1. step' = 0 /\ read' = Unread /\ world' = world
  BY DEF Rebuild
<1>2. \A s : ~Done(s)'
  BY <1>1 DEF Done
<1>3. WorldOK' /\ BuildOK'
  <2>1. WorldOK'
    BY <1>1 DEF WorldOK
  <2>2. step' \in 0..Len(Steps) /\ DOMAIN read' = StepName
    BY <1>1, StepsAre DEF Unread
  <2> QED
    BY <2>1, <2>2 DEF BuildOK
<1>4. CatalogSeen' /\ LabelsSeen' /\ PostgresSeen' /\ IndexSeen'
  BY <1>2 DEF CatalogSeen, LabelsSeen, PostgresSeen, IndexSeen
<1>5. FilesSeen'
  BY <1>1, <1>2 DEF FilesSeen
<1>6. Agreed'
  BY <1>2 DEF Agreed, EligibleRead, LedgerRead
<1> QED
  BY <1>3, <1>4, <1>5, <1>6

LEMMA InitReportInv == MonitorInit => ReportInv
<1>. SUFFICES ASSUME MonitorInit PROVE ReportInv
  OBVIOUS
<1>1. step = 0 /\ read = Unread
  BY DEF MonitorInit
<1>2. PICK e, p : world = Installed(e) \/ world = InService(e, p)
  BY DEF MonitorInit
<1>3. WorldOK
  <2>1. CASE world = Installed(e)
    <3>1. /\ DOMAIN Installed(e) = WorldSource /\ Installed(e).decisions = absent
          /\ Installed(e).ledger = {} /\ Installed(e).product = "unrated"
      BY DEF Installed, WorldSource
    <3> QED
      BY <2>1, <3>1 DEF WorldOK, Telemetry
  <2>2. CASE world = InService(e, p)
    <3>1. /\ DOMAIN InService(e, p) = WorldSource /\ InService(e, p).decisions = Lines
          /\ InService(e, p).ledger = Artwork /\ InService(e, p).product = "good"
      BY DEF InService, Installed, WorldSource
    <3> QED
      BY <2>2, <3>1, LinesAssumption DEF WorldOK, Telemetry
  <2> QED
    BY <1>2, <2>1, <2>2
<1>4. \A s : ~Done(s)
  BY <1>1 DEF Done
<1>5. BuildOK
  BY <1>1, StepsAre DEF BuildOK, Unread
<1>6. CatalogSeen /\ LabelsSeen /\ PostgresSeen /\ IndexSeen
  BY <1>4 DEF CatalogSeen, LabelsSeen, PostgresSeen, IndexSeen
<1>7. FilesSeen
  BY <1>1, <1>4 DEF FilesSeen
<1>8. Agreed
  BY <1>4 DEF Agreed, EligibleRead, LedgerRead
<1> QED
  BY <1>3, <1>5, <1>6, <1>7, <1>8 DEF ReportInv

(* Every step keeps the invariant.                                         *)
LEMMA MonitorStepKeeps ==
  ASSUME ReportInv, [MonitorNext]_monitorVars
  PROVE  ReportInv'
<1>1. CASE Rebuild
  BY <1>1, RebuildKeeps
<1>2. CASE ReadNext
  <2>1. UNCHANGED world /\ step \in 0..16 /\ step' = step + 1 /\ DOMAIN read' = StepName
    BY <1>2, ReadNextEffect
  <2>2. WorldOK'
    BY <2>1 DEF ReportInv, WorldOK
  <2>3. BuildOK'
    BY <2>1, StepsAre DEF BuildOK
  <2> QED
    BY <1>2, <2>2, <2>3, ReadNextKeepsCatalog, ReadNextKeepsFiles, ReadNextKeepsServices,
       ReadNextKeepsAgreed DEF ReportInv
<1>3. CASE \E source \in DOMAIN world : Change(source)
  <2>1. PICK source \in DOMAIN world : Change(source)
    BY <1>3
  <2>2. WorldOK' /\ UNCHANGED <<read, step>>
    BY <2>1, ChangeEffect
  <2>3. BuildOK'
    BY <2>2 DEF ReportInv, BuildOK
  <2> QED
    BY <2>1, <2>2, <2>3, ChangeKeepsSeen, ChangeKeepsAgreed DEF ReportInv
<1>4. CASE UNCHANGED monitorVars
  BY <1>4 DEF monitorVars, ReportInv, WorldOK, BuildOK, CatalogSeen, FilesSeen, LabelsSeen,
     PostgresSeen, IndexSeen, Agreed, Done, Still, WorksStill, LabelsRead, FrontierRead,
     Servable, EligibleRead, LedgerRead, Built
<1> QED
  BY <1>1, <1>2, <1>3, <1>4 DEF MonitorNext

-----------------------------------------------------------------------------
(* What a set of alerts tells an operator: a remark is not told.           *)
Tells(alerts, f) == \E a \in alerts : a.id = f /\ a.severity # "info"
Told == {a.id : a \in {a \in Alerts : a.severity # "info"}}

LEMMA AlertTells ==
  ASSUME NEW alerts, NEW f, NEW severity, [id |-> f, severity |-> severity] \in alerts,
         severity # "info"
  PROVE  Tells(alerts, f)
<1>1. [id |-> f, severity |-> severity].id = f
  OBVIOUS
<1>2. [id |-> f, severity |-> severity].severity = severity
  OBVIOUS
<1> QED
  BY <1>1, <1>2 DEF Tells

LEMMA ToldIs == \A f : f \in Told <=> Tells(Alerts, f)
  BY DEF Told, Tells

LEMMA AlertsTell ==
  ASSUME NEW f
  PROVE  Tells(Alerts, f) <=>
           \/ Tells(SourceAlerts, f) \/ Tells(CatalogAlerts, f) \/ Tells(DecisionAlerts, f)
           \/ Tells(DriftAlerts, f) \/ Tells(EvaluationAlerts, f) \/ Tells(RetrievalAlerts, f)
           \/ Tells(AnnAlerts, f) \/ Tells(ProductAlerts, f) \/ Tells(DiscoveryAlerts, f)
           \/ Tells(IndexAlerts, f)
  BY DEF Tells, Alerts

(* Which alerts a group has; the ones that no fault is about are left open. *)
LEMMA CatalogAndSourcesTell ==
  ASSUME NEW f
  PROVE  /\ Tells(SourceAlerts, f) <=>
              \/ f = "catalog" /\ ~CatalogRead
              \/ f = "source" /\ \E s \in StepName \ Statements : read[s] = unreadable
         /\ Tells(CatalogAlerts, f) <=>
              /\ CatalogRead
              /\ \/ f = "coverage" /\ read["complete"] < read["searchable"].all
                 \/ f = "safety_unknown" /\ read["searchable"].unreviewed > 0
<1>1. Tells(SourceAlerts, f) =>
              \/ f = "catalog" /\ ~CatalogRead
              \/ f = "source" /\ \E s \in StepName \ Statements : read[s] = unreadable
  BY DEF Tells, Alert, SourceAlerts
<1>2. Tells(CatalogAlerts, f) =>
              /\ CatalogRead
              /\ \/ f = "coverage" /\ read["complete"] < read["searchable"].all
                 \/ f = "safety_unknown" /\ read["searchable"].unreviewed > 0
  BY DEF Tells, Alert, CatalogAlerts
<1>3. ~CatalogRead => [id |-> "catalog", severity |-> "critical"] \in SourceAlerts
  BY DEF Alert, SourceAlerts
<1>4. (\E s \in StepName \ Statements : read[s] = unreadable) =>
        [id |-> "source", severity |-> "critical"] \in SourceAlerts
  BY DEF Alert, SourceAlerts
<1>5. CatalogRead /\ read["complete"] < read["searchable"].all =>
        [id |-> "coverage", severity |-> "critical"] \in CatalogAlerts
  BY DEF Alert, CatalogAlerts
<1>6. CatalogRead /\ read["searchable"].unreviewed > 0 =>
        [id |-> "safety_unknown", severity |-> "warning"] \in CatalogAlerts
  BY DEF Alert, CatalogAlerts
<1> QED
  BY <1>1, <1>2, <1>3, <1>4, <1>5, <1>6, AlertTells

ErrorsRead ==
  /\ read["decisions"] \notin Unmeasured
  /\ \E i \in Counting(read["decisions"]) : read["decisions"][i].error

LEMMA DecisionsTell ==
  ASSUME NEW f
  PROVE  /\ Tells(DecisionAlerts, f) => f = "freshness" \/ (f = "error_rate" /\ ErrorsRead)
         /\ ErrorsRead => Tells(DecisionAlerts, "error_rate")
         /\ Tells(DriftAlerts, f) => f = "drift"
<1>1. Tells(DecisionAlerts, f) => f = "freshness" \/ (f = "error_rate" /\ ErrorsRead)
  BY DEF Tells, Alert, DecisionAlerts, ErrorsRead
<1>2. Tells(DriftAlerts, f) => f = "drift"
  BY DEF Tells, Alert, DriftAlerts
<1>3. ErrorsRead => [id |-> "error_rate", severity |-> "critical"] \in DecisionAlerts
  BY DEF Alert, DecisionAlerts, ErrorsRead
<1> QED
  BY <1>1, <1>2, <1>3, AlertTells

LEMMA MeasurementsTell ==
  ASSUME NEW f
  PROVE  /\ Tells(EvaluationAlerts, f) <=>
              \/ f = "evaluation" /\ Evaluation \in Unmeasured
              \/ f = "evaluation_sample" /\ Evaluation = "few"
              \/ f = "evaluation_precision" /\ Evaluation = "poor"
         /\ Tells(RetrievalAlerts, f) <=>
              \/ f = "judgments" /\ read["judgments"] \in Unmeasured \union {"few"}
              \/ f = "judgments_mixed" /\ read["judgments"] = "mixed"
              \/ f = "judgments_precision" /\ read["judgments"] = "poor"
         /\ Tells(AnnAlerts, f) <=>
              \/ f = "ann" /\ read["ann"] \in Unmeasured /\ Count("eligible") # 0
              \/ f = "ann_recall" /\ read["ann"] = "poor"
              \/ f = "smoke" /\ read["smoke"] = "failed"
<1>1. Tells(EvaluationAlerts, f) =>
              \/ f = "evaluation" /\ Evaluation \in Unmeasured
              \/ f = "evaluation_sample" /\ Evaluation = "few"
              \/ f = "evaluation_precision" /\ Evaluation = "poor"
  BY DEF Tells, Alert, EvaluationAlerts
<1>2. Tells(RetrievalAlerts, f) =>
              \/ f = "judgments" /\ read["judgments"] \in Unmeasured \union {"few"}
              \/ f = "judgments_mixed" /\ read["judgments"] = "mixed"
              \/ f = "judgments_precision" /\ read["judgments"] = "poor"
  BY DEF Tells, Alert, RetrievalAlerts
<1>3. Tells(AnnAlerts, f) =>
              \/ f = "ann" /\ read["ann"] \in Unmeasured /\ Count("eligible") # 0
              \/ f = "ann_recall" /\ read["ann"] = "poor"
              \/ f = "smoke" /\ read["smoke"] = "failed"
  BY DEF Tells, Alert, AnnAlerts, Serious
<1>4. /\ Evaluation \in Unmeasured =>
           [id |-> "evaluation", severity |-> "warning"] \in EvaluationAlerts
      /\ Evaluation = "few" =>
           [id |-> "evaluation_sample", severity |-> "warning"] \in EvaluationAlerts
      /\ Evaluation = "poor" =>
           [id |-> "evaluation_precision", severity |-> "critical"] \in EvaluationAlerts
  BY DEF Alert, EvaluationAlerts
<1>5. /\ read["judgments"] \in Unmeasured \union {"few"} =>
           [id |-> "judgments", severity |-> "warning"] \in RetrievalAlerts
      /\ read["judgments"] = "mixed" =>
           [id |-> "judgments_mixed", severity |-> "critical"] \in RetrievalAlerts
      /\ read["judgments"] = "poor" =>
           [id |-> "judgments_precision", severity |-> "warning"] \in RetrievalAlerts
  BY DEF Alert, RetrievalAlerts
<1>6. /\ read["ann"] \in Unmeasured /\ Count("eligible") # 0 =>
           [id |-> "ann", severity |-> "warning"] \in AnnAlerts
      /\ read["ann"] = "poor" => [id |-> "ann_recall", severity |-> "critical"] \in AnnAlerts
      /\ read["smoke"] = "failed" => [id |-> "smoke", severity |-> "critical"] \in AnnAlerts
  BY DEF Alert, AnnAlerts, Serious
<1> QED
  BY <1>1, <1>2, <1>3, <1>4, <1>5, <1>6, AlertTells
LEMMA ServicesTell ==
  ASSUME NEW f
  PROVE  /\ Tells(ProductAlerts, f) =>
              \/ f = "telemetry" /\ read["product"] \in {"unset", "offline"}
              \/ f \in {"search_latency", "search_errors", "feedback_precision", "stage"}
         /\ read["product"] \in {"unset", "offline"} => Tells(ProductAlerts, "telemetry")
         /\ Tells(DiscoveryAlerts, f) <=>
              \/ f = "dead_work" /\ read["frontier"] = "dead"
              \/ f = "removals" /\ read["frontier"] = "removals"
<1>1. Tells(ProductAlerts, f) =>
              \/ f = "telemetry" /\ read["product"] \in {"unset", "offline"}
              \/ f \in {"search_latency", "search_errors", "feedback_precision", "stage"}
  BY DEF Tells, Alert, ProductAlerts
<1>2. read["product"] \in {"unset", "offline"} =>
        [id |-> "telemetry", severity |-> "warning"] \in ProductAlerts
  BY DEF Alert, ProductAlerts
<1>3. Tells(DiscoveryAlerts, f) =>
              \/ f = "dead_work" /\ read["frontier"] = "dead"
              \/ f = "removals" /\ read["frontier"] = "removals"
  BY DEF Tells, Alert, DiscoveryAlerts
<1>4. /\ read["frontier"] = "dead" =>
           [id |-> "dead_work", severity |-> "warning"] \in DiscoveryAlerts
      /\ read["frontier"] = "removals" =>
           [id |-> "removals", severity |-> "warning"] \in DiscoveryAlerts
  BY DEF Alert, DiscoveryAlerts
<1> QED
  BY <1>1, <1>2, <1>3, <1>4, AlertTells

LEMMA IndexTells ==
  ASSUME NEW f
  PROVE  Tells(IndexAlerts, f) <=>
           \/ f = "connectivity" /\ Status \in {"offline", "unset"} /\ Count("eligible") # 0
           \/ f = "unhealthy" /\ Status = "red"
           \/ f = "degraded" /\ Status = "yellow"
           \/ f = "points" /\ Online /\ read["collection"].points # Count("eligible")
           \/ f = "alias" /\ Online /\ read["aliases"].target # "collection"
           \/ f = "ledger" /\ Status # "disabled" /\ Count("ledger") # Count("eligible")
<1>1. Tells(IndexAlerts, f) =>
           \/ f = "connectivity" /\ Status \in {"offline", "unset"} /\ Count("eligible") # 0
           \/ f = "unhealthy" /\ Status = "red"
           \/ f = "degraded" /\ Status = "yellow"
           \/ f = "points" /\ Online /\ read["collection"].points # Count("eligible")
           \/ f = "alias" /\ Online /\ read["aliases"].target # "collection"
           \/ f = "ledger" /\ Status # "disabled" /\ Count("ledger") # Count("eligible")
  BY DEF Tells, Alert, IndexAlerts, Serious
<1>2. /\ Status \in {"offline", "unset"} /\ Count("eligible") # 0 =>
           [id |-> "connectivity", severity |-> "warning"] \in IndexAlerts
      /\ Status = "red" => [id |-> "unhealthy", severity |-> "critical"] \in IndexAlerts
      /\ Status = "yellow" => [id |-> "degraded", severity |-> "warning"] \in IndexAlerts
  BY DEF Alert, IndexAlerts, Serious
<1>3. /\ Online /\ read["collection"].points # Count("eligible") =>
           [id |-> "points", severity |-> "critical"] \in IndexAlerts
      /\ Online /\ read["aliases"].target # "collection" =>
           [id |-> "alias", severity |-> "critical"] \in IndexAlerts
      /\ Status # "disabled" /\ Count("ledger") # Count("eligible") =>
           [id |-> "ledger", severity |-> "warning"] \in IndexAlerts
  BY DEF Alert, IndexAlerts
<1> QED
  BY <1>1, <1>2, <1>3, AlertTells

(* Which of the faults that are watched for the report tells, by what it   *)
(* read.                                                                   *)
LEMMA WatchedIsTold ==
  /\ Tells(Alerts, "catalog") <=> ~CatalogRead
  /\ Tells(Alerts, "coverage")
       <=> CatalogRead /\ read["complete"] < read["searchable"].all
  /\ Tells(Alerts, "safety_unknown") <=> CatalogRead /\ read["searchable"].unreviewed > 0
  /\ Tells(Alerts, "error_rate") <=> ErrorsRead
  /\ Tells(Alerts, "evaluation") <=> Evaluation \in Unmeasured
  /\ Tells(Alerts, "judgments") <=> read["judgments"] \in Unmeasured \union {"few"}
  /\ Tells(Alerts, "ann") <=> read["ann"] \in Unmeasured /\ Count("eligible") # 0
  /\ Tells(Alerts, "smoke") <=> read["smoke"] = "failed"
  /\ Tells(Alerts, "telemetry") <=> read["product"] \in {"unset", "offline"}
  /\ Tells(Alerts, "dead_work") <=> read["frontier"] = "dead"
  /\ Tells(Alerts, "connectivity")
       <=> Status \in {"offline", "unset"} /\ Count("eligible") # 0
  /\ Tells(Alerts, "points") <=> Online /\ read["collection"].points # Count("eligible")
  /\ Tells(Alerts, "alias") <=> Online /\ read["aliases"].target # "collection"
  /\ Tells(Alerts, "ledger") <=> Status # "disabled" /\ Count("ledger") # Count("eligible")
<1>1. /\ Tells(Alerts, "catalog") <=> ~CatalogRead
      /\ Tells(Alerts, "coverage")
           <=> CatalogRead /\ read["complete"] < read["searchable"].all
      /\ Tells(Alerts, "safety_unknown") <=> CatalogRead /\ read["searchable"].unreviewed > 0
  BY AlertsTell, CatalogAndSourcesTell, DecisionsTell, MeasurementsTell, ServicesTell,
     IndexTells
<1>2. /\ Tells(Alerts, "error_rate") <=> ErrorsRead
      /\ Tells(Alerts, "evaluation") <=> Evaluation \in Unmeasured
      /\ Tells(Alerts, "judgments") <=> read["judgments"] \in Unmeasured \union {"few"}
      /\ Tells(Alerts, "ann") <=> read["ann"] \in Unmeasured /\ Count("eligible") # 0
      /\ Tells(Alerts, "smoke") <=> read["smoke"] = "failed"
  BY AlertsTell, CatalogAndSourcesTell, DecisionsTell, MeasurementsTell, ServicesTell,
     IndexTells
<1>3. /\ Tells(Alerts, "telemetry") <=> read["product"] \in {"unset", "offline"}
      /\ Tells(Alerts, "dead_work") <=> read["frontier"] = "dead"
  BY AlertsTell, CatalogAndSourcesTell, DecisionsTell, MeasurementsTell, ServicesTell,
     IndexTells
<1>4. /\ Tells(Alerts, "connectivity")
           <=> Status \in {"offline", "unset"} /\ Count("eligible") # 0
      /\ Tells(Alerts, "points") <=> Online /\ read["collection"].points # Count("eligible")
      /\ Tells(Alerts, "alias") <=> Online /\ read["aliases"].target # "collection"
      /\ Tells(Alerts, "ledger")
           <=> Status # "disabled" /\ Count("ledger") # Count("eligible")
  BY AlertsTell, CatalogAndSourcesTell, DecisionsTell, MeasurementsTell, ServicesTell,
     IndexTells
<1> QED
  BY <1>1, <1>2, <1>3, <1>4
-----------------------------------------------------------------------------
Watched ==
  {"catalog", "coverage", "safety_unknown", "points", "ledger", "alias", "connectivity",
   "error_rate", "evaluation", "judgments", "ann", "smoke", "telemetry", "dead_work"}

(* The faults that are watched for, the sources they concern, and when the *)
(* world has them.                                                         *)
LEMMA WatchedSources ==
  /\ DOMAIN SourcesOf = Watched
  /\ SourcesOf["catalog"] = {}
  /\ SourcesOf["coverage"] = {"works"} /\ SourcesOf["safety_unknown"] = {"works"}
  /\ SourcesOf["points"] = {"works", "points", "endpoint"}
  /\ SourcesOf["ledger"] = {"works", "ledger"}
  /\ SourcesOf["alias"] = {"endpoint", "alias"}
  /\ SourcesOf["connectivity"] = {"works", "endpoint"}
  /\ SourcesOf["error_rate"] = {"decisions"}
  /\ SourcesOf["evaluation"] = {"evaluation", "labels"}
  /\ SourcesOf["judgments"] = {"judgments"}
  /\ SourcesOf["ann"] = {"ann", "works"} /\ SourcesOf["smoke"] = {"smoke"}
  /\ SourcesOf["telemetry"] = {"postgres"} /\ SourcesOf["dead_work"] = {"postgres", "frontier"}
  BY DEF SourcesOf, Watched

ErrorsIn(lines) ==
  /\ lines # absent
  /\ \E i \in DOMAIN lines :
       /\ lines[i].error
       /\ ~\E j \in DOMAIN lines :
             /\ lines[j].image = lines[i].image
             /\ \/ lines[j].at > lines[i].at
                \/ lines[j].at = lines[i].at /\ j > i

LEMMA WatchedFaults ==
  ASSUME NEW w
  PROVE
  /\ "catalog" \in Faults(w) <=> w.catalog # "ok"
  /\ "coverage" \in Faults(w)
       <=> Cardinality(Complete(w.works)) < Cardinality(Searchable(w.works))
  /\ "safety_unknown" \in Faults(w) <=> Unreviewed(w.works) # {}
  /\ "points" \in Faults(w)
       <=> IndexUp(w) /\ Cardinality(w.points) # Cardinality(Eligible(w.works))
  /\ "ledger" \in Faults(w)
       <=> w.endpoint # "disabled" /\ Cardinality(w.ledger) # Cardinality(Eligible(w.works))
  /\ "alias" \in Faults(w) <=> IndexUp(w) /\ w.alias # "collection"
  /\ "connectivity" \in Faults(w)
       <=> w.endpoint \in {"unset", "offline"} /\ Eligible(w.works) # {}
  /\ "error_rate" \in Faults(w) <=> ErrorsIn(w.decisions)
  /\ "evaluation" \in Faults(w) <=> {w.evaluation, w.labels} \subseteq {absent, unreadable}
  /\ "judgments" \in Faults(w) <=> w.judgments \in {absent, unreadable, "few"}
  /\ "ann" \in Faults(w) <=> w.ann \in {absent, unreadable} /\ Eligible(w.works) # {}
  /\ "smoke" \in Faults(w) <=> w.smoke = "failed"
  /\ "telemetry" \in Faults(w) <=> w.postgres \in {"unset", "offline"}
  /\ "dead_work" \in Faults(w) <=> w.postgres = "online" /\ w.frontier = "dead"
<1>1. \A f \in Watched : f \in DOMAIN SourcesOf
  BY WatchedSources
<1>2. /\ "catalog" \in Faults(w) <=> w.catalog # "ok"
      /\ "coverage" \in Faults(w)
           <=> Cardinality(Complete(w.works)) < Cardinality(Searchable(w.works))
      /\ "points" \in Faults(w)
           <=> IndexUp(w) /\ Cardinality(w.points) # Cardinality(Eligible(w.works))
      /\ "ledger" \in Faults(w)
           <=> w.endpoint # "disabled" /\ Cardinality(w.ledger) # Cardinality(Eligible(w.works))
  BY <1>1 DEF Faults, Watched
<1>3. "safety_unknown" \in Faults(w) <=> Unreviewed(w.works) # {}
  BY <1>1 DEF Faults, Watched, Unreviewed
<1>4. /\ "alias" \in Faults(w) <=> IndexUp(w) /\ w.alias # "collection"
      /\ "connectivity" \in Faults(w)
           <=> w.endpoint \in {"unset", "offline"} /\ Eligible(w.works) # {}
  BY <1>1 DEF Faults, Watched
<1>5. "error_rate" \in Faults(w) <=> ErrorsIn(w.decisions)
  BY <1>1 DEF Faults, Watched, ErrorsIn
<1>6. /\ "evaluation" \in Faults(w) <=> {w.evaluation, w.labels} \subseteq {absent, unreadable}
      /\ "judgments" \in Faults(w) <=> w.judgments \in {absent, unreadable, "few"}
      /\ "ann" \in Faults(w) <=> w.ann \in {absent, unreadable} /\ Eligible(w.works) # {}
      /\ "smoke" \in Faults(w) <=> w.smoke = "failed"
  BY <1>1 DEF Faults, Watched
<1>7. /\ "telemetry" \in Faults(w) <=> w.postgres \in {"unset", "offline"}
      /\ "dead_work" \in Faults(w) <=> w.postgres = "online" /\ w.frontier = "dead"
  BY <1>1 DEF Faults, Watched
<1> QED
  BY <1>2, <1>3, <1>4, <1>5, <1>6, <1>7

(* For each fault: the report tells it if and only if the world has it, as *)
(* far as the sources it concerns stood still.                             *)
LEMMA CatalogReadIs ==
  ASSUME ReportInv, Built, Still({"catalog"})
  PROVE  CatalogRead <=> world.catalog = "ok"
<1>1. \A s \in Statements : Done(s)
  BY StepsAre DEF Done, Built, Statements
<1>2. "searchable" \in Statements
  BY DEF Statements
<1> QED
  BY <1>1, <1>2 DEF ReportInv, CatalogSeen, CatalogRead

LEMMA CatalogFaultsTold ==
  ASSUME ReportInv, Built, WorksStill
  PROVE  /\ CatalogRead /\ Count("eligible") = Cardinality(Eligible(world.works))
         /\ Tells(Alerts, "coverage") <=> "coverage" \in Faults(world)
         /\ Tells(Alerts, "safety_unknown") <=> "safety_unknown" \in Faults(world)
         /\ Count("eligible") # 0 <=> Eligible(world.works) # {}
         /\ Still({"ledger"}) => Count("ledger") = Cardinality(world.ledger)
<1>1. \A s \in StepName : Done(s)
  BY StepsAre DEF Done, Built
<1>2. CatalogRead
  BY CatalogReadIs DEF WorksStill, Still
<1>3. /\ read["searchable"] = [all |-> Cardinality(Searchable(world.works)),
                               unreviewed |-> Cardinality(Unreviewed(world.works))]
      /\ read["complete"] = Cardinality(Complete(world.works))
      /\ read["eligible"] = Cardinality(Eligible(world.works))
      /\ Still({"ledger"}) => read["ledger"] = Cardinality(world.ledger)
  BY <1>1, StepsAre DEF ReportInv, CatalogSeen
<1>4. Cardinality(Unreviewed(world.works)) > 0 <=> Unreviewed(world.works) # {}
  BY CountsAreNumbers, FS_EmptySet
<1>5. Cardinality(Eligible(world.works)) # 0 <=> Eligible(world.works) # {}
  BY CountsAreNumbers, FS_EmptySet
<1>6. /\ read["searchable"].all = Cardinality(Searchable(world.works))
      /\ read["searchable"].unreviewed = Cardinality(Unreviewed(world.works))
  BY <1>3
<1>7. Tells(Alerts, "coverage") <=> "coverage" \in Faults(world)
  BY <1>2, <1>3, <1>6, WatchedIsTold, WatchedFaults
<1>8. Tells(Alerts, "safety_unknown") <=> "safety_unknown" \in Faults(world)
  BY <1>2, <1>4, <1>6, WatchedIsTold, WatchedFaults
<1> QED
  BY <1>2, <1>3, <1>5, <1>7, <1>8 DEF Count

LEMMA AliasTold ==
  ASSUME ReportInv, Built, Still({"endpoint", "alias"})
  PROVE  Tells(Alerts, "alias") <=> "alias" \in Faults(world)
<1>1. Done("collection") /\ Done("aliases")
  BY StepsAre DEF Done, Built
<1>2. Still({"alias"}) /\ Still({"endpoint"})
  BY DEF Still
<1>3. Status = world.endpoint /\ read["aliases"].target = world.alias
  BY <1>1, <1>2 DEF ReportInv, IndexSeen, Status
<1> QED
  BY <1>3, WatchedIsTold, WatchedFaults DEF Online, IndexUp

LEMMA IndexFaultsTold ==
  ASSUME ReportInv, Built, WorksStill
  PROVE  /\ Still({"points", "endpoint"}) =>
              (Tells(Alerts, "points") <=> "points" \in Faults(world))
         /\ Still({"ledger"}) => (Tells(Alerts, "ledger") <=> "ledger" \in Faults(world))
         /\ Still({"endpoint"}) =>
              (Tells(Alerts, "connectivity") <=> "connectivity" \in Faults(world))
<1>1. Done("collection") /\ Done("aliases")
  BY StepsAre DEF Done, Built
<1>2. Status = "disabled" <=> world.endpoint = "disabled"
  BY <1>1 DEF ReportInv, IndexSeen, Status
<1>3. Still({"endpoint"}) => Status = world.endpoint
  BY <1>1 DEF ReportInv, IndexSeen, Status
<1>4. Still({"endpoint"}) => (Online <=> IndexUp(world))
  BY <1>3 DEF Online, IndexUp
<1>5. Still({"points", "endpoint"}) => Still({"points"}) /\ Still({"endpoint"})
  BY DEF Still
<1>6. Still({"points"}) => read["collection"].points = Cardinality(world.points)
  BY <1>1 DEF ReportInv, IndexSeen
<1>7. Still({"points", "endpoint"}) =>
              (Tells(Alerts, "points") <=> "points" \in Faults(world))
  BY <1>4, <1>5, <1>6, CatalogFaultsTold, WatchedIsTold, WatchedFaults
<1>8. Still({"ledger"}) => (Tells(Alerts, "ledger") <=> "ledger" \in Faults(world))
  BY <1>2, CatalogFaultsTold, WatchedIsTold, WatchedFaults
<1>9. Still({"endpoint"}) =>
              (Tells(Alerts, "connectivity") <=> "connectivity" \in Faults(world))
  BY <1>3, CatalogFaultsTold, WatchedIsTold, WatchedFaults
<1> QED
  BY <1>7, <1>8, <1>9

(* Of equally new lines the last one counts: the order is total.           *)
LEMMA CountingErrors ==
  ASSUME NEW lines \in Seq(Line)
  PROVE  (\E i \in Counting(lines) : lines[i].error) <=> ErrorsIn(lines)
<1>1. lines # absent
  BY MarkersAssumption
<1>2. DOMAIN lines \subseteq Int /\ \A i \in DOMAIN lines : lines[i].at \in Int
  BY LinesAssumption
<1>3. \A i \in DOMAIN lines, j \in DOMAIN lines :
        ~(lines[j].at < lines[i].at \/ (lines[j].at = lines[i].at /\ j <= i))
          <=> lines[j].at > lines[i].at \/ (lines[j].at = lines[i].at /\ j > i)
  BY <1>2
<1>4. \A i \in DOMAIN lines :
        i \in Counting(lines) <=>
          ~\E j \in DOMAIN lines :
             /\ lines[j].image = lines[i].image
             /\ \/ lines[j].at > lines[i].at
                \/ lines[j].at = lines[i].at /\ j > i
  BY <1>3 DEF Counting
<1>5. Counting(lines) \subseteq DOMAIN lines
  BY DEF Counting
<1> QED
  BY <1>1, <1>4, <1>5 DEF ErrorsIn

LEMMA FileFaultsTold ==
  ASSUME ReportInv, Built
  PROVE  /\ Still({"decisions"}) =>
              (Tells(Alerts, "error_rate") <=> "error_rate" \in Faults(world))
         /\ Still({"judgments"}) => (Tells(Alerts, "judgments") <=> "judgments" \in Faults(world))
         /\ Still({"smoke"}) => (Tells(Alerts, "smoke") <=> "smoke" \in Faults(world))
         /\ Still({"ann"}) /\ WorksStill => (Tells(Alerts, "ann") <=> "ann" \in Faults(world))
         /\ Still({"catalog", "evaluation", "labels"}) /\ world.catalog = "ok" =>
              (Tells(Alerts, "evaluation") <=> "evaluation" \in Faults(world))
<1>1. \A s \in StepName : Done(s)
  BY StepsAre DEF Done, Built
<1>2. Found \subseteq StepName
  BY StepsAre DEF Found
<1>3. \A f \in Found : Still({f}) => read[f] = world[f]
  BY <1>1, <1>2 DEF ReportInv, FilesSeen
<1>4. /\ Still({"decisions"}) => read["decisions"] = world.decisions
      /\ Still({"judgments"}) => read["judgments"] = world.judgments
      /\ Still({"smoke"}) => read["smoke"] = world.smoke
      /\ Still({"ann"}) => read["ann"] = world.ann
      /\ Still({"evaluation"}) => read["evaluation"] = world.evaluation
  BY <1>3 DEF Found
<1>5. Still({"decisions"}) =>
              (Tells(Alerts, "error_rate") <=> "error_rate" \in Faults(world))
  <2>. SUFFICES ASSUME Still({"decisions"}) PROVE ErrorsRead <=> ErrorsIn(world.decisions)
    BY WatchedIsTold, WatchedFaults
  <2>1. CASE world.decisions = absent
    BY <1>4, <2>1 DEF ErrorsRead, ErrorsIn, Unmeasured
  <2>2. CASE world.decisions \in Seq(Line)
    <3>1. world.decisions \notin Unmeasured
      BY <2>2, MarkersAssumption DEF Unmeasured
    <3> QED
      BY <1>4, <2>2, <3>1, CountingErrors DEF ErrorsRead
  <2> QED
    BY <2>1, <2>2 DEF ReportInv, WorldOK
<1>6. Still({"judgments"}) => (Tells(Alerts, "judgments") <=> "judgments" \in Faults(world))
  BY <1>4, WatchedIsTold, WatchedFaults DEF Unmeasured
<1>7. Still({"smoke"}) => (Tells(Alerts, "smoke") <=> "smoke" \in Faults(world))
  BY <1>4, WatchedIsTold, WatchedFaults
<1>8. Still({"ann"}) /\ WorksStill => (Tells(Alerts, "ann") <=> "ann" \in Faults(world))
  BY <1>4, WatchedIsTold, WatchedFaults, CatalogFaultsTold DEF Unmeasured
<1>9. Still({"catalog", "evaluation", "labels"}) /\ world.catalog = "ok" =>
              (Tells(Alerts, "evaluation") <=> "evaluation" \in Faults(world))
  <2>. SUFFICES ASSUME Still({"catalog", "evaluation", "labels"}), world.catalog = "ok"
                PROVE  Evaluation \in Unmeasured
                         <=> {world.evaluation, world.labels} \subseteq {absent, unreadable}
    BY WatchedIsTold, WatchedFaults
  <2>1. Still({"evaluation"}) /\ Still({"catalog", "labels"})
    BY DEF Still
  <2>2. read["labels"] = LabelsRead
    BY <1>1, <2>1, StepsAre DEF ReportInv, LabelsSeen
  <2>3. LabelsRead = world.labels
    BY MarkersAssumption DEF LabelsRead
  <2> QED
    BY <1>4, <2>1, <2>2, <2>3 DEF Evaluation, Unmeasured
<1> QED
  BY <1>5, <1>6, <1>7, <1>8, <1>9

LEMMA PostgresFaultsTold ==
  ASSUME ReportInv, Built
  PROVE  /\ Still({"postgres"}) => (Tells(Alerts, "telemetry") <=> "telemetry" \in Faults(world))
         /\ Still({"postgres", "frontier"}) =>
              (Tells(Alerts, "dead_work") <=> "dead_work" \in Faults(world))
<1>1. Done("product") /\ Done("frontier")
  BY StepsAre DEF Done, Built
<1>2. Still({"postgres"}) => (Tells(Alerts, "telemetry") <=> "telemetry" \in Faults(world))
  BY <1>1, WatchedIsTold, WatchedFaults DEF ReportInv, PostgresSeen, Telemetry
<1>3. unreadable # "dead"
  BY MarkersAssumption
<1>4. Still({"postgres", "frontier"}) =>
              (Tells(Alerts, "dead_work") <=> "dead_work" \in Faults(world))
  BY <1>1, <1>3, WatchedIsTold, WatchedFaults DEF ReportInv, PostgresSeen, FrontierRead
<1> QED
  BY <1>2, <1>4

LEMMA ReportInvSuffices == ReportInv => ReportTrueToWorld
<1>. SUFFICES ASSUME ReportInv, Built PROVE ReportTrueToWorld
  BY DEF ReportTrueToWorld
<1>. DEFINE Calm(f) == moved \intersect (SourcesOf[f] \union {"catalog"}) = {}
            claimed == {f \in DOMAIN SourcesOf :
                          Calm(f) /\ (world.catalog = "ok" \/ f = "catalog")}
<1>1. \A f \in claimed : f \in Told <=> f \in Faults(world)
  <2>. SUFFICES ASSUME NEW f \in claimed PROVE Tells(Alerts, f) <=> f \in Faults(world)
    BY ToldIs
  <2>1. Calm(f) /\ (world.catalog = "ok" \/ f = "catalog") /\ f \in Watched
    BY WatchedSources
  <2>2. Still(SourcesOf[f]) /\ Still({"catalog"})
    BY <2>1 DEF Still
  <2>3. CASE f = "catalog"
    BY <2>2, <2>3, CatalogReadIs, WatchedIsTold, WatchedFaults
  <2>4. CASE f \in {"coverage", "safety_unknown", "points", "ledger", "connectivity", "ann"}
    <3>1. WorksStill
      BY <2>1, <2>2, <2>4, WatchedSources DEF Still, WorksStill
    <3>2. CASE f \in {"coverage", "safety_unknown"}
      BY <3>1, <3>2, CatalogFaultsTold
    <3>3. CASE f = "points"
      <4>1. Still({"points", "endpoint"})
        BY <2>2, <3>3, WatchedSources DEF Still
      <4> QED
        BY <3>1, <3>3, <4>1, IndexFaultsTold
    <3>4. CASE f = "ledger"
      <4>1. Still({"ledger"})
        BY <2>2, <3>4, WatchedSources DEF Still
      <4> QED
        BY <3>1, <3>4, <4>1, IndexFaultsTold
    <3>5. CASE f = "connectivity"
      <4>1. Still({"endpoint"})
        BY <2>2, <3>5, WatchedSources DEF Still
      <4> QED
        BY <3>1, <3>5, <4>1, IndexFaultsTold
    <3>6. CASE f = "ann"
      <4>1. Still({"ann"})
        BY <2>2, <3>6, WatchedSources DEF Still
      <4> QED
        BY <3>1, <3>6, <4>1, FileFaultsTold
    <3> QED
      BY <2>4, <3>2, <3>3, <3>4, <3>5, <3>6
  <2>5. CASE f = "alias"
    <3>1. Still({"endpoint", "alias"})
      BY <2>2, <2>5, WatchedSources
    <3> QED
      BY <2>1, <2>2, <2>5, <3>1, AliasTold
  <2>6. CASE f \in {"error_rate", "judgments", "smoke"}
    BY <2>2, <2>6, FileFaultsTold, WatchedSources
  <2>7. CASE f = "evaluation"
    <3>1. Still({"catalog", "evaluation", "labels"}) /\ world.catalog = "ok"
      BY <2>1, <2>2, <2>7, WatchedSources DEF Still
    <3> QED
      BY <2>7, <3>1, FileFaultsTold
  <2>8. CASE f \in {"telemetry", "dead_work"}
    BY <2>2, <2>8, PostgresFaultsTold, WatchedSources
  <2> QED
    BY <2>1, <2>3, <2>4, <2>5, <2>6, <2>7, <2>8 DEF Watched
<1>2. CatalogRead => Told \intersect {"points", "ledger"} \subseteq differed
  <2>. SUFFICES ASSUME CatalogRead
                PROVE  /\ Tells(Alerts, "points") => "points" \in differed
                       /\ Tells(Alerts, "ledger") => "ledger" \in differed
    BY ToldIs
  <2>1. Done("eligible") /\ Done("ledger") /\ Done("collection")
    BY StepsAre DEF Done, Built
  <2>2. EligibleRead /\ LedgerRead
    BY <2>1 DEF EligibleRead, LedgerRead, CatalogRead, Statements
  <2>3. /\ Count("eligible") = read["eligible"] /\ Count("ledger") = read["ledger"]
    BY DEF Count
  <2> QED
    BY <2>1, <2>2, <2>3, WatchedIsTold DEF ReportInv, Agreed
<1>3. Level = "healthy" => Told = {}
  <2>1. Level = "healthy" => \A a \in Alerts : a.severity = "info"
    BY DEF Level
  <2> QED
    BY <2>1 DEF Told
<1>4. Level = "healthy" => claimed \intersect Faults(world) = {}
  BY <1>1, <1>3
<1> QED
  BY <1>1, <1>2, <1>4 DEF ReportTrueToWorld, Told

(* A finished report says of every source that kept still since its first   *)
(* step what is wrong with it and nothing else, calls the index or the      *)
(* record of it different only if it was, and is healthy only if none of    *)
(* those faults is there (build_monitoring_snapshot).                       *)
THEOREM ReportIsTrueToWorld == MonitorSpec => []ReportTrueToWorld
<1>1. MonitorInit => ReportInv
  BY InitReportInv
<1>2. ReportInv /\ [MonitorNext]_monitorVars => ReportInv'
  BY MonitorStepKeeps
<1>3. ReportInv => ReportTrueToWorld
  BY ReportInvSuffices
<1> QED
  BY <1>1, <1>2, <1>3, PTL DEF MonitorSpec

(* The report is built step by step, and what is not read yet is nothing.   *)
THEOREM MonitorTypeCorrect == MonitorSpec => []MonitorTypeOK
<1>1. \A i, j \in 1..17 : Steps[i] = Steps[j] => i = j
  <2>1. \A i \in 1..17 : i \in {1, 2, 3, 4, 5, 6, 7, 8, 9, 10, 11, 12, 13, 14, 15, 16, 17}
    OBVIOUS
  <2> QED
    BY <2>1 DEF Steps
<1>2. MonitorInit => MonitorTypeOK
  <2> SUFFICES ASSUME MonitorInit PROVE MonitorTypeOK
    OBVIOUS
  <2>1. step = 0 /\ read = Unread /\ moved = {} /\ differed = {} /\ changes = 0
    BY DEF MonitorInit
  <2>2. DOMAIN read = StepName /\ \A s \in StepName : read[s] = none
    BY <2>1 DEF Unread
  <2> QED
    BY <2>1, <2>2, StepsAre, BoundAssumption DEF MonitorTypeOK
<1>3. MonitorTypeOK /\ [MonitorNext]_monitorVars => MonitorTypeOK'
  <2> SUFFICES ASSUME MonitorTypeOK, [MonitorNext]_monitorVars PROVE MonitorTypeOK'
    OBVIOUS
  <2>1. CASE Rebuild
    <3>1. /\ step' = 0 /\ read' = Unread /\ moved' = {} /\ differed' = {}
          /\ UNCHANGED <<world, changes>>
      BY <2>1 DEF Rebuild
    <3>2. DOMAIN read' = StepName /\ \A s \in StepName : read'[s] = none
      BY <3>1 DEF Unread
    <3> QED
      BY <3>1, <3>2, StepsAre DEF MonitorTypeOK
  <2>2. CASE ReadNext
    <3>1. /\ step' = step + 1 /\ step \in 0..17 /\ step # 17
          /\ read' = [read EXCEPT ![Steps[step + 1]] = Seen(Steps[step + 1])]
          /\ differed' = differed \union Differ(world) /\ UNCHANGED <<world, moved, changes>>
      BY <2>2, StepsAre DEF ReadNext, Built, MonitorTypeOK
    <3>2. PICK next \in 1..17 : next = step + 1 /\ step' = next
      BY <3>1
    <3>3. DOMAIN read' = StepName
      BY <3>1 DEF MonitorTypeOK
    <3>4. ASSUME NEW i \in next + 1..17 PROVE read'[Steps[i]] = none
      <4>1. i \in 1..17 /\ i # next /\ i \in step + 1..17
        BY <3>1, <3>2
      <4>2. Steps[i] # Steps[next] /\ Steps[i] \in StepName
        BY <1>1, <4>1, StepsAre
      <4> QED
        BY <3>1, <3>2, <4>1, <4>2, StepsAre DEF MonitorTypeOK
    <3>5. differed' \subseteq {"points", "ledger"}
      BY <3>1 DEF Differ, MonitorTypeOK
    <3>6. step' \in 0..17 /\ \A i \in step' + 1..17 : read'[Steps[i]] = none
      BY <3>2, <3>4
    <3>7. moved' \subseteq DOMAIN world' /\ changes' \in 0..MaxChanges
      BY <3>1 DEF MonitorTypeOK
    <3>8. Len(Steps) = 17
      BY StepsAre
    <3> QED
      BY <3>3, <3>5, <3>6, <3>7, <3>8 DEF MonitorTypeOK
  <2>3. CASE \E source \in DOMAIN world : Change(source)
    <3>1. PICK source \in DOMAIN world : Change(source)
      BY <2>3
    <3>2. DOMAIN world' = DOMAIN world /\ UNCHANGED <<read, step>>
      BY <3>1 DEF Change
    <3>3. changes' \in 0..MaxChanges
      BY <3>1, BoundAssumption DEF Change, MonitorTypeOK
    <3>4. moved' \subseteq DOMAIN world /\ differed' \subseteq {"points", "ledger"}
      BY <3>1 DEF Change, Differ, MonitorTypeOK
    <3> QED
      BY <3>2, <3>3, <3>4 DEF MonitorTypeOK
  <2>4. CASE UNCHANGED monitorVars
    BY <2>4 DEF monitorVars, MonitorTypeOK
  <2> QED
    BY <2>1, <2>2, <2>3, <2>4 DEF MonitorNext
<1> QED
  BY <1>2, <1>3, PTL DEF MonitorSpec
=============================================================================
