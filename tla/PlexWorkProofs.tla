--------------------------- MODULE PlexWorkProofs ---------------------------
(***************************************************************************)
(* What PlexWork promises for any number of jobs, runs, requests, retries   *)
(* and process deaths.                                                      *)
(***************************************************************************)
EXTENDS PlexWork, FiniteSetTheorems, TLAPS

-----------------------------------------------------------------------------
(* Rows and the lock. *)

\* The ways jobs.py changes a row keep it a row.
LEMMA RowOps ==
  ASSUME NEW row \in Row, NEW ok \in BOOLEAN
  PROVE  /\ Claimed(row) \in Row
         /\ Started(row) \in Row
         /\ Released(row) \in Row
         /\ Finished(row, ok) \in Row
         /\ Requeued(row) \in Row
<1>. USE DEF Row, Statuses
<1>0. /\ row.attempts \in Nat
      /\ row.attempts + 1 \in Nat
      /\ row.attempts > 0 => row.attempts - 1 \in Nat
  OBVIOUS
<1>1. Claimed(row) \in Row
  BY <1>0 DEF Claimed
<1>2. Started(row) \in Row
  BY DEF Started
<1>3. Released(row) \in Row
  BY <1>0 DEF Released
<1>4. Finished(row, ok) \in Row
  BY DEF Finished
<1>5. Requeued(row) \in Row
  BY DEF Requeued
<1>. QED BY <1>1, <1>2, <1>3, <1>4, <1>5

\* An enqueued row is a row.
LEMMA EnqueuedIsRow ==
  ASSUME NEW k \in Kinds
  PROVE  EnqueuedRow(k) \in Row /\ AbsentRow \in Row
  BY DEF EnqueuedRow, AbsentRow, Row, Statuses, Kinds

\* Inserting a row keeps the table a table.
LEMMA InsertType ==
  ASSUME jobs \in [Jobs -> Row], NEW k \in Kinds, Insert(k)
  PROVE  jobs' \in [Jobs -> Row]
  BY EnqueuedIsRow DEF Insert

LockType == holder \in Agents \cup {NoOne} /\ waiters \in Seq(Agents)

\* The lock's own operations keep its holder and its queue well formed.
LEMMA LockOps ==
  ASSUME LockType, NEW a \in Agents
  PROVE  /\ Take(a) => LockType'
         /\ Queue(a) => LockType'
         /\ PassOn => LockType'
         /\ Leave(a) => LockType'
<1>1. Take(a) => LockType'
  BY DEF LockType, Take
<1>2. Queue(a) => LockType'
  BY DEF LockType, Queue
<1>3. PassOn => LockType'
  BY DEF LockType, PassOn
<1>4. ASSUME Leave(a) PROVE LockType'
  <2>1. PICK k \in 1..Len(waiters) :
          /\ waiters' = [i \in 1..(Len(waiters) - 1) |->
                           IF i < k THEN waiters[i] ELSE waiters[i + 1]]
          /\ UNCHANGED holder
    BY <1>4 DEF Leave
  <2>2. \A i \in 1..(Len(waiters) - 1) : waiters[i] \in Agents /\ waiters[i + 1] \in Agents
    BY DEF LockType
  <2>3. Len(waiters) - 1 \in Nat
    BY DEF LockType
  <2>4. waiters' \in Seq(Agents)
    BY <2>1, <2>2, <2>3
  <2>. QED BY <2>1, <2>4 DEF LockType
<1>. QED BY <1>1, <1>2, <1>3, <1>4

-----------------------------------------------------------------------------
(* Type correctness, action by action. *)

\* Executing or standing down a claimed job.
LEMMA JobMoves ==
  ASSUME TypeOK, NEW j \in Jobs, Execute(j) \/ StandDown(j)
  PROVE  /\ jobs' \in [Jobs -> Row]
         /\ task' \in [Jobs -> {"none", "parked", "waiting", "running"}]
         /\ starts' \in [Jobs -> Nat]
<1>1. jobs[j] \in Row /\ starts[j] + 1 \in Nat
  BY DEF TypeOK
<1>2. Started(jobs[j]) \in Row /\ Released(jobs[j]) \in Row
  BY <1>1, RowOps
<1>3. CASE Execute(j)
  BY <1>1, <1>2, <1>3 DEF TypeOK, Execute
<1>4. CASE StandDown(j)
  BY <1>2, <1>4 DEF TypeOK, StandDown
<1>. QED BY <1>3, <1>4

\* A run whose status is written stays the run it was.
LEMMA WrittenRun ==
  ASSUME NEW run \in RunRow, NEW status \in RunStatuses
  PROVE  /\ [run EXCEPT !.db = status] \in RunRow
         /\ [run EXCEPT !.db = status].db = status
         /\ [run EXCEPT !.db = status].trigger = run.trigger
         /\ [run EXCEPT !.handed = TRUE] \in RunRow
         /\ [run EXCEPT !.handed = TRUE].db = run.db
         /\ [run EXCEPT !.handed = TRUE].trigger = run.trigger
         /\ [run EXCEPT !.handed = TRUE].handed
  BY DEF RunRow

\* Writing one run's status leaves a table of runs.
LEMMA RunsWritten ==
  ASSUME TypeOK, NEW status \in {"running", "ok", "error", "aborted"}
  PROVE  /\ \A r \in Runs : [runs[r] EXCEPT !.db = status] \in RunRow
         /\ \A r \in Runs : [runs EXCEPT ![r].db = status] \in [Runs -> RunRow]
<1>1. status \in RunStatuses
  BY DEF RunStatuses
<1>2. runs \in [Runs -> RunRow]
  BY DEF TypeOK
<1>3. \A r \in Runs : [runs[r] EXCEPT !.db = status] \in RunRow
  BY <1>1, <1>2, WrittenRun
<1>. QED BY <1>2, <1>3

\* The end of a run, whatever its verdict.
LEMMA RunMoves ==
  ASSUME TypeOK, NEW r \in Runs,
         NEW status \in RunStatuses, RunOver(r, status)
  PROVE  /\ runs' \in [Runs -> RunRow]
         /\ phase' \in [Runs -> Phases]
         /\ cancel' \in [Runs -> {"none", "clear", "set"}]
  BY DEF TypeOK, RunOver, RunRow, Phases

\* A run as it is first written is a run.
LEMMA QueuedIsRun ==
  ASSUME NEW trigger \in Triggers, NEW j \in Nat
  PROVE  /\ QueuedRun(trigger, j) \in RunRow
         /\ QueuedRun(trigger, j).db = "queued"
         /\ QueuedRun(trigger, j).trigger = trigger
         /\ AbsentRun \in RunRow
  BY DEF QueuedRun, AbsentRun, RunRow, RunStatuses, Triggers

\* The start of a run.
LEMMA LaunchMoves ==
  ASSUME TypeOK, NEW r \in Runs, NEW trigger \in Triggers, Launch(r, trigger)
  PROVE  /\ runs' \in [Runs -> RunRow]
         /\ phase' \in [Runs -> Phases]
         /\ cancel' \in [Runs -> {"none", "clear", "set"}]
  BY QueuedIsRun DEF TypeOK, Launch, Phases

\* Every step of the job queue keeps the state well formed.
LEMMA QueueType ==
  ASSUME TypeOK, NEW j \in Jobs, QueueStep(j)
  PROVE  TypeOK'
<1>. USE DEF queueVars, runVars, lockVars, bootVars, deathVars
<1>0. LockType /\ j \in Agents /\ jobs \in [Jobs -> Row] /\ jobs[j] \in Row
  BY DEF TypeOK, LockType, Agents
<1>1. CASE WriterTurn(j)
  <2>1. LockType'
    BY <1>0, <1>1, LockOps DEF WriterTurn, LockType
  <2>2. /\ jobs' \in [Jobs -> Row]
        /\ task' \in [Jobs -> {"none", "parked", "waiting", "running"}]
        /\ starts' \in [Jobs -> Nat]
    BY <1>1, JobMoves DEF WriterTurn, TypeOK
  <2>. QED BY <1>1, <2>1, <2>2 DEF WriterTurn, TypeOK, LockType
<1>2. CASE WriterTimesOut(j)
  <2>1. LockType'
    BY <1>0, <1>2, LockOps DEF WriterTimesOut
  <2>. QED BY <1>2, <2>1, JobMoves DEF WriterTimesOut, TypeOK, LockType
<1>3. CASE WriterGranted(j)
  <2>1. LockType'
    BY <1>0, <1>3, LockOps DEF WriterGranted, LockType
  <2>. QED BY <1>3, <2>1, JobMoves DEF WriterGranted, TypeOK, LockType
<1>4. CASE ReaderStarts(j)
  BY <1>4, JobMoves DEF ReaderStarts, TypeOK
<1>5. CASE JobEnds(j)
  <2>1. LockType'
    BY <1>0, <1>5, LockOps DEF JobEnds, LockType
  <2>2. jobs' \in [Jobs -> Row]
    <3>1. PICK ok \in BOOLEAN : jobs' = [jobs EXCEPT ![j] = Finished(jobs[j], ok)]
      BY <1>5 DEF JobEnds
    <3>2. Finished(jobs[j], ok) \in Row
      BY <1>0, RowOps
    <3>. QED BY <3>1, <3>2 DEF TypeOK
  <2>. QED BY <1>5, <2>1, <2>2 DEF JobEnds, TypeOK, LockType
<1>6. CASE BackoffElapses(j)
  <2>1. [jobs[j] EXCEPT !.backoff = FALSE] \in Row
    BY <1>0 DEF Row
  <2>2. jobs' = [jobs EXCEPT ![j] = [jobs[j] EXCEPT !.backoff = FALSE]]
    BY <1>6 DEF BackoffElapses
  <2>3. jobs' \in [Jobs -> Row]
    BY <1>0, <2>1, <2>2
  <2>. QED BY <1>6, <2>3 DEF BackoffElapses, TypeOK
<1>. QED BY <1>1, <1>2, <1>3, <1>4, <1>5, <1>6 DEF QueueStep

\* Every step of a run keeps the state well formed.
LEMMA RunType ==
  ASSUME TypeOK, NEW r \in Runs, RunStep(r)
  PROVE  TypeOK'
<1>. USE DEF queueVars, runVars, lockVars, bootVars, deathVars
<1>0. LockType /\ r \in Agents
  BY DEF TypeOK, LockType, Agents
<1>1. ASSUME NEW trigger \in {"schedule", "manual"}, StartRun(r, trigger)
      PROVE  TypeOK'
  BY <1>1, LaunchMoves DEF StartRun, TypeOK, Triggers
<1>2. CASE RunBegins(r)
  <2>1. CASE RunOver(r, "aborted")
    BY <1>2, <2>1, RunMoves DEF RunBegins, TypeOK, RunStatuses
  <2>0. CASE RunOver(r, "error")
    BY <1>2, <2>0, RunMoves DEF RunBegins, TypeOK, RunStatuses
  <2>2. CASE runs' = [runs EXCEPT ![r].db = "running"]
             /\ phase' = [phase EXCEPT ![r] = "building"]
             /\ UNCHANGED cancel
    <3>1. runs' \in [Runs -> RunRow]
      BY <2>2, RunsWritten
    <3>. QED BY <1>2, <2>2, <3>1 DEF RunBegins, TypeOK, Phases
  <2>. QED BY <1>2, <2>0, <2>1, <2>2 DEF RunBegins
<1>3. CASE RunBuilt(r)
  <2>1. LockType'
    BY <1>0, <1>3, LockOps DEF RunBuilt
  <2>. QED BY <1>3, <2>1 DEF RunBuilt, TypeOK, LockType, Phases
<1>4. CASE RunBuildFails(r)
  BY <1>4, RunMoves DEF RunBuildFails, TypeOK, RunStatuses
<1>5. CASE RunGranted(r)
  BY <1>5 DEF RunGranted, TypeOK, Phases
<1>6. CASE EngineReturns(r)
  <2>1. LockType'
    BY <1>0, <1>6, LockOps DEF EngineReturns
  <2>. QED BY <1>6, <2>1 DEF EngineReturns, TypeOK, LockType, Phases
<1>7. CASE EngineRaises(r)
  <2>1. LockType'
    BY <1>0, <1>7, LockOps DEF EngineRaises
  <2>. QED BY <1>7, <2>1, RunMoves DEF EngineRaises, TypeOK, LockType, RunStatuses
<1>8. CASE RunSettles(r)
  <2>1. PICK status \in RunStatuses : RunOver(r, status)
    BY <1>8 DEF RunSettles, RunStatuses
  <2>. QED BY <1>8, <2>1, RunMoves DEF RunSettles, TypeOK
<1>9. CASE CancelRun(r)
  <2>1. runs' \in [Runs -> RunRow]
    BY <1>9, RunsWritten DEF CancelRun, TypeOK
  <2>. QED BY <1>9, <2>1 DEF CancelRun, TypeOK
<1>10. ASSUME NEW s \in Runs, BootResumes(s, r)
       PROVE  TypeOK'
  BY <1>10, LaunchMoves DEF BootResumes, TypeOK, Triggers
<1>. QED
  BY <1>1, <1>2, <1>3, <1>4, <1>5, <1>6, <1>7, <1>8, <1>9, <1>10 DEF RunStep

\* Every step of an assistant's run keeps the state well formed.
LEMMA AssistantType ==
  ASSUME TypeOK, NEW r \in Runs, AssistantStep(r)
  PROVE  TypeOK'
<1>. USE DEF queueVars, runVars, lockVars, bootVars, deathVars
<1>1. CASE QueueAssistantRun(r)
  <2>1. jobs' \in [Jobs -> Row]
    BY <1>1, InsertType DEF QueueAssistantRun, TypeOK, Kinds
  <2>2. PICK j \in Jobs : runs' = [runs EXCEPT ![r] = QueuedRun("assistant", j)]
    BY <1>1 DEF QueueAssistantRun
  <2>3. j \in Nat /\ "assistant" \in Triggers
    BY PlexWorkAssumption DEF Jobs, Triggers
  <2>4. runs' \in [Runs -> RunRow]
    BY <2>2, <2>3, QueuedIsRun DEF TypeOK
  <2>. QED BY <1>1, <2>1, <2>4 DEF QueueAssistantRun, TypeOK
<1>2. CASE DispatchRun(r)
  <2>0. /\ [runs[r] EXCEPT !.handed = TRUE] \in RunRow
        /\ [runs[r] EXCEPT !.db = "aborted"] \in RunRow
    <3>1. runs[r] \in RunRow /\ "aborted" \in RunStatuses
      BY DEF TypeOK, RunStatuses
    <3>. QED BY <3>1, WrittenRun
  <2>1. runs' \in [Runs -> RunRow]
    BY <1>2, <2>0 DEF DispatchRun, TypeOK
  <2>2. /\ phase' \in [Runs -> Phases]
        /\ cancel' \in [Runs -> {"none", "clear", "set"}]
    BY <1>2 DEF DispatchRun, TypeOK, Phases
  <2>. QED BY <1>2, <2>1, <2>2 DEF DispatchRun, TypeOK
<1>3. CASE CancelAssistantRun(r)
  <2>1. runs' \in [Runs -> RunRow]
    BY <1>3, RunsWritten DEF CancelAssistantRun
  <2>. QED BY <1>3, <2>1 DEF CancelAssistantRun, TypeOK
<1>. QED BY <1>1, <1>2, <1>3 DEF AssistantStep

\* A refused write of a row keeps the state well formed.
LEMMA FaultType ==
  ASSUME TypeOK, NEW j \in Jobs, DatabaseFails(j)
  PROVE  TypeOK'
<1>. USE DEF queueVars, runVars, lockVars, bootVars, deathVars
<1>0. LockType /\ j \in Agents
  BY DEF TypeOK, LockType, Agents
<1>1. LockType'
  BY <1>0, LockOps DEF DatabaseFails, LockType
<1>2. task' \in [Jobs -> {"none", "parked", "waiting", "running"}] /\ faults' \in Nat
  BY DEF DatabaseFails, TypeOK
<1>. QED BY <1>1, <1>2 DEF DatabaseFails, TypeOK, LockType

\* Every step of a Plex-writing API request keeps the state well formed.
LEMMA EndpointType ==
  ASSUME TypeOK, NEW e \in Endpoints, EndpointStep(e)
  PROVE  TypeOK'
<1>. USE DEF queueVars, runVars, lockVars, bootVars, deathVars
<1>0. LockType /\ e \in Agents
  BY DEF TypeOK, LockType, Agents
<1>1. LockType'
  BY <1>0, LockOps
     DEF LockType, EndpointStep, EndpointStarts, EndpointGivesUp, EndpointGranted,
         EndpointEnds
<1>2. endpoint' \in [Endpoints -> {"off", "waiting", "writing", "over"}]
  BY DEF TypeOK, EndpointStep, EndpointStarts, EndpointGivesUp, EndpointGranted,
         EndpointEnds
<1>3. UNCHANGED <<queueVars, runVars, bootVars, deathVars>>
  BY DEF EndpointStep, EndpointStarts, EndpointGivesUp, EndpointGranted, EndpointEnds
<1>. QED BY <1>1, <1>2, <1>3 DEF TypeOK, LockType

\* Losing everything volatile.
LEMMA VolatileType ==
  ASSUME TypeOK, Volatile, crashes' \in Nat, stops' \in Nat, faults' \in Nat
  PROVE  TypeOK'
<1>1. /\ holder' \in Agents \cup {NoOne}
      /\ waiters' \in Seq(Agents)
  BY DEF Volatile
<1>. QED BY <1>1 DEF TypeOK, Volatile, Modes, Phases

\* Stop, crash and boot keep the state well formed.
LEMMA ProcessType ==
  ASSUME TypeOK, ProcessStep
  PROVE  TypeOK'
<1>. USE DEF queueVars, runVars, lockVars, bootVars, deathVars
<1>0. \A j \in Jobs : jobs[j] \in Row /\ Requeued(jobs[j]) \in Row
  BY RowOps DEF TypeOK
<1>1. CASE Sweep
  <2>1. PICK stale \in SUBSET Jobs :
          jobs' = [j \in Jobs |-> IF j \in stale THEN Requeued(jobs[j]) ELSE jobs[j]]
    BY <1>1 DEF Sweep
  <2>2. jobs' \in [Jobs -> Row]
    BY <2>1, <1>0
  <2>. QED BY <1>1, <2>2 DEF Sweep, TypeOK
<1>2. CASE Crash
  <2>1. crashes' \in Nat /\ stops' \in Nat /\ faults' \in Nat
    BY <1>2 DEF Crash, TypeOK
  <2>. QED BY <1>2, <2>1, VolatileType DEF Crash
<1>3. CASE Close
  BY <1>3 DEF Close, TypeOK, Modes
<1>4. CASE Exit
  <2>1. crashes' \in Nat /\ stops' \in Nat /\ faults' \in Nat
    BY <1>4 DEF Exit, TypeOK
  <2>. QED BY <1>4, <2>1, VolatileType DEF Exit
<1>5. CASE BootAbortsRuns
  <2>1. runs' \in [Runs -> RunRow]
    <3>1. \A r \in Runs : /\ runs[r] \in RunRow
                          /\ [runs[r] EXCEPT !.db = "aborted"] \in RunRow
      BY RunsWritten DEF TypeOK
    <3>. QED BY <1>5, <3>1 DEF BootAbortsRuns
  <2>2. plan' \in SUBSET Runs /\ interrupted' \in BOOLEAN /\ mode' \in Modes
    BY <1>5 DEF BootAbortsRuns, Modes
  <2>. QED BY <1>5, <2>1, <2>2 DEF BootAbortsRuns, TypeOK
<1>6. CASE BootRecoversJobs
  <2>1. jobs' \in [Jobs -> Row]
    BY <1>6, <1>0 DEF BootRecoversJobs
  <2>. QED BY <1>6, <2>1 DEF BootRecoversJobs, TypeOK, Modes
<1>7. CASE BootQueuesRepair
  <2>1. jobs' \in [Jobs -> Row]
    BY <1>7, InsertType DEF BootQueuesRepair, TypeOK, Kinds
  <2>. QED BY <1>7, <2>1 DEF BootQueuesRepair, TypeOK, Modes
<1>8. CASE BootDone
  BY <1>8 DEF BootDone, TypeOK, Modes
<1>. QED
  BY <1>1, <1>2, <1>3, <1>4, <1>5, <1>6, <1>7, <1>8 DEF ProcessStep

\* The empty database and the stopped process are well formed.
LEMMA TypeInit == Init => TypeOK
<1>. SUFFICES ASSUME Init PROVE TypeOK
  OBVIOUS
<1>1. jobs \in [Jobs -> Row] /\ waiters \in Seq(Agents)
  BY EnqueuedIsRow DEF Init, Kinds
<1>2. runs \in [Runs -> RunRow]
  BY QueuedIsRun DEF Init, Triggers
<1>3. phase \in [Runs -> Phases] /\ mode \in Modes
  BY DEF Init, Phases, Modes
<1>. QED BY <1>1, <1>2, <1>3 DEF Init, TypeOK

\* Every step keeps the state well formed.
LEMMA TypeStep == TypeOK /\ [Next]_vars => TypeOK'
<1>. SUFFICES ASSUME TypeOK, [Next]_vars PROVE TypeOK'
  OBVIOUS
<1>. USE DEF queueVars, runVars, lockVars, bootVars, deathVars
<1>0. AskedKinds \subseteq Kinds
  BY PlexWorkAssumption
<1>1. ASSUME NEW k \in Kinds, Enqueue(k) PROVE TypeOK'
  BY <1>1, InsertType DEF Enqueue, TypeOK
<1>2. ASSUME NEW kinds \in SUBSET Kinds, Drain(kinds) PROVE TypeOK'
  <2>1. \A j \in Jobs : jobs[j] \in Row /\ Claimed(jobs[j]) \in Row
    BY RowOps DEF TypeOK
  <2>2. jobs' \in [Jobs -> Row]
    BY <1>2, <2>1 DEF Drain
  <2>. QED BY <1>2, <2>2 DEF Drain, TypeOK
<1>3. CASE DrainEnds
  BY <1>3 DEF DrainEnds, TypeOK
<1>4. CASE UNCHANGED vars
  BY <1>4 DEF vars, TypeOK
<1>. QED
  BY <1>0, <1>1, <1>2, <1>3, <1>4, QueueType, FaultType, RunType, AssistantType,
     EndpointType, ProcessType
     DEF Next, Kinds

\* The state of the tables, the locks and the coroutines stays well formed in
\* every interleaving (TypeOK).
THEOREM TypeCorrect == Spec => []TypeOK
  BY TypeInit, TypeStep, PTL DEF Spec

-----------------------------------------------------------------------------
(* Which steps change a row, and how. *)

\* A row once inserted keeps its kind and never becomes absent again.
RowsKeep ==
  \A j \in Jobs : jobs[j].status # "absent"
    => jobs'[j].kind = jobs[j].kind /\ jobs'[j].status # "absent"

\* Each of the row operations keeps the kind and the row's existence.
LEMMA RowOpsKeep ==
  ASSUME NEW row \in Row, NEW ok \in BOOLEAN
  PROVE  /\ Claimed(row).kind = row.kind /\ Claimed(row).status = "running"
         /\ Started(row).kind = row.kind /\ Started(row).status = row.status
         /\ Released(row).kind = row.kind
         /\ Released(row).status =
              IF row.status = "running" THEN "queued" ELSE row.status
         /\ Finished(row, ok).kind = row.kind
         /\ Finished(row, ok).status \in {"done", "queued", "failed"}
         /\ Requeued(row).kind = row.kind /\ Requeued(row).status = "queued"
  BY DEF Row, Claimed, Started, Released, Finished, Requeued

\* No step changes a job's kind, or makes its row disappear.
LEMMA StepsKeepRows == TypeOK /\ [Next]_vars => RowsKeep
<1>. SUFFICES ASSUME TypeOK, [Next]_vars PROVE RowsKeep
  OBVIOUS
<1>. USE DEF queueVars, runVars, lockVars, bootVars, deathVars
<1>0. \A j \in Jobs : jobs[j] \in Row
  BY DEF TypeOK
<1>1. ASSUME NEW k \in Kinds, Insert(k) PROVE RowsKeep
  BY <1>1, <1>0 DEF Insert, NextJob, AbsentJobs, RowsKeep, TypeOK
<1>2. ASSUME UNCHANGED jobs PROVE RowsKeep
  BY <1>2 DEF RowsKeep
<1>3. ASSUME NEW kinds \in SUBSET Kinds, Drain(kinds) PROVE RowsKeep
  BY <1>3, <1>0, RowOpsKeep DEF Drain, RowsKeep
<1>4. ASSUME NEW j \in Jobs, Execute(j) \/ StandDown(j) PROVE RowsKeep
  BY <1>4, <1>0, RowOpsKeep DEF Execute, StandDown, RowsKeep, TypeOK
<1>5. ASSUME NEW j \in Jobs, QueueStep(j) PROVE RowsKeep
  <2>1. CASE JobEnds(j)
    <3>1. PICK ok \in BOOLEAN : jobs' = [jobs EXCEPT ![j] = Finished(jobs[j], ok)]
      BY <2>1 DEF JobEnds
    <3>2. /\ Finished(jobs[j], ok).kind = jobs[j].kind
          /\ Finished(jobs[j], ok).status # "absent"
      BY <1>0, RowOpsKeep
    <3>. QED BY <3>1, <3>2 DEF RowsKeep, TypeOK
  <2>2. CASE BackoffElapses(j)
    BY <2>2, <1>0 DEF BackoffElapses, RowsKeep, TypeOK, Row
  <2>3. CASE WriterTurn(j)
    BY <2>3, <1>2, <1>4 DEF WriterTurn
  <2>. QED
    BY <1>5, <2>1, <2>2, <2>3, <1>4
       DEF QueueStep, WriterTimesOut, WriterGranted, ReaderStarts
<1>6. ASSUME NEW r \in Runs, RunStep(r) PROVE UNCHANGED jobs
  BY <1>6
     DEF RunStep, StartRun, RunBegins, RunBuilt, RunBuildFails, RunGranted,
         EngineReturns, EngineRaises, RunSettles, CancelRun, BootResumes
<1>7. ASSUME NEW e \in Endpoints, EndpointStep(e) PROVE UNCHANGED jobs
  BY <1>7
     DEF EndpointStep, EndpointStarts, EndpointGivesUp, EndpointGranted, EndpointEnds
<1>9. ASSUME NEW r \in Runs, AssistantStep(r) PROVE RowsKeep
  BY <1>9, <1>1, <1>2
     DEF AssistantStep, QueueAssistantRun, DispatchRun, CancelAssistantRun, Kinds
<1>10. ASSUME NEW j \in Jobs, DatabaseFails(j) PROVE UNCHANGED jobs
  BY <1>10 DEF DatabaseFails
<1>8. CASE ProcessStep
  <2>0. \A j \in Jobs : /\ Requeued(jobs[j]).kind = jobs[j].kind
                        /\ Requeued(jobs[j]).status = "queued"
    BY <1>0, RowOpsKeep
  <2>1. CASE Sweep
    BY <2>0, <2>1 DEF Sweep, RowsKeep
  <2>2. CASE BootRecoversJobs
    BY <2>0, <2>2 DEF BootRecoversJobs, RowsKeep
  <2>3. CASE BootQueuesRepair
    BY <2>3, <1>1, <1>2 DEF BootQueuesRepair, Kinds
  <2>. QED
    BY <1>8, <2>1, <2>2, <2>3, <1>2
       DEF ProcessStep, Crash, Close, Exit, Volatile, BootAbortsRuns, BootDone
<1>. QED
  BY <1>1, <1>2, <1>3, <1>5, <1>6, <1>7, <1>8, <1>9, <1>10, PlexWorkAssumption
     DEF Next, Enqueue, DrainEnds, vars, Kinds

-----------------------------------------------------------------------------
(* One writer at a time: whoever writes to Plex holds the lock. *)

HolderInv ==
  /\ \A j \in Jobs : task[j] = "running" /\ WritesPlex(jobs[j]) => holder = j
  /\ \A r \in Runs : phase[r] = "engine" => holder = r
  /\ \A e \in Endpoints : endpoint[e] = "writing" => holder = e
  /\ \A j \in Jobs : jobs[j].status = "absent" => task[j] = "none"

\* The writers of HolderInv are the PlexWriters of the specification.
LEMMA HolderWrites == HolderInv <=> /\ \A a \in PlexWriters : a = holder
                                    /\ \A j \in Jobs : jobs[j].status = "absent"
                                                         => task[j] = "none"
  BY DEF HolderInv, PlexWriters

\* Nobody else writes while `a` holds the lock and is not itself writing, and
\* nobody at all while nobody holds it.
LEMMA LockIsExclusive ==
  ASSUME HolderInv, NEW a \in Agents \cup {NoOne}, holder = a
  PROVE  /\ \A j \in Jobs \ {a} : ~(task[j] = "running" /\ WritesPlex(jobs[j]))
         /\ \A r \in Runs \ {a} : phase[r] # "engine"
         /\ \A e \in Endpoints \ {a} : endpoint[e] # "writing"
  BY DEF HolderInv

\* A job starts a Plex write only with the lock, and gives it up when it ends.
LEMMA HolderQueueStep ==
  ASSUME TypeOK, HolderInv, RowsKeep, NEW j \in Jobs, QueueStep(j)
  PROVE  HolderInv'
<1>. USE PlexWorkAssumption DEF queueVars, runVars, lockVars, bootVars, deathVars
<1>0. j \notin Runs /\ j \notin Endpoints /\ j # NoOne /\ j \in Agents
  BY DEF Agents
<1>1. CASE WriterTurn(j)
  <2>0. task[j] = "parked" /\ WritesPlex(jobs[j]) /\ jobs[j].status # "absent"
    BY <1>1 DEF WriterTurn, HeadWriter, HolderInv
  <2>1. CASE StandDown(j) /\ UNCHANGED lockVars
    BY <1>1, <2>0, <2>1
       DEF WriterTurn, StandDown, HolderInv, RowsKeep, TypeOK, WritesPlex
  <2>2. CASE LockFree /\ Take(j) /\ Execute(j)
    BY <1>0, <1>1, <2>0, <2>2, LockIsExclusive
       DEF WriterTurn, LockFree, Take, Execute, HolderInv, RowsKeep, TypeOK,
           WritesPlex, Agents
  <2>3. CASE Queue(j) /\ task' = [task EXCEPT ![j] = "waiting"]
             /\ UNCHANGED <<jobs, starts>>
    BY <1>1, <2>0, <2>3 DEF WriterTurn, Queue, HolderInv, TypeOK
  <2>. QED BY <1>1, <2>1, <2>2, <2>3 DEF WriterTurn
<1>2. CASE WriterTimesOut(j)
  BY <1>2 DEF WriterTimesOut, StandDown, Leave, HolderInv, RowsKeep, TypeOK, WritesPlex
<1>3. CASE WriterGranted(j)
  <2>0. /\ task[j] = "waiting" /\ holder = j /\ jobs[j].status # "absent"
    BY <1>3 DEF WriterGranted, HolderInv
  <2>1. CASE StandDown(j) /\ PassOn
    BY <1>0, <1>3, <2>0, <2>1, LockIsExclusive
       DEF WriterGranted, StandDown, HolderInv, RowsKeep, TypeOK, WritesPlex
  <2>2. CASE Execute(j) /\ UNCHANGED lockVars
    BY <1>0, <1>3, <2>0, <2>2
       DEF WriterGranted, Execute, HolderInv, RowsKeep, TypeOK, WritesPlex
  <2>. QED BY <1>3, <2>1, <2>2 DEF WriterGranted
<1>4. CASE ReaderStarts(j)
  BY <1>4 DEF ReaderStarts, Admitted, Execute, HolderInv, RowsKeep, TypeOK, WritesPlex
<1>5. CASE JobEnds(j)
  <2>0. task[j] = "running" /\ jobs[j].status # "absent" /\ task' = [task EXCEPT ![j] = "none"]
    BY <1>5 DEF JobEnds, HolderInv
  <2>1. CASE WritesPlex(jobs[j])
    <3>1. holder = j
      BY <2>0, <2>1 DEF HolderInv
    <3>. QED
      BY <1>0, <1>5, <2>0, <2>1, <3>1, LockIsExclusive
         DEF JobEnds, HolderInv, RowsKeep, TypeOK, WritesPlex
  <2>2. CASE ~WritesPlex(jobs[j])
    BY <1>5, <2>0, <2>2 DEF JobEnds, HolderInv, RowsKeep, TypeOK, WritesPlex
  <2>. QED BY <2>1, <2>2
<1>6. CASE BackoffElapses(j)
  <2>1. \A i \in Jobs : jobs'[i].status = "absent" => jobs[i].status = "absent"
    BY DEF RowsKeep
  <2>. QED
    BY <1>6, <2>1 DEF BackoffElapses, HolderInv, RowsKeep, TypeOK, WritesPlex
<1>. QED BY <1>1, <1>2, <1>3, <1>4, <1>5, <1>6 DEF QueueStep

\* A run is in the engine only with the lock.
LEMMA HolderRunStep ==
  ASSUME TypeOK, HolderInv, NEW r \in Runs, RunStep(r)
  PROVE  HolderInv'
<1>. USE PlexWorkAssumption DEF queueVars, runVars, lockVars, bootVars, deathVars
<1>0. r \notin Jobs /\ r \notin Endpoints /\ r # NoOne /\ r \in Agents
  BY DEF Agents
<1>1. CASE \/ \E trigger \in {"schedule", "manual"} : StartRun(r, trigger)
           \/ \E s \in Runs : BootResumes(s, r)
  BY <1>1 DEF StartRun, BootResumes, Launch, HolderInv, TypeOK
<1>2. CASE RunBegins(r) \/ RunBuildFails(r) \/ RunSettles(r)
  BY <1>2 DEF RunBegins, RunBuildFails, RunSettles, RunOver, HolderInv, TypeOK
<1>3. CASE RunBuilt(r)
  <2>1. CASE LockFree /\ Take(r) /\ phase' = [phase EXCEPT ![r] = "engine"]
    BY <1>0, <1>3, <2>1, LockIsExclusive
       DEF RunBuilt, LockFree, Take, HolderInv, TypeOK, Agents
  <2>2. CASE Queue(r) /\ phase' = [phase EXCEPT ![r] = "writerWait"]
    BY <1>3, <2>2 DEF RunBuilt, Queue, HolderInv, TypeOK
  <2>. QED BY <1>3, <2>1, <2>2 DEF RunBuilt
<1>4. CASE RunGranted(r)
  BY <1>4 DEF RunGranted, HolderInv, TypeOK
<1>5. CASE EngineReturns(r) \/ EngineRaises(r)
  <2>1. holder = r
    BY <1>5 DEF EngineReturns, EngineRaises, HolderInv
  <2>2. \A q \in Runs : phase'[q] # "engine"
    <3>1. \A q \in Runs \ {r} : phase[q] # "engine"
      BY <1>0, <2>1, LockIsExclusive
    <3>2. phase' \in {[phase EXCEPT ![r] = s] : s \in {"off", "settling", "settlingAborted"}}
      BY <1>5 DEF EngineReturns, EngineRaises, RunOver
    <3>. QED BY <3>1, <3>2 DEF TypeOK
  <2>. QED
    BY <1>0, <1>5, <2>1, <2>2, LockIsExclusive DEF EngineReturns, EngineRaises, HolderInv
<1>6. CASE CancelRun(r)
  BY <1>6 DEF CancelRun, HolderInv
<1>. QED BY <1>1, <1>2, <1>3, <1>4, <1>5, <1>6 DEF RunStep

\* A row that could not be written ends its writer, which hands the lock on.
LEMMA HolderFault ==
  ASSUME TypeOK, HolderInv, RowsKeep, NEW j \in Jobs, DatabaseFails(j)
  PROVE  HolderInv'
<1>. USE PlexWorkAssumption DEF queueVars, runVars, lockVars, bootVars, deathVars
<1>0. j \notin Runs /\ j \notin Endpoints /\ j # NoOne /\ j \in Agents
  BY DEF Agents
<1>1. /\ UNCHANGED <<jobs, phase, endpoint>> /\ task'[j] = "none"
      /\ \A i \in Jobs : task'[i] \in {"none", task[i]}
  BY DEF DatabaseFails
<1>2. CASE UNCHANGED holder
  BY <1>1, <1>2 DEF HolderInv, WritesPlex
<1>3. CASE holder = j
  <2>1. /\ \A i \in Jobs \ {j} : ~(task[i] = "running" /\ WritesPlex(jobs[i]))
        /\ \A r \in Runs : phase[r] # "engine"
        /\ \A e \in Endpoints : endpoint[e] # "writing"
    BY <1>0, <1>3, LockIsExclusive
  <2>. QED BY <1>1, <2>1 DEF HolderInv, WritesPlex
<1>. QED BY <1>2, <1>3 DEF DatabaseFails, Leave

\* An API request writes to Plex only with the lock.
LEMMA HolderEndpointStep ==
  ASSUME TypeOK, HolderInv, NEW e \in Endpoints, EndpointStep(e)
  PROVE  HolderInv'
<1>. USE PlexWorkAssumption DEF queueVars, runVars, lockVars, bootVars, deathVars
<1>0. e \notin Jobs /\ e \notin Runs /\ e # NoOne /\ e \in Agents
  BY DEF Agents
<1>1. CASE EndpointStarts(e)
  <2>1. CASE LockFree /\ Take(e) /\ endpoint' = [endpoint EXCEPT ![e] = "writing"]
    BY <1>0, <1>1, <2>1, LockIsExclusive
       DEF EndpointStarts, LockFree, Take, HolderInv, TypeOK, Agents
  <2>2. CASE Queue(e) /\ endpoint' = [endpoint EXCEPT ![e] = "waiting"]
    BY <1>1, <2>2 DEF EndpointStarts, Queue, HolderInv, TypeOK
  <2>. QED BY <1>1, <2>1, <2>2 DEF EndpointStarts
<1>2. CASE EndpointGivesUp(e)
  BY <1>2 DEF EndpointGivesUp, Leave, HolderInv, TypeOK
<1>3. CASE EndpointGranted(e)
  BY <1>3 DEF EndpointGranted, HolderInv, TypeOK
<1>4. CASE EndpointEnds(e)
  <2>1. holder = e
    BY <1>4 DEF EndpointEnds, HolderInv
  <2>2. \A f \in Endpoints : endpoint'[f] # "writing"
    BY <1>0, <1>4, <2>1, LockIsExclusive DEF EndpointEnds, TypeOK
  <2>. QED BY <1>0, <1>4, <2>1, <2>2, LockIsExclusive DEF EndpointEnds, HolderInv
<1>. QED BY <1>1, <1>2, <1>3, <1>4 DEF EndpointStep

\* Every step keeps each Plex writer the holder of the lock.
LEMMA HolderStep == TypeOK /\ HolderInv /\ [Next]_vars => HolderInv'
<1>. SUFFICES ASSUME TypeOK, HolderInv, [Next]_vars PROVE HolderInv'
  OBVIOUS
<1>. USE DEF queueVars, runVars, lockVars, bootVars, deathVars
<1>0. RowsKeep
  BY StepsKeepRows
<1>1. ASSUME NEW k \in Kinds, Insert(k), UNCHANGED <<task, holder, phase, endpoint>>
      PROVE  HolderInv'
  <2>1. PICK i \in Jobs : jobs[i].status = "absent"
                          /\ jobs' = [jobs EXCEPT ![i] = EnqueuedRow(k)]
    BY <1>1 DEF Insert, NextJob, AbsentJobs
  <2>2. task[i] = "none"
    BY <2>1 DEF HolderInv
  <2>. QED BY <1>1, <2>1, <2>2 DEF HolderInv, TypeOK
<1>2. ASSUME NEW kinds \in SUBSET Kinds, Drain(kinds) PROVE HolderInv'
  BY <1>0, <1>2 DEF Drain, HolderInv, RowsKeep, Claimable, WritesPlex, TypeOK
<1>3. ASSUME RowsKeep, UNCHANGED <<task, holder, phase, endpoint>>,
             \A j \in Jobs : jobs'[j].status = "absent" => jobs[j].status = "absent"
      PROVE  HolderInv'
  BY <1>3 DEF HolderInv, WritesPlex, RowsKeep
<1>4. \A j \in Jobs : jobs'[j].status = "absent" => jobs[j].status = "absent"
  BY <1>0 DEF RowsKeep
<1>6. ASSUME NEW r \in Runs, AssistantStep(r) PROVE HolderInv'
  <2>1. CASE QueueAssistantRun(r)
    BY <2>1, <1>1 DEF QueueAssistantRun, Kinds
  <2>2. CASE DispatchRun(r) \/ CancelAssistantRun(r)
    BY <2>2 DEF DispatchRun, CancelAssistantRun, HolderInv, TypeOK
  <2>. QED BY <1>6, <2>1, <2>2 DEF AssistantStep
<1>5. CASE ProcessStep
  <2>1. CASE Crash \/ Exit
    <3>1. Volatile
      BY <2>1 DEF Crash, Exit
    <3>2. \A e \in Endpoints : endpoint'[e] # "writing"
      BY <3>1 DEF Volatile
    <3>3. /\ \A j \in Jobs : task'[j] = "none"
          /\ \A r \in Runs : phase'[r] = "off"
      BY <3>1 DEF Volatile
    <3>. QED BY <3>2, <3>3 DEF HolderInv
  <2>2. CASE BootQueuesRepair
    BY <2>2, <1>0, <1>1, <1>3, <1>4 DEF BootQueuesRepair, Kinds
  <2>3. CASE Sweep \/ Close \/ BootAbortsRuns \/ BootRecoversJobs \/ BootDone
    BY <2>3, <1>0, <1>3, <1>4
       DEF Sweep, Close, BootAbortsRuns, BootRecoversJobs, BootDone
  <2>. QED BY <1>5, <2>1, <2>2, <2>3 DEF ProcessStep
<1>. QED
  BY <1>0, <1>1, <1>2, <1>3, <1>4, <1>5, <1>6, PlexWorkAssumption,
     HolderQueueStep, HolderFault, HolderRunStep, HolderEndpointStep
     DEF Next, Enqueue, DrainEnds, vars, Kinds

\* Before the first boot nobody writes to Plex.
LEMMA HolderInit == Init => HolderInv
  BY DEF Init, HolderInv

\* Whoever writes to Plex holds the writer lock (HolderInv).
THEOREM HolderCorrect == Spec => []HolderInv
  BY TypeCorrect, HolderInit, HolderStep, PTL DEF Spec

\* No interleaving of jobs, runs, requests, crashes and boots lets two parties
\* write to Plex at once (OneWriter).
THEOREM OneWriterCorrect == Spec => []OneWriter
<1>1. HolderInv => OneWriter
  BY HolderWrites DEF OneWriter
<1>. QED BY <1>1, HolderCorrect, PTL

-----------------------------------------------------------------------------
(* A claim never finds a coroutine of an earlier claim alive. *)

DrainInv ==
  /\ ~drainLock => \A j \in Jobs : task[j] = "none"
  /\ mode = "down" => ~drainLock

\* Job coroutines are started and awaited only inside a drain.
LEMMA DrainStep == TypeOK /\ DrainInv /\ [Next]_vars => DrainInv'
<1>. SUFFICES ASSUME TypeOK, DrainInv, [Next]_vars PROVE DrainInv'
  OBVIOUS
<1>. USE DEF queueVars, runVars, lockVars, bootVars, deathVars
<1>1. ASSUME UNCHANGED <<drainLock, task>>, mode' = "down" => mode = "down" PROVE DrainInv'
  BY <1>1 DEF DrainInv
<1>2. ASSUME NEW j \in Jobs, QueueStep(j) PROVE DrainInv'
  <2>1. UNCHANGED <<drainLock, mode>>
    BY <1>2
       DEF QueueStep, WriterTurn, WriterTimesOut, WriterGranted, ReaderStarts,
           JobEnds, BackoffElapses
  <2>2. BackoffElapses(j) \/ task[j] # "none"
    BY <1>2
       DEF QueueStep, WriterTurn, HeadWriter, WriterTimesOut, WriterGranted,
           ReaderStarts, Admitted, JobEnds
  <2>3. CASE BackoffElapses(j)
    BY <2>3, <1>1 DEF BackoffElapses
  <2>. QED BY <2>1, <2>2, <2>3 DEF DrainInv
<1>3. ASSUME NEW r \in Runs, RunStep(r) PROVE UNCHANGED <<drainLock, task, mode>>
  BY <1>3
     DEF RunStep, StartRun, RunBegins, RunBuilt, RunBuildFails, RunGranted,
         EngineReturns, EngineRaises, RunSettles, CancelRun, BootResumes
<1>4. ASSUME NEW e \in Endpoints, EndpointStep(e) PROVE UNCHANGED <<drainLock, task, mode>>
  BY <1>4
     DEF EndpointStep, EndpointStarts, EndpointGivesUp, EndpointGranted, EndpointEnds
<1>5. CASE ProcessStep
  <2>1. CASE Crash \/ Exit
    <3>1. drainLock' = FALSE /\ \A j \in Jobs : task'[j] = "none"
      BY <2>1 DEF Crash, Exit, Volatile
    <3>. QED BY <3>1 DEF DrainInv
  <2>2. CASE Sweep \/ Close
    BY <2>2, <1>1 DEF Sweep, Close
  <2>3. CASE BootAbortsRuns \/ BootRecoversJobs \/ BootQueuesRepair \/ BootDone
    BY <2>3, <1>1 DEF BootAbortsRuns, BootRecoversJobs, BootQueuesRepair, BootDone
  <2>. QED BY <1>5, <2>1, <2>2, <2>3 DEF ProcessStep
<1>6. ASSUME NEW kinds \in SUBSET Kinds, Drain(kinds) PROVE DrainInv'
  BY <1>6 DEF Drain, DrainInv
<1>7. CASE DrainEnds
  BY <1>7 DEF DrainEnds, DrainInv
<1>8. ASSUME NEW r \in Runs, AssistantStep(r) PROVE UNCHANGED <<drainLock, task, mode>>
  BY <1>8 DEF AssistantStep, QueueAssistantRun, DispatchRun, CancelAssistantRun
<1>9. ASSUME NEW j \in Jobs, DatabaseFails(j) PROVE DrainInv'
  <2>1. UNCHANGED <<drainLock, mode>> /\ \A i \in Jobs : task'[i] \in {"none", task[i]}
    BY <1>9 DEF DatabaseFails
  <2>. QED BY <2>1 DEF DrainInv
<1>. QED
  BY <1>1, <1>2, <1>3, <1>4, <1>5, <1>6, <1>7, <1>8, <1>9 DEF Next, Enqueue, vars, Kinds

\* A job coroutine exists only while the drain that gathered it runs, in a process
\* that lives (DrainInv).
THEOREM DrainCorrect == Spec => []DrainInv
<1>1. Init => DrainInv
  BY DEF Init, DrainInv
<1>. QED BY <1>1, TypeCorrect, DrainStep, PTL DEF Spec

\* The claim query takes queued rows only; a step that is not a claim starts none.
LEMMA OnlyDrainsClaim ==
  ASSUME TypeOK, [Next]_vars, NEW j \in Jobs,
         jobs[j].status = "queued", jobs'[j].status = "running"
  PROVE  ~drainLock
<1>. USE DEF queueVars, runVars, lockVars, bootVars, deathVars
<1>0. \A i \in Jobs : jobs[i] \in Row
  BY DEF TypeOK
<1>1. ASSUME NEW k \in Kinds, Insert(k) PROVE FALSE
  BY <1>1 DEF Insert, NextJob, AbsentJobs, EnqueuedRow, AbsentRow, TypeOK
<1>2. ASSUME UNCHANGED jobs PROVE FALSE
  BY <1>2
<1>3. ASSUME NEW i \in Jobs, Execute(i) \/ StandDown(i) PROVE FALSE
  <2>1. /\ Started(jobs[i]).status = jobs[i].status
        /\ jobs[i].status = "queued" => Released(jobs[i]).status = "queued"
    BY <1>0, RowOpsKeep
  <2>. QED BY <1>3, <2>1 DEF Execute, StandDown, TypeOK
<1>4. ASSUME NEW i \in Jobs, QueueStep(i) PROVE FALSE
  <2>1. CASE JobEnds(i)
    <3>1. PICK ok \in BOOLEAN : jobs' = [jobs EXCEPT ![i] = Finished(jobs[i], ok)]
      BY <2>1 DEF JobEnds
    <3>2. Finished(jobs[i], ok).status # "running"
      BY <1>0, RowOpsKeep
    <3>. QED BY <3>1, <3>2 DEF TypeOK
  <2>2. CASE BackoffElapses(i)
    BY <2>2, <1>0 DEF BackoffElapses, TypeOK, Row
  <2>. QED
    BY <1>2, <1>3, <1>4, <2>1, <2>2
       DEF QueueStep, WriterTurn, WriterTimesOut, WriterGranted, ReaderStarts
<1>5. ASSUME NEW r \in Runs, RunStep(r) PROVE FALSE
  BY <1>5
     DEF RunStep, StartRun, RunBegins, RunBuilt, RunBuildFails, RunGranted,
         EngineReturns, EngineRaises, RunSettles, CancelRun, BootResumes
<1>8. ASSUME NEW r \in Runs, AssistantStep(r) PROVE FALSE
  BY <1>8, <1>1, <1>2
     DEF AssistantStep, QueueAssistantRun, DispatchRun, CancelAssistantRun, Kinds
<1>9. ASSUME NEW i \in Jobs, DatabaseFails(i) PROVE FALSE
  BY <1>9, <1>2 DEF DatabaseFails
<1>6. ASSUME NEW e \in Endpoints, EndpointStep(e) PROVE FALSE
  BY <1>6
     DEF EndpointStep, EndpointStarts, EndpointGivesUp, EndpointGranted, EndpointEnds
<1>7. CASE ProcessStep
  <2>1. \A i \in Jobs : Requeued(jobs[i]).status = "queued"
    BY <1>0, RowOpsKeep
  <2>. QED
    BY <1>7, <1>1, <2>1
       DEF ProcessStep, Sweep, Crash, Close, Exit, Volatile, BootAbortsRuns,
           BootRecoversJobs, BootQueuesRepair, BootDone, Kinds
<1>. QED
  BY <1>1, <1>4, <1>5, <1>6, <1>7, <1>8, <1>9, PlexWorkAssumption
     DEF Next, Enqueue, Drain, DrainEnds, vars, Kinds

\* A row is claimed only when no coroutine of an earlier claim of it is left, so
\* a row the sweep requeued under its coroutine is not executed twice at once
\* (ClaimsAreExclusive).
THEOREM ClaimsCorrect == Spec => ClaimsAreExclusive
<1>1. TypeOK /\ DrainInv /\ [Next]_vars
        => [\A j \in Jobs :
              jobs[j].status = "queued" /\ jobs'[j].status = "running"
                => task[j] = "none"]_vars
  BY OnlyDrainsClaim DEF DrainInv
<1>. QED BY <1>1, TypeCorrect, DrainCorrect, PTL DEF Spec, ClaimsAreExclusive

-----------------------------------------------------------------------------
(* The retry budget. *)

\* The executions a row is good for: its own, and one per death and per refused write.
Allowed(j) == Attempts(jobs[j]) + crashes + faults

\* What a job has been charged for covers what it has executed: an attempt is
\* paid before the handler starts, and only a death leaves one unaccounted for.
Budget(j) ==
  /\ jobs[j].status = "absent" => starts[j] = 0 /\ task[j] = "none"
  /\ starts[j] <= jobs[j].attempts
  /\ task[j] \in {"parked", "waiting"} => starts[j] < jobs[j].attempts
  /\ task[j] = "running" => starts[j] > 0
  /\ Settled(jobs[j]) => task[j] = "none"
  /\ task[j] # "running" /\ ~Settled(jobs[j]) => starts[j] < Allowed(j)
  /\ starts[j] <= Allowed(j)

BudgetInv == \A j \in Jobs : Budget(j)

\* What a row is good for depends on its kind, and grows with deaths and faults.
LEMMA AllowedGrows ==
  ASSUME TypeOK, TypeOK', NEW j \in Jobs, jobs'[j].kind = jobs[j].kind
  PROVE  /\ Allowed(j) \in Nat /\ Allowed(j)' \in Nat /\ Attempts(jobs[j]) <= Allowed(j)
         /\ Allowed(j) > 0
         /\ crashes' + faults' >= crashes + faults => Allowed(j)' >= Allowed(j)
         /\ crashes' + faults' > crashes + faults => Allowed(j)' > Allowed(j)
<1>1. Attempts(jobs[j]) \in Nat \ {0} /\ Attempts(jobs[j])' = Attempts(jobs[j])
  BY MaxAttemptsAssumption DEF Attempts
<1>2. crashes \in Nat /\ faults \in Nat /\ crashes' \in Nat /\ faults' \in Nat
  BY DEF TypeOK
<1>3. Allowed(j)' = Attempts(jobs[j]) + crashes' + faults'
  BY <1>1 DEF Allowed
<1>4. \A a \in Nat \ {0} : \A c, f, d, g \in Nat :
        /\ a + c + f \in Nat /\ a + d + g \in Nat /\ a <= a + c + f /\ a + c + f > 0
        /\ d + g >= c + f => a + d + g >= a + c + f
        /\ d + g > c + f => a + d + g > a + c + f
  OBVIOUS
<1>5. LET a == Attempts(jobs[j])
      IN  /\ a + crashes + faults \in Nat /\ a + crashes' + faults' \in Nat
          /\ a <= a + crashes + faults /\ a + crashes + faults > 0
          /\ crashes' + faults' >= crashes + faults
               => a + crashes' + faults' >= a + crashes + faults
          /\ crashes' + faults' > crashes + faults
               => a + crashes' + faults' > a + crashes + faults
  BY <1>1, <1>2, <1>4, Zenon
<1>. QED BY <1>3, <1>5, Zenon DEF Allowed

\* The same row, the same coroutine, no fewer deaths and faults: the same budget.
LEMMA BudgetStands ==
  ASSUME TypeOK, TypeOK', NEW j \in Jobs, Budget(j),
         UNCHANGED <<jobs[j], task[j], starts[j]>>,
         crashes' + faults' >= crashes + faults
  PROVE  Budget(j)'
<1>1. Allowed(j) \in Nat /\ Allowed(j)' \in Nat /\ Allowed(j)' >= Allowed(j)
  BY AllowedGrows
<1>2. starts[j] \in Nat
  BY DEF TypeOK
<1>. QED BY <1>1, <1>2 DEF Budget

\* Attempts and settlement under the row operations.
LEMMA RowOpsCharge ==
  ASSUME NEW row \in Row, NEW ok \in BOOLEAN
  PROVE  /\ Claimed(row).attempts = row.attempts + 1
         /\ Started(row).attempts = row.attempts
         /\ Released(row).attempts =
              IF row.status = "running" /\ row.attempts > 0
              THEN row.attempts - 1 ELSE row.attempts
         /\ Finished(row, ok).attempts = row.attempts
         /\ Finished(row, ok).status = "queued" => row.attempts < Attempts(row)
         /\ Requeued(row).attempts = row.attempts
  BY DEF Row, Claimed, Started, Released, Finished, Requeued

\* A step of one job's coroutine spends no execution that was not charged.
LEMMA BudgetJobStep ==
  ASSUME TypeOK, TypeOK', BudgetInv, NEW j \in Jobs, QueueStep(j)
  PROVE  BudgetInv'
<1>. USE DEF queueVars, runVars, lockVars, bootVars, deathVars
<1>0. /\ jobs[j] \in Row /\ jobs[j].attempts \in Nat /\ starts[j] \in Nat
      /\ Budget(j)
  BY DEF TypeOK, Row, BudgetInv
<1>1. UNCHANGED <<crashes, faults>> /\ crashes' + faults' >= crashes + faults
  <2>1. UNCHANGED <<crashes, faults>>
    BY DEF QueueStep, WriterTurn, WriterTimesOut, WriterGranted, ReaderStarts, JobEnds,
           BackoffElapses
  <2>. QED BY <2>1 DEF TypeOK
<1>10. ASSUME jobs'[j].kind = jobs[j].kind
       PROVE  /\ Allowed(j)' >= Allowed(j) /\ Allowed(j) \in Nat /\ Allowed(j)' \in Nat
              /\ Attempts(jobs[j]) <= Allowed(j)
  BY <1>1, <1>10, AllowedGrows
<1>2. ASSUME NEW i \in Jobs \ {j} PROVE Budget(i)'
  <2>1. UNCHANGED <<jobs[i], task[i], starts[i]>>
    <3>1. CASE JobEnds(j)
      <4>1. PICK ok \in BOOLEAN : jobs' = [jobs EXCEPT ![j] = Finished(jobs[j], ok)]
        BY <3>1 DEF JobEnds
      <4>. QED BY <3>1, <4>1 DEF JobEnds, TypeOK
    <3>2. CASE Execute(j) \/ StandDown(j)
      BY <3>2 DEF Execute, StandDown, TypeOK
    <3>3. CASE WriterTurn(j)
      BY <3>2, <3>3 DEF WriterTurn, TypeOK
    <3>4. CASE BackoffElapses(j)
      BY <3>4 DEF BackoffElapses, TypeOK
    <3>. QED
      BY <3>1, <3>2, <3>3, <3>4
         DEF QueueStep, WriterTimesOut, WriterGranted, ReaderStarts
  <2>. QED BY <1>0, <1>1, <2>1, BudgetStands DEF BudgetInv
<1>3. ASSUME Execute(j), task[j] \in {"parked", "waiting"} PROVE Budget(j)'
  <2>1. /\ jobs'[j] = Started(jobs[j]) /\ task'[j] = "running"
        /\ starts'[j] = starts[j] + 1
    BY <1>3 DEF Execute, TypeOK
  <2>2. /\ Started(jobs[j]).attempts = jobs[j].attempts
        /\ Started(jobs[j]).status = jobs[j].status
        /\ Started(jobs[j]).kind = jobs[j].kind
    BY <1>0, RowOpsCharge, RowOpsKeep
  <2>3. Allowed(j)' >= Allowed(j) /\ Allowed(j) \in Nat /\ Allowed(j)' \in Nat
    BY <1>10, <2>1, <2>2
  <2>. QED BY <1>0, <1>3, <2>1, <2>2, <2>3 DEF Budget, Settled
<1>4. ASSUME StandDown(j), task[j] \in {"parked", "waiting"} PROVE Budget(j)'
  <2>1. /\ jobs'[j] = Released(jobs[j]) /\ task'[j] = "none" /\ starts'[j] = starts[j]
    BY <1>4 DEF StandDown, TypeOK
  <2>2. /\ Released(jobs[j]).attempts =
             IF jobs[j].status = "running" /\ jobs[j].attempts > 0
             THEN jobs[j].attempts - 1 ELSE jobs[j].attempts
        /\ Released(jobs[j]).status =
             IF jobs[j].status = "running" THEN "queued" ELSE jobs[j].status
        /\ Released(jobs[j]).kind = jobs[j].kind
    BY <1>0, RowOpsCharge, RowOpsKeep
  <2>3. Allowed(j)' >= Allowed(j) /\ Allowed(j) \in Nat /\ Allowed(j)' \in Nat
    BY <1>10, <2>1, <2>2
  <2>. QED BY <1>0, <1>4, <2>1, <2>2, <2>3 DEF Budget, Settled
<1>5. ASSUME Queue(j), task' = [task EXCEPT ![j] = "waiting"],
             UNCHANGED <<jobs, starts>>, task[j] = "parked"
      PROVE  Budget(j)'
  <2>1. task'[j] = "waiting"
    BY <1>5 DEF TypeOK
  <2>2. Allowed(j)' >= Allowed(j) /\ Allowed(j) \in Nat /\ Allowed(j)' \in Nat
    BY <1>5, <1>10
  <2>. QED BY <1>0, <1>5, <2>1, <2>2 DEF Budget, Settled
<1>6. ASSUME JobEnds(j) PROVE Budget(j)'
  <2>1. PICK ok \in BOOLEAN : jobs' = [jobs EXCEPT ![j] = Finished(jobs[j], ok)]
    BY <1>6 DEF JobEnds
  <2>2. /\ jobs'[j] = Finished(jobs[j], ok) /\ task'[j] = "none"
        /\ starts'[j] = starts[j]
    BY <1>6, <2>1 DEF JobEnds, TypeOK
  <2>3. /\ Finished(jobs[j], ok).attempts = jobs[j].attempts
        /\ Finished(jobs[j], ok).status \in {"done", "queued", "failed"}
        /\ Finished(jobs[j], ok).status = "queued" => jobs[j].attempts < Attempts(jobs[j])
        /\ Finished(jobs[j], ok).kind = jobs[j].kind
    BY <1>0, RowOpsCharge, RowOpsKeep
  <2>4. starts[j] <= jobs[j].attempts /\ starts[j] <= Allowed(j)
    BY <1>0 DEF Budget
  <2>5. /\ Allowed(j)' >= Allowed(j) /\ Allowed(j) \in Nat /\ Allowed(j)' \in Nat
        /\ Attempts(jobs[j]) <= Allowed(j)
    BY <1>10, <2>2, <2>3
  <2>6. Attempts(jobs[j]) \in Nat
    BY MaxAttemptsAssumption DEF Attempts
  <2>7. jobs'[j].status = "queued" => starts[j] < Allowed(j)'
    BY <1>0, <2>2, <2>3, <2>4, <2>5, <2>6
  <2>. QED BY <1>0, <2>2, <2>3, <2>4, <2>5, <2>7 DEF Budget, Settled
<1>7. ASSUME BackoffElapses(j) PROVE Budget(j)'
  <2>1. /\ jobs'[j].attempts = jobs[j].attempts /\ jobs'[j].status = jobs[j].status
        /\ jobs'[j].kind = jobs[j].kind
        /\ UNCHANGED <<task[j], starts[j]>>
    BY <1>0, <1>7 DEF BackoffElapses, TypeOK, Row
  <2>2. Allowed(j)' >= Allowed(j) /\ Allowed(j) \in Nat /\ Allowed(j)' \in Nat
    BY <1>10, <2>1
  <2>. QED BY <1>0, <2>1, <2>2 DEF Budget, Settled
<1>8. Budget(j)'
  BY <1>3, <1>4, <1>5, <1>6, <1>7, <1>2
     DEF QueueStep, WriterTurn, HeadWriter, WriterTimesOut, WriterGranted,
         ReaderStarts, Admitted, BudgetInv
<1>. QED BY <1>2, <1>8 DEF BudgetInv

\* No step of the queue, of a boot or of a sweep buys an execution for free.
LEMMA BudgetStep ==
  TypeOK /\ TypeOK' /\ DrainInv /\ BudgetInv /\ [Next]_vars => BudgetInv'
<1>. SUFFICES ASSUME TypeOK, TypeOK', DrainInv, BudgetInv, [Next]_vars PROVE BudgetInv'
  OBVIOUS
<1>. USE DEF queueVars, runVars, lockVars, bootVars, deathVars
<1>0. \A j \in Jobs : /\ jobs[j] \in Row /\ jobs[j].attempts \in Nat
                      /\ starts[j] \in Nat /\ Budget(j)
  BY DEF TypeOK, Row, BudgetInv
<1>10. ASSUME UNCHANGED <<crashes, faults>> PROVE crashes' + faults' >= crashes + faults
  BY <1>10 DEF TypeOK
<1>11. \A j \in Jobs : Allowed(j) \in Nat /\ Allowed(j) > 0 /\ Allowed(j)' \in Nat
                        /\ Allowed(j)' > 0
  <2>1. \A j \in Jobs : /\ Attempts(jobs[j]) \in Nat \ {0}
                        /\ Attempts(jobs[j])' \in Nat \ {0}
    BY MaxAttemptsAssumption DEF Attempts
  <2>2. crashes \in Nat /\ faults \in Nat /\ crashes' \in Nat /\ faults' \in Nat
    BY DEF TypeOK
  <2>. QED BY <2>1, <2>2 DEF Allowed
<1>1. ASSUME UNCHANGED <<jobs, task, starts, crashes, faults>> PROVE BudgetInv'
  BY <1>0, <1>1, <1>10, BudgetStands DEF BudgetInv
<1>2. ASSUME NEW k \in Kinds, Insert(k), UNCHANGED <<task, starts, crashes, faults>>
      PROVE  BudgetInv'
  <2>1. PICK i \in Jobs : jobs[i].status = "absent"
                          /\ jobs' = [jobs EXCEPT ![i] = EnqueuedRow(k)]
    BY <1>2 DEF Insert, NextJob, AbsentJobs
  <2>2. Budget(i)'
    <3>1. jobs'[i].attempts = 0 /\ jobs'[i].status = "queued"
      BY <2>1 DEF EnqueuedRow, AbsentRow, TypeOK
    <3>2. starts[i] = 0 /\ task[i] = "none"
      BY <1>0, <2>1 DEF Budget
    <3>. QED BY <1>0, <1>2, <1>11, <3>1, <3>2 DEF Budget, Settled
  <2>3. ASSUME NEW j \in Jobs \ {i} PROVE Budget(j)'
    <3>1. UNCHANGED <<jobs[j], task[j], starts[j]>>
      BY <1>2, <2>1, <2>3 DEF TypeOK
    <3>. QED BY <1>0, <1>2, <1>10, <3>1, BudgetStands
  <2>. QED BY <2>2, <2>3 DEF BudgetInv
<1>3. ASSUME NEW kinds \in SUBSET Kinds, Drain(kinds), NEW j \in Jobs PROVE Budget(j)'
  <2>1. CASE jobs[j].kind \in kinds /\ Claimable(jobs[j], Busy)
    <3>1. jobs'[j] = Claimed(jobs[j]) /\ task'[j] = "parked" /\ jobs[j].status = "queued"
          /\ UNCHANGED <<starts, crashes, faults>>
      BY <1>3, <2>1 DEF Drain, Claimable
    <3>2. /\ Claimed(jobs[j]).attempts = jobs[j].attempts + 1
          /\ Claimed(jobs[j]).status = "running"
          /\ Claimed(jobs[j]).kind = jobs[j].kind
      BY <1>0, RowOpsCharge, RowOpsKeep
    <3>3. task[j] = "none"
      BY <1>3 DEF Drain, DrainInv
    <3>4. Allowed(j)' >= Allowed(j)
      BY <1>10, <3>1, <3>2, AllowedGrows
    <3>. QED BY <1>0, <1>11, <3>1, <3>2, <3>3, <3>4 DEF Budget, Settled
  <2>2. CASE ~(jobs[j].kind \in kinds /\ Claimable(jobs[j], Busy))
    <3>1. UNCHANGED <<jobs[j], task[j], starts[j], crashes, faults>>
      BY <1>3, <2>2 DEF Drain, TypeOK
    <3>. QED BY <1>0, <1>10, <3>1, BudgetStands
  <2>. QED BY <2>1, <2>2
<1>4. ASSUME NEW r \in Runs, RunStep(r)
      PROVE  UNCHANGED <<jobs, task, starts, crashes, faults>>
  BY <1>4
     DEF RunStep, StartRun, RunBegins, RunBuilt, RunBuildFails, RunGranted,
         EngineReturns, EngineRaises, RunSettles, CancelRun, BootResumes
<1>5. ASSUME NEW e \in Endpoints, EndpointStep(e)
      PROVE  UNCHANGED <<jobs, task, starts, crashes, faults>>
  BY <1>5
     DEF EndpointStep, EndpointStarts, EndpointGivesUp, EndpointGranted, EndpointEnds
<1>6. ASSUME NEW j \in Jobs, jobs'[j] \in {jobs[j], Requeued(jobs[j])},
             jobs'[j] = jobs[j] \/ jobs[j].status = "running",
             UNCHANGED <<task, starts, crashes, faults>>
      PROVE  Budget(j)'
  <2>1. CASE jobs'[j] = jobs[j]
    BY <1>0, <1>6, <1>10, <2>1, BudgetStands
  <2>2. CASE jobs'[j] = Requeued(jobs[j]) /\ jobs[j].status = "running"
    <3>1. /\ Requeued(jobs[j]).attempts = jobs[j].attempts
          /\ Requeued(jobs[j]).status = "queued"
          /\ Requeued(jobs[j]).kind = jobs[j].kind
      BY <1>0, RowOpsCharge, RowOpsKeep
    <3>2. Allowed(j)' >= Allowed(j)
      BY <1>6, <1>10, <2>2, <3>1, AllowedGrows
    <3>. QED BY <1>0, <1>6, <1>11, <2>2, <3>1, <3>2 DEF Budget, Settled
  <2>. QED BY <1>6, <2>1, <2>2
<1>7. CASE ProcessStep
  <2>1. CASE Sweep
    <3>1. \A j \in Jobs :
            /\ jobs'[j] \in {jobs[j], Requeued(jobs[j])}
            /\ jobs'[j] = jobs[j] \/ jobs[j].status = "running"
      BY <2>1 DEF Sweep, Sweepable
    <3>2. UNCHANGED <<task, starts, crashes, faults>>
      BY <2>1 DEF Sweep
    <3>. QED BY <1>6, <3>1, <3>2 DEF BudgetInv
  <2>2. CASE Crash
    <3>1. /\ crashes' = crashes + 1 /\ UNCHANGED <<jobs, starts, faults>>
          /\ \A j \in Jobs : task'[j] = "none"
      BY <2>2 DEF Crash, Volatile
    <3>2. crashes' + faults' > crashes + faults
      BY <3>1 DEF TypeOK
    <3>3. \A j \in Jobs : Allowed(j)' > Allowed(j)
      BY <3>1, <3>2, AllowedGrows
    <3>. QED BY <1>0, <1>11, <3>1, <3>3 DEF Budget, Settled, BudgetInv
  <2>3. CASE Exit
    <3>1. /\ UNCHANGED <<jobs, starts, crashes, faults>>
          /\ \A j \in Jobs : task'[j] = "none" /\ task[j] = "none"
      BY <2>3 DEF Exit, Volatile, DrainInv
    <3>. QED BY <1>0, <1>10, <3>1, BudgetStands DEF BudgetInv
  <2>4. CASE BootRecoversJobs
    <3>1. \A j \in Jobs :
            /\ jobs'[j] \in {jobs[j], Requeued(jobs[j])}
            /\ jobs'[j] = jobs[j] \/ jobs[j].status = "running"
      BY <2>4 DEF BootRecoversJobs, Sweepable
    <3>2. UNCHANGED <<task, starts, crashes, faults>>
      BY <2>4 DEF BootRecoversJobs
    <3>. QED BY <1>6, <3>1, <3>2 DEF BudgetInv
  <2>5. CASE BootQueuesRepair
    BY <1>1, <1>2, <2>5 DEF BootQueuesRepair, Kinds
  <2>6. CASE Close \/ BootAbortsRuns \/ BootDone
    BY <1>1, <2>6 DEF Close, BootAbortsRuns, BootDone
  <2>. QED BY <1>7, <2>1, <2>2, <2>3, <2>4, <2>5, <2>6 DEF ProcessStep
<1>8. CASE DrainEnds \/ UNCHANGED vars
  BY <1>1, <1>8 DEF DrainEnds, vars
<1>9. ASSUME NEW k \in Kinds, Enqueue(k) PROVE BudgetInv'
  BY <1>2, <1>9 DEF Enqueue
<1>12. ASSUME NEW r \in Runs, AssistantStep(r) PROVE BudgetInv'
  BY <1>1, <1>2, <1>12
     DEF AssistantStep, QueueAssistantRun, DispatchRun, CancelAssistantRun, Kinds
<1>13. ASSUME NEW i \in Jobs, DatabaseFails(i) PROVE BudgetInv'
  <2>1. /\ UNCHANGED <<jobs, starts, crashes>> /\ faults' = faults + 1
        /\ \A j \in Jobs : task'[j] \in {"none", task[j]}
    BY <1>13 DEF DatabaseFails
  <2>2. crashes' + faults' > crashes + faults
    BY <2>1 DEF TypeOK
  <2>3. \A j \in Jobs : Allowed(j)' > Allowed(j)
    BY <2>1, <2>2, AllowedGrows
  <2>. QED BY <1>0, <1>11, <2>1, <2>3 DEF Budget, Settled, BudgetInv
<1>. QED
  BY <1>1, <1>3, <1>4, <1>5, <1>7, <1>8, <1>9, <1>12, <1>13, BudgetJobStep,
     PlexWorkAssumption DEF Next, Kinds, BudgetInv

\* No row exists, so nothing has been charged.
LEMMA BudgetInit == Init => BudgetInv
<1>. SUFFICES ASSUME Init, NEW j \in Jobs PROVE Budget(j)
  BY DEF BudgetInv
<1>1. /\ jobs[j].status = "absent" /\ jobs[j].attempts = 0 /\ starts[j] = 0
      /\ task[j] = "none" /\ jobs[j].kind = "writer" /\ crashes = 0 /\ faults = 0
  BY DEF Init, AbsentRow
<1>2. Allowed(j) \in Nat \ {0}
  BY <1>1, MaxAttemptsAssumption DEF Allowed, Attempts
<1>. QED BY <1>1, <1>2 DEF Budget, Settled

\* Executions are paid for by attempts, or by a death or a fault each (BudgetInv).
THEOREM BudgetCorrect == Spec => []BudgetInv
  BY BudgetInit, BudgetStep, TypeCorrect, DrainCorrect, PTL DEF Spec

\* However claims, stand-downs, sweeps, stops and boots interleave, a handler runs
\* at most max_attempts times plus once per process death and per refused write of
\* a row (RetryBudget).
THEOREM RetryBudgetCorrect == Spec => []RetryBudget
<1>1. BudgetInv => RetryBudget
  BY DEF BudgetInv, Budget, Allowed, RetryBudget
<1>. QED BY <1>1, BudgetCorrect, PTL

-----------------------------------------------------------------------------
(* The life of a run. *)

\* What the table says of a run, where its coroutine is and what `_cancels` holds
\* agree, in every state between their separate writes.
RunInv ==
  \A r \in Runs :
    /\ cancel[r] = "none" <=> phase[r] = "off"
    /\ mode = "down" => phase[r] = "off"
    /\ mode # "down" /\ Orphan(r) => phase[r] # "off"
    /\ AwaitsHandoff(r) => phase[r] = "off"
    /\ UnderRunLock(r) => runs[r].db = "running"
    /\ phase[r] = "lockWait" => \/ runs[r].db = "queued" /\ cancel[r] = "clear"
                                \/ runs[r].db = "aborted" /\ cancel[r] = "set"

\* A step of one run keeps its row, its cancel event and its task in step.
LEMMA RunInvRunStep ==
  ASSUME TypeOK, RunInv, NEW r \in Runs, RunStep(r)
  PROVE  RunInv'
<1>. USE DEF LiveRun, Orphan, AwaitsHandoff, UnderRunLock, queueVars, runVars, lockVars,
             bootVars, deathVars
<1>1. ASSUME NEW trigger \in {"schedule", "manual", "resume"}, Launch(r, trigger),
             mode # "down", UNCHANGED mode
      PROVE  RunInv'
  <2>1. QueuedRun(trigger, 0).db = "queued" /\ QueuedRun(trigger, 0).trigger # "assistant"
    BY QueuedIsRun DEF Triggers
  <2>. QED BY <1>1, <2>1 DEF Launch, RunInv, TypeOK
<1>2. ASSUME NEW status \in {"ok", "error", "aborted"}, RunOver(r, status), UNCHANGED mode
      PROVE  RunInv'
  <2>1. /\ runs'[r].db = status /\ cancel'[r] = "none" /\ phase'[r] = "off"
        /\ \A q \in Runs \ {r} : UNCHANGED <<runs[q], cancel[q], phase[q]>>
    BY <1>2 DEF RunOver, TypeOK, RunRow
  <2>. QED BY <1>2, <2>1 DEF RunInv
<1>3. CASE RunBegins(r)
  <2>1. CASE RunOver(r, "aborted") \/ RunOver(r, "error")
    BY <1>2, <1>3, <2>1 DEF RunBegins
  <2>2. CASE /\ cancel[r] # "set"
             /\ runs' = [runs EXCEPT ![r].db = "running"]
             /\ phase' = [phase EXCEPT ![r] = "building"]
             /\ UNCHANGED cancel
    BY <1>3, <2>2 DEF RunBegins, RunInv, TypeOK
  <2>. QED BY <1>3, <2>1, <2>2 DEF RunBegins
<1>4. CASE RunBuilt(r) \/ RunGranted(r) \/ EngineReturns(r)
  BY <1>4 DEF RunBuilt, RunGranted, EngineReturns, RunInv, TypeOK
<1>5. CASE RunBuildFails(r) \/ EngineRaises(r) \/ RunSettles(r)
  BY <1>2, <1>5 DEF RunBuildFails, EngineRaises, RunSettles
<1>6. CASE CancelRun(r)
  BY <1>6 DEF CancelRun, RunInv, TypeOK
<1>. QED
  BY <1>1, <1>3, <1>4, <1>5, <1>6
     DEF RunStep, StartRun, BootResumes, Triggers

\* An assistant's run enters the table alone, and its dispatch arms and launches it in
\* one stretch.
LEMMA RunInvAssistant ==
  ASSUME TypeOK, DrainInv, RunInv, NEW r \in Runs, AssistantStep(r)
  PROVE  RunInv'
<1>. USE DEF LiveRun, Orphan, AwaitsHandoff, UnderRunLock, queueVars, runVars, lockVars,
             bootVars, deathVars
<1>1. CASE QueueAssistantRun(r)
  <2>1. PICK j \in Jobs : runs' = [runs EXCEPT ![r] = QueuedRun("assistant", j)]
    BY <1>1 DEF QueueAssistantRun
  <2>2. /\ QueuedRun("assistant", j).db = "queued"
        /\ QueuedRun("assistant", j).trigger = "assistant"
        /\ ~QueuedRun("assistant", j).handed
    BY DEF QueuedRun, AbsentRun
  <2>3. /\ runs'[r] = QueuedRun("assistant", j) /\ UNCHANGED <<phase, cancel, mode>>
        /\ \A q \in Runs \ {r} : runs'[q] = runs[q]
    BY <1>1, <2>1 DEF QueueAssistantRun, TypeOK
  <2>4. phase[r] = "off"
    BY <1>1 DEF QueueAssistantRun, AbsentRuns, RunInv, TypeOK, Phases
  <2>. QED BY <2>2, <2>3, <2>4 DEF RunInv
<1>2. CASE DispatchRun(r)
  <2>1. mode # "down" /\ UNCHANGED mode
    BY <1>2 DEF DispatchRun, DrainInv
  <2>2. CASE /\ runs' = [runs EXCEPT ![r].handed = TRUE]
             /\ cancel' = [cancel EXCEPT ![r] = "clear"]
             /\ phase' = [phase EXCEPT ![r] = "lockWait"]
    <3>1. /\ runs'[r].db = "queued" /\ runs'[r].handed
          /\ cancel'[r] = "clear" /\ phase'[r] = "lockWait"
          /\ \A q \in Runs \ {r} : UNCHANGED <<runs[q], cancel[q], phase[q]>>
      BY <1>2, <2>2 DEF DispatchRun, TypeOK, RunRow
    <3>. QED BY <2>1, <3>1 DEF RunInv
  <2>3. CASE runs' = [runs EXCEPT ![r].db = "aborted"] /\ UNCHANGED <<cancel, phase>>
    <3>1. runs'[r].db = "aborted" /\ \A q \in Runs \ {r} : UNCHANGED runs[q]
      BY <2>3 DEF TypeOK, RunRow
    <3>. QED BY <1>2, <2>1, <2>3, <3>1 DEF DispatchRun, RunInv
  <2>. QED BY <1>2, <2>2, <2>3 DEF DispatchRun
<1>3. CASE CancelAssistantRun(r)
  <2>1. runs'[r].db = "aborted" /\ \A q \in Runs \ {r} : UNCHANGED runs[q]
    BY <1>3 DEF CancelAssistantRun, TypeOK, RunRow
  <2>. QED BY <1>3, <2>1 DEF CancelAssistantRun, RunInv
<1>. QED BY <1>1, <1>2, <1>3 DEF AssistantStep

\* Every step keeps each run's row, cancel event and task in step.
LEMMA RunInvStep == TypeOK /\ DrainInv /\ RunInv /\ [Next]_vars => RunInv'
<1>. SUFFICES ASSUME TypeOK, DrainInv, RunInv, [Next]_vars PROVE RunInv'
  OBVIOUS
<1>. USE DEF LiveRun, Orphan, AwaitsHandoff, UnderRunLock, queueVars, runVars, lockVars,
             bootVars, deathVars
<1>1. ASSUME UNCHANGED <<runs, phase, cancel>>,
             mode' = mode \/ (mode # "down" /\ mode' # "down")
      PROVE  RunInv'
  BY <1>1 DEF RunInv
<1>2. ASSUME NEW j \in Jobs, QueueStep(j) PROVE UNCHANGED <<runs, phase, cancel, mode>>
  BY <1>2
     DEF QueueStep, WriterTurn, WriterTimesOut, WriterGranted, ReaderStarts,
         JobEnds, BackoffElapses
<1>3. ASSUME NEW e \in Endpoints, EndpointStep(e)
      PROVE  UNCHANGED <<runs, phase, cancel, mode>>
  BY <1>3
     DEF EndpointStep, EndpointStarts, EndpointGivesUp, EndpointGranted, EndpointEnds
<1>4. CASE ProcessStep
  <2>1. CASE Crash \/ Exit
    BY <2>1 DEF Crash, Exit, Volatile, RunInv
  <2>2. CASE BootAbortsRuns
    <3>0. \A r \in Runs : runs[r] \in RunRow /\ "aborted" \in RunStatuses
      BY DEF TypeOK, RunStatuses
    <3>1. \A r \in Runs : [runs[r] EXCEPT !.db = "aborted"].db = "aborted"
      BY <3>0, WrittenRun
    <3>2. \A r \in Runs : /\ Orphan(r) => runs'[r].db = "aborted"
                          /\ ~Orphan(r) => runs'[r] = runs[r]
      BY <2>2, <3>1 DEF BootAbortsRuns
    <3>3. mode = "down" /\ mode' # "down" /\ UNCHANGED <<phase, cancel>>
      BY <2>2 DEF BootAbortsRuns
    <3>. QED BY <3>2, <3>3 DEF RunInv
  <2>3. CASE Sweep \/ Close \/ BootRecoversJobs \/ BootQueuesRepair \/ BootDone
    BY <2>3, <1>1 DEF Sweep, Close, BootRecoversJobs, BootQueuesRepair, BootDone
  <2>. QED BY <1>4, <2>1, <2>2, <2>3 DEF ProcessStep
<1>5. ASSUME NEW j \in Jobs, DatabaseFails(j) PROVE UNCHANGED <<runs, phase, cancel, mode>>
  BY <1>5 DEF DatabaseFails
<1>. QED
  BY <1>1, <1>2, <1>3, <1>4, <1>5, RunInvRunStep, RunInvAssistant
     DEF Next, Enqueue, Drain, DrainEnds, vars

\* A run has a cancel event exactly while it has a task, and its row says so
\* (RunInv).
THEOREM RunInvCorrect == Spec => []RunInv
<1>1. Init => RunInv
  BY DEF Init, RunInv, LiveRun, Orphan, AwaitsHandoff, UnderRunLock, AbsentRun
<1>. QED BY <1>1, RunInvStep, TypeCorrect, DrainCorrect, PTL DEF Spec

\* `_cancels` names exactly the runs with a coroutine, and of the runs the table calls
\* queued or running it lacks exactly those a dispatch job has still to hand over,
\* whatever dies in between: no leftover entry closes the queue to writers for the
\* life of the process, and no handed-over run is without a coroutine
\* (InFlightIsExact).
THEOREM InFlightCorrect == Spec => []InFlightIsExact
<1>1. RunInv => InFlightIsExact
  BY DEF RunInv, InFlightIsExact, Orphan
<1>. QED BY <1>1, RunInvCorrect, PTL

\* A run cancelled in the queue never reaches the engine (CancelledInQueueNeverBuilds).
THEOREM CancelledCorrect == Spec => []CancelledInQueueNeverBuilds
<1>1. RunInv => CancelledInQueueNeverBuilds
  BY DEF RunInv, CancelledInQueueNeverBuilds
<1>. QED BY <1>1, RunInvCorrect, PTL

-----------------------------------------------------------------------------
(* Resume runs. *)

Scheduled == {r \in Runs : runs[r].trigger = "schedule"}
Resumed == {r \in Runs : runs[r].trigger = "resume"}

\* Scheduled runs that neither are in flight nor wait for a boot to resume them: each has
\* room for one resume run, that it may have had.
Spent == {r \in Scheduled : ~LiveRun(r) /\ r \notin plan}

ResumeInv ==
  /\ \A r \in Runs : runs[r].db = "absent" => runs[r].trigger = "none"
  /\ \A r \in plan : r \in Scheduled /\ ~LiveRun(r)
  /\ Cardinality(Resumed) <= Cardinality(Spent)

LEMMA RunSetsAreFinite ==
  ASSUME NEW S \in SUBSET Runs
  PROVE  IsFiniteSet(S) /\ Cardinality(S) \in Nat
<1>1. IsFiniteSet(S)
  BY RunsAssumption, FS_Subset
<1>. QED BY <1>1, FS_CardinalityType

\* A step that starts no run, revives none, and plans to resume only what it found live or
\* planned.
LEMMA NoResume ==
  ASSUME ResumeInv, plan \in SUBSET Runs,
         \A r \in Runs : /\ runs'[r].trigger = runs[r].trigger
                         /\ LiveRun(r)' => LiveRun(r)
                         /\ runs'[r].db = "absent" => runs[r].db = "absent",
         \A r \in plan' : r \in plan \/ (r \in Scheduled /\ LiveRun(r) /\ ~LiveRun(r)')
  PROVE  ResumeInv'
<1>1. Resumed' = Resumed /\ Scheduled' = Scheduled
  BY DEF Resumed, Scheduled
<1>2. Spent \subseteq Spent' /\ Spent \in SUBSET Runs /\ Spent' \in SUBSET Runs
      /\ Resumed \in SUBSET Runs
  BY <1>1 DEF Spent, Scheduled, Resumed
<1>3. Cardinality(Spent) <= Cardinality(Spent')
  BY <1>2, RunSetsAreFinite, FS_Subset
<1>4. Cardinality(Resumed') <= Cardinality(Spent')
  BY <1>1, <1>2, <1>3, RunSetsAreFinite DEF ResumeInv
<1>5. \A r \in plan' : r \in Scheduled' /\ ~LiveRun(r)'
  BY <1>1 DEF ResumeInv
<1>. QED BY <1>4, <1>5 DEF ResumeInv

\* A run the server was asked for: live at once, so it takes no room.
LEMMA NewRunKeepsResumes ==
  ASSUME TypeOK, ResumeInv, NEW r \in Runs, NEW j \in Nat,
         NEW trigger \in {"schedule", "manual", "assistant"},
         r \in AbsentRuns, runs' = [runs EXCEPT ![r] = QueuedRun(trigger, j)], plan' = plan
  PROVE  ResumeInv'
<1>0. /\ runs[r].db = "absent" /\ runs[r].trigger = "none"
      /\ QueuedRun(trigger, j).db = "queued" /\ QueuedRun(trigger, j).trigger = trigger
  BY DEF AbsentRuns, ResumeInv, QueuedRun, AbsentRun
<1>1. /\ runs[r].db = "absent" /\ runs[r].trigger = "none" /\ plan' = plan
      /\ runs'[r].db = "queued" /\ runs'[r].trigger = trigger
      /\ \A q \in Runs \ {r} : runs'[q] = runs[q]
  BY <1>0 DEF TypeOK
<1>2. \A q \in Runs : /\ q = r => runs'[q].db = "queued" /\ runs'[q].trigger = trigger
                      /\ q # r => runs'[q] = runs[q]
  BY <1>1
<1>3. Resumed' = Resumed
  BY <1>1, <1>2 DEF Resumed
<1>4. r \notin plan
  BY <1>1 DEF ResumeInv, Scheduled
<1>5. Spent' = Spent
  BY <1>1, <1>2, <1>4 DEF Spent, Scheduled, LiveRun
<1>6. \A q \in plan' : q \in Scheduled' /\ ~LiveRun(q)'
  BY <1>1, <1>2, <1>4 DEF ResumeInv, Scheduled, LiveRun
<1>. QED BY <1>2, <1>3, <1>5, <1>6 DEF ResumeInv

\* A resume run takes the room of the scheduled run it finishes.
LEMMA ResumeKeepsResumes ==
  ASSUME TypeOK, ResumeInv, NEW s \in Runs, NEW r \in Runs, BootResumes(s, r)
  PROVE  ResumeInv'
<1>1. /\ runs[r].db = "absent" /\ runs[r].trigger = "none" /\ plan' = plan \ {s} /\ s \in plan
      /\ runs' = [runs EXCEPT ![r] = QueuedRun("resume", 0)]
      /\ QueuedRun("resume", 0).db = "queued" /\ QueuedRun("resume", 0).trigger = "resume"
  BY DEF BootResumes, Launch, AbsentRuns, ResumeInv, QueuedRun, AbsentRun
<1>2. \A q \in Runs : /\ q = r => runs'[q].db = "queued" /\ runs'[q].trigger = "resume"
                      /\ q # r => runs'[q] = runs[q]
  BY <1>1 DEF TypeOK
<1>3. s \in Scheduled /\ ~LiveRun(s) /\ s # r /\ r \notin plan
  BY <1>1 DEF ResumeInv, Scheduled
<1>4. Resumed' = Resumed \cup {r} /\ r \notin Resumed /\ Resumed \in SUBSET Runs
  BY <1>1, <1>2 DEF Resumed
<1>5. Spent' = Spent \cup {s} /\ s \notin Spent /\ Spent \in SUBSET Runs
  BY <1>1, <1>2, <1>3 DEF Spent, Scheduled, LiveRun
<1>6. /\ Cardinality(Resumed') = Cardinality(Resumed) + 1
      /\ Cardinality(Spent') = Cardinality(Spent) + 1
  BY <1>4, <1>5, RunSetsAreFinite, FS_AddElement
<1>7. Cardinality(Resumed') <= Cardinality(Spent')
  BY <1>4, <1>5, <1>6, RunSetsAreFinite DEF ResumeInv
<1>8. \A q \in plan' : q \in Scheduled' /\ ~LiveRun(q)'
  BY <1>1, <1>2, <1>3 DEF ResumeInv, Scheduled, LiveRun
<1>. QED BY <1>2, <1>7, <1>8 DEF ResumeInv

\* A run that ends keeps its trigger and is not brought back to life.
LEMMA EndKeepsResumes ==
  ASSUME TypeOK, ResumeInv, NEW r \in Runs, NEW status \in {"ok", "error", "aborted"},
         runs' = [runs EXCEPT ![r].db = status], plan' = plan
  PROVE  ResumeInv'
<1>0. plan \in SUBSET Runs /\ runs \in [Runs -> RunRow]
  BY DEF TypeOK
<1>1. \A q \in Runs : /\ runs'[q].trigger = runs[q].trigger
                      /\ LiveRun(q)' => LiveRun(q)
                      /\ runs'[q].db = "absent" => runs[q].db = "absent"
  BY <1>0 DEF LiveRun, RunRow
<1>. QED BY <1>0, <1>1, NoResume

\* Every other step of a run leaves its trigger alone and brings none back to life.
LEMMA RunKeepsResumes ==
  ASSUME TypeOK, RunInv, ResumeInv, NEW r \in Runs, RunStep(r)
  PROVE  ResumeInv'
<1>. USE DEF LiveRun, UnderRunLock, queueVars, runVars, lockVars, bootVars, deathVars
<1>0. plan \in SUBSET Runs /\ runs \in [Runs -> RunRow]
  BY DEF TypeOK
<1>1. ASSUME UNCHANGED <<runs, plan>> PROVE ResumeInv'
  BY <1>0, <1>1, NoResume
<1>2. ASSUME NEW status \in {"ok", "error", "aborted"}, runs' = [runs EXCEPT ![r].db = status],
             plan' = plan
      PROVE  ResumeInv'
  BY <1>2, EndKeepsResumes
<1>3. CASE RunBegins(r)
  <2>1. CASE RunOver(r, "aborted") \/ RunOver(r, "error")
    BY <1>2, <1>3, <2>1 DEF RunBegins, RunOver
  <2>2. CASE cancel[r] # "set" /\ runs' = [runs EXCEPT ![r].db = "running"]
    <3>1. runs[r].db = "queued" /\ plan' = plan
      BY <1>3, <2>2 DEF RunBegins, RunInv
    <3>2. \A q \in Runs : /\ runs'[q].trigger = runs[q].trigger
                          /\ LiveRun(q)' => LiveRun(q)
                          /\ runs'[q].db = "absent" => runs[q].db = "absent"
      BY <1>0, <2>2, <3>1
    <3>. QED BY <1>0, <3>1, <3>2, NoResume
  <2>. QED BY <1>3, <2>1, <2>2 DEF RunBegins
<1>4. CASE RunBuilt(r) \/ RunGranted(r) \/ EngineReturns(r)
  BY <1>1, <1>4 DEF RunBuilt, RunGranted, EngineReturns
<1>5. CASE RunBuildFails(r) \/ EngineRaises(r)
  BY <1>2, <1>5 DEF RunBuildFails, EngineRaises, RunOver
<1>6. CASE RunSettles(r)
  <2>1. PICK status \in {"ok", "error", "aborted"} : RunOver(r, status)
    BY <1>6 DEF RunSettles
  <2>. QED BY <1>2, <1>6, <2>1 DEF RunSettles, RunOver
<1>7. CASE CancelRun(r)
  BY <1>1, <1>2, <1>7 DEF CancelRun
<1>8. ASSUME NEW trigger \in {"schedule", "manual"}, StartRun(r, trigger) PROVE ResumeInv'
  BY <1>8, NewRunKeepsResumes DEF StartRun, Launch
<1>9. ASSUME NEW s \in Runs, BootResumes(s, r) PROVE ResumeInv'
  BY <1>9, ResumeKeepsResumes
<1>. QED BY <1>3, <1>4, <1>5, <1>6, <1>7, <1>8, <1>9 DEF RunStep

\* An assistant's run is queued with a trigger of its own, handed over, or ended.
LEMMA AssistantKeepsResumes ==
  ASSUME TypeOK, ResumeInv, NEW r \in Runs, AssistantStep(r)
  PROVE  ResumeInv'
<1>. USE DEF queueVars, runVars, lockVars, bootVars, deathVars
<1>1. CASE QueueAssistantRun(r)
  <2>1. PICK j \in Jobs : runs' = [runs EXCEPT ![r] = QueuedRun("assistant", j)]
    BY <1>1 DEF QueueAssistantRun
  <2>2. j \in Nat /\ r \in AbsentRuns /\ plan' = plan
    BY <1>1, PlexWorkAssumption DEF QueueAssistantRun, Jobs
  <2>. QED BY <2>1, <2>2, NewRunKeepsResumes
<1>2. CASE DispatchRun(r) /\ runs' = [runs EXCEPT ![r].handed = TRUE]
  <2>0. plan \in SUBSET Runs /\ runs \in [Runs -> RunRow] /\ plan' = plan
    BY <1>2 DEF TypeOK, DispatchRun
  <2>1. \A q \in Runs : /\ runs'[q].trigger = runs[q].trigger
                        /\ LiveRun(q)' => LiveRun(q)
                        /\ runs'[q].db = "absent" => runs[q].db = "absent"
    BY <1>2, <2>0 DEF LiveRun, RunRow
  <2>. QED BY <2>0, <2>1, NoResume
<1>3. CASE /\ DispatchRun(r) \/ CancelAssistantRun(r)
           /\ runs' = [runs EXCEPT ![r].db = "aborted"]
  BY <1>3, EndKeepsResumes DEF DispatchRun, CancelAssistantRun
<1>. QED BY <1>1, <1>2, <1>3 DEF AssistantStep, DispatchRun, CancelAssistantRun

\* Every step leaves each scheduled run room for one resume run at most.
LEMMA ResumeInvStep == TypeOK /\ RunInv /\ ResumeInv /\ [Next]_vars => ResumeInv'
<1>. SUFFICES ASSUME TypeOK, RunInv, ResumeInv, [Next]_vars PROVE ResumeInv'
  OBVIOUS
<1>. USE DEF queueVars, runVars, lockVars, bootVars, deathVars
<1>0. plan \in SUBSET Runs /\ runs \in [Runs -> RunRow]
  BY DEF TypeOK
<1>1. ASSUME UNCHANGED runs, plan' \subseteq plan PROVE ResumeInv'
  BY <1>0, <1>1, NoResume DEF LiveRun
<1>2. ASSUME NEW j \in Jobs, QueueStep(j) PROVE UNCHANGED <<runs, plan>>
  BY <1>2
     DEF QueueStep, WriterTurn, WriterTimesOut, WriterGranted, ReaderStarts,
         JobEnds, BackoffElapses
<1>3. ASSUME NEW e \in Endpoints, EndpointStep(e) PROVE UNCHANGED <<runs, plan>>
  BY <1>3
     DEF EndpointStep, EndpointStarts, EndpointGivesUp, EndpointGranted, EndpointEnds
<1>4. CASE ProcessStep
  <2>1. CASE BootAbortsRuns
    <3>1. \A r \in Runs : /\ runs'[r].trigger = runs[r].trigger
                          /\ LiveRun(r)' => LiveRun(r)
                          /\ Orphan(r) => ~LiveRun(r)'
                          /\ runs'[r].db = "absent" => runs[r].db = "absent"
      BY <1>0, <2>1 DEF BootAbortsRuns, LiveRun, RunRow
    <3>2. \A r \in plan' : r \in Scheduled /\ LiveRun(r) /\ ~LiveRun(r)'
      BY <2>1, <3>1 DEF BootAbortsRuns, Orphan, Scheduled, Resumable
    <3>. QED BY <1>0, <3>1, <3>2, NoResume
  <2>2. CASE Crash \/ Exit \/ Sweep \/ Close \/ BootRecoversJobs \/ BootQueuesRepair \/ BootDone
    BY <1>1, <2>2 DEF Crash, Exit, Volatile, Sweep, Close, BootRecoversJobs, BootQueuesRepair,
                      BootDone
  <2>. QED BY <1>4, <2>1, <2>2 DEF ProcessStep
<1>5. ASSUME NEW j \in Jobs, DatabaseFails(j) PROVE UNCHANGED <<runs, plan>>
  BY <1>5 DEF DatabaseFails
<1>. QED
  BY <1>1, <1>2, <1>3, <1>4, <1>5, RunKeepsResumes, AssistantKeepsResumes
     DEF Next, Enqueue, Drain, DrainEnds, vars

\* However often the process dies and whatever is launched or cancelled in between, a
\* scheduled run is finished by one resume run at most, and a resume run by none.
THEOREM ResumesCorrect == Spec => []ResumesAreBounded
<1>1. Init => ResumeInv
  <2>. SUFFICES ASSUME Init PROVE ResumeInv
    OBVIOUS
  <2>1. Resumed = {} /\ plan = {} /\ Spent \in SUBSET Runs
    BY DEF Init, Resumed, Spent, Scheduled, AbsentRun
  <2>2. Cardinality(Resumed) <= Cardinality(Spent)
    BY <2>1, RunSetsAreFinite, FS_EmptySet
  <2>. QED BY <2>1, <2>2 DEF Init, ResumeInv, AbsentRun
<1>2. ResumeInv => ResumesAreBounded
  <2>. SUFFICES ASSUME ResumeInv PROVE ResumesAreBounded
    OBVIOUS
  <2>1. Spent \subseteq Scheduled /\ Scheduled \in SUBSET Runs /\ Resumed \in SUBSET Runs
        /\ Spent \in SUBSET Runs
    BY DEF Spent, Scheduled, Resumed
  <2>2. Cardinality(Spent) <= Cardinality(Scheduled)
    BY <2>1, RunSetsAreFinite, FS_Subset
  <2>3. Cardinality(Resumed) <= Cardinality(Scheduled)
    BY <2>1, <2>2, RunSetsAreFinite DEF ResumeInv
  <2>. QED BY <2>3 DEF ResumesAreBounded, Resumed, Scheduled
<1>. QED BY <1>1, <1>2, ResumeInvStep, TypeCorrect, RunInvCorrect, PTL DEF Spec

-----------------------------------------------------------------------------
(* A verdict is final. *)

\* No step changes the row of a job that is done or failed.
LEMMA SettledJobStays ==
  ASSUME TypeOK, BudgetInv, [Next]_vars, NEW j \in Jobs, Settled(jobs[j])
  PROVE  jobs'[j].status = jobs[j].status /\ starts'[j] = starts[j]
<1>. USE DEF queueVars, runVars, lockVars, bootVars, deathVars
<1>0. task[j] = "none" /\ jobs[j].status \in {"done", "failed"} /\ jobs[j] \in Row
  BY DEF BudgetInv, Budget, Settled, TypeOK
<1>1. ASSUME NEW i \in Jobs, QueueStep(i)
      PROVE  jobs'[j].status = jobs[j].status /\ starts'[j] = starts[j]
  <2>1. CASE BackoffElapses(i)
    BY <1>0, <2>1 DEF BackoffElapses, TypeOK, Row
  <2>2. CASE ~BackoffElapses(i)
    <3>1. i # j
      BY <1>0, <1>1, <2>2
         DEF QueueStep, WriterTurn, HeadWriter, WriterTimesOut, WriterGranted,
             ReaderStarts, Admitted, JobEnds
    <3>. QED
      BY <1>1, <2>2, <3>1
         DEF QueueStep, WriterTurn, WriterTimesOut, WriterGranted, ReaderStarts,
             JobEnds, Execute, StandDown, TypeOK
  <2>. QED BY <2>1, <2>2
<1>2. ASSUME NEW r \in Runs, RunStep(r) PROVE UNCHANGED <<jobs, starts>>
  BY <1>2
     DEF RunStep, StartRun, RunBegins, RunBuilt, RunBuildFails, RunGranted,
         EngineReturns, EngineRaises, RunSettles, CancelRun, BootResumes
<1>3. ASSUME NEW e \in Endpoints, EndpointStep(e) PROVE UNCHANGED <<jobs, starts>>
  BY <1>3
     DEF EndpointStep, EndpointStarts, EndpointGivesUp, EndpointGranted, EndpointEnds
<1>4. ASSUME NEW k \in Kinds, Insert(k) PROVE jobs'[j] = jobs[j]
  BY <1>0, <1>4 DEF Insert, NextJob, AbsentJobs, TypeOK
<1>5. CASE ProcessStep
  BY <1>0, <1>4, <1>5
     DEF ProcessStep, Sweep, Sweepable, Crash, Close, Exit, Volatile,
         BootAbortsRuns, BootRecoversJobs, BootQueuesRepair, BootDone, Kinds
<1>6. ASSUME NEW kinds \in SUBSET Kinds, Drain(kinds) PROVE UNCHANGED <<jobs[j], starts>>
  BY <1>0, <1>6 DEF Drain, Claimable
<1>7. ASSUME NEW r \in Runs, AssistantStep(r) PROVE jobs'[j] = jobs[j] /\ UNCHANGED starts
  BY <1>4, <1>7
     DEF AssistantStep, QueueAssistantRun, DispatchRun, CancelAssistantRun, Kinds
<1>8. ASSUME NEW i \in Jobs, DatabaseFails(i) PROVE UNCHANGED <<jobs, starts>>
  BY <1>8 DEF DatabaseFails
<1>9. ASSUME NEW k \in AskedKinds, Enqueue(k) PROVE jobs'[j] = jobs[j] /\ UNCHANGED starts
  BY <1>4, <1>9, PlexWorkAssumption DEF Enqueue
<1>. QED
  BY <1>1, <1>2, <1>3, <1>5, <1>6, <1>7, <1>8, <1>9 DEF Next, DrainEnds, vars, Kinds

\* No step changes the row of a run that has its outcome.
LEMMA SettledRunStays ==
  ASSUME TypeOK, RunInv, [Next]_vars, NEW r \in Runs,
         runs[r].db \in {"ok", "error", "aborted"}
  PROVE  runs'[r].db = runs[r].db
<1>. USE DEF queueVars, runVars, lockVars, bootVars, deathVars
<1>1. ASSUME NEW q \in Runs, RunStep(q) PROVE runs'[r].db = runs[r].db
  <2>1. CASE q # r
    BY <1>1, <2>1
       DEF RunStep, StartRun, Launch, RunBegins, RunOver, RunBuilt, RunBuildFails,
           RunGranted, EngineReturns, EngineRaises, RunSettles, CancelRun,
           BootResumes, TypeOK
  <2>2. CASE q = r
    <3>1. /\ ~UnderRunLock(r)
          /\ phase[r] = "lockWait" => cancel[r] = "set" /\ runs[r].db = "aborted"
      BY DEF RunInv
    <3>2. CASE RunBegins(r)
      <4>1. RunOver(r, "aborted") /\ runs[r].db = "aborted"
        BY <3>1, <3>2 DEF RunBegins
      <4>. QED BY <4>1 DEF RunOver, TypeOK, RunRow
    <3>3. CASE ~RunBegins(r)
      BY <1>1, <2>2, <3>1, <3>3
         DEF RunStep, StartRun, AbsentRuns, RunBuilt, RunBuildFails, RunGranted,
             EngineReturns, EngineRaises, RunSettles, CancelRun, BootResumes, UnderRunLock,
             TypeOK
    <3>. QED BY <3>2, <3>3
  <2>. QED BY <2>1, <2>2
<1>2. ASSUME NEW j \in Jobs, QueueStep(j) PROVE UNCHANGED runs
  BY <1>2
     DEF QueueStep, WriterTurn, WriterTimesOut, WriterGranted, ReaderStarts,
         JobEnds, BackoffElapses
<1>3. ASSUME NEW e \in Endpoints, EndpointStep(e) PROVE UNCHANGED runs
  BY <1>3
     DEF EndpointStep, EndpointStarts, EndpointGivesUp, EndpointGranted, EndpointEnds
<1>4. CASE ProcessStep
  <2>1. CASE BootAbortsRuns
    <3>1. ~Orphan(r)
      BY DEF Orphan, LiveRun
    <3>. QED BY <2>1, <3>1 DEF BootAbortsRuns
  <2>2. CASE ~BootAbortsRuns
    BY <1>4, <2>2
       DEF ProcessStep, Sweep, Crash, Close, Exit, Volatile, BootRecoversJobs,
           BootQueuesRepair, BootDone
  <2>. QED BY <2>1, <2>2
<1>5. ASSUME NEW q \in Runs, AssistantStep(q) PROVE runs'[r].db = runs[r].db
  BY <1>5
     DEF AssistantStep, QueueAssistantRun, DispatchRun, CancelAssistantRun, AwaitsHandoff,
         AbsentRuns, TypeOK, RunRow
<1>6. ASSUME NEW j \in Jobs, DatabaseFails(j) PROVE UNCHANGED runs
  BY <1>6 DEF DatabaseFails
<1>. QED
  BY <1>1, <1>2, <1>3, <1>4, <1>5, <1>6 DEF Next, Enqueue, Drain, DrainEnds, vars

\* A settled job is never executed again and keeps its verdict, and a settled run
\* its status, whatever is swept, cancelled or resumed (SettledIsFinal).
THEOREM SettledCorrect == Spec => SettledIsFinal
<1>1. TypeOK /\ BudgetInv /\ RunInv /\ [Next]_vars
        => [/\ \A j \in Jobs : Settled(jobs[j])
                                 => /\ jobs'[j].status = jobs[j].status
                                    /\ starts'[j] = starts[j]
            /\ \A r \in Runs : runs[r].db \in {"ok", "error", "aborted"}
                                 => runs'[r].db = runs[r].db]_vars
  BY SettledJobStays, SettledRunStays
<1>. QED
  BY <1>1, TypeCorrect, BudgetCorrect, RunInvCorrect, PTL DEF Spec, SettledIsFinal

-----------------------------------------------------------------------------
(* The promise: PlexWork implements WorkPromise. *)

\* A queue without rows owes nothing.
LEMMA PromiseInit == Init => Promise!Init
<1>. SUFFICES ASSUME Init PROVE Promise!Init
  OBVIOUS
<1>1. Writer = NoOne
  BY DEF Init, Writer
<1>2. \A j \in Jobs : jobs[j].status = "absent" /\ starts[j] = 0
  BY DEF Init, AbsentRow
<1>3. Owed = [j \in Jobs |-> "unknown"]
  BY <1>2 DEF Owed
<1>4. Attempted = [j \in Jobs |-> FALSE]
  <2>1. \A j \in Jobs : (starts[j] > 0) = FALSE
    BY <1>2
  <2>. QED BY <2>1, Zenon DEF Attempted
<1>. QED BY <1>1, <1>3, <1>4 DEF Promise!Init

\* The four things a step can do to the work.
LEMMA WorkStands ==
  ASSUME \A j \in Jobs : /\ starts'[j] = starts[j]
                         /\ \/ jobs'[j].status = jobs[j].status
                            \/ /\ jobs[j].status \in {"queued", "running"}
                               /\ jobs'[j].status \in {"queued", "running"}
  PROVE  UNCHANGED <<Owed, Attempted>>
  BY DEF Owed, Attempted, Settled

\* An inserted row is work accepted.
LEMMA WorkAccepted ==
  ASSUME TypeOK, NEW k \in Kinds, Insert(k), UNCHANGED starts
  PROVE  \E j \in Jobs : Promise!Accept(j)
<1>1. PICK j \in Jobs : jobs[j].status = "absent"
                        /\ jobs' = [jobs EXCEPT ![j] = EnqueuedRow(k)]
  BY DEF Insert, NextJob, AbsentJobs
<1>2. jobs'[j].status = "queued" /\ \A i \in Jobs \ {j} : jobs'[i] = jobs[i]
  BY <1>1 DEF EnqueuedRow, AbsentRow, TypeOK
<1>3. Owed[j] = "unknown" /\ Owed' = [Owed EXCEPT ![j] = "owed"]
  BY <1>1, <1>2 DEF Owed, Settled
<1>4. UNCHANGED Attempted
  BY DEF Attempted
<1>. QED BY <1>3, <1>4 DEF Promise!Accept

\* A handler that starts is an attempt at work that is owed.
LEMMA WorkAttempted ==
  ASSUME TypeOK, NEW j \in Jobs, Execute(j), Budget(j), task[j] \in {"parked", "waiting"}
  PROVE  Promise!Attempt(j)
<1>1. jobs[j].status # "absent" /\ ~Settled(jobs[j]) /\ starts[j] \in Nat
  BY DEF Budget, TypeOK
<1>2. jobs'[j].status = jobs[j].status /\ \A i \in Jobs \ {j} : jobs'[i] = jobs[i]
  <2>1. jobs[j] \in Row
    BY DEF TypeOK
  <2>2. Started(jobs[j]).status = jobs[j].status
    BY <2>1, RowOpsKeep
  <2>. QED BY <2>2 DEF Execute, TypeOK
<1>3. starts'[j] > 0 /\ \A i \in Jobs \ {j} : starts'[i] = starts[i]
  BY <1>1 DEF Execute, TypeOK
<1>4. Owed[j] = "owed" /\ UNCHANGED Owed
  BY <1>1, <1>2 DEF Owed, Settled
<1>5. Attempted' = [Attempted EXCEPT ![j] = TRUE]
  BY <1>3 DEF Attempted
<1>. QED BY <1>4, <1>5 DEF Promise!Attempt

\* A handler that ends settles its work, or leaves it owed for a retry.
LEMMA WorkSettled ==
  ASSUME TypeOK, NEW j \in Jobs, JobEnds(j), Budget(j)
  PROVE  Promise!Settle(j) \/ UNCHANGED <<Owed, Attempted>>
<1>1. /\ jobs[j].status \in {"queued", "running"} /\ starts[j] > 0
      /\ UNCHANGED starts
  BY DEF JobEnds, Budget, Settled, TypeOK, Row, Statuses
<1>2. PICK ok \in BOOLEAN : jobs' = [jobs EXCEPT ![j] = Finished(jobs[j], ok)]
  BY DEF JobEnds
<1>3. Finished(jobs[j], ok).status \in {"done", "queued", "failed"}
  <2>1. jobs[j] \in Row
    BY DEF TypeOK
  <2>. QED BY <2>1, RowOpsKeep
<1>4. /\ jobs'[j].status \in {"done", "queued", "failed"}
      /\ \A i \in Jobs \ {j} : jobs'[i] = jobs[i]
  BY <1>2, <1>3 DEF TypeOK
<1>5. CASE jobs'[j].status = "queued"
  BY <1>1, <1>4, <1>5, WorkStands
<1>6. CASE jobs'[j].status \in {"done", "failed"}
  <2>1. Owed[j] = "owed" /\ Owed' = [Owed EXCEPT ![j] = jobs'[j].status]
    BY <1>1, <1>4, <1>6 DEF Owed, Settled
  <2>2. Attempted[j] /\ UNCHANGED Attempted
    BY <1>1 DEF Attempted
  <2>. QED BY <1>6, <2>1, <2>2 DEF Promise!Settle
<1>. QED BY <1>4, <1>5, <1>6

WorkMoves ==
  \/ \E j \in Jobs : Promise!Accept(j) \/ Promise!Attempt(j) \/ Promise!Settle(j)
  \/ UNCHANGED <<Owed, Attempted>>

\* A step of a job's coroutine is one step of the promise, or none.
LEMMA WorkQueueStep ==
  ASSUME TypeOK, BudgetInv, NEW j \in Jobs, QueueStep(j)
  PROVE  WorkMoves
<1>. USE DEF queueVars, runVars, lockVars, bootVars, deathVars
<1>0. Budget(j) /\ jobs[j] \in Row
  BY DEF BudgetInv, TypeOK
<1>1. ASSUME Execute(j), task[j] \in {"parked", "waiting"} PROVE WorkMoves
  BY <1>0, <1>1, WorkAttempted DEF WorkMoves
<1>2. ASSUME StandDown(j) PROVE WorkMoves
  <2>1. Released(jobs[j]).status =
          IF jobs[j].status = "running" THEN "queued" ELSE jobs[j].status
    BY <1>0, RowOpsKeep
  <2>. QED BY <1>2, <2>1, WorkStands DEF StandDown, TypeOK, WorkMoves
<1>3. ASSUME UNCHANGED <<jobs, starts>> PROVE WorkMoves
  BY <1>3, WorkStands DEF WorkMoves
<1>4. CASE BackoffElapses(j)
  BY <1>0, <1>4, WorkStands DEF BackoffElapses, TypeOK, Row, WorkMoves
<1>5. CASE JobEnds(j)
  BY <1>0, <1>5, WorkSettled DEF WorkMoves
<1>. QED
  BY <1>1, <1>2, <1>3, <1>4, <1>5
     DEF QueueStep, WriterTurn, HeadWriter, WriterTimesOut, WriterGranted,
         ReaderStarts, Admitted

\* Every step of the server is one step of the promised work, or none.
LEMMA WorkStep == TypeOK /\ BudgetInv /\ [Next]_vars => WorkMoves
<1>. SUFFICES ASSUME TypeOK, BudgetInv, [Next]_vars PROVE WorkMoves
  OBVIOUS
<1>. USE DEF queueVars, runVars, lockVars, bootVars, deathVars
<1>0. \A j \in Jobs : /\ jobs[j] \in Row
                      /\ Claimed(jobs[j]).status = "running"
                      /\ Requeued(jobs[j]).status = "queued"
  BY RowOpsKeep DEF TypeOK
<1>1. ASSUME UNCHANGED <<jobs, starts>> PROVE WorkMoves
  BY <1>1, WorkStands DEF WorkMoves
<1>2. ASSUME NEW k \in Kinds, Insert(k), UNCHANGED starts PROVE WorkMoves
  BY <1>2, WorkAccepted DEF WorkMoves
<1>3. ASSUME NEW kinds \in SUBSET Kinds, Drain(kinds) PROVE WorkMoves
  BY <1>0, <1>3, WorkStands DEF Drain, Claimable, WorkMoves
<1>4. ASSUME NEW r \in Runs, RunStep(r) PROVE UNCHANGED <<jobs, starts>>
  BY <1>4
     DEF RunStep, StartRun, RunBegins, RunBuilt, RunBuildFails, RunGranted,
         EngineReturns, EngineRaises, RunSettles, CancelRun, BootResumes
<1>5. ASSUME NEW e \in Endpoints, EndpointStep(e) PROVE UNCHANGED <<jobs, starts>>
  BY <1>5
     DEF EndpointStep, EndpointStarts, EndpointGivesUp, EndpointGranted, EndpointEnds
<1>6. CASE ProcessStep
  <2>1. CASE Sweep
    BY <1>0, <2>1, WorkStands DEF Sweep, Sweepable, WorkMoves
  <2>2. CASE BootRecoversJobs
    BY <1>0, <2>2, WorkStands DEF BootRecoversJobs, Sweepable, WorkMoves
  <2>3. CASE BootQueuesRepair
    BY <1>1, <1>2, <2>3 DEF BootQueuesRepair, Kinds
  <2>. QED
    BY <1>6, <1>1, <2>1, <2>2, <2>3
       DEF ProcessStep, Crash, Close, Exit, Volatile, BootAbortsRuns, BootDone
<1>7. ASSUME NEW r \in Runs, AssistantStep(r) PROVE WorkMoves
  BY <1>1, <1>2, <1>7
     DEF AssistantStep, QueueAssistantRun, DispatchRun, CancelAssistantRun, Kinds
<1>8. ASSUME NEW j \in Jobs, DatabaseFails(j) PROVE UNCHANGED <<jobs, starts>>
  BY <1>8 DEF DatabaseFails
<1>9. ASSUME NEW k \in AskedKinds, Enqueue(k) PROVE WorkMoves
  BY <1>2, <1>9, PlexWorkAssumption DEF Enqueue
<1>. QED
  BY <1>1, <1>3, <1>4, <1>5, <1>6, <1>7, <1>8, <1>9, WorkQueueStep
     DEF Next, DrainEnds, vars, Kinds

\* A party starts to write only under a free lock or a lock it was handed.
LEMMA WritersGrow ==
  ASSUME TypeOK, HolderInv, RowsKeep, [Next]_vars
  PROVE  \A a \in PlexWriters' : a = holder \/ holder = NoOne
<1>. USE DEF queueVars, runVars, lockVars, bootVars, deathVars
<1>1. ASSUME NEW j \in Jobs, task'[j] = "running", WritesPlex(jobs[j])'
      PROVE  j = holder \/ holder = NoOne
  <2>1. ASSUME task[j] = "running" PROVE j = holder
    <3>1. WritesPlex(jobs[j])
      BY <1>1, <2>1 DEF RowsKeep, HolderInv, WritesPlex
    <3>. QED BY <2>1, <3>1 DEF HolderInv
  <2>2. ASSUME NEW i \in Jobs, QueueStep(i), task[j] # "running"
        PROVE  j = holder \/ holder = NoOne
    <3>1. i = j
      BY <1>1, <2>2
         DEF QueueStep, WriterTurn, WriterTimesOut, WriterGranted, ReaderStarts,
             JobEnds, BackoffElapses, Execute, StandDown, TypeOK
    <3>2. CASE ReaderStarts(j)
      <4>1. ~WritesPlex(jobs[j]) /\ jobs[j].status # "absent"
        BY <3>2 DEF ReaderStarts, Admitted, HolderInv
      <4>. QED BY <1>1, <4>1 DEF RowsKeep, WritesPlex
    <3>. QED
      BY <1>1, <2>2, <3>1, <3>2
         DEF QueueStep, WriterTurn, LockFree, WriterTimesOut, WriterGranted,
             JobEnds, BackoffElapses, StandDown, TypeOK
  <2>3. ASSUME ~\E i \in Jobs : QueueStep(i), task[j] # "running" PROVE FALSE
    <3>1. CASE \E r \in Runs : RunStep(r)
      BY <1>1, <2>3, <3>1
         DEF RunStep, StartRun, RunBegins, RunBuilt, RunBuildFails, RunGranted,
             EngineReturns, EngineRaises, RunSettles, CancelRun, BootResumes
    <3>2. CASE \E e \in Endpoints : EndpointStep(e)
      BY <1>1, <2>3, <3>2
         DEF EndpointStep, EndpointStarts, EndpointGivesUp, EndpointGranted,
             EndpointEnds
    <3>3. CASE ProcessStep
      BY <1>1, <2>3, <3>3
         DEF ProcessStep, Sweep, Crash, Close, Exit, Volatile, BootAbortsRuns,
             BootRecoversJobs, BootQueuesRepair, BootDone
    <3>4. CASE Drain(Kinds) \/ Drain({"credit"})
      BY <1>1, <2>3, <3>4 DEF Drain, TypeOK
    <3>5. CASE \E r \in Runs : AssistantStep(r)
      BY <1>1, <2>3, <3>5
         DEF AssistantStep, QueueAssistantRun, DispatchRun, CancelAssistantRun
    <3>6. CASE \E i \in Jobs : DatabaseFails(i)
      BY <1>1, <2>3, <3>6 DEF DatabaseFails
    <3>. QED
      BY <1>1, <2>3, <3>1, <3>2, <3>3, <3>4, <3>5, <3>6 DEF Next, Enqueue, DrainEnds, vars
  <2>. QED BY <1>1, <2>1, <2>2, <2>3
<1>2. ASSUME NEW r \in Runs, phase'[r] = "engine" PROVE r = holder \/ holder = NoOne
  <2>1. CASE \E j \in Jobs : QueueStep(j)
    BY <1>2, <2>1
       DEF QueueStep, WriterTurn, WriterTimesOut, WriterGranted, ReaderStarts,
           JobEnds, BackoffElapses, HolderInv
  <2>2. CASE \E q \in Runs : RunStep(q)
    BY <1>2, <2>2
       DEF RunStep, StartRun, Launch, RunBegins, RunOver, RunBuilt, LockFree,
           RunBuildFails, RunGranted, EngineReturns, EngineRaises, RunSettles,
           CancelRun, BootResumes, HolderInv, TypeOK
  <2>3. CASE \E e \in Endpoints : EndpointStep(e)
    BY <1>2, <2>3
       DEF EndpointStep, EndpointStarts, EndpointGivesUp, EndpointGranted,
           EndpointEnds, HolderInv
  <2>4. CASE ProcessStep
    BY <1>2, <2>4
       DEF ProcessStep, Sweep, Crash, Close, Exit, Volatile, BootAbortsRuns,
           BootRecoversJobs, BootQueuesRepair, BootDone, HolderInv
  <2>5. CASE \E q \in Runs : AssistantStep(q)
    BY <1>2, <2>5
       DEF AssistantStep, QueueAssistantRun, DispatchRun, CancelAssistantRun, HolderInv,
           TypeOK
  <2>6. CASE \E j \in Jobs : DatabaseFails(j)
    BY <1>2, <2>6 DEF DatabaseFails, HolderInv
  <2>. QED
    BY <1>2, <2>1, <2>2, <2>3, <2>4, <2>5, <2>6
       DEF Next, Enqueue, Drain, DrainEnds, vars, HolderInv
<1>3. ASSUME NEW e \in Endpoints, endpoint'[e] = "writing"
      PROVE  e = holder \/ holder = NoOne
  <2>1. CASE \E j \in Jobs : QueueStep(j)
    BY <1>3, <2>1
       DEF QueueStep, WriterTurn, WriterTimesOut, WriterGranted, ReaderStarts,
           JobEnds, BackoffElapses, HolderInv
  <2>2. CASE \E r \in Runs : RunStep(r)
    BY <1>3, <2>2
       DEF RunStep, StartRun, RunBegins, RunBuilt, RunBuildFails, RunGranted,
           EngineReturns, EngineRaises, RunSettles, CancelRun, BootResumes, HolderInv
  <2>3. CASE \E f \in Endpoints : EndpointStep(f)
    BY <1>3, <2>3
       DEF EndpointStep, EndpointStarts, LockFree, EndpointGivesUp, EndpointGranted,
           EndpointEnds, HolderInv, TypeOK
  <2>4. CASE ProcessStep
    BY <1>3, <2>4
       DEF ProcessStep, Sweep, Crash, Close, Exit, Volatile, BootAbortsRuns,
           BootRecoversJobs, BootQueuesRepair, BootDone, HolderInv
  <2>5. CASE \E r \in Runs : AssistantStep(r)
    BY <1>3, <2>5
       DEF AssistantStep, QueueAssistantRun, DispatchRun, CancelAssistantRun, HolderInv,
           TypeOK
  <2>6. CASE \E j \in Jobs : DatabaseFails(j)
    BY <1>3, <2>6 DEF DatabaseFails, HolderInv
  <2>. QED
    BY <1>3, <2>1, <2>2, <2>3, <2>4, <2>5, <2>6
       DEF Next, Enqueue, Drain, DrainEnds, vars, HolderInv
<1>. QED BY <1>1, <1>2, <1>3 DEF PlexWriters

\* Every step begins one write, ends one, or leaves the writer as it is.
LEMMA WriterStep ==
  ASSUME TypeOK, TypeOK', HolderInv, HolderInv', [Next]_vars
  PROVE  Promise!BeginWrite \/ Promise!EndWrite \/ UNCHANGED Writer
<1>1. \A a \in PlexWriters' : a = holder \/ holder = NoOne
  BY StepsKeepRows, WritersGrow
<1>2. /\ \A a \in PlexWriters : a = holder
      /\ \A a \in PlexWriters' : a = holder'
  BY HolderWrites DEF HolderInv, PlexWriters
<1>3. PlexWriters \subseteq Agents /\ PlexWriters' \subseteq Agents /\ NoOne \notin Agents
  BY PlexWorkAssumption DEF PlexWriters, Agents
<1>. QED BY <1>1, <1>2, <1>3 DEF Writer, Promise!BeginWrite, Promise!EndWrite

\* The queue, the runs, the requests and the process together keep WorkPromise:
\* accepted work is owed until a verdict on an attempt that was really made, and
\* the writer changes only through nobody (KeepsPromise).
THEOREM PromiseKept == Spec => KeepsPromise
<1>1. TypeOK /\ TypeOK' /\ HolderInv /\ HolderInv' /\ BudgetInv /\ [Next]_vars
        => [Promise!Next]_<<Owed, Attempted, Writer>>
  BY WorkStep, WriterStep DEF Promise!Next, WorkMoves
<1>. QED
  BY <1>1, PromiseInit, TypeCorrect, HolderCorrect, BudgetCorrect, PTL
     DEF Spec, KeepsPromise, Promise!Spec

=============================================================================
