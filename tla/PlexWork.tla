------------------------------ MODULE PlexWork ------------------------------
(***************************************************************************)
(* Everything that may write to the one Plex server: the durable job queue  *)
(* and its drain (services/jobs.py), the engine runs (services/             *)
(* run_service.py), the two API handlers that take the writer lock          *)
(* themselves, and the boot and shutdown of the process they live in        *)
(* (main.py).                                                               *)
(*                                                                          *)
(* The server is one asyncio loop, so a stretch of code without an await is *)
(* one action.  In particular the whole claim loop of `_drain` is one: it   *)
(* awaits nothing, and a row another thread inserts meanwhile is claimed as *)
(* if it had been inserted just before or just after.                       *)
(***************************************************************************)
EXTENDS JobQueue, Sequences, FiniteSets

CONSTANTS
  MaxJobs,      \* bound: rows ever inserted in the jobs table
  AskedKinds,   \* bound: kinds of job the rest of the server asks for
  Runs,         \* bound: ids the runs table may hand out
  Endpoints,    \* bound: API requests that take the writer lock, one use each
  MaxParallel,  \* setting jobs.max_parallel_readonly
  MaxCrashes,   \* bound: times the process dies or is stopped
  MaxFaults,    \* bound: times a write of a job's own row fails
  NoOne         \* holder of a lock nobody holds

Jobs == 1..MaxJobs

Agents == Jobs \cup Runs \cup Endpoints

ASSUME PlexWorkAssumption ==
  /\ MaxJobs \in Nat
  /\ AskedKinds \subseteq Kinds \ {"dispatch"}
  /\ MaxParallel \in Nat \ {0}
  /\ MaxCrashes \in Nat
  /\ MaxFaults \in Nat
  /\ NoOne \notin Agents
  /\ Jobs \cap Runs = {}
  /\ Jobs \cap Endpoints = {}
  /\ Runs \cap Endpoints = {}

ASSUME RunsAssumption == IsFiniteSet(Runs)

VARIABLES
  jobs,         \* durable: the jobs table
  runs,         \* durable: the runs table
  mode,         \* where the process is in its life
  interrupted,  \* boot: did this boot abort a run?
  plan,         \* boot: scheduled runs still to be finished by a resume run
  drainLock,    \* _DRAIN_LOCK
  task,         \* the coroutine a drain has for a claimed job
  holder,       \* who holds plex_writer_lock() ...
  waiters,      \* ... and who waits for it, in asyncio's FIFO order
  phase,        \* the coroutine of a run
  cancel,       \* RunService._cancels: no entry, a clear Event, a set one
  endpoint,     \* the API handlers
  starts,       \* history: handler executions of each job
  crashes,      \* history: how often the process died, ...
  stops,        \* ... how often it was told to stop ...
  faults        \* ... and how often a job's row could not be written

queueVars == <<jobs, drainLock, task, starts>>
runVars   == <<runs, phase, cancel>>
lockVars  == <<holder, waiters>>
bootVars  == <<mode, interrupted, plan>>
deathVars == <<crashes, stops, faults>>
vars == <<queueVars, runVars, lockVars, bootVars, endpoint, deathVars>>

RunStatuses == {"absent", "queued", "running", "ok", "error", "aborted"}
Triggers    == {"none", "schedule", "manual", "resume", "assistant"}
Phases      == {"off", "lockWait", "building", "writerWait", "engine",
                "settling", "settlingAborted"}
Modes       == {"down", "aborted", "recovered", "resuming", "up", "closing"}

\* handed: stats.assistant_handoff_at is set.  job: the dispatch job whose payload
\* names the run, 0 for a run the server launched itself.
RunRow == [db : RunStatuses, trigger : Triggers, handed : BOOLEAN, job : Nat]

AbsentRun == [db |-> "absent", trigger |-> "none", handed |-> FALSE, job |-> 0]

QueuedRun(trigger, j) ==
  [AbsentRun EXCEPT !.db = "queued", !.trigger = trigger, !.job = j]

TypeOK ==
  /\ jobs \in [Jobs -> Row]
  /\ runs \in [Runs -> RunRow]
  /\ mode \in Modes
  /\ interrupted \in BOOLEAN
  /\ plan \in SUBSET Runs
  /\ drainLock \in BOOLEAN
  /\ task \in [Jobs -> {"none", "parked", "waiting", "running"}]
  /\ holder \in Agents \cup {NoOne}
  /\ waiters \in Seq(Agents)
  /\ phase \in [Runs -> Phases]
  /\ cancel \in [Runs -> {"none", "clear", "set"}]
  /\ endpoint \in [Endpoints -> {"off", "waiting", "writing", "over"}]
  /\ starts \in [Jobs -> Nat]
  /\ crashes \in Nat
  /\ stops \in Nat
  /\ faults \in Nat

-----------------------------------------------------------------------------
(* Shared predicates. *)

\* RunService.is_running: a queued or cancelled run counts.
Busy == \E r \in Runs : cancel[r] # "none"

AbsentJobs == {j \in Jobs : jobs[j].status = "absent"}
AbsentRuns == {r \in Runs : runs[r].db = "absent"}

\* Ids are handed out in insertion order, which is also created_at order.
NextJob(j) == j \in AbsentJobs /\ \A i \in AbsentJobs : j <= i

Insert(k) ==
  \E j \in Jobs : NextJob(j) /\ jobs' = [jobs EXCEPT ![j] = EnqueuedRow(k)]

LiveRun(r) == runs[r].db \in {"queued", "running"}

\* An assistant's run whose dispatch job has not handed it over: the table calls it
\* queued, but nothing in the process knows of it.
AwaitsHandoff(r) ==
  runs[r].trigger = "assistant" /\ runs[r].db = "queued" /\ ~runs[r].handed

\* The `_lock` one run at a time executes under.
UnderRunLock(r) == phase[r] \notin {"off", "lockWait"}

\* The writers a drain claimed run one after the other, in claim order.
HeadWriter(j) ==
  /\ WritesPlex(jobs[j])
  /\ task[j] = "parked"
  /\ \A i \in Jobs \ {j} :
       WritesPlex(jobs[i]) => \/ task[i] = "none"
                              \/ task[i] = "parked" /\ i > j

-----------------------------------------------------------------------------
(* The asyncio.Lock both sides take. *)

LockFree == holder = NoOne /\ waiters = <<>>

Take(a) == holder' = a /\ UNCHANGED waiters

Queue(a) == waiters' = Append(waiters, a) /\ UNCHANGED holder

PassOn ==
  IF waiters = <<>>
  THEN holder' = NoOne /\ UNCHANGED waiters
  ELSE holder' = Head(waiters) /\ waiters' = Tail(waiters)

\* The waiter whose wait_for timed out or whose request was cancelled.
Leave(a) ==
  \E k \in 1..Len(waiters) :
    /\ waiters[k] = a
    /\ waiters' = [i \in 1..(Len(waiters) - 1) |->
                     IF i < k THEN waiters[i] ELSE waiters[i + 1]]
    /\ UNCHANGED holder

-----------------------------------------------------------------------------
(* The queue and its drain. *)

Enqueue(k) ==
  /\ mode = "up"
  /\ Insert(k)
  /\ UNCHANGED <<drainLock, task, starts, runVars, lockVars, bootVars,
                 endpoint, deathVars>>

\* Slip: a second drain may run beside the first.
Drain_unserialised(kinds) ==
  LET batch == {j \in Jobs : jobs[j].kind \in kinds /\ Claimable(jobs[j], Busy)}
  IN /\ mode = "up"
     /\ batch # {}
     /\ kinds = Kinds \/ ~Busy
     /\ drainLock' = TRUE
     /\ jobs' = [j \in Jobs |-> IF j \in batch THEN Claimed(jobs[j]) ELSE jobs[j]]
     /\ task' = [j \in Jobs |-> IF j \in batch THEN "parked" ELSE task[j]]
     /\ UNCHANGED <<starts, runVars, lockVars, bootVars, endpoint, deathVars>>

\* run_pending (any kind) and drain_kind (one kind, and not beside a run).
Drain(kinds) ==
  LET batch == {j \in Jobs : jobs[j].kind \in kinds /\ Claimable(jobs[j], Busy)}
  IN /\ mode = "up"
     /\ ~drainLock
     /\ batch # {}
     /\ kinds = Kinds \/ ~Busy
     /\ drainLock' = TRUE
     /\ jobs' = [j \in Jobs |-> IF j \in batch THEN Claimed(jobs[j]) ELSE jobs[j]]
     /\ task' = [j \in Jobs |-> IF j \in batch THEN "parked" ELSE task[j]]
     /\ UNCHANGED <<starts, runVars, lockVars, bootVars, endpoint, deathVars>>

DrainEnds ==
  /\ drainLock
  /\ \A j \in Jobs : task[j] = "none"
  /\ drainLock' = FALSE
  /\ UNCHANGED <<jobs, task, starts, runVars, lockVars, bootVars, endpoint, deathVars>>

\* `_execute` up to the handler call.
Execute(j) ==
  /\ jobs' = [jobs EXCEPT ![j] = Started(@)]
  /\ task' = [task EXCEPT ![j] = "running"]
  /\ starts' = [starts EXCEPT ![j] = @ + 1]

StandDown(j) ==
  /\ jobs' = [jobs EXCEPT ![j] = Released(@)]
  /\ task' = [task EXCEPT ![j] = "none"]
  /\ UNCHANGED starts

\* `_run_writer` up to the lock: a run in flight sends the job back at once.
WriterTurn(j) ==
  /\ HeadWriter(j)
  /\ \/ Busy /\ StandDown(j) /\ UNCHANGED lockVars
     \/ ~Busy /\ LockFree /\ Take(j) /\ Execute(j)
     \/ /\ ~Busy /\ ~LockFree /\ Queue(j)
        /\ task' = [task EXCEPT ![j] = "waiting"]
        /\ UNCHANGED <<jobs, starts>>
  /\ UNCHANGED <<drainLock, runVars, bootVars, endpoint, deathVars>>

\* WRITER_LOCK_WAIT_S is over.
WriterTimesOut(j) ==
  /\ task[j] = "waiting"
  /\ Leave(j)
  /\ StandDown(j)
  /\ UNCHANGED <<drainLock, runVars, bootVars, endpoint, deathVars>>

\* The lock arrived; a run may have been queued while this job waited.
WriterGranted(j) ==
  /\ task[j] = "waiting"
  /\ holder = j
  /\ \/ Busy /\ StandDown(j) /\ PassOn
     \/ ~Busy /\ Execute(j) /\ UNCHANGED lockVars
  /\ UNCHANGED <<drainLock, runVars, bootVars, endpoint, deathVars>>

\* `_run_reader`: the semaphore admits MaxParallel read-only jobs.
Admitted(j) ==
  /\ ~WritesPlex(jobs[j])
  /\ task[j] = "parked"
  /\ Cardinality({i \in Jobs : task[i] = "running" /\ ~WritesPlex(jobs[i])})
       < MaxParallel

ReaderStarts(j) ==
  /\ Admitted(j)
  /\ Execute(j)
  /\ UNCHANGED <<drainLock, runVars, lockVars, bootVars, endpoint, deathVars>>

\* The handler returned or raised; the row is closed, then the lock released.  A
\* dispatch that succeeds leaves no run waiting for it.
JobEnds(j) ==
  /\ task[j] = "running"
  /\ \E ok \in BOOLEAN :
       /\ ok => ~\E r \in Runs : runs[r].job = j /\ AwaitsHandoff(r)
       /\ jobs' = [jobs EXCEPT ![j] = Finished(@, ok)]
  /\ task' = [task EXCEPT ![j] = "none"]
  /\ IF WritesPlex(jobs[j]) THEN PassOn ELSE UNCHANGED lockVars
  /\ UNCHANGED <<drainLock, starts, runVars, bootVars, endpoint, deathVars>>

\* SQLite refuses a write of the row itself, in `_execute`, `_finish` or `_release`.
\* The row stays as it was, and when it is a writer's the batch's one runner ends
\* with it: the writers it still had stay claimed, without a coroutine.
DatabaseFails(j) ==
  /\ faults < MaxFaults
  /\ faults' = faults + 1
  /\ \/ Admitted(j) /\ UNCHANGED lockVars
     \/ task[j] = "running" /\ ~WritesPlex(jobs[j]) /\ UNCHANGED lockVars
     \/ HeadWriter(j) /\ (Busy \/ LockFree) /\ UNCHANGED lockVars
     \/ task[j] = "waiting" /\ Leave(j)
     \/ holder = j /\ PassOn
  /\ task' = [i \in Jobs |->
               IF i = j \/ (WritesPlex(jobs[j]) /\ WritesPlex(jobs[i]))
               THEN "none" ELSE task[i]]
  /\ UNCHANGED <<jobs, drainLock, starts, runVars, bootVars, endpoint, crashes, stops>>

\* The five-minute sweep requeues what has been running for STALE_AFTER.
Sweep ==
  /\ mode = "up"
  /\ \E stale \in SUBSET {j \in Jobs : Sweepable(jobs[j], FALSE)} :
       /\ stale # {}
       /\ jobs' = [j \in Jobs |-> IF j \in stale THEN Requeued(jobs[j]) ELSE jobs[j]]
  /\ UNCHANGED <<drainLock, task, starts, runVars, lockVars, bootVars,
                 endpoint, deathVars>>

\* Time passes and a retry comes due.
BackoffElapses(j) ==
  /\ jobs[j].backoff
  /\ jobs' = [jobs EXCEPT ![j].backoff = FALSE]
  /\ UNCHANGED <<drainLock, task, starts, runVars, lockVars, bootVars,
                 endpoint, deathVars>>

-----------------------------------------------------------------------------
(* The runs. *)

Launch(r, trigger) ==
  /\ runs' = [runs EXCEPT ![r] = QueuedRun(trigger, 0)]
  /\ cancel' = [cancel EXCEPT ![r] = "clear"]
  /\ phase' = [phase EXCEPT ![r] = "lockWait"]

StartRun(r, trigger) ==
  /\ mode = "up"
  /\ r \in AbsentRuns
  /\ Launch(r, trigger)
  /\ UNCHANGED <<queueVars, lockVars, bootVars, endpoint, deathVars>>

\* The end of `_run_locked`: the status is written, the Event dropped.
RunOver(r, status) ==
  /\ runs' = [runs EXCEPT ![r].db = status]
  /\ cancel' = [cancel EXCEPT ![r] = "none"]
  /\ phase' = [phase EXCEPT ![r] = "off"]

\* Slip: a run cancelled in the queue is started all the same.
RunBegins_uncancelled(r) ==
  /\ phase[r] = "lockWait"
  /\ \A q \in Runs : ~UnderRunLock(q)
  /\ runs' = [runs EXCEPT ![r].db = "running"]
  /\ phase' = [phase EXCEPT ![r] = "building"]
  /\ UNCHANGED <<cancel, queueVars, lockVars, bootVars, endpoint, deathVars>>

\* Slip: a run cancelled in the queue leaves its Event behind.
RunBegins_armed(r) ==
  /\ phase[r] = "lockWait"
  /\ \A q \in Runs : ~UnderRunLock(q)
  /\ \/ /\ cancel[r] = "set"
        /\ runs' = [runs EXCEPT ![r].db = "aborted"]
        /\ phase' = [phase EXCEPT ![r] = "off"]
     \/ /\ cancel[r] # "set"
        /\ runs' = [runs EXCEPT ![r].db = "running"]
        /\ phase' = [phase EXCEPT ![r] = "building"]
  /\ UNCHANGED <<cancel, queueVars, lockVars, bootVars, endpoint, deathVars>>

\* `_lock` acquired: a run cancelled in the queue ends, and so does an assistant's
\* run that is no longer authorised; another starts.
RunBegins(r) ==
  /\ phase[r] = "lockWait"
  /\ \A q \in Runs : ~UnderRunLock(q)
  /\ \/ cancel[r] = "set" /\ RunOver(r, "aborted")
     \/ cancel[r] # "set" /\ runs[r].trigger = "assistant" /\ RunOver(r, "error")
     \/ /\ cancel[r] # "set"
        /\ runs' = [runs EXCEPT ![r].db = "running"]
        /\ phase' = [phase EXCEPT ![r] = "building"]
        /\ UNCHANGED cancel
  /\ UNCHANGED <<queueVars, lockVars, bootVars, endpoint, deathVars>>

\* Slip: only jobs take the lock.
RunBuilt_unlocked(r) ==
  /\ phase[r] = "building"
  /\ phase' = [phase EXCEPT ![r] = "engine"]
  /\ UNCHANGED <<runs, cancel, lockVars, queueVars, bootVars, endpoint, deathVars>>

\* The context is built, or could not be.
RunBuilt(r) ==
  /\ phase[r] = "building"
  /\ \/ LockFree /\ Take(r) /\ phase' = [phase EXCEPT ![r] = "engine"]
     \/ ~LockFree /\ Queue(r) /\ phase' = [phase EXCEPT ![r] = "writerWait"]
  /\ UNCHANGED <<runs, cancel, queueVars, bootVars, endpoint, deathVars>>

RunBuildFails(r) ==
  /\ phase[r] = "building"
  /\ RunOver(r, "error")
  /\ UNCHANGED <<queueVars, lockVars, bootVars, endpoint, deathVars>>

RunGranted(r) ==
  /\ phase[r] = "writerWait"
  /\ holder = r
  /\ phase' = [phase EXCEPT ![r] = "engine"]
  /\ UNCHANGED <<runs, cancel, lockVars, queueVars, bootVars, endpoint, deathVars>>

\* The engine returned: the writer lock goes, and Cancel is closed to this run.
EngineReturns(r) ==
  /\ phase[r] = "engine"
  /\ phase' = [phase EXCEPT ![r] =
                 IF cancel[r] = "set" THEN "settlingAborted" ELSE "settling"]
  /\ PassOn
  /\ UNCHANGED <<runs, cancel, queueVars, bootVars, endpoint, deathVars>>

EngineRaises(r) ==
  /\ phase[r] = "engine"
  /\ RunOver(r, "error")
  /\ PassOn
  /\ UNCHANGED <<queueVars, bootVars, endpoint, deathVars>>

\* persist_report commits, or raises; what follows it never raises (crediting is
\* guarded, the notifications swallow), so it is not told apart.
RunSettles(r) ==
  /\ phase[r] \in {"settling", "settlingAborted"}
  /\ \E status \in {"error", IF phase[r] = "settling" THEN "ok" ELSE "aborted"} :
       RunOver(r, status)
  /\ UNCHANGED <<queueVars, lockVars, bootVars, endpoint, deathVars>>

\* Slip: Cancel finishes a run that is already executing.
CancelRun_atOnce(r) ==
  /\ mode = "up"
  /\ cancel[r] = "clear"
  /\ cancel' = [cancel EXCEPT ![r] = "set"]
  /\ runs' = [runs EXCEPT ![r].db = "aborted"]
  /\ UNCHANGED <<phase, queueVars, lockVars, bootVars, endpoint, deathVars>>

CancelRun(r) ==
  /\ mode = "up"
  /\ cancel[r] = "clear"
  /\ cancel' = [cancel EXCEPT ![r] = "set"]
  /\ runs' = IF runs[r].db = "queued"
             THEN [runs EXCEPT ![r].db = "aborted"] ELSE runs
  /\ UNCHANGED <<phase, queueVars, lockVars, bootVars, endpoint, deathVars>>

-----------------------------------------------------------------------------
(* The assistant's runs: inserted together with a durable job that hands them over. *)

QueueAssistantRun(r) ==
  /\ mode = "up"
  /\ r \in AbsentRuns
  /\ Insert("dispatch")
  /\ \E j \in Jobs :
       NextJob(j) /\ runs' = [runs EXCEPT ![r] = QueuedRun("assistant", j)]
  /\ UNCHANGED <<drainLock, task, starts, phase, cancel, lockVars, bootVars,
                 endpoint, deathVars>>

\* `dispatch_queued_assistant_run`: still authorised, it is marked as handed over
\* and launched in one stretch; otherwise it ends.  For a run that no longer awaits
\* its hand-off the handler writes nothing (InFlightIsExact rules out the case it
\* calls an unknown outcome, a mark without a coroutine).
DispatchRun(r) ==
  /\ AwaitsHandoff(r)
  /\ \E j \in Jobs : runs[r].job = j /\ task[j] = "running"
  /\ \/ /\ runs' = [runs EXCEPT ![r].handed = TRUE]
        /\ cancel' = [cancel EXCEPT ![r] = "clear"]
        /\ phase' = [phase EXCEPT ![r] = "lockWait"]
     \/ /\ runs' = [runs EXCEPT ![r].db = "aborted"]
        /\ UNCHANGED <<cancel, phase>>
  /\ UNCHANGED <<queueVars, lockVars, bootVars, endpoint, deathVars>>

\* `cancel_assistant_run` before the hand-off; after it, it is CancelRun.
CancelAssistantRun(r) ==
  /\ mode = "up"
  /\ AwaitsHandoff(r)
  /\ runs' = [runs EXCEPT ![r].db = "aborted"]
  /\ UNCHANGED <<phase, cancel, queueVars, lockVars, bootVars, endpoint, deathVars>>

-----------------------------------------------------------------------------
(* Uninstall and row cleanup: 409 beside a run, else the writer lock. *)

EndpointStarts(e) ==
  /\ mode = "up"
  /\ endpoint[e] = "off"
  /\ ~Busy
  /\ \/ LockFree /\ Take(e) /\ endpoint' = [endpoint EXCEPT ![e] = "writing"]
     \/ ~LockFree /\ Queue(e) /\ endpoint' = [endpoint EXCEPT ![e] = "waiting"]
  /\ UNCHANGED <<queueVars, runVars, bootVars, deathVars>>

EndpointGivesUp(e) ==
  /\ endpoint[e] = "waiting"
  /\ Leave(e)
  /\ endpoint' = [endpoint EXCEPT ![e] = "over"]
  /\ UNCHANGED <<queueVars, runVars, bootVars, deathVars>>

EndpointGranted(e) ==
  /\ endpoint[e] = "waiting"
  /\ holder = e
  /\ endpoint' = [endpoint EXCEPT ![e] = "writing"]
  /\ UNCHANGED <<lockVars, queueVars, runVars, bootVars, deathVars>>

EndpointEnds(e) ==
  /\ endpoint[e] = "writing"
  /\ endpoint' = [endpoint EXCEPT ![e] = "over"]
  /\ PassOn
  /\ UNCHANGED <<queueVars, runVars, bootVars, deathVars>>

-----------------------------------------------------------------------------
(* Death, shutdown and boot. *)

\* What does not survive the process.
Volatile ==
  /\ mode' = "down"
  /\ interrupted' = FALSE
  /\ plan' = {}
  /\ drainLock' = FALSE
  /\ task' = [j \in Jobs |-> "none"]
  /\ holder' = NoOne
  /\ waiters' = <<>>
  /\ phase' = [r \in Runs |-> "off"]
  /\ cancel' = [r \in Runs |-> "none"]
  /\ endpoint' = [e \in Endpoints |-> IF endpoint[e] = "off" THEN "off" ELSE "over"]
  /\ UNCHANGED <<jobs, runs, starts>>

Crash ==
  /\ mode # "down"
  /\ crashes + stops < MaxCrashes
  /\ crashes' = crashes + 1
  /\ Volatile
  /\ UNCHANGED <<stops, faults>>

\* A stop signal ends admission; drains and runs in flight finish.
Close ==
  /\ mode = "up"
  /\ \A e \in Endpoints : endpoint[e] \in {"off", "over"}
  /\ crashes + stops < MaxCrashes
  /\ stops' = stops + 1
  /\ mode' = "closing"
  /\ UNCHANGED <<interrupted, plan, queueVars, runVars, lockVars, endpoint,
                 crashes, faults>>

Exit ==
  /\ mode = "closing"
  /\ ~drainLock
  /\ \A r \in Runs : phase[r] = "off"
  /\ Volatile
  /\ UNCHANGED deathVars

\* Slip: a resume run is resumed in its turn.
Resumable_again(r) == runs[r].trigger # "manual"

\* A scheduled run qualifies for a resume; whether it had people left to reach,
\* and how long ago it began, is the environment's choice.
Resumable(r) == runs[r].trigger = "schedule"

\* The dispatch job of a run not yet handed over survives, so that run is kept.
Orphan(r) == LiveRun(r) /\ ~AwaitsHandoff(r)

\* Slip: any queued run of an assistant is kept, handed over or not.
BootAbortsRuns_lenient ==
  LET stale == {r \in Runs : LiveRun(r) /\ ~(runs[r].trigger = "assistant"
                                            /\ runs[r].db = "queued")}
  IN /\ mode = "down"
     /\ mode' = "aborted"
     /\ runs' = [r \in Runs |-> IF r \in stale THEN [runs[r] EXCEPT !.db = "aborted"]
                                              ELSE runs[r]]
     /\ interrupted' = (stale # {})
     /\ plan' \in SUBSET {r \in stale : Resumable(r)}
     /\ UNCHANGED <<phase, cancel, queueVars, lockVars, endpoint, deathVars>>

BootAbortsRuns ==
  /\ mode = "down"
  /\ mode' = "aborted"
  /\ runs' = [r \in Runs |-> IF Orphan(r) THEN [runs[r] EXCEPT !.db = "aborted"]
                                          ELSE runs[r]]
  /\ interrupted' = \E r \in Runs : Orphan(r)
  /\ plan' \in SUBSET {r \in Runs : Orphan(r) /\ Resumable(r)}
  /\ UNCHANGED <<phase, cancel, queueVars, lockVars, endpoint, deathVars>>

BootRecoversJobs ==
  /\ mode = "aborted"
  /\ mode' = "recovered"
  /\ jobs' = [j \in Jobs |-> IF Sweepable(jobs[j], TRUE) THEN Requeued(jobs[j])
                                                          ELSE jobs[j]]
  /\ UNCHANGED <<interrupted, plan, drainLock, task, starts, runVars, lockVars,
                 endpoint, deathVars>>

\* A run the crash cut short leaves a share-filter pass owed.
BootQueuesRepair ==
  /\ mode = "recovered"
  /\ mode' = "resuming"
  /\ \/ interrupted /\ Insert("writer")
     \/ ~interrupted /\ UNCHANGED jobs
     \/ AbsentJobs = {} /\ UNCHANGED jobs        \* the bound, not the code
  /\ interrupted' = FALSE
  /\ UNCHANGED <<plan, drainLock, task, starts, runVars, lockVars, endpoint, deathVars>>

BootResumes(s, r) ==
  /\ mode = "resuming"
  /\ s \in plan
  /\ r \in AbsentRuns
  /\ plan' = plan \ {s}
  /\ Launch(r, "resume")
  /\ UNCHANGED <<mode, interrupted, queueVars, lockVars, endpoint, deathVars>>

BootDone ==
  /\ mode = "resuming"
  /\ plan = {} \/ AbsentRuns = {}
  /\ mode' = "up"
  /\ plan' = {}
  /\ UNCHANGED <<interrupted, queueVars, runVars, lockVars, endpoint, deathVars>>

-----------------------------------------------------------------------------

Init ==
  /\ jobs = [j \in Jobs |-> AbsentRow]
  /\ runs = [r \in Runs |-> AbsentRun]
  /\ mode = "down"
  /\ interrupted = FALSE
  /\ plan = {}
  /\ drainLock = FALSE
  /\ task = [j \in Jobs |-> "none"]
  /\ holder = NoOne
  /\ waiters = <<>>
  /\ phase = [r \in Runs |-> "off"]
  /\ cancel = [r \in Runs |-> "none"]
  /\ endpoint = [e \in Endpoints |-> "off"]
  /\ starts = [j \in Jobs |-> 0]
  /\ crashes = 0
  /\ stops = 0
  /\ faults = 0

QueueStep(j) ==
  \/ WriterTurn(j)
  \/ WriterTimesOut(j)
  \/ WriterGranted(j)
  \/ ReaderStarts(j)
  \/ JobEnds(j)
  \/ BackoffElapses(j)

RunStep(r) ==
  \/ \E trigger \in {"schedule", "manual"} : StartRun(r, trigger)
  \/ RunBegins(r)
  \/ RunBuilt(r)
  \/ RunBuildFails(r)
  \/ RunGranted(r)
  \/ EngineReturns(r)
  \/ EngineRaises(r)
  \/ RunSettles(r)
  \/ CancelRun(r)
  \/ \E s \in Runs : BootResumes(s, r)

AssistantStep(r) ==
  \/ QueueAssistantRun(r)
  \/ DispatchRun(r)
  \/ CancelAssistantRun(r)

EndpointStep(e) ==
  \/ EndpointStarts(e)
  \/ EndpointGivesUp(e)
  \/ EndpointGranted(e)
  \/ EndpointEnds(e)

ProcessStep ==
  \/ Sweep
  \/ Crash
  \/ Close
  \/ Exit
  \/ BootAbortsRuns
  \/ BootRecoversJobs
  \/ BootQueuesRepair
  \/ BootDone

Next ==
  \/ \E k \in AskedKinds : Enqueue(k)
  \/ Drain(Kinds)
  \/ Drain({"credit"})
  \/ DrainEnds
  \/ \E j \in Jobs : QueueStep(j)
  \/ \E j \in Jobs : DatabaseFails(j)
  \/ \E r \in Runs : RunStep(r)
  \/ \E r \in Runs : AssistantStep(r)
  \/ \E e \in Endpoints : EndpointStep(e)
  \/ ProcessStep

Spec == Init /\ [][Next]_vars

\* The process keeps running, handlers and engine calls return, time passes.
\* No fairness for what only the environment starts: requests, crashes, cancels.  A
\* dispatch needs none of its own: its handler may also fail, which JobEnds covers.
Fairness ==
  /\ WF_vars(Drain(Kinds))
  /\ WF_vars(DrainEnds)
  /\ \A j \in Jobs :
       /\ WF_vars(WriterTurn(j))
       /\ WF_vars(WriterGranted(j))
       /\ WF_vars(ReaderStarts(j))
       /\ WF_vars(JobEnds(j))
       /\ WF_vars(BackoffElapses(j))
  /\ \A r \in Runs :
       /\ WF_vars(RunBegins(r))
       /\ WF_vars(RunBuilt(r))
       /\ WF_vars(RunGranted(r))
       /\ WF_vars(EngineReturns(r))
       /\ WF_vars(RunSettles(r))
       /\ WF_vars(\E s \in Runs : BootResumes(s, r))
  /\ \A e \in Endpoints :
       /\ WF_vars(EndpointGranted(e))
       /\ WF_vars(EndpointEnds(e))
  /\ WF_vars(Exit)
  /\ WF_vars(BootAbortsRuns)
  /\ WF_vars(BootRecoversJobs)
  /\ WF_vars(BootQueuesRepair)
  /\ WF_vars(BootDone)

FairSpec == Spec /\ Fairness

-----------------------------------------------------------------------------
(* Properties. *)

PlexWriters ==
  {j \in Jobs : task[j] = "running" /\ WritesPlex(jobs[j])}
    \cup {r \in Runs : phase[r] = "engine"}
    \cup {e \in Endpoints : endpoint[e] = "writing"}

\* At most one party writes to Plex: a writer job, an engine run, an uninstall or
\* a cleanup.  Share filters are read-modify-write, so two at once lose an
\* exclude (jobs.plex_writer_lock).
OneWriter == \A a, b \in PlexWriters : a = b

\* A row is claimed only while no coroutine of an earlier claim is left, whatever
\* the sweep requeued under it (jobs._DRAIN_LOCK, jobs.recover_stale).
ClaimsAreExclusive ==
  [][\A j \in Jobs :
       jobs[j].status = "queued" /\ jobs'[j].status = "running"
         => task[j] = "none"]_vars

\* A handler is tried max_attempts times, a dispatch once, and once more per process
\* death and per refused write of a row, however claims, stand-downs, sweeps and
\* boots interleave (jobs._claim, _finish).
RetryBudget ==
  \A j \in Jobs : starts[j] <= Attempts(jobs[j]) + crashes + faults

\* A settled job is never run again and keeps its verdict; a settled run keeps
\* its status, so a run cancelled in the queue cannot come back as running.
SettledIsFinal ==
  [][/\ \A j \in Jobs : Settled(jobs[j])
                          => /\ jobs'[j].status = jobs[j].status
                             /\ starts'[j] = starts[j]
     /\ \A r \in Runs : runs[r].db \in {"ok", "error", "aborted"}
                          => runs'[r].db = runs[r].db]_vars

\* `_cancels` is exactly the set of runs with a coroutine; and once orphans are
\* aborted, of the runs the table calls queued or running it lacks those, and only
\* those, an assistant's dispatch job has still to hand over.  A leftover entry
\* blocks every writer job, a missing one lets them in beside a run, and a hand-over
\* marked without a coroutine is a run nobody would ever finish
\* (RunService.is_running, dispatch_queued_assistant_run, main._abort_orphaned_runs).
\* Of writes SQLite refuses only those of a job's row are modelled, not a run's.
InFlightIsExact ==
  /\ \A r \in Runs : cancel[r] = "none" <=> phase[r] = "off"
  /\ mode # "down" =>
       \A r \in Runs : LiveRun(r) => (cancel[r] = "none" <=> AwaitsHandoff(r))

\* A run cancelled in the queue writes nothing to Plex.
CancelledInQueueNeverBuilds ==
  \A r \in Runs : runs[r].db = "aborted" => ~UnderRunLock(r)

\* However often the process dies, a scheduled run is finished by one resume run
\* at most, and a resume run by none (run_service.missed_by_restart).
ResumesAreBounded ==
  Cardinality({r \in Runs : runs[r].trigger = "resume"})
    <= Cardinality({r \in Runs : runs[r].trigger = "schedule"})

\* Accepted work is never lost: a queued job is done or has failed for good.
EveryJobSettles ==
  \A j \in Jobs : jobs[j].status = "queued" ~> Settled(jobs[j])

\* The queue is not closed to writers for ever: runs in flight all end.
RunsInFlightEnd == Busy ~> ~Busy

\* What WorkPromise sees of a job, ...
Owed == [j \in Jobs |-> IF jobs[j].status = "absent" THEN "unknown"
                        ELSE IF Settled(jobs[j]) THEN jobs[j].status ELSE "owed"]

Attempted == [j \in Jobs |-> starts[j] > 0]

\* ... and of the lock: its holder, once it writes.
Writer == IF holder \in PlexWriters THEN holder ELSE NoOne

Promise == INSTANCE WorkPromise WITH
  Work <- Jobs, Writers <- Agents, Nobody <- NoOne,
  owed <- Owed, attempted <- Attempted, writer <- Writer

\* The promise this implements: accepted work stays owed until a verdict on a
\* real attempt, across stand-downs, sweeps, crashes and boots, and the writer
\* changes only through nobody.
KeepsPromise == Promise!Spec

=============================================================================
