------------------------ MODULE WatchTransferProofs ------------------------
(***************************************************************************)
(* Theorems about the write plan of WatchReplica and the transfer of       *)
(* WatchTransfer, for every number of titles, jobs and troubles.           *)
(***************************************************************************)
EXTENDS WatchTransfer, SequenceTheorems, TLAPS

(* The plan of one title. *)

LEMMA ItemValues ==
  ASSUME NEW item \in Item
  PROVE  item.count \in Nat /\ item.offset \in Nat
  BY DEF Item

LEMMA UnwatchedIsItem == Unwatched \in Item
  BY DEF Unwatched, Item

LEMMA ScrobblesAreNat ==
  ASSUME NEW want \in Item, NEW have \in Item
  PROVE  Scrobbles(want, have) \in Nat
  BY ItemValues DEF Scrobbles, Resetting

LEMMA StagesAreItems ==
  ASSUME NEW want \in Item, NEW have \in Item
  PROVE  /\ AfterReset(want, have) \in Item
         /\ AfterMarks(want, have) \in Item
         /\ AfterPlan(want, have) \in Item
<1>1. AfterReset(want, have) \in Item
  BY UnwatchedIsItem DEF AfterReset
<1>2. AfterMarks(want, have) \in Item
  BY <1>1, ScrobblesAreNat DEF AfterMarks, Item
<1>3. AfterPlan(want, have) \in Item
  BY <1>2 DEF AfterPlan, Item
<1>. QED BY <1>1, <1>2, <1>3

\* The plan makes one account's title the other's, whatever it was before: also what an
\* earlier plan, cut short anywhere, left of it (watch_replica.build_plan).
THEOREM PlanMirrors ==
  ASSUME NEW want \in Item, NEW have \in Item
  PROVE  Agree(want, AfterPlan(want, have))
<1>. DEFINE n == Scrobbles(want, have)
<1>1. /\ want.count \in Nat /\ want.offset \in Nat
      /\ have.count \in Nat /\ have.offset \in Nat
      /\ n \in Nat /\ Tolerance \in Nat
  BY ItemValues, ScrobblesAreNat, ToleranceAssumption
<1>2. AfterMarks(want, have).count = want.count
  <2>1. CASE Resetting(want, have)
    BY <1>1, <2>1 DEF AfterMarks, AfterReset, Scrobbles, Unwatched
  <2>2. CASE ~Resetting(want, have)
    BY <1>1, <2>2 DEF AfterMarks, AfterReset, Scrobbles, Resetting
  <2>. QED BY <2>1, <2>2
<1>3. AfterMarks(want, have).offset = OffsetLeft(want, have)
  BY <1>1 DEF AfterMarks, AfterReset, OffsetLeft, Unwatched
<1>4. CASE Repositioning(want, have)
  <2>1. AfterPlan(want, have) = [AfterMarks(want, have) EXCEPT !.offset = want.offset]
    BY <1>4 DEF AfterPlan
  <2>2. /\ AfterPlan(want, have).count = want.count
        /\ AfterPlan(want, have).offset = want.offset
    BY <2>1, <1>2, StagesAreItems DEF Item
  <2>. QED BY <2>2, <1>1 DEF Agree, Distance
<1>5. CASE ~Repositioning(want, have)
  <2>1. AfterPlan(want, have) = AfterMarks(want, have)
    BY <1>5 DEF AfterPlan
  <2>2. want.offset = 0 => OffsetLeft(want, have) = 0
    BY <1>1 DEF OffsetLeft, Resetting
  <2>3. OffsetLeft(want, have) \in Nat
    BY <1>1 DEF OffsetLeft
  <2>4. Distance(want.offset, OffsetLeft(want, have)) <= Tolerance
    BY <1>1, <1>5, <2>2, <2>3 DEF Repositioning, Distance
  <2>. QED BY <1>2, <1>3, <2>1, <2>2, <2>4 DEF Agree
<1>. QED BY <1>4, <1>5

\* Nothing is written exactly where the accounts agree: a second transfer costs nothing,
\* and a verify pass without a remaining write has found them equal.
THEOREM PlanEndsInAgreement ==
  ASSUME NEW k, NEW want \in Item, NEW have \in Item
  PROVE  PlanOne(k, want, have) = {} <=> Agree(want, have)
<1>1. /\ want.count \in Nat /\ want.offset \in Nat
      /\ have.count \in Nat /\ have.offset \in Nat
      /\ Scrobbles(want, have) \in Nat /\ Tolerance \in Nat
  BY ItemValues, ScrobblesAreNat, ToleranceAssumption
<1>2. PlanOne(k, want, have) = {}
        <=> ~Resetting(want, have) /\ ~(Scrobbles(want, have) > 0) /\ ~Repositioning(want, have)
  BY DEF PlanOne, Only
<1>3. ~Resetting(want, have) /\ ~(Scrobbles(want, have) > 0) /\ ~Repositioning(want, have)
        <=> Agree(want, have)
  BY <1>1 DEF Resetting, Scrobbles, Repositioning, OffsetLeft, Agree, Distance
<1>. QED BY <1>2, <1>3

\* On the way the title never has more plays than one of the two accounts.
LEMMA StagesStayInside ==
  ASSUME NEW want \in Item, NEW have \in Item, NEW bound \in Nat,
         want.count <= bound, have.count <= bound
  PROVE  /\ AfterReset(want, have).count <= bound
         /\ AfterMarks(want, have).count <= bound
         /\ AfterPlan(want, have).count <= bound
<1>1. want.count \in Nat /\ have.count \in Nat /\ Scrobbles(want, have) \in Nat
  BY ItemValues, ScrobblesAreNat
<1>2. AfterReset(want, have).count <= bound
  BY <1>1 DEF AfterReset, Unwatched
<1>3. AfterMarks(want, have).count <= bound
  BY <1>1 DEF AfterMarks, AfterReset, Scrobbles, Resetting, Unwatched
<1>4. AfterPlan(want, have).count <= bound
  BY <1>3, StagesAreItems DEF AfterPlan, Item
<1>. QED BY <1>2, <1>3, <1>4

-----------------------------------------------------------------------------
(* Types. *)

\* The attempt's job is in the table, and a job undoes a snapshot there is.
JobsResolve ==
  /\ attempt.phase # "idle" => attempt.job \in DOMAIN jobs
  /\ \A j \in DOMAIN jobs : jobs[j].undoes \in 0..Len(snapshots)

Types == TypeOK /\ JobsResolve

LEMMA LibraryOfALeaf == \A k \in Keys : LibraryOf(k) \in Libraries
  BY DEF LibraryOf, Libraries

\* A read of an account returns a watch state.
LEMMA ReadIsState ==
  ASSUME NEW state \in States, NEW unseen
  PROVE  Read(state, unseen) \in States
  BY UnwatchedIsItem DEF Read, States

LEMMA PlanOneIsOps ==
  ASSUME NEW k \in Keys, NEW want \in Item, NEW have \in Item
  PROVE  PlanOne(k, want, have) \subseteq Op /\ \A op \in PlanOne(k, want, have) : op.key = k
<1>1. want.offset \in Nat /\ Scrobbles(want, have) \in Nat
  BY ItemValues, ScrobblesAreNat
<1>. QED BY <1>1 DEF PlanOne, Only, Op, Kinds

LEMMA PlanIsOps ==
  ASSUME NEW want \in States, NEW have \in States
  PROVE  BuildPlan(want, have) \subseteq Op
<1>1. \A k \in Keys : PlanOne(k, want[k], have[k]) \subseteq Op
  BY PlanOneIsOps DEF States
<1>2. DOMAIN want = Keys
  BY DEF States
<1>. QED BY <1>1, <1>2 DEF BuildPlan

\* What is left of the plan of title `k` in a plan of the whole account is its own plan.
LEMMA PlanOfOneTitle ==
  ASSUME NEW want \in States, NEW have \in States, NEW k \in Keys
  PROVE  {op \in BuildPlan(want, have) : op.key = k} = PlanOne(k, want[k], have[k])
<1>1. \A x \in Keys : \A op \in PlanOne(x, want[x], have[x]) : op.key = x
  BY PlanOneIsOps DEF States
<1>2. DOMAIN want = Keys
  BY DEF States
<1>. QED BY <1>1, <1>2 DEF BuildPlan

\* Only shows of the plan's own leaves are cleared, and none for a plan without a removal.
LEMMA ClearedAreShows ==
  ASSUME NEW want, NEW known, NEW plan \in SUBSET Op
  PROVE  /\ ClearedShows(want, known, plan) \subseteq Shows
         /\ plan = {} => ClearedShows(want, known, plan) = {}
<1>1. \A op \in plan : ShowOf[op.key] \in Shows \cup {NoShow}
  BY ShowsAssumption DEF Op
<1>. QED BY <1>1 DEF ClearedShows

\* The ways a job changes keep it a job, of the same snapshot.
LEMMA JobChanges ==
  ASSUME NEW row \in JobRow
  PROVE  /\ [row EXCEPT !.attempts = @ + 1] \in JobRow
         /\ \A s \in {"queued", "done", "failed"} : [row EXCEPT !.status = s] \in JobRow
         /\ \A r \in {"none", "matches", "differs"} : [row EXCEPT !.report = r] \in JobRow
         /\ \A b \in BOOLEAN : [row EXCEPT !.wrote = b] \in JobRow
<1>1. row.attempts + 1 \in Nat
  BY DEF JobRow
<1>. QED BY <1>1 DEF JobRow

\* A table changed in place is a table of the same rows but one.
LEMMA InPlace ==
  ASSUME NEW S, NEW table \in Seq(S), NEW j \in DOMAIN table, NEW row \in S
  PROVE  /\ [table EXCEPT ![j] = row] \in Seq(S)
         /\ DOMAIN [table EXCEPT ![j] = row] = DOMAIN table
         /\ Len([table EXCEPT ![j] = row]) = Len(table)
<1>1. table \in [1..Len(table) -> S] /\ Len(table) \in Nat /\ DOMAIN table = 1..Len(table)
  BY LenProperties
<1>. DEFINE changed == [table EXCEPT ![j] = row]
<1>2. changed \in [1..Len(table) -> S]
  BY <1>1
<1>3. changed \in Seq(S)
  BY <1>1, <1>2, SeqDef
<1>4. DOMAIN changed = 1..Len(changed) /\ Len(changed) \in Nat /\ DOMAIN changed = 1..Len(table)
  BY <1>1, <1>2, <1>3, LenProperties
<1>5. Len(changed) = Len(table)
  BY <1>1, <1>4
<1>. QED BY <1>1, <1>3, <1>4, <1>5

\* A table with a row more.
LEMMA OneMore ==
  ASSUME NEW S, NEW table \in Seq(S), NEW row \in S
  PROVE  /\ Append(table, row) \in Seq(S)
         /\ DOMAIN Append(table, row) = DOMAIN table \cup {Len(table) + 1}
         /\ Len(table) + 1 \notin DOMAIN table
         /\ Len(table) \in Nat /\ Len(Append(table, row)) = Len(table) + 1
         /\ \A i \in DOMAIN table : Append(table, row)[i] = table[i]
         /\ Append(table, row)[Len(table) + 1] = row
<1>1. Len(table) \in Nat /\ DOMAIN table = 1..Len(table)
  BY LenProperties
<1>2. /\ Append(table, row) \in Seq(S)
      /\ Len(Append(table, row)) = Len(table) + 1
      /\ \A i \in 1..Len(table) : Append(table, row)[i] = table[i]
      /\ Append(table, row)[Len(table) + 1] = row
  BY AppendProperties
<1>3. DOMAIN Append(table, row) = 1..Len(table) + 1
  BY <1>2, LenProperties
<1>. QED BY <1>1, <1>2, <1>3

\* What the tables of jobs and snapshots are, as functions.
LEMMA TablesAreFunctions ==
  ASSUME TypeOK
  PROVE  /\ \A j \in DOMAIN jobs : jobs[j] \in JobRow /\ j \in Nat /\ j # 0
         /\ \A i \in DOMAIN snapshots : snapshots[i] \in Snapshot
         /\ DOMAIN snapshots = 1..Len(snapshots) /\ Len(snapshots) \in Nat
<1>1. jobs \in Seq(JobRow) /\ snapshots \in Seq(Snapshot)
  BY DEF TypeOK
<1>2. /\ jobs \in [1..Len(jobs) -> JobRow] /\ Len(jobs) \in Nat
      /\ snapshots \in [1..Len(snapshots) -> Snapshot] /\ Len(snapshots) \in Nat
  BY <1>1, LenProperties
<1>. QED BY <1>2

LEMMA NoAttemptType == NoAttempt \in Attempt /\ NoAttempt.phase = "idle" /\ NoAttempt.shows = {}
<1>1. [k \in Keys |-> Unwatched] \in States
  BY UnwatchedIsItem DEF States
<1>. QED BY <1>1 DEF NoAttempt, Attempt

\* The attempt that begins, field by field.
LEMMA PlannedType ==
  ASSUME TypeOK, NEW j \in DOMAIN jobs, NEW want \in States, NEW known \in SUBSET Keys,
         NEW plan, plan = Planned(j, want, known)
  PROVE  /\ plan \in Attempt
         /\ plan.phase = "planned" /\ plan.job = j /\ plan.want = want /\ plan.known = known
         /\ plan.have = Read(target, hidden) /\ plan.unread = hidden
         /\ plan.todo = BuildPlan(want, Read(target, hidden))
         /\ plan.shows = IF Job(j).undoes # 0 /\ ~(Present(want) \subseteq known) THEN {}
                         ELSE ClearedShows(want, known, plan.todo)
         /\ ~plan.unreachable /\ ~plan.failed
<1>. DEFINE have == Read(target, hidden)
            todo == BuildPlan(want, have)
            shows == IF Job(j).undoes # 0 /\ ~(Present(want) \subseteq known) THEN {}
                     ELSE ClearedShows(want, known, todo)
<1>1. have \in States
  BY ReadIsState DEF TypeOK
<1>2. todo \in SUBSET Op
  BY <1>1, PlanIsOps
<1>3. shows \in SUBSET Shows
  BY <1>2, ClearedAreShows
<1>4. j \in Nat /\ hidden \in SUBSET Libraries
  BY TablesAreFunctions DEF TypeOK
<1>5. plan = [NoAttempt EXCEPT
         !.phase = "planned", !.job = j, !.want = want, !.have = have, !.known = known,
         !.unread = hidden, !.todo = todo, !.shows = shows]
  BY DEF Planned
<1>. HIDE DEF have, todo, shows
<1>6. plan = [phase |-> "planned", job |-> j, want |-> want, have |-> have, known |-> known,
              unread |-> hidden, todo |-> todo, shows |-> shows, refused |-> {},
              unreachable |-> FALSE, failed |-> FALSE]
  BY <1>5, ZenonT(30) DEF NoAttempt
<1>7. plan \in Attempt
  BY <1>1, <1>2, <1>3, <1>4, <1>6 DEF Attempt
<1>. QED BY <1>6, <1>7 DEF have, todo, shows

-----------------------------------------------------------------------------
(* What a step does to the tables. *)

\* The attempt has calls to make.
CallsLeft == attempt.phase = "writing" /\ (attempt.todo # {} \/ attempt.shows # {})

\* Jobs are added and changed in place: what a job undoes stays, it is marked as having
\* written only by an attempt with calls to make, and only a verify pass reports.
JobsStep ==
  /\ jobs' \in Seq(JobRow)
  /\ DOMAIN jobs \subseteq DOMAIN jobs'
  /\ \A j \in DOMAIN jobs :
       /\ jobs'[j].undoes = jobs[j].undoes
       /\ jobs'[j].wrote => jobs[j].wrote \/ (CallsLeft /\ j = attempt.job)
       /\ jobs'[j].report = jobs[j].report \/ (FinishTransfer /\ j = attempt.job)
  /\ \A j \in DOMAIN jobs' \ DOMAIN jobs :
       jobs'[j].undoes \in 0..Len(snapshots) /\ ~jobs'[j].wrote

LEMMA NoJobChanged ==
  ASSUME TypeOK, UNCHANGED jobs
  PROVE  JobsStep
  BY DEF JobsStep, TypeOK

LEMMA JobAdded ==
  ASSUME TypeOK, NEW undoes \in 0..Len(snapshots), Ask(undoes)
  PROVE  JobsStep
<1>. DEFINE row == [undoes |-> undoes, attempts |-> 0, status |-> "queued", report |-> "none",
                    wrote |-> FALSE]
<1>1. row \in JobRow /\ row.undoes = undoes /\ ~row.wrote
  BY TablesAreFunctions DEF JobRow
<1>2. jobs' = Append(jobs, row) /\ jobs \in Seq(JobRow)
  BY DEF Ask, TypeOK
<1>. HIDE DEF row
<1>. QED BY <1>1, <1>2, OneMore DEF JobsStep

LEMMA JobReplaced ==
  ASSUME TypeOK, NEW j \in DOMAIN jobs, NEW row \in JobRow,
         row.undoes = jobs[j].undoes,
         row.wrote => jobs[j].wrote \/ (CallsLeft /\ j = attempt.job),
         row.report = jobs[j].report \/ (FinishTransfer /\ j = attempt.job),
         jobs' = [jobs EXCEPT ![j] = row]
  PROVE  JobsStep
<1>1. jobs \in Seq(JobRow)
  BY DEF TypeOK
<1>2. jobs' \in Seq(JobRow) /\ DOMAIN jobs' = DOMAIN jobs
  BY <1>1, InPlace
<1>3. \A i \in DOMAIN jobs : jobs'[i] = IF i = j THEN row ELSE jobs[i]
  OBVIOUS
<1>. QED BY <1>2, <1>3 DEF JobsStep

\* What becomes of the row of a job that is claimed, ends or raises.
ClaimedRow(row) == [row EXCEPT !.attempts = @ + 1]
RaisedRow(row) ==
  [row EXCEPT !.status = IF row.attempts < MaxAttempts THEN "queued" ELSE "failed"]
DoneRow(row) == [row EXCEPT !.status = "done"]

LEMMA RowForms ==
  ASSUME NEW table \in Seq(JobRow), NEW j \in DOMAIN table
  PROVE  /\ Raised(j, table) = [table EXCEPT ![j] = RaisedRow(table[j])]
         /\ Done(j, table) = [table EXCEPT ![j] = DoneRow(table[j])]
         /\ \A b \in BOOLEAN :
              [table EXCEPT ![j].wrote = b] = [table EXCEPT ![j] = [table[j] EXCEPT !.wrote = b]]
  BY DEF Raised, Done, RaisedRow, DoneRow

LEMMA RowsAreJobs ==
  ASSUME NEW row \in JobRow
  PROVE  /\ ClaimedRow(row) \in JobRow /\ RaisedRow(row) \in JobRow /\ DoneRow(row) \in JobRow
         /\ \A new \in {ClaimedRow(row), RaisedRow(row), DoneRow(row)} :
              new.undoes = row.undoes /\ new.wrote = row.wrote /\ new.report = row.report
<1>1. row.attempts + 1 \in Nat
  BY DEF JobRow
<1>. QED BY <1>1 DEF ClaimedRow, RaisedRow, DoneRow, JobRow

\* The claimed job, that goes on, is refused or raises.
LEMMA ClaimedForms ==
  ASSUME TypeOK, NEW j \in DOMAIN jobs
  PROVE  /\ Claimed(j) = [jobs EXCEPT ![j] = ClaimedRow(jobs[j])]
         /\ Raised(j, Claimed(j)) = [jobs EXCEPT ![j] = RaisedRow(ClaimedRow(jobs[j]))]
         /\ Done(j, Claimed(j)) = [jobs EXCEPT ![j] = DoneRow(ClaimedRow(jobs[j]))]
<1>1. jobs \in Seq(JobRow) /\ jobs[j] \in JobRow
  BY TablesAreFunctions DEF TypeOK
<1>2. Claimed(j) = [jobs EXCEPT ![j] = ClaimedRow(jobs[j])]
  BY DEF Claimed, ClaimedRow
<1>3. /\ Claimed(j) \in Seq(JobRow) /\ j \in DOMAIN Claimed(j)
      /\ Claimed(j)[j] = ClaimedRow(jobs[j])
  BY <1>1, <1>2, InPlace, RowsAreJobs
<1>. DEFINE claimed == ClaimedRow(jobs[j])
<1>4. /\ Raised(j, Claimed(j)) = [Claimed(j) EXCEPT ![j] = RaisedRow(claimed)]
      /\ Done(j, Claimed(j)) = [Claimed(j) EXCEPT ![j] = DoneRow(claimed)]
  BY <1>3, RowForms
<1>. QED BY <1>2, <1>4

LEMMA JobClaimed ==
  ASSUME TypeOK, NEW j \in DOMAIN jobs,
         \/ jobs' = Claimed(j)
         \/ jobs' = Raised(j, Claimed(j))
         \/ jobs' = Done(j, Claimed(j))
  PROVE  JobsStep
<1>1. jobs[j] \in JobRow
  BY TablesAreFunctions
<1>2. PICK row \in {ClaimedRow(jobs[j]), RaisedRow(ClaimedRow(jobs[j])),
                    DoneRow(ClaimedRow(jobs[j]))} : jobs' = [jobs EXCEPT ![j] = row]
  BY ClaimedForms
<1>3. /\ row \in JobRow /\ row.undoes = jobs[j].undoes /\ row.wrote = jobs[j].wrote
      /\ row.report = jobs[j].report
  BY <1>1, <1>2, RowsAreJobs
<1>. QED BY <1>2, <1>3, JobReplaced

LEMMA JobWrites ==
  ASSUME Types, CallsLeft, NEW b \in BOOLEAN, jobs' = [jobs EXCEPT ![attempt.job].wrote = b]
  PROVE  JobsStep
<1>1. attempt.job \in DOMAIN jobs /\ jobs \in Seq(JobRow) /\ jobs[attempt.job] \in JobRow
  BY TablesAreFunctions DEF Types, TypeOK, JobsResolve, CallsLeft
<1>. DEFINE row == [jobs[attempt.job] EXCEPT !.wrote = b]
<1>2. jobs' = [jobs EXCEPT ![attempt.job] = row]
  BY <1>1, RowForms
<1>3. row \in JobRow /\ row.undoes = jobs[attempt.job].undoes
      /\ row.report = jobs[attempt.job].report
  BY <1>1 DEF JobRow
<1>. HIDE DEF row
<1>. QED BY <1>1, <1>2, <1>3, JobReplaced DEF Types

LEMMA JobEnds ==
  ASSUME Types, attempt.phase # "idle",
         jobs' = Done(attempt.job, jobs) \/ jobs' = Raised(attempt.job, jobs)
  PROVE  JobsStep
<1>1. attempt.job \in DOMAIN jobs /\ jobs \in Seq(JobRow) /\ jobs[attempt.job] \in JobRow
  BY TablesAreFunctions DEF Types, TypeOK, JobsResolve
<1>2. PICK row \in {RaisedRow(jobs[attempt.job]), DoneRow(jobs[attempt.job])} :
        jobs' = [jobs EXCEPT ![attempt.job] = row]
  BY <1>1, RowForms
<1>3. /\ row \in JobRow /\ row.undoes = jobs[attempt.job].undoes
      /\ row.wrote = jobs[attempt.job].wrote /\ row.report = jobs[attempt.job].report
  BY <1>1, <1>2, RowsAreJobs
<1>. QED BY <1>1, <1>2, <1>3, JobReplaced DEF Types

LEMMA JobReports ==
  ASSUME Types, FinishTransfer
  PROVE  JobsStep /\ jobs'[attempt.job].report = IF Mismatched = {} THEN "matches" ELSE "differs"
<1>1. attempt.job \in DOMAIN jobs /\ jobs \in Seq(JobRow) /\ jobs[attempt.job] \in JobRow
  BY TablesAreFunctions DEF Types, TypeOK, JobsResolve, FinishTransfer, CommitTransfer, AllWritten
<1>. DEFINE report == IF Mismatched = {} THEN "matches" ELSE "differs"
            ended == DoneRow(jobs[attempt.job])
            row == [ended EXCEPT !.report = report]
<1>2. ended \in JobRow /\ ended.undoes = jobs[attempt.job].undoes
      /\ ended.wrote = jobs[attempt.job].wrote
  BY <1>1, RowsAreJobs
<1>3. report \in {"matches", "differs"}
  OBVIOUS
<1>. HIDE DEF report, ended
<1>4. Done(attempt.job, jobs) = [jobs EXCEPT ![attempt.job] = ended]
  BY <1>1, RowForms DEF ended
<1>5. jobs' = [Done(attempt.job, jobs) EXCEPT ![attempt.job].report = report]
  BY DEF FinishTransfer, report
<1>6. jobs' = [jobs EXCEPT ![attempt.job] = row]
  BY <1>1, <1>4, <1>5
<1>7. /\ row \in JobRow /\ row.undoes = jobs[attempt.job].undoes
      /\ row.wrote = jobs[attempt.job].wrote /\ row.report = report
  BY <1>2, <1>3 DEF JobRow
<1>. HIDE DEF row
<1>8. JobsStep
  BY <1>1, <1>6, <1>7, JobReplaced DEF Types
<1>. QED BY <1>1, <1>6, <1>7, <1>8 DEF report

\* Snapshots are added and marked restored, and else never change: one is added by an
\* attempt with something to write that finds none of its job's to go by, and only an undo
\* marks one, the one its job names.
SnapshotsStep ==
  /\ snapshots' \in Seq(Snapshot)
  /\ DOMAIN snapshots \subseteq DOMAIN snapshots'
  /\ Len(snapshots) <= Len(snapshots')
  /\ \A i \in DOMAIN snapshots :
       /\ snapshots'[i].job = snapshots[i].job
       /\ snapshots'[i].state = snapshots[i].state
       /\ snapshots'[i].pristine = snapshots[i].pristine
       /\ snapshots[i].restored => snapshots'[i].restored
       /\ snapshots'[i].restored => snapshots[i].restored \/ (CommitUndo /\ i = Current.undoes)
  /\ \A i \in DOMAIN snapshots' \ DOMAIN snapshots :
       /\ TakeSnapshot /\ attempt.todo # {} /\ Unrestored(attempt.job) = {}
       /\ snapshots'[i].job = attempt.job
       /\ snapshots'[i].pristine = ~Current.wrote

LEMMA NoSnapshotChanged ==
  ASSUME TypeOK, UNCHANGED snapshots
  PROVE  SnapshotsStep
<1>1. Len(snapshots) \in Nat
  BY TablesAreFunctions
<1>. QED BY <1>1 DEF SnapshotsStep, TypeOK

LEMMA SnapshotTaken ==
  ASSUME Types, TakeSnapshot
  PROVE  /\ SnapshotsStep
         /\ attempt.todo # {} /\ Unrestored(attempt.job) = {}
              => \E i \in DOMAIN snapshots' :
                   /\ i \notin DOMAIN snapshots
                   /\ snapshots'[i].job = attempt.job
                   /\ snapshots'[i].pristine = ~Current.wrote
<1>1. attempt.job \in DOMAIN jobs /\ jobs[attempt.job] \in JobRow
  BY TablesAreFunctions DEF Types, JobsResolve, TakeSnapshot
<1>2. CASE attempt.todo = {} \/ Unrestored(attempt.job) # {}
  <2>1. UNCHANGED snapshots
    BY <1>2 DEF TakeSnapshot
  <2>. QED BY <1>2, <2>1, NoSnapshotChanged DEF Types
<1>3. CASE attempt.todo # {} /\ Unrestored(attempt.job) = {}
  <2>. DEFINE new == [job |-> attempt.job, state |-> attempt.have,
                      complete |-> attempt.unread = {}, known |-> Keys,
                      restored |-> FALSE, pristine |-> ~Current.wrote]
  <2>1. snapshots' = Append(snapshots, new)
    BY <1>3 DEF TakeSnapshot
  <2>2. attempt.have \in States /\ Current.wrote \in BOOLEAN /\ attempt.job \in Nat
    BY <1>1 DEF Types, TypeOK, Attempt, Current, JobRow
  <2>3. new \in Snapshot /\ new.job = attempt.job /\ new.pristine = ~Current.wrote
    BY <2>2 DEF Snapshot
  <2>4. snapshots \in Seq(Snapshot)
    BY DEF Types, TypeOK
  <2>. HIDE DEF new
  <2>. DEFINE more == Append(snapshots, new)
  <2>5. /\ more \in Seq(Snapshot) /\ DOMAIN more = DOMAIN snapshots \cup {Len(snapshots) + 1}
        /\ Len(snapshots) + 1 \notin DOMAIN snapshots
        /\ Len(snapshots) \in Nat /\ Len(more) = Len(snapshots) + 1
        /\ \A i \in DOMAIN snapshots : more[i] = snapshots[i]
        /\ more[Len(snapshots) + 1] = new
    BY <2>3, <2>4, OneMore
  <2>6. snapshots' = more
    BY <2>1
  <2>. HIDE DEF more
  <2>. QED BY <1>3, <2>3, <2>5, <2>6 DEF SnapshotsStep
<1>. QED BY <1>2, <1>3

LEMMA SnapshotRestored ==
  ASSUME Types, CommitUndo
  PROVE  /\ SnapshotsStep /\ Current.undoes \in DOMAIN snapshots
         /\ snapshots'[Current.undoes].restored
<1>. DEFINE i == Current.undoes
            row == [snapshots[i] EXCEPT !.restored = TRUE]
<1>1. i \in DOMAIN snapshots /\ snapshots \in Seq(Snapshot) /\ snapshots[i] \in Snapshot
  <2>1. attempt.job \in DOMAIN jobs
    BY DEF Types, JobsResolve, CommitUndo, AllWritten
  <2>2. i \in 0..Len(snapshots) /\ i # 0
    BY <2>1 DEF Types, JobsResolve, CommitUndo, IsUndo, Current
  <2>. QED BY <2>2, TablesAreFunctions DEF Types, TypeOK
<1>2. row \in Snapshot /\ row.job = snapshots[i].job /\ row.state = snapshots[i].state
      /\ row.pristine = snapshots[i].pristine /\ row.restored
  BY <1>1 DEF Snapshot
<1>3. snapshots' = [snapshots EXCEPT ![i] = row]
  BY <1>1 DEF CommitUndo
<1>. HIDE DEF row
<1>4. /\ snapshots' \in Seq(Snapshot) /\ DOMAIN snapshots' = DOMAIN snapshots
      /\ Len(snapshots') = Len(snapshots) /\ Len(snapshots) \in Nat
  BY <1>1, <1>2, <1>3, InPlace, TablesAreFunctions DEF Types
<1>5. \A x \in DOMAIN snapshots : snapshots'[x] = IF x = i THEN row ELSE snapshots[x]
  BY <1>3
<1>6. SnapshotsStep
  BY <1>1, <1>2, <1>4, <1>5 DEF SnapshotsStep
<1>. QED BY <1>1, <1>2, <1>5, <1>6

\* The tables after any step.
LEMMA TablesStep ==
  ASSUME Types, Next
  PROVE  JobsStep /\ SnapshotsStep /\ source' = source
<1>. TypeOK
  BY DEF Types
<1>0. Len(snapshots) \in Nat /\ 0 \in 0..Len(snapshots)
      /\ \A i \in DOMAIN snapshots : i \in 0..Len(snapshots)
  BY TablesAreFunctions
<1>1. CASE RequestTransfer
  BY <1>0, <1>1, JobAdded, NoSnapshotChanged DEF RequestTransfer, Ask, tables, accounts
<1>2. ASSUME NEW i \in DOMAIN snapshots, RequestUndo(i) PROVE JobsStep /\ SnapshotsStep /\ source' = source
  BY <1>0, <1>2, JobAdded, NoSnapshotChanged DEF RequestUndo, Ask, tables, accounts
<1>3. ASSUME NEW j \in DOMAIN jobs,
             BeginTransfer(j) \/ RefuseTransfer(j) \/ BeginUndo(j) \/ RefuseUndo(j) \/ BeginRaises(j)
      PROVE  JobsStep /\ SnapshotsStep /\ source' = source
  <2>1. jobs' = Claimed(j) \/ jobs' = Raised(j, Claimed(j)) \/ jobs' = Done(j, Claimed(j))
    BY <1>3 DEF BeginTransfer, RefuseTransfer, BeginUndo, RefuseUndo, BeginRaises
  <2>2. UNCHANGED <<accounts, tables>>
    BY <1>3 DEF BeginTransfer, RefuseTransfer, BeginUndo, RefuseUndo, BeginRaises
  <2>. QED BY <2>1, <2>2, JobClaimed, NoSnapshotChanged DEF tables, accounts
<1>4. CASE TakeSnapshot
  BY <1>4, NoJobChanged, SnapshotTaken DEF TakeSnapshot, accounts
<1>5. ASSUME NEW op \in attempt.todo,
             WriteLands(op) \/ WriteLandsTwice(op) \/ WriteRefused(op) \/ WriteRaises(op)
      PROVE  JobsStep /\ SnapshotsStep /\ source' = source
  <2>1. UNCHANGED snapshots /\ source' = source
    BY <1>5 DEF WriteLands, WriteLandsTwice, WriteRefused, WriteRaises, tables, accounts
  <2>0. SnapshotsStep /\ source' = source
    BY <2>1, NoSnapshotChanged
  <2>2. CallsLeft
    BY <1>5 DEF WriteLands, WriteLandsTwice, WriteRefused, WriteRaises, Turn, CallsLeft
  <2>3. ASSUME NEW times \in Nat, Effect(op, times) PROVE JobsStep
    <3>1. attempt.job \in DOMAIN jobs /\ jobs[attempt.job] \in JobRow
      BY <2>2, TablesAreFunctions DEF Types, JobsResolve, CallsLeft
    <3>. DEFINE b == jobs[attempt.job].wrote \/ times > 0
    <3>2. jobs' = [jobs EXCEPT ![attempt.job].wrote = b] /\ b \in BOOLEAN
      BY <2>3, <3>1 DEF Effect
    <3>. QED BY <2>2, <3>2, JobWrites
  <2>4. op.n \in Nat
    BY DEF TypeOK, Attempt, Op
  <2>5. CASE WriteLands(op)
    BY <2>0, <2>3, <2>4, <2>5 DEF WriteLands
  <2>6. CASE WriteLandsTwice(op)
    <3>1. PICK again \in 1..2 : Effect(op, op.n + again)
      BY <2>6 DEF WriteLandsTwice
    <3>. QED BY <2>0, <2>3, <2>4, <3>1
  <2>7. CASE WriteRaises(op)
    <3>1. PICK times \in 0..(IF op.kind = "mark" THEN op.n + 2 ELSE 1) : Effect(op, times)
      BY <2>7 DEF WriteRaises
    <3>. QED BY <2>0, <2>3, <2>4, <3>1
  <2>8. CASE WriteRefused(op)
    BY <2>0, <2>8, NoJobChanged DEF WriteRefused, accounts, tables
  <2>. QED BY <1>5, <2>5, <2>6, <2>7, <2>8
<1>6. ASSUME NEW s \in Shows, ClearShow(s) \/ ClearRefused(s) \/ ClearRaises(s)
      PROVE  JobsStep /\ SnapshotsStep /\ source' = source
  <2>1. UNCHANGED snapshots /\ source' = source
    BY <1>6 DEF ClearShow, ClearRefused, ClearRaises, tables, accounts
  <2>2. CallsLeft
    BY <1>6 DEF ClearShow, ClearRefused, ClearRaises, Clearing, CallsLeft
  <2>3. jobs' = [jobs EXCEPT ![attempt.job].wrote = TRUE] \/ UNCHANGED jobs
    BY <1>6 DEF ClearShow, ClearRefused, ClearRaises, ShowCleared
  <2>. QED BY <2>1, <2>2, <2>3, JobWrites, NoJobChanged, NoSnapshotChanged
<1>7. CASE FinishTransfer
  BY <1>7, JobReports, NoSnapshotChanged DEF FinishTransfer, CommitTransfer, accounts
<1>8. CASE FinishRaises
  BY <1>8, JobEnds, NoSnapshotChanged DEF FinishRaises, AllWritten, accounts, tables
<1>9. CASE FinishUndo
  BY <1>9, JobEnds, SnapshotRestored DEF FinishUndo, CommitUndo, AllWritten, accounts
<1>10. CASE UndoFallsShort
  BY <1>10, JobEnds, NoSnapshotChanged DEF UndoFallsShort, AllWritten, accounts, tables
<1>11. CASE Crash
  BY <1>11, NoJobChanged, NoSnapshotChanged DEF Crash, accounts, tables
<1>16. CASE DiesUnclosed
  BY <1>16, NoJobChanged, NoSnapshotChanged, SnapshotRestored
     DEF DiesUnclosed, CommitTransfer, accounts
<1>12. ASSUME NEW k \in Keys, Watch(k) PROVE JobsStep /\ SnapshotsStep /\ source' = source
  BY <1>12, NoJobChanged, NoSnapshotChanged DEF Watch, tables
<1>13. ASSUME NEW l \in Libraries, ShareLibrary(l) PROVE JobsStep /\ SnapshotsStep /\ source' = source
  BY <1>13, NoJobChanged, NoSnapshotChanged DEF ShareLibrary, accounts, tables
<1>14. CASE LeaveHome
  BY <1>14, NoJobChanged, NoSnapshotChanged DEF LeaveHome, accounts, tables
<1>15. CASE SyncWatched
  BY <1>15, NoJobChanged, NoSnapshotChanged DEF SyncWatched, accounts
<1>. QED BY <1>1, <1>2, <1>3, <1>4, <1>5, <1>6, <1>7, <1>8, <1>9, <1>10, <1>11, <1>12, <1>13,
            <1>14, <1>15, <1>16 DEF Next

-----------------------------------------------------------------------------
(* What a step does to the account and to the attempt. *)

LEMMA WrittenIsItem ==
  ASSUME NEW op \in Op, NEW item \in Item, NEW times \in Nat
  PROVE  Written(op, item, times) \in Item
<1>1. item.count + times \in Nat /\ op.offset \in Nat
  BY ItemValues DEF Op
<1>. QED BY <1>1, UnwatchedIsItem DEF Written, Item

LEMMA EffectType ==
  ASSUME TypeOK, NEW op \in Op, NEW times \in Nat, Effect(op, times)
  PROVE  target' \in States /\ flagged' \subseteq Shows /\ disturbed' \subseteq Keys
<1>1. op.key \in Keys /\ target \in [Keys -> Item]
  BY DEF Op, TypeOK, States
<1>2. target' \in States
  BY <1>1, WrittenIsItem DEF Effect, States
<1>3. flagged' \subseteq Shows
  BY <1>1, ShowsAssumption DEF Effect, TypeOK
<1>4. disturbed' \subseteq Keys
  BY <1>1 DEF Effect, TypeOK
<1>. QED BY <1>2, <1>3, <1>4

LEMMA ShowClearedType ==
  ASSUME TypeOK, NEW s \in Shows, ShowCleared(s)
  PROVE  target' \in States /\ flagged' \subseteq Shows /\ disturbed' \subseteq Keys
  BY UnwatchedIsItem DEF ShowCleared, TypeOK, States

\* The writes of an attempt: how often the call takes effect, if it does.
Writes(op) == WriteLands(op) \/ WriteLandsTwice(op) \/ WriteRaises(op)

LEMMA WriteTakesEffect ==
  ASSUME TypeOK, NEW op \in attempt.todo, Writes(op)
  PROVE  op \in Op /\ \E times \in Nat : Effect(op, times)
<1>1. op \in Op /\ op.n \in Nat
  BY DEF TypeOK, Attempt, Op
<1>2. CASE WriteLands(op)
  BY <1>1, <1>2 DEF WriteLands
<1>3. CASE WriteLandsTwice(op)
  <2>1. PICK again \in 1..2 : Effect(op, op.n + again)
    BY <1>3 DEF WriteLandsTwice
  <2>. QED BY <1>1, <2>1
<1>4. CASE WriteRaises(op)
  <2>1. PICK times \in 0..(IF op.kind = "mark" THEN op.n + 2 ELSE 1) : Effect(op, times)
    BY <1>4 DEF WriteRaises
  <2>2. times \in Nat
    BY <1>1
  <2>. QED BY <1>1, <2>1, <2>2
<1>. QED BY <1>2, <1>3, <1>4 DEF Writes

AccountTyped == target \in States /\ flagged \subseteq Shows /\ disturbed \subseteq Keys

LEMMA AccountStep ==
  ASSUME TypeOK, Next
  PROVE  AccountTyped'
<1>0. AccountTyped
  BY DEF TypeOK, AccountTyped
<1>1. ASSUME UNCHANGED <<target, flagged>>, disturbed' = disturbed \/ disturbed' = {}
      PROVE  AccountTyped'
  BY <1>0, <1>1 DEF AccountTyped
<1>2. CASE RequestTransfer \/ \E i \in DOMAIN snapshots : RequestUndo(i)
  BY <1>1, <1>2 DEF RequestTransfer, RequestUndo, Ask, accounts
<1>3. ASSUME NEW j \in DOMAIN jobs,
             BeginTransfer(j) \/ RefuseTransfer(j) \/ BeginUndo(j) \/ RefuseUndo(j) \/ BeginRaises(j)
      PROVE  AccountTyped'
  BY <1>1, <1>3
     DEF BeginTransfer, RefuseTransfer, BeginUndo, RefuseUndo, BeginRaises, accounts
<1>4. ASSUME NEW op \in attempt.todo, Writes(op) PROVE AccountTyped'
  BY <1>4, WriteTakesEffect, EffectType DEF AccountTyped
<1>5. ASSUME NEW op \in attempt.todo, WriteRefused(op) PROVE AccountTyped'
  BY <1>1, <1>5 DEF WriteRefused, accounts
<1>6. ASSUME NEW s \in Shows, ClearShow(s) \/ ClearRaises(s) PROVE AccountTyped'
  <2>1. CASE ShowCleared(s)
    BY <2>1, ShowClearedType DEF AccountTyped
  <2>2. CASE UNCHANGED <<target, flagged, disturbed>>
    BY <1>1, <2>2
  <2>. QED BY <1>6, <2>1, <2>2 DEF ClearShow, ClearRaises
<1>7. ASSUME NEW s \in Shows, ClearRefused(s) PROVE AccountTyped'
  BY <1>1, <1>7 DEF ClearRefused, accounts
<1>8. CASE TakeSnapshot \/ FinishTransfer \/ FinishRaises \/ FinishUndo \/ UndoFallsShort \/ Crash
           \/ DiesUnclosed \/ LeaveHome \/ SyncWatched
  BY <1>1, <1>8 DEF TakeSnapshot, FinishTransfer, FinishRaises, FinishUndo, UndoFallsShort, Crash,
                    DiesUnclosed, LeaveHome, SyncWatched, accounts
<1>9. ASSUME NEW k \in Keys, Watch(k) PROVE AccountTyped'
  <2>1. target \in [Keys -> Item] /\ target[k] \in Item
    BY DEF TypeOK, States
  <2>2. [count |-> target[k].count + 1, offset |-> 0] \in Item /\ [target[k] EXCEPT !.offset = 3] \in Item
    BY <2>1, ItemValues DEF Item
  <2>3. target' = [target EXCEPT ![k] = [count |-> target[k].count + 1, offset |-> 0]]
        \/ target' = [target EXCEPT ![k] = [target[k] EXCEPT !.offset = 3]]
    BY <1>9, <2>1 DEF Watch
  <2>4. target' \in States
    BY <2>1, <2>2, <2>3 DEF States
  <2>5. flagged' \subseteq Shows /\ disturbed' \subseteq Keys
    BY <1>0, <1>9, ShowsAssumption DEF Watch, AccountTyped
  <2>. QED BY <2>4, <2>5 DEF AccountTyped
<1>10. ASSUME NEW l \in Libraries, ShareLibrary(l) PROVE AccountTyped'
  BY <1>1, <1>10 DEF ShareLibrary, accounts
<1>. QED BY <1>2, <1>3, <1>4, <1>5, <1>6, <1>7, <1>8, <1>9, <1>10 DEF Next, Writes

\* What an attempt has before it: the writes and the shows still to be done.
Shortened(new) ==
  /\ new.phase = attempt.phase /\ new.job = attempt.job
  /\ new.want = attempt.want /\ new.have = attempt.have
  /\ new.unread = attempt.unread
  /\ new.todo \subseteq attempt.todo /\ new.shows \subseteq attempt.shows
  /\ attempt.unreachable => new.unreachable
  /\ attempt.failed => new.failed

Began(j) == BeginTransfer(j) \/ BeginUndo(j)

\* An attempt begins, passes its snapshot, comes a call further, ends, or stays.
AttemptStep ==
  /\ attempt' \in Attempt
  /\ \/ attempt'.phase = "idle" /\ attempt'.shows = {}
     \/ \E j \in DOMAIN jobs : Began(j) /\ attempt'.phase = "planned" /\ attempt'.job = j
     \/ TakeSnapshot /\ attempt' = [attempt EXCEPT !.phase = "writing"]
     \/ attempt.phase = "writing" /\ Shortened(attempt')
     \/ UNCHANGED attempt

LEMMA AttemptMoves ==
  ASSUME Types, Next
  PROVE  AttemptStep
<1>0. TypeOK /\ attempt \in Attempt
  BY DEF Types, TypeOK
<1>1. ASSUME UNCHANGED attempt PROVE AttemptStep
  BY <1>0, <1>1 DEF AttemptStep
<1>2. ASSUME attempt' = NoAttempt PROVE AttemptStep
  BY <1>2, NoAttemptType DEF AttemptStep
<1>3. CASE RequestTransfer \/ \E i \in DOMAIN snapshots : RequestUndo(i)
  BY <1>1, <1>3 DEF RequestTransfer, RequestUndo, Ask
<1>4. ASSUME NEW j \in DOMAIN jobs, RefuseTransfer(j) \/ RefuseUndo(j) \/ BeginRaises(j)
      PROVE  AttemptStep
  BY <1>1, <1>4 DEF RefuseTransfer, RefuseUndo, BeginRaises
<1>5. ASSUME NEW j \in DOMAIN jobs, Began(j) PROVE AttemptStep
  <2>1. PICK want \in States, known \in SUBSET Keys : attempt' = Planned(j, want, known)
    <3>1. CASE BeginTransfer(j)
      BY <1>0, <3>1, ReadIsState DEF BeginTransfer, TypeOK
    <3>2. CASE BeginUndo(j)
      <4>1. jobs[j].undoes \in DOMAIN snapshots
        BY <1>0, <3>2, TablesAreFunctions DEF BeginUndo, Job, Types, JobsResolve
      <4>2. snapshots[jobs[j].undoes] \in Snapshot
        BY <1>0, <4>1, TablesAreFunctions
      <4>. QED BY <3>2, <4>2 DEF BeginUndo, Job, Snapshot
    <3>. QED BY <1>5, <3>1, <3>2 DEF Began
  <2>2. attempt' \in Attempt /\ attempt'.phase = "planned" /\ attempt'.job = j
    BY <1>0, <2>1, PlannedType
  <2>. QED BY <1>5, <2>2 DEF AttemptStep
<1>6. CASE TakeSnapshot
  <2>1. attempt' = [attempt EXCEPT !.phase = "writing"]
    BY <1>6 DEF TakeSnapshot
  <2>2. attempt' \in Attempt
    BY <1>0, <2>1 DEF Attempt
  <2>. QED BY <1>6, <2>1, <2>2 DEF AttemptStep
<1>7. ASSUME NEW op \in attempt.todo,
             WriteLands(op) \/ WriteLandsTwice(op) \/ WriteRefused(op) \/ WriteRaises(op)
      PROVE  AttemptStep
  <2>0. op \in Op /\ op.key \in Keys /\ attempt.phase = "writing"
    BY <1>0, <1>7 DEF Attempt, Op, WriteLands, WriteLandsTwice, WriteRefused, WriteRaises, Turn
  <2>1. \/ attempt' = [attempt EXCEPT !.todo = @ \ {op}]
        \/ attempt' = [attempt EXCEPT !.todo = @ \ {op}, !.refused = @ \cup {op.key},
                                      !.unreachable = TRUE]
        \/ attempt' = [attempt EXCEPT !.todo = @ \ {op}, !.failed = TRUE]
    BY <1>7 DEF WriteLands, WriteLandsTwice, WriteRefused, WriteRaises
  <2>2. attempt' \in Attempt
    <3>1. attempt.todo \ {op} \in SUBSET Op /\ attempt.refused \cup {op.key} \in SUBSET Keys
      BY <1>0, <2>0 DEF Attempt
    <3>. DEFINE todo == attempt.todo \ {op}
                refused == attempt.refused \cup {op.key}
    <3>. HIDE DEF todo, refused
    <3>2. CASE attempt' = [attempt EXCEPT !.todo = todo]
      BY <1>0, <3>1, <3>2 DEF Attempt, todo
    <3>3. CASE attempt' = [attempt EXCEPT !.todo = todo, !.refused = refused, !.unreachable = TRUE]
      BY <1>0, <3>1, <3>3 DEF Attempt, todo, refused
    <3>4. CASE attempt' = [attempt EXCEPT !.todo = todo, !.failed = TRUE]
      BY <1>0, <3>1, <3>4 DEF Attempt, todo
    <3>. QED BY <2>1, <3>2, <3>3, <3>4 DEF todo, refused
  <2>3. Shortened(attempt')
    <3>1. CASE attempt' = [attempt EXCEPT !.todo = @ \ {op}]
      BY <1>0, <3>1 DEF Attempt, Shortened
    <3>2. CASE attempt' = [attempt EXCEPT !.todo = @ \ {op}, !.refused = @ \cup {op.key},
                                          !.unreachable = TRUE]
      BY <1>0, <3>2 DEF Attempt, Shortened
    <3>3. CASE attempt' = [attempt EXCEPT !.todo = @ \ {op}, !.failed = TRUE]
      BY <1>0, <3>3 DEF Attempt, Shortened
    <3>. QED BY <2>1, <3>1, <3>2, <3>3
  <2>. QED BY <2>0, <2>2, <2>3 DEF AttemptStep
<1>8. ASSUME NEW s \in Shows, ClearShow(s) \/ ClearRefused(s) \/ ClearRaises(s)
      PROVE  AttemptStep
  <2>0. attempt.phase = "writing"
    BY <1>8 DEF ClearShow, ClearRefused, ClearRaises, Clearing
  <2>1. \/ attempt' = [attempt EXCEPT !.shows = @ \ {s}]
        \/ attempt' = [attempt EXCEPT !.shows = @ \ {s}, !.unreachable = TRUE]
        \/ attempt' = [attempt EXCEPT !.shows = @ \ {s}, !.failed = TRUE]
    BY <1>8 DEF ClearShow, ClearRefused, ClearRaises
  <2>. DEFINE shows == attempt.shows \ {s}
  <2>2. shows \in SUBSET Shows /\ shows \subseteq attempt.shows
    BY <1>0 DEF Attempt
  <2>. HIDE DEF shows
  <2>3. CASE attempt' = [attempt EXCEPT !.shows = shows]
    BY <1>0, <2>0, <2>2, <2>3 DEF Attempt, Shortened, AttemptStep
  <2>4. CASE attempt' = [attempt EXCEPT !.shows = shows, !.unreachable = TRUE]
    BY <1>0, <2>0, <2>2, <2>4 DEF Attempt, Shortened, AttemptStep
  <2>5. CASE attempt' = [attempt EXCEPT !.shows = shows, !.failed = TRUE]
    BY <1>0, <2>0, <2>2, <2>5 DEF Attempt, Shortened, AttemptStep
  <2>. QED BY <2>1, <2>3, <2>4, <2>5 DEF shows
<1>9. CASE \/ FinishTransfer \/ FinishRaises \/ FinishUndo \/ UndoFallsShort
            \/ Crash \/ DiesUnclosed
  BY <1>2, <1>9 DEF FinishTransfer, FinishRaises, FinishUndo, UndoFallsShort, Crash, DiesUnclosed
<1>10. CASE \/ \E k \in Keys : Watch(k)
            \/ \E l \in Libraries : ShareLibrary(l)
            \/ LeaveHome \/ SyncWatched
  BY <1>1, <1>10 DEF Watch, ShareLibrary, LeaveHome, SyncWatched
<1>. QED BY <1>3, <1>4, <1>5, <1>6, <1>7, <1>8, <1>9, <1>10 DEF Next, Began

LEMMA StampedType ==
  ASSUME NEW rows \in [Titles -> {"absent", "plain", "stamped"}], NEW copied
  PROVE  Stamped(rows, copied) \in [Titles -> {"absent", "plain", "stamped"}]
  BY DEF Stamped

\* The rest of the state: who is in the Home, what is shared, the events and the cached rows.
RestTyped ==
  /\ hidden \subseteq Libraries /\ managed \in BOOLEAN
  /\ events \subseteq Keys
  /\ cache \in [Titles -> {"absent", "plain", "stamped"}]
  /\ troubles \in Nat

LEMMA RestStep ==
  ASSUME TypeOK, Next
  PROVE  RestTyped'
<1>0. RestTyped
  BY DEF TypeOK, RestTyped
<1>1. ASSUME UNCHANGED <<events, cache>>, UNCHANGED hidden \/ hidden' \subseteq Libraries,
             UNCHANGED managed \/ managed' \in BOOLEAN,
             UNCHANGED troubles \/ troubles' = troubles + 1
      PROVE  RestTyped'
  BY <1>0, <1>1 DEF RestTyped
<1>2. CASE RequestTransfer \/ \E i \in DOMAIN snapshots : RequestUndo(i)
  BY <1>1, <1>2 DEF RequestTransfer, RequestUndo, Ask, tables
<1>3. ASSUME NEW j \in DOMAIN jobs,
             BeginTransfer(j) \/ RefuseTransfer(j) \/ BeginUndo(j) \/ RefuseUndo(j)
      PROVE  RestTyped'
  BY <1>1, <1>3 DEF BeginTransfer, RefuseTransfer, BeginUndo, RefuseUndo, tables
<1>4. ASSUME NEW j \in DOMAIN jobs, BeginRaises(j) PROVE RestTyped'
  BY <1>1, <1>4 DEF BeginRaises, Trouble, tables
<1>5. CASE TakeSnapshot
  BY <1>1, <1>5 DEF TakeSnapshot
<1>6. ASSUME NEW op \in attempt.todo,
             WriteLands(op) \/ WriteLandsTwice(op) \/ WriteRefused(op) \/ WriteRaises(op)
      PROVE  RestTyped'
  BY <1>1, <1>6 DEF WriteLands, WriteLandsTwice, WriteRefused, WriteRaises, Trouble, tables
<1>7. ASSUME NEW s \in Shows, ClearShow(s) \/ ClearRefused(s) \/ ClearRaises(s)
      PROVE  RestTyped'
  BY <1>1, <1>7 DEF ClearShow, ClearRefused, ClearRaises, Trouble, tables
<1>8. CASE CommitTransfer /\ (FinishTransfer \/ DiesUnclosed)
  <2>1. events' \subseteq Keys
    BY <1>0, <1>8 DEF CommitTransfer, RestTyped, Present
  <2>2. cache' \in [Titles -> {"absent", "plain", "stamped"}]
    BY <1>0, <1>8, StampedType DEF CommitTransfer, RestTyped
  <2>3. hidden' = hidden /\ managed' = managed /\ (troubles' = troubles \/ troubles' = troubles + 1)
    BY <1>8 DEF FinishTransfer, DiesUnclosed, Trouble
  <2>. QED BY <1>0, <2>1, <2>2, <2>3 DEF RestTyped
<1>9. CASE CommitUndo /\ (FinishUndo \/ DiesUnclosed)
  <2>1. cache' \in [Titles -> {"absent", "plain", "stamped"}] /\ events' = {}
    BY <1>0, <1>9 DEF CommitUndo, RestTyped
  <2>2. hidden' = hidden /\ managed' = managed /\ (troubles' = troubles \/ troubles' = troubles + 1)
    BY <1>9 DEF FinishUndo, DiesUnclosed, Trouble
  <2>. QED BY <1>0, <2>1, <2>2 DEF RestTyped
<1>10. CASE FinishRaises \/ UndoFallsShort \/ Crash
  BY <1>1, <1>10 DEF FinishRaises, UndoFallsShort, Crash, Trouble, tables
<1>11. ASSUME NEW k \in Keys, Watch(k) PROVE RestTyped'
  BY <1>1, <1>11 DEF Watch, Trouble, tables
<1>12. ASSUME NEW l \in Libraries, ShareLibrary(l) PROVE RestTyped'
  <2>1. hidden' \subseteq Libraries
    BY <1>0, <1>12 DEF ShareLibrary, RestTyped
  <2>. QED BY <1>1, <1>12, <2>1 DEF ShareLibrary, Trouble, tables
<1>13. CASE LeaveHome
  BY <1>1, <1>13 DEF LeaveHome, Trouble, tables
<1>14. CASE SyncWatched
  <2>1. PICK proven \in SUBSET (Libraries \ hidden) :
          cache' = Stamped([t \in Titles |->
                      IF TitleLibrary(t) \in hidden \/ cache[t] = "stamped" THEN cache[t]
                      ELSE IF SeenByPlex(t) THEN "plain"
                      ELSE IF TitleLibrary(t) \in proven THEN "absent" ELSE cache[t]], events)
    BY <1>14 DEF SyncWatched
  <2>2. [t \in Titles |->
           IF TitleLibrary(t) \in hidden \/ cache[t] = "stamped" THEN cache[t]
           ELSE IF SeenByPlex(t) THEN "plain"
           ELSE IF TitleLibrary(t) \in proven THEN "absent" ELSE cache[t]]
          \in [Titles -> {"absent", "plain", "stamped"}]
    BY <1>0 DEF RestTyped
  <2>3. cache' \in [Titles -> {"absent", "plain", "stamped"}]
    BY <2>1, <2>2, StampedType
  <2>. QED BY <1>0, <1>14, <2>3 DEF SyncWatched, RestTyped
<1>. QED BY <1>2, <1>3, <1>4, <1>5, <1>6, <1>7, <1>8, <1>9, <1>10, <1>11, <1>12, <1>13, <1>14
     DEF Next,
     FinishTransfer, FinishUndo, DiesUnclosed

LEMMA TypesHoldAtFirst == Init => Types
<1>. SUFFICES ASSUME Init PROVE Types
  OBVIOUS
<1>1. PICK state \in Sources, unseen \in {{}, {"shows"}} :
        source = [state |-> state, unseen |-> unseen]
  BY DEF Init
<1>2. source \in [state : States, unseen : SUBSET Libraries]
  BY <1>1, StatesAssumption DEF States, Libraries
<1>3. target \in States
  BY StatesAssumption DEF Init, States
<1>4. snapshots \in Seq(Snapshot) /\ jobs = <<>> /\ jobs \in Seq(JobRow)
  <2>1. jobs = <<>> /\ jobs \in Seq(JobRow)
    BY DEF Init
  <2>2. CASE snapshots = <<>>
    BY <2>1, <2>2
  <2>3. ASSUME NEW old \in Legacy, snapshots = <<old>> PROVE snapshots \in Seq(Snapshot)
    <3>1. old \in Snapshot
      BY LegacyAssumption
    <3>. QED BY <2>3, <3>1
  <2>. QED BY <2>1, <2>2, <2>3 DEF Init
<1>5. attempt \in Attempt /\ attempt.phase = "idle"
  BY NoAttemptType DEF Init
<1>6. cache \in [Titles -> {"absent", "plain", "stamped"}]
  BY DEF Init
<1>7. TypeOK
  BY <1>2, <1>3, <1>4, <1>5, <1>6 DEF Init, TypeOK
<1>8. JobsResolve
  BY <1>4, <1>5 DEF JobsResolve
<1>. QED BY <1>7, <1>8 DEF Types

LEMMA TypesStep ==
  ASSUME Types, [Next]_vars
  PROVE  Types'
<1>1. CASE Next
  <2>1. JobsStep /\ SnapshotsStep /\ source' = source /\ AttemptStep /\ AccountTyped' /\ RestTyped'
    BY <1>1, TablesStep, AttemptMoves, AccountStep, RestStep DEF Types
  <2>2. TypeOK'
    BY <2>1 DEF Types, TypeOK, JobsStep, SnapshotsStep, AttemptStep, AccountTyped, RestTyped
  <2>3. attempt'.phase # "idle" => attempt'.job \in DOMAIN jobs'
    <3>1. attempt'.phase # "idle" => attempt'.job \in DOMAIN jobs
      BY <2>1 DEF Types, TypeOK, JobsResolve, AttemptStep, Shortened, TakeSnapshot, Attempt
    <3>. QED BY <2>1, <3>1 DEF JobsStep
  <2>4. \A j \in DOMAIN jobs' : jobs'[j].undoes \in 0..Len(snapshots')
    <3>1. Len(snapshots) \in Nat /\ Len(snapshots') \in Nat /\ Len(snapshots) <= Len(snapshots')
      BY <2>1, LenProperties DEF SnapshotsStep, Types, TypeOK
    <3>2. \A j \in DOMAIN jobs' : jobs'[j].undoes \in 0..Len(snapshots)
      BY <2>1 DEF JobsStep, Types, JobsResolve
    <3>. QED BY <3>1, <3>2
  <2>. QED BY <2>2, <2>3, <2>4 DEF Types, JobsResolve
<1>2. CASE UNCHANGED vars
  BY <1>2 DEF vars, accounts, tables, Types, TypeOK, JobsResolve
<1>. QED BY <1>1, <1>2

LEMMA TypesHold == Spec => []Types
  BY TypesHoldAtFirst, TypesStep, PTL DEF Spec

\* Accounts, tables and the attempt under way keep their types, whatever the accounts hold,
\* whoever interferes and however many jobs are asked for.
THEOREM TypeCorrect == Spec => []TypeOK
<1>1. Types => TypeOK
  BY DEF Types
<1>. QED BY <1>1, TypesHold, PTL

-----------------------------------------------------------------------------
(* Cached films. *)

\* A copied date on a cached film has its event.
LEMMA StampsStep ==
  ASSUME TypeOK, FilmStampsAreExplained, Next
  PROVE  FilmStampsAreExplained'
<1>0. \A t \in Films : t \in Titles /\ Leaves(t) = {t}
  BY DEF Titles, Leaves
<1>1. ASSUME UNCHANGED <<events, cache>> PROVE FilmStampsAreExplained'
  BY <1>1 DEF FilmStampsAreExplained
<1>2. CASE RequestTransfer \/ \E i \in DOMAIN snapshots : RequestUndo(i)
  BY <1>1, <1>2 DEF RequestTransfer, RequestUndo, Ask, tables
<1>3. ASSUME NEW j \in DOMAIN jobs,
             BeginTransfer(j) \/ RefuseTransfer(j) \/ BeginUndo(j) \/ RefuseUndo(j) \/ BeginRaises(j)
      PROVE  FilmStampsAreExplained'
  BY <1>1, <1>3
     DEF BeginTransfer, RefuseTransfer, BeginUndo, RefuseUndo, BeginRaises, tables
<1>4. CASE TakeSnapshot
  BY <1>1, <1>4 DEF TakeSnapshot
<1>5. ASSUME NEW op \in attempt.todo,
             WriteLands(op) \/ WriteLandsTwice(op) \/ WriteRefused(op) \/ WriteRaises(op)
      PROVE  FilmStampsAreExplained'
  BY <1>1, <1>5 DEF WriteLands, WriteLandsTwice, WriteRefused, WriteRaises, tables
<1>6. ASSUME NEW s \in Shows, ClearShow(s) \/ ClearRefused(s) \/ ClearRaises(s)
      PROVE  FilmStampsAreExplained'
  BY <1>1, <1>6 DEF ClearShow, ClearRefused, ClearRaises, tables
<1>7. CASE CommitTransfer
  <2>1. events \subseteq events' /\ cache' = Stamped(cache, events')
    BY <1>7 DEF CommitTransfer
  <2>2. ASSUME NEW t \in Films, cache'[t] = "stamped" PROVE t \in events'
    <3>1. cache[t] = "stamped" \/ t \in events'
      BY <1>0, <2>1, <2>2 DEF Stamped, Explained
    <3>. QED BY <2>1, <3>1 DEF FilmStampsAreExplained
  <2>. QED BY <2>2 DEF FilmStampsAreExplained
<1>8. CASE CommitUndo
  <2>1. \A t \in Titles : cache'[t] = "stamped" => cache[t] = "stamped" /\ t \notin events
    BY <1>8 DEF CommitUndo
  <2>. QED BY <1>0, <2>1 DEF FilmStampsAreExplained
<1>9. CASE FinishRaises \/ UndoFallsShort \/ Crash \/ LeaveHome
  BY <1>1, <1>9 DEF FinishRaises, UndoFallsShort, Crash, LeaveHome, tables
<1>10. CASE (\E k \in Keys : Watch(k)) \/ (\E l \in Libraries : ShareLibrary(l))
  BY <1>1, <1>10 DEF Watch, ShareLibrary, tables
<1>11. CASE SyncWatched
  <2>1. PICK proven \in SUBSET (Libraries \ hidden) :
          cache' = Stamped([t \in Titles |->
                      IF TitleLibrary(t) \in hidden \/ cache[t] = "stamped" THEN cache[t]
                      ELSE IF SeenByPlex(t) THEN "plain"
                      ELSE IF TitleLibrary(t) \in proven THEN "absent" ELSE cache[t]], events)
    BY <1>11 DEF SyncWatched
  <2>2. ASSUME NEW t \in Films, cache'[t] = "stamped" PROVE t \in events
    <3>1. cache[t] = "stamped" \/ t \in events
      BY <1>0, <2>1, <2>2 DEF Stamped, Explained
    <3>. QED BY <3>1 DEF FilmStampsAreExplained
  <2>3. events' = events
    BY <1>11 DEF SyncWatched
  <2>. QED BY <2>2, <2>3 DEF FilmStampsAreExplained
<1>. QED BY <1>2, <1>3, <1>4, <1>5, <1>6, <1>7, <1>8, <1>9, <1>10, <1>11
     DEF Next, FinishTransfer, FinishUndo, DiesUnclosed

\* A film leaves the cache with its copied event: no undo, sync or failed finish leaves one
\* held by a date that is gone, for any number of titles and any order of syncs and undos.
THEOREM StampsExplained == Spec => []FilmStampsAreExplained
<1>1. Init => FilmStampsAreExplained
  BY DEF Init, FilmStampsAreExplained, Titles
<1>2. Types /\ FilmStampsAreExplained /\ [Next]_vars => FilmStampsAreExplained'
  <2>. SUFFICES ASSUME Types, FilmStampsAreExplained, [Next]_vars
                PROVE  FilmStampsAreExplained'
    OBVIOUS
  <2>1. CASE Next
    BY <2>1, StampsStep DEF Types
  <2>2. CASE UNCHANGED vars
    BY <2>2 DEF vars, tables, FilmStampsAreExplained
  <2>. QED BY <2>1, <2>2
<1>. QED BY <1>1, <1>2, TypesHold, PTL DEF Spec

-----------------------------------------------------------------------------
(* What an attempt is to arrive at, and the shows it may clear. *)

\* An attempt is to arrive at what its job names: the source as it is, or the snapshot.
WantIsGiven ==
  attempt.phase # "idle" =>
    attempt.want = IF IsUndo THEN snapshots[Current.undoes].state ELSE source.state

\* No show still to be un-scrobbled has a leaf the account is to keep.
WantedShowsStay == \A s \in attempt.shows : \A k \in Present(attempt.want) : ShowOf[k] # s

\* A plan that writes nothing clears nothing.
EmptyPlanClearsNothing == attempt.phase = "planned" /\ attempt.todo = {} => attempt.shows = {}

AttemptInv == WantIsGiven /\ WantedShowsStay /\ EmptyPlanClearsNothing

LEMMA ReadOfAll ==
  ASSUME NEW state \in States
  PROVE  Read(state, {}) = state
  BY DEF Read, States

\* Where the show of every wanted leaf is known, no show of one is cleared.
LEMMA ClearedAreUnwanted ==
  ASSUME NEW want, NEW known, NEW plan, Present(want) \subseteq known
  PROVE  \A s \in ClearedShows(want, known, plan) : \A k \in Present(want) : ShowOf[k] # s
  BY DEF ClearedShows

LEMMA AttemptBegins ==
  ASSUME Types, NEW j \in DOMAIN jobs, Began(j)
  PROVE  /\ attempt'.phase = "planned" /\ attempt'.job = j
         /\ attempt'.have = Read(target, hidden) /\ attempt'.unread = hidden
         /\ attempt'.want \in States
         /\ attempt'.want = IF jobs[j].undoes # 0 THEN snapshots[jobs[j].undoes].state
                            ELSE source.state
         /\ attempt'.todo = BuildPlan(attempt'.want, attempt'.have)
         /\ attempt'.todo = {} => attempt'.shows = {}
         /\ \A s \in attempt'.shows : \A k \in Present(attempt'.want) : ShowOf[k] # s
         /\ UNCHANGED <<target, snapshots>> /\ disturbed' = {}
<1>0. TypeOK /\ source \in [state : States, unseen : SUBSET Libraries]
  BY DEF Types, TypeOK
<1>1. PICK want \in States, known \in SUBSET Keys :
        /\ attempt' = Planned(j, want, known)
        /\ want = IF jobs[j].undoes # 0 THEN snapshots[jobs[j].undoes].state ELSE source.state
        /\ jobs[j].undoes = 0 => known = Keys
  <2>1. CASE BeginTransfer(j)
    <3>1. Read(source.state, source.unseen) = source.state /\ source.state \in States
      BY <1>0, <2>1, ReadOfAll DEF BeginTransfer
    <3>2. attempt' = Planned(j, source.state, Keys) /\ jobs[j].undoes = 0
      BY <2>1, <3>1 DEF BeginTransfer, Job
    <3>. QED BY <3>1, <3>2
  <2>2. CASE BeginUndo(j)
    <3>1. jobs[j].undoes # 0 /\ jobs[j].undoes \in DOMAIN snapshots
      BY <1>0, <2>2, TablesAreFunctions DEF BeginUndo, Job, Types, JobsResolve
    <3>2. snapshots[jobs[j].undoes] \in Snapshot
      BY <1>0, <3>1, TablesAreFunctions
    <3>. QED BY <2>2, <3>1, <3>2 DEF BeginUndo, Job, Snapshot
  <2>. QED BY <2>1, <2>2 DEF Began
<1>. DEFINE have == Read(target, hidden)
            todo == BuildPlan(want, have)
<1>2. /\ attempt'.phase = "planned" /\ attempt'.job = j /\ attempt'.want = want
      /\ attempt'.have = have /\ attempt'.unread = hidden
      /\ attempt'.todo = todo
      /\ attempt'.shows = IF jobs[j].undoes # 0 /\ ~(Present(want) \subseteq known) THEN {}
                          ELSE ClearedShows(want, known, todo)
  BY <1>0, <1>1, PlannedType DEF Job
<1>3. todo \in SUBSET Op
  BY <1>0, ReadIsState, PlanIsOps DEF TypeOK
<1>4. todo = {} => attempt'.shows = {}
  BY <1>2, <1>3, ClearedAreShows
<1>5. \A s \in attempt'.shows : \A k \in Present(want) : ShowOf[k] # s
  <2>1. Present(want) \subseteq Keys
    BY DEF Present
  <2>. QED BY <1>1, <1>2, <2>1, ClearedAreUnwanted
<1>6. UNCHANGED <<target, snapshots>> /\ disturbed' = {}
  BY DEF Began, BeginTransfer, BeginUndo, accounts, tables
<1>. HIDE DEF have, todo
<1>. QED BY <1>1, <1>2, <1>4, <1>5, <1>6 DEF have, todo

LEMMA AttemptInvStep ==
  ASSUME Types, AttemptInv, Next
  PROVE  AttemptInv'
<1>1. JobsStep /\ SnapshotsStep /\ source' = source /\ AttemptStep
  BY TablesStep, AttemptMoves
<1>2. ASSUME attempt'.phase = "idle", attempt'.shows = {} PROVE AttemptInv'
  BY <1>2 DEF AttemptInv, WantIsGiven, WantedShowsStay, EmptyPlanClearsNothing
<1>3. ASSUME NEW j \in DOMAIN jobs, Began(j) PROVE AttemptInv'
  <2>1. /\ attempt'.phase = "planned" /\ attempt'.job = j
        /\ attempt'.want = IF jobs[j].undoes # 0 THEN snapshots[jobs[j].undoes].state
                           ELSE source.state
        /\ attempt'.todo = {} => attempt'.shows = {}
        /\ \A s \in attempt'.shows : \A k \in Present(attempt'.want) : ShowOf[k] # s
        /\ snapshots' = snapshots
    BY <1>3, AttemptBegins
  <2>2. jobs'[j].undoes = jobs[j].undoes
    BY <1>1 DEF JobsStep
  <2>3. WantIsGiven'
    BY <1>1, <2>1, <2>2 DEF WantIsGiven, IsUndo, Current
  <2>4. WantedShowsStay'
    BY <2>1 DEF WantedShowsStay
  <2>. QED BY <2>1, <2>3, <2>4 DEF AttemptInv, EmptyPlanClearsNothing
<1>4. ASSUME attempt.phase # "idle", attempt'.want = attempt.want, attempt'.job = attempt.job,
             attempt'.shows \subseteq attempt.shows,
             attempt'.phase = "planned" => UNCHANGED attempt
      PROVE  AttemptInv'
  <2>1. attempt.job \in DOMAIN jobs /\ jobs'[attempt.job].undoes = jobs[attempt.job].undoes
    BY <1>1, <1>4 DEF Types, JobsResolve, JobsStep
  <2>2. jobs[attempt.job].undoes # 0
          => snapshots'[jobs[attempt.job].undoes].state = snapshots[jobs[attempt.job].undoes].state
    BY <1>1, <2>1, TablesAreFunctions DEF Types, JobsResolve, SnapshotsStep
  <2>3. WantIsGiven'
    BY <1>1, <1>4, <2>1, <2>2 DEF AttemptInv, WantIsGiven, IsUndo, Current
  <2>4. WantedShowsStay'
    BY <1>4 DEF AttemptInv, WantedShowsStay, Present
  <2>5. EmptyPlanClearsNothing'
    BY <1>4 DEF AttemptInv, EmptyPlanClearsNothing
  <2>. QED BY <2>3, <2>4, <2>5 DEF AttemptInv
<1>5. CASE TakeSnapshot /\ attempt' = [attempt EXCEPT !.phase = "writing"]
  <2>1. attempt \in Attempt /\ attempt.phase = "planned"
    BY <1>5 DEF Types, TypeOK, TakeSnapshot
  <2>2. /\ attempt'.want = attempt.want /\ attempt'.job = attempt.job
        /\ attempt'.shows = attempt.shows /\ attempt'.phase = "writing"
    BY <1>5, <2>1 DEF Attempt
  <2>. QED BY <1>4, <2>1, <2>2
<1>6. CASE attempt.phase = "writing" /\ Shortened(attempt')
  BY <1>4, <1>6 DEF Shortened
<1>7. CASE UNCHANGED attempt
  <2>1. CASE attempt.phase = "idle"
    BY <1>7, <2>1 DEF AttemptInv, WantIsGiven, WantedShowsStay, EmptyPlanClearsNothing, Present
  <2>. QED BY <1>4, <1>7, <2>1
<1>. QED BY <1>1, <1>2, <1>3, <1>5, <1>6, <1>7 DEF AttemptStep

LEMMA AttemptInvHolds == Spec => []AttemptInv
<1>1. Init => AttemptInv
  BY NoAttemptType DEF Init, AttemptInv, WantIsGiven, WantedShowsStay, EmptyPlanClearsNothing
<1>2. Types /\ AttemptInv /\ [Next]_vars => AttemptInv'
  <2>1. CASE UNCHANGED vars
    BY <2>1 DEF vars, tables, AttemptInv, WantIsGiven, WantedShowsStay, EmptyPlanClearsNothing,
                Present, IsUndo, Current
  <2>. QED BY <2>1, AttemptInvStep
<1>. QED BY <1>1, <1>2, TypesHold, PTL DEF Spec

\* Un-scrobbling a show takes no leaf the account is to keep: neither in a transfer nor in
\* an undo from a snapshot that does not know every show.
THEOREM ClearingIsSafe == Spec => ClearingSparesTheWanted
<1>1. Types /\ AttemptInv /\ [Next]_vars
        => [Clearing /\ attempt'.shows # attempt.shows =>
              \A k \in Present(attempt.want) : target'[k] = target[k]]_vars
  <2>. SUFFICES ASSUME Types, AttemptInv, [Next]_vars, Clearing, attempt'.shows # attempt.shows,
                       NEW k \in Present(attempt.want)
                PROVE  target'[k] = target[k]
    OBVIOUS
  <2>0. Next /\ k \in Keys /\ attempt.phase = "writing" /\ attempt.todo = {} /\ attempt.shows # {}
        /\ attempt \in Attempt
    BY DEF vars, Present, Clearing, Types, TypeOK
  <2>1. ASSUME NEW s \in Shows, ShowCleared(s), s \in attempt.shows PROVE target'[k] = target[k]
    <3>1. k \notin Episodes(s)
      BY <2>1 DEF AttemptInv, WantedShowsStay, Episodes
    <3>. QED BY <2>0, <2>1, <3>1 DEF ShowCleared
  <2>2. ASSUME NEW s \in Shows, ClearShow(s) \/ ClearRefused(s) \/ ClearRaises(s)
        PROVE  target'[k] = target[k]
    BY <2>1, <2>2 DEF ClearShow, ClearRefused, ClearRaises, accounts
  <2>3. CASE Crash \/ DiesUnclosed
    BY <2>3 DEF Crash, DiesUnclosed, accounts
  <2>4. CASE RequestTransfer \/ \E i \in DOMAIN snapshots : RequestUndo(i)
    BY <2>0, <2>4 DEF RequestTransfer, RequestUndo, Ask
  <2>5. ASSUME NEW j \in DOMAIN jobs,
               BeginTransfer(j) \/ RefuseTransfer(j) \/ BeginUndo(j) \/ RefuseUndo(j) \/ BeginRaises(j)
        PROVE  target'[k] = target[k]
    BY <2>0, <2>5 DEF BeginTransfer, RefuseTransfer, BeginUndo, RefuseUndo, BeginRaises, Waiting
  <2>6. CASE TakeSnapshot \/ FinishTransfer \/ FinishRaises \/ FinishUndo \/ UndoFallsShort
    BY <2>0, <2>6 DEF TakeSnapshot, FinishTransfer, FinishRaises, FinishUndo, UndoFallsShort,
                      CommitTransfer, CommitUndo, AllWritten
  <2>7. CASE \/ \E x \in Keys : Watch(x)
             \/ \E l \in Libraries : ShareLibrary(l)
             \/ LeaveHome \/ SyncWatched
    BY <2>7 DEF Watch, ShareLibrary, LeaveHome, SyncWatched
  <2>. QED BY <2>0, <2>2, <2>3, <2>4, <2>5, <2>6, <2>7 DEF Next
<1>. QED BY <1>1, TypesHold, AttemptInvHolds, PTL DEF Spec, ClearingSparesTheWanted

-----------------------------------------------------------------------------
(* Snapshots before writes. *)

\* The job has a snapshot from before its first write.
Secured(j) == \E i \in DOMAIN snapshots : snapshots[i].job = j /\ snapshots[i].pristine

\* A job that has a call to make has it already.
SecuredBeforeCalls == CallsLeft => Secured(attempt.job)

SnapshotInv == SnapshotFirst /\ SecuredBeforeCalls

\* Passing its snapshot, an attempt with something to write has a pristine one of its job:
\* taken now, kept from an earlier attempt, or long put back.
LEMMA SnapshotSecures ==
  ASSUME Types, SnapshotInv, TakeSnapshot, attempt.todo # {}
  PROVE  Secured(attempt.job)'
<1>1. SnapshotsStep
  BY SnapshotTaken
<1>2. attempt.job \in DOMAIN jobs
  BY DEF Types, JobsResolve, TakeSnapshot
<1>3. CASE Secured(attempt.job)
  <2>1. attempt'.job = attempt.job
    BY DEF TakeSnapshot, Types, TypeOK, Attempt
  <2>. QED BY <1>1, <1>3, <2>1 DEF Secured, SnapshotsStep
<1>4. CASE Unrestored(attempt.job) # {}
  <2>1. PICK i \in DOMAIN snapshots : snapshots[i].job = attempt.job /\ ~snapshots[i].restored
    BY <1>4 DEF Unrestored
  <2>2. Secured(attempt.job)
    BY <2>1 DEF SnapshotInv, SnapshotFirst, Secured
  <2>. QED BY <1>3, <2>2
<1>5. CASE Unrestored(attempt.job) = {} /\ ~Secured(attempt.job)
  <2>1. ~Current.wrote
    BY <1>2, <1>5 DEF SnapshotInv, SnapshotFirst, Secured, Current
  <2>2. PICK i \in DOMAIN snapshots' :
          snapshots'[i].job = attempt.job /\ snapshots'[i].pristine = ~Current.wrote
    BY <1>5, SnapshotTaken
  <2>3. attempt'.job = attempt.job
    BY DEF TakeSnapshot, Types, TypeOK, Attempt
  <2>. QED BY <2>1, <2>2, <2>3 DEF Secured
<1>. QED BY <1>3, <1>4, <1>5

LEMMA SnapshotInvStep ==
  ASSUME Types, AttemptInv, SnapshotInv, Next
  PROVE  SnapshotInv'
<1>1. JobsStep /\ SnapshotsStep /\ AttemptStep /\ attempt \in Attempt
  BY TablesStep, AttemptMoves DEF Types, TypeOK
<1>2. ASSUME NEW j \in DOMAIN jobs', jobs'[j].wrote
      PROVE  \E i \in DOMAIN snapshots' : snapshots'[i].job = j /\ snapshots'[i].pristine
  <2>1. j \in DOMAIN jobs /\ (jobs[j].wrote \/ (CallsLeft /\ j = attempt.job))
    BY <1>1, <1>2 DEF JobsStep
  <2>2. Secured(j)
    BY <2>1 DEF SnapshotInv, SnapshotFirst, SecuredBeforeCalls, Secured
  <2>. QED BY <1>1, <2>2 DEF SnapshotsStep, Secured
<1>3. ASSUME NEW i \in DOMAIN snapshots', ~snapshots'[i].pristine, ~snapshots'[i].restored
      PROVE  \E first \in DOMAIN snapshots' :
               /\ snapshots'[first].job = snapshots'[i].job
               /\ snapshots'[first].pristine /\ snapshots'[first].restored
  <2>1. CASE i \in DOMAIN snapshots
    <3>1. ~snapshots[i].pristine /\ ~snapshots[i].restored
      BY <1>1, <1>3, <2>1 DEF SnapshotsStep
    <3>2. PICK first \in DOMAIN snapshots :
            snapshots[first].job = snapshots[i].job
            /\ snapshots[first].pristine /\ snapshots[first].restored
      BY <2>1, <3>1 DEF SnapshotInv, SnapshotFirst
    <3>. QED BY <1>1, <2>1, <3>2 DEF SnapshotsStep
  <2>2. CASE i \notin DOMAIN snapshots
    <3>1. /\ TakeSnapshot /\ Unrestored(attempt.job) = {}
          /\ snapshots'[i].job = attempt.job /\ Current.wrote
      BY <1>1, <1>3, <2>2 DEF SnapshotsStep
    <3>2. attempt.job \in DOMAIN jobs
      BY <3>1 DEF Types, JobsResolve, TakeSnapshot
    <3>3. PICK first \in DOMAIN snapshots :
            snapshots[first].job = attempt.job /\ snapshots[first].pristine
      BY <3>1, <3>2 DEF SnapshotInv, SnapshotFirst, Current
    <3>4. snapshots[first].restored
      BY <3>1, <3>3 DEF Unrestored
    <3>. QED BY <1>1, <3>1, <3>3, <3>4 DEF SnapshotsStep
  <2>. QED BY <2>1, <2>2
<1>4. SnapshotFirst'
  BY <1>2, <1>3 DEF SnapshotFirst
<1>5. SecuredBeforeCalls'
  <2>. SUFFICES ASSUME CallsLeft' PROVE Secured(attempt.job)'
    BY DEF SecuredBeforeCalls
  <2>1. CASE attempt'.phase = "idle" \/ attempt'.phase = "planned"
    BY <2>1 DEF CallsLeft
  <2>2. CASE TakeSnapshot /\ attempt' = [attempt EXCEPT !.phase = "writing"]
    <3>1. attempt.phase = "planned" /\ (attempt.todo # {} \/ attempt.shows # {})
      BY <1>1, <2>2 DEF TakeSnapshot, CallsLeft, Attempt
    <3>2. attempt.todo # {}
      BY <3>1 DEF AttemptInv, EmptyPlanClearsNothing
    <3>. QED BY <2>2, <3>2, SnapshotSecures
  <2>3. CASE attempt.phase = "writing" /\ Shortened(attempt')
    <3>1. CallsLeft /\ attempt'.job = attempt.job
      BY <2>3 DEF CallsLeft, Shortened
    <3>2. Secured(attempt.job)
      BY <3>1 DEF SnapshotInv, SecuredBeforeCalls
    <3>. QED BY <1>1, <3>1, <3>2 DEF SnapshotsStep, Secured
  <2>4. CASE UNCHANGED attempt
    <3>1. CallsLeft
      BY <2>4 DEF CallsLeft
    <3>2. Secured(attempt.job)
      BY <3>1 DEF SnapshotInv, SecuredBeforeCalls
    <3>. QED BY <1>1, <2>4, <3>2 DEF SnapshotsStep, Secured
  <2>. QED BY <1>1, <2>1, <2>2, <2>3, <2>4 DEF AttemptStep
<1>. QED BY <1>4, <1>5 DEF SnapshotInv

LEMMA SnapshotInvHolds == Spec => []SnapshotInv
<1>1. Init => SnapshotInv
  <2>. SUFFICES ASSUME Init PROVE SnapshotInv
    OBVIOUS
  <2>1. \A i \in DOMAIN snapshots : snapshots[i].pristine
    <3>1. CASE snapshots = <<>>
      BY <3>1
    <3>2. ASSUME NEW old \in Legacy, snapshots = <<old>> PROVE \A i \in DOMAIN snapshots : snapshots[i].pristine
      BY <3>2, LegacyAssumption
    <3>. QED BY <3>1, <3>2 DEF Init
  <2>2. jobs = <<>> /\ attempt.phase = "idle"
    BY NoAttemptType DEF Init
  <2>. QED BY <2>1, <2>2 DEF SnapshotInv, SnapshotFirst, SecuredBeforeCalls, CallsLeft
<1>2. Types /\ AttemptInv /\ SnapshotInv /\ [Next]_vars => SnapshotInv'
  <2>1. CASE UNCHANGED vars
    BY <2>1 DEF vars, tables, SnapshotInv, SnapshotFirst, SecuredBeforeCalls, CallsLeft, Secured
  <2>. QED BY <2>1, SnapshotInvStep
<1>. QED BY <1>1, <1>2, TypesHold, AttemptInvHolds, PTL DEF Spec

\* A job that has written to an account has a snapshot from before its first write, however
\* often it died and was tried again; one of the job's own doing stands beside it only where
\* that first one was put back.
THEOREM SnapshotBeforeWrites == Spec => []SnapshotFirst
<1>1. SnapshotInv => SnapshotFirst
  BY DEF SnapshotInv
<1>. QED BY <1>1, SnapshotInvHolds, PTL

-----------------------------------------------------------------------------
(* The plan, write by write. *)

\* How far the plan of title `k` has come: `mine` is what is left of it, `now` what the
\* account has. Last: a show that took the title with it, which was not wanted.
Stage(k, mine, now, want, have) ==
  LET plan == PlanOne(k, want, have)
  IN  \/ mine = plan /\ now = have
      \/ mine = {op \in plan : ~Removal(op)} /\ now = AfterReset(want, have)
      \/ mine = {op \in plan : op.kind = "set_offset"} /\ now = AfterMarks(want, have)
      \/ mine = {} /\ now = AfterPlan(want, have)
      \/ mine = {} /\ now = Unwatched /\ want = Unwatched

\* The three writes a plan may hold.
ResetOp(k, want, have) ==
  [key |-> k, kind |-> IF have.count > want.count THEN "unmark" ELSE "clear_offset",
   n |-> 1, offset |-> 0]
MarkOp(k, want, have) == [key |-> k, kind |-> "mark", n |-> Scrobbles(want, have), offset |-> 0]
OffsetOp(k, want) == [key |-> k, kind |-> "set_offset", n |-> 1, offset |-> want.offset]

LEMMA PlanMembers ==
  ASSUME NEW k, NEW want, NEW have, NEW op
  PROVE  op \in PlanOne(k, want, have) <=>
           \/ op = ResetOp(k, want, have) /\ Resetting(want, have)
           \/ op = MarkOp(k, want, have) /\ Scrobbles(want, have) > 0
           \/ op = OffsetOp(k, want) /\ Repositioning(want, have)
  BY DEF PlanOne, Only, ResetOp, MarkOp, OffsetOp

LEMMA KindsOfOps ==
  ASSUME NEW k, NEW want, NEW have
  PROVE  /\ Removal(ResetOp(k, want, have)) /\ ResetOp(k, want, have).kind # "set_offset"
         /\ ~Removal(MarkOp(k, want, have)) /\ MarkOp(k, want, have).kind = "mark"
         /\ ~Removal(OffsetOp(k, want)) /\ OffsetOp(k, want).kind = "set_offset"
         /\ ResetOp(k, want, have).kind \in {"unmark", "clear_offset"}
         /\ ResetOp(k, want, have).key = k /\ MarkOp(k, want, have).key = k
         /\ OffsetOp(k, want).key = k
         /\ ResetOp(k, want, have).n = 1 /\ MarkOp(k, want, have).n = Scrobbles(want, have)
         /\ OffsetOp(k, want).n = 1 /\ OffsetOp(k, want).offset = want.offset
  BY DEF ResetOp, MarkOp, OffsetOp, Removal

\* What each write leaves, landing as often as planned.
LEMMA OpsWritten ==
  ASSUME NEW k, NEW want \in Item, NEW have \in Item, NEW now \in Item
  PROVE  /\ Written(ResetOp(k, want, have), now, 1) = Unwatched
         /\ Scrobbles(want, have) > 0 =>
              Written(MarkOp(k, want, have), now, Scrobbles(want, have))
                = [count |-> now.count + Scrobbles(want, have), offset |-> 0]
         /\ Written(OffsetOp(k, want), now, 1) = [now EXCEPT !.offset = want.offset]
  BY ScrobblesAreNat DEF Written, ResetOp, MarkOp, OffsetOp

\* A write of the plan whose turn it is lands as planned, and the title comes a stage on.
LEMMA StageMoves ==
  ASSUME NEW k \in Keys, NEW want \in Item, NEW have \in Item, NEW now \in Item,
         NEW mine, NEW op \in mine, NEW viewed,
         Stage(k, mine, now, want, have),
         \A other \in mine \ {op} : Before(op, other, viewed)
  PROVE  Stage(k, mine \ {op}, Written(op, now, op.n), want, have)
<1>. DEFINE plan == PlanOne(k, want, have)
            reset == ResetOp(k, want, have)
            mark == MarkOp(k, want, have)
            place == OffsetOp(k, want)
            n == Scrobbles(want, have)
<1>1. \A o : o \in plan <=> \/ o = reset /\ Resetting(want, have)
                            \/ o = mark /\ n > 0
                            \/ o = place /\ Repositioning(want, have)
  BY PlanMembers
<1>2. /\ Removal(reset) /\ reset.kind # "set_offset"
      /\ ~Removal(mark) /\ mark.kind = "mark"
      /\ ~Removal(place) /\ place.kind = "set_offset"
      /\ reset.key = k /\ mark.key = k /\ place.key = k
      /\ reset.n = 1 /\ mark.n = n /\ place.n = 1
  BY KindsOfOps
<1>3. /\ Written(reset, now, 1) = Unwatched
      /\ n > 0 => Written(mark, now, n) = [count |-> now.count + n, offset |-> 0]
      /\ Written(place, now, 1) = [now EXCEPT !.offset = want.offset]
  BY OpsWritten
<1>4. mine \subseteq plan
  BY DEF Stage
<1>5. \A o \in mine \ {op} : Removal(o) => Removal(op)
  BY DEF Before
<1>6. \A o \in mine \ {op} : o.kind = "mark" => op.kind # "set_offset"
  <2>. SUFFICES ASSUME NEW o \in mine \ {op}, o.kind = "mark", op.kind = "set_offset" PROVE FALSE
    OBVIOUS
  <2>1. o.key = k /\ op.key = k /\ ~Removal(o) /\ ~Removal(op)
    BY <1>1, <1>2, <1>4 DEF Removal
  <2>. QED BY <2>1 DEF Before
<1>. HIDE DEF reset, mark, place, n
<1>7. CASE op = reset
  <2>1. Resetting(want, have) /\ mine = plan
    BY <1>1, <1>2, <1>4, <1>7 DEF Stage
  <2>2. mine \ {op} = {o \in plan : ~Removal(o)}
    BY <1>1, <1>2, <1>7, <2>1
  <2>3. Written(op, now, op.n) = AfterReset(want, have)
    BY <1>2, <1>3, <1>7, <2>1 DEF AfterReset
  <2>. QED BY <2>2, <2>3 DEF Stage
<1>8. CASE op = mark
  <2>1. n > 0 /\ reset \notin mine
    BY <1>1, <1>2, <1>4, <1>5, <1>8
  <2>2. now = AfterReset(want, have) /\ (mine = plan \/ mine = {o \in plan : ~Removal(o)})
    <3>1. CASE mine = plan /\ now = have
      BY <1>1, <2>1, <3>1 DEF AfterReset
    <3>2. mark \in mine /\ mark.kind # "set_offset"
      BY <1>2, <1>8
    <3>. QED BY <3>1, <3>2 DEF Stage
  <2>3. mine \ {op} = {o \in plan : o.kind = "set_offset"}
    BY <1>1, <1>2, <1>8, <2>1, <2>2
  <2>4. Written(op, now, op.n) = AfterMarks(want, have)
    BY <1>2, <1>3, <1>8, <2>1, <2>2 DEF AfterMarks, n
  <2>. QED BY <2>3, <2>4 DEF Stage
<1>9. CASE op = place
  <2>1. Repositioning(want, have) /\ reset \notin mine /\ mark \notin mine
    BY <1>1, <1>2, <1>4, <1>5, <1>6, <1>9
  <2>2. now = AfterMarks(want, have)
    <3>1. CASE mine = plan /\ now = have
      BY <1>1, <2>1, <3>1 DEF AfterMarks, AfterReset, n
    <3>2. CASE mine = {o \in plan : ~Removal(o)} /\ now = AfterReset(want, have)
      BY <1>1, <1>2, <2>1, <3>2 DEF AfterMarks, n
    <3>. QED BY <3>1, <3>2 DEF Stage
  <2>3. mine \ {op} = {}
    BY <1>1, <1>4, <1>9, <2>1
  <2>4. Written(op, now, op.n) = AfterPlan(want, have)
    BY <1>2, <1>3, <1>9, <2>1, <2>2 DEF AfterPlan
  <2>. QED BY <2>3, <2>4 DEF Stage
<1>. QED BY <1>1, <1>4, <1>7, <1>8, <1>9

\* A title of which nothing is left to write agrees with what was asked for.
LEMMA LastStageAgrees ==
  ASSUME NEW k \in Keys, NEW want \in Item, NEW have \in Item, NEW now,
         Stage(k, {}, now, want, have)
  PROVE  Agree(want, now)
<1>1. Agree(Unwatched, Unwatched)
  BY ToleranceAssumption DEF Agree, Distance, Unwatched
<1>2. ASSUME now = AfterPlan(want, have) PROVE Agree(want, now)
  BY <1>2, PlanMirrors
<1>3. CASE {} = PlanOne(k, want, have) /\ now = have
  BY <1>3, PlanEndsInAgreement
<1>4. CASE {} = {op \in PlanOne(k, want, have) : ~Removal(op)} /\ now = AfterReset(want, have)
  <2>1. ~(Scrobbles(want, have) > 0) /\ ~Repositioning(want, have)
    BY <1>4, PlanMembers, KindsOfOps
  <2>. QED BY <1>2, <1>4, <2>1 DEF AfterPlan, AfterMarks
<1>5. CASE {} = {op \in PlanOne(k, want, have) : op.kind = "set_offset"} /\ now = AfterMarks(want, have)
  <2>1. ~Repositioning(want, have)
    BY <1>5, PlanMembers, KindsOfOps
  <2>. QED BY <1>2, <1>5, <2>1 DEF AfterPlan
<1>. QED BY <1>1, <1>2, <1>3, <1>4, <1>5 DEF Stage

\* At no stage has the title more plays than the larger of the two accounts.
LEMMA StageBounded ==
  ASSUME NEW k, NEW mine, NEW want \in Item, NEW have \in Item, NEW now,
         Stage(k, mine, now, want, have)
  PROVE  now.count <= IF want.count > have.count THEN want.count ELSE have.count
<1>. DEFINE bound == IF want.count > have.count THEN want.count ELSE have.count
<1>1. want.count \in Nat /\ have.count \in Nat
  BY ItemValues
<1>2. bound \in Nat /\ want.count <= bound /\ have.count <= bound
  BY <1>1
<1>. HIDE DEF bound
<1>3. /\ AfterReset(want, have).count <= bound
      /\ AfterMarks(want, have).count <= bound
      /\ AfterPlan(want, have).count <= bound
      /\ have.count <= bound /\ Unwatched.count <= bound
  BY <1>2, StagesStayInside DEF Unwatched
<1>4. now.count <= bound
  BY <1>3 DEF Stage
<1>. QED BY <1>4 DEF bound

-----------------------------------------------------------------------------
(* The attempt as a whole. *)

\* What is left to write for title `k`.
Mine(k) == {op \in attempt.todo : op.key = k}

OnPlan(k) == Stage(k, Mine(k), target[k], attempt.want[k], attempt.have[k])

\* The title was read by the attempt, and nothing but its writes changed it since.
Intact(k) == k \in Keys /\ k \notin disturbed /\ LibraryOf(k) \notin attempt.unread

\* While every write of the attempt lands, every intact title is at a stage of its plan.
PlanUnderWay == attempt.phase # "idle" /\ Landed => \A k \in Keys : Intact(k) => OnPlan(k)

LEMMA PlanStarts ==
  ASSUME Types, NEW j \in DOMAIN jobs, Began(j), NEW k \in Keys, Intact(k)'
  PROVE  OnPlan(k)'
<1>1. /\ attempt'.have = Read(target, hidden) /\ attempt'.unread = hidden
      /\ attempt'.want \in States
      /\ attempt'.todo = BuildPlan(attempt'.want, attempt'.have)
      /\ target' = target
  BY AttemptBegins
<1>2. target \in States /\ attempt'.have \in States
  BY <1>1, ReadIsState DEF Types, TypeOK
<1>3. attempt'.have[k] = target[k]
  BY <1>1 DEF Read, Intact
<1>4. Mine(k)' = PlanOne(k, attempt'.want[k], attempt'.have[k])
  BY <1>1, <1>2, PlanOfOneTitle DEF Mine
<1>. QED BY <1>1, <1>3, <1>4 DEF OnPlan, Stage

\* A title the step does not touch, in a plan of which nothing of it is struck.
LEMMA StageStays ==
  ASSUME NEW k \in Keys, OnPlan(k), target'[k] = target[k],
         attempt'.want = attempt.want, attempt'.have = attempt.have, Mine(k)' = Mine(k)
  PROVE  OnPlan(k)'
  BY DEF OnPlan

LEMMA WriteKeepsPlan ==
  ASSUME Types, NEW op \in attempt.todo, WriteLands(op), NEW k \in Keys, OnPlan(k)
  PROVE  OnPlan(k)'
<1>0. /\ attempt \in Attempt /\ target \in States /\ op \in Op
      /\ attempt.want[k] \in Item /\ attempt.have[k] \in Item /\ target[k] \in Item
  BY DEF Types, TypeOK, Attempt, States
<1>1. /\ attempt'.want = attempt.want /\ attempt'.have = attempt.have
      /\ attempt'.todo = attempt.todo \ {op}
  BY <1>0 DEF WriteLands, Attempt
<1>2. target' = [target EXCEPT ![op.key] = Written(op, target[op.key], op.n)]
  BY DEF WriteLands, Effect
<1>3. CASE op.key # k
  <2>1. Mine(k)' = Mine(k) /\ target'[k] = target[k]
    BY <1>0, <1>1, <1>2, <1>3 DEF Mine, States
  <2>. QED BY <1>1, <2>1, StageStays
<1>4. CASE op.key = k
  <2>1. op \in Mine(k) /\ Mine(k)' = Mine(k) \ {op}
    BY <1>1, <1>4 DEF Mine
  <2>2. target'[k] = Written(op, target[k], op.n)
    BY <1>0, <1>2, <1>4 DEF States
  <2>3. PICK viewed : \A other \in Mine(k) \ {op} : Before(op, other, viewed)
    BY DEF WriteLands, Turn, Mine
  <2>4. Stage(k, Mine(k) \ {op}, Written(op, target[k], op.n), attempt.want[k], attempt.have[k])
    BY <1>0, <2>1, <2>3, StageMoves DEF OnPlan
  <2>. QED BY <1>1, <2>1, <2>2, <2>4 DEF OnPlan
<1>. QED BY <1>3, <1>4

LEMMA ClearKeepsPlan ==
  ASSUME Types, AttemptInv, NEW s \in Shows, ClearShow(s), NEW k \in Keys, OnPlan(k)
  PROVE  OnPlan(k)'
<1>0. attempt \in Attempt /\ target \in States
  BY DEF Types, TypeOK
<1>1. /\ attempt'.want = attempt.want /\ attempt'.have = attempt.have
      /\ attempt'.todo = attempt.todo /\ attempt.todo = {}
  BY <1>0 DEF ClearShow, Clearing, Attempt
<1>2. Mine(k) = {} /\ Mine(k)' = {}
  BY <1>1 DEF Mine
<1>3. CASE k \in Episodes(s)
  <2>1. attempt.want[k] = Unwatched
    BY <1>3 DEF AttemptInv, WantedShowsStay, Present, Episodes, ClearShow
  <2>2. target'[k] = Unwatched
    BY <1>3 DEF ClearShow, ShowCleared
  <2>. QED BY <1>1, <1>2, <2>1, <2>2 DEF OnPlan, Stage
<1>4. CASE k \notin Episodes(s)
  <2>1. target'[k] = target[k]
    BY <1>4 DEF ClearShow, ShowCleared
  <2>. QED BY <1>1, <1>2, <2>1, StageStays
<1>. QED BY <1>3, <1>4

LEMMA PlanUnderWayStep ==
  ASSUME Types, AttemptInv, PlanUnderWay, Next
  PROVE  PlanUnderWay'
<1>. SUFFICES ASSUME attempt'.phase # "idle", Landed', NEW k \in Keys, Intact(k)'
              PROVE  OnPlan(k)'
  BY DEF PlanUnderWay
<1>0. attempt \in Attempt /\ target \in States
  BY DEF Types, TypeOK
<1>1. ASSUME attempt' = NoAttempt PROVE FALSE
  BY <1>1, NoAttemptType
<1>2. ASSUME attempt.phase # "idle", Landed, attempt'.unread = attempt.unread,
             k \notin disturbed
      PROVE  OnPlan(k)
  BY <1>2 DEF PlanUnderWay, Intact
<1>3. ASSUME UNCHANGED <<attempt, disturbed>>, target'[k] = target[k] PROVE OnPlan(k)'
  <2>1. OnPlan(k)
    BY <1>2, <1>3 DEF Landed, Intact
  <2>. QED BY <1>3, <2>1, StageStays DEF Mine
<1>4. CASE RequestTransfer \/ \E i \in DOMAIN snapshots : RequestUndo(i)
  BY <1>3, <1>4 DEF RequestTransfer, RequestUndo, Ask, accounts
<1>5. ASSUME NEW j \in DOMAIN jobs, RefuseTransfer(j) \/ RefuseUndo(j) \/ BeginRaises(j)
      PROVE  OnPlan(k)'
  BY <1>3, <1>5 DEF RefuseTransfer, RefuseUndo, BeginRaises, accounts
<1>6. ASSUME NEW j \in DOMAIN jobs, Began(j) PROVE OnPlan(k)'
  BY <1>6, PlanStarts
<1>7. CASE TakeSnapshot
  <2>1. attempt' = [attempt EXCEPT !.phase = "writing"] /\ attempt.phase = "planned"
        /\ disturbed' = disturbed /\ target' = target
    BY <1>7 DEF TakeSnapshot, accounts
  <2>2. /\ attempt'.want = attempt.want /\ attempt'.have = attempt.have
        /\ attempt'.todo = attempt.todo /\ attempt'.unread = attempt.unread
        /\ attempt'.failed = attempt.failed /\ attempt'.unreachable = attempt.unreachable
    BY <1>0, <2>1 DEF Attempt
  <2>3. OnPlan(k)
    BY <1>2, <2>1, <2>2 DEF Landed, Intact
  <2>. QED BY <2>1, <2>2, <2>3, StageStays DEF Mine
<1>8. ASSUME NEW op \in attempt.todo, WriteLands(op) PROVE OnPlan(k)'
  <2>1. /\ attempt.phase = "writing" /\ attempt'.unread = attempt.unread
        /\ attempt'.failed = attempt.failed /\ attempt'.unreachable = attempt.unreachable
    BY <1>0, <1>8 DEF WriteLands, Turn, Attempt
  <2>2. disturbed \subseteq disturbed'
    BY <1>8 DEF WriteLands, Effect
  <2>3. OnPlan(k)
    BY <1>2, <2>1, <2>2 DEF Landed, Intact
  <2>. QED BY <1>8, <2>3, WriteKeepsPlan
<1>9. ASSUME NEW op \in attempt.todo, WriteLandsTwice(op) PROVE OnPlan(k)'
  <2>0. op \in Op /\ op.n \in Nat
    BY <1>0 DEF Attempt, Op
  <2>1. PICK again \in 1..2 : Effect(op, op.n + again)
    BY <1>9 DEF WriteLandsTwice
  <2>2. op.kind = "mark" /\ op.n + again > op.n
    BY <1>9, <2>0 DEF WriteLandsTwice
  <2>3. disturbed' = disturbed \cup {op.key} /\ op.key # k
    BY <2>1, <2>2 DEF Effect, Intact
  <2>4. attempt' = [attempt EXCEPT !.todo = @ \ {op}] /\ attempt.phase = "writing"
    BY <1>9 DEF WriteLandsTwice, Turn
  <2>5. /\ attempt'.want = attempt.want /\ attempt'.have = attempt.have
        /\ attempt'.todo = attempt.todo \ {op} /\ attempt'.unread = attempt.unread
        /\ attempt'.failed = attempt.failed /\ attempt'.unreachable = attempt.unreachable
    BY <1>0, <2>4 DEF Attempt
  <2>6. OnPlan(k)
    BY <1>2, <2>3, <2>4, <2>5 DEF Landed, Intact
  <2>7. target'[k] = target[k] /\ Mine(k)' = Mine(k)
    BY <1>0, <2>1, <2>3, <2>5 DEF Effect, Mine, States
  <2>. QED BY <2>5, <2>6, <2>7, StageStays
<1>10. ASSUME NEW op \in attempt.todo, WriteRefused(op) \/ WriteRaises(op) PROVE FALSE
  <2>1. \/ attempt' = [attempt EXCEPT !.todo = @ \ {op}, !.refused = @ \cup {op.key},
                                      !.unreachable = TRUE]
        \/ attempt' = [attempt EXCEPT !.todo = @ \ {op}, !.failed = TRUE]
    BY <1>10 DEF WriteRefused, WriteRaises
  <2>. QED BY <1>0, <2>1 DEF Attempt, Landed
<1>11. ASSUME NEW s \in Shows, ClearShow(s) PROVE OnPlan(k)'
  <2>1. attempt' = [attempt EXCEPT !.shows = @ \ {s}] /\ attempt.phase = "writing"
        /\ disturbed' = disturbed
    BY <1>11 DEF ClearShow, Clearing, ShowCleared
  <2>2. /\ attempt'.unread = attempt.unread
        /\ attempt'.failed = attempt.failed /\ attempt'.unreachable = attempt.unreachable
    BY <1>0, <2>1 DEF Attempt
  <2>3. OnPlan(k)
    BY <1>2, <2>1, <2>2 DEF Landed, Intact
  <2>. QED BY <1>11, <2>3, ClearKeepsPlan
<1>12. ASSUME NEW s \in Shows, ClearRefused(s) \/ ClearRaises(s) PROVE FALSE
  <2>1. \/ attempt' = [attempt EXCEPT !.shows = @ \ {s}, !.unreachable = TRUE]
        \/ attempt' = [attempt EXCEPT !.shows = @ \ {s}, !.failed = TRUE]
    BY <1>12 DEF ClearRefused, ClearRaises
  <2>. QED BY <1>0, <2>1 DEF Attempt, Landed
<1>13. CASE \/ FinishTransfer \/ FinishRaises \/ FinishUndo \/ UndoFallsShort
            \/ Crash \/ DiesUnclosed
  BY <1>1, <1>13 DEF FinishTransfer, FinishRaises, FinishUndo, UndoFallsShort, Crash, DiesUnclosed
<1>14. ASSUME NEW x \in Keys, Watch(x) PROVE OnPlan(k)'
  <2>1. attempt' = attempt /\ disturbed' = disturbed \cup {x} /\ x # k
    BY <1>14 DEF Watch, Intact
  <2>2. target'[k] = target[k]
    BY <1>0, <1>14, <2>1 DEF Watch, States
  <2>3. OnPlan(k)
    BY <1>2, <2>1 DEF Landed, Intact
  <2>. QED BY <2>1, <2>2, <2>3, StageStays DEF Mine
<1>15. CASE (\E l \in Libraries : ShareLibrary(l)) \/ LeaveHome \/ SyncWatched
  BY <1>3, <1>15 DEF ShareLibrary, LeaveHome, SyncWatched, accounts
<1>. QED BY <1>4, <1>5, <1>6, <1>7, <1>8, <1>9, <1>10, <1>11, <1>12, <1>13, <1>14, <1>15
     DEF Next, Began

LEMMA PlanUnderWayHolds == Spec => []PlanUnderWay
<1>1. Init => PlanUnderWay
  BY NoAttemptType DEF Init, PlanUnderWay
<1>2. Types /\ AttemptInv /\ PlanUnderWay /\ [Next]_vars => PlanUnderWay'
  <2>1. CASE UNCHANGED vars
    BY <2>1 DEF vars, accounts, PlanUnderWay, Landed, Intact, OnPlan, Mine
  <2>. QED BY <2>1, PlanUnderWayStep
<1>. QED BY <1>1, <1>2, TypesHold, AttemptInvHolds, PTL DEF Spec

\* No title passes, at any moment of a job whose writes land, the larger of the counts it
\* had and is to have: for every plan, every order of the writes of different titles and
\* whatever happens to other titles meanwhile.
THEOREM CountsBounded == Spec => []CountsStayInside
<1>1. Types /\ PlanUnderWay => CountsStayInside
  <2>. SUFFICES ASSUME Types, PlanUnderWay, attempt.phase = "writing", Landed,
                       NEW k \in Keys, k \notin disturbed, LibraryOf(k) \notin attempt.unread
                PROVE  target[k].count <= IF attempt.want[k].count > attempt.have[k].count
                                          THEN attempt.want[k].count ELSE attempt.have[k].count
    BY DEF CountsStayInside
  <2>1. Stage(k, Mine(k), target[k], attempt.want[k], attempt.have[k])
    BY DEF PlanUnderWay, Intact, OnPlan
  <2>2. attempt.want[k] \in Item /\ attempt.have[k] \in Item
    BY DEF Types, TypeOK, Attempt, States
  <2>. QED BY <2>1, <2>2, StageBounded
<1>. QED BY <1>1, TypesHold, PlanUnderWayHolds, PTL

\* An undo that marks its snapshot restored has put back every title it could read and
\* nobody changed under it, over any number of retries, deaths and earlier undos.
THEOREM UndoRestores == Spec => LandedUndoRestores
<1>1. Types /\ AttemptInv /\ PlanUnderWay /\ [Next]_vars
        => [\A i \in DOMAIN snapshots : Restores(i) =>
              \A k \in Keys \ disturbed :
                LibraryOf(k) \notin attempt.unread => Agree(snapshots[i].state[k], target[k])]_vars
  <2>. SUFFICES ASSUME Types, AttemptInv, PlanUnderWay, [Next]_vars,
                       NEW i \in DOMAIN snapshots, Restores(i),
                       NEW k \in Keys, k \notin disturbed, LibraryOf(k) \notin attempt.unread
                PROVE  Agree(snapshots[i].state[k], target[k])
    OBVIOUS
  <2>1. Next
    BY DEF vars, tables, Restores
  <2>2. CommitUndo /\ i = Current.undoes
    BY <2>1, TablesStep DEF SnapshotsStep, Restores
  <2>3. attempt.phase = "writing" /\ attempt.todo = {} /\ IsUndo /\ Landed
    BY <2>2 DEF CommitUndo, AllWritten
  <2>4. attempt.want = snapshots[i].state
    BY <2>2, <2>3 DEF AttemptInv, WantIsGiven
  <2>5. Stage(k, {}, target[k], attempt.want[k], attempt.have[k])
    BY <2>3 DEF PlanUnderWay, Intact, OnPlan, Mine
  <2>6. attempt.want[k] \in Item /\ attempt.have[k] \in Item
    BY DEF Types, TypeOK, Attempt, States
  <2>. QED BY <2>4, <2>5, <2>6, LastStageAgrees
<1>. QED BY <1>1, TypesHold, AttemptInvHolds, PlanUnderWayHolds, PTL DEF Spec, LandedUndoRestores

\* A transfer reported to match matches, in every title it could write and the account
\* sees, whatever was refused, lost, doubled or watched on the way.
THEOREM MatchesIsHonest == Spec => VerifyIsHonest
<1>1. Types /\ AttemptInv /\ [Next]_vars
        => [\A j \in DOMAIN jobs :
              jobs[j].report # "matches" /\ jobs'[j].report = "matches" =>
                \A k \in Keys \ attempt.refused :
                  LibraryOf(k) \notin hidden => Agree(source.state[k], target[k])]_vars
  <2>. SUFFICES ASSUME Types, AttemptInv, [Next]_vars, NEW j \in DOMAIN jobs,
                       jobs[j].report # "matches", jobs'[j].report = "matches",
                       NEW k \in Keys, k \notin attempt.refused, LibraryOf(k) \notin hidden
                PROVE  Agree(source.state[k], target[k])
    OBVIOUS
  <2>1. Next
    BY DEF vars
  <2>2. FinishTransfer /\ j = attempt.job
    BY <2>1, TablesStep DEF JobsStep
  <2>3. Mismatched = {}
    BY <2>2, JobReports
  <2>4. attempt.phase # "idle" /\ ~IsUndo
    BY <2>2 DEF FinishTransfer, CommitTransfer, AllWritten
  <2>5. attempt.want = source.state
    BY <2>4 DEF AttemptInv, WantIsGiven
  <2>. DEFINE seen == Read(target, hidden)
  <2>6. seen \in States /\ seen[k] = target[k] /\ attempt.want \in States
    BY ReadIsState DEF Types, TypeOK, Attempt, Read
  <2>. HIDE DEF seen
  <2>7. {op \in BuildPlan(attempt.want, seen) : op.key = k} = {}
    BY <2>3 DEF Mismatched, seen
  <2>8. PlanOne(k, attempt.want[k], seen[k]) = {}
    BY <2>6, <2>7, PlanOfOneTitle
  <2>. QED BY <2>5, <2>6, <2>8, PlanEndsInAgreement DEF States
<1>. QED BY <1>1, TypesHold, AttemptInvHolds, PTL DEF Spec, VerifyIsHonest
=============================================================================
