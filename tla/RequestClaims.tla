--------------------------- MODULE RequestClaims ---------------------------
(***************************************************************************)
(* How Shortlist asks Sonarr, Radarr or Overseerr for titles: the inbox    *)
(* (RequestCandidate), the ledger of acquisition claims                    *)
(* (AssistantRequestDispatch), and the three parties that send: the owner  *)
(* from the inbox, a job that carries out an approved assistant plan, and a *)
(* run, on its own or on an assistant's order.  Each commits a claim before *)
(* it contacts the vendor and records the answer in a later transaction;   *)
(* the process may die, a write may fail and the owner may edit the inbox   *)
(* in between.                                                             *)
(*                                                                         *)
(* A title stands for its (tmdb_id, media_type); the gates that choose what *)
(* a run sends, destinations, tags and details are left open.  Dry runs     *)
(* claim nothing and are left out, and so is `hidden`, which only the list  *)
(* of sent titles reads.  One send request, one plan and one run are under  *)
(* way at a time: a bound on the first two, the run lock for the third.     *)
(***************************************************************************)
EXTENDS Naturals, FiniteSets, Sequences

CONSTANTS
  Titles,      \* the titles people want and the library lacks
  Ways,        \* the ways to send in use: "manual", "assistant", "automatic", "assistant_run"
  Waiting,     \* the titles that earlier runs have put in the inbox, by id
  MaxId,       \* bound: inbox ids
  MaxClaims,   \* bound: rows of the ledger
  MaxBatch,    \* bound: titles of one reviewed batch, and requests.max_per_run
  MaxTroubles  \* bound: deaths of the process and database errors that break a sender off

ASSUME BoundsAssumption ==
  /\ Ways \subseteq {"manual", "assistant", "automatic", "assistant_run"}
  /\ "no_title" \notin Titles
  /\ Waiting \in Seq(Titles) /\ Len(Waiting) <= MaxId
  /\ \A j, k \in DOMAIN Waiting : Waiting[j] = Waiting[k] => j = k
  /\ {MaxId, MaxClaims, MaxBatch, MaxTroubles} \subseteq Nat

VARIABLES
  inbox,    \* [1..MaxId -> a row of request_candidates or NoRow]
  ledger,   \* the claims, in the order of their ids
  owner,    \* the batch of the send request under way
  job,      \* the assistant's request_send job
  run,      \* the request phase of the run under way
  stage,    \* "up", or what boot does next
  troubles,
  broken    \* whether the database has broken a sender off

vars == <<inbox, ledger, owner, job, run, stage, troubles, broken>>

-----------------------------------------------------------------------------
(* Rows and claims.                                                        *)

Ids == 1..MaxId
NoTitle == "no_title"

NoRow == [title |-> NoTitle, status |-> "none"]
Row == [title : Titles, status : {"pending", "sent", "rejected"}]

Statuses ==
  {"reserved", "external_started", "succeeded", "refused", "outcome_unknown", "released"}

\* Of the call: nothing sent, sent (whether the vendor has it, will have it or
\* never gets it), or taken, as the vendor's answer says.
Wires == {"no", "sent", "taken"}

\* `fresh`: the row has not been rewritten since an assistant's plan was approved
\* (candidate_revision). `calls` and `wire` record what was really asked, `freed`
\* that the owner released the claim at some time.
Claim ==
  [title : Titles, row : Ids \cup {0}, origin : Ways, status : Statuses,
   fresh : BOOLEAN, calls : Nat, wire : Wires, freed : BOOLEAN]

NewClaim(t, i, origin, status) ==
  [title |-> t, row |-> i, origin |-> origin, status |-> status, fresh |-> origin = "assistant",
   calls |-> IF status = "external_started" THEN 1 ELSE 0, wire |-> "no", freed |-> FALSE]

Claims == DOMAIN ledger

\* Claims that keep their title from being asked for again.
Standing(c) == c.status \in {"reserved", "external_started", "outcome_unknown", "succeeded"}

\* Slip: the claim is looked up by its inbox row alone.
Available_byRow(t, i) == \A k \in Claims : Standing(ledger[k]) => ledger[k].row # i

Available(t, i) ==
  \A k \in Claims :
    Standing(ledger[k]) => ledger[k].title # t /\ (i = 0 \/ ledger[k].row # i)

Present == {i \in Ids : inbox[i] # NoRow}
Pending == {i \in Ids : inbox[i].status = "pending"}

\* The inbox row of a title; 0 when it has none.
RowOf(t) == IF \E i \in Ids : inbox[i].title = t THEN CHOOSE i \in Ids : inbox[i].title = t ELSE 0

\* Slip: a status the rest of the program does not know.
Verdict_misspelt(outcome) == IF outcome = "requested" THEN "succeeded" ELSE "unknown"

\* Slip: any failure reads as a refusal.
Verdict_hopeful(outcome) == IF outcome = "requested" THEN "succeeded" ELSE "refused"

\* What the vendor's answer says of the claim.
Verdict(outcome) ==
  CASE outcome = "requested" -> "succeeded"
    [] outcome = "skipped" -> "refused"
    [] OTHER -> "outcome_unknown"

\* The answers of the vendor client: a skip only before anything was sent,
\* "requested" only when the vendor has it, "error" whatever became of it.
Outcomes(c) == {"error", IF c.wire = "no" THEN "skipped" ELSE "requested"}

Answered(c, outcome) ==
  [c EXCEPT !.status = Verdict(outcome), !.wire = IF outcome = "requested" THEN "taken" ELSE @]

\* Slip: every answer files the title as sent.
Filed_always(i, outcome) ==
  [j \in Ids |-> IF j = i /\ inbox[j] # NoRow THEN [inbox[j] EXCEPT !.status = "sent"] ELSE inbox[j]]

\* finish_candidate_in_session: by id, whatever title the row has by now.
Filed(i, outcome) ==
  [j \in Ids |-> IF j = i /\ inbox[j] # NoRow /\ outcome = "requested"
                 THEN [inbox[j] EXCEPT !.status = "sent"] ELSE inbox[j]]

\* Rows that were rewritten (their updated_at at least) are not what was approved.
Rewritten(claims, rows) ==
  [k \in DOMAIN claims |-> [claims[k] EXCEPT !.fresh = @ /\ claims[k].row \notin rows]]

\* The verdict on claim k, and on the row of the inbox it was made for.
Settle(k, outcome) ==
  /\ ledger' = Rewritten([ledger EXCEPT ![k] = Answered(@, outcome)], {ledger[k].row})
  /\ inbox' = Filed(ledger[k].row, outcome)

-----------------------------------------------------------------------------
(* Batches of the owner and of an approved plan.                           *)

Batches == {b \in UNION {[1..n -> Ids] : n \in 1..MaxBatch} :
              \A j, k \in DOMAIN b : b[j] = b[k] => j = k}

\* reserve_request_dispatches: all of the batch or none, in one transaction.
Reserve(batch, origin) ==
  /\ Len(ledger) + Len(batch) <= MaxClaims
  /\ \A k \in DOMAIN batch :
       inbox[batch[k]].status = "pending" /\ Available(inbox[batch[k]].title, batch[k])
  /\ ledger' = ledger \o
       [k \in DOMAIN batch |->
          NewClaim(inbox[batch[k]].title, batch[k], origin, "reserved")]

Batch(n) == [at |-> Len(ledger) + 1, last |-> Len(ledger) + n]
NoBatch == [at |-> 1, last |-> 0]
Left(batch) == batch.at <= batch.last

OwnerSends ==
  /\ stage = "up" /\ "manual" \in Ways /\ ~Left(owner)
  /\ \E batch \in Batches :
       /\ Reserve(batch, "manual")
       /\ owner' = Batch(Len(batch))
  /\ UNCHANGED <<inbox, job, run, stage, troubles, broken>>

NextEntry(batch) == [batch EXCEPT !.at = @ + 1]

\* The batch without what is settled: an empty one has no position.
Advanced(batch) == IF batch.at < batch.last THEN NextEntry(batch) ELSE NoBatch

CallBegins(c) == [c EXCEPT !.status = "external_started", !.calls = @ + 1, !.wire = "no"]

StillPending(c) == inbox[c.row].status = "pending" /\ inbox[c.row].title = c.title

\* start_manual_request_dispatch, committed before the vendor is contacted.
StartManual ==
  /\ stage = "up" /\ Left(owner)
  /\ LET k == owner.at
     IN  /\ ledger[k].status = "reserved"
         /\ \/ /\ StillPending(ledger[k])
               /\ ledger' = [ledger EXCEPT ![k] = CallBegins(@)]
               /\ UNCHANGED owner
            \/ /\ ~StillPending(ledger[k])
               /\ ledger' = [ledger EXCEPT ![k].status = "refused"]
               /\ owner' = Advanced(owner)
  /\ UNCHANGED <<inbox, job, run, stage, troubles, broken>>

OwnerCalling == Left(owner) /\ ledger[owner.at].status = "external_started"

\* finish_request_dispatch; an exception of the vendor client is an "error".
FinishManual ==
  /\ stage = "up" /\ OwnerCalling
  /\ \E outcome \in Outcomes(ledger[owner.at]) : Settle(owner.at, outcome)
  /\ owner' = Advanced(owner)
  /\ UNCHANGED <<job, run, stage, troubles, broken>>

-----------------------------------------------------------------------------
(* The assistant's plan: approved, staged with its job, carried out later.  *)

NoJob == [status |-> "none", first |-> 1, at |-> 1, last |-> 0, calling |-> FALSE]

Approve ==
  /\ stage = "up" /\ "assistant" \in Ways /\ job.status \in {"none", "done", "failed"}
  /\ \E batch \in Batches :
       /\ Reserve(batch, "assistant")
       /\ job' = [status |-> "queued", first |-> Len(ledger) + 1, at |-> Len(ledger) + 1,
                  last |-> Len(ledger) + Len(batch), calling |-> FALSE]
  /\ UNCHANGED <<inbox, owner, run, stage, troubles, broken>>

\* A job that is executed again starts over with its first entry.
JobStarts ==
  /\ stage = "up" /\ job.status = "queued"
  /\ job' = [job EXCEPT !.status = "running", !.at = job.first]
  /\ UNCHANGED <<inbox, ledger, owner, run, stage, troubles, broken>>

Working == stage = "up" /\ job.status = "running" /\ Left(job)

\* The statuses `_begin_dispatch` returns early for.
Resolved(c) == c.status \in {"succeeded", "refused", "outcome_unknown"}

\* Slip: a call found started is taken for one that was only reserved.
Interrupted_never(c) == FALSE

\* An earlier execution of the job died in the call.
Interrupted(c) == c.status = "external_started"

\* `_begin_dispatch`. Authority, safe mode and settings may refuse at any time;
\* the row must be what was approved.
BeginDispatch ==
  /\ Working /\ ~job.calling
  /\ LET k == job.at
         c == ledger[k]
     IN  \/ /\ Resolved(c)
            /\ job' = NextEntry(job)
            /\ UNCHANGED ledger
         \/ /\ Interrupted(c)
            /\ ledger' = [ledger EXCEPT ![k].status = "outcome_unknown"]
            /\ job' = NextEntry(job)
         \/ /\ ~Resolved(c) /\ ~Interrupted(c)
            /\ ledger' = [ledger EXCEPT ![k].status = "refused"]
            /\ job' = NextEntry(job)
         \/ /\ ~Resolved(c) /\ ~Interrupted(c)
            /\ StillPending(c) /\ c.fresh
            /\ ledger' = [ledger EXCEPT ![k] = CallBegins(@)]
            /\ job' = [job EXCEPT !.calling = TRUE]
  /\ UNCHANGED <<inbox, owner, run, stage, troubles, broken>>

\* `_finish_dispatch` of an answer, or of an exception, which leaves the row alone.
FinishDispatch ==
  /\ Working /\ job.calling
  /\ LET k == job.at
     IN  \/ \E outcome \in Outcomes(ledger[k]) : Settle(k, outcome)
         \/ /\ ledger' = [ledger EXCEPT ![k].status = "outcome_unknown"]
            /\ UNCHANGED inbox
  /\ job' = [NextEntry(job) EXCEPT !.calling = FALSE]
  /\ UNCHANGED <<owner, run, stage, troubles, broken>>

JobEnds ==
  /\ stage = "up" /\ job.status = "running" /\ ~Left(job)
  /\ job' = [job EXCEPT !.status = "done"]
  /\ UNCHANGED <<inbox, ledger, owner, run, stage, troubles, broken>>

-----------------------------------------------------------------------------
(* The request phase of a run.                                             *)

NoRun == [origin |-> "none", todo |-> {}, queued |-> {}, sent |-> {}, claim |-> 0, halted |-> FALSE]

\* _handled_requests: what the owner sent or rejected, and standing claims.
Handled ==
  {inbox[i].title : i \in {j \in Ids : inbox[j].status \in {"sent", "rejected"}}}
    \cup {ledger[k].title : k \in {j \in Claims : Standing(ledger[j])}}

\* The context is built and the gates passed: some titles are to be sent, at
\* most requests.max_per_run, the rest to be queued.
RunStarts ==
  /\ stage = "up" /\ run.origin = "none"
  /\ \E origin \in Ways \cap {"automatic", "assistant_run"},
        todo \in SUBSET (Titles \ Handled) :
       /\ Cardinality(todo) <= MaxBatch
       /\ run' = [NoRun EXCEPT !.origin = origin, !.todo = todo,
                    !.queued = Titles \ (Handled \cup todo)]
  /\ UNCHANGED <<inbox, ledger, owner, job, stage, troubles, broken>>

Sending == stage = "up" /\ run.origin # "none" /\ run.claim = 0

\* The pass breaks off and its report with it: nothing is filed.
BrokenOff == [run EXCEPT !.todo = {}, !.queued = {}, !.sent = {}, !.claim = 0]

\* Slip: the row is trusted as it was when the run began.
Unwanted_atStart(t) == FALSE

\* The row says the title was sent or rejected since the run began.
Unwanted(t) == RowOf(t) # 0 /\ inbox[RowOf(t)].status \in {"sent", "rejected"}

\* AutomaticRequestGuard and the acquisition guard of an assistant's run.
RunClaims ==
  /\ Sending /\ ~run.halted
  /\ \E t \in run.todo :
       \/ /\ ~Available(t, 0) \/ Unwanted(t)
          /\ run' = [run EXCEPT !.todo = @ \ {t}]
          /\ UNCHANGED ledger
       \/ /\ Available(t, 0) /\ ~Unwanted(t)
          /\ Len(ledger) < MaxClaims
          /\ ledger' = Append(ledger, NewClaim(t, RowOf(t), run.origin, "external_started"))
          /\ run' = [run EXCEPT !.todo = @ \ {t}, !.claim = Len(ledger) + 1]
  /\ UNCHANGED <<inbox, owner, job, stage, troubles, broken>>

\* An assistant's run that is halted, or out of budget or of authority, stops at
\* its next claim.
RunStops ==
  /\ Sending /\ run.origin = "assistant_run" /\ run.todo # {}
  /\ run' = BrokenOff
  /\ UNCHANGED <<inbox, ledger, owner, job, stage, troubles, broken>>

RunCalling == run.claim # 0

\* The recorded outcome; a title that could not be sent is queued or not by its kind.
RunRecords ==
  /\ stage = "up" /\ RunCalling
  /\ LET k == run.claim
         t == ledger[k].title
     IN  \E outcome \in Outcomes(ledger[k]), requeue \in {{t}, {}} :
           /\ outcome = "error" => requeue = {t}
           /\ outcome = "requested" => requeue = {}
           /\ Settle(k, outcome)
           /\ run' = [run EXCEPT !.claim = 0, !.queued = @ \cup requeue,
                        !.sent = IF outcome = "requested" THEN @ \cup {t} ELSE @,
                        !.halted = run.origin = "assistant_run" /\ outcome = "error"]
  /\ UNCHANGED <<owner, job, stage, troubles, broken>>

\* An exception under the guard: its `finally` records the uncertainty.
RunRaises ==
  /\ stage = "up" /\ RunCalling
  /\ ledger' = [ledger EXCEPT ![run.claim].status = "outcome_unknown"]
  /\ run' = BrokenOff
  /\ UNCHANGED <<inbox, owner, job, stage, troubles, broken>>

\* uq_request_candidate_title.
OneRowEach(rows) ==
  \A i, j \in Ids : rows[i] # NoRow /\ rows[i].title = rows[j].title => i = j

\* What filing does to a row that stays: sent if this run sent it, refreshed if it
\* is pending and queued again (see RunFiles).
Kept(row) == IF row.title \in run.sent THEN [row EXCEPT !.status = "sent"] ELSE row

\* The rows after the pruned ones are gone and the new titles are filed, above the
\* highest id in use: SQLite gives the ids above it out again.
Inboxes(gone, new) ==
  LET kept == Present \ gone
      top == CHOOSE n \in 0..MaxId : n \in kept \cup {0} /\ \A i \in kept : i <= n
  IN  {rows \in [Ids -> Row \cup {NoRow}] :
         /\ \A i \in kept : rows[i] = Kept(inbox[i])
         /\ \A i \in Ids \ kept : rows[i] # NoRow <=> i > top /\ i <= top + Cardinality(new)
         /\ {rows[i].title : i \in {j \in Ids \ kept : rows[j] # NoRow}} = new
         /\ OneRowEach(rows)
         /\ \A i \in Ids \ kept : rows[i] # NoRow =>
              rows[i].status = IF rows[i].title \in run.sent THEN "sent" ELSE "pending"}

\* persist_request_queue, in the transaction that files the run: prune what has
\* arrived, queue, file what was sent. A row queued again may be rewritten.
RunFiles ==
  /\ Sending /\ run.todo = {}
  /\ \E arrived \in SUBSET Titles :
       LET gone == {i \in Pending : inbox[i].title \in arrived \ run.sent}
           filed == (run.queued \ arrived) \cup run.sent
           again == {i \in Pending \ gone : inbox[i].title \in filed}
           sent == {i \in Present : inbox[i].title \in run.sent}
           new == filed \ {inbox[i].title : i \in Present \ gone}
       IN  /\ inbox' \in Inboxes(gone, new)
           /\ \E touched \in SUBSET again :
                ledger' = Rewritten(ledger, gone \cup sent \cup touched)
  /\ run' = NoRun
  /\ UNCHANGED <<owner, job, stage, troubles, broken>>

-----------------------------------------------------------------------------
(* The vendor, the owner's decisions, and what breaks a sender off.        *)

\* The claims a live sender is on the line for.
Calling ==
  (IF OwnerCalling THEN {owner.at} ELSE {})
    \cup (IF job.calling THEN {job.at} ELSE {})
    \cup (IF RunCalling THEN {run.claim} ELSE {})

Post ==
  /\ stage = "up"
  /\ \E k \in Calling :
       /\ ledger[k].wire = "no"
       /\ ledger' = [ledger EXCEPT ![k].wire = "sent"]
  /\ UNCHANGED <<inbox, owner, job, run, stage, troubles, broken>>

\* A decision of the owner in the inbox, for one row: reject any, restore a
\* rejected one, delete any that was not sent.
Decide ==
  /\ stage = "up"
  /\ \E i \in Present :
       /\ \/ inbox[i].status # "rejected" /\ inbox' = [inbox EXCEPT ![i].status = "rejected"]
          \/ inbox[i].status = "rejected" /\ inbox' = [inbox EXCEPT ![i].status = "pending"]
          \/ inbox[i].status # "sent" /\ inbox' = [inbox EXCEPT ![i] = NoRow]
       /\ ledger' = Rewritten(ledger, {i})
  /\ UNCHANGED <<owner, job, run, stage, troubles, broken>>

Releasable(c) == c.status \in {"outcome_unknown", "succeeded"}

\* The owner has looked at the destination and frees the title. The review
\* token makes the claim looked at the claim released.
Release ==
  /\ stage = "up"
  /\ \E k \in Claims :
       /\ Releasable(ledger[k])
       /\ ledger' = [ledger EXCEPT ![k].status = "released", ![k].freed = TRUE]
  /\ UNCHANGED <<inbox, owner, job, run, stage, troubles, broken>>

\* A database error in a sender's own transaction: its claims stay as they are.
SenderFails ==
  /\ stage = "up" /\ troubles < MaxTroubles
  /\ troubles' = troubles + 1 /\ broken' = TRUE
  /\ \/ Left(owner) /\ owner' = NoBatch /\ UNCHANGED <<job, run>>
     \/ /\ job.status = "running"
        /\ job' = [job EXCEPT !.status = "failed", !.calling = FALSE]
        /\ UNCHANGED <<owner, run>>
     \/ RunCalling /\ run' = BrokenOff /\ UNCHANGED <<owner, job>>
  /\ UNCHANGED <<inbox, ledger, stage>>

Crash ==
  /\ troubles < MaxTroubles
  /\ troubles' = troubles + 1
  /\ stage' = "claims"
  /\ owner' = NoBatch /\ run' = NoRun
  /\ job' = [job EXCEPT !.calling = FALSE]
  /\ UNCHANGED <<inbox, ledger, broken>>

\* Slip: what was only reserved is left to whoever reserved it.
Abandoned_started(c) ==
  IF c.status = "external_started" THEN [c EXCEPT !.status = "outcome_unknown"] ELSE c

\* Slip: what was started is left to whoever started it.
Abandoned_reserved(c) == IF c.status = "reserved" THEN [c EXCEPT !.status = "refused"] ELSE c

Abandoned(c) ==
  CASE c.status = "external_started" -> [c EXCEPT !.status = "outcome_unknown"]
    [] c.status = "reserved" -> [c EXCEPT !.status = "refused"]
    [] OTHER -> c

\* recover_abandoned_request_dispatches.
BootClaims ==
  /\ stage = "claims" /\ stage' = "spend"
  /\ ledger' = [k \in Claims |->
       IF ledger[k].origin \in {"manual", "automatic"} THEN Abandoned(ledger[k]) ELSE ledger[k]]
  /\ UNCHANGED <<inbox, owner, job, run, troubles, broken>>

\* recover_assistant_run_calls.
BootSpend ==
  /\ stage = "spend" /\ stage' = "jobs"
  /\ ledger' = [k \in Claims |->
       IF ledger[k].origin = "assistant_run" /\ ledger[k].status = "external_started"
       THEN [ledger[k] EXCEPT !.status = "outcome_unknown"] ELSE ledger[k]]
  /\ UNCHANGED <<inbox, owner, job, run, troubles, broken>>

\* recover_stale(boot=True).
BootJobs ==
  /\ stage = "jobs" /\ stage' = "up"
  /\ job' = [job EXCEPT !.status = IF @ = "running" THEN "queued" ELSE @]
  /\ UNCHANGED <<inbox, ledger, owner, run, troubles, broken>>

-----------------------------------------------------------------------------
Init ==
  /\ inbox = [i \in Ids |-> IF i \in DOMAIN Waiting
                            THEN [title |-> Waiting[i], status |-> "pending"] ELSE NoRow]
  /\ ledger = <<>>
  /\ owner = NoBatch /\ job = NoJob /\ run = NoRun
  /\ stage = "up" /\ troubles = 0 /\ broken = FALSE

OwnerStep == StartManual \/ FinishManual
JobStep == JobStarts \/ BeginDispatch \/ FinishDispatch \/ JobEnds
RunStep == RunClaims \/ RunStops \/ RunRecords \/ RunRaises \/ RunFiles
Boot == BootClaims \/ BootSpend \/ BootJobs

Next ==
  \/ OwnerSends \/ OwnerStep
  \/ Approve \/ JobStep
  \/ RunStarts \/ RunStep
  \/ Post \/ Decide \/ Release
  \/ SenderFails \/ Crash \/ Boot

\* The clients time out, the drain and the run go on, and a container restarts:
\* nothing is assumed of the vendor or of the owner.
Fairness == WF_vars(OwnerStep) /\ WF_vars(JobStep) /\ WF_vars(RunStep) /\ WF_vars(Boot)

Spec == Init /\ [][Next]_vars /\ Fairness

-----------------------------------------------------------------------------
(* Properties.                                                             *)

\* Every variable has its type, and a batch names claims of the ledger.
TypeOK ==
  /\ inbox \in [Ids -> Row \cup {NoRow}]
  /\ ledger \in Seq(Claim) /\ Len(ledger) <= MaxClaims
  /\ owner \in [at : Nat \ {0}, last : 0..Len(ledger)]
  /\ job \in [status : {"none", "queued", "running", "done", "failed"}, first : Nat \ {0},
              at : Nat \ {0}, last : 0..Len(ledger), calling : BOOLEAN]
  /\ run \in [origin : Ways \cup {"none"}, todo : SUBSET Titles, queued : SUBSET Titles,
              sent : SUBSET Titles, claim : 0..Len(ledger), halted : BOOLEAN]
  /\ stage \in {"up", "claims", "spend", "jobs"}
  /\ troubles \in Nat /\ broken \in BOOLEAN

\* The inbox, a run and an assistant never hold the same title at once: two claims
\* stand for a title only when the owner has released one of them
\* (ensure_request_entries_available, under BEGIN IMMEDIATE in four places).
OneStandingClaim ==
  \A k, l \in Claims :
    /\ k # l /\ ledger[k].title = ledger[l].title
    /\ Standing(ledger[k]) /\ Standing(ledger[l])
    => ledger[k].freed \/ ledger[l].freed

\* What the vendor has taken, or may still take, stays on file until the owner
\* releases it: no crash, error or late answer turns it into a refusal that lets
\* the title be asked for again.
LandedStaysOnFile ==
  \A k \in Claims :
    ledger[k].wire \in {"sent", "taken"} /\ ~ledger[k].freed
    => ledger[k].status \in {"external_started", "outcome_unknown", "succeeded"}

\* A row of the inbox is filed as sent only when a vendor took that title, or the
\* title the row's id was claimed for (finish_candidate_in_session goes by id).
SentWasAccepted ==
  \A i \in Ids :
    inbox[i].status = "sent"
    => \E k \in Claims : /\ ledger[k].wire = "taken"
                         /\ ledger[k].title = inbox[i].title \/ ledger[k].row = i

\* As long as no sender was broken off by the database, every claim without a
\* verdict belongs to someone who will give it one, also after a crash
\* (recover_abandoned_request_dispatches, recover_assistant_run_calls, recover_stale).
UnsettledHasAnOwner ==
  stage = "up" /\ ~broken =>
    \A k \in Claims : ledger[k].status \in {"reserved", "external_started"} =>
      \/ k \in owner.at..owner.last
      \/ job.status = "queued" /\ k \in job.first..job.last
      \/ job.status = "running" /\ k \in job.at..job.last
      \/ k = run.claim

\* A call repeats no earlier one for its title unless that was refused with nothing
\* sent or released by the owner; a claim released once answers for itself.
NoSilentRepeat ==
  [][\A k \in DOMAIN ledger' :
       LET c == ledger'[k]
       IN  c.calls > (IF k \in Claims THEN ledger[k].calls ELSE 0) /\ ~c.freed =>
             \A l \in Claims :
               ledger[l].title = c.title /\ ledger[l].calls > 0
               => ledger[l].status = "refused" \/ ledger[l].freed]_vars

\* A no is a no: no call begins for a title whose row the owner has rejected,
\* however long ago the batch, the plan or the run picked it.
RejectedIsNotSent ==
  [][\A k \in DOMAIN ledger' :
       ledger'[k].calls > (IF k \in Claims THEN ledger[k].calls ELSE 0) =>
         \A i \in Ids : inbox[i].title = ledger'[k].title => inbox[i].status # "rejected"]_vars

\* A started call gets a verdict through any crash, unless the database refused
\* to record it.
CallsAreSettled ==
  \A k \in 1..MaxClaims :
    (k \in Claims /\ ledger[k].status = "external_started")
      ~> (broken \/ (k \in Claims => ledger[k].status # "external_started"))

\* "An interrupted or uncertain external call is never sent again automatically":
\* under one claim at most one call is made.
NeverSentAgain == \A k \in Claims : ledger[k].calls <= 1
=============================================================================
