------------------------------ MODULE JobQueue ------------------------------
(***************************************************************************)
(* One row of the durable `jobs` table and the five ways                   *)
(* shortlist/server/services/jobs.py changes it: enqueue, claim, release,   *)
(* finish and the stale sweep.  Time is abstracted to what the queue tells  *)
(* apart: whether a row's retry backoff is still running (backoff) and      *)
(* whether `started_at` is set (started); how old a set one is, a sweep     *)
(* finds out when it looks.                                                 *)
(***************************************************************************)
EXTENDS Naturals

CONSTANT MaxAttempts        \* Job.max_attempts of every row but a dispatch

ASSUME MaxAttemptsAssumption == MaxAttempts \in Nat \ {0}

\* What the catalogue (jobs.CATALOG) distinguishes: a Plex writer, the history
\* read that stands aside for a run, the credit pass a playback event wakes, and
\* the hand-off of an assistant's run to the run service ("assistant.run").
Kinds == {"writer", "history", "credit", "dispatch"}

Statuses == {"absent", "queued", "running", "done", "failed"}

Row == [kind : Kinds, status : Statuses, attempts : Nat,
        started : BOOLEAN, backoff : BOOLEAN]

\* An id nothing has been inserted under yet.
AbsentRow == [kind |-> "writer", status |-> "absent", attempts |-> 0,
              started |-> FALSE, backoff |-> FALSE]

EnqueuedRow(k) == [AbsentRow EXCEPT !.kind = k, !.status = "queued"]

WritesPlex(row) == row.kind = "writer"

\* A dispatch has one attempt (EffectIntent("assistant.run", ..., max_attempts=1)).
Attempts(row) == IF row.kind = "dispatch" THEN 1 ELSE MaxAttempts

\* May this row start now?  Writers and the history read stand aside while a
\* run is in flight; a row whose last attempt failed also sits out its backoff.
Claimable(row, busy) ==
  /\ row.status = "queued"
  /\ ~row.backoff
  /\ busy => row.kind \in {"credit", "dispatch"}

\* started_at is left as it is: it is stamped when the handler starts.
Claimed(row) ==
  [row EXCEPT !.status = "running", !.attempts = @ + 1]

Started(row) == [row EXCEPT !.started = TRUE]

\* Slip: standing down closes the row.
Released_closed(row) ==
  IF row.status = "running" THEN [row EXCEPT !.status = "failed"] ELSE row

\* A claimed job stands down: its attempt is returned.
Released(row) ==
  IF row.status = "running"
  THEN [row EXCEPT !.status = "queued", !.started = FALSE,
                   !.attempts = IF @ > 0 THEN @ - 1 ELSE 0]
  ELSE row

\* Slip: one retry too many.
Finished_generous(row, ok) ==
  IF ok
  THEN [row EXCEPT !.status = "done"]
  ELSE IF row.attempts <= Attempts(row)
       THEN [row EXCEPT !.status = "queued", !.backoff = TRUE]
       ELSE [row EXCEPT !.status = "failed"]

\* Slip: a status the table does not know.
Finished_misspelt(row, ok) ==
  [row EXCEPT !.status = IF ok THEN "done" ELSE "error"]

\* The handler returned (ok) or raised.
Finished(row, ok) ==
  IF ok
  THEN [row EXCEPT !.status = "done"]
  ELSE IF row.attempts < Attempts(row)
       THEN [row EXCEPT !.status = "queued", !.backoff = TRUE]
       ELSE [row EXCEPT !.status = "failed"]

\* Slip: the age test applies at boot too.
Sweepable_aged(row, boot) == row.status = "running" /\ row.started

\* What the sweep may take for abandoned: at boot any row a previous process left
\* running, otherwise one whose started_at is set (and older than STALE_AFTER).
Sweepable(row, boot) ==
  /\ row.status = "running"
  /\ boot \/ row.started

\* The attempt is kept, so the wait for that attempt applies again.
Requeued(row) ==
  [row EXCEPT !.status = "queued", !.started = FALSE, !.backoff = TRUE]

Settled(row) == row.status \in {"done", "failed"}

=============================================================================
