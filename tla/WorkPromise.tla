----------------------------- MODULE WorkPromise -----------------------------
(***************************************************************************)
(* What the rest of the program relies on: work accepted into the queue is  *)
(* owed until a verdict on an attempt that was really made, a verdict is    *)
(* final, and Plex has one writer at a time.  PlexWork implements it.       *)
(***************************************************************************)
CONSTANTS Work,     \* pieces of accepted work
          Writers,  \* parties that may write to Plex
          Nobody

VARIABLES owed,       \* [Work -> {"unknown", "owed", "done", "failed"}]
          attempted,  \* [Work -> BOOLEAN]
          writer      \* the party writing to Plex, or Nobody

Init ==
  /\ owed = [w \in Work |-> "unknown"]
  /\ attempted = [w \in Work |-> FALSE]
  /\ writer = Nobody

Accept(w) ==
  /\ owed[w] = "unknown"
  /\ owed' = [owed EXCEPT ![w] = "owed"]
  /\ UNCHANGED attempted

Attempt(w) ==
  /\ owed[w] = "owed"
  /\ attempted' = [attempted EXCEPT ![w] = TRUE]
  /\ UNCHANGED owed

Settle(w) ==
  /\ owed[w] = "owed"
  /\ attempted[w]
  /\ \E verdict \in {"done", "failed"} : owed' = [owed EXCEPT ![w] = verdict]
  /\ UNCHANGED attempted

BeginWrite == writer = Nobody /\ writer' \in Writers

EndWrite == writer # Nobody /\ writer' = Nobody

\* One step of the server may move a piece of work and the writer together.
Next ==
  /\ \/ \E w \in Work : Accept(w) \/ Attempt(w) \/ Settle(w)
     \/ UNCHANGED <<owed, attempted>>
  /\ BeginWrite \/ EndWrite \/ UNCHANGED writer

Spec == Init /\ [][Next]_<<owed, attempted, writer>>

=============================================================================
