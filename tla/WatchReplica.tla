---------------------------- MODULE WatchReplica ----------------------------
(***************************************************************************)
(* The write plan of shortlist/engine/watch_replica.py: what turns the    *)
(* watch state an account has of one movie or episode into the state      *)
(* another account has of it, and what Plex does with each write.         *)
(*                                                                         *)
(* A leaf is a play count and a playback position (0: none).  Titles, dates *)
(* and media types only travel along; they are left out.                  *)
(***************************************************************************)
EXTENDS Integers

CONSTANT
  Tolerance  \* OFFSET_TOLERANCE_MS: how far Plex may round a position

ASSUME ToleranceAssumption == Tolerance \in Nat

Item == [count : Nat, offset : Nat]

\* A title the account has neither watched nor started: absent from its read.
Unwatched == [count |-> 0, offset |-> 0]

Distance(x, y) == IF x < y THEN y - x ELSE x - y

Kinds == {"mark", "unmark", "set_offset", "clear_offset"}

-----------------------------------------------------------------------------
(* What `_plan_one` decides for one title.                                 *)

\* Only an un-scrobble lowers a count or clears a position, and it clears both.
Resetting(want, have) ==
  have.count > want.count \/ (have.offset > 0 /\ want.offset = 0)

\* Slip: the count the title is to have, not what is missing to it.
Scrobbles_total(want, have) == IF want.count > have.count THEN want.count ELSE 0

\* How many scrobbles bring the count up, after the reset if there is one.
Scrobbles(want, have) ==
  IF Resetting(want, have) THEN want.count
  ELSE IF want.count > have.count THEN want.count - have.count ELSE 0

\* Slip: the position as it was read, though the writes before it clear it.
OffsetLeft_asRead(want, have) == have.offset

\* The position left once the reset and the scrobbles are done: either loses it.
OffsetLeft(want, have) ==
  IF Resetting(want, have) \/ Scrobbles(want, have) > 0 THEN 0 ELSE have.offset

Repositioning(want, have) ==
  /\ want.offset > 0
  /\ Distance(want.offset, OffsetLeft(want, have)) > Tolerance

Only(condition, op) == IF condition THEN {op} ELSE {}

\* The writes for title `k`. An operation carries the scrobbles of a mark and
\* the position of a set_offset.
PlanOne(k, want, have) ==
  Only(Resetting(want, have),
       [key |-> k, kind |-> IF have.count > want.count THEN "unmark" ELSE "clear_offset",
        n |-> 1, offset |-> 0])
  \cup Only(Scrobbles(want, have) > 0,
            [key |-> k, kind |-> "mark", n |-> Scrobbles(want, have), offset |-> 0])
  \cup Only(Repositioning(want, have),
            [key |-> k, kind |-> "set_offset", n |-> 1, offset |-> want.offset])

\* The plan for a whole account: `want` and `have` are functions over the titles.
BuildPlan(want, have) == UNION {PlanOne(k, want[k], have[k]) : k \in DOMAIN want}

Removal(op) == op.kind \in {"unmark", "clear_offset"}

\* Removals first, by title; then the additions, oldest of the source first
\* (`viewed`), and for one title the mark before the position.
Before(a, b, viewed) ==
  IF Removal(a) /\ Removal(b) THEN a.key < b.key
  ELSE IF Removal(a) \/ Removal(b) THEN Removal(a)
  ELSE IF a.key = b.key THEN a.kind = "mark" /\ b.kind = "set_offset"
  ELSE \/ viewed[a.key] < viewed[b.key]
       \/ viewed[a.key] = viewed[b.key] /\ a.key < b.key

\* The account agrees with the wanted state of a title: nothing is left to write.
Agree(want, have) ==
  /\ have.count = want.count
  /\ Distance(want.offset, have.offset) <= Tolerance
  /\ want.offset = 0 => have.offset = 0

-----------------------------------------------------------------------------
(* What Plex makes of `times` calls of one write (`apply_watch_op`).       *)

Written(op, item, times) ==
  CASE times = 0              -> item
    [] op.kind = "mark"       -> [count |-> item.count + times, offset |-> 0]
    [] op.kind = "set_offset" -> [item EXCEPT !.offset = op.offset]
    [] OTHER                  -> Unwatched

\* The three writes of a title's plan, each landing exactly as often as planned.
AfterReset(want, have) == IF Resetting(want, have) THEN Unwatched ELSE have

AfterMarks(want, have) ==
  LET item == AfterReset(want, have)
      n == Scrobbles(want, have)
  IN  IF n > 0 THEN [count |-> item.count + n, offset |-> 0] ELSE item

AfterPlan(want, have) ==
  IF Repositioning(want, have)
  THEN [AfterMarks(want, have) EXCEPT !.offset = want.offset]
  ELSE AfterMarks(want, have)
=============================================================================
