--------------------------- MODULE WatchTransfer ---------------------------
(***************************************************************************)
(* The watching-account transfer (server/services/watching_account.py) and *)
(* its undo: jobs that make one Plex account's watch state a mirror of     *)
(* another's, write by write, with a snapshot behind them, while the       *)
(* person watches on, libraries are unshared, calls fail and the process   *)
(* dies.  The plan of one title is WatchReplica's.                         *)
(*                                                                         *)
(* Two libraries: films, and shows whose leaves are the episodes.  A read  *)
(* of an account sees the leaves of the libraries shared with it.          *)
(* The jobs run one at a time (PlexWork: OneWriter).                       *)
(***************************************************************************)
EXTENDS WatchReplica, Sequences, FiniteSets

CONSTANTS
  Keys,         \* rating keys of films and episodes, as numbers: Plex sorts by them
  Shows,        \* rating keys of shows
  NoShow,       \* what a film has in place of a show
  ShowOf,       \* the show of every leaf
  Viewed,       \* lastViewedAt of every leaf on the source account
  Sources,      \* watch states the source account may have
  Targets,      \* watch states the target account may start with
  Legacy,       \* snapshots an older version may have left
  MaxAttempts,  \* attempts a job has
  MaxJobs,      \* bound: transfers and undos asked for
  Troubles,     \* what goes wrong in this instance: calls to Plex that stay unanswered or fail
                \* ("fault"), the process dying in a job ("crash"), what the person and the
                \* owner of the server do meanwhile ("change")
  MaxTroubles   \* bound: how often, all told

ASSUME KeysAssumption == Keys \subseteq Nat
ASSUME ShowsAssumption == NoShow \notin Shows /\ ShowOf \in [Keys -> Shows \cup {NoShow}]
ASSUME ViewedAssumption == Viewed \in [Keys -> Nat]
ASSUME StatesAssumption == \A state \in Sources \cup Targets : state \in [Keys -> Item]
ASSUME LimitsAssumption == MaxAttempts \in Nat

States == [Keys -> Item]

\* watch_state_snapshots: `known` are the leaves recorded with their show (five elements);
\* `pristine` is history: taken before its job had written.
Snapshot == [job : Nat, state : States, complete : BOOLEAN, known : SUBSET Keys,
             restored : BOOLEAN, pristine : BOOLEAN]

ASSUME LegacyAssumption == \A old \in Legacy : old \in Snapshot /\ old.job = 0 /\ old.pristine

VARIABLES
  source,      \* the source account's watch state, and the libraries it cannot see
  target,      \* the target account's
  flagged,     \* the shows Plex itself counts as watched for the target (the show row's viewCount)
  hidden,      \* libraries not shared with the target
  managed,     \* the target is one of the owner's Home users
  jobs,        \* the jobs table, in the order asked for: the snapshot a job undoes (0: a transfer)
  snapshots,   \* the watch_state_snapshots table
  events,      \* leaves with a copied play event for the target
  cache,       \* watched_titles of the target: absent, plain, or stamped with a true date
  attempt,     \* the attempt under way
  disturbed,   \* history: leaves changed since its read by anything but a planned write
  troubles     \* how much has gone wrong

vars == <<source, target, flagged, hidden, managed, jobs, snapshots, events, cache, attempt,
          disturbed, troubles>>
accounts == <<source, target, flagged>>
tables == <<snapshots, events, cache>>

Libraries == {"films", "shows"}
LibraryOf(k) == IF ShowOf[k] = NoShow THEN "films" ELSE "shows"
Films == {k \in Keys : ShowOf[k] = NoShow}
Episodes(s) == {k \in Keys : ShowOf[k] = s}

\* watched_titles holds films and shows.
Titles == Films \cup Shows
Leaves(t) == IF t \in Films THEN {t} ELSE Episodes(t)
TitleLibrary(t) == IF t \in Films THEN "films" ELSE "shows"

\* What a read of an account that cannot see `unseen` returns.
Read(state, unseen) == [k \in Keys |-> IF LibraryOf(k) \in unseen THEN Unwatched ELSE state[k]]
Present(state) == {k \in Keys : state[k] # Unwatched}

NoAttempt ==
  [phase |-> "idle", job |-> 0, want |-> [k \in Keys |-> Unwatched],
   have |-> [k \in Keys |-> Unwatched], known |-> {}, unread |-> {}, todo |-> {}, shows |-> {},
   refused |-> {}, unreachable |-> FALSE, failed |-> FALSE]

Job(j) == jobs[j]
Current == jobs[attempt.job]
IsUndo == Current.undoes # 0

Init ==
  /\ \E state \in Sources, unseen \in {{}, {"shows"}} :
       source = [state |-> state, unseen |-> unseen]
  /\ target \in Targets
  /\ flagged = {s \in Shows : \E k \in Episodes(s) : target[k].count > 0}
  /\ hidden = {}
  /\ managed = TRUE
  /\ jobs = <<>>
  /\ snapshots \in {<<>>} \cup {<<old>> : old \in Legacy}
  /\ events = {}
  /\ cache = [t \in Titles |-> "absent"]
  /\ attempt = NoAttempt
  /\ disturbed = {}
  /\ troubles = 0

Trouble(kind) ==
  kind \in Troubles /\ troubles < MaxTroubles /\ troubles' = troubles + 1

-----------------------------------------------------------------------------
(* Asking for a job.                                                       *)

\* Bound: the owner asks while nothing is under way, but for jobs waiting to be tried again.
Ask(undoes) ==
  /\ Len(jobs) < MaxJobs
  /\ attempt.phase = "idle" /\ \A j \in DOMAIN jobs : jobs[j].status = "queued" => jobs[j].attempts > 0
  /\ jobs' = Append(jobs, [undoes |-> undoes, attempts |-> 0, status |-> "queued",
                           report |-> "none", wrote |-> FALSE])
  /\ UNCHANGED <<accounts, hidden, managed, tables, attempt, disturbed, troubles>>

\* POST /watching-account/transfer refuses an account that is not a Home user.
RequestTransfer == managed /\ Ask(0)

\* POST /watching-account/undo takes any snapshot there is.
RequestUndo(i) == i \in DOMAIN snapshots /\ Ask(i)

-----------------------------------------------------------------------------
(* The beginning of an attempt: the reads and the plan.                    *)

Claimed(j) == [jobs EXCEPT ![j].attempts = @ + 1]

Done(j, table) == [table EXCEPT ![j].status = "done"]

\* Slip: a status no reader of the table knows.
Raised_misspelt(j, table) ==
  [table EXCEPT ![j].status = IF table[j].attempts < MaxAttempts THEN "queued" ELSE "error"]

\* An attempt that raised: queued again, or failed for good.
Raised(j, table) ==
  [table EXCEPT ![j].status = IF table[j].attempts < MaxAttempts THEN "queued" ELSE "failed"]

Waiting(j) == attempt.phase = "idle" /\ Job(j).status = "queued"

\* Slip: every show a removal emptied.
ClearedShows_all(want, known, plan) ==
  {ShowOf[op.key] : op \in {o \in plan : Removal(o)}} \ {NoShow}

\* The shows `_clear_emptied_shows` un-scrobbles: those a removal emptied, but for
\* those still wanted.  The show of a wanted leaf is known only from `known`.
ClearedShows(want, known, plan) ==
  LET emptied == {ShowOf[op.key] : op \in {o \in plan :
                    Removal(o) /\ (o.key \in Present(want) => o.key \in known)}}
      stillWanted == {ShowOf[k] : k \in Present(want) \cap known}
  IN  (emptied \ stillWanted) \ {NoShow}

\* `have` is the target as read now.
Planned(j, want, known) ==
  LET have == Read(target, hidden)
      plan == BuildPlan(want, have)
      knowsShows == Present(want) \subseteq known
  IN  [NoAttempt EXCEPT
         !.phase = "planned", !.job = j, !.want = want, !.have = have, !.known = known,
         !.unread = hidden, !.todo = plan,
         !.shows = IF Job(j).undoes # 0 /\ ~knowsShows THEN {}
                   ELSE ClearedShows(want, known, plan)]

\* transfer_watch_history refuses a source that cannot see every library.
BeginTransfer(j) ==
  /\ Waiting(j) /\ Job(j).undoes = 0
  /\ managed /\ source.unseen = {}
  /\ attempt' = Planned(j, Read(source.state, source.unseen), Keys)
  /\ jobs' = Claimed(j)
  /\ disturbed' = {}
  /\ UNCHANGED <<accounts, hidden, managed, tables, troubles>>

RefuseTransfer(j) ==
  /\ Waiting(j) /\ Job(j).undoes = 0
  /\ ~managed \/ source.unseen # {}
  /\ jobs' = Raised(j, Claimed(j))
  /\ UNCHANGED <<accounts, hidden, managed, tables, attempt, disturbed, troubles>>

Undoable(snap) == ~snap.restored /\ managed /\ snap.complete

BeginUndo(j) ==
  /\ Waiting(j) /\ Job(j).undoes # 0
  /\ LET snap == snapshots[Job(j).undoes]
     IN  /\ Undoable(snap)
         /\ attempt' = Planned(j, snap.state, snap.known)
  /\ jobs' = Claimed(j)
  /\ disturbed' = {}
  /\ UNCHANGED <<accounts, hidden, managed, tables, troubles>>

\* The undo that may not be: answered with an error, and the job is done.
RefuseUndo(j) ==
  /\ Waiting(j) /\ Job(j).undoes # 0
  /\ ~Undoable(snapshots[Job(j).undoes])
  /\ jobs' = Done(j, Claimed(j))
  /\ UNCHANGED <<accounts, hidden, managed, tables, attempt, disturbed, troubles>>

\* No token, or a read that fails.
BeginRaises(j) ==
  /\ Waiting(j) /\ Trouble("fault")
  /\ jobs' = Raised(j, Claimed(j))
  /\ UNCHANGED <<accounts, hidden, managed, tables, attempt, disturbed>>

\* Slip: a retry takes its own snapshot, of an account half mirrored.
Unrestored_none(j) == {}

\* take_snapshot: its own transaction, before the first write; the snapshot of an
\* earlier attempt of the job is kept.
Unrestored(j) == {i \in DOMAIN snapshots : snapshots[i].job = j /\ ~snapshots[i].restored}

TakeSnapshot ==
  /\ attempt.phase = "planned"
  /\ snapshots' = IF attempt.todo = {} \/ Unrestored(attempt.job) # {} THEN snapshots
                  ELSE Append(snapshots,
                         [job |-> attempt.job, state |-> attempt.have,
                          complete |-> attempt.unread = {}, known |-> Keys,
                          restored |-> FALSE, pristine |-> ~Current.wrote])
  /\ attempt' = [attempt EXCEPT !.phase = "writing"]
  /\ UNCHANGED <<accounts, hidden, managed, jobs, events, cache, disturbed, troubles>>

-----------------------------------------------------------------------------
(* The writes.                                                             *)

\* The operation whose turn it is; a snapshot keeps no dates to order by.
Turn(op) ==
  /\ attempt.phase = "writing" /\ op \in attempt.todo
  /\ \A other \in attempt.todo \ {op} :
       Before(op, other, IF IsUndo THEN [k \in Keys |-> 0] ELSE Viewed)

\* `times` of the calls took effect. A scrobbled episode raises its show's own count;
\* an un-scrobbled one leaves it.
Effect(op, times) ==
  /\ target' = [target EXCEPT ![op.key] = Written(op, @, times)]
  /\ flagged' = IF op.kind = "mark" /\ times > 0
                THEN flagged \cup ({ShowOf[op.key]} \ {NoShow}) ELSE flagged
  /\ jobs' = [jobs EXCEPT ![attempt.job].wrote = @ \/ times > 0]
  /\ disturbed' = IF op.kind = "mark" /\ times > op.n THEN disturbed \cup {op.key} ELSE disturbed

\* Every call was answered: each took effect once.
WriteLands(op) ==
  /\ Turn(op) /\ LibraryOf(op.key) \notin hidden
  /\ Effect(op, op.n)
  /\ attempt' = [attempt EXCEPT !.todo = @ \ {op}]
  /\ UNCHANGED <<source, hidden, managed, tables, troubles>>

\* One scrobble's answer was lost once or twice after it took effect, and
\* http_retry.get sent it again. The other writes can be repeated without harm.
WriteLandsTwice(op) ==
  /\ Turn(op) /\ LibraryOf(op.key) \notin hidden
  /\ op.kind = "mark" /\ Trouble("fault")
  /\ \E again \in 1..2 : Effect(op, op.n + again)
  /\ attempt' = [attempt EXCEPT !.todo = @ \ {op}]
  /\ UNCHANGED <<source, hidden, managed, tables>>

\* 401, 403 or 404: the title is not there for that account.
WriteRefused(op) ==
  /\ Turn(op) /\ LibraryOf(op.key) \in hidden
  /\ attempt' = [attempt EXCEPT !.todo = @ \ {op}, !.refused = @ \cup {op.key},
                                !.unreachable = TRUE]
  /\ UNCHANGED <<accounts, hidden, managed, jobs, tables, disturbed, troubles>>

\* All three tries of one of the calls failed; any of them may have taken effect, and
\* the scrobbles after it are not sent. Noted, and the next operation goes on.
WriteRaises(op) ==
  /\ Turn(op) /\ LibraryOf(op.key) \notin hidden /\ Trouble("fault")
  /\ \E times \in 0..(IF op.kind = "mark" THEN op.n + 2 ELSE 1) : Effect(op, times)
  /\ attempt' = [attempt EXCEPT !.todo = @ \ {op}, !.failed = TRUE]
  /\ UNCHANGED <<source, hidden, managed, tables>>

Clearing == attempt.phase = "writing" /\ attempt.todo = {} /\ attempt.shows # {}

\* Un-scrobbling a show clears every episode of it.
ShowCleared(s) ==
  /\ target' = [k \in Keys |-> IF k \in Episodes(s) THEN Unwatched ELSE target[k]]
  /\ flagged' = flagged \ {s}
  /\ jobs' = [jobs EXCEPT ![attempt.job].wrote = TRUE]
  /\ disturbed' = disturbed

ClearShow(s) ==
  /\ Clearing /\ s \in attempt.shows /\ "shows" \notin hidden
  /\ ShowCleared(s)
  /\ attempt' = [attempt EXCEPT !.shows = @ \ {s}]
  /\ UNCHANGED <<source, hidden, managed, tables, troubles>>

ClearRefused(s) ==
  /\ Clearing /\ s \in attempt.shows /\ "shows" \in hidden
  /\ attempt' = [attempt EXCEPT !.shows = @ \ {s}, !.unreachable = TRUE]
  /\ UNCHANGED <<accounts, hidden, managed, jobs, tables, disturbed, troubles>>

ClearRaises(s) ==
  /\ Clearing /\ s \in attempt.shows /\ "shows" \notin hidden /\ Trouble("fault")
  /\ ShowCleared(s) \/ UNCHANGED <<target, flagged, jobs, disturbed>>
  /\ attempt' = [attempt EXCEPT !.shows = @ \ {s}, !.failed = TRUE]
  /\ UNCHANGED <<source, hidden, managed, tables>>

-----------------------------------------------------------------------------
(* The end of an attempt.                                                  *)

AllWritten == attempt.phase = "writing" /\ attempt.todo = {} /\ attempt.shows = {}

\* stamp_true_dates: a show's rows through the show of the event.
Explained(t, copied) == \E k \in Leaves(t) : k \in copied
Stamped(rows, copied) ==
  [t \in Titles |-> IF rows[t] = "plain" /\ Explained(t, copied) THEN "stamped" ELSE rows[t]]

\* Slip: the refusals subtracted by their number.
Mismatched_byCount ==
  LET remaining == BuildPlan(attempt.want, Read(target, hidden))
  IN  IF Cardinality(remaining) <= Cardinality(attempt.refused) THEN {} ELSE remaining

\* The leaves that still differ, but for those Plex refused (`_verify`).
Mismatched ==
  {op \in BuildPlan(attempt.want, Read(target, hidden)) : op.key \notin attempt.refused}

\* The play events and the stamps, in one transaction.
CommitTransfer ==
  /\ AllWritten /\ ~IsUndo
  /\ events' = events \cup Present(attempt.want)
  /\ cache' = Stamped(cache, events')
  /\ UNCHANGED snapshots

\* Committed after the verify pass, and the job is closed.
FinishTransfer ==
  /\ CommitTransfer
  /\ jobs' = [Done(attempt.job, jobs) EXCEPT
                ![attempt.job].report = IF Mismatched = {} THEN "matches" ELSE "differs"]
  /\ attempt' = NoAttempt
  /\ UNCHANGED <<accounts, hidden, managed, disturbed, troubles>>

\* The play log or the verify read fails: the session rolls back, the writes stay.
FinishRaises ==
  /\ AllWritten /\ ~IsUndo /\ Trouble("fault")
  /\ jobs' = Raised(attempt.job, jobs)
  /\ attempt' = NoAttempt
  /\ UNCHANGED <<accounts, hidden, managed, tables, disturbed>>

Landed == ~attempt.unreachable /\ ~attempt.failed

\* Slip: the cached rows are left to the periodic sweep.
CommitUndo_keepingRows ==
  /\ AllWritten /\ IsUndo /\ Landed
  /\ snapshots' = [snapshots EXCEPT ![Current.undoes].restored = TRUE]
  /\ events' = {}
  /\ cache' = cache

\* The snapshot is marked; the copied events go, and the stamped rows of the titles they
\* name; an event names the leaf, and a show's row has the show's key.
CommitUndo ==
  /\ AllWritten /\ IsUndo /\ Landed
  /\ snapshots' = [snapshots EXCEPT ![Current.undoes].restored = TRUE]
  /\ events' = {}
  /\ cache' = [t \in Titles |-> IF t \in events /\ cache[t] = "stamped" THEN "absent" ELSE cache[t]]

FinishUndo ==
  /\ CommitUndo
  /\ jobs' = Done(attempt.job, jobs)
  /\ attempt' = NoAttempt
  /\ UNCHANGED <<accounts, hidden, managed, disturbed, troubles>>

\* "the restore did not complete, so this transfer can still be undone"
UndoFallsShort ==
  /\ AllWritten /\ IsUndo /\ ~Landed
  /\ jobs' = Done(attempt.job, jobs)
  /\ attempt' = NoAttempt
  /\ UNCHANGED <<accounts, hidden, managed, tables, disturbed, troubles>>

\* The process dies; the next boot queues the job again.
Crash ==
  /\ attempt.phase # "idle" /\ Trouble("crash")
  /\ attempt' = NoAttempt
  /\ UNCHANGED <<accounts, hidden, managed, jobs, tables, disturbed>>

\* The process dies between the job's own transaction and the one that closes the job
\* (jobs.py, _finish): the next boot queues a job again whose work is on file.
DiesUnclosed ==
  /\ Trouble("crash")
  /\ CommitTransfer \/ CommitUndo
  /\ attempt' = NoAttempt
  /\ UNCHANGED <<accounts, hidden, managed, jobs, disturbed>>

-----------------------------------------------------------------------------
(* Meanwhile.                                                              *)

\* The person finishes a title or stops in the middle of it.
Watch(k) ==
  /\ Trouble("change") /\ LibraryOf(k) \notin hidden
  /\ \/ /\ target' = [target EXCEPT ![k] = [count |-> @.count + 1, offset |-> 0]]
        /\ flagged' = flagged \cup ({ShowOf[k]} \ {NoShow})
     \/ /\ target' = [target EXCEPT ![k].offset = 3]
        /\ flagged' = flagged
  /\ disturbed' = disturbed \cup {k}
  /\ UNCHANGED <<source, hidden, managed, jobs, tables, attempt>>

\* The owner shares a library with the account, or stops to.
ShareLibrary(l) ==
  /\ Trouble("change")
  /\ hidden' = IF l \in hidden THEN hidden \ {l} ELSE hidden \cup {l}
  /\ UNCHANGED <<accounts, managed, jobs, tables, attempt, disturbed>>

\* The roster sync finds the account outside the Home.
LeaveHome ==
  /\ Trouble("change") /\ managed
  /\ managed' = FALSE
  /\ UNCHANGED <<accounts, hidden, jobs, tables, attempt, disturbed>>

\* What the watched read returns: finished films, started shows and shows whose row is flagged.
SeenByPlex(t) ==
  IF t \in Films THEN target[t].count > 0
  ELSE t \in flagged \/ \E k \in Episodes(t) : target[k].count > 0

\* A watch sync: what Plex reports comes in; the rows it does not report go, unless they
\* are stamped, from the libraries whose read proved itself complete; then the stamps.
SyncWatched ==
  \E proven \in SUBSET (Libraries \ hidden) :
    /\ cache' = Stamped([t \in Titles |->
                    IF TitleLibrary(t) \in hidden \/ cache[t] = "stamped" THEN cache[t]
                    ELSE IF SeenByPlex(t) THEN "plain"
                    ELSE IF TitleLibrary(t) \in proven THEN "absent" ELSE cache[t]], events)
    /\ cache' # cache
    /\ UNCHANGED <<accounts, hidden, managed, jobs, snapshots, events, attempt, disturbed, troubles>>

Next ==
  \/ RequestTransfer
  \/ \E i \in DOMAIN snapshots : RequestUndo(i)
  \/ \E j \in DOMAIN jobs :
       BeginTransfer(j) \/ RefuseTransfer(j) \/ BeginUndo(j) \/ RefuseUndo(j) \/ BeginRaises(j)
  \/ TakeSnapshot
  \/ \E op \in attempt.todo :
       WriteLands(op) \/ WriteLandsTwice(op) \/ WriteRefused(op) \/ WriteRaises(op)
  \/ \E s \in Shows : ClearShow(s) \/ ClearRefused(s) \/ ClearRaises(s)
  \/ FinishTransfer \/ FinishRaises \/ FinishUndo \/ UndoFallsShort
  \/ Crash \/ DiesUnclosed
  \/ \E k \in Keys : Watch(k)
  \/ \E l \in Libraries : ShareLibrary(l)
  \/ LeaveHome \/ SyncWatched

Spec == Init /\ [][Next]_vars

-----------------------------------------------------------------------------
(* Properties.                                                             *)

JobRow == [undoes : Nat, attempts : Nat, status : {"queued", "done", "failed"},
           report : {"none", "matches", "differs"}, wrote : BOOLEAN]
Op == [key : Keys, kind : Kinds, n : Nat, offset : Nat]
Attempt == [phase : {"idle", "planned", "writing"}, job : Nat, want : States, have : States,
            known : SUBSET Keys, unread : SUBSET Libraries, todo : SUBSET Op,
            shows : SUBSET Shows, refused : SUBSET Keys, unreachable : BOOLEAN, failed : BOOLEAN]

\* Accounts, tables and the attempt under way have their types.
TypeOK ==
  /\ source \in [state : States, unseen : SUBSET Libraries]
  /\ target \in States
  /\ flagged \subseteq Shows
  /\ hidden \subseteq Libraries
  /\ managed \in BOOLEAN
  /\ jobs \in Seq(JobRow)
  /\ snapshots \in Seq(Snapshot)
  /\ events \subseteq Keys
  /\ cache \in [Titles -> {"absent", "plain", "stamped"}]
  /\ attempt \in Attempt
  /\ disturbed \subseteq Keys
  /\ troubles \in Nat

\* A job that has written to the account has a snapshot from before its first write, also
\* when it died and was tried again; and a snapshot of the job's own doing stands only where
\* that first one was already put back (take_snapshot, watching_account.py:190).
SnapshotFirst ==
  /\ \A j \in DOMAIN jobs :
       jobs[j].wrote => \E i \in DOMAIN snapshots : snapshots[i].job = j /\ snapshots[i].pristine
  /\ \A i \in DOMAIN snapshots :
       ~snapshots[i].pristine /\ ~snapshots[i].restored
         => \E first \in DOMAIN snapshots :
              /\ snapshots[first].job = snapshots[i].job
              /\ snapshots[first].pristine /\ snapshots[first].restored

\* A job never leaves more plays on a title than the account had or is to have, on the way
\* or in the end ("sending three would land on four", watch_replica.py:107), whatever
\* failed before. Apart from titles unread, watched meanwhile or scrobbled twice by Plex; and
\* once a write of the attempt itself did not land, since a mark after a lost reset adds to the old.
CountsStayInside ==
  attempt.phase = "writing" /\ Landed =>
    \A k \in {x \in Keys \ disturbed : LibraryOf(x) \notin attempt.unread} :
      target[k].count <= IF attempt.want[k].count > attempt.have[k].count
                         THEN attempt.want[k].count ELSE attempt.have[k].count

Restores(i) == ~snapshots[i].restored /\ snapshots'[i].restored

\* An undo that calls its snapshot restored has put back the count and the position of every
\* title it could read, over retries, dead processes and earlier undos that fell short; titles
\* that changed under it apart (undo_transfer, watching_account.py:604).
LandedUndoRestores ==
  [][\A i \in DOMAIN snapshots : Restores(i) =>
       \A k \in Keys \ disturbed :
         LibraryOf(k) \notin attempt.unread => Agree(snapshots[i].state[k], target[k])]_vars

\* A transfer whose verify pass found nothing left the account as the source is, in all it
\* could write and the person sees, though writes were refused, lost or doubled (_verify).
VerifyIsHonest ==
  [][\A j \in DOMAIN jobs :
       jobs[j].report # "matches" /\ jobs'[j].report = "matches" =>
         \A k \in Keys \ attempt.refused :
           LibraryOf(k) \notin hidden => Agree(source.state[k], target[k])]_vars

\* Clearing an emptied show takes no episode the account is to keep: an un-scrobbled show
\* loses every episode, the ones just marked too (_clear_emptied_shows; knows_shows for the
\* snapshots of older versions, which do not record the shows).
ClearingSparesTheWanted ==
  [][Clearing /\ attempt'.shows # attempt.shows =>
       \A k \in Present(attempt.want) : target'[k] = target[k]]_vars

\* No cached film is held by a copied date that is gone: undone, it leaves the cache with its
\* event, and the picks may offer it again (watching_account.py:742).
FilmStampsAreExplained == \A t \in Films : cache[t] = "stamped" => t \in events

-----------------------------------------------------------------------------
(* What the text says and the code does not do.                            *)

\* An undone transfer leaves no show flagged as watched of which nothing is watched
\* ("62 phantom shows in their Recently Watched is exactly what 'Put back exactly as it
\* was' promises not to leave behind").
NoPhantomShows ==
  [][(\E i \in DOMAIN snapshots : Restores(i)) =>
       \A s \in flagged : \E k \in Episodes(s) : target[k].count > 0 \/ k \in disturbed]_vars
=============================================================================
