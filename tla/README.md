# Shortlist in TLA+

Shortlist gives every person of a Plex server rows of their own: collections labelled
`shortlist_<slug>`. Plex has no private collection. A row is private only because the *share
filter* of every other account, a string kept at plex.tv, excludes its label. The program is one
container: a FastAPI server (`src/shortlist/server`) around an engine (`src/shortlist/engine`) that
rewrites rows and filters at night and on request. Two more parts write elsewhere: the
watching-account transfer makes one Plex account's watch state a copy of another's, and title
requests ask Sonarr, Radarr or Overseerr for what the library lacks. This directory models the
parts of it where an order, a crash or a stale read decides who sees what, what a person has
watched, or what is asked for twice.

Contents: [the system](#the-system), [the modules](#the-modules), [the runs](#the-runs),
[the proofs](#the-proofs), [where code and text disagree](#where-code-and-text-disagree),
[what is left out](#what-is-left-out), [the plan](#the-plan).

## The system

| Component | State it keeps | Operations | Hard behaviour | What makes it correct |
|---|---|---|---|---|
| Job queue (`services/jobs.py`) | `jobs` table; drain lock; one `asyncio.Lock` for writers of Plex | enqueue, claim, stand down, run, finish with retry, sweep stale rows | sweeps and drains interleave; attempts are charged, returned and charged again | one writer; a row is claimed once; retries bounded; accepted work settles |
| Runs (`services/run_service.py`) | `runs` table; `_cancels`, the in-memory set of runs in flight | queue, hand over an assistant's run, cancel, build context, take the writer lock, settle, resume | cancel races the start or the hand-over; the set and the table drift apart; resume loops | the set is exact; a cancelled run builds nothing; verdicts are final; resumes bounded |
| Process (`main.py`) | none of its own | boot: abort orphans, recover jobs, queue a repair, resume; shutdown; kill | a death between any two of these steps | every boot puts right what the last process left |
| API handlers with the lock (`api/system.py`, `api/collections.py`) | none | uninstall, collection clean-up | busy check, then await, then lock | one writer |
| Leak-safe pass (`engine/pipeline.py`) | locals of one pass: listing, roster, labels, who to promote | sweep, deliver, exclude early, merge, read back, promote, converge | any read or write may fail, lie or be old; accounts come and go | a row is promoted only when every account hides it |
| Share filters (`engine/privacy.py`) | plex.tv's filter strings; a snapshot of each account's own | merge, prune, admit the own row, clear | separators bind in a disputed order; legacy damage; owner's own conditions | rows hidden, the owner's meaning kept, one write settles |
| Delivery (`engine/delivery.py`) | collections on Plex | create then label, find, sweep label-less ones | two calls, and a death between them | no collection without a label stays |
| Context and roster (`services/context_builder.py`, `services/user_sync.py`) | `users` table | build a pass's context, sync accounts | the context is older than the pass | decisions rest on fresh reads |
| Watching-account transfer (`services/watching_account.py`, `engine/watch_replica.py`) | play counts and resume positions on two accounts; a snapshot per job; copied play events; the watched cache | plan, snapshot, write, clear shows, stamp, verify, undo | scrobbles only count up and are not idempotent; any write may be refused, lost or repeated; the person watches on; a death between two writes | the copy is exact where it is reported exact; an undo that landed puts everything back |
| Title requests (`engine/requests.py`, `services/request_actions.py`, `api/requests.py`) | the inbox; a ledger of claims | send from the inbox, send in a run, file, decide, release, recover | three kinds of senders with a transaction each; an answer that never comes; row ids that are used again | one standing claim a title; nothing that was sent is forgotten; a no is a no |
| Assistant, requests (`assistant/request_adapter.py`, `assistant/run_spend.py`) | its plans' claims and the job that carries them out | approve, dispatch, resume, stop | a job executed again after a death; a row edited since the approval | as above; every claim gets a verdict |
| Assistant, runs (`assistant/run_adapter.py`, `run_service.dispatch_queued_assistant_run`) | a queued run and the job that hands it over | approve, hand over, stop | a boot between the two; a stop racing the hand-over | nothing is in flight before the hand-over, and exactly one coroutine after it |
| Seasons, themes, watch stream, other assistant plans and OAuth, backup, reports, posters, setup, web | see `PROJECT.json` | | | not modelled; the reason is in each entry |

How they interact. Anything that writes to Plex holds the writer lock: a drain runs its writer jobs
under it one by one, a run takes it once its context is built, uninstall and clean-up take it
themselves. Runs and jobs meet in two more places: a writer job *stands down* while a run is in
flight, and a run an assistant's plan asked for is only a row until its `dispatch` job hands it over. Under the lock a pass of the engine reads the collections from Plex and the accounts from
plex.tv, plans each account's filter with the share-filter algebra, writes it, reads it back and
promotes. Users, departures and "leave this account's sharing alone" reach the pass only through
its context, built before it waited for the lock. A transfer and its undo are writer jobs of the
same queue. A run that has delivered its rows goes on to request what was picked and is missing; it
meets the owner's inbox and the assistant's job in the ledger of claims only, which each of them
reads and extends in a transaction of its own.

## The modules

| Module | Models | Extends / uses |
|---|---|---|
| `JobQueue` | one row of the `jobs` table and what claim, start, release, finish and sweep do to it | |
| `PlexWork` | queue, drain, runs, lock, handlers, boot, shutdown and kill as one state machine | `JobQueue`; refines `WorkPromise` |
| `WorkPromise` | the abstract promise: accepted work is owed until a verdict on an attempt really made; one writer | |
| `RowPrivacy` | one pass at a time, the accounts, the rows, the filters, and everything that goes wrong around them | |
| `ShareFilter` | what a sync or a clear does to the conditions of one filter field | |
| `WatchReplica` | pure: the writes that make one title agree with another account | |
| `WatchTransfer` | transfer and undo jobs, their snapshots, and what goes wrong meanwhile | `WatchReplica` |
| `RequestClaims` | the inbox, the ledger, the senders, the owner's decisions, and boot | |
| `PlexWorkProofs`, `RowPrivacyProofs`, `ShareFilterProofs`, `ShareFilterHandBackProofs`, `ShareFilterRestProofs`, `ShareFilterSettleProofs`, `WatchTransferProofs`, `RequestClaimsProofs` | theorems | |
| `MC*` | instances for TLC | |

The state machines stand on each other by assumption and not by `INSTANCE`: `RowPrivacy` runs
one pass at a time because `OneWriter` of `PlexWork` says so, and starts passes again and again
because `EveryJobSettles` does; it treats a filter as the set of rows Plex hides, and `SyncHides` of
`ShareFilter` is what makes that set well defined; `WatchTransfer` runs one job at a time, again by
`OneWriter`; `RequestClaims` has one run because the lock has one holder, and its job is one of
`PlexWork`'s, reduced to the statuses that decide whether it is executed again.

**PlexWork.** The server is one asyncio loop, so a stretch of code without `await` is one action.
`jobs` and `runs` are the tables and survive a crash; `task`, `phase`, `endpoint` are coroutines,
`holder` and `waiters` the `asyncio.Lock` with its FIFO queue, `cancel` is `_cancels`; all of these
die with the process (`Volatile`). Handlers are tried, not modelled: a job ends well, badly, or is
cut off. Backoff delays and `STALE_AFTER` elapse at any time. A reader job and a writer job differ
by `WritesPlex`; `credit` is what a playback event wakes: it is drained on its own, between runs
only, though a drain of the whole queue takes it beside a run too. `dispatch` has one attempt.

A run has two ways in. The schedule, the owner (the setup wizard's first run is one of those) and
a boot launch theirs at once: row, Event in `_cancels` and coroutine in one stretch (`Launch`). An
assistant's plan inserts the row and a `dispatch` job in one commit (`QueueAssistantRun`); nothing
in the process knows of that run until the job's handler marks it as handed over and arms it
(`DispatchRun`), or ends it because its authority is gone. Until then `CancelAssistantRun` may end
it, and a boot keeps it (`Orphan`, `AwaitsHandoff`), since its job survives too; when its turn comes
the authority is checked once more (`RunBegins`). `DispatchRun` has no guard on `mode`: a drain
that a stop signal finds at work finishes, and may start a run while the process closes. Left out
is only what the handler calls an unknown outcome, a run that is marked but has no coroutine:
`InFlightIsExact` says there is none.

`DatabaseFails` is SQLite refusing a write of the job's own row, in `_execute`, `_finish` or
`_release`. Nothing catches it before the batch's one runner, so the writers that runner still
had stay `running` without a coroutine, and as they never started, the sweep passes them over:
only a boot finds them.

**RowPrivacy.** A row is named by its person and a person has one collection, plus up to two
without a label. The libraries and both filter fields are collapsed into one. A pass goes through
`sweep`, `deliver`, `label`, `hideRoster`, `hide`, `enumerate`, `roster`, `merge`, `verify`,
`promote`; a job's pass enters where the code does. A listing may miss collections or their labels,
a write may fail before or after it took effect, and the process may die between any two steps
(`MaxFaults`). Accounts join, leave, are recorded as departed and are left alone at any moment
(`MaxChanges`), also while a pass waits with an older context; `Newcomers` may not be on the share
at first.

**ShareFilter.** A filter is a sequence of conditions with separators. `Shows` is Plex as measured
by the repository's fixtures (`|` binds tighter), `ShowsInOrder` the strict left-to-right reading
that the recordings do not exclude; excludes must hold under both. `Merged`, `Removed`, `Admitted`,
`Withdrawn`, `Planned`, `Synced` and `Cleared` are `merge_label_excludes`, `remove_label_excludes`,
`admit_own_rows` (both branches), `plan_share_filter`, and the per-field bodies of
`sync_user_restrictions` and `clear_our_excludes`. A behaviour starts from *any* filter of the bound, so an
edit by the owner between two passes is the start of another behaviour. Values are sets: their
order and encoding are kept by the code and not modelled.

**WatchReplica and WatchTransfer.** A leaf (film or episode) is a play count and a resume offset;
Plex can reset a count to zero, raise it by one, or set a position. `PlanOne` is the plan of one
leaf: which of these make it agree with what is wanted, within `Tolerance`. An attempt of a job reads
both accounts and plans (`BeginTransfer`), takes its snapshot, writes one operation at a time,
clears emptied shows, and ends with the stamps and the verify pass in one transaction
(`CommitTransfer`), after which another closes the job (`FinishTransfer`; `DiesUnclosed` is a death
between the two); an undo plans from the snapshot instead of the source account. The source account
does not change: an attempt reads it once, and what is watched there later is the next transfer's. `flagged` is Plex's own count on the show row, which an
emptied show keeps and which only an un-scrobble of the show clears, taking its episodes along. A
call may fail before or after it took effect, the process may die between any two calls, the person
may watch and the owner may unshare a library (`Troubles`, `MaxTroubles`). `disturbed` and
`pristine` are history variables. Snapshots of older versions, which do not record shows, are
among the first states.

**RequestClaims.** `inbox` is `request_candidates` by id, `ledger` the claims in the order of
theirs. The owner sends a batch of rows: all claims reserved in one transaction (`Reserve`), then per
title `StartManual`, the call, `FinishManual`. An approved plan is reserved the same way and carried
out by a job (`BeginDispatch`, `FinishDispatch`). A run claims one title at a time
(`RunClaims`, `RunRecords`) and files its result when it is done (`RunFiles`). `Post` is the call
leaving for the vendor, at any moment between claim and verdict, so that a death, an exception or a timeout
can fall on either side of it; `wire` and `calls` record what was really asked. `Decide` is the
owner in the inbox, `Release` the owner freeing a claim. A database error breaks a sender off
(`SenderFails`); a death empties the process, and boot settles what it left in three steps.
`Inboxes` gives new rows the lowest ids above those in use, which is what SQLite does without
`AUTOINCREMENT`: an id may come to stand for another title.

## The runs

Deadlock is checked in the runs of `ShareFilter` only: elsewhere the bounded supplies of jobs, runs,
claims, troubles and changes can be used up, and an idle server has nothing left to do.

| Run | Question | Bounds |
|---|---|---|
| `plexwork_queue` | do jobs, a run and an API handler share one Plex correctly, and is the promise kept? | 2 jobs, 1 run of any kind, 1 handler, 1 refused write, no crash |
| `plexwork_boot` | do boots repair what crashes leave of the runs, and keep what is not theirs to end? do resumes end? can sweeps, stand-downs and boots buy a job more executions than its budget? | 1 job of 2 attempts or a dispatch, 3 runs, 2 crashes or stops |
| `plexwork_live` | does accepted work settle, and do runs in flight end? | 1 job of 1 attempt, 2 runs, 1 handler, 1 crash or stop |
| `privacy_pass` | does any step of any pass expose a row? can a prune hit a live row? are snapshots clean? | owner and 2 people, 2 faults, 1 change |
| `privacy_live` | is every row on Home hidden in the end, and every left-alone account left alone? | owner, 1 person, 1 account, 1 with a parental profile; 2 faults, 1 change |
| `filter_sync` | do sync and clear do to a filter what they promise? | every filter of at most 3 of 9 conditions, both separators |
| `filter_own` | does an account's own label always leave its filter? (no) | every filter of at most 3 of 3 conditions |
| `transfer_mirror` | is a transfer that reports success exact, does an undo that landed restore, is nothing wanted swept away? | a film and a show of two episodes, 2 source and 2 target states, 2 jobs of 2 attempts, 2 troubles |
| `transfer_phantom` | is a show without a watched episode never left flagged? (no) | the same, 3 jobs, 1 crash |
| `requests_claims` | do the owner, a plan, a run and an assistant's run share one title correctly? | 2 titles, 1 inbox row whose id is used again, 2 claims, every way to send, 1 trouble |
| `requests_batches` | does every claim get a verdict, and is nothing repeated? | 2 titles in 2 rows, batches of two, owner and plan, 2 troubles |
| `requests_resend` | is an uncertain call never sent again? (no) | the same, plan only, 1 trouble |

Why the bounds are enough. Two jobs and a run are the least with which a job is claimed, stands
down, is swept and meets another writer, or with which a refused write strands the second; three
runs and two deaths let a scheduled run be interrupted, resumed, the resumed run be interrupted
too, and an assistant's run wait beside them. `plexwork_live` has a job, two runs and a handler, so
that three kinds of parties queue for one lock; it refuses no write, because a writer
stranded by one waits for a boot, which nobody promises: `EveryJobSettles` is false then. One job at
a time is followed to its verdict, so that of two jobs each waiting for the other is left to
`OneWriter` and `ClaimsAreExclusive` (one lock, taken once) and not shown by a liveness run. Two people and the owner are
the least with a row that one account must and another must not see. A leak takes one failed or
lying read and one change, and the prune takes two reads that fail apart, hence the two faults of
`privacy_pass`. Three conditions are the least for a clause with an `&` before it and a `|` behind,
the shape every special case of the algebra is about; sync then lets a filter grow past the bound.
A show of two episodes is the least with an episode that goes and one that stays, a second job is an
undo or a transfer over a transfer, and two troubles let a retry of an interrupted attempt be
interrupted or disturbed again. Two claims are the least that can collide, and one row with two
titles the least whose id can be used again; the batches need two rows and two
troubles, one to break the sender off and one to meet the job executed again.

Fairness. `PlexWork`: the loop keeps running, handlers and engine calls return, backoffs elapse; a
weak-fairness conjunct for each of these steps. The boot steps and the step that ends the closed
process are fair too: the container is restarted by its supervisor. Nothing the environment starts is fair:
no request, cancel or crash is owed. `RowPrivacy`: a pass that started goes on to its end or its
failure, and passes are started again and again, which `privacy.sync`, by default every half hour, and the
nightly schedule give and `EveryJobSettles` and `RunsInFlightEnd` carry through the queue.
`RequestClaims`: the owner's request, the job, the run and the boot go on (their vendor clients
time out, and a container restarts); that the vendor answers, or the owner does anything, is not
assumed. `WatchTransfer` states none and claims no liveness.

What the runs show beyond their names:

- `ClaimsAreExclusive`, `RetryBudget`, `EveryJobSettles` together: a row in the queue is run by one
  coroutine at a time, at most `max_attempts` times (a dispatch once) plus once per death and per refused write
  of its row, and, with no such write, to a verdict.
- `InFlightIsExact` is about the runs that are somebody's: a run has an Event exactly while it has a coroutine,
  and once the boot has aborted the orphans each run the table calls queued or running has one, but for
  the assistant's runs that await their hand-over.
- `NeverExposes` excuses only accounts the code cannot protect or was told not to: those that joined
  since the roster was read, that have a parental profile (or may have one), are left alone, or are
  off the share. `HiddenInTheEnd` is the other half: the exposure of a new account ends.
- `SyncKeepsTheOwnersMeaning` brackets every write between two readings of the owner's own
  conditions: never more of the library than the filter showed, never less than they ask for.
- `LandedUndoRestores` with `VerifyIsHonest`: what the program says of a transfer or an undo is what
  Plex holds, apart from leaves somebody else touched meanwhile.
- `OneStandingClaim` and `NoSilentRepeat` hold for three senders that never see each other's state:
  the ledger alone keeps them apart. `LandedStaysOnFile` is why a claim may stay `outcome_unknown`
  for ever: the program does not guess, it waits for the owner.

## The proofs

TLAPS checks each theorem for every value of the constants, from the named assumptions of the
modules only (which say that sets of names are disjoint and bounds are numbers).

`PlexWorkProofs`. `TypeCorrect` first. `HolderInv` (whoever is in a writing section holds the lock, and no
coroutine exists for a row that is not there) is inductive and gives `OneWriter`; `OneWriter` itself is not, since
nothing in it says that a second party cannot be granted the lock. `DrainInv` (without the drain
lock no coroutine has a job) gives `ClaimsAreExclusive`: a claim needs the drain lock free, whatever
the sweep did to the row meanwhile; it also says that no drain outlives the process, which a
refused write needs. `BudgetInv` adds up executions, attempts still charged,
deaths and refused writes per job, and gives `RetryBudget`. `RunInv` ties `cancel`, `phase` and the table together
(a run that awaits its hand-over has neither Event nor coroutine, any other live run has both once the orphans
are gone) and gives `InFlightIsExact`, `CancelledInQueueNeverBuilds` and, with the lemmas on which steps change
a row, `SettledIsFinal`. `ResumeInv` counts: there are no more resume runs than `Spent` ones, scheduled runs that are neither
in flight nor on a boot's list. A boot that puts an interrupted run on its list and one that resumes it
both keep that, and `ResumesAreBounded` follows for any finite set of runs. `PromiseKept` shows that every step maps to a step of
`WorkPromise` or a stutter.

`RowPrivacyProofs`. `TypeCorrect` and `SnapshotsCorrect`, then `PassInv`, three parts: `ListingInv`
(what the pass's listing still says of the server), `RosterInv` (the roster a merge works from is no
less restrictive than the filters it overwrites) and `CoverInv` (while no write has failed, each
account the pass is careful of is still to be merged, to be verified, or hides every listed row).
`LiveRowsStayHidden` needs the first two, `RowsStayPrivate` all three.

`ShareFilterProofs`. A filter may have any length, so every theorem here rests on what a rewriting
of a sequence does, and the library's induction is out of the provers' reach. The module gets it
from the least element of a set of numbers instead: `StepByStep` shows that a function defined from
its value one step earlier exists, `FlattenLays` that `FlattenSeq` lays its parts end to end, each
at a position of its own (`Laid`), and `LaidCovers` that nothing else is there. On top of these, one
lemma for each function of the code says which condition comes from which (`RemovedParts`,
`LiftedParts`, `WidenedParts`, ...). Three lines of theorems follow. `TypeCorrect`. Then
`EnforcedHides` and `EnforcedHidesInOrder`, an exclude in an enforced position hides under either
reading of the separators; `MergeHides`, the merge puts every label there that was wanted or excluded
anywhere; `SyncHidesAlways`, through the four passes and the prune; and `LeftAloneIsSafe`. Last
`NothingMoreShows`: `Met` restates what a filter shows condition by condition, `PartsShowNoMore`
gives the terms on which a rewriting shows no more than what it rewrote (what is dropped was not an
owner's alternative, what is kept has its old neighbours), and each function is shown to be on them.

`ShareFilterHandBackProofs`, on top of it, proves that an owner's filter comes back. What must be known on
the way is not that it would come back now, which no rewriting preserves by itself, but where its
conditions are: `Carries` names, for each of them, the position it stands at, in their order, under
its own separator, with nothing added but labels of ours; between them stand only alternatives
that admit the own row (`Alternative`) and behind them at most one clause of ours (`Behind`).
`CarriedAlong` gives the terms on which a rewriting keeps that, and every function of the code is
shown to be on them, for the owner's filter and any labels of ours. `Tidy` (Plex applies every
exclude of ours) does not survive an admission, and is there again after the merge that
follows. From both, `KeptComesBack`: once the own row is withdrawn and our labels are out, nothing
else is left, so the positions are those of the owner's filter.

`ShareFilterRestProofs`, on top of both, shows that the four passes of `plan_share_filter` are enough
and what their end means. A filter is `Resting` when no group of alternatives only admits the own row,
every group with an allow list of the owner's admits it, and no clause of ours alone is joined by a `|`, or
opens a filter that has one (`Steady`), so that the merge drops none. Until a filter rests, each pass leaves
fewer `Loose` clauses, those of ours alone that do not end it, than it found (`PassRests`);
`FewOfOurs` says that four passes can count that far, so `PlannedRests`. The prune keeps a
filter at rest (`RemovedRests`), and a filter at rest shows the own row unless the owner's conditions hide it, by
themselves: `OwnRowIsShown`. `OwnersMeaningIsKept` adds the half that `NothingMoreShows` leaves open. `OwnerMet`
reads a group of conditions as the owner wrote it, `Spares` says that a rewriting drops no
alternative of the owner's, and each function of the code is shown to keep that (`Keeps`).

`ShareFilterSettleProofs`, on top of these, proves `SyncSettles`, that the steady state makes no writes. To
rest is not enough: a filter at rest may still hold an exclude to trim or an admission to drop.
`Calm` adds that what Plex ignores of ours is in clauses of ours alone (`StraysOurs`), and that each
admission of the own row stands where it would be put again (`Justified`). A pass makes a filter that
rests calm (`PlannedCalm`) and does to a calm one nothing but place labels (`CalmPasses`). The prune
keeps it calm and leaves no exclude it could still cut (`Pruned`, `RemovedCalm`). So the second sync
places some labels, which are all among those that its prune takes out, and the prune undoes exactly
that (`RemovedBack`).

`WatchTransferProofs`. `PlanMirrors` and `PlanEndsInAgreement` are about the plan alone: its writes, if
they all land, make the title agree, and it is empty exactly where the accounts agree. `TypeCorrect`
and `StampsExplained` need no more than types. `AttemptInv` says what an attempt is to arrive at
(the source as it is, or the snapshot its undo names) and that no show it may clear has a wanted
leaf: `ClearingIsSafe` follows, and with `PlanEndsInAgreement` `MatchesIsHonest`, since a verify pass plans
again over what it reads. `PlanUnderWay` puts every title nobody else touched at a stage of its plan
while the writes land, hence `CountsBounded`, and `UndoRestores` when nothing is left to write.
`SnapshotInv` gives `SnapshotBeforeWrites`: `SnapshotFirst` alone does not say that an attempt which
still has a call to make has its snapshot.

`RequestClaimsProofs`. `TypeCorrect`, then `ClaimInv`, which is inductive: `AllSound` (what a
claim's status says of its call), `Callers` (who holds which claims, by their origin, and that a
caller's claim is started), `InboxInv` (a title has one row; what a run has sent, a vendor took),
and with them `OneStandingClaim` and `SentWasAccepted`. `OneStandingClaim` alone is not inductive:
a claim whose title was asked for elsewhere must be known never to stand again, which
`AllSound` and `Callers` give. `StepMoves` says what any step may do to a claim on file (`Move`), `StepFresh`
what it may add (`Fresh`); the theorems on the ledger follow from these two. `OwedInv` adds
whose verdict a claim waits for at each stage of a boot, and gives `UnsettledHasAnOwner`.

Only model-checked: all liveness properties (`EveryJobSettles`, `RunsInFlightEnd`, `HiddenInTheEnd`,
`LeftAloneIsHonoured`, `BareRowsEnd`, `CallsAreSettled`), since liveness under fairness is out of the
prover's reach.

## Where code and text disagree

Three have a run that shows them.

1. `OwnLabelLeaves`. `label=Kids&label!=<own>&contentRating=G`: the sync admits the own row with a
   `|` behind the exclude, and the removal then keeps that exclude because of the `|`. The row stays hidden
   from its person, and later syncs write nothing.
2. `NoPhantomShows`. A process that dies after the last episode of a show was un-scrobbled and before
   the show was leaves it flagged as watched; the retry plans nothing and does not look at it.
3. `NeverSentAgain`. A plan promises that an uncertain call is never sent again automatically. If the
   owner releases the claim and the process dies before the job is done, the job executed again takes
   the released claim for one that was never started, and sends.

Others were met on the way and are recorded here only.

- "Queued assistant work has a durable dispatch job" (main.py:288), so boot keeps such a run. The job
  has one attempt: once it has failed before the hand-over (a busy database is enough), no job will come for
  the run, every boot keeps it, and only the owner's stop ends it.
- `_execute` promises "Never raises" since "one bad job must not stop everything queued behind it"
  (services/jobs.py:974). A database error before its `try`, or one that `_finish` meets twice, is raised all the
  same and strands the writers the batch still had until the next boot (`DatabaseFails`).
- A retried job keeps the `started_at` of its last attempt while it waits for the lock
  (services/jobs.py:805); the sweep takes it for stale, and its stand-down returns no attempt.
  `RetryBudget` holds all the same: the job is tried less often than it may be, never more.
- Two label-less collections on a server without a labelled one look to the sweep like a failed read
  of labels, and stay (engine/delivery.py:2143). `BareRowsEnd` says the rest: if it is ever not so,
  they end.
- `plan_share_filter` repeats its passes "until nothing changes, so a filter the old merge damaged is
  settled in ONE write" (engine/privacy.py:625), but at most four times. A pass lifts one clause of ours
  alone out of a row of them before a `|`, and the allow list behind is judged for the own row after
  the last: `label!=p&label!=p&label!=p&label!=p|label=Kids` is written without the admission, and the
  row of its person stays hidden until the next sync. `FewOfOurs` keeps such filters, which no merge of
  the program writes, out of the three properties that are about the end of the passes.
- `clear_our_excludes` says one pass is enough (engine/privacy.py:1039), but in
  `A&label!=p|label!=q` the first pass keeps `label!=p` for the sake of the `|` it removes with
  `label!=q`; the second pass takes it out.
- A plan raises a count on the assumption that a reset before it took effect
  (engine/watch_replica.py:97): after a refused reset its scrobbles add to the old count, and the next attempt
  resets again. An undo whose own read finds the library unreadable still lands, having nothing to
  plan; an undo of the second of two transfers deletes the copied events of both; rows of the watched
  cache that were stamped for a show stay after an undo. A scrobble that the HTTP layer repeats
  counts twice, and only a verify pass sees it.
- A row filed as sent, then rejected and deleted in the inbox, leaves no trace there, but the claim
  still blocks its title. A verdict that comes after its row's id was given to another title files
  that title as sent (`SentWasAccepted` names the exception). After a database error an assistant's
  claims stay reserved or started: no boot recovers them and the owner cannot release them
  (`UnsettledHasAnOwner` and `CallsAreSettled` except such states).

## What is left out

- A write of a run's own row that SQLite refuses: the run loses its Event all the same and its row stays
  `queued` or `running` until the next boot aborts it (`InFlightIsExact` is stated without such writes).
- A second pass beside one that waits for the lock: `RowPrivacy` has one pass and its context at a time.
  A decision that comes while it waits is covered; one that a second waiting pass has already
  acted on is not (`LeftAloneIsHonoured` says what holds in the end).
- Of the listing: a read of the marked collections in `enumerate` that succeeds is taken to be complete; the
  sweep's listing may miss collections and labels.
- A change of the source account under a transfer (see `WatchTransfer` above).
- Several rows per person, shared rows in the pass, row order on the shelf, posters.
  (Shared rows are in `ShareFilter`.)
- `converge` deletes orphaned collections and reorders; only its demotion of paused people's rows
  is in `Finish`.
- Filters Plex cannot read (a raw `&` in a label), for which the code skips the field and reports.
- Dry run, which writes nothing.
- Of requests: which titles pass the gates, how slots are shared between rows, the weekly hold of
  titles a vendor refused, destinations and tags, and the vendor clients beyond their kinds of answers;
  more than one send request or plan under way at a time.
- Of the transfer: the dates of plays, paging, and the play log beyond which titles it explains.
- An owner editing a filter in Plex Web between the pass's read and its write: plex.tv has no
  conditional write, the edit is lost, and no property could say otherwise.
- The restore of snapshots at uninstall; `SnapshotsPredateWrites` covers what it would restore.
- Components marked `not_modelled` in `PROJECT.json`, with the reason beside each.

## The plan

What is modelled is meant to stay at this extent; what remains is to prove more of it.

`RowPrivacy`: that the pass refines an abstract promise, rows are hidden before they are shown.

Candidates for further modules, none of which shares state with those above: nightly rotation of
themes, what is credited from a playback stream that drops and repeats, token families of the
assistant's OAuth, backup and restore, and the identity of delivered rows across collections and
ledger. Ranking and selection, curators, posters, reports, settings, setup and the
HTTP layer have no interaction that a model checker would reach and a test would not.
