----------------------------- MODULE RowPrivacy -----------------------------
(***************************************************************************)
(* The leak-safe pass (engine/pipeline.py and the jobs that reuse it):      *)
(* every per-person row is a collection on one Plex server, and it is       *)
(* hidden from an account only by an exclude of its label in that account's *)
(* share filter on plex.tv.  A pass sweeps the rows nobody's filter can     *)
(* hide, builds rows off every Home, merges the excludes into every share   *)
(* filter, reads them back, and only then puts rows on Home.                *)
(*                                                                          *)
(* Passes write one at a time (OneWriter of PlexWork).  Around them the     *)
(* owner and Plex move: accounts join and leave the share, the owner leaves *)
(* an account's sharing alone, reads fail or come back without labels,      *)
(* writes fail before or after they took effect, and the process dies.      *)
(*                                                                          *)
(* A row is named by the person it belongs to, and a share filter is the    *)
(* set of rows whose exclude Plex applies; how such a set is kept in a      *)
(* filter string, next to the owner's own restrictions, is ShareFilter.     *)
(***************************************************************************)
EXTENDS Naturals, FiniteSets, FiniteSetsExt

CONSTANTS
  Accounts,    \* every account of the server
  Owner,       \* its owner, whom Plex cannot restrict
  People,      \* the accounts Shortlist knows a slug of: they may have a row
  Restricted,  \* managed accounts
  Profiled,    \* managed accounts whose parental profile refuses filters
  Newcomers,   \* accounts that may not be on the share at first
  Nobody,      \* nobody's row
  MaxFaults,   \* bound: reads and writes that go wrong, and deaths
  MaxChanges   \* bound: changes to the share and to the owner's settings

ASSUME RowPrivacyAssumption ==
  /\ Owner \in Accounts
  /\ People \subseteq Accounts
  /\ Restricted \subseteq Accounts \ {Owner}
  /\ Profiled \subseteq Restricted
  /\ Nobody \notin People
  /\ MaxFaults \in Nat
  /\ MaxChanges \in Nat

VARIABLES
  \* Plex
  live,           \* people whose collection exists and carries their label
  bare,           \* each person's collections that carry no label
  onHome,         \* rows promoted onto a Home
  filter,         \* rows each account's share filter hides
  shared,         \* accounts plex.tv lists on the share
  \* Shortlist's database
  snapshot,       \* excludes of ours in the filter stored before the first write
  leftAlone,      \* accounts with manage_sharing = 0
  departed,       \* people recorded as gone
  \* the pass: what its context was built with
  phase,
  kind,           \* run, privacy.sync, user.restore or rows.visibility
  unmanaged,      \* ctx.unmanaged_account_ids
  departedSlugs,  \* ctx.departed_slugs
  \* the pass: rows
  todo,           \* people the run has yet to build a row for
  hand,           \* whose collection is created and not yet labelled
  storedLabels,   \* stored_labels: rows the pass knows to exist
  alreadyThere,   \* already_on_server
  hideEarly,      \* not early_merges["stopped"]
  toPromote,      \* whose rows go on Home once the filters are merged
  \* the pass: filters
  remote,         \* the share filters as the last roster read returned them
  profilesKnown,  \* home_profile_known
  queue,          \* accounts of that roster not merged yet
  toVerify,       \* accounts written by the merge
  known,          \* collections_known
  listing,        \* rows the fresh read of the collections found, by label ...
  marked,         \* ... and by title marker
  syncOk,         \* not sync_failed
  \* bookkeeping
  joined,         \* accounts (re)joined since the merge read the roster
  faults, changes

\* No pre-Shortlist filter is stored for the account.
NoSnapshot == {Nobody}

plexVars   == <<live, bare, onHome, filter, shared>>
dbVars     == <<snapshot, leftAlone, departed>>
ctxVars    == <<kind, unmanaged, departedSlugs>>
buildVars  == <<todo, hand, storedLabels, alreadyThere, hideEarly, toPromote>>
readVars   == <<known, listing, marked>>
mergeVars  == <<remote, profilesKnown, queue, toVerify, syncOk>>
countVars  == <<faults, changes>>
vars == <<plexVars, dbVars, phase, ctxVars, buildVars, readVars, mergeVars,
          joined, countVars>>

Phases == {"idle", "sweep", "deliver", "label", "hideRoster", "hide",
           "enumerate", "roster", "merge", "verify", "promote"}

Kinds == {"run", "sync", "restore", "visibility"}

TypeOK ==
  /\ live \subseteq People
  /\ bare \in [People -> Nat]
  /\ onHome \subseteq People
  /\ filter \in [Accounts -> SUBSET People]
  /\ shared \subseteq Accounts
  /\ snapshot \in [Accounts -> (SUBSET People) \cup {NoSnapshot}]
  /\ leftAlone \subseteq Accounts
  /\ departed \subseteq People
  /\ phase \in Phases
  /\ kind \in Kinds
  /\ unmanaged \subseteq Accounts
  /\ departedSlugs \subseteq People
  /\ todo \subseteq People
  /\ hand \in People \cup {Nobody}
  /\ storedLabels \subseteq People
  /\ alreadyThere \subseteq People
  /\ hideEarly \in BOOLEAN
  /\ toPromote \subseteq People
  /\ remote \in [Accounts -> SUBSET People]
  /\ profilesKnown \in BOOLEAN
  /\ queue \subseteq Accounts
  /\ toVerify \subseteq Accounts
  /\ known \in BOOLEAN
  /\ listing \subseteq People
  /\ marked \subseteq People
  /\ syncOk \in BOOLEAN
  /\ joined \subseteq Accounts
  /\ faults \in 0..MaxFaults
  /\ changes \in 0..MaxChanges

Init ==
  /\ live = {}
  /\ bare = [p \in People |-> 0]
  /\ onHome = {}
  /\ filter = [a \in Accounts |-> {}]
  /\ \E absent \in SUBSET Newcomers : shared = Accounts \ ({Owner} \cup absent)
  /\ snapshot = [a \in Accounts |-> NoSnapshot]
  /\ leftAlone = {}
  /\ departed = {}
  /\ phase = "idle"
  /\ kind = "run"
  /\ unmanaged = {}
  /\ departedSlugs = {}
  /\ todo = {}
  /\ hand = Nobody
  /\ storedLabels = {}
  /\ alreadyThere = {}
  /\ hideEarly = TRUE
  /\ toPromote = {}
  /\ remote = [a \in Accounts |-> {}]
  /\ profilesKnown = TRUE
  /\ queue = {}
  /\ toVerify = {}
  /\ known = FALSE
  /\ listing = {}
  /\ marked = {}
  /\ syncOk = TRUE
  /\ joined = {}
  /\ faults = 0
  /\ changes = 0

\* One more thing went wrong.
Fault ==
  /\ faults < MaxFaults
  /\ faults' = faults + 1
  /\ UNCHANGED changes

\* What a pass keeps in memory is worth nothing once it ended.  Forgetting it
\* here, rather than when the next pass begins, changes no step.
Forget ==
  /\ phase' = "idle"
  /\ kind' = "run"
  /\ unmanaged' = {}
  /\ departedSlugs' = {}
  /\ todo' = {}
  /\ hand' = Nobody
  /\ storedLabels' = {}
  /\ alreadyThere' = {}
  /\ hideEarly' = TRUE
  /\ toPromote' = {}
  /\ remote' = [a \in Accounts |-> {}]
  /\ profilesKnown' = TRUE
  /\ queue' = {}
  /\ toVerify' = {}
  /\ known' = FALSE
  /\ listing' = {}
  /\ marked' = {}
  /\ syncOk' = TRUE

-----------------------------------------------------------------------------
(* The context a pass is built with, and the sweep.                         *)

\* enabled_profiles: a departed person was switched off, and an account with
\* a parental profile can never have a private row.
Enabled == People \ (departed \cup Profiled)

Begin(k, who) ==
  /\ phase = "idle"
  /\ who \subseteq Enabled
  /\ CASE k = "run"     -> who # {}
       [] k = "restore" -> Cardinality(who) = 1
       [] OTHER         -> who = {}
  /\ phase' = "sweep"
  /\ kind' = k
  /\ unmanaged' = leftAlone
  /\ departedSlugs' = departed
  /\ todo' = IF k = "run" THEN who ELSE {}
  /\ toPromote' = IF k = "run" THEN {} ELSE who
  /\ UNCHANGED <<plexVars, dbVars, hand, storedLabels, alreadyThere, hideEarly,
                 readVars, mergeVars, joined, countVars>>

\* No label read anywhere, and more than one collection of ours by its title
\* marker: taken for a failed read (systemic_failure).
ReadFailed(unread) ==
  unread = live /\ MapThenSumSet(LAMBDA p : bare[p], People) + Cardinality(unread) > 1

\* Whose label-less collections the sweep deletes.  A label that one read
\* missed is confirmed by two more (_confirm_orphan_twice).
Broken_enabled(unread) ==
  {p \in Enabled : bare[p] > 0 /\ ~ReadFailed(unread)}

Broken(unread) ==
  {p \in People : bare[p] > 0 /\ ~ReadFailed(unread)}

\* The sweep, and the read of the labels on the server after it.  Either may
\* find no label on a collection that has one.
Sweep(unread, missed) ==
  /\ phase = "sweep"
  /\ unread \subseteq live /\ missed \subseteq live
  /\ IF unread = {} /\ missed = {} THEN UNCHANGED countVars ELSE Fault
  /\ bare' = [p \in People |-> IF p \in Broken(unread) THEN 0 ELSE bare[p]]
  /\ storedLabels' = live \ missed
  /\ alreadyThere' = live \ missed
  /\ phase' = "deliver"
  /\ UNCHANGED <<live, onHome, filter, shared, dbVars, ctxVars, todo, hand,
                 hideEarly, toPromote, readVars, mergeVars, joined>>

\* The sweep dies part-way, or the read after it: nothing else is written.
SweepFails(gone) ==
  /\ phase = "sweep"
  /\ gone \subseteq Broken({})
  /\ Fault
  /\ bare' = [p \in People |-> IF p \in gone THEN 0 ELSE bare[p]]
  /\ Forget
  /\ UNCHANGED <<live, onHome, filter, shared, dbVars, joined>>

-----------------------------------------------------------------------------
(* Delivery: rows are written off every Home.                               *)

\* A first row is hidden before anything else is delivered (on_label_stored).
LabelStored(p) ==
  /\ storedLabels' = storedLabels \cup {p}
  /\ toPromote' = toPromote \cup {p}
  /\ phase' = IF hideEarly /\ p \notin alreadyThere THEN "hideRoster" ELSE "deliver"

\* The row is there: its items are rewritten in place.
Deliver(p) ==
  /\ phase = "deliver"
  /\ p \in todo
  /\ p \in live
  /\ todo' = todo \ {p}
  /\ LabelStored(p)
  /\ UNCHANGED <<plexVars, dbVars, ctxVars, hand, alreadyThere, hideEarly,
                 readVars, mergeVars, joined, countVars>>

\* Cancelled before their turn, no picks, or any failure before the row is
\* written: this person's row stays as it is.
DeliverNothing(p) ==
  /\ phase = "deliver"
  /\ p \in todo
  /\ todo' = todo \ {p}
  /\ UNCHANGED <<plexVars, dbVars, phase, ctxVars, hand, storedLabels,
                 alreadyThere, hideEarly, toPromote, readVars, mergeVars, joined,
                 countVars>>

\* Plex has no "create with a label": between the two writes the collection
\* is bare and no share filter can hide it.
Create(p) ==
  /\ phase = "deliver"
  /\ p \in todo
  /\ p \notin live
  /\ bare' = [bare EXCEPT ![p] = @ + 1]
  /\ hand' = p
  /\ todo' = todo \ {p}
  /\ phase' = "label"
  /\ UNCHANGED <<live, onHome, filter, shared, dbVars, ctxVars, storedLabels,
                 alreadyThere, hideEarly, toPromote, readVars, mergeVars, joined,
                 countVars>>

Label ==
  /\ phase = "label"
  /\ live' = live \cup {hand}
  /\ bare' = [bare EXCEPT ![hand] = @ - 1]
  /\ LabelStored(hand)
  /\ hand' = Nobody
  /\ UNCHANGED <<onHome, filter, shared, dbVars, ctxVars, todo, alreadyThere,
                 hideEarly, readVars, mergeVars, joined, countVars>>

\* The label did not stick: the collection is deleted, if that works, and a
\* write that timed out is tried again.
LabelFails ==
  /\ phase = "label"
  /\ Fault
  /\ bare' \in {bare, [bare EXCEPT ![hand] = @ - 1]}
  /\ todo' \in {todo, todo \cup {hand}}
  /\ hand' = Nobody
  /\ phase' = "deliver"
  /\ UNCHANGED <<live, onHome, filter, shared, dbVars, ctxVars, storedLabels,
                 alreadyThere, hideEarly, toPromote, readVars, mergeVars, joined>>

Delivered ==
  /\ phase = "deliver"
  /\ todo = {}
  /\ phase' = "enumerate"
  /\ UNCHANGED <<plexVars, dbVars, ctxVars, buildVars, readVars, mergeVars,
                 joined, countVars>>

-----------------------------------------------------------------------------
(* What a merge writes for one account.                                     *)

Wanted(a) == storedLabels \ {a}

\* The one prune that takes another person's exclude away: that person is
\* recorded as gone, and neither of two reads of the server saw their row.
DeadPrivate_unmarked(a) ==
  {p \in remote[a] :
     known /\ storedLabels # {} /\ p \notin storedLabels /\ p \in departedSlugs}

DeadPrivate(a) ==
  {p \in remote[a] :
     /\ known /\ storedLabels # {}
     /\ p \notin storedLabels
     /\ p \notin marked
     /\ p \in departedSlugs}

ExcludedFromSelf(a) == storedLabels \cap {a}

Planned(a) ==
  (remote[a] \cup Wanted(a)) \ (DeadPrivate(a) \cup ExcludedFromSelf(a))

\* Whose filter this pass leaves as it is: the owner is never restricted, and
\* a known parental profile refuses every filter.
Skipped(a) == a = Owner \/ (profilesKnown /\ a \in Profiled)

Writes_known(a) ==
  a \in People /\ ~Skipped(a) /\ a \notin unmanaged /\ Planned(a) # remote[a]

Writes(a) == ~Skipped(a) /\ a \notin unmanaged /\ Planned(a) # remote[a]

\* The filter an account joins with, and the one a write leaves.
SetFilter_nested(a, labels) == filter' = [filter EXCEPT ![a] = @ \cup {labels}]
SetFilter_additive(a, labels) == filter' = [filter EXCEPT ![a] = @ \cup labels]
SetFilter(a, labels) == filter' = [filter EXCEPT ![a] = labels]

\* Saved before the account's first write, and never replaced.
SaveSnapshot(a) ==
  /\ phase \in {"hide", "merge"}
  /\ a \in queue
  /\ Writes(a)
  /\ snapshot[a] = NoSnapshot
  /\ snapshot' = [snapshot EXCEPT ![a] = remote[a]]
  /\ UNCHANGED <<plexVars, leftAlone, departed, phase, ctxVars, buildVars,
                 readVars, mergeVars, joined, countVars>>

ReadyToWrite_unsaved(a) == a \in queue /\ Writes(a)

ReadyToWrite(a) ==
  /\ a \in queue
  /\ Writes(a)
  /\ snapshot[a] # NoSnapshot

-----------------------------------------------------------------------------
(* The early merge of a first row: additive, best-effort, never verified.   *)

HideRoster ==
  /\ phase = "hideRoster"
  /\ remote' = filter
  /\ queue' = shared
  /\ profilesKnown' \in BOOLEAN
  /\ phase' = "hide"
  /\ UNCHANGED <<plexVars, dbVars, ctxVars, buildVars, readVars, toVerify,
                 syncOk, joined, countVars>>

HideRosterFails ==
  /\ phase = "hideRoster"
  /\ Fault
  /\ hideEarly' = FALSE
  /\ phase' = "deliver"
  /\ UNCHANGED <<plexVars, dbVars, ctxVars, todo, hand, storedLabels,
                 alreadyThere, toPromote, readVars, mergeVars, joined>>

\* Nothing to write for this account, or plex.tv declined the write (422).
HidePasses(a) ==
  /\ phase = "hide"
  /\ a \in queue
  /\ ~Writes(a) \/ snapshot[a] # NoSnapshot
  /\ IF Writes(a) /\ a \notin Profiled THEN Fault ELSE UNCHANGED countVars
  /\ queue' = queue \ {a}
  /\ UNCHANGED <<plexVars, dbVars, phase, ctxVars, buildVars, readVars, remote,
                 profilesKnown, toVerify, syncOk, joined>>

HideWrites(a) ==
  /\ phase = "hide"
  /\ ReadyToWrite(a)
  /\ a \notin Profiled
  /\ SetFilter(a, Planned(a))
  /\ queue' = queue \ {a}
  /\ UNCHANGED <<live, bare, onHome, shared, dbVars, phase, ctxVars, buildVars,
                 readVars, remote, profilesKnown, toVerify, syncOk, joined,
                 countVars>>

\* A write that raised may have been applied: no more early merges this run.
HideWriteFails(a) ==
  /\ phase = "hide"
  /\ ReadyToWrite(a)
  /\ Fault
  /\ UNCHANGED filter \/ (a \notin Profiled /\ SetFilter(a, Planned(a)))
  /\ hideEarly' = FALSE
  /\ queue' = {}
  /\ UNCHANGED <<live, bare, onHome, shared, dbVars, phase, ctxVars, todo, hand,
                 storedLabels, alreadyThere, toPromote, readVars, remote,
                 profilesKnown, toVerify, syncOk, joined>>

Hidden ==
  /\ phase = "hide"
  /\ queue = {}
  /\ phase' = "deliver"
  /\ UNCHANGED <<plexVars, dbVars, ctxVars, buildVars, readVars, mergeVars,
                 joined, countVars>>

-----------------------------------------------------------------------------
(* The merge: every account of the share, from a fresh read of everything.  *)

\* Labels and title markers come from one listing, but a label is re-read
\* per collection and that re-read may come back empty.
Enumerate(missed) ==
  /\ phase = "enumerate"
  /\ missed \subseteq live
  /\ IF missed = {} THEN UNCHANGED countVars ELSE Fault
  /\ listing' = live \ missed
  /\ storedLabels' = storedLabels \cup listing'
  /\ marked' = live \cup {p \in People : bare[p] > 0}
  /\ known' = TRUE
  /\ phase' = "roster"
  /\ UNCHANGED <<plexVars, dbVars, ctxVars, todo, hand, alreadyThere, hideEarly,
                 toPromote, mergeVars, joined>>

\* Merge what is known, promote nothing.
EnumerateFails ==
  /\ phase = "enumerate"
  /\ Fault
  /\ syncOk' = FALSE
  /\ phase' = "roster"
  /\ UNCHANGED <<plexVars, dbVars, ctxVars, buildVars, readVars, remote,
                 profilesKnown, queue, toVerify, joined>>

Roster ==
  /\ phase = "roster"
  /\ remote' = filter
  /\ queue' = shared
  /\ profilesKnown' \in BOOLEAN
  /\ joined' = {}
  /\ phase' = "merge"
  /\ UNCHANGED <<plexVars, dbVars, ctxVars, buildVars, readVars, toVerify,
                 syncOk, countVars>>

\* Without the roster the pass ends: no filter written, nothing promoted.
RosterFails ==
  /\ phase = "roster"
  /\ Fault
  /\ Forget
  /\ UNCHANGED <<plexVars, dbVars, joined>>

MergeSkips(a) ==
  /\ phase = "merge"
  /\ a \in queue
  /\ a \notin unmanaged
  /\ ~Writes(a)
  /\ queue' = queue \ {a}
  /\ UNCHANGED <<plexVars, dbVars, phase, ctxVars, buildVars, readVars, remote,
                 profilesKnown, toVerify, syncOk, joined, countVars>>

\* plex.tv accepts the write.  Whether it kept it is for the read-back.
MergeWrites(a) ==
  /\ phase = "merge"
  /\ ReadyToWrite(a)
  /\ a \notin Profiled
  /\ \/ SetFilter(a, Planned(a)) /\ UNCHANGED countVars
     \/ UNCHANGED filter /\ Fault
  /\ queue' = queue \ {a}
  /\ toVerify' = toVerify \cup {a}
  /\ UNCHANGED <<live, bare, onHome, shared, dbVars, phase, ctxVars, buildVars,
                 readVars, remote, profilesKnown, syncOk, joined>>

\* plex.tv declines the write for good (422).  Tolerated for a managed
\* account whose profile could not be read; anybody else blocks promotion.
MergeDeclined(a) ==
  /\ phase = "merge"
  /\ ReadyToWrite(a)
  /\ IF a \in Profiled THEN UNCHANGED countVars ELSE Fault
  /\ syncOk' = (syncOk /\ a \in Restricted /\ ~profilesKnown)
  /\ queue' = queue \ {a}
  /\ UNCHANGED <<plexVars, dbVars, phase, ctxVars, buildVars, readVars, remote,
                 profilesKnown, toVerify, joined>>

\* The write raised, before it took effect or after.
MergeFails(a) ==
  /\ phase = "merge"
  /\ ReadyToWrite(a)
  /\ Fault
  /\ UNCHANGED filter \/ (a \notin Profiled /\ SetFilter(a, Planned(a)))
  /\ syncOk' = FALSE
  /\ queue' = queue \ {a}
  /\ UNCHANGED <<live, bare, onHome, shared, dbVars, phase, ctxVars, buildVars,
                 readVars, remote, profilesKnown, toVerify, joined>>

\* An account the owner asked to leave alone: our excludes come out of its
\* filter, from no snapshot and with no consequence when it fails.
LeaveSharingAlone(a) ==
  /\ phase = "merge"
  /\ a \in queue
  /\ a \in unmanaged
  /\ \/ /\ a \notin Profiled \cup {Owner}
        /\ SetFilter(a, {})
        /\ UNCHANGED countVars
     \/ /\ a \in Profiled \cup {Owner}
        /\ UNCHANGED <<filter, countVars>>
     \/ UNCHANGED filter /\ Fault
  /\ queue' = queue \ {a}
  /\ UNCHANGED <<live, bare, onHome, shared, dbVars, phase, ctxVars, buildVars,
                 readVars, remote, profilesKnown, toVerify, syncOk, joined>>

Merged ==
  /\ phase = "merge"
  /\ queue = {}
  /\ phase' = "verify"
  /\ UNCHANGED <<plexVars, dbVars, ctxVars, buildVars, readVars, mergeVars,
                 joined, countVars>>

\* What the fresh roster read of the verification shows of an account.
ReadBack(a) == IF a \in shared THEN filter[a] ELSE {}

Kept(a) == Planned(a) \subseteq ReadBack(a)

\* One read-back for every account written.  The jobs raise on a failed
\* merge; a run goes on and promotes nothing.  rows.visibility asks only now
\* whose rows there are to show.
Verify ==
  /\ phase = "verify"
  /\ syncOk' = (syncOk /\ \A a \in toVerify : Kept(a))
  /\ toPromote' = IF kind = "visibility" THEN Enabled ELSE toPromote
  /\ phase' = "promote"
  /\ UNCHANGED <<plexVars, dbVars, ctxVars, todo, hand, storedLabels,
                 alreadyThere, hideEarly, readVars, remote, profilesKnown, queue,
                 toVerify, joined, countVars>>

VerifyFails ==
  /\ phase = "verify"
  /\ toVerify # {}
  /\ Fault
  /\ syncOk' = FALSE
  /\ phase' = "promote"
  /\ UNCHANGED <<plexVars, dbVars, ctxVars, buildVars, readVars, remote,
                 profilesKnown, queue, toVerify, joined>>

-----------------------------------------------------------------------------
(* Promotion.                                                               *)

Promotable_ungated == toPromote
Promotable == IF syncOk THEN toPromote ELSE {}

\* Promotion finds rows through the listing of the merge's own read.
Promote(p) ==
  /\ phase = "promote"
  /\ p \in Promotable
  /\ onHome' = IF p \in listing \cap live THEN onHome \cup {p} ELSE onHome
  /\ toPromote' = toPromote \ {p}
  /\ UNCHANGED <<live, bare, filter, shared, dbVars, phase, ctxVars, todo, hand,
                 storedLabels, alreadyThere, hideEarly, readVars, mergeVars,
                 joined, countVars>>

\* A run goes on to the next person; a job raises and is retried.
PromoteFails(p) ==
  /\ phase = "promote"
  /\ p \in Promotable
  /\ Fault
  /\ toPromote' = IF kind = "run" THEN toPromote \ {p} ELSE {}
  /\ UNCHANGED <<plexVars, dbVars, phase, ctxVars, todo, hand, storedLabels,
                 alreadyThere, hideEarly, readVars, mergeVars, joined>>

\* Last, the rows of paused people come off every surface (converge_phase).
\* Whoever is known has no orphan to delete, and what else converge clears is
\* on the owner's Home, where no filter applies.
Finish(paused) ==
  /\ phase = "promote"
  /\ Promotable = {}
  /\ onHome' = onHome \ paused
  /\ Forget
  /\ UNCHANGED <<live, bare, filter, shared, dbVars, joined, countVars>>

-----------------------------------------------------------------------------
(* Other jobs, the world, and death.                                        *)

\* The other jobs run when no pass holds the lock of the Plex writers.  A run
\* builds its context before it waits for that lock.
LockFree == phase = "idle" \/ (phase = "sweep" /\ kind = "run")

\* user.hide: a paused person's row comes off every surface and stays.
HideRow(p) ==
  /\ LockFree
  /\ p \in onHome
  /\ onHome' = onHome \ {p}
  /\ UNCHANGED <<live, bare, filter, shared, dbVars, phase, ctxVars, buildVars,
                 readVars, mergeVars, joined, countVars>>

\* user.cleanup: a person switched off, or gone, has their row deleted.
RemoveRow(p) ==
  /\ LockFree
  /\ p \in live
  /\ live' = live \ {p}
  /\ onHome' = onHome \ {p}
  /\ UNCHANGED <<bare, filter, shared, dbVars, phase, ctxVars, buildVars, readVars,
                 mergeVars, joined, countVars>>

Change ==
  /\ changes < MaxChanges
  /\ changes' = changes + 1
  /\ UNCHANGED faults

\* A new share starts without any filter, also for somebody who comes back.
Join(a) ==
  /\ a \in Accounts \ (shared \cup {Owner})
  /\ Change
  /\ shared' = shared \cup {a}
  /\ SetFilter(a, {})
  /\ joined' = joined \cup {a}
  /\ UNCHANGED <<live, bare, onHome, dbVars, phase, ctxVars, buildVars, readVars,
                 mergeVars>>

Leave(a) ==
  /\ a \in shared
  /\ Change
  /\ shared' = shared \ {a}
  /\ UNCHANGED <<live, bare, onHome, filter, dbVars, phase, ctxVars, buildVars,
                 readVars, mergeVars, joined>>

\* Whom plex.tv stopped listing.  An empty list is no news, and half of those
\* believed present leaving at once is taken for a partial read.
NewlyGone ==
  LET gone == IF shared = {} THEN {} ELSE People \ (shared \cup departed \cup {Owner})
      present == People \ ((departed \ shared) \cup {Owner})
  IN  IF Cardinality(gone) > 1 /\ 2 * Cardinality(gone) >= Cardinality(present)
        THEN {} ELSE gone

\* user_sync: who is listed again has not left.
UserSync ==
  /\ LockFree
  /\ departed' = (departed \ shared) \cup NewlyGone
  /\ departed' # departed
  /\ UNCHANGED <<plexVars, snapshot, leftAlone, phase, ctxVars, buildVars,
                 readVars, mergeVars, joined, countVars>>

ToggleManaged(a) ==
  /\ a # Owner
  /\ Change
  /\ leftAlone' = IF a \in leftAlone THEN leftAlone \ {a} ELSE leftAlone \cup {a}
  /\ UNCHANGED <<plexVars, snapshot, departed, phase, ctxVars, buildVars,
                 readVars, mergeVars, joined>>

Die ==
  /\ phase # "idle"
  /\ Fault
  /\ Forget
  /\ UNCHANGED <<plexVars, dbVars, joined>>

-----------------------------------------------------------------------------

Build ==
  \/ \E unread, missed \in SUBSET People : Sweep(unread, missed)
  \/ \E gone \in SUBSET People : SweepFails(gone)
  \/ \E p \in People : Deliver(p) \/ DeliverNothing(p) \/ Create(p)
  \/ Label \/ LabelFails \/ Delivered
  \/ HideRoster \/ HideRosterFails \/ Hidden
  \/ \E a \in Accounts : HidePasses(a) \/ HideWrites(a) \/ HideWriteFails(a)

Merge ==
  \/ \E missed \in SUBSET People : Enumerate(missed)
  \/ EnumerateFails \/ Roster \/ RosterFails \/ Merged \/ Verify \/ VerifyFails
  \/ \E a \in Accounts :
        \/ SaveSnapshot(a) \/ MergeSkips(a) \/ MergeWrites(a)
        \/ MergeDeclined(a) \/ MergeFails(a) \/ LeaveSharingAlone(a)

Show ==
  \/ \E p \in People : Promote(p) \/ PromoteFails(p)
  \/ \E paused \in SUBSET onHome : Finish(paused)

BeginPass == \E k \in Kinds, who \in SUBSET People : Begin(k, who)

World ==
  \/ \E p \in People : HideRow(p) \/ RemoveRow(p)
  \/ \E a \in Accounts : Join(a) \/ Leave(a) \/ ToggleManaged(a)
  \/ UserSync

Next == BeginPass \/ Build \/ Merge \/ Show \/ World \/ Die

Spec == Init /\ [][Next]_vars

\* The schedule and the retried jobs (EveryJobSettles of PlexWork) keep
\* starting passes, and a pass that started goes on.
Fairness ==
  /\ WF_vars(Build \/ Merge \/ Show)
  /\ WF_vars(Begin("sync", {}))

FairSpec == Spec /\ Fairness

-----------------------------------------------------------------------------
(* Properties.                                                              *)

\* Rows of other people an account finds on a Home.
Sees(a) == {p \in onHome \ {a} : p \notin filter[a]}

\* Whom this pass may have to show a row: an account that joined since its
\* roster was read, one Plex refuses filters for, one whose profile was
\* unknown, and one whose sharing the owner asked to leave alone.
Excused(a) ==
  \/ a \in joined'
  \/ a \in Profiled
  \/ a \in Restricted /\ ~profilesKnown
  \/ a \in unmanaged
  \/ a \notin shared

\* No step shows an account a row of somebody else that it could not see
\* before: not a promotion after a merge that failed in part, not a prune,
\* not a death between two writes, whatever the pass was told before it
\* waited (plex-safety rule 1, pipeline.py:92).
NeverExposes ==
  [][\A a \in Accounts \ {Owner} : Sees(a)' \subseteq Sees(a) \/ Excused(a)]_vars

\* While a row exists, its exclude leaves no filter but that of its own person,
\* of an account left alone and of one that joins anew: the prune of the
\* departed never takes a live row for a dead one on a label-less read
\* (privacy.py:945).
LiveRowKeepsItsExcludes ==
  [][\A a \in Accounts, p \in People :
       /\ p \in filter[a] /\ p \notin filter'[a]
       /\ p \in live
       => a = p \/ a \in unmanaged \/ a \in shared' \ shared]_vars

\* The filter put back at uninstall is the account's own: a snapshot is
\* taken before the first exclude is ever written, also across deaths and
\* failed writes (privacy.py:993).
SnapshotsPredateWrites ==
  \A a \in Accounts : snapshot[a] \in {NoSnapshot, {}}

\* A row on Home is in the end hidden from every account that is on the
\* share, managed, and open to filters.
HiddenInTheEnd ==
  \A a \in Accounts \ (Profiled \cup {Owner}), p \in People :
    p \in onHome \ {a} /\ a \in shared \ leftAlone
      ~> p \in filter[a] \/ p \notin onHome \/ a \notin shared \ leftAlone

\* The excludes do come out of an account the owner asked to leave alone,
\* also when the pass that should have done it failed or knew no better.
LeftAloneIsHonoured ==
  \A a \in Accounts \ (Profiled \cup {Owner}) :
    a \in shared \cap leftAlone
      ~> filter[a] = {} \/ a \notin shared \cap leftAlone

\* A collection whose label was never written is in the end deleted or
\* labelled, for nothing else could hide it - unless there are several and
\* from some moment on not one row with a label.
BareRowsEnd ==
  <>[]~ReadFailed({}) => \A p \in People : bare[p] > 0 ~> bare[p] = 0
=============================================================================
