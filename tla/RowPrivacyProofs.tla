-------------------------- MODULE RowPrivacyProofs --------------------------
(***************************************************************************)
(* What RowPrivacy promises for any accounts, people, faults and changes.   *)
(***************************************************************************)
EXTENDS RowPrivacy, TLAPS

-----------------------------------------------------------------------------
(* Types. *)

\* The collection in hand exists and has no label yet.
InHand == phase = "label" => hand \in People /\ bare[hand] > 0

\* What a pass plans to write is a set of people.
LEMMA PlannedType ==
  ASSUME TypeOK, NEW a \in Accounts
  PROVE  Planned(a) \subseteq People
  BY DEF TypeOK, Planned, Wanted

\* Writing a filter keeps every filter a set of people.
LEMMA SetFilterType ==
  ASSUME TypeOK, NEW a \in Accounts, NEW labels \in SUBSET People,
         SetFilter(a, labels)
  PROVE  filter' \in [Accounts -> SUBSET People]
  BY DEF TypeOK, SetFilter

\* What a pass forgets is well formed.
LEMMA ForgetType ==
  ASSUME TypeOK, Forget
  PROVE  /\ phase' = "idle"
         /\ kind' \in Kinds
         /\ unmanaged' \subseteq Accounts /\ departedSlugs' \subseteq People
         /\ todo' \subseteq People /\ hand' \in People \cup {Nobody}
         /\ storedLabels' \subseteq People /\ alreadyThere' \subseteq People
         /\ hideEarly' \in BOOLEAN /\ toPromote' \subseteq People
         /\ remote' \in [Accounts -> SUBSET People]
         /\ profilesKnown' \in BOOLEAN
         /\ queue' \subseteq Accounts /\ toVerify' \subseteq Accounts
         /\ known' \in BOOLEAN
         /\ listing' \subseteq People /\ marked' \subseteq People
         /\ syncOk' \in BOOLEAN
  BY DEF Forget, Kinds

\* A fault and a change stay within their bounds.
LEMMA CountType ==
  ASSUME TypeOK
  PROVE  /\ Fault => faults' \in 0..MaxFaults /\ changes' \in 0..MaxChanges
         /\ Change => faults' \in 0..MaxFaults /\ changes' \in 0..MaxChanges
         /\ UNCHANGED countVars =>
              faults' \in 0..MaxFaults /\ changes' \in 0..MaxChanges
  BY RowPrivacyAssumption DEF TypeOK, Fault, Change, countVars

\* The sweep and the deliveries keep the state well formed.
LEMMA BuildType ==
  ASSUME TypeOK, InHand, Build
  PROVE  TypeOK' /\ InHand'
<1>. USE DEF plexVars, dbVars, ctxVars, readVars, mergeVars, Phases
<1>1. ASSUME NEW unread \in SUBSET People, NEW missed \in SUBSET People,
             Sweep(unread, missed)
      PROVE  TypeOK' /\ InHand'
  <2>1. bare' \in [People -> Nat]
    BY <1>1 DEF Sweep, TypeOK
  <2>. QED BY <1>1, <2>1, CountType DEF Sweep, TypeOK, InHand
<1>2. ASSUME NEW gone \in SUBSET People, SweepFails(gone)
      PROVE  TypeOK' /\ InHand'
  <2>1. bare' \in [People -> Nat]
    BY <1>2 DEF SweepFails, TypeOK
  <2>. QED BY <1>2, <2>1, CountType, ForgetType DEF SweepFails, TypeOK, InHand
<1>3. ASSUME NEW p \in People, Deliver(p) PROVE TypeOK' /\ InHand'
  BY <1>3, CountType DEF Deliver, LabelStored, TypeOK, InHand
<1>4. ASSUME NEW p \in People, DeliverNothing(p) PROVE TypeOK' /\ InHand'
  BY <1>4, CountType DEF DeliverNothing, TypeOK, InHand
<1>5. ASSUME NEW p \in People, Create(p) PROVE TypeOK' /\ InHand'
  <2>1. bare' \in [People -> Nat] /\ bare'[p] > 0
    BY <1>5 DEF Create, TypeOK
  <2>. QED BY <1>5, <2>1, CountType DEF Create, TypeOK, InHand
<1>6. CASE Label
  <2>1. hand \in People /\ bare' \in [People -> Nat]
    BY <1>6 DEF Label, TypeOK, InHand
  <2>. QED BY <1>6, <2>1, CountType DEF Label, LabelStored, TypeOK, InHand
<1>7. CASE LabelFails
  <2>1. hand \in People /\ bare' \in [People -> Nat]
    BY <1>7 DEF LabelFails, TypeOK, InHand
  <2>. QED BY <1>7, <2>1, CountType DEF LabelFails, TypeOK, InHand
<1>8. CASE Delivered
  BY <1>8, CountType DEF Delivered, buildVars, TypeOK, InHand
<1>9. CASE HideRoster
  BY <1>9, CountType DEF HideRoster, buildVars, TypeOK, InHand
<1>10. CASE HideRosterFails
  BY <1>10, CountType DEF HideRosterFails, TypeOK, InHand
<1>11. CASE Hidden
  BY <1>11, CountType DEF Hidden, buildVars, TypeOK, InHand
<1>12. ASSUME NEW a \in Accounts, HidePasses(a) PROVE TypeOK' /\ InHand'
  BY <1>12, CountType DEF HidePasses, buildVars, TypeOK, InHand
<1>13. ASSUME NEW a \in Accounts, HideWrites(a) PROVE TypeOK' /\ InHand'
  BY <1>13, CountType, PlannedType, SetFilterType
     DEF HideWrites, buildVars, TypeOK, InHand
<1>14. ASSUME NEW a \in Accounts, HideWriteFails(a) PROVE TypeOK' /\ InHand'
  BY <1>14, CountType, PlannedType, SetFilterType
     DEF HideWriteFails, TypeOK, InHand
<1>. QED
  BY <1>1, <1>2, <1>3, <1>4, <1>5, <1>6, <1>7, <1>8, <1>9, <1>10, <1>11,
     <1>12, <1>13, <1>14 DEF Build

\* The merge keeps the state well formed.
LEMMA MergeType ==
  ASSUME TypeOK, InHand, Merge
  PROVE  TypeOK' /\ InHand'
<1>. USE DEF plexVars, dbVars, ctxVars, buildVars, readVars, mergeVars, Phases
<1>1. ASSUME NEW missed \in SUBSET People, Enumerate(missed)
      PROVE  TypeOK' /\ InHand'
  BY <1>1, CountType DEF Enumerate, TypeOK, InHand
<1>2. CASE EnumerateFails
  BY <1>2, CountType DEF EnumerateFails, TypeOK, InHand
<1>3. CASE Roster
  BY <1>3, CountType DEF Roster, TypeOK, InHand
<1>4. CASE RosterFails
  BY <1>4, CountType, ForgetType DEF RosterFails, TypeOK, InHand
<1>5. CASE Merged
  BY <1>5, CountType DEF Merged, TypeOK, InHand
<1>6. CASE Verify
  BY <1>6, CountType DEF Verify, Enabled, TypeOK, InHand
<1>7. CASE VerifyFails
  BY <1>7, CountType DEF VerifyFails, TypeOK, InHand
<1>8. ASSUME NEW a \in Accounts, SaveSnapshot(a) PROVE TypeOK' /\ InHand'
  <2>1. snapshot' \in [Accounts -> (SUBSET People) \cup {NoSnapshot}]
    BY <1>8 DEF SaveSnapshot, TypeOK
  <2>. QED BY <1>8, <2>1, CountType DEF SaveSnapshot, TypeOK, InHand
<1>9. ASSUME NEW a \in Accounts, MergeSkips(a) PROVE TypeOK' /\ InHand'
  BY <1>9, CountType DEF MergeSkips, TypeOK, InHand
<1>10. ASSUME NEW a \in Accounts, MergeWrites(a) PROVE TypeOK' /\ InHand'
  BY <1>10, CountType, PlannedType, SetFilterType
     DEF MergeWrites, ReadyToWrite, TypeOK, InHand
<1>11. ASSUME NEW a \in Accounts, MergeDeclined(a) PROVE TypeOK' /\ InHand'
  BY <1>11, CountType DEF MergeDeclined, TypeOK, InHand
<1>12. ASSUME NEW a \in Accounts, MergeFails(a) PROVE TypeOK' /\ InHand'
  BY <1>12, CountType, PlannedType, SetFilterType
     DEF MergeFails, ReadyToWrite, TypeOK, InHand
<1>13. ASSUME NEW a \in Accounts, LeaveSharingAlone(a) PROVE TypeOK' /\ InHand'
  BY <1>13, CountType, SetFilterType DEF LeaveSharingAlone, TypeOK, InHand
<1>. QED
  BY <1>1, <1>2, <1>3, <1>4, <1>5, <1>6, <1>7, <1>8, <1>9, <1>10, <1>11,
     <1>12, <1>13 DEF Merge

\* Promotion, the other jobs, the world and death keep the state well formed.
LEMMA OtherType ==
  ASSUME TypeOK, InHand, BeginPass \/ Show \/ World \/ Die
  PROVE  TypeOK' /\ InHand'
<1>. USE DEF plexVars, dbVars, ctxVars, buildVars, readVars, mergeVars, Phases
<1>1. ASSUME NEW k \in Kinds, NEW who \in SUBSET People, Begin(k, who)
      PROVE  TypeOK' /\ InHand'
  BY <1>1, CountType DEF Begin, TypeOK, InHand
<1>2. ASSUME NEW paused \in SUBSET onHome, Finish(paused) PROVE TypeOK' /\ InHand'
  BY <1>2, CountType, ForgetType DEF Finish, TypeOK, InHand
<1>3. ASSUME NEW p \in People, Promote(p) PROVE TypeOK' /\ InHand'
  BY <1>3, CountType DEF Promote, TypeOK, InHand
<1>4. ASSUME NEW p \in People, PromoteFails(p) PROVE TypeOK' /\ InHand'
  BY <1>4, CountType DEF PromoteFails, TypeOK, InHand
<1>5. ASSUME NEW p \in People, HideRow(p) PROVE TypeOK' /\ InHand'
  BY <1>5, CountType DEF HideRow, TypeOK, InHand
<1>6. ASSUME NEW p \in People, RemoveRow(p) PROVE TypeOK' /\ InHand'
  BY <1>6, CountType DEF RemoveRow, TypeOK, InHand
<1>7. ASSUME NEW a \in Accounts, Join(a) PROVE TypeOK' /\ InHand'
  BY <1>7, CountType, SetFilterType DEF Join, TypeOK, InHand
<1>8. ASSUME NEW a \in Accounts, Leave(a) PROVE TypeOK' /\ InHand'
  BY <1>8, CountType DEF Leave, TypeOK, InHand
<1>9. ASSUME NEW a \in Accounts, ToggleManaged(a) PROVE TypeOK' /\ InHand'
  BY <1>9, CountType DEF ToggleManaged, TypeOK, InHand
<1>10. CASE UserSync
  <2>1. NewlyGone \subseteq People
    BY DEF NewlyGone
  <2>. QED BY <1>10, <2>1, CountType DEF UserSync, TypeOK, InHand
<1>11. CASE Die
  BY <1>11, CountType, ForgetType DEF Die, TypeOK, InHand
<1>. QED
  BY <1>1, <1>2, <1>3, <1>4, <1>5, <1>6, <1>7, <1>8, <1>9, <1>10, <1>11
     DEF BeginPass, Show, World

\* The server as Shortlist first finds it is well formed.
LEMMA TypeInit == Init => TypeOK /\ InHand
<1>. SUFFICES ASSUME Init PROVE TypeOK /\ InHand
  OBVIOUS
<1>1. /\ bare \in [People -> Nat]
      /\ filter \in [Accounts -> SUBSET People]
      /\ remote \in [Accounts -> SUBSET People]
  BY DEF Init
<1>2. snapshot \in [Accounts -> (SUBSET People) \cup {NoSnapshot}]
  BY DEF Init
<1>3. faults \in 0..MaxFaults /\ changes \in 0..MaxChanges
  BY RowPrivacyAssumption DEF Init
<1>4. shared \subseteq Accounts \ {Owner}
  BY DEF Init
<1>. QED BY <1>1, <1>2, <1>3, <1>4 DEF Init, TypeOK, InHand, Phases, Kinds

\* Every step keeps the state well formed.
LEMMA TypeStep == TypeOK /\ InHand /\ [Next]_vars => TypeOK' /\ InHand'
<1>1. ASSUME TypeOK, InHand, UNCHANGED vars PROVE TypeOK' /\ InHand'
  BY <1>1 DEF vars, plexVars, dbVars, ctxVars, buildVars, readVars, mergeVars,
              countVars, TypeOK, InHand
<1>. QED BY <1>1, BuildType, MergeType, OtherType DEF Next

\* Every pass, fault and change keeps the state well formed (TypeOK).
THEOREM TypeCorrect == Spec => [](TypeOK /\ InHand)
  BY TypeInit, TypeStep, PTL DEF Spec

-----------------------------------------------------------------------------
(* Snapshots. *)

\* An account without a snapshot has no exclude of ours, and the pass read none.
SnapInv ==
  \A a \in Accounts :
    /\ snapshot[a] \in {NoSnapshot, {}}
    /\ snapshot[a] = NoSnapshot => filter[a] = {} /\ remote[a] = {}

\* No step writes an exclude to an account without a snapshot.
LEMMA SnapStep == TypeOK /\ InHand /\ SnapInv /\ [Next]_vars => SnapInv'
<1>. SUFFICES ASSUME TypeOK, InHand, SnapInv, [Next]_vars PROVE SnapInv'
  OBVIOUS
<1>. USE DEF plexVars, dbVars, ctxVars, buildVars, readVars, mergeVars
<1>1. ASSUME UNCHANGED snapshot, UNCHANGED filter,
             \/ UNCHANGED remote
             \/ remote' = filter
             \/ remote' = [a \in Accounts |-> {}]
      PROVE  SnapInv'
  BY <1>1 DEF SnapInv, TypeOK
<1>2. ASSUME NEW a \in Accounts, NEW labels, UNCHANGED <<snapshot, remote>>,
             SetFilter(a, labels), labels = {} \/ snapshot[a] # NoSnapshot
      PROVE  SnapInv'
  BY <1>2 DEF SetFilter, SnapInv, TypeOK
<1>3. ASSUME NEW a \in Accounts, SaveSnapshot(a) PROVE SnapInv'
  <2>1. \A b \in Accounts : snapshot'[b] = IF b = a THEN remote[a] ELSE snapshot[b]
    BY <1>3 DEF SaveSnapshot, TypeOK
  <2>2. UNCHANGED <<filter, remote>> /\ snapshot[a] = NoSnapshot
    BY <1>3 DEF SaveSnapshot
  <2>3. NoSnapshot # {}
    BY DEF NoSnapshot
  <2>. QED BY <2>1, <2>2, <2>3 DEF SnapInv
<1>4. CASE Build
  <2>1. ASSUME NEW unread \in SUBSET People, NEW missed \in SUBSET People,
               Sweep(unread, missed)
        PROVE  SnapInv'
    BY <2>1, <1>1 DEF Sweep
  <2>2. ASSUME NEW gone \in SUBSET People, SweepFails(gone) PROVE SnapInv'
    BY <2>2, <1>1 DEF SweepFails, Forget
  <2>3. ASSUME NEW p \in People, Deliver(p) \/ DeliverNothing(p) \/ Create(p)
        PROVE  SnapInv'
    BY <2>3, <1>1 DEF Deliver, DeliverNothing, Create
  <2>4. CASE Label \/ LabelFails \/ Delivered \/ Hidden
    BY <2>4, <1>1 DEF Label, LabelFails, Delivered, Hidden
  <2>5. CASE HideRoster \/ HideRosterFails
    BY <2>5, <1>1 DEF HideRoster, HideRosterFails
  <2>6. ASSUME NEW a \in Accounts, HidePasses(a) PROVE SnapInv'
    BY <2>6, <1>1 DEF HidePasses
  <2>7. ASSUME NEW a \in Accounts, HideWrites(a) PROVE SnapInv'
    BY <2>7, <1>2 DEF HideWrites, ReadyToWrite
  <2>8. ASSUME NEW a \in Accounts, HideWriteFails(a) PROVE SnapInv'
    BY <2>8, <1>1, <1>2 DEF HideWriteFails, ReadyToWrite
  <2>. QED BY <1>4, <2>1, <2>2, <2>3, <2>4, <2>5, <2>6, <2>7, <2>8 DEF Build
<1>5. CASE Merge
  <2>1. ASSUME NEW missed \in SUBSET People, Enumerate(missed) PROVE SnapInv'
    BY <2>1, <1>1 DEF Enumerate
  <2>2. CASE EnumerateFails \/ Roster
    BY <2>2, <1>1 DEF EnumerateFails, Roster
  <2>3. CASE RosterFails
    BY <2>3, <1>1 DEF RosterFails, Forget
  <2>4. CASE Merged \/ Verify \/ VerifyFails
    BY <2>4, <1>1 DEF Merged, Verify, VerifyFails
  <2>5. ASSUME NEW a \in Accounts, MergeSkips(a) \/ MergeDeclined(a)
        PROVE  SnapInv'
    BY <2>5, <1>1 DEF MergeSkips, MergeDeclined
  <2>6. ASSUME NEW a \in Accounts, MergeWrites(a) PROVE SnapInv'
    BY <2>6, <1>1, <1>2 DEF MergeWrites, ReadyToWrite
  <2>7. ASSUME NEW a \in Accounts, MergeFails(a) PROVE SnapInv'
    BY <2>7, <1>1, <1>2 DEF MergeFails, ReadyToWrite
  <2>8. ASSUME NEW a \in Accounts, LeaveSharingAlone(a) PROVE SnapInv'
    BY <2>8, <1>1, <1>2 DEF LeaveSharingAlone
  <2>. QED
    BY <1>5, <1>3, <2>1, <2>2, <2>3, <2>4, <2>5, <2>6, <2>7, <2>8 DEF Merge
<1>6. CASE BeginPass \/ Show \/ Die
  <2>1. ASSUME NEW k \in Kinds, NEW who \in SUBSET People, Begin(k, who)
        PROVE  SnapInv'
    BY <2>1, <1>1 DEF Begin
  <2>2. ASSUME NEW p \in People, Promote(p) \/ PromoteFails(p) PROVE SnapInv'
    BY <2>2, <1>1 DEF Promote, PromoteFails
  <2>3. ASSUME NEW paused \in SUBSET onHome, Finish(paused) PROVE SnapInv'
    BY <2>3, <1>1 DEF Finish, Forget
  <2>4. CASE Die
    BY <2>4, <1>1 DEF Die, Forget
  <2>. QED BY <1>6, <2>1, <2>2, <2>3, <2>4 DEF BeginPass, Show
<1>7. CASE World
  <2>1. ASSUME NEW p \in People, HideRow(p) \/ RemoveRow(p) PROVE SnapInv'
    BY <2>1, <1>1 DEF HideRow, RemoveRow
  <2>2. ASSUME NEW a \in Accounts, Join(a) PROVE SnapInv'
    BY <2>2, <1>2 DEF Join
  <2>3. ASSUME NEW a \in Accounts, Leave(a) \/ ToggleManaged(a) PROVE SnapInv'
    BY <2>3, <1>1 DEF Leave, ToggleManaged
  <2>4. CASE UserSync
    BY <2>4, <1>1 DEF UserSync
  <2>. QED BY <1>7, <2>1, <2>2, <2>3, <2>4 DEF World
<1>8. CASE UNCHANGED vars
  BY <1>8, <1>1 DEF vars
<1>. QED BY <1>4, <1>5, <1>6, <1>7, <1>8 DEF Next

\* There is no exclude of ours before the first pass.
LEMMA SnapInit == Init => SnapInv
  BY DEF Init, SnapInv

\* An account's filter is stored before the first exclude of ours is written
\* to it, whatever pass died or failed when (SnapshotsPredateWrites).
THEOREM SnapshotsCorrect == Spec => []SnapshotsPredateWrites
<1>1. SnapInv => SnapshotsPredateWrites
  BY DEF SnapInv, SnapshotsPredateWrites
<1>. QED BY <1>1, SnapInit, SnapStep, TypeCorrect, PTL DEF Spec

-----------------------------------------------------------------------------
(* What a pass has read and written. *)

\* What the pass read of the collections on the server.
ListingInv ==
  /\ onHome \subseteq live
  /\ phase \in {"idle", "sweep", "deliver", "label", "hideRoster", "hide", "enumerate"}
       => ~known
  /\ phase \in {"idle", "sweep"} => listing = {}
  /\ listing \subseteq storedLabels
  /\ known => live \subseteq marked

\* What it read of the filters: of an account it has yet to write, all of the
\* filter, and in the merge exactly the filter unless the account joined since.
RosterInv ==
  /\ phase \in {"hide", "merge"} => \A a \in queue : filter[a] \subseteq remote[a]
  /\ phase = "merge" => \A a \in queue \ joined : filter[a] = remote[a]
  /\ phase \in {"verify", "promote"} => queue = {}

\* The accounts a pass must not show a row.
Careful == {a \in shared \ (joined \cup Profiled \cup unmanaged \cup {Owner}) :
              a \in Restricted => profilesKnown}

\* As long as nothing failed, such an account waits for the merge or for the
\* read-back, or its filter hides every row the pass may promote.
CoverInv ==
  phase \in {"merge", "verify", "promote"} /\ syncOk =>
    \A a \in Careful :
      \/ a \in queue
      \/ phase # "promote" /\ a \in toVerify
      \/ listing \ {a} \subseteq filter[a]

PassInv == ListingInv /\ RosterInv /\ CoverInv

\* A pass plans to hide every row it found from everybody but its owner.
LEMMA ListingPlanned ==
  ASSUME NEW a \in Accounts, listing \subseteq storedLabels
  PROVE  listing \ {a} \subseteq Planned(a)
  BY DEF Planned, Wanted, DeadPrivate, ExcludedFromSelf

\* A merge takes the exclude of a row that exists out of no filter but that of
\* the person it belongs to: a pass that would prune knows the row is there.
LEMMA WriteKeeps ==
  ASSUME TypeOK, PassInv, NEW a \in queue, phase \in {"hide", "merge"},
         NEW p \in live, p \in filter[a], p \notin Planned(a)
  PROVE  p = a
<1>1. p \in remote[a]
  BY DEF PassInv, RosterInv
<1>2. p \notin DeadPrivate(a)
  BY DEF DeadPrivate, PassInv, ListingInv
<1>. QED BY <1>1, <1>2 DEF Planned, ExcludedFromSelf

\* What is read of the collections stays true of them until the pass ends.
LEMMA ListingStep == TypeOK /\ InHand /\ ListingInv /\ [Next]_vars => ListingInv'
<1>. SUFFICES ASSUME TypeOK, InHand, ListingInv, [Next]_vars PROVE ListingInv'
  OBVIOUS
<1>. USE DEF plexVars, dbVars, ctxVars, buildVars, readVars, mergeVars, ListingInv
<1>1. CASE Build
  <2>1. ASSUME NEW unread \in SUBSET People, NEW missed \in SUBSET People,
               Sweep(unread, missed)
        PROVE  ListingInv'
    BY <2>1 DEF Sweep
  <2>2. ASSUME NEW gone \in SUBSET People, SweepFails(gone) PROVE ListingInv'
    BY <2>2 DEF SweepFails, Forget
  <2>3. ASSUME NEW p \in People, Deliver(p) PROVE ListingInv'
    BY <2>3 DEF Deliver, LabelStored
  <2>4. ASSUME NEW p \in People, DeliverNothing(p) \/ Create(p) PROVE ListingInv'
    BY <2>4 DEF DeliverNothing, Create
  <2>5. CASE Label
    BY <2>5 DEF Label, LabelStored
  <2>6. CASE LabelFails \/ Delivered \/ HideRoster \/ HideRosterFails \/ Hidden
    BY <2>6 DEF LabelFails, Delivered, HideRoster, HideRosterFails, Hidden
  <2>7. ASSUME NEW a \in Accounts, HidePasses(a) \/ HideWrites(a)
        PROVE  ListingInv'
    BY <2>7 DEF HidePasses, HideWrites
  <2>8. ASSUME NEW a \in Accounts, HideWriteFails(a) PROVE ListingInv'
    BY <2>8 DEF HideWriteFails
  <2>. QED BY <1>1, <2>1, <2>2, <2>3, <2>4, <2>5, <2>6, <2>7, <2>8 DEF Build
<1>2. CASE Merge
  <2>1. ASSUME NEW missed \in SUBSET People, Enumerate(missed) PROVE ListingInv'
    BY <2>1 DEF Enumerate
  <2>2. CASE EnumerateFails \/ Roster \/ Merged \/ Verify \/ VerifyFails
    BY <2>2 DEF EnumerateFails, Roster, Merged, Verify, VerifyFails
  <2>3. CASE RosterFails
    BY <2>3 DEF RosterFails, Forget
  <2>4. ASSUME NEW a \in Accounts, SaveSnapshot(a) PROVE ListingInv'
    BY <2>4 DEF SaveSnapshot
  <2>5. ASSUME NEW a \in Accounts,
               \/ MergeSkips(a) \/ MergeWrites(a) \/ MergeDeclined(a)
               \/ MergeFails(a) \/ LeaveSharingAlone(a)
        PROVE  ListingInv'
    BY <2>5 DEF MergeSkips, MergeWrites, MergeDeclined, MergeFails,
                LeaveSharingAlone
  <2>. QED BY <1>2, <2>1, <2>2, <2>3, <2>4, <2>5 DEF Merge
<1>3. CASE BeginPass \/ Show \/ Die
  <2>1. ASSUME NEW k \in Kinds, NEW who \in SUBSET People, Begin(k, who)
        PROVE  ListingInv'
    BY <2>1 DEF Begin
  <2>2. ASSUME NEW p \in People, Promote(p) PROVE ListingInv'
    BY <2>2 DEF Promote
  <2>3. ASSUME NEW p \in People, PromoteFails(p) PROVE ListingInv'
    BY <2>3 DEF PromoteFails
  <2>4. ASSUME NEW paused \in SUBSET onHome, Finish(paused) PROVE ListingInv'
    BY <2>4 DEF Finish, Forget
  <2>5. CASE Die
    BY <2>5 DEF Die, Forget
  <2>. QED BY <1>3, <2>1, <2>2, <2>3, <2>4, <2>5 DEF BeginPass, Show
<1>4. CASE World
  <2>1. ASSUME NEW p \in People, HideRow(p) \/ RemoveRow(p) PROVE ListingInv'
    BY <2>1 DEF HideRow, RemoveRow
  <2>2. ASSUME NEW a \in Accounts, Join(a) \/ Leave(a) \/ ToggleManaged(a)
        PROVE  ListingInv'
    BY <2>2 DEF Join, Leave, ToggleManaged
  <2>3. CASE UserSync
    BY <2>3 DEF UserSync
  <2>. QED BY <1>4, <2>1, <2>2, <2>3 DEF World
<1>5. CASE UNCHANGED vars
  BY <1>5 DEF vars
<1>. QED BY <1>1, <1>2, <1>3, <1>4, <1>5 DEF Next

\* An account is written once per merge, and nobody else touches its filter
\* but by putting the account on the share anew.
LEMMA RosterStep == TypeOK /\ RosterInv /\ [Next]_vars => RosterInv'
<1>. SUFFICES ASSUME TypeOK, RosterInv, [Next]_vars PROVE RosterInv'
  OBVIOUS
<1>. USE DEF plexVars, dbVars, ctxVars, buildVars, readVars, mergeVars
\* A step that leaves the filters alone and reads none.
<1>1. ASSUME UNCHANGED <<filter, remote, joined>>, queue' \subseteq queue,
             phase' \in {"hide", "merge"} => phase' = phase,
             phase' \in {"verify", "promote"} => queue' = {}
      PROVE  RosterInv'
  BY <1>1 DEF RosterInv, TypeOK
\* A step that writes the filter of the account it is done with.
<1>2. ASSUME NEW a \in Accounts, NEW labels, SetFilter(a, labels),
             UNCHANGED <<remote, joined>>, queue' \subseteq queue \ {a},
             phase' = phase, phase \in {"hide", "merge"}
      PROVE  RosterInv'
  <2>1. \A b \in queue' : b \in queue /\ filter'[b] = filter[b]
    BY <1>2 DEF SetFilter, TypeOK
  <2>. QED BY <1>2, <2>1 DEF RosterInv
\* A step that ends the pass.
<1>3. ASSUME Forget PROVE RosterInv'
  BY <1>3 DEF Forget, RosterInv
<1>4. CASE Build
  <2>1. ASSUME NEW unread \in SUBSET People, NEW missed \in SUBSET People,
               Sweep(unread, missed)
        PROVE  RosterInv'
    BY <2>1, <1>1 DEF Sweep
  <2>2. ASSUME NEW gone \in SUBSET People, SweepFails(gone) PROVE RosterInv'
    BY <2>2, <1>3 DEF SweepFails
  <2>3. ASSUME NEW p \in People, Deliver(p) \/ DeliverNothing(p) \/ Create(p)
        PROVE  RosterInv'
    BY <2>3, <1>1 DEF Deliver, DeliverNothing, Create, LabelStored
  <2>4. CASE Label \/ LabelFails \/ Delivered \/ Hidden \/ HideRosterFails
    BY <2>4, <1>1 DEF Label, LabelFails, Delivered, Hidden, HideRosterFails,
                      LabelStored
  <2>5. CASE HideRoster
    BY <2>5 DEF HideRoster, RosterInv
  <2>6. ASSUME NEW a \in Accounts, HidePasses(a) PROVE RosterInv'
    BY <2>6, <1>1 DEF HidePasses
  <2>7. ASSUME NEW a \in Accounts, HideWrites(a) PROVE RosterInv'
    BY <2>7, <1>2 DEF HideWrites
  <2>8. ASSUME NEW a \in Accounts, HideWriteFails(a) PROVE RosterInv'
    BY <2>8, <1>1, <1>2 DEF HideWriteFails
  <2>. QED BY <1>4, <2>1, <2>2, <2>3, <2>4, <2>5, <2>6, <2>7, <2>8 DEF Build
<1>5. CASE Merge
  <2>1. ASSUME NEW missed \in SUBSET People, Enumerate(missed) PROVE RosterInv'
    BY <2>1, <1>1 DEF Enumerate
  <2>2. CASE EnumerateFails \/ Merged
    BY <2>2, <1>1 DEF EnumerateFails, Merged
  <2>3. CASE Verify \/ VerifyFails
    BY <2>3, <1>1 DEF Verify, VerifyFails, RosterInv
  <2>4. CASE Roster
    BY <2>4 DEF Roster, RosterInv
  <2>5. CASE RosterFails
    BY <2>5, <1>3 DEF RosterFails
  <2>6. ASSUME NEW a \in Accounts,
               SaveSnapshot(a) \/ MergeSkips(a) \/ MergeDeclined(a)
        PROVE  RosterInv'
    BY <2>6, <1>1 DEF SaveSnapshot, MergeSkips, MergeDeclined
  <2>7. ASSUME NEW a \in Accounts, MergeWrites(a) PROVE RosterInv'
    BY <2>7, <1>1, <1>2 DEF MergeWrites
  <2>8. ASSUME NEW a \in Accounts, MergeFails(a) PROVE RosterInv'
    BY <2>8, <1>1, <1>2 DEF MergeFails
  <2>9. ASSUME NEW a \in Accounts, LeaveSharingAlone(a) PROVE RosterInv'
    BY <2>9, <1>1, <1>2 DEF LeaveSharingAlone
  <2>. QED
    BY <1>5, <2>1, <2>2, <2>3, <2>4, <2>5, <2>6, <2>7, <2>8, <2>9 DEF Merge
<1>6. CASE BeginPass \/ Show \/ Die
  <2>1. ASSUME NEW k \in Kinds, NEW who \in SUBSET People, Begin(k, who)
        PROVE  RosterInv'
    BY <2>1, <1>1 DEF Begin
  <2>2. ASSUME NEW p \in People, Promote(p) \/ PromoteFails(p) PROVE RosterInv'
    BY <2>2, <1>1 DEF Promote, PromoteFails, RosterInv
  <2>3. ASSUME NEW paused \in SUBSET onHome, Finish(paused) PROVE RosterInv'
    BY <2>3, <1>3 DEF Finish
  <2>4. CASE Die
    BY <2>4, <1>3 DEF Die
  <2>. QED BY <1>6, <2>1, <2>2, <2>3, <2>4 DEF BeginPass, Show
<1>7. CASE World
  <2>1. ASSUME NEW p \in People, HideRow(p) \/ RemoveRow(p) PROVE RosterInv'
    BY <2>1, <1>1 DEF HideRow, RemoveRow, RosterInv
  <2>2. ASSUME NEW a \in Accounts, Join(a) PROVE RosterInv'
    <3>1. \A b \in Accounts : filter'[b] = IF b = a THEN {} ELSE filter[b]
      BY <2>2 DEF Join, SetFilter, TypeOK
    <3>. QED BY <2>2, <3>1 DEF Join, RosterInv, TypeOK
  <2>3. ASSUME NEW a \in Accounts, Leave(a) \/ ToggleManaged(a) PROVE RosterInv'
    BY <2>3, <1>1 DEF Leave, ToggleManaged, RosterInv
  <2>4. CASE UserSync
    BY <2>4, <1>1 DEF UserSync, RosterInv
  <2>. QED BY <1>7, <2>1, <2>2, <2>3, <2>4 DEF World
<1>8. CASE UNCHANGED vars
  BY <1>8, <1>1 DEF vars, RosterInv
<1>. QED BY <1>4, <1>5, <1>6, <1>7, <1>8 DEF Next

\* An account leaves the merge only hidden from, waiting for its read-back,
\* or with the pass marked as failed.
LEMMA CoverStep == TypeOK /\ PassInv /\ [Next]_vars => CoverInv'
<1>. SUFFICES ASSUME TypeOK, PassInv, [Next]_vars PROVE CoverInv'
  OBVIOUS
<1>. USE DEF plexVars, dbVars, ctxVars, buildVars, readVars, mergeVars
<1>. DEFINE Late == phase \in {"merge", "verify", "promote"}
\* A step that ends the pass or is taken before the merge.
<1>1. ASSUME ~Late' PROVE CoverInv'
  BY <1>1 DEF CoverInv
\* A step that ends no obligation.
<1>2. ASSUME Late, UNCHANGED <<phase, syncOk, shared, joined, unmanaged,
                                profilesKnown, queue, toVerify, listing, filter>>
      PROVE  CoverInv'
  BY <1>2 DEF PassInv, CoverInv, Careful
\* A step of the merge that is done with one account.
<1>3. ASSUME NEW a \in Accounts, phase = "merge", queue' = queue \ {a},
             UNCHANGED <<phase, shared, joined, unmanaged, profilesKnown, listing>>,
             toVerify \subseteq toVerify', syncOk' => syncOk,
             \A b \in Accounts \ {a} : filter'[b] = filter[b],
             \/ ~syncOk'
             \/ a \notin Careful
             \/ a \in toVerify'
             \/ listing \ {a} \subseteq filter'[a]
      PROVE  CoverInv'
  BY <1>3 DEF PassInv, CoverInv, Careful, TypeOK
<1>4. CASE Build
  BY <1>4, <1>1 DEF Build, Sweep, SweepFails, Forget, Deliver, LabelStored,
     DeliverNothing, Create, Label, LabelFails, Delivered, HideRoster,
     HideRosterFails, HidePasses, HideWrites, HideWriteFails, Hidden
<1>5. CASE Merge
  <2>1. ASSUME NEW missed \in SUBSET People, Enumerate(missed) PROVE CoverInv'
    BY <2>1, <1>1 DEF Enumerate
  <2>2. CASE EnumerateFails \/ RosterFails
    BY <2>2, <1>1 DEF EnumerateFails, RosterFails, Forget
  <2>3. CASE Roster
    BY <2>3 DEF Roster, CoverInv, Careful
  <2>4. CASE Merged
    BY <2>4 DEF Merged, PassInv, CoverInv, Careful
  <2>5. CASE Verify
    <3>1. ASSUME NEW a \in Careful, a \in toVerify, Kept(a)
          PROVE  listing \ {a} \subseteq filter[a]
      BY <3>1, ListingPlanned
         DEF Careful, Kept, ReadBack, TypeOK, PassInv, ListingInv
    <3>2. queue = {}
      BY <2>5 DEF Verify, PassInv, RosterInv
    <3>. QED BY <2>5, <3>1, <3>2 DEF Verify, PassInv, CoverInv, Careful
  <2>6. CASE VerifyFails
    BY <2>6 DEF VerifyFails, CoverInv
  <2>7. ASSUME NEW a \in Accounts, SaveSnapshot(a) PROVE CoverInv'
    BY <2>7, <1>1, <1>2 DEF SaveSnapshot
  <2>8. ASSUME NEW a \in Accounts, MergeSkips(a) PROVE CoverInv'
    <3>1. a \in Careful => filter[a] = remote[a] /\ Planned(a) = remote[a]
      BY <2>8 DEF MergeSkips, Writes, Skipped, Careful, PassInv, RosterInv
    <3>2. a \in Careful => listing \ {a} \subseteq filter[a]
      BY <3>1, ListingPlanned DEF PassInv, ListingInv
    <3>. QED BY <2>8, <3>2, <1>3 DEF MergeSkips
  <2>9. ASSUME NEW a \in Accounts, MergeWrites(a) PROVE CoverInv'
    <3>1. \A b \in Accounts \ {a} : filter'[b] = filter[b]
      BY <2>9 DEF MergeWrites, SetFilter, TypeOK
    <3>. QED BY <2>9, <3>1, <1>3 DEF MergeWrites
  <2>10. ASSUME NEW a \in Accounts, MergeDeclined(a) PROVE CoverInv'
    <3>1. syncOk' => a \notin Careful
      BY <2>10 DEF MergeDeclined, Careful
    <3>. QED BY <2>10, <3>1, <1>3 DEF MergeDeclined
  <2>11. ASSUME NEW a \in Accounts, MergeFails(a) PROVE CoverInv'
    BY <2>11 DEF MergeFails, CoverInv
  <2>12. ASSUME NEW a \in Accounts, LeaveSharingAlone(a) PROVE CoverInv'
    <3>1. \A b \in Accounts \ {a} : filter'[b] = filter[b]
      BY <2>12 DEF LeaveSharingAlone, SetFilter, TypeOK
    <3>. QED BY <2>12, <3>1, <1>3 DEF LeaveSharingAlone, Careful
  <2>. QED
    BY <1>5, <2>1, <2>2, <2>3, <2>4, <2>5, <2>6, <2>7, <2>8, <2>9, <2>10,
       <2>11, <2>12 DEF Merge
<1>6. CASE BeginPass \/ Show \/ Die
  <2>1. CASE BeginPass
    BY <2>1, <1>1 DEF BeginPass, Begin
  <2>2. ASSUME NEW p \in People, Promote(p) \/ PromoteFails(p) PROVE CoverInv'
    BY <2>2, <1>2 DEF Promote, PromoteFails
  <2>3. ASSUME NEW paused \in SUBSET onHome, Finish(paused) PROVE CoverInv'
    BY <2>3, <1>1 DEF Finish, Forget
  <2>4. CASE Die
    BY <2>4, <1>1 DEF Die, Forget
  <2>. QED BY <1>6, <2>1, <2>2, <2>3, <2>4 DEF Show
<1>7. CASE World
  <2>1. ASSUME NEW p \in People, HideRow(p) \/ RemoveRow(p) PROVE CoverInv'
    BY <2>1, <1>1 DEF HideRow, RemoveRow, LockFree
  <2>2. ASSUME NEW a \in Accounts, Join(a) PROVE CoverInv'
    <3>1. \A b \in Accounts \ {a} : filter'[b] = filter[b]
      BY <2>2 DEF Join, SetFilter, TypeOK
    <3>2. Careful' = Careful \ {a}
      BY <2>2 DEF Join, Careful
    <3>. QED BY <2>2, <3>1, <3>2 DEF Join, PassInv, CoverInv, Careful, TypeOK
  <2>3. ASSUME NEW a \in Accounts, Leave(a) PROVE CoverInv'
    BY <2>3 DEF Leave, PassInv, CoverInv, Careful
  <2>4. ASSUME NEW a \in Accounts, ToggleManaged(a) PROVE CoverInv'
    BY <2>4, <1>1, <1>2 DEF ToggleManaged
  <2>5. CASE UserSync
    BY <2>5, <1>1 DEF UserSync, LockFree
  <2>. QED BY <1>7, <2>1, <2>2, <2>3, <2>4, <2>5 DEF World
<1>8. CASE UNCHANGED vars
  BY <1>8, <1>1, <1>2 DEF vars
<1>. QED BY <1>4, <1>5, <1>6, <1>7, <1>8 DEF Next

\* The pass's invariant holds before the first pass, and every step keeps it.
THEOREM PassCorrect == Spec => []PassInv
<1>1. Init => PassInv
  BY DEF Init, PassInv, ListingInv, RosterInv, CoverInv
<1>2. TypeOK /\ InHand /\ PassInv /\ [Next]_vars => PassInv'
  BY ListingStep, RosterStep, CoverStep DEF PassInv
<1>. QED BY <1>1, <1>2, TypeCorrect, PTL DEF Spec

-----------------------------------------------------------------------------
(* What no step does. *)

\* An account loses the exclude of a row that exists only when it is the
\* row's own person, is left alone, or joins the share anew.
Loses(a, p) == p \in filter[a] /\ p \notin filter'[a]

MayLose(a, p) == a = p \/ a \in unmanaged \/ (a \in shared' \ shared /\ a \in joined')

\* No step takes it from any other account.
LEMMA FilterStep ==
  ASSUME TypeOK, PassInv, Next, NEW a \in Accounts, NEW p \in live, Loses(a, p)
  PROVE  MayLose(a, p)
<1>. USE DEF plexVars, Loses
\* What a merge writes for an account of its queue.
<1>1. ASSUME NEW b \in Accounts, b \in queue, phase \in {"hide", "merge"},
             SetFilter(b, Planned(b))
      PROVE  MayLose(a, p)
  <2>1. a = b /\ p \notin Planned(a)
    BY <1>1 DEF SetFilter, TypeOK
  <2>. QED BY <1>1, <2>1, WriteKeeps DEF MayLose
<1>2. ASSUME UNCHANGED filter PROVE FALSE
  BY <1>2
<1>3. CASE Build
  <2>1. ASSUME NEW b \in Accounts, HideWrites(b) \/ HideWriteFails(b)
        PROVE  MayLose(a, p)
    BY <2>1, <1>1, <1>2 DEF HideWrites, HideWriteFails, ReadyToWrite
  <2>2. CASE \E b \in Accounts : HidePasses(b)
    BY <2>2, <1>2 DEF HidePasses
  <2>3. CASE \/ \E unread, missed \in SUBSET People : Sweep(unread, missed)
             \/ \E gone \in SUBSET People : SweepFails(gone)
             \/ \E q \in People : Deliver(q) \/ DeliverNothing(q) \/ Create(q)
    BY <2>3, <1>2 DEF Sweep, SweepFails, Deliver, DeliverNothing, Create
  <2>4. CASE \/ Label \/ LabelFails \/ Delivered
             \/ HideRoster \/ HideRosterFails \/ Hidden
    BY <2>4, <1>2 DEF Label, LabelFails, Delivered, HideRoster,
                      HideRosterFails, Hidden
  <2>. QED BY <1>3, <2>1, <2>2, <2>3, <2>4 DEF Build
<1>4. CASE Merge
  <2>1. ASSUME NEW b \in Accounts, MergeWrites(b) \/ MergeFails(b)
        PROVE  MayLose(a, p)
    BY <2>1, <1>1, <1>2 DEF MergeWrites, MergeFails, ReadyToWrite
  <2>2. ASSUME NEW b \in Accounts, LeaveSharingAlone(b) PROVE MayLose(a, p)
    <3>1. a = b
      BY <2>2 DEF LeaveSharingAlone, SetFilter, TypeOK
    <3>. QED BY <2>2, <3>1 DEF LeaveSharingAlone, MayLose
  <2>3. CASE \/ \E missed \in SUBSET People : Enumerate(missed)
             \/ EnumerateFails \/ Roster \/ RosterFails
             \/ Merged \/ Verify \/ VerifyFails
    BY <2>3, <1>2 DEF Enumerate, EnumerateFails, Roster, RosterFails, Merged,
                      Verify, VerifyFails
  <2>4. CASE \E b \in Accounts : SaveSnapshot(b) \/ MergeSkips(b) \/ MergeDeclined(b)
    BY <2>4, <1>2 DEF SaveSnapshot, MergeSkips, MergeDeclined
  <2>. QED BY <1>4, <2>1, <2>2, <2>3, <2>4 DEF Merge
<1>5. CASE BeginPass \/ Show \/ Die
  BY <1>5, <1>2 DEF BeginPass, Begin, Show, Finish, Promote, PromoteFails, Die
<1>6. CASE World
  <2>1. ASSUME NEW b \in Accounts, Join(b) PROVE MayLose(a, p)
    <3>1. a = b
      BY <2>1 DEF Join, SetFilter, TypeOK
    <3>. QED BY <2>1, <3>1 DEF Join, MayLose
  <2>2. CASE \/ \E q \in People : HideRow(q) \/ RemoveRow(q)
             \/ \E b \in Accounts : Leave(b) \/ ToggleManaged(b)
             \/ UserSync
    BY <2>2, <1>2 DEF HideRow, RemoveRow, Leave, ToggleManaged, UserSync
  <2>. QED BY <1>6, <2>1, <2>2 DEF World
<1>. QED BY <1>3, <1>4, <1>5, <1>6 DEF Next

\* While a row exists, no pass, prune or death takes its exclude away from an
\* account it is hidden from (LiveRowKeepsItsExcludes).
THEOREM LiveRowsStayHidden == Spec => LiveRowKeepsItsExcludes
<1>1. ASSUME TypeOK, PassInv, [Next]_vars
      PROVE  [\A a \in Accounts, p \in People :
                /\ p \in filter[a] /\ p \notin filter'[a]
                /\ p \in live
                => a = p \/ a \in unmanaged \/ a \in shared' \ shared]_vars
  BY <1>1, FilterStep DEF Loses, MayLose
<1>. QED
  BY <1>1, TypeCorrect, PassCorrect, PTL DEF Spec, LiveRowKeepsItsExcludes

\* Only a promotion puts a row on Home.
LEMMA HomeStep ==
  ASSUME Next, NEW q \in onHome', q \notin onHome
  PROVE  Promote(q)
<1>. USE DEF plexVars
<1>1. ASSUME NEW p \in People, Promote(p) PROVE Promote(q)
  <2>1. q = p
    BY <1>1 DEF Promote
  <2>. QED BY <1>1, <2>1
<1>2. CASE BeginPass \/ Die \/ Build
  BY <1>2 DEF BeginPass, Begin, Die, Build, Sweep, SweepFails, Deliver,
     DeliverNothing, Create, Label, LabelFails, Delivered, HideRoster,
     HideRosterFails, HidePasses, HideWrites, HideWriteFails, Hidden
<1>3. CASE Merge
  BY <1>3 DEF Merge, Enumerate, EnumerateFails, Roster, RosterFails, Merged,
     Verify, VerifyFails, SaveSnapshot, MergeSkips, MergeWrites, MergeDeclined,
     MergeFails, LeaveSharingAlone
<1>4. CASE Show
  BY <1>4, <1>1 DEF Show, Finish, PromoteFails
<1>5. CASE World
  BY <1>5 DEF World, HideRow, RemoveRow, Join, Leave, ToggleManaged, UserSync
<1>. QED BY <1>2, <1>3, <1>4, <1>5 DEF Next

\* No step shows an account a row of somebody else, but for the accounts a
\* pass cannot hide it from (NeverExposes).
THEOREM RowsStayPrivate == Spec => NeverExposes
<1>1. ASSUME TypeOK, PassInv, Next, NEW a \in Accounts \ {Owner},
             NEW p \in Sees(a)', p \notin Sees(a)
      PROVE  Excused(a)
  <2>1. p \in onHome' \ {a} /\ p \notin filter'[a]
    BY <1>1 DEF Sees
  <2>2. CASE p \in onHome
    <3>1. p \in live /\ Loses(a, p)
      BY <1>1, <2>1, <2>2 DEF Sees, Loses, PassInv, ListingInv
    <3>2. MayLose(a, p)
      BY <1>1, <3>1, FilterStep
    <3>. QED BY <2>1, <3>2 DEF MayLose, Excused
  <2>3. CASE p \notin onHome
    <3>1. Promote(p)
      BY <1>1, <2>1, <2>3, HomeStep
    <3>2. syncOk /\ phase = "promote" /\ p \in listing
      BY <2>1, <2>3, <3>1 DEF Promote, Promotable
    <3>3. UNCHANGED <<filter, joined>>
      BY <3>1 DEF Promote
    <3>4. p \notin filter[a]
      BY <2>1, <3>3
    <3>5. a \notin Careful
      BY <1>1, <2>1, <3>2, <3>4 DEF PassInv, CoverInv, RosterInv
    <3>. QED BY <3>3, <3>5 DEF Careful, Excused
  <2>. QED BY <2>2, <2>3
<1>2. ASSUME TypeOK, PassInv, [Next]_vars
      PROVE  [\A a \in Accounts \ {Owner} :
                Sees(a)' \subseteq Sees(a) \/ Excused(a)]_vars
  BY <1>1, <1>2
<1>. QED BY <1>2, TypeCorrect, PassCorrect, PTL DEF Spec, NeverExposes

=============================================================================
