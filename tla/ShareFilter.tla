---------------------------- MODULE ShareFilter ----------------------------
(***************************************************************************)
(* The share-filter algebra (engine/privacy.py): how Shortlist writes the   *)
(* labels one account must not see into that account's filterMovies or      *)
(* filterTelevision string, beside whatever its owner restricted there, and *)
(* takes them out again.  RowPrivacy says when a filter is written and with *)
(* which labels; here is what the write does to the conditions.             *)
(*                                                                          *)
(* A filter is a sequence of conditions, each with the separator that joins *)
(* it to the one before: "|" (or) and "&" (and).  Plex was measured to bind *)
(* "|" tighter; the code relies on that for allow lists only, and otherwise *)
(* writes what holds under strict left-to-right reading as well.            *)
(*                                                                          *)
(* The values of a condition are a set: their order, their encoding and the *)
(* separator between them are kept by the code and told apart by nothing    *)
(* here.  Every condition has a value, and none holds a raw "&" (Plex fails *)
(* on such a filter and the code leaves the field alone).                   *)
(***************************************************************************)
EXTENDS Naturals, Sequences, SequencesExt

CONSTANTS
  Own,        \* the label of this account's own rows
  People,     \* the labels of other people's rows
  Shared,     \* the labels of the shared rows
  Tag,        \* the constant label every Shortlist row carries
  Foreign,    \* the owner's own labels
  Ratings,    \* content ratings
  Clauses,    \* the conditions an account's filter may hold beforehand
  MaxClauses, \* bound: how many of them
  Idle,       \* no call is under way
  Unknown     \* the owner's own filter was not seen

Ours == {Own} \cup People \cup Shared
Labels == Ours \cup {Tag} \cup Foreign

\* A condition names something, and names it of its own field.
NamesItsOwn(c) == c.values # {} /\ c.values \subseteq (IF c.field = "label" THEN Labels ELSE Ratings)
Fields == {"label", "contentRating"}

\* FilterCondition, and the same less its separator.
Condition ==
  {c \in [field : Fields, op : {"=", "!="}, values : SUBSET (Labels \cup Ratings), sep : {"|", "&"}] :
     NamesItsOwn(c)}
Clause ==
  {c \in [field : Fields, op : {"=", "!="}, values : SUBSET (Labels \cup Ratings)] : NamesItsOwn(c)}

ASSUME ShareFilterAssumption ==
  /\ Own \notin People \cup Shared
  /\ People \cap Shared = {}
  /\ Tag \notin Ours \cup Foreign
  /\ Foreign \cap Ours = {}
  /\ Ratings \cap Labels = {}
  /\ Clauses \subseteq Clause
  /\ MaxClauses \in Nat

-----------------------------------------------------------------------------
(* What Plex makes of a filter. *)

\* The "&"-separated groups of "|"-separated alternatives, by their positions.
Groups(f) ==
  LET Together(i, j) == \A k \in (i + 1)..j \cup (j + 1)..i : f[k].sep = "|"
  IN {{j \in DOMAIN f : Together(i, j)} : i \in DOMAIN f}

\* An item is the set of its labels and its rating.
Holds(c, item) == (c.values \cap item # {}) <=> c.op = "="

\* "|" binds tighter: every group has an alternative that holds.
Shows(f, item) == \A g \in Groups(f) : \E i \in g : Holds(f[i], item)

\* Strictly left to right: what the first i conditions show.
ShowsInOrder(f, item) ==
  LET shown[i \in 0..Len(f)] ==
        IF i = 0 THEN TRUE
        ELSE IF i > 1 /\ f[i].sep = "|" THEN shown[i - 1] \/ Holds(f[i], item)
        ELSE shown[i - 1] /\ Holds(f[i], item)
  IN shown[Len(f)]

\* A Shortlist row carries its label and the constant one, and no rating.
RowOf(label) == {label, Tag}

Hides(f, label) == ~Shows(f, RowOf(label)) /\ ~ShowsInOrder(f, RowOf(label))

-----------------------------------------------------------------------------
(* Reading a filter. *)

\* The separator of the first condition is ignored, and gone once the filter is a string again.
Serialized(f) == IF f = <<>> THEN f ELSE [f EXCEPT ![1].sep = "|"]

\* f with its i-th condition replaced by the conditions Out(i).
Rewrite(f, Out(_)) == FlattenSeq([i \in DOMAIN f |-> Out(i)])

IsExclude(c) == c.field = "label" /\ c.op = "!="
IsLabelAllow(c) == c.field = "label" /\ c.op = "="

\* _enforced_positions: no "|" joins the condition or any after it.
Enforced(f) == {i \in DOMAIN f : \A j \in i..Len(f) : j = 1 \/ f[j].sep = "&"}

ExcludesAt(f, positions) == UNION {f[i].values : i \in {j \in positions : IsExclude(f[j])}}
Applied(f) == ExcludesAt(f, Enforced(f))
ShortlistLabels(f) == ExcludesAt(f, DOMAIN f) \cap Ours

Without(c, labels) == [c EXCEPT !.values = @ \ labels]

-----------------------------------------------------------------------------
(* merge_label_excludes *)

Stray(f) == {i \in DOMAIN f \ Enforced(f) : IsExclude(f[i]) /\ f[i].values \cap Ours # {}}

\* A clause joined by "&" with a "|" behind it: without it the owner's conditions would be
\* grouped another way under one of the two readings.
KeepsGroups_never(f, i) == FALSE
KeepsGroups(f, i) == i > 1 /\ f[i].sep = "&" /\ \E j \in DOMAIN f : j > i /\ f[j].sep = "|"

\* _lift_unenforced_labels: ours come out of where Plex does not apply them.
Lifted(f) ==
  LET Left(i) ==
        CASE i \notin Stray(f) -> <<f[i]>>
          [] i \in Stray(f) /\ ~(f[i].values \subseteq Ours) -> <<Without(f[i], Ours)>>
          [] i \in Stray(f) /\ f[i].values \subseteq Ours ->
               IF KeepsGroups(f, i) THEN <<f[i]>> ELSE <<>>
  IN Rewrite(f, Left)

NewExclude_piped(labels) == [field |-> "label", op |-> "!=", values |-> labels, sep |-> "|"]
NewExclude(labels) == [field |-> "label", op |-> "!=", values |-> labels, sep |-> "&"]

\* _place_excludes: into the first exclude that Plex applies, or a new one behind an "&".
Placed(f, missing) ==
  LET targets == {i \in Enforced(f) : IsExclude(f[i])}
  IN CASE missing = {} -> f
       [] missing # {} /\ targets # {} -> [f EXCEPT ![Min(targets)].values = @ \cup missing]
       [] missing # {} /\ targets = {} -> Append(f, NewExclude(missing))

Merged(f, labels) ==
  LET wanted == labels \cup (ExcludesAt(f, Stray(f)) \cap Ours)
  IN Serialized(Placed(Lifted(f), wanted \ Applied(Lifted(f))))

-----------------------------------------------------------------------------
(* remove_label_excludes *)

Empties_equal(c, labels) == c.values = labels
Empties(c, labels) == c.values \subseteq labels

Removed(f, labels) ==
  LET Left(i) ==
        CASE ~IsExclude(f[i]) -> <<f[i]>>
          [] IsExclude(f[i]) /\ ~Empties(f[i], labels) -> <<Without(f[i], labels)>>
          [] IsExclude(f[i]) /\ Empties(f[i], labels) ->
               IF KeepsGroups(f, i) THEN <<f[i]>> ELSE <<>>
  IN Serialized(Rewrite(f, Left))

-----------------------------------------------------------------------------
(* admit_own_rows *)

\* owners_allow: an allow condition that is not ours alone.
OwnersAllow(c) == c.op = "=" /\ c.values # {Own}

\* repair_pending: the merge has yet to lift an exclude of ours out of this group.
RepairPending(f, group) == \E i \in group : IsExclude(f[i]) /\ f[i].values \cap Ours # {}

\* _drop_condition for each of `dropped`: what an "&" kept apart stays apart.
WithoutConditions(f, dropped) ==
  LET Apart(i) ==
        \E k \in 2..i : f[k].sep = "&" /\ \A j \in k..(i - 1) : j \in dropped
      Left(i) ==
        IF i \in dropped THEN <<>>
        ELSE <<[f[i] EXCEPT !.sep = IF Apart(i) \/ (i > 1 /\ @ = "&") THEN "&" ELSE "|"]>>
  IN Rewrite(f, Left)

\* The clauses of these groups that only admit the own row.
OwnClauses(f, groups) ==
  UNION {{i \in g : IsLabelAllow(f[i]) /\ f[i].values = {Own}} :
         g \in {h \in groups : ~RepairPending(f, h)}}

\* The groups with an allow of the owner's that hide the row.
Needy_first(f) ==
  {g \in Groups(f) : 1 \in g /\ (\E i \in g : OwnersAllow(f[i]))
                      /\ ~\E i \in g : Holds(f[i], RowOf(Own))}
Needy(f) ==
  {g \in Groups(f) : (\E i \in g : OwnersAllow(f[i]))
                      /\ ~\E i \in g : Holds(f[i], RowOf(Own))}

Slots_anyField(f, g) == {i \in g : f[i].op = "="}
Slots(f, g) == {i \in g : IsLabelAllow(f[i])}

\* The own label into the first "label=" clause of each of them, or behind the group.
Widened(f) ==
  LET admission == [field |-> "label", op |-> "=", values |-> {Own}, sep |-> "|"]
      grown == {Min(Slots(f, g)) : g \in {h \in Needy(f) : Slots(f, h) # {}}}
      followed == {Max(g) : g \in {h \in Needy(f) : Slots(f, h) = {}}}
      Left(i) ==
        CASE i \in grown -> <<[f[i] EXCEPT !.values = @ \cup {Own}]>>
          [] i \in followed -> <<f[i], admission>>
          [] i \notin grown \cup followed -> <<f[i]>>
  IN Rewrite(f, Left)

Admitted(f) ==
  LET notOwners == {g \in Groups(f) : ~\E i \in g : OwnersAllow(f[i])}
  IN Serialized(Widened(WithoutConditions(f, OwnClauses(f, notOwners))))

\* Without a row: the own label out of every allow clause, and the clause with it.
Withdrawn(f) ==
  LET Narrowed(c) == IF IsLabelAllow(c) /\ c.values # {Own} THEN Without(c, {Own}) ELSE c
      rest == WithoutConditions(f, OwnClauses(f, Groups(f)))
  IN Serialized([i \in DOMAIN rest |-> Narrowed(rest[i])])

-----------------------------------------------------------------------------
(* sync_user_restrictions and clear_our_excludes, for one field. *)

\* What a pass holds when it syncs the account: the rows its listing found, whether it was
\* complete, which shared rows this account may see, and which people's rows two reads and
\* the database agree are gone.
SyncCall ==
  {c \in [op : {"sync"}, seen : SUBSET Ours, known : BOOLEAN,
          audience : SUBSET Shared, gone : SUBSET People] :
     /\ c.audience \subseteq c.seen
     /\ c.gone \cap c.seen = {}
     /\ ~c.known => c.gone = {}}
LeaveAlone == [op |-> "leave alone"]

ASSUME IdleAssumption == Idle \notin SyncCall \cup {LeaveAlone}

\* desired_excludes
Wanted(c) == c.seen \ ({Own} \cup c.audience)

\* What the prune takes back out: the own label, and when the listing can be trusted the
\* shared rows that are gone or this account may see, and the rows of the departed.
Prunable(f, c) ==
  ShortlistLabels(f) \cap
    ( (IF Own \in c.seen THEN {Own} ELSE {})
      \cup (IF c.known /\ c.seen # {} THEN (Shared \ Wanted(c)) \cup c.gone ELSE {}) )

\* The allow lists are left alone when the row was not seen and might be there (admit_label).
JudgesTheOwnRow(c) == Own \in c.seen \/ c.known

PlanPasses_one == 1
PlanPasses == 4

\* plan_share_filter: admit, then merge, until nothing changes.
Planned(f, c) ==
  LET Admit(g) ==
        CASE Own \in c.seen -> Admitted(g)
          [] JudgesTheOwnRow(c) /\ Own \notin c.seen -> Withdrawn(g)
          [] ~JudgesTheOwnRow(c) -> g
      planned[n \in 0..PlanPasses] ==
        IF n = 0 THEN f ELSE Merged(Admit(planned[n - 1]), Wanted(c))
  IN planned[PlanPasses]

Synced(f, c) == Removed(Planned(f, c), Prunable(f, c))

PersonLabels_all(f) == ShortlistLabels(f)
PersonLabels(f) == ShortlistLabels(f) \ Shared

\* The account is left alone: excludes of people's rows go, those of shared rows stay applied.
Cleared(f) ==
  LET people == PersonLabels(f)
      cleaned == Removed(f, people)
      kept == ShortlistLabels(cleaned) \cap Shared
  IN IF kept \subseteq Applied(cleaned) THEN cleaned ELSE Removed(Merged(cleaned, {}), people)

-----------------------------------------------------------------------------
VARIABLES
  filter,  \* the account's filter on plex.tv
  call,    \* the pass at work on it, with what it read
  theirs   \* the filter its owner wrote, when nothing of ours was in it

vars == <<filter, call, theirs>>

\* Every filter of the bound: an owner writes what they like, other tools and the merge that
\* came before this one left labels of ours anywhere in it.
Init ==
  /\ filter \in {Serialized([i \in DOMAIN f |->
                   [field |-> f[i][1].field, op |-> f[i][1].op, values |-> f[i][1].values, sep |-> f[i][2]]]) :
                 f \in BoundedSeq(Clauses \X {"|", "&"}, MaxClauses)}
  /\ call = Idle
  /\ theirs = IF \A i \in DOMAIN filter : filter[i].values \cap Ours = {} THEN filter ELSE Unknown

Starts(c) ==
  /\ call = Idle
  /\ call' = c
  /\ UNCHANGED <<filter, theirs>>

SyncUserRestrictions ==
  /\ call \in SyncCall
  /\ filter' = Synced(filter, call)
  /\ call' = Idle
  /\ UNCHANGED theirs

ClearOurExcludes ==
  /\ call = LeaveAlone
  /\ filter' = Cleared(filter)
  /\ call' = Idle
  /\ UNCHANGED theirs

Next ==
  \/ \E c \in SyncCall \cup {LeaveAlone} : Starts(c)
  \/ SyncUserRestrictions
  \/ ClearOurExcludes

Spec == Init /\ [][Next]_vars

-----------------------------------------------------------------------------
(* Correctness. *)

TypeOK ==
  /\ filter \in Seq(Condition)
  /\ call \in SyncCall \cup {LeaveAlone, Idle}
  /\ theirs \in Seq(Condition) \cup {Unknown}

Syncs == call \in SyncCall

\* After a sync Plex hides, whichever way it groups, every row the account must not see and every
\* row that was excluded anywhere in the filter and is not provably gone or this account's to see
\* (merge_label_excludes; sync_user_restrictions: not knowing never licenses a removal).
SyncHides ==
  [][Syncs => \A label \in Wanted(call) \cup (ShortlistLabels(filter) \ Prunable(filter, call)) :
                Hides(filter', label)]_vars

\* What the owner's conditions ask of an item that is no row: with every clause taken out that
\* only excludes labels of ours or admits the own row ...
OursAlone(c) == \/ IsExclude(c) /\ c.values \subseteq Ours
                \/ IsLabelAllow(c) /\ c.values = {Own}
OwnerShows(f, item) ==
  \A g \in Groups(f) :
    LET owners == {i \in g : ~OursAlone(f[i])}
    IN owners = {} \/ \E i \in owners : Holds(f[i], item)
\* ... and with only the groups taken out that admit nothing but the own row.
StillShows(f, item) ==
  \A g \in Groups(f) :
    \/ \A i \in g : IsLabelAllow(f[i]) /\ f[i].values = {Own}
    \/ \E i \in g : Holds(f[i], item)

\* Fewer clauses of ours alone than plan_share_filter makes passes: each pass may lift one of
\* them out of a row of such clauses, and judge the group behind only once the last is gone.
FewOfOurs(f) == Cardinality({i \in DOMAIN f : IsExclude(f[i]) /\ f[i].values \subseteq Ours}) <= 3

\* No call shows more of the owner's library than the filter did: what it drops, trims, moves and
\* inserts regroups nothing (_lift_unenforced_labels, remove_label_excludes, _drop_condition).
NeverShowsMore ==
  [][call # Idle => \A item \in SUBSET (Foreign \cup Ratings) :
       Shows(filter', item) => StillShows(filter, item)]_vars

\* Nor does a sync show less of it than the owner's conditions ask for.
SyncKeepsTheOwnersMeaning ==
  /\ NeverShowsMore
  /\ [][Syncs /\ JudgesTheOwnRow(call) /\ FewOfOurs(filter) =>
          \A item \in SUBSET (Foreign \cup Ratings) : OwnerShows(filter, item) => Shows(filter', item)]_vars

\* An account whose row exists sees it after the sync, whatever its allow lists
\* (admit_own_rows), unless an exclude in its filter hid the row already.
SyncShowsTheOwnRow ==
  [][Syncs /\ FewOfOurs(filter) /\ Own \in call.seen
       /\ ExcludesAt(filter, DOMAIN filter) \cap RowOf(Own) = {} =>
         Shows(filter', RowOf(Own))]_vars

\* One write settles a filter: the same pass over it again writes nothing (_PLAN_PASSES;
\* sync_user_restrictions: the steady state makes zero writes).
SyncSettles == [][Syncs /\ FewOfOurs(filter) => Synced(filter', call) = filter']_vars

\* Left alone, an account keeps the exclude of every restricted shared row, where Plex applies
\* it; and what it still excludes of people's rows are clauses that stood where Plex ignores
\* them: none is moved with the shared ones (clear_our_excludes).
LeftAloneKeepsShared ==
  [][call = LeaveAlone =>
       /\ \A label \in ShortlistLabels(filter) \cap Shared : Hides(filter', label)
       /\ \A i \in DOMAIN filter' :
            IsExclude(filter'[i]) /\ ~(filter'[i].values \cap Ours \subseteq Shared) =>
              \E j \in DOMAIN filter \ Enforced(filter) :
                IsExclude(filter[j]) /\ filter[j].values = filter'[i].values]_vars

\* What an owner wrote with nothing of ours in it comes back as it was, condition for condition,
\* once our labels are taken out, whatever calls came between (admit_own_rows:
\* "handing back the owner's filter byte for byte").
HandsBackTheOwnersFilter ==
  theirs # Unknown => Removed(Withdrawn(filter), Ours) = theirs

\* sync_user_restrictions: "An account's OWN label must never sit in its own filter".
OwnLabelLeaves == [][Syncs /\ Own \in call.seen => Own \notin ShortlistLabels(filter')]_vars
=============================================================================
