---------------------- MODULE ShareFilterSettleProofs ----------------------
(***************************************************************************)
(* One write settles a filter: what a sync leaves is written back as it is  *)
(* by the same sync.  Both halves of plan_share_filter find nothing to do   *)
(* there but to apply again what the prune then takes out again.            *)
(***************************************************************************)
EXTENDS ShareFilterRestProofs

-----------------------------------------------------------------------------
(* Filters that a pass leaves as they are. *)

\* What Plex does not apply of ours is in clauses of ours alone.
StraysOurs(f) == \A i \in Stray(f) : f[i].values \subseteq Ours

\* An allow clause of the label field that admits the own row.
NamesOwn(c) == IsLabelAllow(c) /\ Own \in c.values

\* Wherever the own row is admitted, it is admitted into an allow of the owner's and wanted there,
\* or beside an exclude of ours that is to be repaired.
Justified(f, c) ==
  \A i \in 1..Len(f) : JudgesTheOwnRow(c) /\ NamesOwn(f[i]) =>
    \E j \in 1..Len(f) :
      /\ Joined(f, i, j)
      /\ \/ OursOnly(f[j]) /\ f[i].values = {Own}
         \/ OwnersAllow(f[j]) /\ Own \in c.seen

\* A filter as a string again, that a pass has nothing to do with but to apply labels.
Calm(f, c) ==
  /\ f \in Seq(Condition)
  /\ Len(f) > 0 => f[1].sep = "|"
  /\ Resting(f, c)
  /\ StraysOurs(f)
  /\ Justified(f, c)

\* Two sequences of the same members in the same places are one.
LEMMA SameSequence ==
  ASSUME NEW C, NEW f \in Seq(C), NEW r \in Seq(C), Len(r) = Len(f),
         \A x \in 1..Len(f) : r[x] = f[x]
  PROVE  r = f
<1> DEFINE n == Len(f)
<1>1. r \in [1..n -> C] /\ f \in [1..n -> C]
  OBVIOUS
<1>2. \A x \in 1..n : r[x] = f[x]
  OBVIOUS
<1> HIDE DEF n
<1>3. r = [x \in 1..n |-> r[x]] /\ f = [x \in 1..n |-> f[x]]
  BY ONLY <1>1
<1>4. [x \in 1..n |-> r[x]] = [x \in 1..n |-> f[x]]
  BY ONLY <1>2
<1> QED
  BY <1>3, <1>4

\* Parts that are the members of f, one each, and nothing behind them, make up f.
LEMMA SameParts ==
  ASSUME NEW C, NEW f \in Seq(C), NEW s \in Seq(Seq(C)), Len(s) >= Len(f),
         \A i \in 1..Len(f) : Len(s[i]) = 1 /\ s[i][1] = f[i],
         \A i \in 1..Len(s) : i > Len(f) => Len(s[i]) = 0
  PROVE  FlattenSeq(s) = f
<1> DEFINE r == FlattenSeq(s)
<1>1. Len(f) \in Nat /\ Len(s) \in Nat
  OBVIOUS
<1>2. \A i \in 1..Len(f) : i \in 1..Len(s) /\ Len(s[i]) = 1 /\ s[i][1] = f[i]
  <2> TAKE i \in 1..Len(f)
  <2>1. i \in 1..Len(s)
    BY <1>1
  <2> QED
    BY <2>1
<1>3. \A i \in 1..Len(s) : i \notin 1..Len(f) => Len(s[i]) = 0
  BY <1>1
<1>4. \A i \in 1..Len(s) : Len(s[i]) =< 1
  <2> SUFFICES ASSUME NEW i \in 1..Len(s) PROVE Len(s[i]) =< 1
    OBVIOUS
  <2>1. Len(s[i]) = 1 \/ Len(s[i]) = 0
    BY <1>2, <1>3
  <2> DEFINE n == Len(s[i])
  <2>2. n = 1 \/ n = 0
    BY <2>1
  <2> HIDE DEF n
  <2>3. n =< 1
    BY ONLY <2>2
  <2> QED
    BY <2>3 DEF n
<1>5. r \in Seq(C) /\ \E org : Thins(r, s, org)
  BY <1>4, ThinParts
<1> HIDE DEF r
<1>6. PICK org : Thins(r, s, org)
  BY <1>5
<1>7. /\ org \in [1..Len(r) -> 1..Len(s)]
      /\ \A x, y \in 1..Len(r) : x < y => org[x] < org[y]
      /\ \A x \in 1..Len(r) : Len(s[org[x]]) = 1 /\ r[x] = s[org[x]][1]
      /\ \A p \in 1..Len(s) : Len(s[p]) = 1 => \E x \in 1..Len(r) : p = org[x]
      /\ Len(r) \in Nat
  BY <1>5, <1>6 DEF Thins
<1>8. \A x \in 1..Len(r) : org[x] \in 1..Len(f)
  <2> SUFFICES ASSUME NEW x \in 1..Len(r) PROVE org[x] \in 1..Len(f)
    OBVIOUS
  <2>1. PICK i \in 1..Len(s) : i = org[x]
    BY <1>7
  <2>2. Len(s[i]) = 1
    BY <1>7, <2>1
  <2>3. i \in 1..Len(f)
    <3> SUFFICES ASSUME i \notin 1..Len(f) PROVE FALSE
      OBVIOUS
    <3> DEFINE n == Len(s[i])
    <3>1. n = 0 /\ n = 1
      BY <1>3, <2>2
    <3> HIDE DEF n
    <3> QED
      BY ONLY <3>1
  <2> QED
    BY <2>1, <2>3
<1>9. Enumerates(org, Len(r), Len(f))
  <2>1. org \in [1..Len(r) -> 1..Len(f)]
    BY <1>7, <1>8
  <2>2. \A p \in 1..Len(f) : \E x \in 1..Len(r) : p = org[x]
    BY <1>2, <1>7
  <2> QED
    BY <1>7, <2>1, <2>2 DEF Enumerates
<1>10. Len(r) = Len(f) /\ \A x \in 1..Len(r) : org[x] = x
  BY <1>1, <1>7, <1>9, AllInPlace
<1>11. \A x \in 1..Len(f) : r[x] = f[x]
  BY <1>2, <1>7, <1>10
<1>12. r = f
  BY <1>5, <1>10, <1>11, SameSequence
<1> QED
  BY <1>12 DEF r

-----------------------------------------------------------------------------
(* What the merge leaves of ours outside the excludes that Plex applies. *)

\* What Plex applies of f and is left in r, behind conditions of f only, Plex applies in r.
LEMMA ThinEnforced ==
  ASSUME NEW f \in Seq(Condition), NEW r \in Seq(Condition), NEW org \in [1..Len(r) -> 1..Len(f)],
         \A x, y \in 1..Len(r) : x < y => org[x] < org[y],
         \A x \in 1..Len(r) : r[x].sep = f[org[x]].sep,
         NEW x \in 1..Len(r), org[x] \in Enforced(f)
  PROVE  x \in Enforced(r)
<1>1. DOMAIN f = 1..Len(f) /\ DOMAIN r = 1..Len(r) /\ Len(f) \in Nat /\ Len(r) \in Nat
  OBVIOUS
<1> SUFFICES ASSUME NEW y \in x..Len(r), y # 1 PROVE r[y].sep = "&"
  BY <1>1 DEF Enforced
<1>2. y \in 1..Len(r) /\ 1 \in 1..Len(r) /\ 1 < y /\ (x = y \/ x < y)
  BY <1>1
<1>3. PICK i \in 1..Len(f) : i = org[x]
  OBVIOUS
<1>4. PICK j \in 1..Len(f) : j = org[y]
  BY <1>2
<1>5. PICK k \in 1..Len(f) : k = org[1]
  BY <1>2
<1>6. k < j /\ (i = j \/ i < j)
  BY <1>2, <1>3, <1>4, <1>5
<1>7. j \in i..Len(f) /\ j # 1
  BY <1>1, <1>6
<1>8. f[j].sep = "&"
  BY <1>1, <1>3, <1>7 DEF Enforced
<1> QED
  BY <1>2, <1>4, <1>8

\* Writing a filter out moves nothing.
LEMMA SerializedStrays ==
  ASSUME NEW f \in Seq(Condition)
  PROVE  Stray(Serialized(f)) = Stray(f) /\ (StraysOurs(f) => StraysOurs(Serialized(f)))
<1> DEFINE h == Serialized(f)
<1>1. h \in Seq(Condition) /\ Len(h) = Len(f) /\ DOMAIN f = 1..Len(f) /\ Enforced(h) = Enforced(f)
  BY SerializedStays
<1>2. \A i \in DOMAIN f : h[i].field = f[i].field /\ h[i].op = f[i].op /\ h[i].values = f[i].values
  BY SerializedStays
<1> HIDE DEF h
<1>3. DOMAIN h = DOMAIN f
  BY <1>1
<1>4. Stray(h) = Stray(f)
  BY <1>1, <1>2, <1>3 DEF Stray, IsExclude
<1>5. StraysOurs(f) => StraysOurs(h)
  BY <1>2, <1>4 DEF StraysOurs, Stray
<1> QED
  BY <1>4, <1>5 DEF h

\* Lifting leaves no clause there that has labels of ours and of others.
LEMMA LiftedStrays ==
  ASSUME NEW f \in Seq(Condition)
  PROVE  Lifted(f) \in Seq(Condition) /\ StraysOurs(Lifted(f))
<1>1. DOMAIN f = 1..Len(f) /\ Len(f) \in Nat
  OBVIOUS
<1>2. PICK s \in Seq(Seq(Condition)) :
        /\ Len(s) = Len(f)
        /\ Lifted(f) = FlattenSeq(s)
        /\ \A i \in DOMAIN f :
             /\ i \notin Stray(f) => s[i] = <<f[i]>>
             /\ i \in Stray(f) /\ ~(f[i].values \subseteq Ours) => s[i] = <<Without(f[i], Ours)>>
             /\ i \in Stray(f) /\ f[i].values \subseteq Ours =>
                  \/ s[i] = <<>> /\ ~KeepsGroups(f, i)
                  \/ s[i] = <<f[i]>> /\ KeepsGroups(f, i)
  BY LiftedParts
<1> DEFINE r == FlattenSeq(s)
<1>3. ASSUME NEW i \in 1..Len(f)
      PROVE  /\ Len(s[i]) =< 1
             /\ Len(s[i]) = 1 =>
                  /\ s[i][1].sep = f[i].sep
                  /\ IsExclude(s[i][1]) /\ s[i][1].values \cap Ours # {} =>
                       i \in Enforced(f) \/ s[i][1].values \subseteq Ours
  <2>1. CASE i \notin Stray(f)
    <3>1. s[i] = <<f[i]>>
      BY <1>1, <1>2, <2>1
    <3>2. Len(s[i]) = 1 /\ s[i][1] = f[i]
      BY <3>1, SinglePart
    <3> QED
      BY <1>1, <2>1, <3>2 DEF Stray
  <2>2. CASE i \in Stray(f) /\ ~(f[i].values \subseteq Ours)
    <3> DEFINE d == Without(f[i], Ours)
    <3>0. s[i] = <<d>>
      BY <1>1, <1>2, <2>2
    <3>1. f[i] \in Condition /\ s[i] = <<d>>
      BY <3>0
    <3>2. d.sep = f[i].sep /\ d.values = f[i].values \ Ours
      BY <2>2, <3>1, WithoutStays
    <3> HIDE DEF d
    <3>3. Len(s[i]) = 1 /\ s[i][1] = d /\ d.values \cap Ours = {}
      BY <3>1, <3>2, SinglePart
    <3> QED
      BY <3>2, <3>3
  <2>3. CASE i \in Stray(f) /\ f[i].values \subseteq Ours
    <3>1. s[i] = <<>> \/ s[i] = <<f[i]>>
      BY <1>1, <1>2, <2>3
    <3>2. CASE s[i] = <<>>
      <4>1. Len(s[i]) = 0
        BY <3>2
      <4> QED
        BY <4>1
    <3>3. CASE s[i] = <<f[i]>>
      <4>1. Len(s[i]) = 1 /\ s[i][1] = f[i]
        BY <3>3, SinglePart
      <4> QED
        BY <2>3, <4>1
    <3> QED
      BY <3>1, <3>2, <3>3
  <2> QED
    BY <2>1, <2>2, <2>3
<1>4. \A i \in 1..Len(s) : Len(s[i]) =< 1
  BY <1>2, <1>3
<1>5. r \in Seq(Condition) /\ \E org : Thins(r, s, org)
  BY <1>4, ThinParts
<1> HIDE DEF r
<1>6. PICK org : Thins(r, s, org)
  BY <1>5
<1>7. /\ org \in [1..Len(r) -> 1..Len(f)]
      /\ \A x, y \in 1..Len(r) : x < y => org[x] < org[y]
      /\ \A x \in 1..Len(r) : Len(s[org[x]]) = 1 /\ r[x] = s[org[x]][1]
      /\ DOMAIN r = 1..Len(r)
  BY <1>2, <1>5, <1>6 DEF Thins
<1>8. \A x \in 1..Len(r) :
        /\ r[x].sep = f[org[x]].sep
        /\ IsExclude(r[x]) /\ r[x].values \cap Ours # {} =>
             org[x] \in Enforced(f) \/ r[x].values \subseteq Ours
  <2> TAKE x \in 1..Len(r)
  <2>1. PICK i \in 1..Len(f) : i = org[x]
    BY <1>7
  <2>2. Len(s[i]) = 1 /\ r[x] = s[i][1]
    BY <1>7, <2>1
  <2> QED
    BY <1>3, <2>1, <2>2
<1>9. StraysOurs(r)
  <2> SUFFICES ASSUME NEW x \in Stray(r) PROVE r[x].values \subseteq Ours
    BY DEF StraysOurs
  <2>1. x \in 1..Len(r) /\ x \notin Enforced(r) /\ IsExclude(r[x]) /\ r[x].values \cap Ours # {}
    BY <1>7 DEF Stray
  <2>2. org[x] \notin Enforced(f)
    BY <1>5, <1>7, <1>8, <2>1, ThinEnforced
  <2> QED
    BY <1>8, <2>1, <2>2
<1> QED
  BY <1>2, <1>5, <1>9 DEF r

\* Nor does the merge.
LEMMA MergedStrays ==
  ASSUME NEW f \in Seq(Condition), NEW labels \in SUBSET Ours
  PROVE  StraysOurs(Merged(f, labels))
<1> DEFINE wanted == labels \cup (ExcludesAt(f, Stray(f)) \cap Ours)
           l == Lifted(f)
           missing == wanted \ Applied(l)
           h == Placed(l, missing)
<1>1. missing \in SUBSET Ours /\ missing \in SUBSET Labels /\ Merged(f, labels) = Serialized(h)
  BY DEF Merged, Labels
<1> HIDE DEF missing
<1>2. l \in Seq(Condition) /\ StraysOurs(l)
  BY LiftedStrays
<1> HIDE DEF l
<1>3. h \in Seq(Condition) /\ Trims(h, l)
  BY <1>1, <1>2, PlacedTrims
<1>4. \A p \in DOMAIN h \ Enforced(h) : p \in DOMAIN l /\ h[p] = l[p]
  BY <1>1, <1>2, PlacedFrom
<1> HIDE DEF h
<1>5. StraysOurs(h)
  <2> SUFFICES ASSUME NEW p \in Stray(h) PROVE h[p].values \subseteq Ours
    BY DEF StraysOurs
  <2>1. p \in DOMAIN h \ Enforced(h) /\ IsExclude(h[p]) /\ h[p].values \cap Ours # {}
    BY DEF Stray
  <2>2. p \in DOMAIN l /\ h[p] = l[p]
    BY <1>4, <2>1
  <2>3. p \notin Enforced(l)
    <3> SUFFICES ASSUME p \in Enforced(l) PROVE FALSE
      OBVIOUS
    <3>1. DOMAIN h = 1..Len(h) /\ DOMAIN l = 1..Len(l) /\ Len(h) \in Nat /\ Len(l) \in Nat
      BY <1>2, <1>3
    <3>2. \A j \in p..Len(h) : j # 1 => h[j].sep = "&"
      <4> SUFFICES ASSUME NEW j \in p..Len(h), j # 1 PROVE h[j].sep = "&"
        OBVIOUS
      <4>1. j \in 1..Len(h) /\ j > 1
        BY <2>2, <3>1
      <4>2. CASE j \in 1..Len(l)
        <5>1. j \in p..Len(l)
          BY <2>2, <3>1, <4>2
        <5>2. l[j].sep = "&"
          BY <3>1, <5>1 DEF Enforced
        <5> QED
          BY <1>3, <4>1, <4>2, <5>2 DEF Trims
      <4>3. CASE j \notin 1..Len(l)
        <5>1. j > Len(l)
          BY <3>1, <4>1, <4>3
        <5> QED
          BY <1>3, <4>1, <5>1 DEF Trims
      <4> QED
        BY <4>2, <4>3
    <3> QED
      BY <2>1, <3>2 DEF Enforced
  <2>4. p \in Stray(l)
    BY <2>1, <2>2, <2>3 DEF Stray
  <2> QED
    BY <1>2, <2>2, <2>4 DEF StraysOurs
<1> QED
  BY <1>1, <1>3, <1>5, SerializedStrays

-----------------------------------------------------------------------------
(* What admits the own row does so for a reason. *)

\* The merge takes no reason away: it moves labels only out of clauses Plex does not apply, and
\* leaves those that hold nothing else.
LEMMA TrimmedJustified ==
  ASSUME NEW f \in Seq(Condition), NEW h \in Seq(Condition), Trims(h, f), NEW c, Justified(f, c)
  PROVE  Justified(h, c)
<1>1. Len(f) \in Nat /\ Len(h) \in Nat /\ 1..Len(f) \subseteq 1..Len(h)
  BY DEF Trims
<1>2. /\ \A i \in 1..Len(f) :
           /\ h[i].field = f[i].field /\ h[i].op = f[i].op
           /\ ~IsExclude(f[i]) => h[i].values = f[i].values
           /\ IsExclude(f[i]) => h[i].values \subseteq f[i].values \/ i \in Enforced(f)
      /\ \A i \in 1..Len(h) : i > Len(f) => IsExclude(h[i])
      /\ \A i, j \in 1..Len(f) : Joined(h, i, j) <=> Joined(f, i, j)
  <2>1. Len(h) >= Len(f) /\ \A i \in 1..Len(f) : i > 1 => h[i].sep = f[i].sep
    BY DEF Trims
  <2> QED
    BY <2>1, JoinedStays DEF Trims
<1> SUFFICES ASSUME NEW i \in 1..Len(h), JudgesTheOwnRow(c), NamesOwn(h[i])
             PROVE  \E j \in 1..Len(h) :
                      /\ Joined(h, i, j)
                      /\ \/ OursOnly(h[j]) /\ h[i].values = {Own}
                         \/ OwnersAllow(h[j]) /\ Own \in c.seen
  BY DEF Justified
<1>3. i \in 1..Len(f)
  <2>1. ~IsExclude(h[i])
    BY DEF NamesOwn, IsLabelAllow, IsExclude
  <2> QED
    BY <1>1, <1>2, <2>1
<1>4. NamesOwn(f[i]) /\ h[i].values = f[i].values /\ f[i].op = "="
  <2>1. f[i].op = "=" /\ f[i].field = "label"
    BY <1>2, <1>3 DEF NamesOwn, IsLabelAllow
  <2> QED
    BY <1>2, <1>3, <2>1 DEF NamesOwn, IsLabelAllow, IsExclude
<1>5. PICK j \in 1..Len(f) : /\ Joined(f, i, j)
                             /\ \/ OursOnly(f[j]) /\ f[i].values = {Own}
                                \/ OwnersAllow(f[j]) /\ Own \in c.seen
  BY <1>3, <1>4 DEF Justified
<1>6. j \in 1..Len(h) /\ Joined(h, i, j)
  BY <1>1, <1>2, <1>3, <1>5
<1>7. CASE OursOnly(f[j]) /\ f[i].values = {Own}
  <2>1. i # j
    BY <1>4, <1>7 DEF OursOnly, IsExclude
  <2>2. j \notin Enforced(f)
    BY <1>3, <1>5, <2>1, EnforcedAlone
  <2>3. OursOnly(h[j])
    BY <1>2, <1>7, <2>2 DEF OursOnly, IsExclude
  <2> QED
    BY <1>4, <1>6, <1>7, <2>3
<1>8. CASE OwnersAllow(f[j]) /\ Own \in c.seen
  <2>1. OwnersAllow(h[j])
    BY <1>2, <1>8 DEF OwnersAllow, IsExclude
  <2> QED
    BY <1>6, <1>8, <2>1
<1> QED
  BY <1>5, <1>7, <1>8

\* Writing a filter out trims nothing.
LEMMA SerializedTrims ==
  ASSUME NEW f \in Seq(Condition)
  PROVE  Serialized(f) \in Seq(Condition) /\ Trims(Serialized(f), f)
<1> DEFINE h == Serialized(f)
<1>1. DOMAIN f = 1..Len(f) /\ Len(f) \in Nat
  OBVIOUS
<1>2. h \in Seq(Condition) /\ Len(h) = Len(f)
  BY SerializedStays
<1>3. \A i \in 1..Len(f) : /\ h[i].field = f[i].field /\ h[i].op = f[i].op /\ h[i].values = f[i].values
                           /\ i # 1 => h[i] = f[i]
  BY <1>1, SerializedStays
<1> HIDE DEF h
<1>4. Trims(h, f)
  BY <1>1, <1>2, <1>3 DEF Trims
<1> QED
  BY <1>2, <1>4 DEF h

\* Nor does the merge as a whole.
LEMMA MergedJustified ==
  ASSUME NEW f \in Seq(Condition), Steady(f), NEW labels \in SUBSET Ours, NEW c, Justified(f, c)
  PROVE  Justified(Merged(f, labels), c)
<1> DEFINE wanted == labels \cup (ExcludesAt(f, Stray(f)) \cap Ours)
           l == Lifted(f)
           missing == wanted \ Applied(l)
           h == Placed(l, missing)
<1>1. missing \in SUBSET Ours /\ Merged(f, labels) = Serialized(h)
  BY DEF Merged
<1> HIDE DEF missing
<1>2. l \in Seq(Condition) /\ Trims(l, f)
  BY LiftedTrims
<1>3. Justified(l, c)
  BY <1>2, TrimmedJustified
<1> HIDE DEF l
<1>4. h \in Seq(Condition) /\ Trims(h, l)
  BY <1>1, <1>2, PlacedTrims
<1>5. Justified(h, c)
  BY <1>2, <1>3, <1>4, TrimmedJustified
<1> HIDE DEF h
<1>6. Serialized(h) \in Seq(Condition) /\ Trims(Serialized(h), h)
  BY <1>4, SerializedTrims
<1> QED
  BY <1>1, <1>4, <1>5, <1>6, TrimmedJustified

\* What of the clauses that only admit the own row is not dropped stays beside a clause of ours alone,
\* unless the groups of the owner's allow lists are spared.
LEMMA OwnClausesJustify ==
  ASSUME NEW f \in Seq(Condition), StraysOurs(f), NEW groups,
         NEW x \in 1..Len(WithoutConditions(f, OwnClauses(f, groups))),
         OwnOnly(WithoutConditions(f, OwnClauses(f, groups))[x])
  PROVE  \E y \in 1..Len(WithoutConditions(f, OwnClauses(f, groups))) :
           /\ Joined(WithoutConditions(f, OwnClauses(f, groups)), x, y)
           /\ \/ OursOnly(WithoutConditions(f, OwnClauses(f, groups))[y])
              \/ /\ OwnersAllow(WithoutConditions(f, OwnClauses(f, groups))[y])
                 /\ \E g \in Groups(f) : g \notin groups
         \/ \E g \in Groups(f) : g \notin groups /\ ~\E i \in g : OwnersAllow(f[i])
<1> DEFINE dropped == OwnClauses(f, groups)
           r == WithoutConditions(f, dropped)
<1>1. r \in Seq(Condition) /\ \E org : Leaves(r, f, dropped, org)
  BY DroppingLeaves
<1>2. x \in 1..Len(r) /\ OwnOnly(r[x])
  OBVIOUS
<1>3. \A i \in dropped : OwnOnly(f[i])
  BY DEF OwnClauses, OwnOnly
<1>4. \A g \in groups : ~RepairPending(f, g) => \A i \in g : OwnOnly(f[i]) => i \in dropped
  BY DEF OwnClauses, OwnOnly
<1> HIDE DEF r, dropped
<1> SUFFICES \/ \E y \in 1..Len(r) :
                  /\ Joined(r, x, y)
                  /\ OursOnly(r[y]) \/ (OwnersAllow(r[y]) /\ \E g \in Groups(f) : g \notin groups)
             \/ \E g \in Groups(f) : g \notin groups /\ ~\E i \in g : OwnersAllow(f[i])
  BY DEF r, dropped
<1>5. PICK org : Leaves(r, f, dropped, org)
  BY <1>1
<1>6. PICK i \in 1..Len(f) : i = org[x]
  BY <1>2, <1>5 DEF Leaves
<1>7. OwnOnly(f[i]) /\ i \notin dropped
  BY <1>2, <1>5, <1>6 DEF Leaves, OwnOnly, IsLabelAllow
<1> DEFINE g == GroupOf(f, i)
<1>8. g \in Groups(f) /\ i \in g /\ \A j \in g : j \in 1..Len(f) /\ Joined(f, i, j)
  BY GroupOfIs
<1> HIDE DEF g
<1>9. ASSUME NEW j \in g, ~OwnOnly(f[j])
      PROVE  \E y \in 1..Len(r) : /\ Joined(r, x, y)
                                  /\ r[y].field = f[j].field /\ r[y].op = f[j].op /\ r[y].values = f[j].values
  <2>1. j \notin dropped /\ j \in 1..Len(f) /\ Joined(f, i, j)
    BY <1>3, <1>8, <1>9
  <2>2. PICK y \in 1..Len(r) : j = org[y]
    BY <1>5, <2>1 DEF Leaves
  <2> QED
    BY <1>2, <1>5, <1>6, <2>1, <2>2 DEF Leaves
<1>10. CASE g \in groups
  <2>1. RepairPending(f, g)
    BY <1>4, <1>7, <1>8, <1>10
  <2>2. PICK j \in g : IsExclude(f[j]) /\ f[j].values \cap Ours # {}
    BY <2>1 DEF RepairPending
  <2>3. i # j /\ ~OwnOnly(f[j])
    BY <1>7, <2>2 DEF OwnOnly, IsLabelAllow, IsExclude
  <2>4. j \notin Enforced(f) /\ j \in DOMAIN f
    BY <1>8, <2>3, EnforcedAlone
  <2>5. OursOnly(f[j])
    BY <2>2, <2>4 DEF StraysOurs, Stray, OursOnly
  <2>6. PICK y \in 1..Len(r) : /\ Joined(r, x, y)
                               /\ r[y].field = f[j].field /\ r[y].op = f[j].op /\ r[y].values = f[j].values
    BY <1>9, <2>3
  <2>7. OursOnly(r[y])
    BY <2>5, <2>6 DEF OursOnly, IsExclude
  <2> QED
    BY <2>6, <2>7
<1>11. CASE g \notin groups /\ \E j \in g : OwnersAllow(f[j])
  <2>1. PICK j \in g : OwnersAllow(f[j])
    BY <1>11
  <2>2. ~OwnOnly(f[j])
    BY <2>1 DEF OwnersAllow, OwnOnly
  <2>3. PICK y \in 1..Len(r) : /\ Joined(r, x, y)
                               /\ r[y].field = f[j].field /\ r[y].op = f[j].op /\ r[y].values = f[j].values
    BY <1>9, <2>2
  <2>4. OwnersAllow(r[y])
    BY <2>1, <2>3 DEF OwnersAllow
  <2> QED
    BY <1>8, <1>11, <2>3, <2>4
<1> QED
  BY <1>8, <1>10, <1>11

\* Admitting the own row is justified in every group that had strays of ours alone.
LEMMA AdmittedJustified ==
  ASSUME NEW f \in Seq(Condition), StraysOurs(f), NEW c, Own \in c.seen
  PROVE  Justified(Admitted(f), c)
<1> DEFINE notOwners == {g \in Groups(f) : ~\E i \in g : OwnersAllow(f[i])}
           rest == WithoutConditions(f, OwnClauses(f, notOwners))
           w == Widened(rest)
<1>1. Admitted(f) = Serialized(w)
  BY DEF Admitted
<1>2. rest \in Seq(Condition)
  BY DroppingLeaves
<1>3. ASSUME NEW x \in 1..Len(rest), OwnOnly(rest[x])
      PROVE  \E y \in 1..Len(rest) : Joined(rest, x, y) /\ (OursOnly(rest[y]) \/ OwnersAllow(rest[y]))
  <2>1. ~\E g \in Groups(f) : g \notin notOwners /\ ~\E i \in g : OwnersAllow(f[i])
    OBVIOUS
  <2> QED
    BY <1>3, <2>1, OwnClausesJustify
<1> HIDE DEF rest
<1>4. PICK s \in Seq(Seq(Condition)) : \E to : Widening(w, rest, s, to)
  BY <1>2, WidenedIs
<1>5. PICK to : Widening(w, rest, s, to)
  BY <1>4
<1> HIDE DEF w
<1>6. w \in Seq(Condition) /\ Thickens(w, s, to) /\ Follow(s, rest)
  BY <1>5 DEF Widening
<1>7. \A p \in 1..Len(rest) :
        /\ to[p] \in 1..Len(w)
        /\ OwnOnly(w[to[p]]) => OwnOnly(rest[p])
        /\ OwnersAllow(w[to[p]]) <=> OwnersAllow(rest[p])
        /\ OursOnly(rest[p]) => OursOnly(w[to[p]])
  <2>1. \A p \in 1..Len(rest) :
          /\ to[p] \in 1..Len(w) /\ w[to[p]] = s[p][1]
          /\ Holds(rest[p], RowOf(Own)) => Holds(w[to[p]], RowOf(Own))
          /\ OwnOnly(w[to[p]]) => OwnOnly(rest[p])
          /\ OwnersAllow(w[to[p]]) <=> OwnersAllow(rest[p])
          /\ OursOnly(w[to[p]]) => OursOnly(rest[p])
    BY <1>2, <1>5, WideningParts
  <2> TAKE p \in 1..Len(rest)
  <2>2. IsExclude(rest[p]) => s[p][1] = rest[p]
    BY <1>5 DEF Widening
  <2> QED
    BY <2>1, <2>2 DEF OursOnly
<1>8. Justified(w, c)
  <2> SUFFICES ASSUME NEW x \in 1..Len(w), NamesOwn(w[x])
               PROVE  \E y \in 1..Len(w) :
                        /\ Joined(w, x, y)
                        /\ \/ OursOnly(w[y]) /\ w[x].values = {Own}
                           \/ OwnersAllow(w[y])
    BY DEF Justified
  <2>1. PICK p \in 1..Len(rest) : /\ Joined(w, to[p], x)
                                  /\ x = to[p] \/ (OwnOnly(w[x]) /\ \E g \in Needy(rest) : p \in g)
    BY <1>2, <1>5, WideningParts
  <2>2. CASE OwnersAllow(w[x])
    BY <1>6, <2>2, JoinedAlike
  <2>3. CASE ~OwnersAllow(w[x])
    <3>1. OwnOnly(w[x]) /\ w[x].values = {Own}
      BY <2>3 DEF OwnOnly, OwnersAllow, NamesOwn, IsLabelAllow
    <3>2. PICK q \in 1..Len(rest) : Joined(rest, p, q) /\ (OursOnly(rest[q]) \/ OwnersAllow(rest[q]))
      <4>1. CASE x = to[p]
        <5>1. OwnOnly(rest[p])
          BY <1>7, <3>1, <4>1
        <5> QED
          BY <1>3, <5>1
      <4>2. CASE \E g \in Needy(rest) : p \in g
        <5>1. PICK g \in Needy(rest) : p \in g
          BY <4>2
        <5>2. g \in Groups(rest) /\ \E q \in g : OwnersAllow(rest[q])
          BY <5>1 DEF Needy
        <5> QED
          BY <1>2, <5>1, <5>2, GroupOfIs
      <4> QED
        BY <2>1, <4>1, <4>2
    <3>3. to[p] \in 1..Len(w) /\ to[q] \in 1..Len(w) /\ (OursOnly(w[to[q]]) \/ OwnersAllow(w[to[q]]))
      BY <1>7, <3>2
    <3>4. Joined(w, to[p], to[q])
      BY <1>2, <1>6, <3>2, JoinsThick
    <3>5. Joined(w, x, to[q])
      BY <1>6, <2>1, <3>3, <3>4, JoinedAlike
    <3> QED
      BY <3>1, <3>3, <3>5
  <2> QED
    BY <2>2, <2>3
<1>9. Serialized(w) \in Seq(Condition) /\ Trims(Serialized(w), w)
  BY <1>6, SerializedTrims
<1> QED
  BY <1>1, <1>6, <1>8, <1>9, TrimmedJustified

\* So is what is left of it once the own label was taken out.
LEMMA WithdrawnJustified ==
  ASSUME NEW f \in Seq(Condition), StraysOurs(f), NEW c
  PROVE  Justified(Withdrawn(f), c)
<1> DEFINE rest == WithoutConditions(f, OwnClauses(f, Groups(f)))
<1>1. PICK h \in Seq(Condition) :
              /\ Withdrawn(f) = Serialized(h)
              /\ Len(h) = Len(rest)
              /\ \A p \in 1..Len(rest) : h[p] = Narrowed(rest[p])
  BY NarrowedParts
<1>2. rest \in Seq(Condition)
  BY DroppingLeaves
<1>3. ASSUME NEW x \in 1..Len(rest), OwnOnly(rest[x])
      PROVE  \E y \in 1..Len(rest) : Joined(rest, x, y) /\ OursOnly(rest[y])
  BY <1>3, OwnClausesJustify
<1> HIDE DEF rest
<1>4. \A p \in 1..Len(rest) :
        /\ Stands(h[p], rest[p]) /\ h[p].sep = rest[p].sep
        /\ IsLabelAllow(rest[p]) /\ rest[p].values # {Own} => Own \notin h[p].values
        /\ ~IsLabelAllow(rest[p]) => h[p] = rest[p]
  <2> TAKE p \in 1..Len(rest)
  <2>1. rest[p] \in Condition /\ h[p] = Narrowed(rest[p])
    BY <1>1, <1>2
  <2>2. /\ Stands(h[p], rest[p]) /\ h[p].sep = rest[p].sep
        /\ IsLabelAllow(rest[p]) /\ rest[p].values # {Own} => h[p].values = rest[p].values \ {Own}
        /\ ~IsLabelAllow(rest[p]) => h[p] = rest[p]
    BY <2>1, NarrowedStands
  <2> QED
    BY <2>2
<1>5. \A i, j \in 1..Len(rest) : Joined(h, i, j) <=> Joined(rest, i, j)
  <2>1. Len(h) >= Len(rest) /\ \A i \in 1..Len(rest) : i > 1 => h[i].sep = rest[i].sep
    BY <1>1, <1>2, <1>4
  <2> QED
    BY <1>2, <2>1, JoinedStays
<1>6. Justified(h, c)
  <2> SUFFICES ASSUME NEW x \in 1..Len(h), NamesOwn(h[x])
               PROVE  \E y \in 1..Len(h) : Joined(h, x, y) /\ OursOnly(h[y]) /\ h[x].values = {Own}
    BY DEF Justified
  <2>1. x \in 1..Len(rest)
    BY <1>1
  <2>2. OwnOnly(rest[x]) /\ h[x].values = {Own}
    <3>1. IsLabelAllow(rest[x])
      BY <1>4, <2>1 DEF Stands, NamesOwn, IsLabelAllow
    <3>2. rest[x].values = {Own}
      BY <1>4, <2>1, <3>1 DEF NamesOwn
    <3>3. h[x] = rest[x]
      BY <1>1, <2>1, <3>2 DEF Narrowed
    <3> QED
      BY <3>1, <3>2, <3>3 DEF OwnOnly
  <2>3. PICK y \in 1..Len(rest) : Joined(rest, x, y) /\ OursOnly(rest[y])
    BY <1>3, <2>1, <2>2
  <2>4. h[y] = rest[y]
    BY <1>4, <2>3 DEF OursOnly, IsExclude, IsLabelAllow
  <2> QED
    BY <1>1, <1>5, <2>1, <2>2, <2>3, <2>4
<1>7. Serialized(h) \in Seq(Condition) /\ Trims(Serialized(h), h)
  BY SerializedTrims
<1> QED
  BY <1>1, <1>6, <1>7, TrimmedJustified

\* Whatever a pass makes of the allow lists, it admits the own row for a reason.
LEMMA AdmittingJustified ==
  ASSUME NEW g \in Seq(Condition), StraysOurs(g), NEW c \in SyncCall
  PROVE  Justified(Admitting(g, c), c)
<1>1. CASE Own \in c.seen
  <2>1. Admitting(g, c) = Admitted(g)
    BY <1>1 DEF Admitting, JudgesTheOwnRow
  <2> QED
    BY <1>1, <2>1, AdmittedJustified
<1>2. CASE JudgesTheOwnRow(c) /\ Own \notin c.seen
  <2>1. Admitting(g, c) = Withdrawn(g)
    BY <1>2 DEF Admitting
  <2> QED
    BY <2>1, WithdrawnJustified
<1>3. CASE ~JudgesTheOwnRow(c)
  BY <1>3 DEF Justified
<1> QED
  BY <1>1, <1>2, <1>3 DEF JudgesTheOwnRow

-----------------------------------------------------------------------------
(* Calm filters stay calm. *)

\* The merge calms what is judged and steady.
LEMMA MergedCalm ==
  ASSUME NEW f \in Seq(Condition), NEW c, Resting(f, c), Justified(f, c), NEW labels \in SUBSET Ours
  PROVE  Calm(Merged(f, labels), c)
<1> DEFINE h == Merged(f, labels)
<1>1. h \in Seq(Condition) /\ Resting(h, c)
  <2>1. Steady(f)
    BY DEF Resting
  <2>2. /\ h \in Seq(Condition) /\ Steady(h)
        /\ NoneOwnOnly(f) => NoneOwnOnly(h)
        /\ NoneNeedy(f) => NoneNeedy(h)
    BY <2>1, MergedRests
  <2> HIDE DEF h
  <2> QED
    BY <2>2 DEF Resting
<1>2. Justified(h, c)
  BY MergedJustified DEF Resting
<1>3. StraysOurs(h)
  BY MergedStrays
<1>4. Len(h) > 0 => h[1].sep = "|"
  <2> DEFINE l == Lifted(f)
             missing == (labels \cup (ExcludesAt(f, Stray(f)) \cap Ours)) \ Applied(l)
             p == Placed(l, missing)
  <2>1. h = Serialized(p) /\ missing \in SUBSET Labels
    BY DEF Merged, Labels
  <2> HIDE DEF missing, h
  <2>2. p \in Seq(Condition)
    BY <2>1, LiftedApplies, PlacedApplies
  <2> HIDE DEF p
  <2>3. Len(h) = Len(p)
    BY <2>1, <2>2, SerializedStays
  <2> QED
    BY <2>1, <2>2, <2>3, SerializedFirst
<1> HIDE DEF h
<1>5. Calm(h, c)
  BY <1>1, <1>2, <1>3, <1>4 DEF Calm
<1> QED
  BY <1>5 DEF h

\* Every exclude holds none of the labels, or nothing else and stays for what it keeps apart.
Pruned(f, labels) ==
  \A i \in 1..Len(f) : IsExclude(f[i]) =>
    \/ f[i].values \cap labels = {}
    \/ f[i].values \subseteq labels /\ KeepsGroups(f, i)

\* The prune leaves a calm filter calm, and has done all it can.
LEMMA RemovedCalm ==
  ASSUME NEW f, NEW c, Calm(f, c), NEW labels \in SUBSET Ours
  PROVE  Calm(Removed(f, labels), c) /\ Pruned(Removed(f, labels), labels)
<1>1. /\ f \in Seq(Condition) /\ DOMAIN f = 1..Len(f) /\ Len(f) \in Nat
      /\ \A i \in 1..Len(f) : f[i].sep \in {"|", "&"}
      /\ Steady(f) /\ Resting(f, c) /\ StraysOurs(f) /\ Justified(f, c)
  BY ConditionNames DEF Calm, Resting
<1>2. PICK r \in Seq(Condition) : \E org : Removed(f, labels) = Serialized(r) /\ Cuts(r, f, labels, org)
  BY <1>1, RemovedCuts
<1>3. PICK org : Removed(f, labels) = Serialized(r) /\ Cuts(r, f, labels, org)
  BY <1>2
<1>4. /\ org \in [1..Len(r) -> 1..Len(f)]
      /\ \A x, y \in 1..Len(r) : x < y => org[x] < org[y]
      /\ \A i \in 1..Len(f) : (\E x \in 1..Len(r) : i = org[x]) \/ i \in Enforced(f)
      /\ Len(r) \in Nat /\ DOMAIN r = 1..Len(r)
  BY <1>3 DEF Cuts
<1>5. \A x \in 1..Len(r) :
        /\ r[x].field = f[org[x]].field /\ r[x].op = f[org[x]].op /\ r[x].sep = f[org[x]].sep
        /\ ~IsExclude(f[org[x]]) => r[x].values = f[org[x]].values
        /\ IsExclude(f[org[x]]) =>
             \/ r[x].values = f[org[x]].values \ labels /\ ~(f[org[x]].values \subseteq labels)
             \/ r[x].values = f[org[x]].values /\ f[org[x]].values \subseteq labels /\ KeepsGroups(f, org[x])
  BY <1>3 DEF Cuts
<1>6. StraysOurs(r)
  <2> SUFFICES ASSUME NEW x \in Stray(r) PROVE r[x].values \subseteq Ours
    BY DEF StraysOurs
  <2>1. x \in 1..Len(r) /\ x \notin Enforced(r) /\ IsExclude(r[x]) /\ r[x].values \cap Ours # {}
    BY <1>4 DEF Stray
  <2>2. \A y \in 1..Len(r) : r[y].sep = f[org[y]].sep
    BY <1>5
  <2>3. org[x] \notin Enforced(f)
    BY <1>1, <1>4, <2>1, <2>2, ThinEnforced
  <2>4. PICK i \in 1..Len(f) : i = org[x]
    BY <1>4, <2>1
  <2>5. IsExclude(f[i]) /\ r[x].values \subseteq f[i].values
    <3>1. IsExclude(f[i])
      BY <1>5, <2>1, <2>4 DEF IsExclude
    <3> QED
      BY <1>5, <2>1, <2>4, <3>1
  <2>6. i \in Stray(f)
    BY <1>1, <2>1, <2>3, <2>4, <2>5 DEF Stray
  <2> QED
    BY <1>1, <2>5, <2>6 DEF StraysOurs
<1>7. Justified(r, c)
  <2> SUFFICES ASSUME NEW x \in 1..Len(r), JudgesTheOwnRow(c), NamesOwn(r[x])
               PROVE  \E y \in 1..Len(r) :
                        /\ Joined(r, x, y)
                        /\ \/ OursOnly(r[y]) /\ r[x].values = {Own}
                           \/ OwnersAllow(r[y]) /\ Own \in c.seen
    BY DEF Justified
  <2>1. PICK i \in 1..Len(f) : i = org[x]
    BY <1>4
  <2>2. NamesOwn(f[i]) /\ r[x].values = f[i].values
    <3>1. IsLabelAllow(f[i])
      BY <1>5, <2>1 DEF NamesOwn, IsLabelAllow
    <3>2. r[x].values = f[i].values
      BY <1>5, <2>1, <3>1 DEF IsLabelAllow, IsExclude
    <3> QED
      BY <3>1, <3>2 DEF NamesOwn
  <2>3. PICK j \in 1..Len(f) : /\ Joined(f, i, j)
                               /\ \/ OursOnly(f[j]) /\ f[i].values = {Own}
                                  \/ OwnersAllow(f[j]) /\ Own \in c.seen
    BY <1>1, <2>2 DEF Justified
  <2>4. PICK y \in 1..Len(r) : j = org[y] /\ Joined(r, x, y)
    BY <1>3, <2>1, <2>3 DEF Cuts
  <2>5. OursOnly(f[j]) => OursOnly(r[y])
    <3> SUFFICES ASSUME OursOnly(f[j]) PROVE OursOnly(r[y])
      OBVIOUS
    <3>1. IsExclude(f[j]) /\ f[j].values \subseteq Ours
      BY DEF OursOnly
    <3>2. r[y].values \subseteq f[j].values /\ IsExclude(r[y])
      BY <1>5, <2>4, <3>1 DEF IsExclude
    <3> QED
      BY <3>1, <3>2 DEF OursOnly
  <2>6. OwnersAllow(f[j]) => OwnersAllow(r[y])
    <3> SUFFICES ASSUME OwnersAllow(f[j]) PROVE OwnersAllow(r[y])
      OBVIOUS
    <3>1. ~IsExclude(f[j])
      BY DEF OwnersAllow, IsExclude
    <3> QED
      BY <1>5, <2>4, <3>1 DEF OwnersAllow
  <2> QED
    BY <2>2, <2>3, <2>4, <2>5, <2>6
<1>8. ASSUME NEW x \in 1..Len(r), KeepsGroups(f, org[x]) PROVE KeepsGroups(r, x)
  <2>1. PICK i \in 1..Len(f) : i = org[x]
    BY <1>4
  <2>2. PICK j \in 1..Len(f) : j > i /\ f[j].sep = "|"
    BY <1>1, <1>8, <2>1 DEF KeepsGroups
  <2>3. i > 1 /\ f[i].sep = "&"
    BY <1>8, <2>1 DEF KeepsGroups
  <2>4. j # 1
    BY <1>1, <2>2, <2>3
  <2>5. j \notin Enforced(f)
    <3>1. j \in j..Len(f) /\ f[j].sep # "&"
      BY <1>1, <2>2
    <3> QED
      BY <2>4, <3>1 DEF Enforced
  <2>6. PICK y \in 1..Len(r) : j = org[y]
    BY <1>4, <2>5
  <2>7. x < y
    <3> SUFFICES ASSUME ~(x < y) PROVE FALSE
      OBVIOUS
    <3>1. x = y \/ y < x
      BY <1>4
    <3>2. CASE x = y
      BY <1>1, <2>1, <2>2, <2>6, <3>2
    <3>3. CASE y < x
      <4>1. j < i
        BY <1>4, <2>1, <2>6, <3>3
      <4> QED
        BY <1>1, <2>2, <4>1
    <3> QED
      BY <3>1, <3>2, <3>3
  <2>8. x > 1
    <3>1. 1 \in 1..Len(f) /\ 1 \notin Enforced(f)
      <4>1. j \in 1..Len(f) /\ f[j].sep # "&" /\ 1 \in 1..Len(f)
        BY <1>1, <2>2
      <4> QED
        BY <2>4, <4>1 DEF Enforced
    <3>2. PICK z \in 1..Len(r) : 1 = org[z]
      BY <1>4, <3>1
    <3>3. z # x
      BY <1>1, <2>1, <2>3, <3>2
    <3>4. z < x
      <4> SUFFICES ASSUME ~(z < x) PROVE FALSE
        OBVIOUS
      <4>1. x < z
        BY <1>4, <3>3
      <4>2. i < 1
        BY <1>4, <2>1, <3>2, <4>1
      <4> QED
        BY <1>1, <4>2
    <3> QED
      BY <1>4, <3>4
  <2>9. r[x].sep = "&" /\ r[y].sep = "|"
    BY <1>5, <2>1, <2>2, <2>3, <2>6
  <2> QED
    BY <1>4, <2>7, <2>8, <2>9 DEF KeepsGroups
<1>9. Pruned(r, labels)
  <2> SUFFICES ASSUME NEW x \in 1..Len(r), IsExclude(r[x])
               PROVE  \/ r[x].values \cap labels = {}
                      \/ r[x].values \subseteq labels /\ KeepsGroups(r, x)
    BY DEF Pruned
  <2>1. IsExclude(f[org[x]])
    BY <1>5 DEF IsExclude
  <2>2. \/ r[x].values = f[org[x]].values \ labels
        \/ r[x].values = f[org[x]].values /\ f[org[x]].values \subseteq labels /\ KeepsGroups(f, org[x])
    BY <1>5, <2>1
  <2> QED
    BY <1>8, <2>2
<1> DEFINE g == Serialized(r)
<1>10. /\ g \in Seq(Condition) /\ Len(g) = Len(r) /\ Trims(g, r) /\ StraysOurs(g)
       /\ \A i \in 1..Len(r) : /\ g[i].field = r[i].field /\ g[i].op = r[i].op /\ g[i].values = r[i].values
                               /\ i # 1 => g[i] = r[i]
  BY <1>4, <1>6, SerializedStays, SerializedTrims, SerializedStrays
<1>11. Justified(g, c)
  BY <1>7, <1>10, TrimmedJustified
<1>12. Len(g) > 0 => g[1].sep = "|"
  BY <1>10, SerializedFirst
<1>13. Resting(g, c)
  BY <1>1, <1>3, RemovedRests DEF Resting
<1> HIDE DEF g
<1>14. Pruned(g, labels)
  <2> SUFFICES ASSUME NEW x \in 1..Len(g), IsExclude(g[x])
               PROVE  \/ g[x].values \cap labels = {}
                      \/ g[x].values \subseteq labels /\ KeepsGroups(g, x)
    BY DEF Pruned
  <2>1. x \in 1..Len(r) /\ IsExclude(r[x]) /\ g[x].values = r[x].values
    BY <1>10 DEF IsExclude
  <2>2. DOMAIN g = DOMAIN r
    BY <1>4, <1>10
  <2>3. KeepsGroups(r, x) => KeepsGroups(g, x)
    BY <1>4, <1>10, <2>1, <2>2 DEF KeepsGroups
  <2> QED
    BY <1>9, <2>1, <2>3 DEF Pruned
<1>15. Calm(g, c)
  BY <1>10, <1>11, <1>12, <1>13 DEF Calm
<1> QED
  BY <1>3, <1>14, <1>15 DEF g

\* Four passes calm a filter, and so a sync leaves it.
LEMMA PlannedCalm ==
  ASSUME NEW f \in Seq(Condition), NEW c \in SyncCall, FewOfOurs(f)
  PROVE  Calm(Planned(f, c), c)
<1> DEFINE p == Pass(Pass(f, c), c)
           q == Pass(p, c)
           a == Admitting(q, c)
<1>1. p \in Seq(Condition) /\ q \in Seq(Condition) /\ a \in Seq(Condition)
  BY PassApplies
<1>2. Wanted(c) \in SUBSET Ours
  BY DEF Wanted, SyncCall
<1>3. Planned(f, c) = Merged(a, Wanted(c))
  BY PlannedPasses DEF Pass
<1>4. Resting(a, c)
  BY PlannedRests
<1>5. StraysOurs(q)
  <2> HIDE DEF p
  <2>1. Admitting(p, c) \in Seq(Condition) /\ q = Merged(Admitting(p, c), Wanted(c))
    BY <1>1, PassApplies DEF Pass
  <2> QED
    BY <1>2, <2>1, MergedStrays
<1>6. Justified(a, c)
  BY <1>1, <1>5, AdmittingJustified
<1> HIDE DEF a
<1> QED
  BY <1>1, <1>2, <1>3, <1>4, <1>6, MergedCalm

-----------------------------------------------------------------------------
(* What finds nothing to do. *)

\* A filter that was a string is the same when it is one again.
LEMMA SerializedSame ==
  ASSUME NEW f \in Seq(Condition), Len(f) > 0 => f[1].sep = "|"
  PROVE  Serialized(f) = f
<1> DEFINE h == Serialized(f)
<1>1. /\ h \in Seq(Condition) /\ Len(h) = Len(f) /\ Len(f) \in Nat /\ DOMAIN f = 1..Len(f)
      /\ \A i \in 1..Len(f) : /\ h[i].field = f[i].field /\ h[i].op = f[i].op /\ h[i].values = f[i].values
                              /\ i # 1 => h[i] = f[i]
  BY SerializedStays
<1>2. Len(f) > 0 => h[1].sep = "|"
  BY SerializedFirst
<1> HIDE DEF h
<1>3. ASSUME NEW i \in 1..Len(f) PROVE h[i] = f[i]
  <2>1. CASE i = 1
    <3>1. h[i] \in Condition /\ f[i] \in Condition
      BY <1>1
    <3>2. Len(f) > 0
      BY <1>1
    <3>3. h[i].sep = f[i].sep
      BY <1>2, <2>1, <3>2
    <3> QED
      BY <1>1, <3>1, <3>3, SameCondition
  <2> QED
    BY <1>1, <2>1
<1>4. h = f
  BY <1>1, <1>3, SameSequence
<1> QED
  BY <1>4 DEF h

\* Nothing is moved when nothing is dropped.
LEMMA WithoutNone ==
  ASSUME NEW f \in Seq(Condition), Len(f) > 0 => f[1].sep = "|"
  PROVE  WithoutConditions(f, {}) = f
<1>1. PICK s \in Seq(Seq(Condition)) :
        /\ WithoutConditions(f, {}) = FlattenSeq(s)
        /\ Dropped(s, f, {})
        /\ Separated(s, f, {})
  BY WithoutConditionsParts
<1>2. DOMAIN f = 1..Len(f) /\ Len(f) \in Nat /\ Len(s) = Len(f)
  BY <1>1 DEF Dropped
<1>3. ASSUME NEW i \in 1..Len(f) PROVE Len(s[i]) = 1 /\ s[i][1] = f[i]
  <2>1. /\ Len(s[i]) = 1
        /\ s[i][1].field = f[i].field /\ s[i][1].op = f[i].op /\ s[i][1].values = f[i].values
    BY <1>1, <1>2 DEF Dropped
  <2>2. f[i].sep = "&" => s[i][1].sep = "&"
    <3> SUFFICES ASSUME f[i].sep = "&" PROVE s[i][1].sep = "&"
      OBVIOUS
    <3>1. i # 1
      <4>1. Len(f) > 0
        BY <1>2
      <4> QED
        BY <4>1
    <3>2. i \in 2..i /\ \A j \in i..(i - 1) : j \in {}
      BY <3>1
    <3> QED
      BY <1>1, <1>2, <3>2 DEF Dropped
  <2>3. s[i][1].sep = "&" => f[i].sep = "&"
    <3> SUFFICES ASSUME s[i][1].sep = "&" PROVE f[i].sep = "&"
      OBVIOUS
    <3>1. (i > 1 /\ f[i].sep = "&") \/ \E k \in 2..i : f[k].sep = "&" /\ \A j \in k..(i - 1) : j \in {}
      BY <1>1, <1>2 DEF Separated
    <3>2. ASSUME NEW k \in 2..i, f[k].sep = "&", \A j \in k..(i - 1) : j \in {} PROVE f[i].sep = "&"
      <4>1. k = i
        <5> SUFFICES ASSUME k # i PROVE FALSE
          OBVIOUS
        <5>1. k \in k..(i - 1)
          OBVIOUS
        <5> QED
          BY <3>2, <5>1
      <4> QED
        BY <3>2, <4>1
    <3> QED
      BY <3>1, <3>2
  <2>4. s[i] \in Seq(Condition) /\ f[i] \in Condition
    BY <1>2
  <2>5. s[i][1] \in Condition
    BY <2>1, <2>4
  <2>6. s[i][1].sep = f[i].sep
    <3>1. s[i][1].sep \in {"|", "&"} /\ f[i].sep \in {"|", "&"}
      BY <2>4, <2>5, ConditionNames
    <3> QED
      BY <2>2, <2>3, <3>1
  <2> QED
    BY <2>1, <2>4, <2>5, <2>6, SameCondition
<1>4. \A i \in 1..Len(s) : i > Len(f) => Len(s[i]) = 0
  BY <1>2
<1>5. FlattenSeq(s) = f
  BY <1>2, <1>3, <1>4, SameParts
<1> QED
  BY <1>1, <1>5

\* Nothing is widened when no group hides the row.
LEMMA WidenedNone ==
  ASSUME NEW f \in Seq(Condition), Needy(f) = {}
  PROVE  Widened(f) = f
<1> DEFINE admission == [field |-> "label", op |-> "=", values |-> {Own}, sep |-> "|"]
           grown == {Min(Slots(f, g)) : g \in {h \in Needy(f) : Slots(f, h) # {}}}
           followed == {Max(g) : g \in {h \in Needy(f) : Slots(f, h) = {}}}
           grow(i) == [f[i] EXCEPT !.values = @ \cup {Own}]
           Left(i) ==
             CASE i \in grown -> <<grow(i)>>
               [] i \in followed -> <<f[i], admission>>
               [] i \notin grown \cup followed -> <<f[i]>>
           s == [i \in DOMAIN f |-> Left(i)]
<1>1. Widened(f) = FlattenSeq(s)
  BY DEF Widened, Rewrite
<1>2. grown = {} /\ followed = {}
  OBVIOUS
<1>3. DOMAIN s = 1..Len(f) /\ Len(f) \in Nat /\ DOMAIN f = 1..Len(f)
  OBVIOUS
<1> HIDE DEF grown, followed, admission, grow
<1>4. ASSUME NEW i \in 1..Len(f) PROVE s[i] = <<f[i]>>
  <2>1. s[i] = Left(i)
    BY <1>3
  <2> QED
    BY <1>2, <2>1
<1> HIDE DEF s
<1>5. \A i \in 1..Len(f) : s[i] \in Seq(Condition) /\ Len(s[i]) = 1 /\ s[i][1] = f[i]
  <2> TAKE i \in 1..Len(f)
  <2>1. s[i] = <<f[i]>> /\ f[i] \in Condition
    BY <1>4
  <2> QED
    BY <2>1, SinglePart
<1>6. s \in Seq(Seq(Condition)) /\ Len(s) = Len(f)
  <2>1. s = [i \in 1..Len(f) |-> s[i]]
    BY <1>3 DEF s
  <2>2. s \in [1..Len(f) -> Seq(Condition)]
    BY <1>5, <2>1
  <2> QED
    BY <1>3, <2>2
<1>7. \A i \in 1..Len(s) : i > Len(f) => Len(s[i]) = 0
  BY <1>3, <1>6
<1>8. FlattenSeq(s) = f
  BY <1>5, <1>6, <1>7, SameParts
<1> QED
  BY <1>1, <1>8

\* A calm filter has no clause to drop that only admits the own row.
LEMMA CalmDropsNone ==
  ASSUME NEW f, NEW c, Calm(f, c), JudgesTheOwnRow(c), NEW groups \in SUBSET Groups(f),
         Own \in c.seen => \A g \in groups : ~\E i \in g : OwnersAllow(f[i])
  PROVE  OwnClauses(f, groups) = {}
<1>1. f \in Seq(Condition) /\ Justified(f, c)
  BY DEF Calm
<1>2. ASSUME NEW g \in groups, ~RepairPending(f, g), NEW i \in g, IsLabelAllow(f[i]), f[i].values = {Own}
      PROVE  FALSE
  <2>1. i \in 1..Len(f) /\ g \in Groups(f)
    BY <1>1, <1>2, GroupOfIs
  <2>2. NamesOwn(f[i])
    BY <1>2 DEF NamesOwn
  <2>3. PICK j \in 1..Len(f) : /\ Joined(f, i, j)
                               /\ \/ OursOnly(f[j]) /\ f[i].values = {Own}
                                  \/ OwnersAllow(f[j]) /\ Own \in c.seen
    BY <1>1, <2>1, <2>2 DEF Justified
  <2>4. j \in g
    BY <1>1, <1>2, <2>1, <2>3, GroupOfIs
  <2>5. ~OwnersAllow(f[j]) \/ Own \notin c.seen
    BY <1>2, <2>4
  <2>6. OursOnly(f[j])
    BY <2>3, <2>5
  <2>7. f[j].values # {}
    <3>1. f[j] \in Condition
      BY <1>1
    <3> QED
      BY <3>1, ConditionNames
  <2> QED
    BY <1>2, <2>4, <2>6, <2>7 DEF RepairPending, OursOnly
<1> QED
  BY <1>2 DEF OwnClauses

\* Admitting the own row changes nothing in a calm filter.
LEMMA CalmAdmitted ==
  ASSUME NEW f, NEW c, Calm(f, c), Own \in c.seen
  PROVE  Admitted(f) = f
<1> DEFINE notOwners == {g \in Groups(f) : ~\E i \in g : OwnersAllow(f[i])}
<1>1. /\ f \in Seq(Condition) /\ (Len(f) > 0 => f[1].sep = "|") /\ NoneNeedy(f)
      /\ JudgesTheOwnRow(c)
  BY DEF Calm, Resting, JudgesTheOwnRow
<1>2. OwnClauses(f, notOwners) = {}
  <2>1. notOwners \in SUBSET Groups(f) /\ \A g \in notOwners : ~\E i \in g : OwnersAllow(f[i])
    OBVIOUS
  <2> HIDE DEF notOwners
  <2> QED
    BY <1>1, <2>1, CalmDropsNone
<1>3. Needy(f) = {}
  <2>1. ASSUME NEW g \in Needy(f) PROVE FALSE
    <3>1. g \in Groups(f) /\ ~\E i \in g : Holds(f[i], RowOf(Own))
      BY <2>1 DEF Needy
    <3>2. PICK i \in g : OwnersAllow(f[i])
      BY <2>1 DEF Needy
    <3>3. i \in 1..Len(f)
      BY <1>1, <3>1, GroupOfIs
    <3>4. PICK j \in 1..Len(f) : Joined(f, i, j) /\ Holds(f[j], RowOf(Own))
      BY <1>1, <3>2, <3>3 DEF NoneNeedy
    <3>5. j \in g
      BY <1>1, <3>1, <3>4, GroupOfIs
    <3> QED
      BY <3>1, <3>4, <3>5
  <2> QED
    BY <2>1
<1>4. Admitted(f) = Serialized(Widened(WithoutConditions(f, {})))
  BY <1>2 DEF Admitted
<1>5. WithoutConditions(f, {}) = f /\ Widened(f) = f /\ Serialized(f) = f
  BY <1>1, <1>3, WithoutNone, WidenedNone, SerializedSame
<1> QED
  BY <1>4, <1>5

\* Nor does withdrawing it.
LEMMA CalmWithdrawn ==
  ASSUME NEW f, NEW c, Calm(f, c), JudgesTheOwnRow(c), Own \notin c.seen
  PROVE  Withdrawn(f) = f
<1>1. /\ f \in Seq(Condition) /\ (Len(f) > 0 => f[1].sep = "|") /\ Justified(f, c)
      /\ Len(f) \in Nat
  BY DEF Calm
<1>2. OwnClauses(f, Groups(f)) = {}
  BY CalmDropsNone
<1> DEFINE rest == WithoutConditions(f, OwnClauses(f, Groups(f)))
<1>3. rest = f
  BY <1>1, <1>2, WithoutNone
<1>4. PICK h \in Seq(Condition) :
        /\ Withdrawn(f) = Serialized(h)
        /\ Len(h) = Len(rest)
        /\ \A p \in 1..Len(rest) : h[p] = Narrowed(rest[p])
  BY <1>1, NarrowedParts
<1> HIDE DEF rest
<1>5. ASSUME NEW p \in 1..Len(f) PROVE Narrowed(f[p]) = f[p]
  <2> DEFINE d == f[p]
  <2>1. d \in Condition
    BY <1>1
  <2>2. IsLabelAllow(d) /\ d.values # {Own} => Own \notin d.values
    <3> SUFFICES ASSUME IsLabelAllow(d), d.values # {Own}, Own \in d.values PROVE FALSE
      OBVIOUS
    <3>1. NamesOwn(f[p])
      BY DEF NamesOwn
    <3>2. f[p].values = {Own}
      BY <1>1, <3>1 DEF Justified
    <3> QED
      BY <3>2
  <2> HIDE DEF d
  <2>3. CASE IsLabelAllow(d) /\ d.values # {Own}
    <3>1. /\ Narrowed(d) \in Condition /\ Stands(Narrowed(d), d) /\ Narrowed(d).sep = d.sep
          /\ Narrowed(d).values = d.values \ {Own}
      BY <2>1, <2>3, NarrowedStands
    <3>2. Narrowed(d).values = d.values
      BY <2>2, <2>3, <3>1
    <3>3. Narrowed(d).field = d.field /\ Narrowed(d).op = d.op
      BY <3>1 DEF Stands
    <3> QED
      BY <2>1, <3>1, <3>2, <3>3, SameCondition DEF d
  <2>4. CASE ~(IsLabelAllow(d) /\ d.values # {Own})
    BY <2>4 DEF Narrowed, d
  <2> QED
    BY <2>3, <2>4
<1>6. h = f
  <2>1. Len(h) = Len(f) /\ \A p \in 1..Len(f) : h[p] = f[p]
    BY <1>3, <1>4, <1>5
  <2> QED
    BY <1>1, <1>4, <2>1, SameSequence
<1> QED
  BY <1>1, <1>4, <1>6, SerializedSame

\* So the first half of a pass leaves it as it is, ...
LEMMA CalmAdmits ==
  ASSUME NEW f, NEW c \in SyncCall, Calm(f, c)
  PROVE  Admitting(f, c) = f
<1>1. CASE Own \in c.seen
  BY <1>1, CalmAdmitted DEF Admitting
<1>2. CASE Own \notin c.seen /\ JudgesTheOwnRow(c)
  BY <1>2, CalmWithdrawn DEF Admitting
<1>3. CASE ~JudgesTheOwnRow(c)
  <2>1. Own \notin c.seen
    BY <1>3 DEF JudgesTheOwnRow
  <2> QED
    BY <1>3, <2>1 DEF Admitting
<1> QED
  BY <1>1, <1>2, <1>3

\* ... and the second one lifts nothing out of it.
LEMMA CalmLifts ==
  ASSUME NEW f, NEW c, Calm(f, c)
  PROVE  Lifted(f) = f
<1>1. f \in Seq(Condition) /\ Steady(f) /\ StraysOurs(f)
  BY DEF Calm, Resting
<1>2. PICK s \in Seq(Seq(Condition)) :
        /\ Len(s) = Len(f)
        /\ Lifted(f) = FlattenSeq(s)
        /\ \A i \in DOMAIN f :
             /\ i \notin Stray(f) => s[i] = <<f[i]>>
             /\ i \in Stray(f) /\ ~(f[i].values \subseteq Ours) => s[i] = <<Without(f[i], Ours)>>
             /\ i \in Stray(f) /\ f[i].values \subseteq Ours =>
                  \/ s[i] = <<>> /\ ~KeepsGroups(f, i)
                  \/ s[i] = <<f[i]>> /\ KeepsGroups(f, i)
  BY <1>1, LiftedParts
<1>3. DOMAIN f = 1..Len(f) /\ Len(f) \in Nat
  BY <1>1
<1>4. ASSUME NEW i \in 1..Len(f) PROVE Len(s[i]) = 1 /\ s[i][1] = f[i]
  <2>1. s[i] = <<f[i]>>
    <3>1. CASE i \notin Stray(f)
      BY <1>2, <1>3, <3>1
    <3>2. CASE i \in Stray(f)
      <4>1. f[i].values \subseteq Ours
        BY <1>1, <3>2 DEF StraysOurs
      <4>2. KeepsGroups(f, i)
        BY <1>1, <3>2, <4>1, SteadyKeeps
      <4> QED
        BY <1>2, <1>3, <3>2, <4>1, <4>2
    <3> QED
      BY <3>1, <3>2
  <2> QED
    BY <2>1, SinglePart
<1>5. \A i \in 1..Len(s) : i > Len(f) => Len(s[i]) = 0
  BY <1>2, <1>3
<1>6. FlattenSeq(s) = f
  <2>1. Len(s) >= Len(f)
    BY <1>2, <1>3
  <2> QED
    BY <1>1, <1>4, <1>5, <2>1, SameParts
<1> QED
  BY <1>2, <1>6

-----------------------------------------------------------------------------
(* The next sync of a calm filter. *)

\* Four passes over it are one merge.
LEMMA CalmPasses ==
  ASSUME NEW g, NEW c \in SyncCall, Calm(g, c)
  PROVE  Planned(g, c) = Merged(g, Wanted(c))
<1> DEFINE W == Wanted(c)
           p == Merged(g, W)
           missing == (W \cup (ExcludesAt(p, Stray(p)) \cap Ours)) \ Applied(p)
<1>1. /\ W \in SUBSET Ours /\ W \in SUBSET Labels
      /\ g \in Seq(Condition) /\ Resting(g, c) /\ Justified(g, c)
  <2>1. W \in SUBSET Ours
    BY DEF Wanted, SyncCall
  <2> QED
    BY <2>1 DEF Calm, Labels
<1>2. Calm(p, c)
  <2> HIDE DEF W
  <2> QED
    BY <1>1, MergedCalm
<1>3. Pass(g, c) = p
  BY CalmAdmits DEF Pass
<1>4. Pass(p, c) = Merged(p, W)
  <2> HIDE DEF p
  <2> QED
    BY <1>2, CalmAdmits DEF Pass
<1>5. W \cup (Excluded(g) \cap Ours) \subseteq Applied(p)
  <2> HIDE DEF W
  <2> QED
    BY <1>1, MergedApplies
<1>6. Excluded(p) \subseteq Excluded(g) \cup W
  <2> HIDE DEF W
  <2> QED
    BY <1>1, MergedExcludes
<1> HIDE DEF p, W
<1>7. ExcludesAt(p, Stray(p)) \subseteq Excluded(p)
  BY DEF ExcludesAt, Excluded, Stray
<1>8. missing = {}
  BY <1>1, <1>5, <1>6, <1>7
<1>9. Merged(p, W) = Serialized(Placed(p, missing))
  <2>1. Lifted(p) = p
    BY <1>2, CalmLifts
  <2> QED
    BY <2>1 DEF Merged
<1>10. Placed(p, {}) = p
  BY DEF Placed
<1>11. Serialized(p) = p
  BY <1>2, SerializedSame DEF Calm
<1>12. Pass(p, c) = p
  BY <1>4, <1>8, <1>9, <1>10, <1>11
<1>13. Planned(g, c) = p
  BY <1>1, <1>3, <1>12, PlannedPasses
<1> QED
  BY <1>13 DEF p, W

\* Placing labels adds them to an exclude that Plex applies, or as a clause at the end.
LEMMA PlacedIs ==
  ASSUME NEW f \in Seq(Condition), NEW missing \in SUBSET Ours
  PROVE  /\ Placed(f, missing) \in Seq(Condition) /\ Len(Placed(f, missing)) >= Len(f)
         /\ \A i \in 1..Len(f) :
              /\ Placed(f, missing)[i].field = f[i].field /\ Placed(f, missing)[i].op = f[i].op
              /\ Placed(f, missing)[i].sep = f[i].sep
              /\ \/ Placed(f, missing)[i].values = f[i].values
                 \/ /\ Placed(f, missing)[i].values = f[i].values \cup missing
                    /\ IsExclude(f[i]) /\ i \in Enforced(f)
         /\ \A i \in 1..Len(Placed(f, missing)) : i > Len(f) =>
              /\ i = Len(Placed(f, missing)) /\ IsExclude(Placed(f, missing)[i])
              /\ Placed(f, missing)[i].values = missing
<1> DEFINE targets == {i \in Enforced(f) : IsExclude(f[i])}
<1>1. /\ DOMAIN f = 1..Len(f) /\ Len(f) \in Nat /\ Placed(f, missing) \in Seq(Condition)
  <2>1. missing \in SUBSET Labels
    BY DEF Labels
  <2> QED
    BY <2>1, PlacedApplies
<1>2. CASE missing = {}
  <2>1. Placed(f, missing) = f
    BY <1>2 DEF Placed
  <2>2. Len(f) >= Len(f) /\ \A i \in 1..Len(f) : ~(i > Len(f))
    BY <1>1
  <2> QED
    BY <1>1, <2>1, <2>2
<1>3. CASE missing # {} /\ targets # {}
  <2> DEFINE t == Min(targets)
             d == [f[t] EXCEPT !.values = @ \cup missing]
             h == [f EXCEPT ![t].values = @ \cup missing]
  <2>1. t \in targets
    <3>1. targets \in SUBSET Nat
      BY DEF Enforced
    <3> QED
      BY <1>3, <3>1, FirstPosition
  <2>2. t \in 1..Len(f) /\ IsExclude(f[t]) /\ t \in Enforced(f)
    BY <1>1, <2>1 DEF Enforced
  <2>3. Placed(f, missing) = h
    BY <1>3 DEF Placed
  <2> HIDE DEF t
  <2>4. d.field = f[t].field /\ d.op = f[t].op /\ d.sep = f[t].sep /\ d.values = f[t].values \cup missing
    <3>1. f[t] \in Condition
      BY <2>2
    <3> QED
      BY <3>1 DEF Condition
  <2>5. Len(h) = Len(f) /\ h[t] = d /\ \A i \in 1..Len(f) : i # t => h[i] = f[i]
    BY <1>1, <2>2
  <2> HIDE DEF h, d, targets
  <2>6. ASSUME NEW i \in 1..Len(f)
        PROVE  /\ h[i].field = f[i].field /\ h[i].op = f[i].op /\ h[i].sep = f[i].sep
               /\ \/ h[i].values = f[i].values
                  \/ h[i].values = f[i].values \cup missing /\ IsExclude(f[i]) /\ i \in Enforced(f)
    <3>1. CASE i = t
      BY <2>2, <2>4, <2>5, <3>1
    <3>2. CASE i # t
      BY <2>5, <3>2
    <3> QED
      BY <3>1, <3>2
  <2>7. Len(h) >= Len(f) /\ \A i \in 1..Len(h) : ~(i > Len(f))
    BY <1>1, <2>5
  <2> QED
    BY <1>1, <2>3, <2>5, <2>6, <2>7
<1>4. CASE missing # {} /\ targets = {}
  <2> DEFINE h == Append(f, NewExclude(missing))
             n == Len(f) + 1
  <2>1. Placed(f, missing) = h
    BY <1>4 DEF Placed
  <2>2. /\ Len(h) = n /\ h[n] = NewExclude(missing)
        /\ \A i \in 1..Len(f) : h[i] = f[i]
    OBVIOUS
  <2> HIDE DEF h
  <2>3. IsExclude(h[n]) /\ h[n].values = missing
    BY <2>2 DEF NewExclude, IsExclude
  <2>4. \A i \in 1..Len(h) : i > Len(f) => i = n /\ i = Len(h)
    BY <1>1, <2>2
  <2>5. Len(h) >= Len(f)
    BY <1>1, <2>2
  <2> HIDE DEF n, targets
  <2> QED
    BY <1>1, <2>1, <2>2, <2>3, <2>4, <2>5
<1> QED
  BY <1>2, <1>3, <1>4

\* What the prune has taken out it takes out again.
LEMMA RemovedBack ==
  ASSUME NEW g \in Seq(Condition), Len(g) > 0 => g[1].sep = "|",
         NEW labels \in SUBSET Ours, Pruned(g, labels), NEW missing \in SUBSET labels
  PROVE  Removed(Serialized(Placed(g, missing)), labels) = g
<1> DEFINE p == Placed(g, missing)
           h == Serialized(p)
<1>1. missing \in SUBSET Ours /\ Len(g) \in Nat /\ DOMAIN g = 1..Len(g)
  OBVIOUS
<1>2. /\ p \in Seq(Condition) /\ Len(p) >= Len(g)
      /\ \A i \in 1..Len(g) :
           /\ p[i].field = g[i].field /\ p[i].op = g[i].op /\ p[i].sep = g[i].sep
           /\ \/ p[i].values = g[i].values
              \/ p[i].values = g[i].values \cup missing /\ IsExclude(g[i]) /\ i \in Enforced(g)
      /\ \A i \in 1..Len(p) : i > Len(g) => i = Len(p) /\ IsExclude(p[i]) /\ p[i].values = missing
  BY <1>1, PlacedIs
<1> HIDE DEF p
<1>3. /\ h \in Seq(Condition) /\ Len(h) = Len(p) /\ Len(p) \in Nat /\ DOMAIN h = 1..Len(p)
      /\ \A i \in 1..Len(p) : /\ h[i].field = p[i].field /\ h[i].op = p[i].op /\ h[i].values = p[i].values
                              /\ i # 1 => h[i] = p[i]
  BY <1>2, SerializedStays
<1>4. Len(p) > 0 => h[1].sep = "|"
  BY <1>2, SerializedFirst
<1> HIDE DEF h
<1>5. 1..Len(g) \subseteq 1..Len(p) /\ (Len(g) > 0 => Len(p) > 0)
  <2> DEFINE m == Len(g)
             n == Len(p)
  <2>1. m \in Nat /\ n \in Nat /\ n >= m
    BY <1>1, <1>2, <1>3
  <2> HIDE DEF m, n
  <2>2. 1..m \subseteq 1..n /\ (m > 0 => n > 0)
    BY ONLY <2>1
  <2> QED
    BY <2>2 DEF m, n
<1>6. h \in Seq(Condition)
  BY <1>3
<1>7. ASSUME NEW i \in 1..Len(g)
      PROVE  /\ i \in 1..Len(p) /\ h[i] \in Condition /\ g[i] \in Condition
             /\ h[i].field = g[i].field /\ h[i].op = g[i].op /\ h[i].sep = g[i].sep
             /\ \/ h[i].values = g[i].values
                \/ h[i].values = g[i].values \cup missing /\ IsExclude(g[i]) /\ i \in Enforced(g)
  <2>1. i \in 1..Len(p)
    BY <1>5
  <2>2. h[i] \in Condition /\ g[i] \in Condition
    BY <1>3, <2>1
  <2>3. h[i].sep = g[i].sep
    <3>1. CASE i = 1
      <4>1. Len(g) > 0 /\ Len(p) > 0
        BY <1>1, <1>5
      <4> QED
        BY <1>4, <3>1, <4>1
    <3>2. CASE i # 1
      BY <1>2, <1>3, <2>1, <3>2
    <3> QED
      BY <3>1, <3>2
  <2> QED
    BY <1>2, <1>3, <2>1, <2>2, <2>3
<1>8. ASSUME NEW i \in 1..Len(p), i > Len(g)
      PROVE  IsExclude(h[i]) /\ h[i].values \subseteq labels /\ ~KeepsGroups(h, i)
  <2>1. i = Len(p) /\ IsExclude(p[i]) /\ p[i].values = missing
    BY <1>2, <1>8
  <2>2. IsExclude(h[i]) /\ h[i].values = missing
    BY <1>3, <2>1 DEF IsExclude
  <2>3. ~KeepsGroups(h, i)
    <3>1. \A j \in DOMAIN h : ~(j > i)
      BY <1>3, <2>1
    <3> QED
      BY <3>1 DEF KeepsGroups
  <2> QED
    BY <2>2, <2>3
<1>9. PICK s \in Seq(Seq(Condition)) :
        /\ Len(s) = Len(h)
        /\ Removed(h, labels) = Serialized(FlattenSeq(s))
        /\ \A i \in DOMAIN h :
             /\ ~IsExclude(h[i]) => s[i] = <<h[i]>>
             /\ IsExclude(h[i]) /\ ~(h[i].values \subseteq labels) => s[i] = <<Without(h[i], labels)>>
             /\ IsExclude(h[i]) /\ h[i].values \subseteq labels =>
                  \/ s[i] = <<>> /\ ~KeepsGroups(h, i)
                  \/ s[i] = <<h[i]>> /\ KeepsGroups(h, i)
  BY <1>6, RemovedParts
<1>10. ASSUME NEW i \in 1..Len(g), KeepsGroups(g, i) PROVE KeepsGroups(h, i) /\ i \notin Enforced(g)
  <2>1. i > 1 /\ g[i].sep = "&"
    BY <1>10 DEF KeepsGroups
  <2>2. PICK j \in 1..Len(g) : j > i /\ g[j].sep = "|"
    BY <1>1, <1>10 DEF KeepsGroups
  <2>3. j \in DOMAIN h /\ h[j].sep = "|" /\ h[i].sep = "&"
    BY <1>3, <1>7, <2>1, <2>2
  <2>4. i \notin Enforced(g)
    <3>1. j \in i..Len(g) /\ j # 1 /\ g[j].sep # "&"
      BY <1>1, <2>1, <2>2
    <3> QED
      BY <3>1 DEF Enforced
  <2> QED
    BY <2>1, <2>2, <2>3, <2>4 DEF KeepsGroups
<1>11. ASSUME NEW i \in 1..Len(g) PROVE Len(s[i]) = 1 /\ s[i][1] = g[i]
  <2> DEFINE d == h[i]
             e == g[i]
  <2>1. /\ i \in 1..Len(p) /\ d \in Condition /\ e \in Condition
        /\ d.field = e.field /\ d.op = e.op /\ d.sep = e.sep
        /\ \/ d.values = e.values
           \/ d.values = e.values \cup missing /\ IsExclude(e) /\ i \in Enforced(g)
    BY <1>7
  <2>2. /\ ~IsExclude(d) => s[i] = <<d>>
        /\ IsExclude(d) /\ ~(d.values \subseteq labels) => s[i] = <<Without(d, labels)>>
        /\ IsExclude(d) /\ d.values \subseteq labels =>
             \/ s[i] = <<>> /\ ~KeepsGroups(h, i)
             \/ s[i] = <<d>> /\ KeepsGroups(h, i)
    BY <1>3, <1>9, <2>1
  <2>3. IsExclude(e) => e.values \cap labels = {} \/ (e.values \subseteq labels /\ KeepsGroups(g, i))
    BY DEF Pruned
  <2>4. IsExclude(d) <=> IsExclude(e)
    BY <2>1 DEF IsExclude
  <2>5. e.values # {}
    BY <2>1, ConditionNames
  <2>6. KeepsGroups(g, i) => KeepsGroups(h, i) /\ i \notin Enforced(g)
    BY <1>10
  <2> HIDE DEF d, e
  <2>7. \E b : s[i] = <<b>> /\ b = e
    <3>1. CASE ~IsExclude(e)
      <4>1. d = e
        BY <2>1, <3>1, SameCondition
      <4> QED
        BY <2>2, <2>4, <3>1, <4>1
    <3>2. CASE IsExclude(e) /\ e.values \cap labels = {}
      <4> DEFINE b == Without(d, labels)
      <4>1. ~(d.values \subseteq labels) /\ d.values \ labels = e.values
        BY <2>1, <2>5, <3>2
      <4>2. /\ b \in Condition /\ b.field = d.field /\ b.op = d.op /\ b.sep = d.sep
            /\ b.values = d.values \ labels
        BY <2>1, <4>1, WithoutStays
      <4>3. s[i] = <<b>>
        BY <2>2, <2>4, <3>2, <4>1
      <4> HIDE DEF b
      <4>4. b = e
        BY <2>1, <4>1, <4>2, SameCondition
      <4> QED
        BY <4>3, <4>4
    <3>3. CASE IsExclude(e) /\ e.values \subseteq labels /\ KeepsGroups(g, i)
      <4>1. d.values = e.values
        BY <2>1, <2>6, <3>3
      <4>2. d = e
        BY <2>1, <4>1, SameCondition
      <4> QED
        BY <2>2, <2>4, <2>6, <3>3, <4>2
    <3> QED
      BY <2>3, <3>1, <3>2, <3>3
  <2> QED
    BY <2>7, SinglePart DEF e
<1>12. ASSUME NEW i \in 1..Len(s), i > Len(g) PROVE Len(s[i]) = 0
  <2>1. i \in 1..Len(p)
    BY <1>3, <1>9
  <2>2. s[i] = <<>>
    BY <1>3, <1>8, <1>9, <1>12, <2>1
  <2> QED
    BY <2>2
<1>13. FlattenSeq(s) = g
  <2>1. Len(s) >= Len(g)
    BY <1>2, <1>3, <1>9
  <2> QED
    BY <1>11, <1>12, <2>1, SameParts
<1>14. Serialized(g) = g
  BY SerializedSame
<1> QED
  BY <1>9, <1>13, <1>14 DEF h, p

-----------------------------------------------------------------------------
(* The theorem. *)

\* The sync of what it left leaves it.
LEMMA SyncedSettles ==
  ASSUME NEW f \in Seq(Condition), NEW c \in SyncCall, FewOfOurs(f)
  PROVE  Synced(Synced(f, c), c) = Synced(f, c)
<1> DEFINE g == Synced(f, c)
           W == Wanted(c)
           before == Prunable(f, c)
           again == Prunable(g, c)
           missing == (W \cup (ExcludesAt(g, Stray(g)) \cap Ours)) \ Applied(g)
           cut == (IF Own \in c.seen THEN {Own} ELSE {})
                  \cup (IF c.known /\ c.seen # {} THEN (Shared \ W) \cup c.gone ELSE {})
<1>1. before \in SUBSET Ours /\ again \in SUBSET Ours
  BY DEF Prunable, ShortlistLabels
<1>2. g \in Seq(Condition) /\ Calm(g, c) /\ Pruned(g, before)
  <2> HIDE DEF before
  <2>1. Calm(Planned(f, c), c)
    BY PlannedCalm
  <2>2. g = Removed(Planned(f, c), before)
    BY DEF Synced, before
  <2>3. Calm(g, c) /\ Pruned(g, before)
    BY <1>1, <2>1, <2>2, RemovedCalm
  <2> QED
    BY <2>3 DEF Calm
<1>3. before = Excluded(f) \cap Ours \cap cut /\ again = Excluded(g) \cap Ours \cap cut
  <2>1. \A h : Prunable(h, c) = Excluded(h) \cap Ours \cap cut
    BY DEF Prunable, ShortlistLabels, Excluded
  <2> HIDE DEF g
  <2> QED
    BY <2>1
<1>4. W \cup ((Excluded(f) \cap Ours) \ before) \subseteq Applied(g)
  <2>1. ShortlistLabels(f) = Excluded(f) \cap Ours
    BY DEF ShortlistLabels, Excluded
  <2> QED
    BY <2>1, SyncedApplies
<1>5. Excluded(g) \subseteq Excluded(f) \cup W
  BY SyncedExcludes
<1>6. W \cap cut = {}
  <2>1. c.gone \cap c.seen = {}
    BY DEF SyncCall
  <2> QED
    BY <2>1 DEF Wanted
<1>7. Planned(g, c) = Serialized(Placed(g, missing))
  <2> HIDE DEF g
  <2>1. Planned(g, c) = Merged(g, W)
    BY <1>2, CalmPasses
  <2>2. Lifted(g) = g
    BY <1>2, CalmLifts
  <2> QED
    BY <2>1, <2>2 DEF Merged
<1>8. ExcludesAt(g, Stray(g)) \subseteq Excluded(g)
  <2> HIDE DEF g
  <2> QED
    BY DEF ExcludesAt, Excluded, Stray
<1>9. Synced(g, c) = Removed(Planned(g, c), again)
  <2> HIDE DEF g
  <2> QED
    BY DEF Synced
<1> DEFINE parts == ExcludesAt(g, Stray(g))
<1>10. again \subseteq before
  <2> HIDE DEF g, before, again, W, cut
  <2> QED
    BY <1>3, <1>5, <1>6
<1>11. missing \subseteq again
  <2>1. missing = (W \cup (parts \cap Ours)) \ Applied(g)
    OBVIOUS
  <2> HIDE DEF g, before, again, W, cut, missing, parts
  <2> QED
    BY <1>3, <1>4, <1>5, <1>8, <2>1 DEF parts
<1>12. Pruned(g, again)
  <2> HIDE DEF g, before, again, W, cut, missing, parts
  <2>1. \A i \in 1..Len(g) : IsExclude(g[i]) => g[i].values \subseteq Excluded(g)
    <3>1. DOMAIN g = 1..Len(g)
      BY <1>2
    <3> QED
      BY <3>1 DEF Excluded, ExcludesAt
  <2> SUFFICES ASSUME NEW i \in 1..Len(g), IsExclude(g[i])
               PROVE  \/ g[i].values \cap again = {}
                      \/ g[i].values \subseteq again /\ KeepsGroups(g, i)
    BY DEF Pruned
  <2>2. \/ g[i].values \cap before = {}
        \/ g[i].values \subseteq before /\ KeepsGroups(g, i)
    BY <1>2 DEF Pruned
  <2>3. g[i].values \subseteq before => g[i].values \subseteq again
    BY <1>3, <2>1
  <2> QED
    BY <1>10, <2>2, <2>3
<1>13. Removed(Serialized(Placed(g, missing)), again) = g
  <2> HIDE DEF g, before, again, W, cut, missing, parts
  <2>1. Len(g) > 0 => g[1].sep = "|"
    BY <1>2 DEF Calm
  <2> QED
    BY <1>1, <1>2, <1>11, <1>12, <2>1, RemovedBack
<1>14. Synced(g, c) = g
  BY <1>7, <1>9, <1>13
<1> QED
  BY <1>14

\* The same pass over a filter it has written writes it as it is (SyncSettles: the steady state
\* of sync_user_restrictions makes no writes).
THEOREM SyncsSettle == Spec => SyncSettles
<1>1. TypeOK /\ [Next]_vars => [Syncs /\ FewOfOurs(filter) => Synced(filter', call) = filter']_vars
  <2> SUFFICES ASSUME TypeOK, Next, call \in SyncCall, FewOfOurs(filter)
               PROVE  Synced(filter', call) = filter'
    BY DEF Syncs
  <2>1. filter' = Synced(filter, call) /\ filter \in Seq(Condition)
    BY SyncStep DEF TypeOK
  <2> QED
    BY <2>1, SyncedSettles
<1> QED
  BY <1>1, TypeCorrect, PTL DEF Spec, SyncSettles

=============================================================================
