--------------------- MODULE ShareFilterHandBackProofs ---------------------
(***************************************************************************)
(* The owner's filter comes back as it was, however long it is and whatever *)
(* syncs and clears came between.  The invariant follows the owner's own    *)
(* conditions to the positions where the rewritings have carried them:      *)
(* between them stand only alternatives that admit the own row, and behind  *)
(* them at most one clause that excludes labels of ours.                    *)
(***************************************************************************)
EXTENDS ShareFilterProofs

\* What is known of a condition.
LEMMA ConditionNames ==
  ASSUME NEW c \in Condition
  PROVE  /\ c.field \in Fields /\ c.op \in {"=", "!="} /\ c.sep \in {"|", "&"}
         /\ c.values # {}
         /\ c.field = "contentRating" => c.values \cap Ours = {}
<1>1. NamesItsOwn(c) /\ c.field \in Fields /\ c.op \in {"=", "!="} /\ c.sep \in {"|", "&"}
  BY DEF Condition
<1>2. Ratings \cap Ours = {}
  BY ShareFilterAssumption DEF Labels
<1> QED
  BY <1>1, <1>2 DEF NamesItsOwn

\* c is the owner's condition d, and holds no labels besides but ours: any in an exclude, the own
\* one in an allow list.
OfOwner(c, d) ==
  /\ c.field = d.field /\ c.op = d.op
  /\ c.values \ Ours = d.values
  /\ IsExclude(c) \/ c.values \subseteq d.values \cup {Own}

\* An alternative to what stands before it, that admits the own row.
Alternative(f, p) == p > 1 /\ OwnOnly(f[p]) /\ f[p].sep = "|"

\* The clause of ours behind all the rest.
Behind(f, p) ==
  /\ p = Len(f)
  /\ IsExclude(f[p]) /\ f[p].values \subseteq Ours
  /\ p = 1 \/ f[p].sep = "&"

\* f is t with labels of ours: pos says where its conditions stand.
Carries(f, t, pos) ==
  /\ pos \in [1..Len(t) -> 1..Len(f)]
  /\ \A i, j \in 1..Len(t) : i < j => pos[i] < pos[j]
  /\ \A i \in 1..Len(t) : OfOwner(f[pos[i]], t[i]) /\ (i > 1 => f[pos[i]].sep = t[i].sep)
  /\ \A p \in 1..Len(f) : \/ \E i \in 1..Len(t) : p = pos[i]
                          \/ Alternative(f, p)
                          \/ Behind(f, p)

Carried(f, t) == \E pos : Carries(f, t, pos)

\* A filter as its owner wrote it, with nothing of ours in it.
OwnersFilter(t) ==
  /\ t \in Seq(Condition)
  /\ \A i \in 1..Len(t) : t[i].values \cap Ours = {}
  /\ Len(t) > 0 => t[1].sep = "|"

\* The first of the owner's conditions is the first of all.
LEMMA FirstCarried ==
  ASSUME NEW f \in Seq(Condition), NEW t \in Seq(Condition), NEW pos, Carries(f, t, pos)
  PROVE  /\ Len(t) >= 1 => Len(f) >= 1 /\ pos[1] = 1
         /\ \A i \in 1..Len(t) : pos[i] \in 1..Len(f) /\ (i > 1 => pos[i] > 1)
         /\ Len(t) = 0 => Len(f) =< 1
<1>1. /\ Len(f) \in Nat /\ Len(t) \in Nat
      /\ pos \in [1..Len(t) -> 1..Len(f)]
      /\ \A i, j \in 1..Len(t) : i < j => pos[i] < pos[j]
      /\ \A p \in 1..Len(f) : \/ \E i \in 1..Len(t) : p = pos[i]
                              \/ Alternative(f, p)
                              \/ Behind(f, p)
  BY DEF Carries
<1>2. Len(f) >= 1 => (\E i \in 1..Len(t) : 1 = pos[i]) \/ Len(f) = 1
  <2> HAVE Len(f) >= 1
  <2>1. 1 \in 1..Len(f)
    BY <1>1
  <2>2. ~Alternative(f, 1)
    BY DEF Alternative
  <2>3. Behind(f, 1) => Len(f) = 1
    BY DEF Behind
  <2> QED
    BY <1>1, <2>1, <2>2, <2>3
<1>3. ASSUME Len(t) >= 1 PROVE Len(f) >= 1 /\ pos[1] = 1
  <2>1. 1 \in 1..Len(t)
    BY <1>1, <1>3
  <2>2. pos[1] \in 1..Len(f)
    BY <1>1, <2>1
  <2>3. CASE Len(f) = 1
    BY <2>2, <2>3
  <2>4. CASE \E i \in 1..Len(t) : 1 = pos[i]
    <3>1. PICK i \in 1..Len(t) : 1 = pos[i]
      BY <2>4
    <3>2. i = 1 \/ pos[1] < pos[i]
      BY <1>1, <2>1, <3>1
    <3> QED
      BY <2>2, <3>1, <3>2
  <2> QED
    BY <1>1, <1>2, <2>2, <2>3, <2>4
<1>4. \A i \in 1..Len(t) : pos[i] \in 1..Len(f) /\ (i > 1 => pos[i] > 1)
  <2> TAKE i \in 1..Len(t)
  <2>1. pos[i] \in 1..Len(f) /\ 1 \in 1..Len(t)
    BY <1>1
  <2>2. i > 1 => pos[1] < pos[i] /\ pos[1] = 1
    BY <1>1, <1>3, <2>1
  <2> QED
    BY <2>1, <2>2
<1>5. ASSUME Len(t) = 0 PROVE Len(f) =< 1
  <2>1. ~\E i \in 1..Len(t) : 1 = pos[i]
    BY <1>5
  <2>2. Len(f) >= 1 => Len(f) = 1
    BY <1>2, <2>1
  <2> DEFINE n == Len(f)
  <2>3. n \in Nat /\ (n >= 1 => n = 1)
    BY <1>1, <2>2
  <2> HIDE DEF n
  <2>4. n =< 1
    BY ONLY <2>3
  <2> QED
    BY <2>4 DEF n
<1> QED
  BY <1>3, <1>4, <1>5

-----------------------------------------------------------------------------
(* One rewriting carries the owner's conditions along. *)

\* d stands for c: it may differ by labels of ours.
Stands(d, c) ==
  /\ d.field = c.field /\ d.op = c.op
  /\ d.values \ Ours = c.values \ Ours
  /\ IsExclude(c) \/ d.values \subseteq c.values \cup {Own}

\* What stands for a condition of the owner's is of the owner's.
LEMMA StandsForOwner ==
  ASSUME NEW c, NEW d, NEW e, OfOwner(c, e), Stands(d, c)
  PROVE  OfOwner(d, e)
  BY DEF OfOwner, Stands, IsExclude

\* What stands for a condition that only admits the own row only admits it.
LEMMA StandsForOwn ==
  ASSUME NEW c, NEW d \in Condition, OwnOnly(c), Stands(d, c)
  PROVE  OwnOnly(d)
<1>1. d.values # {}
  BY ConditionNames
<1> QED
  BY <1>1 DEF OwnOnly, Stands, IsExclude, IsLabelAllow

\* What stands for an exclude of labels of ours is one.
LEMMA StandsForOurs ==
  ASSUME NEW c, NEW d, IsExclude(c), c.values \subseteq Ours, Stands(d, c)
  PROVE  IsExclude(d) /\ d.values \subseteq Ours
  BY DEF Stands, IsExclude

\* What the parts of a rewriting keep: something for every condition that is not of ours alone, with its
\* separator; and what follows one is an alternative of the own row's.
KeepsOwners(s, f) ==
  /\ Len(s) = Len(f)
  /\ \A p \in 1..Len(f) :
       /\ ~(f[p].values \subseteq Ours) => Len(s[p]) >= 1
       /\ Len(s[p]) >= 1 => Stands(s[p][1], f[p]) /\ (p > 1 => s[p][1].sep = f[p].sep)
       /\ \A k \in 2..Len(s[p]) : OwnOnly(s[p][k]) /\ s[p][k].sep = "|" /\ ~Behind(f, p)

\* Parts that keep them, laid end to end, carry the owner's conditions.
LEMMA CarriedAlong ==
  ASSUME NEW f \in Seq(Condition), NEW t, OwnersFilter(t), Carried(f, t),
         NEW s \in Seq(Seq(Condition)), KeepsOwners(s, f)
  PROVE  FlattenSeq(s) \in Seq(Condition) /\ Carried(FlattenSeq(s), t)
<1> DEFINE r == FlattenSeq(s)
           N == Len(f)
           M == Len(t)
           C == Condition
<1>1. r \in Seq(C)
  BY FlattenLays
<1>2. PICK at : Laid(r, s, at)
  BY FlattenLays
<1>3. Covers(r, s, at)
  BY <1>1, <1>2, LaidCovers
<1>4. PICK pos : Carries(f, t, pos)
  BY DEF Carried
<1>5. /\ pos \in [1..M -> 1..N]
      /\ \A i, j \in 1..M : i < j => pos[i] < pos[j]
      /\ \A i \in 1..M : OfOwner(f[pos[i]], t[i]) /\ (i > 1 => f[pos[i]].sep = t[i].sep)
      /\ \A p \in 1..N : (\E i \in 1..M : p = pos[i]) \/ Alternative(f, p) \/ Behind(f, p)
  BY <1>4 DEF Carries
<1>6. t \in Seq(Condition)
  BY DEF OwnersFilter
<1>7. /\ M >= 1 => N >= 1 /\ pos[1] = 1
      /\ \A i \in 1..M : i > 1 => pos[i] > 1
      /\ M = 0 => N =< 1
  BY <1>4, <1>6, FirstCarried
<1>8. M \in Nat /\ N \in Nat /\ Len(s) = N /\ Len(r) \in Nat
  BY <1>1, <1>6 DEF KeepsOwners
<1>9. \A p \in 1..N :
        /\ ~(f[p].values \subseteq Ours) => Len(s[p]) >= 1
        /\ Len(s[p]) >= 1 => Stands(s[p][1], f[p]) /\ (p > 1 => s[p][1].sep = f[p].sep)
        /\ \A k \in 2..Len(s[p]) : OwnOnly(s[p][k]) /\ s[p][k].sep = "|" /\ ~Behind(f, p)
  BY DEF KeepsOwners
<1>10. /\ at \in [0..N -> Nat] /\ at[0] = 0 /\ Len(r) = at[N]
       /\ \A p \in 1..N : at[p] = at[p - 1] + Len(s[p])
       /\ \A p \in 1..N : \A k \in 1..Len(s[p]) : r[at[p - 1] + k] = s[p][k]
       /\ \A i, j \in 0..N : i =< j => at[i] =< at[j]
       /\ \A x \in 1..Len(r) : \E p \in 1..N :
            x - at[p - 1] \in 1..Len(s[p]) /\ r[x] = s[p][x - at[p - 1]]
  BY <1>2, <1>3, <1>8 DEF Laid, Ends, Covers
<1>11. \A p \in 1..N : s[p] \in Seq(C) /\ Len(s[p]) \in Nat /\ at[p - 1] \in Nat /\ at[p] \in Nat
                       /\ at[p - 1] + Len(s[p]) =< Len(r)
  <2> TAKE p \in 1..N
  <2>1. p - 1 \in 0..N /\ p \in 0..N /\ N \in 0..N /\ p =< N
    BY <1>8
  <2>2. s[p] \in Seq(C) /\ Len(s[p]) \in Nat
    BY <1>8
  <2>3. at[p] =< at[N] /\ at[p] = at[p - 1] + Len(s[p])
    BY <1>10, <2>1
  <2> QED
    BY <1>10, <2>1, <2>2, <2>3
<1> HIDE DEF r, N, M, C
<1>12. \A i \in 1..M : pos[i] \in 1..N /\ Len(s[pos[i]]) >= 1
  <2> TAKE i \in 1..M
  <2>1. pos[i] \in 1..N /\ OfOwner(f[pos[i]], t[i])
    BY <1>5
  <2>2. t[i] \in Condition
    BY <1>6 DEF M
  <2>3. ~(f[pos[i]].values \subseteq Ours)
    BY <2>1, <2>2, ConditionNames DEF OfOwner
  <2> QED
    BY <1>9, <2>1, <2>3
<1> DEFINE q == [i \in 1..M |-> at[pos[i] - 1] + 1]
<1>13. q \in [1..M -> 1..Len(r)]
  <2> SUFFICES ASSUME NEW i \in 1..M PROVE at[pos[i] - 1] + 1 \in 1..Len(r)
    OBVIOUS
  <2>1. PICK p \in 1..N : p = pos[i]
    BY <1>12
  <2>2. Len(s[p]) >= 1
    BY <1>12, <2>1
  <2>3. at[p - 1] \in Nat /\ Len(s[p]) \in Nat /\ at[p - 1] + Len(s[p]) =< Len(r)
    BY <1>11, <2>1
  <2>4. at[p - 1] + 1 \in 1..Len(r)
    BY ONLY <1>8, <2>2, <2>3
  <2> QED
    BY <2>1, <2>4
<1>14. \A i \in 1..M : q[i] = at[pos[i] - 1] + 1 /\ r[q[i]] = s[pos[i]][1]
  <2> TAKE i \in 1..M
  <2>1. q[i] = at[pos[i] - 1] + 1
    OBVIOUS
  <2>2. pos[i] \in 1..N /\ 1 \in 1..Len(s[pos[i]])
    <3>1. pos[i] \in 1..N /\ Len(s[pos[i]]) >= 1
      BY <1>12
    <3>2. Len(s[pos[i]]) \in Nat
      BY <1>11, <3>1
    <3> QED
      BY <3>1, <3>2
  <2> QED
    BY <1>10, <2>1, <2>2
<1> HIDE DEF q
<1>15. \A i, j \in 1..M : i < j => q[i] < q[j]
  <2> SUFFICES ASSUME NEW i \in 1..M, NEW j \in 1..M, i < j PROVE q[i] < q[j]
    OBVIOUS
  <2>1. PICK a \in 1..N : a = pos[i]
    BY <1>12
  <2>2. PICK b \in 1..N : b = pos[j]
    BY <1>12
  <2>3. a < b
    BY <1>5, <2>1, <2>2
  <2>4. a \in 0..N /\ b - 1 \in 0..N /\ a =< b - 1
    BY <1>8, <2>3
  <2>5. at[a] =< at[b - 1] /\ at[a] = at[a - 1] + Len(s[a])
    BY <1>10, <2>4
  <2>6. at[a - 1] \in Nat /\ at[b - 1] \in Nat /\ Len(s[a]) \in Nat /\ Len(s[a]) >= 1
    BY <1>11, <1>12, <2>1
  <2>7. q[i] = at[a - 1] + 1 /\ q[j] = at[b - 1] + 1
    BY <1>14, <2>1, <2>2
  <2> DEFINE u == at[a - 1]
             v == at[b - 1]
             w == Len(s[a])
  <2>8. u \in Nat /\ v \in Nat /\ w \in Nat /\ w >= 1 /\ u + w =< v
    BY <2>5, <2>6
  <2>9. q[i] = u + 1 /\ q[j] = v + 1
    BY <2>7
  <2> HIDE DEF u, v, w
  <2> QED
    BY ONLY <2>8, <2>9
<1>16. \A i \in 1..M : OfOwner(r[q[i]], t[i]) /\ (i > 1 => r[q[i]].sep = t[i].sep)
  <2> TAKE i \in 1..M
  <2>1. PICK p \in 1..N : p = pos[i]
    BY <1>12
  <2>2. Stands(s[p][1], f[p]) /\ (p > 1 => s[p][1].sep = f[p].sep)
    BY <1>9, <1>12, <2>1
  <2>3. OfOwner(f[p], t[i]) /\ (i > 1 => p > 1 /\ f[p].sep = t[i].sep)
    BY <1>5, <1>7, <2>1
  <2>4. r[q[i]] = s[p][1]
    BY <1>14, <2>1
  <2> QED
    BY <2>2, <2>3, <2>4, StandsForOwner
<1>17. ASSUME NEW x \in 1..Len(r)
       PROVE  (\E i \in 1..M : x = q[i]) \/ Alternative(r, x) \/ Behind(r, x)
  <2>1. PICK p \in 1..N : x - at[p - 1] \in 1..Len(s[p]) /\ r[x] = s[p][x - at[p - 1]]
    BY <1>10, <1>17
  <2>2. at[p - 1] \in Nat /\ Len(s[p]) \in Nat /\ s[p] \in Seq(C) /\ at[p] \in Nat
    BY <1>11
  <2>3. x \in Nat
    BY <1>8, <1>17
  <2>4. CASE x - at[p - 1] >= 2
    <3>1. x - at[p - 1] \in 2..Len(s[p])
      BY <2>1, <2>4
    <3>2. OwnOnly(r[x]) /\ r[x].sep = "|"
      BY <1>9, <2>1, <3>1
    <3>3. x > 1
      BY ONLY <2>2, <2>4, <1>17, <1>8
    <3> QED
      BY <3>2, <3>3 DEF Alternative
  <2>5. CASE x - at[p - 1] = 1
    <3>1. x = at[p - 1] + 1 /\ r[x] = s[p][1] /\ Len(s[p]) >= 1
      <4> DEFINE u == at[p - 1]
                 w == Len(s[p])
      <4>1. u \in Nat /\ w \in Nat /\ x \in Nat /\ x - u = 1 /\ x - u \in 1..w
        BY <2>1, <2>2, <2>3, <2>5
      <4>2. r[x] = s[p][x - u]
        BY <2>1
      <4> HIDE DEF u, w
      <4>3. x = u + 1 /\ w >= 1
        BY ONLY <4>1
      <4>4. r[x] = s[p][1]
        BY <4>1, <4>2
      <4> QED
        BY <4>3, <4>4 DEF u, w
    <3>2. Stands(r[x], f[p]) /\ (p > 1 => r[x].sep = f[p].sep)
      BY <1>9, <3>1
    <3>3. r[x] \in Condition
      BY <2>2, <3>1 DEF C
    <3>4. CASE \E i \in 1..M : p = pos[i]
      <4>1. PICK i \in 1..M : p = pos[i]
        BY <3>4
      <4>2. q[i] = at[p - 1] + 1
        BY <1>14, <4>1
      <4> QED
        BY <3>1, <4>1, <4>2
    <3>5. CASE Alternative(f, p)
      <4>1. OwnOnly(r[x]) /\ r[x].sep = "|" /\ p > 1
        BY <3>2, <3>3, <3>5, StandsForOwn DEF Alternative
      <4>2. N > 1 /\ M # 0
        BY <1>7, <1>8, <4>1
      <4>3. 1 \in 1..M /\ pos[1] = 1 /\ 1 \in 1..N
        BY <1>7, <1>8, <4>2
      <4>4. Len(s[1]) >= 1 /\ Len(s[1]) \in Nat
        BY <1>11, <1>12, <4>3
      <4>5. at[1] = at[0] + Len(s[1])
        BY <1>10, <4>3
      <4>6. at[1] =< at[p - 1]
        <5>1. 1 \in 0..N /\ p - 1 \in 0..N /\ 1 =< p - 1
          BY <1>8, <4>1, <4>2
        <5> QED
          BY <1>10, <5>1
      <4>7. x > 1
        BY <1>10, <2>2, <3>1, <4>4, <4>5, <4>6
      <4> QED
        BY <4>1, <4>7 DEF Alternative
    <3>6. CASE Behind(f, p)
      <4>1. p = N /\ IsExclude(f[p]) /\ f[p].values \subseteq Ours /\ (p = 1 \/ f[p].sep = "&")
        BY <3>6 DEF Behind, N
      <4>2. IsExclude(r[x]) /\ r[x].values \subseteq Ours
        BY <3>2, <4>1, StandsForOurs
      <4>3. Len(s[p]) = 1
        <5>1. \A k \in 2..Len(s[p]) : FALSE
          BY <1>9, <3>6
        <5>2. ~(2 =< Len(s[p]))
          BY <2>2, <5>1
        <5>3. Len(s[p]) \in Nat /\ Len(s[p]) >= 1
          BY <2>2, <3>1
        <5> DEFINE n == Len(s[p])
        <5>4. n \in Nat /\ n >= 1 /\ ~(2 =< n)
          BY <5>2, <5>3
        <5> HIDE DEF n
        <5>5. n = 1
          BY ONLY <5>4
        <5> QED
          BY <5>5 DEF n
      <4>4. at[p] = at[p - 1] + Len(s[p])
        BY <1>10
      <4>5. x = Len(r)
        BY <1>10, <3>1, <4>1, <4>3, <4>4
      <4>6. x = 1 \/ r[x].sep = "&"
        <5>1. CASE p = 1
          <6>1. at[p - 1] = 0
            BY <1>10, <5>1
          <6> QED
            BY <3>1, <6>1
        <5>2. CASE p # 1
          BY <3>2, <4>1, <5>2
        <5> QED
          BY <5>1, <5>2
      <4> QED
        BY <4>2, <4>5, <4>6 DEF Behind
    <3> QED
      BY <1>5, <3>4, <3>5, <3>6
  <2>6. x - at[p - 1] >= 2 \/ x - at[p - 1] = 1
    <3> DEFINE u == at[p - 1]
               w == Len(s[p])
    <3>1. u \in Nat /\ w \in Nat /\ x \in Nat /\ x - u \in 1..w
      BY <2>1, <2>2, <2>3
    <3> HIDE DEF u, w
    <3>2. x - u >= 2 \/ x - u = 1
      BY ONLY <3>1
    <3> QED
      BY <3>2 DEF u
  <2> QED
    BY <2>4, <2>5, <2>6
<1>18. Carries(r, t, q)
  BY <1>13, <1>15, <1>16, <1>17 DEF Carries, M
<1> QED
  BY <1>1, <1>18 DEF Carried, r, C

\* So does replacing the conditions one by one.
LEMMA CarriedAlike ==
  ASSUME NEW f \in Seq(Condition), NEW h \in Seq(Condition), NEW t, OwnersFilter(t), Carried(f, t),
         Len(h) = Len(f),
         \A p \in 1..Len(f) : Stands(h[p], f[p]) /\ (p > 1 => h[p].sep = f[p].sep)
  PROVE  Carried(h, t)
<1>1. PICK pos : Carries(f, t, pos)
  BY DEF Carried
<1>2. t \in Seq(Condition)
  BY DEF OwnersFilter
<1>3. \A i \in 1..Len(t) : pos[i] \in 1..Len(f) /\ (i > 1 => pos[i] > 1)
  BY <1>1, <1>2, FirstCarried
<1>4. /\ pos \in [1..Len(t) -> 1..Len(h)]
      /\ \A i, j \in 1..Len(t) : i < j => pos[i] < pos[j]
  BY <1>1 DEF Carries
<1>5. \A i \in 1..Len(t) : OfOwner(h[pos[i]], t[i]) /\ (i > 1 => h[pos[i]].sep = t[i].sep)
  <2> TAKE i \in 1..Len(t)
  <2>1. PICK p \in 1..Len(f) : p = pos[i]
    BY <1>3
  <2>2. OfOwner(f[p], t[i]) /\ (i > 1 => p > 1 /\ f[p].sep = t[i].sep)
    BY <1>1, <1>3, <2>1 DEF Carries
  <2>3. Stands(h[p], f[p]) /\ (p > 1 => h[p].sep = f[p].sep)
    OBVIOUS
  <2> QED
    BY <2>1, <2>2, <2>3, StandsForOwner
<1>6. ASSUME NEW p \in 1..Len(h)
      PROVE  (\E i \in 1..Len(t) : p = pos[i]) \/ Alternative(h, p) \/ Behind(h, p)
  <2>1. p \in 1..Len(f) /\ Stands(h[p], f[p]) /\ (p > 1 => h[p].sep = f[p].sep) /\ h[p] \in Condition
    BY <1>6
  <2>2. (\E i \in 1..Len(t) : p = pos[i]) \/ Alternative(f, p) \/ Behind(f, p)
    BY <1>1, <2>1 DEF Carries
  <2>3. CASE Alternative(f, p)
    BY <2>1, <2>3, StandsForOwn DEF Alternative
  <2>4. CASE Behind(f, p)
    <3>1. p = Len(f) /\ IsExclude(f[p]) /\ f[p].values \subseteq Ours /\ (p = 1 \/ f[p].sep = "&")
      BY <2>4 DEF Behind
    <3>2. IsExclude(h[p]) /\ h[p].values \subseteq Ours
      BY <2>1, <3>1, StandsForOurs
    <3>3. p = 1 \/ h[p].sep = "&"
      BY <2>1, <3>1
    <3> QED
      BY <3>1, <3>2, <3>3 DEF Behind
  <2> QED
    BY <2>2, <2>3, <2>4
<1>7. Carries(h, t, pos)
  BY <1>4, <1>5, <1>6 DEF Carries
<1> QED
  BY <1>7 DEF Carried

\* Nor does writing the filter out move any.
LEMMA SerializedCarried ==
  ASSUME NEW f \in Seq(Condition), NEW t, OwnersFilter(t), Carried(f, t)
  PROVE  Serialized(f) \in Seq(Condition) /\ Carried(Serialized(f), t)
<1> DEFINE h == Serialized(f)
<1>1. /\ h \in Seq(Condition) /\ Len(h) = Len(f)
      /\ \A i \in DOMAIN f : /\ h[i].field = f[i].field /\ h[i].op = f[i].op /\ h[i].values = f[i].values
                             /\ i # 1 => h[i] = f[i]
  BY SerializedStays
<1> HIDE DEF h
<1>2. \A p \in 1..Len(f) : Stands(h[p], f[p]) /\ (p > 1 => h[p].sep = f[p].sep)
  BY <1>1 DEF Stands
<1>3. Carried(h, t)
  BY <1>1, <1>2, CarriedAlike
<1> QED
  BY <1>1, <1>3 DEF h

-----------------------------------------------------------------------------
(* Where the labels of ours are. *)

\* Plex applies every exclude of ours.
Tidy(f) == \A p \in DOMAIN f : IsExclude(f[p]) /\ f[p].values \cap Ours # {} => p \in Enforced(f)

\* The parts are conditions or nothing, under the separators they had, and hold labels of ours in
\* excludes that Plex applied.
StaysTidy(s, f) ==
  /\ Len(s) = Len(f)
  /\ \A p \in 1..Len(f) :
       /\ Len(s[p]) =< 1
       /\ Len(s[p]) = 1 =>
            /\ p > 1 => s[p][1].sep = f[p].sep
            /\ IsExclude(s[p][1]) /\ s[p][1].values \cap Ours # {} => p \in Enforced(f)

\* Such parts, laid end to end, are a tidy filter.
LEMMA PartsTidy ==
  ASSUME NEW f \in Seq(Condition), NEW s \in Seq(Seq(Condition)), StaysTidy(s, f)
  PROVE  Tidy(FlattenSeq(s))
<1> DEFINE r == FlattenSeq(s)
           N == Len(f)
           C == Condition
<1>1. r \in Seq(C)
  BY FlattenLays
<1>2. PICK at : Laid(r, s, at)
  BY FlattenLays
<1>3. Covers(r, s, at)
  BY <1>1, <1>2, LaidCovers
<1>4. N \in Nat /\ Len(s) = N /\ Len(r) \in Nat /\ DOMAIN r = 1..Len(r) /\ DOMAIN f = 1..N
  BY <1>1 DEF StaysTidy
<1>5. \A p \in 1..N :
        /\ Len(s[p]) =< 1
        /\ Len(s[p]) = 1 =>
             /\ p > 1 => s[p][1].sep = f[p].sep
             /\ IsExclude(s[p][1]) /\ s[p][1].values \cap Ours # {} => p \in Enforced(f)
  BY DEF StaysTidy
<1>6. /\ at \in [0..N -> Nat] /\ at[0] = 0
      /\ \A p \in 1..N : at[p] = at[p - 1] + Len(s[p])
      /\ \A i, j \in 0..N : i =< j => at[i] =< at[j]
      /\ \A x \in 1..Len(r) : \E p \in 1..N :
           x - at[p - 1] \in 1..Len(s[p]) /\ r[x] = s[p][x - at[p - 1]]
  BY <1>2, <1>3, <1>4 DEF Laid, Ends, Covers
<1>7. \A p \in 1..N : Len(s[p]) \in Nat /\ at[p - 1] \in Nat /\ at[p] \in Nat /\ p \in 0..N /\ p - 1 \in 0..N
  <2> TAKE p \in 1..N
  <2>1. p \in 0..N /\ p - 1 \in 0..N
    BY <1>4
  <2>2. s[p] \in Seq(C)
    BY <1>4
  <2>3. Len(s[p]) \in Nat
    BY <2>2
  <2>4. at \in [0..N -> Nat]
    BY <1>6
  <2>5. at[p] \in Nat /\ at[p - 1] \in Nat
    BY <2>1, <2>4
  <2> QED
    BY <2>1, <2>3, <2>5
<1> HIDE DEF r, N, C
<1>8. \A x \in 1..Len(r) : \E p \in 1..N :
        /\ x = at[p - 1] + 1 /\ at[p] = at[p - 1] + 1
        /\ Len(s[p]) = 1 /\ r[x] = s[p][1]
  <2> TAKE x \in 1..Len(r)
  <2>1. PICK p \in 1..N : x - at[p - 1] \in 1..Len(s[p]) /\ r[x] = s[p][x - at[p - 1]]
    BY <1>6
  <2> DEFINE u == at[p - 1]
             w == Len(s[p])
  <2>2. u \in Nat /\ w \in Nat /\ w =< 1 /\ x - u \in 1..w /\ x \in Nat
    BY <1>4, <1>5, <1>7, <2>1
  <2>3. r[x] = s[p][x - u] /\ at[p] = u + w
    BY <1>6, <2>1
  <2> HIDE DEF u, w
  <2>4. w = 1 /\ x - u = 1 /\ x = u + 1
    BY ONLY <2>2
  <2>5. r[x] = s[p][1] /\ at[p] = u + 1
    BY <2>3, <2>4
  <2> QED
    BY <2>4, <2>5 DEF u, w
<1>9. SUFFICES ASSUME NEW x \in 1..Len(r), IsExclude(r[x]), r[x].values \cap Ours # {},
                      NEW y \in x..Len(r)
               PROVE  y = 1 \/ r[y].sep = "&"
  BY <1>4 DEF Tidy, Enforced, r
<1>10. PICK p \in 1..N : x = at[p - 1] + 1 /\ Len(s[p]) = 1 /\ r[x] = s[p][1]
  BY <1>8
<1>11. p \in Enforced(f)
  BY <1>5, <1>9, <1>10
<1>12. y \in 1..Len(r) /\ x =< y
  BY <1>4
<1>13. PICK j \in 1..N : y = at[j - 1] + 1 /\ at[j] = at[j - 1] + 1 /\ Len(s[j]) = 1 /\ r[y] = s[j][1]
  BY <1>8, <1>12
<1>14. ~(j < p)
  <2> SUFFICES ASSUME j < p PROVE FALSE
    OBVIOUS
  <2>1. j \in 0..N /\ p - 1 \in 0..N /\ j =< p - 1
    BY <1>4, <1>7
  <2>2. at[j] =< at[p - 1] /\ at[p - 1] \in Nat /\ at[j] \in Nat
    BY <1>6, <1>7, <2>1
  <2> DEFINE u == at[p - 1]
             v == at[j]
  <2>3. u \in Nat /\ v =< u /\ x = u + 1 /\ y = v /\ x =< y /\ v \in Nat
    BY <1>10, <1>12, <1>13, <2>2
  <2> HIDE DEF u, v
  <2> QED
    BY ONLY <2>3
<1>15. j \in p..Len(f)
  BY <1>4, <1>14 DEF N
<1>16. j = 1 \/ f[j].sep = "&"
  BY <1>11, <1>15 DEF Enforced
<1>17. CASE j = 1
  <2>1. at[j - 1] = 0
    BY <1>6, <1>17
  <2> QED
    BY <1>13, <2>1
<1>18. CASE j # 1
  <2>1. j > 1
    BY <1>4, <1>18
  <2> QED
    BY <1>5, <1>13, <1>16, <1>18, <2>1
<1> QED
  BY <1>17, <1>18

\* Writing a tidy filter out leaves it tidy.
LEMMA SerializedTidy ==
  ASSUME NEW f \in Seq(Condition), Tidy(f)
  PROVE  Tidy(Serialized(f))
<1> DEFINE h == Serialized(f)
<1>1. /\ h \in Seq(Condition) /\ Len(h) = Len(f)
      /\ \A i \in DOMAIN f : h[i].field = f[i].field /\ h[i].op = f[i].op /\ h[i].values = f[i].values
      /\ Enforced(h) = Enforced(f)
  BY SerializedStays
<1>2. DOMAIN h = DOMAIN f
  BY <1>1
<1> HIDE DEF h
<1>3. Tidy(h)
  BY <1>1, <1>2 DEF Tidy, IsExclude
<1> QED
  BY <1>3 DEF h


-----------------------------------------------------------------------------
(* Each rewriting keeps what is the owner's. *)

\* A part of one condition.
LEMMA SinglePart ==
  ASSUME NEW part, NEW d, part = <<d>>
  PROVE  Len(part) = 1 /\ part[1] = d /\ 2..Len(part) = {}
OBVIOUS

\* A condition stands for itself.
LEMMA StandsForItself ==
  ASSUME NEW c
  PROVE  Stands(c, c)
BY DEF Stands

\* Taking labels of ours out of an exclude.
LEMMA WithoutStands ==
  ASSUME NEW c \in Condition, NEW labels \in SUBSET Ours, IsExclude(c), ~(c.values \subseteq labels)
  PROVE  /\ Without(c, labels) \in Condition
         /\ Stands(Without(c, labels), c) /\ Without(c, labels).sep = c.sep
         /\ Without(c, labels).values = c.values \ labels
<1>1. /\ Without(c, labels) \in Condition
      /\ Without(c, labels).field = c.field
      /\ Without(c, labels).op = c.op
      /\ Without(c, labels).sep = c.sep
      /\ Without(c, labels).values = c.values \ labels
  BY WithoutStays
<1> DEFINE d == Without(c, labels)
<1> HIDE DEF d
<1>2. d.values \ Ours = c.values \ Ours
  BY <1>1 DEF d
<1> QED
  BY <1>1, <1>2 DEF Stands, d

\* A condition that only admits the own row is one of the alternatives of ours.
LEMMA OwnIsAlternative ==
  ASSUME NEW f \in Seq(Condition), NEW t, OwnersFilter(t), Carried(f, t),
         NEW p \in 1..Len(f), OwnOnly(f[p])
  PROVE  p > 1 /\ f[p].sep = "|"
<1>1. PICK pos : Carries(f, t, pos)
  BY DEF Carried
<1>2. ~Behind(f, p)
  BY DEF Behind, OwnOnly, IsExclude, IsLabelAllow
<1>3. ASSUME NEW i \in 1..Len(t), p = pos[i] PROVE FALSE
  <2>1. t \in Seq(Condition)
    BY DEF OwnersFilter
  <2>2. t[i].values # {}
    <3>1. t[i] \in Condition
      BY <1>3, <2>1
    <3> QED
      BY <3>1, ConditionNames
  <2>3. f[p].values \ Ours = t[i].values
    BY <1>1, <1>3 DEF Carries, OfOwner
  <2>4. f[p].values \subseteq Ours
    BY DEF OwnOnly, Ours
  <2> QED
    BY <2>2, <2>3, <2>4
<1>4. Alternative(f, p)
  BY <1>1, <1>2, <1>3 DEF Carries
<1> QED
  BY <1>4 DEF Alternative

\* The clause of ours behind all the rest is one that Plex applies.
LEMMA BehindIsEnforced ==
  ASSUME NEW f \in Seq(Condition), NEW p \in 1..Len(f), Behind(f, p)
  PROVE  p \in Enforced(f)
<1>1. p = Len(f) /\ (p = 1 \/ f[p].sep = "&") /\ p \in DOMAIN f /\ Len(f) \in Nat
  BY DEF Behind
<1>2. \A j \in p..Len(f) : j = p
  BY <1>1
<1> QED
  BY <1>1, <1>2 DEF Enforced

\* Parts of at most one condition.
LEMMA OnePartKeeps ==
  ASSUME NEW f, NEW s, Len(s) = Len(f),
         \A p \in 1..Len(f) : \/ s[p] = <<>> /\ f[p].values \subseteq Ours
                             \/ \E d : s[p] = <<d>> /\ Stands(d, f[p]) /\ d.sep = f[p].sep
  PROVE  KeepsOwners(s, f)
<1> SUFFICES ASSUME NEW p \in 1..Len(f)
             PROVE  /\ ~(f[p].values \subseteq Ours) => Len(s[p]) >= 1
                    /\ Len(s[p]) >= 1 => Stands(s[p][1], f[p]) /\ (p > 1 => s[p][1].sep = f[p].sep)
                    /\ \A k \in 2..Len(s[p]) : OwnOnly(s[p][k]) /\ s[p][k].sep = "|" /\ ~Behind(f, p)
  BY DEF KeepsOwners
<1>1. CASE s[p] = <<>> /\ f[p].values \subseteq Ours
  <2>1. Len(s[p]) = 0
    BY <1>1
  <2> QED
    BY <1>1, <2>1
<1>2. CASE \E d : s[p] = <<d>> /\ Stands(d, f[p]) /\ d.sep = f[p].sep
  <2>1. PICK d : s[p] = <<d>> /\ Stands(d, f[p]) /\ d.sep = f[p].sep
    BY <1>2
  <2>2. Len(s[p]) = 1 /\ s[p][1] = d /\ 2..Len(s[p]) = {}
    BY <2>1, SinglePart
  <2> QED
    BY <2>1, <2>2
<1> QED
  BY <1>1, <1>2

\* remove_label_excludes, for labels of ours.
LEMMA RemovedCarried ==
  ASSUME NEW f \in Seq(Condition), NEW t, OwnersFilter(t), Carried(f, t), NEW labels \in SUBSET Ours
  PROVE  Removed(f, labels) \in Seq(Condition) /\ Carried(Removed(f, labels), t)
<1>1. PICK s \in Seq(Seq(Condition)) :
           /\ Len(s) = Len(f)
           /\ Removed(f, labels) = Serialized(FlattenSeq(s))
           /\ \A i \in DOMAIN f :
                /\ ~IsExclude(f[i]) => s[i] = <<f[i]>>
                /\ IsExclude(f[i]) /\ ~(f[i].values \subseteq labels) => s[i] = <<Without(f[i], labels)>>
                /\ IsExclude(f[i]) /\ f[i].values \subseteq labels =>
                     \/ s[i] = <<>> /\ ~KeepsGroups(f, i)
                     \/ s[i] = <<f[i]>> /\ KeepsGroups(f, i)
  BY RemovedParts
<1>2. ASSUME NEW p \in 1..Len(f)
      PROVE  \/ s[p] = <<>> /\ f[p].values \subseteq Ours
             \/ \E d : s[p] = <<d>> /\ Stands(d, f[p]) /\ d.sep = f[p].sep
  <2>1. p \in DOMAIN f /\ f[p] \in Condition
    BY <1>2
  <2>2. CASE ~IsExclude(f[p])
    BY <1>1, <2>1, <2>2, StandsForItself
  <2>3. CASE IsExclude(f[p]) /\ ~(f[p].values \subseteq labels)
    <3>1. s[p] = <<Without(f[p], labels)>>
      BY <1>1, <2>1, <2>3
    <3>2. Stands(Without(f[p], labels), f[p]) /\ Without(f[p], labels).sep = f[p].sep
      BY <2>1, <2>3, WithoutStands
    <3> QED
      BY <3>1, <3>2
  <2>4. CASE IsExclude(f[p]) /\ f[p].values \subseteq labels
    <3>1. f[p].values \subseteq Ours
      BY <2>4
    <3>2. s[p] = <<>> \/ s[p] = <<f[p]>>
      BY <1>1, <2>1, <2>4
    <3> QED
      BY <3>1, <3>2, StandsForItself
  <2> QED
    BY <2>2, <2>3, <2>4
<1>3. KeepsOwners(s, f)
  BY <1>1, <1>2, OnePartKeeps
<1>4. FlattenSeq(s) \in Seq(Condition) /\ Carried(FlattenSeq(s), t)
  BY <1>3, CarriedAlong
<1> QED
  BY <1>1, <1>4, SerializedCarried

\* _lift_unenforced_labels.
LEMMA LiftedCarried ==
  ASSUME NEW f \in Seq(Condition), NEW t, OwnersFilter(t), Carried(f, t)
  PROVE  Lifted(f) \in Seq(Condition) /\ Carried(Lifted(f), t)
<1>1. PICK s \in Seq(Seq(Condition)) :
           /\ Len(s) = Len(f)
           /\ Lifted(f) = FlattenSeq(s)
           /\ \A i \in DOMAIN f :
                /\ i \notin Stray(f) => s[i] = <<f[i]>>
                /\ i \in Stray(f) /\ ~(f[i].values \subseteq Ours) => s[i] = <<Without(f[i], Ours)>>
                /\ i \in Stray(f) /\ f[i].values \subseteq Ours =>
                     \/ s[i] = <<>> /\ ~KeepsGroups(f, i)
                     \/ s[i] = <<f[i]>> /\ KeepsGroups(f, i)
  BY LiftedParts
<1>2. ASSUME NEW p \in 1..Len(f)
      PROVE  \/ s[p] = <<>> /\ f[p].values \subseteq Ours
             \/ \E d : s[p] = <<d>> /\ Stands(d, f[p]) /\ d.sep = f[p].sep
  <2>1. p \in DOMAIN f /\ f[p] \in Condition
    BY <1>2
  <2>2. CASE p \notin Stray(f)
    BY <1>1, <2>1, <2>2, StandsForItself
  <2>3. CASE p \in Stray(f) /\ ~(f[p].values \subseteq Ours)
    <3>1. s[p] = <<Without(f[p], Ours)>>
      BY <1>1, <2>1, <2>3
    <3>2. IsExclude(f[p])
      BY <2>3 DEF Stray
    <3>3. Stands(Without(f[p], Ours), f[p]) /\ Without(f[p], Ours).sep = f[p].sep
      BY <2>1, <2>3, <3>2, WithoutStands
    <3> QED
      BY <3>1, <3>3
  <2>4. CASE p \in Stray(f) /\ f[p].values \subseteq Ours
    <3>1. s[p] = <<>> \/ s[p] = <<f[p]>>
      BY <1>1, <2>1, <2>4
    <3> QED
      BY <2>4, <3>1, StandsForItself
  <2> QED
    BY <2>2, <2>3, <2>4
<1>3. KeepsOwners(s, f)
  BY <1>1, <1>2, OnePartKeeps
<1> QED
  BY <1>1, <1>3, CarriedAlong

\* _drop_condition for clauses that only admit the own row: nothing of the owner's goes with them, and no
\* separator changes, for there was no "&" before any of them.
LEMMA OwnClausesCarried ==
  ASSUME NEW f \in Seq(Condition), NEW t, OwnersFilter(t), Carried(f, t), NEW groups
  PROVE  /\ WithoutConditions(f, OwnClauses(f, groups)) \in Seq(Condition)
         /\ Carried(WithoutConditions(f, OwnClauses(f, groups)), t)
<1> DEFINE dropped == OwnClauses(f, groups)
<1>1. \A p \in dropped : OwnOnly(f[p])
  BY DEF OwnClauses, OwnOnly
<1>2. PICK s \in Seq(Seq(Condition)) :
           /\ WithoutConditions(f, dropped) = FlattenSeq(s)
           /\ Dropped(s, f, dropped)
           /\ Separated(s, f, dropped)
  BY WithoutConditionsParts
<1> HIDE DEF dropped
<1>3. Len(s) = Len(f) /\ DOMAIN f = 1..Len(f) /\ Len(f) \in Nat
  BY <1>2 DEF Dropped
<1>4. ASSUME NEW p \in 1..Len(f), p \notin dropped, p > 1
      PROVE  s[p][1].sep = f[p].sep
  <2>1. /\ Len(s[p]) = 1 /\ s[p] \in Seq(Condition) /\ f[p] \in Condition
        /\ f[p].sep = "&" => s[p][1].sep = "&"
    <3>1. p \in DOMAIN f /\ p \in 2..p /\ \A j \in p..(p - 1) : j \in dropped
      BY <1>3, <1>4
    <3>2. Len(s[p]) = 1 /\ s[p] \in Seq(Condition) /\ f[p] \in Condition
      BY <1>2, <1>3, <1>4, <3>1 DEF Dropped
    <3>3. f[p].sep = "&" => s[p][1].sep = "&"
      BY <1>2, <1>4, <3>1 DEF Dropped
    <3> QED
      BY <3>2, <3>3
  <2>2. s[p][1] \in Condition
    BY <2>1
  <2>3. s[p][1].sep = "&" => f[p].sep = "&"
    <3> SUFFICES ASSUME s[p][1].sep = "&", f[p].sep # "&" PROVE FALSE
      OBVIOUS
    <3>1. \E k \in 2..p : f[k].sep = "&" /\ \A j \in k..(p - 1) : j \in dropped
      BY <1>2, <1>3, <1>4 DEF Separated
    <3>2. PICK k \in 2..p : f[k].sep = "&" /\ \A j \in k..(p - 1) : j \in dropped
      BY <3>1
    <3>3. k \in 1..Len(f) /\ k \in k..(p - 1)
      BY <1>3, <3>2
    <3>4. OwnOnly(f[k])
      BY <1>1, <3>2, <3>3
    <3>5. f[k].sep = "|"
      BY <3>3, <3>4, OwnIsAlternative
    <3> QED
      BY <3>2, <3>5
  <2>4. s[p][1].sep \in {"|", "&"} /\ f[p].sep \in {"|", "&"}
    BY <2>1, <2>2, ConditionNames
  <2> QED
    BY <2>1, <2>3, <2>4
<1>5. ASSUME NEW p \in 1..Len(f)
      PROVE  /\ ~(f[p].values \subseteq Ours) => Len(s[p]) >= 1
             /\ Len(s[p]) >= 1 => Stands(s[p][1], f[p]) /\ (p > 1 => s[p][1].sep = f[p].sep)
             /\ 2..Len(s[p]) = {}
  <2>1. CASE p \in dropped
    <3>1. s[p] = <<>>
      BY <1>2, <1>3, <1>5, <2>1 DEF Dropped
    <3>2. Len(s[p]) = 0
      BY <3>1
    <3>3. f[p].values \subseteq Ours
      BY <1>1, <2>1 DEF OwnOnly, Ours
    <3> QED
      BY <3>2, <3>3
  <2>2. CASE p \notin dropped
    <3>1. /\ Len(s[p]) = 1
          /\ s[p][1].field = f[p].field /\ s[p][1].op = f[p].op /\ s[p][1].values = f[p].values
      BY <1>2, <1>3, <1>5, <2>2 DEF Dropped
    <3>2. Stands(s[p][1], f[p])
      BY <3>1 DEF Stands
    <3> QED
      BY <1>4, <1>5, <2>2, <3>1, <3>2
  <2> QED
    BY <2>1, <2>2
<1>6. KeepsOwners(s, f)
  BY <1>3, <1>5 DEF KeepsOwners
<1>7. FlattenSeq(s) \in Seq(Condition) /\ Carried(FlattenSeq(s), t)
  BY <1>6, CarriedAlong
<1> QED
  BY <1>2, <1>7 DEF dropped

\* The clause of ours behind all the rest shares its group with no allow list.
LEMMA BehindStandsAlone ==
  ASSUME NEW f \in Seq(Condition), NEW p \in 1..Len(f), Behind(f, p), NEW g \in Groups(f), p \in g
  PROVE  g = {p}
<1>1. p = Len(f) /\ (p = 1 \/ f[p].sep = "&") /\ DOMAIN f = 1..Len(f) /\ Len(f) \in Nat
  BY DEF Behind
<1>2. PICK i \in DOMAIN f : g = {j \in DOMAIN f : Joined(f, i, j)}
  BY GroupsAre
<1>3. \A j \in DOMAIN f : j < p => f[p].sep = "&"
  BY <1>1
<1>4. i = p
  <2> SUFFICES ASSUME i # p PROVE FALSE
    OBVIOUS
  <2>1. i < p /\ p \in DOMAIN f
    BY <1>1
  <2>2. Joined(f, i, p)
    BY <1>2
  <2>3. f[p].sep = "|"
    BY <1>1, <2>1, <2>2 DEF Joined
  <2> QED
    BY <1>3, <2>1, <2>3
<1>5. ASSUME NEW j \in g PROVE j = p
  <2> SUFFICES ASSUME j # p PROVE FALSE
    OBVIOUS
  <2>1. j < p /\ p \in DOMAIN f /\ j \in DOMAIN f
    BY <1>1, <1>2
  <2>2. Joined(f, p, j)
    BY <1>2, <1>4
  <2>3. f[p].sep = "|"
    BY <1>1, <2>1, <2>2 DEF Joined
  <2> QED
    BY <1>3, <2>1, <2>3
<1> QED
  BY <1>5

\* Widened: what it inserts are alternatives to allow lists of the owner's, and none of them is the clause
\* of ours behind all the rest.
LEMMA WidenedCarried ==
  ASSUME NEW f \in Seq(Condition), NEW t, OwnersFilter(t), Carried(f, t)
  PROVE  Widened(f) \in Seq(Condition) /\ Carried(Widened(f), t)
<1>1. PICK s \in Seq(Seq(Condition)) :
           /\ Len(s) = Len(f)
           /\ Widened(f) = FlattenSeq(s)
           /\ Followed(s, f)
           /\ NeedyMet(s, f)
           /\ \A i \in DOMAIN f :
                /\ IsExclude(f[i]) => Len(s[i]) >= 1 /\ s[i][1] = f[i]
                /\ Len(s[i]) >= 1
                /\ Widens(s[i][1], f[i])
                /\ \A k \in 2..Len(s[i]) : OwnOnly(s[i][k])
  BY WidenedParts
<1>2. ASSUME NEW p \in 1..Len(f)
      PROVE  Len(s[p]) >= 1 /\ Stands(s[p][1], f[p]) /\ s[p][1].sep = f[p].sep
  <2>1. p \in DOMAIN f
    BY <1>2
  <2>2. /\ Len(s[p]) >= 1
        /\ Widens(s[p][1], f[p])
        /\ IsExclude(f[p]) => s[p][1] = f[p]
    BY <1>1, <2>1
  <2>3. Stands(s[p][1], f[p])
    <3> DEFINE d == s[p][1]
               c == f[p]
    <3>1. /\ d.field = c.field /\ d.op = c.op
          /\ d.values = c.values \/ d.values = c.values \cup {Own}
      BY <2>2 DEF Widens
    <3> HIDE DEF d, c
    <3>2. d.values \ Ours = c.values \ Ours
      BY <3>1 DEF Ours
    <3>3. d.values \subseteq c.values \cup {Own}
      BY <3>1
    <3>4. Stands(d, c)
      BY <3>1, <3>2, <3>3 DEF Stands
    <3> QED
      BY <3>4 DEF d, c
  <2> QED
    BY <2>2, <2>3 DEF Widens
<1>3. ASSUME NEW p \in 1..Len(f), NEW k \in 2..Len(s[p])
      PROVE  OwnOnly(s[p][k]) /\ s[p][k].sep = "|" /\ ~Behind(f, p)
  <2>1. p \in DOMAIN f
    BY <1>3
  <2>2. OwnOnly(s[p][k])
    BY <1>1, <1>3, <2>1
  <2>3. s[p][k].sep = "|" /\ \E g \in Needy(f) : p \in g
    BY <1>1, <1>3, <2>1 DEF Followed
  <2>4. PICK g \in Groups(f) : p \in g /\ \E j \in g : OwnersAllow(f[j])
    BY <2>3 DEF Needy
  <2>5. ~Behind(f, p)
    <3> SUFFICES ASSUME Behind(f, p) PROVE FALSE
      OBVIOUS
    <3>1. g = {p}
      BY <2>4, BehindStandsAlone
    <3>2. OwnersAllow(f[p])
      BY <2>4, <3>1
    <3> QED
      BY <3>2 DEF Behind, OwnersAllow, IsExclude
  <2> QED
    BY <2>2, <2>3, <2>5
<1>4. KeepsOwners(s, f)
  BY <1>1, <1>2, <1>3 DEF KeepsOwners
<1> QED
  BY <1>1, <1>4, CarriedAlong

\* _place_excludes, for labels of ours.
LEMMA PlacedCarried ==
  ASSUME NEW f \in Seq(Condition), NEW t, OwnersFilter(t), Carried(f, t), NEW missing \in SUBSET Ours
  PROVE  Placed(f, missing) \in Seq(Condition) /\ Carried(Placed(f, missing), t)
<1> DEFINE targets == {i \in Enforced(f) : IsExclude(f[i])}
<1>1. missing \in SUBSET Labels
  BY DEF Labels
<1>2. Placed(f, missing) \in Seq(Condition)
  BY <1>1, PlacedApplies
<1>3. CASE missing = {}
  BY <1>3 DEF Placed
<1>4. CASE missing # {} /\ targets # {}
  <2> DEFINE x == Min(targets)
             h == [f EXCEPT ![x].values = @ \cup missing]
  <2>1. x \in targets
    <3>1. targets \in SUBSET Nat
      BY DEF Enforced
    <3> QED
      BY <1>4, <3>1, FirstPosition
  <2>2. x \in DOMAIN f /\ IsExclude(f[x])
    BY <2>1 DEF Enforced
  <2>3. Placed(f, missing) = h
    BY <1>4 DEF Placed
  <2> HIDE DEF x
  <2>4. f[x] \in Condition
    BY <2>2
  <2>5. h[x] = [f[x] EXCEPT !.values = @ \cup missing] /\ Len(h) = Len(f)
        /\ \A p \in 1..Len(f) : p # x => h[p] = f[p]
    BY <2>2
  <2>6. h[x].field = f[x].field /\ h[x].op = f[x].op /\ h[x].sep = f[x].sep
        /\ h[x].values = f[x].values \cup missing
    BY <2>4, <2>5 DEF Condition
  <2> HIDE DEF h
  <2>7. \A p \in 1..Len(f) : Stands(h[p], f[p]) /\ (p > 1 => h[p].sep = f[p].sep)
    <3> TAKE p \in 1..Len(f)
    <3>1. CASE p # x
      BY <2>5, <3>1, StandsForItself
    <3>2. CASE p = x
      <4>1. h[x].values \ Ours = f[x].values \ Ours
        BY <2>6
      <4>2. Stands(h[x], f[x])
        BY <2>2, <2>6, <4>1 DEF Stands
      <4> QED
        BY <2>6, <3>2, <4>2
    <3> QED
      BY <3>1, <3>2
  <2>8. h \in Seq(Condition)
    BY <1>2, <2>3
  <2>9. Carried(h, t)
    BY <2>5, <2>7, <2>8, CarriedAlike
  <2> QED
    BY <2>3, <2>8, <2>9
<1>5. CASE missing # {} /\ targets = {}
  <2> DEFINE c == NewExclude(missing)
             h == Append(f, c)
             N == Len(f)
  <2>1. Placed(f, missing) = h
    BY <1>5 DEF Placed
  <2>2. h \in Seq(Condition)
    BY <1>2, <2>1
  <2>3. N \in Nat /\ Len(h) = N + 1 /\ h[N + 1] = c /\ \A p \in 1..N : h[p] = f[p]
    OBVIOUS
  <2>4. IsExclude(c) /\ c.values \subseteq Ours /\ c.sep = "&"
    BY DEF NewExclude, IsExclude
  <2> HIDE DEF c, h
  <2>5. Behind(h, N + 1)
    BY <2>3, <2>4 DEF Behind
  <2>6. PICK pos : Carries(f, t, pos)
    BY DEF Carried
  <2>7. /\ pos \in [1..Len(t) -> 1..N]
        /\ \A i, j \in 1..Len(t) : i < j => pos[i] < pos[j]
        /\ \A i \in 1..Len(t) : OfOwner(f[pos[i]], t[i]) /\ (i > 1 => f[pos[i]].sep = t[i].sep)
        /\ \A p \in 1..N : (\E i \in 1..Len(t) : p = pos[i]) \/ Alternative(f, p) \/ Behind(f, p)
    BY <2>6 DEF Carries
  <2> HIDE DEF N
  <2>8. pos \in [1..Len(t) -> 1..Len(h)]
    <3>1. 1..N \subseteq 1..Len(h)
      BY <2>3
    <3>2. \A i \in 1..Len(t) : pos[i] \in 1..N
      BY <2>7
    <3> QED
      BY <2>7, <3>1, <3>2
  <2>9. \A i \in 1..Len(t) : OfOwner(h[pos[i]], t[i]) /\ (i > 1 => h[pos[i]].sep = t[i].sep)
    <3> TAKE i \in 1..Len(t)
    <3>1. h[pos[i]] = f[pos[i]]
      BY <2>3, <2>7
    <3> QED
      BY <2>7, <3>1
  <2>10. ASSUME NEW p \in 1..Len(h)
         PROVE  (\E i \in 1..Len(t) : p = pos[i]) \/ Alternative(h, p) \/ Behind(h, p)
    <3>1. p = N + 1 \/ p \in 1..N
      BY <2>3
    <3>2. ASSUME p \in 1..N PROVE ~Behind(f, p)
      <4> SUFFICES ASSUME Behind(f, p) PROVE FALSE
        OBVIOUS
      <4>1. p \in Enforced(f) /\ IsExclude(f[p])
        BY <3>2, BehindIsEnforced DEF Behind, N
      <4> QED
        BY <1>5, <4>1
    <3>3. p \in 1..N => h[p] = f[p]
      BY <2>3
    <3> QED
      BY <2>5, <2>7, <3>1, <3>2, <3>3 DEF Alternative
  <2>11. Carries(h, t, pos)
    BY <2>7, <2>8, <2>9, <2>10 DEF Carries
  <2>12. Carried(h, t)
    BY <2>11 DEF Carried
  <2> QED
    BY <2>1, <2>2, <2>12
<1> QED
  BY <1>3, <1>4, <1>5

-----------------------------------------------------------------------------
(* Merging leaves a tidy filter, and removing keeps it so. *)

\* Parts of at most one condition, again.
LEMMA OnePartTidy ==
  ASSUME NEW f, NEW s, Len(s) = Len(f),
         \A p \in 1..Len(f) :
           \/ s[p] = <<>>
           \/ \E d : /\ s[p] = <<d>> /\ d.sep = f[p].sep
                     /\ IsExclude(d) /\ d.values \cap Ours # {} => p \in Enforced(f)
  PROVE  StaysTidy(s, f)
<1> SUFFICES ASSUME NEW p \in 1..Len(f)
             PROVE  /\ Len(s[p]) =< 1
                    /\ Len(s[p]) = 1 =>
                         /\ p > 1 => s[p][1].sep = f[p].sep
                         /\ IsExclude(s[p][1]) /\ s[p][1].values \cap Ours # {} => p \in Enforced(f)
  BY DEF StaysTidy
<1>1. CASE s[p] = <<>>
  <2>1. Len(s[p]) = 0
    BY <1>1
  <2> QED
    BY <2>1
<1>2. CASE \E d : /\ s[p] = <<d>> /\ d.sep = f[p].sep
                  /\ IsExclude(d) /\ d.values \cap Ours # {} => p \in Enforced(f)
  <2>1. PICK d : /\ s[p] = <<d>> /\ d.sep = f[p].sep
                 /\ IsExclude(d) /\ d.values \cap Ours # {} => p \in Enforced(f)
    BY <1>2
  <2>2. Len(s[p]) = 1 /\ s[p][1] = d
    BY <2>1, SinglePart
  <2> QED
    BY <2>1, <2>2
<1> QED
  BY <1>1, <1>2

\* remove_label_excludes adds no exclude of ours.
LEMMA RemovedTidy ==
  ASSUME NEW f \in Seq(Condition), Tidy(f), NEW labels \in SUBSET Ours
  PROVE  Tidy(Removed(f, labels))
<1>1. PICK s \in Seq(Seq(Condition)) :
           /\ Len(s) = Len(f)
           /\ Removed(f, labels) = Serialized(FlattenSeq(s))
           /\ \A i \in DOMAIN f :
                /\ ~IsExclude(f[i]) => s[i] = <<f[i]>>
                /\ IsExclude(f[i]) /\ ~(f[i].values \subseteq labels) => s[i] = <<Without(f[i], labels)>>
                /\ IsExclude(f[i]) /\ f[i].values \subseteq labels =>
                     \/ s[i] = <<>> /\ ~KeepsGroups(f, i)
                     \/ s[i] = <<f[i]>> /\ KeepsGroups(f, i)
  BY RemovedParts
<1>2. ASSUME NEW p \in 1..Len(f)
      PROVE  \/ s[p] = <<>>
             \/ \E d : /\ s[p] = <<d>> /\ d.sep = f[p].sep
                       /\ IsExclude(d) /\ d.values \cap Ours # {} => p \in Enforced(f)
  <2>1. p \in DOMAIN f /\ f[p] \in Condition
    BY <1>2
  <2>2. IsExclude(f[p]) /\ f[p].values \cap Ours # {} => p \in Enforced(f)
    BY <2>1 DEF Tidy
  <2>3. s[p] = <<>> \/ s[p] = <<f[p]>> \/ (s[p] = <<Without(f[p], labels)>> /\ IsExclude(f[p])
                                           /\ ~(f[p].values \subseteq labels))
    BY <1>1, <2>1
  <2>4. CASE s[p] = <<Without(f[p], labels)>> /\ IsExclude(f[p]) /\ ~(f[p].values \subseteq labels)
    <3> DEFINE d == Without(f[p], labels)
    <3>1. d.sep = f[p].sep /\ d.values = f[p].values \ labels
      BY <2>1, <2>4, WithoutStands
    <3> HIDE DEF d
    <3>2. d.values \cap Ours # {} => p \in Enforced(f)
      BY <2>2, <2>4, <3>1
    <3> QED
      BY <2>4, <3>1, <3>2 DEF d
  <2> QED
    BY <2>2, <2>3, <2>4
<1>3. StaysTidy(s, f)
  BY <1>1, <1>2, OnePartTidy
<1>4. FlattenSeq(s) \in Seq(Condition) /\ Tidy(FlattenSeq(s))
  BY <1>3, PartsTidy, FlattenLays
<1> QED
  BY <1>1, <1>4, SerializedTidy

\* A stray clause of labels of ours alone is none of the owner's filter: merging finds none to keep.
LEMMA NoStrayOfOurs ==
  ASSUME NEW f \in Seq(Condition), NEW t, OwnersFilter(t), Carried(f, t),
         NEW p \in Stray(f)
  PROVE  ~(f[p].values \subseteq Ours)
<1> SUFFICES ASSUME f[p].values \subseteq Ours PROVE FALSE
  OBVIOUS
<1>1. p \in 1..Len(f) /\ p \notin Enforced(f) /\ IsExclude(f[p])
  BY DEF Stray
<1>2. PICK pos : Carries(f, t, pos)
  BY DEF Carried
<1>3. ~Behind(f, p)
  BY <1>1, BehindIsEnforced
<1>4. ~Alternative(f, p)
  BY <1>1 DEF Alternative, OwnOnly, IsExclude, IsLabelAllow
<1>5. PICK i \in 1..Len(t) : p = pos[i]
  BY <1>1, <1>2, <1>3, <1>4 DEF Carries
<1>6. f[p].values \ Ours = t[i].values
  BY <1>2, <1>5 DEF Carries, OfOwner
<1>7. t[i] \in Condition
  BY <1>5 DEF OwnersFilter
<1> QED
  BY <1>6, <1>7, ConditionNames

\* After lifting, the excludes of ours that Plex does not apply are gone.
LEMMA LiftedTidy ==
  ASSUME NEW f \in Seq(Condition), NEW t, OwnersFilter(t), Carried(f, t)
  PROVE  Tidy(Lifted(f))
<1>1. PICK s \in Seq(Seq(Condition)) :
           /\ Len(s) = Len(f)
           /\ Lifted(f) = FlattenSeq(s)
           /\ \A i \in DOMAIN f :
                /\ i \notin Stray(f) => s[i] = <<f[i]>>
                /\ i \in Stray(f) /\ ~(f[i].values \subseteq Ours) => s[i] = <<Without(f[i], Ours)>>
                /\ i \in Stray(f) /\ f[i].values \subseteq Ours =>
                     \/ s[i] = <<>> /\ ~KeepsGroups(f, i)
                     \/ s[i] = <<f[i]>> /\ KeepsGroups(f, i)
  BY LiftedParts
<1>2. ASSUME NEW p \in 1..Len(f)
      PROVE  \/ s[p] = <<>>
             \/ \E d : /\ s[p] = <<d>> /\ d.sep = f[p].sep
                       /\ IsExclude(d) /\ d.values \cap Ours # {} => p \in Enforced(f)
  <2>1. p \in DOMAIN f /\ f[p] \in Condition
    BY <1>2
  <2>2. CASE p \notin Stray(f)
    <3>1. s[p] = <<f[p]>>
      BY <1>1, <2>1, <2>2
    <3>2. IsExclude(f[p]) /\ f[p].values \cap Ours # {} => p \in Enforced(f)
      BY <2>1, <2>2 DEF Stray
    <3> QED
      BY <3>1, <3>2
  <2>3. CASE p \in Stray(f)
    <3>1. ~(f[p].values \subseteq Ours) /\ IsExclude(f[p])
      BY <2>3, NoStrayOfOurs DEF Stray
    <3>2. s[p] = <<Without(f[p], Ours)>>
      BY <1>1, <2>1, <2>3, <3>1
    <3> DEFINE d == Without(f[p], Ours)
    <3>3. d.sep = f[p].sep /\ d.values = f[p].values \ Ours
      BY <2>1, <3>1, WithoutStands
    <3> HIDE DEF d
    <3>4. d.values \cap Ours = {}
      BY <3>3
    <3> QED
      BY <3>2, <3>3, <3>4 DEF d
  <2> QED
    BY <2>2, <2>3
<1>3. StaysTidy(s, f)
  BY <1>1, <1>2, OnePartTidy
<1> QED
  BY <1>1, <1>3, PartsTidy

\* Those that are placed are placed where Plex applies them.
LEMMA PlacedTidy ==
  ASSUME NEW f \in Seq(Condition), Tidy(f), NEW missing \in SUBSET Ours
  PROVE  Tidy(Placed(f, missing))
<1> DEFINE targets == {i \in Enforced(f) : IsExclude(f[i])}
<1>1. CASE missing = {}
  BY <1>1 DEF Placed
<1>2. CASE missing # {} /\ targets # {}
  <2> DEFINE x == Min(targets)
             h == [f EXCEPT ![x].values = @ \cup missing]
  <2>1. x \in targets
    <3>1. targets \in SUBSET Nat
      BY DEF Enforced
    <3> QED
      BY <1>2, <3>1, FirstPosition
  <2>2. x \in DOMAIN f /\ x \in Enforced(f)
    BY <2>1 DEF Enforced
  <2>3. Placed(f, missing) = h
    BY <1>2 DEF Placed
  <2> HIDE DEF x
  <2>4. f[x] \in Condition
    BY <2>2
  <2>5. h[x] = [f[x] EXCEPT !.values = @ \cup missing] /\ Len(h) = Len(f) /\ DOMAIN h = DOMAIN f
        /\ \A p \in DOMAIN f : p # x => h[p] = f[p]
    BY <2>2
  <2>6. h[x].sep = f[x].sep
    BY <2>4, <2>5 DEF Condition
  <2> HIDE DEF h
  <2>7. \A p \in DOMAIN f : h[p].sep = f[p].sep
    BY <2>5, <2>6
  <2>8. Enforced(h) = Enforced(f)
    BY <2>5, <2>7 DEF Enforced
  <2>9. Tidy(h)
    BY <2>2, <2>5, <2>8 DEF Tidy
  <2> QED
    BY <2>3, <2>9
<1>3. CASE missing # {} /\ targets = {}
  <2> DEFINE c == NewExclude(missing)
             h == Append(f, c)
             N == Len(f)
  <2>1. Placed(f, missing) = h
    BY <1>3 DEF Placed
  <2>2. N \in Nat /\ Len(h) = N + 1 /\ h[N + 1] = c /\ \A p \in 1..N : h[p] = f[p]
        /\ DOMAIN h = 1..(N + 1) /\ DOMAIN f = 1..N
    OBVIOUS
  <2>3. c.sep = "&"
    BY DEF NewExclude
  <2> HIDE DEF c, h
  <2>4. ASSUME NEW p \in 1..N, p \in Enforced(f) PROVE p \in Enforced(h)
    <3>1. \A j \in p..Len(f) : j = 1 \/ f[j].sep = "&"
      BY <2>4 DEF Enforced
    <3>2. ASSUME NEW j \in p..Len(h) PROVE j = 1 \/ h[j].sep = "&"
      <4>1. j = N + 1 \/ (j \in 1..N /\ j \in p..Len(f))
        BY <2>2, <2>4, <3>2 DEF N
      <4> QED
        BY <2>2, <2>3, <3>1, <4>1
    <3>3. p \in DOMAIN h
      BY <2>2, <2>4
    <3> QED
      BY <3>2, <3>3 DEF Enforced
  <2>5. N + 1 \in Enforced(h)
    <3>1. \A j \in (N + 1)..Len(h) : h[j].sep = "&"
      <4>1. \A j \in (N + 1)..Len(h) : j = N + 1
        BY <2>2
      <4> QED
        BY <2>2, <2>3, <4>1
    <3>2. N + 1 \in DOMAIN h
      BY <2>2
    <3> QED
      BY <3>1, <3>2 DEF Enforced
  <2> HIDE DEF N
  <2>6. Tidy(h)
    <3> SUFFICES ASSUME NEW p \in DOMAIN h, IsExclude(h[p]), h[p].values \cap Ours # {}
                 PROVE  p \in Enforced(h)
      BY DEF Tidy
    <3>1. p = N + 1 \/ p \in 1..N
      BY <2>2
    <3>2. CASE p = N + 1
      BY <2>5, <3>2
    <3>3. CASE p \in 1..N
      <4>1. p \in Enforced(f)
        BY <2>2, <3>3 DEF Tidy
      <4> QED
        BY <2>4, <3>3, <4>1
    <3> QED
      BY <3>1, <3>2, <3>3
  <2> QED
    BY <2>1, <2>6
<1> QED
  BY <1>1, <1>2, <1>3

\* What an owner wrote, with labels of ours in it, each exclude of ours where Plex applies it.
Kept(f, t) == f \in Seq(Condition) /\ Carried(f, t) /\ Tidy(f)

\* remove_label_excludes keeps what the owner wrote.
LEMMA RemovedKept ==
  ASSUME NEW f, NEW t, OwnersFilter(t), Kept(f, t), NEW labels \in SUBSET Ours
  PROVE  Kept(Removed(f, labels), t)
BY RemovedCarried, RemovedTidy DEF Kept

\* merge_label_excludes.
LEMMA MergedKept ==
  ASSUME NEW f \in Seq(Condition), NEW t, OwnersFilter(t), Carried(f, t), NEW labels \in SUBSET Ours
  PROVE  Kept(Merged(f, labels), t)
<1> DEFINE g == Lifted(f)
           wanted == labels \cup (ExcludesAt(f, Stray(f)) \cap Ours)
           missing == wanted \ Applied(g)
           h == Placed(g, missing)
<1>1. Merged(f, labels) = Serialized(h)
  BY DEF Merged
<1>2. missing \in SUBSET Ours
  OBVIOUS
<1>3. g \in Seq(Condition) /\ Carried(g, t) /\ Tidy(g)
  BY LiftedCarried, LiftedTidy
<1> HIDE DEF g, missing
<1>4. h \in Seq(Condition) /\ Carried(h, t) /\ Tidy(h)
  BY <1>2, <1>3, PlacedCarried, PlacedTidy
<1> HIDE DEF h
<1>5. Serialized(h) \in Seq(Condition) /\ Carried(Serialized(h), t) /\ Tidy(Serialized(h))
  BY <1>4, SerializedCarried, SerializedTidy
<1> QED
  BY <1>1, <1>5 DEF Kept

\* admit_own_rows, with a row.
LEMMA AdmittedCarried ==
  ASSUME NEW f \in Seq(Condition), NEW t, OwnersFilter(t), Carried(f, t)
  PROVE  Admitted(f) \in Seq(Condition) /\ Carried(Admitted(f), t)
<1> DEFINE notOwners == {g \in Groups(f) : ~\E i \in g : OwnersAllow(f[i])}
           rest == WithoutConditions(f, OwnClauses(f, notOwners))
<1>1. rest \in Seq(Condition) /\ Carried(rest, t)
  BY OwnClausesCarried
<1>2. Admitted(f) = Serialized(Widened(rest))
  BY DEF Admitted
<1> HIDE DEF rest
<1>3. Widened(rest) \in Seq(Condition) /\ Carried(Widened(rest), t)
  BY <1>1, WidenedCarried
<1> QED
  BY <1>2, <1>3, SerializedCarried

\* What admit_own_rows leaves of a condition when there is no row.
Narrowed(c) == IF IsLabelAllow(c) /\ c.values # {Own} THEN Without(c, {Own}) ELSE c

\* It stands for that condition.
LEMMA NarrowedStands ==
  ASSUME NEW c \in Condition
  PROVE  /\ Narrowed(c) \in Condition /\ Stands(Narrowed(c), c) /\ Narrowed(c).sep = c.sep
         /\ IsLabelAllow(c) /\ c.values # {Own} => Narrowed(c).values = c.values \ {Own}
         /\ ~IsLabelAllow(c) => Narrowed(c) = c
<1>1. CASE IsLabelAllow(c) /\ c.values # {Own}
  <2> DEFINE d == Without(c, {Own})
  <2>1. c.values # {}
    BY ConditionNames
  <2>2. ~(c.values \subseteq {Own})
    BY <1>1, <2>1
  <2>3. /\ d \in Condition /\ d.field = c.field /\ d.op = c.op /\ d.sep = c.sep
        /\ d.values = c.values \ {Own}
    BY <2>2, WithoutStays
  <2>4. Narrowed(c) = d
    BY <1>1 DEF Narrowed
  <2> HIDE DEF d
  <2>5. d.values \ Ours = c.values \ Ours /\ d.values \subseteq c.values \cup {Own}
    BY <2>3 DEF Ours
  <2>6. Stands(d, c)
    BY <2>3, <2>5 DEF Stands
  <2> QED
    BY <1>1, <2>3, <2>4, <2>6
<1>2. CASE ~(IsLabelAllow(c) /\ c.values # {Own})
  <2>1. Narrowed(c) = c
    BY <1>2 DEF Narrowed
  <2> QED
    BY <1>2, <2>1, StandsForItself
<1> QED
  BY <1>1, <1>2

\* The conditions of a filter, each narrowed.
LEMMA NarrowedParts ==
  ASSUME NEW f \in Seq(Condition)
  PROVE  LET rest == WithoutConditions(f, OwnClauses(f, Groups(f)))
         IN \E h \in Seq(Condition) :
              /\ Withdrawn(f) = Serialized(h)
              /\ Len(h) = Len(rest)
              /\ \A p \in 1..Len(rest) : h[p] = Narrowed(rest[p])
<1> DEFINE rest == WithoutConditions(f, OwnClauses(f, Groups(f)))
           h == [i \in DOMAIN rest |-> Narrowed(rest[i])]
<1>1. rest \in Seq(Condition)
  BY OwnClausesGo
<1>2. Withdrawn(f) = Serialized(h)
  BY DEF Withdrawn, Narrowed
<1> HIDE DEF rest
<1>3. \A i \in 1..Len(rest) : Narrowed(rest[i]) \in Condition
  BY <1>1, NarrowedStands
<1>4. DOMAIN rest = 1..Len(rest) /\ Len(rest) \in Nat
  BY <1>1
<1>5. h \in Seq(Condition) /\ Len(h) = Len(rest) /\ \A p \in 1..Len(rest) : h[p] = Narrowed(rest[p])
  BY <1>3, <1>4
<1> QED
  BY <1>2, <1>5 DEF rest

\* admit_own_rows, without a row.
LEMMA WithdrawnCarried ==
  ASSUME NEW f \in Seq(Condition), NEW t, OwnersFilter(t), Carried(f, t)
  PROVE  Withdrawn(f) \in Seq(Condition) /\ Carried(Withdrawn(f), t)
<1> DEFINE rest == WithoutConditions(f, OwnClauses(f, Groups(f)))
<1>1. rest \in Seq(Condition) /\ Carried(rest, t)
  BY OwnClausesCarried
<1>2. PICK h \in Seq(Condition) :
              /\ Withdrawn(f) = Serialized(h)
              /\ Len(h) = Len(rest)
              /\ \A p \in 1..Len(rest) : h[p] = Narrowed(rest[p])
  BY NarrowedParts
<1> HIDE DEF rest
<1>3. \A p \in 1..Len(rest) : Stands(h[p], rest[p]) /\ h[p].sep = rest[p].sep
  <2> TAKE p \in 1..Len(rest)
  <2>1. rest[p] \in Condition
    BY <1>1
  <2>2. h[p] = Narrowed(rest[p])
    BY <1>2
  <2> QED
    BY <2>1, <2>2, NarrowedStands
<1>4. Carried(h, t)
  BY <1>1, <1>2, <1>3, CarriedAlike
<1> QED
  BY <1>2, <1>4, SerializedCarried

-----------------------------------------------------------------------------
(* So does every call. *)

\* One pass of plan_share_filter keeps what the owner wrote, ...
LEMMA PassKept ==
  ASSUME NEW g, NEW t, OwnersFilter(t), Kept(g, t), NEW c \in SyncCall
  PROVE  Kept(Pass(g, c), t)
<1> DEFINE a == Admitting(g, c)
<1>1. g \in Seq(Condition) /\ Carried(g, t)
  BY DEF Kept
<1>2. a \in {Admitted(g), Withdrawn(g), g}
  BY AdmittingIs
<1>3. a \in Seq(Condition) /\ Carried(a, t)
  <2>1. CASE a = Admitted(g)
    BY <1>1, <2>1, AdmittedCarried
  <2>2. CASE a = Withdrawn(g)
    BY <1>1, <2>2, WithdrawnCarried
  <2>3. CASE a = g
    BY <1>1, <2>3
  <2> QED
    BY <1>2, <2>1, <2>2, <2>3
<1>4. Wanted(c) \in SUBSET Ours
  BY DEF Wanted, SyncCall
<1> HIDE DEF a
<1>5. Kept(Merged(a, Wanted(c)), t)
  BY <1>3, <1>4, MergedKept
<1> QED
  BY <1>5 DEF Pass, a

\* ... hence a sync does, ...
LEMMA SyncedKept ==
  ASSUME NEW f, NEW t, OwnersFilter(t), Kept(f, t), NEW c \in SyncCall
  PROVE  Kept(Synced(f, c), t)
<1> DEFINE one == Pass(f, c)
           two == Pass(one, c)
           three == Pass(two, c)
           four == Pass(three, c)
<1>1. Planned(f, c) = four
  BY PlannedPasses DEF Kept
<1>2. Kept(one, t)
  BY PassKept
<1> HIDE DEF one
<1>3. Kept(two, t)
  BY <1>2, PassKept
<1> HIDE DEF two
<1>4. Kept(three, t)
  BY <1>3, PassKept
<1> HIDE DEF three
<1>5. Kept(four, t)
  BY <1>4, PassKept
<1> HIDE DEF four
<1>6. Prunable(f, c) \in SUBSET Ours
  BY DEF Prunable, ShortlistLabels
<1> QED
  BY <1>1, <1>5, <1>6, RemovedKept DEF Synced

\* ... and so does leaving the account alone.
LEMMA ClearedKept ==
  ASSUME NEW f, NEW t, OwnersFilter(t), Kept(f, t)
  PROVE  Kept(Cleared(f), t)
<1> DEFINE people == PersonLabels(f)
           cleaned == Removed(f, people)
           kept == ShortlistLabels(cleaned) \cap Shared
           merged == Merged(cleaned, {})
<1>1. Cleared(f) = IF kept \subseteq Applied(cleaned) THEN cleaned ELSE Removed(merged, people)
  BY DEF Cleared
<1>2. people \in SUBSET Ours
  BY DEF PersonLabels, ShortlistLabels
<1> HIDE DEF people
<1>3. Kept(cleaned, t)
  BY <1>2, RemovedKept
<1> HIDE DEF cleaned
<1>4. {} \in SUBSET Ours
  OBVIOUS
<1>5. Kept(merged, t)
  BY <1>3, <1>4, MergedKept DEF Kept
<1> HIDE DEF merged
<1>6. Kept(Removed(merged, people), t)
  BY <1>2, <1>5, RemovedKept
<1>7. Cleared(f) = cleaned \/ Cleared(f) = Removed(merged, people)
  BY <1>1
<1> QED
  BY <1>3, <1>6, <1>7

-----------------------------------------------------------------------------
(* Taking ours out of what was kept. *)

\* Once the own row is withdrawn no allow list names it: a clause that only admits it stays for an
\* exclude of ours in its group, and Plex applies those, which share their group with nothing.
LEMMA WithdrawnNames ==
  ASSUME NEW f \in Seq(Condition), Tidy(f)
  PROVE  \A p \in 1..Len(Withdrawn(f)) : IsLabelAllow(Withdrawn(f)[p]) => Own \notin Withdrawn(f)[p].values
<1> DEFINE groups == Groups(f)
           dropped == OwnClauses(f, groups)
           rest == WithoutConditions(f, dropped)
<1>1. PICK h \in Seq(Condition) :
        /\ Withdrawn(f) = Serialized(h)
        /\ Len(h) = Len(rest)
        /\ \A p \in 1..Len(rest) : h[p] = Narrowed(rest[p])
  BY NarrowedParts
<1>2. PICK s \in Seq(Seq(Condition)) :
           /\ WithoutConditions(f, dropped) = FlattenSeq(s)
           /\ Dropped(s, f, dropped)
           /\ Separated(s, f, dropped)
  BY WithoutConditionsParts
<1>3. rest = FlattenSeq(s) /\ rest \in Seq(Condition)
  BY <1>2, FlattenLays
<1>4. ASSUME NEW i \in DOMAIN f, i \notin dropped PROVE ~OwnOnly(f[i])
  <2> SUFFICES ASSUME OwnOnly(f[i]) PROVE FALSE
    OBVIOUS
  <2> DEFINE g == {j \in DOMAIN f : Joined(f, i, j)}
  <2>1. g \in groups /\ i \in g
    <3>1. g \in {{j \in DOMAIN f : Joined(f, k, j)} : k \in DOMAIN f}
      BY <1>4
    <3>2. Joined(f, i, i)
      BY <1>4 DEF Joined
    <3> QED
      BY <1>4, <3>1, <3>2, GroupsAre
  <2> HIDE DEF g, groups
  <2>2. RepairPending(f, g)
    BY <1>4, <2>1 DEF OwnClauses, OwnOnly
  <2>3. PICK j \in g : IsExclude(f[j]) /\ f[j].values \cap Ours # {}
    BY <2>2 DEF RepairPending
  <2>4. j \in DOMAIN f /\ Joined(f, i, j)
    BY <2>3 DEF g
  <2>5. j \in Enforced(f) /\ i # j
    BY <2>3, <2>4 DEF Tidy, OwnOnly, IsExclude, IsLabelAllow
  <2>6. DOMAIN f = 1..Len(f) /\ Len(f) \in Nat
    OBVIOUS
  <2>7. \A k \in j..Len(f) : k = 1 \/ f[k].sep = "&"
    BY <2>5 DEF Enforced
  <2>8. CASE i < j
    <3>1. f[j].sep = "|" /\ j \in j..Len(f) /\ j # 1
      BY <1>4, <2>4, <2>6, <2>8 DEF Joined
    <3> QED
      BY <2>7, <3>1
  <2>9. CASE j < i
    <3>1. f[i].sep = "|" /\ i \in j..Len(f) /\ i # 1
      BY <1>4, <2>4, <2>6, <2>9 DEF Joined
    <3> QED
      BY <2>7, <3>1
  <2>10. i < j \/ j < i
    BY <1>4, <2>4, <2>5, <2>6
  <2> QED
    BY <2>8, <2>9, <2>10
<1> HIDE DEF dropped
<1>5. ASSUME NEW p \in 1..Len(rest) PROVE ~OwnOnly(rest[p])
  <2>1. p \in DOMAIN FlattenSeq(s)
    BY <1>3, <1>5
  <2>2. PICK i \in 1..Len(s) : \E k \in 1..Len(s[i]) : FlattenSeq(s)[p] = s[i][k]
    BY <2>1, FlattenMembers
  <2>3. PICK k \in 1..Len(s[i]) : FlattenSeq(s)[p] = s[i][k]
    BY <2>2
  <2>4. i \in DOMAIN f
    BY <1>2 DEF Dropped
  <2>5. i \notin dropped
    <3>1. s[i] # <<>>
      BY <2>3
    <3> QED
      BY <1>2, <2>4, <3>1 DEF Dropped
  <2>6. Len(s[i]) = 1 /\ s[i][1].field = f[i].field /\ s[i][1].op = f[i].op /\ s[i][1].values = f[i].values
    BY <1>2, <2>4, <2>5 DEF Dropped
  <2>7. k = 1 /\ rest[p] = s[i][1]
    BY <1>3, <2>3, <2>6
  <2>8. ~OwnOnly(f[i])
    BY <1>4, <2>4, <2>5
  <2> QED
    BY <2>6, <2>7, <2>8 DEF OwnOnly, IsLabelAllow
<1> HIDE DEF rest
<1>6. ASSUME NEW p \in 1..Len(rest), IsLabelAllow(h[p]) PROVE Own \notin h[p].values
  <2>1. rest[p] \in Condition /\ h[p] = Narrowed(rest[p])
    BY <1>1, <1>3, <1>6
  <2>2. IsLabelAllow(rest[p])
    BY <1>6, <2>1, NarrowedStands
  <2>3. rest[p].values # {Own}
    BY <1>5, <1>6, <2>2 DEF OwnOnly
  <2>4. h[p].values = rest[p].values \ {Own}
    BY <2>1, <2>2, <2>3, NarrowedStands
  <2> QED
    BY <2>4
<1>7. /\ Len(Serialized(h)) = Len(h)
      /\ \A i \in DOMAIN h : /\ Serialized(h)[i].field = h[i].field
                             /\ Serialized(h)[i].op = h[i].op
                             /\ Serialized(h)[i].values = h[i].values
  BY SerializedStays
<1>8. DOMAIN h = 1..Len(rest)
  BY <1>1
<1> QED
  BY <1>1, <1>6, <1>7, <1>8 DEF IsLabelAllow

\* Removing labels leaves the conditions that are no excludes.
LEMMA RemovedOthers ==
  ASSUME NEW f \in Seq(Condition), NEW labels,
         NEW p \in DOMAIN Removed(f, labels), ~IsExclude(Removed(f, labels)[p])
  PROVE  \E i \in DOMAIN f :
           /\ Removed(f, labels)[p].field = f[i].field
           /\ Removed(f, labels)[p].op = f[i].op
           /\ Removed(f, labels)[p].values = f[i].values
<1>1. PICK s \in Seq(Seq(Condition)) :
           /\ Len(s) = Len(f)
           /\ Removed(f, labels) = Serialized(FlattenSeq(s))
           /\ \A i \in DOMAIN f :
                /\ ~IsExclude(f[i]) => s[i] = <<f[i]>>
                /\ IsExclude(f[i]) /\ ~(f[i].values \subseteq labels) => s[i] = <<Without(f[i], labels)>>
                /\ IsExclude(f[i]) /\ f[i].values \subseteq labels =>
                     \/ s[i] = <<>> /\ ~KeepsGroups(f, i)
                     \/ s[i] = <<f[i]>> /\ KeepsGroups(f, i)
  BY RemovedParts
<1> DEFINE r == FlattenSeq(s)
<1>2. r \in Seq(Condition)
  BY FlattenLays
<1>3. /\ Len(Serialized(r)) = Len(r) /\ Serialized(r) \in Seq(Condition)
      /\ \A i \in DOMAIN r : /\ Serialized(r)[i].field = r[i].field
                             /\ Serialized(r)[i].op = r[i].op
                             /\ Serialized(r)[i].values = r[i].values
  BY <1>2, SerializedStays
<1>4. p \in DOMAIN r
  BY <1>1, <1>2, <1>3
<1>5. ~IsExclude(r[p])
  BY <1>1, <1>3, <1>4 DEF IsExclude
<1>6. PICK i \in 1..Len(s) : \E k \in 1..Len(s[i]) : r[p] = s[i][k]
  BY <1>4, FlattenMembers
<1>7. PICK k \in 1..Len(s[i]) : r[p] = s[i][k]
  BY <1>6
<1>8. i \in DOMAIN f /\ f[i] \in Condition
  BY <1>1
<1> HIDE DEF r
<1>9. CASE ~IsExclude(f[i])
  <2>1. s[i] = <<f[i]>>
    BY <1>1, <1>8, <1>9
  <2>2. r[p] = f[i]
    BY <1>7, <2>1
  <2> QED
    BY <1>1, <1>3, <1>4, <1>8, <2>2 DEF r
<1>10. CASE IsExclude(f[i])
  <2>1. CASE f[i].values \subseteq labels
    <3>1. s[i] = <<>> \/ s[i] = <<f[i]>>
      BY <1>1, <1>8, <1>10, <2>1
    <3>2. s[i] = <<f[i]>>
      BY <1>7, <3>1
    <3>3. r[p] = f[i]
      BY <1>7, <3>2
    <3> QED
      BY <1>5, <1>10, <3>3
  <2>2. CASE ~(f[i].values \subseteq labels)
    <3>1. s[i] = <<Without(f[i], labels)>>
      BY <1>1, <1>8, <1>10, <2>2
    <3>2. r[p] = Without(f[i], labels)
      BY <1>7, <3>1
    <3>3. r[p].field = f[i].field /\ r[p].op = f[i].op
      BY <1>8, <2>2, <3>2, WithoutStays
    <3> QED
      BY <1>5, <1>10, <3>3 DEF IsExclude
  <2> QED
    BY <2>1, <2>2
<1> QED
  BY <1>9, <1>10

\* What remains holds no label of ours.
LEMMA NothingOfOursRemains ==
  ASSUME NEW f, NEW t, OwnersFilter(t), Kept(f, t),
         NEW p \in 1..Len(Removed(Withdrawn(f), Ours))
  PROVE  Removed(Withdrawn(f), Ours)[p].values \cap Ours = {}
<1> DEFINE w == Withdrawn(f)
           r == Removed(w, Ours)
           c == r[p]
<1> SUFFICES c.values \cap Ours = {}
  OBVIOUS
<1>1. f \in Seq(Condition) /\ Carried(f, t) /\ Tidy(f)
  BY DEF Kept
<1>2. w \in Seq(Condition) /\ Carried(w, t)
  BY <1>1, WithdrawnCarried
<1>3. \A i \in 1..Len(w) : IsLabelAllow(w[i]) => Own \notin w[i].values
  BY <1>1, WithdrawnNames
<1> HIDE DEF w
<1>4. r \in Seq(Condition) /\ Carried(r, t)
  BY <1>2, RemovedCarried
<1>5. p \in DOMAIN r /\ c \in Condition
  BY <1>4 DEF w
<1>6. /\ c.op \in {"=", "!="} /\ c.field \in {"label", "contentRating"}
      /\ c.field = "contentRating" => c.values \cap Ours = {}
  BY <1>5, ConditionNames DEF Fields
<1>7. CASE IsExclude(c)
  <2>1. PICK i \in DOMAIN w :
           /\ IsExclude(w[i])
           /\ \/ c.values = w[i].values \ Ours
              \/ /\ c.values = w[i].values
                 /\ w[i].values \subseteq Ours
                 /\ i \notin Enforced(w)
    BY <1>2, <1>5, <1>7, RemovedFrom
  <2>2. CASE w[i].values \subseteq Ours /\ i \notin Enforced(w)
    <3>1. w[i] \in Condition
      BY <1>2
    <3>2. w[i].values # {}
      BY <3>1, ConditionNames
    <3>3. i \in Stray(w)
      BY <2>1, <2>2, <3>2 DEF Stray
    <3> QED
      BY <1>2, <2>2, <3>3, NoStrayOfOurs
  <2>3. CASE c.values = w[i].values \ Ours
    BY <2>3
  <2> QED
    BY <2>1, <2>2, <2>3
<1>8. CASE IsLabelAllow(c)
  <2>1. ~IsExclude(c)
    BY <1>8 DEF IsExclude, IsLabelAllow
  <2>2. PICK i \in DOMAIN w : c.field = w[i].field /\ c.op = w[i].op /\ c.values = w[i].values
    BY <1>2, <1>5, <2>1, RemovedOthers
  <2>3. Own \notin c.values
    BY <1>2, <1>3, <1>8, <2>2 DEF IsLabelAllow
  <2>4. PICK pos : Carries(r, t, pos)
    BY <1>4 DEF Carried
  <2>5. ~Alternative(r, p) /\ ~Behind(r, p)
    BY <2>1, <2>3 DEF Alternative, Behind, OwnOnly
  <2>6. p \in 1..Len(r)
    BY <1>4, <1>5
  <2>7. PICK j \in 1..Len(t) : p = pos[j]
    BY <2>4, <2>5, <2>6 DEF Carries
  <2>8. c.values \subseteq t[j].values \cup {Own}
    BY <2>1, <2>4, <2>7 DEF Carries, OfOwner
  <2>9. t[j].values \cap Ours = {}
    BY <2>7 DEF OwnersFilter
  <2> QED
    BY <2>3, <2>8, <2>9
<1>9. CASE c.field = "contentRating"
  BY <1>6, <1>9
<1> HIDE DEF c
<1> QED
  BY <1>6, <1>7, <1>8, <1>9 DEF IsExclude, IsLabelAllow

\* The positions up to n, in their order, none missed.
Enumerates(pos, m, n) ==
  /\ pos \in [1..m -> 1..n]
  /\ \A i, j \in 1..m : i < j => pos[i] < pos[j]
  /\ \A p \in 1..n : \E i \in 1..m : p = pos[i]

\* Each is in its place.
LEMMA AllInPlace ==
  ASSUME NEW m \in Nat, NEW n \in Nat, NEW pos, Enumerates(pos, m, n)
  PROVE  m = n /\ \A i \in 1..m : pos[i] = i
<1> DEFINE P == {k \in Nat : \A i \in 1..m : i =< k => pos[i] = i}
<1>0. /\ pos \in [1..m -> 1..n]
      /\ \A i, j \in 1..m : i < j => pos[i] < pos[j]
      /\ \A p \in 1..n : \E i \in 1..m : p = pos[i]
  BY DEF Enumerates
<1>1. 0 \in P
  OBVIOUS
<1>2. ASSUME NEW k \in P PROVE k + 1 \in P
  <2>1. k \in Nat /\ \A i \in 1..m : i =< k => pos[i] = i
    BY <1>2
  <2> SUFFICES ASSUME NEW i \in 1..m, i =< k + 1 PROVE pos[i] = i
    BY <2>1
  <2>2. CASE i =< k
    BY <2>1, <2>2
  <2>3. CASE i = k + 1
    <3> DEFINE x == pos[i]
    <3>1. x \in 1..n
      BY <1>0
    <3>2. x >= i
      <4>1. CASE k = 0
        BY <2>3, <3>1, <4>1
      <4>2. CASE k # 0
        <5>1. k \in 1..m /\ k < i
          BY <2>1, <2>3, <4>2
        <5>2. pos[k] = k /\ pos[k] < x
          BY <1>0, <2>1, <5>1
        <5> QED
          BY <2>1, <2>3, <3>1, <5>2
      <4> QED
        BY <4>1, <4>2
    <3>3. ~(x > i)
      <4> SUFFICES ASSUME x > i PROVE FALSE
        OBVIOUS
      <4>1. i \in 1..n
        BY <3>1
      <4>2. PICK j \in 1..m : i = pos[j]
        BY <1>0, <4>1
      <4>3. CASE j =< k
        <5>1. pos[j] = j
          BY <2>1, <4>3
        <5> QED
          BY <2>1, <2>3, <4>2, <4>3, <5>1
      <4>4. CASE j = i
        BY <4>2, <4>4
      <4>5. CASE j > i
        <5>1. x < pos[j]
          BY <1>0, <4>5
        <5> QED
          BY <3>1, <4>1, <4>2, <5>1
      <4> QED
        BY <2>1, <2>3, <4>3, <4>4, <4>5
    <3> QED
      BY <3>1, <3>2, <3>3
  <2> QED
    BY <2>1, <2>2, <2>3
<1> HIDE DEF P
<1>3. \A k \in Nat : k \in P
  <2>1. P \in SUBSET Nat
    BY DEF P
  <2> QED
    BY <1>1, <1>2, <2>1, EveryPosition
<1>4. \A i \in 1..m : pos[i] = i
  <2> TAKE i \in 1..m
  <2>1. i \in Nat /\ i =< i
    OBVIOUS
  <2>2. i \in P
    BY <1>3, <2>1
  <2> QED
    BY <2>1, <2>2 DEF P
<1>5. m =< n
  <2>1. CASE m = 0
    BY <2>1
  <2>2. CASE m # 0
    <3>1. m \in 1..m /\ pos[m] \in 1..n
      BY <1>0, <2>2
    <3> QED
      BY <1>4, <3>1
  <2> QED
    BY <2>1, <2>2
<1>6. n =< m
  <2>1. CASE n = 0
    BY <2>1
  <2>2. CASE n # 0
    <3>1. n \in 1..n
      BY <2>2
    <3>2. PICK i \in 1..m : n = pos[i]
      BY <1>0, <3>1
    <3> QED
      BY <1>4, <3>2
  <2> QED
    BY <2>1, <2>2
<1> QED
  BY <1>4, <1>5, <1>6

\* The first condition of a filter that was written out is joined by "|".
LEMMA SerializedFirst ==
  ASSUME NEW f \in Seq(Condition), Len(f) > 0
  PROVE  Serialized(f)[1].sep = "|"
<1>1. f # <<>> /\ 1 \in DOMAIN f
  OBVIOUS
<1>2. f[1] \in Condition
  BY <1>1
<1>3. Serialized(f) = [f EXCEPT ![1].sep = "|"]
  BY <1>1 DEF Serialized
<1>4. Serialized(f)[1] = [f[1] EXCEPT !.sep = "|"]
  BY <1>1, <1>3
<1> QED
  BY <1>2, <1>4 DEF Condition

\* A condition is its field, its operator, its values and its separator.
LEMMA SameCondition ==
  ASSUME NEW c \in Condition, NEW d \in Condition,
         c.field = d.field, c.op = d.op, c.values = d.values, c.sep = d.sep
  PROVE  c = d
BY DEF Condition

\* The owner's filter as it was.
LEMMA KeptComesBack ==
  ASSUME NEW f, NEW t, OwnersFilter(t), Kept(f, t)
  PROVE  Removed(Withdrawn(f), Ours) = t
<1> DEFINE w == Withdrawn(f)
           r == Removed(w, Ours)
<1> SUFFICES r = t
  OBVIOUS
<1>1. w \in Seq(Condition) /\ Carried(w, t)
  BY WithdrawnCarried DEF Kept
<1>2. \A p \in 1..Len(r) : r[p].values \cap Ours = {}
  BY NothingOfOursRemains
<1> HIDE DEF w
<1>3. r \in Seq(Condition) /\ Carried(r, t)
  BY <1>1, RemovedCarried
<1>4. Len(r) > 0 => r[1].sep = "|"
  <2>1. PICK s \in Seq(Seq(Condition)) :
           /\ Len(s) = Len(w)
           /\ r = Serialized(FlattenSeq(s))
           /\ \A i \in DOMAIN w :
                /\ ~IsExclude(w[i]) => s[i] = <<w[i]>>
                /\ IsExclude(w[i]) /\ ~(w[i].values \subseteq Ours) => s[i] = <<Without(w[i], Ours)>>
                /\ IsExclude(w[i]) /\ w[i].values \subseteq Ours =>
                     \/ s[i] = <<>> /\ ~KeepsGroups(w, i)
                     \/ s[i] = <<w[i]>> /\ KeepsGroups(w, i)
    BY <1>1, RemovedParts
  <2>2. FlattenSeq(s) \in Seq(Condition)
    BY FlattenLays
  <2>3. Len(r) = Len(FlattenSeq(s))
    BY <2>1, <2>2, SerializedStays
  <2> QED
    BY <2>1, <2>2, <2>3, SerializedFirst
<1> HIDE DEF r
<1>5. PICK pos : Carries(r, t, pos)
  BY <1>3 DEF Carried
<1>6. t \in Seq(Condition) /\ (\A i \in 1..Len(t) : t[i].values \cap Ours = {})
      /\ (Len(t) > 0 => t[1].sep = "|")
  BY DEF OwnersFilter
<1>7. ASSUME NEW p \in 1..Len(r) PROVE \E i \in 1..Len(t) : p = pos[i]
  <2>1. r[p] \in Condition /\ r[p].values \cap Ours = {}
    BY <1>2, <1>3, <1>7
  <2>2. r[p].values # {}
    BY <2>1, ConditionNames
  <2>3. ~(r[p].values \subseteq Ours)
    BY <2>1, <2>2
  <2>4. ~Alternative(r, p)
    BY <2>3 DEF Alternative, OwnOnly, Ours
  <2>5. ~Behind(r, p)
    BY <2>3 DEF Behind
  <2> QED
    BY <1>5, <1>7, <2>4, <2>5 DEF Carries
<1>8. Len(t) = Len(r) /\ \A i \in 1..Len(t) : pos[i] = i
  <2> DEFINE m == Len(t)
             n == Len(r)
  <2>1. m \in Nat /\ n \in Nat
    BY <1>3, <1>6
  <2>2. pos \in [1..m -> 1..n] /\ (\A i, j \in 1..m : i < j => pos[i] < pos[j])
    BY <1>5 DEF Carries
  <2>3. \A p \in 1..n : \E i \in 1..m : p = pos[i]
    BY <1>7
  <2> HIDE DEF m, n
  <2>4. Enumerates(pos, m, n)
    BY <2>2, <2>3 DEF Enumerates
  <2>5. m = n /\ \A i \in 1..m : pos[i] = i
    BY <2>1, <2>4, AllInPlace
  <2> QED
    BY <2>5 DEF m, n
<1>9. ASSUME NEW i \in 1..Len(t) PROVE r[i] = t[i]
  <2>1. r[i] \in Condition /\ t[i] \in Condition /\ i \in 1..Len(r)
    BY <1>3, <1>6, <1>8, <1>9
  <2>2. OfOwner(r[i], t[i]) /\ (i > 1 => r[i].sep = t[i].sep)
    BY <1>5, <1>8, <1>9 DEF Carries
  <2>3. r[i].field = t[i].field /\ r[i].op = t[i].op
    BY <2>2 DEF OfOwner
  <2>4. r[i].values = t[i].values
    <3>1. r[i].values \ Ours = t[i].values /\ r[i].values \cap Ours = {}
      BY <1>2, <2>1, <2>2 DEF OfOwner
    <3> QED
      BY <3>1
  <2>5. r[i].sep = t[i].sep
    <3>1. CASE i > 1
      BY <2>2, <3>1
    <3>2. CASE i = 1
      <4>1. Len(t) > 0 /\ Len(r) > 0
        BY <1>3, <1>6, <1>8, <1>9
      <4> QED
        BY <1>4, <1>6, <3>2, <4>1
    <3> QED
      BY <1>9, <3>1, <3>2
  <2> QED
    BY <2>1, <2>3, <2>4, <2>5, SameCondition
<1> QED
  BY <1>3, <1>6, <1>8, <1>9

-----------------------------------------------------------------------------
(* Hence what an owner wrote comes back. *)

\* The inductive invariant.
OwnersStays == theirs # Unknown => OwnersFilter(theirs) /\ Kept(filter, theirs)

\* It holds at the start, when the owner's filter is all there is.
LEMMA InitKeeps ==
  ASSUME Init
  PROVE  OwnersStays
<1> SUFFICES ASSUME theirs # Unknown PROVE OwnersFilter(theirs) /\ Kept(filter, theirs)
  BY DEF OwnersStays
<1>1. theirs = filter /\ \A i \in DOMAIN filter : filter[i].values \cap Ours = {}
  BY DEF Init
<1>2. PICK g \in Seq(Condition) : filter = Serialized(g)
  BY InitBuilds
<1>3. filter \in Seq(Condition) /\ Len(filter) = Len(g)
  BY <1>2, SerializedStays
<1>4. DOMAIN filter = 1..Len(filter) /\ Len(filter) \in Nat
  BY <1>3
<1>5. OwnersFilter(filter)
  BY <1>1, <1>2, <1>3, <1>4, SerializedFirst DEF OwnersFilter
<1> DEFINE pos == [i \in 1..Len(filter) |-> i]
<1>6. pos \in [1..Len(filter) -> 1..Len(filter)] /\ \A i \in 1..Len(filter) : pos[i] = i
  OBVIOUS
<1> HIDE DEF pos
<1>7. \A i \in 1..Len(filter) : OfOwner(filter[pos[i]], filter[i])
  <2> TAKE i \in 1..Len(filter)
  <2>1. filter[i].values \cap Ours = {}
    BY <1>1, <1>4
  <2>2. filter[i].values \ Ours = filter[i].values
    BY <2>1
  <2> QED
    BY <1>6, <2>2 DEF OfOwner
<1>8. Carries(filter, filter, pos)
  BY <1>6, <1>7 DEF Carries
<1>9. Tidy(filter)
  BY <1>1 DEF Tidy
<1> QED
  BY <1>1, <1>3, <1>5, <1>8, <1>9 DEF Kept, Carried

\* Every step keeps it.
LEMMA StepKeeps == OwnersStays /\ TypeOK /\ [Next]_vars => OwnersStays'
<1> SUFFICES ASSUME OwnersStays, TypeOK, [Next]_vars PROVE OwnersStays'
  OBVIOUS
<1>1. CASE UNCHANGED vars
  BY <1>1 DEF OwnersStays, vars
<1>2. ASSUME NEW c \in SyncCall \cup {LeaveAlone}, Starts(c) PROVE OwnersStays'
  BY <1>2 DEF Starts, OwnersStays
<1>3. CASE SyncUserRestrictions
  <2>1. filter' = Synced(filter, call) /\ theirs' = theirs /\ call \in SyncCall
    BY <1>3 DEF SyncUserRestrictions
  <2>2. theirs # Unknown => Kept(Synced(filter, call), theirs)
    BY <2>1, SyncedKept DEF OwnersStays
  <2> QED
    BY <2>1, <2>2 DEF OwnersStays
<1>4. CASE ClearOurExcludes
  <2>1. filter' = Cleared(filter) /\ theirs' = theirs
    BY <1>4 DEF ClearOurExcludes
  <2>2. theirs # Unknown => Kept(Cleared(filter), theirs)
    BY ClearedKept DEF OwnersStays
  <2> QED
    BY <2>1, <2>2 DEF OwnersStays
<1> QED
  BY <1>1, <1>2, <1>3, <1>4 DEF Next

\* What an owner wrote with nothing of ours in it comes back as it was, condition for condition, once our
\* labels are taken out, whatever syncs and clears came between and however long it is
\* (admit_own_rows: "handing back the owner's filter byte for byte").
THEOREM OwnersFilterComesBack == Spec => []HandsBackTheOwnersFilter
<1>1. Init => OwnersStays
  BY InitKeeps
<1>2. OwnersStays => HandsBackTheOwnersFilter
  BY KeptComesBack DEF OwnersStays, HandsBackTheOwnersFilter
<1> QED
  BY <1>1, <1>2, StepKeeps, TypeCorrect, PTL DEF Spec
=============================================================================
