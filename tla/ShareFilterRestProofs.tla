----------------------- MODULE ShareFilterRestProofs -----------------------
(***************************************************************************)
(* The passes of plan_share_filter come to rest: where few clauses are ours *)
(* alone, the last of them lifts none.  So a sync leaves every group of the *)
(* owner's an alternative that admits the own row, and none that admits     *)
(* nothing else, however long the filter is.                                *)
(***************************************************************************)
EXTENDS ShareFilterHandBackProofs, FiniteSetTheorems

-----------------------------------------------------------------------------
(* Which condition comes from which. *)

\* The conditions of r are those parts of s that are one condition, in their order: org says which.
Thins(r, s, org) ==
  /\ org \in [1..Len(r) -> 1..Len(s)]
  /\ \A x, y \in 1..Len(r) : x < y => org[x] < org[y]
  /\ \A x \in 1..Len(r) : Len(s[org[x]]) = 1 /\ r[x] = s[org[x]][1]
  /\ \A p \in 1..Len(s) : Len(s[p]) = 1 => \E x \in 1..Len(r) : p = org[x]

\* Parts of at most one condition, laid end to end, are those.
LEMMA ThinParts ==
  ASSUME NEW C, NEW s \in Seq(Seq(C)), \A p \in 1..Len(s) : Len(s[p]) =< 1
  PROVE  FlattenSeq(s) \in Seq(C) /\ \E org : Thins(FlattenSeq(s), s, org)
<1> DEFINE r == FlattenSeq(s)
           N == Len(s)
<1>1. r \in Seq(C)
  BY FlattenLays
<1>2. PICK at : Laid(r, s, at)
  BY FlattenLays
<1>3. Covers(r, s, at)
  BY <1>1, <1>2, LaidCovers
<1>4. N \in Nat /\ Len(r) \in Nat
  BY <1>1
<1>5. /\ at \in [0..N -> Nat] /\ at[0] = 0 /\ Len(r) = at[N]
      /\ \A p \in 1..N : at[p] = at[p - 1] + Len(s[p])
      /\ \A p \in 1..N : \A k \in 1..Len(s[p]) : r[at[p - 1] + k] = s[p][k]
      /\ \A i, j \in 0..N : i =< j => at[i] =< at[j]
      /\ \A x \in 1..Len(r) : \E p \in 1..N :
           x - at[p - 1] \in 1..Len(s[p]) /\ r[x] = s[p][x - at[p - 1]]
  BY <1>2, <1>3 DEF Laid, Ends, Covers
<1>6. \A p \in 1..N : Len(s[p]) \in Nat /\ Len(s[p]) =< 1 /\ at[p - 1] \in Nat /\ at[p] \in Nat
                      /\ p \in 0..N /\ p - 1 \in 0..N /\ N \in 0..N /\ p =< N
  <2> TAKE p \in 1..N
  <2>1. p \in 0..N /\ p - 1 \in 0..N /\ N \in 0..N /\ p =< N
    BY <1>4
  <2>2. s[p] \in Seq(C)
    BY <1>4
  <2>3. Len(s[p]) \in Nat
    BY <2>2
  <2>4. at[p] \in Nat /\ at[p - 1] \in Nat
    BY <1>5, <2>1
  <2> QED
    BY <2>1, <2>3, <2>4
<1> HIDE DEF r, N
<1> DEFINE From(x, p) == x = at[p - 1] + 1 /\ at[p] = x /\ Len(s[p]) = 1 /\ r[x] = s[p][1]
<1>7. \A x \in 1..Len(r) : \E p \in 1..N : From(x, p)
  <2> TAKE x \in 1..Len(r)
  <2>1. PICK p \in 1..N : x - at[p - 1] \in 1..Len(s[p]) /\ r[x] = s[p][x - at[p - 1]]
    BY <1>5
  <2> DEFINE u == at[p - 1]
             w == Len(s[p])
  <2>2. u \in Nat /\ w \in Nat /\ w =< 1 /\ x - u \in 1..w /\ x \in Nat
    BY <1>4, <1>6, <2>1
  <2>3. r[x] = s[p][x - u] /\ at[p] = u + w
    BY <1>5, <2>1
  <2> HIDE DEF u, w
  <2>4. w = 1 /\ x - u = 1 /\ x = u + 1
    BY ONLY <2>2
  <2>5. r[x] = s[p][1] /\ at[p] = x
    BY <2>3, <2>4
  <2>6. From(x, p)
    BY <2>4, <2>5 DEF u, w
  <2> QED
    BY <2>6
<1> DEFINE org == [x \in 1..Len(r) |-> CHOOSE p \in 1..N : From(x, p)]
<1>8. \A x \in 1..Len(r) : org[x] \in 1..N /\ From(x, org[x])
  BY <1>7
<1>9. org \in [1..Len(r) -> 1..N]
  BY <1>8
<1> HIDE DEF org
<1>10. ASSUME NEW x \in 1..Len(r), NEW y \in 1..Len(r), x < y PROVE org[x] < org[y]
  <2> SUFFICES ASSUME ~(org[x] < org[y]) PROVE FALSE
    OBVIOUS
  <2>1. PICK p \in 1..N : p = org[x]
    BY <1>8
  <2>2. PICK q \in 1..N : q = org[y]
    BY <1>8
  <2>3. at[p] = x /\ at[q] = y
    BY <1>8, <2>1, <2>2
  <2>4. q =< p /\ q \in 0..N /\ p \in 0..N
    BY <1>4, <2>1, <2>2
  <2>5. at[q] =< at[p]
    BY <1>5, <2>4
  <2> QED
    BY <1>4, <1>10, <2>3, <2>5
<1>11. ASSUME NEW p \in 1..N, Len(s[p]) = 1 PROVE \E x \in 1..Len(r) : p = org[x]
  <2> DEFINE x == at[p]
             u == at[p - 1]
  <2>1. x = u + 1 /\ u \in Nat /\ x \in Nat
    BY <1>5, <1>6, <1>11
  <2>2. x =< Len(r)
    BY <1>5, <1>6
  <2> HIDE DEF x, u
  <2>3. x \in 1..Len(r)
    BY <1>4, <2>1, <2>2
  <2>4. PICK q \in 1..N : q = org[x]
    BY <1>8, <2>3
  <2>5. at[q] = x /\ x = at[q - 1] + 1
    BY <1>8, <2>3, <2>4
  <2>6. ~(q < p)
    <3> SUFFICES ASSUME q < p PROVE FALSE
      OBVIOUS
    <3>1. q =< p - 1 /\ q \in 0..N /\ p - 1 \in 0..N
      BY <1>4, <1>6
    <3>2. at[q] =< u
      BY <1>5, <3>1 DEF u
    <3> QED
      BY <2>1, <2>5, <3>2
  <2>7. ~(p < q)
    <3> SUFFICES ASSUME p < q PROVE FALSE
      OBVIOUS
    <3>1. p =< q - 1 /\ p \in 0..N /\ q - 1 \in 0..N
      BY <1>4, <1>6
    <3>2. at[p] =< at[q - 1] /\ at[q - 1] \in Nat
      BY <1>5, <1>6, <3>1
    <3> DEFINE v == at[q - 1]
    <3>3. x =< v /\ x = v + 1 /\ v \in Nat
      BY <2>5, <3>2 DEF x
    <3> HIDE DEF v
    <3> QED
      BY ONLY <2>1, <3>3
  <2>8. p = q
    BY <1>4, <2>6, <2>7
  <2> QED
    BY <2>3, <2>4, <2>8
<1>12. Thins(r, s, org)
  BY <1>8, <1>9, <1>10, <1>11 DEF Thins, N
<1> QED
  BY <1>1, <1>12 DEF r

\* Every part of s begins a stretch of r: to says where.
Thickens(r, s, to) ==
  /\ to \in [1..Len(s) -> 1..Len(r)]
  /\ \A p, q \in 1..Len(s) : p < q => to[p] < to[q]
  /\ \A p \in 1..Len(s) : \A k \in 1..Len(s[p]) : to[p] + k - 1 \in 1..Len(r) /\ r[to[p] + k - 1] = s[p][k]
  /\ \A x \in 1..Len(r) : \E p \in 1..Len(s) : \E k \in 1..Len(s[p]) : x = to[p] + k - 1

\* Parts of at least one condition, laid end to end, are such.
LEMMA ThickParts ==
  ASSUME NEW C, NEW s \in Seq(Seq(C)), \A p \in 1..Len(s) : Len(s[p]) >= 1
  PROVE  FlattenSeq(s) \in Seq(C) /\ \E to : Thickens(FlattenSeq(s), s, to)
<1> DEFINE r == FlattenSeq(s)
           N == Len(s)
<1>1. r \in Seq(C)
  BY FlattenLays
<1>2. PICK at : Laid(r, s, at)
  BY FlattenLays
<1>3. Covers(r, s, at)
  BY <1>1, <1>2, LaidCovers
<1>4. N \in Nat /\ Len(r) \in Nat
  BY <1>1
<1>5. /\ at \in [0..N -> Nat] /\ at[0] = 0 /\ Len(r) = at[N]
      /\ \A p \in 1..N : at[p] = at[p - 1] + Len(s[p])
      /\ \A p \in 1..N : \A k \in 1..Len(s[p]) : r[at[p - 1] + k] = s[p][k]
      /\ \A i, j \in 0..N : i =< j => at[i] =< at[j]
      /\ \A x \in 1..Len(r) : \E p \in 1..N :
           x - at[p - 1] \in 1..Len(s[p]) /\ r[x] = s[p][x - at[p - 1]]
  BY <1>2, <1>3 DEF Laid, Ends, Covers
<1>6. \A p \in 1..N : Len(s[p]) \in Nat /\ Len(s[p]) >= 1 /\ at[p - 1] \in Nat /\ at[p] \in Nat
                      /\ at[p] =< Len(r) /\ at[p] = at[p - 1] + Len(s[p])
  <2> TAKE p \in 1..N
  <2>1. p \in 0..N /\ p - 1 \in 0..N /\ N \in 0..N /\ p =< N
    BY <1>4
  <2>2. s[p] \in Seq(C)
    BY <1>4
  <2>3. Len(s[p]) \in Nat
    BY <2>2
  <2>4. at[p] \in Nat /\ at[p - 1] \in Nat /\ at[p] =< at[N]
    BY <1>5, <2>1
  <2> QED
    BY <1>5, <2>3, <2>4
<1> HIDE DEF r, N
<1> DEFINE to == [p \in 1..N |-> at[p - 1] + 1]
<1>7. \A p \in 1..N : to[p] = at[p - 1] + 1
  OBVIOUS
<1>8. ASSUME NEW p \in 1..N
      PROVE  /\ to[p] \in 1..Len(r)
             /\ \A k \in 1..Len(s[p]) : to[p] + k - 1 \in 1..Len(r) /\ to[p] + k - 1 = at[p - 1] + k
  <2> DEFINE u == at[p - 1]
             v == at[p]
             w == Len(s[p])
  <2>1. u \in Nat /\ v \in Nat /\ w \in Nat /\ w >= 1 /\ v = u + w /\ v =< Len(r)
    BY <1>6
  <2> HIDE DEF u, v, w
  <2>2. u + 1 \in 1..Len(r) /\ \A k \in 1..w : (u + 1) + k - 1 \in 1..Len(r) /\ (u + 1) + k - 1 = u + k
    BY ONLY <1>4, <2>1
  <2> QED
    BY <1>7, <2>2 DEF u, w
<1>9. to \in [1..N -> 1..Len(r)]
  BY <1>8
<1> HIDE DEF to
<1>10. ASSUME NEW p \in 1..N, NEW q \in 1..N, p < q PROVE to[p] < to[q]
  <2> DEFINE u == at[p - 1]
             v == at[q - 1]
             w == Len(s[p])
  <2>1. p \in 0..N /\ q - 1 \in 0..N /\ p =< q - 1
    BY <1>4, <1>10
  <2>2. at[p] =< v
    BY <1>5, <2>1
  <2>3. u \in Nat /\ v \in Nat /\ w \in Nat /\ w >= 1 /\ u + w =< v
    BY <1>6, <2>2
  <2>4. to[p] = u + 1 /\ to[q] = v + 1
    BY <1>7
  <2> HIDE DEF u, v, w
  <2> QED
    BY ONLY <2>3, <2>4
<1>11. ASSUME NEW x \in 1..Len(r) PROVE \E p \in 1..N : \E k \in 1..Len(s[p]) : x = to[p] + k - 1
  <2>1. PICK p \in 1..N : x - at[p - 1] \in 1..Len(s[p]) /\ r[x] = s[p][x - at[p - 1]]
    BY <1>5
  <2> DEFINE u == at[p - 1]
             k == x - u
  <2>2. u \in Nat /\ x \in Nat /\ to[p] = u + 1
    BY <1>4, <1>6, <1>7
  <2>3. k \in 1..Len(s[p])
    BY <2>1
  <2>4. x = (u + 1) + k - 1
    <3> HIDE DEF u
    <3> QED
      BY ONLY <2>2
  <2>5. x = to[p] + k - 1
    BY <2>2, <2>4
  <2> HIDE DEF k
  <2> QED
    BY <2>3, <2>5
<1>12. \A p \in 1..N : \A k \in 1..Len(s[p]) : to[p] + k - 1 \in 1..Len(r) /\ r[to[p] + k - 1] = s[p][k]
  <2> TAKE p \in 1..N
  <2> TAKE k \in 1..Len(s[p])
  <2>1. to[p] + k - 1 \in 1..Len(r) /\ to[p] + k - 1 = at[p - 1] + k
    BY <1>8
  <2>2. r[at[p - 1] + k] = s[p][k]
    BY <1>5
  <2> QED
    BY <2>1, <2>2
<1>13. Thickens(r, s, to)
  BY <1>9, <1>10, <1>11, <1>12 DEF Thickens, N
<1> QED
  BY <1>1, <1>13 DEF r

-----------------------------------------------------------------------------
(* What stays joined. *)

\* Alternatives of one group are so both ways, and with one another.
LEMMA JoinedAlike ==
  ASSUME NEW f \in Seq(Condition)
  PROVE  /\ \A i \in 1..Len(f) : Joined(f, i, i)
         /\ \A i, j \in 1..Len(f) : Joined(f, i, j) => Joined(f, j, i)
         /\ \A i, j, k \in 1..Len(f) : Joined(f, i, j) /\ Joined(f, j, k) => Joined(f, i, k)
<1>1. DOMAIN f = 1..Len(f) /\ Len(f) \in Nat
  OBVIOUS
<1>2. \A i \in 1..Len(f) : Joined(f, i, i)
  BY <1>1 DEF Joined
<1>3. \A i, j \in 1..Len(f) : Joined(f, i, j) => Joined(f, j, i)
  BY <1>1 DEF Joined
<1>4. ASSUME NEW i \in 1..Len(f), NEW j \in 1..Len(f), NEW k \in 1..Len(f),
             Joined(f, i, j), Joined(f, j, k)
      PROVE  Joined(f, i, k)
  <2> SUFFICES ASSUME NEW m \in DOMAIN f, (m > i /\ m =< k) \/ (m > k /\ m =< i)
               PROVE  f[m].sep = "|"
    BY DEF Joined
  <2>1. \/ (m > i /\ m =< j) \/ (m > j /\ m =< i)
        \/ (m > j /\ m =< k) \/ (m > k /\ m =< j)
    BY <1>1
  <2> QED
    BY <1>4, <2>1 DEF Joined
<1> QED
  BY <1>2, <1>3, <1>4

\* An "&" before a condition of r stood in f somewhere behind the condition that comes before it in r.
Between(r, f, org) ==
  \A x \in 1..Len(r) : x > 1 /\ r[x].sep # "|" =>
    \E k \in 1..Len(f) : org[x - 1] < k /\ k =< org[x] /\ f[k].sep # "|"

\* What is left of a group is a group, if that is so.
LEMMA JoinsThin ==
  ASSUME NEW f \in Seq(Condition), NEW r \in Seq(Condition), NEW org \in [1..Len(r) -> 1..Len(f)],
         \A x, y \in 1..Len(r) : x < y => org[x] < org[y],
         Between(r, f, org)
  PROVE  \A x, y \in 1..Len(r) : Joined(f, org[x], org[y]) => Joined(r, x, y)
<1>1. DOMAIN f = 1..Len(f) /\ DOMAIN r = 1..Len(r) /\ Len(f) \in Nat /\ Len(r) \in Nat
  OBVIOUS
<1>2. \A x \in 1..Len(r) : org[x] \in 1..Len(f) /\ org[x] \in Nat
  BY <1>1
<1>3. \A x, y \in 1..Len(r) : x =< y => org[x] =< org[y]
  BY <1>1, <1>2
<1>4. ASSUME NEW x \in 1..Len(r), NEW y \in 1..Len(r), NEW k \in 1..Len(r),
             x < k, k =< y, r[k].sep # "|"
      PROVE  \E m \in 1..Len(f) : org[x] < m /\ m =< org[y] /\ f[m].sep # "|"
  <2>1. k > 1 /\ k - 1 \in 1..Len(r) /\ x =< k - 1
    BY <1>1, <1>4
  <2>2. PICK m \in 1..Len(f) : org[k - 1] < m /\ m =< org[k] /\ f[m].sep # "|"
    BY <1>4, <2>1 DEF Between
  <2>3. org[x] =< org[k - 1] /\ org[k] =< org[y]
    BY <1>3, <1>4, <2>1
  <2> DEFINE a == org[x]
             b == org[k - 1]
             c == org[k]
             d == org[y]
  <2>4. a \in Nat /\ b \in Nat /\ c \in Nat /\ d \in Nat /\ m \in Nat
    BY <1>1, <1>2, <2>1
  <2>5. a =< b /\ b < m /\ m =< c /\ c =< d
    BY <2>2, <2>3
  <2> HIDE DEF a, b, c, d
  <2>6. a < m /\ m =< d
    BY ONLY <2>4, <2>5
  <2> QED
    BY <2>2, <2>6 DEF a, d
<1> SUFFICES ASSUME NEW x \in 1..Len(r), NEW y \in 1..Len(r), Joined(f, org[x], org[y]), ~Joined(r, x, y)
             PROVE  FALSE
  OBVIOUS
<1>5. PICK k \in 1..Len(r) : ((k > x /\ k =< y) \/ (k > y /\ k =< x)) /\ r[k].sep # "|"
  BY <1>1 DEF Joined
<1>6. CASE k > x /\ k =< y
  <2>1. PICK m \in 1..Len(f) : org[x] < m /\ m =< org[y] /\ f[m].sep # "|"
    BY <1>1, <1>4, <1>5, <1>6
  <2>2. m > org[x] /\ m =< org[y] /\ m \in DOMAIN f
    BY <1>1, <1>2, <2>1
  <2> QED
    BY <2>1, <2>2 DEF Joined
<1>7. CASE k > y /\ k =< x
  <2>1. PICK m \in 1..Len(f) : org[y] < m /\ m =< org[x] /\ f[m].sep # "|"
    BY <1>1, <1>4, <1>5, <1>7
  <2>2. m > org[y] /\ m =< org[x] /\ m \in DOMAIN f
    BY <1>1, <1>2, <2>1
  <2> QED
    BY <2>1, <2>2 DEF Joined
<1> QED
  BY <1>5, <1>6, <1>7

\* Only alternatives follow the first condition of a part, which keeps its separator.
Follow(s, f) ==
  /\ Len(s) = Len(f)
  /\ \A p \in 1..Len(f) : /\ p > 1 => s[p][1].sep = f[p].sep
                          /\ \A k \in 2..Len(s[p]) : s[p][k].sep = "|"

\* Then a group and what follows in it is a group.
LEMMA JoinsThick ==
  ASSUME NEW f \in Seq(Condition), NEW s \in Seq(Seq(Condition)), NEW r \in Seq(Condition), NEW to,
         Thickens(r, s, to), Follow(s, f)
  PROVE  /\ \A p, q \in 1..Len(f) : Joined(f, p, q) => Joined(r, to[p], to[q])
         /\ \A p \in 1..Len(f) : \A k \in 1..Len(s[p]) : Joined(r, to[p], to[p] + k - 1)
<1>1. /\ DOMAIN f = 1..Len(f) /\ DOMAIN r = 1..Len(r) /\ Len(f) \in Nat /\ Len(r) \in Nat
      /\ Len(s) = Len(f)
  BY DEF Follow
<1>2. /\ to \in [1..Len(f) -> 1..Len(r)]
      /\ \A p, q \in 1..Len(f) : p < q => to[p] < to[q]
      /\ \A p \in 1..Len(f) : \A k \in 1..Len(s[p]) : to[p] + k - 1 \in 1..Len(r) /\ r[to[p] + k - 1] = s[p][k]
      /\ \A x \in 1..Len(r) : \E p \in 1..Len(f) : \E k \in 1..Len(s[p]) : x = to[p] + k - 1
  BY <1>1 DEF Thickens
<1>3. \A p \in 1..Len(f) : to[p] \in 1..Len(r) /\ to[p] \in Nat /\ Len(s[p]) \in Nat
  BY <1>1, <1>2
<1>4. ASSUME NEW p \in 1..Len(f), NEW q \in 1..Len(f), NEW z \in 1..Len(r),
             z > to[p], z =< to[q], r[z].sep # "|"
      PROVE  \E m \in 1..Len(f) : m > p /\ m =< q /\ f[m].sep # "|"
  <2>1. PICK m \in 1..Len(f) : \E k \in 1..Len(s[m]) : z = to[m] + k - 1
    BY <1>2
  <2>2. PICK k \in 1..Len(s[m]) : z = to[m] + k - 1
    BY <2>1
  <2>3. r[z] = s[m][k]
    BY <1>2, <2>2
  <2>4. k = 1
    <3> SUFFICES ASSUME k # 1 PROVE FALSE
      OBVIOUS
    <3>1. k \in 2..Len(s[m])
      BY <1>3
    <3> QED
      BY <1>4, <2>3, <3>1 DEF Follow
  <2>5. z = to[m]
    BY <1>3, <2>2, <2>4
  <2>6. p < m
    <3> SUFFICES ASSUME ~(p < m) PROVE FALSE
      OBVIOUS
    <3>1. m = p \/ m < p
      BY <1>1
    <3>2. CASE m = p
      BY <1>3, <1>4, <2>5, <3>2
    <3>3. CASE m < p
      <4>1. to[m] < to[p]
        BY <1>2, <3>3
      <4> QED
        BY <1>3, <1>4, <2>5, <4>1
    <3> QED
      BY <3>1, <3>2, <3>3
  <2>7. m =< q
    <3> SUFFICES ASSUME ~(m =< q) PROVE FALSE
      OBVIOUS
    <3>1. to[q] < to[m]
      BY <1>1, <1>2
    <3> QED
      BY <1>3, <1>4, <2>5, <3>1
  <2>8. f[m].sep # "|"
    BY <1>1, <1>4, <2>3, <2>4, <2>6 DEF Follow
  <2> QED
    BY <1>1, <2>6, <2>7, <2>8
<1>5. ASSUME NEW p \in 1..Len(f), NEW q \in 1..Len(f), Joined(f, p, q) PROVE Joined(r, to[p], to[q])
  <2> SUFFICES ASSUME NEW z \in 1..Len(r), r[z].sep # "|",
                      (z > to[p] /\ z =< to[q]) \/ (z > to[q] /\ z =< to[p])
               PROVE  FALSE
    BY <1>1 DEF Joined
  <2>1. CASE z > to[p] /\ z =< to[q]
    BY <1>1, <1>4, <1>5, <2>1 DEF Joined
  <2>2. CASE z > to[q] /\ z =< to[p]
    BY <1>1, <1>4, <1>5, <2>2 DEF Joined
  <2> QED
    BY <2>1, <2>2
<1>6. ASSUME NEW p \in 1..Len(f), NEW k \in 1..Len(s[p]) PROVE Joined(r, to[p], to[p] + k - 1)
  <2> SUFFICES ASSUME NEW z \in 1..Len(r),
                      (z > to[p] /\ z =< to[p] + k - 1) \/ (z > to[p] + k - 1 /\ z =< to[p])
               PROVE  r[z].sep = "|"
    BY <1>1 DEF Joined
  <2> DEFINE u == to[p]
             w == Len(s[p])
             n == z - u + 1
  <2>1. u \in Nat /\ w \in Nat /\ k \in 1..w /\ z \in Nat
        /\ ((z > u /\ z =< u + k - 1) \/ (z > u + k - 1 /\ z =< u))
    BY <1>1, <1>3
  <2>2. n \in 2..w /\ n \in 1..w /\ z = u + n - 1
    <3> HIDE DEF u, w
    <3> QED
      BY ONLY <2>1 DEF n
  <2> HIDE DEF n
  <2>3. r[z] = s[p][n]
    BY <1>2, <2>2
  <2> QED
    BY <2>2, <2>3 DEF Follow
<1> QED
  BY <1>5, <1>6

\* Conditions that keep their separators are joined as they were.
LEMMA JoinedStays ==
  ASSUME NEW f \in Seq(Condition), NEW h \in Seq(Condition), Len(h) >= Len(f),
         \A i \in 1..Len(f) : i > 1 => h[i].sep = f[i].sep
  PROVE  \A i, j \in 1..Len(f) : Joined(h, i, j) <=> Joined(f, i, j)
<1>1. DOMAIN f = 1..Len(f) /\ DOMAIN h = 1..Len(h) /\ Len(f) \in Nat /\ Len(h) \in Nat
  OBVIOUS
<1>2. ASSUME NEW i \in 1..Len(f), NEW j \in 1..Len(f), NEW k \in Nat,
             (k > i /\ k =< j) \/ (k > j /\ k =< i)
      PROVE  k \in 1..Len(f) /\ k \in 1..Len(h) /\ h[k].sep = f[k].sep
  <2>1. k \in 1..Len(f) /\ k > 1 /\ k \in 1..Len(h)
    BY <1>1, <1>2
  <2> QED
    BY <2>1
<1> SUFFICES ASSUME NEW i \in 1..Len(f), NEW j \in 1..Len(f) PROVE Joined(h, i, j) <=> Joined(f, i, j)
  OBVIOUS
<1> QED
  BY <1>1, <1>2 DEF Joined

-----------------------------------------------------------------------------
(* The filters on which admit_own_rows and merge_label_excludes come to rest. *)

\* A clause that only excludes labels of ours.
OursOnly(c) == IsExclude(c) /\ c.values \subseteq Ours

\* No group admits nothing but the own row, ...
NoneOwnOnly(f) ==
  \A i \in 1..Len(f) : \E j \in 1..Len(f) : Joined(f, i, j) /\ ~OwnOnly(f[j])

\* ... and none with an allow of the owner's hides it.
NoneNeedy(f) ==
  \A i \in 1..Len(f) : OwnersAllow(f[i]) =>
    \E j \in 1..Len(f) : Joined(f, i, j) /\ Holds(f[j], RowOf(Own))

\* The merge lifts no clause of ours alone: one that no "&" keeps apart is the first of "&"s only.
Steady(f) ==
  \A i \in 1..Len(f) : OursOnly(f[i]) /\ (i = 1 \/ f[i].sep = "|") =>
    \A j \in 1..Len(f) : j = 1 \/ f[j].sep = "&"

\* What dropping some of the conditions leaves: org says which.
Leaves(r, f, dropped, org) ==
  /\ org \in [1..Len(r) -> 1..Len(f)]
  /\ \A x, y \in 1..Len(r) : x < y => org[x] < org[y]
  /\ \A x \in 1..Len(r) :
       /\ org[x] \notin dropped
       /\ r[x].field = f[org[x]].field /\ r[x].op = f[org[x]].op /\ r[x].values = f[org[x]].values
       /\ org[x] > 1 /\ f[org[x]].sep = "&" => r[x].sep = "&"
  /\ \A i \in 1..Len(f) : i \notin dropped => \E x \in 1..Len(r) : i = org[x]
  /\ \A x, y \in 1..Len(r) : Joined(f, org[x], org[y]) => Joined(r, x, y)

\* _drop_condition leaves what it did not drop, and regroups nothing of it.
LEMMA DroppingLeaves ==
  ASSUME NEW f \in Seq(Condition), NEW dropped
  PROVE  /\ WithoutConditions(f, dropped) \in Seq(Condition)
         /\ \E org : Leaves(WithoutConditions(f, dropped), f, dropped, org)
<1> DEFINE r == WithoutConditions(f, dropped)
<1>1. DOMAIN f = 1..Len(f) /\ Len(f) \in Nat
  OBVIOUS
<1>2. PICK s \in Seq(Seq(Condition)) : r = FlattenSeq(s) /\ Dropped(s, f, dropped) /\ Separated(s, f, dropped)
  BY WithoutConditionsParts
<1> HIDE DEF r
<1>3. /\ Len(s) = Len(f)
      /\ \A i \in 1..Len(f) : i \in dropped => s[i] = <<>>
      /\ \A i \in 1..Len(f) : i \notin dropped =>
           /\ Len(s[i]) = 1
           /\ s[i][1].field = f[i].field /\ s[i][1].op = f[i].op /\ s[i][1].values = f[i].values
      /\ \A i \in 1..Len(f) : \A k \in 2..i :
           i \notin dropped /\ f[k].sep = "&" /\ (\A j \in k..(i - 1) : j \in dropped) => s[i][1].sep = "&"
  BY <1>1, <1>2 DEF Dropped
<1>4. ASSUME NEW i \in 1..Len(s)
      PROVE  /\ Len(s[i]) =< 1
             /\ Len(s[i]) = 1 <=> i \notin dropped
  <2>1. CASE i \in dropped
    <3>1. s[i] = <<>>
      BY <1>3, <2>1
    <3> QED
      BY <2>1, <3>1
  <2>2. CASE i \notin dropped
    <3>1. i \in 1..Len(f)
      BY <1>3
    <3>2. Len(s[i]) = 1
      BY <1>3, <2>2, <3>1
    <3> QED
      BY ONLY <2>2, <3>2
  <2> QED
    BY <2>1, <2>2
<1>5. r \in Seq(Condition) /\ \E org : Thins(r, s, org)
  BY <1>2, <1>4, ThinParts
<1>6. PICK org : Thins(r, s, org)
  BY <1>5
<1>7. /\ org \in [1..Len(r) -> 1..Len(f)]
      /\ \A x, y \in 1..Len(r) : x < y => org[x] < org[y]
      /\ \A x \in 1..Len(r) : org[x] \in 1..Len(f) /\ org[x] \notin dropped /\ r[x] = s[org[x]][1]
      /\ \A i \in 1..Len(f) : i \notin dropped => \E x \in 1..Len(r) : i = org[x]
  BY <1>3, <1>4, <1>6 DEF Thins
<1>8. ASSUME NEW x \in 1..Len(r)
      PROVE  /\ r[x].field = f[org[x]].field /\ r[x].op = f[org[x]].op /\ r[x].values = f[org[x]].values
             /\ org[x] > 1 /\ f[org[x]].sep = "&" => r[x].sep = "&"
  <2>1. PICK i \in 1..Len(f) : i = org[x]
    BY <1>7
  <2>2. i \notin dropped /\ r[x] = s[i][1]
    BY <1>7, <2>1
  <2>3. ASSUME i > 1, f[i].sep = "&" PROVE s[i][1].sep = "&"
    <3>1. i \in 2..i /\ i..(i - 1) = {}
      BY <1>1, <2>3
    <3> QED
      BY <1>3, <2>2, <2>3, <3>1
  <2> QED
    BY <1>3, <2>1, <2>2, <2>3
<1>9. Between(r, f, org)
  <2> SUFFICES ASSUME NEW x \in 1..Len(r), x > 1, r[x].sep # "|"
               PROVE  \E k \in 1..Len(f) : org[x - 1] < k /\ k =< org[x] /\ f[k].sep # "|"
    BY DEF Between
  <2>1. PICK i \in 1..Len(f) : i = org[x]
    BY <1>7
  <2>2. x - 1 \in 1..Len(r) /\ x - 1 < x
    BY <1>5
  <2>3. PICK h \in 1..Len(f) : h = org[x - 1]
    BY <1>7, <2>2
  <2>4. h < i /\ h \notin dropped /\ i \notin dropped /\ r[x] = s[i][1]
    BY <1>7, <2>1, <2>2, <2>3
  <2>5. r[x].sep = "&"
    BY <1>5, ConditionNames
  <2>6. (i > 1 /\ f[i].sep = "&") \/ \E k \in 2..i : f[k].sep = "&" /\ \A j \in k..(i - 1) : j \in dropped
    BY <1>1, <1>2, <2>4, <2>5 DEF Separated
  <2>7. CASE f[i].sep = "&"
    <3>1. h < i /\ i =< i /\ f[i].sep # "|"
      BY <1>1, <2>4, <2>7
    <3> QED
      BY <2>1, <2>3, <3>1
  <2>8. CASE \E k \in 2..i : f[k].sep = "&" /\ \A j \in k..(i - 1) : j \in dropped
    <3>1. PICK k \in 2..i : f[k].sep = "&" /\ \A j \in k..(i - 1) : j \in dropped
      BY <2>8
    <3>2. ~(k =< h)
      <4> SUFFICES ASSUME k =< h PROVE FALSE
        OBVIOUS
      <4>1. h \in k..(i - 1)
        BY <1>1, <2>4
      <4> QED
        BY <2>4, <3>1, <4>1
    <3>3. k \in 1..Len(f) /\ h < k /\ k =< i /\ f[k].sep # "|"
      BY <1>1, <3>1, <3>2
    <3> QED
      BY <2>1, <2>3, <3>3
  <2> QED
    BY <2>6, <2>7, <2>8
<1>10. \A x, y \in 1..Len(r) : Joined(f, org[x], org[y]) => Joined(r, x, y)
  BY <1>5, <1>7, <1>9, JoinsThin
<1>11. Leaves(r, f, dropped, org)
  BY <1>7, <1>8, <1>10 DEF Leaves
<1> QED
  BY <1>5, <1>11 DEF r

\* The group of a condition.
GroupOf(f, i) == {j \in DOMAIN f : Joined(f, i, j)}

\* A group holds what is joined to any one of it, and nothing else.
LEMMA GroupOfIs ==
  ASSUME NEW f \in Seq(Condition)
  PROVE  /\ \A i \in 1..Len(f) : GroupOf(f, i) \in Groups(f) /\ i \in GroupOf(f, i)
         /\ \A g \in Groups(f) : \A i, j \in g : i \in 1..Len(f) /\ j \in 1..Len(f) /\ Joined(f, i, j)
         /\ \A g \in Groups(f) : \A i \in g : \A j \in 1..Len(f) : Joined(f, i, j) => j \in g
<1>1. DOMAIN f = 1..Len(f)
  OBVIOUS
<1>2. Groups(f) = {GroupOf(f, i) : i \in DOMAIN f}
  BY GroupsAre DEF GroupOf
<1>3. \A i \in 1..Len(f) : GroupOf(f, i) \in Groups(f) /\ i \in GroupOf(f, i)
  BY <1>1, <1>2, JoinedAlike DEF GroupOf
<1>4. ASSUME NEW g \in Groups(f), NEW i \in g
      PROVE  i \in 1..Len(f) /\ \A j \in 1..Len(f) : j \in g <=> Joined(f, i, j)
  <2>1. PICK a \in 1..Len(f) : g = GroupOf(f, a)
    BY <1>1, <1>2, <1>4
  <2>2. i \in 1..Len(f) /\ Joined(f, a, i) /\ Joined(f, i, a)
    BY <1>1, <1>4, <2>1, JoinedAlike DEF GroupOf
  <2>3. ASSUME NEW j \in 1..Len(f) PROVE j \in g <=> Joined(f, i, j)
    <3>1. j \in g <=> Joined(f, a, j)
      BY <1>1, <2>1 DEF GroupOf
    <3>2. Joined(f, a, j) <=> Joined(f, i, j)
      BY <2>2, JoinedAlike
    <3> QED
      BY <3>1, <3>2
  <2> QED
    BY <2>2, <2>3
<1>5. \A g \in Groups(f) : g \subseteq 1..Len(f)
  BY <1>4
<1> QED
  BY <1>3, <1>4, <1>5

\* Dropping the clauses that only admit the own row from the groups without an allow of the owner's,
\* and from any others, leaves no group that admits nothing else: one stays for an exclude of ours.
LEMMA OwnClausesLeave ==
  ASSUME NEW f \in Seq(Condition), NEW groups \in SUBSET Groups(f),
         \A g \in Groups(f) : g \in groups \/ \E i \in g : OwnersAllow(f[i])
  PROVE  NoneOwnOnly(WithoutConditions(f, OwnClauses(f, groups)))
<1> DEFINE dropped == OwnClauses(f, groups)
           r == WithoutConditions(f, dropped)
<1>1. r \in Seq(Condition) /\ \E org : Leaves(r, f, dropped, org)
  BY DroppingLeaves
<1> HIDE DEF r
<1>2. PICK org : Leaves(r, f, dropped, org)
  BY <1>1
<1>3. DOMAIN f = 1..Len(f)
  OBVIOUS
<1> SUFFICES ASSUME NEW x \in 1..Len(r) PROVE \E y \in 1..Len(r) : Joined(r, x, y) /\ ~OwnOnly(r[y])
  BY DEF NoneOwnOnly, r
<1>4. PICK i \in 1..Len(f) : i = org[x]
  BY <1>2 DEF Leaves
<1>5. i \notin dropped
  BY <1>2, <1>4 DEF Leaves
<1>6. \E j \in 1..Len(f) : Joined(f, i, j) /\ j \notin dropped /\ ~OwnOnly(f[j])
  <2>1. CASE ~OwnOnly(f[i])
    BY <1>5, <2>1, JoinedAlike
  <2>2. CASE OwnOnly(f[i])
    <3> DEFINE g == GroupOf(f, i)
    <3>1. g \in Groups(f) /\ i \in g /\ \A j \in g : j \in 1..Len(f) /\ Joined(f, i, j)
      BY GroupOfIs
    <3> HIDE DEF g
    <3>2. (\E j \in g : OwnersAllow(f[j])) \/ RepairPending(f, g)
      <4> SUFFICES ASSUME g \in groups, ~RepairPending(f, g) PROVE FALSE
        BY <3>1
      <4>1. i \in {j \in g : IsLabelAllow(f[j]) /\ f[j].values = {Own}}
        BY <2>2, <3>1 DEF OwnOnly
      <4>2. i \in OwnClauses(f, groups)
        BY <4>1 DEF OwnClauses
      <4> QED
        BY <1>5, <4>2
    <3>3. PICK j \in g : OwnersAllow(f[j]) \/ IsExclude(f[j])
      BY <3>2 DEF RepairPending
    <3>4. ~OwnOnly(f[j])
      BY <3>3 DEF OwnOnly, OwnersAllow, IsExclude, IsLabelAllow
    <3>5. j \notin dropped
      BY <3>4 DEF OwnClauses, OwnOnly
    <3> QED
      BY <3>1, <3>4, <3>5
  <2> QED
    BY <2>1, <2>2
<1>7. PICK j \in 1..Len(f) : Joined(f, i, j) /\ j \notin dropped /\ ~OwnOnly(f[j])
  BY <1>6
<1>8. PICK y \in 1..Len(r) : j = org[y]
  BY <1>2, <1>7 DEF Leaves
<1>9. Joined(r, x, y)
  BY <1>2, <1>4, <1>7, <1>8 DEF Leaves
<1>10. r[y].field = f[j].field /\ r[y].op = f[j].op /\ r[y].values = f[j].values
  BY <1>2, <1>8 DEF Leaves
<1> QED
  BY <1>7, <1>9, <1>10 DEF OwnOnly, IsLabelAllow

\* Dropped from the groups without such an allow, they leave no group needier.
LEMMA OwnClausesFeed ==
  ASSUME NEW f \in Seq(Condition), NoneNeedy(f)
  PROVE  LET notOwners == {g \in Groups(f) : ~\E i \in g : OwnersAllow(f[i])}
         IN NoneNeedy(WithoutConditions(f, OwnClauses(f, notOwners)))
<1> DEFINE notOwners == {g \in Groups(f) : ~\E i \in g : OwnersAllow(f[i])}
           dropped == OwnClauses(f, notOwners)
           r == WithoutConditions(f, dropped)
<1>1. r \in Seq(Condition) /\ \E org : Leaves(r, f, dropped, org)
  BY DroppingLeaves
<1> HIDE DEF r
<1>2. PICK org : Leaves(r, f, dropped, org)
  BY <1>1
<1> SUFFICES ASSUME NEW x \in 1..Len(r), OwnersAllow(r[x])
             PROVE  \E y \in 1..Len(r) : Joined(r, x, y) /\ Holds(r[y], RowOf(Own))
  BY DEF NoneNeedy, r
<1>3. PICK i \in 1..Len(f) : i = org[x]
  BY <1>2 DEF Leaves
<1>4. OwnersAllow(f[i])
  <2>1. r[x].op = f[i].op /\ r[x].values = f[i].values
    BY <1>2, <1>3 DEF Leaves
  <2> QED
    BY <2>1 DEF OwnersAllow
<1>5. PICK j \in 1..Len(f) : Joined(f, i, j) /\ Holds(f[j], RowOf(Own))
  BY <1>4 DEF NoneNeedy
<1>6. j \notin dropped
  <2> SUFFICES ASSUME j \in dropped PROVE FALSE
    OBVIOUS
  <2>1. PICK g \in notOwners : j \in g
    BY DEF OwnClauses
  <2>2. Joined(f, j, i)
    BY <1>5, JoinedAlike
  <2>3. i \in g
    BY <2>1, <2>2, GroupOfIs
  <2> QED
    BY <1>4, <2>1, <2>3
<1>7. PICK y \in 1..Len(r) : j = org[y]
  BY <1>2, <1>6 DEF Leaves
<1>8. Joined(r, x, y)
  BY <1>2, <1>3, <1>5, <1>7 DEF Leaves
<1>9. r[y].op = f[j].op /\ r[y].values = f[j].values
  BY <1>2, <1>7 DEF Leaves
<1> QED
  BY <1>5, <1>8, <1>9 DEF Holds

-----------------------------------------------------------------------------
(* admit_own_rows leaves every group judged. *)

\* Admitting the own row beside what a condition holds makes it no narrower.
LEMMA WideningKeeps ==
  ASSUME NEW c \in Condition, NEW d \in Condition, Widens(d, c), IsExclude(c) => d = c
  PROVE  /\ Holds(c, RowOf(Own)) => Holds(d, RowOf(Own))
         /\ OwnOnly(d) => OwnOnly(c)
         /\ OwnersAllow(d) => OwnersAllow(c)
         /\ OwnersAllow(c) => OwnersAllow(d)
         /\ OursOnly(d) => OursOnly(c)
<1>1. /\ d.field = c.field /\ d.op = c.op
      /\ d.values = c.values \/ d.values = c.values \cup {Own}
  BY DEF Widens
<1>2. c.field \in Fields /\ c.op \in {"=", "!="} /\ c.values # {}
  BY ConditionNames
<1>3. OwnOnly(d) => OwnOnly(c)
  BY <1>1, <1>2 DEF OwnOnly, IsLabelAllow
<1>4. OwnersAllow(d) => OwnersAllow(c)
  BY <1>1, <1>2 DEF OwnersAllow
<1>5. OursOnly(d) => OursOnly(c)
  BY <1>1 DEF OursOnly, IsExclude
<1>6. ASSUME Holds(c, RowOf(Own)) PROVE Holds(d, RowOf(Own))
  <2>1. CASE c.op = "="
    BY <1>1, <1>6, <2>1 DEF Holds
  <2>2. CASE c.op = "!=" /\ c.field = "label"
    BY <1>6, <2>2 DEF IsExclude
  <2>3. CASE c.op = "!=" /\ c.field = "contentRating"
    <3>1. d.values \subseteq Ratings
      <4>1. NamesItsOwn(d) /\ d.field # "label"
        BY <1>1, <2>3 DEF Condition
      <4> QED
        BY <4>1 DEF NamesItsOwn
    <3>2. RowOf(Own) \subseteq Labels
      BY DEF RowOf, Labels, Ours
    <3>3. d.values \cap RowOf(Own) = {}
      BY <3>1, <3>2, ShareFilterAssumption
    <3> QED
      BY <1>1, <2>3, <3>3 DEF Holds
  <2> QED
    BY <1>2, <2>1, <2>2, <2>3 DEF Fields
<1>7. OwnersAllow(c) => OwnersAllow(d)
  BY <1>1, <1>2 DEF OwnersAllow
<1> QED
  BY <1>3, <1>4, <1>5, <1>6, <1>7

\* What widening makes of a filter: to says where each condition went.
Widening(w, f, s, to) ==
  /\ w \in Seq(Condition) /\ Thickens(w, s, to) /\ Follow(s, f)
  /\ \A p \in 1..Len(f) :
       /\ s[p] \in Seq(Condition) /\ Len(s[p]) >= 1
       /\ Widens(s[p][1], f[p]) /\ (IsExclude(f[p]) => s[p][1] = f[p])
       /\ \A k \in 2..Len(s[p]) : OwnOnly(s[p][k]) /\ \E g \in Needy(f) : p \in g
  /\ NeedyMet(s, f)

\* It is such a widening.
LEMMA WidenedIs ==
  ASSUME NEW f \in Seq(Condition)
  PROVE  \E s \in Seq(Seq(Condition)) : \E to : Widening(Widened(f), f, s, to)
<1>1. DOMAIN f = 1..Len(f)
  OBVIOUS
<1>2. PICK s \in Seq(Seq(Condition)) :
        /\ Len(s) = Len(f)
        /\ Widened(f) = FlattenSeq(s)
        /\ Followed(s, f)
        /\ NeedyMet(s, f)
        /\ \A i \in DOMAIN f :
             /\ IsExclude(f[i]) => Len(s[i]) >= 1 /\ s[i][1] = f[i]
             /\ Len(s[i]) >= 1
             /\ Widens(s[i][1], f[i])
             /\ \A k \in 2..Len(s[i]) : OwnOnly(s[i][k])
  BY WidenedParts
<1>3. \A p \in 1..Len(s) : Len(s[p]) >= 1
  BY <1>1, <1>2
<1>4. Widened(f) \in Seq(Condition) /\ \E to : Thickens(Widened(f), s, to)
  BY <1>2, <1>3, ThickParts
<1>5. PICK to : Thickens(Widened(f), s, to)
  BY <1>4
<1>6. Follow(s, f)
  BY <1>1, <1>2 DEF Follow, Followed, Widens
<1>7. \A p \in 1..Len(f) :
        /\ s[p] \in Seq(Condition) /\ Len(s[p]) >= 1
        /\ Widens(s[p][1], f[p]) /\ (IsExclude(f[p]) => s[p][1] = f[p])
        /\ \A k \in 2..Len(s[p]) : OwnOnly(s[p][k]) /\ \E g \in Needy(f) : p \in g
  <2> TAKE p \in 1..Len(f)
  <2>1. s[p] \in Seq(Condition)
    BY <1>2
  <2>2. p \in DOMAIN f
    BY <1>1
  <2>3. /\ Len(s[p]) >= 1
        /\ Widens(s[p][1], f[p]) /\ (IsExclude(f[p]) => s[p][1] = f[p])
        /\ \A k \in 2..Len(s[p]) : OwnOnly(s[p][k])
    BY <1>2, <2>2
  <2>4. \A k \in 2..Len(s[p]) : \E g \in Needy(f) : p \in g
    BY <1>2, <2>2 DEF Followed
  <2> QED
    BY <2>1, <2>3, <2>4
<1>8. Widening(Widened(f), f, s, to)
  BY <1>2, <1>4, <1>5, <1>6, <1>7 DEF Widening
<1> QED
  BY <1>8

\* What its parts have to do with the conditions they begin with.
LEMMA WideningParts ==
  ASSUME NEW f \in Seq(Condition), NEW s \in Seq(Seq(Condition)), NEW to, NEW w, Widening(w, f, s, to)
  PROVE  /\ \A p \in 1..Len(f) :
              /\ to[p] \in 1..Len(w) /\ w[to[p]] = s[p][1]
              /\ Holds(f[p], RowOf(Own)) => Holds(w[to[p]], RowOf(Own))
              /\ OwnOnly(w[to[p]]) => OwnOnly(f[p])
              /\ OwnersAllow(w[to[p]]) <=> OwnersAllow(f[p])
              /\ OursOnly(w[to[p]]) => OursOnly(f[p])
         /\ \A x \in 1..Len(w) : \E p \in 1..Len(f) :
              /\ Joined(w, to[p], x)
              /\ \/ x = to[p]
                 \/ OwnOnly(w[x]) /\ \E g \in Needy(f) : p \in g
<1>1. /\ w \in Seq(Condition) /\ Thickens(w, s, to) /\ Follow(s, f)
      /\ \A p \in 1..Len(f) :
           /\ s[p] \in Seq(Condition) /\ Len(s[p]) >= 1
           /\ Widens(s[p][1], f[p]) /\ (IsExclude(f[p]) => s[p][1] = f[p])
           /\ \A k \in 2..Len(s[p]) : OwnOnly(s[p][k]) /\ \E g \in Needy(f) : p \in g
  BY DEF Widening
<1>2. /\ Len(s) = Len(f)
      /\ to \in [1..Len(f) -> 1..Len(w)]
      /\ \A p \in 1..Len(f) : \A k \in 1..Len(s[p]) : to[p] + k - 1 \in 1..Len(w) /\ w[to[p] + k - 1] = s[p][k]
      /\ \A x \in 1..Len(w) : \E p \in 1..Len(f) : \E k \in 1..Len(s[p]) : x = to[p] + k - 1
  BY <1>1 DEF Thickens, Follow
<1>3. ASSUME NEW p \in 1..Len(f)
      PROVE  /\ to[p] \in 1..Len(w) /\ w[to[p]] = s[p][1]
             /\ Holds(f[p], RowOf(Own)) => Holds(w[to[p]], RowOf(Own))
             /\ OwnOnly(w[to[p]]) => OwnOnly(f[p])
             /\ OwnersAllow(w[to[p]]) <=> OwnersAllow(f[p])
             /\ OursOnly(w[to[p]]) => OursOnly(f[p])
  <2>0. Len(s[p]) \in Nat /\ Len(s[p]) >= 1 /\ Len(w) \in Nat /\ to[p] \in 1..Len(w)
    <3>1. s[p] \in Seq(Condition) /\ Len(s[p]) >= 1
      BY <1>1
    <3>2. Len(s[p]) \in Nat
      BY <3>1
    <3>3. Len(w) \in Nat
      BY <1>1
    <3>4. to[p] \in 1..Len(w)
      BY <1>2
    <3> QED
      BY <3>1, <3>2, <3>3, <3>4
  <2>1. 1 \in 1..Len(s[p])
    BY <2>0
  <2>2. to[p] \in 1..Len(w) /\ to[p] + 1 - 1 = to[p]
    <3> DEFINE u == to[p]
               n == Len(w)
    <3>1. u \in 1..n /\ n \in Nat
      BY <2>0
    <3> HIDE DEF u, n
    <3>2. u \in 1..n /\ u + 1 - 1 = u
      BY ONLY <3>1
    <3> QED
      BY <3>2 DEF u, n
  <2>3. w[to[p]] = s[p][1]
    BY <1>2, <2>1, <2>2
  <2>4. s[p][1] \in Condition /\ f[p] \in Condition
    BY <1>1, <2>1
  <2>5. Widens(s[p][1], f[p]) /\ (IsExclude(f[p]) => s[p][1] = f[p])
    BY <1>1
  <2> QED
    BY <2>2, <2>3, <2>4, <2>5, WideningKeeps
<1>4. ASSUME NEW x \in 1..Len(w)
      PROVE  \E p \in 1..Len(f) : /\ Joined(w, to[p], x)
                                  /\ x = to[p] \/ (OwnOnly(w[x]) /\ \E g \in Needy(f) : p \in g)
  <2>1. PICK p \in 1..Len(f) : \E k \in 1..Len(s[p]) : x = to[p] + k - 1
    BY <1>2
  <2>2. PICK k \in 1..Len(s[p]) : x = to[p] + k - 1
    BY <2>1
  <2>3. Joined(w, to[p], x)
    BY <1>1, <2>2, JoinsThick
  <2>4. to[p] \in Nat /\ Len(s[p]) \in Nat
    <3>1. s[p] \in Seq(Condition) /\ to[p] \in 1..Len(w)
      BY <1>1, <1>2
    <3> QED
      BY <3>1
  <2>5. CASE k = 1
    BY <2>2, <2>3, <2>4, <2>5
  <2>6. CASE k # 1
    <3>1. k \in 2..Len(s[p])
      BY <2>4, <2>6
    <3>2. OwnOnly(s[p][k]) /\ \E g \in Needy(f) : p \in g
      BY <1>1, <3>1
    <3>3. w[x] = s[p][k]
      BY <1>2, <2>2
    <3> QED
      BY <2>3, <3>2, <3>3
  <2> QED
    BY <2>5, <2>6
<1> QED
  BY <1>3, <1>4

\* Widening leaves no group that admits nothing but the own row, ...
LEMMA WidenedNoneOwnOnly ==
  ASSUME NEW f \in Seq(Condition), NoneOwnOnly(f)
  PROVE  NoneOwnOnly(Widened(f))
<1> DEFINE w == Widened(f)
<1>1. PICK s \in Seq(Seq(Condition)) : \E to : Widening(w, f, s, to)
  BY WidenedIs
<1>2. PICK to : Widening(w, f, s, to)
  BY <1>1
<1> HIDE DEF w
<1>3. w \in Seq(Condition) /\ Thickens(w, s, to) /\ Follow(s, f)
  BY <1>2 DEF Widening
<1> SUFFICES ASSUME NEW x \in 1..Len(w) PROVE \E y \in 1..Len(w) : Joined(w, x, y) /\ ~OwnOnly(w[y])
  BY DEF NoneOwnOnly, w
<1>4. PICK p \in 1..Len(f) : Joined(w, to[p], x)
  BY <1>2, WideningParts
<1>5. PICK q \in 1..Len(f) : Joined(f, p, q) /\ ~OwnOnly(f[q])
  BY DEF NoneOwnOnly
<1>6. Joined(w, to[p], to[q])
  BY <1>3, <1>5, JoinsThick
<1>7. to[p] \in 1..Len(w) /\ to[q] \in 1..Len(w) /\ ~OwnOnly(w[to[q]])
  BY <1>2, <1>5, WideningParts
<1>8. Joined(w, x, to[q])
  BY <1>3, <1>4, <1>6, <1>7, JoinedAlike
<1> QED
  BY <1>7, <1>8

\* ... and none that hides it where the owner allows something.
LEMMA WidenedNoneNeedy ==
  ASSUME NEW f \in Seq(Condition)
  PROVE  NoneNeedy(Widened(f))
<1> DEFINE w == Widened(f)
<1>1. PICK s \in Seq(Seq(Condition)) : \E to : Widening(w, f, s, to)
  BY WidenedIs
<1>2. PICK to : Widening(w, f, s, to)
  BY <1>1
<1> HIDE DEF w
<1>3. w \in Seq(Condition) /\ Thickens(w, s, to) /\ Follow(s, f) /\ NeedyMet(s, f)
  BY <1>2 DEF Widening
<1> SUFFICES ASSUME NEW x \in 1..Len(w), OwnersAllow(w[x])
             PROVE  \E y \in 1..Len(w) : Joined(w, x, y) /\ Holds(w[y], RowOf(Own))
  BY DEF NoneNeedy, w
<1>4. PICK p \in 1..Len(f) : /\ Joined(w, to[p], x)
                             /\ \/ x = to[p]
                                \/ OwnOnly(w[x]) /\ \E g \in Needy(f) : p \in g
  BY <1>2, WideningParts
<1>5. x = to[p] /\ OwnersAllow(f[p])
  <2>1. ~OwnOnly(w[x])
    BY DEF OwnersAllow, OwnOnly
  <2>2. x = to[p]
    BY <1>4, <2>1
  <2> QED
    BY <1>2, <2>2, WideningParts
<1> DEFINE g == GroupOf(f, p)
<1>6. g \in Groups(f) /\ p \in g /\ \A j \in g : j \in 1..Len(f) /\ Joined(f, p, j)
  BY GroupOfIs
<1> HIDE DEF g
<1>7. CASE \E j \in g : Holds(f[j], RowOf(Own))
  <2>1. PICK j \in g : Holds(f[j], RowOf(Own))
    BY <1>7
  <2>2. j \in 1..Len(f) /\ Joined(w, to[p], to[j])
    BY <1>3, <1>6, JoinsThick
  <2>3. to[j] \in 1..Len(w) /\ Holds(w[to[j]], RowOf(Own))
    BY <1>2, <2>1, <2>2, WideningParts
  <2> QED
    BY <1>5, <2>2, <2>3
<1>8. CASE ~\E j \in g : Holds(f[j], RowOf(Own))
  <2>1. g \in Needy(f)
    BY <1>5, <1>6, <1>8 DEF Needy
  <2>2. PICK j \in g : Welcomes(s[j])
    BY <1>3, <2>1 DEF NeedyMet
  <2>3. j \in 1..Len(f) /\ Joined(w, to[p], to[j])
    BY <1>3, <1>6, JoinsThick
  <2>4. CASE IsLabelAllow(s[j][1]) /\ Own \in s[j][1].values
    <3>1. to[j] \in 1..Len(w) /\ w[to[j]] = s[j][1]
      <4>1. \A m \in 1..Len(f) : to[m] \in 1..Len(w) /\ w[to[m]] = s[m][1]
        BY <1>2, WideningParts
      <4> QED
        BY <2>3, <4>1
    <3>2. Holds(w[to[j]], RowOf(Own))
      BY <2>4, <3>1 DEF Holds, IsLabelAllow, RowOf
    <3> QED
      BY <1>5, <2>3, <3>1, <3>2
  <2>5. CASE Len(s[j]) >= 2
    <3>1. Len(s[j]) \in Nat /\ \A k \in 2..Len(s[j]) : OwnOnly(s[j][k])
      BY <1>2, <2>3 DEF Widening
    <3>2. 2 \in 1..Len(s[j]) /\ 2 \in 2..Len(s[j])
      BY <2>5, <3>1
    <3> DEFINE y == to[j] + 2 - 1
    <3>3. y \in 1..Len(w) /\ w[y] = s[j][2] /\ Joined(w, to[j], y)
      <4>1. Len(s) = Len(f)
        BY <1>3 DEF Follow
      <4> QED
        BY <1>3, <2>3, <3>2, <4>1, JoinsThick DEF Thickens
    <3> HIDE DEF y
    <3>4. OwnOnly(w[y])
      BY <3>1, <3>2, <3>3
    <3>5. Holds(w[y], RowOf(Own))
      BY <3>4 DEF OwnOnly, IsLabelAllow, Holds, RowOf
    <3>6. to[j] \in 1..Len(w) /\ to[p] \in 1..Len(w)
      BY <1>2, <2>3, WideningParts
    <3>7. Joined(w, to[p], y)
      BY <1>3, <2>3, <3>3, <3>6, JoinedAlike
    <3> QED
      BY <1>5, <3>3, <3>5, <3>7
  <2> QED
    BY <2>2, <2>4, <2>5 DEF Welcomes
<1> QED
  BY <1>7, <1>8

\* Writing a filter out changes none of this.
LEMMA SerializedRests ==
  ASSUME NEW f \in Seq(Condition)
  PROVE  /\ NoneOwnOnly(f) => NoneOwnOnly(Serialized(f))
         /\ NoneNeedy(f) => NoneNeedy(Serialized(f))
         /\ Steady(f) => Steady(Serialized(f))
<1> DEFINE h == Serialized(f)
<1>1. h \in Seq(Condition) /\ Len(h) = Len(f) /\ Len(f) \in Nat
  BY SerializedStays
<1>2. \A i \in 1..Len(f) : /\ h[i].field = f[i].field /\ h[i].op = f[i].op /\ h[i].values = f[i].values
                           /\ i # 1 => h[i] = f[i]
  <2>1. DOMAIN f = 1..Len(f)
    OBVIOUS
  <2> QED
    BY <2>1, SerializedStays
<1> HIDE DEF h
<1>3. \A i, j \in 1..Len(f) : Joined(h, i, j) <=> Joined(f, i, j)
  BY <1>1, <1>2, JoinedStays
<1>4. \A i \in 1..Len(f) : /\ OwnOnly(h[i]) <=> OwnOnly(f[i])
                           /\ OwnersAllow(h[i]) <=> OwnersAllow(f[i])
                           /\ OursOnly(h[i]) <=> OursOnly(f[i])
                           /\ Holds(h[i], RowOf(Own)) <=> Holds(f[i], RowOf(Own))
  BY <1>2 DEF OwnOnly, OwnersAllow, OursOnly, IsLabelAllow, IsExclude, Holds
<1>5. NoneOwnOnly(f) => NoneOwnOnly(h)
  BY <1>1, <1>3, <1>4 DEF NoneOwnOnly
<1>6. NoneNeedy(f) => NoneNeedy(h)
  BY <1>1, <1>3, <1>4 DEF NoneNeedy
<1>7. Steady(f) => Steady(h)
  BY <1>1, <1>2, <1>4 DEF Steady
<1> QED
  BY <1>5, <1>6, <1>7 DEF h

\* A filter with its own rows admitted is judged, group by group.
LEMMA AdmittedJudged ==
  ASSUME NEW f \in Seq(Condition)
  PROVE  Admitted(f) \in Seq(Condition) /\ NoneOwnOnly(Admitted(f)) /\ NoneNeedy(Admitted(f))
<1> DEFINE notOwners == {g \in Groups(f) : ~\E i \in g : OwnersAllow(f[i])}
           rest == WithoutConditions(f, OwnClauses(f, notOwners))
<1>1. Admitted(f) = Serialized(Widened(rest))
  BY DEF Admitted
<1>2. rest \in Seq(Condition)
  BY DroppingLeaves
<1>3. NoneOwnOnly(rest)
  <2>1. notOwners \in SUBSET Groups(f) /\ \A g \in Groups(f) : g \in notOwners \/ \E i \in g : OwnersAllow(f[i])
    OBVIOUS
  <2> HIDE DEF notOwners
  <2> QED
    BY <2>1, OwnClausesLeave
<1> HIDE DEF rest
<1> DEFINE w == Widened(rest)
<1>4. w \in Seq(Condition)
  BY <1>2, WidenedIs DEF Widening
<1>5. NoneOwnOnly(w) /\ NoneNeedy(w)
  BY <1>2, <1>3, WidenedNoneOwnOnly, WidenedNoneNeedy
<1> HIDE DEF w
<1>6. Serialized(w) \in Seq(Condition) /\ NoneOwnOnly(Serialized(w)) /\ NoneNeedy(Serialized(w))
  BY <1>4, <1>5, SerializedRests, SerializedStays
<1> QED
  BY <1>1, <1>6 DEF w

\* Where no group is needy, none is widened.
LEMMA WidenedSteady ==
  ASSUME NEW f \in Seq(Condition), NoneNeedy(f), Steady(f)
  PROVE  Steady(Widened(f))
<1> DEFINE w == Widened(f)
<1>1. PICK s \in Seq(Seq(Condition)) : \E to : Widening(w, f, s, to)
  BY WidenedIs
<1>2. PICK to : Widening(w, f, s, to)
  BY <1>1
<1> HIDE DEF w
<1>3. w \in Seq(Condition) /\ Thickens(w, s, to) /\ Follow(s, f)
  BY <1>2 DEF Widening
<1>4. Needy(f) = {}
  <2> SUFFICES ASSUME NEW g \in Needy(f) PROVE FALSE
    OBVIOUS
  <2>1. g \in Groups(f) /\ ~\E i \in g : Holds(f[i], RowOf(Own))
    BY DEF Needy
  <2>2. PICK i \in g : OwnersAllow(f[i])
    BY DEF Needy
  <2>3. i \in 1..Len(f)
    BY <2>1, GroupOfIs
  <2>4. PICK j \in 1..Len(f) : Joined(f, i, j) /\ Holds(f[j], RowOf(Own))
    BY <2>2, <2>3 DEF NoneNeedy
  <2>5. j \in g
    BY <2>1, <2>4, GroupOfIs
  <2> QED
    BY <2>1, <2>4, <2>5
<1>5. \A x \in 1..Len(w) : \E p \in 1..Len(f) : x = to[p]
  BY <1>2, <1>4, WideningParts
<1>6. Len(f) = Len(w) /\ \A p \in 1..Len(f) : to[p] = p
  <2>1. Len(s) = Len(f) /\ Len(f) \in Nat /\ Len(w) \in Nat
    BY <1>3 DEF Follow
  <2>2. to \in [1..Len(f) -> 1..Len(w)] /\ \A p, q \in 1..Len(f) : p < q => to[p] < to[q]
    BY <1>3, <2>1 DEF Thickens
  <2>3. Enumerates(to, Len(f), Len(w))
    BY <1>5, <2>2 DEF Enumerates
  <2> QED
    BY <2>1, <2>3, AllInPlace
<1>7. \A p \in 1..Len(f) : OursOnly(w[p]) => OursOnly(f[p])
  <2>1. \A p \in 1..Len(f) : OursOnly(w[to[p]]) => OursOnly(f[p])
    BY <1>2, WideningParts
  <2> QED
    BY <1>6, <2>1
<1>8. \A p \in 1..Len(f) : p > 1 => w[p].sep = f[p].sep
  <2>1. \A p \in 1..Len(f) : w[to[p]] = s[p][1]
    BY <1>2, WideningParts
  <2>2. \A p \in 1..Len(f) : p > 1 => s[p][1].sep = f[p].sep
    BY <1>3 DEF Follow
  <2> QED
    BY <1>6, <2>1, <2>2
<1> SUFFICES ASSUME NEW i \in 1..Len(f), OursOnly(w[i]), i = 1 \/ w[i].sep = "|",
                    NEW j \in 1..Len(f)
             PROVE  j = 1 \/ w[j].sep = "&"
  BY <1>6 DEF Steady, w
<1>9. OursOnly(f[i]) /\ (i = 1 \/ f[i].sep = "|")
  BY <1>7, <1>8
<1>10. j = 1 \/ f[j].sep = "&"
  BY <1>9 DEF Steady
<1> QED
  BY <1>8, <1>10

\* Dropping clauses that only admit the own row leaves a steady filter steady: no group is gone, so
\* that the first condition is of the group it was of.
LEMMA DroppingSteady ==
  ASSUME NEW f \in Seq(Condition), NoneOwnOnly(f), Steady(f), NEW dropped,
         \A i \in 1..Len(f) : i \in dropped => OwnOnly(f[i])
  PROVE  Steady(WithoutConditions(f, dropped))
<1> DEFINE r == WithoutConditions(f, dropped)
<1>1. r \in Seq(Condition) /\ \E org : Leaves(r, f, dropped, org)
  BY DroppingLeaves
<1> HIDE DEF r
<1>2. PICK org : Leaves(r, f, dropped, org)
  BY <1>1
<1>3. /\ DOMAIN f = 1..Len(f) /\ Len(f) \in Nat /\ Len(r) \in Nat
      /\ \A i \in 1..Len(f) : f[i].sep \in {"|", "&"}
      /\ \A x \in 1..Len(r) : r[x].sep \in {"|", "&"}
  BY <1>1, ConditionNames
<1>4. /\ \A x \in 1..Len(r) : org[x] \in 1..Len(f)
      /\ \A x, y \in 1..Len(r) : x < y => org[x] < org[y]
      /\ \A x \in 1..Len(r) : org[x] > 1 /\ f[org[x]].sep = "&" => r[x].sep = "&"
      /\ \A i \in 1..Len(f) : i \notin dropped => \E x \in 1..Len(r) : i = org[x]
  BY <1>2 DEF Leaves
<1> SUFFICES ASSUME NEW x \in 1..Len(r), OursOnly(r[x]), x = 1 \/ r[x].sep = "|",
                    NEW y \in 1..Len(r), y # 1
             PROVE  r[y].sep = "&"
  BY DEF Steady, r
<1>5. PICK i \in 1..Len(f) : i = org[x]
  BY <1>4
<1>6. OursOnly(f[i])
  <2>1. r[x].field = f[i].field /\ r[x].op = f[i].op /\ r[x].values = f[i].values
    BY <1>2, <1>5 DEF Leaves
  <2> QED
    BY <2>1 DEF OursOnly, IsExclude
<1>7. CASE i = 1
  <2>1. PICK m \in 1..Len(f) : m = org[y]
    BY <1>4
  <2>2. m > 1
    <3>1. 1 \in 1..Len(r) /\ 1 < y
      BY <1>3
    <3>2. org[1] \in 1..Len(f) /\ org[1] < m
      BY <1>4, <2>1, <3>1
    <3> QED
      BY <1>3, <3>2
  <2>3. f[m].sep = "&"
    BY <1>3, <1>6, <1>7, <2>2 DEF Steady
  <2> QED
    BY <1>4, <2>1, <2>2, <2>3
<1>8. CASE i # 1 /\ f[i].sep = "|"
  BY <1>6, <1>8 DEF Steady
<1>9. CASE i # 1 /\ f[i].sep = "&"
  <2>1. i > 1 /\ 1 \in 1..Len(f)
    BY <1>3, <1>9
  <2>2. r[x].sep = "&"
    BY <1>4, <1>5, <1>9, <2>1
  <2>3. x = 1
    BY <2>2
  <2>4. PICK j \in 1..Len(f) : Joined(f, 1, j) /\ ~OwnOnly(f[j])
    BY <2>1 DEF NoneOwnOnly
  <2>5. PICK z \in 1..Len(r) : j = org[z]
    BY <1>4, <2>4
  <2>6. i =< j
    <3>1. z = 1 \/ 1 < z
      BY <1>3
    <3>2. CASE z = 1
      BY <1>3, <1>5, <2>3, <2>5, <3>2
    <3>3. CASE 1 < z
      <4>1. org[x] < org[z]
        BY <1>4, <2>3, <3>3
      <4> QED
        BY <1>3, <1>5, <2>5, <4>1
    <3> QED
      BY <3>1, <3>2, <3>3
  <2> QED
    BY <1>3, <1>9, <2>1, <2>4, <2>6 DEF Joined
<1> QED
  BY <1>3, <1>7, <1>8, <1>9

\* The pass after a steady one finds a steady filter.
LEMMA AdmittedSteady ==
  ASSUME NEW f \in Seq(Condition), NoneOwnOnly(f), NoneNeedy(f), Steady(f)
  PROVE  Steady(Admitted(f))
<1> DEFINE notOwners == {g \in Groups(f) : ~\E i \in g : OwnersAllow(f[i])}
           dropped == OwnClauses(f, notOwners)
           rest == WithoutConditions(f, dropped)
<1>1. Admitted(f) = Serialized(Widened(rest))
  BY DEF Admitted
<1>2. rest \in Seq(Condition)
  BY DroppingLeaves
<1>3. NoneNeedy(rest)
  BY OwnClausesFeed
<1>4. Steady(rest)
  <2>1. \A i \in 1..Len(f) : i \in dropped => OwnOnly(f[i])
    BY DEF OwnClauses, OwnOnly
  <2> HIDE DEF dropped
  <2> QED
    BY <2>1, DroppingSteady
<1> HIDE DEF rest
<1> DEFINE w == Widened(rest)
<1>5. w \in Seq(Condition) /\ Steady(w)
  BY <1>2, <1>3, <1>4, WidenedIs, WidenedSteady DEF Widening
<1> HIDE DEF w
<1>6. Steady(Serialized(w))
  BY <1>5, SerializedRests
<1> QED
  BY <1>1, <1>6 DEF w

-----------------------------------------------------------------------------
(* A merge that lifts nothing regroups nothing. *)

\* h is f, with excludes cut down, or added to where they are enforced, and others behind an "&".
Trims(h, f) ==
  /\ Len(h) >= Len(f)
  /\ \A i \in 1..Len(f) :
       /\ h[i].field = f[i].field /\ h[i].op = f[i].op
       /\ i > 1 => h[i].sep = f[i].sep
       /\ ~IsExclude(f[i]) => h[i].values = f[i].values
       /\ IsExclude(f[i]) =>
            /\ h[i].values \subseteq Ours => f[i].values \subseteq Ours
            /\ h[i].values \subseteq f[i].values \/ i \in Enforced(f)
  /\ \A i \in 1..Len(h) : i > Len(f) => IsExclude(h[i]) /\ (i > 1 => h[i].sep = "&")

\* That keeps a steady, judged filter so.
LEMMA TrimmedRests ==
  ASSUME NEW f \in Seq(Condition), NEW h \in Seq(Condition), Trims(h, f)
  PROVE  /\ NoneOwnOnly(f) => NoneOwnOnly(h)
         /\ NoneNeedy(f) => NoneNeedy(h)
         /\ Steady(f) => Steady(h)
<1>1. /\ Len(h) \in Nat /\ Len(f) \in Nat /\ DOMAIN f = 1..Len(f)
      /\ \A i \in 1..Len(f) : i \in 1..Len(h)
  BY DEF Trims
<1>2. /\ \A i \in 1..Len(f) :
           /\ h[i].field = f[i].field /\ h[i].op = f[i].op
           /\ i > 1 => h[i].sep = f[i].sep
           /\ ~IsExclude(f[i]) => h[i].values = f[i].values
           /\ IsExclude(f[i]) =>
                /\ h[i].values \subseteq Ours => f[i].values \subseteq Ours
                /\ h[i].values \subseteq f[i].values \/ i \in Enforced(f)
      /\ \A i \in 1..Len(h) : i > Len(f) => IsExclude(h[i]) /\ (i > 1 => h[i].sep = "&")
  BY DEF Trims
<1>3. \A i, j \in 1..Len(f) : Joined(f, i, j) => Joined(h, i, j)
  BY <1>2, JoinedStays DEF Trims
<1>4. \A i \in 1..Len(f) : /\ IsExclude(h[i]) <=> IsExclude(f[i])
                           /\ OwnOnly(h[i]) => OwnOnly(f[i])
                           /\ OursOnly(h[i]) => OursOnly(f[i])
  BY <1>2 DEF IsExclude, OwnOnly, IsLabelAllow, OursOnly
<1>5. ASSUME NoneOwnOnly(f) PROVE NoneOwnOnly(h)
  <2> SUFFICES ASSUME NEW i \in 1..Len(h) PROVE \E j \in 1..Len(h) : Joined(h, i, j) /\ ~OwnOnly(h[j])
    BY DEF NoneOwnOnly
  <2>1. CASE i \in 1..Len(f)
    <3>1. PICK j \in 1..Len(f) : Joined(f, i, j) /\ ~OwnOnly(f[j])
      BY <1>5, <2>1 DEF NoneOwnOnly
    <3> QED
      BY <1>1, <1>3, <1>4, <2>1, <3>1
  <2>2. CASE i \notin 1..Len(f)
    <3>1. IsExclude(h[i])
      BY <1>1, <1>2, <2>2
    <3>2. ~OwnOnly(h[i])
      BY <3>1 DEF IsExclude, OwnOnly, IsLabelAllow
    <3> QED
      BY <3>2, JoinedAlike
  <2> QED
    BY <2>1, <2>2
<1>6. ASSUME NoneNeedy(f) PROVE NoneNeedy(h)
  <2> SUFFICES ASSUME NEW i \in 1..Len(h), OwnersAllow(h[i])
               PROVE  \E j \in 1..Len(h) : Joined(h, i, j) /\ Holds(h[j], RowOf(Own))
    BY DEF NoneNeedy
  <2>1. ~IsExclude(h[i])
    BY DEF OwnersAllow, IsExclude
  <2>2. i \in 1..Len(f)
    BY <1>1, <1>2, <2>1
  <2>3. ~IsExclude(f[i])
    BY <1>4, <2>1, <2>2
  <2>4. OwnersAllow(f[i])
    BY <1>2, <2>2, <2>3 DEF OwnersAllow
  <2>5. PICK j \in 1..Len(f) : Joined(f, i, j) /\ Holds(f[j], RowOf(Own))
    BY <1>6, <2>2, <2>4 DEF NoneNeedy
  <2>6. Joined(h, i, j) /\ j \in 1..Len(h)
    BY <1>1, <1>3, <2>2, <2>5
  <2>7. CASE ~IsExclude(f[j])
    <3>1. h[j].op = f[j].op /\ h[j].values = f[j].values
      BY <1>2, <2>7
    <3> QED
      BY <2>5, <2>6, <3>1 DEF Holds
  <2>8. CASE IsExclude(f[j]) /\ j \in Enforced(f)
    <3>1. i # j
      BY <2>3, <2>8
    <3>2. \A k \in 1..Len(f) : k >= j => k = 1 \/ f[k].sep # "|"
      BY <1>1, <2>8 DEF Enforced
    <3>3. CASE i < j
      <4>1. j > 1 /\ f[j].sep = "|"
        BY <1>1, <2>2, <2>5, <3>3 DEF Joined
      <4> QED
        BY <1>1, <3>2, <4>1
    <3>4. CASE j < i
      <4>1. i > 1 /\ f[i].sep = "|"
        BY <1>1, <2>2, <2>5, <3>4 DEF Joined
      <4> QED
        BY <1>1, <2>2, <3>2, <3>4, <4>1
    <3> QED
      BY <1>1, <2>2, <3>1, <3>3, <3>4
  <2>9. CASE IsExclude(f[j]) /\ h[j].values \subseteq f[j].values
    <3>1. h[j].op = f[j].op /\ f[j].op # "="
      BY <1>2, <2>9 DEF IsExclude
    <3>2. f[j].values \cap RowOf(Own) = {}
      BY <2>5, <3>1 DEF Holds
    <3>3. h[j].values \cap RowOf(Own) = {}
      BY <2>9, <3>2
    <3> QED
      BY <2>6, <3>1, <3>3 DEF Holds
  <2> QED
    BY <1>2, <2>7, <2>8, <2>9
<1>7. ASSUME Steady(f) PROVE Steady(h)
  <2> SUFFICES ASSUME NEW i \in 1..Len(h), OursOnly(h[i]), i = 1 \/ h[i].sep = "|",
                      NEW j \in 1..Len(h), j # 1
               PROVE  h[j].sep = "&"
    BY DEF Steady
  <2>1. CASE j \notin 1..Len(f)
    BY <1>1, <1>2, <2>1
  <2>2. CASE j \in 1..Len(f)
    <3>1. i \in 1..Len(f)
      <4> SUFFICES ASSUME i \notin 1..Len(f) PROVE FALSE
        OBVIOUS
      <4>1. i > Len(f) /\ i > 1
        BY <1>1, <2>2
      <4> QED
        BY <1>2, <4>1
    <3>2. OursOnly(f[i]) /\ (i = 1 \/ f[i].sep = "|")
      BY <1>1, <1>2, <1>4, <3>1
    <3>3. f[j].sep = "&"
      BY <1>7, <2>2, <3>1, <3>2 DEF Steady
    <3> QED
      BY <1>1, <1>2, <2>2, <3>3
  <2> QED
    BY <2>1, <2>2
<1> QED
  BY <1>5, <1>6, <1>7

\* Parts of one condition each, laid end to end, are those conditions.
LEMMA SingleParts ==
  ASSUME NEW C, NEW s \in Seq(Seq(C)), \A p \in 1..Len(s) : Len(s[p]) = 1
  PROVE  /\ FlattenSeq(s) \in Seq(C) /\ Len(FlattenSeq(s)) = Len(s)
         /\ \A p \in 1..Len(s) : FlattenSeq(s)[p] = s[p][1]
<1> DEFINE r == FlattenSeq(s)
<1>1. \A p \in 1..Len(s) : Len(s[p]) =< 1
  <2> TAKE p \in 1..Len(s)
  <2>1. Len(s[p]) = 1
    OBVIOUS
  <2> QED
    BY ONLY <2>1
<1>2. r \in Seq(C) /\ \E org : Thins(r, s, org)
  BY <1>1, ThinParts
<1> HIDE DEF r
<1>3. PICK org : Thins(r, s, org)
  BY <1>2
<1>4. /\ org \in [1..Len(r) -> 1..Len(s)]
      /\ \A x, y \in 1..Len(r) : x < y => org[x] < org[y]
      /\ \A x \in 1..Len(r) : r[x] = s[org[x]][1]
      /\ \A p \in 1..Len(s) : \E x \in 1..Len(r) : p = org[x]
  BY <1>3 DEF Thins
<1>5. Enumerates(org, Len(r), Len(s))
  BY <1>4 DEF Enumerates
<1>6. Len(r) \in Nat /\ Len(s) \in Nat
  BY <1>2
<1>7. Len(r) = Len(s) /\ \A x \in 1..Len(r) : org[x] = x
  BY <1>5, <1>6, AllInPlace
<1> QED
  BY <1>2, <1>4, <1>7 DEF r

\* A steady filter loses no clause to the lifting.
LEMMA SteadyKeeps ==
  ASSUME NEW f \in Seq(Condition), Steady(f), NEW i \in Stray(f), f[i].values \subseteq Ours
  PROVE  KeepsGroups(f, i)
<1>1. /\ DOMAIN f = 1..Len(f) /\ Len(f) \in Nat /\ i \in 1..Len(f)
      /\ \A j \in 1..Len(f) : f[j].sep \in {"|", "&"}
  BY ConditionNames DEF Stray
<1>2. OursOnly(f[i]) /\ i \notin Enforced(f)
  BY DEF Stray, OursOnly
<1>3. PICK j \in i..Len(f) : j # 1 /\ f[j].sep # "&"
  BY <1>1, <1>2 DEF Enforced
<1>4. j \in 1..Len(f) /\ f[j].sep = "|"
  BY <1>1, <1>3
<1>5. i # 1 /\ f[i].sep # "|"
  BY <1>1, <1>2, <1>3, <1>4 DEF Steady
<1>6. i > 1 /\ f[i].sep = "&" /\ j > i
  BY <1>1, <1>3, <1>4, <1>5
<1> QED
  BY <1>1, <1>4, <1>6 DEF KeepsGroups

\* In a steady filter, lifting takes values out of conditions, and no condition.
LEMMA LiftedTrims ==
  ASSUME NEW f \in Seq(Condition), Steady(f)
  PROVE  Lifted(f) \in Seq(Condition) /\ Trims(Lifted(f), f)
<1> DEFINE r == Lifted(f)
<1>1. DOMAIN f = 1..Len(f) /\ Len(f) \in Nat
  OBVIOUS
<1>2. PICK s \in Seq(Seq(Condition)) :
        /\ Len(s) = Len(f)
        /\ Lifted(f) = FlattenSeq(s)
        /\ \A i \in DOMAIN f :
             /\ i \notin Stray(f) => s[i] = <<f[i]>>
             /\ i \in Stray(f) /\ ~(f[i].values \subseteq Ours) => s[i] = <<Without(f[i], Ours)>>
             /\ i \in Stray(f) /\ f[i].values \subseteq Ours =>
                  \/ s[i] = <<>> /\ ~KeepsGroups(f, i)
                  \/ s[i] = <<f[i]>> /\ KeepsGroups(f, i)
  BY LiftedParts
<1> HIDE DEF r
<1>3. ASSUME NEW i \in 1..Len(f)
      PROVE  \/ s[i] = <<f[i]>>
             \/ i \in Stray(f) /\ ~(f[i].values \subseteq Ours) /\ s[i] = <<Without(f[i], Ours)>>
  <2>1. CASE i \notin Stray(f)
    BY <1>1, <1>2, <2>1
  <2>2. CASE i \in Stray(f) /\ ~(f[i].values \subseteq Ours)
    BY <1>1, <1>2, <2>2
  <2>3. CASE i \in Stray(f) /\ f[i].values \subseteq Ours
    BY <1>1, <1>2, <2>3, SteadyKeeps
  <2> QED
    BY <2>1, <2>2, <2>3
<1>4. \A i \in 1..Len(s) : Len(s[i]) = 1
  <2> TAKE i \in 1..Len(s)
  <2>1. i \in 1..Len(f)
    BY <1>2
  <2>2. PICK d : s[i] = <<d>>
    BY <1>3, <2>1
  <2> QED
    BY <2>2, SinglePart
<1>5. r \in Seq(Condition) /\ Len(r) = Len(f) /\ \A i \in 1..Len(f) : r[i] = s[i][1]
  <2>1. r = FlattenSeq(s) /\ Len(s) = Len(f)
    BY <1>2 DEF r
  <2> QED
    BY <1>4, <2>1, SingleParts
<1>6. ASSUME NEW i \in 1..Len(f)
      PROVE  /\ r[i].field = f[i].field /\ r[i].op = f[i].op /\ r[i].sep = f[i].sep
             /\ ~IsExclude(f[i]) => r[i].values = f[i].values
             /\ r[i].values \subseteq Ours => f[i].values \subseteq Ours
             /\ r[i].values \subseteq f[i].values
  <2>1. CASE s[i] = <<f[i]>>
    <3>1. r[i] = f[i]
      BY <1>5, <2>1, SinglePart
    <3> QED
      BY <3>1
  <2>2. CASE i \in Stray(f) /\ ~(f[i].values \subseteq Ours) /\ s[i] = <<Without(f[i], Ours)>>
    <3> DEFINE d == Without(f[i], Ours)
    <3>1. f[i] \in Condition /\ IsExclude(f[i])
      BY <2>2 DEF Stray
    <3>2. d.field = f[i].field /\ d.op = f[i].op /\ d.sep = f[i].sep /\ d.values = f[i].values \ Ours
      BY <2>2, <3>1, WithoutStays
    <3> HIDE DEF d
    <3>3. r[i] = d
      BY <1>5, <2>2, SinglePart DEF d
    <3> QED
      BY <2>2, <3>1, <3>2, <3>3
  <2> QED
    BY <1>3, <2>1, <2>2
<1>7. Trims(r, f)
  BY <1>1, <1>5, <1>6 DEF Trims
<1> QED
  BY <1>5, <1>7 DEF r

\* The clauses of ours alone, less the one behind all the rest, which is placed there to stay.
Loose(f) == {i \in 1..Len(f) : OursOnly(f[i]) /\ ~Behind(f, i)}

\* Placing labels of ours changes no condition but an exclude that Plex applies, or adds one.
LEMMA PlacedTrims ==
  ASSUME NEW f \in Seq(Condition), NEW missing \in SUBSET Ours
  PROVE  /\ Placed(f, missing) \in Seq(Condition) /\ Trims(Placed(f, missing), f)
         /\ Loose(Placed(f, missing)) \subseteq Loose(f)
<1> DEFINE targets == {i \in Enforced(f) : IsExclude(f[i])}
<1>0. /\ missing \in SUBSET Labels /\ DOMAIN f = 1..Len(f) /\ Len(f) \in Nat
      /\ Placed(f, missing) \in Seq(Condition)
  <2>1. missing \in SUBSET Labels
    BY DEF Labels
  <2> QED
    BY <2>1, PlacedApplies
<1>1. CASE missing = {}
  <2>1. Placed(f, missing) = f
    BY <1>1 DEF Placed
  <2>2. Trims(f, f)
    BY <1>0 DEF Trims
  <2> QED
    BY <2>1, <2>2
<1>2. CASE missing # {} /\ targets # {}
  <2> DEFINE t == Min(targets)
             d == [f[t] EXCEPT !.values = @ \cup missing]
             h == [f EXCEPT ![t].values = @ \cup missing]
  <2>1. t \in targets
    <3>1. targets \in SUBSET Nat
      BY DEF Enforced
    <3> QED
      BY <1>2, <3>1, FirstPosition
  <2>2. t \in 1..Len(f) /\ IsExclude(f[t]) /\ t \in Enforced(f)
    BY <1>0, <2>1 DEF Enforced
  <2>3. Placed(f, missing) = h
    BY <1>2 DEF Placed
  <2> HIDE DEF t
  <2>4. d.field = f[t].field /\ d.op = f[t].op /\ d.sep = f[t].sep /\ d.values = f[t].values \cup missing
    <3>1. f[t] \in Condition
      BY <2>2
    <3> QED
      BY <3>1 DEF Condition
  <2>5. Len(h) = Len(f) /\ h[t] = d /\ \A i \in 1..Len(f) : i # t => h[i] = f[i]
    BY <1>0, <2>2
  <2> HIDE DEF h, d
  <2>6. ASSUME NEW i \in 1..Len(f)
        PROVE  /\ h[i].field = f[i].field /\ h[i].op = f[i].op /\ h[i].sep = f[i].sep
               /\ ~IsExclude(f[i]) => h[i].values = f[i].values
               /\ h[i].values \subseteq Ours => f[i].values \subseteq Ours
               /\ f[i].values \subseteq Ours => h[i].values \subseteq Ours
               /\ h[i].values \subseteq f[i].values \/ i \in Enforced(f)
    <3>1. CASE i = t
      BY <2>2, <2>4, <2>5, <3>1
    <3>2. CASE i # t
      BY <2>5, <3>2
    <3> QED
      BY <3>1, <3>2
  <2>7. Trims(h, f)
    BY <1>0, <2>5, <2>6 DEF Trims
  <2>8. Loose(h) \subseteq Loose(f)
    BY <2>5, <2>6 DEF Loose, OursOnly, IsExclude, Behind
  <2> QED
    BY <1>0, <2>3, <2>7, <2>8
<1>3. CASE missing # {} /\ targets = {}
  <2> DEFINE h == Append(f, NewExclude(missing))
             n == Len(f) + 1
  <2>1. Placed(f, missing) = h
    BY <1>3 DEF Placed
  <2>2. /\ Len(h) = n /\ h[n] = NewExclude(missing)
        /\ \A i \in 1..Len(f) : h[i] = f[i]
    OBVIOUS
  <2> HIDE DEF h
  <2>3. IsExclude(h[n]) /\ h[n].values = missing /\ h[n].sep = "&"
    BY <2>2 DEF NewExclude, IsExclude
  <2>4. \A i \in 1..Len(h) : i > Len(f) => i = n
    BY <1>0, <2>2
  <2>5. Trims(h, f)
    BY <1>0, <2>2, <2>3, <2>4 DEF Trims
  <2>6. ASSUME NEW i \in Loose(h) PROVE i \in Loose(f)
    <3>1. i \in 1..Len(h) /\ OursOnly(h[i]) /\ ~Behind(h, i)
      BY <2>6 DEF Loose
    <3>2. Behind(h, n)
      BY <2>2, <2>3 DEF Behind
    <3>3. i \in 1..Len(f) /\ h[i] = f[i]
      BY <1>0, <2>2, <2>4, <3>1, <3>2
    <3>4. ~Behind(f, i)
      <4> SUFFICES ASSUME Behind(f, i) PROVE FALSE
        OBVIOUS
      <4>1. i \in Enforced(f) /\ IsExclude(f[i])
        BY <3>3, BehindIsEnforced DEF Behind
      <4> QED
        BY <1>3, <4>1
    <3> QED
      BY <3>1, <3>3, <3>4 DEF Loose
  <2> QED
    BY <1>0, <2>1, <2>5, <2>6
<1> QED
  BY <1>1, <1>2, <1>3

\* What a merge of a steady filter leaves is steady, and judged as it was.
LEMMA MergedRests ==
  ASSUME NEW f \in Seq(Condition), Steady(f), NEW labels \in SUBSET Ours
  PROVE  /\ Merged(f, labels) \in Seq(Condition) /\ Steady(Merged(f, labels))
         /\ NoneOwnOnly(f) => NoneOwnOnly(Merged(f, labels))
         /\ NoneNeedy(f) => NoneNeedy(Merged(f, labels))
<1> DEFINE wanted == labels \cup (ExcludesAt(f, Stray(f)) \cap Ours)
           l == Lifted(f)
           missing == wanted \ Applied(l)
           h == Placed(l, missing)
<1>1. missing \in SUBSET Ours /\ Merged(f, labels) = Serialized(h)
  BY DEF Merged
<1> HIDE DEF missing
<1>2. l \in Seq(Condition) /\ Trims(l, f)
  BY LiftedTrims
<1> HIDE DEF l
<1>3. Steady(l) /\ (NoneOwnOnly(f) => NoneOwnOnly(l)) /\ (NoneNeedy(f) => NoneNeedy(l))
  BY <1>2, TrimmedRests
<1>4. h \in Seq(Condition) /\ Trims(h, l)
  BY <1>1, <1>2, PlacedTrims
<1> HIDE DEF h
<1>5. Steady(h) /\ (NoneOwnOnly(l) => NoneOwnOnly(h)) /\ (NoneNeedy(l) => NoneNeedy(h))
  BY <1>2, <1>3, <1>4, TrimmedRests
<1>6. /\ Serialized(h) \in Seq(Condition) /\ Steady(Serialized(h))
      /\ NoneOwnOnly(h) => NoneOwnOnly(Serialized(h))
      /\ NoneNeedy(h) => NoneNeedy(Serialized(h))
  BY <1>4, <1>5, SerializedRests, SerializedStays
<1> QED
  BY <1>1, <1>3, <1>5, <1>6

\* An account's own rows withdrawn: no group admits them alone, ...
LEMMA WithdrawnJudged ==
  ASSUME NEW f \in Seq(Condition)
  PROVE  /\ Withdrawn(f) \in Seq(Condition) /\ NoneOwnOnly(Withdrawn(f))
         /\ NoneOwnOnly(f) /\ Steady(f) => Steady(Withdrawn(f))
<1> DEFINE dropped == OwnClauses(f, Groups(f))
           rest == WithoutConditions(f, dropped)
<1>1. PICK h \in Seq(Condition) :
              /\ Withdrawn(f) = Serialized(h)
              /\ Len(h) = Len(rest)
              /\ \A p \in 1..Len(rest) : h[p] = Narrowed(rest[p])
  BY NarrowedParts
<1>2. rest \in Seq(Condition)
  BY DroppingLeaves
<1>3. NoneOwnOnly(rest)
  BY OwnClausesLeave
<1>4. NoneOwnOnly(f) /\ Steady(f) => Steady(rest)
  <2>1. \A i \in 1..Len(f) : i \in dropped => OwnOnly(f[i])
    BY DEF OwnClauses, OwnOnly
  <2> HIDE DEF dropped
  <2> QED
    BY <2>1, DroppingSteady
<1> HIDE DEF rest
<1>5. ASSUME NEW p \in 1..Len(rest)
      PROVE  /\ h[p].sep = rest[p].sep
             /\ OwnOnly(h[p]) => OwnOnly(rest[p])
             /\ OursOnly(h[p]) <=> OursOnly(rest[p])
  <2>1. rest[p] \in Condition /\ h[p] = Narrowed(rest[p])
    BY <1>1, <1>2
  <2>2. /\ h[p].sep = rest[p].sep
        /\ IsLabelAllow(rest[p]) /\ rest[p].values # {Own} => h[p].values = rest[p].values \ {Own}
        /\ ~IsLabelAllow(rest[p]) => h[p] = rest[p]
        /\ Stands(h[p], rest[p])
    BY <2>1, NarrowedStands
  <2>3. h[p].field = rest[p].field /\ h[p].op = rest[p].op
    BY <2>2 DEF Stands
  <2>4. CASE IsLabelAllow(rest[p])
    <3>1. OwnOnly(h[p]) => OwnOnly(rest[p])
      BY <2>2, <2>4 DEF OwnOnly
    <3> QED
      BY <2>2, <2>3, <2>4, <3>1 DEF IsLabelAllow, OursOnly, IsExclude
  <2>5. CASE ~IsLabelAllow(rest[p])
    BY <2>2, <2>5
  <2> QED
    BY <2>4, <2>5
<1>6. \A i, j \in 1..Len(rest) : Joined(h, i, j) <=> Joined(rest, i, j)
  <2>1. Len(h) >= Len(rest)
    <3>1. Len(rest) \in Nat
      BY <1>2
    <3> QED
      BY <1>1, <3>1
  <2>2. \A i \in 1..Len(rest) : i > 1 => h[i].sep = rest[i].sep
    BY <1>5
  <2> QED
    BY <1>1, <1>2, <2>1, <2>2, JoinedStays
<1>7. NoneOwnOnly(h)
  BY <1>1, <1>3, <1>5, <1>6 DEF NoneOwnOnly
<1>8. Steady(rest) => Steady(h)
  BY <1>1, <1>5 DEF Steady
<1> QED
  BY <1>1, <1>4, <1>7, <1>8, SerializedRests, SerializedStays

-----------------------------------------------------------------------------
(* A pass that lifts a clause of ours alone has one less to lift. *)

\* They can be counted.
LEMMA LooseFinite ==
  ASSUME NEW f \in Seq(Condition)
  PROVE  IsFiniteSet(Loose(f)) /\ Cardinality(Loose(f)) \in Nat
<1>1. IsFiniteSet(1..Len(f))
  BY FS_Interval
<1>2. Loose(f) \in SUBSET (1..Len(f))
  BY DEF Loose
<1>3. IsFiniteSet(Loose(f))
  BY <1>1, <1>2, FS_Subset
<1> QED
  BY <1>3, FS_CardinalityType

\* Each of these comes from another of those.
LEMMA NoneTwice ==
  ASSUME NEW A, NEW B, IsFiniteSet(B), NEW back \in [A -> B], \A x, y \in A : back[x] = back[y] => x = y
  PROVE  Cardinality(A) =< Cardinality(B)
<1>1. back \in Injection(A, B)
  BY DEF Injection, IsInjective
<1> QED
  BY <1>1, FS_Injection

\* Leaving conditions out sets no clause of ours loose.
LEMMA ThinnedLoose ==
  ASSUME NEW f \in Seq(Condition), NEW r \in Seq(Condition), NEW org \in [1..Len(r) -> 1..Len(f)],
         \A x, y \in 1..Len(r) : x < y => org[x] < org[y],
         \A x \in 1..Len(r) : /\ OursOnly(r[x]) => OursOnly(f[org[x]])
                              /\ org[x] > 1 /\ f[org[x]].sep = "&" => r[x].sep = "&"
  PROVE  /\ \A x \in Loose(r) : org[x] \in Loose(f)
         /\ \A x, y \in Loose(r) : org[x] = org[y] => x = y
<1>1. Len(r) \in Nat /\ Len(f) \in Nat /\ Loose(r) \subseteq 1..Len(r)
  BY DEF Loose
<1>2. ASSUME NEW x \in Loose(r) PROVE org[x] \in Loose(f)
  <2>1. x \in 1..Len(r) /\ OursOnly(r[x]) /\ ~Behind(r, x)
    BY DEF Loose
  <2>2. PICK i \in 1..Len(f) : i = org[x]
    BY <2>1
  <2>3. OursOnly(f[i]) /\ (i > 1 /\ f[i].sep = "&" => r[x].sep = "&")
    BY <2>1, <2>2
  <2>4. ~Behind(f, i)
    <3> SUFFICES ASSUME Behind(f, i) PROVE FALSE
      OBVIOUS
    <3>1. i = Len(f) /\ (i = 1 \/ f[i].sep = "&")
      BY DEF Behind
    <3>2. x = Len(r)
      <4> SUFFICES ASSUME x # Len(r) PROVE FALSE
        OBVIOUS
      <4>1. Len(r) \in 1..Len(r) /\ x < Len(r)
        BY <1>1, <2>1
      <4>2. org[Len(r)] \in 1..Len(f) /\ i < org[Len(r)]
        BY <2>1, <2>2, <4>1
      <4> QED
        BY <1>1, <3>1, <4>2
    <3>3. x = 1 \/ r[x].sep = "&"
      <4> SUFFICES ASSUME x # 1, i = 1 PROVE FALSE
        BY <1>1, <2>3, <3>1
      <4>1. 1 \in 1..Len(r) /\ 1 < x
        BY <1>1, <2>1
      <4>2. org[1] \in 1..Len(f) /\ org[1] < i
        BY <2>1, <2>2, <4>1
      <4> QED
        BY <1>1, <4>2
    <3> QED
      BY <2>1, <3>2, <3>3 DEF Behind, OursOnly
  <2> QED
    BY <2>2, <2>3, <2>4 DEF Loose
<1>3. ASSUME NEW x \in Loose(r), NEW y \in Loose(r), org[x] = org[y] PROVE x = y
  <2>1. x \in 1..Len(r) /\ y \in 1..Len(r)
    BY <1>1
  <2>2. org[x] \in Nat /\ org[y] \in Nat
    BY <1>1, <2>1
  <2>3. ~(x < y)
    BY <1>3, <2>1, <2>2
  <2>4. ~(y < x)
    BY <1>3, <2>1, <2>2
  <2> QED
    BY <1>1, <2>1, <2>3, <2>4
<1> QED
  BY <1>2, <1>3

\* Nor does dropping the own clauses.
LEMMA DroppingLoose ==
  ASSUME NEW f \in Seq(Condition), NEW dropped
  PROVE  Cardinality(Loose(WithoutConditions(f, dropped))) =< Cardinality(Loose(f))
<1> DEFINE r == WithoutConditions(f, dropped)
<1>1. r \in Seq(Condition) /\ \E org : Leaves(r, f, dropped, org)
  BY DroppingLeaves
<1> HIDE DEF r
<1>2. PICK org : Leaves(r, f, dropped, org)
  BY <1>1
<1>3. /\ org \in [1..Len(r) -> 1..Len(f)]
      /\ \A x, y \in 1..Len(r) : x < y => org[x] < org[y]
      /\ \A x \in 1..Len(r) : /\ OursOnly(r[x]) => OursOnly(f[org[x]])
                              /\ org[x] > 1 /\ f[org[x]].sep = "&" => r[x].sep = "&"
  BY <1>2 DEF Leaves, OursOnly, IsExclude
<1>4. /\ \A x \in Loose(r) : org[x] \in Loose(f)
      /\ \A x, y \in Loose(r) : org[x] = org[y] => x = y
  BY <1>1, <1>3, ThinnedLoose
<1> DEFINE back == [x \in Loose(r) |-> org[x]]
<1>5. back \in [Loose(r) -> Loose(f)] /\ \A x, y \in Loose(r) : back[x] = back[y] => x = y
  BY <1>4
<1> HIDE DEF back
<1> QED
  BY <1>5, LooseFinite, NoneTwice DEF r

\* Nor does widening: nothing follows the clause behind all the rest.
LEMMA WidenedLoose ==
  ASSUME NEW f \in Seq(Condition)
  PROVE  Cardinality(Loose(Widened(f))) =< Cardinality(Loose(f))
<1> DEFINE w == Widened(f)
<1>1. PICK s \in Seq(Seq(Condition)) : \E to : Widening(w, f, s, to)
  BY WidenedIs
<1>2. PICK to : Widening(w, f, s, to)
  BY <1>1
<1> HIDE DEF w
<1>3. /\ w \in Seq(Condition) /\ Thickens(w, s, to) /\ Follow(s, f)
      /\ DOMAIN w = 1..Len(w) /\ Len(w) \in Nat /\ Len(f) \in Nat
  BY <1>2 DEF Widening
<1>4. /\ \A p \in 1..Len(f) : to[p] \in 1..Len(w) /\ (OursOnly(w[to[p]]) => OursOnly(f[p]))
      /\ \A p, q \in 1..Len(f) : p < q => to[p] < to[q]
      /\ \A p \in 1..Len(f) : p > 1 => w[to[p]].sep = f[p].sep
  <2>1. \A p \in 1..Len(f) : to[p] \in 1..Len(w) /\ w[to[p]] = s[p][1] /\ (OursOnly(w[to[p]]) => OursOnly(f[p]))
    BY <1>2, WideningParts
  <2>2. Len(s) = Len(f) /\ \A p \in 1..Len(f) : p > 1 => s[p][1].sep = f[p].sep
    BY <1>3 DEF Follow
  <2> QED
    BY <1>3, <2>1, <2>2 DEF Thickens
<1>5. \A x \in 1..Len(w) : \E p \in 1..Len(f) :
              /\ Joined(w, to[p], x)
              /\ \/ x = to[p]
                 \/ OwnOnly(w[x]) /\ \E g \in Needy(f) : p \in g
  BY <1>2, WideningParts
<1>6. ASSUME NEW x \in Loose(w) PROVE \E p \in 1..Len(f) : x = to[p] /\ p \in Loose(f)
  <2>1. x \in 1..Len(w) /\ OursOnly(w[x]) /\ ~Behind(w, x)
    BY DEF Loose
  <2>2. ~OwnOnly(w[x])
    BY <2>1 DEF OursOnly, IsExclude, OwnOnly, IsLabelAllow
  <2>3. PICK p \in 1..Len(f) : x = to[p]
    BY <1>5, <2>1, <2>2
  <2>4. OursOnly(f[p])
    BY <1>4, <2>1, <2>3
  <2>5. ASSUME Behind(f, p) PROVE FALSE
    <3>1. p = Len(f) /\ (p = 1 \/ f[p].sep = "&")
      BY <2>5 DEF Behind
    <3>2. ~\E g \in Needy(f) : p \in g
      <4> SUFFICES ASSUME NEW g \in Needy(f), p \in g PROVE FALSE
        OBVIOUS
      <4>1. g = {p}
        BY <2>5, BehindStandsAlone DEF Needy
      <4>2. OwnersAllow(f[p])
        BY <4>1 DEF Needy
      <4> QED
        BY <2>4, <4>2 DEF OursOnly, IsExclude, OwnersAllow
    <3>3. ASSUME NEW z \in 1..Len(w) PROVE z =< x
      <4>1. PICK q \in 1..Len(f) : /\ Joined(w, to[q], z)
                                   /\ \/ z = to[q]
                                      \/ OwnOnly(w[z]) /\ \E g \in Needy(f) : q \in g
        BY <1>5
      <4>2. q = p \/ q < p
        BY <1>3, <3>1
      <4>3. CASE q = p
        BY <1>3, <2>1, <2>3, <3>2, <4>1, <4>3
      <4>4. CASE q < p
        <5>0. p > 1 /\ p # 1
          BY <4>4
        <5>1. p > 1 /\ f[p].sep = "&"
          BY <3>1, <5>0
        <5>2. w[x].sep = "&" /\ to[q] < x /\ to[q] \in 1..Len(w)
          BY <1>4, <2>3, <4>4, <5>1
        <5> SUFFICES ASSUME ~(z =< x) PROVE FALSE
          OBVIOUS
        <5>3. x > to[q] /\ x =< z
          BY <1>3, <2>1, <5>2
        <5>4. w[x].sep = "|"
          BY <1>3, <2>1, <4>1, <5>3 DEF Joined
        <5> QED
          BY <5>2, <5>4
      <4> QED
        BY <4>2, <4>3, <4>4
    <3>4. x = Len(w)
      <4>1. Len(w) \in 1..Len(w)
        BY <1>3, <2>1
      <4> DEFINE n == Len(w)
      <4>2. n =< x /\ n \in Nat /\ x \in 1..n
        BY <1>3, <2>1, <3>3, <4>1
      <4> HIDE DEF n
      <4>3. x = n
        BY ONLY <4>2
      <4> QED
        BY <4>3 DEF n
    <3>5. x = 1 \/ w[x].sep = "&"
      <4>1. CASE p = 1
        <5>1. 1 \in 1..Len(w)
          BY <1>3, <2>1
        <5>2. PICK q \in 1..Len(f) : \/ 1 = to[q]
                                     \/ OwnOnly(w[1]) /\ \E g \in Needy(f) : q \in g
          BY <1>5, <5>1
        <5>3. q = p
          BY <1>3, <3>1, <4>1
        <5> QED
          BY <2>3, <3>2, <5>2, <5>3
      <4>2. CASE p # 1
        BY <1>3, <1>4, <2>3, <3>1, <4>2
      <4> QED
        BY <4>1, <4>2
    <3> QED
      BY <2>1, <3>4, <3>5 DEF Behind, OursOnly
  <2> QED
    BY <2>3, <2>4, <2>5 DEF Loose
<1> DEFINE back == [x \in Loose(w) |-> CHOOSE p \in 1..Len(f) : x = to[p] /\ p \in Loose(f)]
<1>7. \A x \in Loose(w) : x = to[back[x]] /\ back[x] \in Loose(f)
  BY <1>6
<1>8. back \in [Loose(w) -> Loose(f)]
  BY <1>7
<1> HIDE DEF back
<1>9. \A x, y \in Loose(w) : back[x] = back[y] => x = y
  BY <1>7
<1> QED
  BY <1>8, <1>9, LooseFinite, NoneTwice DEF w

\* Writing a filter out leaves them where they are.
LEMMA SerializedLoose ==
  ASSUME NEW f \in Seq(Condition)
  PROVE  Loose(Serialized(f)) = Loose(f)
<1> DEFINE h == Serialized(f)
<1>1. h \in Seq(Condition) /\ Len(h) = Len(f) /\ Len(f) \in Nat
  BY SerializedStays
<1>2. \A i \in 1..Len(f) : /\ h[i].field = f[i].field /\ h[i].op = f[i].op /\ h[i].values = f[i].values
                           /\ i # 1 => h[i] = f[i]
  <2>1. DOMAIN f = 1..Len(f)
    OBVIOUS
  <2> QED
    BY <2>1, SerializedStays
<1> HIDE DEF h
<1>3. \A i \in 1..Len(f) : /\ OursOnly(h[i]) <=> OursOnly(f[i])
                           /\ Behind(h, i) <=> Behind(f, i)
  BY <1>1, <1>2 DEF OursOnly, IsExclude, Behind
<1>4. Loose(h) = Loose(f)
  BY <1>1, <1>3 DEF Loose
<1> QED
  BY <1>4 DEF h

\* A filter that is not steady has a clause of ours that the merge lifts.
LEMMA UnsteadyLifts ==
  ASSUME NEW f \in Seq(Condition), ~Steady(f)
  PROVE  \E i \in Loose(f) : i \in Stray(f) /\ f[i].values \subseteq Ours /\ ~KeepsGroups(f, i)
<1>1. DOMAIN f = 1..Len(f) /\ Len(f) \in Nat
  OBVIOUS
<1>2. PICK i \in 1..Len(f) : /\ OursOnly(f[i]) /\ (i = 1 \/ f[i].sep = "|")
                             /\ \E j \in 1..Len(f) : j # 1 /\ f[j].sep # "&"
  BY DEF Steady
<1>3. PICK j \in 1..Len(f) : j # 1 /\ f[j].sep # "&"
  BY <1>2
<1>4. i \notin Enforced(f)
  <2>1. CASE i = 1
    <3>1. j \in i..Len(f)
      BY <1>1, <2>1
    <3> QED
      BY <1>3, <3>1 DEF Enforced
  <2>2. CASE i # 1
    <3>1. i \in i..Len(f) /\ f[i].sep # "&"
      BY <1>1, <1>2, <2>2
    <3> QED
      BY <2>2, <3>1 DEF Enforced
  <2> QED
    BY <2>1, <2>2
<1>5. IsExclude(f[i]) /\ f[i].values \subseteq Ours /\ f[i].values # {}
  BY <1>2, ConditionNames DEF OursOnly
<1>6. i \in Stray(f)
  BY <1>1, <1>4, <1>5 DEF Stray
<1>7. ~KeepsGroups(f, i)
  BY <1>1, <1>2 DEF KeepsGroups
<1>8. i \in Loose(f)
  BY <1>2, <1>4, BehindIsEnforced DEF Loose
<1> QED
  BY <1>5, <1>6, <1>7, <1>8

\* Lifting sets no clause of ours loose, and takes one out of a filter that is not steady.
LEMMA LiftedLoose ==
  ASSUME NEW f \in Seq(Condition)
  PROVE  /\ Cardinality(Loose(Lifted(f))) =< Cardinality(Loose(f))
         /\ ~Steady(f) => Cardinality(Loose(Lifted(f))) < Cardinality(Loose(f))
<1> DEFINE r == Lifted(f)
<1>1. DOMAIN f = 1..Len(f) /\ Len(f) \in Nat
  OBVIOUS
<1>2. PICK s \in Seq(Seq(Condition)) :
        /\ Len(s) = Len(f)
        /\ Lifted(f) = FlattenSeq(s)
        /\ \A i \in DOMAIN f :
             /\ i \notin Stray(f) => s[i] = <<f[i]>>
             /\ i \in Stray(f) /\ ~(f[i].values \subseteq Ours) => s[i] = <<Without(f[i], Ours)>>
             /\ i \in Stray(f) /\ f[i].values \subseteq Ours =>
                  \/ s[i] = <<>> /\ ~KeepsGroups(f, i)
                  \/ s[i] = <<f[i]>> /\ KeepsGroups(f, i)
  BY LiftedParts
<1> HIDE DEF r
<1>3. ASSUME NEW i \in 1..Len(f)
      PROVE  \/ s[i] = <<>>
             \/ s[i] = <<f[i]>> /\ ~(i \in Stray(f) /\ f[i].values \subseteq Ours /\ ~KeepsGroups(f, i))
             \/ i \in Stray(f) /\ ~(f[i].values \subseteq Ours) /\ s[i] = <<Without(f[i], Ours)>>
  <2>1. CASE i \notin Stray(f)
    BY <1>1, <1>2, <2>1
  <2>2. CASE i \in Stray(f) /\ ~(f[i].values \subseteq Ours)
    BY <1>1, <1>2, <2>2
  <2>3. CASE i \in Stray(f) /\ f[i].values \subseteq Ours
    BY <1>1, <1>2, <2>3
  <2> QED
    BY <2>1, <2>2, <2>3
<1>4. ASSUME NEW i \in 1..Len(f)
      PROVE  /\ Len(s[i]) =< 1
             /\ Len(s[i]) = 1 =>
                  /\ s[i][1].sep = f[i].sep
                  /\ OursOnly(s[i][1]) => OursOnly(f[i])
                  /\ ~(i \in Stray(f) /\ f[i].values \subseteq Ours /\ ~KeepsGroups(f, i))
  <2>1. CASE s[i] = <<>>
    <3>1. Len(s[i]) = 0
      BY <2>1
    <3> QED
      BY <3>1
  <2>2. CASE s[i] = <<f[i]>> /\ ~(i \in Stray(f) /\ f[i].values \subseteq Ours /\ ~KeepsGroups(f, i))
    <3>1. Len(s[i]) = 1 /\ s[i][1] = f[i]
      BY <2>2, SinglePart
    <3> QED
      BY <2>2, <3>1
  <2>3. CASE i \in Stray(f) /\ ~(f[i].values \subseteq Ours) /\ s[i] = <<Without(f[i], Ours)>>
    <3> DEFINE d == Without(f[i], Ours)
    <3>1. f[i] \in Condition /\ IsExclude(f[i])
      BY <2>3 DEF Stray
    <3>2. d.sep = f[i].sep /\ d.values = f[i].values \ Ours
      BY <2>3, <3>1, WithoutStays
    <3> HIDE DEF d
    <3>3. Len(s[i]) = 1 /\ s[i][1] = d
      BY <2>3, SinglePart DEF d
    <3>4. ~OursOnly(d)
      BY <2>3, <3>2 DEF OursOnly
    <3> QED
      BY <2>3, <3>2, <3>3, <3>4
  <2> QED
    BY <1>3, <2>1, <2>2, <2>3
<1>5. \A i \in 1..Len(s) : Len(s[i]) =< 1
  BY <1>2, <1>4
<1>6. r \in Seq(Condition) /\ \E org : Thins(r, s, org)
  <2>1. r = FlattenSeq(s)
    BY <1>2 DEF r
  <2> QED
    BY <1>5, <2>1, ThinParts
<1>7. PICK org : Thins(r, s, org)
  BY <1>6
<1>8. /\ org \in [1..Len(r) -> 1..Len(f)]
      /\ \A x, y \in 1..Len(r) : x < y => org[x] < org[y]
      /\ \A x \in 1..Len(r) : Len(s[org[x]]) = 1 /\ r[x] = s[org[x]][1]
  BY <1>2, <1>7 DEF Thins
<1>9. ASSUME NEW x \in 1..Len(r)
      PROVE  /\ OursOnly(r[x]) => OursOnly(f[org[x]])
             /\ org[x] > 1 /\ f[org[x]].sep = "&" => r[x].sep = "&"
             /\ ~(org[x] \in Stray(f) /\ f[org[x]].values \subseteq Ours /\ ~KeepsGroups(f, org[x]))
  <2>1. PICK i \in 1..Len(f) : i = org[x]
    BY <1>8
  <2>2. Len(s[i]) = 1 /\ r[x] = s[i][1]
    BY <1>8, <2>1
  <2> QED
    BY <1>4, <2>1, <2>2
<1>10. /\ \A x \in Loose(r) : org[x] \in Loose(f)
       /\ \A x, y \in Loose(r) : org[x] = org[y] => x = y
  <2>1. \A x \in 1..Len(r) : /\ OursOnly(r[x]) => OursOnly(f[org[x]])
                             /\ org[x] > 1 /\ f[org[x]].sep = "&" => r[x].sep = "&"
    BY <1>9
  <2>2. r \in Seq(Condition) /\ org \in [1..Len(r) -> 1..Len(f)]
        /\ \A x, y \in 1..Len(r) : x < y => org[x] < org[y]
    BY <1>6, <1>8
  <2> QED
    BY <2>1, <2>2, ThinnedLoose
<1> DEFINE back == [x \in Loose(r) |-> org[x]]
<1>11. Cardinality(Loose(r)) =< Cardinality(Loose(f))
  <2>1. back \in [Loose(r) -> Loose(f)] /\ \A x, y \in Loose(r) : back[x] = back[y] => x = y
    BY <1>10
  <2> HIDE DEF back
  <2> QED
    BY <2>1, LooseFinite, NoneTwice
<1>12. ASSUME ~Steady(f) PROVE Cardinality(Loose(r)) < Cardinality(Loose(f))
  <2>1. PICK i \in Loose(f) : i \in Stray(f) /\ f[i].values \subseteq Ours /\ ~KeepsGroups(f, i)
    BY <1>12, UnsteadyLifts
  <2>2. \A x \in Loose(r) : org[x] # i
    BY <1>9, <2>1 DEF Loose
  <2> DEFINE B == Loose(f) \ {i}
  <2>3. back \in [Loose(r) -> B] /\ \A x, y \in Loose(r) : back[x] = back[y] => x = y
    BY <1>10, <2>2
  <2>4. IsFiniteSet(B) /\ Cardinality(B) = Cardinality(Loose(f)) - 1
    BY <2>1, LooseFinite, FS_RemoveElement
  <2> HIDE DEF back, B
  <2>5. Cardinality(Loose(r)) =< Cardinality(B)
    BY <2>3, <2>4, NoneTwice
  <2>6. Cardinality(Loose(r)) \in Nat /\ Cardinality(Loose(f)) \in Nat
    BY <1>6, LooseFinite
  <2> QED
    BY <2>4, <2>5, <2>6
<1> QED
  BY <1>11, <1>12 DEF r

\* So does the merge.
LEMMA MergedLoose ==
  ASSUME NEW f \in Seq(Condition), NEW labels \in SUBSET Ours
  PROVE  /\ Cardinality(Loose(Merged(f, labels))) =< Cardinality(Loose(f))
         /\ ~Steady(f) => Cardinality(Loose(Merged(f, labels))) < Cardinality(Loose(f))
<1> DEFINE wanted == labels \cup (ExcludesAt(f, Stray(f)) \cap Ours)
           l == Lifted(f)
           missing == wanted \ Applied(l)
           h == Placed(l, missing)
<1>1. missing \in SUBSET Ours /\ Merged(f, labels) = Serialized(h)
  BY DEF Merged
<1> HIDE DEF missing
<1>2. l \in Seq(Condition)
  BY LiftedApplies
<1>3. /\ Cardinality(Loose(l)) =< Cardinality(Loose(f))
      /\ ~Steady(f) => Cardinality(Loose(l)) < Cardinality(Loose(f))
  BY LiftedLoose
<1> HIDE DEF l
<1>4. h \in Seq(Condition) /\ Loose(h) \in SUBSET Loose(l)
  BY <1>1, <1>2, PlacedTrims
<1>5. Loose(Merged(f, labels)) = Loose(h)
  BY <1>1, <1>4, SerializedLoose
<1> HIDE DEF h
<1>6. Cardinality(Loose(h)) =< Cardinality(Loose(l))
  BY <1>2, <1>4, LooseFinite, FS_Subset
<1>7. Cardinality(Loose(h)) \in Nat /\ Cardinality(Loose(l)) \in Nat /\ Cardinality(Loose(f)) \in Nat
  BY <1>2, <1>4, LooseFinite
<1> QED
  BY <1>3, <1>5, <1>6, <1>7

\* Judging the own row sets none loose.
LEMMA AdmittedLoose ==
  ASSUME NEW f \in Seq(Condition)
  PROVE  Cardinality(Loose(Admitted(f))) =< Cardinality(Loose(f))
<1> DEFINE notOwners == {g \in Groups(f) : ~\E i \in g : OwnersAllow(f[i])}
           rest == WithoutConditions(f, OwnClauses(f, notOwners))
<1>1. Admitted(f) = Serialized(Widened(rest))
  BY DEF Admitted
<1>2. rest \in Seq(Condition) /\ Cardinality(Loose(rest)) =< Cardinality(Loose(f))
  BY DroppingLeaves, DroppingLoose
<1> HIDE DEF rest
<1> DEFINE w == Widened(rest)
<1>3. w \in Seq(Condition) /\ Cardinality(Loose(w)) =< Cardinality(Loose(rest))
  BY <1>2, WidenedIs, WidenedLoose DEF Widening
<1> HIDE DEF w
<1>4. Loose(Serialized(w)) = Loose(w)
  BY <1>3, SerializedLoose
<1>5. Cardinality(Loose(w)) \in Nat /\ Cardinality(Loose(rest)) \in Nat /\ Cardinality(Loose(f)) \in Nat
  BY <1>2, <1>3, LooseFinite
<1> QED
  BY <1>1, <1>2, <1>3, <1>4, <1>5 DEF w

\* Nor does taking the own label out of every allow list.
LEMMA WithdrawnLoose ==
  ASSUME NEW f \in Seq(Condition)
  PROVE  Cardinality(Loose(Withdrawn(f))) =< Cardinality(Loose(f))
<1> DEFINE rest == WithoutConditions(f, OwnClauses(f, Groups(f)))
<1>1. PICK h \in Seq(Condition) :
              /\ Withdrawn(f) = Serialized(h)
              /\ Len(h) = Len(rest)
              /\ \A p \in 1..Len(rest) : h[p] = Narrowed(rest[p])
  BY NarrowedParts
<1>2. rest \in Seq(Condition) /\ Cardinality(Loose(rest)) =< Cardinality(Loose(f))
  BY DroppingLeaves, DroppingLoose
<1> HIDE DEF rest
<1>3. ASSUME NEW p \in 1..Len(rest), OursOnly(h[p]) \/ OursOnly(rest[p])
      PROVE  h[p] = rest[p]
  <2>1. rest[p] \in Condition /\ h[p] = Narrowed(rest[p])
    BY <1>1, <1>2
  <2>2. Stands(h[p], rest[p]) /\ (~IsLabelAllow(rest[p]) => h[p] = rest[p])
    BY <2>1, NarrowedStands
  <2>3. h[p].field = rest[p].field /\ h[p].op = rest[p].op
    BY <2>2 DEF Stands
  <2> QED
    BY <1>3, <2>2, <2>3 DEF OursOnly, IsExclude, IsLabelAllow
<1>4. Loose(h) = Loose(rest)
  BY <1>1, <1>3 DEF Loose, Behind, OursOnly
<1> QED
  BY <1>1, <1>2, <1>4, SerializedLoose

-----------------------------------------------------------------------------
(* The passes. *)

\* What a pass that judges the own row makes of the allow lists is judged; steady, if what it started
\* from was that and judged.
LEMMA AdmittingRests ==
  ASSUME NEW g \in Seq(Condition), NEW c \in SyncCall
  PROVE  /\ Admitting(g, c) \in Seq(Condition)
         /\ JudgesTheOwnRow(c) => NoneOwnOnly(Admitting(g, c))
         /\ Own \in c.seen => NoneNeedy(Admitting(g, c))
         /\ /\ Steady(g)
            /\ JudgesTheOwnRow(c) => NoneOwnOnly(g)
            /\ Own \in c.seen => NoneNeedy(g)
            => Steady(Admitting(g, c))
         /\ Cardinality(Loose(Admitting(g, c))) =< Cardinality(Loose(g))
<1>1. CASE Own \in c.seen
  <2>1. Admitting(g, c) = Admitted(g)
    BY <1>1 DEF Admitting, JudgesTheOwnRow
  <2>2. /\ Admitted(g) \in Seq(Condition) /\ NoneOwnOnly(Admitted(g)) /\ NoneNeedy(Admitted(g))
        /\ Cardinality(Loose(Admitted(g))) =< Cardinality(Loose(g))
    BY AdmittedJudged, AdmittedLoose
  <2>3. Steady(g) /\ NoneOwnOnly(g) /\ NoneNeedy(g) => Steady(Admitted(g))
    BY AdmittedSteady
  <2>4. JudgesTheOwnRow(c)
    BY <1>1 DEF JudgesTheOwnRow
  <2> QED
    BY <1>1, <2>1, <2>2, <2>3, <2>4
<1>2. CASE JudgesTheOwnRow(c) /\ Own \notin c.seen
  <2>1. Admitting(g, c) = Withdrawn(g)
    BY <1>2 DEF Admitting
  <2>2. /\ Withdrawn(g) \in Seq(Condition) /\ NoneOwnOnly(Withdrawn(g))
        /\ NoneOwnOnly(g) /\ Steady(g) => Steady(Withdrawn(g))
        /\ Cardinality(Loose(Withdrawn(g))) =< Cardinality(Loose(g))
    BY WithdrawnJudged, WithdrawnLoose
  <2> QED
    BY <1>2, <2>1, <2>2
<1>3. CASE ~JudgesTheOwnRow(c)
  <2>1. Admitting(g, c) = g /\ Own \notin c.seen
    BY <1>3 DEF Admitting, JudgesTheOwnRow
  <2>2. Cardinality(Loose(g)) \in Nat
    BY LooseFinite
  <2> QED
    BY <1>3, <2>1, <2>2
<1> QED
  BY <1>1, <1>2, <1>3

\* Judged and steady: admitting the own row and merging have nothing left to lift.
Resting(a, c) ==
  /\ JudgesTheOwnRow(c) => NoneOwnOnly(a)
  /\ Own \in c.seen => NoneNeedy(a)
  /\ Steady(a)

\* A pass that finds a filter at rest leaves it so, and so does every pass after it; any other leaves
\* one loose clause less.
LEMMA PassRests ==
  ASSUME NEW g \in Seq(Condition), NEW c \in SyncCall
  PROVE  /\ Pass(g, c) \in Seq(Condition)
         /\ Resting(Admitting(g, c), c) => Resting(Pass(g, c), c)
         /\ Resting(Pass(g, c), c) => Resting(Admitting(Pass(g, c), c), c)
         /\ Cardinality(Loose(Pass(g, c))) =< Cardinality(Loose(g))
         /\ ~Resting(Admitting(g, c), c) => Cardinality(Loose(Pass(g, c))) < Cardinality(Loose(g))
<1> DEFINE a == Admitting(g, c)
           m == Merged(a, Wanted(c))
<1>1. Wanted(c) \in SUBSET Ours
  BY DEF Wanted, SyncCall
<1>2. /\ a \in Seq(Condition) /\ (JudgesTheOwnRow(c) => NoneOwnOnly(a)) /\ (Own \in c.seen => NoneNeedy(a))
      /\ Cardinality(Loose(a)) =< Cardinality(Loose(g))
  BY AdmittingRests
<1>3. Pass(g, c) = m
  BY DEF Pass
<1> HIDE DEF a
<1>4. /\ Cardinality(Loose(m)) =< Cardinality(Loose(a))
      /\ ~Steady(a) => Cardinality(Loose(m)) < Cardinality(Loose(a))
  BY <1>1, <1>2, MergedLoose
<1>5. /\ m \in Seq(Condition)
      /\ Resting(a, c) => Resting(m, c)
  <2>1. m \in Seq(Condition)
    BY <1>3, PassApplies
  <2>2. Steady(a) => /\ Steady(m)
                     /\ NoneOwnOnly(a) => NoneOwnOnly(m)
                     /\ NoneNeedy(a) => NoneNeedy(m)
    BY <1>1, <1>2, MergedRests
  <2> QED
    BY <2>1, <2>2 DEF Resting
<1> HIDE DEF m
<1>6. Resting(m, c) => Resting(Admitting(m, c), c)
  BY <1>5, AdmittingRests DEF Resting
<1>7. Cardinality(Loose(g)) \in Nat /\ Cardinality(Loose(a)) \in Nat /\ Cardinality(Loose(m)) \in Nat
  BY <1>2, <1>5, LooseFinite
<1>8. ~Resting(a, c) => ~Steady(a)
  BY <1>2 DEF Resting
<1>9. /\ Cardinality(Loose(m)) =< Cardinality(Loose(g))
      /\ ~Resting(a, c) => Cardinality(Loose(m)) < Cardinality(Loose(g))
  <2> DEFINE i == Cardinality(Loose(g))
             j == Cardinality(Loose(a))
             k == Cardinality(Loose(m))
  <2>1. i \in Nat /\ j \in Nat /\ k \in Nat /\ j =< i /\ k =< j /\ (~Resting(a, c) => k < j)
    BY <1>2, <1>4, <1>7, <1>8
  <2> HIDE DEF i, j, k
  <2>2. k =< i /\ (~Resting(a, c) => k < i)
    BY ONLY <2>1
  <2> QED
    BY <2>2 DEF i, k
<1>10. Pass(g, c) = m /\ Admitting(g, c) = a
  BY <1>3 DEF a
<1> QED
  BY <1>5, <1>6, <1>9, <1>10

\* Where few clauses are ours alone, the last pass of plan_share_filter rests.
LEMMA PlannedRests ==
  ASSUME NEW f \in Seq(Condition), NEW c \in SyncCall, FewOfOurs(f)
  PROVE  /\ Planned(f, c) \in Seq(Condition) /\ Resting(Planned(f, c), c)
         /\ Resting(Admitting(Pass(Pass(Pass(f, c), c), c), c), c)
<1> DEFINE one == Pass(f, c)
           two == Pass(one, c)
           three == Pass(two, c)
           four == Pass(three, c)
<1>1. Planned(f, c) = four
  BY PlannedPasses
<1>2. Cardinality(Loose(f)) \in Nat /\ Cardinality(Loose(f)) =< 3
  <2> DEFINE ours == {i \in DOMAIN f : IsExclude(f[i]) /\ f[i].values \subseteq Ours}
  <2>1. DOMAIN f = 1..Len(f) /\ Len(f) \in Nat
    OBVIOUS
  <2>2. ours \in SUBSET (1..Len(f)) /\ IsFiniteSet(1..Len(f))
    BY <2>1, FS_Interval
  <2>3. Loose(f) \in SUBSET ours
    BY <2>1 DEF Loose, OursOnly
  <2>4. Cardinality(ours) =< 3
    BY DEF FewOfOurs
  <2> HIDE DEF ours
  <2>5. IsFiniteSet(ours)
    BY <2>2, FS_Subset
  <2>6. Cardinality(Loose(f)) =< Cardinality(ours) /\ Cardinality(ours) \in Nat
    BY <2>3, <2>5, FS_Subset, FS_CardinalityType
  <2> QED
    BY <2>4, <2>6, LooseFinite
<1>3. /\ one \in Seq(Condition)
      /\ Resting(Admitting(f, c), c) => Resting(one, c)
      /\ Resting(one, c) => Resting(Admitting(one, c), c)
      /\ ~Resting(Admitting(f, c), c) => Cardinality(Loose(one)) < Cardinality(Loose(f))
  BY PassRests
<1> HIDE DEF one
<1>4. /\ two \in Seq(Condition)
      /\ Resting(Admitting(one, c), c) => Resting(two, c)
      /\ Resting(two, c) => Resting(Admitting(two, c), c)
      /\ ~Resting(Admitting(one, c), c) => Cardinality(Loose(two)) < Cardinality(Loose(one))
  BY <1>3, PassRests
<1> HIDE DEF two
<1>5. /\ three \in Seq(Condition)
      /\ Resting(Admitting(two, c), c) => Resting(three, c)
      /\ Resting(three, c) => Resting(Admitting(three, c), c)
      /\ ~Resting(Admitting(two, c), c) => Cardinality(Loose(three)) < Cardinality(Loose(two))
  BY <1>4, PassRests
<1> HIDE DEF three
<1>6. /\ four \in Seq(Condition)
      /\ Resting(Admitting(three, c), c) => Resting(four, c)
      /\ ~Resting(Admitting(three, c), c) => Cardinality(Loose(four)) < Cardinality(Loose(three))
  BY <1>5, PassRests
<1> HIDE DEF four
<1>7. /\ Cardinality(Loose(one)) \in Nat /\ Cardinality(Loose(two)) \in Nat
      /\ Cardinality(Loose(three)) \in Nat /\ Cardinality(Loose(four)) \in Nat
  BY <1>3, <1>4, <1>5, <1>6, LooseFinite
<1>8. Resting(Admitting(three, c), c)
  <2> DEFINE n0 == Cardinality(Loose(f))
             n1 == Cardinality(Loose(one))
             n2 == Cardinality(Loose(two))
             n3 == Cardinality(Loose(three))
             n4 == Cardinality(Loose(four))
  <2> SUFFICES ASSUME ~Resting(Admitting(three, c), c) PROVE FALSE
    OBVIOUS
  <2>1. n4 < n3 /\ n3 < n2 /\ n2 < n1 /\ n1 < n0
    BY <1>3, <1>4, <1>5, <1>6
  <2>2. n0 \in Nat /\ n1 \in Nat /\ n2 \in Nat /\ n3 \in Nat /\ n4 \in Nat /\ n0 =< 3
    BY <1>2, <1>7
  <2> HIDE DEF n0, n1, n2, n3, n4
  <2> QED
    BY ONLY <2>1, <2>2
<1> QED
  BY <1>1, <1>6, <1>8 DEF three, two, one

-----------------------------------------------------------------------------
(* What a sync leaves. *)

\* A condition that Plex applies has its group to itself.
LEMMA EnforcedAlone ==
  ASSUME NEW f \in Seq(Condition), NEW i \in 1..Len(f), i \in Enforced(f), NEW j \in 1..Len(f), Joined(f, j, i)
  PROVE  j = i
<1>1. DOMAIN f = 1..Len(f) /\ Len(f) \in Nat
  OBVIOUS
<1>2. \A k \in 1..Len(f) : k >= i => k = 1 \/ f[k].sep # "|"
  BY <1>1 DEF Enforced
<1>3. CASE j < i
  <2>1. i > 1 /\ f[i].sep = "|"
    BY <1>1, <1>3 DEF Joined
  <2> QED
    BY <1>1, <1>2, <2>1
<1>4. CASE i < j
  <2>1. j > 1 /\ f[j].sep = "|"
    BY <1>1, <1>4 DEF Joined
  <2> QED
    BY <1>1, <1>2, <1>4, <2>1
<1> QED
  BY <1>1, <1>3, <1>4

\* A steady filter loses to the removal of labels only clauses that Plex applies.
LEMMA SteadyLoses ==
  ASSUME NEW f \in Seq(Condition), Steady(f), NEW i \in 1..Len(f), OursOnly(f[i]), ~KeepsGroups(f, i)
  PROVE  i \in Enforced(f)
<1>1. DOMAIN f = 1..Len(f) /\ Len(f) \in Nat /\ \A j \in 1..Len(f) : f[j].sep \in {"|", "&"}
  BY ConditionNames
<1> SUFFICES ASSUME NEW j \in i..Len(f), j # 1, f[j].sep # "&" PROVE FALSE
  BY <1>1 DEF Enforced
<1>2. j \in 1..Len(f) /\ f[j].sep = "|"
  BY <1>1
<1>3. i # 1 /\ f[i].sep = "&"
  BY <1>1, <1>2 DEF Steady
<1>4. j > i
  BY <1>1, <1>2, <1>3
<1> QED
  BY <1>1, <1>2, <1>3, <1>4 DEF KeepsGroups

\* What the removal leaves of f: org says which.  All else that Plex does not apply, or that is not
\* ours alone, is still there, beside what it was beside.
Cuts(r, f, labels, org) ==
  /\ org \in [1..Len(r) -> 1..Len(f)]
  /\ \A x, y \in 1..Len(r) : x < y => org[x] < org[y]
  /\ \A x \in 1..Len(r) :
       /\ r[x].field = f[org[x]].field /\ r[x].op = f[org[x]].op /\ r[x].sep = f[org[x]].sep
       /\ ~IsExclude(f[org[x]]) => r[x].values = f[org[x]].values
       /\ IsExclude(f[org[x]]) =>
            \/ r[x].values = f[org[x]].values \ labels /\ ~(f[org[x]].values \subseteq labels)
            \/ r[x].values = f[org[x]].values /\ f[org[x]].values \subseteq labels /\ KeepsGroups(f, org[x])
  /\ \A i \in 1..Len(f) : \/ \E x \in 1..Len(r) : i = org[x]
                          \/ i \in Enforced(f) /\ OursOnly(f[i])
  /\ \A x \in 1..Len(r) : \A j \in 1..Len(f) :
       Joined(f, org[x], j) => \E y \in 1..Len(r) : j = org[y] /\ Joined(r, x, y)

\* It is such a cut of a steady filter, ...
LEMMA RemovedCuts ==
  ASSUME NEW f \in Seq(Condition), Steady(f), NEW labels \in SUBSET Ours
  PROVE  \E r \in Seq(Condition) : \E org : Removed(f, labels) = Serialized(r) /\ Cuts(r, f, labels, org)
<1>1. /\ DOMAIN f = 1..Len(f) /\ Len(f) \in Nat
      /\ \A i \in 1..Len(f) : f[i].sep \in {"|", "&"}
  BY ConditionNames
<1>2. PICK s \in Seq(Seq(Condition)) :
        /\ Len(s) = Len(f)
        /\ Removed(f, labels) = Serialized(FlattenSeq(s))
        /\ \A i \in DOMAIN f :
             /\ ~IsExclude(f[i]) => s[i] = <<f[i]>>
             /\ IsExclude(f[i]) /\ ~(f[i].values \subseteq labels) => s[i] = <<Without(f[i], labels)>>
             /\ IsExclude(f[i]) /\ f[i].values \subseteq labels =>
                  \/ s[i] = <<>> /\ ~KeepsGroups(f, i)
                  \/ s[i] = <<f[i]>> /\ KeepsGroups(f, i)
  BY RemovedParts
<1> DEFINE r == FlattenSeq(s)
<1>3. ASSUME NEW i \in 1..Len(f)
      PROVE  \/ s[i] = <<>> /\ i \in Enforced(f) /\ OursOnly(f[i])
             \/ s[i] = <<f[i]>> /\ ~IsExclude(f[i])
             \/ s[i] = <<f[i]>> /\ IsExclude(f[i]) /\ f[i].values \subseteq labels /\ KeepsGroups(f, i)
             \/ IsExclude(f[i]) /\ ~(f[i].values \subseteq labels) /\ s[i] = <<Without(f[i], labels)>>
  <2>1. CASE ~IsExclude(f[i])
    BY <1>1, <1>2, <2>1
  <2>2. CASE IsExclude(f[i]) /\ ~(f[i].values \subseteq labels)
    BY <1>1, <1>2, <2>2
  <2>3. CASE IsExclude(f[i]) /\ f[i].values \subseteq labels
    <3>1. OursOnly(f[i])
      BY <2>3 DEF OursOnly
    <3>2. (s[i] = <<>> /\ ~KeepsGroups(f, i)) \/ (s[i] = <<f[i]>> /\ KeepsGroups(f, i))
      BY <1>1, <1>2, <2>3
    <3> QED
      BY <2>3, <3>1, <3>2, SteadyLoses
  <2> QED
    BY <2>1, <2>2, <2>3
<1> DEFINE Cut(d, i) ==
             /\ d.field = f[i].field /\ d.op = f[i].op /\ d.sep = f[i].sep
             /\ ~IsExclude(f[i]) => d.values = f[i].values
             /\ IsExclude(f[i]) =>
                  \/ d.values = f[i].values \ labels /\ ~(f[i].values \subseteq labels)
                  \/ d.values = f[i].values /\ f[i].values \subseteq labels /\ KeepsGroups(f, i)
<1>4. ASSUME NEW i \in 1..Len(f)
      PROVE  /\ Len(s[i]) =< 1
             /\ Len(s[i]) = 1 => Cut(s[i][1], i)
             /\ Len(s[i]) # 1 => i \in Enforced(f) /\ OursOnly(f[i])
  <2>1. CASE s[i] = <<>> /\ i \in Enforced(f) /\ OursOnly(f[i])
    <3>1. Len(s[i]) = 0
      BY <2>1
    <3> QED
      BY <2>1, <3>1
  <2>2. CASE s[i] = <<f[i]>> /\ ~IsExclude(f[i])
    <3>1. Len(s[i]) = 1 /\ s[i][1] = f[i]
      BY <2>2, SinglePart
    <3> QED
      BY <2>2, <3>1
  <2>3. CASE s[i] = <<f[i]>> /\ IsExclude(f[i]) /\ f[i].values \subseteq labels /\ KeepsGroups(f, i)
    <3>1. Len(s[i]) = 1 /\ s[i][1] = f[i]
      BY <2>3, SinglePart
    <3> QED
      BY <2>3, <3>1
  <2>4. CASE IsExclude(f[i]) /\ ~(f[i].values \subseteq labels) /\ s[i] = <<Without(f[i], labels)>>
    <3> DEFINE d == Without(f[i], labels)
    <3>0. f[i] \in Condition
      BY <1>1
    <3>1. d.field = f[i].field /\ d.op = f[i].op /\ d.sep = f[i].sep /\ d.values = f[i].values \ labels
      BY <2>4, <3>0, WithoutStays
    <3> HIDE DEF d
    <3>2. Len(s[i]) = 1 /\ s[i][1] = d
      BY <2>4, SinglePart DEF d
    <3>3. Cut(d, i)
      BY <2>4, <3>1
    <3> QED
      BY <3>2, <3>3
  <2> QED
    BY <1>3, <2>1, <2>2, <2>3, <2>4
<1> HIDE DEF Cut
<1>5. \A i \in 1..Len(s) : Len(s[i]) =< 1
  BY <1>2, <1>4
<1>6. r \in Seq(Condition) /\ \E org : Thins(r, s, org)
  BY <1>5, ThinParts
<1> HIDE DEF r
<1>7. PICK org : Thins(r, s, org)
  BY <1>6
<1>8. /\ org \in [1..Len(r) -> 1..Len(f)]
      /\ \A x, y \in 1..Len(r) : x < y => org[x] < org[y]
      /\ \A x \in 1..Len(r) : Len(s[org[x]]) = 1 /\ r[x] = s[org[x]][1]
      /\ \A i \in 1..Len(f) : Len(s[i]) = 1 => \E x \in 1..Len(r) : i = org[x]
      /\ Len(r) \in Nat
  BY <1>2, <1>6, <1>7 DEF Thins
<1>9. \A x \in 1..Len(r) : org[x] \in 1..Len(f) /\ Cut(r[x], org[x])
  <2> TAKE x \in 1..Len(r)
  <2>1. PICK i \in 1..Len(f) : i = org[x]
    BY <1>8
  <2>2. Len(s[i]) = 1 /\ r[x] = s[i][1]
    BY <1>8, <2>1
  <2> QED
    BY <1>4, <2>1, <2>2
<1>10. Between(r, f, org)
  <2> SUFFICES ASSUME NEW x \in 1..Len(r), x > 1, r[x].sep # "|"
               PROVE  \E k \in 1..Len(f) : org[x - 1] < k /\ k =< org[x] /\ f[k].sep # "|"
    BY DEF Between
  <2>1. PICK i \in 1..Len(f) : i = org[x]
    BY <1>8
  <2>2. x - 1 \in 1..Len(r) /\ x - 1 < x
    BY <1>8
  <2>3. org[x - 1] < i
    BY <1>8, <2>1, <2>2
  <2>4. f[i].sep # "|" /\ i =< i
    BY <1>1, <1>9, <2>1 DEF Cut
  <2> QED
    BY <2>1, <2>3, <2>4
<1>11. \A x, y \in 1..Len(r) : Joined(f, org[x], org[y]) => Joined(r, x, y)
  BY <1>6, <1>8, <1>10, JoinsThin
\* What something of the group stays for is still there.
<1>12. ASSUME NEW x \in 1..Len(r), NEW j \in 1..Len(f), Joined(f, org[x], j)
       PROVE  \E y \in 1..Len(r) : j = org[y] /\ Joined(r, x, y)
  <2>1. PICK i \in 1..Len(f) : i = org[x]
    BY <1>8
  <2>2. Len(s[j]) = 1
    <3> SUFFICES ASSUME Len(s[j]) # 1 PROVE FALSE
      OBVIOUS
    <3>1. i = j
      BY <1>4, <1>12, <2>1, EnforcedAlone
    <3> QED
      BY <1>8, <2>1, <3>1
  <2>3. PICK y \in 1..Len(r) : j = org[y]
    BY <1>8, <2>2
  <2> QED
    BY <1>11, <1>12, <2>3
<1>13. \A i \in 1..Len(f) : (\E x \in 1..Len(r) : i = org[x]) \/ (i \in Enforced(f) /\ OursOnly(f[i]))
  BY <1>4, <1>8
<1>14. Cuts(r, f, labels, org)
  BY <1>8, <1>9, <1>12, <1>13 DEF Cuts, Cut
<1>15. Removed(f, labels) = Serialized(r)
  BY <1>2 DEF r
<1> QED
  BY <1>6, <1>14, <1>15

\* ... so that the filter stays judged, and steady.
LEMMA RemovedRests ==
  ASSUME NEW f \in Seq(Condition), Steady(f), NEW labels \in SUBSET Ours
  PROVE  /\ Removed(f, labels) \in Seq(Condition) /\ Steady(Removed(f, labels))
         /\ NoneOwnOnly(f) => NoneOwnOnly(Removed(f, labels))
         /\ NoneNeedy(f) => NoneNeedy(Removed(f, labels))
<1>1. /\ DOMAIN f = 1..Len(f) /\ Len(f) \in Nat
      /\ \A i \in 1..Len(f) : f[i].sep \in {"|", "&"}
  BY ConditionNames
<1>2. PICK r \in Seq(Condition) : \E org : Removed(f, labels) = Serialized(r) /\ Cuts(r, f, labels, org)
  BY RemovedCuts
<1>3. PICK org : Removed(f, labels) = Serialized(r) /\ Cuts(r, f, labels, org)
  BY <1>2
<1> DEFINE Cut(d, c) == /\ d.field = c.field /\ d.op = c.op /\ d.sep = c.sep
                        /\ ~IsExclude(c) => d.values = c.values
                        /\ d.values \subseteq c.values
                        /\ d.values \subseteq Ours => c.values \subseteq Ours
<1>8. /\ org \in [1..Len(r) -> 1..Len(f)]
      /\ \A x, y \in 1..Len(r) : x < y => org[x] < org[y]
      /\ \A i \in 1..Len(f) : (\E x \in 1..Len(r) : i = org[x]) \/ i \in Enforced(f)
      /\ Len(r) \in Nat
  BY <1>3 DEF Cuts
<1>9. \A x \in 1..Len(r) : org[x] \in 1..Len(f) /\ Cut(r[x], f[org[x]])
  <2> TAKE x \in 1..Len(r)
  <2>1. PICK i \in 1..Len(f) : i = org[x]
    BY <1>8
  <2>2. /\ r[x].field = f[i].field /\ r[x].op = f[i].op /\ r[x].sep = f[i].sep
        /\ ~IsExclude(f[i]) => r[x].values = f[i].values
        /\ IsExclude(f[i]) => r[x].values = f[i].values \ labels \/ r[x].values = f[i].values
    BY <1>3, <2>1 DEF Cuts
  <2> QED
    BY <2>1, <2>2
<1> HIDE DEF Cut
<1>12. ASSUME NEW x \in 1..Len(r), NEW j \in 1..Len(f), Joined(f, org[x], j)
       PROVE  \E y \in 1..Len(r) : j = org[y] /\ Joined(r, x, y)
  BY <1>3, <1>12 DEF Cuts
<1>13. ASSUME NoneOwnOnly(f) PROVE NoneOwnOnly(r)
  <2> SUFFICES ASSUME NEW x \in 1..Len(r) PROVE \E y \in 1..Len(r) : Joined(r, x, y) /\ ~OwnOnly(r[y])
    BY DEF NoneOwnOnly
  <2>1. PICK j \in 1..Len(f) : Joined(f, org[x], j) /\ ~OwnOnly(f[j])
    BY <1>9, <1>13 DEF NoneOwnOnly
  <2>2. PICK y \in 1..Len(r) : j = org[y] /\ Joined(r, x, y)
    BY <1>12, <2>1
  <2>3. Cut(r[y], f[j])
    BY <1>9, <2>2
  <2>4. ~OwnOnly(r[y])
    BY <2>1, <2>3 DEF Cut, OwnOnly, IsLabelAllow, IsExclude
  <2> QED
    BY <2>2, <2>4
<1>14. ASSUME NoneNeedy(f) PROVE NoneNeedy(r)
  <2> SUFFICES ASSUME NEW x \in 1..Len(r), OwnersAllow(r[x])
               PROVE  \E y \in 1..Len(r) : Joined(r, x, y) /\ Holds(r[y], RowOf(Own))
    BY DEF NoneNeedy
  <2>1. PICK i \in 1..Len(f) : i = org[x]
    BY <1>8
  <2>2. OwnersAllow(f[i])
    <3>1. Cut(r[x], f[i])
      BY <1>9, <2>1
    <3> QED
      BY <3>1 DEF Cut, OwnersAllow, IsExclude
  <2>3. PICK j \in 1..Len(f) : Joined(f, i, j) /\ Holds(f[j], RowOf(Own))
    BY <1>14, <2>2 DEF NoneNeedy
  <2>4. PICK y \in 1..Len(r) : j = org[y] /\ Joined(r, x, y)
    BY <1>12, <2>1, <2>3
  <2>5. Cut(r[y], f[j])
    BY <1>9, <2>4
  <2>6. Holds(r[y], RowOf(Own))
    <3>1. CASE IsExclude(f[j])
      <4>1. f[j].values \cap RowOf(Own) = {} /\ r[y].op # "="
        BY <2>3, <2>5, <3>1 DEF Holds, IsExclude, Cut
      <4>2. r[y].values \cap RowOf(Own) = {}
        BY <2>5, <4>1 DEF Cut
      <4> QED
        BY <4>1, <4>2 DEF Holds
    <3>2. CASE ~IsExclude(f[j])
      BY <2>3, <2>5, <3>2 DEF Holds, Cut
    <3> QED
      BY <3>1, <3>2
  <2> QED
    BY <2>4, <2>6
<1>15. Steady(r)
  <2> SUFFICES ASSUME NEW x \in 1..Len(r), OursOnly(r[x]), x = 1 \/ r[x].sep = "|",
                      NEW y \in 1..Len(r), y # 1
               PROVE  r[y].sep = "&"
    BY DEF Steady
  <2>1. PICK i \in 1..Len(f) : i = org[x]
    BY <1>8
  <2>2. PICK m \in 1..Len(f) : m = org[y]
    BY <1>8
  <2>3. m # 1 /\ r[y].sep = f[m].sep
    <3>1. 1 \in 1..Len(r) /\ 1 < y
      BY <1>8
    <3>2. org[1] \in 1..Len(f) /\ org[1] < m
      BY <1>8, <2>2, <3>1
    <3>3. Cut(r[y], f[m])
      BY <1>9, <2>2
    <3> QED
      BY <1>1, <3>2, <3>3 DEF Cut
  <2>4. OursOnly(f[i]) /\ r[x].sep = f[i].sep
    <3>1. Cut(r[x], f[i])
      BY <1>9, <2>1
    <3> QED
      BY <3>1 DEF Cut, OursOnly, IsExclude
  <2>5. CASE i = 1 \/ f[i].sep = "|"
    BY <2>3, <2>4, <2>5 DEF Steady
  <2>6. CASE i # 1 /\ f[i].sep # "|"
    <3>1. x = 1 /\ 1 \in 1..Len(f) /\ 1 < i
      BY <1>1, <2>4, <2>6
    <3>2. ~\E z \in 1..Len(r) : 1 = org[z]
      <4> SUFFICES ASSUME NEW z \in 1..Len(r), 1 = org[z] PROVE FALSE
        OBVIOUS
      <4>1. z = x \/ x < z
        BY <1>8, <3>1
      <4>2. CASE z = x
        BY <2>1, <3>1, <4>2
      <4>3. CASE x < z
        <5>1. org[x] < org[z]
          BY <1>8, <4>3
        <5> QED
          BY <1>1, <2>1, <3>1, <5>1
      <4> QED
        BY <4>1, <4>2, <4>3
    <3>4. 1 \in Enforced(f)
      BY <1>8, <3>1, <3>2
    <3>5. m \in 1..Len(f)
      OBVIOUS
    <3>6. f[m].sep = "&"
      BY <2>3, <3>4, <3>5 DEF Enforced
    <3> QED
      BY <2>3, <3>6
  <2> QED
    BY <2>5, <2>6
<1>16. /\ Serialized(r) \in Seq(Condition) /\ Steady(Serialized(r))
       /\ NoneOwnOnly(r) => NoneOwnOnly(Serialized(r))
       /\ NoneNeedy(r) => NoneNeedy(Serialized(r))
  BY <1>15, SerializedRests, SerializedStays
<1> QED
  BY <1>3, <1>13, <1>14, <1>16

\* A judged filter that does not exclude the row shows it.
LEMMA JudgedShows ==
  ASSUME NEW f \in Seq(Condition), NoneOwnOnly(f), NoneNeedy(f), Excluded(f) \cap RowOf(Own) = {}
  PROVE  Shows(f, RowOf(Own))
<1>1. DOMAIN f = 1..Len(f)
  OBVIOUS
<1> SUFFICES ASSUME NEW g \in Groups(f) PROVE \E i \in g : Holds(f[i], RowOf(Own))
  BY DEF Shows
<1>2. PICK i \in 1..Len(f) : g = {j \in DOMAIN f : Joined(f, i, j)}
  BY <1>1, GroupsAre
<1>3. PICK j \in 1..Len(f) : Joined(f, i, j) /\ ~OwnOnly(f[j])
  BY DEF NoneOwnOnly
<1>4. j \in g
  BY <1>1, <1>2, <1>3
<1>5. f[j] \in Condition /\ f[j].op \in {"=", "!="} /\ f[j].field \in {"label", "contentRating"}
  BY ConditionNames DEF Fields
<1>6. CASE f[j].op = "="
  <2>1. OwnersAllow(f[j])
    <3> SUFFICES ASSUME f[j].values = {Own} PROVE FALSE
      BY <1>6 DEF OwnersAllow
    <3>1. f[j].field = "contentRating"
      BY <1>3, <1>5, <1>6 DEF OwnOnly, IsLabelAllow
    <3>2. f[j].values \cap Ours = {}
      BY <1>5, <3>1, ConditionNames
    <3> QED
      BY <3>2 DEF Ours
  <2>2. PICK k \in 1..Len(f) : Joined(f, j, k) /\ Holds(f[k], RowOf(Own))
    BY <2>1 DEF NoneNeedy
  <2>3. k \in g
    BY <1>4, <2>2, GroupOfIs
  <2> QED
    BY <2>2, <2>3
<1>7. CASE f[j].op = "!=" /\ f[j].field = "label"
  <2>1. f[j].values \subseteq Excluded(f)
    BY <1>1, <1>7 DEF Excluded, ExcludesAt, IsExclude
  <2>2. f[j].values \cap RowOf(Own) = {}
    BY <2>1
  <2> QED
    BY <1>4, <1>7, <2>2 DEF Holds
<1>8. CASE f[j].op = "!=" /\ f[j].field = "contentRating"
  <2>1. f[j].values \subseteq Ratings
    <3>1. NamesItsOwn(f[j]) /\ f[j].field # "label"
      BY <1>5, <1>8 DEF Condition
    <3> QED
      BY <3>1 DEF NamesItsOwn
  <2>2. RowOf(Own) \subseteq Labels
    BY DEF RowOf, Labels, Ours
  <2>3. f[j].values \cap RowOf(Own) = {}
    BY <2>1, <2>2, ShareFilterAssumption
  <2> QED
    BY <1>4, <1>8, <2>3 DEF Holds
<1> QED
  BY <1>5, <1>6, <1>7, <1>8

-----------------------------------------------------------------------------
(* What a sync leaves excludes nothing but what was excluded, and what is wanted. *)

\* Admitting the own row excludes nothing new.
LEMMA AdmittedExcludes ==
  ASSUME NEW f \in Seq(Condition)
  PROVE  Excluded(Admitted(f)) \subseteq Excluded(f)
<1> DEFINE notOwners == {g \in Groups(f) : ~\E i \in g : OwnersAllow(f[i])}
           dropped == OwnClauses(f, notOwners)
           rest == WithoutConditions(f, dropped)
           w == Widened(rest)
<1>1. Admitted(f) = Serialized(w)
  BY DEF Admitted
<1>2. rest \in Seq(Condition) /\ \E org : Leaves(rest, f, dropped, org)
  BY DroppingLeaves
<1> HIDE DEF dropped, rest
<1>3. PICK org : Leaves(rest, f, dropped, org)
  BY <1>2
<1>4. Excluded(rest) \subseteq Excluded(f)
  <2> SUFFICES ASSUME NEW x \in 1..Len(rest), IsExclude(rest[x]) PROVE rest[x].values \subseteq Excluded(f)
    BY <1>2 DEF Excluded, ExcludesAt
  <2>1. PICK i \in 1..Len(f) : i = org[x]
    BY <1>3 DEF Leaves
  <2>2. IsExclude(f[i]) /\ rest[x].values = f[i].values
    BY <1>3, <2>1 DEF Leaves, IsExclude
  <2> QED
    BY <2>2 DEF Excluded, ExcludesAt
<1>5. PICK s \in Seq(Seq(Condition)) : \E to : Widening(w, rest, s, to)
  BY <1>2, WidenedIs
<1>6. PICK to : Widening(w, rest, s, to)
  BY <1>5
<1> HIDE DEF w
<1>7. w \in Seq(Condition)
  BY <1>6 DEF Widening
<1>8. Excluded(w) \subseteq Excluded(rest)
  <2> SUFFICES ASSUME NEW x \in 1..Len(w), IsExclude(w[x]) PROVE w[x].values \subseteq Excluded(rest)
    BY <1>7 DEF Excluded, ExcludesAt
  <2>1. PICK p \in 1..Len(s) : \E k \in 1..Len(s[p]) : x = to[p] + k - 1
    BY <1>6 DEF Widening, Thickens
  <2>2. PICK k \in 1..Len(s[p]) : x = to[p] + k - 1
    BY <2>1
  <2>3. w[x] = s[p][k] /\ p \in 1..Len(rest)
    BY <1>6, <2>1, <2>2 DEF Widening, Thickens, Follow
  <2>4. Widens(s[p][1], rest[p]) /\ (IsExclude(rest[p]) => s[p][1] = rest[p])
        /\ \A m \in 2..Len(s[p]) : OwnOnly(s[p][m])
    BY <1>6, <2>3 DEF Widening
  <2>5. k = 1
    <3> SUFFICES ASSUME k # 1 PROVE FALSE
      OBVIOUS
    <3>1. k \in 2..Len(s[p])
      OBVIOUS
    <3> QED
      BY <2>3, <2>4, <3>1 DEF OwnOnly, IsLabelAllow, IsExclude
  <2>6. IsExclude(rest[p]) /\ w[x] = rest[p]
    BY <2>3, <2>4, <2>5 DEF Widens, IsExclude
  <2> QED
    BY <1>2, <2>3, <2>6 DEF Excluded, ExcludesAt
<1>9. Excluded(Serialized(w)) = Excluded(w)
  BY <1>7, SerializedStays
<1> QED
  BY <1>1, <1>4, <1>8, <1>9

\* The merge excludes nothing new but what it is given.
LEMMA MergedExcludes ==
  ASSUME NEW f \in Seq(Condition), NEW labels \in SUBSET Ours
  PROVE  Excluded(Merged(f, labels)) \subseteq Excluded(f) \cup labels
<1> DEFINE g == Lifted(f)
           wanted == labels \cup (ExcludesAt(f, Stray(f)) \cap Ours)
           missing == wanted \ Applied(g)
           h == Placed(g, missing)
<1>1. g \in Seq(Condition)
  BY LiftedApplies
<1>2. missing \in SUBSET Labels
  BY DEF Labels
<1>3. Merged(f, labels) = Serialized(h)
  BY DEF Merged
<1>4. missing \subseteq Excluded(f) \cup labels
  BY DEF Excluded, ExcludesAt, Stray
<1>5. Excluded(g) \subseteq Excluded(f)
  <2>1. SUFFICES ASSUME NEW p \in DOMAIN g, IsExclude(g[p]) PROVE g[p].values \subseteq Excluded(f)
    BY DEF Excluded, ExcludesAt
  <2>2. PICK i \in DOMAIN f : IsExclude(f[i]) /\ (g[p].values = f[i].values \/ g[p].values = f[i].values \ Ours)
    BY <2>1, LiftedFrom
  <2> QED
    BY <2>2 DEF Excluded, ExcludesAt
<1> HIDE DEF missing
<1>6. h \in Seq(Condition)
  BY <1>1, <1>2, PlacedApplies
<1>7. Excluded(h) \subseteq Excluded(g) \cup missing
  BY <1>1, <1>2, PlacedFrom
<1>8. Excluded(Serialized(h)) = Excluded(h)
  BY <1>6, SerializedStays
<1> QED
  BY <1>3, <1>4, <1>5, <1>7, <1>8

\* Nor does withdrawing the own row, ...
LEMMA WithdrawnExcludes ==
  ASSUME NEW f \in Seq(Condition)
  PROVE  Excluded(Withdrawn(f)) \subseteq Excluded(f)
<1> DEFINE dropped == OwnClauses(f, Groups(f))
           rest == WithoutConditions(f, dropped)
<1>1. PICK h \in Seq(Condition) :
        /\ Withdrawn(f) = Serialized(h)
        /\ Len(h) = Len(rest)
        /\ \A p \in 1..Len(rest) : h[p] = Narrowed(rest[p])
  BY NarrowedParts
<1>2. rest \in Seq(Condition) /\ \E org : Leaves(rest, f, dropped, org)
  BY DroppingLeaves
<1> HIDE DEF dropped, rest
<1>3. PICK org : Leaves(rest, f, dropped, org)
  BY <1>2
<1>4. Excluded(h) \subseteq Excluded(f)
  <2> SUFFICES ASSUME NEW x \in 1..Len(h), IsExclude(h[x]) PROVE h[x].values \subseteq Excluded(f)
    BY <1>1 DEF Excluded, ExcludesAt
  <2>1. x \in 1..Len(rest) /\ rest[x] \in Condition /\ h[x] = Narrowed(rest[x])
    BY <1>1, <1>2
  <2>2. h[x] = rest[x]
    <3>1. Narrowed(rest[x]).field = rest[x].field /\ Narrowed(rest[x]).op = rest[x].op
      BY <2>1, NarrowedStands DEF Stands
    <3>2. ~IsLabelAllow(rest[x])
      BY <2>1, <3>1 DEF IsExclude, IsLabelAllow
    <3> QED
      BY <2>1, <3>2 DEF Narrowed
  <2>3. PICK i \in 1..Len(f) : i = org[x]
    BY <1>3, <2>1 DEF Leaves
  <2>4. IsExclude(f[i]) /\ rest[x].values = f[i].values
    BY <1>3, <2>1, <2>2, <2>3 DEF Leaves, IsExclude
  <2> QED
    BY <2>2, <2>4 DEF Excluded, ExcludesAt
<1>5. Excluded(Serialized(h)) = Excluded(h)
  BY SerializedStays
<1> QED
  BY <1>1, <1>4, <1>5

\* ... nor does a pass but what is wanted, ...
LEMMA PassExcludes ==
  ASSUME NEW g \in Seq(Condition), NEW c \in SyncCall
  PROVE  /\ Pass(g, c) \in Seq(Condition)
         /\ Excluded(Pass(g, c)) \subseteq Excluded(g) \cup Wanted(c)
<1> DEFINE a == Admitting(g, c)
<1>1. a \in Seq(Condition) /\ Excluded(a) \subseteq Excluded(g)
  <2>1. a \in Seq(Condition)
    BY PassApplies
  <2> QED
    BY <2>1, AdmittingIs, AdmittedExcludes, WithdrawnExcludes
<1>2. Wanted(c) \in SUBSET Ours
  BY DEF Wanted, SyncCall
<1>3. Pass(g, c) = Merged(a, Wanted(c))
  BY DEF Pass
<1> HIDE DEF a
<1>4. Excluded(Merged(a, Wanted(c))) \subseteq Excluded(a) \cup Wanted(c)
  BY <1>1, <1>2, MergedExcludes
<1> QED
  BY <1>1, <1>3, <1>4, PassApplies

\* ... nor do all four.
LEMMA PlannedExcludes ==
  ASSUME NEW f \in Seq(Condition), NEW c \in SyncCall
  PROVE  /\ Planned(f, c) \in Seq(Condition)
         /\ Excluded(Planned(f, c)) \subseteq Excluded(f) \cup Wanted(c)
<1> DEFINE one == Pass(f, c)
           two == Pass(one, c)
           three == Pass(two, c)
           four == Pass(three, c)
<1>1. Planned(f, c) = four
  BY PlannedPasses
<1>2. one \in Seq(Condition) /\ Excluded(one) \subseteq Excluded(f) \cup Wanted(c)
  BY PassExcludes
<1> HIDE DEF one
<1>3. two \in Seq(Condition) /\ Excluded(two) \subseteq Excluded(one) \cup Wanted(c)
  BY <1>2, PassExcludes
<1> HIDE DEF two
<1>4. three \in Seq(Condition) /\ Excluded(three) \subseteq Excluded(two) \cup Wanted(c)
  BY <1>3, PassExcludes
<1> HIDE DEF three
<1>5. four \in Seq(Condition) /\ Excluded(four) \subseteq Excluded(three) \cup Wanted(c)
  BY <1>4, PassExcludes
<1> HIDE DEF four
<1> QED
  BY <1>1, <1>2, <1>3, <1>4, <1>5

\* So of the rows that are not wanted out, a sync excludes none that the filter did not.
LEMMA SyncedExcludes ==
  ASSUME NEW f \in Seq(Condition), NEW c \in SyncCall
  PROVE  Excluded(Synced(f, c)) \subseteq Excluded(f) \cup Wanted(c)
<1> DEFINE p == Planned(f, c)
<1>1. p \in Seq(Condition) /\ Excluded(p) \subseteq Excluded(f) \cup Wanted(c)
  BY PlannedExcludes
<1>2. Synced(f, c) = Removed(p, Prunable(f, c))
  BY DEF Synced
<1> HIDE DEF p
<1>3. Excluded(Removed(p, Prunable(f, c))) \subseteq Excluded(p)
  BY <1>1, RemovedStays
<1> QED
  BY <1>1, <1>2, <1>3

\* What a sync leaves is at rest: no group hides or only admits the own row, and the merge would
\* lift nothing more.
LEMMA SyncedRests ==
  ASSUME NEW f \in Seq(Condition), NEW c \in SyncCall, FewOfOurs(f)
  PROVE  Synced(f, c) \in Seq(Condition) /\ Resting(Synced(f, c), c)
<1> DEFINE p == Planned(f, c)
<1>1. p \in Seq(Condition) /\ Resting(p, c)
  BY PlannedRests
<1>2. Prunable(f, c) \in SUBSET Ours
  BY DEF Prunable, ShortlistLabels
<1>3. Synced(f, c) = Removed(p, Prunable(f, c))
  BY DEF Synced
<1> HIDE DEF p
<1> QED
  BY <1>1, <1>2, <1>3, RemovedRests DEF Resting

\* An account whose row exists sees it after the sync, whatever its allow lists, unless an exclude
\* in its filter hid the row already (admit_own_rows, plan_share_filter): for every filter with no
\* more clauses of ours alone than there are passes to lift them, whatever its length.
THEOREM OwnRowIsShown == Spec => SyncShowsTheOwnRow
<1>1. TypeOK /\ [Next]_vars =>
        [Syncs /\ FewOfOurs(filter) /\ Own \in call.seen
           /\ ExcludesAt(filter, DOMAIN filter) \cap RowOf(Own) = {} =>
             Shows(filter', RowOf(Own))]_vars
  <2> SUFFICES ASSUME TypeOK, Next, call \in SyncCall, FewOfOurs(filter), Own \in call.seen,
                      Excluded(filter) \cap RowOf(Own) = {}
               PROVE  Shows(filter', RowOf(Own))
    BY DEF Syncs, Excluded
  <2>1. filter' = Synced(filter, call) /\ filter \in Seq(Condition)
    BY SyncStep DEF TypeOK
  <2> DEFINE g == Synced(filter, call)
  <2>2. g \in Seq(Condition) /\ NoneOwnOnly(g) /\ NoneNeedy(g)
    BY <2>1, SyncedRests DEF Resting, JudgesTheOwnRow
  <2>3. Excluded(g) \subseteq Excluded(filter) \cup Wanted(call)
    BY <2>1, SyncedExcludes
  <2>4. Wanted(call) \cap RowOf(Own) = {}
    <3>1. Wanted(call) \subseteq Ours \ {Own}
      BY DEF Wanted, SyncCall
    <3> QED
      BY <3>1, ShareFilterAssumption DEF RowOf
  <2> HIDE DEF g
  <2>5. Excluded(g) \cap RowOf(Own) = {}
    BY <2>3, <2>4
  <2>6. Shows(g, RowOf(Own))
    BY <2>2, <2>5, JudgedShows
  <2> QED
    BY <2>1, <2>6 DEF g
<1> QED
  BY <1>1, TypeCorrect, PTL DEF Spec, SyncShowsTheOwnRow

-----------------------------------------------------------------------------
(* What the owner's conditions ask for. *)

\* OwnerShows, condition by condition.
OwnerMet(f, item) ==
  \A i \in 1..Len(f) : ~OursAlone(f[i]) =>
    \E j \in 1..Len(f) : Joined(f, i, j) /\ ~OursAlone(f[j]) /\ Holds(f[j], item)

\* d asks of an item that is no row of ours what c does.
SameToOwner(d, c) ==
  /\ d.op = c.op /\ d.values \ Ours = c.values \ Ours
  /\ OursAlone(d) <=> OursAlone(c)

\* pairs relates the conditions of r to those of f that they stand for: all but those of ours alone,
\* what is joined to what is.
Keeps(r, f, pairs) ==
  /\ \A x \in 1..Len(r) : OursAlone(r[x]) \/ \E i \in 1..Len(f) : <<x, i>> \in pairs
  /\ \A i \in 1..Len(f) : OursAlone(f[i]) \/ \E x \in 1..Len(r) : <<x, i>> \in pairs
  /\ \A x \in 1..Len(r) : \A i \in 1..Len(f) : <<x, i>> \in pairs => SameToOwner(r[x], f[i])
  /\ \A x, y \in 1..Len(r) : \A i, j \in 1..Len(f) :
       <<x, i>> \in pairs /\ <<y, j>> \in pairs /\ Joined(f, i, j) => Joined(r, x, y)

\* Then r shows all that the owner's conditions in f do.
Spares(r, f) == \A item \in Items : OwnerMet(f, item) => OwnerMet(r, item)

\* A condition asks nothing of such an item by its labels of ours.
LEMMA SameHolds ==
  ASSUME NEW c, NEW d, SameToOwner(d, c), NEW item \in Items
  PROVE  Holds(c, item) => Holds(d, item)
<1>1. item \cap Ours = {}
  BY ShareFilterAssumption DEF Items, Labels
<1>2. d.op = c.op /\ d.values \ Ours = c.values \ Ours
  BY DEF SameToOwner
<1>3. d.values \cap item = c.values \cap item
  BY <1>1, <1>2
<1> QED
  BY <1>2, <1>3 DEF Holds

\* What keeps the owner's conditions spares what they show.
LEMMA KeepsSpares ==
  ASSUME NEW f \in Seq(Condition), NEW r \in Seq(Condition), NEW pairs, Keeps(r, f, pairs)
  PROVE  Spares(r, f)
<1> SUFFICES ASSUME NEW item \in Items, OwnerMet(f, item), NEW x \in 1..Len(r), ~OursAlone(r[x])
             PROVE  \E y \in 1..Len(r) : Joined(r, x, y) /\ ~OursAlone(r[y]) /\ Holds(r[y], item)
  BY DEF Spares, OwnerMet
<1>1. PICK i \in 1..Len(f) : <<x, i>> \in pairs
  BY DEF Keeps
<1>2. ~OursAlone(f[i])
  BY <1>1 DEF Keeps, SameToOwner
<1>3. PICK j \in 1..Len(f) : Joined(f, i, j) /\ ~OursAlone(f[j]) /\ Holds(f[j], item)
  BY <1>2 DEF OwnerMet
<1>4. PICK y \in 1..Len(r) : <<y, j>> \in pairs
  BY <1>3 DEF Keeps
<1>5. SameToOwner(r[y], f[j])
  BY <1>4 DEF Keeps
<1>6. Joined(r, x, y)
  BY <1>1, <1>3, <1>4 DEF Keeps
<1>7. Holds(r[y], item)
  BY <1>3, <1>5, SameHolds
<1>8. ~OursAlone(r[y])
  BY <1>3, <1>5 DEF SameToOwner
<1> QED
  BY <1>6, <1>7, <1>8

\* A rewriting that drops conditions of ours alone only, and leaves the others alike, keeps them.
LEMMA PartsSpare ==
  ASSUME NEW f \in Seq(Condition), NEW s \in Seq(Seq(Condition)), Len(s) = Len(f),
         \A i \in 1..Len(f) : \/ s[i] = <<>> /\ OursAlone(f[i])
                              \/ /\ Len(s[i]) = 1 /\ s[i][1].sep = f[i].sep
                                 /\ SameToOwner(s[i][1], f[i])
  PROVE  FlattenSeq(s) \in Seq(Condition) /\ Spares(FlattenSeq(s), f)
<1> DEFINE r == FlattenSeq(s)
<1>1. \A i \in 1..Len(s) : Len(s[i]) =< 1
  <2> SUFFICES ASSUME NEW i \in 1..Len(s) PROVE Len(s[i]) =< 1
    OBVIOUS
  <2>1. i \in 1..Len(f)
    OBVIOUS
  <2>2. CASE s[i] = <<>>
    BY <2>2
  <2>3. CASE Len(s[i]) = 1
    BY <2>3
  <2> QED
    BY <2>1, <2>2, <2>3
<1>2. r \in Seq(Condition) /\ \E org : Thins(r, s, org)
  BY <1>1, ThinParts
<1> HIDE DEF r
<1>3. PICK org : Thins(r, s, org)
  BY <1>2
<1>4. /\ org \in [1..Len(r) -> 1..Len(f)]
      /\ \A x, y \in 1..Len(r) : x < y => org[x] < org[y]
      /\ \A x \in 1..Len(r) : Len(s[org[x]]) = 1 /\ r[x] = s[org[x]][1]
      /\ \A i \in 1..Len(f) : Len(s[i]) = 1 => \E x \in 1..Len(r) : i = org[x]
      /\ Len(r) \in Nat
  BY <1>2, <1>3 DEF Thins
<1>5. ASSUME NEW x \in 1..Len(r)
      PROVE  org[x] \in 1..Len(f) /\ r[x].sep = f[org[x]].sep /\ SameToOwner(r[x], f[org[x]])
  <2>1. PICK i \in 1..Len(f) : i = org[x]
    BY <1>4
  <2>2. Len(s[i]) = 1 /\ r[x] = s[i][1]
    BY <1>4, <2>1
  <2>3. s[i] # <<>>
    BY <2>2
  <2> QED
    BY <2>1, <2>2, <2>3
<1>6. Between(r, f, org)
  <2> SUFFICES ASSUME NEW x \in 1..Len(r), x > 1, r[x].sep # "|"
               PROVE  \E k \in 1..Len(f) : org[x - 1] < k /\ k =< org[x] /\ f[k].sep # "|"
    BY DEF Between
  <2>1. PICK i \in 1..Len(f) : i = org[x]
    BY <1>4
  <2>2. x - 1 \in 1..Len(r) /\ x - 1 < x
    BY <1>4
  <2>3. org[x - 1] < i
    BY <1>4, <2>1, <2>2
  <2>4. f[i].sep # "|" /\ i =< i
    BY <1>5, <2>1
  <2> QED
    BY <2>1, <2>3, <2>4
<1>7. \A x, y \in 1..Len(r) : Joined(f, org[x], org[y]) => Joined(r, x, y)
  BY <1>2, <1>4, <1>6, JoinsThin
<1> DEFINE pairs == {<<x, org[x]>> : x \in 1..Len(r)}
<1>8. \A x \in 1..Len(r) : \A i \in 1..Len(f) : <<x, i>> \in pairs <=> i = org[x]
  OBVIOUS
<1> HIDE DEF pairs
<1>9. \A i \in 1..Len(f) : OursAlone(f[i]) \/ \E x \in 1..Len(r) : i = org[x]
  BY <1>4
<1>10. Keeps(r, f, pairs)
  <2>1. \A x \in 1..Len(r) : OursAlone(r[x]) \/ \E i \in 1..Len(f) : <<x, i>> \in pairs
    BY <1>5, <1>8
  <2>2. \A i \in 1..Len(f) : OursAlone(f[i]) \/ \E x \in 1..Len(r) : <<x, i>> \in pairs
    BY <1>8, <1>9
  <2>3. \A x \in 1..Len(r) : \A i \in 1..Len(f) : <<x, i>> \in pairs => SameToOwner(r[x], f[i])
    BY <1>5, <1>8
  <2>4. \A x, y \in 1..Len(r) : \A i, j \in 1..Len(f) :
          <<x, i>> \in pairs /\ <<y, j>> \in pairs /\ Joined(f, i, j) => Joined(r, x, y)
    BY <1>7, <1>8
  <2> QED
    BY <2>1, <2>2, <2>3, <2>4 DEF Keeps
<1> QED
  BY <1>2, <1>10, KeepsSpares DEF r

\* So does changing conditions where they are, and adding some of ours alone behind.
LEMMA SameSpares ==
  ASSUME NEW f \in Seq(Condition), NEW h \in Seq(Condition), Len(h) >= Len(f),
         \A i \in 1..Len(f) : SameToOwner(h[i], f[i]) /\ (i > 1 => h[i].sep = f[i].sep),
         \A i \in 1..Len(h) : i > Len(f) => OursAlone(h[i])
  PROVE  Spares(h, f)
<1>1. Len(f) \in Nat /\ Len(h) \in Nat
  OBVIOUS
<1>2. \A i, j \in 1..Len(f) : Joined(h, i, j) <=> Joined(f, i, j)
  BY JoinedStays
<1> DEFINE pairs == {<<i, i>> : i \in 1..Len(f)}
<1>3. \A x, i : <<x, i>> \in pairs <=> x = i /\ i \in 1..Len(f)
  OBVIOUS
<1> HIDE DEF pairs
<1>4. \A i \in 1..Len(f) : i \in 1..Len(h)
  BY <1>1
<1>5. \A x \in 1..Len(h) : x > Len(f) \/ x \in 1..Len(f)
  BY <1>1
<1>6. Keeps(h, f, pairs)
  <2>1. \A x \in 1..Len(h) : OursAlone(h[x]) \/ \E i \in 1..Len(f) : <<x, i>> \in pairs
    BY <1>3, <1>5
  <2>2. \A i \in 1..Len(f) : \E x \in 1..Len(h) : <<x, i>> \in pairs
    BY <1>3, <1>4
  <2>3. \A x \in 1..Len(h) : \A i \in 1..Len(f) : <<x, i>> \in pairs => SameToOwner(h[x], f[i])
    BY <1>3
  <2>4. \A x, y \in 1..Len(h) : \A i, j \in 1..Len(f) :
          <<x, i>> \in pairs /\ <<y, j>> \in pairs /\ Joined(f, i, j) => Joined(h, x, y)
    BY <1>2, <1>3
  <2> QED
    BY <2>1, <2>2, <2>3, <2>4 DEF Keeps
<1> QED
  BY <1>6, KeepsSpares

\* Serializing changes none of that.
LEMMA SerializedSpares ==
  ASSUME NEW f \in Seq(Condition)
  PROVE  Serialized(f) \in Seq(Condition) /\ Spares(Serialized(f), f)
<1> DEFINE h == Serialized(f)
<1>1. /\ h \in Seq(Condition) /\ Len(h) = Len(f) /\ Len(f) \in Nat
      /\ \A i \in DOMAIN f : /\ h[i].field = f[i].field /\ h[i].op = f[i].op /\ h[i].values = f[i].values
                             /\ i # 1 => h[i] = f[i]
  BY SerializedStays
<1> HIDE DEF h
<1>2. \A i \in 1..Len(f) : SameToOwner(h[i], f[i]) /\ (i > 1 => h[i].sep = f[i].sep)
  BY <1>1 DEF SameToOwner, OursAlone, IsExclude, IsLabelAllow
<1>3. Len(h) >= Len(f) /\ \A i \in 1..Len(h) : i > Len(f) => OursAlone(h[i])
  BY <1>1
<1>4. Spares(h, f)
  BY <1>1, <1>2, <1>3, SameSpares
<1> QED
  BY <1>1, <1>4 DEF h

\* Taking labels of ours out of an exclude that names others leaves it alike.
LEMMA WithoutSame ==
  ASSUME NEW c \in Condition, NEW labels \in SUBSET Ours, IsExclude(c), ~(c.values \subseteq labels)
  PROVE  Without(c, labels).sep = c.sep /\ SameToOwner(Without(c, labels), c)
<1> DEFINE d == Without(c, labels)
<1>1. d.field = c.field /\ d.op = c.op /\ d.sep = c.sep /\ d.values = c.values \ labels
  BY WithoutStays
<1> HIDE DEF d
<1>2. d.values \ Ours = c.values \ Ours
  BY <1>1
<1>3. OursAlone(d) <=> OursAlone(c)
  BY <1>1, <1>2 DEF OursAlone, IsExclude, IsLabelAllow
<1> QED
  BY <1>1, <1>2, <1>3 DEF d, SameToOwner

\* Lifting drops and trims clauses of ours alone only.
LEMMA LiftedSpares ==
  ASSUME NEW f \in Seq(Condition)
  PROVE  Lifted(f) \in Seq(Condition) /\ Spares(Lifted(f), f)
<1>1. DOMAIN f = 1..Len(f)
  OBVIOUS
<1>2. PICK s \in Seq(Seq(Condition)) :
        /\ Len(s) = Len(f)
        /\ Lifted(f) = FlattenSeq(s)
        /\ \A i \in DOMAIN f :
             /\ i \notin Stray(f) => s[i] = <<f[i]>>
             /\ i \in Stray(f) /\ ~(f[i].values \subseteq Ours) => s[i] = <<Without(f[i], Ours)>>
             /\ i \in Stray(f) /\ f[i].values \subseteq Ours =>
                  \/ s[i] = <<>> /\ ~KeepsGroups(f, i)
                  \/ s[i] = <<f[i]>> /\ KeepsGroups(f, i)
  BY LiftedParts
<1>3. ASSUME NEW i \in 1..Len(f)
      PROVE  \/ s[i] = <<>> /\ OursAlone(f[i])
             \/ /\ Len(s[i]) = 1 /\ s[i][1].sep = f[i].sep
                /\ SameToOwner(s[i][1], f[i])
  <2>1. f[i] \in Condition
    OBVIOUS
  <2>2. CASE s[i] = <<f[i]>>
    <3>1. Len(s[i]) = 1 /\ s[i][1] = f[i]
      BY <2>2, SinglePart
    <3> QED
      BY <3>1 DEF SameToOwner
  <2>3. CASE i \in Stray(f) /\ ~(f[i].values \subseteq Ours)
    <3> DEFINE d == Without(f[i], Ours)
    <3>1. IsExclude(f[i]) /\ s[i] = <<d>>
      BY <1>1, <1>2, <2>3 DEF Stray
    <3>2. d.sep = f[i].sep /\ SameToOwner(d, f[i])
      BY <2>1, <2>3, <3>1, WithoutSame
    <3> HIDE DEF d
    <3>3. Len(s[i]) = 1 /\ s[i][1] = d
      BY <3>1, SinglePart
    <3> QED
      BY <3>2, <3>3
  <2>4. CASE i \in Stray(f) /\ f[i].values \subseteq Ours /\ s[i] = <<>>
    BY <2>4 DEF Stray, OursAlone
  <2> QED
    BY <1>1, <1>2, <2>2, <2>3, <2>4
<1> QED
  BY <1>2, <1>3, PartsSpare

\* So does removing labels of ours.
LEMMA RemovedSpares ==
  ASSUME NEW f \in Seq(Condition), NEW labels \in SUBSET Ours
  PROVE  Spares(Removed(f, labels), f)
<1>1. DOMAIN f = 1..Len(f)
  OBVIOUS
<1>2. PICK s \in Seq(Seq(Condition)) :
        /\ Len(s) = Len(f)
        /\ Removed(f, labels) = Serialized(FlattenSeq(s))
        /\ \A i \in DOMAIN f :
             /\ ~IsExclude(f[i]) => s[i] = <<f[i]>>
             /\ IsExclude(f[i]) /\ ~(f[i].values \subseteq labels) => s[i] = <<Without(f[i], labels)>>
             /\ IsExclude(f[i]) /\ f[i].values \subseteq labels =>
                  \/ s[i] = <<>> /\ ~KeepsGroups(f, i)
                  \/ s[i] = <<f[i]>> /\ KeepsGroups(f, i)
  BY RemovedParts
<1>3. ASSUME NEW i \in 1..Len(f)
      PROVE  \/ s[i] = <<>> /\ OursAlone(f[i])
             \/ /\ Len(s[i]) = 1 /\ s[i][1].sep = f[i].sep
                /\ SameToOwner(s[i][1], f[i])
  <2>1. f[i] \in Condition
    OBVIOUS
  <2>2. CASE s[i] = <<f[i]>>
    <3>1. Len(s[i]) = 1 /\ s[i][1] = f[i]
      BY <2>2, SinglePart
    <3> QED
      BY <3>1 DEF SameToOwner
  <2>3. CASE IsExclude(f[i]) /\ ~(f[i].values \subseteq labels)
    <3> DEFINE d == Without(f[i], labels)
    <3>1. s[i] = <<d>>
      BY <1>1, <1>2, <2>3
    <3>2. d.sep = f[i].sep /\ SameToOwner(d, f[i])
      BY <2>1, <2>3, WithoutSame
    <3> HIDE DEF d
    <3>3. Len(s[i]) = 1 /\ s[i][1] = d
      BY <3>1, SinglePart
    <3> QED
      BY <3>2, <3>3
  <2>4. CASE IsExclude(f[i]) /\ f[i].values \subseteq labels /\ s[i] = <<>>
    BY <2>4 DEF OursAlone
  <2> QED
    BY <1>1, <1>2, <2>2, <2>3, <2>4
<1> DEFINE r == FlattenSeq(s)
<1>4. r \in Seq(Condition) /\ Spares(r, f)
  BY <1>2, <1>3, PartsSpare
<1>5. Removed(f, labels) = Serialized(r)
  BY <1>2
<1> HIDE DEF r
<1>6. Spares(Serialized(r), r)
  BY <1>4, SerializedSpares
<1> QED
  BY <1>4, <1>5, <1>6 DEF Spares

\* So does placing them.
LEMMA PlacedSpares ==
  ASSUME NEW f \in Seq(Condition), NEW missing \in SUBSET Ours
  PROVE  Placed(f, missing) \in Seq(Condition) /\ Spares(Placed(f, missing), f)
<1> DEFINE targets == {i \in Enforced(f) : IsExclude(f[i])}
<1>0. /\ missing \in SUBSET Labels /\ DOMAIN f = 1..Len(f) /\ Len(f) \in Nat
      /\ Placed(f, missing) \in Seq(Condition)
  <2>1. missing \in SUBSET Labels
    BY DEF Labels
  <2> QED
    BY <2>1, PlacedApplies
<1>1. CASE missing = {}
  <2>1. Placed(f, missing) = f
    BY <1>1 DEF Placed
  <2> QED
    BY <1>0, <2>1 DEF Spares
<1>2. CASE missing # {} /\ targets # {}
  <2> DEFINE t == Min(targets)
             d == [f[t] EXCEPT !.values = @ \cup missing]
             h == [f EXCEPT ![t] = d]
  <2>1. targets \in SUBSET Nat
    BY DEF Enforced
  <2>2. t \in targets
    BY <1>2, <2>1, FirstPosition
  <2>3. t \in DOMAIN f /\ IsExclude(f[t])
    BY <2>2 DEF Enforced
  <2>4. Placed(f, missing) = [f EXCEPT ![t].values = @ \cup missing]
    BY <1>2 DEF Placed
  <2> HIDE DEF t
  <2>5. Placed(f, missing) = h
    BY <2>3, <2>4
  <2>6. f[t] \in Condition
    BY <2>3
  <2>7. d.field = f[t].field /\ d.op = f[t].op /\ d.sep = f[t].sep /\ d.values = f[t].values \cup missing
    BY <2>6 DEF Condition
  <2> HIDE DEF d
  <2>8. Len(h) = Len(f) /\ h[t] = d /\ \A i \in DOMAIN f : i # t => h[i] = f[i]
    BY <2>3
  <2> HIDE DEF h
  <2>9. SameToOwner(d, f[t])
    <3>1. d.values \ Ours = f[t].values \ Ours
      BY <2>7
    <3>2. OursAlone(d) <=> OursAlone(f[t])
      BY <2>3, <2>7 DEF OursAlone, IsExclude, IsLabelAllow
    <3> QED
      BY <2>7, <3>1, <3>2 DEF SameToOwner
  <2>10. \A i \in 1..Len(f) : SameToOwner(h[i], f[i]) /\ (i > 1 => h[i].sep = f[i].sep)
    <3> SUFFICES ASSUME NEW i \in 1..Len(f) PROVE SameToOwner(h[i], f[i]) /\ h[i].sep = f[i].sep
      OBVIOUS
    <3>1. CASE i = t
      BY <2>7, <2>8, <2>9, <3>1
    <3>2. CASE i # t
      <4>1. h[i] = f[i]
        BY <1>0, <2>8, <3>2
      <4> QED
        BY <4>1 DEF SameToOwner
    <3> QED
      BY <3>1, <3>2
  <2>11. Len(h) >= Len(f) /\ \A i \in 1..Len(h) : i > Len(f) => OursAlone(h[i])
    BY <1>0, <2>8
  <2>12. h \in Seq(Condition)
    BY <1>0, <2>5
  <2>13. Spares(h, f)
    BY <2>10, <2>11, <2>12, SameSpares
  <2> QED
    BY <1>0, <2>5, <2>13
<1>3. CASE missing # {} /\ targets = {}
  <2> DEFINE h == Append(f, NewExclude(missing))
  <2>1. Placed(f, missing) = h
    BY <1>3 DEF Placed
  <2>2. NewExclude(missing) \in Condition
    BY <1>0, <1>3 DEF NewExclude, Condition, NamesItsOwn, Fields
  <2>3. /\ h \in Seq(Condition) /\ Len(h) = Len(f) + 1 /\ h[Len(h)] = NewExclude(missing)
        /\ \A i \in 1..Len(f) : h[i] = f[i]
    BY <2>2
  <2> HIDE DEF h
  <2>4. \A i \in 1..Len(f) : SameToOwner(h[i], f[i]) /\ (i > 1 => h[i].sep = f[i].sep)
    BY <2>3 DEF SameToOwner
  <2>5. OursAlone(h[Len(h)])
    BY <2>3 DEF OursAlone, NewExclude, IsExclude
  <2>6. Len(h) >= Len(f) /\ \A i \in 1..Len(h) : i > Len(f) => i = Len(h)
    BY <1>0, <2>3
  <2>7. Spares(h, f)
    BY <2>3, <2>4, <2>5, <2>6, SameSpares
  <2> QED
    BY <1>0, <2>1, <2>7
<1> QED
  BY <1>1, <1>2, <1>3

\* So the merge spares what the owner's conditions show.
LEMMA MergedSpares ==
  ASSUME NEW f \in Seq(Condition), NEW labels \in SUBSET Ours
  PROVE  Merged(f, labels) \in Seq(Condition) /\ Spares(Merged(f, labels), f)
<1> DEFINE wanted == labels \cup (ExcludesAt(f, Stray(f)) \cap Ours)
           l == Lifted(f)
           missing == wanted \ Applied(l)
           h == Placed(l, missing)
<1>1. missing \in SUBSET Ours /\ Merged(f, labels) = Serialized(h)
  BY DEF Merged
<1> HIDE DEF missing
<1>2. l \in Seq(Condition) /\ Spares(l, f)
  BY LiftedSpares
<1> HIDE DEF l
<1>3. h \in Seq(Condition) /\ Spares(h, l)
  BY <1>1, <1>2, PlacedSpares
<1> HIDE DEF h
<1>4. Serialized(h) \in Seq(Condition) /\ Spares(Serialized(h), h)
  BY <1>3, SerializedSpares
<1> QED
  BY <1>1, <1>2, <1>3, <1>4 DEF Spares

\* Dropping clauses that only admit the own row spares it too, ...
LEMMA DroppingSpares ==
  ASSUME NEW f \in Seq(Condition), NEW groups
  PROVE  LET rest == WithoutConditions(f, OwnClauses(f, groups))
         IN rest \in Seq(Condition) /\ Spares(rest, f)
<1> DEFINE dropped == OwnClauses(f, groups)
           r == WithoutConditions(f, dropped)
<1>1. r \in Seq(Condition) /\ \E org : Leaves(r, f, dropped, org)
  BY DroppingLeaves
<1>2. \A i \in dropped : OursAlone(f[i])
  BY DEF OwnClauses, OursAlone
<1> HIDE DEF r, dropped
<1>3. PICK org : Leaves(r, f, dropped, org)
  BY <1>1
<1>4. \A x \in 1..Len(r) : org[x] \in 1..Len(f) /\ SameToOwner(r[x], f[org[x]])
  BY <1>3 DEF Leaves, SameToOwner, OursAlone, IsExclude, IsLabelAllow
<1> DEFINE pairs == {<<x, org[x]>> : x \in 1..Len(r)}
<1>5. \A x \in 1..Len(r) : \A i \in 1..Len(f) : <<x, i>> \in pairs <=> i = org[x]
  OBVIOUS
<1> HIDE DEF pairs
<1>6. \A i \in 1..Len(f) : OursAlone(f[i]) \/ \E x \in 1..Len(r) : i = org[x]
  BY <1>2, <1>3 DEF Leaves
<1>7. \A x, y \in 1..Len(r) : Joined(f, org[x], org[y]) => Joined(r, x, y)
  BY <1>3 DEF Leaves
<1>8. Keeps(r, f, pairs)
  <2>1. \A x \in 1..Len(r) : OursAlone(r[x]) \/ \E i \in 1..Len(f) : <<x, i>> \in pairs
    BY <1>4, <1>5
  <2>2. \A i \in 1..Len(f) : OursAlone(f[i]) \/ \E x \in 1..Len(r) : <<x, i>> \in pairs
    BY <1>5, <1>6
  <2>3. \A x \in 1..Len(r) : \A i \in 1..Len(f) : <<x, i>> \in pairs => SameToOwner(r[x], f[i])
    BY <1>4, <1>5
  <2>4. \A x, y \in 1..Len(r) : \A i, j \in 1..Len(f) :
          <<x, i>> \in pairs /\ <<y, j>> \in pairs /\ Joined(f, i, j) => Joined(r, x, y)
    BY <1>5, <1>7
  <2> QED
    BY <2>1, <2>2, <2>3, <2>4 DEF Keeps
<1>9. Spares(r, f)
  BY <1>1, <1>8, KeepsSpares
<1> QED
  BY <1>1, <1>9 DEF r, dropped

\* ... and admitting it, ...
LEMMA WidenedSpares ==
  ASSUME NEW f \in Seq(Condition)
  PROVE  Widened(f) \in Seq(Condition) /\ Spares(Widened(f), f)
<1> DEFINE w == Widened(f)
<1>1. PICK s \in Seq(Seq(Condition)) : \E to : Widening(w, f, s, to)
  BY WidenedIs
<1>2. PICK to : Widening(w, f, s, to)
  BY <1>1
<1> HIDE DEF w
<1>3. /\ w \in Seq(Condition) /\ Thickens(w, s, to) /\ Follow(s, f) /\ Len(s) = Len(f)
  BY <1>2 DEF Widening, Follow
<1>4. ASSUME NEW p \in 1..Len(f)
      PROVE  to[p] \in 1..Len(w) /\ SameToOwner(w[to[p]], f[p])
  <2>1. to[p] \in 1..Len(w) /\ w[to[p]] = s[p][1]
    BY <1>2, WideningParts
  <2>2. Widens(s[p][1], f[p]) /\ (IsExclude(f[p]) => s[p][1] = f[p])
    BY <1>2 DEF Widening
  <2>3. f[p] \in Condition
    OBVIOUS
  <2>4. f[p].values # {}
    BY <2>3, ConditionNames
  <2> DEFINE d == s[p][1]
  <2>5. d.op = f[p].op /\ d.field = f[p].field /\ d.values \ Ours = f[p].values \ Ours
    BY <2>2 DEF Widens, Ours
  <2>6. OursAlone(d) <=> OursAlone(f[p])
    <3>1. CASE IsExclude(f[p])
      BY <2>2, <3>1
    <3>2. CASE ~IsExclude(f[p])
      BY <2>2, <2>4, <3>2 DEF Widens, OursAlone, IsExclude, IsLabelAllow
    <3> QED
      BY <3>1, <3>2
  <2> HIDE DEF d
  <2>7. w[to[p]] = d
    BY <2>1 DEF d
  <2> QED
    BY <2>1, <2>5, <2>6, <2>7 DEF SameToOwner
<1> DEFINE pairs == {<<to[p], p>> : p \in 1..Len(f)}
<1>5. \A x \in 1..Len(w) : \A i \in 1..Len(f) : <<x, i>> \in pairs <=> x = to[i]
  OBVIOUS
<1> HIDE DEF pairs
<1>6. ASSUME NEW x \in 1..Len(w) PROVE OursAlone(w[x]) \/ \E i \in 1..Len(f) : x = to[i]
  <2>1. PICK p \in 1..Len(s) : \E k \in 1..Len(s[p]) : x = to[p] + k - 1
    BY <1>3 DEF Thickens
  <2>2. PICK k \in 1..Len(s[p]) : x = to[p] + k - 1
    BY <2>1
  <2>3. p \in 1..Len(f) /\ w[x] = s[p][k] /\ to[p] \in 1..Len(w)
    BY <1>3, <2>2 DEF Thickens
  <2>4. CASE k = 1
    BY <2>2, <2>3, <2>4
  <2>5. CASE k # 1
    <3>1. k \in 2..Len(s[p])
      BY <2>5
    <3>2. OwnOnly(w[x])
      BY <1>2, <2>3, <3>1 DEF Widening
    <3> QED
      BY <3>2 DEF OwnOnly, OursAlone
  <2> QED
    BY <2>4, <2>5
<1>7. \A i, j \in 1..Len(f) : Joined(f, i, j) => Joined(w, to[i], to[j])
  BY <1>3, JoinsThick
<1>8. Keeps(w, f, pairs)
  <2>1. \A x \in 1..Len(w) : OursAlone(w[x]) \/ \E i \in 1..Len(f) : <<x, i>> \in pairs
    BY <1>5, <1>6
  <2>2. \A i \in 1..Len(f) : \E x \in 1..Len(w) : <<x, i>> \in pairs
    BY <1>4, <1>5
  <2>3. \A x \in 1..Len(w) : \A i \in 1..Len(f) : <<x, i>> \in pairs => SameToOwner(w[x], f[i])
    BY <1>4, <1>5
  <2>4. \A x, y \in 1..Len(w) : \A i, j \in 1..Len(f) :
          <<x, i>> \in pairs /\ <<y, j>> \in pairs /\ Joined(f, i, j) => Joined(w, x, y)
    BY <1>5, <1>7
  <2> QED
    BY <2>1, <2>2, <2>3, <2>4 DEF Keeps
<1>9. Spares(w, f)
  BY <1>3, <1>8, KeepsSpares
<1> QED
  BY <1>3, <1>9 DEF w

\* ... so admit_own_rows does, with the row and without.
LEMMA AdmittingSpares ==
  ASSUME NEW g \in Seq(Condition), NEW c \in SyncCall
  PROVE  Admitting(g, c) \in Seq(Condition) /\ Spares(Admitting(g, c), g)
<1>1. Admitted(g) \in Seq(Condition) /\ Spares(Admitted(g), g)
  <2> DEFINE notOwners == {h \in Groups(g) : ~\E i \in h : OwnersAllow(g[i])}
             rest == WithoutConditions(g, OwnClauses(g, notOwners))
  <2>1. Admitted(g) = Serialized(Widened(rest))
    BY DEF Admitted
  <2>2. rest \in Seq(Condition) /\ Spares(rest, g)
    BY DroppingSpares
  <2> HIDE DEF rest
  <2>3. Widened(rest) \in Seq(Condition) /\ Spares(Widened(rest), rest)
    BY <2>2, WidenedSpares
  <2>4. Serialized(Widened(rest)) \in Seq(Condition) /\ Spares(Serialized(Widened(rest)), Widened(rest))
    BY <2>3, SerializedSpares
  <2> QED
    BY <2>1, <2>2, <2>3, <2>4 DEF Spares
<1>2. Withdrawn(g) \in Seq(Condition) /\ Spares(Withdrawn(g), g)
  <2> DEFINE rest == WithoutConditions(g, OwnClauses(g, Groups(g)))
  <2>1. PICK h \in Seq(Condition) :
              /\ Withdrawn(g) = Serialized(h)
              /\ Len(h) = Len(rest)
              /\ \A p \in 1..Len(rest) : h[p] = Narrowed(rest[p])
    BY NarrowedParts
  <2>2. rest \in Seq(Condition) /\ Spares(rest, g)
    BY DroppingSpares
  <2> HIDE DEF rest
  <2>3. \A p \in 1..Len(rest) : SameToOwner(h[p], rest[p]) /\ (p > 1 => h[p].sep = rest[p].sep)
    <3> SUFFICES ASSUME NEW p \in 1..Len(rest) PROVE SameToOwner(h[p], rest[p]) /\ h[p].sep = rest[p].sep
      OBVIOUS
    <3>1. rest[p] \in Condition /\ rest[p].values # {}
      BY <2>2, ConditionNames
    <3> DEFINE c1 == rest[p]
               d == Narrowed(c1)
    <3>2. /\ Stands(d, c1) /\ d.sep = c1.sep
          /\ IsLabelAllow(c1) /\ c1.values # {Own} => d.values = c1.values \ {Own}
          /\ ~IsLabelAllow(c1) => d = c1
      BY <3>1, NarrowedStands
    <3>3. IsLabelAllow(c1) /\ c1.values = {Own} => d = c1
      BY DEF Narrowed
    <3>4. h[p] = d /\ rest[p] = c1 /\ c1.values # {}
      BY <2>1, <3>1
    <3> HIDE DEF c1, d
    <3>5. d.op = c1.op /\ d.field = c1.field /\ d.values \ Ours = c1.values \ Ours
      BY <3>2 DEF Stands
    <3>6. OursAlone(d) <=> OursAlone(c1)
      <4>1. CASE IsLabelAllow(c1) /\ c1.values # {Own}
        <5>1. ~OursAlone(c1)
          BY <4>1 DEF OursAlone, IsLabelAllow, IsExclude
        <5>2. d.values # {Own} /\ d.op = "="
          BY <3>2, <3>5, <4>1 DEF IsLabelAllow
        <5> QED
          BY <5>1, <5>2 DEF OursAlone, IsLabelAllow, IsExclude
      <4>2. CASE ~(IsLabelAllow(c1) /\ c1.values # {Own})
        BY <3>2, <3>3, <4>2
      <4> QED
        BY <4>1, <4>2
    <3> QED
      BY <3>2, <3>4, <3>5, <3>6 DEF SameToOwner
  <2>4. Len(h) >= Len(rest) /\ \A i \in 1..Len(h) : i > Len(rest) => OursAlone(h[i])
    BY <2>1, <2>2
  <2>5. Spares(h, rest)
    BY <2>2, <2>3, <2>4, SameSpares
  <2>6. Serialized(h) \in Seq(Condition) /\ Spares(Serialized(h), h)
    BY SerializedSpares
  <2> QED
    BY <2>1, <2>2, <2>5, <2>6 DEF Spares
<1>3. Spares(g, g)
  BY DEF Spares
<1> QED
  BY <1>1, <1>2, <1>3, AdmittingIs

\* A sync spares what the owner's conditions show.
LEMMA SyncedSpares ==
  ASSUME NEW f \in Seq(Condition), NEW c \in SyncCall
  PROVE  Spares(Synced(f, c), f)
<1> DEFINE one == Pass(f, c)
           two == Pass(one, c)
           three == Pass(two, c)
           four == Pass(three, c)
<1>1. Wanted(c) \in SUBSET Ours
  BY DEF Wanted, SyncCall
<1>2. \A g \in Seq(Condition) : Pass(g, c) \in Seq(Condition) /\ Spares(Pass(g, c), g)
  <2> SUFFICES ASSUME NEW g \in Seq(Condition) PROVE Pass(g, c) \in Seq(Condition) /\ Spares(Pass(g, c), g)
    OBVIOUS
  <2> DEFINE a == Admitting(g, c)
  <2>1. a \in Seq(Condition) /\ Spares(a, g)
    BY AdmittingSpares
  <2>2. Pass(g, c) = Merged(a, Wanted(c))
    BY DEF Pass
  <2> HIDE DEF a
  <2>3. Merged(a, Wanted(c)) \in Seq(Condition) /\ Spares(Merged(a, Wanted(c)), a)
    BY <1>1, <2>1, MergedSpares
  <2> QED
    BY <2>1, <2>2, <2>3 DEF Spares
<1>3. Planned(f, c) = four
  BY PlannedPasses
<1>4. one \in Seq(Condition) /\ Spares(one, f)
  BY <1>2
<1> HIDE DEF one
<1>5. two \in Seq(Condition) /\ Spares(two, one)
  BY <1>2, <1>4
<1> HIDE DEF two
<1>6. three \in Seq(Condition) /\ Spares(three, two)
  BY <1>2, <1>5
<1> HIDE DEF three
<1>7. four \in Seq(Condition) /\ Spares(four, three)
  BY <1>2, <1>6
<1> HIDE DEF four
<1>8. Prunable(f, c) \in SUBSET Ours
  BY DEF Prunable, ShortlistLabels
<1>9. Spares(Removed(four, Prunable(f, c)), four)
  BY <1>7, <1>8, RemovedSpares
<1>10. Synced(f, c) = Removed(four, Prunable(f, c))
  BY <1>3 DEF Synced
<1> QED
  BY <1>4, <1>5, <1>6, <1>7, <1>9, <1>10 DEF Spares

\* Where nothing only admits the own row, clauses of ours ask nothing of other items.
LEMMA JudgedShowsOwners ==
  ASSUME NEW f \in Seq(Condition), NoneOwnOnly(f), NEW item \in Items, OwnerMet(f, item)
  PROVE  Shows(f, item)
<1>1. DOMAIN f = 1..Len(f)
  OBVIOUS
<1> SUFFICES ASSUME NEW g \in Groups(f) PROVE \E i \in g : Holds(f[i], item)
  BY DEF Shows
<1>2. PICK i \in 1..Len(f) : g = {j \in DOMAIN f : Joined(f, i, j)}
  BY <1>1, GroupsAre
<1>3. PICK j \in 1..Len(f) : Joined(f, i, j) /\ ~OwnOnly(f[j])
  BY DEF NoneOwnOnly
<1>4. j \in g
  BY <1>1, <1>2, <1>3
<1>5. CASE OursAlone(f[j])
  <2>1. IsExclude(f[j]) /\ f[j].values \subseteq Ours
    BY <1>3, <1>5 DEF OursAlone, OwnOnly
  <2>2. item \cap Ours = {}
    BY ShareFilterAssumption DEF Items, Labels
  <2>3. f[j].values \cap item = {} /\ f[j].op # "="
    BY <2>1, <2>2 DEF IsExclude
  <2>4. Holds(f[j], item)
    BY <2>3 DEF Holds
  <2> QED
    BY <1>4, <2>4
<1>6. CASE ~OursAlone(f[j])
  <2>1. PICK k \in 1..Len(f) : Joined(f, j, k) /\ ~OursAlone(f[k]) /\ Holds(f[k], item)
    BY <1>6 DEF OwnerMet
  <2>2. k \in g
    BY <1>4, <2>1, GroupOfIs
  <2> QED
    BY <2>1, <2>2
<1> QED
  BY <1>5, <1>6

\* OwnerMet says what OwnerShows does.
LEMMA OwnerShowsMet ==
  ASSUME NEW f \in Seq(Condition), NEW item, OwnerShows(f, item)
  PROVE  OwnerMet(f, item)
<1> SUFFICES ASSUME NEW i \in 1..Len(f), ~OursAlone(f[i])
             PROVE  \E j \in 1..Len(f) : Joined(f, i, j) /\ ~OursAlone(f[j]) /\ Holds(f[j], item)
  BY DEF OwnerMet
<1> DEFINE g == GroupOf(f, i)
           owners == {j \in g : ~OursAlone(f[j])}
<1>1. g \in Groups(f) /\ i \in g
  BY GroupOfIs
<1>2. owners = {} \/ \E j \in owners : Holds(f[j], item)
  BY <1>1 DEF OwnerShows
<1>3. PICK j \in g : ~OursAlone(f[j]) /\ Holds(f[j], item)
  BY <1>1, <1>2
<1>4. j \in 1..Len(f) /\ Joined(f, i, j)
  BY <1>1, <1>3, GroupOfIs
<1> QED
  BY <1>3, <1>4

\* No write of a sync shows more of the owner's library than the filter did, and, where the own row
\* is judged, none shows less of it than the owner's own conditions ask for (merge_label_excludes,
\* admit_own_rows, remove_label_excludes), for every filter with no more clauses of ours alone than
\* there are passes to lift them, whatever its length.
THEOREM OwnersMeaningIsKept == Spec => SyncKeepsTheOwnersMeaning
<1>1. TypeOK /\ [Next]_vars =>
        [Syncs /\ JudgesTheOwnRow(call) /\ FewOfOurs(filter) =>
           \A item \in SUBSET (Foreign \cup Ratings) : OwnerShows(filter, item) => Shows(filter', item)]_vars
  <2> SUFFICES ASSUME TypeOK, Next, call \in SyncCall, JudgesTheOwnRow(call), FewOfOurs(filter),
                      NEW item \in Items, OwnerShows(filter, item)
               PROVE  Shows(filter', item)
    BY DEF Syncs, Items
  <2>1. filter' = Synced(filter, call) /\ filter \in Seq(Condition)
    BY SyncStep DEF TypeOK
  <2> DEFINE g == Synced(filter, call)
  <2>2. g \in Seq(Condition) /\ NoneOwnOnly(g)
    BY <2>1, SyncedRests DEF Resting
  <2>3. Spares(g, filter)
    BY <2>1, SyncedSpares
  <2> HIDE DEF g
  <2>4. OwnerMet(g, item)
    BY <2>1, <2>3, OwnerShowsMet DEF Spares
  <2>5. Shows(g, item)
    BY <2>2, <2>4, JudgedShowsOwners
  <2> QED
    BY <2>1, <2>5 DEF g
<1> QED
  BY <1>1, TypeCorrect, NothingMoreShows, PTL DEF Spec, SyncKeepsTheOwnersMeaning
=============================================================================
