------------------------- MODULE ShareFilterProofs -------------------------
(***************************************************************************)
(* What a sync, and leaving an account alone, promise for every filter,     *)
(* however long, and any labels: a filter stays a filter, the rows an       *)
(* account must not see are hidden whichever way Plex groups the            *)
(* conditions, and shared rows stay hidden from an account left alone.      *)
(***************************************************************************)
EXTENDS ShareFilter, SequenceTheorems, WellFoundedInduction, TLAPS

-----------------------------------------------------------------------------
(* Positions, and functions defined one position after the other. *)

\* A non-empty set of positions has a first one.
LEMMA FirstPosition ==
  ASSUME NEW S \in SUBSET Nat, S # {}
  PROVE  Min(S) \in S /\ \A y \in S : Min(S) =< y
<1>1. IsWellFoundedOn(OpToRel(<, Nat), Nat)
  BY NatLessThanWellFounded
<1>2. PICK x \in S : \A y \in S : ~(<<y, x>> \in OpToRel(<, Nat))
  BY <1>1, WFMin
<1>3. \A y \in S : x =< y
  <2>1. TAKE y \in S
  <2>2. <<y, x>> \in Nat \X Nat
    BY <2>1
  <2>3. ~(y < x)
    BY <1>2, <2>1, <2>2 DEF OpToRel
  <2> QED
    BY <2>3
<1> QED
  BY <1>2, <1>3 DEF Min

\* A non-empty set of positions of a sequence has a last one.
LEMMA LastPosition ==
  ASSUME NEW N \in Nat, NEW S \in SUBSET (1..N), S # {}
  PROVE  Max(S) \in S /\ \A y \in S : y =< Max(S)
<1> DEFINE above == {n \in Nat : \A y \in S : y =< n}
           m == Min(above)
<1>1. N \in above
  OBVIOUS
<1>2. m \in above /\ \A n \in above : m =< n
  BY <1>1, FirstPosition
<1> HIDE DEF m
<1>3. m \in S
  <2> SUFFICES ASSUME m \notin S PROVE FALSE
    OBVIOUS
  <2>1. \A y \in S : y =< m - 1
    BY <1>2
  <2>5. PICK y \in S : TRUE
    OBVIOUS
  <2>2. y \in 1..N /\ y =< m - 1
    BY <2>1, <2>5
  <2>4. m - 1 \in Nat
    BY <1>2, <2>2
  <2>3. m - 1 \in above
    BY <2>1, <2>4
  <2> QED
    BY <1>2, <2>3
<1>4. \A y \in S : m >= y
  BY <1>2, <1>3
<1>5. Max(S) \in S /\ \A y \in S : Max(S) >= y
  BY <1>3, <1>4 DEF Max
<1> QED
  BY <1>5

\* What holds of 0, and of n + 1 when of n, holds of every position: said of a set, for want of
\* which its least position would have none before it.
LEMMA EveryPosition ==
  ASSUME NEW P \in SUBSET Nat, 0 \in P, \A n \in P : n + 1 \in P
  PROVE  \A n \in Nat : n \in P
<1> SUFFICES ASSUME Nat \ P # {} PROVE FALSE
  OBVIOUS
<1> DEFINE m == Min(Nat \ P)
<1>1. m \in Nat \ P /\ \A y \in Nat \ P : m =< y
  BY FirstPosition
<1> HIDE DEF m
<1>2. m # 0 /\ m - 1 \in Nat
  BY <1>1
<1>3. m - 1 \in P
  BY <1>1, <1>2
<1>4. m \in P
  BY <1>1, <1>2, <1>3
<1> QED
  BY <1>1, <1>4

\* g starts at s0, and step[i] makes its value at i of the one before.
Follows(g, S, s0, N, step) ==
  /\ g \in [0..N -> S]
  /\ g[0] = s0
  /\ \A i \in 1..N : g[i] = step[i][g[i - 1]]

\* A function that is given at 0, and at every position by its value at the one before, exists:
\* what the recursive functions of the model rest on.
LEMMA StepByStep ==
  ASSUME NEW S, NEW s0 \in S, NEW N \in Nat, NEW step \in [1..N -> [S -> S]]
  PROVE  \E g : Follows(g, S, s0, N, step)
<1> DEFINE Upto(n) == \E g \in [0..n -> S] : g[0] = s0 /\ \A i \in 1..n : g[i] = step[i][g[i - 1]]
           P == {n \in Nat : n =< N => Upto(n)}
<1>1. 0 \in P
  <2>1. [i \in 0..0 |-> s0] \in [0..0 -> S]
    OBVIOUS
  <2>2. 1..0 = {} /\ [i \in 0..0 |-> s0][0] = s0
    OBVIOUS
  <2>3. Upto(0)
    BY <2>1, <2>2
  <2> QED
    BY <2>3
<1>2. ASSUME NEW n \in P PROVE n + 1 \in P
  <2>1. n \in Nat /\ n + 1 \in Nat
    BY <1>2
  <2>2. SUFFICES ASSUME n + 1 =< N PROVE Upto(n + 1)
    BY <2>1
  <2>3. Upto(n)
    BY <1>2, <2>1, <2>2
  <2>4. PICK g \in [0..n -> S] : g[0] = s0 /\ \A i \in 1..n : g[i] = step[i][g[i - 1]]
    BY <2>3
  <2> DEFINE h == [i \in 0..(n + 1) |-> IF i = n + 1 THEN step[n + 1][g[n]] ELSE g[i]]
  <2>5. g[n] \in S /\ step[n + 1] \in [S -> S]
    BY <2>1, <2>2, <2>4
  <2>6. h \in [0..(n + 1) -> S]
    BY <2>1, <2>4, <2>5
  <2>7. h[0] = s0 /\ h[n + 1] = step[n + 1][h[n]]
    BY <2>1, <2>4
  <2>8. \A i \in 1..n : h[i] = step[i][h[i - 1]]
    BY <2>1, <2>4
  <2> HIDE DEF h
  <2>9. \A i \in 1..(n + 1) : h[i] = step[i][h[i - 1]]
    <3>1. TAKE i \in 1..(n + 1)
    <3>2. CASE i = n + 1
      <4>1. i - 1 = n
        BY <2>1, <3>2
      <4> QED
        BY <2>7, <3>2, <4>1
    <3>3. CASE i # n + 1
      <4>1. i \in 1..n
        BY <2>1, <3>1, <3>3
      <4> QED
        BY <2>8, <4>1
    <3> QED
      BY <3>2, <3>3
  <2> QED
    BY <2>6, <2>7, <2>9
<1> HIDE DEF P
<1>3. P \in SUBSET Nat
  BY DEF P
<1>4. N \in P
  BY <1>1, <1>2, <1>3, EveryPosition
<1> QED
  BY <1>4 DEF P, Follows

-----------------------------------------------------------------------------
(* Rewriting a filter condition by condition lays the parts end to end. *)

\* at[i] is where the i-th part of s ends when the parts are laid end to end.
Ends(s, at) ==
  /\ at \in [0..Len(s) -> Nat]
  /\ at[0] = 0
  /\ \A i \in 1..Len(s) : at[i] = at[i - 1] + Len(s[i])

\* r is those parts, end to end.
Laid(r, s, at) ==
  /\ Ends(s, at)
  /\ Len(r) = at[Len(s)]
  /\ \A i \in 1..Len(s) : \A k \in 1..Len(s[i]) : r[at[i - 1] + k] = s[i][k]

\* Later parts end later, and every position of r belongs to one part.
Covers(r, s, at) ==
  /\ \A i, j \in 0..Len(s) : i =< j => at[i] =< at[j]
  /\ \A p \in 1..Len(r) : \E i \in 1..Len(s) :
       /\ p > at[i - 1] /\ p =< at[i]
       /\ p - at[i - 1] \in 1..Len(s[i]) /\ r[p] = s[i][p - at[i - 1]]

\* FlattenSeq, a recursive function, lays its parts end to end.
LEMMA FlattenLays ==
  ASSUME NEW C, NEW s \in Seq(Seq(C))
  PROVE  FlattenSeq(s) \in Seq(C) /\ \E at : Laid(FlattenSeq(s), s, at)
<1> DEFINE N == Len(s)
<1>1. CASE N = 0
  <2>1. FlattenSeq(s) = s /\ s = <<>>
    BY <1>1 DEF FlattenSeq
  <2> DEFINE at == [i \in 0..0 |-> 0]
  <2>2. at[0] = 0 /\ at \in [0..0 -> Nat]
    OBVIOUS
  <2> HIDE DEF at
  <2>3. Laid(<<>>, <<>>, at)
    BY <2>2 DEF Laid, Ends
  <2> QED
    BY <2>1, <2>3
<1>2. CASE N # 0
  <2> DEFINE Next1(fl) == [i \in 1..N |-> IF i = 1 THEN s[i] ELSE fl[i - 1] \o s[i]]
             flat == CHOOSE fl : fl = Next1(fl)
             step == [i \in 1..N |-> [t \in Seq(C) |-> t \o s[i]]]
  <2>1. N \in Nat /\ 1 \in 1..N /\ N \in 1..N /\ \A i \in 1..N : s[i] \in Seq(C)
    BY <1>2
  <2>2. FlattenSeq(s) = flat[N]
    BY <1>2 DEF FlattenSeq
  <2>3. step \in [1..N -> [Seq(C) -> Seq(C)]]
    BY <2>1, ConcatProperties
  <2>4. <<>> \in Seq(C)
    OBVIOUS
  <2>5. PICK g \in [0..N -> Seq(C)] : g[0] = <<>> /\ \A i \in 1..N : g[i] = step[i][g[i - 1]]
    <3> DEFINE S == Seq(C)
               s0 == <<>>
    <3>1. s0 \in S /\ N \in Nat /\ step \in [1..N -> [S -> S]]
      BY <2>1, <2>3, <2>4
    <3> HIDE DEF N, step, S, s0
    <3>2. \E g : Follows(g, S, s0, N, step)
      BY <3>1, StepByStep
    <3> QED
      BY <3>2 DEF Follows, S, s0
  <2>6. \A i \in 1..N : g[i - 1] \in Seq(C) /\ g[i] = g[i - 1] \o s[i]
    <3>1. TAKE i \in 1..N
    <3>2. i - 1 \in 0..N
      BY <2>1, <3>1
    <3>3. g[i - 1] \in Seq(C)
      BY <2>5, <3>2
    <3>4. step[i][g[i - 1]] = g[i - 1] \o s[i]
      BY <3>1, <3>3
    <3> QED
      BY <2>5, <3>1, <3>3, <3>4
  <2> HIDE DEF N, step
  <2>7. g[1] = s[1]
    <3>1. g[1] = <<>> \o s[1]
      BY <2>1, <2>5, <2>6, 1 - 1 = 0
    <3>2. s[1] \in Seq(C)
      BY <2>1
    <3> QED
      BY <3>1, <3>2, ConcatEmptySeq
  <2>8. flat = Next1(flat)
    <3> DEFINE f1 == [i \in 1..N |-> g[i]]
    <3>1. \A i \in 1..N : f1[i] = IF i = 1 THEN s[i] ELSE f1[i - 1] \o s[i]
      <4>1. TAKE i \in 1..N
      <4>2. CASE i = 1
        BY <2>1, <2>7, <4>2
      <4>3. CASE i # 1
        <5>1. i - 1 \in 1..N
          BY <2>1, <4>1, <4>3
        <5>2. f1[i - 1] = g[i - 1] /\ f1[i] = g[i]
          BY <4>1, <5>1
        <5> QED
          BY <2>6, <4>1, <4>3, <5>2
      <4> QED
        BY <4>2, <4>3
    <3>2. f1 = Next1(f1)
      BY <3>1
    <3> HIDE DEF f1, Next1
    <3> QED
      BY <3>2
  <2> HIDE DEF flat
  <2>9. \A i \in 1..N : flat[i] = IF i = 1 THEN s[i] ELSE flat[i - 1] \o s[i]
    BY <2>8
  <2>10. flat[N] = g[N]
    <3> DEFINE P == {n \in Nat : n \in 1..N => flat[n] = g[n]}
    <3>1. 0 \in P
      OBVIOUS
    <3>2. ASSUME NEW n \in P, n + 1 \in 1..N PROVE flat[n + 1] = g[n + 1]
      <4>1. n \in Nat /\ (n + 1) - 1 = n /\ (n \in 1..N => flat[n] = g[n])
        BY <3>2
      <4>2. CASE n = 0
        BY <2>1, <2>7, <2>9, <4>2
      <4>3. CASE n # 0
        <5>1. n \in 1..N /\ n + 1 # 1
          BY <2>1, <3>2, <4>1, <4>3
        <5>2. flat[n + 1] = flat[n] \o s[n + 1]
          <6> DEFINE i == n + 1
          <6>1. i \in 1..N /\ i # 1 /\ i - 1 = n
            BY <3>2, <4>1, <5>1
          <6> HIDE DEF i
          <6>2. flat[i] = flat[i - 1] \o s[i]
            BY <2>9, <6>1
          <6> QED
            BY <6>1, <6>2 DEF i
        <5>3. g[n + 1] = g[n] \o s[n + 1]
          BY <2>6, <3>2, <4>1
        <5> QED
          BY <4>1, <5>1, <5>2, <5>3
      <4> QED
        BY <4>2, <4>3
    <3>3. P \in SUBSET Nat /\ \A n \in P : n + 1 \in P
      BY <3>2
    <3> HIDE DEF P
    <3>4. N \in P
      BY <2>1, <3>1, <3>3, EveryPosition
    <3> QED
      BY <2>1, <3>4 DEF P
  <2>11. FlattenSeq(s) = g[N]
    BY <2>2, <2>10
  <2> DEFINE Keeps(n) ==
               \A i \in 0..n : /\ Len(g[i]) =< Len(g[n])
                               /\ \A p \in 1..Len(g[i]) : g[n][p] = g[i][p]
  <2>12. Keeps(N)
    <3> DEFINE P == {n \in Nat : n =< N => Keeps(n)}
    <3>1. 0 \in P
      BY <2>5
    <3>2. ASSUME NEW n \in P, n + 1 =< N PROVE Keeps(n + 1)
      <4>1. n \in Nat /\ n \in 0..N /\ n + 1 \in 1..N /\ (n + 1) - 1 = n
        BY <2>1, <3>2
      <4>2. Keeps(n)
        BY <3>2, <4>1
      <4>3. g[n + 1] = g[n] \o s[n + 1] /\ g[n] \in Seq(C) /\ s[n + 1] \in Seq(C)
        BY <2>1, <2>6, <4>1
      <4>4. Len(g[n]) =< Len(g[n + 1]) /\ \A p \in 1..Len(g[n]) : g[n + 1][p] = g[n][p]
        <5> DEFINE t == g[n]
                   u == s[n + 1]
        <5>1. t \in Seq(C) /\ u \in Seq(C) /\ g[n + 1] = t \o u
          BY <4>3
        <5> HIDE DEF t, u
        <5>2. /\ Len(t) \in Nat /\ Len(u) \in Nat /\ Len(t \o u) = Len(t) + Len(u)
              /\ \A p \in 1..(Len(t) + Len(u)) : (t \o u)[p] = IF p =< Len(t) THEN t[p] ELSE u[p - Len(t)]
          BY <5>1, ConcatProperties
        <5>3. \A p \in 1..Len(t) : p \in 1..(Len(t) + Len(u)) /\ p =< Len(t)
          BY <5>2
        <5> QED
          BY <5>1, <5>2, <5>3 DEF t
      <4>5. ASSUME NEW i \in 0..(n + 1)
            PROVE  Len(g[i]) =< Len(g[n + 1]) /\ \A p \in 1..Len(g[i]) : g[n + 1][p] = g[i][p]
        <5>1. CASE i = n + 1
          <6>1. g[n + 1] \in Seq(C)
            BY <2>5, <4>1
          <6> QED
            BY <5>1, <6>1
        <5>2. CASE i # n + 1
          <6>0. i \in 0..n /\ i \in 0..N /\ n + 1 \in 0..N
            BY <2>1, <4>1, <4>5, <5>2
          <6>1. i \in 0..n /\ g[i] \in Seq(C) /\ g[n] \in Seq(C) /\ g[n + 1] \in Seq(C)
            BY <2>5, <4>1, <6>0
          <6>2. Len(g[i]) =< Len(g[n]) /\ \A p \in 1..Len(g[i]) : g[n][p] = g[i][p]
            BY <4>2, <6>1
          <6>3. Len(g[i]) \in Nat /\ Len(g[n]) \in Nat /\ Len(g[n + 1]) \in Nat
            BY <6>1
          <6>4. \A p \in 1..Len(g[i]) : p \in 1..Len(g[n])
            BY <6>2, <6>3
          <6>5. \A p \in 1..Len(g[i]) : g[n + 1][p] = g[i][p]
            BY <4>4, <6>2, <6>4
          <6>6. Len(g[n]) =< Len(g[n + 1])
            BY <4>4
          <6> DEFINE u == Len(g[i])
                     v == Len(g[n])
                     w == Len(g[n + 1])
          <6>7. u \in Nat /\ v \in Nat /\ w \in Nat /\ u =< v /\ v =< w
            BY <6>2, <6>3, <6>6
          <6> HIDE DEF u, v, w
          <6>8. u =< w
            BY ONLY <6>7
          <6> QED
            BY <6>5, <6>8 DEF u, w
        <5> QED
          BY <5>1, <5>2
      <4> QED
        BY <4>5
    <3> HIDE DEF Keeps
    <3>3. P \in SUBSET Nat /\ \A n \in P : n + 1 \in P
      BY <3>2
    <3> HIDE DEF P
    <3>4. N \in P
      BY <2>1, <3>1, <3>3, EveryPosition
    <3> QED
      BY <2>1, <3>4 DEF P
  <2> DEFINE at == [i \in 0..N |-> Len(g[i])]
  <2>13. at \in [0..N -> Nat] /\ at[0] = 0 /\ at[N] = Len(g[N])
    BY <2>1, <2>5
  <2>14. ASSUME NEW i \in 1..N
         PROVE  /\ at[i] = at[i - 1] + Len(s[i])
                /\ \A k \in 1..Len(s[i]) : g[N][at[i - 1] + k] = s[i][k]
    <3>1. i \in 0..N /\ i - 1 \in 0..N
      BY <2>1
    <3>2. g[i] = g[i - 1] \o s[i] /\ g[i - 1] \in Seq(C) /\ s[i] \in Seq(C)
      BY <2>1, <2>6
    <3>3. at[i] = Len(g[i]) /\ at[i - 1] = Len(g[i - 1])
      BY <3>1
    <3>4. Len(g[i]) = Len(g[i - 1]) + Len(s[i])
      BY <3>2, ConcatProperties
    <3>5. ASSUME NEW k \in 1..Len(s[i]) PROVE g[N][at[i - 1] + k] = s[i][k]
      <4> DEFINE p == Len(g[i - 1]) + k
      <4>0. Len(g[i - 1]) \in Nat /\ Len(s[i]) \in Nat
        BY <3>2
      <4>1. p \in 1..(Len(g[i - 1]) + Len(s[i])) /\ ~(p =< Len(g[i - 1])) /\ p - Len(g[i - 1]) = k
        <5> DEFINE a == Len(g[i - 1])
                   b == Len(s[i])
        <5>1. a \in Nat /\ b \in Nat /\ k \in 1..b /\ p = a + k
          BY <3>5, <4>0
        <5> HIDE DEF a, b, p
        <5>2. p \in 1..(a + b) /\ ~(p =< a) /\ p - a = k
          BY <5>1
        <5> QED
          BY <5>2 DEF a, b
      <4>2. g[i][p] = s[i][k]
        BY <3>2, <4>1, ConcatProperties
      <4>3. g[N][p] = g[i][p]
        BY <2>12, <3>1, <3>4, <4>1
      <4> QED
        BY <3>3, <4>2, <4>3
    <3> QED
      BY <3>3, <3>4, <3>5
  <2> HIDE DEF at
  <2>15. Laid(g[N], s, at)
    BY <2>13, <2>14 DEF Laid, Ends, N
  <2>16. g[N] \in Seq(C)
    BY <2>1, <2>5
  <2> QED
    BY <2>11, <2>15, <2>16
<1> QED
  BY <1>1, <1>2

\* Parts laid end to end cover the whole.
LEMMA LaidCovers ==
  ASSUME NEW C, NEW s \in Seq(Seq(C)), NEW r \in Seq(C), NEW at, Laid(r, s, at)
  PROVE  Covers(r, s, at)
<1> DEFINE N == Len(s)
<1>1. /\ N \in Nat /\ at \in [0..N -> Nat] /\ at[0] = 0 /\ Len(r) = at[N]
      /\ \A i \in 1..N : at[i] = at[i - 1] + Len(s[i]) /\ s[i] \in Seq(C)
      /\ \A i \in 1..N : \A k \in 1..Len(s[i]) : r[at[i - 1] + k] = s[i][k]
  <2>1. N \in Nat /\ \A i \in 1..N : s[i] \in Seq(C)
    OBVIOUS
  <2> HIDE DEF N
  <2> QED
    BY <2>1 DEF Laid, Ends, N
<1> HIDE DEF N
<1>2. \A i \in 1..N : i - 1 \in 0..N /\ i \in 0..N /\ Len(s[i]) \in Nat
                      /\ at[i - 1] \in Nat /\ at[i] \in Nat /\ at[i - 1] =< at[i]
  <2>1. TAKE i \in 1..N
  <2>2. i - 1 \in 0..N /\ i \in 0..N
    BY <1>1, <2>1
  <2>3. Len(s[i]) \in Nat /\ at[i - 1] \in Nat /\ at[i] \in Nat
    BY <1>1, <2>1, <2>2
  <2> QED
    BY <1>1, <2>1, <2>2, <2>3
<1>3. ASSUME NEW i \in 0..N, NEW j \in 0..N, i =< j PROVE at[i] =< at[j]
  <2> DEFINE P == {n \in Nat : n =< N => \A m \in 0..n : at[m] =< at[n]}
  <2>1. 0 \in P
    BY <1>1
  <2>2. ASSUME NEW n \in P, n + 1 =< N, NEW m \in 0..(n + 1) PROVE at[m] =< at[n + 1]
    <3>1. n \in Nat /\ n + 1 \in 1..N /\ (n + 1) - 1 = n /\ n \in 0..N
      BY <1>1, <2>2
    <3>2. at[n] =< at[n + 1] /\ at[n] \in Nat /\ at[n + 1] \in Nat
      BY <1>2, <3>1
    <3>3. CASE m = n + 1
      BY <3>2, <3>3
    <3>4. CASE m # n + 1
      <4>1. m \in 0..n /\ m \in 0..N
        BY <1>1, <2>2, <3>1, <3>4
      <4>2. at[m] =< at[n] /\ at[m] \in Nat
        BY <1>1, <2>2, <3>1, <4>1
      <4> QED
        BY <3>2, <4>2
    <3> QED
      BY <3>3, <3>4
  <2>3. P \in SUBSET Nat /\ \A n \in P : n + 1 \in P
    BY <2>2
  <2> HIDE DEF P
  <2>4. j \in P
    <3>1. j \in Nat
      BY <1>1, <1>3
    <3> QED
      BY <2>1, <2>3, <3>1, EveryPosition
  <2> QED
    BY <1>1, <1>3, <2>4 DEF P
<1>4. ASSUME NEW p \in 1..Len(r)
      PROVE  \E i \in 1..N : /\ p > at[i - 1] /\ p =< at[i]
                             /\ p - at[i - 1] \in 1..Len(s[i]) /\ r[p] = s[i][p - at[i - 1]]
  <2> DEFINE reach == {i \in 0..N : p =< at[i]}
             i == Min(reach)
  <2>1. N \in reach /\ reach \in SUBSET Nat
    BY <1>1, <1>4
  <2>2. i \in reach /\ \A y \in reach : i =< y
    BY <2>1, FirstPosition
  <2>3. i \in 0..N /\ p =< at[i] /\ p \in Nat /\ p > 0
    BY <1>1, <1>4, <2>2
  <2> HIDE DEF i
  <2>4. i # 0 /\ i \in 1..N
    BY <1>1, <2>3
  <2>5. i - 1 \notin reach /\ i - 1 \in 0..N
    BY <1>1, <2>2, <2>4
  <2>6. p > at[i - 1] /\ at[i] = at[i - 1] + Len(s[i])
    BY <1>1, <1>2, <2>3, <2>4, <2>5
  <2>7. p - at[i - 1] \in 1..Len(s[i]) /\ at[i - 1] + (p - at[i - 1]) = p
    <3> DEFINE u == at[i - 1]
               v == at[i]
               w == Len(s[i])
    <3>1. u \in Nat /\ w \in Nat /\ p \in Nat /\ v = u + w /\ p > u /\ p =< v
      BY <1>2, <2>3, <2>4, <2>6
    <3> HIDE DEF u, v, w
    <3>2. p - u \in 1..w /\ u + (p - u) = p
      BY ONLY <3>1
    <3> QED
      BY <3>2 DEF u, w
  <2>8. r[p] = s[i][p - at[i - 1]]
    BY <1>1, <2>4, <2>7
  <2> QED
    BY <2>3, <2>4, <2>6, <2>7, <2>8
<1> QED
  BY <1>3, <1>4 DEF N, Covers

\* The i-th part is one condition with its separator, and those behind it hold to theirs.
Holding(f, s, i) ==
  /\ Len(s) = Len(f)
  /\ Len(s[i]) = 1
  /\ s[i][1].sep = f[i].sep
  /\ \A j \in DOMAIN f : j > i => \A k \in 1..Len(s[j]) : s[j][k].sep = f[j].sep

\* A condition that Plex applies is applied in the new filter as well, when it becomes one
\* condition with its separator, and the parts of those behind it hold to their separators.
LEMMA StaysEnforced ==
  ASSUME NEW f \in Seq(Condition), NEW s \in Seq(Seq(Condition)),
         NEW i \in Enforced(f), Holding(f, s, i)
  PROVE  \E p \in Enforced(FlattenSeq(s)) : FlattenSeq(s)[p] = s[i][1]
<1> DEFINE r == FlattenSeq(s)
<1>0. /\ Len(s) = Len(f) /\ Len(s[i]) = 1 /\ s[i][1].sep = f[i].sep
      /\ \A j \in DOMAIN f : j > i => \A k \in 1..Len(s[j]) : s[j][k].sep = f[j].sep
  BY DEF Holding
<1>1. r \in Seq(Condition) /\ \E at : Laid(r, s, at)
  BY FlattenLays
<1> HIDE DEF r
<1>2. PICK at : Laid(r, s, at)
  BY <1>1
<1>3. /\ Len(s) \in Nat /\ at \in [0..Len(s) -> Nat] /\ at[0] = 0 /\ Len(r) = at[Len(s)]
      /\ \A j \in 1..Len(s) : at[j] = at[j - 1] + Len(s[j])
      /\ \A j \in 1..Len(s) : \A k \in 1..Len(s[j]) : r[at[j - 1] + k] = s[j][k]
  BY <1>2 DEF Laid, Ends
<1>3a. Covers(r, s, at)
  BY <1>1, <1>2, LaidCovers
<1>4. /\ \A j, k \in 0..Len(s) : j =< k => at[j] =< at[k]
      /\ \A p \in 1..Len(r) : \E j \in 1..Len(s) :
           /\ p > at[j - 1] /\ p =< at[j]
           /\ p - at[j - 1] \in 1..Len(s[j]) /\ r[p] = s[j][p - at[j - 1]]
  BY <1>3a DEF Covers
<1>5. /\ i \in 1..Len(f) /\ i \in 1..Len(s) /\ DOMAIN f = 1..Len(f)
      /\ \A j \in i..Len(f) : j = 1 \/ f[j].sep = "&"
  BY <1>0 DEF Enforced
<1> DEFINE p == at[i - 1] + 1
<1>6. i - 1 \in 0..Len(s) /\ i \in 0..Len(s) /\ at[i - 1] \in Nat /\ at[i] = p /\ Len(s) \in 0..Len(s)
  <2>1. i - 1 \in 0..Len(s) /\ i \in 0..Len(s) /\ Len(s) \in 0..Len(s)
    BY <1>3, <1>5
  <2>2. at[i - 1] \in Nat
    BY <1>3, <2>1
  <2> QED
    BY <1>0, <1>3, <1>5, <2>1, <2>2
<1>7. r[p] = s[i][1] /\ p \in 1..Len(r)
  <2>1. at[i] =< at[Len(s)]
    BY <1>4, <1>5, <1>6
  <2>2. 1 \in 1..Len(s[i]) /\ Len(r) \in Nat
    BY <1>0, <1>1
  <2>3. r[p] = s[i][1]
    BY <1>3, <1>5, <2>2
  <2> QED
    BY <1>3, <1>6, <2>1, <2>2, <2>3
<1>8. i = 1 => p = 1
  BY <1>3
<1> HIDE DEF p
<1>9. ASSUME NEW q \in p..Len(r) PROVE q = 1 \/ r[q].sep = "&"
  <2>1. q \in 1..Len(r) /\ q >= p /\ Len(r) \in Nat /\ p \in Nat /\ q \in Nat
    BY <1>1, <1>7, <1>9
  <2>2. PICK j \in 1..Len(s) : /\ q > at[j - 1] /\ q =< at[j]
                               /\ q - at[j - 1] \in 1..Len(s[j]) /\ r[q] = s[j][q - at[j - 1]]
    BY <1>4, <2>1
  <2>3. j \in DOMAIN f /\ j \in 0..Len(s) /\ at[j] \in Nat /\ j \in Nat /\ i \in Nat
    <3>1. j \in 0..Len(s) /\ j \in Nat /\ i \in Nat
      BY <1>3, <1>5, <2>2
    <3> QED
      BY <1>0, <1>3, <1>5, <2>2, <3>1
  <2>4. CASE j < i
    <3>1. j =< i - 1
      BY <1>5, <2>2, <2>4
    <3>2. at[j] =< at[i - 1]
      BY <1>4, <1>6, <2>3, <3>1
    <3> DEFINE u == at[i - 1]
               v == at[j]
    <3>3. u \in Nat /\ v \in Nat /\ v =< u /\ q \in Nat /\ q =< v /\ q >= u + 1
      BY <1>6, <2>1, <2>2, <2>3, <3>2 DEF p
    <3> HIDE DEF u, v
    <3> QED
      BY ONLY <3>3
  <2>5. CASE j = i
    <3>1. q - at[j - 1] = 1
      BY <1>0, <2>2, <2>5
    <3>2. r[q] = s[i][1] /\ q = p
      <4>1. r[q] = s[i][1]
        BY <2>2, <2>5, <3>1
      <4>2. at[i - 1] \in Nat /\ q - at[i - 1] = 1
        BY <1>6, <2>5, <3>1
      <4> DEFINE u == at[i - 1]
      <4> HIDE DEF u
      <4>3. u \in Nat /\ q - u = 1 /\ q \in Nat
        BY <2>1, <4>2 DEF u
      <4>4. q = u + 1
        BY ONLY <4>3
      <4> QED
        BY <4>1, <4>4 DEF u, p
    <3>3. i = 1 \/ f[i].sep = "&"
      <4>1. i \in i..Len(f)
        BY <1>5
      <4> QED
        BY <1>5, <4>1
    <3> QED
      BY <1>0, <1>8, <3>2, <3>3
  <2>6. CASE j > i
    <3>1. r[q].sep = f[j].sep
      BY <1>0, <2>2, <2>3, <2>6
    <3>2. j \in i..Len(f) /\ j # 1
      BY <1>5, <2>3, <2>6
    <3> QED
      BY <1>5, <3>1, <3>2
  <2> QED
    BY <1>5, <2>2, <2>4, <2>5, <2>6
<1>10. p \in Enforced(r)
  BY <1>7, <1>9 DEF Enforced
<1> QED
  BY <1>7, <1>10 DEF r

\* The conditions of the whole are those of its parts.
LEMMA FlattenMembers ==
  ASSUME NEW C, NEW s \in Seq(Seq(C))
  PROVE  /\ \A i \in 1..Len(s) : \A k \in 1..Len(s[i]) :
              \E p \in DOMAIN FlattenSeq(s) : FlattenSeq(s)[p] = s[i][k]
         /\ \A p \in DOMAIN FlattenSeq(s) :
              \E i \in 1..Len(s) : \E k \in 1..Len(s[i]) : FlattenSeq(s)[p] = s[i][k]
<1> DEFINE r == FlattenSeq(s)
<1>1. r \in Seq(C) /\ \E at : Laid(r, s, at)
  BY FlattenLays
<1> HIDE DEF r
<1>2. PICK at : Laid(r, s, at)
  BY <1>1
<1>3. /\ Len(s) \in Nat /\ at \in [0..Len(s) -> Nat] /\ Len(r) = at[Len(s)]
      /\ \A j \in 1..Len(s) : at[j] = at[j - 1] + Len(s[j])
      /\ \A j \in 1..Len(s) : \A k \in 1..Len(s[j]) : r[at[j - 1] + k] = s[j][k]
  BY <1>2 DEF Laid, Ends
<1>3a. Covers(r, s, at)
  BY <1>1, <1>2, LaidCovers
<1>4. /\ \A j, k \in 0..Len(s) : j =< k => at[j] =< at[k]
      /\ \A p \in 1..Len(r) : \E j \in 1..Len(s) :
           /\ p > at[j - 1] /\ p =< at[j]
           /\ p - at[j - 1] \in 1..Len(s[j]) /\ r[p] = s[j][p - at[j - 1]]
  BY <1>3a DEF Covers
<1>5. ASSUME NEW i \in 1..Len(s), NEW k \in 1..Len(s[i]) PROVE \E p \in DOMAIN r : r[p] = s[i][k]
  <2>1. i - 1 \in 0..Len(s) /\ i \in 0..Len(s) /\ Len(s) \in 0..Len(s) /\ i =< Len(s)
    BY <1>3, <1>5
  <2>2. at[i - 1] \in Nat /\ at[i] \in Nat /\ at[i] =< Len(r) /\ s[i] \in Seq(C)
    <3>1. at[i - 1] \in Nat /\ at[i] \in Nat
      BY <1>3, <2>1
    <3>2. at[i] =< at[Len(s)]
      BY <1>4, <2>1
    <3> QED
      BY <1>3, <3>1, <3>2
  <2>3. Len(s[i]) \in Nat /\ Len(r) \in Nat
    BY <1>1, <2>2
  <2>4. at[i - 1] + k \in 1..Len(r)
    <3> DEFINE u == at[i - 1]
               v == at[i]
               w == Len(s[i])
               n == Len(r)
    <3>1. u \in Nat /\ v = u + w /\ w \in Nat /\ n \in Nat /\ v =< n /\ k \in 1..w
      BY <1>3, <1>5, <2>2, <2>3
    <3> HIDE DEF u, v, w, n
    <3>2. u + k \in 1..n
      BY ONLY <3>1
    <3> QED
      BY <3>2 DEF u, n
  <2>5. r[at[i - 1] + k] = s[i][k]
    BY <1>3, <1>5
  <2>6. DOMAIN r = 1..Len(r)
    BY <1>1
  <2> QED
    BY <2>4, <2>5, <2>6
<1>6. ASSUME NEW p \in DOMAIN r PROVE \E i \in 1..Len(s) : \E k \in 1..Len(s[i]) : r[p] = s[i][k]
  <2>1. p \in 1..Len(r)
    BY <1>1, <1>6
  <2>2. PICK j \in 1..Len(s) : p - at[j - 1] \in 1..Len(s[j]) /\ r[p] = s[j][p - at[j - 1]]
    BY <1>4, <2>1
  <2> QED
    BY <2>2
<1> QED
  BY <1>5, <1>6 DEF r

-----------------------------------------------------------------------------
(* What Plex hides. *)

\* i and j are alternatives of one group.
Joined(f, i, j) == \A k \in DOMAIN f : (k > i /\ k <= j) \/ (k > j /\ k <= i) => f[k].sep = "|"

\* The groups are the conditions joined to one of them.
LEMMA GroupsAre ==
  ASSUME NEW f \in Seq(Condition)
  PROVE  Groups(f) = {{j \in DOMAIN f : Joined(f, i, j)} : i \in DOMAIN f}
<1> DEFINE Together(i, j) == \A k \in (i + 1)..j \cup (j + 1)..i : f[k].sep = "|"
<1>1. ASSUME NEW i \in DOMAIN f, NEW j \in DOMAIN f
      PROVE  Together(i, j) <=> Joined(f, i, j)
  <2>1. i \in Nat /\ j \in Nat /\ i >= 1 /\ j >= 1 /\ i <= Len(f) /\ j <= Len(f)
        /\ DOMAIN f = 1..Len(f) /\ Len(f) \in Nat
    BY <1>1
  <2>2. \A k : k \in (i + 1)..j \cup (j + 1)..i <=>
               k \in DOMAIN f /\ ((k > i /\ k <= j) \/ (k > j /\ k <= i))
    BY ONLY <2>1
  <2> QED
    BY <2>2 DEF Joined
<1> DEFINE together(i) == {j \in DOMAIN f : Together(i, j)}
           joined(i) == {j \in DOMAIN f : Joined(f, i, j)}
<1>2. \A i \in DOMAIN f : together(i) = joined(i)
  BY <1>1
<1>3. Groups(f) = {together(i) : i \in DOMAIN f}
  BY DEF Groups
<1> HIDE DEF together, joined
<1>4. Groups(f) = {joined(i) : i \in DOMAIN f}
  BY <1>2, <1>3
<1> QED
  BY <1>4 DEF joined

\* A label in an exclude of an enforced position is hidden: the condition is a group of its own
\* (_enforced_positions: it is ANDed with the whole filter).
THEOREM EnforcedHides ==
  ASSUME NEW f \in Seq(Condition), NEW label \in Applied(f)
  PROVE  ~Shows(f, RowOf(label))
<1>1. PICK i \in Enforced(f) : IsExclude(f[i]) /\ label \in f[i].values
  BY DEF Applied, ExcludesAt
<1>2. i \in DOMAIN f /\ i \in 1..Len(f) /\ DOMAIN f = 1..Len(f)
  BY <1>1 DEF Enforced
<1>3. \A j \in i..Len(f) : j = 1 \/ f[j].sep = "&"
  BY <1>1 DEF Enforced
<1>4. {i} \in Groups(f)
  <2>1. \A j \in DOMAIN f : j # i => ~Joined(f, i, j)
    <3>1. TAKE j \in DOMAIN f
    <3>2. CASE j > i
      <4>1. j \in i..Len(f) /\ j # 1
        BY <1>2, <3>1, <3>2
      <4>2. f[j].sep = "&"
        BY <1>3, <4>1
      <4> QED
        BY <1>2, <3>1, <3>2, <4>2 DEF Joined
    <3>3. CASE j < i
      <4>1. f[i].sep = "&"
        BY <1>2, <1>3, <3>1, <3>3
      <4> QED
        BY <1>2, <3>1, <3>3, <4>1 DEF Joined
    <3> QED
      BY <1>2, <3>1, <3>2, <3>3
  <2>2. Joined(f, i, i)
    BY <1>2 DEF Joined
  <2>3. {j \in DOMAIN f : Joined(f, i, j)} = {i}
    BY <1>2, <2>1, <2>2
  <2>4. Groups(f) = {{j \in DOMAIN f : Joined(f, k, j)} : k \in DOMAIN f}
    BY GroupsAre
  <2> QED
    BY <1>2, <2>3, <2>4
<1>5. ~Holds(f[i], RowOf(label))
  BY <1>1 DEF Holds, RowOf, IsExclude
<1> QED
  BY <1>4, <1>5 DEF Shows

\* Nor does the strict left-to-right reading show it: no "|" takes the condition back
\* (_place_excludes: what is written holds under both readings).
THEOREM EnforcedHidesInOrder ==
  ASSUME NEW f \in Seq(Condition), NEW label \in Applied(f)
  PROVE  ~ShowsInOrder(f, RowOf(label))
<1> DEFINE N == Len(f)
           item == RowOf(label)
           Stepped(sh) == [i \in 0..N |->
                            IF i = 0 THEN TRUE
                            ELSE IF i > 1 /\ f[i].sep = "|" THEN sh[i - 1] \/ Holds(f[i], item)
                            ELSE sh[i - 1] /\ Holds(f[i], item)]
           shown == CHOOSE sh : sh = Stepped(sh)
<1>1. ShowsInOrder(f, item) = shown[N]
  BY DEF ShowsInOrder
<1>2. PICK e \in Enforced(f) : IsExclude(f[e]) /\ label \in f[e].values
  BY DEF Applied, ExcludesAt
<1>3. N \in Nat /\ e \in 1..N /\ \A j \in e..N : j = 1 \/ f[j].sep = "&"
  BY <1>2 DEF Enforced
<1>4. ~Holds(f[e], item)
  BY <1>2 DEF Holds, RowOf, IsExclude
<1>5. shown = Stepped(shown)
  <2> DEFINE step == [i \in 1..N |-> [b \in BOOLEAN |->
                        IF i > 1 /\ f[i].sep = "|" THEN b \/ Holds(f[i], item) ELSE b /\ Holds(f[i], item)]]
             S == BOOLEAN
             s0 == TRUE
  <2>1. step \in [1..N -> [S -> S]] /\ s0 \in S
    BY DEF Holds
  <2> HIDE DEF S, s0, step, N
  <2>2. PICK g : Follows(g, S, s0, N, step)
    BY <1>3, <2>1, StepByStep
  <2>3. g \in [0..N -> BOOLEAN] /\ g[0] = TRUE /\ \A i \in 1..N : g[i] = step[i][g[i - 1]]
    BY <2>2 DEF Follows, S, s0
  <2>4. \A i \in 1..N : i - 1 \in 0..N /\ g[i - 1] \in BOOLEAN
    BY <1>3, <2>3
  <2>5. \A i \in 1..N : g[i] = (IF i > 1 /\ f[i].sep = "|" THEN g[i - 1] \/ Holds(f[i], item)
                                ELSE g[i - 1] /\ Holds(f[i], item))
    BY <2>3, <2>4 DEF step
  <2>6. g = Stepped(g)
    <3>1. \A i \in 0..N : g[i] = IF i = 0 THEN TRUE
                                 ELSE IF i > 1 /\ f[i].sep = "|" THEN g[i - 1] \/ Holds(f[i], item)
                                 ELSE g[i - 1] /\ Holds(f[i], item)
      <4>1. TAKE i \in 0..N
      <4>2. CASE i = 0
        BY <2>3, <4>2
      <4>3. CASE i # 0
        <5>1. i \in 1..N
          BY <1>3, <4>1, <4>3
        <5> QED
          BY <2>5, <4>3, <5>1
      <4> QED
        BY <4>2, <4>3
    <3> DEFINE v(i) == IF i = 0 THEN TRUE
                       ELSE IF i > 1 /\ f[i].sep = "|" THEN g[i - 1] \/ Holds(f[i], item)
                       ELSE g[i - 1] /\ Holds(f[i], item)
    <3>2. g = [i \in 0..N |-> g[i]]
      BY <2>3
    <3>3. \A i \in 0..N : g[i] = v(i)
      BY <3>1
    <3> HIDE DEF v
    <3>4. g = [i \in 0..N |-> v(i)]
      BY <3>2, <3>3
    <3> QED
      BY <3>4 DEF v
  <2> HIDE DEF Stepped
  <2> QED
    BY <2>6
<1> HIDE DEF shown
<1>6. \A i \in 1..N : f[i].sep = "&" \/ i = 1 => (shown[i] <=> shown[i - 1] /\ Holds(f[i], item))
  <2>1. TAKE i \in 1..N
  <2>2. i \in 0..N /\ i # 0
    BY <1>3, <2>1
  <2>3. shown[i] = IF i > 1 /\ f[i].sep = "|" THEN shown[i - 1] \/ Holds(f[i], item)
                   ELSE shown[i - 1] /\ Holds(f[i], item)
    BY <1>5, <2>2
  <2>4. CASE i = 1 \/ f[i].sep # "|"
    <3>1. ~(i > 1 /\ f[i].sep = "|")
      BY <1>3, <2>1, <2>4
    <3>2. shown[i] = (shown[i - 1] /\ Holds(f[i], item))
      BY <2>3, <3>1, Zenon
    <3> QED
      BY <3>2, Zenon
  <2>5. CASE ~(i = 1 \/ f[i].sep # "|")
    BY <2>5
  <2> QED
    BY <2>4, <2>5
<1>7. ~shown[N]
  <2> DEFINE P == {n \in Nat : n \in e..N => ~shown[n]}
  <2>1. 0 \in P
    BY <1>3
  <2>2. ASSUME NEW n \in P, n + 1 \in e..N PROVE ~shown[n + 1]
    <3> DEFINE m == n + 1
    <3>1. n \in Nat /\ m \in e..N /\ m \in 1..N /\ m - 1 = n /\ (n \in e..N => ~shown[n])
      BY <1>3, <2>2
    <3>2. CASE m = e
      BY <1>3, <1>4, <1>6, <3>1, <3>2
    <3>3. CASE m # e
      <4>1. n \in e..N
        BY <1>3, <3>1, <3>3
      <4> HIDE DEF m
      <4> QED
        BY <1>3, <1>6, <3>1, <4>1
    <3> QED
      BY <3>2, <3>3
  <2>3. P \in SUBSET Nat /\ \A n \in P : n + 1 \in P
    BY <2>2
  <2> HIDE DEF P
  <2>4. N \in P
    BY <1>3, <2>1, <2>3, EveryPosition
  <2> QED
    BY <1>3, <2>4 DEF P
<1> QED
  BY <1>1, <1>7

-----------------------------------------------------------------------------
(* Each step of a sync, part by part. *)

\* The labels a filter excludes anywhere.
Excluded(f) == ExcludesAt(f, DOMAIN f)

\* A condition keeps its field and its operator, and a value that is not taken out of it.
LEMMA WithoutStays ==
  ASSUME NEW c \in Condition, NEW labels, ~(c.values \subseteq labels)
  PROVE  /\ Without(c, labels) \in Condition
         /\ Without(c, labels).field = c.field
         /\ Without(c, labels).op = c.op
         /\ Without(c, labels).sep = c.sep
         /\ Without(c, labels).values = c.values \ labels
<1>1. c \in [field : Fields, op : {"=", "!="}, values : SUBSET (Labels \cup Ratings), sep : {"|", "&"}]
      /\ NamesItsOwn(c)
  BY DEF Condition
<1> DEFINE d == [c EXCEPT !.values = @ \ labels]
<1>2. d \in [field : Fields, op : {"=", "!="}, values : SUBSET (Labels \cup Ratings), sep : {"|", "&"}]
      /\ d.field = c.field /\ d.op = c.op /\ d.sep = c.sep /\ d.values = c.values \ labels
  BY <1>1
<1>3. NamesItsOwn(d)
  BY <1>1, <1>2 DEF NamesItsOwn
<1>4. d \in Condition
  BY <1>2, <1>3 DEF Condition
<1> QED
  BY <1>2, <1>4 DEF Without

\* A condition keeps all but its separator.
LEMMA SeparatorStays ==
  ASSUME NEW c \in Condition, NEW sep \in {"|", "&"}
  PROVE  /\ [c EXCEPT !.sep = sep] \in Condition
         /\ [c EXCEPT !.sep = sep].field = c.field
         /\ [c EXCEPT !.sep = sep].op = c.op
         /\ [c EXCEPT !.sep = sep].values = c.values
<1>1. c \in [field : Fields, op : {"=", "!="}, values : SUBSET (Labels \cup Ratings), sep : {"|", "&"}]
      /\ NamesItsOwn(c)
  BY DEF Condition
<1> DEFINE d == [c EXCEPT !.sep = sep]
<1>2. d \in [field : Fields, op : {"=", "!="}, values : SUBSET (Labels \cup Ratings), sep : {"|", "&"}]
      /\ d.field = c.field /\ d.op = c.op /\ d.values = c.values
  BY <1>1
<1> QED
  BY <1>1, <1>2 DEF Condition, NamesItsOwn

\* A clause that names labels may name the own one as well.
LEMMA AdmissionStays ==
  ASSUME NEW c \in Condition, c.field = "label"
  PROVE  /\ [c EXCEPT !.values = @ \cup {Own}] \in Condition
         /\ [c EXCEPT !.values = @ \cup {Own}].sep = c.sep
         /\ [c EXCEPT !.values = @ \cup {Own}].field = c.field
         /\ [c EXCEPT !.values = @ \cup {Own}].op = c.op
         /\ [c EXCEPT !.values = @ \cup {Own}].values = c.values \cup {Own}
<1>1. c \in [field : Fields, op : {"=", "!="}, values : SUBSET (Labels \cup Ratings), sep : {"|", "&"}]
      /\ NamesItsOwn(c)
  BY DEF Condition
<1> DEFINE d == [c EXCEPT !.values = @ \cup {Own}]
<1>2. Own \in Labels
  BY DEF Labels, Ours
<1>3. d \in [field : Fields, op : {"=", "!="}, values : SUBSET (Labels \cup Ratings), sep : {"|", "&"}]
      /\ d.field = c.field /\ d.op = c.op /\ d.sep = c.sep /\ d.values = c.values \cup {Own}
  BY <1>1, <1>2
<1>4. NamesItsOwn(d)
  BY <1>1, <1>2, <1>3 DEF NamesItsOwn
<1> QED
  BY <1>3, <1>4 DEF Condition

\* The parts that removing labels makes of a filter.
LEMMA RemovedParts ==
  ASSUME NEW f \in Seq(Condition), NEW labels
  PROVE  \E s \in Seq(Seq(Condition)) :
           /\ Len(s) = Len(f)
           /\ Removed(f, labels) = Serialized(FlattenSeq(s))
           /\ \A i \in DOMAIN f :
                /\ ~IsExclude(f[i]) => s[i] = <<f[i]>>
                /\ IsExclude(f[i]) /\ ~(f[i].values \subseteq labels) => s[i] = <<Without(f[i], labels)>>
                /\ IsExclude(f[i]) /\ f[i].values \subseteq labels =>
                     \/ s[i] = <<>> /\ ~KeepsGroups(f, i)
                     \/ s[i] = <<f[i]>> /\ KeepsGroups(f, i)
<1> DEFINE Left(i) ==
             CASE ~IsExclude(f[i]) -> <<f[i]>>
               [] IsExclude(f[i]) /\ ~Empties(f[i], labels) -> <<Without(f[i], labels)>>
               [] IsExclude(f[i]) /\ Empties(f[i], labels) ->
                    IF KeepsGroups(f, i) THEN <<f[i]>> ELSE <<>>
           s == [i \in DOMAIN f |-> Left(i)]
<1>1. Removed(f, labels) = Serialized(FlattenSeq(s))
  BY DEF Removed, Rewrite
<1>2. ASSUME NEW i \in DOMAIN f
      PROVE  /\ s[i] \in Seq(Condition)
             /\ ~IsExclude(f[i]) => s[i] = <<f[i]>>
             /\ IsExclude(f[i]) /\ ~(f[i].values \subseteq labels) => s[i] = <<Without(f[i], labels)>>
             /\ IsExclude(f[i]) /\ f[i].values \subseteq labels =>
                  \/ s[i] = <<>> /\ ~KeepsGroups(f, i)
                  \/ s[i] = <<f[i]>> /\ KeepsGroups(f, i)
  <2>1. s[i] = Left(i) /\ f[i] \in Condition
    BY <1>2
  <2>2. CASE ~IsExclude(f[i])
    <3>1. Left(i) = <<f[i]>>
      BY <2>2
    <3> QED
      BY <2>1, <2>2, <3>1
  <2>3. CASE IsExclude(f[i]) /\ ~(f[i].values \subseteq labels)
    <3>1. Left(i) = <<Without(f[i], labels)>>
      BY <2>3 DEF Empties
    <3>2. Without(f[i], labels) \in Condition
      BY <2>1, <2>3, WithoutStays
    <3> QED
      BY <2>1, <2>3, <3>1, <3>2
  <2>4. CASE IsExclude(f[i]) /\ f[i].values \subseteq labels
    <3>1. Left(i) = IF KeepsGroups(f, i) THEN <<f[i]>> ELSE <<>>
      BY <2>4 DEF Empties
    <3>2. CASE KeepsGroups(f, i)
      <4>1. s[i] = <<f[i]>>
        BY <2>1, <3>1, <3>2
      <4> QED
        BY <2>1, <2>4, <3>2, <4>1
    <3>3. CASE ~KeepsGroups(f, i)
      <4>1. s[i] = <<>>
        BY <2>1, <3>1, <3>3
      <4> QED
        BY <2>4, <3>3, <4>1
    <3> QED
      BY <3>2, <3>3
  <2> QED
    BY <2>2, <2>3, <2>4
<1>3. DOMAIN s = 1..Len(f) /\ Len(f) \in Nat /\ DOMAIN f = 1..Len(f)
  OBVIOUS
<1>4. s \in Seq(Seq(Condition)) /\ Len(s) = Len(f)
  <2> HIDE DEF Left
  <2>1. s \in [1..Len(f) -> Seq(Condition)]
    BY <1>2, <1>3
  <2> HIDE DEF s
  <2> QED
    BY <1>3, <2>1
<1> HIDE DEF s
<1> QED
  BY <1>1, <1>2, <1>4

\* The parts that lifting makes of a filter.
LEMMA LiftedParts ==
  ASSUME NEW f \in Seq(Condition)
  PROVE  \E s \in Seq(Seq(Condition)) :
           /\ Len(s) = Len(f)
           /\ Lifted(f) = FlattenSeq(s)
           /\ \A i \in DOMAIN f :
                /\ i \notin Stray(f) => s[i] = <<f[i]>>
                /\ i \in Stray(f) /\ ~(f[i].values \subseteq Ours) => s[i] = <<Without(f[i], Ours)>>
                /\ i \in Stray(f) /\ f[i].values \subseteq Ours =>
                     \/ s[i] = <<>> /\ ~KeepsGroups(f, i)
                     \/ s[i] = <<f[i]>> /\ KeepsGroups(f, i)
<1> DEFINE Left(i) ==
             CASE i \notin Stray(f) -> <<f[i]>>
               [] i \in Stray(f) /\ ~(f[i].values \subseteq Ours) -> <<Without(f[i], Ours)>>
               [] i \in Stray(f) /\ f[i].values \subseteq Ours ->
                    IF KeepsGroups(f, i) THEN <<f[i]>> ELSE <<>>
           s == [i \in DOMAIN f |-> Left(i)]
<1>1. Lifted(f) = FlattenSeq(s)
  BY DEF Lifted, Rewrite
<1>2. ASSUME NEW i \in DOMAIN f
      PROVE  /\ s[i] \in Seq(Condition)
             /\ i \notin Stray(f) => s[i] = <<f[i]>>
             /\ i \in Stray(f) /\ ~(f[i].values \subseteq Ours) => s[i] = <<Without(f[i], Ours)>>
             /\ i \in Stray(f) /\ f[i].values \subseteq Ours =>
                  \/ s[i] = <<>> /\ ~KeepsGroups(f, i)
                  \/ s[i] = <<f[i]>> /\ KeepsGroups(f, i)
  <2>1. s[i] = Left(i) /\ f[i] \in Condition
    BY <1>2
  <2>2. CASE i \notin Stray(f)
    <3>1. Left(i) = <<f[i]>>
      BY <2>2
    <3> QED
      BY <2>1, <2>2, <3>1
  <2>3. CASE i \in Stray(f) /\ ~(f[i].values \subseteq Ours)
    <3>1. Left(i) = <<Without(f[i], Ours)>>
      BY <2>3
    <3>2. Without(f[i], Ours) \in Condition
      BY <2>1, <2>3, WithoutStays
    <3> QED
      BY <2>1, <2>3, <3>1, <3>2
  <2>4. CASE i \in Stray(f) /\ f[i].values \subseteq Ours
    <3>1. Left(i) = IF KeepsGroups(f, i) THEN <<f[i]>> ELSE <<>>
      BY <2>4
    <3>2. CASE KeepsGroups(f, i)
      <4>1. s[i] = <<f[i]>>
        BY <2>1, <3>1, <3>2
      <4> QED
        BY <2>1, <2>4, <3>2, <4>1
    <3>3. CASE ~KeepsGroups(f, i)
      <4>1. s[i] = <<>>
        BY <2>1, <3>1, <3>3
      <4> QED
        BY <2>4, <3>3, <4>1
    <3> QED
      BY <3>2, <3>3
  <2> QED
    BY <2>2, <2>3, <2>4
<1>3. DOMAIN s = 1..Len(f) /\ Len(f) \in Nat /\ DOMAIN f = 1..Len(f)
  OBVIOUS
<1>4. s \in Seq(Seq(Condition)) /\ Len(s) = Len(f)
  <2> HIDE DEF Left
  <2>1. s \in [1..Len(f) -> Seq(Condition)]
    BY <1>2, <1>3
  <2> HIDE DEF s
  <2> QED
    BY <1>3, <2>1
<1> HIDE DEF s
<1> QED
  BY <1>1, <1>2, <1>4

\* s is the parts of f less the dropped conditions: what stays, stays but for its separator, and an
\* "&" before it or before what was dropped there stays before it.
Dropped(s, f, dropped) ==
  /\ Len(s) = Len(f)
  /\ \A i \in DOMAIN f : i \in dropped => s[i] = <<>>
  /\ \A i \in DOMAIN f : i \notin dropped =>
       /\ Len(s[i]) = 1
       /\ s[i][1].field = f[i].field /\ s[i][1].op = f[i].op /\ s[i][1].values = f[i].values
  /\ \A i \in DOMAIN f : \A k \in 2..i :
       i \notin dropped /\ f[k].sep = "&" /\ (\A j \in k..(i - 1) : j \in dropped) =>
         s[i][1].sep = "&"

\* Nor does dropping put an "&" where there was none.
Separated(s, f, dropped) ==
  \A i \in DOMAIN f : i \notin dropped /\ s[i][1].sep = "&" =>
    (i > 1 /\ f[i].sep = "&") \/ \E k \in 2..i : f[k].sep = "&" /\ \A j \in k..(i - 1) : j \in dropped

\* Dropping conditions makes such parts.
LEMMA WithoutConditionsParts ==
  ASSUME NEW f \in Seq(Condition), NEW dropped
  PROVE  \E s \in Seq(Seq(Condition)) :
           /\ WithoutConditions(f, dropped) = FlattenSeq(s)
           /\ Dropped(s, f, dropped)
           /\ Separated(s, f, dropped)
<1> DEFINE Apart(i) == \E k \in 2..i : f[k].sep = "&" /\ \A j \in k..(i - 1) : j \in dropped
           Sep(i) == IF Apart(i) \/ (i > 1 /\ f[i].sep = "&") THEN "&" ELSE "|"
           Left(i) == IF i \in dropped THEN <<>> ELSE <<[f[i] EXCEPT !.sep = Sep(i)]>>
           s == [i \in DOMAIN f |-> Left(i)]
<1>1. WithoutConditions(f, dropped) = FlattenSeq(s)
  BY DEF WithoutConditions, Rewrite
<1>2. ASSUME NEW i \in DOMAIN f
      PROVE  /\ s[i] \in Seq(Condition)
             /\ i \in dropped => s[i] = <<>>
             /\ i \notin dropped =>
                  /\ Len(s[i]) = 1
                  /\ s[i][1].field = f[i].field /\ s[i][1].op = f[i].op /\ s[i][1].values = f[i].values
                  /\ Apart(i) \/ (i > 1 /\ f[i].sep = "&") <=> s[i][1].sep = "&"
  <2>1. s[i] = Left(i) /\ f[i] \in Condition
    BY <1>2
  <2>2. CASE i \in dropped
    BY <2>1, <2>2
  <2>3. CASE i \notin dropped
    <3> DEFINE sep == Sep(i)
    <3>1. sep \in {"|", "&"} /\ (Apart(i) \/ (i > 1 /\ f[i].sep = "&") <=> sep = "&")
      OBVIOUS
    <3>2. Left(i) = <<[f[i] EXCEPT !.sep = sep]>>
      BY <2>3
    <3> HIDE DEF sep
    <3> DEFINE d == [f[i] EXCEPT !.sep = sep]
    <3>3. d \in Condition /\ d.field = f[i].field /\ d.op = f[i].op /\ d.values = f[i].values
      BY <2>1, <3>1, SeparatorStays
    <3>4. d.sep = sep
      BY <2>1 DEF Condition
    <3> HIDE DEF d
    <3>5. s[i] = <<d>>
      BY <2>1, <3>2 DEF d
    <3> HIDE DEF s, Apart
    <3> QED
      BY <2>3, <3>1, <3>3, <3>4, <3>5
  <2> QED
    BY <2>2, <2>3
<1>3. DOMAIN s = 1..Len(f) /\ Len(f) \in Nat /\ DOMAIN f = 1..Len(f)
  OBVIOUS
<1>4. s \in Seq(Seq(Condition)) /\ Len(s) = Len(f)
  <2> HIDE DEF Left
  <2>1. s \in [1..Len(f) -> Seq(Condition)]
    BY <1>2, <1>3
  <2> HIDE DEF s
  <2> QED
    BY <1>3, <2>1
<1> HIDE DEF s
<1>5. \A i \in DOMAIN f : \A k \in 2..i :
        i \notin dropped /\ f[k].sep = "&" /\ (\A j \in k..(i - 1) : j \in dropped) => s[i][1].sep = "&"
  <2> TAKE i \in DOMAIN f
  <2> TAKE k \in 2..i
  <2> HAVE i \notin dropped /\ f[k].sep = "&" /\ (\A j \in k..(i - 1) : j \in dropped)
  <2>1. Apart(i)
    OBVIOUS
  <2> QED
    BY <1>2, <2>1
<1>6. Dropped(s, f, dropped)
  BY <1>2, <1>4, <1>5 DEF Dropped
<1>7. \A i \in DOMAIN f : i \notin dropped /\ s[i][1].sep = "&" =>
        (i > 1 /\ f[i].sep = "&") \/ \E k \in 2..i : f[k].sep = "&" /\ \A j \in k..(i - 1) : j \in dropped
  BY <1>2
<1>8. Separated(s, f, dropped)
  BY <1>7 DEF Separated
<1> QED
  BY <1>1, <1>4, <1>6, <1>8

\* A clause that admits the own row and nothing else.
OwnOnly(c) == IsLabelAllow(c) /\ c.values = {Own}

\* d is c, or is c admitting the own row too.
Widens(d, c) ==
  /\ d.field = c.field /\ d.op = c.op /\ d.sep = c.sep
  /\ d.values = c.values \/ d.values = c.values \cup {Own}

\* What follows a condition is an alternative to it, and it is one of a group that hides the own row.
Followed(s, f) ==
  \A i \in DOMAIN f : \A k \in 2..Len(s[i]) : s[i][k].sep = "|" /\ \E g \in Needy(f) : i \in g

\* Each such group gets an alternative that admits the own row.
Welcomes(part) == Len(part) >= 2 \/ (IsLabelAllow(part[1]) /\ Own \in part[1].values)
NeedyMet(s, f) == \A g \in Needy(f) : \E i \in g : Welcomes(s[i])

\* The parts that widening makes of a filter: every exclude stays as it is, a label clause may admit
\* the own row too, and what follows a condition admits nothing but the own row.
LEMMA WidenedParts ==
  ASSUME NEW f \in Seq(Condition)
  PROVE  \E s \in Seq(Seq(Condition)) :
           /\ Len(s) = Len(f)
           /\ Widened(f) = FlattenSeq(s)
           /\ Followed(s, f)
           /\ NeedyMet(s, f)
           /\ \A i \in DOMAIN f :
                /\ IsExclude(f[i]) => Len(s[i]) >= 1 /\ s[i][1] = f[i]
                /\ Len(s[i]) >= 1
                /\ Widens(s[i][1], f[i])
                /\ \A k \in 2..Len(s[i]) : OwnOnly(s[i][k])
<1> DEFINE admission == [field |-> "label", op |-> "=", values |-> {Own}, sep |-> "|"]
           grown == {Min(Slots(f, g)) : g \in {h \in Needy(f) : Slots(f, h) # {}}}
           followed == {Max(g) : g \in {h \in Needy(f) : Slots(f, h) = {}}}
           grow(i) == [f[i] EXCEPT !.values = @ \cup {Own}]
           Left(i) ==
             CASE i \in grown -> <<grow(i)>>
               [] i \in followed -> <<f[i], admission>>
               [] i \notin grown \cup followed -> <<f[i]>>
           s == [i \in DOMAIN f |-> Left(i)]
<1>1. Widened(f) = FlattenSeq(s)
  BY DEF Widened, Rewrite
<1>2. \A i \in grown : IsLabelAllow(f[i])
  <2>1. TAKE i \in grown
  <2>2. PICK g \in Needy(f) : Slots(f, g) # {} /\ i = Min(Slots(f, g))
    BY <2>1
  <2>3. g \subseteq DOMAIN f
    BY <2>2 DEF Needy, Groups
  <2>4. Slots(f, g) \in SUBSET Nat
    BY <2>3 DEF Slots
  <2>5. i \in Slots(f, g)
    BY <2>2, <2>4, FirstPosition
  <2> QED
    BY <2>5 DEF Slots
<1>7. \A i \in followed : \E g \in Needy(f) : i \in g
  <2>1. TAKE i \in followed
  <2>2. PICK g \in Needy(f) : i = Max(g)
    BY <2>1
  <2>3. g \in Groups(f) /\ \E j \in g : OwnersAllow(f[j])
    BY <2>2 DEF Needy
  <2>4. g \subseteq 1..Len(f) /\ Len(f) \in Nat /\ g # {}
    BY <2>3 DEF Groups
  <2>5. i \in g
    BY <2>2, <2>4, LastPosition
  <2> QED
    BY <2>2, <2>5
<1>9. \A g \in Needy(f) : \E i \in g : i \in DOMAIN f /\ (i \in grown \/ i \in followed)
  <2>1. TAKE g \in Needy(f)
  <2>2. g \subseteq 1..Len(f) /\ Len(f) \in Nat /\ g # {} /\ DOMAIN f = 1..Len(f)
    BY <2>1 DEF Needy, Groups
  <2>3. CASE Slots(f, g) # {}
    <3>1. Slots(f, g) \in SUBSET Nat /\ Slots(f, g) \subseteq g
      BY <2>2 DEF Slots
    <3>2. Min(Slots(f, g)) \in g
      BY <2>3, <3>1, FirstPosition
    <3>3. Min(Slots(f, g)) \in grown
      BY <2>1, <2>3
    <3> QED
      BY <2>2, <3>2, <3>3
  <2>4. CASE Slots(f, g) = {}
    <3>1. Max(g) \in g
      BY <2>2, LastPosition
    <3>2. Max(g) \in followed
      BY <2>1, <2>4
    <3> QED
      BY <2>2, <3>1, <3>2
  <2> QED
    BY <2>3, <2>4
<1>3. admission \in Condition /\ OwnOnly(admission) /\ admission.sep = "|"
  <2>1. Own \in Labels
    BY DEF Labels, Ours
  <2> QED
    BY <2>1 DEF Condition, NamesItsOwn, Fields, OwnOnly, IsLabelAllow
<1> HIDE DEF grown, followed, admission
<1>4. ASSUME NEW i \in DOMAIN f
      PROVE  /\ s[i] \in Seq(Condition)
             /\ IsExclude(f[i]) => Len(s[i]) >= 1 /\ s[i][1] = f[i]
             /\ Len(s[i]) >= 1
             /\ Widens(s[i][1], f[i])
             /\ \A k \in 2..Len(s[i]) : OwnOnly(s[i][k]) /\ s[i][k].sep = "|" /\ i \in followed
             /\ i \in grown \/ i \in followed => Welcomes(s[i])
  <2> DEFINE c == f[i]
             d == grow(i)
  <2>1. s[i] = Left(i)
    BY <1>4
  <2>5. c \in Condition
    BY <1>4
  <2>2. CASE i \in grown
    <3>1. ~IsExclude(c) /\ c.field = "label" /\ IsLabelAllow(c)
      BY <1>2, <2>2 DEF IsExclude, IsLabelAllow
    <3>2. d \in Condition /\ Widens(d, c)
      BY <2>5, <3>1, AdmissionStays DEF Widens
    <3>7. IsLabelAllow(d) /\ Own \in d.values
      <4>1. d.field = c.field /\ d.op = c.op /\ d.values = c.values \cup {Own}
        BY <2>5, <3>1, AdmissionStays
      <4> HIDE DEF c, d
      <4> QED
        BY <3>1, <4>1 DEF IsLabelAllow
    <3>3. s[i] = <<d>> \/ (i \in followed /\ s[i] = <<c, admission>>)
      <4>1. Left(i) = <<grow(i)>> \/ (i \in followed /\ Left(i) = <<f[i], admission>>)
        <5> HIDE DEF grow
        <5> QED
          BY <2>2
      <4> QED
        BY <2>1, <4>1
    <3>4. Widens(c, c)
      BY DEF Widens
    <3> HIDE DEF c, d, s
    <3>5. CASE s[i] = <<d>>
      <4>1. s[i] \in Seq(Condition) /\ Len(s[i]) = 1 /\ s[i][1] = d
        BY <3>2, <3>5
      <4> QED
        BY <3>1, <3>2, <3>7, <4>1 DEF c, Welcomes
    <3>6. CASE i \in followed /\ s[i] = <<c, admission>>
      <4>1. s[i] \in Seq(Condition) /\ Len(s[i]) = 2 /\ s[i][1] = c /\ s[i][2] = admission
        BY <1>3, <2>5, <3>6
      <4>2. \A k \in 2..Len(s[i]) : k = 2
        BY <4>1
      <4> QED
        BY <1>3, <3>1, <3>4, <3>6, <4>1, <4>2 DEF c, Welcomes
    <3> QED
      BY <3>3, <3>5, <3>6
  <2>3. CASE i \in followed /\ i \notin grown
    <3>1. s[i] = <<c, admission>>
      BY <2>1, <2>3
    <3>2. Widens(c, c)
      BY DEF Widens
    <3> HIDE DEF c, s
    <3>3. s[i] \in Seq(Condition) /\ Len(s[i]) = 2 /\ s[i][1] = c /\ s[i][2] = admission
      BY <1>3, <2>5, <3>1
    <3>4. \A k \in 2..Len(s[i]) : k = 2
      BY <3>3
    <3> QED
      BY <1>3, <2>3, <3>2, <3>3, <3>4 DEF c, Welcomes
  <2>4. CASE i \notin grown \cup followed
    <3>1. s[i] = <<c>>
      BY <2>1, <2>4
    <3>2. Widens(c, c)
      BY DEF Widens
    <3> HIDE DEF s, c
    <3>3. s[i] \in Seq(Condition) /\ Len(s[i]) = 1 /\ s[i][1] = c
      BY <2>5, <3>1
    <3> QED
      BY <2>4, <3>2, <3>3 DEF c
  <2> QED
    BY <2>2, <2>3, <2>4
<1>5. DOMAIN s = 1..Len(f) /\ Len(f) \in Nat /\ DOMAIN f = 1..Len(f)
  OBVIOUS
<1>6. s \in Seq(Seq(Condition)) /\ Len(s) = Len(f)
  <2> HIDE DEF Left
  <2>1. s \in [1..Len(f) -> Seq(Condition)]
    BY <1>4, <1>5
  <2> HIDE DEF s
  <2> QED
    BY <1>5, <2>1
<1> HIDE DEF s
<1>8. Followed(s, f)
  BY <1>4, <1>7 DEF Followed
<1>10. NeedyMet(s, f)
  BY <1>4, <1>9 DEF NeedyMet
<1> QED
  BY <1>1, <1>4, <1>6, <1>8, <1>10

-----------------------------------------------------------------------------
(* What each step keeps. *)

\* Excludes stay when each becomes a part that begins with an exclude of as many labels.
LEMMA KeepsExcluded ==
  ASSUME NEW f \in Seq(Condition), NEW s \in Seq(Seq(Condition)), Len(s) = Len(f),
         \A i \in DOMAIN f : IsExclude(f[i]) =>
           Len(s[i]) >= 1 /\ IsExclude(s[i][1]) /\ f[i].values \subseteq s[i][1].values
  PROVE  FlattenSeq(s) \in Seq(Condition) /\ Excluded(f) \subseteq Excluded(FlattenSeq(s))
<1> DEFINE r == FlattenSeq(s)
<1>1. r \in Seq(Condition)
  BY FlattenLays
<1>2. \A i \in 1..Len(s) : \A k \in 1..Len(s[i]) : \E p \in DOMAIN r : r[p] = s[i][k]
  BY FlattenMembers
<1> HIDE DEF r
<1>3. ASSUME NEW i \in DOMAIN f, IsExclude(f[i]) PROVE f[i].values \subseteq Excluded(r)
  <2>1. i \in 1..Len(s) /\ 1 \in 1..Len(s[i])
    <3>1. i \in 1..Len(s)
      BY <1>3
    <3>2. s[i] \in Seq(Condition) /\ Len(s[i]) >= 1
      BY <1>3, <3>1
    <3> QED
      BY <3>1, <3>2
  <2>2. PICK p \in DOMAIN r : r[p] = s[i][1]
    BY <1>2, <2>1
  <2>3. IsExclude(r[p]) /\ f[i].values \subseteq r[p].values
    BY <1>3, <2>2
  <2> QED
    BY <2>3 DEF Excluded, ExcludesAt
<1>4. Excluded(f) \subseteq Excluded(r)
  BY <1>3 DEF Excluded, ExcludesAt
<1> QED
  BY <1>1, <1>4 DEF r

\* Serializing changes only the separator that is ignored.
LEMMA SerializedStays ==
  ASSUME NEW f \in Seq(Condition)
  PROVE  /\ Serialized(f) \in Seq(Condition)
         /\ Len(Serialized(f)) = Len(f)
         /\ \A i \in DOMAIN f : /\ Serialized(f)[i].field = f[i].field
                                /\ Serialized(f)[i].op = f[i].op
                                /\ Serialized(f)[i].values = f[i].values
                                /\ i # 1 => Serialized(f)[i] = f[i]
         /\ Enforced(Serialized(f)) = Enforced(f)
         /\ Applied(Serialized(f)) = Applied(f)
         /\ Excluded(Serialized(f)) = Excluded(f)
<1>1. CASE f = <<>>
  BY <1>1 DEF Serialized
<1>2. CASE f # <<>>
  <2> DEFINE h == [f EXCEPT ![1].sep = "|"]
             d == [f[1] EXCEPT !.sep = "|"]
  <2>1. 1 \in DOMAIN f /\ f[1] \in Condition
    BY <1>2
  <2>2. d \in Condition /\ d.field = f[1].field /\ d.op = f[1].op /\ d.values = f[1].values
    BY <2>1, SeparatorStays
  <2>3. h = [f EXCEPT ![1] = d] /\ h[1] = d
    BY <2>1
  <2> HIDE DEF d
  <2>4. h \in Seq(Condition) /\ Len(h) = Len(f) /\ DOMAIN h = DOMAIN f
    BY <2>1, <2>2, <2>3
  <2>5. \A i \in DOMAIN f : i # 1 => h[i] = f[i]
    BY <2>3
  <2> HIDE DEF h
  <2>6. \A i \in DOMAIN f : /\ h[i].field = f[i].field
                            /\ h[i].op = f[i].op
                            /\ h[i].values = f[i].values
    BY <2>2, <2>3, <2>5
  <2>7. \A i \in DOMAIN f : i \in Nat
    OBVIOUS
  <2>8. Enforced(h) = Enforced(f)
    BY <2>4, <2>5, <2>7 DEF Enforced
  <2>9. Enforced(f) \subseteq DOMAIN f
    BY DEF Enforced
  <2>10. Applied(h) = Applied(f)
    BY <2>6, <2>8, <2>9 DEF Applied, ExcludesAt, IsExclude
  <2>11. Excluded(h) = Excluded(f)
    BY <2>4, <2>6 DEF Excluded, ExcludesAt, IsExclude
  <2>12. Serialized(f) = h
    BY <1>2 DEF Serialized, h
  <2> QED
    BY <2>4, <2>5, <2>6, <2>8, <2>10, <2>11, <2>12
<1> QED
  BY <1>1, <1>2

\* Placing labels adds them where Plex applies them and takes none away from there
\* (_place_excludes: into the first enforced exclude, or a new one behind an "&").
LEMMA PlacedApplies ==
  ASSUME NEW f \in Seq(Condition), NEW missing \in SUBSET Labels
  PROVE  /\ Placed(f, missing) \in Seq(Condition)
         /\ missing \cup Applied(f) \subseteq Applied(Placed(f, missing))
<1> DEFINE targets == {i \in Enforced(f) : IsExclude(f[i])}
<1>1. CASE missing = {}
  BY <1>1 DEF Placed
<1>2. CASE missing # {} /\ targets # {}
  <2> DEFINE t == Min(targets)
             h == [f EXCEPT ![t].values = @ \cup missing]
  <2>1. targets \in SUBSET Nat
    BY DEF Enforced
  <2>2. t \in targets
    BY <1>2, <2>1, FirstPosition
  <2>3. t \in DOMAIN f /\ IsExclude(f[t]) /\ t \in Enforced(f)
    BY <2>2 DEF Enforced
  <2>4. Placed(f, missing) = h
    BY <1>2 DEF Placed
  <2>5. f[t] \in Condition /\ f[t].values \subseteq Labels
    <3>1. f[t] \in Condition
      BY <2>3
    <3> HIDE DEF t
    <3> QED
      BY <2>3, <3>1 DEF Condition, NamesItsOwn, IsExclude
  <2>6. h[t] = [f[t] EXCEPT !.values = @ \cup missing]
    BY <2>3
  <2>7. h[t] \in Condition
    BY <2>3, <2>5, <2>6 DEF Condition, NamesItsOwn, IsExclude
  <2>8. h \in Seq(Condition) /\ Len(h) = Len(f) /\ DOMAIN h = DOMAIN f
    BY <2>3, <2>6, <2>7
  <2>9. \A i \in DOMAIN f : h[i].sep = f[i].sep /\ h[i].field = f[i].field /\ h[i].op = f[i].op
                            /\ f[i].values \subseteq h[i].values
    BY <2>3, <2>5, <2>6 DEF Condition
  <2>10. Enforced(h) = Enforced(f)
    BY <2>8, <2>9 DEF Enforced
  <2>11. missing \subseteq h[t].values /\ IsExclude(h[t]) /\ t \in Enforced(h)
    BY <2>3, <2>5, <2>6, <2>9, <2>10 DEF IsExclude, Condition
  <2>12. Applied(f) \subseteq Applied(h)
    <3>1. SUFFICES ASSUME NEW i \in Enforced(f), IsExclude(f[i]) PROVE f[i].values \subseteq Applied(h)
      BY DEF Applied, ExcludesAt
    <3>2. i \in DOMAIN f
      BY <3>1 DEF Enforced
    <3>3. i \in Enforced(h) /\ IsExclude(h[i]) /\ f[i].values \subseteq h[i].values
      BY <2>9, <2>10, <3>1, <3>2 DEF IsExclude
    <3> HIDE DEF h
    <3> QED
      BY <3>3 DEF Applied, ExcludesAt
  <2>13. missing \subseteq Applied(h)
    BY <2>11 DEF Applied, ExcludesAt
  <2> HIDE DEF h
  <2> QED
    BY <2>4, <2>8, <2>12, <2>13
<1>3. CASE missing # {} /\ targets = {}
  <2> DEFINE h == Append(f, NewExclude(missing))
  <2>1. Placed(f, missing) = h
    BY <1>3 DEF Placed
  <2>2. NewExclude(missing) \in Condition
    BY <1>3 DEF NewExclude, Condition, NamesItsOwn, Fields
  <2>3. h \in Seq(Condition) /\ Len(h) = Len(f) + 1 /\ h[Len(h)] = NewExclude(missing)
    BY <2>2
  <2>4. Len(h) \in Enforced(h) /\ IsExclude(h[Len(h)]) /\ h[Len(h)].values = missing
    BY <2>3 DEF Enforced, NewExclude, IsExclude
  <2>5. Applied(f) = {}
    BY <1>3 DEF Applied, ExcludesAt
  <2> QED
    BY <2>1, <2>3, <2>4, <2>5 DEF Applied, ExcludesAt
<1> QED
  BY <1>1, <1>2, <1>3

\* Lifting leaves the labels that Plex applies where they are.
LEMMA LiftedApplies ==
  ASSUME NEW f \in Seq(Condition)
  PROVE  Lifted(f) \in Seq(Condition) /\ Applied(f) \subseteq Applied(Lifted(f))
<1>1. PICK s \in Seq(Seq(Condition)) :
        /\ Len(s) = Len(f)
        /\ Lifted(f) = FlattenSeq(s)
        /\ \A i \in DOMAIN f : i \notin Stray(f) => s[i] = <<f[i]>>
  BY LiftedParts
<1> DEFINE r == FlattenSeq(s)
<1>2. r \in Seq(Condition)
  BY FlattenLays
<1>3. ASSUME NEW i \in Enforced(f), IsExclude(f[i]) PROVE f[i].values \subseteq Applied(r)
  <2>1. i \in DOMAIN f /\ i \in Nat /\ s[i] = <<f[i]>>
    BY <1>1, <1>3 DEF Enforced, Stray
  <2>2. \A j \in DOMAIN f : j > i => j \in Enforced(f) /\ s[j] = <<f[j]>>
    <3>1. TAKE j \in DOMAIN f
    <3>2. HAVE j > i
    <3>3. j \in Enforced(f)
      BY <1>3, <2>1, <3>1, <3>2 DEF Enforced
    <3> QED
      BY <1>1, <3>1, <3>3 DEF Stray
  <2>3. Len(s[i]) = 1 /\ s[i][1].sep = f[i].sep /\ s[i][1] = f[i]
    BY <2>1
  <2>4. \A j \in DOMAIN f : j > i => \A k \in 1..Len(s[j]) : s[j][k].sep = f[j].sep
    BY <2>2
  <2>5. \E p \in Enforced(r) : r[p] = s[i][1]
    <3>1. Holding(f, s, i)
      BY <1>1, <2>3, <2>4 DEF Holding
    <3> QED
      BY <1>3, <3>1, StaysEnforced
  <2> HIDE DEF r
  <2> QED
    BY <1>3, <2>3, <2>5 DEF Applied, ExcludesAt
<1>4. Applied(f) \subseteq Applied(r)
  BY <1>3 DEF Applied, ExcludesAt
<1> QED
  BY <1>1, <1>2, <1>4

\* The labels of an exclude are labels.
LEMMA ExcludesName ==
  ASSUME NEW f \in Seq(Condition), NEW positions \in SUBSET DOMAIN f
  PROVE  ExcludesAt(f, positions) \subseteq Labels
<1>1. SUFFICES ASSUME NEW i \in DOMAIN f, IsExclude(f[i]) PROVE f[i].values \subseteq Labels
  BY DEF ExcludesAt
<1>2. f[i] \in Condition
  BY <1>1
<1> QED
  BY <1>1, <1>2 DEF Condition, NamesItsOwn, IsExclude

\* The merge puts what it is given, and every label of ours that the filter excludes anywhere,
\* where Plex applies it (merge_label_excludes: the check of its own result never fails).
LEMMA MergedApplies ==
  ASSUME NEW f \in Seq(Condition), NEW labels \in SUBSET Labels
  PROVE  /\ Merged(f, labels) \in Seq(Condition)
         /\ labels \cup (Excluded(f) \cap Ours) \subseteq Applied(Merged(f, labels))
<1> DEFINE g == Lifted(f)
           wanted == labels \cup (ExcludesAt(f, Stray(f)) \cap Ours)
           missing == wanted \ Applied(g)
<1>1. g \in Seq(Condition) /\ Applied(f) \subseteq Applied(g)
  BY LiftedApplies
<1>2. missing \in SUBSET Labels
  BY DEF Labels
<1>3. /\ Placed(g, missing) \in Seq(Condition)
      /\ missing \cup Applied(g) \subseteq Applied(Placed(g, missing))
  BY <1>1, <1>2, PlacedApplies
<1>4. Merged(f, labels) = Serialized(Placed(g, missing))
  BY DEF Merged
<1>5. /\ Merged(f, labels) \in Seq(Condition)
      /\ Applied(Merged(f, labels)) = Applied(Placed(g, missing))
  BY <1>3, <1>4, SerializedStays
<1>6. Excluded(f) \cap Ours \subseteq Applied(f) \cup wanted
  <2>1. SUFFICES ASSUME NEW i \in DOMAIN f, IsExclude(f[i]), NEW label \in f[i].values \cap Ours
                 PROVE  label \in Applied(f) \cup wanted
    BY DEF Excluded, ExcludesAt
  <2>2. CASE i \in Enforced(f)
    BY <2>1, <2>2 DEF Applied, ExcludesAt
  <2>3. CASE i \notin Enforced(f)
    <3>1. i \in Stray(f)
      BY <2>1, <2>3 DEF Stray
    <3>2. label \in ExcludesAt(f, Stray(f))
      BY <2>1, <3>1 DEF ExcludesAt
    <3> QED
      BY <2>1, <3>2
  <2> QED
    BY <2>2, <2>3
<1> HIDE DEF g
<1> QED
  BY <1>1, <1>3, <1>5, <1>6

\* Removing labels takes no others out, neither from where Plex applies them nor elsewhere.
LEMMA RemovedStays ==
  ASSUME NEW f \in Seq(Condition), NEW labels
  PROVE  /\ Removed(f, labels) \in Seq(Condition)
         /\ Applied(f) \ labels \subseteq Applied(Removed(f, labels))
         /\ Excluded(f) \ labels \subseteq Excluded(Removed(f, labels))
         /\ Excluded(Removed(f, labels)) \subseteq Excluded(f)
<1>1. PICK s \in Seq(Seq(Condition)) :
        /\ Len(s) = Len(f)
        /\ Removed(f, labels) = Serialized(FlattenSeq(s))
        /\ \A i \in DOMAIN f :
             /\ ~IsExclude(f[i]) => s[i] = <<f[i]>>
             /\ IsExclude(f[i]) /\ ~(f[i].values \subseteq labels) => s[i] = <<Without(f[i], labels)>>
             /\ IsExclude(f[i]) /\ f[i].values \subseteq labels =>
                  \/ s[i] = <<>> /\ ~KeepsGroups(f, i)
                  \/ s[i] = <<f[i]>> /\ KeepsGroups(f, i)
  BY RemovedParts
<1> DEFINE r == FlattenSeq(s)
<1>2. r \in Seq(Condition)
  BY FlattenLays
<1>3. /\ Removed(f, labels) \in Seq(Condition)
      /\ Applied(Removed(f, labels)) = Applied(r)
      /\ Excluded(Removed(f, labels)) = Excluded(r)
  BY <1>1, <1>2, SerializedStays
<1>4. \A i \in DOMAIN f : i \in Nat /\ i \in 1..Len(s) /\ f[i] \in Condition
  BY <1>1
\* A part is at most a condition, that one but for labels taken out.
<1>5. \A i \in DOMAIN f : \A k \in 1..Len(s[i]) :
        /\ k = 1 /\ s[i][k].sep = f[i].sep
        /\ s[i][k].field = f[i].field /\ s[i][k].op = f[i].op
        /\ s[i][k].values \subseteq f[i].values
  <2>1. TAKE i \in DOMAIN f
  <2>2. TAKE k \in 1..Len(s[i])
  <2>3. CASE s[i] = <<f[i]>>
    BY <2>2, <2>3
  <2>4. CASE IsExclude(f[i]) /\ ~(f[i].values \subseteq labels)
    <3> DEFINE d == Without(f[i], labels)
    <3>1. /\ d.sep = f[i].sep /\ d.field = f[i].field
          /\ d.op = f[i].op /\ d.values = f[i].values \ labels
      BY <1>4, <2>1, <2>4, WithoutStays
    <3>2. s[i] = <<d>>
      BY <1>1, <2>1, <2>4
    <3> HIDE DEF d
    <3> QED
      BY <2>2, <3>1, <3>2
  <2>5. CASE s[i] = <<>>
    BY <2>2, <2>5
  <2> QED
    BY <1>1, <2>1, <2>3, <2>4, <2>5
<1>6. ASSUME NEW i \in DOMAIN f, IsExclude(f[i]), NEW label \in f[i].values \ labels
      PROVE  /\ Len(s[i]) = 1 /\ s[i][1].sep = f[i].sep
             /\ IsExclude(s[i][1]) /\ label \in s[i][1].values
  <2> DEFINE d == Without(f[i], labels)
  <2>1. ~(f[i].values \subseteq labels)
    BY <1>6
  <2>2. /\ d.sep = f[i].sep /\ d.field = f[i].field
        /\ d.op = f[i].op /\ d.values = f[i].values \ labels
    BY <1>4, <1>6, <2>1, WithoutStays
  <2>3. s[i] = <<d>>
    BY <1>1, <1>6, <2>1
  <2> HIDE DEF d
  <2> QED
    BY <1>6, <2>2, <2>3 DEF IsExclude
<1>7. Applied(f) \ labels \subseteq Applied(r)
  <2>1. SUFFICES ASSUME NEW i \in Enforced(f), IsExclude(f[i]), NEW label \in f[i].values \ labels
                 PROVE  label \in Applied(r)
    BY DEF Applied, ExcludesAt
  <2>2. i \in DOMAIN f
    BY <2>1 DEF Enforced
  <2>3. Len(s[i]) = 1 /\ s[i][1].sep = f[i].sep /\ IsExclude(s[i][1]) /\ label \in s[i][1].values
    BY <1>6, <2>1, <2>2
  <2>4. \A j \in DOMAIN f : j > i => \A k \in 1..Len(s[j]) : s[j][k].sep = f[j].sep
    BY <1>5
  <2>5. \E p \in Enforced(r) : r[p] = s[i][1]
    <3>1. Holding(f, s, i)
      BY <1>1, <2>3, <2>4 DEF Holding
    <3> QED
      BY <2>1, <3>1, StaysEnforced
  <2> HIDE DEF r
  <2> QED
    BY <2>3, <2>5 DEF Applied, ExcludesAt
<1>8. Excluded(f) \ labels \subseteq Excluded(r)
  <2>1. SUFFICES ASSUME NEW i \in DOMAIN f, IsExclude(f[i]), NEW label \in f[i].values \ labels
                 PROVE  label \in Excluded(r)
    BY DEF Excluded, ExcludesAt
  <2>2. Len(s[i]) = 1 /\ IsExclude(s[i][1]) /\ label \in s[i][1].values
    BY <1>6, <2>1
  <2>3. \E p \in DOMAIN r : r[p] = s[i][1]
    <3>1. i \in 1..Len(s) /\ 1 \in 1..Len(s[i])
      BY <1>4, <2>1, <2>2
    <3> QED
      BY <3>1, FlattenMembers
  <2> HIDE DEF r
  <2> QED
    BY <2>2, <2>3 DEF Excluded, ExcludesAt
<1>9. Excluded(r) \subseteq Excluded(f)
  <2>1. SUFFICES ASSUME NEW p \in DOMAIN r, IsExclude(r[p]) PROVE r[p].values \subseteq Excluded(f)
    BY DEF Excluded, ExcludesAt
  <2>2. PICK i \in 1..Len(s) : \E k \in 1..Len(s[i]) : r[p] = s[i][k]
    BY <2>1, FlattenMembers
  <2> HIDE DEF r
  <2>3. i \in DOMAIN f
    BY <1>1
  <2>4. IsExclude(f[i]) /\ r[p].values \subseteq f[i].values
    BY <1>5, <2>1, <2>2, <2>3 DEF IsExclude
  <2> QED
    BY <2>3, <2>4 DEF Excluded, ExcludesAt
<1> QED
  BY <1>3, <1>7, <1>8, <1>9

\* Where Plex applies an exclude, the filter holds it.
LEMMA AppliedExcluded ==
  ASSUME NEW f \in Seq(Condition)
  PROVE  Applied(f) \subseteq Excluded(f)
BY DEF Applied, Excluded, ExcludesAt, Enforced

\* Dropping the clauses of some groups that only admit the own row leaves every exclude.
LEMMA OwnClausesGo ==
  ASSUME NEW f \in Seq(Condition), NEW groups
  PROVE  LET rest == WithoutConditions(f, OwnClauses(f, groups))
         IN rest \in Seq(Condition) /\ Excluded(f) \subseteq Excluded(rest)
<1> DEFINE dropped == OwnClauses(f, groups)
<1>1. \A i \in dropped : IsLabelAllow(f[i])
  BY DEF OwnClauses
<1> HIDE DEF dropped
<1>5. PICK s \in Seq(Seq(Condition)) :
        WithoutConditions(f, dropped) = FlattenSeq(s) /\ Dropped(s, f, dropped)
  BY WithoutConditionsParts
<1>2. /\ Len(s) = Len(f)
      /\ WithoutConditions(f, dropped) = FlattenSeq(s)
      /\ \A i \in DOMAIN f : i \notin dropped =>
           /\ Len(s[i]) = 1
           /\ s[i][1].field = f[i].field /\ s[i][1].op = f[i].op /\ s[i][1].values = f[i].values
  BY <1>5 DEF Dropped
<1>3. \A i \in DOMAIN f : IsExclude(f[i]) =>
        Len(s[i]) >= 1 /\ IsExclude(s[i][1]) /\ f[i].values \subseteq s[i][1].values
  <2>1. TAKE i \in DOMAIN f
  <2>2. HAVE IsExclude(f[i])
  <2>3. i \notin dropped
    BY <1>1, <2>2 DEF IsExclude, IsLabelAllow
  <2> QED
    BY <1>2, <2>1, <2>2, <2>3 DEF IsExclude
<1>4. FlattenSeq(s) \in Seq(Condition) /\ Excluded(f) \subseteq Excluded(FlattenSeq(s))
  BY <1>2, <1>3, KeepsExcluded
<1> QED
  BY <1>2, <1>4 DEF dropped

\* Admitting the own row leaves every exclude.
LEMMA AdmittedStays ==
  ASSUME NEW f \in Seq(Condition)
  PROVE  Admitted(f) \in Seq(Condition) /\ Excluded(f) \subseteq Excluded(Admitted(f))
<1> DEFINE notOwners == {g \in Groups(f) : ~\E i \in g : OwnersAllow(f[i])}
           rest == WithoutConditions(f, OwnClauses(f, notOwners))
<1>1. rest \in Seq(Condition) /\ Excluded(f) \subseteq Excluded(rest)
  BY OwnClausesGo
<1>2. Admitted(f) = Serialized(Widened(rest))
  BY DEF Admitted
<1> HIDE DEF rest
<1>3. PICK s \in Seq(Seq(Condition)) :
        /\ Len(s) = Len(rest)
        /\ Widened(rest) = FlattenSeq(s)
        /\ \A i \in DOMAIN rest : IsExclude(rest[i]) => Len(s[i]) >= 1 /\ s[i][1] = rest[i]
  BY <1>1, WidenedParts
<1>4. \A i \in DOMAIN rest : IsExclude(rest[i]) =>
        Len(s[i]) >= 1 /\ IsExclude(s[i][1]) /\ rest[i].values \subseteq s[i][1].values
  BY <1>3
<1>5. FlattenSeq(s) \in Seq(Condition) /\ Excluded(rest) \subseteq Excluded(FlattenSeq(s))
  BY <1>1, <1>3, <1>4, KeepsExcluded
<1>6. Widened(rest) \in Seq(Condition) /\ Excluded(rest) \subseteq Excluded(Widened(rest))
  BY <1>3, <1>5
<1> QED
  BY <1>1, <1>2, <1>6, SerializedStays

\* So does taking the own label back out of the allow lists.
LEMMA WithdrawnStays ==
  ASSUME NEW f \in Seq(Condition)
  PROVE  Withdrawn(f) \in Seq(Condition) /\ Excluded(f) \subseteq Excluded(Withdrawn(f))
<1> DEFINE rest == WithoutConditions(f, OwnClauses(f, Groups(f)))
           Narrowed(c) == IF IsLabelAllow(c) /\ c.values # {Own} THEN Without(c, {Own}) ELSE c
           h == [i \in DOMAIN rest |-> Narrowed(rest[i])]
<1>1. rest \in Seq(Condition) /\ Excluded(f) \subseteq Excluded(rest)
  BY OwnClausesGo
<1>2. Withdrawn(f) = Serialized(h)
  BY DEF Withdrawn
<1> HIDE DEF rest
<1>3. ASSUME NEW i \in DOMAIN rest
      PROVE  h[i] \in Condition /\ (IsExclude(rest[i]) => h[i] = rest[i])
  <2>1. h[i] = Narrowed(rest[i]) /\ rest[i] \in Condition
    BY <1>1, <1>3
  <2>2. CASE IsLabelAllow(rest[i]) /\ rest[i].values # {Own}
    <3>1. rest[i].values # {}
      BY <2>1 DEF Condition, NamesItsOwn
    <3>2. Without(rest[i], {Own}) \in Condition
      <4>1. ~(rest[i].values \subseteq {Own})
        BY <2>2, <3>1
      <4> QED
        BY <2>1, <4>1, WithoutStays
    <3> QED
      BY <2>1, <2>2, <3>2 DEF IsExclude, IsLabelAllow
  <2>3. CASE ~(IsLabelAllow(rest[i]) /\ rest[i].values # {Own})
    BY <2>1, <2>3
  <2> QED
    BY <2>2, <2>3
<1>4. DOMAIN h = DOMAIN rest /\ DOMAIN rest = 1..Len(rest) /\ Len(rest) \in Nat
  BY <1>1
<1> HIDE DEF h
<1>5. h \in Seq(Condition)
  <2>1. h = [i \in 1..Len(rest) |-> h[i]]
    BY <1>4 DEF h
  <2> QED
    BY <1>3, <1>4, <2>1
<1>6. Excluded(rest) \subseteq Excluded(h)
  BY <1>3, <1>4 DEF Excluded, ExcludesAt
<1> QED
  BY <1>1, <1>2, <1>5, <1>6, SerializedStays

\* One pass of plan_share_filter.
Admitting(g, c) ==
  CASE Own \in c.seen -> Admitted(g)
    [] JudgesTheOwnRow(c) /\ Own \notin c.seen -> Withdrawn(g)
    [] ~JudgesTheOwnRow(c) -> g
Pass(g, c) == Merged(Admitting(g, c), Wanted(c))

\* It is one of the three things the pass may do with the allow lists.
LEMMA AdmittingIs ==
  ASSUME NEW g, NEW c \in SyncCall
  PROVE  Admitting(g, c) \in {Admitted(g), Withdrawn(g), g}
<1>1. CASE Own \in c.seen
  BY <1>1 DEF Admitting, JudgesTheOwnRow
<1>2. CASE JudgesTheOwnRow(c) /\ Own \notin c.seen
  BY <1>2 DEF Admitting
<1>3. CASE ~JudgesTheOwnRow(c)
  BY <1>3 DEF Admitting, JudgesTheOwnRow
<1> QED
  BY <1>1, <1>2, <1>3

\* A pass leaves a filter, in which Plex applies what is wanted and what was excluded anywhere.
LEMMA PassApplies ==
  ASSUME NEW g \in Seq(Condition), NEW c \in SyncCall
  PROVE  /\ Admitting(g, c) \in Seq(Condition)
         /\ Pass(g, c) \in Seq(Condition)
         /\ Wanted(c) \cup (Excluded(g) \cap Ours) \subseteq Applied(Pass(g, c))
         /\ Excluded(g) \cap Ours \subseteq Excluded(Pass(g, c))
<1>1. Wanted(c) \in SUBSET Labels
  BY DEF Wanted, SyncCall, Labels
<1>2. Admitting(g, c) \in Seq(Condition) /\ Excluded(g) \subseteq Excluded(Admitting(g, c))
  <2>1. CASE Admitting(g, c) = Admitted(g)
    BY <2>1, AdmittedStays
  <2>2. CASE Admitting(g, c) = Withdrawn(g)
    BY <2>2, WithdrawnStays
  <2>3. CASE Admitting(g, c) = g
    BY <2>3
  <2> QED
    BY <2>1, <2>2, <2>3, AdmittingIs
<1>3. /\ Pass(g, c) \in Seq(Condition)
      /\ Wanted(c) \cup (Excluded(Admitting(g, c)) \cap Ours) \subseteq Applied(Pass(g, c))
  BY <1>1, <1>2, MergedApplies DEF Pass
<1>4. Applied(Pass(g, c)) \subseteq Excluded(Pass(g, c))
  BY <1>3, AppliedExcluded
<1> QED
  BY <1>2, <1>3, <1>4

\* plan_share_filter makes four passes (the code stops sooner where a pass changes nothing).
LEMMA PlannedPasses ==
  ASSUME NEW f \in Seq(Condition), NEW c \in SyncCall
  PROVE  Planned(f, c) = Pass(Pass(Pass(Pass(f, c), c), c), c)
<1> DEFINE Admit(g) ==
             CASE Own \in c.seen -> Admitted(g)
               [] JudgesTheOwnRow(c) /\ Own \notin c.seen -> Withdrawn(g)
               [] ~JudgesTheOwnRow(c) -> g
           Next1(g) == Merged(Admit(g), Wanted(c))
           Passes(p) == [n \in 0..PlanPasses |-> IF n = 0 THEN f ELSE Next1(p[n - 1])]
           planned == CHOOSE p : p = Passes(p)
<1>1. Planned(f, c) = planned[PlanPasses]
  BY DEF Planned
<1>2. \A g : Next1(g) = Pass(g, c)
  BY DEF Pass, Admitting
<1>3. \A g \in Seq(Condition) : Pass(g, c) \in Seq(Condition)
  BY PassApplies
<1> HIDE DEF Next1
<1>4. planned = Passes(planned)
  <2> DEFINE S == Seq(Condition)
             N == PlanPasses
             step == [n \in 1..N |-> [g \in S |-> Next1(g)]]
  <2>1. f \in S /\ N \in Nat /\ step \in [1..N -> [S -> S]]
    BY <1>2, <1>3 DEF PlanPasses
  <2> HIDE DEF S, N, step
  <2>2. PICK p : Follows(p, S, f, N, step)
    BY <2>1, StepByStep
  <2>3. p \in [0..N -> S] /\ p[0] = f /\ \A n \in 1..N : p[n] = step[n][p[n - 1]]
    BY <2>2 DEF Follows
  <2>4. \A n \in 1..N : p[n] = Next1(p[n - 1])
    <3>1. TAKE n \in 1..N
    <3>2. n - 1 \in 0..N
      BY <2>1, <3>1
    <3>3. p[n - 1] \in S
      BY <2>3, <3>2
    <3> QED
      BY <2>3, <3>1, <3>3 DEF step
  <2>5. p = Passes(p)
    <3>1. \A n \in 0..N : p[n] = IF n = 0 THEN f ELSE Next1(p[n - 1])
      <4>1. TAKE n \in 0..N
      <4>2. n # 0 => n \in 1..N
        BY <2>1, <4>1
      <4> QED
        BY <2>3, <2>4, <4>2
    <3> QED
      BY <2>3, <3>1 DEF N
  <2> HIDE DEF Passes
  <2> QED
    BY <2>5
<1> HIDE DEF planned
<1>5. planned[0] = f /\ planned[1] = Next1(planned[0]) /\ planned[2] = Next1(planned[1])
      /\ planned[3] = Next1(planned[2]) /\ planned[4] = Next1(planned[3])
  <2>1. \A n \in 0..4 : planned[n] = IF n = 0 THEN f ELSE Next1(planned[n - 1])
    BY <1>4 DEF PlanPasses
  <2> HIDE DEF Passes
  <2> QED
    BY <2>1
<1> QED
  BY <1>1, <1>2, <1>5 DEF PlanPasses

\* After the passes every label that is wanted, and every one of ours that the filter excluded
\* anywhere, stands where Plex applies it.
LEMMA PlannedApplies ==
  ASSUME NEW f \in Seq(Condition), NEW c \in SyncCall
  PROVE  /\ Planned(f, c) \in Seq(Condition)
         /\ Wanted(c) \cup (Excluded(f) \cap Ours) \subseteq Applied(Planned(f, c))
<1> DEFINE one == Pass(f, c)
           two == Pass(one, c)
           three == Pass(two, c)
           four == Pass(three, c)
<1>1. one \in Seq(Condition) /\ Excluded(f) \cap Ours \subseteq Excluded(one)
  BY PassApplies
<1>2. two \in Seq(Condition) /\ Excluded(f) \cap Ours \subseteq Excluded(two)
  <2> HIDE DEF one
  <2> QED
    BY <1>1, PassApplies
<1>3. three \in Seq(Condition) /\ Excluded(f) \cap Ours \subseteq Excluded(three)
  <2> HIDE DEF two
  <2> QED
    BY <1>2, PassApplies
<1>4. /\ four \in Seq(Condition)
      /\ Wanted(c) \cup (Excluded(f) \cap Ours) \subseteq Applied(four)
  <2> HIDE DEF three
  <2> QED
    BY <1>3, PassApplies
<1>5. Planned(f, c) = four
  BY PlannedPasses
<1> QED
  BY <1>4, <1>5
-----------------------------------------------------------------------------
(* The sync and the clearing, as steps of the specification. *)

\* A sync writes a filter, in which Plex applies the excludes that are wanted and those of ours
\* that were there and are not to be pruned.
LEMMA SyncedApplies ==
  ASSUME NEW f \in Seq(Condition), NEW c \in SyncCall
  PROVE  /\ Synced(f, c) \in Seq(Condition)
         /\ Wanted(c) \cup (ShortlistLabels(f) \ Prunable(f, c)) \subseteq Applied(Synced(f, c))
<1>1. /\ Planned(f, c) \in Seq(Condition)
      /\ Wanted(c) \cup (Excluded(f) \cap Ours) \subseteq Applied(Planned(f, c))
  BY PlannedApplies
<1>2. /\ Synced(f, c) \in Seq(Condition)
      /\ Applied(Planned(f, c)) \ Prunable(f, c) \subseteq Applied(Synced(f, c))
  BY <1>1, RemovedStays DEF Synced
<1>3. Wanted(c) \cap Prunable(f, c) = {}
  <2>1. c.gone \cap c.seen = {}
    BY DEF SyncCall
  <2> QED
    BY <2>1 DEF Wanted, Prunable
<1>4. ShortlistLabels(f) \subseteq Excluded(f) \cap Ours
  BY DEF ShortlistLabels, Excluded
<1> QED
  BY <1>1, <1>2, <1>3, <1>4

\* Leaving the account alone writes a filter, in which Plex applies the excludes of the shared
\* rows that were there.
LEMMA ClearedApplies ==
  ASSUME NEW f \in Seq(Condition)
  PROVE  /\ Cleared(f) \in Seq(Condition)
         /\ ShortlistLabels(f) \cap Shared \subseteq Applied(Cleared(f))
<1> DEFINE people == PersonLabels(f)
           cleaned == Removed(f, people)
           kept == ShortlistLabels(cleaned) \cap Shared
           merged == Merged(cleaned, {})
<1>1. Cleared(f) = IF kept \subseteq Applied(cleaned) THEN cleaned ELSE Removed(merged, people)
  BY DEF Cleared
<1>2. people \cap Shared = {}
  BY DEF PersonLabels
<1> HIDE DEF people
<1>3. cleaned \in Seq(Condition) /\ Excluded(f) \ people \subseteq Excluded(cleaned)
  BY RemovedStays
<1> HIDE DEF cleaned
<1>4. ShortlistLabels(f) \cap Shared \subseteq kept
  BY <1>2, <1>3 DEF ShortlistLabels, Excluded
<1>5. CASE kept \subseteq Applied(cleaned)
  BY <1>1, <1>3, <1>4, <1>5
<1>6. CASE ~(kept \subseteq Applied(cleaned))
  <2>1. /\ merged \in Seq(Condition)
        /\ Excluded(cleaned) \cap Ours \subseteq Applied(merged)
    <3>1. {} \in SUBSET Labels
      OBVIOUS
    <3> QED
      BY <1>3, <3>1, MergedApplies
  <2>2. kept \subseteq Applied(merged)
    BY <2>1 DEF ShortlistLabels, Excluded
  <2> HIDE DEF merged
  <2>3. /\ Removed(merged, people) \in Seq(Condition)
        /\ Applied(merged) \ people \subseteq Applied(Removed(merged, people))
    BY <2>1, RemovedStays
  <2> QED
    BY <1>1, <1>2, <1>4, <1>6, <2>2, <2>3
<1> QED
  BY <1>5, <1>6

\* An initial filter is a sequence of conditions, as a string holds it.
LEMMA InitBuilds ==
  ASSUME Init
  PROVE  \E g \in Seq(Condition) : filter = Serialized(g)
<1> DEFINE Built(f) ==
             [i \in DOMAIN f |->
                [field |-> f[i][1].field, op |-> f[i][1].op, values |-> f[i][1].values, sep |-> f[i][2]]]
<1>1. PICK f \in BoundedSeq(Clauses \X {"|", "&"}, MaxClauses) : filter = Serialized(Built(f))
  BY DEF Init
<1>2. PICK m \in 0..MaxClauses : f \in [1..m -> Clauses \X {"|", "&"}]
  BY <1>1 DEF BoundedSeq, SeqOf
<1>3. m \in Nat /\ DOMAIN f = 1..m
  BY <1>2, ShareFilterAssumption
<1>4. ASSUME NEW i \in 1..m PROVE Built(f)[i] \in Condition
  <2> DEFINE c == f[i][1]
             sep == f[i][2]
  <2>1. c \in Clause /\ sep \in {"|", "&"}
    BY <1>2, <1>4, ShareFilterAssumption
  <2>2. Built(f)[i] = [field |-> c.field, op |-> c.op, values |-> c.values, sep |-> sep]
    BY <1>3, <1>4
  <2> HIDE DEF c, sep, Built
  <2> DEFINE d == [field |-> c.field, op |-> c.op, values |-> c.values, sep |-> sep]
  <2>3. c \in [field : Fields, op : {"=", "!="}, values : SUBSET (Labels \cup Ratings)] /\ NamesItsOwn(c)
    BY <2>1 DEF Clause
  <2>4. d \in [field : Fields, op : {"=", "!="}, values : SUBSET (Labels \cup Ratings), sep : {"|", "&"}]
        /\ d.field = c.field /\ d.values = c.values
    BY <2>1, <2>3
  <2>5. d \in Condition
    BY <2>3, <2>4 DEF Condition, NamesItsOwn
  <2> QED
    BY <2>2, <2>5
<1>5. Built(f) \in Seq(Condition)
  <2>1. DOMAIN Built(f) = 1..m /\ Built(f) = [i \in 1..m |-> Built(f)[i]]
    BY <1>3
  <2> HIDE DEF Built
  <2> QED
    BY <1>3, <1>4, <2>1
<1> HIDE DEF Built
<1> QED
  BY <1>1, <1>5

\* Hence it has its type.
LEMMA InitTypes == Init => TypeOK
<1> SUFFICES ASSUME Init PROVE TypeOK
  OBVIOUS
<1>1. filter \in Seq(Condition)
  BY InitBuilds, SerializedStays
<1> QED
  BY <1>1 DEF Init, TypeOK

\* Every call leaves a filter.
LEMMA StepTypes == TypeOK /\ [Next]_vars => TypeOK'
<1> SUFFICES ASSUME TypeOK, [Next]_vars PROVE TypeOK'
  OBVIOUS
<1>1. filter \in Seq(Condition)
  BY DEF TypeOK
<1>2. ASSUME NEW c \in SyncCall \cup {LeaveAlone}, Starts(c) PROVE TypeOK'
  BY <1>2 DEF Starts, TypeOK
<1>3. CASE SyncUserRestrictions
  <2>1. call \in SyncCall /\ filter' = Synced(filter, call) /\ call' = Idle /\ theirs' = theirs
    BY <1>3 DEF SyncUserRestrictions
  <2>2. filter' \in Seq(Condition)
    BY <1>1, <2>1, SyncedApplies
  <2> QED
    BY <2>1, <2>2 DEF TypeOK
<1>4. CASE ClearOurExcludes
  <2>1. filter' = Cleared(filter) /\ call' = Idle /\ theirs' = theirs
    BY <1>4 DEF ClearOurExcludes
  <2>2. filter' \in Seq(Condition)
    BY <1>1, <2>1, ClearedApplies
  <2> QED
    BY <2>1, <2>2 DEF TypeOK
<1>5. CASE UNCHANGED vars
  BY <1>5 DEF vars, TypeOK
<1> QED
  BY <1>2, <1>3, <1>4, <1>5 DEF Next

\* Whatever is synced and cleared, and however often, an account's filter stays a filter: every
\* condition names something of its own field (parse_filter and serialize_filter).
THEOREM TypeCorrect == Spec => []TypeOK
<1>1. Init => TypeOK
  BY InitTypes
<1>2. TypeOK /\ [Next]_vars => TypeOK'
  BY StepTypes
<1> QED
  BY <1>1, <1>2, PTL DEF Spec

\* Plex hides what it applies, whichever way it groups.
LEMMA AppliedHides ==
  ASSUME NEW f \in Seq(Condition), NEW label \in Applied(f)
  PROVE  Hides(f, label)
BY EnforcedHides, EnforcedHidesInOrder DEF Hides

\* The merge hides what it is given and every row of ours that the filter excluded anywhere, in
\* every filter whatever its length and conditions (merge_label_excludes: the check of its own
\* result never fails).
THEOREM MergeHides ==
  ASSUME NEW f \in Seq(Condition), NEW labels \in SUBSET Labels
  PROVE  \A label \in labels \cup ShortlistLabels(f) : Hides(Merged(f, labels), label)
<1>1. /\ Merged(f, labels) \in Seq(Condition)
      /\ labels \cup (Excluded(f) \cap Ours) \subseteq Applied(Merged(f, labels))
  BY MergedApplies
<1>2. ShortlistLabels(f) \subseteq Excluded(f) \cap Ours
  BY DEF ShortlistLabels, Excluded
<1> QED
  BY <1>1, <1>2, AppliedHides

\* A step out of a sync call is the sync.
LEMMA SyncStep ==
  ASSUME call \in SyncCall, Next
  PROVE  filter' = Synced(filter, call)
<1>1. call # LeaveAlone
  <2>1. call.op = "sync"
    BY DEF SyncCall
  <2>2. LeaveAlone.op = "leave alone"
    BY DEF LeaveAlone
  <2> QED
    BY <2>1, <2>2
<1> QED
  BY <1>1, IdleAssumption DEF Next, Starts, SyncUserRestrictions, ClearOurExcludes

\* After a sync Plex hides, whichever way it groups the conditions, every row the account must not
\* see, and every row that was excluded and is neither provably gone nor this account's to see
\* (merge_label_excludes, sync_user_restrictions), for every filter, whatever its length.
THEOREM SyncHidesAlways == Spec => SyncHides
<1>1. TypeOK /\ [Next]_vars =>
        [Syncs => \A label \in Wanted(call) \cup (ShortlistLabels(filter) \ Prunable(filter, call)) :
                    Hides(filter', label)]_vars
  <2> SUFFICES ASSUME TypeOK, Next, call \in SyncCall,
                      NEW label \in Wanted(call) \cup (ShortlistLabels(filter) \ Prunable(filter, call))
               PROVE  Hides(filter', label)
    BY DEF Syncs
  <2>1. filter' = Synced(filter, call)
    BY SyncStep
  <2>2. filter \in Seq(Condition)
    BY DEF TypeOK
  <2>3. filter' \in Seq(Condition) /\ label \in Applied(filter')
    BY <2>1, <2>2, SyncedApplies
  <2> QED
    BY <2>3, AppliedHides
<1> QED
  BY <1>1, TypeCorrect, PTL DEF Spec, SyncHides

-----------------------------------------------------------------------------
(* Where the excludes of an account left alone come from. *)

\* An exclude that removing labels leaves is one that was there, less those labels, or one of
\* those labels only, that stood where Plex ignores it.
LEMMA RemovedFrom ==
  ASSUME NEW f \in Seq(Condition), NEW labels,
         NEW p \in DOMAIN Removed(f, labels), IsExclude(Removed(f, labels)[p])
  PROVE  \E i \in DOMAIN f :
           /\ IsExclude(f[i])
           /\ \/ Removed(f, labels)[p].values = f[i].values \ labels
              \/ /\ Removed(f, labels)[p].values = f[i].values
                 /\ f[i].values \subseteq labels
                 /\ i \notin Enforced(f)
<1>1. PICK s \in Seq(Seq(Condition)) :
        /\ Len(s) = Len(f)
        /\ Removed(f, labels) = Serialized(FlattenSeq(s))
        /\ \A i \in DOMAIN f :
             /\ ~IsExclude(f[i]) => s[i] = <<f[i]>>
             /\ IsExclude(f[i]) /\ ~(f[i].values \subseteq labels) => s[i] = <<Without(f[i], labels)>>
             /\ IsExclude(f[i]) /\ f[i].values \subseteq labels =>
                  \/ s[i] = <<>> /\ ~KeepsGroups(f, i)
                  \/ s[i] = <<f[i]>> /\ KeepsGroups(f, i)
  BY RemovedParts
<1> DEFINE r == FlattenSeq(s)
           R == Removed(f, labels)
<1>2. r \in Seq(Condition)
  BY FlattenLays
<1>3. \A q \in DOMAIN r : \E i \in 1..Len(s) : \E k \in 1..Len(s[i]) : r[q] = s[i][k]
  BY FlattenMembers
<1>4. Serialized(r) \in Seq(Condition) /\ Len(Serialized(r)) = Len(r)
      /\ \A q \in DOMAIN r : /\ Serialized(r)[q].field = r[q].field
                             /\ Serialized(r)[q].op = r[q].op
                             /\ Serialized(r)[q].values = r[q].values
  BY <1>2, SerializedStays
<1>5. R = Serialized(r)
  BY <1>1
<1> HIDE DEF r, R
<1>6. p \in DOMAIN r /\ IsExclude(r[p]) /\ R[p].values = r[p].values
  <2>1. p \in DOMAIN R /\ IsExclude(R[p])
    BY DEF R
  <2>2. p \in DOMAIN r
    BY <1>2, <1>4, <1>5, <2>1
  <2> QED
    BY <1>4, <1>5, <2>1, <2>2 DEF IsExclude
<1>7. PICK i \in 1..Len(s) : \E k \in 1..Len(s[i]) : r[p] = s[i][k]
  BY <1>3, <1>6
<1>8. PICK k \in 1..Len(s[i]) : r[p] = s[i][k]
  BY <1>7
<1>9. i \in DOMAIN f /\ f[i] \in Condition /\ i \in Nat
  BY <1>1
<1>10. CASE s[i] = <<f[i]>>
  <2>1. r[p] = f[i]
    BY <1>8, <1>10
  <2>2. IsExclude(f[i])
    BY <1>6, <2>1
  <2>3. CASE f[i].values \subseteq labels
    <3>1. KeepsGroups(f, i)
      <4>1. s[i] # <<>>
        BY <1>10
      <4> QED
        BY <1>1, <1>9, <2>2, <2>3, <4>1
    <3>2. i \notin Enforced(f)
      <4>1. PICK j \in DOMAIN f : j > i /\ f[j].sep = "|"
        BY <3>1 DEF KeepsGroups
      <4>2. j \in i..Len(f) /\ j # 1
        BY <1>9, <4>1
      <4> QED
        BY <4>1, <4>2 DEF Enforced
    <3> QED
      BY <1>6, <1>9, <2>1, <2>2, <2>3, <3>2 DEF R
  <2>4. CASE ~(f[i].values \subseteq labels)
    <3> DEFINE d == Without(f[i], labels)
    <3>1. d.values = f[i].values \ labels
      BY <1>9, <2>4, WithoutStays
    <3>2. s[i] = <<d>>
      BY <1>1, <1>9, <2>2, <2>4
    <3> HIDE DEF d
    <3>3. r[p] = d
      BY <1>8, <3>2
    <3> QED
      BY <1>6, <1>9, <2>2, <3>1, <3>3 DEF R
  <2> QED
    BY <2>3, <2>4
<1>11. CASE IsExclude(f[i]) /\ ~(f[i].values \subseteq labels)
  <2> DEFINE d == Without(f[i], labels)
  <2>1. d.values = f[i].values \ labels
    BY <1>9, <1>11, WithoutStays
  <2>2. s[i] = <<d>>
    BY <1>1, <1>9, <1>11
  <2> HIDE DEF d
  <2>3. r[p] = d
    BY <1>8, <2>2
  <2> QED
    BY <1>6, <1>9, <1>11, <2>1, <2>3 DEF R
<1>12. CASE s[i] = <<>>
  BY <1>8, <1>12
<1> QED
  BY <1>1, <1>9, <1>10, <1>11, <1>12

\* Placing labels changes no condition that Plex ignores, and excludes nothing else.
LEMMA PlacedFrom ==
  ASSUME NEW f \in Seq(Condition), NEW missing \in SUBSET Labels
  PROVE  /\ \A p \in DOMAIN Placed(f, missing) \ Enforced(Placed(f, missing)) :
              p \in DOMAIN f /\ Placed(f, missing)[p] = f[p]
         /\ Excluded(Placed(f, missing)) \subseteq Excluded(f) \cup missing
<1> DEFINE targets == {i \in Enforced(f) : IsExclude(f[i])}
<1>1. CASE missing = {}
  BY <1>1 DEF Placed
<1>2. CASE missing # {} /\ targets # {}
  <2> DEFINE t == Min(targets)
             d == [f[t] EXCEPT !.values = @ \cup missing]
             h == [f EXCEPT ![t] = d]
  <2>1. targets \in SUBSET Nat
    BY DEF Enforced
  <2>2. t \in targets
    BY <1>2, <2>1, FirstPosition
  <2>3. t \in DOMAIN f /\ IsExclude(f[t]) /\ t \in Enforced(f)
    BY <2>2 DEF Enforced
  <2>4. Placed(f, missing) = [f EXCEPT ![t].values = @ \cup missing]
    BY <1>2 DEF Placed
  <2> HIDE DEF t
  <2>5. Placed(f, missing) = h
    BY <2>3, <2>4
  <2>6. f[t] \in Condition
    BY <2>3
  <2>7. d.sep = f[t].sep /\ d.values = f[t].values \cup missing
    BY <2>6 DEF Condition
  <2> HIDE DEF d
  <2>8. DOMAIN h = DOMAIN f /\ Len(h) = Len(f) /\ h[t] = d /\ \A i \in DOMAIN f : i # t => h[i] = f[i]
    BY <2>3
  <2> HIDE DEF h
  <2>9. t \in Enforced(h)
    <3>1. \A i \in DOMAIN f : h[i].sep = f[i].sep
      BY <2>7, <2>8
    <3>2. \A j \in t..Len(f) : j \in DOMAIN f /\ (j = 1 \/ f[j].sep = "&")
      BY <2>3 DEF Enforced
    <3> QED
      BY <2>3, <2>8, <3>1, <3>2 DEF Enforced
  <2>10. Excluded(h) \subseteq Excluded(f) \cup missing
    <3>1. SUFFICES ASSUME NEW i \in DOMAIN h, IsExclude(h[i])
                   PROVE  h[i].values \subseteq Excluded(f) \cup missing
      BY DEF Excluded, ExcludesAt
    <3>2. i = t => h[i].values \subseteq f[t].values \cup missing
      BY <2>7, <2>8
    <3>3. i # t => h[i] = f[i] /\ i \in DOMAIN f
      BY <2>8, <3>1
    <3> QED
      BY <2>3, <3>1, <3>2, <3>3 DEF Excluded, ExcludesAt
  <2> QED
    BY <2>5, <2>8, <2>9, <2>10
<1>3. CASE missing # {} /\ targets = {}
  <2> DEFINE h == Append(f, NewExclude(missing))
  <2>1. Placed(f, missing) = h
    BY <1>3 DEF Placed
  <2>2. NewExclude(missing) \in Condition
    BY <1>3 DEF NewExclude, Condition, NamesItsOwn, Fields
  <2>3. /\ h \in Seq(Condition) /\ Len(h) = Len(f) + 1 /\ h[Len(h)] = NewExclude(missing)
        /\ \A i \in 1..Len(f) : h[i] = f[i]
    BY <2>2
  <2> HIDE DEF h
  <2>4. Len(h) \in Enforced(h) /\ h[Len(h)].values = missing
    BY <2>3 DEF Enforced, NewExclude
  <2>5. \A i \in DOMAIN h : i = Len(h) \/ (i \in DOMAIN f /\ h[i] = f[i])
    BY <2>3
  <2>6. Excluded(h) \subseteq Excluded(f) \cup missing
    BY <2>4, <2>5 DEF Excluded, ExcludesAt
  <2> QED
    BY <2>1, <2>4, <2>5, <2>6
<1> QED
  BY <1>1, <1>2, <1>3

\* What lifting leaves of an exclude is the exclude, or what of it is not ours.
LEMMA LiftedFrom ==
  ASSUME NEW f \in Seq(Condition), NEW p \in DOMAIN Lifted(f), IsExclude(Lifted(f)[p])
  PROVE  \E i \in DOMAIN f :
           /\ IsExclude(f[i])
           /\ Lifted(f)[p].values = f[i].values \/ Lifted(f)[p].values = f[i].values \ Ours
<1>1. PICK s \in Seq(Seq(Condition)) :
        /\ Len(s) = Len(f)
        /\ Lifted(f) = FlattenSeq(s)
        /\ \A i \in DOMAIN f :
             /\ i \notin Stray(f) => s[i] = <<f[i]>>
             /\ i \in Stray(f) /\ ~(f[i].values \subseteq Ours) => s[i] = <<Without(f[i], Ours)>>
             /\ i \in Stray(f) /\ f[i].values \subseteq Ours =>
                  \/ s[i] = <<>> /\ ~KeepsGroups(f, i)
                  \/ s[i] = <<f[i]>> /\ KeepsGroups(f, i)
  BY LiftedParts
<1> DEFINE r == FlattenSeq(s)
<1>2. \A q \in DOMAIN r : \E i \in 1..Len(s) : \E k \in 1..Len(s[i]) : r[q] = s[i][k]
  BY FlattenMembers
<1>3. p \in DOMAIN r /\ IsExclude(r[p])
  BY <1>1
<1> HIDE DEF r
<1>4. PICK i \in 1..Len(s) : \E k \in 1..Len(s[i]) : r[p] = s[i][k]
  BY <1>2, <1>3
<1>5. PICK k \in 1..Len(s[i]) : r[p] = s[i][k]
  BY <1>4
<1>6. i \in DOMAIN f /\ f[i] \in Condition
  BY <1>1
<1>7. CASE s[i] = <<f[i]>>
  <2>1. r[p] = f[i]
    BY <1>5, <1>7
  <2> QED
    BY <1>1, <1>3, <1>6, <2>1 DEF r
<1>8. CASE i \in Stray(f) /\ ~(f[i].values \subseteq Ours)
  <2> DEFINE d == Without(f[i], Ours)
  <2>1. d.values = f[i].values \ Ours
    BY <1>6, <1>8, WithoutStays
  <2>2. s[i] = <<d>>
    BY <1>1, <1>6, <1>8
  <2> HIDE DEF d
  <2>3. r[p] = d
    BY <1>5, <2>2
  <2> QED
    BY <1>1, <1>6, <1>8, <2>1, <2>3 DEF r, Stray
<1>9. CASE s[i] = <<>>
  BY <1>5, <1>9
<1> QED
  BY <1>1, <1>6, <1>7, <1>8, <1>9

\* A merge that is given nothing excludes nothing new, and what it leaves where Plex ignores it
\* stood in the filter, whole or less the labels of ours.
LEMMA MergedFrom ==
  ASSUME NEW f \in Seq(Condition)
  PROVE  /\ Excluded(Merged(f, {})) \subseteq Excluded(f)
         /\ \A p \in DOMAIN Merged(f, {}) \ Enforced(Merged(f, {})) : IsExclude(Merged(f, {})[p]) =>
              \E i \in DOMAIN f :
                /\ IsExclude(f[i])
                /\ Merged(f, {})[p].values = f[i].values \/ Merged(f, {})[p].values = f[i].values \ Ours
<1> DEFINE g == Lifted(f)
           missing == (ExcludesAt(f, Stray(f)) \cap Ours) \ Applied(g)
           h == Placed(g, missing)
           M == Merged(f, {})
<1>1. g \in Seq(Condition)
  BY LiftedApplies
<1>2. missing \in SUBSET Labels
  BY DEF Labels
<1>3. M = Serialized(h)
  <2>1. {} \cup (ExcludesAt(f, Stray(f)) \cap Ours) = ExcludesAt(f, Stray(f)) \cap Ours
    OBVIOUS
  <2> QED
    BY <2>1 DEF Merged
<1>4. missing \subseteq Excluded(f)
  BY DEF Excluded, ExcludesAt, Stray
<1>5. Excluded(g) \subseteq Excluded(f)
  <2>1. SUFFICES ASSUME NEW p \in DOMAIN g, IsExclude(g[p]) PROVE g[p].values \subseteq Excluded(f)
    BY DEF Excluded, ExcludesAt
  <2>2. PICK i \in DOMAIN f : IsExclude(f[i]) /\ (g[p].values = f[i].values \/ g[p].values = f[i].values \ Ours)
    BY <2>1, LiftedFrom
  <2> QED
    BY <2>2 DEF Excluded, ExcludesAt
<1> HIDE DEF missing
<1>6. h \in Seq(Condition)
  BY <1>1, <1>2, PlacedApplies
<1>7. /\ \A p \in DOMAIN h \ Enforced(h) : p \in DOMAIN g /\ h[p] = g[p]
      /\ Excluded(h) \subseteq Excluded(g) \cup missing
  BY <1>1, <1>2, PlacedFrom
<1>8. \A p \in DOMAIN g : IsExclude(g[p]) =>
        \E i \in DOMAIN f : IsExclude(f[i]) /\ (g[p].values = f[i].values \/ g[p].values = f[i].values \ Ours)
  BY LiftedFrom
<1> HIDE DEF h, g
<1>9. /\ M \in Seq(Condition) /\ Len(M) = Len(h) /\ Enforced(M) = Enforced(h) /\ Excluded(M) = Excluded(h)
      /\ \A p \in DOMAIN h : M[p].field = h[p].field /\ M[p].op = h[p].op /\ M[p].values = h[p].values
  BY <1>3, <1>6, SerializedStays
<1> HIDE DEF M
<1>10. Excluded(M) \subseteq Excluded(f)
  BY <1>4, <1>5, <1>7, <1>9
<1>11. ASSUME NEW p \in DOMAIN M \ Enforced(M), IsExclude(M[p])
       PROVE  \E i \in DOMAIN f : IsExclude(f[i]) /\ (M[p].values = f[i].values \/ M[p].values = f[i].values \ Ours)
  <2>1. p \in DOMAIN h \ Enforced(h)
    BY <1>6, <1>9, <1>11
  <2>2. p \in DOMAIN g /\ h[p] = g[p] /\ IsExclude(g[p]) /\ M[p].values = g[p].values
    BY <1>7, <1>9, <1>11, <2>1 DEF IsExclude
  <2> QED
    BY <1>8, <2>2
<1> QED
  BY <1>10, <1>11 DEF M

\* What an account left alone still excludes of people's rows are clauses that stood where Plex
\* ignores them.
LEMMA ClearedFrom ==
  ASSUME NEW f \in Seq(Condition), NEW p \in DOMAIN Cleared(f),
         IsExclude(Cleared(f)[p]), ~(Cleared(f)[p].values \cap Ours \subseteq Shared)
  PROVE  \E i \in DOMAIN f \ Enforced(f) : IsExclude(f[i]) /\ f[i].values = Cleared(f)[p].values
<1> DEFINE people == PersonLabels(f)
           cleaned == Removed(f, people)
           kept == ShortlistLabels(cleaned) \cap Shared
           merged == Merged(cleaned, {})
           result == Cleared(f)
<1>1. result = IF kept \subseteq Applied(cleaned) THEN cleaned ELSE Removed(merged, people)
  BY DEF Cleared
<1>2. Excluded(f) \cap Ours \subseteq people \cup Shared
  BY DEF PersonLabels, ShortlistLabels, Excluded
<1> HIDE DEF people, kept, result
\* In a filter that excludes no more, removing leaves only shared rows of an exclude.
<1>3. ASSUME NEW g \in Seq(Condition), Excluded(g) \subseteq Excluded(f), NEW i \in DOMAIN g, IsExclude(g[i])
      PROVE  (g[i].values \ people) \cap Ours \subseteq Shared
  <2>1. g[i].values \subseteq Excluded(g)
    BY <1>3 DEF Excluded, ExcludesAt
  <2> QED
    BY <1>2, <1>3, <2>1
<1>4. cleaned \in Seq(Condition) /\ Excluded(cleaned) \subseteq Excluded(f)
  BY RemovedStays
<1>5. ASSUME NEW k \in DOMAIN cleaned, IsExclude(cleaned[k]), ~(cleaned[k].values \cap Ours \subseteq Shared)
      PROVE  \E i \in DOMAIN f \ Enforced(f) : IsExclude(f[i]) /\ f[i].values = cleaned[k].values
  <2>1. PICK i \in DOMAIN f :
          /\ IsExclude(f[i])
          /\ \/ cleaned[k].values = f[i].values \ people
             \/ cleaned[k].values = f[i].values /\ f[i].values \subseteq people /\ i \notin Enforced(f)
    BY <1>5, RemovedFrom
  <2>2. (f[i].values \ people) \cap Ours \subseteq Shared
    BY <1>3, <2>1
  <2> QED
    BY <1>5, <2>1, <2>2
<1> HIDE DEF cleaned
<1>6. IsExclude(result[p]) /\ p \in DOMAIN result /\ ~(result[p].values \cap Ours \subseteq Shared)
  BY DEF result
<1>7. CASE result = cleaned
  BY <1>5, <1>6, <1>7 DEF result
<1>8. CASE result = Removed(merged, people)
  <2>1. /\ Excluded(merged) \subseteq Excluded(cleaned)
        /\ \A q \in DOMAIN merged \ Enforced(merged) : IsExclude(merged[q]) =>
             \E k \in DOMAIN cleaned :
               /\ IsExclude(cleaned[k])
               /\ merged[q].values = cleaned[k].values \/ merged[q].values = cleaned[k].values \ Ours
    BY <1>4, MergedFrom
  <2>2. merged \in Seq(Condition)
    <3>1. {} \in SUBSET Labels
      OBVIOUS
    <3> QED
      BY <1>4, <3>1, MergedApplies
  <2> HIDE DEF merged
  <2>3. PICK q \in DOMAIN merged :
          /\ IsExclude(merged[q])
          /\ \/ result[p].values = merged[q].values \ people
             \/ /\ result[p].values = merged[q].values
                /\ merged[q].values \subseteq people
                /\ q \notin Enforced(merged)
    BY <1>6, <1>8, <2>2, RemovedFrom
  <2>4. (merged[q].values \ people) \cap Ours \subseteq Shared
    BY <1>3, <1>4, <2>1, <2>2, <2>3
  <2>5. result[p].values = merged[q].values /\ q \notin Enforced(merged)
    BY <1>6, <2>3, <2>4
  <2>6. PICK k \in DOMAIN cleaned :
          /\ IsExclude(cleaned[k])
          /\ merged[q].values = cleaned[k].values \/ merged[q].values = cleaned[k].values \ Ours
    BY <2>1, <2>3, <2>5
  <2>7. result[p].values = cleaned[k].values
    BY <1>6, <2>5, <2>6
  <2> QED
    BY <1>5, <1>6, <2>6, <2>7 DEF result
<1> QED
  BY <1>1, <1>7, <1>8

\* A step of an account to leave alone is the clearing.
LEMMA ClearStep ==
  ASSUME call = LeaveAlone, Next
  PROVE  filter' = Cleared(filter)
<1>1. call \notin SyncCall
  <2>1. \A c \in SyncCall : c.op = "sync"
    BY DEF SyncCall
  <2>2. LeaveAlone.op = "leave alone"
    BY DEF LeaveAlone
  <2> QED
    BY <2>1, <2>2
<1> QED
  BY <1>1, IdleAssumption DEF Next, Starts, SyncUserRestrictions, ClearOurExcludes

\* An account left alone keeps every shared row hidden that was excluded for it, and of people's
\* rows only clauses Plex ignores (clear_our_excludes), for every filter, whatever its length.
THEOREM LeftAloneIsSafe == Spec => LeftAloneKeepsShared
<1>1. TypeOK /\ [Next]_vars =>
        [call = LeaveAlone =>
           /\ \A label \in ShortlistLabels(filter) \cap Shared : Hides(filter', label)
           /\ \A i \in DOMAIN filter' :
                IsExclude(filter'[i]) /\ ~(filter'[i].values \cap Ours \subseteq Shared) =>
                  \E j \in DOMAIN filter \ Enforced(filter) :
                    IsExclude(filter[j]) /\ filter[j].values = filter'[i].values]_vars
  <2> SUFFICES ASSUME TypeOK, Next, call = LeaveAlone
               PROVE  /\ \A label \in ShortlistLabels(filter) \cap Shared : Hides(filter', label)
                      /\ \A i \in DOMAIN filter' :
                           IsExclude(filter'[i]) /\ ~(filter'[i].values \cap Ours \subseteq Shared) =>
                             \E j \in DOMAIN filter \ Enforced(filter) :
                               IsExclude(filter[j]) /\ filter[j].values = filter'[i].values
    OBVIOUS
  <2>1. filter' = Cleared(filter)
    BY ClearStep
  <2>2. filter \in Seq(Condition)
    BY DEF TypeOK
  <2>3. Cleared(filter) \in Seq(Condition) /\ ShortlistLabels(filter) \cap Shared \subseteq Applied(Cleared(filter))
    BY <2>2, ClearedApplies
  <2>4. \A label \in ShortlistLabels(filter) \cap Shared : Hides(filter', label)
    BY <2>1, <2>3, AppliedHides
  <2>5. \A i \in DOMAIN Cleared(filter) :
          IsExclude(Cleared(filter)[i]) /\ ~(Cleared(filter)[i].values \cap Ours \subseteq Shared) =>
            \E j \in DOMAIN filter \ Enforced(filter) :
              IsExclude(filter[j]) /\ filter[j].values = Cleared(filter)[i].values
    BY <2>2, ClearedFrom
  <2> QED
    BY <2>1, <2>4, <2>5
<1> QED
  BY <1>1, TypeCorrect, PTL DEF Spec, LeftAloneKeepsShared

-----------------------------------------------------------------------------
(* What a filter shows of the owner's library, from one rewriting to the next. *)

\* Every condition that is more than an admission of the own row has an alternative that holds.
Met(f, item) ==
  \A i \in DOMAIN f : ~OwnOnly(f[i]) => \E j \in DOMAIN f : Joined(f, i, j) /\ Holds(f[j], item)

\* That is what StillShows says, ...
LEMMA StillShowsMet ==
  ASSUME NEW f \in Seq(Condition), NEW item
  PROVE  StillShows(f, item) <=> Met(f, item)
<1> DEFINE group(i) == {j \in DOMAIN f : Joined(f, i, j)}
<1>1. Groups(f) = {group(i) : i \in DOMAIN f}
  BY GroupsAre
<1>2. \A i \in DOMAIN f : i \in group(i)
  <2>1. \A i \in DOMAIN f : i \in Nat
    OBVIOUS
  <2> QED
    BY <2>1 DEF Joined
<1>3. ASSUME StillShows(f, item), NEW i \in DOMAIN f, ~OwnOnly(f[i])
      PROVE  \E j \in DOMAIN f : Joined(f, i, j) /\ Holds(f[j], item)
  <2>1. \/ \A j \in group(i) : OwnOnly(f[j])
        \/ \E j \in group(i) : Holds(f[j], item)
    BY <1>1, <1>3 DEF StillShows, OwnOnly
  <2>2. \E j \in group(i) : Holds(f[j], item)
    BY <1>2, <1>3, <2>1
  <2> QED
    BY <2>2
<1>4. ASSUME Met(f, item), NEW i \in DOMAIN f
      PROVE  \/ \A j \in group(i) : OwnOnly(f[j])
             \/ \E j \in group(i) : Holds(f[j], item)
  <2>1. SUFFICES ASSUME NEW k \in group(i), ~OwnOnly(f[k])
                 PROVE  \E j \in group(i) : Holds(f[j], item)
    OBVIOUS
  <2>2. k \in DOMAIN f /\ Joined(f, i, k)
    BY <2>1
  <2>3. PICK j \in DOMAIN f : Joined(f, k, j) /\ Holds(f[j], item)
    BY <1>4, <2>1, <2>2 DEF Met
  <2>4. Joined(f, i, j)
    <3>1. i \in Nat /\ j \in Nat /\ k \in Nat /\ \A m \in DOMAIN f : m \in Nat
      BY <1>4, <2>2, <2>3
    <3> QED
      BY <2>2, <2>3, <3>1 DEF Joined
  <2> QED
    BY <2>3, <2>4
<1> QED
  <2>1. StillShows(f, item) => Met(f, item)
    BY <1>3 DEF Met
  <2>2. Met(f, item) => StillShows(f, item)
    <3> SUFFICES ASSUME Met(f, item), NEW g \in Groups(f)
                 PROVE  \/ \A i \in g : OwnOnly(f[i])
                        \/ \E i \in g : Holds(f[i], item)
      BY DEF StillShows, OwnOnly
    <3>1. PICK i \in DOMAIN f : g = group(i)
      BY <1>1
    <3> QED
      BY <1>4, <3>1
  <2> QED
    BY <2>1, <2>2

\* ... and what a filter that shows the item does.
LEMMA ShowsStill ==
  ASSUME NEW f, NEW item, Shows(f, item)
  PROVE  StillShows(f, item)
BY DEF Shows, StillShows

-----------------------------------------------------------------------------
(* What a condition asks of an item of the owner's. *)

Items == SUBSET (Foreign \cup Ratings)

\* No such item carries a label of ours.
LEMMA ItemsAreNotOurs ==
  ASSUME NEW item \in Items
  PROVE  item \cap Ours = {} /\ Own \notin item
<1>1. Foreign \cap Ours = {} /\ Ratings \cap Labels = {}
  BY ShareFilterAssumption
<1> QED
  BY <1>1 DEF Items, Labels, Ours

\* Two conditions that differ by labels of ours ask the same of it.
LEMMA HoldsAlike ==
  ASSUME NEW item \in Items, NEW c, NEW d, d.op = c.op, d.values \ Ours = c.values \ Ours,
         Holds(d, item)
  PROVE  Holds(c, item)
<1>1. item \cap Ours = {}
  BY ItemsAreNotOurs
<1>2. d.values \cap item = (d.values \ Ours) \cap item /\ c.values \cap item = (c.values \ Ours) \cap item
  BY <1>1
<1>3. d.values \cap item = c.values \cap item
  BY <1>2
<1> QED
  BY <1>3 DEF Holds

\* An exclude of ours asks nothing.
LEMMA OursAskNothing ==
  ASSUME NEW item \in Items, NEW c, IsExclude(c), c.values \subseteq Ours
  PROVE  Holds(c, item)
<1>1. item \cap Ours = {}
  BY ItemsAreNotOurs
<1>2. c.values \cap item = {} /\ c.op # "="
  BY <1>1 DEF IsExclude
<1> QED
  BY <1>2 DEF Holds

\* The admission of the own row never holds of it.
LEMMA OwnOnlyFails ==
  ASSUME NEW item \in Items, NEW c, OwnOnly(c)
  PROVE  ~Holds(c, item)
<1>1. Own \notin item
  BY ItemsAreNotOurs
<1>2. c.values \cap item = {} /\ c.op = "="
  BY <1>1 DEF OwnOnly, IsLabelAllow
<1> QED
  BY <1>2 DEF Holds

-----------------------------------------------------------------------------
(* Two ways to rewrite a filter that show no more. *)

\* Parts of f: where an "&" stood before a condition, one stands before it or what is left of those
\* behind it; a condition asks nothing, or something of it is left; and what is left is no easier.
Faithful(s, f, item) ==
  /\ Len(s) = Len(f)
  /\ \A k \in 2..Len(f) : \A j \in k..Len(f) : f[k].sep = "&" /\ Len(s[j]) >= 1 =>
       \E m \in k..j : Len(s[m]) >= 1 /\ s[m][1].sep = "&"
  /\ \A i \in DOMAIN f : \/ OwnOnly(f[i])
                         \/ Holds(f[i], item)
                         \/ \E a \in 1..Len(s[i]) : ~OwnOnly(s[i][a])
  /\ \A i \in DOMAIN f : \A a \in 1..Len(s[i]) : Holds(s[i][a], item) => Holds(f[i], item)

\* The parts laid end to end show no more than the filter.
LEMMA PartsShowNoMore ==
  ASSUME NEW f \in Seq(Condition), NEW s \in Seq(Seq(Condition)), NEW item,
         Faithful(s, f, item), Met(FlattenSeq(s), item)
  PROVE  Met(f, item)
<1> DEFINE C == Condition
           r == FlattenSeq(s)
<1>0. s \in Seq(Seq(C)) /\ f \in Seq(C)
  OBVIOUS
<1> HIDE DEF C
<1>1. r \in Seq(C) /\ \E at : Laid(r, s, at)
  BY <1>0, FlattenLays
<1>2. Met(r, item)
  OBVIOUS
<1> HIDE DEF r
<1>3. PICK at : Laid(r, s, at)
  BY <1>1
<1>4. /\ Len(s) \in Nat /\ at \in [0..Len(s) -> Nat] /\ Len(r) = at[Len(s)]
      /\ \A j \in 1..Len(s) : at[j] = at[j - 1] + Len(s[j])
      /\ \A j \in 1..Len(s) : \A k \in 1..Len(s[j]) : r[at[j - 1] + k] = s[j][k]
  BY <1>0, <1>3 DEF Laid, Ends
<1>5. Covers(r, s, at)
  BY <1>0, <1>1, <1>3, LaidCovers
<1>6. /\ \A j, k \in 0..Len(s) : j =< k => at[j] =< at[k]
      /\ \A p \in 1..Len(r) : \E j \in 1..Len(s) :
           /\ p > at[j - 1] /\ p =< at[j]
           /\ p - at[j - 1] \in 1..Len(s[j]) /\ r[p] = s[j][p - at[j - 1]]
  BY <1>5 DEF Covers
<1>7. Len(s) = Len(f) /\ DOMAIN f = 1..Len(f) /\ DOMAIN r = 1..Len(r) /\ Len(r) \in Nat
  BY <1>0, <1>1 DEF Faithful
<1>8. \A j \in 1..Len(s) : Len(s[j]) \in Nat /\ at[j] \in Nat /\ at[j - 1] \in Nat
  <2>1. TAKE j \in 1..Len(s)
  <2>2. s[j] \in Seq(C) /\ j \in 0..Len(s) /\ j - 1 \in 0..Len(s)
    BY <1>0, <1>4, <2>1
  <2> QED
    BY <1>4, <2>2
<1>9. \* Between two parts with an "&" between their conditions there is one in r.
      ASSUME NEW i \in 1..Len(s), NEW j \in 1..Len(s), i < j, NEW k \in DOMAIN f, k > i, k =< j,
             f[k].sep # "|", NEW p, NEW q, p \in 1..at[i], q \in 1..Len(r), q > at[j - 1], q =< at[j]
      PROVE  \E t \in DOMAIN r : t > p /\ t =< q /\ r[t].sep # "|"
  <2>0. i \in Nat /\ j \in Nat /\ k \in Nat /\ i >= 1 /\ k > i /\ k =< j /\ j =< Len(s)
    BY <1>4, <1>7, <1>9
  <2>1. k \in 2..Len(f) /\ j \in k..Len(f)
    BY <1>7, <2>0
  <2>2. f[k].sep = "&"
    <3>1. f[k] \in C
      BY <1>0, <1>9
    <3> QED
      BY <1>9, <3>1 DEF C, Condition
  <2>3. Len(s[j]) >= 1
    <3>1. Len(s[j]) \in Nat /\ q \in Nat /\ at[j] \in Nat /\ at[j - 1] \in Nat
      <4>1. Len(r) \in Nat /\ q \in 1..Len(r)
        BY <1>7, <1>9
      <4>2. q \in Nat
        BY ONLY <4>1
      <4> QED
        BY <1>8, <4>2
    <3>2. at[j] = at[j - 1] + Len(s[j])
      BY <1>4
    <3>3. q > at[j - 1] /\ q =< at[j]
      BY <1>9
    <3> DEFINE u == at[j - 1]
               v == at[j]
               w == Len(s[j])
    <3>4. u \in Nat /\ v \in Nat /\ w \in Nat /\ q \in Nat /\ v = u + w /\ q > u /\ q =< v
      BY <3>1, <3>2, <3>3
    <3> HIDE DEF u, v, w
    <3>5. w >= 1
      BY ONLY <3>4
    <3> QED
      BY <3>5 DEF w
  <2>4. PICK m \in k..j : Len(s[m]) >= 1 /\ s[m][1].sep = "&"
    BY <2>1, <2>2, <2>3 DEF Faithful
  <2>5. m \in 1..Len(s) /\ i =< m - 1 /\ m - 1 \in 0..Len(s) /\ i \in 0..Len(s)
        /\ j - 1 \in 0..Len(s) /\ m =< j /\ m - 1 =< j - 1
    <3>1. m \in k..j
      BY <2>4
    <3>2. Len(s) \in Nat
      BY <1>4
    <3> QED
      BY ONLY <2>0, <3>1, <3>2
  <2>6. at[i] =< at[m - 1] /\ at[m - 1] =< at[j - 1]
    BY <1>6, <2>5
  <2> DEFINE t == at[m - 1] + 1
  <2>7. r[t].sep = "&"
    <3>1. 1 \in 1..Len(s[m])
      BY <1>8, <2>4, <2>5
    <3> QED
      BY <1>4, <2>4, <2>5, <3>1
  <2>8. at[m - 1] \in Nat /\ at[i] \in Nat /\ at[j - 1] \in Nat
    BY <1>8, <1>9, <2>5
  <2>9. q \in Nat /\ p \in Nat /\ p >= 1 /\ p =< at[i] /\ q > at[j - 1] /\ q =< Len(r)
    <3>1. Len(r) \in Nat
      BY <1>7
    <3>2. p \in 1..at[i] /\ q \in 1..Len(r) /\ q > at[j - 1]
      BY <1>9
    <3> QED
      BY ONLY <2>8, <3>1, <3>2
  <2>10. t > p /\ t =< q /\ t \in 1..Len(r)
    <3>1. Len(r) \in Nat
      BY <1>7
    <3> DEFINE x == at[i]
               y == at[m - 1]
               z == at[j - 1]
               n == Len(r)
    <3>2. x \in Nat /\ y \in Nat /\ z \in Nat /\ n \in Nat /\ x =< y /\ y =< z
          /\ q \in Nat /\ p \in Nat /\ p >= 1 /\ p =< x /\ q > z /\ q =< n
      BY <2>6, <2>8, <2>9, <3>1
    <3> HIDE DEF x, y, z, n
    <3>3. y + 1 > p /\ y + 1 =< q /\ y + 1 \in 1..n
      BY ONLY <3>2
    <3> QED
      BY <3>3 DEF y, n
  <2>11. t \in DOMAIN r
    BY <1>7, <2>10
  <2> HIDE DEF t
  <2> QED
    BY <2>7, <2>10, <2>11
<1>10. SUFFICES ASSUME NEW i \in DOMAIN f, ~OwnOnly(f[i]), ~Holds(f[i], item)
                PROVE  \E j \in DOMAIN f : Joined(f, i, j) /\ Holds(f[j], item)
  <2>1. \A i \in DOMAIN f : Joined(f, i, i)
    BY <1>7 DEF Joined
  <2> QED
    BY <2>1 DEF Met
<1>11. PICK a \in 1..Len(s[i]) : ~OwnOnly(s[i][a])
  BY <1>10 DEF Faithful
<1> DEFINE p == at[i - 1] + a
<1>12. /\ i \in 1..Len(s) /\ i \in Nat /\ p \in Nat /\ p >= 1 /\ p > at[i - 1] /\ p =< at[i]
       /\ at[i] \in Nat /\ r[p] = s[i][a]
  <2>1. i \in 1..Len(s) /\ i \in Nat
    BY <1>4, <1>7, <1>10
  <2>2. Len(s[i]) \in Nat /\ at[i] \in Nat /\ at[i - 1] \in Nat
    BY <1>8, <2>1
  <2>3. a \in Nat /\ a >= 1 /\ a =< Len(s[i])
    BY <1>11, <2>2
  <2>4. at[i] = at[i - 1] + Len(s[i]) /\ r[p] = s[i][a]
    BY <1>4, <1>11, <2>1
  <2> DEFINE u == at[i - 1]
             v == at[i]
             w == Len(s[i])
  <2>5. u \in Nat /\ w \in Nat /\ v = u + w /\ a \in Nat /\ a >= 1 /\ a =< w
    BY <2>2, <2>3, <2>4
  <2> HIDE DEF u, v, w
  <2>6. u + a \in Nat /\ u + a >= 1 /\ u + a > u /\ u + a =< v
    BY ONLY <2>5
  <2> QED
    BY <2>1, <2>2, <2>4, <2>6 DEF u, v
<1>13. p \in DOMAIN r
  <2>1. i \in 0..Len(s) /\ Len(s) \in 0..Len(s) /\ i =< Len(s)
    BY <1>4, <1>12
  <2>2. at[i] =< at[Len(s)]
    BY <1>6, <2>1
  <2> HIDE DEF p
  <2> QED
    BY <1>4, <1>7, <1>12, <2>2
<1> HIDE DEF p
<1>14. PICK q \in DOMAIN r : Joined(r, p, q) /\ Holds(r[q], item)
  BY <1>2, <1>11, <1>12, <1>13 DEF Met
<1>15. PICK j \in 1..Len(s) :
         /\ q > at[j - 1] /\ q =< at[j]
         /\ q - at[j - 1] \in 1..Len(s[j]) /\ r[q] = s[j][q - at[j - 1]]
  BY <1>6, <1>7, <1>14
<1>16. j \in DOMAIN f /\ Holds(f[j], item)
  BY <1>7, <1>14, <1>15 DEF Faithful
<1>17. p \in 1..Len(r) /\ q \in 1..Len(r) /\ p \in 1..at[i] /\ q \in 1..at[j]
       /\ \A t \in DOMAIN r : (t > p /\ t =< q) \/ (t > q /\ t =< p) => r[t].sep = "|"
  <2>1. q \in 1..Len(r) /\ p \in 1..Len(r) /\ p \in 1..at[i]
    BY <1>7, <1>12, <1>13, <1>14
  <2>2. at[j] \in Nat
    BY <1>8
  <2>3. q \in 1..at[j]
    BY <1>7, <1>15, <2>1, <2>2
  <2> QED
    BY <1>14, <2>1, <2>3 DEF Joined
<1>18. ASSUME NEW k \in DOMAIN f, (k > i /\ k =< j) \/ (k > j /\ k =< i)
       PROVE  f[k].sep = "|"
  <2>1. CASE k > i /\ k =< j
    <3>1. i < j
      BY <1>7, <1>12, <2>1
    <3> QED
      BY <1>9, <1>12, <1>15, <1>17, <2>1, <3>1
  <2>2. CASE k > j /\ k =< i
    <3>1. j < i
      BY <1>7, <1>12, <2>2
    <3> QED
      BY <1>9, <1>12, <1>15, <1>17, <2>2, <3>1
  <2> QED
    BY <1>18, <2>1, <2>2
<1> QED
  BY <1>16, <1>18 DEF Joined

\* h is f, condition for condition, joined alike, and no condition easier.
Alike(h, f, item) ==
  /\ Len(h) = Len(f)
  /\ \A i \in DOMAIN f : i # 1 => h[i].sep = f[i].sep
  /\ \A i \in DOMAIN f : ~OwnOnly(f[i]) => ~OwnOnly(h[i])
  /\ \A i \in DOMAIN f : Holds(h[i], item) => Holds(f[i], item)

\* Such a filter shows no more.
LEMMA AlikeShowsNoMore ==
  ASSUME NEW f \in Seq(Condition), NEW h \in Seq(Condition), NEW item,
         Alike(h, f, item), Met(h, item)
  PROVE  Met(f, item)
<1>1. DOMAIN h = DOMAIN f /\ \A i \in DOMAIN f : i \in Nat /\ i >= 1
  BY DEF Alike
<1>2. SUFFICES ASSUME NEW i \in DOMAIN f, ~OwnOnly(f[i])
               PROVE  \E j \in DOMAIN f : Joined(f, i, j) /\ Holds(f[j], item)
  BY DEF Met
<1>3. PICK j \in DOMAIN f : Joined(h, i, j) /\ Holds(h[j], item)
  BY <1>1, <1>2 DEF Alike, Met
<1>4. Joined(f, i, j)
  <2>1. SUFFICES ASSUME NEW k \in DOMAIN f, (k > i /\ k <= j) \/ (k > j /\ k <= i)
                 PROVE  f[k].sep = "|"
    BY DEF Joined
  <2>2. k # 1
    BY <1>1, <1>2, <1>3, <2>1
  <2> QED
    BY <1>1, <1>3, <2>1, <2>2 DEF Alike, Joined
<1> QED
  BY <1>3, <1>4 DEF Alike

-----------------------------------------------------------------------------
(* What each rewriting shows. *)

\* The string's first separator says nothing.
LEMMA SerializedShowsNoMore ==
  ASSUME NEW f \in Seq(Condition), NEW item, Met(Serialized(f), item)
  PROVE  Met(f, item)
<1> DEFINE h == Serialized(f)
<1>1. /\ h \in Seq(Condition) /\ Len(h) = Len(f)
      /\ \A i \in DOMAIN f : /\ h[i].field = f[i].field
                             /\ h[i].op = f[i].op
                             /\ h[i].values = f[i].values
                             /\ i # 1 => h[i] = f[i]
  BY SerializedStays
<1>2. Met(h, item)
  OBVIOUS
<1> HIDE DEF h
<1>3. Alike(h, f, item)
  BY <1>1 DEF Alike, OwnOnly, IsLabelAllow, Holds
<1> QED
  BY <1>1, <1>2, <1>3, AlikeShowsNoMore

\* Each condition of f stays, less labels of ours, or was an exclude of ours that nothing was
\* grouped by.
Trimmed(s, f) ==
  /\ Len(s) = Len(f)
  /\ \A i \in DOMAIN f :
       \/ s[i] = <<>> /\ ~KeepsGroups(f, i) /\ IsExclude(f[i]) /\ f[i].values \subseteq Ours
       \/ /\ Len(s[i]) = 1
          /\ s[i][1].op = f[i].op /\ s[i][1].sep = f[i].sep
          /\ s[i][1].values \ Ours = f[i].values \ Ours
          /\ OwnOnly(s[i][1]) => OwnOnly(f[i])

\* Trimming shows no more (remove_label_excludes, _lift_unenforced_labels: a clause whose loss would
\* regroup the owner's conditions is left).
LEMMA TrimmedShowsNoMore ==
  ASSUME NEW f \in Seq(Condition), NEW s \in Seq(Seq(Condition)), NEW item \in Items,
         Trimmed(s, f), Met(FlattenSeq(s), item)
  PROVE  Met(f, item)
<1>1. Len(f) \in Nat /\ DOMAIN f = 1..Len(f) /\ \A i \in DOMAIN f : f[i] \in Condition
  OBVIOUS
<1>2. ASSUME NEW k \in 2..Len(f), NEW j \in k..Len(f), f[k].sep = "&", Len(s[j]) >= 1
      PROVE  \E m \in k..j : Len(s[m]) >= 1 /\ s[m][1].sep = "&"
  <2>1. /\ k \in DOMAIN f /\ j \in DOMAIN f /\ k \in k..j /\ j \in k..j
        /\ k \in Nat /\ j \in Nat /\ k > 1
    BY <1>1, <1>2
  <2>2. CASE s[k] # <<>>
    <3>1. Len(s[k]) = 1 /\ s[k][1].sep = "&"
      BY <1>2, <2>1, <2>2 DEF Trimmed
    <3> QED
      BY <2>1, <3>1
  <2>3. CASE s[k] = <<>>
    <3>1. ~KeepsGroups(f, k)
      <4>1. Len(s[k]) # 1
        BY <2>3
      <4> QED
        BY <2>1, <4>1 DEF Trimmed
    <3>2. k # j
      BY <1>2, <2>3
    <3>3. f[j].sep # "|"
      <4>1. j > k
        BY <1>1, <1>2, <2>1, <3>2
      <4> QED
        BY <1>2, <2>1, <3>1, <4>1 DEF KeepsGroups
    <3>4. f[j].sep = "&"
      <4>1. f[j] \in Condition
        BY <1>1, <2>1
      <4> QED
        BY <3>3, <4>1 DEF Condition
    <3>5. Len(s[j]) = 1 /\ s[j][1].sep = f[j].sep
      <4>1. s[j] # <<>>
        BY <1>2
      <4> QED
        BY <2>1, <4>1 DEF Trimmed
    <3> QED
      BY <2>1, <3>4, <3>5
  <2> QED
    BY <2>2, <2>3
<1>3. ASSUME NEW i \in DOMAIN f
      PROVE  /\ \/ OwnOnly(f[i])
                \/ Holds(f[i], item)
                \/ \E a \in 1..Len(s[i]) : ~OwnOnly(s[i][a])
             /\ \A a \in 1..Len(s[i]) : Holds(s[i][a], item) => Holds(f[i], item)
  <2>1. CASE s[i] = <<>> /\ IsExclude(f[i]) /\ f[i].values \subseteq Ours
    <3>1. Holds(f[i], item)
      BY <2>1, OursAskNothing
    <3> QED
      BY <3>1
  <2>2. CASE /\ Len(s[i]) = 1
             /\ s[i][1].op = f[i].op
             /\ s[i][1].values \ Ours = f[i].values \ Ours
             /\ OwnOnly(s[i][1]) => OwnOnly(f[i])
    <3>1. Holds(s[i][1], item) => Holds(f[i], item)
      BY <2>2, HoldsAlike
    <3>2. 1..Len(s[i]) = {1}
      BY <2>2
    <3> QED
      BY <2>2, <3>1, <3>2
  <2> QED
    BY <1>3, <2>1, <2>2 DEF Trimmed
<1>4. Faithful(s, f, item)
  BY <1>2, <1>3 DEF Faithful, Trimmed
<1> QED
  BY <1>4, PartsShowNoMore

\* An exclude less some labels of ours is one that asks the same of the owner's items.
LEMMA TrimmedExclude ==
  ASSUME NEW c \in Condition, NEW labels \in SUBSET Ours, IsExclude(c), ~(c.values \subseteq labels)
  PROVE  /\ Without(c, labels).op = c.op /\ Without(c, labels).sep = c.sep
         /\ Without(c, labels).values \ Ours = c.values \ Ours
         /\ ~OwnOnly(Without(c, labels))
<1> DEFINE d == Without(c, labels)
<1>1. d.field = c.field /\ d.op = c.op /\ d.sep = c.sep /\ d.values = c.values \ labels
  BY WithoutStays
<1> HIDE DEF d
<1>2. d.values \ Ours = c.values \ Ours
  BY <1>1
<1>3. ~OwnOnly(d)
  BY <1>1 DEF OwnOnly, IsLabelAllow, IsExclude
<1> QED
  BY <1>1, <1>2, <1>3 DEF d

\* Removing labels of ours shows no more of the owner's library.
LEMMA RemovedShowsNoMore ==
  ASSUME NEW f \in Seq(Condition), NEW labels \in SUBSET Ours, NEW item \in Items,
         Met(Removed(f, labels), item)
  PROVE  Met(f, item)
<1>1. PICK s \in Seq(Seq(Condition)) :
        /\ Len(s) = Len(f)
        /\ Removed(f, labels) = Serialized(FlattenSeq(s))
        /\ \A i \in DOMAIN f :
             /\ ~IsExclude(f[i]) => s[i] = <<f[i]>>
             /\ IsExclude(f[i]) /\ ~(f[i].values \subseteq labels) => s[i] = <<Without(f[i], labels)>>
             /\ IsExclude(f[i]) /\ f[i].values \subseteq labels =>
                  \/ s[i] = <<>> /\ ~KeepsGroups(f, i)
                  \/ s[i] = <<f[i]>> /\ KeepsGroups(f, i)
  BY RemovedParts
<1>2. Trimmed(s, f)
  <2>1. SUFFICES ASSUME NEW i \in DOMAIN f
                 PROVE  \/ s[i] = <<>> /\ ~KeepsGroups(f, i) /\ IsExclude(f[i]) /\ f[i].values \subseteq Ours
                        \/ /\ Len(s[i]) = 1
                           /\ s[i][1].op = f[i].op /\ s[i][1].sep = f[i].sep
                           /\ s[i][1].values \ Ours = f[i].values \ Ours
                           /\ OwnOnly(s[i][1]) => OwnOnly(f[i])
    BY <1>1 DEF Trimmed
  <2>2. f[i] \in Condition
    BY <2>1
  <2> DEFINE c == f[i]
             d == Without(f[i], labels)
  <2>3. s[i] = <<c>> \/ (s[i] = <<d>> /\ IsExclude(c) /\ ~(c.values \subseteq labels))
        \/ (s[i] = <<>> /\ ~KeepsGroups(f, i) /\ IsExclude(c) /\ c.values \subseteq labels)
    BY <1>1, <2>1
  <2>4. IsExclude(c) /\ ~(c.values \subseteq labels) =>
          d.op = c.op /\ d.sep = c.sep /\ d.values \ Ours = c.values \ Ours /\ ~OwnOnly(d)
    BY <2>2, TrimmedExclude
  <2> HIDE DEF c, d
  <2>5. CASE s[i] = <<c>>
    <3>1. Len(s[i]) = 1 /\ s[i][1] = c
      BY <2>5
    <3> QED
      BY <3>1 DEF c
  <2>6. CASE s[i] = <<d>> /\ IsExclude(c) /\ ~(c.values \subseteq labels)
    <3>1. Len(s[i]) = 1 /\ s[i][1] = d
      BY <2>6
    <3> QED
      BY <2>4, <2>6, <3>1 DEF c
  <2>7. CASE s[i] = <<>> /\ ~KeepsGroups(f, i) /\ IsExclude(c) /\ c.values \subseteq labels
    BY <2>7 DEF c
  <2> QED
    BY <2>3, <2>5, <2>6, <2>7
<1>3. FlattenSeq(s) \in Seq(Condition)
  <2> DEFINE C == Condition
  <2>1. s \in Seq(Seq(C))
    OBVIOUS
  <2> HIDE DEF C
  <2>2. FlattenSeq(s) \in Seq(C)
    BY <2>1, FlattenLays
  <2> QED
    BY <2>2 DEF C
<1>4. Met(FlattenSeq(s), item)
  BY <1>1, <1>3, SerializedShowsNoMore
<1> QED
  BY <1>2, <1>4, TrimmedShowsNoMore

\* So does lifting what stands where Plex does not apply it.
LEMMA LiftedShowsNoMore ==
  ASSUME NEW f \in Seq(Condition), NEW item \in Items, Met(Lifted(f), item)
  PROVE  Met(f, item)
<1>1. PICK s \in Seq(Seq(Condition)) :
        /\ Len(s) = Len(f)
        /\ Lifted(f) = FlattenSeq(s)
        /\ \A i \in DOMAIN f :
             /\ i \notin Stray(f) => s[i] = <<f[i]>>
             /\ i \in Stray(f) /\ ~(f[i].values \subseteq Ours) => s[i] = <<Without(f[i], Ours)>>
             /\ i \in Stray(f) /\ f[i].values \subseteq Ours =>
                  \/ s[i] = <<>> /\ ~KeepsGroups(f, i)
                  \/ s[i] = <<f[i]>> /\ KeepsGroups(f, i)
  BY LiftedParts
<1>2. Trimmed(s, f)
  <2>1. SUFFICES ASSUME NEW i \in DOMAIN f
                 PROVE  \/ s[i] = <<>> /\ ~KeepsGroups(f, i) /\ IsExclude(f[i]) /\ f[i].values \subseteq Ours
                        \/ /\ Len(s[i]) = 1
                           /\ s[i][1].op = f[i].op /\ s[i][1].sep = f[i].sep
                           /\ s[i][1].values \ Ours = f[i].values \ Ours
                           /\ OwnOnly(s[i][1]) => OwnOnly(f[i])
    BY <1>1 DEF Trimmed
  <2>2. f[i] \in Condition /\ (i \in Stray(f) => IsExclude(f[i]))
    BY <2>1 DEF Stray
  <2> DEFINE c == f[i]
             d == Without(f[i], Ours)
  <2>3. s[i] = <<c>> \/ (s[i] = <<d>> /\ IsExclude(c) /\ ~(c.values \subseteq Ours))
        \/ (s[i] = <<>> /\ ~KeepsGroups(f, i) /\ IsExclude(c) /\ c.values \subseteq Ours)
    BY <1>1, <2>1, <2>2
  <2>4. IsExclude(c) /\ ~(c.values \subseteq Ours) =>
          d.op = c.op /\ d.sep = c.sep /\ d.values \ Ours = c.values \ Ours /\ ~OwnOnly(d)
    BY <2>2, TrimmedExclude
  <2> HIDE DEF c, d
  <2>5. CASE s[i] = <<c>>
    <3>1. Len(s[i]) = 1 /\ s[i][1] = c
      BY <2>5
    <3> QED
      BY <3>1 DEF c
  <2>6. CASE s[i] = <<d>> /\ IsExclude(c) /\ ~(c.values \subseteq Ours)
    <3>1. Len(s[i]) = 1 /\ s[i][1] = d
      BY <2>6
    <3> QED
      BY <2>4, <2>6, <3>1 DEF c
  <2>7. CASE s[i] = <<>> /\ ~KeepsGroups(f, i) /\ IsExclude(c) /\ c.values \subseteq Ours
    BY <2>7 DEF c
  <2> QED
    BY <2>3, <2>5, <2>6, <2>7
<1> QED
  BY <1>1, <1>2, TrimmedShowsNoMore

\* So does placing labels of ours: into an exclude, or behind an "&".
LEMMA PlacedShowsNoMore ==
  ASSUME NEW f \in Seq(Condition), NEW missing \in SUBSET Ours, NEW item \in Items,
         Met(Placed(f, missing), item)
  PROVE  Met(f, item)
<1> DEFINE targets == {i \in Enforced(f) : IsExclude(f[i])}
<1>1. CASE missing = {}
  BY <1>1 DEF Placed
<1>2. CASE missing # {} /\ targets # {}
  <2> DEFINE t == Min(targets)
             h == [f EXCEPT ![t].values = @ \cup missing]
             d == [f[t] EXCEPT !.values = @ \cup missing]
  <2>1. t \in targets
    <3>1. targets \in SUBSET Nat
      BY DEF Enforced
    <3> QED
      BY <1>2, <3>1, FirstPosition
  <2>2. t \in DOMAIN f /\ IsExclude(f[t])
    BY <2>1 DEF Enforced
  <2>3. Placed(f, missing) = h
    BY <1>2 DEF Placed
  <2> HIDE DEF t
  <2>4. d.field = f[t].field /\ d.op = f[t].op /\ d.sep = f[t].sep /\ d.values \ Ours = f[t].values \ Ours
    <3>1. f[t] \in Condition
      BY <2>2
    <3> QED
      BY <3>1 DEF Condition
  <2>5. Met(h, item) /\ h \in Seq(Condition)
    <3>1. missing \in SUBSET Labels
      BY DEF Labels
    <3> QED
      BY <2>3, <3>1, PlacedApplies
  <2>6. Len(h) = Len(f) /\ h[t] = d /\ \A i \in DOMAIN f : i # t => h[i] = f[i]
    BY <2>2
  <2> HIDE DEF h, d
  <2>7. ~OwnOnly(d)
    BY <2>2, <2>4 DEF OwnOnly, IsLabelAllow, IsExclude
  <2>8. Holds(d, item) => Holds(f[t], item)
    BY <2>4, HoldsAlike
  <2>9. Alike(h, f, item)
    <3>1. ASSUME NEW i \in DOMAIN f
          PROVE  h[i].sep = f[i].sep /\ (~OwnOnly(f[i]) => ~OwnOnly(h[i]))
                 /\ (Holds(h[i], item) => Holds(f[i], item))
      <4>1. CASE i = t
        BY <2>4, <2>6, <2>7, <2>8, <4>1
      <4>2. CASE i # t
        BY <2>6, <3>1, <4>2
      <4> QED
        BY <4>1, <4>2
    <3> QED
      BY <2>6, <3>1 DEF Alike
  <2> QED
    BY <2>5, <2>9, AlikeShowsNoMore
<1>3. CASE missing # {} /\ targets = {}
  <2> DEFINE h == Append(f, NewExclude(missing))
             n == Len(f) + 1
  <2>1. Met(h, item)
    BY <1>3 DEF Placed
  <2>2. /\ DOMAIN h = 1..n /\ DOMAIN f = 1..Len(f) /\ Len(f) \in Nat
        /\ h[n] = NewExclude(missing)
        /\ \A i \in DOMAIN f : h[i] = f[i]
    OBVIOUS
  <2> HIDE DEF h
  <2>3. h[n].sep # "|" /\ n \in DOMAIN h
    BY <2>2 DEF NewExclude
  <2>4. SUFFICES ASSUME NEW i \in DOMAIN f, ~OwnOnly(f[i])
                 PROVE  \E j \in DOMAIN f : Joined(f, i, j) /\ Holds(f[j], item)
    BY DEF Met
  <2>5. i \in DOMAIN h /\ h[i] = f[i] /\ i \in Nat /\ i < n
    BY <2>2, <2>4
  <2>6. PICK j \in DOMAIN h : Joined(h, i, j) /\ Holds(h[j], item)
    BY <2>1, <2>4, <2>5 DEF Met
  <2>7. j # n
    BY <2>3, <2>5, <2>6 DEF Joined
  <2>8. j \in DOMAIN f
    BY <2>2, <2>6, <2>7
  <2>9. Joined(f, i, j)
    <3>1. \A k \in DOMAIN f : k \in DOMAIN h /\ h[k] = f[k]
      BY <2>2
    <3> QED
      BY <2>6, <3>1 DEF Joined
  <2> QED
    BY <2>2, <2>6, <2>8, <2>9
<1> QED
  BY <1>1, <1>2, <1>3

\* The merge shows no more.
LEMMA MergedShowsNoMore ==
  ASSUME NEW f \in Seq(Condition), NEW labels \in SUBSET Ours, NEW item \in Items,
         Met(Merged(f, labels), item)
  PROVE  Met(f, item)
<1> DEFINE wanted == labels \cup (ExcludesAt(f, Stray(f)) \cap Ours)
           missing == wanted \ Applied(Lifted(f))
<1>1. missing \in SUBSET Ours /\ missing \in SUBSET Labels
  BY DEF Labels
<1>2. Merged(f, labels) = Serialized(Placed(Lifted(f), missing))
  BY DEF Merged
<1> HIDE DEF missing
<1>3. Lifted(f) \in Seq(Condition)
  BY LiftedApplies
<1>4. Placed(Lifted(f), missing) \in Seq(Condition)
  BY <1>1, <1>3, PlacedApplies
<1>5. Met(Placed(Lifted(f), missing), item)
  BY <1>2, <1>4, SerializedShowsNoMore
<1>6. Met(Lifted(f), item)
  BY <1>1, <1>3, <1>5, PlacedShowsNoMore
<1> QED
  BY <1>6, LiftedShowsNoMore

\* Dropping clauses that only admit the own row shows no more: what an "&" kept apart stays apart
\* (_drop_condition).
LEMMA OwnClausesShowNoMore ==
  ASSUME NEW f \in Seq(Condition), NEW groups, NEW item \in Items,
         Met(WithoutConditions(f, OwnClauses(f, groups)), item)
  PROVE  Met(f, item)
<1> DEFINE dropped == OwnClauses(f, groups)
<1>1. \A i \in dropped : OwnOnly(f[i])
  BY DEF OwnClauses, OwnOnly
<1>2. PICK s \in Seq(Seq(Condition)) :
        WithoutConditions(f, dropped) = FlattenSeq(s) /\ Dropped(s, f, dropped)
  BY WithoutConditionsParts
<1>3. Met(FlattenSeq(s), item)
  BY <1>2
<1> HIDE DEF dropped
<1>4. Len(f) \in Nat /\ DOMAIN f = 1..Len(f)
  OBVIOUS
<1>5. ASSUME NEW k \in 2..Len(f), NEW j \in k..Len(f), f[k].sep = "&", Len(s[j]) >= 1
      PROVE  \E m \in k..j : Len(s[m]) >= 1 /\ s[m][1].sep = "&"
  <2>1. k \in Nat /\ j \in Nat /\ k >= 2 /\ k =< j /\ j =< Len(f) /\ j \in DOMAIN f
    BY <1>4, <1>5
  <2>2. j \notin dropped
    <3>1. s[j] # <<>>
      BY <1>5
    <3> QED
      BY <1>2, <2>1, <3>1 DEF Dropped
  <2> DEFINE rest == {x \in k..j : x \notin dropped}
             m == Min(rest)
  <2>3. rest \in SUBSET Nat /\ rest # {}
    BY <2>1, <2>2
  <2>4. m \in rest /\ \A y \in rest : m =< y
    BY <2>3, FirstPosition
  <2> HIDE DEF m
  <2>5. m \in k..j /\ m \notin dropped /\ m \in Nat
    BY <2>1, <2>4
  <2>6. m \in DOMAIN f /\ k \in 2..m
    BY <1>4, <2>1, <2>5
  <2>7. \A x \in k..(m - 1) : x \in dropped
    <3>1. TAKE x \in k..(m - 1)
    <3>2. x \in Nat /\ x \in k..j /\ ~(m =< x)
      BY <2>1, <2>5, <3>1
    <3> QED
      BY <2>4, <3>2
  <2>8. Len(s[m]) = 1 /\ s[m][1].sep = "&"
    BY <1>2, <1>5, <2>5, <2>6, <2>7 DEF Dropped
  <2> QED
    BY <2>5, <2>8
<1>6. ASSUME NEW i \in DOMAIN f
      PROVE  /\ \/ OwnOnly(f[i])
                \/ \E a \in 1..Len(s[i]) : ~OwnOnly(s[i][a])
             /\ \A a \in 1..Len(s[i]) : Holds(s[i][a], item) => Holds(f[i], item)
  <2>1. CASE i \in dropped
    <3>1. s[i] = <<>>
      BY <1>2, <1>6, <2>1 DEF Dropped
    <3> QED
      BY <1>1, <2>1, <3>1
  <2>2. CASE i \notin dropped
    <3>1. /\ Len(s[i]) = 1
          /\ s[i][1].field = f[i].field /\ s[i][1].op = f[i].op /\ s[i][1].values = f[i].values
      BY <1>2, <1>6, <2>2 DEF Dropped
    <3>2. 1..Len(s[i]) = {1}
      BY <3>1
    <3>3. OwnOnly(s[i][1]) => OwnOnly(f[i])
      BY <3>1 DEF OwnOnly, IsLabelAllow
    <3>4. Holds(s[i][1], item) => Holds(f[i], item)
      BY <3>1, HoldsAlike
    <3> QED
      BY <3>2, <3>3, <3>4
  <2> QED
    BY <2>1, <2>2
<1>7. Faithful(s, f, item)
  BY <1>2, <1>5, <1>6 DEF Faithful, Dropped
<1> QED
  BY <1>3, <1>7, PartsShowNoMore

\* Admitting the own row to the owner's allow lists shows no more of what the owner has.
LEMMA WidenedShowsNoMore ==
  ASSUME NEW f \in Seq(Condition), NEW item \in Items, Met(Widened(f), item)
  PROVE  Met(f, item)
<1>1. PICK s \in Seq(Seq(Condition)) :
        /\ Len(s) = Len(f)
        /\ Widened(f) = FlattenSeq(s)
        /\ \A i \in DOMAIN f :
             /\ IsExclude(f[i]) => Len(s[i]) >= 1 /\ s[i][1] = f[i]
             /\ Len(s[i]) >= 1
             /\ Widens(s[i][1], f[i])
             /\ \A k \in 2..Len(s[i]) : OwnOnly(s[i][k])
  BY WidenedParts
<1>2. Len(f) \in Nat /\ DOMAIN f = 1..Len(f) /\ \A i \in DOMAIN f : Len(s[i]) \in Nat /\ f[i] \in Condition
  BY <1>1
<1>3. ASSUME NEW k \in 2..Len(f), NEW j \in k..Len(f), f[k].sep = "&", Len(s[j]) >= 1
      PROVE  \E m \in k..j : Len(s[m]) >= 1 /\ s[m][1].sep = "&"
  <2>1. k \in k..j /\ k \in DOMAIN f
    BY <1>2, <1>3
  <2>2. Len(s[k]) >= 1 /\ s[k][1].sep = "&"
    BY <1>1, <1>3, <2>1 DEF Widens
  <2> QED
    BY <2>1, <2>2
<1>4. ASSUME NEW i \in DOMAIN f
      PROVE  /\ \/ OwnOnly(f[i])
                \/ \E a \in 1..Len(s[i]) : ~OwnOnly(s[i][a])
             /\ \A a \in 1..Len(s[i]) : Holds(s[i][a], item) => Holds(f[i], item)
  <2> DEFINE c == f[i]
             d == s[i][1]
  <2>1. Widens(d, c) /\ 1 \in 1..Len(s[i]) /\ c.values # {}
    <3>1. f[i] \in Condition /\ Len(s[i]) >= 1 /\ Len(s[i]) \in Nat
      BY <1>1, <1>2, <1>4
    <3> QED
      BY <1>1, <1>4, <3>1 DEF Condition, NamesItsOwn
  <2> HIDE DEF c, d
  <2>2. OwnOnly(d) => OwnOnly(c)
    BY <2>1 DEF OwnOnly, IsLabelAllow, Widens
  <2>3. d.op = c.op /\ d.values \ Ours = c.values \ Ours
    BY <2>1 DEF Widens, Ours
  <2>4. Holds(d, item) => Holds(c, item)
    BY <2>3, HoldsAlike
  <2>5. ASSUME NEW a \in 1..Len(s[i]), Holds(s[i][a], item) PROVE Holds(c, item)
    <3>1. CASE a = 1
      BY <2>4, <2>5, <3>1 DEF d
    <3>2. CASE a # 1
      <4>1. a \in 2..Len(s[i])
        BY <1>2, <1>4, <2>5, <3>2
      <4>2. OwnOnly(s[i][a])
        BY <1>1, <1>4, <4>1
      <4> QED
        BY <2>5, <4>2, OwnOnlyFails
    <3> QED
      BY <3>1, <3>2
  <2> QED
    BY <2>1, <2>2, <2>5 DEF c, d
<1>5. Faithful(s, f, item)
  BY <1>1, <1>3, <1>4 DEF Faithful
<1> QED
  BY <1>1, <1>5, PartsShowNoMore

\* Opening the allow lists to the own row shows no more of the owner's library, ...
LEMMA AdmittedShowsNoMore ==
  ASSUME NEW f \in Seq(Condition), NEW item \in Items, Met(Admitted(f), item)
  PROVE  Met(f, item)
<1> DEFINE notOwners == {g \in Groups(f) : ~\E i \in g : OwnersAllow(f[i])}
           rest == WithoutConditions(f, OwnClauses(f, notOwners))
<1>1. rest \in Seq(Condition)
  BY OwnClausesGo
<1>2. Admitted(f) = Serialized(Widened(rest))
  BY DEF Admitted
<1>3. Met(rest, item) => Met(f, item)
  BY OwnClausesShowNoMore
<1> HIDE DEF rest
<1>4. Widened(rest) \in Seq(Condition)
  <2>1. PICK s \in Seq(Seq(Condition)) : Widened(rest) = FlattenSeq(s)
    BY <1>1, WidenedParts
  <2> DEFINE C == Condition
  <2>2. s \in Seq(Seq(C))
    OBVIOUS
  <2> HIDE DEF C
  <2>3. FlattenSeq(s) \in Seq(C)
    BY <2>2, FlattenLays
  <2> QED
    BY <2>1, <2>3 DEF C
<1>5. Met(Widened(rest), item)
  BY <1>2, <1>4, SerializedShowsNoMore
<1>6. Met(rest, item)
  BY <1>1, <1>5, WidenedShowsNoMore
<1> QED
  BY <1>3, <1>6

\* ... and taking the own label back out of them does not either.
LEMMA WithdrawnShowsNoMore ==
  ASSUME NEW f \in Seq(Condition), NEW item \in Items, Met(Withdrawn(f), item)
  PROVE  Met(f, item)
<1> DEFINE rest == WithoutConditions(f, OwnClauses(f, Groups(f)))
           Narrowed(c) == IF IsLabelAllow(c) /\ c.values # {Own} THEN Without(c, {Own}) ELSE c
           h == [i \in DOMAIN rest |-> Narrowed(rest[i])]
<1>1. rest \in Seq(Condition)
  BY OwnClausesGo
<1>2. Met(Serialized(h), item)
  BY DEF Withdrawn
<1>3. Met(rest, item) => Met(f, item)
  BY OwnClausesShowNoMore
<1> HIDE DEF rest
<1>4. ASSUME NEW i \in DOMAIN rest
      PROVE  /\ h[i] \in Condition
             /\ h[i].op = rest[i].op /\ h[i].sep = rest[i].sep
             /\ h[i].values \ Ours = rest[i].values \ Ours
             /\ OwnOnly(h[i]) => OwnOnly(rest[i])
  <2> DEFINE c == rest[i]
             d == Without(rest[i], {Own})
  <2>1. h[i] = IF IsLabelAllow(c) /\ c.values # {Own} THEN d ELSE c
    BY <1>4
  <2>2. c \in Condition
    BY <1>1, <1>4
  <2> HIDE DEF c, h
  <2>3. CASE IsLabelAllow(c) /\ c.values # {Own}
    <3>1. c.values # {}
      BY <2>2 DEF Condition, NamesItsOwn
    <3>2. ~(c.values \subseteq {Own})
      BY <2>3, <3>1
    <3>3. /\ d \in Condition /\ d.op = c.op /\ d.sep = c.sep
          /\ d.values = c.values \ {Own}
      BY <2>2, <3>2, WithoutStays DEF c
    <3> HIDE DEF d
    <3>4. ~OwnOnly(d)
      BY <3>3 DEF OwnOnly
    <3>5. d.values \ Ours = c.values \ Ours
      BY <3>3 DEF Ours
    <3> QED
      BY <2>1, <2>3, <3>3, <3>4, <3>5 DEF c
  <2>4. CASE ~(IsLabelAllow(c) /\ c.values # {Own})
    <3>1. h[i] = c
      BY <2>1, <2>4
    <3> QED
      BY <2>2, <3>1 DEF c
  <2> QED
    BY <2>3, <2>4
<1>5. DOMAIN h = DOMAIN rest /\ DOMAIN rest = 1..Len(rest) /\ Len(rest) \in Nat
  BY <1>1
<1> HIDE DEF h
<1>6. h \in Seq(Condition) /\ Len(h) = Len(rest)
  <2>1. h = [i \in 1..Len(rest) |-> h[i]]
    BY <1>5 DEF h
  <2>2. h \in [1..Len(rest) -> Condition]
    BY <1>4, <1>5, <2>1
  <2> QED
    BY <1>5, <2>2
<1>7. \A i \in DOMAIN rest : Holds(h[i], item) => Holds(rest[i], item)
  BY <1>4, HoldsAlike
<1>8. Alike(h, rest, item)
  BY <1>4, <1>6, <1>7 DEF Alike
<1>9. Met(h, item)
  BY <1>2, <1>6, SerializedShowsNoMore
<1> QED
  BY <1>1, <1>3, <1>6, <1>8, <1>9, AlikeShowsNoMore

\* A pass of the plan shows no more, ...
LEMMA PassShowsNoMore ==
  ASSUME NEW g \in Seq(Condition), NEW c \in SyncCall, NEW item \in Items, Met(Pass(g, c), item)
  PROVE  Met(g, item)
<1>1. Wanted(c) \in SUBSET Ours
  BY DEF Wanted, SyncCall
<1>2. Admitting(g, c) \in Seq(Condition)
  BY PassApplies
<1>3. Met(Admitting(g, c), item)
  BY <1>1, <1>2, MergedShowsNoMore DEF Pass
<1>4. CASE Admitting(g, c) = Admitted(g)
  BY <1>3, <1>4, AdmittedShowsNoMore
<1>5. CASE Admitting(g, c) = Withdrawn(g)
  BY <1>3, <1>5, WithdrawnShowsNoMore
<1>6. CASE Admitting(g, c) = g
  BY <1>3, <1>6
<1> QED
  BY <1>4, <1>5, <1>6, AdmittingIs

\* ... hence a sync, ...
LEMMA SyncedShowsNoMore ==
  ASSUME NEW f \in Seq(Condition), NEW c \in SyncCall, NEW item \in Items, Met(Synced(f, c), item)
  PROVE  Met(f, item)
<1> DEFINE one == Pass(f, c)
           two == Pass(one, c)
           three == Pass(two, c)
           four == Pass(three, c)
<1>1. Planned(f, c) = four
  BY PlannedPasses
<1>2. one \in Seq(Condition) /\ (Met(one, item) => Met(f, item))
  BY PassApplies, PassShowsNoMore
<1> HIDE DEF one
<1>3. two \in Seq(Condition) /\ (Met(two, item) => Met(one, item))
  BY <1>2, PassApplies, PassShowsNoMore
<1> HIDE DEF two
<1>4. three \in Seq(Condition) /\ (Met(three, item) => Met(two, item))
  BY <1>3, PassApplies, PassShowsNoMore
<1> HIDE DEF three
<1>5. four \in Seq(Condition) /\ (Met(four, item) => Met(three, item))
  BY <1>4, PassApplies, PassShowsNoMore
<1> HIDE DEF four
<1>6. Prunable(f, c) \in SUBSET Ours
  BY DEF Prunable, ShortlistLabels
<1>7. Met(four, item)
  BY <1>1, <1>5, <1>6, RemovedShowsNoMore DEF Synced
<1> QED
  BY <1>2, <1>3, <1>4, <1>5, <1>7

\* ... and so does leaving the account alone.
LEMMA ClearedShowsNoMore ==
  ASSUME NEW f \in Seq(Condition), NEW item \in Items, Met(Cleared(f), item)
  PROVE  Met(f, item)
<1> DEFINE people == PersonLabels(f)
           cleaned == Removed(f, people)
           kept == ShortlistLabels(cleaned) \cap Shared
           merged == Merged(cleaned, {})
<1>1. Cleared(f) = IF kept \subseteq Applied(cleaned) THEN cleaned ELSE Removed(merged, people)
  BY DEF Cleared
<1>2. people \in SUBSET Ours
  BY DEF PersonLabels, ShortlistLabels
<1> HIDE DEF people
<1>3. cleaned \in Seq(Condition) /\ (Met(cleaned, item) => Met(f, item))
  BY <1>2, RemovedStays, RemovedShowsNoMore
<1> HIDE DEF cleaned
<1>4. {} \in SUBSET Ours /\ {} \in SUBSET Labels
  OBVIOUS
<1>5. merged \in Seq(Condition) /\ (Met(merged, item) => Met(cleaned, item))
  BY <1>3, <1>4, MergedApplies, MergedShowsNoMore
<1> HIDE DEF merged
<1>6. Met(Removed(merged, people), item) => Met(merged, item)
  BY <1>2, <1>5, RemovedShowsNoMore
<1>7. Cleared(f) = cleaned \/ Cleared(f) = Removed(merged, people)
  BY <1>1
<1> QED
  BY <1>3, <1>5, <1>6, <1>7

\* No sync and no clearing shows more of the owner's library than the filter did, whatever the
\* owner, other tools and earlier merges left in it, and however long it is.
THEOREM NothingMoreShows == Spec => NeverShowsMore
<1>1. TypeOK /\ [Next]_vars =>
        [call # Idle => \A item \in SUBSET (Foreign \cup Ratings) :
           Shows(filter', item) => StillShows(filter, item)]_vars
  <2> SUFFICES ASSUME TypeOK, Next, call # Idle, NEW item \in Items, Shows(filter', item)
               PROVE  StillShows(filter, item)
    BY DEF Items
  <2>1. filter \in Seq(Condition) /\ call \in SyncCall \cup {LeaveAlone}
    BY DEF TypeOK
  <2>2. filter' \in Seq(Condition)
    BY StepTypes DEF TypeOK
  <2>3. Met(filter', item)
    BY <2>2, StillShowsMet, ShowsStill
  <2>4. CASE call \in SyncCall
    <3>1. filter' = Synced(filter, call)
      BY <2>4, SyncStep
    <3>2. Met(filter, item)
      BY <2>1, <2>3, <2>4, <3>1, SyncedShowsNoMore
    <3> QED
      BY <2>1, <3>2, StillShowsMet
  <2>5. CASE call = LeaveAlone
    <3>1. filter' = Cleared(filter)
      BY <2>5, ClearStep
    <3>2. Met(filter, item)
      BY <2>1, <2>3, <3>1, ClearedShowsNoMore
    <3> QED
      BY <2>1, <3>2, StillShowsMet
  <2> QED
    BY <2>1, <2>4, <2>5
<1> QED
  BY <1>1, TypeCorrect, PTL DEF Spec, NeverShowsMore
=============================================================================
