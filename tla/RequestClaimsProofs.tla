------------------------ MODULE RequestClaimsProofs ------------------------
(***************************************************************************)
(* What the ledger of claims promises for any titles, any number of inbox   *)
(* rows and claims, and any number of deaths and database errors.           *)
(***************************************************************************)
EXTENDS RequestClaims, SequenceTheorems, TLAPS

-----------------------------------------------------------------------------
(* Sequences as functions. *)

\* A function on 1..n is a sequence of length n.
LEMMA FunctionIsSeq ==
  ASSUME NEW S, NEW n \in Nat, NEW f \in [1..n -> S]
  PROVE  f \in Seq(S) /\ Len(f) = n /\ DOMAIN f = 1..n
<1>1. f \in Seq(S)
  BY SeqDef
<1>2. DOMAIN f = 1..Len(f) /\ DOMAIN f = 1..n /\ Len(f) \in Nat
  BY <1>1, LenProperties
<1>. QED BY <1>1, <1>2

\* The ledger is a function from its positions to claims.
LEMMA LedgerIsFunction ==
  ASSUME ledger \in Seq(Claim)
  PROVE  /\ ledger \in [Claims -> Claim]
         /\ Claims = 1..Len(ledger) /\ Len(ledger) \in Nat
  BY LenProperties DEF Claims

\* A step that changes claims in place keeps the ledger a ledger of its length.
LEMMA InPlace ==
  ASSUME ledger \in Seq(Claim), ledger' \in [Claims -> Claim]
  PROVE  ledger' \in Seq(Claim) /\ Len(ledger') = Len(ledger) /\ DOMAIN ledger' = Claims
  BY LedgerIsFunction, FunctionIsSeq

\* A batch is a short sequence of inbox ids.
LEMMA BatchIsSeq ==
  ASSUME NEW batch \in Batches
  PROVE  /\ batch \in [1..Len(batch) -> Ids] /\ DOMAIN batch = 1..Len(batch)
         /\ Len(batch) \in Nat /\ Len(batch) >= 1
         /\ \A j, k \in DOMAIN batch : batch[j] = batch[k] => j = k
<1>1. PICK n \in 1..MaxBatch : batch \in [1..n -> Ids]
  BY DEF Batches
<1>2. n \in Nat /\ n >= 1 /\ Len(batch) = n
  BY <1>1, FunctionIsSeq, BoundsAssumption
<1>. QED BY <1>1, <1>2 DEF Batches

-----------------------------------------------------------------------------
(* Claims. *)

\* The ways claims change keep them claims.
LEMMA ClaimOps ==
  ASSUME NEW c \in Claim
  PROVE  /\ \A s \in Statuses : [c EXCEPT !.status = s] \in Claim
         /\ CallBegins(c) \in Claim
         /\ \A outcome : Answered(c, outcome) \in Claim
         /\ \A P \in BOOLEAN : [c EXCEPT !.fresh = @ /\ P] \in Claim
         /\ Abandoned(c) \in Claim
         /\ [c EXCEPT !.wire = "sent"] \in Claim
         /\ [c EXCEPT !.status = "released", !.freed = TRUE] \in Claim
<1>. USE DEF Claim, Statuses, Wires
<1>1. \A s \in Statuses : [c EXCEPT !.status = s] \in Claim
  OBVIOUS
<1>2. CallBegins(c) \in Claim
  <2>1. c.calls \in Nat /\ c.calls + 1 \in Nat
    OBVIOUS
  <2>. QED BY <2>1 DEF CallBegins
<1>3. \A outcome : Answered(c, outcome) \in Claim
  <2>. TAKE outcome
  <2>1. Verdict(outcome) \in Statuses
    BY DEF Verdict
  <2>. QED BY <2>1 DEF Answered
<1>4. \A P \in BOOLEAN : [c EXCEPT !.fresh = @ /\ P] \in Claim
  OBVIOUS
<1>5. Abandoned(c) \in Claim
  BY DEF Abandoned
<1>6. [c EXCEPT !.wire = "sent"] \in Claim
  OBVIOUS
<1>7. [c EXCEPT !.status = "released", !.freed = TRUE] \in Claim
  OBVIOUS
<1>. QED BY <1>1, <1>2, <1>3, <1>4, <1>5, <1>6, <1>7

\* A new claim is one.
LEMMA NewClaimType ==
  ASSUME NEW t \in Titles, NEW i \in Ids \cup {0}, NEW origin \in Ways, NEW status \in Statuses
  PROVE  NewClaim(t, i, origin, status) \in Claim
  BY DEF NewClaim, Claim, Wires

\* Rewriting rows keeps the claims claims and their order.
LEMMA RewrittenType ==
  ASSUME NEW N \in Nat, NEW claims \in [1..N -> Claim], NEW rows
  PROVE  Rewritten(claims, rows) \in [1..N -> Claim]
<1>1. \A k \in 1..N : [claims[k] EXCEPT !.fresh = @ /\ claims[k].row \notin rows] \in Claim
  <2>. TAKE k \in 1..N
  <2>1. (claims[k].row \notin rows) \in BOOLEAN /\ claims[k] \in Claim
    OBVIOUS
  <2>. QED BY <2>1, ClaimOps
<1>. QED BY <1>1 DEF Rewritten

\* The row of a title is a row of the inbox, or 0.
LEMMA RowOfType == \A t : RowOf(t) \in Ids \cup {0}
  BY DEF RowOf

-----------------------------------------------------------------------------
(* Types. *)

\* Jobs and runs beside a ledger of n claims.
JobSet(n) ==
  [status : {"none", "queued", "running", "done", "failed"}, first : Nat \ {0},
   at : Nat \ {0}, last : 0..n, calling : BOOLEAN]
RunSet(n) ==
  [origin : Ways \cup {"none"}, todo : SUBSET Titles, queued : SUBSET Titles,
   sent : SUBSET Titles, claim : 0..n, halted : BOOLEAN]

\* The ways the job changes keep it a job.
LEMMA JobOps ==
  ASSUME NEW n \in Nat, NEW j \in JobSet(n)
  PROVE  /\ NextEntry(j) \in JobSet(n)
         /\ \A b \in BOOLEAN : [j EXCEPT !.calling = b] \in JobSet(n)
         /\ \A s \in {"queued", "running", "done", "failed"} : [j EXCEPT !.status = s] \in JobSet(n)
<1>1. j.at + 1 \in Nat \ {0}
  BY DEF JobSet
<1>. QED BY <1>1 DEF JobSet, NextEntry

\* The ways the run changes keep it a run.
LEMMA RunOps ==
  ASSUME NEW n \in Nat
  PROVE  /\ NoRun \in RunSet(n)
         /\ \A m \in Nat, r \in RunSet(n) : n <= m => r \in RunSet(m)
         /\ \A r \in RunSet(n), T \in SUBSET Titles, k \in 0..n :
              [r EXCEPT !.todo = T] \in RunSet(n) /\ [r EXCEPT !.todo = T, !.claim = k] \in RunSet(n)
         /\ \A r \in RunSet(n) :
              [r EXCEPT !.todo = {}, !.queued = {}, !.sent = {}, !.claim = 0] \in RunSet(n)
<1>1. 0 \in 0..n /\ {} \in SUBSET Titles
  OBVIOUS
<1>2. NoRun \in RunSet(n)
  BY <1>1 DEF NoRun, RunSet
<1>3. \A m \in Nat, r \in RunSet(n) : n <= m => r \in RunSet(m)
  <2>. SUFFICES ASSUME NEW m \in Nat, NEW r \in RunSet(n), n <= m PROVE r \in RunSet(m)
    OBVIOUS
  <2>1. 0..n \subseteq 0..m
    OBVIOUS
  <2>. QED BY <2>1 DEF RunSet
<1>4. \A r \in RunSet(n), T \in SUBSET Titles, k \in 0..n :
        [r EXCEPT !.todo = T] \in RunSet(n) /\ [r EXCEPT !.todo = T, !.claim = k] \in RunSet(n)
  BY DEF RunSet
<1>5. \A r \in RunSet(n) :
        [r EXCEPT !.todo = {}, !.queued = {}, !.sent = {}, !.claim = 0] \in RunSet(n)
  BY <1>1 DEF RunSet
<1>. QED BY <1>2, <1>3, <1>4, <1>5

\* The verdict on a claim keeps ledger and inbox well formed.
LEMMA SettleType ==
  ASSUME TypeOK, NEW k \in Claims, NEW outcome, Settle(k, outcome)
  PROVE  /\ ledger' \in Seq(Claim) /\ Len(ledger') = Len(ledger)
         /\ inbox' \in [Ids -> Row \cup {NoRow}]
<1>1. /\ ledger \in [Claims -> Claim] /\ Claims = 1..Len(ledger) /\ Len(ledger) \in Nat
      /\ ledger \in Seq(Claim)
  BY LedgerIsFunction DEF TypeOK
<1>2. Answered(ledger[k], outcome) \in Claim
  BY <1>1, ClaimOps
<1>. DEFINE L == [ledger EXCEPT ![k] = Answered(@, outcome)]
<1>3. L \in [1..Len(ledger) -> Claim]
  BY <1>1, <1>2
<1>4. ledger' \in [Claims -> Claim]
  <2>1. ledger' = Rewritten(L, {ledger[k].row})
    BY DEF Settle
  <2>. HIDE DEF L
  <2>. QED BY <1>1, <1>3, <2>1, RewrittenType
<1>5. inbox' \in [Ids -> Row \cup {NoRow}]
  <2>1. inbox \in [Ids -> Row \cup {NoRow}]
    BY DEF TypeOK
  <2>2. \A j \in Ids : inbox[j] # NoRow => [inbox[j] EXCEPT !.status = "sent"] \in Row
    BY <2>1 DEF Row
  <2>. QED BY <2>1, <2>2 DEF Settle, Filed
<1>. QED BY <1>1, <1>4, <1>5, InPlace

\* A claim changed in place.
LEMMA EditType ==
  ASSUME TypeOK, NEW k \in Claims, NEW c \in Claim, ledger' = [ledger EXCEPT ![k] = c]
  PROVE  ledger' \in Seq(Claim) /\ Len(ledger') = Len(ledger)
<1>1. ledger \in [Claims -> Claim] /\ ledger \in Seq(Claim)
  BY LedgerIsFunction DEF TypeOK
<1>2. ledger' \in [Claims -> Claim]
  BY <1>1
<1>. QED BY <1>1, <1>2, InPlace

\* A reservation extends the ledger by the batch.
LEMMA ReserveType ==
  ASSUME TypeOK, NEW batch \in Batches, NEW origin \in Ways, Reserve(batch, origin)
  PROVE  /\ ledger' \in Seq(Claim) /\ Len(ledger') = Len(ledger) + Len(batch)
         /\ Len(ledger') <= MaxClaims
         /\ \A k \in Claims : k \in DOMAIN ledger' /\ ledger'[k] = ledger[k]
         /\ \A k \in DOMAIN ledger' \ Claims :
              /\ k - Len(ledger) \in DOMAIN batch
              /\ ledger'[k] = NewClaim(inbox[batch[k - Len(ledger)]].title,
                                       batch[k - Len(ledger)], origin, "reserved")
<1>. DEFINE N == [k \in DOMAIN batch |->
          NewClaim(inbox[batch[k]].title, batch[k], origin, "reserved")]
<1>1. /\ ledger \in [Claims -> Claim] /\ Claims = 1..Len(ledger) /\ Len(ledger) \in Nat
      /\ ledger \in Seq(Claim)
  BY LedgerIsFunction DEF TypeOK
<1>2. /\ batch \in [1..Len(batch) -> Ids] /\ DOMAIN batch = 1..Len(batch) /\ Len(batch) \in Nat
  BY BatchIsSeq
<1>3. \A k \in DOMAIN batch : inbox[batch[k]].title \in Titles
  <2>. TAKE k \in DOMAIN batch
  <2>1. batch[k] \in Ids /\ inbox[batch[k]].status = "pending"
    BY <1>2 DEF Reserve
  <2>2. inbox[batch[k]] \in Row \cup {NoRow}
    BY <2>1 DEF TypeOK
  <2>. QED BY <2>1, <2>2 DEF Row, NoRow
<1>4. N \in [1..Len(batch) -> Claim]
  BY <1>2, <1>3, NewClaimType DEF Statuses
<1>5. N \in Seq(Claim) /\ Len(N) = Len(batch)
  BY <1>2, <1>4, FunctionIsSeq
<1>6. ledger' = ledger \o N
  BY DEF Reserve
<1>7. /\ ledger' \in Seq(Claim)
      /\ Len(ledger') = Len(ledger) + Len(batch)
      /\ \A i \in 1..Len(ledger) + Len(batch) :
           ledger'[i] = IF i <= Len(ledger) THEN ledger[i] ELSE N[i - Len(ledger)]
  <2>. HIDE DEF N
  <2>1. /\ ledger \o N \in Seq(Claim)
        /\ Len(ledger \o N) = Len(ledger) + Len(N)
        /\ \A i \in 1..Len(ledger) + Len(N) :
             (ledger \o N)[i] = IF i <= Len(ledger) THEN ledger[i] ELSE N[i - Len(ledger)]
    BY <1>1, <1>5, ConcatProperties
  <2>. QED BY <1>5, <1>6, <2>1
<1>8. DOMAIN ledger' = 1..Len(ledger) + Len(batch)
  BY <1>7, LenProperties
<1>9. Len(ledger') <= MaxClaims
  BY <1>7 DEF Reserve
<1>10. \A k \in Claims : k \in DOMAIN ledger' /\ ledger'[k] = ledger[k]
  <2>. SUFFICES ASSUME NEW k \in Claims
               PROVE  k \in DOMAIN ledger' /\ ledger'[k] = ledger[k]
    OBVIOUS
  <2>1. k \in 1..Len(ledger) + Len(batch) /\ k <= Len(ledger)
    BY <1>1, <1>2
  <2>. QED BY <1>7, <1>8, <2>1
<1>11. \A k \in DOMAIN ledger' \ Claims :
         k - Len(ledger) \in DOMAIN batch /\ ledger'[k] = N[k - Len(ledger)]
  <2>. SUFFICES ASSUME NEW k \in DOMAIN ledger', k \notin Claims
               PROVE  k - Len(ledger) \in DOMAIN batch /\ ledger'[k] = N[k - Len(ledger)]
    OBVIOUS
  <2>1. k \in 1..Len(ledger) + Len(batch) /\ ~(k <= Len(ledger))
    BY <1>1, <1>2, <1>8
  <2>2. k - Len(ledger) \in 1..Len(batch)
    BY <1>1, <1>2, <2>1
  <2>. HIDE DEF N
  <2>. QED BY <1>2, <1>7, <2>1, <2>2
<1>. QED BY <1>7, <1>9, <1>10, <1>11

\* Every step keeps every variable in its type.
LEMMA TypeStep == TypeOK /\ [Next]_vars => TypeOK'
<1>. SUFFICES ASSUME TypeOK, [Next]_vars PROVE TypeOK'
  OBVIOUS
<1>0. /\ ledger \in [Claims -> Claim] /\ Claims = 1..Len(ledger) /\ Len(ledger) \in Nat
      /\ ledger \in Seq(Claim) /\ Len(ledger) <= MaxClaims /\ MaxClaims \in Nat
  BY LedgerIsFunction, BoundsAssumption DEF TypeOK
<1>1. CASE OwnerSends
  <2>1. PICK batch \in Batches : Reserve(batch, "manual") /\ owner' = Batch(Len(batch))
    BY <1>1 DEF OwnerSends
  <2>2. ledger' \in Seq(Claim) /\ Len(ledger') = Len(ledger) + Len(batch) /\ Len(ledger') <= MaxClaims
    BY <1>1, <2>1, ReserveType DEF OwnerSends
  <2>3. Len(batch) \in Nat
    BY BatchIsSeq
  <2>4. owner' \in [at : Nat \ {0}, last : 0..Len(ledger')]
    BY <1>0, <2>1, <2>2, <2>3 DEF Batch
  <2>5. 0..Len(ledger) \subseteq 0..Len(ledger')
    BY <1>0, <2>2, <2>3
  <2>. QED BY <1>1, <2>2, <2>4, <2>5 DEF TypeOK, OwnerSends
<1>2. CASE Approve
  <2>1. PICK batch \in Batches :
          /\ Reserve(batch, "assistant")
          /\ job' = [status |-> "queued", first |-> Len(ledger) + 1, at |-> Len(ledger) + 1,
                     last |-> Len(ledger) + Len(batch), calling |-> FALSE]
    BY <1>2 DEF Approve
  <2>2. ledger' \in Seq(Claim) /\ Len(ledger') = Len(ledger) + Len(batch) /\ Len(ledger') <= MaxClaims
    BY <1>2, <2>1, ReserveType DEF Approve
  <2>3. Len(batch) \in Nat
    BY BatchIsSeq
  <2>4. job' \in JobSet(Len(ledger'))
    BY <1>0, <2>1, <2>2, <2>3 DEF JobSet
  <2>5. 0..Len(ledger) \subseteq 0..Len(ledger')
    BY <1>0, <2>2, <2>3
  <2>. QED BY <1>2, <2>2, <2>4, <2>5 DEF TypeOK, Approve, JobSet, RunSet
<1>3. CASE StartManual
  <2>. DEFINE k == owner.at
  <2>1. k \in Claims /\ ledger[k] \in Claim
    BY <1>0, <1>3 DEF TypeOK, StartManual, Left
  <2>2. CASE ledger' = [ledger EXCEPT ![k] = CallBegins(@)] /\ UNCHANGED owner
    <3>1. ledger' \in Seq(Claim) /\ Len(ledger') = Len(ledger)
      BY <2>1, <2>2, ClaimOps, EditType
    <3>. QED BY <1>3, <2>2, <3>1 DEF TypeOK, StartManual
  <2>3. CASE ledger' = [ledger EXCEPT ![k].status = "refused"] /\ owner' = Advanced(owner)
    <3>1. ledger' = [ledger EXCEPT ![k] = [ledger[k] EXCEPT !.status = "refused"]]
      BY <2>3
    <3>2. ledger' \in Seq(Claim) /\ Len(ledger') = Len(ledger)
      BY <2>1, <3>1, ClaimOps, EditType DEF Statuses
    <3>3. owner' \in [at : Nat \ {0}, last : 0..Len(ledger')]
      BY <1>0, <2>3, <3>2 DEF TypeOK, Advanced, NextEntry, NoBatch
    <3>. QED BY <1>3, <3>2, <3>3 DEF TypeOK, StartManual
  <2>. QED BY <1>3, <2>2, <2>3 DEF StartManual
<1>4. CASE FinishManual
  <2>1. owner.at \in Claims
    BY <1>0, <1>4 DEF TypeOK, FinishManual, OwnerCalling, Left
  <2>2. PICK outcome \in Outcomes(ledger[owner.at]) : Settle(owner.at, outcome)
    BY <1>4 DEF FinishManual
  <2>3. /\ ledger' \in Seq(Claim) /\ Len(ledger') = Len(ledger)
        /\ inbox' \in [Ids -> Row \cup {NoRow}]
    BY <2>1, <2>2, SettleType
  <2>4. owner' \in [at : Nat \ {0}, last : 0..Len(ledger')]
    BY <1>0, <1>4, <2>3 DEF TypeOK, FinishManual, Advanced, NextEntry, NoBatch
  <2>. QED BY <1>4, <2>3, <2>4 DEF TypeOK, FinishManual
<1>5. CASE JobStarts
  BY <1>5 DEF TypeOK, JobStarts
<1>6. CASE BeginDispatch
  <2>. DEFINE k == job.at
  <2>1. k \in Claims /\ ledger[k] \in Claim
    BY <1>0, <1>6 DEF TypeOK, BeginDispatch, Working, Left
  <2>2. job' \in JobSet(Len(ledger))
    <3>1. job \in JobSet(Len(ledger))
      BY DEF TypeOK, JobSet
    <3>2. job' = NextEntry(job) \/ job' = [job EXCEPT !.calling = TRUE]
      BY <1>6 DEF BeginDispatch
    <3>. QED BY <1>0, <3>1, <3>2, JobOps
  <2>3. ledger' \in Seq(Claim) /\ Len(ledger') = Len(ledger)
    <3>1. CASE UNCHANGED ledger
      BY <1>0, <3>1
    <3>2. CASE ledger' = [ledger EXCEPT ![k].status = "outcome_unknown"]
      <4>1. ledger' = [ledger EXCEPT ![k] = [ledger[k] EXCEPT !.status = "outcome_unknown"]]
        BY <3>2
      <4>. QED BY <2>1, <4>1, ClaimOps, EditType DEF Statuses
    <3>3. CASE ledger' = [ledger EXCEPT ![k].status = "refused"]
      <4>1. ledger' = [ledger EXCEPT ![k] = [ledger[k] EXCEPT !.status = "refused"]]
        BY <3>3
      <4>. QED BY <2>1, <4>1, ClaimOps, EditType DEF Statuses
    <3>4. CASE ledger' = [ledger EXCEPT ![k] = CallBegins(@)]
      BY <2>1, <3>4, ClaimOps, EditType
    <3>. QED BY <1>6, <3>1, <3>2, <3>3, <3>4 DEF BeginDispatch
  <2>. QED BY <1>6, <2>2, <2>3 DEF TypeOK, BeginDispatch, JobSet
<1>7. CASE FinishDispatch
  <2>. DEFINE k == job.at
  <2>1. k \in Claims /\ ledger[k] \in Claim
    BY <1>0, <1>7 DEF TypeOK, FinishDispatch, Working, Left
  <2>2. job' \in JobSet(Len(ledger))
    <3>1. NextEntry(job) \in JobSet(Len(ledger))
      BY <1>0, JobOps DEF TypeOK, JobSet
    <3>2. job' = [NextEntry(job) EXCEPT !.calling = FALSE]
      BY <1>7 DEF FinishDispatch
    <3>. QED BY <1>0, <3>1, <3>2, JobOps
  <2>3. /\ ledger' \in Seq(Claim) /\ Len(ledger') = Len(ledger)
        /\ inbox' \in [Ids -> Row \cup {NoRow}]
    <3>1. CASE \E outcome \in Outcomes(ledger[k]) : Settle(k, outcome)
      BY <2>1, <3>1, SettleType
    <3>2. CASE ledger' = [ledger EXCEPT ![k].status = "outcome_unknown"] /\ UNCHANGED inbox
      <4>1. ledger' = [ledger EXCEPT ![k] = [ledger[k] EXCEPT !.status = "outcome_unknown"]]
        BY <3>2
      <4>2. ledger' \in Seq(Claim) /\ Len(ledger') = Len(ledger)
        BY <2>1, <4>1, ClaimOps, EditType DEF Statuses
      <4>. QED BY <3>2, <4>2 DEF TypeOK
    <3>. QED BY <1>7, <3>1, <3>2 DEF FinishDispatch
  <2>. QED BY <1>7, <2>2, <2>3 DEF TypeOK, FinishDispatch, JobSet
<1>8. CASE JobEnds
  BY <1>8 DEF TypeOK, JobEnds
<1>9. CASE RunStarts
  <2>1. PICK origin \in Ways \cap {"automatic", "assistant_run"}, todo \in SUBSET (Titles \ Handled) :
          run' = [NoRun EXCEPT !.origin = origin, !.todo = todo, !.queued = Titles \ (Handled \cup todo)]
    BY <1>9 DEF RunStarts
  <2>2. run' \in RunSet(Len(ledger))
    <3>. DEFINE q == Titles \ (Handled \cup todo)
    <3>1. run' = [origin |-> origin, todo |-> todo, queued |-> q, sent |-> {}, claim |-> 0,
                  halted |-> FALSE]
      BY <2>1 DEF NoRun
    <3>2. q \in SUBSET Titles /\ todo \in SUBSET Titles /\ 0 \in 0..Len(ledger)
      BY <1>0
    <3>. HIDE DEF q
    <3>. QED BY <3>1, <3>2 DEF RunSet
  <2>. QED BY <1>9, <2>2 DEF TypeOK, RunStarts, RunSet
<1>10. CASE RunClaims
  <2>1. PICK t \in run.todo :
          \/ run' = [run EXCEPT !.todo = @ \ {t}] /\ UNCHANGED ledger
          \/ /\ Len(ledger) < MaxClaims
             /\ ledger' = Append(ledger, NewClaim(t, RowOf(t), run.origin, "external_started"))
             /\ run' = [run EXCEPT !.todo = @ \ {t}, !.claim = Len(ledger) + 1]
    BY <1>10 DEF RunClaims
  <2>2. CASE run' = [run EXCEPT !.todo = @ \ {t}] /\ UNCHANGED ledger
    BY <1>10, <2>2 DEF TypeOK, RunClaims
  <2>3. CASE /\ Len(ledger) < MaxClaims
             /\ ledger' = Append(ledger, NewClaim(t, RowOf(t), run.origin, "external_started"))
             /\ run' = [run EXCEPT !.todo = @ \ {t}, !.claim = Len(ledger) + 1]
    <3>1. NewClaim(t, RowOf(t), run.origin, "external_started") \in Claim
      <4>1. t \in Titles /\ run.origin \in Ways
        BY <1>10 DEF TypeOK, RunClaims, Sending
      <4>. QED BY <4>1, RowOfType, NewClaimType DEF Statuses
    <3>2. ledger' \in Seq(Claim) /\ Len(ledger') = Len(ledger) + 1
      BY <1>0, <2>3, <3>1, AppendProperties
    <3>3. run' \in RunSet(Len(ledger'))
      <4>2. /\ Len(ledger) + 1 \in 0..Len(ledger') /\ Len(ledger') \in Nat
            /\ Len(ledger) <= Len(ledger')
        BY <1>0, <3>2
      <4>3. run \in RunSet(Len(ledger))
        BY DEF TypeOK, RunSet
      <4>4. run \in RunSet(Len(ledger'))
        BY <1>0, <4>2, <4>3, RunOps
      <4>5. run.todo \ {t} \in SUBSET Titles
        BY DEF TypeOK
      <4>1. run \in RunSet(Len(ledger')) /\ run.todo \ {t} \in SUBSET Titles
        BY <4>4, <4>5
      <4>. QED BY <2>3, <4>1, <4>2, RunOps
    <3>4. 0..Len(ledger) \subseteq 0..Len(ledger') /\ Len(ledger') <= MaxClaims
      BY <1>0, <2>3, <3>2
    <3>. QED BY <1>10, <3>2, <3>3, <3>4 DEF TypeOK, RunClaims, RunSet
  <2>. QED BY <2>1, <2>2, <2>3
<1>11. CASE RunStops
  <2>1. BrokenOff \in RunSet(Len(ledger))
    BY <1>0, RunOps DEF TypeOK, RunSet, BrokenOff
  <2>. QED BY <1>11, <2>1 DEF TypeOK, RunStops, RunSet
<1>12. CASE RunRecords
  <2>. DEFINE k == run.claim
  <2>1. k \in Claims /\ ledger[k] \in Claim
    BY <1>0, <1>12 DEF TypeOK, RunRecords, RunCalling
  <2>2. PICK outcome \in Outcomes(ledger[k]), requeue \in {{ledger[k].title}, {}} :
          /\ Settle(k, outcome)
          /\ run' = [run EXCEPT !.claim = 0, !.queued = @ \cup requeue,
                       !.sent = IF outcome = "requested" THEN @ \cup {ledger[k].title} ELSE @,
                       !.halted = run.origin = "assistant_run" /\ outcome = "error"]
    BY <1>12 DEF RunRecords
  <2>3. ledger[k].title \in Titles
    BY <2>1 DEF Claim
  <2>4. run' \in RunSet(Len(ledger))
    <3>. DEFINE q == run.queued \cup requeue
                s == IF outcome = "requested" THEN run.sent \cup {ledger[k].title} ELSE run.sent
                h == run.origin = "assistant_run" /\ outcome = "error"
    <3>1. q \in SUBSET Titles /\ s \in SUBSET Titles /\ h \in BOOLEAN /\ 0 \in 0..Len(ledger)
      BY <1>0, <2>3 DEF TypeOK
    <3>2. run' = [run EXCEPT !.claim = 0, !.queued = q, !.sent = s, !.halted = h]
      BY <2>2
    <3>. HIDE DEF q, s, h
    <3>. QED BY <3>1, <3>2 DEF TypeOK, RunSet
  <2>5. /\ ledger' \in Seq(Claim) /\ Len(ledger') = Len(ledger)
        /\ inbox' \in [Ids -> Row \cup {NoRow}]
    BY <2>1, <2>2, SettleType
  <2>. QED BY <1>12, <2>4, <2>5 DEF TypeOK, RunRecords, RunSet
<1>13. CASE RunRaises
  <2>1. run.claim \in Claims /\ ledger[run.claim] \in Claim
    BY <1>0, <1>13 DEF TypeOK, RunRaises, RunCalling
  <2>2. ledger' = [ledger EXCEPT ![run.claim] = [ledger[run.claim] EXCEPT !.status = "outcome_unknown"]]
    BY <1>13 DEF RunRaises
  <2>3. ledger' \in Seq(Claim) /\ Len(ledger') = Len(ledger)
    BY <2>1, <2>2, ClaimOps, EditType DEF Statuses
  <2>4. run' \in RunSet(Len(ledger))
    BY <1>0, <1>13, RunOps DEF TypeOK, RunSet, RunRaises, BrokenOff
  <2>. QED BY <1>13, <2>3, <2>4 DEF TypeOK, RunRaises, RunSet
<1>14. CASE RunFiles
  <2>1. inbox' \in [Ids -> Row \cup {NoRow}]
    BY <1>14 DEF RunFiles, Inboxes
  <2>2. PICK rows : ledger' = Rewritten(ledger, rows)
    BY <1>14 DEF RunFiles
  <2>3. ledger' \in Seq(Claim) /\ Len(ledger') = Len(ledger)
    BY <1>0, <2>2, RewrittenType, InPlace
  <2>4. run' \in RunSet(Len(ledger))
    BY <1>0, <1>14, RunOps DEF RunFiles
  <2>. QED BY <1>14, <2>1, <2>3, <2>4 DEF TypeOK, RunFiles, RunSet
<1>15. CASE Post
  <2>1. PICK k \in Calling : ledger[k].wire = "no" /\ ledger' = [ledger EXCEPT ![k].wire = "sent"]
    BY <1>15 DEF Post
  <2>2. CASE k \in Claims
    <3>1. ledger[k] \in Claim /\ ledger' = [ledger EXCEPT ![k] = [ledger[k] EXCEPT !.wire = "sent"]]
      BY <1>0, <2>1, <2>2
    <3>2. ledger' \in Seq(Claim) /\ Len(ledger') = Len(ledger)
      BY <2>2, <3>1, ClaimOps, EditType
    <3>. QED BY <1>15, <3>2 DEF TypeOK, Post
  <2>3. CASE k \notin Claims
    <3>1. ledger' = ledger
      BY <1>0, <2>1, <2>3
    <3>. QED BY <1>15, <3>1 DEF TypeOK, Post
  <2>. QED BY <2>2, <2>3
<1>16. CASE Decide
  <2>1. PICK i \in Present :
          /\ \/ inbox' = [inbox EXCEPT ![i].status = "rejected"]
             \/ inbox' = [inbox EXCEPT ![i].status = "pending"]
             \/ inbox' = [inbox EXCEPT ![i] = NoRow]
          /\ ledger' = Rewritten(ledger, {i})
    BY <1>16 DEF Decide
  <2>2. inbox \in [Ids -> Row \cup {NoRow}] /\ inbox[i] \in Row /\ i \in Ids
    BY <2>1 DEF TypeOK, Present
  <2>3. \A s \in {"rejected", "pending"} : [inbox[i] EXCEPT !.status = s] \in Row
    BY <2>2 DEF Row
  <2>4. inbox' \in [Ids -> Row \cup {NoRow}]
    BY <2>1, <2>2, <2>3
  <2>5. ledger' \in Seq(Claim) /\ Len(ledger') = Len(ledger)
    BY <1>0, <2>1, RewrittenType, InPlace
  <2>. QED BY <1>16, <2>4, <2>5 DEF TypeOK, Decide
<1>17. CASE Release
  <2>1. PICK k \in Claims : ledger' = [ledger EXCEPT ![k].status = "released", ![k].freed = TRUE]
    BY <1>17 DEF Release
  <2>2. /\ ledger[k] \in Claim
        /\ ledger' = [ledger EXCEPT ![k] = [ledger[k] EXCEPT !.status = "released", !.freed = TRUE]]
    BY <1>0, <2>1
  <2>3. ledger' \in Seq(Claim) /\ Len(ledger') = Len(ledger)
    BY <2>2, ClaimOps, EditType
  <2>. QED BY <1>17, <2>3 DEF TypeOK, Release
<1>18. CASE SenderFails
  <2>1. troubles' \in Nat /\ broken' \in BOOLEAN
    BY <1>18 DEF TypeOK, SenderFails
  <2>2. NoBatch \in [at : Nat \ {0}, last : 0..Len(ledger)]
    BY <1>0 DEF NoBatch
  <2>3. [job EXCEPT !.status = "failed", !.calling = FALSE] \in JobSet(Len(ledger))
    BY <1>0 DEF TypeOK, JobSet
  <2>4. BrokenOff \in RunSet(Len(ledger))
    BY <1>0, RunOps DEF TypeOK, RunSet, BrokenOff
  <2>5. /\ owner' \in [at : Nat \ {0}, last : 0..Len(ledger)]
        /\ job' \in JobSet(Len(ledger)) /\ run' \in RunSet(Len(ledger))
    <3>1. CASE owner' = NoBatch /\ UNCHANGED <<job, run>>
      BY <2>2, <3>1 DEF TypeOK, JobSet, RunSet
    <3>2. CASE job' = [job EXCEPT !.status = "failed", !.calling = FALSE] /\ UNCHANGED <<owner, run>>
      BY <2>3, <3>2 DEF TypeOK, RunSet
    <3>3. CASE run' = BrokenOff /\ UNCHANGED <<owner, job>>
      BY <2>4, <3>3 DEF TypeOK, JobSet
    <3>. QED BY <1>18, <3>1, <3>2, <3>3 DEF SenderFails
  <2>. QED BY <1>18, <2>1, <2>5 DEF TypeOK, SenderFails, JobSet, RunSet
<1>19. CASE Crash
  <2>1. troubles' \in Nat
    BY <1>19 DEF TypeOK, Crash
  <2>2. owner' \in [at : Nat \ {0}, last : 0..Len(ledger)]
    BY <1>0, <1>19 DEF Crash, NoBatch
  <2>3. job' \in JobSet(Len(ledger)) /\ run' \in RunSet(Len(ledger))
    BY <1>0, <1>19, JobOps, RunOps DEF TypeOK, Crash, JobSet
  <2>. QED BY <1>19, <2>1, <2>2, <2>3 DEF TypeOK, Crash, JobSet, RunSet
<1>20. CASE BootClaims
  <2>1. ledger' \in [Claims -> Claim]
    BY <1>0, <1>20, ClaimOps DEF BootClaims
  <2>2. ledger' \in Seq(Claim) /\ Len(ledger') = Len(ledger)
    BY <1>0, <2>1, InPlace
  <2>. QED BY <1>20, <2>2 DEF TypeOK, BootClaims
<1>21. CASE BootSpend
  <2>1. ledger' \in [Claims -> Claim]
    BY <1>0, <1>21, ClaimOps DEF BootSpend, Statuses
  <2>2. ledger' \in Seq(Claim) /\ Len(ledger') = Len(ledger)
    BY <1>0, <2>1, InPlace
  <2>. QED BY <1>21, <2>2 DEF TypeOK, BootSpend
<1>22. CASE BootJobs
  BY <1>22 DEF TypeOK, BootJobs
<1>23. CASE UNCHANGED vars
  BY <1>23 DEF TypeOK, vars
<1>. QED
  BY <1>1, <1>2, <1>3, <1>4, <1>5, <1>6, <1>7, <1>8, <1>9, <1>10, <1>11, <1>12, <1>13, <1>14,
     <1>15, <1>16, <1>17, <1>18, <1>19, <1>20, <1>21, <1>22, <1>23
     DEF Next, OwnerStep, JobStep, RunStep, Boot

\* The first state is well formed: a sequence of titles waits in the inbox.
LEMMA TypeInit == Init => TypeOK
<1>. SUFFICES ASSUME Init PROVE TypeOK
  OBVIOUS
<1>1. ledger \in Seq(Claim) /\ Len(ledger) = 0
  BY EmptySeq DEF Init
<1>2. Waiting \in [1..Len(Waiting) -> Titles] /\ DOMAIN Waiting = 1..Len(Waiting)
  BY LenProperties, BoundsAssumption
<1>3. inbox \in [Ids -> Row \cup {NoRow}]
  BY <1>2 DEF Init, Row
<1>4. /\ NoBatch \in [at : Nat \ {0}, last : 0..0] /\ NoJob \in JobSet(0) /\ NoRun \in RunSet(0)
      /\ 0 <= MaxClaims
  <2>1. NoRun \in RunSet(0)
    BY RunOps
  <2>2. NoBatch \in [at : Nat \ {0}, last : 0..0] /\ NoJob \in JobSet(0)
    BY DEF NoBatch, NoJob, JobSet
  <2>. QED BY <2>1, <2>2, BoundsAssumption
<1>5. /\ owner \in [at : Nat \ {0}, last : 0..Len(ledger)]
      /\ job \in JobSet(Len(ledger)) /\ run \in RunSet(Len(ledger)) /\ Len(ledger) <= MaxClaims
  BY <1>1, <1>4 DEF Init
<1>6. stage \in {"up", "claims", "spend", "jobs"} /\ troubles \in Nat /\ broken \in BOOLEAN
  BY DEF Init
<1>. QED BY <1>1, <1>3, <1>5, <1>6 DEF TypeOK, JobSet, RunSet

\* Every reachable state is well formed, and batches name claims of the ledger.
THEOREM TypeCorrect == Spec => []TypeOK
<1>. QED BY TypeInit, TypeStep, PTL DEF Spec
-----------------------------------------------------------------------------
(* One claim stands for a title.                                           *)

\* What a claim says of itself.  A claim only reserved has asked nothing; a claim whose
\* call the vendor took was filed with its row, which is no longer as it was approved.
\* The owner and a plan claim titles of the inbox, and only they reserve.
Sound(c) ==
  /\ c.status = "reserved" =>
       c.wire = "no" /\ c.calls = 0 /\ ~c.freed /\ c.origin \in {"manual", "assistant"}
  /\ c.status = "released" => c.freed
  /\ c.wire # "no" /\ ~c.freed =>
       c.status \in {"external_started", "outcome_unknown", "succeeded"}
  /\ c.wire = "taken" => ~c.fresh
  /\ c.origin \in {"manual", "assistant"} => c.row # 0

AllSound == \A k \in Claims : Sound(ledger[k])

\* Every sender holds claims of its own origin, a caller's claim is started, and
\* nobody calls while the process boots.
Holders ==
  /\ \A k \in owner.at..owner.last : ledger[k].origin = "manual"
  /\ job.first <= job.at
  /\ \A k \in job.first..job.last : ledger[k].origin = "assistant"

JobCalls ==
  job.calling =>
    job.status = "running" /\ Left(job) /\ ledger[job.at].status = "external_started"

RunCalls ==
  /\ run.origin \in {"none", "automatic", "assistant_run"}
  /\ run.claim # 0 => /\ ledger[run.claim].origin \in {"automatic", "assistant_run"}
                      /\ ledger[run.claim].status = "external_started"
                      /\ run.origin # "none"

Quiet == stage # "up" => ~Left(owner) /\ ~job.calling /\ run.claim = 0

Callers == Holders /\ JobCalls /\ RunCalls /\ Quiet

\* A title has one row, and what a run has sent a vendor has taken.
InboxInv ==
  /\ OneRowEach(inbox)
  /\ \A t \in run.sent : \E k \in Claims : ledger[k].wire = "taken" /\ ledger[k].title = t

ClaimInv == TypeOK /\ AllSound /\ Callers /\ InboxInv /\ OneStandingClaim /\ SentWasAccepted

\* What a step may do to a claim: a call begins only for a row that is still pending.
Move(c, d) ==
  /\ d.title = c.title /\ d.row = c.row /\ d.origin = c.origin
  /\ c.freed => d.freed
  /\ Standing(d) => Standing(c) \/ d.freed
  /\ c.wire = "taken" => d.wire = "taken"
  /\ d.calls > c.calls => c.status \in {"reserved", "released"} /\ c.row # 0 /\ StillPending(c)
  /\ Sound(d)

Moves == \A k \in Claims : k \in DOMAIN ledger' /\ Move(ledger[k], ledger'[k])

\* The ways claims change are moves, each in the states it is made in.
LEMMA MoveOps ==
  ASSUME NEW c \in Claim, Sound(c)
  PROVE  /\ \A P \in BOOLEAN : Move(c, [c EXCEPT !.fresh = @ /\ P])
         /\ Move(c, c)
         /\ c.status \in {"reserved", "released"} => Move(c, [c EXCEPT !.status = "refused"])
         /\ c.status = "reserved" /\ c.row # 0 /\ StillPending(c) => Move(c, CallBegins(c))
         /\ c.status = "released" /\ c.fresh /\ c.row # 0 /\ StillPending(c)
            => Move(c, CallBegins(c))
         /\ c.status = "external_started" => Move(c, [c EXCEPT !.status = "outcome_unknown"])
         /\ c.status = "external_started" /\ c.wire = "no" => Move(c, [c EXCEPT !.wire = "sent"])
         /\ Releasable(c) => Move(c, [c EXCEPT !.status = "released", !.freed = TRUE])
         /\ Move(c, Abandoned(c))
<1>. USE DEF Claim, Statuses, Wires, Move, Sound, Standing
<1>1. \A P \in BOOLEAN : Move(c, [c EXCEPT !.fresh = @ /\ P])
  <2>. TAKE P \in BOOLEAN
  <2>. DEFINE d == [c EXCEPT !.fresh = @ /\ P]
  <2>1. /\ d.title = c.title /\ d.row = c.row /\ d.origin = c.origin /\ d.status = c.status
        /\ d.calls = c.calls /\ d.wire = c.wire /\ d.freed = c.freed /\ c.calls \in Nat
    OBVIOUS
  <2>2. d.fresh => c.fresh
    OBVIOUS
  <2>. HIDE DEF d
  <2>. QED BY <2>1, <2>2
<1>2. Move(c, c)
  OBVIOUS
<1>3. c.status \in {"reserved", "released"} => Move(c, [c EXCEPT !.status = "refused"])
  OBVIOUS
<1>4. c.status = "reserved" /\ c.row # 0 /\ StillPending(c) => Move(c, CallBegins(c))
  BY DEF CallBegins
<1>5. c.status = "released" /\ c.fresh /\ c.row # 0 /\ StillPending(c)
      => Move(c, CallBegins(c))
  BY DEF CallBegins
<1>6. c.status = "external_started" => Move(c, [c EXCEPT !.status = "outcome_unknown"])
  OBVIOUS
<1>7. c.status = "external_started" /\ c.wire = "no" => Move(c, [c EXCEPT !.wire = "sent"])
  OBVIOUS
<1>8. Releasable(c) => Move(c, [c EXCEPT !.status = "released", !.freed = TRUE])
  BY DEF Releasable
<1>9. Move(c, Abandoned(c))
  BY DEF Abandoned
<1>. QED BY <1>1, <1>2, <1>3, <1>4, <1>5, <1>6, <1>7, <1>8, <1>9

\* So is a verdict on a started call, filed with its row.
LEMMA MoveAnswered ==
  ASSUME NEW c \in Claim, Sound(c), c.status = "external_started", NEW outcome \in Outcomes(c)
  PROVE  LET d == [Answered(c, outcome) EXCEPT !.fresh = FALSE]
         IN  /\ Move(c, d)
             /\ outcome = "requested" => d.wire = "taken"
             /\ d.status # "external_started"
<1>. USE DEF Claim, Statuses, Wires, Move, Sound, Standing, Answered, Verdict
<1>1. CASE outcome = "error"
  BY <1>1
<1>2. CASE outcome = "skipped" /\ c.wire = "no"
  BY <1>2
<1>3. CASE outcome = "requested" /\ c.wire # "no"
  BY <1>3
<1>. QED BY <1>1, <1>2, <1>3 DEF Outcomes

\* One claim changed by a move.
LEMMA EditMoves ==
  ASSUME TypeOK, AllSound, NEW k \in Claims, NEW c \in Claim, Move(ledger[k], c),
         ledger' = [ledger EXCEPT ![k] = c]
  PROVE  Moves
<1>1. ledger \in [Claims -> Claim] /\ \A l \in Claims : Move(ledger[l], ledger[l])
  BY LedgerIsFunction, MoveOps DEF TypeOK, AllSound
<1>2. \A l \in Claims : l \in DOMAIN ledger' /\ ledger'[l] = IF l = k THEN c ELSE ledger[l]
  BY <1>1
<1>. QED BY <1>1, <1>2 DEF Moves

\* Rows that are rewritten move the claims made for them.
LEMMA RewriteMoves ==
  ASSUME TypeOK, AllSound, NEW rows, ledger' = Rewritten(ledger, rows)
  PROVE  Moves /\ \A k \in Claims : ledger'[k].status = ledger[k].status
<1>1. ledger \in [Claims -> Claim]
  BY LedgerIsFunction DEF TypeOK
<1>2. \A k \in Claims : /\ k \in DOMAIN ledger'
                        /\ ledger'[k] = [ledger[k] EXCEPT !.fresh = @ /\ ledger[k].row \notin rows]
  BY DEF Rewritten, Claims
<1>3. \A k \in Claims : Move(ledger[k], ledger'[k])
  <2>. TAKE k \in Claims
  <2>1. (ledger[k].row \notin rows) \in BOOLEAN /\ ledger[k] \in Claim /\ Sound(ledger[k])
    BY <1>1 DEF AllSound
  <2>. QED BY <1>2, <2>1, MoveOps
<1>4. \A k \in Claims : ledger'[k].status = ledger[k].status
  BY <1>1, <1>2 DEF Claim
<1>. QED BY <1>2, <1>3, <1>4 DEF Moves

\* A verdict moves its claim and the claims of its row.
LEMMA SettleMoves ==
  ASSUME TypeOK, AllSound, NEW k \in Claims, ledger[k].status = "external_started",
         NEW outcome \in Outcomes(ledger[k]), Settle(k, outcome)
  PROVE  /\ Moves
         /\ \A l \in Claims \ {k} : ledger'[l].status = ledger[l].status
         /\ outcome = "requested" => ledger'[k].wire = "taken"
<1>1. ledger \in [Claims -> Claim]
  BY LedgerIsFunction DEF TypeOK
<1>. DEFINE L == [ledger EXCEPT ![k] = Answered(@, outcome)]
            rows == {ledger[k].row}
<1>2. /\ DOMAIN L = Claims
      /\ \A l \in Claims : L[l] = IF l = k THEN Answered(ledger[k], outcome) ELSE ledger[l]
  BY <1>1 DEF Claims
<1>3. \A l \in Claims : l \in DOMAIN ledger' /\ ledger'[l] = [L[l] EXCEPT !.fresh = @ /\ L[l].row \notin rows]
  <2>1. ledger' = Rewritten(L, rows)
    BY DEF Settle
  <2>. HIDE DEF L, rows
  <2>. QED BY <1>2, <2>1 DEF Rewritten
<1>4. \A l \in Claims \ {k} : /\ Move(ledger[l], ledger'[l])
                              /\ ledger'[l].status = ledger[l].status
  <2>. SUFFICES ASSUME NEW l \in Claims, l # k
               PROVE  Move(ledger[l], ledger'[l]) /\ ledger'[l].status = ledger[l].status
    OBVIOUS
  <2>1. ledger[l] \in Claim /\ Sound(ledger[l]) /\ (ledger[l].row \notin rows) \in BOOLEAN
    BY <1>1 DEF AllSound
  <2>2. ledger'[l] = [ledger[l] EXCEPT !.fresh = @ /\ ledger[l].row \notin rows]
    BY <1>2, <1>3
  <2>3. Move(ledger[l], ledger'[l])
    BY <2>1, <2>2, MoveOps
  <2>. QED BY <2>1, <2>2, <2>3 DEF Claim
<1>5. ledger'[k] = [Answered(ledger[k], outcome) EXCEPT !.fresh = FALSE]
  <2>1. ledger[k] \in Claim /\ Answered(ledger[k], outcome) \in Claim
    BY <1>1, ClaimOps
  <2>2. Answered(ledger[k], outcome).row = ledger[k].row
    BY <2>1 DEF Answered, Claim
  <2>3. L[k] = Answered(ledger[k], outcome) /\ ~(L[k].row \notin rows)
    BY <1>2, <2>2
  <2>4. ledger'[k] = [L[k] EXCEPT !.fresh = @ /\ L[k].row \notin rows]
    BY <1>3
  <2>. HIDE DEF L, rows
  <2>. QED BY <2>1, <2>3, <2>4 DEF Claim
<1>6. Move(ledger[k], ledger'[k]) /\ (outcome = "requested" => ledger'[k].wire = "taken")
  BY <1>1, <1>5, MoveAnswered DEF AllSound
<1>. QED BY <1>3, <1>4, <1>6 DEF Moves

\* What a sender holds is in the ledger.
LEMMA HeldAreClaims ==
  ASSUME TypeOK
  PROVE  /\ ledger \in [Claims -> Claim] /\ Claims = 1..Len(ledger) /\ Len(ledger) \in Nat
         /\ owner.at..owner.last \subseteq Claims /\ job.first..job.last \subseteq Claims
         /\ run.claim # 0 => run.claim \in Claims
         /\ Left(owner) => owner.at \in owner.at..owner.last
         /\ job.first <= job.at /\ Left(job) => job.at \in job.first..job.last
  BY LedgerIsFunction DEF TypeOK, Left

\* Every step moves the claims on file.
LEMMA StepMoves ==
  ASSUME TypeOK, AllSound, Callers, [Next]_vars
  PROVE  Moves
<1>0. /\ ledger \in [Claims -> Claim] /\ Claims = 1..Len(ledger) /\ Len(ledger) \in Nat
      /\ ledger \in Seq(Claim) /\ \A k \in Claims : Move(ledger[k], ledger[k])
      /\ \A k \in Claims : Sound(ledger[k])
  BY LedgerIsFunction, MoveOps DEF TypeOK, AllSound
<1>1. CASE OwnerSends
  <2>1. PICK batch \in Batches : Reserve(batch, "manual")
    BY <1>1 DEF OwnerSends
  <2>. QED BY <1>0, <1>1, <2>1, ReserveType DEF Moves, OwnerSends
<1>2. CASE Approve
  <2>1. PICK batch \in Batches : Reserve(batch, "assistant")
    BY <1>2 DEF Approve
  <2>. QED BY <1>0, <1>2, <2>1, ReserveType DEF Moves, Approve
<1>3. CASE StartManual
  <2>. DEFINE k == owner.at
  <2>1. k \in Claims /\ ledger[k].status = "reserved" /\ ledger[k].origin = "manual"
    BY <1>3, HeldAreClaims DEF Callers, Holders, StartManual
  <2>2. ledger[k] \in Claim /\ Sound(ledger[k]) /\ ledger[k].row # 0
    BY <1>0, <2>1 DEF Sound
  <2>3. CASE StillPending(ledger[k]) /\ ledger' = [ledger EXCEPT ![k] = CallBegins(@)]
    <3>1. Move(ledger[k], CallBegins(ledger[k]))
      BY <2>1, <2>2, <2>3, MoveOps
    <3>. QED BY <2>1, <2>2, <2>3, <3>1, ClaimOps, EditMoves
  <2>4. CASE ledger' = [ledger EXCEPT ![k].status = "refused"]
    <3>1. ledger' = [ledger EXCEPT ![k] = [ledger[k] EXCEPT !.status = "refused"]]
      BY <2>4
    <3>2. Move(ledger[k], [ledger[k] EXCEPT !.status = "refused"])
      BY <2>1, <2>2, MoveOps
    <3>. QED BY <2>1, <2>2, <3>1, <3>2, ClaimOps, EditMoves DEF Statuses
  <2>. QED BY <1>3, <2>3, <2>4 DEF StartManual
<1>4. CASE FinishManual
  <2>1. owner.at \in Claims /\ ledger[owner.at].status = "external_started"
    BY <1>4, HeldAreClaims DEF FinishManual, OwnerCalling
  <2>2. PICK outcome \in Outcomes(ledger[owner.at]) : Settle(owner.at, outcome)
    BY <1>4 DEF FinishManual
  <2>. QED BY <2>1, <2>2, SettleMoves
<1>5. CASE BeginDispatch
  <2>. DEFINE k == job.at
  <2>1. k \in Claims /\ ledger[k].origin = "assistant"
    BY <1>5, HeldAreClaims DEF Callers, Holders, BeginDispatch, Working
  <2>2. ledger[k] \in Claim /\ Sound(ledger[k]) /\ ledger[k].row # 0
    BY <1>0, <2>1 DEF Sound
  <2>3. CASE UNCHANGED ledger
    BY <1>0, <2>3 DEF Moves
  <2>4. CASE Interrupted(ledger[k]) /\ ledger' = [ledger EXCEPT ![k].status = "outcome_unknown"]
    <3>1. ledger' = [ledger EXCEPT ![k] = [ledger[k] EXCEPT !.status = "outcome_unknown"]]
      BY <2>4
    <3>2. Move(ledger[k], [ledger[k] EXCEPT !.status = "outcome_unknown"])
      BY <2>2, <2>4, MoveOps DEF Interrupted
    <3>. QED BY <2>1, <2>2, <3>1, <3>2, ClaimOps, EditMoves DEF Statuses
  <2>5. CASE ~Resolved(ledger[k]) /\ ~Interrupted(ledger[k])
    <3>1. ledger[k].status \in {"reserved", "released"}
      BY <2>2, <2>5 DEF Resolved, Interrupted, Claim, Statuses
    <3>2. CASE ledger' = [ledger EXCEPT ![k].status = "refused"]
      <4>1. ledger' = [ledger EXCEPT ![k] = [ledger[k] EXCEPT !.status = "refused"]]
        BY <3>2
      <4>2. Move(ledger[k], [ledger[k] EXCEPT !.status = "refused"])
        BY <2>2, <3>1, MoveOps
      <4>. QED BY <2>1, <2>2, <4>1, <4>2, ClaimOps, EditMoves DEF Statuses
    <3>3. CASE /\ StillPending(ledger[k]) /\ ledger[k].fresh
               /\ ledger' = [ledger EXCEPT ![k] = CallBegins(@)]
      <4>1. Move(ledger[k], CallBegins(ledger[k]))
        BY <2>2, <3>1, <3>3, MoveOps
      <4>. QED BY <2>1, <2>2, <3>3, <4>1, ClaimOps, EditMoves
    <3>4. CASE UNCHANGED ledger
      BY <2>3, <3>4
    <3>. QED BY <1>5, <2>5, <3>2, <3>3, <3>4 DEF BeginDispatch
  <2>. QED BY <1>5, <2>3, <2>4, <2>5 DEF BeginDispatch
<1>6. CASE FinishDispatch
  <2>. DEFINE k == job.at
  <2>1. k \in Claims /\ ledger[k].status = "external_started"
    BY <1>6, HeldAreClaims DEF Callers, Holders, JobCalls, FinishDispatch, Working
  <2>2. CASE \E outcome \in Outcomes(ledger[k]) : Settle(k, outcome)
    BY <2>1, <2>2, SettleMoves
  <2>3. CASE ledger' = [ledger EXCEPT ![k].status = "outcome_unknown"]
    <3>1. ledger' = [ledger EXCEPT ![k] = [ledger[k] EXCEPT !.status = "outcome_unknown"]]
      BY <2>3
    <3>2. /\ [ledger[k] EXCEPT !.status = "outcome_unknown"] \in Claim
          /\ Move(ledger[k], [ledger[k] EXCEPT !.status = "outcome_unknown"])
      BY <1>0, <2>1, ClaimOps, MoveOps DEF Statuses
    <3>. QED BY <2>1, <3>1, <3>2, EditMoves
  <2>. QED BY <1>6, <2>2, <2>3 DEF FinishDispatch
<1>7. CASE RunClaims
  <2>1. CASE UNCHANGED ledger
    BY <1>0, <2>1 DEF Moves
  <2>2. CASE \E c \in Claim : ledger' = Append(ledger, c)
    <3>1. PICK c \in Claim : ledger' = Append(ledger, c)
      BY <2>2
    <3>2. /\ DOMAIN ledger' = 1..Len(ledger) + 1
          /\ \A i \in 1..Len(ledger) : ledger'[i] = ledger[i]
      <4>1. ledger' \in Seq(Claim) /\ Len(ledger') = Len(ledger) + 1
        BY <1>0, <3>1, AppendProperties
      <4>2. \A i \in 1..Len(ledger) : ledger'[i] = ledger[i]
        BY <1>0, <3>1, AppendProperties
      <4>. QED BY <4>1, <4>2, LenProperties
    <3>. QED BY <1>0, <3>2 DEF Moves
  <2>3. \A t \in run.todo : NewClaim(t, RowOf(t), run.origin, "external_started") \in Claim
    BY <1>7, NewClaimType, RowOfType DEF TypeOK, RunClaims, Sending, Statuses
  <2>. QED BY <1>7, <2>1, <2>2, <2>3 DEF RunClaims
<1>8. CASE RunRecords
  <2>1. run.claim \in Claims /\ ledger[run.claim].status = "external_started"
    BY <1>8, HeldAreClaims DEF Callers, RunCalls, RunRecords, RunCalling
  <2>2. PICK outcome \in Outcomes(ledger[run.claim]) : Settle(run.claim, outcome)
    BY <1>8 DEF RunRecords
  <2>. QED BY <2>1, <2>2, SettleMoves
<1>9. CASE RunRaises
  <2>1. run.claim \in Claims /\ ledger[run.claim].status = "external_started"
    BY <1>9, HeldAreClaims DEF Callers, RunCalls, RunRaises, RunCalling
  <2>2. ledger' = [ledger EXCEPT ![run.claim] = [ledger[run.claim] EXCEPT !.status = "outcome_unknown"]]
    BY <1>9 DEF RunRaises
  <2>3. /\ [ledger[run.claim] EXCEPT !.status = "outcome_unknown"] \in Claim
        /\ Move(ledger[run.claim], [ledger[run.claim] EXCEPT !.status = "outcome_unknown"])
    BY <1>0, <2>1, ClaimOps, MoveOps DEF Statuses
  <2>. QED BY <2>1, <2>2, <2>3, EditMoves
<1>10. CASE RunFiles
  BY <1>10, RewriteMoves DEF RunFiles
<1>11. CASE Post
  <2>1. PICK k \in Calling : ledger[k].wire = "no" /\ ledger' = [ledger EXCEPT ![k].wire = "sent"]
    BY <1>11 DEF Post
  <2>2. k \in Claims /\ ledger[k].status = "external_started"
    BY <2>1, HeldAreClaims DEF Calling, OwnerCalling, RunCalling, Callers, Holders, JobCalls, RunCalls
  <2>3. ledger' = [ledger EXCEPT ![k] = [ledger[k] EXCEPT !.wire = "sent"]]
    BY <2>1
  <2>4. [ledger[k] EXCEPT !.wire = "sent"] \in Claim /\ Move(ledger[k], [ledger[k] EXCEPT !.wire = "sent"])
    BY <1>0, <2>1, <2>2, ClaimOps, MoveOps
  <2>. QED BY <2>2, <2>3, <2>4, EditMoves
<1>12. CASE Decide
  BY <1>12, RewriteMoves DEF Decide
<1>13. CASE Release
  <2>1. PICK k \in Claims :
          /\ Releasable(ledger[k])
          /\ ledger' = [ledger EXCEPT ![k].status = "released", ![k].freed = TRUE]
    BY <1>13 DEF Release
  <2>2. ledger' = [ledger EXCEPT ![k] = [ledger[k] EXCEPT !.status = "released", !.freed = TRUE]]
    BY <1>0, <2>1
  <2>3. /\ [ledger[k] EXCEPT !.status = "released", !.freed = TRUE] \in Claim
        /\ Move(ledger[k], [ledger[k] EXCEPT !.status = "released", !.freed = TRUE])
    BY <1>0, <2>1, ClaimOps, MoveOps
  <2>. QED BY <2>2, <2>3, EditMoves
<1>14. CASE BootClaims
  <2>1. \A k \in Claims : ledger[k] \in Claim /\ Move(ledger[k], Abandoned(ledger[k]))
    BY <1>0, MoveOps
  <2>. QED BY <1>0, <1>14, <2>1 DEF Moves, BootClaims, Claims
<1>15. CASE BootSpend
  <2>1. \A k \in Claims : ledger[k].status = "external_started" =>
          Move(ledger[k], [ledger[k] EXCEPT !.status = "outcome_unknown"])
    BY <1>0, MoveOps
  <2>. QED BY <1>0, <1>15, <2>1 DEF Moves, BootSpend, Claims
<1>16. CASE UNCHANGED ledger
  BY <1>0, <1>16 DEF Moves
<1>. QED
  BY <1>1, <1>2, <1>3, <1>4, <1>5, <1>6, <1>7, <1>8, <1>9, <1>10, <1>11, <1>12, <1>13, <1>14,
     <1>15, <1>16
     DEF Next, OwnerStep, JobStep, RunStep, Boot, vars, JobStarts, JobEnds, RunStarts, RunStops,
         SenderFails, Crash, BootJobs

\* The row RowOf finds is the title's only one.
LEMMA RowOfIsTheRow ==
  ASSUME TypeOK, OneRowEach(inbox), NEW t \in Titles, NEW i \in Ids, inbox[i].title = t
  PROVE  RowOf(t) = i /\ RowOf(t) # 0
<1>1. RowOf(t) \in Ids /\ inbox[RowOf(t)].title = t
  BY DEF RowOf
<1>2. inbox[i] # NoRow
  BY BoundsAssumption DEF NoRow, NoTitle
<1>3. i = RowOf(t)
  BY <1>1, <1>2 DEF OneRowEach
<1>. QED BY <1>3 DEF Ids

\* What a step puts on file: sound claims, for titles no claim stands for, one each,
\* and none for a row the owner has rejected.
Fresh(k) ==
  /\ Sound(ledger'[k])
  /\ \A l \in Claims : Standing(ledger[l]) => ledger[l].title # ledger'[k].title
  /\ \A l \in DOMAIN ledger' \ Claims : ledger'[l].title = ledger'[k].title => l = k
  /\ ledger'[k].calls > 0 =>
       \A i \in Ids : inbox[i].title = ledger'[k].title => inbox[i].status # "rejected"

\* A reservation is fresh.
LEMMA ReserveFresh ==
  ASSUME TypeOK, InboxInv, NEW batch \in Batches, NEW origin \in Ways \cap {"manual", "assistant"},
         Reserve(batch, origin)
  PROVE  \A k \in DOMAIN ledger' \ Claims : Fresh(k)
<1>1. /\ batch \in [1..Len(batch) -> Ids] /\ DOMAIN batch = 1..Len(batch)
      /\ \A j, k \in DOMAIN batch : batch[j] = batch[k] => j = k
  BY BatchIsSeq
<1>. DEFINE Pos(k) == k - Len(ledger)
<1>2. \A k \in DOMAIN ledger' \ Claims :
        /\ Pos(k) \in DOMAIN batch
        /\ ledger'[k] = NewClaim(inbox[batch[Pos(k)]].title, batch[Pos(k)], origin, "reserved")
  BY ReserveType
<1>3. \A k \in DOMAIN ledger' \ Claims : k \in Nat
  <2>1. ledger' \in Seq(Claim)
    BY ReserveType
  <2>. QED BY <2>1, LenProperties
<1>4. Len(ledger) \in Nat
  BY LedgerIsFunction DEF TypeOK
<1>. SUFFICES ASSUME NEW k \in DOMAIN ledger' \ Claims PROVE Fresh(k)
  OBVIOUS
<1>. DEFINE i == batch[Pos(k)]
            t == inbox[i].title
<1>5. i \in Ids /\ inbox[i].status = "pending" /\ Available(t, i)
  BY <1>1, <1>2 DEF Reserve
<1>6. ledger'[k] = NewClaim(t, i, origin, "reserved") /\ inbox[i] # NoRow
  BY <1>2, <1>5 DEF NoRow
<1>7. Sound(ledger'[k]) /\ ledger'[k].calls = 0 /\ ledger'[k].title = t
  BY <1>5, <1>6 DEF Sound, NewClaim, Ids
<1>8. \A l \in Claims : Standing(ledger[l]) => ledger[l].title # t
  BY <1>5 DEF Available
<1>9. \A l \in DOMAIN ledger' \ Claims : ledger'[l].title = ledger'[k].title => l = k
  <2>. SUFFICES ASSUME NEW l \in DOMAIN ledger' \ Claims, ledger'[l].title = ledger'[k].title
               PROVE  l = k
    OBVIOUS
  <2>1. batch[Pos(l)] \in Ids /\ inbox[batch[Pos(l)]].title = t
    BY <1>1, <1>2, <1>7 DEF NewClaim
  <2>2. batch[Pos(l)] = i
    BY <1>5, <1>6, <2>1 DEF InboxInv, OneRowEach
  <2>3. Pos(l) = Pos(k)
    BY <1>1, <1>2, <2>2
  <2>. QED BY <1>3, <1>4, <2>3
<1>. QED BY <1>7, <1>8, <1>9 DEF Fresh

\* A verdict files nothing new.
LEMMA SettleKeepsDomain ==
  ASSUME TypeOK, NEW k, NEW outcome, Settle(k, outcome)
  PROVE  DOMAIN ledger' = Claims
<1>. DEFINE L == [ledger EXCEPT ![k] = Answered(@, outcome)]
<1>1. DOMAIN L = Claims
  BY LedgerIsFunction DEF TypeOK, Claims
<1>2. ledger' = Rewritten(L, {ledger[k].row})
  BY DEF Settle
<1>. HIDE DEF L
<1>. QED BY <1>1, <1>2 DEF Rewritten

\* Whatever a step puts on file is fresh.
LEMMA StepFresh ==
  ASSUME TypeOK, AllSound, Callers, InboxInv, [Next]_vars
  PROVE  \A k \in DOMAIN ledger' \ Claims : Fresh(k)
<1>0. /\ ledger \in [Claims -> Claim] /\ Claims = 1..Len(ledger) /\ Len(ledger) \in Nat
      /\ ledger \in Seq(Claim)
  BY LedgerIsFunction DEF TypeOK
<1>1. CASE OwnerSends
  <2>1. PICK batch \in Batches : Reserve(batch, "manual")
    BY <1>1 DEF OwnerSends
  <2>. QED BY <1>1, <2>1, ReserveFresh DEF OwnerSends
<1>2. CASE Approve
  <2>1. PICK batch \in Batches : Reserve(batch, "assistant")
    BY <1>2 DEF Approve
  <2>. QED BY <1>2, <2>1, ReserveFresh DEF Approve
<1>3. CASE RunClaims /\ ledger' # ledger
  <2>1. PICK t \in run.todo :
          /\ Available(t, 0) /\ ~Unwanted(t)
          /\ ledger' = Append(ledger, NewClaim(t, RowOf(t), run.origin, "external_started"))
    BY <1>3 DEF RunClaims
  <2>2. t \in Titles /\ run.origin \in {"automatic", "assistant_run"} \cap Ways
    BY <1>3 DEF TypeOK, RunClaims, Sending, Callers, RunCalls
  <2>. DEFINE c == NewClaim(t, RowOf(t), run.origin, "external_started")
  <2>3. c \in Claim /\ c.title = t /\ Sound(c)
    <3>1. c \in Claim
      BY <2>2, NewClaimType, RowOfType DEF Statuses
    <3>. QED BY <2>2, <3>1 DEF NewClaim, Sound
  <2>4. DOMAIN ledger' \ Claims = {Len(ledger) + 1} /\ ledger'[Len(ledger) + 1] = c
    <3>1. ledger' = Append(ledger, c)
      BY <2>1
    <3>. HIDE DEF c
    <3>2. /\ Append(ledger, c) \in Seq(Claim) /\ Len(Append(ledger, c)) = Len(ledger) + 1
          /\ Append(ledger, c)[Len(ledger) + 1] = c
      BY <1>0, <2>3, AppendProperties
    <3>3. DOMAIN Append(ledger, c) = 1..Len(ledger) + 1
      BY <3>2, LenProperties
    <3>. QED BY <1>0, <3>1, <3>2, <3>3
  <2>5. \A l \in Claims : Standing(ledger[l]) => ledger[l].title # t
    BY <2>1 DEF Available
  <2>6. \A i \in Ids : inbox[i].title = t => inbox[i].status # "rejected"
    BY <2>1, <2>2, RowOfIsTheRow DEF InboxInv, Unwanted
  <2>. HIDE DEF c
  <2>. QED BY <2>3, <2>4, <2>5, <2>6 DEF Fresh
<1>4. CASE StartManual
  BY <1>0, <1>4 DEF StartManual, Claims
<1>5. CASE FinishManual \/ FinishDispatch \/ RunRecords
  BY <1>0, <1>5, SettleKeepsDomain DEF FinishManual, FinishDispatch, RunRecords, Claims
<1>6. CASE BeginDispatch
  BY <1>0, <1>6 DEF BeginDispatch, Claims
<1>7. CASE RunRaises \/ Post \/ Release \/ BootClaims \/ BootSpend
  BY <1>0, <1>7 DEF RunRaises, Post, Release, BootClaims, BootSpend, Claims
<1>8. CASE RunFiles \/ Decide
  BY <1>8 DEF RunFiles, Decide, Rewritten, Claims
<1>9. CASE UNCHANGED ledger
  BY <1>9 DEF Claims
<1>. QED
  BY <1>1, <1>2, <1>3, <1>4, <1>5, <1>6, <1>7, <1>8, <1>9
     DEF Next, OwnerStep, JobStep, RunStep, Boot, vars, JobStarts, JobEnds, RunStarts, RunStops,
         SenderFails, Crash, BootJobs

\* Sound claims stay sound, and one claim stands for a title.
LEMMA OneStandingStep ==
  ASSUME TypeOK, AllSound, Callers, InboxInv, OneStandingClaim, [Next]_vars
  PROVE  AllSound' /\ OneStandingClaim'
<1>1. Moves
  BY StepMoves
<1>2. \A k \in DOMAIN ledger' \ Claims : Fresh(k)
  BY StepFresh
<1>3. AllSound'
  BY <1>1, <1>2 DEF AllSound, Moves, Move, Fresh, Claims
<1>4. ASSUME NEW k \in DOMAIN ledger', NEW l \in DOMAIN ledger', k # l,
             ledger'[k].title = ledger'[l].title, Standing(ledger'[k]), Standing(ledger'[l])
      PROVE  ledger'[k].freed \/ ledger'[l].freed
  <2>1. CASE k \in Claims /\ l \in Claims
    <3>1. Move(ledger[k], ledger'[k]) /\ Move(ledger[l], ledger'[l])
      BY <1>1, <2>1 DEF Moves
    <3>2. CASE Standing(ledger[k]) /\ Standing(ledger[l])
      <4>1. ledger[k].title = ledger[l].title
        BY <1>4, <3>1 DEF Move
      <4>2. ledger[k].freed \/ ledger[l].freed
        BY <1>4, <2>1, <3>2, <4>1 DEF OneStandingClaim
      <4>. QED BY <3>1, <4>2 DEF Move
    <3>. QED BY <1>4, <3>1, <3>2 DEF Move
  <2>2. CASE k \in Claims /\ l \notin Claims
    BY <1>1, <1>2, <1>4, <2>2 DEF Moves, Move, Fresh
  <2>3. CASE k \notin Claims /\ l \in Claims
    BY <1>1, <1>2, <1>4, <2>3 DEF Moves, Move, Fresh
  <2>4. CASE k \notin Claims /\ l \notin Claims
    BY <1>2, <1>4, <2>4 DEF Fresh
  <2>. QED BY <2>1, <2>2, <2>3, <2>4
<1>5. OneStandingClaim'
  BY <1>4 DEF OneStandingClaim, Claims
<1>. QED BY <1>3, <1>5

-----------------------------------------------------------------------------
(* Who holds a claim, and what is on the line. *)

\* No two senders hold the same claim.
LEMMA HoldersDiffer ==
  ASSUME TypeOK, Callers
  PROVE  /\ Left(owner) => owner.at # run.claim \/ run.claim = 0
         /\ Left(owner) /\ Left(job) => owner.at # job.at
         /\ Left(job) => job.at # run.claim \/ run.claim = 0
<1>1. Left(owner) => ledger[owner.at].origin = "manual"
  BY HeldAreClaims DEF Callers, Holders
<1>2. Left(job) => ledger[job.at].origin = "assistant"
  BY HeldAreClaims DEF Callers, Holders
<1>3. run.claim # 0 => ledger[run.claim].origin \in {"automatic", "assistant_run"}
  BY DEF Callers, RunCalls
<1>. QED BY <1>1, <1>2, <1>3

\* Whoever holds part of what he held before holds claims of his own.
LEMMA HoldersKept ==
  ASSUME TypeOK, Holders, Moves, owner'.at..owner'.last \subseteq owner.at..owner.last,
         job'.first = job.first, job'.last = job.last, job'.first <= job'.at
  PROVE  Holders'
<1>1. owner.at..owner.last \subseteq Claims /\ job.first..job.last \subseteq Claims
  BY HeldAreClaims DEF Holders
<1>2. \A k \in Claims : ledger'[k].origin = ledger[k].origin
  BY DEF Moves, Move
<1>. QED BY <1>1, <1>2 DEF Holders

\* A batch that goes on holds part of what it held.
LEMMA BatchGoesOn ==
  ASSUME TypeOK, owner' \in {owner, Advanced(owner), NoBatch}
  PROVE  owner'.at..owner'.last \subseteq owner.at..owner.last /\ (Left(owner') => Left(owner))
  BY DEF TypeOK, Advanced, NextEntry, NoBatch, Left

\* A step of the owner, the vendor or the inbox that leaves the calls of others alone.
LEMMA OthersCall ==
  ASSUME TypeOK, Callers, Moves, owner' \in {owner, Advanced(owner), NoBatch},
         UNCHANGED <<job, run, stage>>,
         job.calling => ledger'[job.at].status = ledger[job.at].status,
         run.claim # 0 => ledger'[run.claim].status = ledger[run.claim].status
  PROVE  Callers'
<1>1. owner'.at..owner'.last \subseteq owner.at..owner.last /\ (Left(owner') => Left(owner))
  BY BatchGoesOn
<1>2. Holders'
  BY <1>1, HoldersKept DEF Callers, Holders
<1>3. run.claim # 0 => ledger'[run.claim].origin = ledger[run.claim].origin
  BY HeldAreClaims DEF Callers, Holders, Moves, Move
<1>. QED BY <1>1, <1>2, <1>3 DEF Callers, JobCalls, RunCalls, Quiet, Left

\* A step of the job that leaves the run's call alone.
LEMMA JobGoesOn ==
  ASSUME TypeOK, Callers, Moves, UNCHANGED <<owner, run, stage>>,
         job'.first = job.first, job'.last = job.last, job.first <= job'.at, JobCalls',
         stage # "up" => ~job'.calling,
         run.claim # 0 => ledger'[run.claim].status = ledger[run.claim].status
  PROVE  Callers'
<1>1. owner'.at..owner'.last \subseteq owner.at..owner.last
  OBVIOUS
<1>2. Holders'
  BY <1>1, HoldersKept DEF Callers
<1>3. run.claim # 0 => ledger'[run.claim].origin = ledger[run.claim].origin
  BY HeldAreClaims DEF Callers, Holders, Moves, Move
<1>. QED BY <1>2, <1>3 DEF Callers, RunCalls, Quiet, Left

\* A step of the run that leaves the job's call alone.
LEMMA RunGoesOn ==
  ASSUME TypeOK, Callers, Moves, UNCHANGED <<owner, job, stage>>, RunCalls',
         stage # "up" => run'.claim = 0,
         job.calling => ledger'[job.at].status = ledger[job.at].status
  PROVE  Callers'
<1>1. owner'.at..owner'.last \subseteq owner.at..owner.last
  OBVIOUS
<1>2. Holders'
  BY <1>1, HoldersKept DEF Callers, Holders
<1>. QED BY <1>2 DEF Callers, JobCalls, Quiet, Left

\* Senders hold what is theirs and call with a started claim, after every step.
LEMMA CallersStep ==
  ASSUME TypeOK, AllSound, Callers, [Next]_vars
  PROVE  Callers'
<1>0. /\ ledger \in [Claims -> Claim] /\ Claims = 1..Len(ledger) /\ Len(ledger) \in Nat
      /\ ledger \in Seq(Claim)
  BY LedgerIsFunction DEF TypeOK
<1>m. Moves
  BY StepMoves
<1>h. /\ job.calling => Left(job) /\ job.at \in Claims
      /\ run.claim # 0 => run.claim \in Claims
      /\ Left(owner) => owner.at \in Claims
      /\ Left(job) => job.at \in Claims
  BY HeldAreClaims DEF Callers, Holders, JobCalls
<1>d. /\ Left(owner) => owner.at # run.claim \/ run.claim = 0
      /\ Left(owner) /\ Left(job) => owner.at # job.at
      /\ Left(job) => job.at # run.claim \/ run.claim = 0
  BY HoldersDiffer
<1>1. CASE OwnerSends
  <2>1. PICK batch \in Batches : Reserve(batch, "manual") /\ owner' = Batch(Len(batch))
    BY <1>1 DEF OwnerSends
  <2>0. "manual" \in Ways
    BY <1>1 DEF OwnerSends
  <2>2. \A k \in Claims : ledger'[k] = ledger[k]
    BY <2>1, <2>0, ReserveType
  <2>3. \A k \in DOMAIN ledger' \ Claims : ledger'[k].origin = "manual"
    BY <2>1, <2>0, ReserveType DEF NewClaim
  <2>4. DOMAIN ledger' = 1..Len(ledger) + Len(batch) /\ Len(batch) \in Nat
    <3>1. ledger' \in Seq(Claim) /\ Len(ledger') = Len(ledger) + Len(batch)
      BY <2>1, <2>0, ReserveType
    <3>. QED BY <3>1, LenProperties, BatchIsSeq
  <2>5. owner'.at..owner'.last = (Len(ledger) + 1)..(Len(ledger) + Len(batch))
    BY <2>1 DEF Batch
  <2>6. owner'.at..owner'.last \subseteq DOMAIN ledger' \ Claims
    <3>. SUFFICES ASSUME NEW k \in (Len(ledger) + 1)..(Len(ledger) + Len(batch))
                 PROVE  k \in 1..Len(ledger) + Len(batch) /\ k \notin 1..Len(ledger)
      BY <1>0, <2>4, <2>5
    <3>. QED BY <1>0, <2>4
  <2>7. \A k \in owner'.at..owner'.last : ledger'[k].origin = "manual"
    BY <2>3, <2>6
  <2>8. job.first..job.last \subseteq Claims
    BY HeldAreClaims
  <2>9. stage = "up" /\ UNCHANGED <<job, run, stage>>
    BY <1>1 DEF OwnerSends
  <2>10. Holders'
    BY <2>2, <2>7, <2>8, <2>9 DEF Callers, Holders
  <2>11. JobCalls' /\ RunCalls' /\ Quiet'
    BY <1>h, <2>2, <2>9 DEF Callers, JobCalls, RunCalls, Quiet, Left
  <2>. QED BY <2>10, <2>11 DEF Callers
<1>2. CASE Approve
  <2>1. PICK batch \in Batches :
          /\ Reserve(batch, "assistant")
          /\ job' = [status |-> "queued", first |-> Len(ledger) + 1, at |-> Len(ledger) + 1,
                     last |-> Len(ledger) + Len(batch), calling |-> FALSE]
    BY <1>2 DEF Approve
  <2>0. "assistant" \in Ways
    BY <1>2 DEF Approve
  <2>2. \A k \in Claims : ledger'[k] = ledger[k]
    BY <2>1, <2>0, ReserveType
  <2>3. \A k \in DOMAIN ledger' \ Claims : ledger'[k].origin = "assistant"
    BY <2>1, <2>0, ReserveType DEF NewClaim
  <2>4. DOMAIN ledger' = 1..Len(ledger) + Len(batch) /\ Len(batch) \in Nat
    <3>1. ledger' \in Seq(Claim) /\ Len(ledger') = Len(ledger) + Len(batch)
      BY <2>1, <2>0, ReserveType
    <3>. QED BY <3>1, LenProperties, BatchIsSeq
  <2>5. /\ job'.first..job'.last = (Len(ledger) + 1)..(Len(ledger) + Len(batch))
        /\ job'.first = job'.at /\ ~job'.calling /\ job'.first = Len(ledger) + 1
    BY <2>1
  <2>6. job'.first..job'.last \subseteq DOMAIN ledger' \ Claims
    <3>. SUFFICES ASSUME NEW k \in (Len(ledger) + 1)..(Len(ledger) + Len(batch))
                 PROVE  k \in 1..Len(ledger) + Len(batch) /\ k \notin 1..Len(ledger)
      BY <1>0, <2>4, <2>5
    <3>. QED BY <1>0, <2>4
  <2>7. /\ \A k \in job'.first..job'.last : ledger'[k].origin = "assistant"
        /\ job'.first <= job'.at
    BY <1>0, <2>3, <2>5, <2>6
  <2>8. owner.at..owner.last \subseteq Claims
    BY HeldAreClaims
  <2>9. stage = "up" /\ UNCHANGED <<owner, run, stage>>
    BY <1>2 DEF Approve
  <2>10. Holders'
    BY <2>2, <2>7, <2>8, <2>9 DEF Callers, Holders
  <2>11. JobCalls' /\ RunCalls' /\ Quiet'
    BY <1>h, <2>2, <2>5, <2>9 DEF Callers, JobCalls, RunCalls, Quiet, Left
  <2>. QED BY <2>10, <2>11 DEF Callers
<1>3. CASE StartManual
  <2>1. Left(owner) /\ UNCHANGED <<job, run, stage>> /\ owner' \in {owner, Advanced(owner)}
    BY <1>3 DEF StartManual
  <2>2. \/ ledger' = [ledger EXCEPT ![owner.at] = CallBegins(@)]
        \/ ledger' = [ledger EXCEPT ![owner.at].status = "refused"]
    BY <1>3 DEF StartManual
  <2>3. \A l \in Claims \ {owner.at} : ledger'[l] = ledger[l]
    BY <1>0, <2>2
  <2>. QED BY <1>m, <1>h, <1>d, <2>1, <2>3, OthersCall
<1>4. CASE FinishManual
  <2>1. /\ Left(owner) /\ UNCHANGED <<job, run, stage>> /\ owner' = Advanced(owner)
        /\ ledger[owner.at].status = "external_started"
    BY <1>4 DEF FinishManual, OwnerCalling
  <2>2. PICK outcome \in Outcomes(ledger[owner.at]) : Settle(owner.at, outcome)
    BY <1>4 DEF FinishManual
  <2>3. \A l \in Claims \ {owner.at} : ledger'[l].status = ledger[l].status
    BY <1>h, <2>1, <2>2, SettleMoves
  <2>. QED BY <1>m, <1>h, <1>d, <2>1, <2>3, OthersCall
<1>5. CASE JobStarts
  <2>1. /\ UNCHANGED <<owner, run, stage, ledger>> /\ ~job.calling
        /\ job'.first = job.first /\ job'.last = job.last /\ job'.at = job.first
        /\ job'.calling = job.calling
    BY <1>5 DEF JobStarts, Callers, JobCalls, TypeOK
  <2>2. job.first \in Nat
    BY DEF TypeOK
  <2>3. JobCalls' /\ job.first <= job'.at
    BY <2>1, <2>2 DEF JobCalls
  <2>. QED BY <1>m, <2>1, <2>3, JobGoesOn
<1>6. CASE BeginDispatch
  <2>. DEFINE k == job.at
  <2>1. UNCHANGED <<owner, run, stage>> /\ stage = "up" /\ Left(job) /\ job.status = "running" /\ ~job.calling
    BY <1>6 DEF BeginDispatch, Working
  <2>2. \A l \in Claims \ {k} : ledger'[l] = ledger[l]
    BY <1>0, <1>6 DEF BeginDispatch
  <2>3. job \in JobSet(Len(ledger)) /\ job.first <= job.at /\ job.at \in Nat /\ job.first \in Nat
    BY DEF TypeOK, JobSet, Callers, Holders
  <2>4. CASE job' = NextEntry(job)
    <3>1. /\ job'.first = job.first /\ job'.last = job.last /\ job'.at = job.at + 1
          /\ ~job'.calling
      BY <2>1, <2>3, <2>4 DEF NextEntry, JobSet
    <3>2. job.first <= job'.at /\ JobCalls'
      BY <2>3, <3>1 DEF JobCalls
    <3>. QED BY <1>m, <1>h, <1>d, <2>1, <2>2, <3>1, <3>2, JobGoesOn
  <2>5. CASE /\ job' = [job EXCEPT !.calling = TRUE]
             /\ ledger' = [ledger EXCEPT ![k] = CallBegins(@)]
    <3>1. /\ job'.first = job.first /\ job'.last = job.last /\ job'.at = job.at
          /\ job'.status = job.status
      BY <2>3, <2>5 DEF JobSet
    <3>2. ledger'[k].status = "external_started"
      <4>1. ledger'[k] = CallBegins(ledger[k]) /\ ledger[k] \in Claim
        BY <1>0, <1>h, <2>1, <2>5
      <4>. QED BY <4>1 DEF CallBegins, Claim
    <3>3. JobCalls'
      BY <2>1, <3>1, <3>2 DEF JobCalls, Left
    <3>. QED BY <1>m, <1>h, <1>d, <2>1, <2>2, <2>3, <3>1, <3>3, JobGoesOn
  <2>. QED BY <1>6, <2>4, <2>5 DEF BeginDispatch
<1>7. CASE FinishDispatch
  <2>. DEFINE k == job.at
  <2>1. /\ UNCHANGED <<owner, run, stage>> /\ Left(job) /\ job.calling
        /\ job' = [NextEntry(job) EXCEPT !.calling = FALSE]
    BY <1>7 DEF FinishDispatch, Working
  <2>2. \A l \in Claims \ {k} : ledger'[l].status = ledger[l].status
    <3>1. CASE \E outcome \in Outcomes(ledger[k]) : Settle(k, outcome)
      <4>1. ledger[k].status = "external_started"
        BY <2>1 DEF Callers, JobCalls
      <4>. QED BY <1>h, <2>1, <3>1, <4>1, SettleMoves
    <3>2. CASE ledger' = [ledger EXCEPT ![k].status = "outcome_unknown"]
      BY <1>0, <3>2
    <3>. QED BY <1>7, <3>1, <3>2 DEF FinishDispatch
  <2>3. job \in JobSet(Len(ledger)) /\ job.first <= job.at /\ job.at \in Nat /\ job.first \in Nat
    BY DEF TypeOK, JobSet, Callers, Holders
  <2>4. /\ job'.first = job.first /\ job'.last = job.last /\ job'.at = job.at + 1
        /\ ~job'.calling
    BY <2>1, <2>3 DEF NextEntry, JobSet
  <2>5. job.first <= job'.at /\ JobCalls'
    BY <2>3, <2>4 DEF JobCalls
  <2>. QED BY <1>m, <1>h, <1>d, <2>1, <2>2, <2>4, <2>5, JobGoesOn
<1>8. CASE JobEnds
  <2>1. UNCHANGED <<owner, run, stage, ledger>> /\ ~job.calling /\ job' = [job EXCEPT !.status = "done"]
    BY <1>8 DEF JobEnds, Callers, JobCalls
  <2>2. /\ job'.first = job.first /\ job'.last = job.last /\ job'.at = job.at
        /\ ~job'.calling
    BY <2>1 DEF TypeOK
  <2>3. job.first <= job'.at /\ JobCalls'
    BY <2>2 DEF JobCalls, Callers, Holders
  <2>. QED BY <1>m, <2>1, <2>2, <2>3, JobGoesOn
<1>9. CASE RunStarts
  <2>1. /\ UNCHANGED <<owner, job, stage, ledger>> /\ run'.claim = 0
        /\ run'.origin \in {"automatic", "assistant_run"}
    BY <1>9 DEF RunStarts, NoRun
  <2>. QED BY <1>m, <2>1, RunGoesOn DEF RunCalls
<1>10. CASE RunClaims
  <2>1. UNCHANGED <<owner, job, stage>> /\ stage = "up" /\ run.origin # "none" /\ run.claim = 0
    BY <1>10 DEF RunClaims, Sending
  <2>2. run.origin \in {"automatic", "assistant_run"} /\ run.origin \in Ways
    BY <2>1 DEF TypeOK, Callers, RunCalls
  <2>3. CASE UNCHANGED ledger /\ \E t \in run.todo : run' = [run EXCEPT !.todo = @ \ {t}]
    <3>1. run'.claim = 0 /\ run'.origin = run.origin
      BY <2>1, <2>3 DEF TypeOK
    <3>. QED BY <1>m, <2>1, <2>2, <2>3, <3>1, RunGoesOn DEF RunCalls
  <2>4. CASE \E t \in run.todo :
               /\ ledger' = Append(ledger, NewClaim(t, RowOf(t), run.origin, "external_started"))
               /\ run' = [run EXCEPT !.todo = @ \ {t}, !.claim = Len(ledger) + 1]
    <3>1. PICK t \in run.todo :
               /\ ledger' = Append(ledger, NewClaim(t, RowOf(t), run.origin, "external_started"))
               /\ run' = [run EXCEPT !.todo = @ \ {t}, !.claim = Len(ledger) + 1]
      BY <2>4
    <3>. DEFINE c == NewClaim(t, RowOf(t), run.origin, "external_started")
    <3>2. c \in Claim /\ c.origin = run.origin /\ c.status = "external_started"
      <4>1. c \in Claim
        BY <2>2, NewClaimType, RowOfType DEF TypeOK, Statuses
      <4>. QED BY <4>1 DEF NewClaim
    <3>3. run'.claim = Len(ledger) + 1 /\ run'.origin = run.origin
      BY <3>1 DEF TypeOK
    <3>4. ledger'[Len(ledger) + 1] = c /\ \A l \in 1..Len(ledger) : ledger'[l] = ledger[l]
      <4>1. ledger' = Append(ledger, c)
        BY <3>1
      <4>. HIDE DEF c
      <4>. QED BY <1>0, <3>2, <4>1, AppendProperties
    <3>5. RunCalls'
      <4>. HIDE DEF c
      <4>. QED BY <2>1, <2>2, <3>2, <3>3, <3>4 DEF RunCalls
    <3>. QED BY <1>0, <1>m, <1>h, <2>1, <3>4, <3>5, RunGoesOn
  <2>. QED BY <1>10, <2>3, <2>4 DEF RunClaims
<1>11. CASE RunStops
  <2>1. UNCHANGED <<owner, job, stage, ledger>> /\ run' = BrokenOff
    BY <1>11 DEF RunStops
  <2>2. run'.claim = 0 /\ run'.origin = run.origin
    BY <2>1 DEF BrokenOff, TypeOK
  <2>. QED BY <1>m, <2>1, <2>2, RunGoesOn DEF RunCalls, Callers
<1>12. CASE RunRecords
  <2>1. /\ UNCHANGED <<owner, job, stage>> /\ run.claim # 0
        /\ ledger[run.claim].status = "external_started"
    BY <1>12 DEF RunRecords, RunCalling, Callers, RunCalls
  <2>2. PICK outcome \in Outcomes(ledger[run.claim]), requeue \in {{ledger[run.claim].title}, {}} :
          /\ Settle(run.claim, outcome)
          /\ run' = [run EXCEPT !.claim = 0, !.queued = @ \cup requeue,
                       !.sent = IF outcome = "requested" THEN @ \cup {ledger[run.claim].title} ELSE @,
                       !.halted = run.origin = "assistant_run" /\ outcome = "error"]
    BY <1>12 DEF RunRecords
  <2>3. run'.claim = 0 /\ run'.origin = run.origin
    BY <2>2 DEF TypeOK
  <2>4. \A l \in Claims \ {run.claim} : ledger'[l].status = ledger[l].status
    BY <1>h, <2>1, <2>2, SettleMoves
  <2>. QED BY <1>m, <1>h, <1>d, <2>1, <2>3, <2>4, RunGoesOn DEF RunCalls, Callers
<1>13. CASE RunRaises
  <2>1. UNCHANGED <<owner, job, stage>> /\ run' = BrokenOff /\ run.claim # 0
    BY <1>13 DEF RunRaises, RunCalling
  <2>2. run'.claim = 0 /\ run'.origin = run.origin
    BY <2>1 DEF BrokenOff, TypeOK
  <2>3. \A l \in Claims \ {run.claim} : ledger'[l] = ledger[l]
    BY <1>0, <1>13 DEF RunRaises
  <2>. QED BY <1>m, <1>h, <1>d, <2>1, <2>2, <2>3, RunGoesOn DEF RunCalls, Callers
<1>14. CASE RunFiles
  <2>1. UNCHANGED <<owner, job, stage>> /\ run'.claim = 0 /\ run'.origin = "none"
    BY <1>14 DEF RunFiles, NoRun
  <2>2. \A l \in Claims : ledger'[l].status = ledger[l].status
    BY <1>14, RewriteMoves DEF RunFiles
  <2>. QED BY <1>m, <1>h, <2>1, <2>2, RunGoesOn DEF RunCalls
<1>15. CASE Post
  <2>1. \A l \in Claims : ledger'[l].status = ledger[l].status
    BY <1>0, <1>15 DEF Post, Claim
  <2>. QED BY <1>m, <1>h, <1>15, <2>1, OthersCall DEF Post
<1>16. CASE Decide
  <2>1. \A l \in Claims : ledger'[l].status = ledger[l].status
    BY <1>16, RewriteMoves DEF Decide
  <2>. QED BY <1>m, <1>h, <1>16, <2>1, OthersCall DEF Decide
<1>17. CASE Release
  <2>1. PICK k \in Claims :
          /\ Releasable(ledger[k])
          /\ ledger' = [ledger EXCEPT ![k].status = "released", ![k].freed = TRUE]
    BY <1>17 DEF Release
  <2>2. ledger[k].status # "external_started" /\ \A l \in Claims \ {k} : ledger'[l] = ledger[l]
    BY <1>0, <2>1 DEF Releasable
  <2>3. /\ job.calling => job.at # k
        /\ run.claim # 0 => run.claim # k
    BY <2>2 DEF Callers, JobCalls, RunCalls
  <2>. QED BY <1>m, <1>h, <1>17, <2>2, <2>3, OthersCall DEF Release
<1>18. CASE SenderFails
  <2>1. UNCHANGED <<ledger, stage>> /\ stage = "up"
    BY <1>18 DEF SenderFails
  <2>2. CASE owner' = NoBatch /\ UNCHANGED <<job, run>>
    BY <1>m, <2>1, <2>2, OthersCall
  <2>3. CASE job' = [job EXCEPT !.status = "failed", !.calling = FALSE] /\ UNCHANGED <<owner, run>>
    <3>1. /\ job'.first = job.first /\ job'.last = job.last /\ job'.at = job.at
          /\ ~job'.calling
      BY <2>3 DEF TypeOK
    <3>2. job.first <= job'.at /\ JobCalls'
      BY <3>1 DEF JobCalls, Callers, Holders
    <3>. QED BY <1>m, <2>1, <2>3, <3>1, <3>2, JobGoesOn
  <2>4. CASE run' = BrokenOff /\ UNCHANGED <<owner, job>>
    <3>1. run'.claim = 0 /\ run'.origin = run.origin
      BY <2>4 DEF BrokenOff, TypeOK
    <3>. QED BY <1>m, <2>1, <2>4, <3>1, RunGoesOn DEF RunCalls, Callers
  <2>. QED BY <1>18, <2>2, <2>3, <2>4 DEF SenderFails
<1>19. CASE Crash
  <2>1. /\ owner' = NoBatch /\ run' = NoRun /\ UNCHANGED ledger
        /\ job' = [job EXCEPT !.calling = FALSE]
    BY <1>19 DEF Crash
  <2>2. /\ job'.first = job.first /\ job'.last = job.last /\ job'.at = job.at
        /\ ~job'.calling
    BY <2>1 DEF TypeOK
  <2>3. owner'.at..owner'.last = {}
    BY <2>1 DEF NoBatch
  <2>4. Holders'
    BY <1>m, <2>2, <2>3, HoldersKept DEF Callers, Holders
  <2>5. run'.claim = 0 /\ run'.origin = "none" /\ ~Left(owner')
    BY <2>1 DEF NoRun, NoBatch, Left
  <2>. QED BY <2>2, <2>4, <2>5 DEF Callers, JobCalls, RunCalls, Quiet, Left
<1>20. CASE BootClaims \/ BootSpend
  <2>1. /\ UNCHANGED <<owner, job, run>> /\ stage # "up"
    BY <1>20 DEF BootClaims, BootSpend
  <2>2. owner'.at..owner'.last \subseteq owner.at..owner.last
    BY <2>1
  <2>3. Holders'
    BY <1>m, <2>1, <2>2, HoldersKept DEF Callers, Holders
  <2>. QED BY <2>1, <2>3 DEF Callers, JobCalls, RunCalls, Quiet, Left
<1>21. CASE BootJobs
  <2>1. UNCHANGED <<owner, run, ledger>> /\ stage = "jobs"
    BY <1>21 DEF BootJobs
  <2>2. ~job.calling /\ run.claim = 0
    BY <2>1 DEF Callers, Quiet
  <2>3. /\ job'.first = job.first /\ job'.last = job.last /\ job'.at = job.at
        /\ ~job'.calling
    BY <1>21, <2>2 DEF BootJobs, TypeOK
  <2>4. owner'.at..owner'.last \subseteq owner.at..owner.last
    BY <2>1
  <2>5. Holders'
    BY <1>m, <2>3, <2>4, HoldersKept DEF Callers, Holders
  <2>. QED BY <2>1, <2>2, <2>3, <2>5 DEF Callers, JobCalls, RunCalls, Quiet, Left
<1>22. CASE UNCHANGED vars
  BY <1>22 DEF vars, Callers, Holders, JobCalls, RunCalls, Quiet, Left
<1>. QED
  BY <1>1, <1>2, <1>3, <1>4, <1>5, <1>6, <1>7, <1>8, <1>9, <1>10, <1>11, <1>12, <1>13, <1>14,
     <1>15, <1>16, <1>17, <1>18, <1>19, <1>20, <1>21, <1>22
     DEF Next, OwnerStep, JobStep, RunStep, Boot

-----------------------------------------------------------------------------
(* The inbox. *)

\* Rows that stay keep their titles: a title still has one row.
LEMMA RowsStayApart ==
  ASSUME TypeOK, OneRowEach(inbox),
         \A i \in Ids : inbox'[i] = NoRow \/ (inbox[i] # NoRow /\ inbox'[i].title = inbox[i].title)
  PROVE  OneRowEach(inbox)'
<1>. SUFFICES ASSUME NEW i \in Ids, NEW j \in Ids, inbox'[i] # NoRow,
                     inbox'[i].title = inbox'[j].title
              PROVE  i = j
  BY DEF OneRowEach
<1>1. inbox[i] # NoRow /\ inbox'[i].title = inbox[i].title /\ inbox[i].title \in Titles
  BY DEF TypeOK, Row
<1>2. inbox'[j] # NoRow
  <2>1. NoRow.title \notin Titles
    BY BoundsAssumption DEF NoRow, NoTitle
  <2>2. inbox'[j].title \in Titles
    BY <1>1
  <2>. QED BY <2>1, <2>2
<1>3. inbox[i].title = inbox[j].title
  BY <1>1, <1>2
<1>. QED BY <1>1, <1>3 DEF OneRowEach

\* What was taken for a title stays taken for it.
LEMMA TakenStays ==
  ASSUME Moves, NEW k \in Claims, ledger[k].wire = "taken"
  PROVE  /\ k \in DOMAIN ledger' /\ ledger'[k].wire = "taken"
         /\ ledger'[k].title = ledger[k].title /\ ledger'[k].row = ledger[k].row
  BY DEF Moves, Move

\* A step that files nothing as sent keeps what is said of the inbox.
LEMMA InboxKept ==
  ASSUME TypeOK, InboxInv, SentWasAccepted, Moves, run'.sent \subseteq run.sent,
         \A i \in Ids : \/ inbox'[i] = inbox[i]
                        \/ inbox'[i] = NoRow
                        \/ /\ inbox[i] # NoRow /\ inbox'[i].title = inbox[i].title
                           /\ inbox'[i].status # "sent"
  PROVE  InboxInv' /\ SentWasAccepted'
<1>1. OneRowEach(inbox)'
  <2>1. \A i \in Ids : inbox'[i] = NoRow \/ (inbox[i] # NoRow /\ inbox'[i].title = inbox[i].title)
    OBVIOUS
  <2>. QED BY <2>1, RowsStayApart DEF InboxInv
<1>2. \A t \in run'.sent : \E k \in DOMAIN ledger' : ledger'[k].wire = "taken" /\ ledger'[k].title = t
  BY TakenStays DEF InboxInv
<1>3. ASSUME NEW i \in Ids, inbox'[i].status = "sent"
      PROVE  \E k \in DOMAIN ledger' : /\ ledger'[k].wire = "taken"
                                       /\ ledger'[k].title = inbox'[i].title \/ ledger'[k].row = i
  <2>1. inbox'[i] = inbox[i]
    BY <1>3 DEF NoRow
  <2>2. PICK k \in Claims : /\ ledger[k].wire = "taken"
                            /\ ledger[k].title = inbox[i].title \/ ledger[k].row = i
    BY <1>3, <2>1 DEF SentWasAccepted
  <2>. QED BY <2>1, <2>2, TakenStays
<1>. QED BY <1>1, <1>2, <1>3 DEF InboxInv, SentWasAccepted, Claims

\* Nor does a verdict, unless the vendor took the title of the row.
LEMMA SettleInbox ==
  ASSUME TypeOK, AllSound, InboxInv, SentWasAccepted,
         NEW k \in Claims, ledger[k].status = "external_started",
         NEW outcome \in Outcomes(ledger[k]), Settle(k, outcome),
         \A t \in run'.sent : t \in run.sent \/ (outcome = "requested" /\ t = ledger[k].title)
  PROVE  InboxInv' /\ SentWasAccepted'
<1>1. Moves /\ (outcome = "requested" => ledger'[k].wire = "taken")
  BY SettleMoves
<1>2. /\ k \in DOMAIN ledger' /\ ledger'[k].title = ledger[k].title
      /\ ledger'[k].row = ledger[k].row
  BY <1>1 DEF Moves, Move
<1>3. \A i \in Ids : inbox'[i] = IF i = ledger[k].row /\ inbox[i] # NoRow /\ outcome = "requested"
                                 THEN [inbox[i] EXCEPT !.status = "sent"] ELSE inbox[i]
  BY DEF Settle, Filed
<1>4. OneRowEach(inbox)'
  <2>1. \A i \in Ids : inbox'[i] = NoRow \/ (inbox[i] # NoRow /\ inbox'[i].title = inbox[i].title)
    <3>. TAKE i \in Ids
    <3>1. inbox[i] \in Row \cup {NoRow}
      BY DEF TypeOK
    <3>2. inbox[i] # NoRow => [inbox[i] EXCEPT !.status = "sent"].title = inbox[i].title
      BY <3>1 DEF Row
    <3>. QED BY <1>3, <3>2
  <2>. QED BY <2>1, RowsStayApart DEF InboxInv
<1>5. \A t \in run'.sent : \E l \in DOMAIN ledger' : ledger'[l].wire = "taken" /\ ledger'[l].title = t
  <2>. TAKE t \in run'.sent
  <2>1. CASE t \in run.sent
    BY <1>1, <2>1, TakenStays DEF InboxInv
  <2>2. CASE outcome = "requested" /\ t = ledger[k].title
    BY <1>1, <1>2, <2>2
  <2>. QED BY <2>1, <2>2
<1>6. ASSUME NEW i \in Ids, inbox'[i].status = "sent"
      PROVE  \E l \in DOMAIN ledger' : /\ ledger'[l].wire = "taken"
                                       /\ ledger'[l].title = inbox'[i].title \/ ledger'[l].row = i
  <2>1. CASE i = ledger[k].row /\ outcome = "requested"
    BY <1>1, <1>2, <2>1
  <2>2. CASE inbox'[i] = inbox[i]
    <3>1. PICK l \in Claims : /\ ledger[l].wire = "taken"
                              /\ ledger[l].title = inbox[i].title \/ ledger[l].row = i
      BY <1>6, <2>2 DEF SentWasAccepted
    <3>. QED BY <1>1, <2>2, <3>1, TakenStays
  <2>. QED BY <1>3, <2>1, <2>2
<1>. QED BY <1>4, <1>5, <1>6 DEF InboxInv, SentWasAccepted, Claims

\* What a run files: rows it sent, rows it kept and rows that wait.
LEMMA FilesInbox ==
  ASSUME TypeOK, InboxInv, SentWasAccepted, Moves, RunFiles
  PROVE  InboxInv' /\ SentWasAccepted'
<1>1. PICK gone, new : inbox' \in Inboxes(gone, new)
  BY DEF RunFiles
<1>. DEFINE kept == Present \ gone
<1>2. /\ \A i \in kept : inbox'[i] = Kept(inbox[i])
      /\ OneRowEach(inbox')
      /\ \A i \in Ids \ kept : inbox'[i] # NoRow =>
           inbox'[i].status = IF inbox'[i].title \in run.sent THEN "sent" ELSE "pending"
  BY <1>1 DEF Inboxes
<1>3. run'.sent = {}
  BY DEF RunFiles, NoRun
<1>4. ASSUME NEW i \in Ids, inbox'[i].status = "sent"
      PROVE  \E k \in DOMAIN ledger' : /\ ledger'[k].wire = "taken"
                                       /\ ledger'[k].title = inbox'[i].title \/ ledger'[k].row = i
  <2>1. CASE inbox'[i].title \in run.sent
    BY <2>1, TakenStays DEF InboxInv
  <2>2. CASE i \in kept /\ inbox'[i].title \notin run.sent
    <3>1. inbox[i] \in Row /\ inbox'[i] = Kept(inbox[i])
      BY <1>2, <2>2 DEF Present, TypeOK
    <3>2. inbox'[i] = inbox[i]
      BY <2>2, <3>1 DEF Kept, Row
    <3>3. PICK k \in Claims : /\ ledger[k].wire = "taken"
                              /\ ledger[k].title = inbox[i].title \/ ledger[k].row = i
      BY <1>4, <3>2 DEF SentWasAccepted
    <3>. QED BY <3>2, <3>3, TakenStays
  <2>3. CASE i \notin kept /\ inbox'[i].title \notin run.sent
    BY <1>2, <1>4, <2>3 DEF NoRow
  <2>. QED BY <2>1, <2>2, <2>3
<1>. QED BY <1>2, <1>3, <1>4 DEF InboxInv, SentWasAccepted, Claims, OneRowEach

\* No step leaves a title with two rows, or files one as sent that no vendor took.
LEMMA InboxStep ==
  ASSUME TypeOK, AllSound, Callers, InboxInv, SentWasAccepted, [Next]_vars
  PROVE  InboxInv' /\ SentWasAccepted'
<1>m. Moves
  BY StepMoves
<1>h. /\ run.claim # 0 => run.claim \in Claims /\ ledger[run.claim].status = "external_started"
      /\ Left(owner) => owner.at \in Claims
      /\ Left(job) => job.at \in Claims
      /\ job.calling => ledger[job.at].status = "external_started"
  BY HeldAreClaims DEF Callers, Holders, JobCalls, RunCalls
<1>1. CASE FinishManual
  <2>1. Left(owner) /\ ledger[owner.at].status = "external_started" /\ UNCHANGED run
    BY <1>1 DEF FinishManual, OwnerCalling
  <2>2. PICK outcome \in Outcomes(ledger[owner.at]) : Settle(owner.at, outcome)
    BY <1>1 DEF FinishManual
  <2>. QED BY <1>h, <2>1, <2>2, SettleInbox
<1>2. CASE FinishDispatch
  <2>1. Left(job) /\ job.calling /\ UNCHANGED run
    BY <1>2 DEF FinishDispatch, Working
  <2>2. CASE \E outcome \in Outcomes(ledger[job.at]) : Settle(job.at, outcome)
    BY <1>h, <2>1, <2>2, SettleInbox
  <2>3. CASE UNCHANGED inbox
    BY <1>m, <2>1, <2>3, InboxKept
  <2>. QED BY <1>2, <2>2, <2>3 DEF FinishDispatch
<1>3. CASE RunRecords
  <2>1. run.claim # 0
    BY <1>3 DEF RunRecords, RunCalling
  <2>2. PICK outcome \in Outcomes(ledger[run.claim]), requeue \in {{ledger[run.claim].title}, {}} :
          /\ Settle(run.claim, outcome)
          /\ run' = [run EXCEPT !.claim = 0, !.queued = @ \cup requeue,
                       !.sent = IF outcome = "requested" THEN @ \cup {ledger[run.claim].title} ELSE @,
                       !.halted = run.origin = "assistant_run" /\ outcome = "error"]
    BY <1>3 DEF RunRecords
  <2>3. run'.sent = IF outcome = "requested" THEN run.sent \cup {ledger[run.claim].title} ELSE run.sent
    BY <2>2 DEF TypeOK
  <2>. QED BY <1>h, <2>1, <2>2, <2>3, SettleInbox
<1>4. CASE RunFiles
  BY <1>m, <1>4, FilesInbox
<1>5. CASE Decide
  <2>1. PICK i \in Present :
          \/ inbox' = [inbox EXCEPT ![i].status = "rejected"]
          \/ inbox' = [inbox EXCEPT ![i].status = "pending"]
          \/ inbox' = [inbox EXCEPT ![i] = NoRow]
    BY <1>5 DEF Decide
  <2>2. inbox \in [Ids -> Row \cup {NoRow}] /\ inbox[i] \in Row /\ i \in Ids
    BY <2>1 DEF TypeOK, Present
  <2>3. \A j \in Ids \ {i} : inbox'[j] = inbox[j]
    BY <2>1, <2>2
  <2>4. \/ inbox'[i] = NoRow
        \/ inbox'[i].title = inbox[i].title /\ inbox'[i].status # "sent"
    BY <2>1, <2>2 DEF Row
  <2>5. inbox[i] # NoRow
    BY <2>1 DEF Present
  <2>6. run'.sent = run.sent
    BY <1>5 DEF Decide
  <2>. QED BY <1>m, <2>3, <2>4, <2>5, <2>6, InboxKept
<1>6. CASE UNCHANGED inbox /\ run'.sent \subseteq run.sent
  BY <1>m, <1>6, InboxKept
<1>7. CASE RunStarts \/ Crash
  <2>1. UNCHANGED inbox /\ run'.sent = {}
    <3>1. CASE RunStarts
      BY <3>1 DEF RunStarts, NoRun
    <3>2. CASE Crash
      BY <3>2 DEF Crash, NoRun
    <3>. QED BY <1>7, <3>1, <3>2
  <2>. QED BY <1>6, <2>1
<1>8. CASE RunClaims \/ RunStops \/ RunRaises \/ SenderFails
  <2>1. UNCHANGED inbox
    BY <1>8 DEF RunClaims, RunStops, RunRaises, SenderFails
  <2>2. run'.sent \subseteq run.sent
    BY <1>8 DEF RunClaims, RunStops, RunRaises, SenderFails, BrokenOff, TypeOK
  <2>. QED BY <1>6, <2>1, <2>2
<1>9. CASE UNCHANGED <<inbox, run>>
  BY <1>6, <1>9
<1>. QED
  BY <1>1, <1>2, <1>3, <1>4, <1>5, <1>7, <1>8, <1>9
     DEF Next, OwnerStep, JobStep, RunStep, Boot, vars, OwnerSends, Approve, StartManual,
         JobStarts, BeginDispatch, JobEnds, Post, Release, BootClaims, BootSpend, BootJobs

-----------------------------------------------------------------------------
(* Theorems. *)

\* The inbox starts with one row for each title that waits, and nothing on file.
LEMMA ClaimInit == Init => ClaimInv
<1>. SUFFICES ASSUME Init PROVE ClaimInv
  OBVIOUS
<1>1. TypeOK
  BY TypeInit
<1>2. Claims = {}
  BY EmptySeq DEF Init, Claims
<1>3. AllSound /\ OneStandingClaim
  BY <1>2 DEF AllSound, OneStandingClaim
<1>4. owner.at..owner.last = {} /\ job.first..job.last = {} /\ ~Left(owner)
  BY DEF Init, NoBatch, NoJob, Left
<1>5. Callers
  BY <1>4 DEF Init, NoJob, NoRun, Callers, Holders, JobCalls, RunCalls, Quiet
<1>6. OneRowEach(inbox)
  <2>. SUFFICES ASSUME NEW i \in Ids, NEW j \in Ids, inbox[i] # NoRow,
                       inbox[i].title = inbox[j].title
                PROVE  i = j
    BY DEF OneRowEach
  <2>1. i \in DOMAIN Waiting /\ inbox[i].title = Waiting[i]
    BY DEF Init
  <2>2. Waiting[i] \in Titles
    BY <2>1, ElementOfSeq, LenProperties, BoundsAssumption
  <2>3. j \in DOMAIN Waiting /\ inbox[j].title = Waiting[j]
    BY <2>1, <2>2, BoundsAssumption DEF Init, NoRow, NoTitle
  <2>. QED BY <2>1, <2>3, BoundsAssumption
<1>7. InboxInv
  BY <1>6 DEF InboxInv, Init, NoRun
<1>8. SentWasAccepted
  BY DEF SentWasAccepted, Init, NoRow
<1>. QED BY <1>1, <1>3, <1>5, <1>7, <1>8 DEF ClaimInv

\* The invariant is inductive.
LEMMA ClaimStep == ClaimInv /\ [Next]_vars => ClaimInv'
  BY TypeStep, OneStandingStep, CallersStep, InboxStep DEF ClaimInv

\* The inductive invariant holds in every reachable state.
THEOREM ClaimInvCorrect == Spec => []ClaimInv
<1>. QED BY ClaimInit, ClaimStep, PTL DEF Spec

\* Whatever the owner, a plan and a run claim at once, through any number of crashes
\* and database errors: a title has one standing claim, or the owner released one.
THEOREM OneStandingClaimCorrect == Spec => []OneStandingClaim
<1>1. ClaimInv => OneStandingClaim
  BY DEF ClaimInv
<1>. QED BY <1>1, ClaimInvCorrect, PTL

\* What the vendor has or may still take stays on file until the owner releases it.
THEOREM LandedStaysOnFileCorrect == Spec => []LandedStaysOnFile
<1>1. ClaimInv => LandedStaysOnFile
  BY DEF ClaimInv, AllSound, Sound, LandedStaysOnFile
<1>. QED BY <1>1, ClaimInvCorrect, PTL

\* A row is filed as sent only when a vendor took its title or the title claimed for it.
THEOREM SentWasAcceptedCorrect == Spec => []SentWasAccepted
<1>1. ClaimInv => SentWasAccepted
  BY DEF ClaimInv
<1>. QED BY <1>1, ClaimInvCorrect, PTL

\* A step begins a call only where nothing stands for the title.
LEMMA NoRepeatStep ==
  ASSUME ClaimInv, [Next]_vars, NEW k \in DOMAIN ledger',
         ledger'[k].calls > (IF k \in Claims THEN ledger[k].calls ELSE 0), ~ledger'[k].freed,
         NEW l \in Claims, ledger[l].title = ledger'[k].title, ledger[l].calls > 0
  PROVE  ledger[l].status = "refused" \/ ledger[l].freed
<1>0. ledger[l] \in Claim /\ Sound(ledger[l])
  BY LedgerIsFunction DEF ClaimInv, AllSound, TypeOK
<1>1. ~Standing(ledger[l]) \/ ledger[l].freed
  <2>1. CASE k \in Claims
    <3>1. Move(ledger[k], ledger'[k]) /\ Sound(ledger[k])
      BY <2>1, StepMoves DEF ClaimInv, Moves, AllSound
    <3>2. ledger[k].status = "reserved" /\ ~ledger[k].freed /\ ledger[k].title = ledger'[k].title
      BY <2>1, <3>1 DEF Move, Sound
    <3>3. ledger[k].calls = 0 /\ Standing(ledger[k])
      BY <3>1, <3>2 DEF Sound, Standing
    <3>. QED BY <2>1, <3>2, <3>3 DEF ClaimInv, OneStandingClaim
  <2>2. CASE k \notin Claims
    BY <2>2, StepFresh DEF ClaimInv, Fresh
  <2>. QED BY <2>1, <2>2
<1>2. ledger[l].status \in {"refused", "released"} \/ ledger[l].freed
  BY <1>0, <1>1 DEF Standing, Claim, Statuses
<1>. QED BY <1>0, <1>2 DEF Sound

\* A call repeats an earlier one for its title only when that one was refused with
\* nothing sent, or released by the owner.
THEOREM NoSilentRepeatCorrect == Spec => NoSilentRepeat
<1>1. ClaimInv /\ [Next]_vars =>
        [\A k \in DOMAIN ledger' :
           LET c == ledger'[k]
           IN  c.calls > (IF k \in Claims THEN ledger[k].calls ELSE 0) /\ ~c.freed =>
                 \A l \in Claims :
                   ledger[l].title = c.title /\ ledger[l].calls > 0
                   => ledger[l].status = "refused" \/ ledger[l].freed]_vars
  BY NoRepeatStep
<1>. QED BY <1>1, ClaimInvCorrect, PTL DEF Spec, NoSilentRepeat

\* A step begins no call for a row the owner has rejected.
LEMMA RejectedStep ==
  ASSUME ClaimInv, [Next]_vars, NEW k \in DOMAIN ledger',
         ledger'[k].calls > (IF k \in Claims THEN ledger[k].calls ELSE 0),
         NEW i \in Ids, inbox[i].title = ledger'[k].title
  PROVE  inbox[i].status # "rejected"
<1>1. CASE k \in Claims
  <2>1. /\ ledger[k] \in Claim /\ ledger[k].title = ledger'[k].title
        /\ ledger[k].row # 0 /\ StillPending(ledger[k])
    BY <1>1, StepMoves, LedgerIsFunction DEF ClaimInv, Moves, Move, TypeOK
  <2>2. ledger[k].row \in Ids /\ inbox[ledger[k].row].title = inbox[i].title
    BY <2>1 DEF Claim, StillPending
  <2>3. inbox[ledger[k].row] # NoRow
    BY <2>1 DEF StillPending, NoRow
  <2>4. ledger[k].row = i
    BY <2>2, <2>3 DEF ClaimInv, InboxInv, OneRowEach
  <2>. QED BY <2>1, <2>4 DEF StillPending
<1>2. CASE k \notin Claims
  BY <1>2, StepFresh DEF ClaimInv, Fresh
<1>. QED BY <1>1, <1>2

\* A rejected title is not asked for, however long ago it was picked.
THEOREM RejectedIsNotSentCorrect == Spec => RejectedIsNotSent
<1>1. ClaimInv /\ [Next]_vars =>
        [\A k \in DOMAIN ledger' :
           ledger'[k].calls > (IF k \in Claims THEN ledger[k].calls ELSE 0) =>
             \A i \in Ids : inbox[i].title = ledger'[k].title => inbox[i].status # "rejected"]_vars
  BY RejectedStep
<1>. QED BY <1>1, ClaimInvCorrect, PTL DEF Spec, RejectedIsNotSent

-----------------------------------------------------------------------------
(* Whose verdict a claim waits for. *)

\* Claims without a verdict.
Open(c) == c.status \in {"reserved", "external_started"}

\* Who will give claim k its verdict: a live sender, the job, or a later step of boot.
Owed(k) ==
  \/ k \in owner.at..owner.last
  \/ job.status = "queued" /\ k \in job.first..job.last
  \/ job.status = "running" /\ k \in job.at..job.last
  \/ k = run.claim
  \/ stage = "claims" /\ ledger[k].origin # "assistant"
  \/ stage = "spend" /\ ledger[k].origin = "assistant_run"

OwedInv == ~broken => \A k \in Claims : Open(ledger[k]) => Owed(k)

\* Claims on file that stay as open as they were, and are still owed what they were.
LEMMA OwedKept ==
  ASSUME OwedInv, Moves, DOMAIN ledger' = Claims, UNCHANGED <<stage, broken>>,
         \A k \in Claims : Open(ledger'[k]) =>
           \/ Owed(k)'
           \/ /\ ledger'[k].status = ledger[k].status
              /\ k \in owner.at..owner.last => k \in owner'.at..owner'.last
              /\ job.status = "queued" /\ k \in job.first..job.last =>
                   job'.status = "queued" /\ k \in job'.first..job'.last
              /\ job.status = "running" /\ k \in job.at..job.last =>
                   job'.status = "running" /\ k \in job'.at..job'.last
              /\ k = run.claim => k = run'.claim
  PROVE  OwedInv'
<1>. SUFFICES ASSUME ~broken, NEW k \in Claims, Open(ledger'[k]), ~Owed(k)' PROVE FALSE
  BY DEF OwedInv, Claims
<1>1. ledger'[k].origin = ledger[k].origin
  BY DEF Moves, Move
<1>2. Open(ledger[k]) /\ Owed(k)
  BY DEF OwedInv, Open
<1>. QED BY <1>1, <1>2 DEF Owed

\* A verdict leaves its claim closed.
LEMMA SettleCloses ==
  ASSUME TypeOK, AllSound, NEW k \in Claims, ledger[k].status = "external_started",
         NEW outcome \in Outcomes(ledger[k]), Settle(k, outcome)
  PROVE  ~Open(ledger'[k])
<1>. DEFINE L == [ledger EXCEPT ![k] = Answered(@, outcome)]
            rows == {ledger[k].row}
<1>1. ledger[k] \in Claim /\ DOMAIN L = Claims /\ L[k] = Answered(ledger[k], outcome)
  BY LedgerIsFunction DEF TypeOK, Claims
<1>2. ledger' = Rewritten(L, rows)
  BY DEF Settle
<1>3. L[k] \in Claim /\ L[k].status = Verdict(outcome)
  BY <1>1, ClaimOps DEF Answered, Claim
<1>. HIDE DEF L, rows
<1>4. ledger'[k] = [L[k] EXCEPT !.fresh = @ /\ L[k].row \notin rows]
  BY <1>1, <1>2 DEF Rewritten
<1>5. ledger'[k].status = Verdict(outcome)
  BY <1>3, <1>4 DEF Claim
<1>. QED BY <1>5 DEF Verdict, Open

\* The batch of the owner without its first entry.
LEMMA BatchLeft ==
  ASSUME TypeOK, Left(owner), owner' = Advanced(owner)
  PROVE  \A k \in owner.at..owner.last : k # owner.at => k \in owner'.at..owner'.last
<1>1. owner.at \in Nat /\ owner.last \in Nat
  BY LedgerIsFunction DEF TypeOK
<1>2. CASE owner.at < owner.last
  <2>1. owner'.at = owner.at + 1 /\ owner'.last = owner.last
    BY <1>2 DEF Advanced, NextEntry, TypeOK
  <2>. QED BY <1>1, <2>1
<1>3. CASE ~(owner.at < owner.last)
  BY <1>1, <1>3
<1>. QED BY <1>2, <1>3

\* A running job that goes on to its next entry.
LEMMA JobLeft ==
  ASSUME TypeOK, job.status = "running",
         job' = NextEntry(job) \/ job' = [NextEntry(job) EXCEPT !.calling = FALSE]
  PROVE  /\ job'.status = "running"
         /\ \A k \in job.at..job.last : k # job.at => k \in job'.at..job'.last
<1>1. job \in JobSet(Len(ledger)) /\ job.at \in Nat /\ job.last \in Nat
  BY LedgerIsFunction DEF TypeOK, JobSet
<1>2. job'.status = "running" /\ job'.at = job.at + 1 /\ job'.last = job.last
  BY <1>1 DEF NextEntry, JobSet
<1>. QED BY <1>1, <1>2

\* Every claim without a verdict is owed one by somebody, after every step.
LEMMA OwedStep ==
  ASSUME ClaimInv, OwedInv, [Next]_vars
  PROVE  OwedInv'
<1>0. /\ ledger \in [Claims -> Claim] /\ Claims = 1..Len(ledger) /\ Len(ledger) \in Nat
      /\ ledger \in Seq(Claim) /\ TypeOK /\ AllSound /\ Callers
  BY LedgerIsFunction DEF ClaimInv, TypeOK
<1>m. Moves
  BY StepMoves DEF ClaimInv
<1>h. /\ job.calling => Left(job) /\ job.at \in Claims /\ ledger[job.at].status = "external_started"
      /\ run.claim # 0 => run.claim \in Claims /\ ledger[run.claim].status = "external_started"
      /\ Left(owner) => owner.at \in Claims
      /\ Left(job) => job.at \in Claims
  BY <1>0, HeldAreClaims DEF Callers, Holders, JobCalls, RunCalls
<1>1. CASE OwnerSends
  <2>1. PICK batch \in Batches : Reserve(batch, "manual") /\ owner' = Batch(Len(batch))
    BY <1>1 DEF OwnerSends
  <2>2. "manual" \in Ways /\ ~Left(owner) /\ UNCHANGED <<job, run, stage, broken>>
    BY <1>1 DEF OwnerSends
  <2>3. \A k \in Claims : ledger'[k] = ledger[k]
    BY <1>0, <2>1, <2>2, ReserveType
  <2>4. DOMAIN ledger' = 1..Len(ledger) + Len(batch) /\ Len(batch) \in Nat
    <3>1. ledger' \in Seq(Claim) /\ Len(ledger') = Len(ledger) + Len(batch)
      BY <1>0, <2>1, <2>2, ReserveType
    <3>. QED BY <3>1, LenProperties, BatchIsSeq
  <2>5. owner'.at..owner'.last = (Len(ledger) + 1)..(Len(ledger) + Len(batch))
    BY <2>1 DEF Batch
  <2>6. \A k \in DOMAIN ledger' \ Claims : Owed(k)'
    <3>. SUFFICES ASSUME NEW k \in DOMAIN ledger' \ Claims PROVE k \in owner'.at..owner'.last
      BY DEF Owed
    <3>1. k \in 1..Len(ledger) + Len(batch) /\ k \notin 1..Len(ledger)
      BY <1>0, <2>4
    <3>2. k \in (Len(ledger) + 1)..(Len(ledger) + Len(batch))
      BY <1>0, <2>4, <3>1
    <3>. QED BY <2>5, <3>2
  <2>7. owner.at..owner.last = {}
    BY <1>0, <2>2 DEF Left, TypeOK
  <2>8. \A k \in Claims : Owed(k) => Owed(k)'
    BY <2>2, <2>3, <2>7 DEF Owed
  <2>. QED BY <2>2, <2>3, <2>6, <2>8 DEF OwedInv, Claims
<1>2. CASE Approve
  <2>1. PICK batch \in Batches :
          /\ Reserve(batch, "assistant")
          /\ job' = [status |-> "queued", first |-> Len(ledger) + 1, at |-> Len(ledger) + 1,
                     last |-> Len(ledger) + Len(batch), calling |-> FALSE]
    BY <1>2 DEF Approve
  <2>2. /\ "assistant" \in Ways /\ job.status \notin {"queued", "running"}
        /\ UNCHANGED <<owner, run, stage, broken>>
    BY <1>2 DEF Approve
  <2>3. \A k \in Claims : ledger'[k] = ledger[k]
    BY <1>0, <2>1, <2>2, ReserveType
  <2>4. DOMAIN ledger' = 1..Len(ledger) + Len(batch) /\ Len(batch) \in Nat
    <3>1. ledger' \in Seq(Claim) /\ Len(ledger') = Len(ledger) + Len(batch)
      BY <1>0, <2>1, <2>2, ReserveType
    <3>. QED BY <3>1, LenProperties, BatchIsSeq
  <2>5. /\ job'.first..job'.last = (Len(ledger) + 1)..(Len(ledger) + Len(batch))
        /\ job'.status = "queued"
    BY <2>1
  <2>6. \A k \in DOMAIN ledger' \ Claims : Owed(k)'
    <3>. SUFFICES ASSUME NEW k \in DOMAIN ledger' \ Claims PROVE k \in job'.first..job'.last
      BY <2>5 DEF Owed
    <3>1. k \in 1..Len(ledger) + Len(batch) /\ k \notin 1..Len(ledger)
      BY <1>0, <2>4
    <3>2. k \in (Len(ledger) + 1)..(Len(ledger) + Len(batch))
      BY <1>0, <2>4, <3>1
    <3>. QED BY <2>5, <3>2
  <2>7. \A k \in Claims : Owed(k) => Owed(k)'
    BY <2>2, <2>3 DEF Owed
  <2>. QED BY <2>2, <2>3, <2>6, <2>7 DEF OwedInv, Claims
<1>3. CASE StartManual
  <2>. DEFINE k == owner.at
  <2>1. Left(owner) /\ k \in Claims /\ UNCHANGED <<job, run, stage, broken>>
    BY <1>3, <1>h DEF StartManual
  <2>2. CASE ledger' = [ledger EXCEPT ![k] = CallBegins(@)] /\ UNCHANGED owner
    <3>1. DOMAIN ledger' = Claims /\ \A l \in Claims \ {k} : ledger'[l] = ledger[l]
      BY <1>0, <2>2
    <3>2. Owed(k)'
      BY <2>1, <2>2, <1>0, HeldAreClaims DEF Owed
    <3>. QED BY <1>m, <2>1, <2>2, <3>1, <3>2, OwedKept
  <2>3. CASE ledger' = [ledger EXCEPT ![k].status = "refused"] /\ owner' = Advanced(owner)
    <3>1. DOMAIN ledger' = Claims /\ \A l \in Claims \ {k} : ledger'[l] = ledger[l]
      BY <1>0, <2>3
    <3>2. ~Open(ledger'[k])
      BY <1>0, <2>1, <2>3 DEF Open, Claim
    <3>3. \A l \in owner.at..owner.last : l # k => l \in owner'.at..owner'.last
      BY <1>0, <2>1, <2>3, BatchLeft
    <3>. QED BY <1>m, <2>1, <3>1, <3>2, <3>3, OwedKept
  <2>. QED BY <1>3, <2>2, <2>3 DEF StartManual
<1>4. CASE FinishManual
  <2>. DEFINE k == owner.at
  <2>1. /\ Left(owner) /\ k \in Claims /\ UNCHANGED <<job, run, stage, broken>>
        /\ owner' = Advanced(owner) /\ ledger[k].status = "external_started"
    BY <1>4, <1>h DEF FinishManual, OwnerCalling
  <2>2. PICK outcome \in Outcomes(ledger[k]) : Settle(k, outcome)
    BY <1>4 DEF FinishManual
  <2>3. /\ DOMAIN ledger' = Claims /\ ~Open(ledger'[k])
        /\ \A l \in Claims \ {k} : ledger'[l].status = ledger[l].status
    BY <1>0, <2>1, <2>2, SettleKeepsDomain, SettleCloses, SettleMoves
  <2>4. \A l \in owner.at..owner.last : l # k => l \in owner'.at..owner'.last
    BY <1>0, <2>1, BatchLeft
  <2>. QED BY <1>m, <2>1, <2>3, <2>4, OwedKept
<1>5. CASE JobStarts
  <2>1. /\ UNCHANGED <<ledger, owner, run, stage, broken>>
        /\ job.status = "queued" /\ job' = [job EXCEPT !.status = "running", !.at = job.first]
    BY <1>5 DEF JobStarts
  <2>2. job'.status = "running" /\ job'.at = job.first /\ job'.last = job.last
    BY <1>0, <2>1 DEF TypeOK
  <2>3. \A k \in Claims : Owed(k) => Owed(k)'
    BY <2>1, <2>2 DEF Owed
  <2>. QED BY <2>1, <2>3 DEF OwedInv, Claims
<1>6. CASE BeginDispatch
  <2>. DEFINE k == job.at
  <2>1. /\ UNCHANGED <<owner, run, stage, broken>> /\ k \in Claims /\ Left(job)
        /\ job.status = "running"
    BY <1>6, <1>h DEF BeginDispatch, Working
  <2>2. DOMAIN ledger' = Claims /\ \A l \in Claims \ {k} : ledger'[l] = ledger[l]
    BY <1>0, <1>6 DEF BeginDispatch
  <2>3. CASE job' = NextEntry(job) /\ ~Open(ledger'[k])
    <3>1. job'.status = "running" /\ \A l \in job.at..job.last : l # k => l \in job'.at..job'.last
      BY <1>0, <2>1, <2>3, JobLeft
    <3>. QED BY <1>m, <2>1, <2>2, <2>3, <3>1, OwedKept
  <2>4. CASE job' = [job EXCEPT !.calling = TRUE]
    <3>1. job'.status = "running" /\ job'.at = job.at /\ job'.last = job.last
      BY <1>0, <2>1, <2>4 DEF TypeOK
    <3>2. k \in job.at..job.last
      BY <1>0, <2>1 DEF TypeOK, Left
    <3>3. Owed(k)'
      BY <3>1, <3>2 DEF Owed
    <3>. QED BY <1>m, <2>1, <2>2, <3>1, <3>3, OwedKept
  <2>5. ledger[k] \in Claim
    BY <1>0, <2>1
  <2>6. Resolved(ledger[k]) => ~Open(ledger[k])
    BY DEF Resolved, Open
  <2>7. \A s \in {"outcome_unknown", "refused"} :
          ledger' = [ledger EXCEPT ![k].status = s] => ~Open(ledger'[k])
    BY <1>0, <2>1, <2>5 DEF Open, Claim
  <2>. QED BY <1>6, <2>3, <2>4, <2>6, <2>7 DEF BeginDispatch
<1>7. CASE FinishDispatch
  <2>. DEFINE k == job.at
  <2>1. /\ UNCHANGED <<owner, run, stage, broken>> /\ k \in Claims
        /\ job.status = "running" /\ ledger[k].status = "external_started"
        /\ job' = [NextEntry(job) EXCEPT !.calling = FALSE]
    BY <1>7, <1>h DEF FinishDispatch, Working
  <2>2. /\ DOMAIN ledger' = Claims /\ ~Open(ledger'[k])
        /\ \A l \in Claims \ {k} : ledger'[l].status = ledger[l].status
    <3>1. CASE \E outcome \in Outcomes(ledger[k]) : Settle(k, outcome)
      BY <1>0, <2>1, <3>1, SettleKeepsDomain, SettleCloses, SettleMoves
    <3>2. CASE ledger' = [ledger EXCEPT ![k].status = "outcome_unknown"]
      BY <1>0, <2>1, <3>2 DEF Open, Claim
    <3>. QED BY <1>7, <3>1, <3>2 DEF FinishDispatch
  <2>3. job'.status = "running" /\ \A l \in job.at..job.last : l # k => l \in job'.at..job'.last
    BY <1>0, <2>1, JobLeft
  <2>. QED BY <1>m, <2>1, <2>2, <2>3, OwedKept
<1>8. CASE JobEnds
  <2>1. UNCHANGED <<ledger, owner, run, stage, broken>> /\ job.status = "running" /\ ~Left(job)
    BY <1>8 DEF JobEnds
  <2>2. job.at..job.last = {}
    BY <1>0, <2>1 DEF TypeOK, Left
  <2>3. \A k \in Claims : Owed(k) => Owed(k)'
    BY <2>1, <2>2 DEF Owed
  <2>. QED BY <2>1, <2>3 DEF OwedInv, Claims
<1>9. CASE RunClaims
  <2>1. UNCHANGED <<owner, job, stage, broken>> /\ run.claim = 0 /\ run.origin \in Ways
    BY <1>0, <1>9 DEF RunClaims, Sending, TypeOK
  <2>2. CASE UNCHANGED ledger /\ \E t \in run.todo : run' = [run EXCEPT !.todo = @ \ {t}]
    <3>1. run'.claim = run.claim
      BY <1>0, <2>2 DEF TypeOK
    <3>2. \A k \in Claims : Owed(k) => Owed(k)'
      BY <2>1, <2>2, <3>1 DEF Owed
    <3>. QED BY <2>1, <2>2, <3>2 DEF OwedInv, Claims
  <2>3. CASE \E t \in run.todo :
               /\ ledger' = Append(ledger, NewClaim(t, RowOf(t), run.origin, "external_started"))
               /\ run' = [run EXCEPT !.todo = @ \ {t}, !.claim = Len(ledger) + 1]
    <3>1. PICK t \in run.todo :
               /\ ledger' = Append(ledger, NewClaim(t, RowOf(t), run.origin, "external_started"))
               /\ run' = [run EXCEPT !.todo = @ \ {t}, !.claim = Len(ledger) + 1]
      BY <2>3
    <3>. DEFINE c == NewClaim(t, RowOf(t), run.origin, "external_started")
    <3>2. c \in Claim
      BY <1>0, <2>1, NewClaimType, RowOfType DEF TypeOK, Statuses
    <3>3. run'.claim = Len(ledger) + 1
      BY <1>0, <3>1 DEF TypeOK
    <3>4. DOMAIN ledger' = 1..Len(ledger) + 1 /\ \A l \in 1..Len(ledger) : ledger'[l] = ledger[l]
      <4>1. ledger' = Append(ledger, c)
        BY <3>1
      <4>. HIDE DEF c
      <4>2. ledger' \in Seq(Claim) /\ Len(ledger') = Len(ledger) + 1
        BY <1>0, <3>2, <4>1, AppendProperties
      <4>3. \A l \in 1..Len(ledger) : ledger'[l] = ledger[l]
        BY <1>0, <3>2, <4>1, AppendProperties
      <4>. QED BY <4>2, <4>3, LenProperties
    <3>5. \A k \in Claims : k # 0
      BY <1>0
    <3>6. \A k \in Claims : Owed(k) => Owed(k)'
      BY <1>0, <2>1, <3>4, <3>5 DEF Owed
    <3>7. \A k \in DOMAIN ledger' \ Claims : k = run'.claim
      BY <1>0, <3>3, <3>4
    <3>8. \A k \in DOMAIN ledger' \ Claims : Owed(k)'
      BY <3>7 DEF Owed
    <3>. QED BY <1>0, <2>1, <3>4, <3>6, <3>8 DEF OwedInv, Claims
  <2>. QED BY <1>9, <2>2, <2>3 DEF RunClaims
<1>10. CASE RunStarts \/ RunStops
  <2>1. UNCHANGED <<ledger, owner, job, stage, broken>>
    BY <1>10 DEF RunStarts, RunStops
  <2>2. run.claim = 0
    <3>1. CASE RunStarts
      BY <1>0, <3>1 DEF RunStarts, Callers, RunCalls
    <3>2. CASE RunStops
      BY <3>2 DEF RunStops, Sending
    <3>. QED BY <1>10, <3>1, <3>2
  <2>3. \A k \in Claims : k # run.claim
    BY <1>0, <2>2
  <2>4. \A k \in Claims : Owed(k) => Owed(k)'
    BY <2>1, <2>3 DEF Owed
  <2>. QED BY <2>1, <2>4 DEF OwedInv, Claims
<1>11. CASE RunRecords \/ RunRaises
  <2>. DEFINE k == run.claim
  <2>1. /\ UNCHANGED <<owner, job, stage, broken>> /\ k \in Claims
        /\ ledger[k].status = "external_started"
    BY <1>11, <1>h DEF RunRecords, RunRaises, RunCalling
  <2>2. /\ DOMAIN ledger' = Claims /\ ~Open(ledger'[k])
        /\ \A l \in Claims \ {k} : ledger'[l].status = ledger[l].status
    <3>1. CASE RunRecords
      <4>1. PICK outcome \in Outcomes(ledger[k]) : Settle(k, outcome)
        BY <3>1 DEF RunRecords
      <4>. QED BY <1>0, <2>1, <4>1, SettleKeepsDomain, SettleCloses, SettleMoves
    <3>2. CASE RunRaises
      BY <1>0, <2>1, <3>2 DEF RunRaises, Open, Claim
    <3>. QED BY <1>11, <3>1, <3>2
  <2>. QED BY <1>m, <2>1, <2>2, OwedKept
<1>12. CASE RunFiles
  <2>1. UNCHANGED <<owner, job, stage, broken>> /\ run.claim = 0
    BY <1>12 DEF RunFiles, Sending
  <2>2. DOMAIN ledger' = Claims /\ \A k \in Claims : ledger'[k].status = ledger[k].status
    <3>1. PICK rows : ledger' = Rewritten(ledger, rows)
      BY <1>12 DEF RunFiles
    <3>. QED BY <1>0, <3>1, RewriteMoves DEF Rewritten, Claims
  <2>3. \A k \in Claims : k # run.claim
    BY <1>0, <2>1
  <2>. QED BY <1>m, <2>1, <2>2, <2>3, OwedKept
<1>13. CASE Post \/ Decide
  <2>1. UNCHANGED <<owner, job, run, stage, broken>>
    BY <1>13 DEF Post, Decide
  <2>2. DOMAIN ledger' = Claims /\ \A k \in Claims : ledger'[k].status = ledger[k].status
    <3>1. CASE Post
      BY <1>0, <3>1 DEF Post, Claim
    <3>2. CASE Decide
      <4>1. PICK rows : ledger' = Rewritten(ledger, rows)
        BY <3>2 DEF Decide
      <4>. QED BY <1>0, <4>1, RewriteMoves DEF Rewritten, Claims
    <3>. QED BY <1>13, <3>1, <3>2
  <2>. QED BY <1>m, <2>1, <2>2, OwedKept
<1>14. CASE Release
  <2>1. PICK k \in Claims :
          /\ Releasable(ledger[k])
          /\ ledger' = [ledger EXCEPT ![k].status = "released", ![k].freed = TRUE]
    BY <1>14 DEF Release
  <2>2. UNCHANGED <<owner, job, run, stage, broken>>
    BY <1>14 DEF Release
  <2>3. /\ DOMAIN ledger' = Claims /\ \A l \in Claims \ {k} : ledger'[l] = ledger[l]
        /\ ledger'[k] = [ledger[k] EXCEPT !.status = "released", !.freed = TRUE]
    BY <1>0, <2>1
  <2>4. ~Open(ledger'[k])
    BY <1>0, <2>1, <2>3 DEF Open, Claim
  <2>. QED BY <1>m, <2>2, <2>3, <2>4, OwedKept
<1>15. CASE SenderFails
  BY <1>15 DEF SenderFails, OwedInv
<1>16. CASE Crash
  <2>1. /\ owner' = NoBatch /\ run' = NoRun /\ UNCHANGED <<ledger, broken>>
        /\ stage' = "claims" /\ job' = [job EXCEPT !.calling = FALSE]
    BY <1>16 DEF Crash
  <2>2. /\ job'.status = job.status /\ job'.first = job.first /\ job'.at = job.at
        /\ job'.last = job.last
    BY <1>0, <2>1 DEF TypeOK
  <2>3. \A k \in Claims : k \in owner.at..owner.last => ledger[k].origin = "manual"
    BY <1>0 DEF Callers, Holders
  <2>4. \A k \in Claims : k = run.claim => ledger[k].origin \in {"automatic", "assistant_run"}
    <3>1. \A k \in Claims : k # 0
      BY <1>0
    <3>. QED BY <1>0, <3>1 DEF Callers, RunCalls
  <2>5. \A k \in Claims : Owed(k) => Owed(k)'
    BY <2>1, <2>2, <2>3, <2>4 DEF Owed
  <2>. QED BY <2>1, <2>5 DEF OwedInv, Claims
<1>17. CASE BootClaims
  <2>1. UNCHANGED <<owner, job, run, broken>> /\ stage = "claims" /\ stage' = "spend"
    BY <1>17 DEF BootClaims
  <2>2. /\ DOMAIN ledger' = Claims
        /\ \A k \in Claims : ledger'[k] =
             IF ledger[k].origin \in {"manual", "automatic"} THEN Abandoned(ledger[k]) ELSE ledger[k]
    BY <1>17 DEF BootClaims, Claims
  <2>3. ASSUME NEW k \in Claims, Open(ledger'[k]), ~broken PROVE Owed(k)'
    <3>1. ledger[k] \in Claim /\ ledger'[k].origin = ledger[k].origin
      BY <1>0, <1>m DEF Moves, Move
    <3>2. ledger[k].origin \notin {"manual", "automatic"} /\ ledger'[k] = ledger[k]
      <4>1. ~Open(Abandoned(ledger[k]))
        BY <3>1 DEF Abandoned, Open, Claim, Statuses
      <4>. QED BY <2>2, <2>3, <4>1
    <3>3. Owed(k)
      BY <2>3, <3>2 DEF OwedInv
    <3>4. ledger[k].origin \in {"assistant", "assistant_run"}
      BY <3>1, <3>2, BoundsAssumption DEF Claim
    <3>. QED BY <2>1, <3>2, <3>3, <3>4 DEF Owed
  <2>. QED BY <2>1, <2>2, <2>3 DEF OwedInv, Claims
<1>18. CASE BootSpend
  <2>1. UNCHANGED <<owner, job, run, broken>> /\ stage = "spend" /\ stage' = "jobs"
    BY <1>18 DEF BootSpend
  <2>2. /\ DOMAIN ledger' = Claims
        /\ \A k \in Claims : ledger'[k] =
             IF ledger[k].origin = "assistant_run" /\ ledger[k].status = "external_started"
             THEN [ledger[k] EXCEPT !.status = "outcome_unknown"] ELSE ledger[k]
    BY <1>18 DEF BootSpend, Claims
  <2>3. ASSUME NEW k \in Claims, Open(ledger'[k]), ~broken PROVE Owed(k)'
    <3>1. ledger[k] \in Claim /\ Sound(ledger[k])
      BY <1>0 DEF AllSound
    <3>2. ledger'[k] = ledger[k] /\ ~(ledger[k].origin = "assistant_run" /\ ledger[k].status = "external_started")
      <4>1. ~Open([ledger[k] EXCEPT !.status = "outcome_unknown"])
        BY <3>1 DEF Open, Claim
      <4>. QED BY <2>2, <2>3, <4>1
    <3>3. ledger[k].origin # "assistant_run"
      BY <2>3, <3>1, <3>2 DEF Open, Sound
    <3>4. Owed(k)
      BY <2>3, <3>2 DEF OwedInv
    <3>. QED BY <2>1, <3>3, <3>4 DEF Owed
  <2>. QED BY <2>1, <2>2, <2>3 DEF OwedInv, Claims
<1>19. CASE BootJobs
  <2>1. UNCHANGED <<ledger, owner, run, broken>> /\ stage = "jobs" /\ stage' = "up"
    BY <1>19 DEF BootJobs
  <2>2. /\ job'.status = IF job.status = "running" THEN "queued" ELSE job.status
        /\ job'.first = job.first /\ job'.last = job.last
    BY <1>0, <1>19 DEF BootJobs, TypeOK
  <2>3. \A k \in job.at..job.last : k \in job.first..job.last
    BY <1>0, HeldAreClaims DEF TypeOK, Callers, Holders
  <2>4. \A k \in Claims : Owed(k) => Owed(k)'
    BY <2>1, <2>2, <2>3 DEF Owed
  <2>. QED BY <2>1, <2>4 DEF OwedInv, Claims
<1>20. CASE UNCHANGED vars
  BY <1>20 DEF vars, OwedInv, Owed, Claims
<1>. QED
  BY <1>1, <1>2, <1>3, <1>4, <1>5, <1>6, <1>7, <1>8, <1>9, <1>10, <1>11, <1>12, <1>13, <1>14,
     <1>15, <1>16, <1>17, <1>18, <1>19, <1>20
     DEF Next, OwnerStep, JobStep, RunStep, Boot

\* While no sender was broken off by the database, every claim without a verdict
\* belongs to someone who will give it one, after any number of crashes and boots.
THEOREM UnsettledHasAnOwnerCorrect == Spec => []UnsettledHasAnOwner
<1>1. Init => OwedInv
  BY EmptySeq DEF Init, OwedInv, Claims
<1>2. ClaimInv /\ ClaimInv' /\ OwedInv /\ [Next]_vars => OwedInv'
  BY OwedStep
<1>3. OwedInv => UnsettledHasAnOwner
  BY DEF OwedInv, UnsettledHasAnOwner, Owed, Open
<1>. QED BY <1>1, <1>2, <1>3, ClaimInvCorrect, PTL DEF Spec
=============================================================================
