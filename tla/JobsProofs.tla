------------------------------ MODULE JobsProofs ------------------------------
(***************************************************************************)
(* Proofs about EnrichmentJobs for every set of events and every delay: one *)
(* active job per token, the held job is the one processing, each stage is  *)
(* earned, and the alerts a decision leaves are neither lost nor doubled.   *)
(*                                                                         *)
(* A round of the loop ends by writing one row, so the inductive invariant  *)
(* is stated about a table of jobs J: Table(J) holds of the table a sweep,  *)
(* a claim or a retry computes as well as of the variable job.              *)
(***************************************************************************)
EXTENDS EnrichmentJobs, TLAPS, WellFoundedInduction

IsActive(r) == r.state \in {"pending", "processing"}

(* The size check an event has behind it when it is past its probe. *)
Measured(e) == IF Growth(e) THEN SizedOk(e) ELSE size[e] = "pass"

(* A strong alert about the token of e is in the outbox. *)
Alerted(e) == \E f \in Events : TokenOf[f] = TokenOf[e] /\ alert[f] = "strong"

(* What the row r of e must say. *)
Row(e, r) ==
    /\ r \in Jobs
    /\ r.stage # "dex_probe" => Measured(e)
    /\ IsActive(r) => IF r.stage = "security_check"
                      THEN r.market # NoMarket /\ r.dex >= 1
                      ELSE r.dex < MaxDex
    /\ r.result # "STATE_MISSING"
    /\ r.result = "FINAL_STRONG" => Alerted(e)

Single(J) ==
    \A e, f \in Events :
        IsActive(J[e]) /\ IsActive(J[f]) /\ TokenOf[e] = TokenOf[f] => e = f

Table(J) ==
    /\ J \in [Events -> Jobs]
    /\ \A e \in Events : Row(e, J[e])
    /\ Single(J)

(* An event that is not stored yet has no job. *)
NoJobBeforeEvent == \A e \in Events \ events : job[e] = NoJob

(* What the loop knows at each await and between two commits. *)
PointEarned ==
    /\ pc \in {"size", "sized"} => ~ Growth(cur) /\ job[cur].stage = "dex_probe"
    /\ pc = "sized" => answer \in {"error", "blocked", "pass"}
    /\ pc = "sized" /\ answer = "pass" => size[cur] = "pass"
    /\ pc = "dex" => job[cur].stage # "security_check" /\ Measured(cur)
    /\ pc = "enqueued" /\ answer = "strong" => Alerted(cur)

(* Claims and outbox rows agree, kind by kind and token by token. *)
ClaimsMatchAlerts ==
    /\ \A e \in Events : alert[e] # None => <<alert[e], TokenOf[e]>> \in claims
    /\ \A kind \in {"strong", "sample"}, token \in Tokens :
          <<kind, token>> \in claims =>
              \E f \in Events : TokenOf[f] = token /\ alert[f] = kind

JobsInv ==
    /\ TypeOK
    /\ Table(job)
    /\ HeldJobIsProcessing
    /\ NoJobBeforeEvent
    /\ PointEarned
    /\ ClaimsMatchAlerts
    /\ NoDoubleAlert

------------------------------------------------------------------------------
(* The constants as numbers.                                                *)

LEMMA Bounds ==
    /\ TokenOf \in [Events -> Tokens]
    /\ SourceOf \in [Events -> {"native", "trending", "solana"}]
    /\ AgeOf \in [Events -> Nat]
    /\ Scores \subseteq Nat /\ Cohort \in Nat /\ Cohort > 0
    /\ SizeChecks \subseteq Nat /\ SizeChecks # {} /\ MidChecks \subseteq SizeChecks
    /\ DexDelay \in [1..3 -> Nat] /\ MinRetry \in [1..3 -> Nat]
    /\ Activation \in Nat /\ Defer \in Nat /\ MaxPriceAge \in Nat
    /\ MaxSourceAge \in Nat /\ MaxAge \in Nat
BY JobsAssumption

(* The sets of delays have a least element, which the CHOOSEs pick. *)
LEMMA LeastExists ==
    ASSUME NEW S, S \subseteq Nat, S # {}
    PROVE  \E c \in S : \A d \in S : c <= d
<1>1. PICK c \in S : \A d \in S : ~ (<<d, c>> \in OpToRel(<, Nat))
  BY NatLessThanWellFounded, WFMin, Zenon
<1>2. \A d \in S : ~ (d < c)
  BY <1>1, Zenon DEF OpToRel
<1> QED
  BY <1>2

LEMMA LeastChosen ==
    ASSUME NEW S, S \subseteq Nat, S # {}
    PROVE  (CHOOSE c \in S : \A d \in S : c <= d) \in S
BY LeastExists

LEMMA NoJobRow == \A e \in Events : Row(e, NoJob) /\ ~ IsActive(NoJob)
BY DEF Row, NoJob, IsActive, Jobs, Stages, NoMarket, MaxDex, Results, None

LEMMA DoneRow ==
    ASSUME NEW e \in Events, NEW code \in Results \ {"STATE_MISSING"},
           code = "FINAL_STRONG" => Alerted(e)
    PROVE  /\ Row(e, [NoJob EXCEPT !.state = "done", !.result = code])
           /\ ~ IsActive([NoJob EXCEPT !.state = "done", !.result = code])
<1> DEFINE r == [NoJob EXCEPT !.state = "done", !.result = code]
<1>1. r \in Jobs
  BY NoJobRow DEF Row, Jobs
<1>2. r.state = "done" /\ r.stage = "dex_probe" /\ r.result = code
  BY DEF NoJob
<1> HIDE DEF r
<1> QED
  BY <1>1, <1>2 DEF Row, IsActive, r

------------------------------------------------------------------------------
(* Tables that differ in one row.                                           *)

(* A row that may be written where it adds no active job. *)
LEMMA Rewritten ==
    ASSUME NEW J, Table(J), NEW e \in Events, NEW r, Row(e, r),
           IsActive(r) => IsActive(J[e])
    PROVE  Table([J EXCEPT ![e] = r])
<1> DEFINE K == [J EXCEPT ![e] = r]
<1>1. /\ K \in [Events -> Jobs]
      /\ K[e] = r /\ \A f \in Events \ {e} : K[f] = J[f]
  BY DEF Table, Row
<1>2. \A f \in Events : Row(f, K[f])
  BY <1>1 DEF Table
<1>3. \A f \in Events : IsActive(K[f]) => IsActive(J[f])
  BY <1>1
<1>4. Single(K)
  BY <1>3 DEF Single, Table
<1> QED
  BY <1>1, <1>2, <1>4 DEF Table

(* K is a table that a round leaves: J but for the row of e, no longer held. *)
Ended(J, K, e) ==
    /\ Table(K)
    /\ K[e].state # "processing"
    /\ \A f \in Events \ {e} : K[f] = J[f]

LEMMA FinishedEnds ==
    ASSUME NEW J, Table(J), NEW e \in Events, NEW code \in Results \ {"STATE_MISSING"},
           code = "FINAL_STRONG" => Alerted(e)
    PROVE  Ended(J, Finished(J, e, code), e) /\ Finished(J, e, code)[e].state = "done"
<1> DEFINE r == [NoJob EXCEPT !.state = "done", !.result = code]
<1>1. Row(e, r) /\ ~ IsActive(r) /\ r.state = "done"
  BY DoneRow DEF NoJob
<1>2. Table([J EXCEPT ![e] = r])
  BY <1>1, Rewritten
<1>3. J \in [Events -> Jobs]
  BY DEF Table
<1> QED
  BY <1>1, <1>2, <1>3 DEF Finished, Ended

(* reschedule_enrichment_job, of a job whose new stage is earned *)
LEMMA RescheduledEnds ==
    ASSUME NEW J, Table(J), NEW e \in Events, IsActive(J[e]),
           NEW stage \in Stages, NEW due \in Int, NEW dex \in 0..MaxDex, NEW market \in Int,
           stage # "dex_probe" => Measured(e),
           IF stage = "security_check" THEN market # NoMarket /\ dex >= 1 ELSE dex < MaxDex
    PROVE  Ended(J, Rescheduled(J, e, stage, due, dex, market), e)
<1>1. CASE due >= J[e].expires
  BY <1>1, FinishedEnds DEF Rescheduled, Results
<1>2. CASE ~ (due >= J[e].expires)
  <2> DEFINE r == [J[e] EXCEPT !.state = "pending", !.stage = stage, !.due = due,
                               !.dex = dex, !.market = market]
  <2>1. J \in [Events -> Jobs] /\ Row(e, J[e]) /\ J[e] \in Jobs
    BY DEF Table
  <2>2. r \in Jobs
    BY <2>1 DEF Jobs
  <2>3. /\ r.state = "pending" /\ r.stage = stage /\ r.dex = dex /\ r.market = market
        /\ r.result = J[e].result
    BY <2>1 DEF Jobs
  <2> HIDE DEF r
  <2>4. Row(e, r)
    BY <2>1, <2>2, <2>3 DEF Row
  <2>5. Table([J EXCEPT ![e] = r])
    BY <2>4, Rewritten
  <2>6. Rescheduled(J, e, stage, due, dex, market) = [J EXCEPT ![e] = r]
    BY <1>2, <2>1 DEF Rescheduled, r
  <2> QED
    BY <2>1, <2>3, <2>5, <2>6 DEF Ended
<1> QED
  BY <1>1, <1>2

(* retry_market, whatever the attempts made *)
LEMMA RetriedEnds ==
    ASSUME NEW J, Table(J), NEW e \in Events, IsActive(J[e]), Measured(e),
           NEW attempts \in 1..MaxDex, now \in Nat,
           NEW error \in Results \ {"STATE_MISSING", "FINAL_STRONG"}
    PROVE  Ended(J, RetryMarket(J, e, attempts, error), e)
<1>1. CASE attempts >= MaxDex
  BY <1>1, FinishedEnds DEF RetryMarket
<1>2. CASE ~ (attempts >= MaxDex)
  <2> DEFINE due == Later(now + MinRetry[attempts + 1], J[e].born + DexDelay[attempts + 1])
  <2>1. J[e].born \in Int
    BY DEF Table, Jobs
  <2>2. attempts + 1 \in 1..3 /\ attempts < MaxDex /\ attempts \in 0..MaxDex
    BY <1>2 DEF MaxDex
  <2>3. MinRetry[attempts + 1] \in Nat /\ DexDelay[attempts + 1] \in Nat
    BY <2>2, Bounds
  <2>4. due \in Int
    BY <2>1, <2>3 DEF Later
  <2> HIDE DEF due
  <2>5. "dex_recheck" \in Stages /\ NoMarket \in Int
    BY DEF Stages, NoMarket
  <2>6. Ended(J, Rescheduled(J, e, "dex_recheck", due, attempts, NoMarket), e)
    BY <2>2, <2>4, <2>5, RescheduledEnds
  <2> QED
    BY <1>2, <2>6 DEF RetryMarket, due
<1> QED
  BY <1>1, <1>2

(* reschedule_size_check *)
LEMMA RecheckedEnds ==
    ASSUME NEW J, Table(J), NEW e \in Events, IsActive(J[e]), J[e].stage = "dex_probe",
           NEW offsets \in SUBSET SizeChecks, NEW from \in Int,
           NEW code \in Results \ {"STATE_MISSING", "FINAL_STRONG"}
    PROVE  Ended(J, RecheckSize(J, e, offsets, from, code), e)
<1> DEFINE later == {c \in offsets : J[e].born + c > from}
           first == CHOOSE c \in later : \A d \in later : c <= d
<1>1. CASE later = {}
  BY <1>1, FinishedEnds DEF RecheckSize
<1>2. CASE later # {}
  <2>1. later \subseteq Nat
    BY Bounds
  <2>2. first \in Nat
    <3> HIDE DEF later
    <3>1. first \in later
      BY <1>2, <2>1, LeastChosen, Zenon
    <3> QED
      BY <2>1, <3>1
  <2>3. J[e].born \in Int /\ J[e].dex \in 0..MaxDex /\ J[e].dex < MaxDex
    BY DEF Table, Row, Jobs
  <2>4. J[e].born + first \in Int /\ NoMarket \in Int /\ "dex_probe" \in Stages
    BY <2>2, <2>3 DEF NoMarket, Stages
  <2> HIDE DEF first
  <2>5. Ended(J, Rescheduled(J, e, "dex_probe", J[e].born + first, J[e].dex, NoMarket), e)
    BY <2>3, <2>4, RescheduledEnds
  <2> QED
    BY <1>2, <2>5 DEF RecheckSize, first
<1> QED
  BY <1>1, <1>2

(* The sweep of claim_due_enrichment only ends jobs. *)
LEMMA SweptTable ==
    ASSUME Table(job)
    PROVE  /\ Table(Swept)
           /\ \A e \in Events : /\ IsActive(Swept[e]) => Swept[e] = job[e]
                                /\ job[e] = NoJob => Swept[e] = NoJob
<1> DEFINE r == [NoJob EXCEPT !.state = "done", !.result = "EXPIRED"]
<1>1. \A e \in Events : Swept[e] = job[e] \/ (Swept[e] = r /\ job[e].state = "pending")
  BY DEF Swept
<1>2. \A e \in Events : Row(e, r) /\ ~ IsActive(r)
  BY DoneRow DEF Results
<1>3. NoJob.state # "pending"
  BY DEF NoJob, None
<1>4. \A e \in Events : Row(e, Swept[e])
  BY <1>1, <1>2 DEF Table
<1>5. Swept \in [Events -> Jobs]
  BY <1>4 DEF Swept, Row
<1> HIDE DEF r
<1>6. \A e \in Events : IsActive(Swept[e]) => Swept[e] = job[e]
  BY <1>1, <1>2
<1>7. Single(Swept)
  BY <1>6, Zenon DEF Single, Table
<1> QED
  BY <1>1, <1>3, <1>4, <1>5, <1>6, <1>7 DEF Table

(* A claimed job is taken from the table as the sweep left it, and is the    *)
(* only one processing.                                                     *)
LEMMA ClaimedTable ==
    ASSUME JobsInv, NEW e \in Events, NEW open \in SUBSET Budgets, Claims(e, open)
    PROVE  /\ Table(Processing(e))
           /\ Processing(e)[e] = [job[e] EXCEPT !.state = "processing"]
           /\ IsActive(job[e])
           /\ \A f \in Events \ {e} : /\ Processing(e)[f].state # "processing"
                                      /\ job[f] = NoJob => Processing(e)[f] = NoJob
<1>1. job[e].state = "pending" /\ job[e].expires > now /\ job[e].expires \in Int /\ now \in Int
  BY DEF Claims, Claimable, JobsInv, TypeOK, Jobs
<1>2. Swept[e] = job[e]
  BY <1>1 DEF Swept
<1>3. Table(Swept) /\ Table(job)
  BY SweptTable DEF JobsInv
<1> DEFINE r == [job[e] EXCEPT !.state = "processing"]
<1>4. Row(e, job[e]) /\ job[e] \in Jobs /\ IsActive(job[e])
  BY <1>1, <1>3 DEF Table, IsActive
<1>5. r \in Jobs /\ r.stage = job[e].stage /\ r.market = job[e].market
      /\ r.dex = job[e].dex /\ r.result = job[e].result
  BY <1>4 DEF Jobs
<1>6. Row(e, r)
  BY <1>4, <1>5 DEF Row
<1>7. Processing(e) = [Swept EXCEPT ![e] = r]
  BY <1>2 DEF Processing
<1>8. Table(Processing(e))
  <2>1. IsActive(Swept[e])
    BY <1>2, <1>4
  <2> HIDE DEF r
  <2>2. Table([Swept EXCEPT ![e] = r])
    BY <1>3, <1>6, <2>1, Rewritten
  <2> QED
    BY <1>7, <2>2
<1>9. \A f \in Events : job[f].state # "processing"
  BY DEF JobsInv, HeldJobIsProcessing, Claims, Up, Working, Awaits, Commits
<1>10. \A f \in Events : Swept[f].state # "processing"
  BY <1>3, <1>9, SweptTable DEF IsActive
<1>11. Swept \in [Events -> Jobs]
  BY <1>3 DEF Table
<1> QED
  BY <1>3, <1>4, <1>7, <1>8, <1>10, <1>11, SweptTable

(* A new active job of a token that has none. *)
LEMMA Added ==
    ASSUME NEW J, Table(J), NEW e \in Events, NEW r, Row(e, r),
           \A f \in Events : IsActive(J[f]) => TokenOf[f] # TokenOf[e]
    PROVE  Table([J EXCEPT ![e] = r])
<1> DEFINE K == [J EXCEPT ![e] = r]
<1>1. /\ K \in [Events -> Jobs]
      /\ K[e] = r /\ \A f \in Events \ {e} : K[f] = J[f]
  BY DEF Table, Row
<1> HIDE DEF K
<1>2. \A f \in Events : Row(f, K[f])
  BY <1>1 DEF Table
<1>3. Single(K)
  <2> SUFFICES ASSUME NEW f \in Events, NEW g \in Events,
                      IsActive(K[f]), IsActive(K[g]), TokenOf[f] = TokenOf[g], f # g
               PROVE  FALSE
    BY DEF Single
  <2>1. CASE f = e
    BY <1>1, <2>1
  <2>2. CASE g = e
    BY <1>1, <2>2
  <2>3. CASE f # e /\ g # e
    BY <1>1, <2>3 DEF Table, Single
  <2> QED
    BY <2>1, <2>2, <2>3
<1> QED
  BY <1>1, <1>2, <1>3 DEF Table, K

LEMMA NewJobRow ==
    ASSUME NEW e \in Events, NEW score \in Scores, now \in Nat
    PROVE  Row(e, NewJob(e, score)) /\ NewJob(e, score).state = "pending"
<1> DEFINE born == now - AgeOf[e]
           least == CHOOSE c \in SizeChecks : \A d \in SizeChecks : c <= d
           earliest == IF Growth(e) THEN now ELSE Later(now, born + least)
           due == FirstDue(e, born)
           expires == FirstExpiry(e, born)
           new == [NoJob EXCEPT !.state = "pending", !.score = score, !.born = born,
                                !.due = due, !.expires = expires]
<1>1. born \in Int
  BY Bounds
<1>2. least \in Nat
  <2>1. least \in SizeChecks
    BY Bounds, LeastChosen, Zenon
  <2> QED
    BY <2>1, Bounds
<1>3. earliest \in Int
  <2> HIDE DEF born, least
  <2> QED
    BY <1>1, <1>2 DEF Later
<1>4. due \in Int
  <2>1. due = ((earliest + Cohort - 1) \div Cohort) * Cohort
    BY Zenon DEF FirstDue
  <2> HIDE DEF earliest
  <2>2. (earliest + Cohort - 1) \div Cohort \in Int
    BY <1>3, Bounds
  <2> QED
    BY <2>1, <2>2, Bounds
<1>5. expires \in Int
  BY <1>1, Bounds DEF FirstExpiry
<1>6. score \in Nat
  BY Bounds
<1> HIDE DEF born, due, expires
<1>7. new \in Jobs
  <2>1. NoJob \in Jobs
    BY NoJobRow DEF Row
  <2> QED
    BY <1>1, <1>4, <1>5, <1>6, <2>1 DEF Jobs
<1>8. NewJob(e, score) = new
  BY Zenon DEF NewJob, born, due, expires
<1>9. new.state = "pending" /\ new.stage = "dex_probe" /\ new.dex = 0 /\ new.result = None
  BY DEF NoJob
<1> HIDE DEF new
<1> QED
  BY <1>7, <1>8, <1>9 DEF Row, MaxDex, None

(* schedule_candidate: the event gets a job or none, and at most one job     *)
(* that waits is coalesced into it.                                         *)
LEMMA ScheduledTable ==
    ASSUME Table(job), now \in Nat, NEW e \in Events, job[e] = NoJob,
           NEW score \in Scores, NEW signal \in BOOLEAN,
           NEW K \in Scheduled(e, score, signal)
    PROVE  /\ Table(K)
           /\ \A f \in Events \ {e} :
                 K[f] = job[f] \/ (job[f].state = "pending" /\ K[f].state = "done")
           /\ K[e].state # "processing"
<1> DEFINE new == NewJob(e, score)
<1>1. Row(e, new) /\ new.state = "pending"
  BY NewJobRow
<1> HIDE DEF new
<1>2. job \in [Events -> Jobs] /\ ~ IsActive(job[e]) /\ job[e].state # "processing"
  BY NoJobRow DEF Table, NoJob, None
<1>3. CASE K = job
  BY <1>2, <1>3
<1>4. CASE Active(TokenOf[e]) = {} /\ K = [job EXCEPT ![e] = new]
  <2>1. \A f \in Events : IsActive(job[f]) => TokenOf[f] # TokenOf[e]
    BY <1>4 DEF Active, IsActive
  <2>2. Table(K)
    BY <1>1, <1>4, <2>1, Added
  <2> QED
    BY <1>1, <1>2, <1>4, <2>2
<1>5. ASSUME NEW a \in FirstActive(TokenOf[e]), Coalesces(a, score),
             K = [Finished(job, a, "COALESCED") EXCEPT ![e] = new]
      PROVE  /\ Table(K)
             /\ \A f \in Events \ {e} :
                   K[f] = job[f] \/ (job[f].state = "pending" /\ K[f].state = "done")
             /\ K[e].state # "processing"
  <2> DEFINE J == Finished(job, a, "COALESCED")
  <2>1. a \in Events /\ IsActive(job[a]) /\ TokenOf[a] = TokenOf[e]
    BY DEF FirstActive, Active, IsActive
  <2>2. job[a].state = "pending"
    BY <1>5 DEF Coalesces
  <2>3. Ended(job, J, a) /\ J[a].state = "done"
    BY <2>1, FinishedEnds DEF Results
  <2> HIDE DEF J
  <2>4. \A f \in Events : IsActive(J[f]) => TokenOf[f] # TokenOf[e]
    <3> SUFFICES ASSUME NEW f \in Events, IsActive(J[f]), TokenOf[f] = TokenOf[e] PROVE FALSE
      OBVIOUS
    <3>1. f # a
      BY <2>3 DEF IsActive
    <3>2. J[f] = job[f]
      BY <2>1, <2>3, <3>1 DEF Ended
    <3> QED
      BY <2>1, <3>1, <3>2 DEF Table, Single
  <2>5. Table(J) /\ J \in [Events -> Jobs]
    BY <2>3 DEF Ended, Table
  <2>6. K = [J EXCEPT ![e] = new]
    BY <1>5 DEF J
  <2>7. Table(K)
    BY <1>1, <2>4, <2>5, <2>6, Added
  <2>8. \A f \in Events \ {e} : K[f] = J[f]
    BY <2>5, <2>6
  <2>9. K[e] = new
    BY <2>5, <2>6
  <2> QED
    BY <1>1, <2>1, <2>2, <2>3, <2>7, <2>8, <2>9 DEF Ended
<1>6. \/ K = job
      \/ Active(TokenOf[e]) = {} /\ K = [job EXCEPT ![e] = new]
      \/ \E a \in FirstActive(TokenOf[e]) :
            Coalesces(a, score) /\ K = [Finished(job, a, "COALESCED") EXCEPT ![e] = new]
  BY Zenon DEF Scheduled, new
<1> QED
  BY <1>3, <1>4, <1>5, <1>6

------------------------------------------------------------------------------
(* Steps.  Evidence only grows, so a table that is right stays right.        *)

LEMMA TableStays ==
    ASSUME NEW K, Table(K), job' = K,
           \A e \in Events : (Measured(e) => Measured(e)') /\ (Alerted(e) => Alerted(e)')
    PROVE  Table(job)'
<1>1. \A e \in Events : Row(e, K[e])'
  BY DEF Table, Row
<1> QED
  BY <1>1 DEF Table, Single, Row

LEMMA EvidenceUnchanged ==
    UNCHANGED <<size, alert>> =>
        \A e \in Events : Measured(e)' = Measured(e) /\ Alerted(e)' = Alerted(e)
BY DEF Measured, SizedOk, Growth, Alerted

(* The loop is idle again, or still: no row is processing. *)
LEMMA IdleInv ==
    ASSUME JobsInv, NEW K, Table(K), job' = K,
           \A f \in Events : K[f].state # "processing",
           \A f \in Events : job[f] = NoJob => K[f] = NoJob,
           pc' = "idle", cur' \in Events \cup {None}, start' \in Int,
           answer' = answer \/ answer' = None, dexOpen' \in BOOLEAN,
           UNCHANGED <<events, size, trend, claims, alert, now, crashes>>
    PROVE  JobsInv'
<1>1. Table(job)'
  BY TableStays, EvidenceUnchanged
<1>2. TypeOK'
  BY DEF JobsInv, TypeOK, Table
<1>3. HeldJobIsProcessing'
  BY DEF HeldJobIsProcessing, Working, Awaits, Commits
<1>4. NoJobBeforeEvent'
  BY DEF JobsInv, NoJobBeforeEvent
<1>5. PointEarned'
  BY DEF PointEarned
<1>6. ClaimsMatchAlerts' /\ NoDoubleAlert'
  BY DEF JobsInv, ClaimsMatchAlerts, NoDoubleAlert
<1> QED
  BY <1>1, <1>2, <1>3, <1>4, <1>5, <1>6 DEF JobsInv

LEMMA HeldFacts ==
    ASSUME JobsInv, Working
    PROVE  /\ cur \in Events /\ job[cur].state = "processing" /\ IsActive(job[cur])
           /\ Table(job) /\ now \in Nat /\ start \in Int /\ job \in [Events -> Jobs]
           /\ job[cur] # NoJob
           /\ \A f \in Events \ {cur} : job[f].state # "processing"
BY DEF JobsInv, HeldJobIsProcessing, TypeOK, IsActive, NoJob, None, Working, Awaits, Commits, Up

(* The round about cur ends by rewriting its row. *)
LEMMA RoundEnds ==
    ASSUME JobsInv, Working, NEW K, Ended(job, K, cur), Ends(K)
    PROVE  JobsInv'
<1>1. Table(K) /\ \A f \in Events : K[f].state # "processing"
  BY HeldFacts DEF Ended
<1>2. \A f \in Events : job[f] = NoJob => K[f] = NoJob
  BY HeldFacts DEF Ended
<1>3. dexOpen' \in BOOLEAN
  BY Zenon DEF Ends, Idle
<1>4. /\ pc' = "idle" /\ cur' \in Events \cup {None} /\ start' \in Int
      /\ answer' = None /\ job' = K
      /\ UNCHANGED <<events, size, trend, claims, alert, now, crashes>>
  BY DEF Ends, Idle
<1> QED
  BY <1>1, <1>2, <1>3, <1>4, IdleInv, Zenon

(* A claimed job is settled without an await. *)
LEMMA ClaimSettles ==
    ASSUME JobsInv, NEW e \in Events, NEW open \in SUBSET Budgets, Claims(e, open),
           NEW K, Ended(Processing(e), K, e), Settle(K)
    PROVE  JobsInv'
<1>0. /\ Table(Processing(e))
      /\ Processing(e)[e] = [job[e] EXCEPT !.state = "processing"]
      /\ IsActive(job[e])
      /\ \A f \in Events \ {e} : /\ Processing(e)[f].state # "processing"
                                 /\ job[f] = NoJob => Processing(e)[f] = NoJob
  BY ClaimedTable, Zenon
<1>1. Table(K) /\ \A f \in Events : K[f].state # "processing"
  BY <1>0 DEF Ended
<1>2. \A f \in Events : job[f] = NoJob => K[f] = NoJob
  BY <1>0 DEF Ended, NoJob, IsActive, None
<1>3. /\ pc' = "idle" /\ cur' \in Events \cup {None} /\ start' \in Int
      /\ answer' = answer /\ dexOpen' \in BOOLEAN /\ job' = K
      /\ UNCHANGED <<events, size, trend, claims, alert, now, crashes>>
  BY DEF Claims, Settle, memory, JobsInv, TypeOK
<1> QED
  BY <1>1, <1>2, <1>3, IdleInv, Zenon

(* A claimed job is worked on: awaited about or, a GMGN one, decided on.     *)
LEMMA ClaimHolds ==
    ASSUME JobsInv, NEW e \in Events, NEW open \in SUBSET Budgets, Claims(e, open),
           NEW point \in {"size", "dex", "evidence", "goplus", "decided"},
           job' = Processing(e), pc' = point, cur' = e, start' \in Int,
           answer' \in Deliveries \cup {None}, dexOpen' \in BOOLEAN,
           UNCHANGED <<events, size, trend, claims, alert, now, crashes>>,
           point = "size" => ~ Growth(e) /\ job[e].stage = "dex_probe",
           point = "dex" => job[e].stage # "security_check" /\ Measured(e)
    PROVE  JobsInv'
<1>0. /\ Table(Processing(e))
      /\ Processing(e)[e] = [job[e] EXCEPT !.state = "processing"]
      /\ IsActive(job[e])
      /\ \A f \in Events \ {e} : /\ Processing(e)[f].state # "processing"
                                 /\ job[f] = NoJob => Processing(e)[f] = NoJob
  BY ClaimedTable, Zenon
<1>1. /\ Table(job)'
      /\ job'[e] = [job[e] EXCEPT !.state = "processing"]
      /\ \A f \in Events \ {e} : /\ job'[f].state # "processing"
                                 /\ job[f] = NoJob => job'[f] = NoJob
  BY <1>0, TableStays, EvidenceUnchanged
<1>2. job[e] \in Jobs /\ job[e] # NoJob
  BY <1>0 DEF JobsInv, TypeOK, NoJob, IsActive, None
<1>3. job'[e].state = "processing" /\ job'[e].stage = job[e].stage
  BY <1>1, <1>2 DEF Jobs
<1>4. TypeOK'
  BY <1>1 DEF JobsInv, TypeOK, Table, Awaits, Commits
<1>5. HeldJobIsProcessing'
  BY <1>1, <1>3 DEF HeldJobIsProcessing, Working, Awaits, Commits
<1>6. NoJobBeforeEvent'
  BY <1>1, <1>2 DEF JobsInv, NoJobBeforeEvent
<1>7. PointEarned'
  BY <1>3 DEF PointEarned, Measured, SizedOk, Growth
<1>8. ClaimsMatchAlerts' /\ NoDoubleAlert'
  BY DEF JobsInv, ClaimsMatchAlerts, NoDoubleAlert
<1> QED
  BY <1>1, <1>4, <1>5, <1>6, <1>7, <1>8 DEF JobsInv

LEMMA ClaimFinishes ==
    ASSUME JobsInv, NEW e \in Events, NEW open \in SUBSET Budgets, Claims(e, open),
           NEW code \in Results \ {"STATE_MISSING", "FINAL_STRONG"},
           Settle(Finished(Processing(e), e, code))
    PROVE  JobsInv'
<1>1. Table(Processing(e))
  BY ClaimedTable, Zenon
<1>2. Ended(Processing(e), Finished(Processing(e), e, code), e)
  BY <1>1, FinishedEnds
<1> QED
  BY <1>2, ClaimSettles, Zenon

LEMMA ClaimAwaits ==
    ASSUME JobsInv, NEW e \in Events, NEW open \in SUBSET Budgets, Claims(e, open),
           NEW point \in {"size", "dex", "evidence", "goplus"}, Await(e, point, open),
           point = "size" => ~ Growth(e) /\ job[e].stage = "dex_probe",
           point = "dex" => job[e].stage # "security_check" /\ Measured(e)
    PROVE  JobsInv'
<1>1. dexOpen' \in BOOLEAN
  BY Zenon DEF Await
<1>2. start' \in Int
  BY DEF Await, JobsInv, TypeOK
<1>3. /\ job' = Processing(e) /\ pc' = point /\ cur' = e
      /\ answer' \in Deliveries \cup {None}
      /\ UNCHANGED <<events, size, trend, claims, alert, now, crashes>>
  BY DEF Await
<1>4. point \in {"size", "dex", "evidence", "goplus", "decided"}
  OBVIOUS
<1> QED
  BY <1>1, <1>2, <1>3, <1>4, ClaimHolds, Zenon

(* The market, size and dex counts of a claimed row, for the retries.       *)
LEMMA ClaimedRow ==
    ASSUME JobsInv, NEW e \in Events, NEW open \in SUBSET Budgets, Claims(e, open)
    PROVE  /\ Row(e, job[e]) /\ IsActive(job[e]) /\ now \in Nat
           /\ Table(Processing(e)) /\ IsActive(Processing(e)[e])
           /\ Processing(e)[e].stage = job[e].stage
           /\ Processing(e)[e].dex = job[e].dex
           /\ Processing(e)[e].market = job[e].market
<1>1. /\ Table(Processing(e))
      /\ Processing(e)[e] = [job[e] EXCEPT !.state = "processing"]
      /\ IsActive(job[e])
  BY ClaimedTable, Zenon
<1>2. job[e] \in Jobs /\ Row(e, job[e]) /\ now \in Nat
  BY DEF JobsInv, TypeOK, Table
<1> QED
  BY <1>1, <1>2 DEF Jobs, IsActive

LEMMA ClaimInv ==
    ASSUME JobsInv, NEW e \in Events, ClaimJob(e)
    PROVE  JobsInv'
<1>0. "BLOCKED" \in Results /\ "FAILED" \in Results
  BY DEF Results
<1>1. CASE MarketTooOld(e)
  <2>1. PICK open \in SUBSET Budgets : Claims(e, open)
    BY <1>1 DEF MarketTooOld
  <2> QED
    BY <1>0, <1>1, <2>1, ClaimFinishes DEF MarketTooOld
<1>2. CASE SizeRecheckDeferred(e)
  <2>1. PICK open \in SUBSET Budgets : Claims(e, open)
    BY <1>2 DEF SizeRecheckDeferred
  <2>2. job[e].stage = "dex_probe"
    BY <1>2 DEF SizeRecheckDeferred
  <2>3. /\ Row(e, job[e]) /\ IsActive(job[e]) /\ now \in Nat
        /\ Table(Processing(e)) /\ IsActive(Processing(e)[e])
    BY <2>1, ClaimedRow, Zenon
  <2>4. job[e].dex \in 0..MaxDex /\ job[e].dex < MaxDex
    BY <2>2, <2>3 DEF Row, Jobs
  <2>5. now + Defer \in Int /\ NoMarket \in Int /\ "dex_probe" \in Stages
    BY <2>3, Bounds DEF NoMarket, Stages
  <2>6. Ended(Processing(e), Rescheduled(Processing(e), e, "dex_probe", now + Defer,
                                         job[e].dex, NoMarket), e)
    BY <2>3, <2>4, <2>5, RescheduledEnds
  <2> QED
    BY <1>2, <2>1, <2>6, ClaimSettles, Zenon DEF SizeRecheckDeferred
<1>3. CASE ProbeAsksSize(e)
  <2>1. PICK open \in SUBSET Budgets : Probes(e, open) /\ Await(e, "size", open)
    BY <1>3 DEF ProbeAsksSize
  <2>2. Claims(e, open) /\ job[e].stage = "dex_probe" /\ ~ Growth(e)
    BY <1>3, <2>1 DEF Probes, ProbeAsksSize
  <2> QED
    BY <2>1, <2>2, ClaimAwaits
<1>4. CASE ProbeBlocked(e)
  <2>1. PICK open \in SUBSET Budgets : Claims(e, open)
    BY <1>4 DEF ProbeBlocked, Probes
  <2> QED
    BY <1>0, <1>4, <2>1, ClaimFinishes DEF ProbeBlocked
<1>5. CASE ProbeAsksDex(e)
  <2>1. PICK open \in SUBSET Budgets :
            /\ Probes(e, open)
            /\ IF "dex" \in open THEN Await(e, "dex", open)
                                 ELSE Settle(DexDeferred(Processing(e), e, now))
    BY <1>5 DEF ProbeAsksDex
  <2>2. Claims(e, open) /\ job[e].stage = "dex_probe" /\ Measured(e)
    BY <1>5, <2>1 DEF Probes, ProbeAsksDex, Measured, SizedOk
  <2>3. CASE Await(e, "dex", open)
    BY <2>2, <2>3, ClaimAwaits
  <2>4. CASE Settle(DexDeferred(Processing(e), e, now))
    <3>1. /\ Row(e, job[e]) /\ IsActive(job[e]) /\ now \in Nat
          /\ Table(Processing(e)) /\ IsActive(Processing(e)[e])
          /\ Processing(e)[e].dex = job[e].dex
      BY <2>2, ClaimedRow, Zenon
    <3>2. Processing(e)[e].dex \in 0..MaxDex /\ Processing(e)[e].dex < MaxDex
      BY <2>2, <3>1 DEF Row, Jobs
    <3>3. now + Defer \in Int /\ NoMarket \in Int /\ "dex_recheck" \in Stages
      BY <3>1, Bounds DEF NoMarket, Stages
    <3>4. Ended(Processing(e), DexDeferred(Processing(e), e, now), e)
      BY <2>2, <3>1, <3>2, <3>3, RescheduledEnds DEF DexDeferred
    <3> QED
      BY <2>2, <2>4, <3>4, ClaimSettles, Zenon
  <2> QED
    BY <2>1, <2>3, <2>4
<1>6. CASE RecheckAsksDex(e)
  <2>1. PICK open \in SUBSET Budgets :
            /\ Claims(e, open)
            /\ IF SizedOk(e) THEN Await(e, "dex", open)
               ELSE Settle(Finished(Processing(e), e, "STATE_MISSING"))
    BY <1>6 DEF RecheckAsksDex
  <2>2. job[e].stage = "dex_recheck"
    BY <1>6 DEF RecheckAsksDex
  <2>3. Measured(e) /\ SizedOk(e)
    BY <2>2 DEF JobsInv, Table, Row, Measured, SizedOk
  <2> QED
    BY <2>1, <2>2, <2>3, ClaimAwaits
<1>7. CASE SecurityFindsStale(e)
  <2>1. PICK open \in SUBSET Budgets : Secures(e, open)
    BY <1>7 DEF SecurityFindsStale
  <2>2. Claims(e, open) /\ job[e].stage = "security_check"
    BY <2>1 DEF Secures
  <2>3. /\ Row(e, job[e]) /\ IsActive(job[e]) /\ now \in Nat
        /\ Table(Processing(e)) /\ IsActive(Processing(e)[e])
    BY <2>2, ClaimedRow, Zenon
  <2>4. job[e].market # NoMarket /\ job[e].dex \in 1..MaxDex /\ Measured(e)
    BY <2>2, <2>3 DEF Row, Jobs
  <2>5. Ended(Processing(e), RetryMarket(Processing(e), e, job[e].dex, "FAILED"), e)
    BY <1>0, <2>3, <2>4, RetriedEnds
  <2> QED
    BY <1>7, <2>2, <2>4, <2>5, ClaimSettles, Zenon DEF SecurityFindsStale
<1>8. CASE SecurityIncomplete(e)
  <2>1. PICK open \in SUBSET Budgets : Claims(e, open)
    BY <1>8 DEF SecurityIncomplete, Secures
  <2> QED
    BY <1>0, <1>8, <2>1, ClaimFinishes DEF SecurityIncomplete
<1>9. CASE SecurityAsksEvidence(e)
  <2>1. PICK open \in SUBSET Budgets : Claims(e, open) /\ Await(e, "evidence", open)
    BY <1>9 DEF SecurityAsksEvidence, Secures
  <2> QED
    BY <2>1, ClaimAwaits
<1>10. CASE GrowthBlocked(e)
  <2>1. PICK open \in SUBSET Budgets : Claims(e, open)
    BY <1>10 DEF GrowthBlocked, Secures
  <2> QED
    BY <1>0, <1>10, <2>1, ClaimFinishes DEF GrowthBlocked
<1>11. CASE GrowthAsksGoplus(e)
  <2>1. PICK open \in SUBSET Budgets : Claims(e, open) /\ Await(e, "goplus", open)
    BY <1>11 DEF GrowthAsksGoplus, Secures
  <2> QED
    BY <2>1, ClaimAwaits
<1>12. CASE SolanaDecides(e)
  <2>1. PICK open \in SUBSET Budgets : Claims(e, open)
    BY <1>12 DEF SolanaDecides, Secures
  <2>2. Decides(Processing(e), e)
    BY <1>12 DEF SolanaDecides
  <2>3. dexOpen' \in BOOLEAN
    BY <2>2, Zenon DEF Decides
  <2>4. /\ job' = Processing(e) /\ pc' = "decided" /\ cur' = e /\ start' \in Int
        /\ answer' \in Deliveries \cup {None}
        /\ UNCHANGED <<events, size, trend, claims, alert, now, crashes>>
    BY <2>2 DEF Decides, CanDecide
  <2> QED
    BY <2>1, <2>3, <2>4, ClaimHolds
<1> QED
  BY <1>1, <1>2, <1>3, <1>4, <1>5, <1>6, <1>7, <1>8, <1>9, <1>10, <1>11, <1>12 DEF ClaimJob

------------------------------------------------------------------------------
(* Rounds.                                                                  *)

LEMMA RoundFinishes ==
    ASSUME JobsInv, Working, NEW code \in Results \ {"STATE_MISSING"},
           code = "FINAL_STRONG" => Alerted(cur), Ends(Finished(job, cur, code))
    PROVE  JobsInv'
<1>1. cur \in Events /\ Table(job)
  BY HeldFacts
<1>2. Ended(job, Finished(job, cur, code), cur)
  BY <1>1, FinishedEnds
<1> QED
  BY <1>2, RoundEnds, Zenon

(* The round goes on to another point with the same row.                    *)
LEMMA RoundGoesOn ==
    ASSUME JobsInv, Working, UNCHANGED <<tables, cur, now, crashes>>,
           NEW point \in {"dex", "gate", "goplus", "enqueued"}, pc' = point,
           start' \in Int, answer' \in {None, answer}, dexOpen' \in BOOLEAN,
           point = "dex" => job[cur].stage # "security_check" /\ Measured(cur),
           point = "enqueued" /\ answer' = "strong" => Alerted(cur)
    PROVE  JobsInv'
<1>1. UNCHANGED <<events, job, size, trend, claims, alert>>
  BY DEF tables
<1>2. Table(job)'
  BY <1>1, TableStays, EvidenceUnchanged DEF JobsInv
<1>3. TypeOK'
  BY <1>1 DEF JobsInv, TypeOK, Awaits, Commits
<1>4. HeldJobIsProcessing'
  BY <1>1 DEF JobsInv, HeldJobIsProcessing, Working, Awaits, Commits, Up
<1>5. NoJobBeforeEvent' /\ ClaimsMatchAlerts' /\ NoDoubleAlert'
  BY <1>1 DEF JobsInv, NoJobBeforeEvent, ClaimsMatchAlerts, NoDoubleAlert
<1>6. PointEarned'
  BY <1>1 DEF PointEarned, Measured, SizedOk, Growth, Alerted
<1> QED
  BY <1>2, <1>3, <1>4, <1>5, <1>6 DEF JobsInv

LEMMA SizeAnsweredInv ==
    ASSUME JobsInv, SizeAnswered
    PROVE  JobsInv'
<1>0. Working
  BY DEF SizeAnswered, Working, Awaits
<1>1. PICK a \in {"error", "blocked", "pass"} :
          /\ answer' = a
          /\ size' = [size EXCEPT ![cur] =
                          IF a \in {"blocked", "pass"} THEN a
                          ELSE IF @ = None THEN "failed" ELSE @]
  BY DEF SizeAnswered
<1>2. /\ pc' = "sized"
      /\ UNCHANGED <<events, job, trend, claims, alert, cur, start, dexOpen, now, crashes>>
  BY DEF SizeAnswered
<1>3. cur \in Events /\ Table(job) /\ job[cur].stage = "dex_probe" /\ ~ Growth(cur)
  BY <1>0, HeldFacts DEF SizeAnswered, JobsInv, PointEarned
<1>4. size \in [Events -> {None, "failed", "blocked", "pass"}]
  BY DEF JobsInv, TypeOK
<1>5. /\ size' \in [Events -> {None, "failed", "blocked", "pass"}]
      /\ a = "pass" => size'[cur] = "pass"
      /\ \A f \in Events \ {cur} : size'[f] = size[f]
  BY <1>1, <1>3, <1>4
<1>6. TypeOK'
  BY <1>1, <1>2, <1>5 DEF JobsInv, TypeOK, Awaits, Commits
<1>7. \A f \in Events : Row(f, job[f])'
  <2>1. \A f \in Events : Alerted(f)' = Alerted(f)
    BY <1>2 DEF Alerted
  <2>2. \A f \in Events \ {cur} : Measured(f)' = Measured(f)
    BY <1>5 DEF Measured, SizedOk, Growth
  <2> QED
    BY <1>2, <1>3, <2>1, <2>2 DEF Table, Row
<1>8. Table(job)'
  BY <1>2, <1>3, <1>7 DEF Table, Single
<1>9. HeldJobIsProcessing'
  BY <1>0, <1>2 DEF JobsInv, HeldJobIsProcessing, Working, Awaits, Commits, Up
<1>10. PointEarned'
  BY <1>1, <1>2, <1>3, <1>5 DEF PointEarned, Growth
<1>11. NoJobBeforeEvent' /\ ClaimsMatchAlerts' /\ NoDoubleAlert'
  BY <1>2 DEF JobsInv, NoJobBeforeEvent, ClaimsMatchAlerts, NoDoubleAlert
<1> QED
  BY <1>6, <1>8, <1>9, <1>10, <1>11 DEF JobsInv

(* An alert and its claim are stored together, when the claim is free.      *)
LEMMA EnqueuedInv ==
    ASSUME JobsInv, Enqueued
    PROVE  JobsInv'
<1>0. Working
  BY DEF Enqueued, Working, Commits
<1>1. /\ Wants \in {"strong", "sample"} /\ <<Wants, TokenOf[cur]>> \notin claims
      /\ alert[cur] = None
      /\ claims' = claims \cup {<<Wants, TokenOf[cur]>>}
      /\ alert' = [alert EXCEPT ![cur] = Wants]
      /\ pc' = "enqueued"
      /\ UNCHANGED <<events, job, size, trend, cur, start, answer, dexOpen, now, crashes>>
  BY DEF Enqueued, Wants, ClaimFree, None
<1>2. cur \in Events /\ Table(job) /\ TokenOf[cur] \in Tokens
  BY <1>0, HeldFacts, Bounds
<1>3. alert \in [Events -> {None, "strong", "sample"}]
  BY DEF JobsInv, TypeOK
<1>4. /\ alert' \in [Events -> {None, "strong", "sample"}] /\ alert'[cur] = Wants
      /\ \A f \in Events \ {cur} : alert'[f] = alert[f]
  BY <1>1, <1>2, <1>3
<1>5. \A f \in Events : alert[f] # None => f # cur /\ alert'[f] = alert[f]
  BY <1>1, <1>4
<1>6. \A f \in Events : Alerted(f) => Alerted(f)'
  BY <1>5 DEF Alerted, None
<1>7. \A f \in Events : Measured(f) => Measured(f)'
  BY <1>1 DEF Measured, SizedOk, Growth
<1>8. Table(job)'
  BY <1>1, <1>2, <1>6, <1>7, TableStays
<1>9. TypeOK'
  BY <1>1, <1>2, <1>4 DEF JobsInv, TypeOK, Commits
<1>10. HeldJobIsProcessing'
  BY <1>0, <1>1 DEF JobsInv, HeldJobIsProcessing, Working, Awaits, Commits, Up
<1>11. PointEarned'
  BY <1>1, <1>2, <1>4 DEF PointEarned, Alerted, Wants, None
<1>12. NoJobBeforeEvent'
  BY <1>1 DEF JobsInv, NoJobBeforeEvent
<1>13. ClaimsMatchAlerts'
  <2>1. \A f \in Events : alert'[f] # None => <<alert'[f], TokenOf[f]>> \in claims'
    BY <1>1, <1>4 DEF JobsInv, ClaimsMatchAlerts
  <2>2. ASSUME NEW kind \in {"strong", "sample"}, NEW token \in Tokens,
               <<kind, token>> \in claims'
        PROVE  \E f \in Events : TokenOf[f] = token /\ alert'[f] = kind
    <3>1. CASE <<kind, token>> \in claims
      <4>1. PICK f \in Events : TokenOf[f] = token /\ alert[f] = kind
        BY <3>1 DEF JobsInv, ClaimsMatchAlerts
      <4> QED
        BY <1>5, <4>1 DEF None
    <3>2. CASE <<kind, token>> = <<Wants, TokenOf[cur]>>
      BY <1>2, <1>4, <3>2
    <3> QED
      BY <1>1, <2>2, <3>1, <3>2
  <2> QED
    BY <2>1, <2>2 DEF ClaimsMatchAlerts
<1>14. NoDoubleAlert'
  <2> SUFFICES ASSUME NEW f \in Events, NEW g \in Events, alert'[f] # None,
                      alert'[f] = alert'[g], TokenOf[f] = TokenOf[g], f # g
               PROVE  FALSE
    BY DEF NoDoubleAlert
  <2>1. \A h \in Events : alert[h] # None => <<alert[h], TokenOf[h]>> \in claims
    BY DEF JobsInv, ClaimsMatchAlerts
  <2>2. CASE f = cur
    BY <1>1, <1>4, <2>1, <2>2 DEF None
  <2>3. CASE g = cur
    BY <1>1, <1>4, <2>1, <2>3 DEF None
  <2>4. CASE f # cur /\ g # cur
    BY <1>4, <2>4 DEF JobsInv, NoDoubleAlert
  <2> QED
    BY <2>2, <2>3, <2>4
<1> QED
  BY <1>8, <1>9, <1>10, <1>11, <1>12, <1>13, <1>14 DEF JobsInv

(* The decision taken is held in memory until it is enqueued. *)
LEMMA DecidedInv ==
    ASSUME JobsInv, Working, Decides(job, cur), dexOpen' \in BOOLEAN
    PROVE  JobsInv'
<1>1. /\ UNCHANGED <<events, job, size, trend, claims, alert, cur, now, crashes>>
      /\ pc' = "decided" /\ start' = 0 /\ answer' \in Deliveries
  BY DEF Decides, CanDecide
<1>2. Table(job)'
  BY <1>1, TableStays, EvidenceUnchanged DEF JobsInv
<1>3. TypeOK'
  BY <1>1 DEF JobsInv, TypeOK, Commits
<1>4. HeldJobIsProcessing'
  BY <1>1 DEF JobsInv, HeldJobIsProcessing, Working, Awaits, Commits, Up
<1>5. NoJobBeforeEvent' /\ ClaimsMatchAlerts' /\ NoDoubleAlert'
  BY <1>1 DEF JobsInv, NoJobBeforeEvent, ClaimsMatchAlerts, NoDoubleAlert
<1>6. PointEarned'
  BY <1>1 DEF PointEarned
<1> QED
  BY <1>2, <1>3, <1>4, <1>5, <1>6 DEF JobsInv

LEMMA RoundInv ==
    ASSUME JobsInv, Round
    PROVE  JobsInv'
<1>0. {"BLOCKED", "FAILED", "INTERNAL_ERROR", "FINAL_STRONG", "FINAL_OTHER"} \subseteq Results
  BY DEF Results
<1>t. start \in Int /\ dexOpen \in BOOLEAN /\ now \in Nat
  BY DEF JobsInv, TypeOK
<1>1. CASE SizeAnswered
  BY <1>1, SizeAnsweredInv
<1>2. CASE SizeRechecked
  <2>0. Working /\ pc = "sized"
    BY <1>2 DEF SizeRechecked, Working, Commits
  <2>1. /\ cur \in Events /\ Table(job) /\ IsActive(job[cur])
        /\ job[cur].stage = "dex_probe"
    BY <2>0, HeldFacts DEF JobsInv, PointEarned
  <2>2. PICK offsets \in Offsets(answer) :
            Ends(RecheckSize(job, cur, offsets, start, SizeCode(answer)))
    BY <1>2 DEF SizeRechecked
  <2>3. offsets \in SUBSET SizeChecks /\ SizeCode(answer) \in {"BLOCKED", "FAILED"}
    BY Bounds DEF Offsets, SizeCode
  <2>4. Ended(job, RecheckSize(job, cur, offsets, start, SizeCode(answer)), cur)
    BY <1>0, <1>t, <2>1, <2>3, RecheckedEnds
  <2> QED
    BY <2>0, <2>2, <2>4, RoundEnds, Zenon
<1>3. CASE SizePassed
  <2>0. Working /\ pc = "sized" /\ answer = "pass"
    BY <1>3 DEF SizePassed, Working, Commits
  <2>1. /\ cur \in Events /\ Table(job) /\ IsActive(job[cur])
        /\ job[cur].stage = "dex_probe" /\ Measured(cur)
    BY <2>0, HeldFacts DEF JobsInv, PointEarned, Measured
  <2>2. CASE /\ pc' = "dex" /\ answer' = None /\ start' = 0 /\ dexOpen' = FALSE
             /\ UNCHANGED <<tables, cur, now, crashes>>
    <3>1. dexOpen' \in BOOLEAN
      BY <2>2, Zenon
    <3> QED
      BY <2>0, <2>1, <2>2, <3>1, RoundGoesOn
  <2>3. CASE Ends(DexDeferred(job, cur, start))
    <3>1. job[cur].dex \in 0..MaxDex /\ job[cur].dex < MaxDex
      BY <2>1 DEF Table, Row, Jobs
    <3>2. start + Defer \in Int /\ NoMarket \in Int /\ "dex_recheck" \in Stages
      BY <1>t, Bounds DEF NoMarket, Stages
    <3>3. Ended(job, DexDeferred(job, cur, start), cur)
      BY <2>1, <3>1, <3>2, RescheduledEnds DEF DexDeferred
    <3> QED
      BY <2>0, <2>3, <3>3, RoundEnds, Zenon
  <2> QED
    BY <1>3, <2>2, <2>3 DEF SizePassed
<1>4. ASSUME pc = "dex"
      PROVE  /\ Working /\ cur \in Events /\ Table(job) /\ IsActive(job[cur]) /\ Measured(cur)
             /\ job[cur].dex + 1 \in 1..MaxDex /\ job[cur].born \in Int
  <2>1. Working
    BY <1>4 DEF Working, Awaits
  <2>2. cur \in Events /\ Table(job) /\ IsActive(job[cur])
    BY <2>1, HeldFacts
  <2>3. job[cur].stage # "security_check" /\ Measured(cur)
    BY <1>4 DEF JobsInv, PointEarned
  <2>4. job[cur].dex \in 0..MaxDex /\ job[cur].dex < MaxDex /\ job[cur].born \in Int
    BY <2>2, <2>3 DEF Table, Row, Jobs
  <2> QED
    BY <2>1, <2>2, <2>3, <2>4 DEF MaxDex
<1>5. CASE DexFailed
  <2>1. pc = "dex" /\ Ends(RetryMarket(job, cur, job[cur].dex + 1, "FAILED"))
    BY <1>5 DEF DexFailed
  <2>2. Ended(job, RetryMarket(job, cur, job[cur].dex + 1, "FAILED"), cur)
    BY <1>0, <1>t, <1>4, <2>1, RetriedEnds
  <2> QED
    BY <1>4, <2>1, <2>2, RoundEnds, Zenon
<1>6. CASE DexAnswered
  <2> DEFINE attempts == job[cur].dex + 1
             mature   == job[cur].born + DexDelay[2]
  <2>1. pc = "dex"
    BY <1>6 DEF DexAnswered
  <2>2. /\ attempts \in 0..MaxDex /\ attempts >= 1 /\ mature \in Int
        /\ now \in Int /\ now # NoMarket /\ {"dex_recheck", "security_check"} \subseteq Stages
    BY <1>t, <1>4, <2>1, Bounds DEF NoMarket, Stages, MaxDex
  <2>3. CASE /\ attempts = 1
             /\ Ends(Rescheduled(job, cur, "dex_recheck", mature, attempts, now))
    <3>1. Ended(job, Rescheduled(job, cur, "dex_recheck", mature, attempts, now), cur)
      BY <1>4, <2>1, <2>2, <2>3, RescheduledEnds DEF MaxDex
    <3> QED
      BY <1>4, <2>1, <2>3, <3>1, RoundEnds, Zenon
  <2>4. CASE Ends(Rescheduled(job, cur, "security_check", now, attempts, now))
    <3>1. Ended(job, Rescheduled(job, cur, "security_check", now, attempts, now), cur)
      BY <1>4, <2>1, <2>2, RescheduledEnds
    <3> QED
      BY <1>4, <2>1, <2>4, <3>1, RoundEnds, Zenon
  <2> QED
    BY <1>6, <2>3, <2>4 DEF DexAnswered
<1>7. CASE EvidenceFailed \/ EvidenceBlocked \/ GoplusFailed \/ Raises
  <2>1. Working
    BY <1>7 DEF EvidenceFailed, EvidenceBlocked, GoplusFailed, Raises, Working, Awaits
  <2>2. PICK code \in {"FAILED", "BLOCKED", "INTERNAL_ERROR"} : Ends(Finished(job, cur, code))
    BY <1>7 DEF EvidenceFailed, EvidenceBlocked, GoplusFailed, Raises
  <2> QED
    BY <1>0, <2>1, <2>2, RoundFinishes
<1>8. CASE EvidencePassed \/ GatePassed
  <2>1. Working
    BY <1>8 DEF EvidencePassed, GatePassed, Working, Awaits
  <2>2. PICK point \in {"gate", "goplus"} :
            Goes(point) /\ UNCHANGED <<tables, now, crashes>>
    BY <1>8 DEF EvidencePassed, GatePassed
  <2>3. dexOpen' \in BOOLEAN /\ start' \in Int
    BY <1>t, <2>2, Zenon DEF Goes
  <2> QED
    BY <2>1, <2>2, <2>3, RoundGoesOn DEF Goes
<1>9. CASE GoplusAnswered
  <2>1. Working
    BY <1>9 DEF GoplusAnswered, Working, Awaits
  <2>2. Decides(job, cur)
    BY <1>9 DEF GoplusAnswered
  <2>3. dexOpen' \in BOOLEAN
    BY <2>2, Zenon DEF Decides
  <2> QED
    BY <2>1, <2>2, <2>3, DecidedInv
<1>10. CASE Enqueued
  BY <1>10, EnqueuedInv
<1>11. CASE NotEnqueued
  <2>1. Working /\ cur \in Events
    BY <1>11, HeldFacts DEF NotEnqueued, Working, Commits
  <2>2. answer = "strong" => Alerted(cur)
    <3> SUFFICES ASSUME answer = "strong" PROVE Alerted(cur)
      OBVIOUS
    <3>1. <<"strong", TokenOf[cur]>> \in claims
      BY <1>11 DEF NotEnqueued, Wants, ClaimFree
    <3>2. TokenOf[cur] \in Tokens
      BY <2>1, Bounds
    <3> QED
      BY <3>1, <3>2 DEF JobsInv, ClaimsMatchAlerts, Alerted
  <2>3. /\ pc' = "enqueued" /\ answer' = answer
        /\ UNCHANGED <<tables, cur, start, dexOpen, now, crashes>>
    BY <1>11 DEF NotEnqueued
  <2>4. start' \in Int /\ dexOpen' \in BOOLEAN
    BY <1>t, <2>3, Zenon
  <2> QED
    BY <2>1, <2>2, <2>3, <2>4, RoundGoesOn
<1>12. CASE EnqueueRaises
  <2>1. Working /\ Ends(Finished(job, cur, "INTERNAL_ERROR"))
    BY <1>12 DEF EnqueueRaises, Working, Commits
  <2> QED
    BY <1>0, <2>1, RoundFinishes
<1>13. CASE JobFinished
  <2> DEFINE code == IF answer = "strong" THEN "FINAL_STRONG" ELSE "FINAL_OTHER"
  <2>1. Working /\ Ends(Finished(job, cur, code))
    BY <1>13 DEF JobFinished, Working, Commits
  <2>2. code \in Results \ {"STATE_MISSING"}
    BY <1>0
  <2>3. code = "FINAL_STRONG" => Alerted(cur)
    BY <1>13 DEF JobFinished, JobsInv, PointEarned
  <2> HIDE DEF code
  <2> QED
    BY <2>1, <2>2, <2>3, RoundFinishes
<1> QED
  BY <1>1, <1>2, <1>3, <1>5, <1>6, <1>7, <1>8, <1>9, <1>10, <1>11, <1>12, <1>13 DEF Round

------------------------------------------------------------------------------
(* Discovery, the clock, crashes and restarts.                              *)

(* An event is stored and may be scheduled, and the process may die of it.  *)
LEMMA Arrives ==
    ASSUME JobsInv, Yielding, NEW e \in Events \ events, NEW K,
           K = job \/ (\E score \in Scores, signal \in BOOLEAN : K \in Scheduled(e, score, signal))
    PROVE  /\ Table(K)
           /\ \A f \in Events : job[f].state = "processing" <=> K[f].state = "processing"
           /\ \A f \in Events : job[f].state = "processing" => K[f] = job[f]
           /\ \A f \in Events \ {e} : job[f] = NoJob => K[f] = NoJob
<1>1. Table(job) /\ now \in Nat /\ job[e] = NoJob /\ job[e].state # "processing"
  BY DEF JobsInv, TypeOK, NoJobBeforeEvent, NoJob, None
<1>2. CASE K = job
  BY <1>1, <1>2
<1>3. CASE \E score \in Scores, signal \in BOOLEAN : K \in Scheduled(e, score, signal)
  <2>1. PICK score \in Scores, signal \in BOOLEAN : K \in Scheduled(e, score, signal)
    BY <1>3
  <2>2. /\ Table(K)
        /\ \A f \in Events \ {e} :
              K[f] = job[f] \/ (job[f].state = "pending" /\ K[f].state = "done")
        /\ K[e].state # "processing"
    BY <1>1, <2>1, ScheduledTable
  <2>3. NoJob.state # "pending"
    BY DEF NoJob, None
  <2> QED
    BY <1>1, <2>2, <2>3
<1> QED
  BY <1>2, <1>3

(* What storing an event, or a snapshot of a GMGN one, leaves true.          *)
LEMMA ArrivalInv ==
    ASSUME JobsInv, Yielding, NEW e \in Events,
           e \in events => job' = job,
           e \notin events =>
               \/ job' = job
               \/ \E score \in Scores, signal \in BOOLEAN : job' \in Scheduled(e, score, signal),
           events' = events \cup {e},
           \/ UNCHANGED <<size, trend>>
           \/ Growth(e) /\ \E verdict \in {"blocked", "pass"} : Snapshot(e, verdict),
           UNCHANGED <<claims, alert, memory, now, crashes>>
    PROVE  JobsInv'
<1>1. /\ Table(job')
      /\ \A f \in Events : job[f].state = "processing" <=> job'[f].state = "processing"
      /\ \A f \in Events : job[f].state = "processing" => job'[f] = job[f]
      /\ \A f \in Events \ {e} : job[f] = NoJob => job'[f] = NoJob
  <2>1. CASE e \in events
    BY <2>1 DEF JobsInv
  <2>2. CASE e \notin events
    BY <2>2, Arrives
  <2> QED
    BY <2>1, <2>2
<1>2. /\ size' \in [Events -> {None, "failed", "blocked", "pass"}] /\ trend' \in [Events -> Int]
      /\ \A f \in Events : size'[f] = size[f] \/ (Growth(f) /\ size'[f] \in {"blocked", "pass"})
  BY DEF Snapshot, JobsInv, TypeOK
<1>3. \A f \in Events : Measured(f) => Measured(f)'
  BY <1>2 DEF Measured, SizedOk, Growth
<1>4. \A f \in Events : Alerted(f) => Alerted(f)'
  BY DEF Alerted
<1>5. Table(job)'
  BY <1>1, <1>3, <1>4, TableStays
<1>6. TypeOK'
  BY <1>1, <1>2 DEF JobsInv, TypeOK, memory, Table
<1>7. HeldJobIsProcessing'
  BY <1>1 DEF JobsInv, HeldJobIsProcessing, Working, Up, memory
<1>8. NoJobBeforeEvent'
  BY <1>1 DEF JobsInv, NoJobBeforeEvent
<1>9. PointEarned'
  <2>1. pc \in {"size", "sized", "dex", "enqueued"} => cur \in Events /\ job'[cur] = job[cur]
    BY <1>1 DEF JobsInv, HeldJobIsProcessing, Working, Awaits, Commits
  <2> QED
    BY <1>2, <1>3, <1>4, <2>1 DEF JobsInv, PointEarned, memory, Growth
<1>10. ClaimsMatchAlerts' /\ NoDoubleAlert'
  BY DEF JobsInv, ClaimsMatchAlerts, NoDoubleAlert
<1> QED
  BY <1>5, <1>6, <1>7, <1>8, <1>9, <1>10 DEF JobsInv

(* The process is down: only the tables are left.                           *)
LEMMA DownInv ==
    ASSUME JobsInv, Dies, NEW K, Table(K), job' = K, events \subseteq events', events' \subseteq Events,
           \A f \in Events \ events' : K[f] = NoJob,
           UNCHANGED <<size, trend, claims, alert, now>>
    PROVE  JobsInv'
<1>1. Table(job)'
  BY TableStays, EvidenceUnchanged
<1>2. dexOpen' \in BOOLEAN
  BY Zenon DEF Dies
<1>3. TypeOK'
  BY <1>2 DEF JobsInv, TypeOK, Dies, Table
<1>4. HeldJobIsProcessing' /\ NoJobBeforeEvent' /\ PointEarned'
  BY DEF Dies, HeldJobIsProcessing, NoJobBeforeEvent, PointEarned, Working, Awaits, Commits, Up
<1>5. ClaimsMatchAlerts' /\ NoDoubleAlert'
  BY DEF JobsInv, ClaimsMatchAlerts, NoDoubleAlert
<1> QED
  BY <1>1, <1>3, <1>4, <1>5 DEF JobsInv

LEMMA DiscoveryInv ==
    ASSUME JobsInv, NEW e \in Events,
           Discover(e) \/ StoreOnly(e) \/ RefreshSnapshot(e) \/ DiscoverCrash(e)
    PROVE  JobsInv'
<1>1. CASE Discover(e)
  BY <1>1, ArrivalInv DEF Discover
<1>2. CASE StoreOnly(e)
  BY <1>2, ArrivalInv DEF StoreOnly
<1>3. CASE RefreshSnapshot(e)
  <2>1. events' = events \cup {e}
    BY <1>3 DEF RefreshSnapshot
  <2> QED
    BY <1>3, <2>1, ArrivalInv DEF RefreshSnapshot
<1>4. CASE DiscoverCrash(e)
  <2>1. /\ Table(job') /\ \A f \in Events \ {e} : job[f] = NoJob => job'[f] = NoJob
    BY <1>4, Arrives DEF DiscoverCrash
  <2>2. \A f \in Events \ events' : job'[f] = NoJob
    BY <1>4, <2>1 DEF DiscoverCrash, JobsInv, NoJobBeforeEvent
  <2> QED
    BY <1>4, <2>1, <2>2, DownInv DEF DiscoverCrash, JobsInv, TypeOK
<1> QED
  BY <1>1, <1>2, <1>3, <1>4

LEMMA PollInv ==
    ASSUME JobsInv, PollFindsNothing
    PROVE  JobsInv'
<1>1. Table(job) /\ \A f \in Events : job[f].state # "processing"
  BY DEF PollFindsNothing, JobsInv, HeldJobIsProcessing, Working, Awaits, Commits, Up
<1>2. Table(Swept) /\ \A f \in Events : Swept[f].state # "processing"
  BY <1>1, SweptTable DEF IsActive
<1>3. \A f \in Events : job[f] = NoJob => Swept[f] = NoJob
  BY <1>1, SweptTable
<1>4. /\ job' = Swept /\ pc' = "idle" /\ cur' \in Events \cup {None} /\ start' \in Int
      /\ answer' = answer /\ dexOpen' \in BOOLEAN
      /\ UNCHANGED <<events, size, trend, claims, alert, now, crashes>>
  BY DEF PollFindsNothing, Settle, memory, JobsInv, TypeOK
<1> QED
  BY <1>2, <1>3, <1>4, IdleInv, Zenon

(* initialize() puts back what a crash left processing.                     *)
LEMMA RestartInv ==
    ASSUME JobsInv, Restart
    PROVE  JobsInv'
<1> DEFINE K == [e \in Events |-> IF Interrupted(e) THEN [job[e] EXCEPT !.state = "pending"]
                                                    ELSE job[e]]
<1>1. Table(job) /\ job \in [Events -> Jobs]
  BY DEF JobsInv, Table
<1>2. ASSUME NEW e \in Events
      PROVE  /\ Row(e, K[e]) /\ K[e].state # "processing"
             /\ IsActive(K[e]) => IsActive(job[e])
             /\ job[e] = NoJob => K[e] = NoJob
  <2>1. job[e] \in Jobs /\ Row(e, job[e])
    BY <1>1 DEF Table
  <2>2. CASE job[e].state = "processing"
    <3> DEFINE r == [job[e] EXCEPT !.state = "pending"]
    <3>1. K[e] = r /\ r \in Jobs /\ r.state = "pending" /\ r.stage = job[e].stage
          /\ r.dex = job[e].dex /\ r.market = job[e].market /\ r.result = job[e].result
      BY <2>1, <2>2 DEF Interrupted, Jobs
    <3>2. job[e] # NoJob
      BY <2>2 DEF NoJob, None
    <3> HIDE DEF r
    <3> QED
      BY <2>1, <2>2, <3>1, <3>2 DEF Row, IsActive
  <2>3. CASE job[e].state # "processing"
    BY <2>1, <2>3 DEF Interrupted
  <2> QED
    BY <2>2, <2>3
<1>3. K \in [Events -> Jobs]
  BY <1>2 DEF Row
<1>4. job' = K
  BY DEF Restart
<1> HIDE DEF K
<1>5. Table(K)
  BY <1>1, <1>2, <1>3 DEF Table, Single
<1>6. /\ pc' = "idle" /\ cur' \in Events \cup {None} /\ start' \in Int
      /\ answer' = answer /\ dexOpen' \in BOOLEAN
      /\ UNCHANGED <<events, size, trend, claims, alert, now, crashes>>
  BY DEF Restart, JobsInv, TypeOK
<1> QED
  BY <1>2, <1>4, <1>5, <1>6, IdleInv, Zenon

LEMMA InitInv == Init => JobsInv
<1> SUFFICES ASSUME Init PROVE JobsInv
  OBVIOUS
<1>1. dexOpen \in BOOLEAN
  BY Zenon DEF Init
<1>2. \A e \in Events : job[e] = NoJob /\ Row(e, NoJob) /\ ~ IsActive(NoJob)
  BY NoJobRow DEF Init
<1>3. job \in [Events -> Jobs]
  BY <1>2 DEF Init, Row
<1>4. TypeOK
  BY <1>1, <1>3 DEF Init, TypeOK, Unset
<1>5. Table(job) /\ NoJobBeforeEvent
  BY <1>2, <1>3 DEF Table, Single, NoJobBeforeEvent
<1>6. HeldJobIsProcessing
  BY <1>2 DEF Init, HeldJobIsProcessing, Working, Awaits, Commits, IsActive
<1>7. PointEarned /\ ClaimsMatchAlerts /\ NoDoubleAlert
  BY DEF Init, PointEarned, ClaimsMatchAlerts, NoDoubleAlert
<1> QED
  BY <1>4, <1>5, <1>6, <1>7 DEF JobsInv

LEMMA StepInv == JobsInv /\ [Next]_vars => JobsInv'
<1> SUFFICES ASSUME JobsInv, [Next]_vars PROVE JobsInv'
  OBVIOUS
<1>1. CASE Discovery
  BY <1>1, DiscoveryInv DEF Discovery
<1>2. ASSUME NEW e \in Events, ClaimJob(e) PROVE JobsInv'
  BY <1>2, ClaimInv
<1>3. CASE PollFindsNothing
  BY <1>3, PollInv
<1>4. CASE Round
  BY <1>4, RoundInv
<1>5. CASE Crash
  BY <1>5, DownInv DEF Crash, tables, JobsInv, TypeOK, NoJobBeforeEvent
<1>6. CASE Restart
  BY <1>6, RestartInv
<1>7. CASE Tick \/ UNCHANGED vars
  <2>1. UNCHANGED <<tables, memory, crashes>> /\ (now' = now \/ now' = now + 1)
    BY <1>7 DEF Tick, vars
  <2>2. UNCHANGED <<events, job, size, trend, claims, alert, pc, cur, start, answer,
                    dexOpen, crashes>>
    BY <2>1 DEF tables, memory
  <2>3. TypeOK'
    BY <2>1, <2>2 DEF JobsInv, TypeOK
  <2>4. Table(job)'
    BY <2>2, TableStays, EvidenceUnchanged DEF JobsInv
  <2>5. HeldJobIsProcessing' /\ NoJobBeforeEvent' /\ ClaimsMatchAlerts' /\ NoDoubleAlert'
    BY <2>2 DEF JobsInv, HeldJobIsProcessing, NoJobBeforeEvent, ClaimsMatchAlerts,
                NoDoubleAlert, Working, Up
  <2>6. PointEarned'
    BY <2>2 DEF JobsInv, PointEarned, Measured, SizedOk, Growth, Alerted
  <2> QED
    BY <2>3, <2>4, <2>5, <2>6 DEF JobsInv
<1> QED
  BY <1>1, <1>2, <1>3, <1>4, <1>5, <1>6, <1>7 DEF Next

LEMMA Invariance == Spec => []JobsInv
<1>1. JobsInv /\ [Next]_vars => JobsInv'
  BY StepInv
<1> QED
  BY InitInv, <1>1, PTL DEF Spec

------------------------------------------------------------------------------
(***************************************************************************)
(* The tables and the memory of enrichment_loop keep their types.          *)
(***************************************************************************)
THEOREM TypeCorrect == Spec => []TypeOK
<1>1. JobsInv => TypeOK
  BY DEF JobsInv
<1> QED
  BY <1>1, Invariance, PTL

(***************************************************************************)
(* schedule_enrichment_job coalesces soundly: whatever arrives while a job *)
(* of the token is worked on, and whatever a restart puts back, the token  *)
(* has one active job.                                                     *)
(***************************************************************************)
THEOREM OneActive == Spec => []OneActivePerToken
<1>1. JobsInv => OneActivePerToken
  BY DEF JobsInv, Table, Single, IsActive, OneActivePerToken
<1> QED
  BY <1>1, Invariance, PTL

(***************************************************************************)
(* finish_enrichment_job and reschedule_enrichment_job never raise on the  *)
(* job the loop holds, and no other job is processing.                     *)
(***************************************************************************)
THEOREM HeldIsProcessing == Spec => []HeldJobIsProcessing
<1>1. JobsInv => HeldJobIsProcessing
  BY DEF JobsInv
<1> QED
  BY <1>1, Invariance, PTL

(***************************************************************************)
(* No stage is reached without the size, market and attempts it relies on, *)
(* for every delay: the STATE_MISSING codes are dead.                      *)
(***************************************************************************)
THEOREM Earned == Spec => []StagesAreEarned
<1>1. JobsInv => StagesAreEarned
  BY DEF JobsInv, Table, Row, IsActive, Measured, StagesAreEarned
<1> QED
  BY <1>1, Invariance, PTL

(***************************************************************************)
(* A job recorded as FINAL_STRONG has its alert, or that of a duplicate.   *)
(***************************************************************************)
THEOREM StrongIsAlerted == Spec => []FinalStrongHasAlert
<1>1. JobsInv => FinalStrongHasAlert
  BY DEF JobsInv, Table, Row, Alerted, FinalStrongHasAlert
<1> QED
  BY <1>1, Invariance, PTL

(***************************************************************************)
(* No crash, retry or second event doubles an alert.                       *)
(***************************************************************************)
THEOREM NeverTwice == Spec => []NoDoubleAlert
<1>1. JobsInv => NoDoubleAlert
  BY DEF JobsInv
<1> QED
  BY <1>1, Invariance, PTL
==============================================================================
