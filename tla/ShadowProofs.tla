----------------------------- MODULE ShadowProofs -----------------------------
(***************************************************************************)
(* Proofs about CurveShadow for every set of logs, every chain, every       *)
(* window and any number of failures, crashes and reorganisations.          *)
(*                                                                         *)
(* Four actions write a batch: a chunk of a backfill, a live batch, a poll  *)
(* and a batch that breaks half way.  They are brought to one form first,   *)
(* BatchForm, so that what process_batch does is argued about once.         *)
(***************************************************************************)
EXTENDS CurveShadow, TLAPS, WellFoundedInduction

Fresh(l) == [log |-> l, removed |-> FALSE]

(* l was delivered, and the stream still has it to give. *)
Queued(l) == Fresh(l) \in queue

Origin(l) == LaunchOf(TokenOf[l])

(* What the types need to be inductive. *)
QueueIsPast == \A d \in queue : blockOf[d.log] <= now /\ (d.removed => d.log \in gone)

RadarIsPast == \A t \in Tokens : radar[t] # Unset => blockOf[LaunchOf(t)] <= now

SeedsAreStored == seeding => \A t \in seeded : row[LaunchOf(t)] # NoRow

Types == TypeOK /\ QueueIsPast /\ RadarIsPast /\ SeedsAreStored

------------------------------------------------------------------------------
(* The constants, the launches and the largest of a set.                    *)

LEMMA Bounds ==
    /\ TokenOf \in [Logs -> Tokens]
    /\ Overlap \in Nat /\ SeedOverlap \in Nat /\ Retention \in Nat
    /\ MaxNow \in Nat /\ MaxFaults \in Nat /\ Behind \in Nat
    /\ Window \in Nat /\ Window >= 1 /\ PollWindow \in Nat /\ PollWindow >= 1
    /\ Chunk \in Nat /\ Chunk >= 1 /\ LastLog \in 1..MaxNow
BY ShadowAssumption

LEMMA Launches ==
    /\ \A t \in Tokens : /\ LaunchOf(t) \in Logs /\ TokenOf[LaunchOf(t)] = t
                         /\ IsLaunch(LaunchOf(t))
    /\ \A l \in Logs : Origin(l) \in Logs /\ (IsLaunch(l) => Origin(l) = l)
<1>1. ASSUME NEW t \in Tokens
      PROVE  \E l \in Logs : {k \in Logs : TokenOf[k] = t /\ KindOf[k] = "launch"} = {l}
  BY ShadowAssumption
<1>2. ASSUME NEW t \in Tokens
      PROVE  /\ LaunchOf(t) \in Logs /\ TokenOf[LaunchOf(t)] = t /\ IsLaunch(LaunchOf(t))
             /\ \A k \in Logs : TokenOf[k] = t /\ IsLaunch(k) => k = LaunchOf(t)
  <2>1. PICK l \in Logs : {k \in Logs : TokenOf[k] = t /\ KindOf[k] = "launch"} = {l}
    BY <1>1
  <2>2. TokenOf[l] = t /\ KindOf[l] = "launch"
    BY <2>1
  <2>3. \A k \in Logs : TokenOf[k] = t /\ KindOf[k] = "launch" => k = l
    BY <2>1
  <2>4. LaunchOf(t) = l
    BY <2>2, <2>3 DEF LaunchOf
  <2> QED
    BY <2>2, <2>3, <2>4 DEF IsLaunch
<1> QED
  BY <1>2, Bounds DEF Origin

LEMMA LargestIs ==
    ASSUME NEW n \in Nat, NEW S, S \subseteq 0..n, S # {}
    PROVE  Largest(S) \in S /\ \A y \in S : y <= Largest(S)
<1> DEFINE U == {k \in Nat : \A y \in S : y <= k}
<1>1. n \in U
  OBVIOUS
<1>2. PICK u \in U : \A k \in U : ~ (<<k, u>> \in OpToRel(<, Nat))
  <2>1. U \subseteq Nat /\ U # {}
    BY <1>1
  <2> HIDE DEF U
  <2> QED
    BY <2>1, NatLessThanWellFounded, WFMin, Zenon
<1>3. u \in Nat /\ \A y \in S : y <= u
  BY <1>2
<1>4. \A k \in U : ~ (k < u)
  <2>1. U \subseteq Nat
    OBVIOUS
  <2> QED
    BY <1>2, <2>1, Zenon DEF OpToRel
<1>5. u \in S
  <2> SUFFICES ASSUME u \notin S PROVE FALSE
    OBVIOUS
  <2>1. PICK x \in S : TRUE
    OBVIOUS
  <2>2. \A y \in S : y <= u - 1
    BY <1>3
  <2>3. u - 1 \in Nat
    BY <1>3, <2>1, <2>2
  <2>4. u - 1 \in U
    BY <2>2, <2>3
  <2> QED
    BY <1>3, <1>4, <2>4
<1>6. \E x \in S : \A y \in S : y <= x
  BY <1>3, <1>5
<1> QED
  BY <1>6 DEF Largest

------------------------------------------------------------------------------
(* What the four batches have in common.                                    *)

BatchStep == BackfillChunk \/ LiveBatch \/ PollStores \/ BatchBreaks

(* The logs of B are there to be taken, and a log whose removal is among them *)
(* is not left behind in the queue.                                         *)
Arrived(B) ==
    /\ B \subseteq Deliveries
    /\ \A d \in B :
        /\ blockOf[d.log] <= now
        /\ IF d.removed THEN d.log \in gone /\ Fresh(d.log) \notin queue'
                        ELSE d.log \notin gone \/ Queued(d.log)

(* stamp keeps the times known and dates every block of B. *)
Dated(B, stamp) ==
    /\ stamp \in [1..MaxNow -> 0..now \cup {Unset}]
    /\ \A d \in B : stamp[blockOf[d.log]] # Unset
    /\ \A b \in 1..MaxNow : \/ stamp[b] = times[b]
                            \/ times[b] = Unset /\ b <= now /\ stamp[b] \in {b, now}

BatchForm(B, stamp, mark) ==
    /\ Arrived(B) /\ Dated(B, stamp) /\ mark \in 0..now
    /\ Processed(B, stamp, mark)
    /\ queue' \subseteq queue
    /\ UNCHANGED <<chain, coverage, supported, seeds, skipped, now>>

LEMMA DatedLive ==
    ASSUME Types, NEW B, B \subseteq Deliveries, \A d \in B : blockOf[d.log] <= now
    PROVE  Dated(B, LiveTimes(B))
<1>1. now \in Nat /\ blockOf \in [Logs -> 1..MaxNow]
  BY Bounds DEF Types, TypeOK
<1>2. \A b \in Blocks(B) : b <= now
  BY DEF Blocks
<1>3. \A d \in B : blockOf[d.log] \in Blocks(B) /\ blockOf[d.log] \in 1..MaxNow
  BY <1>1 DEF Blocks, Deliveries
<1>4. times \in [1..MaxNow -> 0..now \cup {Unset}]
  BY DEF Types, TypeOK
<1> QED
  BY <1>1, <1>2, <1>3, <1>4, Bounds DEF Dated, LiveTimes, Unset

LEMMA DatedPrimed ==
    ASSUME Types, NEW B, B \subseteq Deliveries,
           NEW bs, Blocks(B) \subseteq bs, \A b \in bs : b \in 0..now
    PROVE  Dated(B, PrimedTimes(bs))
<1>1. now \in Nat /\ blockOf \in [Logs -> 1..MaxNow]
  BY Bounds DEF Types, TypeOK
<1>2. \A d \in B : blockOf[d.log] \in bs /\ blockOf[d.log] \in 1..MaxNow
  BY <1>1 DEF Blocks, Deliveries
<1>3. times \in [1..MaxNow -> 0..now \cup {Unset}]
  BY DEF Types, TypeOK
<1> QED
  BY <1>1, <1>2, <1>3, Bounds DEF Dated, PrimedTimes, Unset

(* The range of a chunk lies on the chain. *)
LEMMA UpperIs ==
    ASSUME Types, lower <= latest
    PROVE  Upper \in 0..now /\ lower <= Upper /\ Upper <= latest /\ lower \in Nat
<1>1. now \in Nat /\ latest \in 0..now /\ lower \in Nat
  BY Bounds DEF Types, TypeOK
<1> QED
  BY <1>1, Bounds DEF Upper, Min2

LEMMA RangeArrives ==
    ASSUME Types, NEW a, NEW b \in 0..now, NEW B, B \subseteq Between(a, b)
    PROVE  Arrived(B)
<1>1. now \in Nat /\ blockOf \in [Logs -> 1..MaxNow]
  BY Bounds DEF Types, TypeOK
<1>2. \A d \in B : /\ d \in Deliveries /\ ~ d.removed /\ d.log \notin gone
                   /\ blockOf[d.log] <= b
  BY DEF Between
<1>3. \A d \in B : blockOf[d.log] \in Nat
  BY <1>1, <1>2 DEF Deliveries
<1> QED
  BY <1>1, <1>2, <1>3 DEF Arrived

LEMMA CutArrives ==
    ASSUME Types, NEW B, Cut(B), NEW A, A \subseteq B,
           queue' = queue \ B \/ queue' = {}
    PROVE  Arrived(A)
<1>1. queue \subseteq Deliveries /\ B \subseteq queue
  BY DEF Types, TypeOK, Cut
<1>2. ASSUME NEW d \in A
      PROVE  /\ blockOf[d.log] <= now
             /\ IF d.removed THEN d.log \in gone /\ Fresh(d.log) \notin queue'
                             ELSE d.log \notin gone \/ Queued(d.log)
  <2>1. d \in queue /\ d \in B /\ d \in Deliveries
    BY <1>1
  <2>2. blockOf[d.log] <= now /\ (d.removed => d.log \in gone)
    BY <2>1 DEF Types, QueueIsPast
  <2>3. ~ d.removed => d = Fresh(d.log)
    BY <2>1 DEF Fresh, Deliveries
  <2>4. Fresh(d.log) \notin queue \ B
    BY <2>1 DEF Cut, Fresh
  <2> QED
    BY <2>1, <2>2, <2>3, <2>4 DEF Queued
<1> QED
  BY <1>1, <1>2 DEF Arrived

ChunkBlocks == Blocks(Between(lower, Upper)) \cup ({Upper} \ {0})

ChunkMark == IF Upper = 0 THEN 0 ELSE PrimedTimes(ChunkBlocks)[Upper]

LEMMA ChunkForm ==
    ASSUME Types, BackfillChunk
    PROVE  /\ Between(lower, Upper) \in SUBSET Deliveries
           /\ BatchForm(Between(lower, Upper), PrimedTimes(ChunkBlocks), ChunkMark)
<1>0. now \in Nat
  BY Bounds DEF Types, TypeOK
<1> DEFINE B == Between(lower, Upper)
           stamp == PrimedTimes(ChunkBlocks)
<1>1. Upper \in 0..now
  BY UpperIs DEF BackfillChunk
<1>2. B \subseteq Deliveries
  BY DEF Between
<1>3. Arrived(B)
  BY <1>1, RangeArrives
<1>4. \A b \in Blocks(B) : b \in 0..now
  <2>1. \A d \in B : blockOf[d.log] <= now /\ d.log \in Logs
    BY <1>2, <1>3 DEF Arrived, Deliveries
  <2>2. blockOf \in [Logs -> 1..MaxNow]
    BY DEF Types, TypeOK
  <2> QED
    BY <1>0, <2>1, <2>2, Bounds DEF Blocks
<1>5. \A b \in ChunkBlocks : b \in 0..now
  BY <1>1, <1>4 DEF ChunkBlocks
<1>6. Dated(B, stamp)
  BY <1>2, <1>5, DatedPrimed DEF ChunkBlocks
<1>7. ChunkMark \in 0..now
  <2>1. CASE Upper # 0
    <3>1. Upper \in ChunkBlocks /\ Upper \in 1..MaxNow
      <4>1. now <= MaxNow
        BY Bounds DEF Types, TypeOK
      <4> QED
        BY <1>1, <2>1, <4>1, <1>0, Bounds DEF ChunkBlocks
    <3>2. times[Upper] \in 0..now \cup {Unset}
      BY <3>1 DEF Types, TypeOK
    <3>3. ChunkMark = IF times[Upper] = Unset THEN Upper ELSE times[Upper]
      BY <2>1, <3>1 DEF PrimedTimes, ChunkMark
    <3> QED
      BY <1>1, <3>2, <3>3
  <2> QED
    BY <1>0, <2>1 DEF ChunkMark
<1>8. Processed(B, stamp, ChunkMark)
  BY DEF BackfillChunk, ChunkBlocks, ChunkMark
<1>9. BatchForm(B, stamp, ChunkMark)
  <2> HIDE DEF B, stamp
  <2> QED
    BY <1>3, <1>6, <1>7, <1>8 DEF BatchForm, BackfillChunk
<1> QED
  BY <1>2, <1>9

BreakTimes(B) == IF Backfilling THEN PrimedTimes(Blocks(B)) ELSE LiveTimes(B)

LEMMA BreakForm ==
    ASSUME Types, BatchBreaks
    PROVE  \E B \in InHand : \E A \in SUBSET B :
               Begins(A, B) /\ BatchForm(A, BreakTimes(B), 0)
<1>0. now \in Nat /\ latest \in 0..now
  BY Bounds DEF Types, TypeOK
<1>9. PICK B \in InHand : \E A \in (SUBSET B) \ {B} :
          Begins(A, B) /\ Processed(A, BreakTimes(B), 0)
  BY DEF BatchBreaks, BreakTimes
<1>1. PICK A \in (SUBSET B) \ {B} :
          Begins(A, B) /\ Processed(A, BreakTimes(B), 0)
  BY <1>9
<1>2. queue' = {}
  BY DEF BatchBreaks
<1>3. Arrived(B) /\ Arrived(A)
  <2>1. CASE Backfilling
    <3>1. B = Between(lower, Upper)
      BY <1>1, <2>1 DEF InHand, Backfilling
    <3>2. CASE lower <= latest
      BY <1>1, <3>1, <3>2, UpperIs, RangeArrives
    <3>3. CASE ~ (lower <= latest)
      <4>1. Upper = latest
        BY <1>0, <3>3, Bounds DEF Upper, Min2, Types, TypeOK
      <4> QED
        BY <1>0, <1>1, <3>1, <4>1, RangeArrives
    <3> QED
      BY <3>2, <3>3
  <2>2. CASE pc = "polling"
    <3>1. B = Between(lower, latest)
      BY <1>1, <2>2 DEF InHand, Backfilling
    <3> QED
      BY <1>0, <1>1, <3>1, RangeArrives
  <2>3. CASE pc = "live"
    <3>1. Cut(B)
      BY <1>1, <2>3 DEF InHand, Backfilling
    <3> QED
      BY <1>1, <1>2, <3>1, CutArrives
  <2>4. CASE ~ Backfilling /\ pc # "polling" /\ pc # "live"
    BY <1>1, <2>4 DEF InHand
  <2> QED
    BY <2>1, <2>2, <2>3, <2>4
<1>4. Dated(B, BreakTimes(B))
  <2>1. B \subseteq Deliveries /\ \A d \in B : blockOf[d.log] <= now
    BY <1>3 DEF Arrived
  <2>2. \A b \in Blocks(B) : b \in 0..now
    <3>1. \A d \in B : d.log \in Logs
      BY <2>1 DEF Deliveries
    <3>2. blockOf \in [Logs -> 1..MaxNow]
      BY DEF Types, TypeOK
    <3> QED
      BY <1>0, <2>1, <3>1, <3>2, Bounds DEF Blocks
  <2>3. Dated(B, PrimedTimes(Blocks(B)))
    BY <2>1, <2>2, DatedPrimed
  <2>4. Dated(B, LiveTimes(B))
    BY <2>1, DatedLive
  <2> QED
    BY <2>3, <2>4 DEF BreakTimes
<1>5. Dated(A, BreakTimes(B))
  BY <1>1, <1>4 DEF Dated
<1>6. BatchForm(A, BreakTimes(B), 0)
  BY <1>0, <1>1, <1>2, <1>3, <1>5 DEF BatchForm, BatchBreaks, place
<1> QED
  BY <1>1, <1>6

LEMMA BatchForms ==
    ASSUME Types, BatchStep
    PROVE  \E B, stamp, mark : B \in SUBSET Deliveries /\ BatchForm(B, stamp, mark)
<1>0. now \in Nat /\ latest \in 0..now /\ queue \subseteq Deliveries
  BY Bounds DEF Types, TypeOK
<1>1. CASE BackfillChunk
  BY <1>1, ChunkForm
<1>2. CASE LiveBatch
  <2>1. PICK B \in SUBSET queue : Cut(B) /\ Processed(B, LiveTimes(B), 0) /\ queue' = queue \ B
    BY <1>2 DEF LiveBatch
  <2>2. Arrived(B) /\ B \in SUBSET Deliveries
    BY <1>0, <2>1, CutArrives
  <2>3. Dated(B, LiveTimes(B))
    BY <2>2, DatedLive DEF Arrived
  <2> QED
    BY <1>0, <1>2, <2>1, <2>2, <2>3 DEF BatchForm, LiveBatch
<1>3. CASE PollStores
  <2> DEFINE B == Between(lower, latest)
  <2>1. Arrived(B) /\ B \in SUBSET Deliveries
    BY <1>0, RangeArrives DEF Between
  <2>2. Dated(B, LiveTimes(B))
    BY <2>1, DatedLive DEF Arrived
  <2>3. Processed(B, LiveTimes(B), now)
    BY <1>3 DEF PollStores
  <2> HIDE DEF B
  <2> QED
    BY <1>0, <1>3, <2>1, <2>2, <2>3 DEF BatchForm, PollStores
<1>4. CASE BatchBreaks
  <2>1. PICK B, A : B \in InHand /\ BatchForm(A, BreakTimes(B), 0)
    BY <1>4, BreakForm
  <2>2. A \in SUBSET Deliveries
    BY <2>1 DEF BatchForm, Arrived
  <2> QED
    BY <2>1, <2>2
<1> QED
  BY <1>1, <1>2, <1>3, <1>4 DEF BatchStep

(* What a batch does to the rows and to the registry. *)
LEMMA BatchRows ==
    ASSUME Types, NEW B, NEW stamp, NEW mark, BatchForm(B, stamp, mark)
    PROVE  /\ \A l \in Accepted(B, stamp) :
                 /\ l \in Logs /\ Agrees(l, stamp)
                 /\ stamp[blockOf[l]] \in 0..now /\ blockOf[l] \in 1..now
                 /\ row'[l] = [at |-> stamp[blockOf[l]], seen |-> Observed(l),
                               removed |-> [log |-> l, removed |-> TRUE] \in B]
                 /\ \E d \in B : d.log = l
           /\ \A l \in Logs \ Accepted(B, stamp) : row'[l] = row[l]
           /\ DOMAIN row' = Logs
           /\ \A t \in Tokens :
                 \/ registry'[t] = registry[t]
                 \/ /\ registry'[t] \in {"live", "removed"}
                    /\ LaunchOf(t) \in Accepted(B, stamp)
                    /\ registry'[t] = "removed" => row'[LaunchOf(t)].removed
<1>1. now \in Nat /\ blockOf \in [Logs -> 1..MaxNow] /\ stamp \in [1..MaxNow -> 0..now \cup {Unset}]
  BY Bounds DEF Types, TypeOK, BatchForm, Dated
<1>2. \A d \in B : /\ d.log \in Logs /\ d.removed \in BOOLEAN /\ blockOf[d.log] <= now
                   /\ stamp[blockOf[d.log]] # Unset
  BY DEF BatchForm, Arrived, Dated, Deliveries
<1>3. row' = [l \in Logs |->
                 IF l \in Accepted(B, stamp)
                 THEN [at |-> stamp[blockOf[l]], seen |-> Observed(l),
                       removed |-> [log |-> l, removed |-> TRUE] \in B]
                 ELSE row[l]]
  BY DEF BatchForm, Processed
<1>4. ASSUME NEW l \in Accepted(B, stamp)
      PROVE  /\ l \in Logs /\ Agrees(l, stamp)
             /\ stamp[blockOf[l]] \in 0..now /\ blockOf[l] \in 1..now
             /\ \E d \in B : d.log = l
  <2>1. PICK d \in B : d.log = l
    BY DEF Accepted
  <2>2. Agrees(l, stamp)
    BY DEF Accepted
  <2> QED
    BY <1>1, <1>2, <2>1, <2>2, Bounds
<1>5. ASSUME NEW t \in Tokens, registry'[t] # registry[t]
      PROVE  /\ registry'[t] \in {"live", "removed"}
             /\ LaunchOf(t) \in Accepted(B, stamp)
             /\ registry'[t] = "removed" => row'[LaunchOf(t)].removed
  <2> DEFINE mine == {d \in B : d.log = LaunchOf(t) /\ Agrees(d.log, stamp)}
  <2>1. registry'[t] = IF mine = {} THEN registry[t]
                       ELSE IF \E d \in mine : d.removed THEN "removed" ELSE "live"
    BY DEF BatchForm, Processed, Registered
  <2>2. PICK d \in B : d.log = LaunchOf(t) /\ Agrees(d.log, stamp)
    BY <1>5, <2>1
  <2>3. LaunchOf(t) \in Accepted(B, stamp)
    BY <2>2, Launches DEF Accepted
  <2>4. registry'[t] \in {"live", "removed"}
    BY <1>5, <2>1
  <2>5. ASSUME registry'[t] = "removed" PROVE row'[LaunchOf(t)].removed
    <3>1. PICK e \in B : e.log = LaunchOf(t) /\ e.removed
      <4>1. mine # {} /\ \E e \in mine : e.removed
        BY <1>5, <2>1, <2>5
      <4> QED
        BY <4>1
    <3>2. e = [log |-> LaunchOf(t), removed |-> TRUE]
      BY <3>1 DEF BatchForm, Arrived, Deliveries
    <3> QED
      BY <1>3, <1>4, <2>3, <3>1, <3>2
  <2> QED
    BY <2>3, <2>4, <2>5
<1>6. \A l \in Accepted(B, stamp) :
          row'[l] = [at |-> stamp[blockOf[l]], seen |-> Observed(l),
                     removed |-> [log |-> l, removed |-> TRUE] \in B]
  BY <1>3, <1>4
<1>7. \A l \in Logs \ Accepted(B, stamp) : row'[l] = row[l]
  BY <1>3
<1>8. DOMAIN row' = Logs
  BY <1>3
<1> QED
  BY <1>4, <1>5, <1>6, <1>7, <1>8

(* A batch keeps the types of what it writes, and no row is taken away. *)
BatchTyped ==
    /\ row \in [Logs -> [at : 0..now, seen : 0..now, removed : BOOLEAN] \cup {NoRow}]
    /\ times \in [1..MaxNow -> 0..now \cup {Unset}]
    /\ registry \in [Tokens -> {"none", "live", "removed"}]
    /\ \A t \in Tokens : registry[t] # "none" => row[LaunchOf(t)] # NoRow
    /\ watermark \in 0..now
    /\ UNION {tried, kept, revoked} \subseteq Logs

LEMMA BatchTypes ==
    ASSUME Types, NEW B, NEW stamp, NEW mark, BatchForm(B, stamp, mark)
    PROVE  /\ BatchTyped'
           /\ \A l \in Logs : row[l] # NoRow => row'[l] # NoRow
           /\ watermark' >= watermark
<1>1. now \in Nat /\ blockOf \in [Logs -> 1..MaxNow] /\ stamp \in [1..MaxNow -> 0..now \cup {Unset}]
      /\ now' = now
  BY Bounds DEF Types, TypeOK, BatchForm, Dated
<1>2. \A d \in B : /\ d.log \in Logs /\ d.removed \in BOOLEAN /\ blockOf[d.log] <= now
                   /\ stamp[blockOf[d.log]] # Unset
  BY DEF BatchForm, Arrived, Dated, Deliveries
<1>3. row \in [Logs -> [at : 0..now, seen : 0..now, removed : BOOLEAN] \cup {NoRow}]
      /\ registry \in [Tokens -> {"none", "live", "removed"}]
      /\ (\A t \in Tokens : registry[t] # "none" => row[LaunchOf(t)] # NoRow)
      /\ watermark \in 0..now
      /\ tried \subseteq Logs /\ kept \subseteq Logs /\ revoked \subseteq Logs
  BY DEF Types, TypeOK
<1>4. \A l \in Accepted(B, stamp) :
         /\ row'[l] \in [at : 0..now, seen : 0..now, removed : BOOLEAN]
         /\ row'[l] # NoRow
  <2> SUFFICES ASSUME NEW l \in Accepted(B, stamp)
               PROVE  /\ row'[l] \in [at : 0..now, seen : 0..now, removed : BOOLEAN]
                      /\ row'[l] # NoRow
    OBVIOUS
  <2>1. row'[l] = [at |-> stamp[blockOf[l]], seen |-> Observed(l),
                   removed |-> [log |-> l, removed |-> TRUE] \in B]
        /\ stamp[blockOf[l]] \in 0..now
    BY BatchRows
  <2>2. Observed(l) \in 0..now
    BY <1>1 DEF Observed
  <2>3. ([log |-> l, removed |-> TRUE] \in B) \in BOOLEAN
    OBVIOUS
  <2>4. row'[l] \in [at : 0..now, seen : 0..now, removed : BOOLEAN]
    <3> DEFINE x == stamp[blockOf[l]]
               y == Observed(l)
               z == [log |-> l, removed |-> TRUE] \in B
    <3>1. x \in 0..now /\ y \in 0..now /\ z \in BOOLEAN
      BY <2>1, <2>2, <2>3
    <3>2. row'[l] = [at |-> x, seen |-> y, removed |-> z]
      BY <2>1
    <3> HIDE DEF x, y, z
    <3> QED
      BY <3>1, <3>2
  <2>5. row'[l].at # Unset
    BY <2>1 DEF Unset
  <2> QED
    BY <2>4, <2>5 DEF NoRow
<1>5. row' \in [Logs -> [at : 0..now, seen : 0..now, removed : BOOLEAN] \cup {NoRow}]
  <2>1. row' = [l \in Logs |-> row'[l]]
    BY DEF BatchForm, Processed
  <2>2. \A l \in Logs : row'[l] \in [at : 0..now, seen : 0..now, removed : BOOLEAN] \cup {NoRow}
    BY <1>3, <1>4, BatchRows
  <2> QED
    BY <2>1, <2>2
<1>6. \A l \in Logs : row[l] # NoRow => row'[l] # NoRow
  BY <1>4, BatchRows
<1>7. times' \in [1..MaxNow -> 0..now \cup {Unset}]
  BY <1>1 DEF BatchForm, Processed
<1>8. registry' \in [Tokens -> {"none", "live", "removed"}]
  <2>1. registry' = [t \in Tokens |-> registry'[t]]
    BY DEF BatchForm, Processed, Registered
  <2>2. \A t \in Tokens : registry'[t] \in {"none", "live", "removed"}
    BY <1>3, BatchRows
  <2> QED
    BY <2>1, <2>2
<1>9. \A t \in Tokens : registry'[t] # "none" => row'[LaunchOf(t)] # NoRow
  <2> SUFFICES ASSUME NEW t \in Tokens, registry'[t] # "none"
               PROVE  row'[LaunchOf(t)] # NoRow
    OBVIOUS
  <2>1. CASE registry'[t] = registry[t]
    BY <1>3, <1>6, <2>1, Launches
  <2>2. CASE registry'[t] # registry[t]
    BY <1>4, <2>2, BatchRows
  <2> QED
    BY <2>1, <2>2
<1>10. watermark' \in 0..now /\ watermark' >= watermark
  <2> DEFINE S == {watermark, mark} \cup
                  {stamp[blockOf[d.log]] : d \in {x \in B : KindOf[x.log] = "curve"}}
  <2>1. watermark' = Largest(S)
    BY DEF BatchForm, Processed
  <2>2. S \subseteq 0..now
    <3>1. ASSUME NEW d \in B PROVE stamp[blockOf[d.log]] \in 0..now
      BY <1>1, <1>2
    <3> QED
      BY <1>3, <3>1 DEF BatchForm
  <2>3. watermark \in S
    OBVIOUS
  <2> HIDE DEF S
  <2>4. Largest(S) \in S /\ \A y \in S : y <= Largest(S)
    BY <1>1, <2>2, <2>3, LargestIs
  <2>5. watermark <= Largest(S) /\ Largest(S) \in 0..now
    BY <2>2, <2>3, <2>4
  <2>6. watermark <= watermark' /\ watermark' \in 0..now
    BY <2>1, <2>5
  <2> QED
    BY <1>1, <1>3, <2>6
<1>11. tried' \subseteq Logs /\ kept' \subseteq Logs /\ revoked' \subseteq Logs
  <2>1. Accepted(B, stamp) \subseteq Logs
    BY BatchRows
  <2> QED
    BY <1>2, <1>3, <2>1 DEF BatchForm, Processed
<1>12. UNION {tried', kept', revoked'} \subseteq Logs
  BY <1>11
<1> QED
  BY <1>1, <1>5, <1>6, <1>7, <1>8, <1>9, <1>10, <1>12 DEF BatchTyped

------------------------------------------------------------------------------
(* Types, part by part.                                                     *)

Flagged ==
    /\ pc \in {"down", "start", "source", "first", "connect", "ready", "second",
               "live", "poll", "polling"}
    /\ pollPrimary \in BOOLEAN /\ usePoll \in BOOLEAN
    /\ supported \in BOOLEAN /\ seeding \in BOOLEAN

WorldTyped ==
    /\ blockOf \in [Logs -> 1..MaxNow] /\ gone \subseteq Logs
    /\ radar \in [Tokens -> 0..now \cup {Unset}]
    /\ now \in 0..MaxNow /\ faults \in 0..MaxFaults

PlaceTyped ==
    /\ {checkpoint, coverage} \subseteq 0..now \cup {Unset}
    /\ seedAt \in 0..now /\ latest \in 0..now /\ lower \in 0..MaxNow + 1
    /\ queue \subseteq Deliveries /\ seeded \subseteq Tokens /\ skipped \subseteq Logs

LEMMA TypesInParts == TypeOK <=> Flagged /\ WorldTyped /\ BatchTyped /\ PlaceTyped
<1>1. {pollPrimary, usePoll, supported, seeding} \subseteq BOOLEAN
      <=> /\ pollPrimary \in BOOLEAN /\ usePoll \in BOOLEAN
          /\ supported \in BOOLEAN /\ seeding \in BOOLEAN
  BY Zenon
<1>2. UNION {tried, skipped, kept, revoked} \subseteq Logs
      <=> UNION {tried, kept, revoked} \subseteq Logs /\ skipped \subseteq Logs
  OBVIOUS
<1>3. {watermark, seedAt, latest} \subseteq 0..now
      <=> watermark \in 0..now /\ seedAt \in 0..now /\ latest \in 0..now
  OBVIOUS
<1> QED
  BY <1>1, <1>2, <1>3, Zenon DEF TypeOK, Flagged, WorldTyped, BatchTyped, PlaceTyped

LEMMA TypesInPartsNext == TypeOK' <=> Flagged' /\ WorldTyped' /\ BatchTyped' /\ PlaceTyped'
BY TypesInParts, PTL

------------------------------------------------------------------------------
LEMMA InitTypes == Init => Types
<1> SUFFICES ASSUME Init PROVE Types
  OBVIOUS
<1>1. Flagged
  BY DEF Init, Flagged
<1>2. WorldTyped
  BY Bounds DEF Init, WorldTyped, Unset
<1>3. BatchTyped
  <2>1. row \in [Logs -> {NoRow}] /\ times \in [1..MaxNow -> {Unset}]
        /\ registry \in [Tokens -> {"none"}] /\ watermark = 0 /\ now = 0
        /\ tried = {} /\ kept = {} /\ revoked = {}
    BY DEF Init
  <2> QED
    BY <2>1 DEF BatchTyped
<1>4. PlaceTyped
  BY Bounds DEF Init, PlaceTyped, Unset
<1>5. QueueIsPast /\ RadarIsPast /\ SeedsAreStored
  BY DEF Init, QueueIsPast, RadarIsPast, SeedsAreStored
<1> QED
  BY <1>1, <1>2, <1>3, <1>4, <1>5, TypesInParts DEF Types

LEMMA StepFlagged == Types /\ [Next]_vars => Flagged'
<1> SUFFICES ASSUME Types, [Next]_vars PROVE Flagged'
  OBVIOUS
<1> USE DEF Flagged, chain, place, source, batch, seeds
<1>0. Flagged
  BY TypesInParts DEF Types
<1>1. Opened \in {"first", "second"} /\ Returned \in {"connect", "live"}
  BY DEF Opened, Returned
<1>2. ASSUME BatchStep PROVE Flagged'
  BY <1>0, <1>2, Zenon
  DEF BatchStep, BackfillChunk, LiveBatch, PollStores, BatchBreaks
<1>3. CASE Tick \/ (\E t \in Tokens : DaemonStores(t)) \/ (\E l \in Logs : Reorganise(l))
  BY <1>0, <1>3, ZenonT(30) DEF Tick, DaemonStores, Reorganise
<1>4. CASE StartBackfill \/ SkipBackfill \/ BackfillUnsupported \/ BackfillEnds
  BY <1>0, <1>1, <1>4
  DEF StartBackfill, SkipBackfill, BackfillUnsupported, BackfillEnds, Skips
<1>5. CASE Subscribe \/ StartPolling \/ PollReads
  BY <1>0, <1>5 DEF Subscribe, StartPolling, PollReads
<1>6. CASE SourceFails \/ Crash \/ Restart
  BY <1>0, <1>6, Zenon DEF SourceFails, Crash, Restart
<1>7. CASE SeedStores \/ SeedRemembers \/ SeedFails
  BY <1>0, <1>7, Zenon DEF SeedStores, SeedRemembers, SeedFails
<1>8. CASE UNCHANGED vars
  BY <1>0, <1>8, Zenon DEF vars
<1> QED
  BY <1>2, <1>3, <1>4, <1>5, <1>6, <1>7, <1>8 DEF Next, BatchStep

(* Everything but Tick, DaemonStores and Reorganise leaves the world alone. *)
Still == UNCHANGED <<blockOf, gone, radar, now>>

LEMMA WorldSteps ==
    Next => \/ Tick \/ (\E t \in Tokens : DaemonStores(t)) \/ (\E l \in Logs : Reorganise(l))
            \/ Still
BY DEF Next, Still, chain, StartBackfill, SkipBackfill, BackfillChunk, BackfillUnsupported,
       BackfillEnds, Subscribe, LiveBatch, StartPolling, PollReads, PollStores, SourceFails,
       BatchBreaks, Crash, Restart, SeedStores, SeedRemembers, SeedFails

LEMMA StepFaults == Types /\ [Next]_vars => faults' \in 0..MaxFaults
<1> SUFFICES ASSUME Types, [Next]_vars PROVE faults' \in 0..MaxFaults
  OBVIOUS
<1>1. Fault \/ faults' = faults
  BY DEF Next, vars, Tick, DaemonStores, Reorganise,
         StartBackfill, SkipBackfill, BackfillChunk, BackfillUnsupported,
         BackfillEnds, Subscribe, LiveBatch, StartPolling, PollReads, PollStores, SourceFails,
         BatchBreaks, Crash, Restart, SeedStores, SeedRemembers, SeedFails
<1> QED
  BY <1>1, Bounds DEF Types, TypeOK, Fault

LEMMA StepWorld == Types /\ [Next]_vars => WorldTyped' /\ now' \in Nat /\ now <= now'
<1> SUFFICES ASSUME Types, [Next]_vars PROVE WorldTyped' /\ now' \in Nat /\ now <= now'
  OBVIOUS
<1>0. WorldTyped /\ faults' \in 0..MaxFaults /\ now \in Nat
  BY TypesInParts, StepFaults, Bounds DEF Types, WorldTyped
<1> USE DEF WorldTyped, chain
<1>1. CASE Tick
  BY <1>0, <1>1, Bounds DEF Tick
<1>2. ASSUME NEW t \in Tokens, DaemonStores(t) PROVE WorldTyped' /\ now' = now
  BY <1>0, <1>2 DEF DaemonStores
<1>3. ASSUME NEW l \in Logs, Reorganise(l) PROVE WorldTyped' /\ now' = now
  BY <1>0, <1>3 DEF Reorganise
<1>4. CASE Still \/ UNCHANGED vars
  BY <1>0, <1>4 DEF Still, vars
<1> QED
  BY <1>0, <1>1, <1>2, <1>3, <1>4, WorldSteps

(* What seeding does to the rows. *)
LEMMA SowedRows ==
    ASSUME Types, NEW ts \in SUBSET Seeds
    PROVE  /\ Sowed(ts) \in [Logs -> [at : 0..now, seen : 0..now, removed : BOOLEAN] \cup {NoRow}]
           /\ \A t \in ts : /\ t \in Tokens /\ radar[t] \in 0..now /\ blockOf[LaunchOf(t)] <= now
                            /\ Sowed(ts)[LaunchOf(t)] = SeededRow(t)
                            /\ Sowed(ts)[LaunchOf(t)] # NoRow
           /\ \A l \in Logs : ~ IsLaunch(l) \/ TokenOf[l] \notin ts => Sowed(ts)[l] = row[l]
           /\ \A l \in Logs : row[l] # NoRow => Sowed(ts)[l] # NoRow
<1>1. now \in Nat /\ blockOf \in [Logs -> 1..MaxNow]
  BY Bounds DEF Types, TypeOK
<1>2. row \in [Logs -> [at : 0..now, seen : 0..now, removed : BOOLEAN] \cup {NoRow}]
  BY DEF Types, TypeOK
<1>3. ASSUME NEW t \in ts
      PROVE  t \in Tokens /\ radar[t] \in 0..now /\ blockOf[LaunchOf(t)] \in 0..now
  <2>1. t \in Tokens /\ radar[t] # Unset
    BY DEF Seeds
  <2>2. radar[t] \in 0..now /\ blockOf[LaunchOf(t)] <= now
    BY <2>1 DEF Types, TypeOK, RadarIsPast
  <2> QED
    BY <1>1, <2>1, <2>2, Launches, Bounds
<1>4. ASSUME NEW t \in ts
      PROVE  /\ SeededRow(t) \in [at : 0..now, seen : 0..now, removed : BOOLEAN]
             /\ SeededRow(t) # NoRow
  <2> DEFINE old == row[LaunchOf(t)]
             s == Max2(old.seen, radar[t])
             r == old.removed /\ radar[t] < old.seen
             b == blockOf[LaunchOf(t)]
  <2>1. LaunchOf(t) \in Logs
    BY <1>3, Launches
  <2>2. old.seen \in 0..now \cup {Unset}
    BY <1>2, <2>1 DEF NoRow
  <2>3. s \in 0..now
    <3>1. \A x \in 0..now \cup {Unset} : Max2(x, radar[t]) \in 0..now
      BY <1>1, <1>3 DEF Max2, Unset
    <3> HIDE DEF old
    <3> QED
      BY <2>2, <3>1
  <2>4. r \in BOOLEAN
    OBVIOUS
  <2>5. SeededRow(t) = [at |-> b, seen |-> s, removed |-> r]
    BY DEF SeededRow
  <2>6. b \in 0..now
    BY <1>3
  <2> HIDE DEF old, s, r, b
  <2>7. SeededRow(t).at # Unset
    BY <1>1, <2>5, <2>6 DEF Unset
  <2> QED
    BY <2>3, <2>4, <2>5, <2>6, <2>7 DEF NoRow
<1>5. \A l \in Logs : Sowed(ts)[l] = IF IsLaunch(l) /\ TokenOf[l] \in ts
                                     THEN SeededRow(TokenOf[l]) ELSE row[l]
  BY DEF Sowed
<1>6. Sowed(ts) \in [Logs -> [at : 0..now, seen : 0..now, removed : BOOLEAN] \cup {NoRow}]
  BY <1>2, <1>4 DEF Sowed
<1>7. \A t \in ts : Sowed(ts)[LaunchOf(t)] = SeededRow(t)
  BY <1>3, <1>5, Launches
<1> QED
  BY <1>1, <1>3, <1>4, <1>5, <1>6, <1>7

(* Actions that write neither the rows nor what a batch writes. *)
Aside ==
    \/ Tick \/ (\E t \in Tokens : DaemonStores(t)) \/ (\E l \in Logs : Reorganise(l))
    \/ StartBackfill \/ BackfillEnds \/ Subscribe \/ StartPolling \/ PollReads \/ SourceFails
    \/ UNCHANGED vars

LEMMA AsideIs == Aside => UNCHANGED batch
BY DEF Aside, Tick, DaemonStores, Reorganise, StartBackfill, BackfillEnds, Subscribe,
       StartPolling, PollReads, SourceFails, vars

LEMMA StepBatchTyped == Types /\ [Next]_vars => BatchTyped'
<1> SUFFICES ASSUME Types, [Next]_vars PROVE BatchTyped'
  OBVIOUS
<1>0. BatchTyped /\ now \in Nat /\ now' \in Nat /\ now <= now'
  BY TypesInParts, StepWorld, Bounds DEF Types, WorldTyped
<1>1. CASE BatchStep
  BY <1>1, BatchForms, BatchTypes
<1>2. CASE Aside
  BY <1>0, <1>2, AsideIs DEF batch, BatchTyped
<1>3. CASE SkipBackfill \/ BackfillUnsupported
  <2>1. UNCHANGED <<row, times, registry, tried, kept, revoked, now>>
        /\ watermark' = Max2(watermark, now)
    BY <1>3 DEF SkipBackfill, BackfillUnsupported, Skips
  <2>2. watermark' \in 0..now
    BY <1>0, <2>1 DEF Max2, BatchTyped
  <2> QED
    BY <1>0, <2>1, <2>2 DEF BatchTyped
<1>4. CASE Crash
  <2>1. UNCHANGED <<row, watermark, tried, now>>
    BY <1>4 DEF Crash, chain
  <2>2. times' = [b \in 1..MaxNow |-> Unset] /\ registry' = [t \in Tokens |-> "none"]
        /\ kept' = {} /\ revoked' = {}
    BY <1>4 DEF Crash
  <2> QED
    BY <1>0, <2>1, <2>2 DEF BatchTyped
<1>5. CASE Restart
  <2>1. UNCHANGED <<row, watermark, times, tried, kept, revoked, now>>
    BY <1>5 DEF Restart
  <2>2. registry' = [t \in Tokens |->
                      IF Recent(LaunchOf(t)) /\ ~row[LaunchOf(t)].removed THEN "live" ELSE "none"]
    BY <1>5 DEF Restart
  <2>3. \A t \in Tokens : Recent(LaunchOf(t)) => row[LaunchOf(t)] # NoRow
    BY DEF Recent
  <2> QED
    BY <1>0, <2>1, <2>2, <2>3 DEF BatchTyped
<1>6. CASE SeedStores \/ SeedFails
  <2>1. UNCHANGED <<watermark, times, registry, tried, kept, revoked, now>>
    BY <1>6 DEF SeedStores, SeedFails
  <2>2. PICK ts \in SUBSET Seeds : row' = Sowed(ts)
    BY <1>6 DEF SeedStores, SeedFails
  <2>3. /\ row' \in [Logs -> [at : 0..now, seen : 0..now, removed : BOOLEAN] \cup {NoRow}]
        /\ \A l \in Logs : row[l] # NoRow => row'[l] # NoRow
    BY <2>2, SowedRows
  <2> QED
    BY <1>0, <2>1, <2>3, Launches DEF BatchTyped
<1>7. CASE SeedRemembers
  <2>1. UNCHANGED <<row, watermark, times, tried, kept, revoked, now>>
    BY <1>7 DEF SeedRemembers
  <2>2. registry' = [t \in Tokens |->
                      IF row[LaunchOf(t)] # NoRow /\ ~Recent(LaunchOf(t)) THEN "none"
                      ELSE IF t \in seeded THEN "live" ELSE registry[t]]
    BY <1>7 DEF SeedRemembers
  <2>3. \A t \in seeded : row[LaunchOf(t)] # NoRow
    BY <1>7 DEF Types, SeedsAreStored, SeedRemembers
  <2> QED
    BY <1>0, <2>1, <2>2, <2>3 DEF BatchTyped
<1> QED
  BY <1>1, <1>2, <1>3, <1>4, <1>5, <1>6, <1>7 DEF Next, Aside, BatchStep

(* Where a backfill or a poll begins. *)
LEMMA Resumes ==
    ASSUME NEW last \in Nat, NEW window \in Nat, window >= 1,
           NEW stored \in Int, stored <= last
    PROVE  /\ Floor(last, window) \in 0..last
           /\ ResumesAt(last, window, stored) \in 0..last
           /\ stored >= Floor(last, window) => ResumesAt(last, window, stored) <= stored
           /\ stored - Overlap <= ResumesAt(last, window, stored)
BY Bounds DEF Floor, ResumesAt, Max2

LEMMA LastBlock ==
    ASSUME Types, NEW B, B \subseteq queue, B # {}
    PROVE  /\ Largest(Blocks(B)) \in 0..now
           /\ \E d \in B : Largest(Blocks(B)) = blockOf[d.log]
           /\ \A d \in B : blockOf[d.log] <= Largest(Blocks(B))
<1>1. now \in Nat /\ blockOf \in [Logs -> 1..MaxNow] /\ queue \subseteq Deliveries
  BY Bounds DEF Types, TypeOK
<1>2. \A d \in B : blockOf[d.log] \in 0..now /\ blockOf[d.log] \in Blocks(B)
  <2> SUFFICES ASSUME NEW d \in B PROVE blockOf[d.log] \in 0..now /\ blockOf[d.log] \in Blocks(B)
    OBVIOUS
  <2>1. d.log \in Logs /\ blockOf[d.log] <= now
    BY <1>1 DEF Deliveries, Types, QueueIsPast
  <2> QED
    BY <1>1, <2>1, Bounds DEF Blocks
<1>3. Blocks(B) \subseteq 0..now /\ Blocks(B) # {}
  BY <1>2 DEF Blocks
<1>4. Largest(Blocks(B)) \in Blocks(B) /\ \A y \in Blocks(B) : y <= Largest(Blocks(B))
  BY <1>1, <1>3, LargestIs
<1>5. \E d \in B : Largest(Blocks(B)) = blockOf[d.log]
  BY <1>4 DEF Blocks
<1> QED
  BY <1>2, <1>3, <1>4, <1>5

LEMMA StepPlace == Types /\ [Next]_vars => PlaceTyped'
<1> SUFFICES ASSUME Types, [Next]_vars PROVE PlaceTyped'
  OBVIOUS
<1>0. PlaceTyped /\ now \in Nat /\ now' \in Nat /\ now <= now' /\ now <= MaxNow
      /\ checkpoint \in 0..now \cup {Unset}
  BY TypesInParts, StepWorld, Bounds DEF Types, WorldTyped, PlaceTyped
<1>1. now' = now => CoverageStarts \in 0..now' \cup {Unset}
  BY <1>0 DEF CoverageStarts, PlaceTyped
<1>2. NoRange => lower' \in 0..MaxNow + 1 /\ latest' \in 0..now'
  BY <1>0, Bounds DEF NoRange
<1> USE <1>0, Bounds DEF PlaceTyped, place, seeds, chain
<1>3. CASE Tick
  BY <1>3 DEF Tick, Between
<1>4. CASE \E t \in Tokens : DaemonStores(t)
  BY <1>4 DEF DaemonStores, source
<1>5. CASE \E l \in Logs : Reorganise(l)
  <2>1. PICK l \in Logs : Reorganise(l)
    BY <1>5
  <2>2. [log |-> l, removed |-> TRUE] \in Deliveries
    BY DEF Deliveries
  <2> QED
    BY <2>1, <2>2 DEF Reorganise
<1>6. CASE StartBackfill
  <2> DEFINE from == IF checkpoint = Unset THEN Floor(now, Window)
                     ELSE ResumesAt(now, Window, checkpoint)
  <2>1. lower' = from /\ latest' = now
        /\ skipped' = skipped \cup GivenUp(checkpoint >= Floor(now, Window), from)
    BY <1>6 DEF StartBackfill
  <2>2. from \in 0..now
    <3>1. CASE checkpoint = Unset
      BY <3>1, Resumes DEF Floor, Max2
    <3>2. CASE checkpoint # Unset
      <4>1. checkpoint \in Int /\ checkpoint <= now
        BY <3>2
      <4> QED
        BY <3>2, <4>1, Resumes
    <3> QED
      BY <3>1, <3>2
  <2>3. skipped' \subseteq Logs
    BY <2>1 DEF GivenUp
  <2> QED
    BY <1>6, <2>1, <2>2, <2>3 DEF StartBackfill
<1>7. CASE SkipBackfill
  BY <1>1, <1>2, <1>7 DEF SkipBackfill, Skips, OnChain
<1>8. CASE BackfillChunk
  BY <1>8, UpperIs DEF BackfillChunk
<1>9. CASE BackfillUnsupported
  BY <1>1, <1>2, <1>9 DEF BackfillUnsupported, Skips, OnChain
<1>10. CASE BackfillEnds
  BY <1>1, <1>2, <1>10 DEF BackfillEnds
<1>11. CASE Subscribe
  BY <1>11 DEF Subscribe
<1>12. CASE LiveBatch
  <2>1. PICK B \in SUBSET queue :
            /\ Cut(B) /\ queue' = queue \ B
            /\ checkpoint' = Max2(Max2(checkpoint, 0), Largest(Blocks(B)))
    BY <1>12 DEF LiveBatch
  <2>2. Largest(Blocks(B)) \in 0..now
    BY <2>1, LastBlock DEF Cut
  <2>3. checkpoint' \in 0..now
    BY <2>1, <2>2 DEF Max2, Unset
  <2> QED
    BY <1>12, <2>1, <2>3 DEF LiveBatch
<1>13. CASE StartPolling
  BY <1>13 DEF StartPolling
<1>14. CASE PollReads
  <2>1. PICK last \in Max2(0, now - Behind)..now :
          LET stored == IF checkpoint \in {Unset, 0} THEN last ELSE checkpoint
              from == ResumesAt(last, PollWindow, Min2(last, stored))
              near == checkpoint > 0 /\ checkpoint >= Floor(last, PollWindow)
          IN  /\ latest' = last /\ lower' = from
              /\ skipped' = skipped \cup GivenUp(near, from)
    BY <1>14 DEF PollReads
  <2>2. last \in 0..now
    BY DEF Max2
  <2> DEFINE stored == IF checkpoint \in {Unset, 0} THEN last ELSE checkpoint
  <2>3. Min2(last, stored) \in Int /\ Min2(last, stored) <= last
    BY <2>2 DEF Min2, Unset
  <2>4. lower' \in 0..now
    BY <2>1, <2>2, <2>3, Resumes
  <2>5. skipped' \subseteq Logs
    BY <2>1 DEF GivenUp
  <2> QED
    BY <1>14, <2>1, <2>2, <2>4, <2>5 DEF PollReads
<1>15. CASE PollStores
  BY <1>2, <1>15 DEF PollStores
<1>16. CASE SourceFails \/ BatchBreaks \/ Crash
  BY <1>2, <1>16 DEF SourceFails, BatchBreaks, Crash
<1>17. CASE Restart
  BY <1>17 DEF Restart
<1>18. CASE SeedStores
  <2> DEFINE S == {seedAt} \cup {radar[t] : t \in Seeds}
  <2>1. seedAt' = Largest(S) /\ seeded' = Seeds /\ now' = now
    BY <1>18 DEF SeedStores
  <2>2. \A t \in Seeds : radar[t] \in 0..now
    BY SowedRows
  <2>3. S \subseteq 0..now /\ S # {}
    BY <2>2
  <2>4. Largest(S) \in 0..now
    <3> HIDE DEF S
    <3> QED
      BY <2>3, LargestIs
  <2>5. seeded' \subseteq Tokens
    BY <2>1 DEF Seeds
  <2> HIDE DEF S
  <2> QED
    BY <1>18, <2>1, <2>4, <2>5 DEF SeedStores, source
<1>19. CASE SeedRemembers \/ SeedFails
  BY <1>19 DEF SeedRemembers, SeedFails
<1>20. CASE UNCHANGED vars
  BY <1>20 DEF vars, source
<1> QED
  BY <1>3, <1>4, <1>5, <1>6, <1>7, <1>8, <1>9, <1>10, <1>11, <1>12, <1>13, <1>14, <1>15,
     <1>16, <1>17, <1>18, <1>19, <1>20 DEF Next

LEMMA StepPast == Types /\ [Next]_vars => QueueIsPast' /\ RadarIsPast' /\ SeedsAreStored'
<1> SUFFICES ASSUME Types, [Next]_vars PROVE QueueIsPast' /\ RadarIsPast' /\ SeedsAreStored'
  OBVIOUS
<1>0. QueueIsPast /\ RadarIsPast /\ SeedsAreStored /\ now \in Nat /\ now' \in Nat /\ now <= now'
      /\ blockOf \in [Logs -> 1..MaxNow] /\ queue \subseteq Deliveries /\ seeded \subseteq Tokens
  BY StepWorld, Bounds DEF Types, TypeOK
<1>1. gone \subseteq gone' /\ blockOf' = blockOf
  BY WorldSteps DEF vars, chain, Tick, DaemonStores, Reorganise, Still
<1>2. QueueIsPast'
  <2>1. CASE Tick
    <3>1. \A d \in queue' \ queue : ~ d.removed /\ blockOf[d.log] <= now'
      BY <2>1 DEF Tick, Between
    <3>2. \A d \in queue : d.log \in Logs
      BY <1>0 DEF Deliveries
    <3>3. \A l \in Logs : blockOf[l] \in Nat
      BY <1>0, Bounds
    <3>4. ASSUME NEW d \in queue PROVE blockOf[d.log] <= now'
      BY <1>0, <3>2, <3>3 DEF QueueIsPast
    <3> QED
      BY <1>0, <1>1, <3>1, <3>4 DEF QueueIsPast
  <2>2. ASSUME NEW l \in Logs, Reorganise(l) PROVE QueueIsPast'
    <3>1. blockOf[l] <= now /\ gone' = gone \cup {l} /\ now' = now
          /\ queue' \subseteq queue \cup {[log |-> l, removed |-> TRUE]}
      BY <1>0, <2>2, Bounds DEF Reorganise
    <3> QED
      BY <1>0, <1>1, <3>1 DEF QueueIsPast
  <2>3. (queue' \subseteq queue /\ now' = now) \/ Tick \/ \E l \in Logs : Reorganise(l)
    BY DEF Next, vars, DaemonStores, source, chain,
           StartBackfill, SkipBackfill, BackfillChunk, BackfillUnsupported,
           BackfillEnds, Subscribe, LiveBatch, StartPolling, PollReads, PollStores, SourceFails,
           BatchBreaks, Crash, Restart, SeedStores, SeedRemembers, SeedFails
  <2> QED
    BY <1>0, <1>1, <2>1, <2>2, <2>3 DEF QueueIsPast
<1>3. RadarIsPast'
  <2>1. ASSUME NEW t \in Tokens, DaemonStores(t) PROVE RadarIsPast'
    <3>1. blockOf[LaunchOf(t)] <= now /\ now' = now /\ radar' = [radar EXCEPT ![t] = now]
      BY <2>1 DEF DaemonStores
    <3>2. DOMAIN radar = Tokens
      BY DEF Types, TypeOK
    <3> QED
      BY <1>0, <1>1, <3>1, <3>2 DEF RadarIsPast
  <2>2. radar' = radar \/ \E t \in Tokens : DaemonStores(t)
    BY WorldSteps DEF vars, chain, Tick, Reorganise, Still
  <2>3. \A t \in Tokens : blockOf[LaunchOf(t)] \in Nat
    BY <1>0, Launches, Bounds
  <2> QED
    BY <1>0, <1>1, <2>1, <2>2, <2>3 DEF RadarIsPast
<1>4. SeedsAreStored'
  <2>1. CASE SeedStores
    <3>1. seeded' = Seeds /\ row' = Sowed(Seeds)
      BY <2>1 DEF SeedStores
    <3> QED
      BY <3>1, SowedRows DEF SeedsAreStored
  <2>2. CASE SeedFails
    <3>1. seeding = FALSE /\ UNCHANGED <<seeding, seeded>>
      BY <2>2 DEF SeedFails, seeds, Types, TypeOK
    <3> QED
      BY <3>1 DEF SeedsAreStored
  <2>3. CASE Crash \/ SeedRemembers
    BY <2>3 DEF Crash, SeedRemembers, SeedsAreStored
  <2>4. CASE BatchStep
    <3>1. UNCHANGED seeds /\ \A l \in Logs : row[l] # NoRow => row'[l] # NoRow
      BY <2>4, BatchForms, BatchTypes DEF BatchForm
    <3> QED
      BY <1>0, <3>1, Launches DEF SeedsAreStored, seeds
  <2>5. CASE Aside \/ SkipBackfill \/ BackfillUnsupported \/ Restart
    <3>1. UNCHANGED <<seeds, row>>
      BY <2>5, AsideIs DEF batch, Aside, Tick, DaemonStores, Reorganise, StartBackfill,
         BackfillEnds, Subscribe, StartPolling, PollReads, SourceFails, vars, SkipBackfill,
         BackfillUnsupported, Skips, Restart
    <3> QED
      BY <1>0, <3>1 DEF SeedsAreStored, seeds
  <2> QED
    BY <2>1, <2>2, <2>3, <2>4, <2>5 DEF Next, Aside, BatchStep
<1> QED
  BY <1>2, <1>3, <1>4

LEMMA StepTypes == Types /\ [Next]_vars => Types'
BY StepFlagged, StepWorld, StepBatchTyped, StepPlace, StepPast, TypesInPartsNext DEF Types

(***************************************************************************)
(* The tables, the memory and the world keep their types, for every chain,  *)
(* window and bound: process_batch and _remember_launch never register a    *)
(* launch that has no row, and no block is dated after it was seen.         *)
(***************************************************************************)
THEOREM TypeCorrect == Spec => []TypeOK
<1>1. Types => TypeOK
  BY DEF Types
<1> QED
  BY <1>1, InitTypes, StepTypes, PTL DEF Spec

------------------------------------------------------------------------------
(***************************************************************************)
(* The checkpoint.  It moves with every chunk, live batch and poll, so what *)
(* lies before the position of a range must be covered already; and the     *)
(* subscription is opened before the second backfill, so a log above that   *)
(* backfill, and every log on the chain once it is live, is in the stream   *)
(* unless it is covered.                                                    *)
(***************************************************************************)
Covered == tried \cup skipped \cup gone

RangeCovered ==
    pc \in {"first", "second", "polling"} =>
        \A l \in Logs : blockOf[l] < lower => l \in Covered

BehindSecond ==
    pc = "second" =>
        \A l \in Logs : latest < blockOf[l] /\ blockOf[l] <= now => l \in Covered \/ Queued(l)

LiveCovered ==
    pc = "live" => \A l \in Logs : blockOf[l] <= now => l \in Covered \/ Queued(l)

CheckpointInv ==
    Types /\ CheckpointSound /\ RangeCovered /\ BehindSecond /\ LiveCovered

(* What went through process_log, was passed over or is gone remains so. *)
LEMMA Covers ==
    ASSUME Types, Next
    PROVE  /\ blockOf' = blockOf
           /\ tried \subseteq tried' /\ skipped \subseteq skipped' /\ gone \subseteq gone'
           /\ Covered \subseteq Covered'
<1>1. blockOf' = blockOf /\ gone \subseteq gone'
  BY WorldSteps DEF chain, Tick, DaemonStores, Reorganise, Still
<1>2. tried \subseteq tried'
  <2>1. CASE BatchStep
    BY <2>1, BatchForms DEF BatchForm, Processed
  <2>2. CASE Aside
    BY <2>2, AsideIs DEF batch
  <2>3. CASE ~ BatchStep /\ ~ Aside
    BY <2>3 DEF Next, Aside, BatchStep, SkipBackfill, BackfillUnsupported, Skips, Crash, Restart,
         SeedStores, SeedRemembers, SeedFails
  <2> QED
    BY <2>1, <2>2, <2>3
<1>3. skipped \subseteq skipped'
  <2>1. skipped' = skipped \/ StartBackfill \/ SkipBackfill \/ BackfillUnsupported \/ PollReads
    BY DEF Next, Tick, DaemonStores, Reorganise, BackfillChunk, BackfillEnds, Subscribe,
           LiveBatch, StartPolling, PollStores, SourceFails, BatchBreaks, Crash, Restart,
           SeedStores, SeedRemembers, SeedFails
  <2> QED
    BY <2>1 DEF StartBackfill, SkipBackfill, BackfillUnsupported, PollReads, Skips
<1> QED
  BY <1>1, <1>2, <1>3 DEF Covered

(* A request brings the logs of its range that are still on the chain. *)
LEMMA RangeTried ==
    ASSUME Types, NEW a \in Nat, NEW b \in 0..now, NEW stamp, NEW mark,
           Processed(Between(a, b), stamp, mark)
    PROVE  \A l \in Logs \ gone : a <= blockOf[l] /\ blockOf[l] <= b => l \in tried'
<1>1. ASSUME NEW l \in Logs \ gone, a <= blockOf[l], blockOf[l] <= b
      PROVE  Fresh(l) \in Between(a, b) /\ Fresh(l).log = l
  BY <1>1 DEF Between, Fresh, Deliveries
<1>2. tried' = tried \cup {d.log : d \in Between(a, b)}
  BY DEF Processed
<1> QED
  BY <1>1, <1>2

LEMMA StepCheckpoint == CheckpointInv /\ [Next]_vars => CheckpointInv'
<1> SUFFICES ASSUME CheckpointInv, Next PROVE CheckpointInv'
  <2>1. CASE UNCHANGED vars
    BY <2>1, StepTypes
    DEF CheckpointInv, vars, chain, place, source, batch, CheckpointSound, RangeCovered,
        BehindSecond, LiveCovered, Covered, Queued
  <2> QED
    BY <2>1
<1>0. Types /\ Types' /\ CheckpointSound /\ RangeCovered /\ BehindSecond /\ LiveCovered
  BY StepTypes DEF CheckpointInv
<1>1. /\ now \in Nat /\ lower \in Nat /\ latest \in 0..now
      /\ checkpoint \in 0..now \cup {Unset} /\ queue \subseteq Deliveries
      /\ \A l \in Logs : blockOf[l] \in Nat
  <2>1. /\ now \in 0..MaxNow /\ lower \in 0..MaxNow + 1 /\ latest \in 0..now
        /\ checkpoint \in 0..now \cup {Unset} /\ queue \subseteq Deliveries
        /\ blockOf \in [Logs -> 1..MaxNow]
    BY <1>0 DEF Types, TypeOK
  <2> QED
    BY <2>1, Bounds
<1>2. /\ blockOf' = blockOf /\ Covered \subseteq Covered'
      /\ tried \subseteq tried' /\ skipped \subseteq skipped' /\ gone \subseteq gone'
  BY <1>0, Covers
<1> SUFFICES CheckpointSound' /\ RangeCovered' /\ BehindSecond' /\ LiveCovered'
  BY <1>0 DEF CheckpointInv
<1>3. ASSUME checkpoint' = checkpoint PROVE CheckpointSound'
  BY <1>0, <1>2, <1>3 DEF CheckpointSound, Covered
<1>4. ASSUME pc' \notin {"first", "second", "live", "polling"}
      PROVE  RangeCovered' /\ BehindSecond' /\ LiveCovered'
  BY <1>4 DEF RangeCovered, BehindSecond, LiveCovered
<1>5. ASSUME UNCHANGED <<checkpoint, pc, lower, latest, now>>, queue \subseteq queue'
      PROVE  CheckpointSound' /\ RangeCovered' /\ BehindSecond' /\ LiveCovered'
  BY <1>0, <1>2, <1>3, <1>5 DEF RangeCovered, BehindSecond, LiveCovered, Queued, Fresh
<1>6. CASE Tick
  <2>1. UNCHANGED <<checkpoint, pc, lower, latest>> /\ now' = now + 1
    BY <1>6 DEF Tick, place
  <2>2. queue \subseteq queue' /\ (Subscribed => queue' = queue \cup Between(now + 1, now + 1))
    BY <1>6 DEF Tick
  <2>3. ASSUME Subscribed, NEW l \in Logs, blockOf[l] = now + 1
        PROVE  l \in Covered \/ Fresh(l) \in queue'
    <3>1. l \notin gone => Fresh(l) \in Between(now + 1, now + 1)
      BY <1>1, <2>3 DEF Between, Deliveries, Fresh
    <3> QED
      BY <2>2, <2>3, <3>1 DEF Covered
  <2>4. RangeCovered'
    BY <1>0, <1>2, <2>1 DEF RangeCovered
  <2>5. BehindSecond'
    <3> SUFFICES ASSUME pc = "second", NEW l \in Logs, latest < blockOf[l], blockOf[l] <= now + 1
                 PROVE  l \in Covered' \/ Fresh(l) \in queue'
      BY <1>2, <2>1 DEF BehindSecond, Queued, Fresh
    <3>1. CASE blockOf[l] <= now
      BY <1>0, <1>2, <2>2, <3>1 DEF BehindSecond, Queued
    <3>2. CASE blockOf[l] = now + 1
      BY <1>2, <2>3, <3>2 DEF Subscribed
    <3> QED
      BY <1>1, <3>1, <3>2
  <2>6. LiveCovered'
    <3> SUFFICES ASSUME pc = "live", NEW l \in Logs, blockOf[l] <= now + 1
                 PROVE  l \in Covered' \/ Fresh(l) \in queue'
      BY <1>2, <2>1 DEF LiveCovered, Queued, Fresh
    <3>1. CASE blockOf[l] <= now
      BY <1>0, <1>2, <2>2, <3>1 DEF LiveCovered, Queued
    <3>2. CASE blockOf[l] = now + 1
      BY <1>2, <2>3, <3>2 DEF Subscribed
    <3> QED
      BY <1>1, <3>1, <3>2
  <2> QED
    BY <1>3, <2>1, <2>4, <2>5, <2>6
<1>7. CASE (\E t \in Tokens : DaemonStores(t)) \/ (\E l \in Logs : Reorganise(l))
  <2>1. UNCHANGED <<checkpoint, pc, lower, latest, now>> /\ queue \subseteq queue'
    BY <1>7 DEF DaemonStores, Reorganise, place, source
  <2> QED
    BY <1>5, <2>1
<1>8. CASE StartBackfill
  <2> DEFINE from == IF checkpoint = Unset THEN Floor(now, Window)
                     ELSE ResumesAt(now, Window, checkpoint)
  <2>1. /\ lower' = from /\ latest' = now /\ now' = now /\ checkpoint' = checkpoint
        /\ skipped' = skipped \cup GivenUp(checkpoint >= Floor(now, Window), from)
        /\ pc' \in {"first", "second"}
    BY <1>8 DEF StartBackfill, chain, place, Opened
  <2>2. ASSUME NEW l \in Logs, blockOf[l] < from PROVE l \in Covered'
    <3>1. CASE checkpoint >= Floor(now, Window)
      <4>1. Floor(now, Window) \in Nat
        BY <1>1, Bounds DEF Floor, Max2
      <4>2. checkpoint # Unset /\ checkpoint \in Nat /\ checkpoint <= now
        BY <1>1, <3>1, <4>1 DEF Unset
      <4>3. from <= checkpoint /\ from \in Int
        BY <1>1, <3>1, <4>2, Resumes, Bounds
      <4>4. blockOf[l] < checkpoint
        BY <1>1, <2>2, <4>2, <4>3
      <4> QED
        BY <1>0, <1>2, <4>4 DEF CheckpointSound, Covered
    <3>2. CASE ~ (checkpoint >= Floor(now, Window))
      BY <1>2, <2>1, <2>2, <3>2 DEF GivenUp, Covered
    <3> QED
      BY <3>1, <3>2
  <2>3. RangeCovered'
    BY <1>2, <2>1, <2>2 DEF RangeCovered
  <2>4. BehindSecond' /\ LiveCovered'
    BY <1>1, <1>2, <2>1 DEF BehindSecond, LiveCovered
  <2> QED
    BY <1>3, <2>1, <2>3, <2>4
<1>9. CASE SkipBackfill \/ BackfillUnsupported
  <2>1. /\ skipped' = skipped \cup (OnChain \ tried) /\ now' = now
        /\ pc' \in {"connect", "live"} /\ checkpoint' \in {checkpoint, latest}
    BY <1>9 DEF SkipBackfill, BackfillUnsupported, Skips, Returned, chain, place
  <2>2. \A l \in Logs : blockOf[l] <= now => l \in Covered'
    BY <1>2, <2>1 DEF OnChain, Covered
  <2>3. CheckpointSound'
    <3>1. CASE checkpoint' = checkpoint
      BY <1>3, <3>1
    <3>2. CASE checkpoint' = latest
      BY <1>1, <1>2, <2>2, <3>2 DEF CheckpointSound, Covered
    <3> QED
      BY <2>1, <3>1, <3>2
  <2> QED
    BY <1>2, <2>1, <2>2, <2>3 DEF RangeCovered, BehindSecond, LiveCovered
<1>10. CASE BackfillChunk
  <2>1. Upper \in 0..now /\ lower <= Upper /\ Upper <= latest
    BY <1>0, <1>10, UpperIs DEF BackfillChunk
  <2>2. \A l \in Logs \ gone : lower <= blockOf[l] /\ blockOf[l] <= Upper => l \in tried'
    BY <1>0, <1>1, <1>10, <2>1, RangeTried DEF BackfillChunk
  <2>3. \A l \in Logs : blockOf[l] <= Upper => l \in Covered'
    <3> SUFFICES ASSUME NEW l \in Logs, blockOf[l] <= Upper PROVE l \in Covered'
      OBVIOUS
    <3>1. CASE blockOf[l] < lower
      BY <1>0, <1>2, <1>10, <3>1 DEF RangeCovered, BackfillChunk, Backfilling
    <3>2. CASE lower <= blockOf[l]
      BY <1>2, <2>2, <3>2 DEF Covered
    <3> QED
      BY <1>1, <3>1, <3>2
  <2>4. /\ checkpoint' = Upper /\ lower' = Upper + 1
        /\ UNCHANGED <<pc, latest, queue, now>> /\ pc \in {"first", "second"}
    BY <1>10 DEF BackfillChunk, Backfilling
  <2>5. CheckpointSound' /\ RangeCovered'
    BY <1>1, <1>2, <2>1, <2>3, <2>4 DEF CheckpointSound, RangeCovered, Covered
  <2>6. BehindSecond' /\ LiveCovered'
    BY <1>0, <1>2, <2>4 DEF BehindSecond, LiveCovered, Queued, Fresh
  <2> QED
    BY <2>5, <2>6
<1>11. CASE BackfillEnds
  <2>1. /\ checkpoint' = checkpoint /\ now' = now /\ queue' = queue /\ lower > latest
        /\ pc' = Returned /\ pc \in {"first", "second"}
    BY <1>11 DEF BackfillEnds, Backfilling, chain
  <2>2. CASE pc = "first"
    BY <1>3, <1>4, <2>1, <2>2 DEF Returned
  <2>3. CASE pc = "second"
    <3>1. ASSUME NEW l \in Logs, blockOf[l] <= now PROVE l \in Covered' \/ Queued(l)
      <4>1. CASE blockOf[l] < lower
        BY <1>0, <1>2, <2>3, <4>1 DEF RangeCovered
      <4>2. CASE latest < blockOf[l]
        BY <1>0, <1>2, <2>3, <3>1, <4>2 DEF BehindSecond
      <4> QED
        BY <1>1, <2>1, <4>1, <4>2
    <3>2. pc' = "live"
      BY <2>1, <2>3 DEF Returned
    <3>3. LiveCovered'
      BY <1>2, <2>1, <3>1 DEF LiveCovered, Queued, Fresh
    <3> QED
      BY <1>3, <2>1, <3>2, <3>3 DEF RangeCovered, BehindSecond
  <2> QED
    BY <2>1, <2>2, <2>3
<1>12. CASE LiveBatch
  <2>1. PICK B \in SUBSET queue :
            /\ Cut(B) /\ queue' = queue \ B /\ Processed(B, LiveTimes(B), 0)
            /\ checkpoint' = Max2(Max2(checkpoint, 0), Largest(Blocks(B)))
    BY <1>12 DEF LiveBatch
  <2>2. pc = "live" /\ pc' = "live" /\ now' = now
    BY <1>12 DEF LiveBatch
  <2>3. \A l \in Logs : Queued(l) => l \in tried' \/ Queued(l)'
    <3>1. tried' = tried \cup {d.log : d \in B}
      BY <2>1 DEF Processed
    <3>2. \A l \in Logs : Fresh(l) \in B => l \in tried'
      BY <3>1 DEF Fresh
    <3> QED
      BY <2>1, <3>2 DEF Queued, Fresh
  <2>4. \A l \in Logs : blockOf[l] <= now => l \in Covered' \/ Queued(l)'
    BY <1>0, <1>2, <2>2, <2>3 DEF LiveCovered, Covered
  <2>5. /\ Largest(Blocks(B)) \in 0..now
        /\ \E d \in B : Largest(Blocks(B)) = blockOf[d.log]
    BY <1>0, <2>1, LastBlock DEF Cut
  <2>6. ASSUME NEW l \in Logs, blockOf[l] < Largest(Blocks(B)) PROVE l \in Covered'
    <3>1. blockOf[l] <= now
      BY <1>1, <2>5, <2>6
    <3>2. ~ Queued(l)'
      <4> SUFFICES ASSUME Fresh(l) \in queue \ B PROVE FALSE
        BY <2>1 DEF Queued, Fresh
      <4>1. PICK d \in B : Largest(Blocks(B)) = blockOf[d.log]
        BY <2>5
      <4>2. blockOf[d.log] <= blockOf[l]
        BY <2>1 DEF Cut, Fresh
      <4> QED
        BY <1>1, <2>5, <2>6, <4>1, <4>2
    <3> QED
      BY <2>4, <3>1, <3>2
  <2>7. CheckpointSound'
    <3>1. checkpoint' = Largest(Blocks(B)) \/ checkpoint' = 0 \/ checkpoint' = checkpoint
      BY <2>1 DEF Max2
    <3>2. CASE checkpoint' = Largest(Blocks(B))
      BY <1>2, <2>6, <3>2 DEF CheckpointSound, Covered
    <3>3. CASE checkpoint' = 0
      BY <1>1, <1>2, <3>3 DEF CheckpointSound
    <3> QED
      BY <1>3, <3>1, <3>2, <3>3
  <2> QED
    BY <1>2, <2>2, <2>4, <2>7 DEF RangeCovered, BehindSecond, LiveCovered
<1>13. CASE Subscribe \/ StartPolling \/ SourceFails \/ BatchBreaks \/ Crash \/ Restart
  <2>1. checkpoint' = checkpoint /\ pc' \in {"ready", "poll", "source", "down", "start"}
    BY <1>13 DEF Subscribe, StartPolling, SourceFails, BatchBreaks, Crash, Restart, place
  <2> QED
    BY <1>3, <1>4, <2>1
<1>14. CASE PollReads
  <2>1. PICK last \in Max2(0, now - Behind)..now :
          LET stored == IF checkpoint \in {Unset, 0} THEN last ELSE checkpoint
              from == ResumesAt(last, PollWindow, Min2(last, stored))
              near == checkpoint > 0 /\ checkpoint >= Floor(last, PollWindow)
          IN  /\ latest' = last /\ lower' = from
              /\ skipped' = skipped \cup GivenUp(near, from)
    BY <1>14 DEF PollReads
  <2> DEFINE stored == IF checkpoint \in {Unset, 0} THEN last ELSE checkpoint
             from == ResumesAt(last, PollWindow, Min2(last, stored))
             near == checkpoint > 0 /\ checkpoint >= Floor(last, PollWindow)
  <2>2. last \in 0..now /\ last \in Nat
    BY <1>1, Bounds DEF Max2
  <2>3. checkpoint' = checkpoint /\ pc' = "polling" /\ lower' = from
        /\ skipped' = skipped \cup GivenUp(near, from)
    BY <1>14, <2>1 DEF PollReads, place
  <2>4. ASSUME NEW l \in Logs, blockOf[l] < from PROVE l \in Covered'
    <3>1. CASE near
      <4>1. stored = checkpoint /\ checkpoint \in Nat
        BY <1>1, <3>1 DEF Unset
      <4>2. /\ Min2(last, checkpoint) \in Int /\ Min2(last, checkpoint) <= last
            /\ Min2(last, checkpoint) <= checkpoint
            /\ Min2(last, checkpoint) >= Floor(last, PollWindow)
        <5>1. Floor(last, PollWindow) \in 0..last
          BY <2>2, Bounds DEF Floor, Max2
        <5>2. \A a, b, c \in Int : c <= a /\ c <= b =>
                  Min2(a, b) \in Int /\ Min2(a, b) <= a /\ Min2(a, b) <= b /\ c <= Min2(a, b)
          BY DEF Min2
        <5>3. Floor(last, PollWindow) <= checkpoint /\ Floor(last, PollWindow) \in Int
              /\ Floor(last, PollWindow) <= last /\ last \in Int /\ checkpoint \in Int
          BY <2>2, <3>1, <4>1, <5>1
        <5> QED
          BY <5>2, <5>3
      <4>3. from <= Min2(last, checkpoint) /\ from \in Int
        <5>1. from = ResumesAt(last, PollWindow, Min2(last, checkpoint))
          BY <4>1
        <5> HIDE DEF from
        <5> QED
          BY <2>2, <4>2, <5>1, Resumes, Bounds
      <4>4. blockOf[l] < checkpoint
        BY <1>1, <2>4, <4>1, <4>2, <4>3
      <4> QED
        BY <1>0, <1>2, <4>4 DEF CheckpointSound, Covered
    <3>2. CASE ~ near
      BY <1>2, <2>3, <2>4, <3>2 DEF GivenUp, Covered
    <3> QED
      BY <3>1, <3>2
  <2>5. RangeCovered'
    BY <1>2, <2>3, <2>4 DEF RangeCovered
  <2> QED
    BY <1>3, <2>3, <2>5 DEF BehindSecond, LiveCovered
<1>15. CASE PollStores
  <2>1. \A l \in Logs \ gone : lower <= blockOf[l] /\ blockOf[l] <= latest => l \in tried'
    BY <1>0, <1>1, <1>15, RangeTried DEF PollStores
  <2>2. pc = "polling" /\ pc' = "poll" /\ checkpoint' = latest
    BY <1>15 DEF PollStores
  <2>3. \A l \in Logs : blockOf[l] < latest => l \in Covered'
    <3> SUFFICES ASSUME NEW l \in Logs, blockOf[l] < latest PROVE l \in Covered'
      OBVIOUS
    <3>1. CASE blockOf[l] < lower
      BY <1>0, <1>2, <2>2, <3>1 DEF RangeCovered
    <3>2. CASE lower <= blockOf[l]
      BY <1>1, <1>2, <2>1, <3>2 DEF Covered
    <3> QED
      BY <1>1, <3>1, <3>2
  <2> QED
    BY <1>2, <1>4, <2>2, <2>3 DEF CheckpointSound, Covered
<1>16. CASE SeedStores \/ SeedRemembers \/ SeedFails
  <2>1. /\ UNCHANGED <<checkpoint, lower, latest, queue, now>>
        /\ pc' = pc \/ pc' \in {"source", "down"}
    BY <1>16 DEF SeedStores, SeedRemembers, SeedFails, place, source
  <2> QED
    BY <1>3, <1>4, <1>5, <2>1
<1> QED
  BY <1>6, <1>7, <1>8, <1>9, <1>10, <1>11, <1>12, <1>13, <1>14, <1>15, <1>16 DEF Next

(***************************************************************************)
(* From any crash, failed batch, switch of source or reorganisation, the    *)
(* next connection or poll resumes at a checkpoint below which no log was   *)
(* left out but by a truncation or an endpoint without history.             *)
(***************************************************************************)
THEOREM CheckpointIsSound == Spec => []CheckpointSound
<1>1. Init => CheckpointInv
  <2> SUFFICES ASSUME Init PROVE CheckpointInv
    OBVIOUS
  <2>1. Types /\ pc = "start" /\ checkpoint = Unset
    BY InitTypes DEF Init
  <2>2. \A l \in Logs : ~ (blockOf[l] < checkpoint)
    BY <2>1, Bounds DEF Types, TypeOK, Unset
  <2> QED
    BY <2>1, <2>2 DEF CheckpointInv, CheckpointSound, RangeCovered, BehindSecond, LiveCovered
<1>2. CheckpointInv => CheckpointSound
  BY DEF CheckpointInv
<1> QED
  BY <1>1, <1>2, StepCheckpoint, PTL DEF Spec

------------------------------------------------------------------------------
(***************************************************************************)
(* Reorganisations.  A removal that the subscription tells of must find the *)
(* row it is about: the row carries the timestamp this process gave the     *)
(* block, which no source changes, and its launch is registered, removed or *)
(* too old to count.  Nothing brings a launch back that was heard to be     *)
(* removed: it is gone from the chain, no longer in the stream, and the     *)
(* daemon's own observation of it, which seeding takes over, is older.      *)
(***************************************************************************)

(* The row r of a launch does not count at time n. *)
Void(r, n) == r.removed \/ ~ (r # NoRow /\ r.at >= n - Retention)

RevokedVoid == \A l \in revoked : row[l].removed \/ Void(row[Origin(l)], now)

KeptDated ==
    \A l \in kept : /\ ~ IsLaunch(l) /\ times[blockOf[l]] # Unset
                    /\ row[l] # NoRow /\ row[l].at = times[blockOf[l]]

KeptKnown ==
    \A l \in kept : /\ row[Origin(l)] # NoRow
                    /\ registry[TokenOf[l]] = "live" \/ Void(row[Origin(l)], now)

LaunchRows ==
    \A t \in Tokens :
        LET l == LaunchOf(t)
        IN  /\ row[l] # NoRow => row[l].at >= blockOf[l]
            /\ row[l].removed => l \in gone /\ Fresh(l) \notin queue /\ radar[t] < row[l].seen

GoneHeard == \A t \in Tokens : LaunchOf(t) \in gone => radar[t] < now

RevokedGone == \A l \in revoked : l \in kept /\ l \in gone /\ Fresh(l) \notin queue

TimesAhead == \A b \in 1..MaxNow : times[b] # Unset => times[b] >= b

FreshStart == pc \in {"down", "start"} => kept = {}

ReorgInv ==
    /\ Types /\ RevokedVoid /\ KeptDated /\ KeptKnown /\ LaunchRows
    /\ GoneHeard /\ RevokedGone /\ TimesAhead /\ FreshStart

LEMMA HonouredIs == Types => (ReorgHonoured <=> RevokedVoid)
BY DEF ReorgHonoured, RevokedVoid, Void, Recent, Origin

(* What left the stream and the chain does not come back. *)
LEMMA Unqueued ==
    ASSUME Types, Next
    PROVE  \A l \in gone : Fresh(l) \notin queue => Fresh(l) \notin queue'
<1>1. CASE Tick
  BY <1>1 DEF Tick, Between, Fresh
<1>2. ASSUME NEW l \in Logs, Reorganise(l)
      PROVE  \A k \in gone : Fresh(k) \notin queue => Fresh(k) \notin queue'
  BY <1>2 DEF Reorganise, Fresh
<1>3. queue' \subseteq queue \/ Tick \/ \E l \in Logs : Reorganise(l)
  BY DEF Next, DaemonStores, source,
         StartBackfill, SkipBackfill, BackfillChunk, BackfillUnsupported,
         BackfillEnds, Subscribe, LiveBatch, StartPolling, PollReads, PollStores, SourceFails,
         BatchBreaks, Crash, Restart, SeedStores, SeedRemembers, SeedFails
<1> QED
  BY <1>1, <1>2, <1>3

LEMMA StepGoneHeard == Types /\ GoneHeard /\ Next => GoneHeard'
<1> SUFFICES ASSUME Types, GoneHeard, Next PROVE GoneHeard'
  OBVIOUS
<1>0. now \in Nat /\ radar \in [Tokens -> 0..now \cup {Unset}]
  BY Bounds DEF Types, TypeOK
<1>1. CASE Tick
  <2>1. UNCHANGED <<gone, radar>> /\ now' = now + 1
    BY <1>1 DEF Tick, chain
  <2>2. \A t \in Tokens : radar[t] < now => radar[t] < now + 1
    BY <1>0 DEF Unset
  <2> QED
    BY <2>1, <2>2 DEF GoneHeard
<1>2. ASSUME NEW t \in Tokens, DaemonStores(t) PROVE GoneHeard'
  BY <1>0, <1>2 DEF DaemonStores, GoneHeard
<1>3. ASSUME NEW l \in Logs, Reorganise(l) PROVE GoneHeard'
  <2>1. /\ gone' = gone \cup {l} /\ UNCHANGED <<radar, now>>
        /\ IsLaunch(l) => radar[TokenOf[l]] < now
    BY <1>3 DEF Reorganise
  <2> QED
    BY <2>1, Launches DEF GoneHeard
<1>4. CASE Still
  BY <1>4 DEF Still, GoneHeard
<1> QED
  BY <1>1, <1>2, <1>3, <1>4, WorldSteps

(* The rows that a batch writes. *)
Wrote(B, stamp) ==
    \A l \in Accepted(B, stamp) :
        /\ l \in Logs /\ Agrees(l, stamp)
        /\ stamp[blockOf[l]] \in 0..now /\ blockOf[l] \in 1..now
        /\ row'[l].at = stamp[blockOf[l]] /\ row'[l].seen = Observed(l)
        /\ row'[l].removed <=> [log |-> l, removed |-> TRUE] \in B
        /\ row'[l] # NoRow

LEMMA BatchWrites ==
    ASSUME Types, NEW B, NEW stamp, NEW mark, BatchForm(B, stamp, mark)
    PROVE  Wrote(B, stamp)
<1> SUFFICES ASSUME NEW l \in Accepted(B, stamp)
             PROVE  /\ l \in Logs /\ Agrees(l, stamp)
                    /\ stamp[blockOf[l]] \in 0..now /\ blockOf[l] \in 1..now
                    /\ row'[l].at = stamp[blockOf[l]] /\ row'[l].seen = Observed(l)
                    /\ row'[l].removed <=> [log |-> l, removed |-> TRUE] \in B
                    /\ row'[l] # NoRow
  BY DEF Wrote
<1> DEFINE x == stamp[blockOf[l]]
           y == Observed(l)
           z == [log |-> l, removed |-> TRUE] \in B
<1>1. row'[l] = [at |-> x, seen |-> y, removed |-> z] /\ l \in Logs /\ Agrees(l, stamp)
      /\ x \in 0..now /\ blockOf[l] \in 1..now
  BY BatchRows
<1>2. now \in Nat
  BY Bounds DEF Types, TypeOK
<1> HIDE DEF x, y, z
<1>3. row'[l].at = x /\ row'[l].seen = y /\ (row'[l].removed <=> z)
  BY <1>1
<1>4. row'[l] # NoRow
  BY <1>1, <1>2, <1>3 DEF NoRow, Unset
<1> QED
  BY <1>1, <1>3, <1>4 DEF x, y, z

(* A row that is dated by this process, or was, keeps its time in a batch; a *)
(* removed one stays removed.                                               *)
LEMMA BatchKeeps ==
    ASSUME ReorgInv, NEW B, NEW stamp, NEW mark, BatchForm(B, stamp, mark)
    PROVE  /\ \A l \in Logs : row[l] # NoRow => row'[l] # NoRow /\ row'[l].at = row[l].at
           /\ \A l \in Accepted(B, stamp) :
                 l \in gone /\ Fresh(l) \notin queue => row'[l].removed
           /\ \A t \in Tokens : /\ row[LaunchOf(t)] # NoRow
                                /\ Void(row[LaunchOf(t)], now)
                                => Void(row'[LaunchOf(t)], now')
<1>0. Types /\ LaunchRows /\ now' = now
  BY DEF ReorgInv, BatchForm
<1>1. Types /\ LaunchRows /\ now' = now /\ Wrote(B, stamp)
  BY <1>0, BatchWrites
<1>2. \A l \in Logs : row[l] # NoRow => row'[l] # NoRow /\ row'[l].at = row[l].at
  <2> SUFFICES ASSUME NEW l \in Logs, row[l] # NoRow
               PROVE  row'[l] # NoRow /\ row'[l].at = row[l].at
    OBVIOUS
  <2>1. row'[l] # NoRow
    BY <1>1, BatchTypes
  <2>2. CASE l \in Accepted(B, stamp)
    <3>1. row'[l].at = stamp[blockOf[l]] /\ Agrees(l, stamp)
      BY <1>1, <2>2 DEF Wrote
    <3> QED
      BY <2>1, <3>1 DEF Agrees
  <2>3. CASE l \notin Accepted(B, stamp)
    BY <1>1, <2>1, <2>3, BatchRows
  <2> QED
    BY <2>2, <2>3
<1>3. ASSUME NEW l \in Accepted(B, stamp), l \in gone, Fresh(l) \notin queue
      PROVE  row'[l].removed
  <2>1. PICK d \in B : d.log = l
    BY <1>3 DEF Accepted
  <2>2. d.removed /\ d \in Deliveries
    BY <1>3, <2>1 DEF BatchForm, Arrived, Queued
  <2>3. d = [log |-> l, removed |-> TRUE]
    BY <2>1, <2>2 DEF Deliveries
  <2>4. row'[l].removed <=> [log |-> l, removed |-> TRUE] \in B
    BY <1>1, <1>3 DEF Wrote
  <2> QED
    BY <2>1, <2>3, <2>4
<1>4. ASSUME NEW t \in Tokens, row[LaunchOf(t)] # NoRow, Void(row[LaunchOf(t)], now)
      PROVE  Void(row'[LaunchOf(t)], now')
  <2> DEFINE l == LaunchOf(t)
  <2>1. l \in Logs /\ row'[l] # NoRow /\ row'[l].at = row[l].at
    BY <1>2, <1>4, Launches
  <2>2. CASE row[l].removed
    <3>1. l \in gone /\ Fresh(l) \notin queue
      BY <1>1, <2>2 DEF LaunchRows
    <3>2. CASE l \in Accepted(B, stamp)
      BY <1>3, <3>1, <3>2 DEF Void
    <3>3. CASE l \notin Accepted(B, stamp)
      <4>1. row'[l] = row[l]
        BY <1>1, <2>1, <3>3, BatchRows
      <4> QED
        BY <2>2, <4>1 DEF Void
    <3> QED
      BY <3>2, <3>3
  <2>3. CASE ~ row[l].removed
    <3>1. ~ (row[l].at >= now - Retention)
      BY <1>4, <2>3 DEF Void
    <3> QED
      BY <1>1, <2>1, <3>1 DEF Void
  <2> QED
    BY <2>2, <2>3
<1> QED
  BY <1>2, <1>3, <1>4

LEMMA BatchReorg == ReorgInv /\ BatchStep => ReorgInv'
<1> SUFFICES ASSUME ReorgInv, BatchStep PROVE ReorgInv'
  OBVIOUS
<1>0. /\ Types /\ RevokedVoid /\ KeptDated /\ KeptKnown /\ LaunchRows
      /\ GoneHeard /\ RevokedGone /\ TimesAhead /\ Next
  BY DEF ReorgInv, BatchStep, Next
<1>1. PICK B, stamp, mark : B \in SUBSET Deliveries /\ BatchForm(B, stamp, mark)
  BY <1>0, BatchForms
<1>2. /\ now \in Nat /\ blockOf \in [Logs -> 1..MaxNow]
      /\ kept \subseteq Logs /\ revoked \subseteq Logs
      /\ stamp \in [1..MaxNow -> 0..now \cup {Unset}]
      /\ radar \in [Tokens -> 0..now \cup {Unset}]
  BY <1>0, <1>1, Bounds DEF Types, TypeOK, BatchForm, Dated
<1>3. /\ UNCHANGED <<blockOf, gone, radar, now>> /\ queue' \subseteq queue
      /\ times' = stamp
      /\ kept' = kept \cup {l \in Accepted(B, stamp) : ~ IsLaunch(l)}
      /\ revoked' = revoked \cup {d.log : d \in {x \in B : x.removed /\ x.log \in kept}}
      /\ registry' = Registered(B, stamp)
  BY <1>1 DEF BatchForm, Processed, chain
<1>4. /\ \A l \in Logs : row[l] # NoRow => row'[l] # NoRow /\ row'[l].at = row[l].at
      /\ \A l \in Accepted(B, stamp) :
             l \in gone /\ Fresh(l) \notin queue => row'[l].removed
      /\ \A t \in Tokens : row[LaunchOf(t)] # NoRow /\ Void(row[LaunchOf(t)], now)
                           => Void(row'[LaunchOf(t)], now')
  BY <1>1, BatchKeeps
<1>5. Wrote(B, stamp)
  BY <1>0, <1>1, BatchWrites
<1>6. \A l \in Logs \ Accepted(B, stamp) : row'[l] = row[l]
  BY <1>0, <1>1, BatchRows
<1>7. \A b \in 1..MaxNow : times[b] # Unset => stamp[b] = times[b]
  BY <1>1 DEF BatchForm, Dated
<1>8. \A t \in Tokens :
         \/ registry'[t] = registry[t]
         \/ /\ registry'[t] \in {"live", "removed"}
            /\ LaunchOf(t) \in Accepted(B, stamp)
            /\ registry'[t] = "removed" => row'[LaunchOf(t)].removed
  BY <1>0, <1>1, BatchRows
<1>9. \A l \in Logs : TokenOf[l] \in Tokens /\ Origin(l) = LaunchOf(TokenOf[l]) /\ Origin(l) \in Logs
  BY Bounds, Launches DEF Origin
<1>10. Types'
  BY <1>0, StepTypes
<1>11. TimesAhead'
  <2>1. \A b \in 1..MaxNow : \/ stamp[b] = times[b]
                             \/ b <= now /\ stamp[b] \in {b, now}
    BY <1>1 DEF BatchForm, Dated
  <2> QED
    BY <1>0, <1>2, <1>3, <2>1, Bounds DEF TimesAhead
<1>12. KeptDated'
  <2>1. ASSUME NEW l \in kept PROVE row'[l] # NoRow /\ row'[l].at = stamp[blockOf[l]]
                                    /\ stamp[blockOf[l]] # Unset /\ ~ IsLaunch(l)
    BY <1>0, <1>2, <1>4, <1>7 DEF KeptDated
  <2>2. ASSUME NEW l \in Accepted(B, stamp)
        PROVE  row'[l] # NoRow /\ row'[l].at = stamp[blockOf[l]] /\ stamp[blockOf[l]] # Unset
    <3>1. /\ row'[l] # NoRow /\ row'[l].at = stamp[blockOf[l]]
          /\ stamp[blockOf[l]] \in 0..now
      BY <1>5 DEF Wrote
    <3>2. stamp[blockOf[l]] # Unset
      BY <1>2, <3>1 DEF Unset
    <3> QED
      BY <3>1, <3>2
  <2> QED
    BY <1>3, <2>1, <2>2 DEF KeptDated, IsLaunch
<1>13. KeptKnown'
  <2>1. ASSUME NEW l \in kept
        PROVE  row'[Origin(l)] # NoRow
               /\ (registry'[TokenOf[l]] = "live" \/ Void(row'[Origin(l)], now'))
    <3>1. l \in Logs /\ row[Origin(l)] # NoRow
          /\ (registry[TokenOf[l]] = "live" \/ Void(row[Origin(l)], now))
      BY <1>0, <1>2 DEF KeptKnown
    <3>2. row'[Origin(l)] # NoRow
      BY <1>4, <1>9, <3>1
    <3>3. CASE registry'[TokenOf[l]] = registry[TokenOf[l]]
      BY <1>4, <1>9, <3>1, <3>2, <3>3
    <3>4. CASE registry'[TokenOf[l]] = "removed"
      <4>1. row'[Origin(l)].removed \/ registry'[TokenOf[l]] = registry[TokenOf[l]]
        BY <1>8, <1>9, <3>1, <3>4
      <4> QED
        BY <3>2, <3>3, <4>1 DEF Void
    <3> QED
      BY <1>8, <1>9, <3>1, <3>2, <3>3, <3>4
  <2>2. ASSUME NEW l \in Accepted(B, stamp), ~ IsLaunch(l)
        PROVE  row'[Origin(l)] # NoRow /\ registry'[TokenOf[l]] = "live"
    <3>1. registry'[TokenOf[l]] = "live" /\ l \in Logs
      BY <1>3, <1>5, <2>2 DEF Accepted, Wrote
    <3>2. row'[LaunchOf(TokenOf[l])] # NoRow
      BY <1>9, <1>10, <3>1 DEF Types, TypeOK
    <3> QED
      BY <1>9, <3>1, <3>2
  <2>3. \A l \in kept' : l \in kept \/ (l \in Accepted(B, stamp) /\ ~ IsLaunch(l))
    BY <1>3
  <2>4. \A l \in kept' : row'[Origin(l)] # NoRow
                         /\ (registry'[TokenOf[l]] = "live" \/ Void(row'[Origin(l)], now'))
    BY <2>1, <2>2, <2>3
  <2> QED
    BY <2>4 DEF KeptKnown, Origin
<1>14. LaunchRows'
  <2> SUFFICES ASSUME NEW t \in Tokens
               PROVE  LET l == LaunchOf(t)
                      IN  /\ row'[l] # NoRow => row'[l].at >= blockOf[l]
                          /\ row'[l].removed => /\ l \in gone /\ Fresh(l) \notin queue'
                                                /\ radar[t] < row'[l].seen
    BY <1>3 DEF LaunchRows, Fresh
  <2> DEFINE l == LaunchOf(t)
  <2>1. l \in Logs /\ IsLaunch(l) /\ TokenOf[l] = t
    BY Launches
  <2>2. CASE l \in Accepted(B, stamp)
    <3>1. row'[l].at = stamp[blockOf[l]] /\ row'[l].seen = now
          /\ (row'[l].removed => [log |-> l, removed |-> TRUE] \in B)
      BY <1>5, <2>1, <2>2 DEF Observed, Wrote
    <3>2. stamp[blockOf[l]] >= blockOf[l]
      <4>1. blockOf[l] \in 1..MaxNow /\ stamp[blockOf[l]] # Unset
        <5>1. stamp[blockOf[l]] \in 0..now
          BY <1>5, <2>2 DEF Wrote
        <5>2. stamp[blockOf[l]] # Unset
          BY <1>2, <5>1 DEF Unset
        <5> QED
          BY <1>2, <2>1, <5>2
      <4> QED
        BY <1>3, <1>11, <4>1 DEF TimesAhead
    <3>3. ASSUME [log |-> l, removed |-> TRUE] \in B
          PROVE  l \in gone /\ Fresh(l) \notin queue'
      BY <1>1, <3>3 DEF BatchForm, Arrived
    <3>4. l \in gone => radar[t] < now
      BY <1>0 DEF GoneHeard
    <3> QED
      BY <3>1, <3>2, <3>3, <3>4
  <2>3. CASE l \notin Accepted(B, stamp)
    <3>1. row'[l] = row[l]
      BY <1>6, <2>1, <2>3
    <3> QED
      BY <1>0, <1>3, <3>1 DEF LaunchRows
  <2> QED
    BY <2>2, <2>3
<1>15. GoneHeard'
  BY <1>0, StepGoneHeard
<1>16. RevokedGone'
  <2>1. ASSUME NEW d \in B, d.removed, d.log \in kept
        PROVE  d.log \in gone /\ Fresh(d.log) \notin queue'
    BY <1>1, <2>1 DEF BatchForm, Arrived
  <2>2. \A l \in revoked' \ revoked : l \in kept /\ l \in gone /\ Fresh(l) \notin queue'
    BY <1>3, <2>1
  <2> QED
    BY <1>0, <1>3, <2>2 DEF RevokedGone, Fresh
<1>17. RevokedVoid'
  <2>1. ASSUME NEW l \in revoked PROVE row'[l].removed \/ Void(row'[Origin(l)], now')
    <3>1. /\ l \in Logs /\ l \in kept /\ l \in gone /\ Fresh(l) \notin queue
          /\ row[Origin(l)] # NoRow
          /\ row[l].removed \/ Void(row[Origin(l)], now)
      BY <1>0, <1>2 DEF RevokedVoid, RevokedGone, KeptKnown
    <3>2. CASE row[l].removed
      BY <1>4, <1>6, <3>1, <3>2
    <3>3. CASE Void(row[Origin(l)], now)
      BY <1>4, <1>9, <3>1, <3>3
    <3> QED
      BY <3>1, <3>2, <3>3
  <2>2. ASSUME NEW d \in B, d.removed, d.log \in kept
        PROVE  row'[d.log].removed \/ Void(row'[Origin(d.log)], now')
    <3> DEFINE l == d.log
    <3>1. l \in Logs /\ l \in gone /\ ~ IsLaunch(l) /\ d = [log |-> l, removed |-> TRUE]
      BY <1>0, <1>1, <1>2, <2>2 DEF BatchForm, Arrived, KeptDated, Deliveries
    <3>2. Agrees(l, stamp)
      BY <1>0, <1>2, <1>7, <2>2 DEF KeptDated, Agrees
    <3>3. CASE registry'[TokenOf[l]] = "live"
      <4>1. l \in Accepted(B, stamp)
        BY <1>3, <3>2, <3>3 DEF Accepted
      <4>2. row'[l].removed <=> [log |-> l, removed |-> TRUE] \in B
        BY <1>5, <4>1 DEF Wrote
      <4> QED
        BY <3>1, <4>2
    <3>4. CASE registry'[TokenOf[l]] # "live"
      <4>1. l \in kept'
        BY <1>3, <2>2
      <4> QED
        BY <1>13, <3>4, <4>1 DEF KeptKnown, Origin
    <3> QED
      BY <3>3, <3>4
  <2>3. \A l \in revoked' : row'[l].removed \/ Void(row'[Origin(l)], now')
    BY <1>3, <2>1, <2>2
  <2> QED
    BY <2>3 DEF RevokedVoid, Origin
<1>18. FreshStart'
  BY DEF BatchStep, BackfillChunk, LiveBatch, PollStores, BatchBreaks, FreshStart, Backfilling
<1> QED
  BY <1>10, <1>11, <1>12, <1>13, <1>14, <1>15, <1>16, <1>17, <1>18 DEF ReorgInv

(* A row that does not count does not count later. *)
LEMMA VoidLater ==
    ASSUME Types, NEW n \in Nat, now <= n, NEW l \in Logs, Void(row[l], now)
    PROVE  Void(row[l], n)
<1>1. now \in Nat /\ row[l] \in [at : 0..now, seen : 0..now, removed : BOOLEAN] \cup {NoRow}
  BY Bounds DEF Types, TypeOK
<1>2. row[l] # NoRow => row[l].at \in Int
  BY <1>1
<1> QED
  BY <1>1, <1>2, Bounds DEF Void

(* Actions that leave the rows, the times and the registry alone. *)
LEMMA FrameReorg ==
    ASSUME ReorgInv, Next, UNCHANGED <<row, times, registry, kept, revoked>>,
           pc' \in {"down", "start"} => pc \in {"down", "start"}
    PROVE  ReorgInv'
<1>0. /\ Types /\ RevokedVoid /\ KeptDated /\ KeptKnown /\ LaunchRows
      /\ GoneHeard /\ RevokedGone /\ TimesAhead /\ FreshStart
  BY DEF ReorgInv
<1>1. Types' /\ GoneHeard'
  BY <1>0, StepTypes, StepGoneHeard
<1>2. /\ blockOf' = blockOf /\ gone \subseteq gone'
      /\ \A l \in gone : Fresh(l) \notin queue => Fresh(l) \notin queue'
  BY <1>0, Covers, Unqueued
<1>3. now' \in Nat /\ now <= now' /\ kept \subseteq Logs /\ revoked \subseteq Logs
  BY <1>0, StepWorld DEF Types, TypeOK
<1>4. \A l \in Logs : Origin(l) \in Logs
  BY Launches
<1>5. \A l \in Logs : Void(row[l], now) => Void(row[l], now')
  BY <1>0, <1>3, VoidLater
<1>6. RevokedVoid'
  BY <1>0, <1>3, <1>4, <1>5 DEF RevokedVoid, Origin
<1>7. KeptDated' /\ TimesAhead' /\ FreshStart'
  BY <1>0, <1>2 DEF KeptDated, TimesAhead, FreshStart
<1>8. KeptKnown'
  BY <1>0, <1>3, <1>4, <1>5 DEF KeptKnown, Origin
<1>9. RevokedGone'
  BY <1>0, <1>2 DEF RevokedGone, Fresh
<1>10. LaunchRows'
  <2>1. \A t \in Tokens : LaunchOf(t) \in gone => radar'[t] = radar[t]
    <3>1. ASSUME NEW u \in Tokens, DaemonStores(u)
          PROVE  \A t \in Tokens : LaunchOf(t) \in gone => radar'[t] = radar[t]
      BY <3>1 DEF DaemonStores
    <3>2. radar' = radar \/ \E u \in Tokens : DaemonStores(u)
      BY WorldSteps DEF chain, Tick, Reorganise, Still
    <3> QED
      BY <3>1, <3>2
  <2> QED
    BY <1>0, <1>2, <2>1 DEF LaunchRows, Fresh
<1> QED
  BY <1>1, <1>6, <1>7, <1>8, <1>9, <1>10 DEF ReorgInv

(* Seeding dates a launch by its block and lets the daemon's observation in. *)
LEMMA SowedReorg ==
    ASSUME ReorgInv, Next, SeedStores \/ SeedFails
    PROVE  ReorgInv'
<1>0. /\ Types /\ RevokedVoid /\ KeptDated /\ KeptKnown /\ LaunchRows
      /\ GoneHeard /\ RevokedGone /\ TimesAhead /\ FreshStart
  BY DEF ReorgInv
<1>1. Types' /\ GoneHeard'
  BY <1>0, StepTypes, StepGoneHeard
<1>2. PICK ts \in SUBSET Seeds : row' = Sowed(ts)
  BY DEF SeedStores, SeedFails
<1>3. /\ UNCHANGED <<blockOf, gone, radar, now, queue, times, registry, kept, revoked>>
      /\ pc' \in {"down", "start"} => pc \in {"down", "start"}
  BY DEF SeedStores, SeedFails, chain, source
<1>4. /\ now \in Nat /\ kept \subseteq Logs /\ revoked \subseteq Logs
      /\ row \in [Logs -> [at : 0..now, seen : 0..now, removed : BOOLEAN] \cup {NoRow}]
      /\ blockOf \in [Logs -> 1..MaxNow]
  BY <1>0, Bounds DEF Types, TypeOK
<1>5. \A l \in Logs : Origin(l) \in Logs /\ Origin(l) = LaunchOf(TokenOf[l]) /\ TokenOf[l] \in Tokens
  BY Launches, Bounds DEF Origin
<1>6. /\ \A t \in ts : /\ t \in Tokens /\ radar[t] \in 0..now
                       /\ row'[LaunchOf(t)] = SeededRow(t)
      /\ \A l \in Logs : ~IsLaunch(l) \/ TokenOf[l] \notin ts => row'[l] = row[l]
      /\ \A l \in Logs : row[l] # NoRow => row'[l] # NoRow
  BY <1>0, <1>2, SowedRows
<1>7. ASSUME NEW t \in ts
      PROVE  LET l == LaunchOf(t)
             IN  /\ row'[l].at = blockOf[l]
                 /\ row'[l].seen = Max2(row[l].seen, radar[t])
                 /\ row'[l].removed <=> row[l].removed /\ radar[t] < row[l].seen
  <2> DEFINE l == LaunchOf(t)
             x == blockOf[l]
             y == Max2(row[l].seen, radar[t])
             z == row[l].removed /\ radar[t] < row[l].seen
  <2>1. row'[l] = [at |-> x, seen |-> y, removed |-> z]
    BY <1>6 DEF SeededRow
  <2> HIDE DEF x, y, z
  <2>2. row'[l].at = x /\ row'[l].seen = y /\ (row'[l].removed <=> z)
    BY <2>1
  <2> QED
    BY <2>2 DEF x, y, z
<1>8. ASSUME NEW t \in Tokens, row[LaunchOf(t)] # NoRow, Void(row[LaunchOf(t)], now)
      PROVE  Void(row'[LaunchOf(t)], now)
  <2> DEFINE l == LaunchOf(t)
  <2>1. l \in Logs /\ IsLaunch(l) /\ TokenOf[l] = t
    BY Launches
  <2>2. CASE t \notin ts
    BY <1>6, <1>8, <2>1, <2>2
  <2>3. CASE t \in ts
    <3>1. CASE row[l].removed
      <4>1. row'[l].removed
        BY <1>0, <1>7, <2>3, <3>1 DEF LaunchRows
      <4> QED
        BY <4>1 DEF Void
    <3>2. CASE ~ (row[l].at >= now - Retention)
      <4>1. row'[l].at = blockOf[l] /\ row[l].at >= blockOf[l]
        BY <1>0, <1>7, <1>8, <2>3 DEF LaunchRows
      <4>2. row[l].at \in Int /\ blockOf[l] \in Int
        BY <1>4, <1>8, <2>1
      <4>3. ~ (row'[l].at >= now - Retention)
        BY <1>4, <3>2, <4>1, <4>2, Bounds
      <4> QED
        BY <4>3 DEF Void
    <3> QED
      BY <1>8, <3>1, <3>2 DEF Void
  <2> QED
    BY <2>2, <2>3
<1>9. \A l \in kept : /\ l \in Logs /\ ~ IsLaunch(l) /\ row[Origin(l)] # NoRow
                      /\ row'[l] = row[l] /\ row'[Origin(l)] # NoRow
                      /\ Void(row[Origin(l)], now) => Void(row'[Origin(l)], now)
  BY <1>0, <1>4, <1>5, <1>6, <1>8 DEF KeptDated, KeptKnown
<1>10. RevokedVoid'
  BY <1>0, <1>3, <1>9 DEF RevokedVoid, RevokedGone, Origin
<1>11. KeptDated' /\ TimesAhead' /\ FreshStart' /\ RevokedGone'
  BY <1>0, <1>3, <1>9 DEF KeptDated, TimesAhead, FreshStart, RevokedGone, Fresh
<1>12. KeptKnown'
  BY <1>0, <1>3, <1>9 DEF KeptKnown, Origin
<1>13. LaunchRows'
  <2> SUFFICES ASSUME NEW t \in Tokens
               PROVE  LET l == LaunchOf(t)
                      IN  /\ row'[l] # NoRow => row'[l].at >= blockOf[l]
                          /\ row'[l].removed => /\ l \in gone /\ Fresh(l) \notin queue
                                                /\ radar[t] < row'[l].seen
    BY <1>3 DEF LaunchRows, Fresh
  <2> DEFINE l == LaunchOf(t)
  <2>1. l \in Logs /\ IsLaunch(l) /\ TokenOf[l] = t
    BY Launches
  <2>2. CASE t \notin ts
    BY <1>0, <1>6, <2>1, <2>2 DEF LaunchRows
  <2>3. CASE t \in ts
    <3>1. row'[l].at >= blockOf[l]
      <4>1. row'[l].at = blockOf[l]
        BY <1>7, <2>3
      <4>2. blockOf[l] \in Int
        BY <1>4, <2>1, Bounds
      <4> QED
        BY <4>1, <4>2
    <3>2. ASSUME row'[l].removed
          PROVE  l \in gone /\ Fresh(l) \notin queue /\ radar[t] < row'[l].seen
      <4>1. row[l].removed /\ radar[t] < row[l].seen /\ row'[l].seen = Max2(row[l].seen, radar[t])
        BY <1>7, <2>3, <3>2
      <4>2. row[l].seen \in Int /\ radar[t] \in Int
        BY <1>4, <1>6, <2>1, <2>3, <4>1 DEF NoRow, Unset
      <4>3. row'[l].seen = row[l].seen
        BY <4>1, <4>2 DEF Max2
      <4> QED
        BY <1>0, <4>1, <4>3 DEF LaunchRows
    <3> QED
      BY <3>1, <3>2
  <2> QED
    BY <2>2, <2>3
<1> QED
  BY <1>1, <1>10, <1>11, <1>12, <1>13 DEF ReorgInv

LEMMA StepReorg == ReorgInv /\ [Next]_vars => ReorgInv'
<1> SUFFICES ASSUME ReorgInv, Next PROVE ReorgInv'
  <2>1. CASE UNCHANGED vars
    BY <2>1, StepTypes
    DEF ReorgInv, vars, chain, source, batch, RevokedVoid, KeptDated, KeptKnown, LaunchRows,
        GoneHeard, RevokedGone, TimesAhead, FreshStart, Origin, Fresh
  <2> QED
    BY <2>1
<1>0. /\ Types /\ RevokedVoid /\ KeptDated /\ KeptKnown /\ LaunchRows
      /\ GoneHeard /\ RevokedGone /\ TimesAhead /\ FreshStart
  BY DEF ReorgInv
<1>1. Types' /\ GoneHeard'
  BY <1>0, StepTypes, StepGoneHeard
<1>2. CASE BatchStep
  BY <1>2, BatchReorg
<1>3. CASE SeedStores \/ SeedFails
  BY <1>3, SowedReorg
<1>4. CASE Aside \/ SkipBackfill \/ BackfillUnsupported
  <2>1. UNCHANGED <<row, times, registry, kept, revoked>>
    BY <1>4, AsideIs DEF batch, SkipBackfill, BackfillUnsupported, Skips
  <2>2. pc' \in {"down", "start"} => pc \in {"down", "start"}
    BY <1>4 DEF Aside, Tick, DaemonStores, Reorganise, StartBackfill, BackfillEnds, Subscribe,
       StartPolling, PollReads, SourceFails, SkipBackfill, BackfillUnsupported, Skips, Opened,
       Returned, source, vars
  <2> QED
    BY <2>1, <2>2, FrameReorg
<1>5. CASE Crash \/ Restart
  <2>1. /\ UNCHANGED <<blockOf, gone, radar, now, row>> /\ queue' \subseteq queue
        /\ kept' = {} /\ revoked' = {}
    BY <1>0, <1>5 DEF Crash, Restart, chain, FreshStart, RevokedGone
  <2>2. times' = times \/ times' = [b \in 1..MaxNow |-> Unset]
    BY <1>5 DEF Crash, Restart
  <2>3. LaunchRows'
    BY <1>0, <2>1 DEF LaunchRows, Fresh
  <2>4. TimesAhead'
    <3>1. CASE times' = times
      BY <1>0, <3>1 DEF TimesAhead
    <3>2. CASE times' = [b \in 1..MaxNow |-> Unset]
      BY <3>2 DEF TimesAhead
    <3> QED
      BY <2>2, <3>1, <3>2
  <2>5. RevokedVoid' /\ KeptDated' /\ KeptKnown' /\ RevokedGone' /\ FreshStart'
    BY <2>1 DEF RevokedVoid, KeptDated, KeptKnown, RevokedGone, FreshStart
  <2> QED
    BY <1>1, <2>3, <2>4, <2>5 DEF ReorgInv
<1>6. CASE SeedRemembers
  <2>1. /\ UNCHANGED <<blockOf, gone, radar, now, row, queue, times, kept, revoked>>
        /\ pc' \in {"down", "start"} => pc \in {"down", "start"}
    BY <1>6 DEF SeedRemembers, chain
  <2>2. registry' = [t \in Tokens |->
                      IF row[LaunchOf(t)] # NoRow /\ ~Recent(LaunchOf(t)) THEN "none"
                      ELSE IF t \in seeded THEN "live" ELSE registry[t]]
    BY <1>6 DEF SeedRemembers
  <2>3. ASSUME NEW l \in kept
        PROVE  registry'[TokenOf[l]] = "live" \/ Void(row[Origin(l)], now)
    <3>1. /\ l \in Logs /\ TokenOf[l] \in Tokens
          /\ registry[TokenOf[l]] = "live" \/ Void(row[Origin(l)], now)
      BY <1>0, Bounds DEF KeptKnown, Types, TypeOK
    <3> QED
      BY <2>2, <3>1 DEF Recent, Void, Origin
  <2>4. KeptKnown'
    BY <1>0, <2>1, <2>3 DEF KeptKnown, Origin
  <2>5. RevokedVoid' /\ KeptDated' /\ LaunchRows' /\ RevokedGone' /\ TimesAhead' /\ FreshStart'
    BY <1>0, <2>1 DEF RevokedVoid, KeptDated, LaunchRows, RevokedGone, TimesAhead, FreshStart,
       Origin, Fresh
  <2> QED
    BY <1>1, <2>4, <2>5 DEF ReorgInv
<1> QED
  BY <1>2, <1>3, <1>4, <1>5, <1>6 DEF Next, Aside, BatchStep

(***************************************************************************)
(* A trade that was stored and then revoked by the subscription never       *)
(* counts, whatever interleaving of seeds, backfills, polls, failed batches *)
(* and further reorganisations came between.                                *)
(***************************************************************************)
THEOREM RevokedNeverCounts == Spec => []ReorgHonoured
<1>1. Init => ReorgInv
  <2> SUFFICES ASSUME Init PROVE ReorgInv
    OBVIOUS
  <2>1. /\ Types /\ kept = {} /\ revoked = {} /\ gone = {} /\ \A l \in Logs : row[l] = NoRow
        /\ \A b \in 1..MaxNow : times[b] = Unset
    BY InitTypes DEF Init
  <2>2. \A t \in Tokens : LaunchOf(t) \in Logs
    BY Launches
  <2>3. LaunchRows
    <3>1. ~ NoRow.removed
      BY DEF NoRow
    <3> QED
      BY <2>1, <2>2, <3>1 DEF LaunchRows
  <2> QED
    BY <2>1, <2>3
    DEF ReorgInv, RevokedVoid, KeptDated, KeptKnown, GoneHeard, RevokedGone, TimesAhead, FreshStart
<1>2. ReorgInv => ReorgHonoured
  BY HonouredIs DEF ReorgInv
<1> QED
  BY <1>1, <1>2, StepReorg, PTL DEF Spec

------------------------------------------------------------------------------
(***************************************************************************)
(* The evidence.  A log that is not covered is bounded from below, by other *)
(* means in each phase of the source: behind a backfill it is above the     *)
(* watermark and every time a later chunk could raise that to; between      *)
(* polls it is above the checkpoint, unless the coverage is not behind the  *)
(* watermark yet.  While live a log that was skipped is below the coverage, *)
(* and one that was not tried is in the stream.                             *)
(***************************************************************************)
Uncovered == Logs \ Covered

FirstBehind ==
    pc = "first" => watermark <= latest /\ \A b \in 1..MaxNow : times[b] <= latest

Above(l) == blockOf[l] > watermark /\ \A b \in 1..MaxNow : blockOf[l] > times[b]

SubscribedAbove == pc \in {"connect", "ready", "second"} => \A l \in Uncovered : Above(l)

PollsAbove ==
    pc \in {"poll", "polling"} =>
        watermark <= coverage \/ \A l \in Uncovered : blockOf[l] > checkpoint

LiveReached ==
    pc = "live" => \A l \in Logs : coverage < blockOf[l] /\ blockOf[l] <= now
                                   => l \in tried \cup gone \/ Queued(l)

EvidenceInv ==
    CheckpointInv /\ FirstBehind /\ SubscribedAbove /\ PollsAbove /\ LiveReached

LEMMA EvidenceIs == EvidenceInv => EvidenceComplete
<1> SUFFICES ASSUME EvidenceInv, Connected, coverage # Unset, NEW l \in Logs \ gone,
                    coverage < blockOf[l], blockOf[l] <= watermark
             PROVE  l \in tried \/ UnderWay(l) \/ (l \in skipped /\ pc # "live")
  BY DEF EvidenceComplete
<1>1. /\ now \in Nat /\ watermark \in 0..now /\ blockOf[l] \in Nat
      /\ coverage \in Int /\ checkpoint \in Int
  <2>1. /\ blockOf \in [Logs -> 1..MaxNow] /\ now \in 0..MaxNow /\ watermark \in 0..now
        /\ {checkpoint, coverage} \subseteq 0..now \cup {Unset}
    BY DEF EvidenceInv, CheckpointInv, Types, TypeOK
  <2> QED
    BY ONLY <2>1, Bounds DEF Unset
<1>2. CASE pc \in {"ready", "second"}
  BY <1>1, <1>2 DEF EvidenceInv, SubscribedAbove, Above, Uncovered, Covered
<1>3. CASE pc = "live"
  <2>1. l \in tried \/ Queued(l)
    BY <1>1, <1>3 DEF EvidenceInv, LiveReached
  <2> QED
    BY <2>1 DEF UnderWay, Queued, Fresh
<1>4. CASE pc \in {"poll", "polling"}
  <2>1. l \in Uncovered => blockOf[l] > checkpoint
    BY <1>1, <1>4 DEF EvidenceInv, PollsAbove
  <2> QED
    BY <1>4, <2>1 DEF UnderWay, Uncovered, Covered
<1> QED
  BY <1>2, <1>3, <1>4 DEF Connected, Subscribed

(* What a batch may raise the watermark to. *)
LEMMA BatchMark ==
    ASSUME Types, NEW B, NEW stamp, NEW mark, BatchForm(B, stamp, mark)
    PROVE  \/ watermark' \in {watermark, mark}
           \/ \E d \in B : KindOf[d.log] = "curve" /\ watermark' = stamp[blockOf[d.log]]
<1> DEFINE S == {watermark, mark} \cup
                {stamp[blockOf[d.log]] : d \in {x \in B : KindOf[x.log] = "curve"}}
<1>1. watermark' = Largest(S)
  BY DEF BatchForm, Processed
<1>2. now \in Nat /\ watermark \in 0..now /\ mark \in 0..now
      /\ stamp \in [1..MaxNow -> 0..now \cup {Unset}] /\ blockOf \in [Logs -> 1..MaxNow]
  BY Bounds DEF Types, TypeOK, BatchForm, Dated
<1>3. \A d \in B : d.log \in Logs /\ stamp[blockOf[d.log]] # Unset
  BY DEF BatchForm, Arrived, Dated, Deliveries
<1>4. S \subseteq 0..now /\ S # {}
  <2>1. \A d \in B : stamp[blockOf[d.log]] \in 0..now
    BY <1>2, <1>3
  <2> QED
    BY <1>2, <2>1
<1>5. Largest(S) \in S
  <2> HIDE DEF S
  <2> QED
    BY <1>2, <1>4, LargestIs
<1> QED
  BY <1>1, <1>5

(* The watermark and the times move with a batch, when a backfill is skipped *)
(* and with a crash only.                                                    *)
LEMMA Quiet ==
    ASSUME Next, ~ BatchStep, ~ SkipBackfill, ~ BackfillUnsupported, ~ Crash
    PROVE  watermark' = watermark /\ times' = times
<1>1. CASE Aside
  BY <1>1, AsideIs DEF batch
<1>2. CASE Restart \/ SeedStores \/ SeedRemembers \/ SeedFails
  BY <1>2 DEF Restart, SeedStores, SeedRemembers, SeedFails
<1> QED
  BY <1>1, <1>2 DEF Next, Aside, BatchStep

LEMMA UncoveredShrinks ==
    ASSUME Types, Next
    PROVE  /\ Uncovered' \subseteq Uncovered /\ blockOf' = blockOf
           /\ \A l \in Uncovered : l \in Logs /\ blockOf[l] \in Nat
<1>1. Covered \subseteq Covered' /\ blockOf' = blockOf
  BY Covers
<1>2. \A l \in Logs : blockOf[l] \in Nat
  <2>1. blockOf \in [Logs -> 1..MaxNow]
    BY DEF Types, TypeOK
  <2> QED
    BY ONLY <2>1, Bounds
<1> QED
  BY <1>1, <1>2 DEF Uncovered

(* What a chunk leaves uncovered is above its last block. *)
LEMMA ChunkAbove ==
    ASSUME EvidenceInv, BackfillChunk
    PROVE  \A l \in Uncovered' : blockOf[l] > Upper
<1>0. Types /\ Next /\ RangeCovered
  BY DEF EvidenceInv, CheckpointInv, Next
<1>1. Upper \in 0..now /\ lower \in Nat /\ now \in Nat
  BY <1>0, UpperIs, Bounds DEF BackfillChunk, Types, TypeOK
<1>2. \A l \in Logs \ gone : lower <= blockOf[l] /\ blockOf[l] <= Upper => l \in tried'
  BY <1>0, <1>1, RangeTried DEF BackfillChunk
<1>3. \A l \in Logs : blockOf[l] < lower => l \in Covered
  BY <1>0 DEF RangeCovered, BackfillChunk, Backfilling
<1>4. \A l \in Uncovered' : l \in Uncovered /\ l \in Logs /\ blockOf[l] \in Nat
  BY <1>0, UncoveredShrinks
<1>5. \A l \in Uncovered' : l \notin gone /\ l \notin tried' /\ l \notin Covered
  <2>1. gone \subseteq gone' /\ Covered \subseteq Covered'
    BY <1>0, Covers
  <2> QED
    BY <2>1 DEF Uncovered, Covered
<1> QED
  BY <1>1, <1>2, <1>3, <1>4, <1>5

(* A chunk takes the watermark and the times no further than to its last     *)
(* block, or to a time that its block had before.                           *)
LEMMA ChunkMarks ==
    ASSUME Types, BackfillChunk
    PROVE  /\ Upper \in 0..now /\ Upper <= latest
           /\ \A b \in 1..MaxNow : times'[b] = times[b] \/ times'[b] \in 0..Upper
           /\ \/ watermark' = watermark \/ watermark' \in 0..Upper
              \/ \E b \in 1..MaxNow : watermark' = times[b]
<1>0. /\ now \in Nat /\ now <= MaxNow /\ blockOf \in [Logs -> 1..MaxNow]
      /\ times \in [1..MaxNow -> 0..now \cup {Unset}]
  BY Bounds DEF Types, TypeOK
<1> DEFINE B == Between(lower, Upper)
           stamp == PrimedTimes(ChunkBlocks)
<1>1. B \in SUBSET Deliveries /\ BatchForm(B, stamp, ChunkMark)
  BY ChunkForm
<1>2. Upper \in 0..now /\ Upper <= latest /\ MaxNow \in Nat
  BY UpperIs, Bounds DEF BackfillChunk
<1>3. \A b \in ChunkBlocks : b <= Upper
  <2>1. \A d \in B : blockOf[d.log] <= Upper
    BY DEF Between
  <2> QED
    BY <1>0, <1>2, <2>1 DEF ChunkBlocks, Blocks
<1>4. \A b \in 1..MaxNow : stamp[b] = times[b] \/ stamp[b] \in 0..Upper
  <2>1. ASSUME NEW b \in 1..MaxNow PROVE stamp[b] = times[b] \/ (stamp[b] = b /\ b \in ChunkBlocks)
    BY DEF PrimedTimes
  <2>2. \A b \in 1..MaxNow : b \in ChunkBlocks => b \in 0..Upper
    BY <1>0, <1>2, <1>3
  <2> QED
    BY <2>1, <2>2
<1>5. times' = stamp
  BY <1>1 DEF BatchForm, Processed
<1>6. ChunkMark \in 0..Upper \/ \E b \in 1..MaxNow : ChunkMark = times[b]
  <2>1. CASE Upper = 0
    BY <1>0, <1>2, <2>1 DEF ChunkMark
  <2>2. CASE Upper # 0
    <3>1. Upper \in 1..MaxNow /\ ChunkMark = stamp[Upper]
      BY <1>0, <1>2, <2>2 DEF ChunkMark
    <3> QED
      BY <1>4, <3>1
  <2> QED
    BY <2>1, <2>2
<1>7. \A d \in B : blockOf[d.log] \in 1..MaxNow
  BY <1>0, <1>1 DEF Deliveries
<1>8. \/ watermark' \in {watermark, ChunkMark}
      \/ \E d \in B : KindOf[d.log] = "curve" /\ watermark' = stamp[blockOf[d.log]]
  BY <1>1, BatchMark
<1> HIDE DEF B, stamp
<1> QED
  BY <1>2, <1>4, <1>5, <1>6, <1>7, <1>8

LEMMA StepFirst == EvidenceInv /\ Next => FirstBehind'
<1> SUFFICES ASSUME EvidenceInv, Next, pc' = "first" PROVE FirstBehind'
  BY DEF FirstBehind
<1>0. Types /\ FirstBehind
  BY DEF EvidenceInv, CheckpointInv
<1>1. /\ now \in Nat /\ watermark \in 0..now /\ latest \in 0..now
      /\ times \in [1..MaxNow -> 0..now \cup {Unset}]
  BY <1>0, Bounds DEF Types, TypeOK
<1>2. CASE StartBackfill
  <2>1. latest' = now /\ watermark' = watermark /\ times' = times
    BY <1>2 DEF StartBackfill, batch
  <2>2. \A b \in 1..MaxNow : times[b] <= now
    BY <1>1 DEF Unset
  <2> QED
    BY <1>1, <2>1, <2>2 DEF FirstBehind
<1>3. CASE BackfillChunk
  <2>1. pc = "first" /\ latest' = latest
    BY <1>3 DEF BackfillChunk
  <2>2. watermark <= latest /\ \A b \in 1..MaxNow : times[b] <= latest
    BY <1>0, <2>1 DEF FirstBehind
  <2>3. /\ Upper \in 0..now /\ Upper <= latest
        /\ \A b \in 1..MaxNow : times'[b] = times[b] \/ times'[b] \in 0..Upper
        /\ \/ watermark' = watermark \/ watermark' \in 0..Upper
           \/ \E b \in 1..MaxNow : watermark' = times[b]
    BY <1>0, <1>3, ChunkMarks
  <2>4. \A v \in 0..Upper : v <= latest
    BY <1>1, <2>3
  <2>5. watermark' <= latest /\ \A b \in 1..MaxNow : times'[b] <= latest
    BY <2>2, <2>3, <2>4
  <2> QED
    BY <2>1, <2>5 DEF FirstBehind
<1>4. CASE ~ StartBackfill /\ ~ BackfillChunk
  <2>1. pc = "first" /\ latest' = latest
    BY <1>4 DEF Next, Tick, DaemonStores, Reorganise, SkipBackfill, Returned, Skips,
       BackfillUnsupported, BackfillEnds, Subscribe, LiveBatch, StartPolling, PollReads,
       PollStores, SourceFails, BatchBreaks, Crash, Restart, SeedStores, SeedRemembers,
       SeedFails, source
  <2>2. ~ BatchStep /\ ~ SkipBackfill /\ ~ BackfillUnsupported /\ ~ Crash
    BY <1>4, <2>1 DEF BatchStep, LiveBatch, PollStores, BatchBreaks, SkipBackfill, Connecting,
       BackfillUnsupported, Skips, Returned, Crash
  <2>3. watermark' = watermark /\ times' = times
    BY <2>2, Quiet
  <2> QED
    BY <1>0, <2>1, <2>3 DEF FirstBehind
<1> QED
  BY <1>2, <1>3, <1>4

(* Behind the first backfill of a connection nothing is missing below the    *)
(* watermark, and the second does not take it further than it reads.         *)
LEMMA StepSubscribed == EvidenceInv /\ Next => SubscribedAbove'
<1> SUFFICES ASSUME EvidenceInv, Next, pc' \in {"connect", "ready", "second"}
             PROVE  SubscribedAbove'
  BY DEF SubscribedAbove
<1>0. Types /\ FirstBehind /\ SubscribedAbove /\ RangeCovered
  BY DEF EvidenceInv, CheckpointInv
<1>1. /\ now \in Nat /\ watermark \in 0..now /\ latest \in 0..now /\ lower \in Nat
      /\ times \in [1..MaxNow -> 0..now \cup {Unset}]
  BY <1>0, Bounds DEF Types, TypeOK
<1>2. /\ Uncovered' \subseteq Uncovered /\ blockOf' = blockOf
      /\ \A l \in Uncovered : l \in Logs /\ blockOf[l] \in Nat
  BY <1>0, UncoveredShrinks
<1>3. CASE SkipBackfill \/ BackfillUnsupported
  <2>1. /\ skipped' = skipped \cup (OnChain \ tried) /\ watermark' = Max2(watermark, now)
        /\ times' = times
    BY <1>3 DEF SkipBackfill, BackfillUnsupported, Skips
  <2>2. \A l \in Uncovered' : blockOf[l] > now
    <3>1. OnChain \subseteq Covered'
      <4>1. tried \subseteq tried'
        BY <1>0, Covers
      <4> QED
        BY <2>1, <4>1 DEF Covered
    <3>2. Uncovered' \subseteq Logs \ OnChain
      BY <3>1 DEF Uncovered
    <3> QED
      BY <1>1, <1>2, <3>2 DEF OnChain
  <2>3. watermark' <= now /\ \A b \in 1..MaxNow : times'[b] <= now
    BY <1>1, <2>1 DEF Max2, Unset
  <2>4. watermark' \in Int /\ \A b \in 1..MaxNow : times'[b] \in Int
    BY <1>1, <2>1 DEF Max2, Unset
  <2>5. \A l \in Uncovered' : blockOf[l] > watermark' /\ \A b \in 1..MaxNow : blockOf[l] > times'[b]
    BY <1>1, <1>2, <2>2, <2>3, <2>4
  <2> QED
    BY <1>2, <2>5 DEF SubscribedAbove, Above
<1>4. CASE BackfillEnds
  <2>1. pc = "first" /\ lower > latest
    BY <1>4 DEF BackfillEnds, Returned, Backfilling
  <2>2. watermark' = watermark /\ times' = times
    BY <1>4 DEF BackfillEnds, batch
  <2>3. watermark <= latest /\ \A b \in 1..MaxNow : times[b] <= latest
    BY <1>0, <2>1 DEF FirstBehind
  <2>4. \A l \in Uncovered : ~ (blockOf[l] < lower)
    BY <1>0, <2>1 DEF RangeCovered, Uncovered
  <2>5. \A l \in Uncovered : blockOf[l] > latest
    BY <1>1, <1>2, <2>1, <2>4
  <2>6. \A b \in 1..MaxNow : times[b] \in Int
    BY <1>1 DEF Unset
  <2>7. \A l \in Uncovered : blockOf[l] > watermark /\ \A b \in 1..MaxNow : blockOf[l] > times[b]
    BY <1>1, <1>2, <2>3, <2>5, <2>6
  <2> QED
    BY <1>2, <2>2, <2>7 DEF SubscribedAbove, Above
<1>5. CASE BackfillChunk
  <2>1. pc \in {"connect", "ready", "second"}
    BY <1>5 DEF BackfillChunk
  <2>2. \A l \in Uncovered : blockOf[l] > watermark /\ \A b \in 1..MaxNow : blockOf[l] > times[b]
    BY <1>0, <2>1 DEF SubscribedAbove, Above
  <2>3. /\ Upper \in 0..now
        /\ \A b \in 1..MaxNow : times'[b] = times[b] \/ times'[b] \in 0..Upper
        /\ \/ watermark' = watermark \/ watermark' \in 0..Upper
           \/ \E b \in 1..MaxNow : watermark' = times[b]
    BY <1>0, <1>5, ChunkMarks
  <2>4. \A l \in Uncovered' : blockOf[l] > Upper
    BY <1>5, ChunkAbove
  <2>5. \A l \in Uncovered' : \A v \in 0..Upper : blockOf[l] > v
    BY <1>1, <1>2, <2>3, <2>4
  <2>6. \A l \in Uncovered' : blockOf[l] > watermark' /\ \A b \in 1..MaxNow : blockOf[l] > times'[b]
    BY <1>2, <2>2, <2>3, <2>5
  <2> QED
    BY <1>2, <2>6 DEF SubscribedAbove, Above
<1>6. CASE ~ SkipBackfill /\ ~ BackfillUnsupported /\ ~ BackfillEnds /\ ~ BackfillChunk
  <2>1. pc \in {"connect", "ready", "second"}
    BY <1>6 DEF Next, Tick, DaemonStores, Reorganise, StartBackfill, Opened, Connecting,
       Subscribe, LiveBatch, StartPolling, PollReads, PollStores, SourceFails, BatchBreaks,
       Crash, Restart, SeedStores, SeedRemembers, SeedFails, source
  <2>2. ~ BatchStep /\ ~ Crash
    BY <1>6, <2>1 DEF BatchStep, LiveBatch, PollStores, BatchBreaks, Crash
  <2>3. watermark' = watermark /\ times' = times
    BY <1>6, <2>2, Quiet
  <2> QED
    BY <1>0, <1>2, <2>1, <2>3 DEF SubscribedAbove, Above
<1> QED
  BY <1>3, <1>4, <1>5, <1>6

(* Coverage starts with the polling; a poll leaves out nothing up to its     *)
(* checkpoint that it did not pass over.                                    *)
LEMMA StepPolls == EvidenceInv /\ Next => PollsAbove'
<1> SUFFICES ASSUME EvidenceInv, Next, pc' \in {"poll", "polling"} PROVE PollsAbove'
  BY DEF PollsAbove
<1>0. Types /\ PollsAbove /\ RangeCovered
  BY DEF EvidenceInv, CheckpointInv
<1>1. now \in Nat /\ watermark \in 0..now /\ latest \in 0..now /\ lower \in Nat
  BY <1>0, Bounds DEF Types, TypeOK
<1>2. /\ Uncovered' \subseteq Uncovered /\ blockOf' = blockOf
      /\ \A l \in Uncovered : l \in Logs /\ blockOf[l] \in Nat
  BY <1>0, UncoveredShrinks
<1>3. CASE StartPolling
  BY <1>1, <1>3 DEF StartPolling, batch, PollsAbove
<1>4. CASE PollStores
  <2>1. pc = "polling" /\ checkpoint' = latest
        /\ Processed(Between(lower, latest), LiveTimes(Between(lower, latest)), now)
    BY <1>4 DEF PollStores
  <2>2. \A l \in Logs \ gone : lower <= blockOf[l] /\ blockOf[l] <= latest => l \in tried'
    BY <1>0, <1>1, <2>1, RangeTried
  <2>3. \A l \in Uncovered : ~ (blockOf[l] < lower) /\ l \notin gone
    BY <1>0, <2>1 DEF RangeCovered, Uncovered, Covered
  <2>4. \A l \in Uncovered' : l \notin tried'
    BY DEF Uncovered, Covered
  <2>5. \A l \in Uncovered' : blockOf[l] > latest
    BY <1>1, <1>2, <2>2, <2>3, <2>4
  <2> QED
    BY <1>2, <2>1, <2>5 DEF PollsAbove
<1>5. CASE ~ StartPolling /\ ~ PollStores
  <2>1. /\ pc \in {"poll", "polling"}
        /\ coverage' = coverage /\ checkpoint' = checkpoint
    BY <1>5 DEF Next, Tick, DaemonStores, Reorganise, StartBackfill, SkipBackfill, Opened,
       Returned, Skips, BackfillUnsupported, BackfillEnds, BackfillChunk, Connecting, Backfilling,
       Subscribe, LiveBatch, PollReads, SourceFails, BatchBreaks, Crash, Restart,
       SeedStores, SeedRemembers, SeedFails, place, source
  <2>2. ~ BatchStep /\ ~ SkipBackfill /\ ~ BackfillUnsupported /\ ~ Crash
    BY <1>5, <2>1 DEF BatchStep, BackfillChunk, LiveBatch, BatchBreaks, SkipBackfill, Connecting,
       BackfillUnsupported, Backfilling, Crash
  <2>3. watermark' = watermark
    BY <2>2, Quiet
  <2> QED
    BY <1>0, <1>2, <2>1, <2>3 DEF PollsAbove
<1> QED
  BY <1>3, <1>4, <1>5

(* While live, what was not tried of the coverage is still in the stream. *)
LEMMA StepLive == EvidenceInv /\ Next => LiveReached'
<1> SUFFICES ASSUME EvidenceInv, Next, pc' = "live" PROVE LiveReached'
  BY DEF LiveReached
<1>0. Types /\ LiveReached
  BY DEF EvidenceInv, CheckpointInv
<1>1. now \in Nat /\ \A l \in Logs : blockOf[l] \in Nat
  <2>1. blockOf \in [Logs -> 1..MaxNow] /\ now \in 0..MaxNow
    BY <1>0 DEF Types, TypeOK
  <2> QED
    BY ONLY <2>1, Bounds
<1>2. blockOf' = blockOf /\ tried \subseteq tried' /\ gone \subseteq gone'
  BY <1>0, Covers
<1>3. CASE pc # "live"
  <2>1. SkipBackfill \/ BackfillUnsupported \/ BackfillEnds
    BY <1>3 DEF Next, Tick, DaemonStores, Reorganise, StartBackfill, Opened, BackfillChunk,
       Subscribe, LiveBatch, StartPolling, PollReads, PollStores, SourceFails, BatchBreaks,
       Crash, Restart, SeedStores, SeedRemembers, SeedFails, source
  <2>2. coverage' = now /\ now' = now
    BY <2>1 DEF SkipBackfill, BackfillUnsupported, BackfillEnds, Skips, CoverageStarts, chain
  <2> QED
    BY <1>1, <1>2, <2>2 DEF LiveReached
<1>4. CASE pc = "live"
  <2>1. coverage' = coverage
    BY <1>4 DEF Next, Tick, DaemonStores, Reorganise, StartBackfill, SkipBackfill,
       BackfillUnsupported, BackfillEnds, BackfillChunk, Connecting, Backfilling, Subscribe,
       LiveBatch, StartPolling, PollReads, PollStores, SourceFails, BatchBreaks, Crash, Restart,
       SeedStores, SeedRemembers, SeedFails, place
  <2>2. \A l \in Logs : coverage < blockOf[l] /\ blockOf[l] <= now
                        => l \in tried' \cup gone' \/ Fresh(l) \in queue
    BY <1>0, <1>2, <1>4 DEF LiveReached, Queued
  <2>3. CASE Tick
    <3>1. now' = now + 1 /\ queue' = queue \cup Between(now + 1, now + 1)
      BY <1>4, <2>3 DEF Tick, Subscribed
    <3>2. ASSUME NEW l \in Logs, coverage < blockOf[l], blockOf[l] <= now + 1
          PROVE  l \in tried' \cup gone' \/ Fresh(l) \in queue'
      <4>1. CASE blockOf[l] <= now
        BY <2>2, <3>1, <3>2, <4>1
      <4>2. CASE blockOf[l] = now + 1
        <5>1. l \notin gone => Fresh(l) \in Between(now + 1, now + 1)
          BY <1>1, <4>2 DEF Between, Fresh, Deliveries
        <5> QED
          BY <1>2, <3>1, <5>1
      <4> QED
        BY <1>1, <3>2, <4>1, <4>2
    <3> QED
      BY <1>2, <2>1, <3>1, <3>2 DEF LiveReached, Queued, Fresh
  <2>4. CASE LiveBatch
    <3>1. PICK B \in SUBSET queue : queue' = queue \ B /\ Processed(B, LiveTimes(B), 0)
      BY <2>4 DEF LiveBatch
    <3>2. tried' = tried \cup {d.log : d \in B} /\ now' = now
      BY <2>4, <3>1 DEF Processed, LiveBatch
    <3>3. \A l \in Logs : Fresh(l) \in B => l \in tried'
      BY <3>2 DEF Fresh
    <3>4. \A l \in Logs : coverage < blockOf[l] /\ blockOf[l] <= now
                          => l \in tried' \cup gone' \/ Fresh(l) \in queue'
      BY <2>2, <3>1, <3>3
    <3> QED
      BY <1>2, <2>1, <3>2, <3>4 DEF LiveReached, Queued, Fresh
  <2>5. CASE ~ Tick /\ ~ LiveBatch
    <3>1. now' = now
      BY <2>5, WorldSteps DEF DaemonStores, Reorganise, Still
    <3>2. queue \subseteq queue'
      BY <1>4, <2>5 DEF Next, DaemonStores, Reorganise, StartBackfill, SkipBackfill,
         BackfillUnsupported, BackfillEnds, BackfillChunk, Connecting, Backfilling, Subscribe,
         StartPolling, PollReads, PollStores, SourceFails, BatchBreaks, Crash, Restart,
         SeedStores, SeedRemembers, SeedFails, source
    <3> QED
      BY <1>2, <2>1, <2>2, <3>1, <3>2 DEF LiveReached, Queued, Fresh
  <2> QED
    BY <2>3, <2>4, <2>5
<1> QED
  BY <1>3, <1>4

(***************************************************************************)
(* While the collector says that it is connected, a log between coverage    *)
(* and watermark was tried or is on its way, or was passed over where the   *)
(* coverage does not start anew: for every chain and window, and for polls  *)
(* and deliveries that are late by any time.                                *)
(***************************************************************************)
THEOREM EvidenceIsComplete == Spec => []EvidenceComplete
<1>1. Init => EvidenceInv
  <2> SUFFICES ASSUME Init PROVE EvidenceInv
    OBVIOUS
  <2>1. Types /\ checkpoint = Unset /\ pc = "start"
    BY InitTypes DEF Init
  <2>2. CheckpointSound
    BY <2>1, Bounds DEF CheckpointSound, Unset, Types, TypeOK
  <2> QED
    BY <2>1, <2>2
    DEF EvidenceInv, CheckpointInv, RangeCovered, BehindSecond, LiveCovered, FirstBehind,
        SubscribedAbove, PollsAbove, LiveReached
<1>2. EvidenceInv /\ [Next]_vars => EvidenceInv'
  <2>1. EvidenceInv /\ Next => EvidenceInv'
    BY StepCheckpoint, StepFirst, StepSubscribed, StepPolls, StepLive DEF EvidenceInv
  <2>2. EvidenceInv /\ UNCHANGED vars => EvidenceInv'
    <3> SUFFICES ASSUME EvidenceInv, UNCHANGED vars PROVE EvidenceInv'
      OBVIOUS
    <3>1. CheckpointInv'
      BY StepCheckpoint DEF EvidenceInv
    <3>2. UNCHANGED <<blockOf, gone, tried, skipped, queue, pc, now, watermark, times, latest,
                      coverage, checkpoint>>
      BY DEF vars, chain, place, source, batch
    <3> QED
      BY <3>1, <3>2
      DEF EvidenceInv, Uncovered, Covered, FirstBehind, SubscribedAbove, Above, PollsAbove,
          LiveReached, Queued, Fresh
  <2> QED
    BY <2>1, <2>2
<1> QED
  BY <1>1, <1>2, EvidenceIs, PTL DEF Spec

===============================================================================
