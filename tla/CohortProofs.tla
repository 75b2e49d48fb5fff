----------------------------- MODULE CohortProofs -----------------------------
(***************************************************************************)
(* Theorems about the outcome collector: the horizons of a member are       *)
(* recorded in order, and what is stored is never changed, for every set    *)
(* of events and horizons, every limit of a plan, and any number of         *)
(* crashes.  A plan is a listing of a finite set of rows; the first lemmas  *)
(* are about such listings.                                                 *)
(***************************************************************************)
EXTENDS OutcomeCohort, FiniteSetTheorems, SequenceTheorems, TLAPS

------------------------------------------------------------------------------
Orders(R, S) ==
    /\ \A x, y \in S : <<x, y>> \in R \/ <<y, x>> \in R
    /\ \A x, y \in S : <<x, y>> \in R /\ <<y, x>> \in R => x = y
    /\ \A x, y, z \in S : <<x, y>> \in R /\ <<y, z>> \in R => <<x, z>> \in R

(***************************************************************************)
(* In a finite set under a total order R the rank of a row, the number of   *)
(* rows up to it, takes each of the values 1..Cardinality(S) exactly once   *)
(* and grows with the order: the rank is injective, and an injection of a   *)
(* finite set into one of the same size leaves nothing out.                 *)
(***************************************************************************)
LEMMA RanksAreFilled ==
    ASSUME NEW S, IsFiniteSet(S), NEW R, Orders(R, S), NEW rank,
           rank = [x \in S |-> Cardinality({q \in S : <<q, x>> \in R})]
    PROVE  /\ rank \in [S -> 1..Cardinality(S)]
           /\ \A x, y \in S : <<x, y>> \in R => rank[x] <= rank[y]
           /\ \A x, y \in S : rank[x] = rank[y] => x = y
           /\ \A i \in 1..Cardinality(S) : \E x \in S : rank[x] = i
<1> DEFINE Upto(x) == {q \in S : <<q, x>> \in R}
<1> DEFINE n == Cardinality(S)
<1>1. n \in Nat
  BY FS_CardinalityType
<1>2. \A x \in S : Upto(x) \in SUBSET S /\ x \in Upto(x)
  BY DEF Orders
<1>3. \A x \in S : rank[x] = Cardinality(Upto(x))
  OBVIOUS
<1>4. \A x \in S : IsFiniteSet(Upto(x)) /\ rank[x] \in 1..n
  <2> TAKE x \in S
  <2>1. IsFiniteSet(Upto(x)) /\ Cardinality(Upto(x)) <= n
    BY <1>2, FS_Subset
  <2>2. Cardinality(Upto(x)) \in Nat
    BY <2>1, FS_CardinalityType
  <2>3. Cardinality(Upto(x)) # 0
    BY <1>2, <2>1, FS_EmptySet
  <2> HIDE DEF Upto, n
  <2> QED
    BY <1>1, <1>3, <2>1, <2>2, <2>3
<1>5. ASSUME NEW x \in S, NEW y \in S, <<x, y>> \in R
      PROVE  Upto(x) \in SUBSET Upto(y)
  BY <1>5 DEF Orders
<1>6. \A x, y \in S : <<x, y>> \in R => rank[x] <= rank[y]
  <2> TAKE x, y \in S
  <2> HAVE <<x, y>> \in R
  <2>1. Upto(x) \in SUBSET Upto(y)
    BY <1>5
  <2> HIDE DEF Upto
  <2> QED
    BY <1>3, <1>4, <2>1, FS_Subset
<1>7. ASSUME NEW x \in S, NEW y \in S, rank[x] = rank[y], <<x, y>> \in R
      PROVE  x = y
  <2>1. Upto(x) \in SUBSET Upto(y)
    BY <1>5, <1>7
  <2>2. Upto(x) = Upto(y)
    <3> HIDE DEF Upto
    <3> QED
      BY <1>3, <1>4, <1>7, <2>1, FS_Subset
  <2>3. y \in Upto(x)
    BY <1>2, <2>2
  <2>4. <<y, x>> \in R
    BY <2>3
  <2> QED
    BY <1>7, <2>4 DEF Orders
<1>8. \A x, y \in S : rank[x] = rank[y] => x = y
  <2> TAKE x, y \in S
  <2> HAVE rank[x] = rank[y]
  <2>1. <<x, y>> \in R \/ <<y, x>> \in R
    BY DEF Orders
  <2> QED
    BY <1>7, <2>1
<1>9. rank \in [S -> 1..n]
  <2> HIDE DEF n, Upto
  <2> QED
    BY <1>4
<1>10. \A i \in 1..n : \E x \in S : rank[x] = i
  <2>1. IsFiniteSet(1..n) /\ Cardinality(1..n) = n
    <3> HIDE DEF n
    <3>1. /\ IsFiniteSet(1..n)
          /\ Cardinality(1..n) = IF 1 <= n THEN n - 1 + 1 ELSE 0
      BY <1>1, FS_Interval
    <3> QED
      BY <1>1, <3>1
  <2>2. rank \in Injection(S, 1..n)
    <3> HIDE DEF n, Upto
    <3> QED
      BY <1>8, <1>9 DEF Injection, IsInjective
  <2>3. rank \in Surjection(S, 1..n)
    BY <2>1, <2>2, FS_Injection
  <2> HIDE DEF n
  <2> QED
    BY <2>3 DEF Surjection
<1> QED
  BY <1>6, <1>8, <1>9, <1>10

(***************************************************************************)
(* A listing of S by rank and the plan cut from it: the rows planned are     *)
(* those of the lowest ranks, each at the place its rank says.               *)
(***************************************************************************)
LEMMA PlanIsInitial ==
    ASSUME NEW S, IsFiniteSet(S), NEW s, NEW limit \in Nat,
           NEW rank \in [S -> 1..Cardinality(S)],
           \A x, y \in S : rank[x] = rank[y] => x = y,
           s \in [1..Cardinality(S) -> S],
           \A i \in 1..Cardinality(S) : rank[s[i]] = i
    PROVE  /\ Plan(s, limit) \in Seq(S)
           /\ Len(Plan(s, limit)) <= limit
           /\ \A i \in 1..Len(Plan(s, limit)) : rank[Plan(s, limit)[i]] = i
           /\ \A x \in S : rank[x] \in 1..Len(Plan(s, limit))
                               => Plan(s, limit)[rank[x]] = x
<1> DEFINE n == Cardinality(S)
           p == Plan(s, limit)
<1>1. n \in Nat
  BY FS_CardinalityType
<1>2. rank \in [S -> 1..n] /\ s \in [1..n -> S] /\ \A i \in 1..n : rank[s[i]] = i
  OBVIOUS
<1>3. s \in Seq(S) /\ Len(s) = n
  <2> HIDE DEF n
  <2> QED
    BY <1>1, <1>2
<1> DEFINE m == IF Len(s) < limit THEN Len(s) ELSE limit
<1> HIDE DEF n
<1>4. m \in 0..n /\ m <= limit
  BY <1>1, <1>3
<1>5. p = SubSeq(s, 1, m)
  BY DEF Plan
<1> HIDE DEF m, p
<1>6. \A i \in 1..m : i \in 1..n /\ s[i] \in S
  <2> TAKE i \in 1..m
  <2>1. i \in 1..n
    BY ONLY <1>1, <1>4, i \in 1..m
  <2> QED
    BY ONLY <1>2, <2>1
<1>7. p \in Seq(S) /\ Len(p) = m /\ \A i \in 1..m : p[i] = s[i]
  <2>1. /\ SubSeq(s, 1, m) \in Seq(S)
        /\ Len(SubSeq(s, 1, m)) = IF 1 <= m THEN m - 1 + 1 ELSE 0
        /\ \A i \in 1..(m - 1 + 1) : SubSeq(s, 1, m)[i] = s[1 + i - 1]
    BY <1>1, <1>4, <1>6, SubSeqProperties
  <2> QED
    BY <1>1, <1>4, <1>5, <2>1
<1>8. \A i \in 1..m : p[i] \in S /\ rank[p[i]] = i
  BY <1>2, <1>6, <1>7
<1>9. \A x \in S : rank[x] \in 1..m => p[rank[x]] = x
  BY <1>8
<1>10. /\ p \in Seq(S) /\ Len(p) <= limit
       /\ \A i \in 1..Len(p) : rank[p[i]] = i
       /\ \A x \in S : rank[x] \in 1..Len(p) => p[rank[x]] = x
  BY <1>4, <1>7, <1>8, <1>9
<1> QED
  BY <1>10 DEF p

------------------------------------------------------------------------------
(***************************************************************************)
(* What due_horizons lists: rows of members whose horizon is reached and    *)
(* not recorded, one for each, sorted by DueFirst.                          *)
(***************************************************************************)
DueRow    == [event : Events, horizon : Horizons, expired : BOOLEAN]
Candidate == [event : Events, stratum : Strata]
Decision  == [event : Events, at : Nat, strong : BOOLEAN]

LEMMA DueRowsAre ==
    /\ \A x \in DueRows : /\ x \in DueRow
                          /\ x.event \in Events /\ x.horizon \in Horizons
                          /\ Due(x.event, x.horizon)
    /\ \A x, y \in DueRows : x.event = y.event /\ x.horizon = y.horizon => x = y
    /\ \A e \in Events, h \in Horizons :
          Due(e, h) => \E x \in DueRows : x.event = e /\ x.horizon = h
    /\ IsFiniteSet(DueRows)
<1> DEFINE Q == {q \in Events \X Horizons : Due(q[1], q[2])}
           Row(q) == [event |-> q[1], horizon |-> q[2], expired |-> TooLate(q[1], q[2])]
           row == [q \in Q |-> Row(q)]
<1>1. DueRows = {Row(q) : q \in Q}
  BY DEF DueRows
<1>2. \A q \in Q : /\ q[1] \in Events /\ q[2] \in Horizons
                   /\ q = <<q[1], q[2]>> /\ Due(q[1], q[2])
  OBVIOUS
<1>3. \A q : Row(q).event = q[1] /\ Row(q).horizon = q[2]
  OBVIOUS
<1>4. \A q \in Q : Row(q) \in DueRow
  <2> TAKE q \in Q
  <2>1. TooLate(q[1], q[2]) \in BOOLEAN
    BY DEF TooLate
  <2> DEFINE late == TooLate(q[1], q[2])
  <2> HIDE DEF Q, late
  <2> QED
    BY <1>2, <2>1 DEF DueRow, late
<1>5. IsFiniteSet(Q)
  BY CohortAssumption, FS_Product, FS_Subset DEF CohortAssumption
<1>6. IsFiniteSet(DueRows)
  <2>1. row \in Surjection(Q, DueRows)
    <3> HIDE DEF Q, Row
    <3> QED
      BY <1>1 DEF Surjection
  <2> QED
    BY <1>5, <2>1, FS_Surjection
<1>7. \A x \in DueRows : \E q \in Q : x = Row(q)
  BY <1>1
<1>8. \A x \in DueRows : /\ x \in DueRow
                         /\ x.event \in Events /\ x.horizon \in Horizons
                         /\ Due(x.event, x.horizon)
  <2> HIDE DEF Q, Row
  <2> QED
    BY <1>2, <1>3, <1>4, <1>7
<1>9. \A x, y \in DueRows : x.event = y.event /\ x.horizon = y.horizon => x = y
  <2> TAKE x, y \in DueRows
  <2> HAVE x.event = y.event /\ x.horizon = y.horizon
  <2> HIDE DEF Q, Row
  <2>1. PICK q \in Q : x = Row(q)
    BY <1>7
  <2>2. PICK r \in Q : y = Row(r)
    BY <1>7
  <2>3. q[1] = r[1] /\ q[2] = r[2]
    BY <1>3, <2>1, <2>2
  <2>4. q = r
    BY <1>2, <2>3
  <2> QED
    BY <2>1, <2>2, <2>4
<1>10. ASSUME NEW e \in Events, NEW h \in Horizons, Due(e, h)
       PROVE  \E x \in DueRows : x.event = e /\ x.horizon = h
  <2>1. <<e, h>> \in Q
    BY <1>10
  <2>2. Row(<<e, h>>) \in DueRows
    BY <1>1, <2>1
  <2>3. Row(<<e, h>>).event = e /\ Row(<<e, h>>).horizon = h
    BY <1>3
  <2> QED
    BY <2>2, <2>3
<1> QED
  BY <1>6, <1>8, <1>9, <1>10

(***************************************************************************)
(* DueFirst is a total order of the due rows: by baseline, then event, then *)
(* horizon, and an event has one baseline.                                  *)
(***************************************************************************)
LEMMA DueFirstOrders ==
    ASSUME \A e \in Events : cohort[e].base \in Int
    PROVE  Orders({q \in DueRows \X DueRows : DueFirst(q[1], q[2])}, DueRows)
<1> DEFINE R == {q \in DueRows \X DueRows : DueFirst(q[1], q[2])}
           base(x) == cohort[x.event].base
<1>1. \A x \in DueRows : /\ base(x) \in Int
                         /\ x.event \in Nat /\ x.horizon \in Nat
  BY DueRowsAre, CohortAssumption DEF CohortAssumption
<1>2. \A x, y \in DueRows : <<x, y>> \in R <=> DueFirst(x, y)
  OBVIOUS
<1>3. \A x, y \in DueRows :
         DueFirst(x, y) <=>
                           \/ base(x) < base(y)
                           \/ base(x) = base(y) /\ x.event < y.event
                           \/ x.event = y.event /\ x.horizon <= y.horizon
  BY DEF DueFirst
<1>4. \A x, y \in DueRows : x.event = y.event => base(x) = base(y)
  OBVIOUS
<1>5. \A x, y \in DueRows : x.event = y.event /\ x.horizon = y.horizon => x = y
  BY DueRowsAre
<1> HIDE DEF R, base
<1>6. \A x, y \in DueRows : DueFirst(x, y) \/ DueFirst(y, x)
  <2> TAKE x, y \in DueRows
  <2>1. base(x) \in Int /\ base(y) \in Int
    BY <1>1
  <2>2. /\ x.event \in Nat /\ x.horizon \in Nat
        /\ y.event \in Nat /\ y.horizon \in Nat
    BY <1>1
  <2> QED
    BY <1>3, <1>4, <2>1, <2>2
<1>7. \A x, y \in DueRows : DueFirst(x, y) /\ DueFirst(y, x) => x = y
  BY <1>1, <1>3, <1>4, <1>5
<1>8. \A x, y, z \in DueRows : DueFirst(x, y) /\ DueFirst(y, z) => DueFirst(x, z)
  BY <1>1, <1>3, <1>4
<1>9. Orders(R, DueRows)
  BY <1>2, <1>6, <1>7, <1>8 DEF Orders
<1> QED
  BY <1>9 DEF R

(***************************************************************************)
(* So the plan of a measuring half cycle has every due horizon at most once, *)
(* and a shorter due horizon of the same event before a longer one.         *)
(***************************************************************************)
LEMMA DuePlan ==
    ASSUME \A e \in Events : cohort[e].base \in Int
    PROVE  /\ DueHorizons \in Seq(DueRows) /\ Len(DueHorizons) <= MeasureLimit
           /\ \A i, j \in 1..Len(DueHorizons) :
                 DueHorizons[i] = DueHorizons[j] => i = j
           /\ \A i \in 1..Len(DueHorizons), x \in DueRows :
                 DueFirst(x, DueHorizons[i]) => \E j \in 1..i : DueHorizons[j] = x
<1> DEFINE R == {q \in DueRows \X DueRows : DueFirst(q[1], q[2])}
           n == Cardinality(DueRows)
           s == ByBaseline(DueRows)
           Upto(x) == {q \in DueRows : DueFirst(q, x)}
           rank == [x \in DueRows |-> Cardinality({q \in DueRows : <<q, x>> \in R})]
<1>1. Orders(R, DueRows) /\ IsFiniteSet(DueRows)
  BY DueFirstOrders, DueRowsAre
<1>2. \A x \in DueRows : {q \in DueRows : <<q, x>> \in R} = Upto(x)
  OBVIOUS
<1>3. /\ rank \in [DueRows -> 1..n]
      /\ \A x, y \in DueRows : <<x, y>> \in R => rank[x] <= rank[y]
      /\ \A x, y \in DueRows : rank[x] = rank[y] => x = y
      /\ \A i \in 1..n : \E x \in DueRows : rank[x] = i
  <2>1. rank = [x \in DueRows |-> Cardinality({q \in DueRows : <<q, x>> \in R})]
    OBVIOUS
  <2> HIDE DEF R, n, rank
  <2> QED
    BY <1>1, <2>1, RanksAreFilled DEF n
<1>4. \A i \in 1..n : \E x \in DueRows : Cardinality(Upto(x)) = i
  <2>1. \A x \in DueRows : rank[x] = Cardinality(Upto(x))
    BY <1>2
  <2> HIDE DEF R, n, rank, Upto
  <2> QED
    BY <1>3, <2>1
<1>5. s = [i \in 1..n |-> CHOOSE x \in DueRows : Cardinality(Upto(x)) = i]
  BY DEF ByBaseline
<1>6. s \in [1..n -> DueRows] /\ \A i \in 1..n : Cardinality(Upto(s[i])) = i
  <2> HIDE DEF n, s, Upto
  <2> QED
    BY <1>4, <1>5
<1>7. \A i \in 1..n : rank[s[i]] = i
  <2>1. \A x \in DueRows : rank[x] = Cardinality(Upto(x))
    BY <1>2
  <2> HIDE DEF n, s, Upto, rank
  <2> QED
    BY <1>6, <2>1
<1>8. DueHorizons = Plan(s, MeasureLimit)
  BY DEF DueHorizons
<1>9. MeasureLimit \in Nat
  BY CohortAssumption DEF CohortAssumption
<1>10. \A x, y \in DueRows : <<x, y>> \in R <=> DueFirst(x, y)
  OBVIOUS
<1> HIDE DEF R, s, rank, Upto
<1>11. /\ DueHorizons \in Seq(DueRows) /\ Len(DueHorizons) <= MeasureLimit
       /\ \A i \in 1..Len(DueHorizons) : rank[DueHorizons[i]] = i
       /\ \A x \in DueRows : rank[x] \in 1..Len(DueHorizons)
                                => DueHorizons[rank[x]] = x
  <2>1. /\ rank \in [DueRows -> 1..Cardinality(DueRows)]
        /\ \A x, y \in DueRows : rank[x] = rank[y] => x = y
        /\ s \in [1..Cardinality(DueRows) -> DueRows]
        /\ \A i \in 1..Cardinality(DueRows) : rank[s[i]] = i
    BY <1>3, <1>6, <1>7
  <2>2. IsFiniteSet(DueRows)
    BY <1>1
  <2>3. /\ Plan(s, MeasureLimit) \in Seq(DueRows)
        /\ Len(Plan(s, MeasureLimit)) <= MeasureLimit
        /\ \A i \in 1..Len(Plan(s, MeasureLimit)) : rank[Plan(s, MeasureLimit)[i]] = i
        /\ \A x \in DueRows : rank[x] \in 1..Len(Plan(s, MeasureLimit))
                                => Plan(s, MeasureLimit)[rank[x]] = x
    BY ONLY <1>9, <2>1, <2>2, PlanIsInitial
  <2> QED
    BY ONLY <1>8, <2>3
<1>12. \A i \in 1..Len(DueHorizons) : DueHorizons[i] \in DueRows
  BY <1>11, ElementOfSeq
<1>13. ASSUME NEW i \in 1..Len(DueHorizons), NEW x \in DueRows,
              DueFirst(x, DueHorizons[i])
       PROVE  \E j \in 1..i : DueHorizons[j] = x
  <2>1. rank[x] <= i
    <3>1. <<x, DueHorizons[i]>> \in R
      BY <1>10, <1>12, <1>13
    <3>2. rank[x] <= rank[DueHorizons[i]]
      BY <1>3, <1>12, <3>1
    <3> QED
      BY ONLY <1>11, <3>2, i \in 1..Len(DueHorizons)
  <2>2. rank[x] \in Nat \ {0} /\ Len(DueHorizons) \in Nat
    <3>1. rank[x] \in 1..n
      BY ONLY <1>3, x \in DueRows
    <3> QED
      BY <1>11, <3>1
  <2>3. rank[x] \in 1..i /\ rank[x] \in 1..Len(DueHorizons)
    BY <2>1, <2>2
  <2> QED
    BY <1>11, <2>3
<1> QED
  BY <1>11, <1>13

------------------------------------------------------------------------------
(***************************************************************************)
(* The inductive invariant.  A decision is known by its event and instant,  *)
(* so that a listing by time has no ties; an outcome by its event and       *)
(* horizon.  And what a plan still holds: nothing that is recorded, nothing *)
(* twice, and a horizon only if each shorter one of the event is recorded   *)
(* or comes before it in the plan.                                          *)
(***************************************************************************)
Same(o, p) == o.event = p.event /\ o.horizon = p.horizon

DecisionsOnce ==
    /\ IsFiniteSet(decisions)
    /\ \A c, d \in decisions : c.event = d.event /\ c.at = d.at => c = d

OutcomesOnce == \A o, p \in outcomes : Same(o, p) => o = p

PlanInOrder ==
    pc = "measure" =>
        /\ \A i \in 1..Len(todo), o \in outcomes : ~ Same(o, todo[i])
        /\ \A i, j \in 1..Len(todo) : Same(todo[i], todo[j]) => i = j
        /\ \A i \in 1..Len(todo), h \in Horizons :
              h < todo[i].horizon =>
                  \/ \E o \in outcomes : o.event = todo[i].event /\ o.horizon = h
                  \/ \E j \in 1..i : todo[j].event = todo[i].event /\ todo[j].horizon = h

IInv == TypeOK /\ DecisionsOnce /\ OutcomesOnce /\ HorizonsInOrder /\ PlanInOrder

(***************************************************************************)
(* The plan of an enrolling half cycle: Earlier is a total order of the     *)
(* decisions, so the listing is one, and its rows have a stratum.           *)
(***************************************************************************)
LEMMA StratumIs == \A d : Stratum(d) \in Strata
  BY DEF Stratum, Strata

LEMMA EarlierOrders ==
    ASSUME TypeOK, DecisionsOnce, NEW W \in SUBSET decisions
    PROVE  Orders({q \in W \X W : Earlier(q[1], q[2])}, W)
<1> DEFINE R == {q \in W \X W : Earlier(q[1], q[2])}
<1>1. \A x \in W : x.at \in Nat /\ x.event \in Nat
  BY CohortAssumption DEF TypeOK, CohortAssumption
<1>2. \A x, y \in W : <<x, y>> \in R <=> Earlier(x, y)
  OBVIOUS
<1>3. \A x, y \in W : x.event = y.event /\ x.at = y.at => x = y
  BY DEF DecisionsOnce
<1> HIDE DEF R
<1>4. \A x, y \in W : Earlier(x, y) \/ Earlier(y, x)
  BY <1>1 DEF Earlier
<1>5. \A x, y \in W : Earlier(x, y) /\ Earlier(y, x) => x = y
  BY <1>1, <1>3 DEF Earlier
<1>6. \A x, y, z \in W : Earlier(x, y) /\ Earlier(y, z) => Earlier(x, z)
  BY <1>1 DEF Earlier
<1>7. Orders(R, W)
  BY <1>2, <1>4, <1>5, <1>6 DEF Orders
<1> QED
  BY <1>7 DEF R

LEMMA CandidatePlan ==
    ASSUME TypeOK, DecisionsOnce, NEW from
    PROVE  Candidates(from) \in Seq(Candidate) /\ Len(Candidates(from)) <= EnrollLimit
<1> DEFINE W == Wanted(from)
           R == {q \in W \X W : Earlier(q[1], q[2])}
           n == Cardinality(W)
           s == ByTime(W)
           Upto(x) == {q \in W : Earlier(q, x)}
           rank == [x \in W |-> Cardinality({q \in W : <<q, x>> \in R})]
           rows == Plan(s, EnrollLimit)
<1>1. W \in SUBSET decisions
  BY DEF Wanted
<1>2. Orders(R, W)
  <2> HIDE DEF W
  <2> QED
    BY <1>1, EarlierOrders
<1>3. IsFiniteSet(W)
  BY <1>1, FS_Subset DEF DecisionsOnce
<1> HIDE DEF W
<1>4. \A x \in W : {q \in W : <<q, x>> \in R} = Upto(x)
  OBVIOUS
<1>5. /\ rank \in [W -> 1..n]
      /\ \A x, y \in W : rank[x] = rank[y] => x = y
      /\ \A i \in 1..n : \E x \in W : rank[x] = i
  <2>1. rank = [x \in W |-> Cardinality({q \in W : <<q, x>> \in R})]
    OBVIOUS
  <2> HIDE DEF R, n, rank
  <2> QED
    BY <1>2, <1>3, <2>1, RanksAreFilled DEF n
<1>6. \A x \in W : rank[x] = Cardinality(Upto(x))
  BY <1>4
<1>7. s = [i \in 1..n |-> CHOOSE x \in W : Cardinality(Upto(x)) = i]
  BY DEF ByTime
<1> HIDE DEF R, n, s, Upto, rank
<1>8. s \in [1..n -> W] /\ \A i \in 1..n : rank[s[i]] = i
  BY <1>5, <1>6, <1>7
<1>9. EnrollLimit \in Nat
  BY CohortAssumption DEF CohortAssumption
<1>10. rows \in Seq(W) /\ Len(rows) <= EnrollLimit
  <2>1. /\ rank \in [W -> 1..Cardinality(W)]
        /\ \A x, y \in W : rank[x] = rank[y] => x = y
        /\ s \in [1..Cardinality(W) -> W]
        /\ \A i \in 1..Cardinality(W) : rank[s[i]] = i
    BY <1>5, <1>8 DEF n
  <2> HIDE DEF rows
  <2>2. /\ Plan(s, EnrollLimit) \in Seq(W)
        /\ Len(Plan(s, EnrollLimit)) <= EnrollLimit
        /\ \A i \in 1..Len(Plan(s, EnrollLimit)) : rank[Plan(s, EnrollLimit)[i]] = i
        /\ \A x \in W : rank[x] \in 1..Len(Plan(s, EnrollLimit))
                          => Plan(s, EnrollLimit)[rank[x]] = x
    BY ONLY <1>3, <1>9, <2>1, PlanIsInitial
  <2> QED
    BY <2>2 DEF rows
<1>11. Candidates(from) = [i \in 1..Len(rows) |->
                            [event |-> rows[i].event, stratum |-> Stratum(rows[i])]]
  BY DEF Candidates, s, W
<1> HIDE DEF rows
<1>12. \A i \in 1..Len(rows) : rows[i] \in W
  BY <1>10, ElementOfSeq
<1>13. \A x \in W : x.event \in Events
  BY <1>1 DEF TypeOK
<1>14. \A i \in 1..Len(rows) :
          [event |-> rows[i].event, stratum |-> Stratum(rows[i])] \in Candidate
  BY <1>12, <1>13, StratumIs DEF Candidate
<1>15. Len(rows) \in Nat
  BY <1>10
<1>16. Candidates(from) \in [1..Len(rows) -> Candidate]
  BY <1>11, <1>14
<1>17. Candidates(from) \in Seq(Candidate) /\ Len(Candidates(from)) = Len(rows)
  BY ONLY <1>15, <1>16
<1> QED
  BY <1>10, <1>17

------------------------------------------------------------------------------
LEMMA PlanTypes ==
    ASSUME TypeOK
    PROVE  /\ pc = "enroll" => todo \in Seq(Candidate)
           /\ pc = "measure" => todo \in Seq(DueRow)
           /\ \A e \in Events : cohort[e].base \in Int
<1>1. pc = "enroll" => todo \in Seq(Candidate)
  BY DEF TypeOK, Candidate
<1>2. pc = "measure" => todo \in Seq(DueRow)
  BY DEF TypeOK, DueRow
<1>3. \A e \in Events : cohort[e].base \in Int
  BY DEF TypeOK, NotMember, NotYet
<1> QED
  BY <1>1, <1>2, <1>3

LEMMA TypeKept ==
    ASSUME TypeOK, DecisionsOnce, [Next]_vars
    PROVE  TypeOK'
<1> USE DEF kept, written, memory
<1>1. ASSUME NEW e \in Events, DecideInitial(e)
      PROVE  TypeOK'
  <2>1. [event |-> e, at |-> now, strong |-> FALSE]
           \in [event : Events, at : Nat, strong : BOOLEAN]
    BY DEF TypeOK
  <2> QED
    BY <1>1, <2>1 DEF TypeOK, DecideInitial
<1>2. ASSUME NEW e \in Events, Gate(e)
      PROVE  TypeOK'
  BY <1>2 DEF TypeOK, Gate
<1>3. ASSUME NEW e \in Events, NEW strong \in BOOLEAN, DecideFinal(e, strong)
      PROVE  TypeOK'
  <2>1. now \in Nat
    BY DEF TypeOK
  <2>2. [event |-> e, at |-> now, strong |-> strong]
           \in [event : Events, at : Nat, strong : BOOLEAN]
    BY ONLY <2>1, e \in Events, strong \in BOOLEAN
  <2> DEFINE d == [event |-> e, at |-> now, strong |-> strong]
  <2>3. decisions' = decisions \cup {d}
    BY <1>3 DEF DecideFinal
  <2>4. d \in [event : Events, at : Nat, strong : BOOLEAN]
    BY <2>2
  <2> HIDE DEF d
  <2>5. decisions' \subseteq [event : Events, at : Nat, strong : BOOLEAN]
    BY <2>3, <2>4 DEF TypeOK
  <2>6. UNCHANGED <<gate, kept, memory, now, crashes>>
    BY <1>3 DEF DecideFinal
  <2> QED
    BY <2>5, <2>6 DEF TypeOK
<1>4. CASE StartEnroll
  <2>1. todo' \in Seq(Candidate) /\ Len(todo') <= EnrollLimit
    BY <1>4, CandidatePlan DEF StartEnroll
  <2>2. todo' \in Seq([event : Events, stratum : Strata])
    BY ONLY <2>1 DEF Candidate
  <2> QED
    BY <1>4, <2>1, <2>2 DEF TypeOK, StartEnroll
<1>5. CASE EnrollNext
  <2>1. todo \in Seq(Candidate) /\ todo # << >> /\ Len(todo) <= EnrollLimit
    BY <1>5 DEF TypeOK, EnrollNext, Candidate
  <2>2. /\ Head(todo) \in Candidate
        /\ Tail(todo) \in Seq(Candidate)
        /\ Len(Tail(todo)) <= EnrollLimit
    BY <2>1, HeadTailProperties, CohortAssumption DEF CohortAssumption
  <2>3. cohort' \in [Events -> [stratum : Strata, base : Nat] \cup {NotMember}]
    BY <1>5, <2>2 DEF TypeOK, EnrollNext, Enrolled, Candidate
  <2>4. Tail(todo) \in Seq([event : Events, stratum : Strata])
    BY ONLY <2>2 DEF Candidate
  <2> QED
    BY <1>5, <2>2, <2>3, <2>4 DEF TypeOK, EnrollNext
<1>6. CASE EndEnroll
  <2>1. /\ todo' \in Seq(DueRows) /\ Len(todo') <= MeasureLimit
    BY <1>6, PlanTypes, DuePlan DEF EndEnroll
  <2>2. DueRows \subseteq DueRow
    BY DueRowsAre
  <2>3. todo' \in Seq(DueRow)
    BY ONLY <2>1, <2>2, SeqMonotonic
  <2>4. todo' \in Seq([event : Events, horizon : Horizons, expired : BOOLEAN])
    BY ONLY <2>3 DEF DueRow
  <2> QED
    BY <1>6, <2>1, <2>4 DEF TypeOK, EndEnroll
<1>7. CASE MeasureNext
  <2>1. todo \in Seq(DueRow) /\ todo # << >> /\ Len(todo) <= MeasureLimit
    BY <1>7 DEF TypeOK, MeasureNext, DueRow
  <2>2. /\ Head(todo) \in DueRow
        /\ Tail(todo) \in Seq(DueRow)
        /\ Len(Tail(todo)) <= MeasureLimit
    BY <2>1, HeadTailProperties, CohortAssumption DEF CohortAssumption
  <2>3. \E label \in Labels : Store(Head(todo), label)
    BY <1>7 DEF MeasureNext, Labels
  <2>4. Head(todo).event \in Events /\ Head(todo).horizon \in Horizons
    BY <2>2 DEF DueRow
  <2>5. outcomes' \subseteq [event : Events, horizon : Horizons, label : Labels]
    BY <2>3, <2>4 DEF TypeOK, Store
  <2>6. Tail(todo) \in Seq([event : Events, horizon : Horizons, expired : BOOLEAN])
    BY ONLY <2>2 DEF DueRow
  <2>7. pc = "measure" /\ todo' = Tail(todo)
    BY <1>7, <2>3 DEF MeasureNext, Store
  <2>8. UNCHANGED <<written, cohort, pc, began, floor, now, crashes>>
    BY <2>3 DEF Store
  <2> QED
    BY <2>2, <2>5, <2>6, <2>7, <2>8 DEF TypeOK
<1>8. CASE EndMeasure
  BY <1>8 DEF TypeOK, EndMeasure
<1>9. CASE Tick
  <2>1. now' \in Nat /\ began' \in 0..now' /\ floor' \in 0..now' \cup {NotYet}
    BY <1>9 DEF TypeOK, Tick
  <2> QED
    BY <1>9, <2>1 DEF TypeOK, Tick
<1>10. CASE Crash
  <2>1. crashes' \in 0..MaxCrashes
    <3>1. MaxCrashes \in Nat
      BY CohortAssumption DEF CohortAssumption
    <3>2. crashes \in 0..MaxCrashes
      BY DEF TypeOK
    <3>3. crashes < MaxCrashes /\ crashes' = crashes + 1
      BY <1>10 DEF Crash
    <3> QED
      BY ONLY <3>1, <3>2, <3>3
  <2>2. began' \in 0..now /\ now \in Nat
    BY <1>10 DEF TypeOK, Crash
  <2> QED
    BY <1>10, <2>1, <2>2 DEF TypeOK, Crash
<1>11. CASE Restart
  BY <1>11 DEF TypeOK, Restart
<1>12. CASE UNCHANGED vars
  BY <1>12 DEF TypeOK, vars
<1> QED
  BY <1>1, <1>2, <1>3, <1>4, <1>5, <1>6, <1>7, <1>8, <1>9, <1>10, <1>11, <1>12
     DEF Next

(***************************************************************************)
(* The daemon decides an event again only at a later instant.               *)
(***************************************************************************)
LEMMA DecisionsKept ==
    ASSUME TypeOK, DecisionsOnce, [Next]_vars
    PROVE  DecisionsOnce'
<1>1. ASSUME NEW e \in Events, NEW strong \in BOOLEAN,
             decisions' = decisions \cup {[event |-> e, at |-> now, strong |-> strong]},
             \A d \in decisions : d.event = e => d.at # now
      PROVE  DecisionsOnce'
  <2> DEFINE d == [event |-> e, at |-> now, strong |-> strong]
  <2>1. d.event = e /\ d.at = now
    OBVIOUS
  <2>2. decisions' = decisions \cup {d}
    BY <1>1
  <2> HIDE DEF d
  <2>3. IsFiniteSet(decisions')
    BY <2>2, FS_AddElement DEF DecisionsOnce
  <2> QED
    BY <1>1, <2>1, <2>2, <2>3 DEF DecisionsOnce
<1>2. ASSUME NEW e \in Events, DecideInitial(e)
      PROVE  DecisionsOnce'
  <2>1. decisions' = decisions \cup {[event |-> e, at |-> now, strong |-> FALSE]}
    BY <1>2 DEF DecideInitial
  <2>2. \A d \in decisions : d.event = e => d.at # now
    BY <1>2 DEF DecideInitial, Decided
  <2> QED
    BY <1>1, <2>1, <2>2
<1>3. ASSUME NEW e \in Events, NEW strong \in BOOLEAN, DecideFinal(e, strong)
      PROVE  DecisionsOnce'
  <2>1. decisions' = decisions \cup {[event |-> e, at |-> now, strong |-> strong]}
    BY <1>3 DEF DecideFinal
  <2>2. \A d \in decisions : d.event = e => d.at # now
    <3> TAKE d \in decisions
    <3> HAVE d.event = e
    <3>1. d.at < now
      BY <1>3 DEF DecideFinal
    <3>2. d.at \in Nat /\ now \in Nat
      BY DEF TypeOK
    <3> QED
      BY <3>1, <3>2
  <2> QED
    BY <1>1, <2>1, <2>2
<1>4. ASSUME UNCHANGED decisions
      PROVE  DecisionsOnce'
  BY <1>4 DEF DecisionsOnce
<1>5. \/ \E e \in Events : DecideInitial(e)
      \/ \E e \in Events, strong \in BOOLEAN : DecideFinal(e, strong)
      \/ UNCHANGED decisions
  BY DEF Next, vars, written, Gate, StartEnroll, EnrollNext, EndEnroll, MeasureNext,
         Store, EndMeasure, Tick, Crash, Restart
<1> QED
  BY <1>2, <1>3, <1>4, <1>5

(***************************************************************************)
(* One row is stored for the head of the plan, or nothing is stored and the *)
(* plan is not touched, begun or given up.                                   *)
(***************************************************************************)
LEMMA MeasuringSteps ==
    ASSUME [Next]_vars
    PROVE  \/ EndEnroll
           \/ MeasureNext
           \/ UNCHANGED outcomes /\ (pc' = "measure" => UNCHANGED <<pc, todo>>)
  BY DEF Next, vars, written, kept, memory, DecideInitial, Gate, DecideFinal,
         StartEnroll, EnrollNext, EndMeasure, Tick, Crash, Restart

LEMMA RecordsKept ==
    ASSUME IInv, [Next]_vars
    PROVE  OutcomesOnce' /\ HorizonsInOrder' /\ PlanInOrder'
<1> USE DEF IInv
<1>1. CASE EndEnroll
  <2> DEFINE p == DueHorizons
  <2>1. pc' = "measure" /\ todo' = p /\ UNCHANGED outcomes
    BY <1>1 DEF EndEnroll, kept
  <2>2. \A e \in Events : cohort[e].base \in Int
    BY PlanTypes
  <2>3. /\ p \in Seq(DueRows)
        /\ \A i, j \in 1..Len(p) : p[i] = p[j] => i = j
        /\ \A i \in 1..Len(p), x \in DueRows :
              DueFirst(x, p[i]) => \E j \in 1..i : p[j] = x
    BY <2>2, DuePlan
  <2> HIDE DEF p
  <2>4. \A i \in 1..Len(p) : p[i] \in DueRows
    BY <2>3, ElementOfSeq
  <2>5. \A i \in 1..Len(p), o \in outcomes : ~ Same(o, p[i])
    BY <2>4, DueRowsAre DEF Due, Recorded, Same
  <2>6. \A i, j \in 1..Len(p) : Same(p[i], p[j]) => i = j
    BY <2>3, <2>4, DueRowsAre DEF Same
  <2>7. ASSUME NEW i \in 1..Len(p), NEW h \in Horizons, h < p[i].horizon
        PROVE  \/ \E o \in outcomes : o.event = p[i].event /\ o.horizon = h
               \/ \E j \in 1..i : p[j].event = p[i].event /\ p[j].horizon = h
    <3> DEFINE e == p[i].event
    <3>1. e \in Events /\ p[i].horizon \in Horizons /\ Due(e, p[i].horizon)
      BY <2>4, DueRowsAre
    <3>2. h \in Nat /\ p[i].horizon \in Nat /\ cohort[e].base \in Int /\ now \in Nat
      BY <2>2, <3>1, CohortAssumption DEF CohortAssumption, TypeOK
    <3>3. now >= Scheduled(e, h)
      BY <2>7, <3>1, <3>2 DEF Due, Scheduled
    <3>4. CASE Recorded(e, h)
      BY <3>4 DEF Recorded
    <3>5. CASE ~ Recorded(e, h)
      <4>1. Due(e, h)
        BY <3>1, <3>3, <3>5 DEF Due
      <4>2. PICK x \in DueRows : x.event = e /\ x.horizon = h
        BY <3>1, <4>1, DueRowsAre
      <4>3. DueFirst(x, p[i])
        BY <2>7, <3>2, <4>2 DEF DueFirst
      <4> QED
        BY <2>3, <4>2, <4>3
    <3> QED
      BY <3>4, <3>5
  <2>8. PlanInOrder'
    BY <2>1, <2>5, <2>6, <2>7 DEF PlanInOrder
  <2> QED
    BY <2>1, <2>8 DEF OutcomesOnce, HorizonsInOrder, Recorded
<1>2. CASE MeasureNext
  <2>1. todo \in Seq(DueRow) /\ todo # << >> /\ pc = "measure"
    BY <1>2, PlanTypes DEF MeasureNext
  <2>2. PICK label \in Labels : Store(Head(todo), label)
    BY <1>2 DEF MeasureNext, Labels
  <2> DEFINE d == todo[1]
             row == [event |-> d.event, horizon |-> d.horizon, label |-> label]
             t == Tail(todo)
  <2>3. Head(todo) = d /\ 1 \in 1..Len(todo) /\ Len(todo) \in Nat
    BY <2>1
  <2>4. /\ row.event = d.event /\ row.horizon = d.horizon
        /\ outcomes' = outcomes \cup {row} /\ todo' = t /\ pc' = pc
    BY <2>2, <2>3 DEF Store
  <2>5. /\ Len(t) = Len(todo) - 1
        /\ \A i \in 1..Len(t) : t[i] = todo[i + 1]
    BY <2>1, HeadTailProperties
  <2>6. d.horizon \in Nat /\ \A h \in Horizons : h \in Nat
    <3>1. d \in DueRow
      BY ONLY <2>1, <2>3, ElementOfSeq
    <3> QED
      BY <3>1, CohortAssumption DEF DueRow, CohortAssumption
  <2> HIDE DEF d, row, t
  <2>7. /\ \A i \in 1..Len(todo), o \in outcomes : ~ Same(o, todo[i])
        /\ \A i, j \in 1..Len(todo) : Same(todo[i], todo[j]) => i = j
        /\ \A i \in 1..Len(todo), h \in Horizons :
              h < todo[i].horizon =>
                  \/ \E o \in outcomes : o.event = todo[i].event /\ o.horizon = h
                  \/ \E j \in 1..i : todo[j].event = todo[i].event /\ todo[j].horizon = h
    BY <2>1 DEF PlanInOrder
  <2>8. OutcomesOnce'
    <3>1. \A o \in outcomes : ~ Same(o, row)
      BY <2>3, <2>4, <2>7 DEF Same, d
    <3> QED
      BY <2>4, <3>1 DEF OutcomesOnce, Same
  <2>9. HorizonsInOrder'
    <3>1. \A h \in Horizons : h < row.horizon =>
             \E o \in outcomes : o.event = row.event /\ o.horizon = h
      <4> TAKE h \in Horizons
      <4> HAVE h < row.horizon
      <4>1. h < todo[1].horizon
        BY <2>4 DEF d
      <4>2. ~ \E j \in 1..1 : todo[j].event = todo[1].event /\ todo[j].horizon = h
        BY <2>6, <4>1 DEF d
      <4> QED
        BY <2>3, <2>4, <2>7, <4>1, <4>2 DEF d
    <3>2. \A o \in outcomes : \A h \in Horizons : h < o.horizon =>
             \E q \in outcomes : q.event = o.event /\ q.horizon = h
      BY DEF HorizonsInOrder, Recorded
    <3> QED
      BY <2>4, <3>1, <3>2 DEF HorizonsInOrder, Recorded
  <2>10. PlanInOrder'
    <3>1. \A i \in 1..Len(t) : i + 1 \in 1..Len(todo) /\ i + 1 # 1 /\ t[i] = todo[i + 1]
      BY <2>3, <2>5
    <3>2. \A i \in 1..Len(t), o \in outcomes' : ~ Same(o, t[i])
      <4> TAKE i \in 1..Len(t), o \in outcomes'
      <4>1. CASE o \in outcomes
        BY <2>7, <3>1, <4>1
      <4>2. CASE o = row
        BY <2>3, <2>4, <2>7, <3>1, <4>2 DEF Same, d
      <4> QED
        BY <2>4, <4>1, <4>2
    <3>3. \A i, j \in 1..Len(t) : Same(t[i], t[j]) => i = j
      <4> TAKE i, j \in 1..Len(t)
      <4> HAVE Same(t[i], t[j])
      <4>1. i + 1 = j + 1
        BY <2>7, <3>1
      <4> QED
        BY <2>3, <2>5, <4>1
    <3>4. ASSUME NEW i \in 1..Len(t), NEW h \in Horizons, h < t[i].horizon
          PROVE  \/ \E o \in outcomes' : o.event = t[i].event /\ o.horizon = h
                 \/ \E j \in 1..i : t[j].event = t[i].event /\ t[j].horizon = h
      <4>1. CASE \E o \in outcomes : o.event = t[i].event /\ o.horizon = h
        BY <2>4, <4>1
      <4>2. CASE \E j \in 1..(i + 1) : /\ todo[j].event = t[i].event
                                      /\ todo[j].horizon = h
        <5>1. PICK j \in 1..(i + 1) : todo[j].event = t[i].event /\ todo[j].horizon = h
          BY <4>2
        <5>2. CASE j = 1
          BY <2>4, <5>1, <5>2 DEF d
        <5>3. CASE j # 1
          <6>1. j - 1 \in 1..i /\ j - 1 \in 1..Len(t) /\ (j - 1) + 1 = j
            <7>1. Len(t) \in Nat
              BY ONLY <2>1, <2>3, <2>5
            <7>2. j - 1 >= 1 /\ j - 1 <= i /\ i <= Len(t)
                  /\ j \in Int /\ i \in Int
              BY ONLY <7>1, <5>3, i \in 1..Len(t), j \in 1..(i + 1)
            <7> QED
              BY ONLY <7>1, <7>2
          <6>2. t[j - 1] = todo[j]
            BY <3>1, <6>1
          <6> QED
            BY <5>1, <6>1, <6>2
        <5> QED
          BY <5>2, <5>3
      <4>3. i + 1 \in 1..Len(todo) /\ t[i] = todo[i + 1] /\ h < todo[i + 1].horizon
        BY <3>1, <3>4
      <4>4. \/ \E o \in outcomes : o.event = todo[i + 1].event /\ o.horizon = h
            \/ \E j \in 1..(i + 1) : /\ todo[j].event = todo[i + 1].event
                                    /\ todo[j].horizon = h
        BY ONLY <2>7, <4>3, h \in Horizons
      <4> QED
        BY ONLY <4>1, <4>2, <4>3, <4>4
    <3> QED
      BY <2>4, <3>2, <3>3, <3>4 DEF PlanInOrder
  <2> QED
    BY <2>8, <2>9, <2>10
<1>3. CASE UNCHANGED outcomes /\ (pc' = "measure" => UNCHANGED <<pc, todo>>)
  BY <1>3 DEF OutcomesOnce, HorizonsInOrder, Recorded, PlanInOrder
<1> QED
  BY <1>1, <1>2, <1>3, MeasuringSteps

------------------------------------------------------------------------------
LEMMA CohortStarts == Init => IInv
<1> HAVE Init
<1>1. TypeOK
  BY CohortAssumption DEF Init, TypeOK, NotMember, CohortAssumption
<1>2. DecisionsOnce
  BY FS_EmptySet DEF Init, DecisionsOnce
<1>3. OutcomesOnce /\ HorizonsInOrder /\ PlanInOrder
  BY DEF Init, OutcomesOnce, HorizonsInOrder, PlanInOrder
<1> QED
  BY <1>1, <1>2, <1>3 DEF IInv

LEMMA CohortInvariant == Spec => []IInv
<1>1. ASSUME IInv, [Next]_vars
      PROVE  IInv'
  BY <1>1, TypeKept, DecisionsKept, RecordsKept DEF IInv
<1> QED
  BY CohortStarts, <1>1, PTL DEF Spec

(***************************************************************************)
(* The collector's tables and memory keep their types: in particular a plan *)
(* never exceeds its limit, and holds rows of the half cycle it is for.     *)
(***************************************************************************)
THEOREM TypeCorrect == Spec => []TypeOK
<1>1. IInv => TypeOK
  BY DEF IInv
<1> QED
  BY <1>1, CohortInvariant, PTL

(***************************************************************************)
(* No horizon of a member is recorded before a shorter one: whatever cuts a *)
(* plan (its limit, the budget, a crash), what was recorded of it is an     *)
(* initial part of the listing of due_horizons.                             *)
(***************************************************************************)
THEOREM SampledInOrder == Spec => []HorizonsInOrder
<1>1. IInv => HorizonsInOrder
  BY DEF IInv
<1> QED
  BY <1>1, CohortInvariant, PTL

(***************************************************************************)
(* A step changes the cohort only by enrolling, and then skips members; it  *)
(* changes the outcomes only by adding one.                                 *)
(***************************************************************************)
LEMMA StoredStays ==
    ASSUME IInv, IInv', [Next]_vars
    PROVE  /\ \A e \in Events : Member(e) => cohort'[e] = cohort[e]
           /\ outcomes \subseteq outcomes'
           /\ \A o, p \in outcomes' :
                (o.event = p.event /\ o.horizon = p.horizon) => o = p
<1>1. \A o, p \in outcomes' : (o.event = p.event /\ o.horizon = p.horizon) => o = p
  BY DEF IInv, OutcomesOnce, Same
<1>2. \/ UNCHANGED kept
      \/ EnrollNext
      \/ MeasureNext
  BY DEF Next, vars, DecideInitial, Gate, DecideFinal, StartEnroll, EndEnroll,
         EndMeasure, Tick, Crash, Restart
<1>3. CASE UNCHANGED kept
  BY <1>1, <1>3 DEF kept
<1>4. CASE EnrollNext
  <2> DEFINE c == Head(todo)
  <2>1. cohort' = Enrolled(c) /\ UNCHANGED outcomes
    BY <1>4 DEF EnrollNext
  <2>2. cohort \in [Events -> [stratum : Strata, base : Nat] \cup {NotMember}]
    BY DEF IInv, TypeOK
  <2>3. ASSUME NEW e \in Events, Member(e)
        PROVE  cohort'[e] = cohort[e]
    <3>1. CASE Member(c.event)
      BY <2>1, <3>1 DEF Enrolled
    <3>2. CASE ~ Member(c.event)
      <4>1. c.event # e
        BY <2>3, <3>2
      <4> QED
        BY <2>1, <2>2, <3>2, <4>1 DEF Enrolled
    <3> QED
      BY <3>1, <3>2
  <2> QED
    BY <1>1, <2>1, <2>3
<1>5. CASE MeasureNext
  BY <1>1, <1>5 DEF MeasureNext, Store
<1> QED
  BY <1>2, <1>3, <1>4, <1>5

(***************************************************************************)
(* INSERT OR IGNORE freezes what is stored: a member keeps its stratum and  *)
(* baseline, an outcome is neither removed nor recorded a second time.      *)
(***************************************************************************)
THEOREM StoredIsFrozen == Spec => FrozenOnceStored
<1> DEFINE Frozen == /\ \A e \in Events : Member(e) => cohort'[e] = cohort[e]
                     /\ outcomes \subseteq outcomes'
                     /\ \A o, p \in outcomes' :
                           (o.event = p.event /\ o.horizon = p.horizon) => o = p
<1>1. IInv /\ IInv' /\ [Next]_vars => [Frozen]_vars
  BY StoredStays
<1>2. Spec => [][Frozen]_vars
  <2> HIDE DEF Frozen
  <2> QED
    BY <1>1, CohortInvariant, PTL DEF Spec
<1> QED
  BY <1>2 DEF FrozenOnceStored
==============================================================================
