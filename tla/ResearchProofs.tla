---------------------------- MODULE ResearchProofs ----------------------------
(***************************************************************************)
(* What the research programs promise for any constants.                   *)
(*                                                                         *)
(* NestedStudy, for any calendar, blank rows, corporate actions, horizon   *)
(* and window sizes: the outer walk is always at some window of the        *)
(* calendar with the gaps of the windows before it, so the rows of a fold  *)
(* can be told from the calendar alone; and the rows of the sub-frame of   *)
(* an inner split are at least as far apart in the frame as their          *)
(* positions, so a purge counted in positions is long enough.              *)
(*                                                                         *)
(* FeatureSweep, for any entries, datasets, cores, runs and faults: the    *)
(* parent's pairs are a serial run's, whoever computed their halves, and   *)
(* the file holds an earlier set of them.                                  *)
(*                                                                         *)
(* FamilyRun, for any families, seeds, panels, launches and faults: on the *)
(* ledger a baseline follows its candidate and the family's first          *)
(* configuration; a program at work covers every series of its family,     *)
(* which is still to be started, open, or completed on its panel; a        *)
(* baseline is completed twice only after the family was begun anew.  And  *)
(* the account of a series balances at every session: panels have natural  *)
(* prices, rules give natural weights, and the fills of an open are fair.  *)
(*                                                                         *)
(* All rest on Sorted, the elements of a finite set of naturals in order.  *)
(***************************************************************************)
EXTENDS NestedStudy, FeatureSweep, FamilyRun, SumTheorems, SequenceTheorems

(* ---- The walk, from the calendar alone --------------------------------- *)

StartOf(f, s, k) == f.days[1] + (s.initial + k * s.test) * DaysPerMonth

WindowIn(f, s, k) ==
  {i \in DOMAIN f.days :
     StartOf(f, s, k) <= f.days[i] /\ f.days[i] < StartOf(f, s, k) + s.test * DaysPerMonth}

GapAfter(s, w) == [from |-> Max(w) + 1, to |-> Max(w) + 1 + s.embargo]

GapsIn(f, s, k) ==
  {GapAfter(s, WindowIn(f, s, j)) : j \in {m \in 0..(k-1) : WindowIn(f, s, m) # {}}}

RawIn(f, s, k) ==
  {i \in DOMAIN f.days :
     /\ f.days[i] < StartOf(f, s, k)
     /\ s.purge > 0 => i + s.purge < Min(WindowIn(f, s, k))
     /\ \A g \in GapsIn(f, s, k) : i < g.from \/ i >= g.to}

TrainOkIn(f, t) ==
  /\ t \notin f.blank /\ t + LabelSpan \in DOMAIN f.days
  /\ \A offset \in 2..LabelSpan : t + offset \notin f.actions

LongIn(s) == s.purge >= LabelSpan /\ s.embargo >= LabelSpan

WalkIn(f, s, p, w) ==
  p \notin {"start", "refused"} =>
    /\ LongIn(s)
    /\ \E k \in Nat : w = [bound |-> StartOf(f, s, k), gaps |-> GapsIn(f, s, k)]

FoldIn(f, s, fo, sp) ==
  /\ fo.raw \subseteq DOMAIN f.days /\ fo.test \subseteq DOMAIN f.days
  /\ fo.train = {t \in fo.raw : TrainOkIn(f, t)}
  /\ fo.test # {} =>
       /\ LongIn(s)
       /\ \E k \in Nat : fo.test \subseteq WindowIn(f, s, k) /\ fo.raw = RawIn(f, s, k)
  /\ sp.train \subseteq fo.raw /\ sp.test \subseteq fo.raw
  /\ sp.test # {} => \A t \in sp.train : t + LabelSpan < Min(sp.test)

\* A prediction knows nothing after its own row.
SeenIn(f, se) == se = [t \in DOMAIN f.days |-> se[t]] /\ \A t \in DOMAIN f.days : se[t] \in {0, t}

\* The scan has heard of the rows before its own, wants what they forecast, and
\* holds what it wanted at the close before the last.
ScanIn(se, p, n, d, o, h) ==
  /\ n \in Nat \ {0} /\ d.knows \in Nat /\ d.knows < n
  /\ d.last \in BOOLEAN /\ d.before \in BOOLEAN /\ h = d.before
  /\ d.last => n > 1 /\ se[n-1] # 0
  /\ d.before => n > 2 /\ se[n-2] # 0
  /\ o.side # "none" => o.knows < o.row
  /\ p \notin {"trade", "end"} => n = 1 /\ ~d.last /\ ~d.before

StudyInv ==
  /\ frame \in Frames /\ setting \in Settings
  /\ WalkIn(frame, setting, phase, outer)
  /\ FoldIn(frame, setting, fold, split)
  /\ SeenIn(frame, seen)
  /\ ScanIn(seen, phase, row, desired, order, held)

-----------------------------------------------------------------------------
(* ---- Sets of naturals, and their elements in order ---------------------- *)

LEMMA MinOfNaturals ==
  ASSUME NEW S, S \subseteq Nat, S # {}
  PROVE  Min(S) \in S /\ \A x \in S : Min(S) <= x
<1>1. PICK u \in S : \A v \in S : u <= v
  BY LeastNatural
<1>2. QED
  BY <1>1 DEF Min

Below(S, x) == {y \in S : y < x}

LEMMA BelowIsFinite ==
  ASSUME NEW S, IsFiniteSet(S), S \subseteq Nat, NEW x \in S
  PROVE  /\ IsFiniteSet(Below(S, x)) /\ Cardinality(S) \in Nat
         /\ Cardinality(Below(S, x)) \in Nat /\ Cardinality(Below(S, x)) < Cardinality(S)
<1>1. Below(S, x) \in SUBSET S /\ x \notin Below(S, x)
  BY DEF Below
<1>2. /\ IsFiniteSet(Below(S, x)) /\ Cardinality(Below(S, x)) <= Cardinality(S)
      /\ (Cardinality(S) = Cardinality(Below(S, x)) => S = Below(S, x))
  BY <1>1, FS_Subset
<1>3. Cardinality(S) \in Nat /\ Cardinality(Below(S, x)) \in Nat
  BY <1>2, FS_CardinalityType
<1>4. QED
  BY <1>1, <1>2, <1>3

\* What lies between two elements is no more than the naturals between them.
LEMMA RankGap ==
  ASSUME NEW S, IsFiniteSet(S), S \subseteq Nat, NEW x \in S, NEW y \in S, x < y
  PROVE  /\ Cardinality(Below(S, x)) < Cardinality(Below(S, y))
         /\ Cardinality(Below(S, y)) - Cardinality(Below(S, x)) <= y - x
<1> DEFINE between == Below(S, y) \ Below(S, x)
<1>0. x \in Nat /\ y \in Nat
  OBVIOUS
<1>1. IsFiniteSet(Below(S, y)) /\ IsFiniteSet(Below(S, x))
  BY BelowIsFinite
<1>2. Below(S, y) \cap Below(S, x) = Below(S, x)
  <2>1. ASSUME NEW z \in Below(S, x) PROVE z \in Below(S, y)
    <3>1. z \in S /\ z \in Nat /\ z < x
      BY <2>1 DEF Below
    <3>2. z < y
      BY <1>0, <3>1
    <3>3. QED
      BY <3>1, <3>2 DEF Below
  <2>2. QED
    BY <2>1
<1>3. /\ IsFiniteSet(between)
      /\ Cardinality(between) = Cardinality(Below(S, y)) - Cardinality(Below(S, x))
  BY <1>1, <1>2, FS_Difference
<1>4. between \subseteq x..(y-1) /\ x \in between
  <2>1. ASSUME NEW z \in between PROVE z \in x..(y-1)
    <3>1. z \in Nat /\ z < y /\ ~(z < x)
      BY <2>1 DEF Below
    <3>2. QED
      BY <1>0, <3>1
  <2>2. x \in Below(S, y) /\ x \notin Below(S, x)
    BY <1>0 DEF Below
  <2>3. QED
    BY <2>1, <2>2
<1>5. IsFiniteSet(x..(y-1)) /\ Cardinality(x..(y-1)) = y - x
  <2>1. x \in Int /\ y - 1 \in Int /\ ~(x > y - 1) /\ (y - 1) - x + 1 = y - x
    BY <1>0
  <2>2. /\ IsFiniteSet(x..(y-1))
        /\ Cardinality(x..(y-1)) = IF x > y - 1 THEN 0 ELSE (y - 1) - x + 1
    BY <2>1, FS_Interval
  <2>3. QED
    BY <2>1, <2>2
<1> HIDE DEF between
<1>6. Cardinality(between) <= y - x
  BY <1>4, <1>5, FS_Subset
<1>7. Cardinality(between) # 0 /\ Cardinality(between) \in Nat
  BY <1>3, <1>4, FS_EmptySet, FS_CardinalityType
<1>8. Cardinality(Below(S, y)) \in Nat /\ Cardinality(Below(S, x)) \in Nat
  BY <1>1, FS_CardinalityType
<1>9. QED
  BY <1>3, <1>6, <1>7, <1>8

\* Every position is some element's.
LEMMA EveryRank ==
  ASSUME NEW S, IsFiniteSet(S), S \subseteq Nat, NEW k \in 1..Cardinality(S)
  PROVE  \E x \in S : Cardinality(Below(S, x)) = k - 1
<1> DEFINE T == 1..Cardinality(S)
           rank == [x \in S |-> Cardinality(Below(S, x)) + 1]
<1>1. Cardinality(S) \in Nat
  BY FS_CardinalityType
<1>2. \A x \in S : rank[x] \in T
  <2>1. TAKE x \in S
  <2>2. Cardinality(Below(S, x)) \in Nat /\ Cardinality(Below(S, x)) < Cardinality(S)
    BY BelowIsFinite
  <2>3. QED
    BY <1>1, <2>2
<1>3. ASSUME NEW x \in S, NEW y \in S, rank[x] = rank[y] PROVE x = y
  <2>1. x \in Nat /\ y \in Nat
    OBVIOUS
  <2>2. Cardinality(Below(S, x)) = Cardinality(Below(S, y))
    <3>1. Cardinality(Below(S, x)) \in Nat /\ Cardinality(Below(S, y)) \in Nat
      BY BelowIsFinite
    <3>2. QED
      BY <1>3, <3>1
  <2>3. ~(x < y) /\ ~(y < x)
    <3>1. Cardinality(Below(S, x)) \in Nat /\ Cardinality(Below(S, y)) \in Nat
      BY BelowIsFinite
    <3>2. ASSUME x < y PROVE FALSE
      <4>1. Cardinality(Below(S, x)) < Cardinality(Below(S, y))
        BY <3>2, RankGap
      <4>2. QED
        BY <2>2, <3>1, <4>1
    <3>3. ASSUME y < x PROVE FALSE
      <4>1. Cardinality(Below(S, y)) < Cardinality(Below(S, x))
        BY <3>3, RankGap
      <4>2. QED
        BY <2>2, <3>1, <4>1
    <3>4. QED
      BY <3>2, <3>3
  <2>4. QED
    BY <2>1, <2>3
<1>4. rank = [x \in S |-> rank[x]]
  OBVIOUS
<1> HIDE DEF rank
<1>5. rank \in [S -> T]
  BY <1>2, <1>4
<1>6. rank \in Injection(S, T)
  <2>1. \A x, y \in S : rank[x] = rank[y] => x = y
    BY <1>3
  <2>2. QED
    BY <1>5, <2>1 DEF Injection, IsInjective
<1>7. IsFiniteSet(T) /\ Cardinality(T) = Cardinality(S)
  <2>1. IsFiniteSet(1..Cardinality(S))
        /\ Cardinality(1..Cardinality(S))
             = IF 1 > Cardinality(S) THEN 0 ELSE Cardinality(S) - 1 + 1
    BY <1>1, FS_Interval
  <2>2. QED
    BY <1>1, <2>1
<1> HIDE DEF T
<1>8. rank \in Surjection(S, T)
  BY <1>6, <1>7, FS_Injection
<1>9. PICK x \in S : rank[x] = k
  BY <1>8 DEF Surjection, T
<1>10. Cardinality(Below(S, x)) \in Nat
  BY BelowIsFinite
<1>11. k \in Nat
  BY <1>1
<1>12. rank[x] = Cardinality(Below(S, x)) + 1
  BY DEF rank
<1>13. QED
  BY <1>9, <1>10, <1>11, <1>12

\* Positions in a sub-frame are no further apart than the rows they stand for.
LEMMA SortedRows ==
  ASSUME NEW S, IsFiniteSet(S), S \subseteq Nat
  PROVE  /\ DOMAIN Sorted(S) = 1..Cardinality(S) /\ Cardinality(S) \in Nat
         /\ \A k \in 1..Cardinality(S) : Sorted(S)[k] \in S
         /\ \A i, j \in 1..Cardinality(S) : i < j => Sorted(S)[i] + (j - i) <= Sorted(S)[j]
<1>1. Cardinality(S) \in Nat
  BY FS_CardinalityType
<1>2. ASSUME NEW k \in 1..Cardinality(S)
      PROVE  Sorted(S)[k] \in S /\ Cardinality(Below(S, Sorted(S)[k])) = k - 1
  <2>1. PICK x \in S : Cardinality(Below(S, x)) = k - 1
    BY EveryRank
  <2>2. Sorted(S)[k] = CHOOSE z \in S : Cardinality(Below(S, z)) = k - 1
    BY DEF Sorted, Below
  <2>3. QED
    BY <2>1, <2>2
<1>3. ASSUME NEW i \in 1..Cardinality(S), NEW j \in 1..Cardinality(S), i < j
      PROVE  Sorted(S)[i] + (j - i) <= Sorted(S)[j]
  <2> DEFINE x == Sorted(S)[i]
             y == Sorted(S)[j]
  <2>a. x \in S /\ Cardinality(Below(S, x)) = i - 1
    BY <1>2
  <2>b. y \in S /\ Cardinality(Below(S, y)) = j - 1
    BY <1>2
  <2> HIDE DEF x, y
  <2>1. x \in Nat /\ y \in Nat /\ i \in Nat /\ j \in Nat
    BY <1>1, <2>a, <2>b
  <2>2. x < y
    <3>1. x # y
      BY <1>3, <2>1, <2>a, <2>b
    <3>2. ~(y < x)
      <4>1. SUFFICES ASSUME y < x PROVE FALSE
        OBVIOUS
      <4>2. Cardinality(Below(S, y)) < Cardinality(Below(S, x))
        BY <2>1, <2>a, <2>b, <4>1, RankGap
      <4>3. QED
        BY <1>3, <2>1, <2>a, <2>b, <4>2
    <3>3. QED
      BY <2>1, <3>1, <3>2
  <2>3. (j - 1) - (i - 1) <= y - x
    BY <2>1, <2>a, <2>b, <2>2, RankGap
  <2>4. QED
    BY <2>1, <2>3 DEF x, y
<1>4. QED
  BY <1>1, <1>2, <1>3 DEF Sorted

\* and every element has one.
LEMMA EveryElementSorted ==
  ASSUME NEW S, IsFiniteSet(S), S \subseteq Nat, NEW x \in S
  PROVE  \E k \in DOMAIN Sorted(S) : Sorted(S)[k] = x
<1> DEFINE k == Cardinality(Below(S, x)) + 1
<1>1. Cardinality(S) \in Nat /\ Cardinality(Below(S, x)) \in Nat
      /\ Cardinality(Below(S, x)) < Cardinality(S)
  BY BelowIsFinite
<1>2. k \in 1..Cardinality(S)
  BY <1>1
<1>3. Sorted(S)[k] = CHOOSE z \in S : Cardinality(Below(S, z)) = k - 1
  BY <1>2 DEF Sorted, Below
<1>4. k - 1 = Cardinality(Below(S, x))
  BY <1>1
<1>5. ASSUME NEW z \in S, Cardinality(Below(S, z)) = Cardinality(Below(S, x)) PROVE z = x
  <2>1. z \in Nat /\ x \in Nat
    OBVIOUS
  <2>2. ASSUME z < x PROVE FALSE
    <3>1. Cardinality(Below(S, z)) < Cardinality(Below(S, x))
      BY <2>2, RankGap
    <3>2. QED
      BY <1>1, <1>5, <3>1
  <2>3. ASSUME x < z PROVE FALSE
    <3>1. Cardinality(Below(S, x)) < Cardinality(Below(S, z))
      BY <2>3, RankGap
    <3>2. QED
      BY <1>1, <1>5, <3>1
  <2>4. QED
    BY <2>1, <2>2, <2>3
<1> HIDE DEF k
<1>6. Sorted(S)[k] = x
  BY <1>3, <1>4, <1>5
<1>7. QED
  BY <1>2, <1>6 DEF Sorted

-----------------------------------------------------------------------------
(* ---- The windows of the calendar ---------------------------------------- *)

LEMMA Products ==
  ASSUME NEW a \in Nat, NEW b \in Nat
  PROVE  a * b \in Nat /\ (a > 0 /\ b > 0 => a * b > 0)
OBVIOUS

LEMMA Distributes ==
  ASSUME NEW a \in Int, NEW b \in Int, NEW c \in Int
  PROVE  (a + b) * c = a * c + b * c
OBVIOUS

LEMMA Scales ==
  ASSUME NEW a \in Int, NEW b \in Int, NEW c \in Int
  PROVE  (a * b) * c = a * (b * c)
OBVIOUS

\* A window's days, and the first and last day of a frame.
LEMMA Calendar ==
  ASSUME NEW f \in Frames, NEW s \in Settings
  PROVE  /\ f.days \in Seq(Nat) /\ Len(f.days) \in Nat \ {0}
         /\ DOMAIN f.days = 1..Len(f.days) /\ DOMAIN f.days \subseteq Nat
         /\ IsFiniteSet(DOMAIN f.days)
         /\ \A i \in DOMAIN f.days : f.days[i] \in Nat /\ f.days[i] <= f.days[Len(f.days)]
         /\ \A i, j \in DOMAIN f.days : f.days[i] < f.days[j] => i < j
         /\ s.purge \in Nat /\ s.embargo \in Nat
         /\ s.initial \in Nat \ {0} /\ s.test \in Nat \ {0}
         /\ s.test * DaysPerMonth \in Nat \ {0} /\ s.initial * DaysPerMonth \in Nat
<1>1. /\ f.days \in Seq(Nat) \ {<<>>}
      /\ \A i, j \in DOMAIN f.days : i < j => f.days[i] < f.days[j]
  BY StudyAssumption
<1>2. /\ s.purge \in Nat /\ s.embargo \in Nat /\ DaysPerMonth \in Nat \ {0}
      /\ s.initial \in Nat \ {0} /\ s.test \in Nat \ {0}
  BY StudyAssumption
<1>3. s.test * DaysPerMonth \in Nat \ {0} /\ s.initial * DaysPerMonth \in Nat
  <2>1. \A a, b \in Nat : a * b \in Nat /\ (a > 0 /\ b > 0 => a * b > 0)
    BY Products
  <2>2. /\ s.test * DaysPerMonth \in Nat /\ (s.test > 0 /\ DaysPerMonth > 0 => s.test * DaysPerMonth > 0)
        /\ s.initial * DaysPerMonth \in Nat
    BY <1>2, <2>1
  <2>3. QED
    BY <1>2, <2>2
<1> DEFINE days == f.days
<1>4. days \in Seq(Nat) \ {<<>>} /\ \A i, j \in DOMAIN days : i < j => days[i] < days[j]
  BY <1>1
<1> HIDE DEF days
<1>5. Len(days) \in Nat \ {0} /\ DOMAIN days = 1..Len(days)
  BY <1>4
<1>6. IsFiniteSet(DOMAIN days)
  BY <1>5, FS_Interval
<1>7. \A i \in DOMAIN days : days[i] \in Nat
  BY <1>4, <1>5
<1>8. ASSUME NEW i \in DOMAIN days PROVE days[i] <= days[Len(days)]
  <2>1. i \in Nat /\ i <= Len(days) /\ Len(days) \in DOMAIN days
    BY <1>5
  <2>2. CASE i = Len(days)
    BY <1>7, <2>1, <2>2
  <2>3. CASE i < Len(days)
    <3>1. days[i] < days[Len(days)]
      BY <1>4, <2>1, <2>3
    <3>2. QED
      BY <1>7, <2>1, <3>1
  <2>4. QED
    BY <1>5, <2>1, <2>2, <2>3
<1>9. ASSUME NEW i \in DOMAIN days, NEW j \in DOMAIN days, days[i] < days[j] PROVE i < j
  <2>1. i \in Nat /\ j \in Nat /\ days[i] \in Nat /\ days[j] \in Nat
    BY <1>5, <1>7
  <2>2. i # j
    BY <1>9, <2>1
  <2>3. ~(j < i)
    <3>1. SUFFICES ASSUME j < i PROVE FALSE
      OBVIOUS
    <3>2. days[j] < days[i]
      BY <1>4, <3>1
    <3>3. QED
      BY <1>9, <2>1, <3>2
  <2>4. QED
    BY <2>1, <2>2, <2>3
<1>10. QED
  BY <1>2, <1>3, <1>4, <1>5, <1>6, <1>7, <1>8, <1>9 DEF days

LEMMA WindowStarts ==
  ASSUME NEW f \in Frames, NEW s \in Settings, NEW k \in Nat
  PROVE  /\ StartOf(f, s, k) = (f.days[1] + s.initial * DaysPerMonth) + k * (s.test * DaysPerMonth)
         /\ StartOf(f, s, k) \in Nat /\ k <= StartOf(f, s, k)
<1> DEFINE c == s.test * DaysPerMonth
           b == s.initial * DaysPerMonth
           d == f.days[1]
<1>1. c \in Nat \ {0} /\ b \in Nat /\ s.test \in Nat /\ s.initial \in Nat /\ DaysPerMonth \in Nat
  BY Calendar, StudyAssumption
<1>2. d \in Nat
  <2>1. 1 \in DOMAIN f.days
    BY Calendar
  <2>2. QED
    BY <2>1, Calendar
<1>3. k * s.test \in Nat
  BY <1>1, Products
<1>4. (s.initial + k * s.test) * DaysPerMonth = s.initial * DaysPerMonth + (k * s.test) * DaysPerMonth
  BY <1>1, <1>3, Distributes
<1>5. (k * s.test) * DaysPerMonth = k * (s.test * DaysPerMonth)
  BY <1>1, Scales
<1>6. StartOf(f, s, k) = d + (b + k * c)
  BY <1>4, <1>5 DEF StartOf
<1> HIDE DEF b, c, d
<1>7. k * c \in Nat /\ k <= k * c
  <2>1. k * (c - 1) \in Nat /\ k * c \in Nat
    BY <1>1, Products
  <2>2. k * c = k * (c - 1) + k
    <3>1. ((c - 1) + 1) * k = (c - 1) * k + 1 * k
      BY <1>1, Distributes
    <3>2. QED
      BY <1>1, <3>1
  <2>3. QED
    BY <2>1, <2>2
<1>8. StartOf(f, s, k) = (d + b) + k * c
  BY <1>1, <1>2, <1>6, <1>7
<1>9. StartOf(f, s, k) \in Nat /\ k <= StartOf(f, s, k)
  BY <1>1, <1>2, <1>6, <1>7
<1>10. QED
  BY <1>8, <1>9 DEF b, c, d

\* The walk moves on by one window, and windows do not overlap.
LEMMA StartsFollow ==
  ASSUME NEW f \in Frames, NEW s \in Settings, NEW k \in Nat
  PROVE  /\ StartOf(f, s, k + 1) = StartOf(f, s, k) + s.test * DaysPerMonth
         /\ \A j \in Nat : j < k => StartOf(f, s, j) + s.test * DaysPerMonth <= StartOf(f, s, k)
<1> DEFINE c == s.test * DaysPerMonth
           b == f.days[1] + s.initial * DaysPerMonth
           At(n) == StartOf(f, s, n)
<1>1. \A n \in Nat : At(n) = b + n * c /\ At(n) \in Nat
  BY WindowStarts
<1>2. c \in Nat
  BY Calendar
<1>3. b \in Nat
  <2>1. At(0) = b + 0 * c
    BY <1>1
  <2>2. f.days[1] \in Nat
    <3>1. 1 \in DOMAIN f.days
      BY Calendar
    <3>2. QED
      BY <3>1, Calendar
  <2>3. QED
    BY <2>2, Calendar
<1> HIDE DEF At, b, c
<1>4. At(k + 1) = At(k) + c
  <2>1. (k + 1) * c = k * c + 1 * c
    BY <1>2, Distributes
  <2>2. k * c \in Nat /\ At(k) = b + k * c /\ At(k + 1) = b + (k + 1) * c
    BY <1>1, <1>2, Products
  <2>3. QED
    BY <1>2, <1>3, <2>1, <2>2
<1>5. ASSUME NEW j \in Nat, j < k PROVE At(j) + c <= At(k)
  <2> DEFINE e == k - (j + 1)
  <2>1. e \in Nat /\ k = (e + j) + 1
    BY <1>5
  <2> HIDE DEF e
  <2>2. /\ ((e + j) + 1) * c = (e + j) * c + 1 * c
        /\ (e + j) * c = e * c + j * c
    BY <1>2, <2>1, Distributes
  <2>3. e * c \in Nat /\ j * c \in Nat
    BY <1>2, <2>1, Products
  <2>4. k * c = e * c + j * c + c
    BY <1>2, <2>1, <2>2, <2>3
  <2>5. At(j) = b + j * c /\ At(k) = b + k * c
    BY <1>1
  <2>6. QED
    BY <1>2, <1>3, <2>3, <2>4, <2>5
<1>6. QED
  BY <1>4, <1>5 DEF At, c

\* Every row of a window is after every row of the windows before it, and after
\* every row the window trains on.
LEMMA WindowsFollow ==
  ASSUME NEW f \in Frames, NEW s \in Settings, NEW k \in Nat, NEW i \in WindowIn(f, s, k)
  PROVE  /\ i \in DOMAIN f.days /\ i \in Nat
         /\ k <= f.days[Len(f.days)]
         /\ \A t \in DOMAIN f.days : f.days[t] < StartOf(f, s, k) => t < i
         /\ \A j \in Nat : j < k => \A t \in WindowIn(f, s, j) : t < i
<1>1. /\ i \in DOMAIN f.days /\ f.days[i] \in Nat /\ i \in Nat
      /\ StartOf(f, s, k) <= f.days[i]
  BY Calendar DEF WindowIn
<1>2. StartOf(f, s, k) \in Nat /\ k <= StartOf(f, s, k)
  BY WindowStarts
<1>3. f.days[i] <= f.days[Len(f.days)] /\ f.days[Len(f.days)] \in Nat
  <2>1. Len(f.days) \in DOMAIN f.days
    BY Calendar
  <2>2. QED
    BY <1>1, <2>1, Calendar
<1>4. ASSUME NEW t \in DOMAIN f.days, f.days[t] < StartOf(f, s, k) PROVE t < i
  <2>1. f.days[t] \in Nat
    BY Calendar
  <2>2. f.days[t] < f.days[i]
    BY <1>1, <1>2, <1>4, <2>1
  <2>3. QED
    BY <1>1, <2>2, Calendar
<1>5. ASSUME NEW j \in Nat, j < k, NEW t \in WindowIn(f, s, j) PROVE t < i
  <2>1. t \in DOMAIN f.days /\ f.days[t] \in Nat /\ f.days[t] < StartOf(f, s, j) + s.test * DaysPerMonth
    BY Calendar DEF WindowIn
  <2>2. StartOf(f, s, j) + s.test * DaysPerMonth <= StartOf(f, s, k)
    BY <1>5, StartsFollow
  <2>3. StartOf(f, s, j) \in Nat /\ s.test * DaysPerMonth \in Nat
    BY WindowStarts, Calendar
  <2>4. f.days[t] < StartOf(f, s, k)
    BY <1>2, <2>1, <2>2, <2>3
  <2>5. QED
    BY <1>4, <2>1, <2>4
<1>6. k <= f.days[Len(f.days)]
  BY <1>1, <1>2, <1>3
<1>7. QED
  BY <1>1, <1>4, <1>5, <1>6

\* A window's first and last rows are rows of it.
LEMMA WindowEnds ==
  ASSUME NEW f \in Frames, NEW s \in Settings, NEW w \in SUBSET DOMAIN f.days, w # {}
  PROVE  /\ Min(w) \in w /\ \A i \in w : Min(w) <= i
         /\ Max(w) \in w /\ \A i \in w : i <= Max(w)
         /\ w \subseteq Nat /\ Min(w) \in Nat /\ Max(w) \in Nat
<1>1. Len(f.days) \in Nat /\ DOMAIN f.days = 1..Len(f.days)
  BY Calendar
<1>2. w \subseteq Nat /\ w \in SUBSET (0..Len(f.days))
  BY <1>1
<1>3. Min(w) \in w /\ \A i \in w : Min(w) <= i
  BY <1>2, MinOfNaturals
<1>4. Max(w) \in w /\ \A i \in w : i <= Max(w)
  BY <1>1, <1>2, MaxOfBounded
<1>5. QED
  BY <1>2, <1>3, <1>4

-----------------------------------------------------------------------------
(* ---- What the invariant says of a fold ---------------------------------- *)

LEMMA GapsUpTo ==
  ASSUME NEW f, NEW s, NEW k \in Nat, NEW t \in Nat,
         \A j \in 0..(k-1) : WindowIn(f, s, j) # {} =>
           Max(WindowIn(f, s, j)) \in Nat /\ s.embargo \in Nat
  PROVE  (\A g \in GapsIn(f, s, k) : t < g.from \/ t >= g.to)
           <=> \A j \in 0..(k-1) : WindowIn(f, s, j) # {} =>
                 t \notin (Max(WindowIn(f, s, j)) + 1)..(Max(WindowIn(f, s, j)) + s.embargo)
<1> DEFINE w(j) == WindowIn(f, s, j)
           Clear(j) == t < Max(w(j)) + 1 \/ t >= Max(w(j)) + 1 + s.embargo
<1>1. (\A g \in GapsIn(f, s, k) : t < g.from \/ t >= g.to)
        <=> \A j \in 0..(k-1) : w(j) # {} => Clear(j)
  <2>1. \A j : /\ GapAfter(s, w(j)).from = Max(w(j)) + 1
              /\ GapAfter(s, w(j)).to = Max(w(j)) + 1 + s.embargo
    BY DEF GapAfter
  <2> DEFINE gap(j) == GapAfter(s, w(j))
  <2>2. GapsIn(f, s, k) = {gap(j) : j \in {m \in 0..(k-1) : w(m) # {}}}
    BY DEF GapsIn
  <2>3. \A j : Clear(j) <=> (t < gap(j).from \/ t >= gap(j).to)
    BY <2>1
  <2> HIDE DEF gap, w, Clear
  <2>4. QED
    BY <2>2, <2>3
<1>2. \A j \in 0..(k-1) : w(j) # {} =>
        (Clear(j) <=> t \notin (Max(w(j)) + 1)..(Max(w(j)) + s.embargo))
  <2>1. TAKE j \in 0..(k-1)
  <2>2. HAVE w(j) # {}
  <2>3. Max(w(j)) \in Nat /\ s.embargo \in Nat
    BY <2>2
  <2>4. QED
    BY <2>3
<1> HIDE DEF w, Clear
<1>3. QED
  BY <1>1, <1>2 DEF w

\* The window a fold was cut from is the one its test rows lie in, and the gaps
\* it leaves out are those of the windows before.
LEMMA FoldOfWindow ==
  ASSUME frame \in Frames, setting \in Settings, NEW k \in Nat,
         fold.test # {}, fold.test \subseteq WindowIn(frame, setting, k)
  PROVE  /\ (CHOOSE w \in Windows : fold.test \subseteq w) = WindowIn(frame, setting, k)
         /\ {v \in Windows : Max(v) < Min(fold.test)}
              = {WindowIn(frame, setting, j) : j \in {m \in 0..(k-1) : WindowIn(frame, setting, m) # {}}}
         /\ Min(WindowIn(frame, setting, k)) <= Min(fold.test)
<1> DEFINE W(m) == WindowIn(frame, setting, m)
           last == frame.days[Len(frame.days)]
<1>1. \A m : Window(m) = W(m)
  BY DEF Window, WindowIn, StartOf, Rows
<1>2. Windows = {W(m) : m \in 0..last} \ {{}}
  BY <1>1 DEF Windows
<1>3. \A m : W(m) \in SUBSET DOMAIN frame.days
  BY DEF WindowIn
<1>4. \A m \in Nat : W(m) # {} => m \in 0..last
  <2>1. SUFFICES ASSUME NEW m \in Nat, NEW i \in W(m) PROVE m \in 0..last
    OBVIOUS
  <2>2. m <= last
    BY WindowsFollow
  <2>3. last \in Nat
    <3>1. Len(frame.days) \in DOMAIN frame.days
      BY Calendar
    <3>2. QED
      BY <3>1, Calendar
  <2>4. QED
    BY <2>2, <2>3
<1>5. \A m \in Nat : W(m) # {} =>
        /\ Min(W(m)) \in W(m) /\ Max(W(m)) \in W(m) /\ Min(W(m)) \in Nat /\ Max(W(m)) \in Nat
        /\ \A i \in W(m) : Min(W(m)) <= i /\ i <= Max(W(m)) /\ i \in Nat
  BY <1>3, WindowEnds
<1>6. fold.test \in SUBSET DOMAIN frame.days
  BY <1>3
<1>7. Min(fold.test) \in fold.test /\ Min(fold.test) \in Nat
  BY <1>6, WindowEnds
<1>8. \A m, n \in Nat : m < n => \A t \in W(m), i \in W(n) : t < i
  BY WindowsFollow
<1>9. W(k) # {} /\ fold.test \subseteq W(k)
  OBVIOUS
<1> HIDE DEF W
<1>a. W(k) \in Windows
  BY <1>2, <1>4, <1>9
<1>10. ASSUME NEW w \in Windows, fold.test \subseteq w PROVE w = W(k)
  <2>1. PICK m \in 0..last : w = W(m) /\ W(m) # {}
    BY <1>2
  <2>2. PICK i : i \in W(k) /\ i \in W(m)
    BY <1>9, <1>10, <2>1
  <2>3. m \in Nat /\ i \in Nat
    BY <1>5, <2>1, <2>2
  <2>4. ~(m < k) /\ ~(k < m)
    BY <1>8, <2>2, <2>3
  <2>5. m = k
    BY <2>3, <2>4
  <2>6. QED
    BY <2>1, <2>5
<1>11. (CHOOSE w \in Windows : fold.test \subseteq w) = W(k)
  BY <1>9, <1>a, <1>10 DEF W
<1>12. ASSUME NEW v \in Windows, Max(v) < Min(fold.test)
       PROVE  \E j \in 0..(k-1) : W(j) # {} /\ v = W(j)
  <2>1. PICK m \in 0..last : v = W(m) /\ W(m) # {}
    BY <1>2
  <2>2. m \in Nat
    OBVIOUS
  <2>3. Max(W(m)) \in W(m) /\ Max(W(m)) \in Nat
    BY <1>5, <2>1, <2>2
  <2>4. Min(fold.test) \in W(k)
    BY <1>7 DEF W
  <2>5. m # k
    <3>1. SUFFICES ASSUME m = k PROVE FALSE
      OBVIOUS
    <3>2. Min(fold.test) <= Max(W(m))
      BY <1>5, <2>2, <2>4, <3>1
    <3>3. QED
      BY <1>7, <1>12, <2>1, <2>3, <3>2
  <2>6. ~(k < m)
    <3>1. SUFFICES ASSUME k < m PROVE FALSE
      OBVIOUS
    <3>2. Min(fold.test) < Max(W(m))
      BY <1>8, <2>2, <2>3, <2>4, <3>1
    <3>3. QED
      BY <1>7, <1>12, <2>1, <2>3, <3>2
  <2>7. m \in 0..(k-1)
    BY <2>2, <2>5, <2>6
  <2>8. QED
    BY <2>1, <2>7
<1>13. ASSUME NEW j \in 0..(k-1), W(j) # {}
       PROVE  W(j) \in Windows /\ Max(W(j)) < Min(fold.test)
  <2>1. j \in Nat /\ j < k
    OBVIOUS
  <2>2. Max(W(j)) \in W(j)
    BY <1>5, <1>13, <2>1
  <2>3. Min(fold.test) \in W(k)
    BY <1>7 DEF W
  <2>4. Max(W(j)) < Min(fold.test)
    BY <1>8, <2>1, <2>2, <2>3
  <2>5. j \in 0..last
    BY <1>4, <1>13, <2>1
  <2>6. QED
    BY <1>2, <1>13, <2>4, <2>5
<1>14. {v \in Windows : Max(v) < Min(fold.test)} = {W(j) : j \in {m \in 0..(k-1) : W(m) # {}}}
  <2>1. ASSUME NEW v \in {v \in Windows : Max(v) < Min(fold.test)}
        PROVE  v \in {W(j) : j \in {m \in 0..(k-1) : W(m) # {}}}
    BY <1>12, <2>1
  <2>2. ASSUME NEW v \in {W(j) : j \in {m \in 0..(k-1) : W(m) # {}}}
        PROVE  v \in {u \in Windows : Max(u) < Min(fold.test)}
    <3>1. PICK j \in 0..(k-1) : W(j) # {} /\ v = W(j)
      BY <2>2
    <3>2. QED
      BY <1>13, <3>1
  <2>3. QED
    BY <2>1, <2>2
<1>15. Min(W(k)) <= Min(fold.test)
  <2>1. Min(fold.test) \in W(k)
    BY <1>7 DEF W
  <2>2. QED
    BY <1>5, <1>9, <2>1
<1>16. QED
  BY <1>11, <1>14, <1>15 DEF W

LEMMA LegalRows ==
  ASSUME frame \in Frames, setting \in Settings, FoldIn(frame, setting, fold, split)
  PROVE  TrainsOnAllThatIsLegal
<1> SUFFICES ASSUME fold.test # {} PROVE TrainsOnAllThatIsLegal
  BY DEF TrainsOnAllThatIsLegal
<1>1. PICK k \in Nat : fold.test \subseteq WindowIn(frame, setting, k) /\ fold.raw = RawIn(frame, setting, k)
  BY DEF FoldIn
<1> DEFINE W(m) == WindowIn(frame, setting, m)
           Days == frame.days
           start == StartOf(frame, setting, k)
           length == setting.test * DaysPerMonth
           purge == setting.purge
           embargo == setting.embargo
           Earlier == {m \in 0..(k-1) : W(m) # {}}
<1>2. /\ (CHOOSE w \in Windows : fold.test \subseteq w) = W(k)
      /\ {v \in Windows : Max(v) < Min(fold.test)} = {W(j) : j \in Earlier}
  BY <1>1, FoldOfWindow
<1>3. fold.train = {t \in fold.raw : TrainOkIn(frame, t)} /\ purge \in Nat /\ purge > 0
  <2>1. setting.purge >= LabelSpan /\ fold.train = {t \in fold.raw : TrainOkIn(frame, t)}
    BY DEF FoldIn, LongIn
  <2>2. LabelSpan \in Nat /\ LabelSpan > 0 /\ setting.purge \in Nat
    BY StudyAssumption DEF LabelSpan
  <2>3. QED
    BY <2>1, <2>2
<1>4. \A t : TrainOkIn(frame, t) <=> TrainOk(t)
  BY DEF TrainOkIn, TrainOk, InferOk, LabelKnown, Rows
<1>5. \A t \in Rows : t \in Nat /\ Days[t] \in Nat
  BY Calendar DEF Rows
<1>6. /\ Min(W(k)) \in W(k) /\ Min(W(k)) \in Nat /\ \A i \in W(k) : Min(W(k)) <= i
  <2>1. W(k) \in SUBSET DOMAIN frame.days
    BY DEF WindowIn
  <2>2. W(k) # {}
    BY <1>1
  <2>3. QED
    BY <2>1, <2>2, WindowEnds
<1>7. ASSUME NEW t \in Rows, t + purge < Min(W(k)) PROVE Days[t] < start
  <2> DEFINE first == Min(W(k))
  <2>1. first \in Rows /\ start <= Days[first] /\ Days[first] < start + length
    BY <1>6 DEF WindowIn, Rows
  <2>2. t < first
    BY <1>3, <1>5, <1>6, <1>7
  <2>3. Days[t] < Days[first]
    BY <2>1, <2>2, StudyAssumption DEF Rows
  <2>4. start \in Nat /\ length \in Nat
    BY WindowStarts, Calendar
  <2>5. Days[t] >= start => t \in W(k)
    <3>1. Days[t] < start + length
      BY <1>5, <2>1, <2>3, <2>4
    <3>2. QED
      BY <3>1 DEF WindowIn, Rows
  <2>6. t \notin W(k)
    BY <1>5, <1>6, <2>2
  <2>7. QED
    BY <1>5, <2>4, <2>5, <2>6
<1>8. \A j \in Earlier : Max(W(j)) \in Nat /\ embargo \in Nat
  <2>1. TAKE j \in Earlier
  <2>2. W(j) \in SUBSET DOMAIN frame.days
    BY DEF WindowIn
  <2>3. QED
    BY <2>2, WindowEnds, Calendar
<1>9. Gaps = UNION {(Max(W(j)) + 1)..(Max(W(j)) + embargo) : j \in Earlier}
  <2>1. Gaps = UNION {(Max(w) + 1)..(Max(w) + embargo) : w \in {W(j) : j \in Earlier}}
    BY <1>2 DEF Gaps
  <2> HIDE DEF W, Earlier, embargo
  <2>2. QED
    BY <2>1
<1>10. ASSUME NEW t \in Rows
       PROVE  (\A g \in GapsIn(frame, setting, k) : t < g.from \/ t >= g.to) <=> t \notin Gaps
  <2>1. t \in Nat
    BY <1>5
  <2>2. \A j \in 0..(k-1) : W(j) # {} => Max(W(j)) \in Nat /\ setting.embargo \in Nat
    BY <1>8
  <2>3. (\A g \in GapsIn(frame, setting, k) : t < g.from \/ t >= g.to)
          <=> \A j \in 0..(k-1) : W(j) # {} => t \notin (Max(W(j)) + 1)..(Max(W(j)) + embargo)
    BY <2>1, <2>2, GapsUpTo
  <2> HIDE DEF W, embargo
  <2>4. QED
    BY <1>9, <2>3
<1>11. \A t : t \in fold.raw <=>
         /\ t \in Rows /\ Days[t] < start /\ (purge > 0 => t + purge < Min(W(k)))
         /\ \A g \in GapsIn(frame, setting, k) : t < g.from \/ t >= g.to
  BY <1>1 DEF RawIn, Rows
<1> HIDE DEF W, Days, start, purge
<1>12. \A t : t \in fold.raw <=> t \in Rows /\ t + purge < Min(W(k)) /\ t \notin Gaps
  BY <1>3, <1>7, <1>10, <1>11
<1>13. fold.train = {t \in Rows : TrainOk(t) /\ t + purge < Min(W(k))} \ Gaps
  BY <1>3, <1>4, <1>12
<1>14. QED
  BY <1>2, <1>13 DEF TrainsOnAllThatIsLegal, purge

\* The rows a fold may train on end, labels and all, before its test rows.
LEMMA RawRowsAreOver ==
  ASSUME NEW f \in Frames, NEW s \in Settings, NEW fo, NEW sp,
         FoldIn(f, s, fo, sp), NEW t \in fo.raw, NEW i \in fo.test
  PROVE  t \in Nat /\ i \in Nat /\ t + LabelSpan < i
<1>1. PICK k \in Nat : fo.test \subseteq WindowIn(f, s, k) /\ fo.raw = RawIn(f, s, k)
  BY DEF FoldIn
<1>2. s.purge >= LabelSpan /\ s.purge \in Nat /\ LabelSpan \in Nat /\ LabelSpan > 0
  <2>1. s.purge >= LabelSpan
    BY DEF FoldIn, LongIn
  <2>2. QED
    BY <2>1, StudyAssumption DEF LabelSpan
<1>3. /\ Min(WindowIn(f, s, k)) \in Nat
      /\ \A j \in WindowIn(f, s, k) : Min(WindowIn(f, s, k)) <= j
  <2>1. WindowIn(f, s, k) \in SUBSET DOMAIN f.days
    BY DEF WindowIn
  <2>2. WindowIn(f, s, k) # {}
    BY <1>1
  <2>3. QED
    BY <2>1, <2>2, WindowEnds
<1>4. t + s.purge < Min(WindowIn(f, s, k)) /\ Min(WindowIn(f, s, k)) <= i
  BY <1>1, <1>2, <1>3 DEF RawIn
<1>5. t \in Nat /\ i \in Nat
  BY Calendar DEF FoldIn
<1>6. QED
  BY <1>2, <1>3, <1>4, <1>5

LEMMA NoTestIsKnown ==
  ASSUME frame \in Frames, setting \in Settings, FoldIn(frame, setting, fold, split)
  PROVE  TrainingKnowsNoTest
<1>1. fold.train \cup split.train \cup split.test \subseteq fold.raw
  BY DEF FoldIn
<1>2. ASSUME fold.test # {}, NEW t \in fold.raw PROVE t + LabelSpan < Min(fold.test)
  <2>1. Min(fold.test) \in fold.test
    <3>1. fold.test \in SUBSET DOMAIN frame.days
      BY DEF FoldIn
    <3>2. QED
      BY <1>2, <3>1, WindowEnds
  <2>2. QED
    BY <2>1, RawRowsAreOver
<1>3. split.test # {} => \A t \in split.train : t + LabelSpan < Min(split.test)
  BY DEF FoldIn
<1>4. QED
  BY <1>1, <1>2, <1>3 DEF TrainingKnowsNoTest

-----------------------------------------------------------------------------
(* ---- Every step keeps the invariant ------------------------------------- *)

LEMMA StudyBegins == StudyInit => StudyInv
<1> SUFFICES ASSUME StudyInit PROVE StudyInv
  OBVIOUS
<1>1. frame \in Frames /\ setting \in Settings /\ WalkIn(frame, setting, phase, outer)
  BY DEF StudyInit, WalkIn
<1>2. FoldIn(frame, setting, fold, split)
  BY DEF StudyInit, FoldIn, NoFold, NoSplit
<1>3. SeenIn(frame, seen)
  BY DEF StudyInit, SeenIn, Rows
<1>4. ScanIn(seen, phase, row, desired, order, held)
  <2>1. row = 1 /\ desired = NeverLong /\ order = NoOrder /\ held = FALSE
    BY DEF StudyInit
  <2>2. desired.before = FALSE /\ desired.last = FALSE /\ desired.knows = 0 /\ order.side = "none"
    BY <2>1 DEF NeverLong, NoOrder
  <2>3. row \in Nat \ {0} /\ desired.knows \in Nat /\ desired.knows < row
    BY <2>1, <2>2
  <2>4. desired.last \in BOOLEAN /\ desired.before \in BOOLEAN /\ held = desired.before
    BY <2>1, <2>2
  <2>5. ~desired.last /\ ~desired.before
    BY <2>2
  <2>6. QED
    BY <2>1, <2>2, <2>3, <2>4, <2>5 DEF ScanIn
<1>5. QED
  BY <1>1, <1>2, <1>3, <1>4 DEF StudyInv

\* Outside the scan nothing is wanted yet.
LEMMA ScanWaits ==
  ASSUME NEW se, NEW se2, NEW p, NEW p2, NEW n, NEW d, NEW o, NEW h,
         ScanIn(se, p, n, d, o, h), p \notin {"trade", "end"}
  PROVE  ScanIn(se2, p2, n, d, o, h)
<1>1. n = 1 /\ ~d.last /\ ~d.before
  BY DEF ScanIn
<1>2. QED
  BY <1>1 DEF ScanIn

LEMMA BeginStep == StudyInv /\ BeginWalk => StudyInv'
<1> SUFFICES ASSUME StudyInv, BeginWalk PROVE StudyInv'
  OBVIOUS
<1>1. /\ frame' = frame /\ setting' = setting /\ fold' = fold /\ split' = split /\ seen' = seen
      /\ row' = row /\ desired' = desired /\ order' = order /\ held' = held /\ phase = "start"
  BY DEF BeginWalk, Goto
<1>2. frame' \in Frames /\ setting' \in Settings /\ FoldIn(frame, setting, fold, split)'
      /\ SeenIn(frame, seen)'
  BY <1>1 DEF StudyInv
<1>3. ScanIn(seen, phase, row, desired, order, held)'
  <2>1. ScanIn(seen, phase', row, desired, order, held)
    BY <1>1, ScanWaits DEF StudyInv
  <2>2. QED
    BY <1>1, <2>1
<1>4. WalkIn(frame, setting, phase, outer)'
  <2>1. CASE phase' = "refused"
    BY <2>1 DEF WalkIn
  <2>2. CASE phase' # "refused"
    <3>1. LongIn(setting) /\ outer' = Walk(frame.days[1], setting.initial)
      BY <2>2 DEF BeginWalk, Goto, LongEnough, LongIn
    <3>2. setting \in Settings /\ setting.initial \in Nat /\ setting.test \in Nat
      BY StudyAssumption DEF StudyInv
    <3>3. StartOf(frame, setting, 0) = frame.days[1] + setting.initial * DaysPerMonth
      BY <3>2 DEF StartOf
    <3>4. GapsIn(frame, setting, 0) = {}
      BY DEF GapsIn
    <3>5. outer' = [bound |-> StartOf(frame, setting, 0), gaps |-> GapsIn(frame, setting, 0)]
      BY <3>1, <3>3, <3>4 DEF Walk
    <3>6. \E k \in Nat : outer' = [bound |-> StartOf(frame, setting, k), gaps |-> GapsIn(frame, setting, k)]
      BY <3>5
    <3>7. QED
      BY <1>1, <3>1, <3>6 DEF WalkIn
  <2>3. QED
    BY <2>1, <2>2
<1>5. QED
  BY <1>2, <1>3, <1>4 DEF StudyInv

\* Past one window the walk is at the next, with one more gap if it held rows.
LEMMA WalkMovesOn ==
  ASSUME NEW f \in Frames, NEW s \in Settings, NEW k \in Nat
  PROVE  /\ StartOf(f, s, k + 1) = StartOf(f, s, k) + s.test * DaysPerMonth
         /\ GapsIn(f, s, k + 1)
              = GapsIn(f, s, k) \cup
                  (IF WindowIn(f, s, k) = {} THEN {} ELSE {GapAfter(s, WindowIn(f, s, k))})
<1> DEFINE w(j) == WindowIn(f, s, j)
           gap(j) == GapAfter(s, w(j))
<1>1. \A n : GapsIn(f, s, n) = {gap(j) : j \in {m \in 0..(n-1) : w(m) # {}}}
  BY DEF GapsIn
<1>2. 0..((k+1)-1) = 0..(k-1) \cup {k}
  OBVIOUS
<1> HIDE DEF gap, w
<1>3. {m \in 0..((k+1)-1) : w(m) # {}}
        = {m \in 0..(k-1) : w(m) # {}} \cup (IF w(k) = {} THEN {} ELSE {k})
  BY <1>2
<1>4. GapsIn(f, s, k + 1) = GapsIn(f, s, k) \cup (IF w(k) = {} THEN {} ELSE {gap(k)})
  BY <1>1, <1>3
<1>5. QED
  BY <1>4, StartsFollow DEF gap, w

LEMMA OuterFoldStep == StudyInv /\ OuterFold => StudyInv'
<1> SUFFICES ASSUME StudyInv, OuterFold PROVE StudyInv'
  OBVIOUS
<1> DEFINE tests == Tests(frame.days, outer, setting.test)
           raw == IF tests = {} THEN {} ELSE Trains(frame.days, outer, tests)
           train == {t \in raw : TrainOk(t)}
           test == {t \in tests : InferOk(t)}
<1>1. /\ frame' = frame /\ setting' = setting /\ seen' = seen /\ row' = row
      /\ desired' = desired /\ order' = order /\ held' = held
      /\ phase = "outer" /\ split' = NoSplit
      /\ outer' = Advanced(outer, tests, setting.test)
  BY DEF OuterFold, Goto
<1>2. \/ fold' = fold
      \/ /\ train # {} /\ test # {}
         /\ fold' = [raw |-> raw, train |-> train, test |-> test, tuned |-> FALSE]
  BY DEF OuterFold
<1>3. PICK k \in Nat : outer = [bound |-> StartOf(frame, setting, k), gaps |-> GapsIn(frame, setting, k)]
  BY <1>1 DEF StudyInv, WalkIn
<1>4. LongIn(setting) /\ frame \in Frames /\ setting \in Settings
  BY <1>1 DEF StudyInv, WalkIn
<1>5. tests = WindowIn(frame, setting, k)
  BY <1>3 DEF Tests, WindowIn
<1>6. WalkIn(frame, setting, phase, outer)'
  <2>1. outer' = [bound |-> StartOf(frame, setting, k) + setting.test * DaysPerMonth,
                  gaps |-> GapsIn(frame, setting, k) \cup
                             (IF WindowIn(frame, setting, k) = {} THEN {}
                              ELSE {GapAfter(setting, WindowIn(frame, setting, k))})]
    BY <1>1, <1>3, <1>5 DEF Advanced, Gap, GapAfter
  <2>2. outer' = [bound |-> StartOf(frame, setting, k + 1), gaps |-> GapsIn(frame, setting, k + 1)]
    BY <1>4, <2>1, WalkMovesOn
  <2>3. \E m \in Nat : outer' = [bound |-> StartOf(frame, setting, m), gaps |-> GapsIn(frame, setting, m)]
    BY <2>2
  <2>4. QED
    BY <1>1, <1>4, <2>3 DEF WalkIn
<1>7. ScanIn(seen, phase, row, desired, order, held)'
  <2>1. ScanIn(seen, phase', row, desired, order, held)
    BY <1>1, ScanWaits DEF StudyInv
  <2>2. QED
    BY <1>1, <2>1
<1>8. FoldIn(frame, setting, fold, split)'
  <2>1. CASE fold' = fold
    BY <1>1, <2>1 DEF StudyInv, FoldIn, NoSplit
  <2>2. CASE /\ train # {} /\ test # {}
             /\ fold' = [raw |-> raw, train |-> train, test |-> test, tuned |-> FALSE]
    <3>1. raw = RawIn(frame, setting, k)
      <4>1. tests # {}
        BY <2>2
      <4>2. raw = Trains(frame.days, outer, tests)
        BY <4>1
      <4> HIDE DEF raw, tests
      <4>3. QED
        BY <1>3, <1>5, <4>2 DEF Trains, Outside, Purged, RawIn
    <3>2. raw \subseteq DOMAIN frame.days
      BY <3>1 DEF RawIn
    <3>3. train = {t \in raw : TrainOkIn(frame, t)}
      BY DEF TrainOk, InferOk, LabelKnown, TrainOkIn, Rows
    <3>4. test \subseteq WindowIn(frame, setting, k) /\ test \subseteq DOMAIN frame.days
      BY <1>5 DEF WindowIn
    <3> HIDE DEF raw, train, test
    <3>5. /\ fold'.raw = raw /\ fold'.train = train /\ fold'.test = test
          /\ split'.train = {} /\ split'.test = {}
      BY <1>1, <2>2 DEF NoSplit
    <3>6. \E m \in Nat : fold'.test \subseteq WindowIn(frame, setting, m) /\ fold'.raw = RawIn(frame, setting, m)
      BY <3>1, <3>4, <3>5
    <3>7. FoldIn(frame, setting, fold', split')
      BY <1>4, <3>2, <3>3, <3>4, <3>5, <3>6 DEF FoldIn
    <3>8. QED
      BY <1>1, <3>7
  <2>3. QED
    BY <1>2, <2>1, <2>2
<1>9. QED
  BY <1>1, <1>4, <1>6, <1>7, <1>8 DEF StudyInv

\* The purge counts positions of the sub-frame; the rows are further apart.
LEMMA InnerFoldStep == StudyInv /\ InnerFold => StudyInv'
<1> SUFFICES ASSUME StudyInv, InnerFold PROVE StudyInv'
  OBVIOUS
<1> DEFINE positions == Sorted(fold.raw)
           days == [k \in DOMAIN positions |-> frame.days[positions[k]]]
           tests == Tests(days, inner, setting.innerTest)
           Mapped(ks) == {positions[k] : k \in ks}
           train == {t \in Mapped(Trains(days, inner, tests)) : TrainOk(t)}
           validation == {t \in Mapped(tests) : TrainOk(t)}
<1>1. /\ frame' = frame /\ setting' = setting /\ seen' = seen /\ row' = row
      /\ desired' = desired /\ order' = order /\ held' = held /\ outer' = outer
      /\ phase = "inner" /\ phase' \in {"fit", "inner"}
  BY DEF InnerFold, Goto
<1>2. \/ fold' = fold /\ split' = split
      \/ split' = [train |-> train, test |-> validation] /\ fold' = [fold EXCEPT !.tuned = TRUE]
  BY DEF InnerFold
<1>3. LongIn(setting) /\ frame \in Frames /\ setting \in Settings /\ FoldIn(frame, setting, fold, split)
  BY <1>1 DEF StudyInv, WalkIn
<1>4. WalkIn(frame, setting, phase, outer)'
  BY <1>1 DEF StudyInv, WalkIn
<1>5. ScanIn(seen, phase, row, desired, order, held)'
  <2>1. ScanIn(seen, phase', row, desired, order, held)
    BY <1>1, ScanWaits DEF StudyInv
  <2>2. QED
    BY <1>1, <2>1
<1>6. FoldIn(frame, setting, fold, split)'
  <2>1. CASE fold' = fold /\ split' = split
    BY <1>1, <1>3, <2>1
  <2>2. CASE split' = [train |-> train, test |-> validation] /\ fold' = [fold EXCEPT !.tuned = TRUE]
    <3>1. setting.purge \in Nat /\ setting.purge >= LabelSpan /\ LabelSpan \in Nat /\ LabelSpan > 0
      BY <1>3, StudyAssumption DEF LongIn, LabelSpan
    <3>2. IsFiniteSet(fold.raw) /\ fold.raw \subseteq Nat
      <4>1. fold.raw \subseteq DOMAIN frame.days /\ IsFiniteSet(DOMAIN frame.days)
            /\ DOMAIN frame.days \subseteq Nat
        BY <1>3, Calendar DEF FoldIn
      <4>2. QED
        BY <4>1, FS_Subset
    <3>3. /\ DOMAIN positions = 1..Cardinality(fold.raw) /\ Cardinality(fold.raw) \in Nat
          /\ \A k \in 1..Cardinality(fold.raw) : positions[k] \in fold.raw
          /\ \A i, j \in 1..Cardinality(fold.raw) : i < j => positions[i] + (j - i) <= positions[j]
      BY <3>2, SortedRows
    <3> HIDE DEF positions
    <3>4. DOMAIN days = 1..Cardinality(fold.raw)
      BY <3>3
    <3> HIDE DEF days
    <3>5. tests \subseteq 1..Cardinality(fold.raw)
      BY <3>4 DEF Tests
    <3> HIDE DEF tests
    <3>6. /\ Trains(days, inner, tests) \subseteq 1..Cardinality(fold.raw)
          /\ \A i \in Trains(days, inner, tests) : i + setting.purge < Min(tests)
      BY <3>1, <3>4 DEF Trains, Outside, Purged
    <3>7. train \subseteq fold.raw /\ validation \subseteq fold.raw
      BY <3>3, <3>5, <3>6
    <3>8. ASSUME NEW u \in train, NEW v \in validation PROVE u + LabelSpan < v
      <4>1. PICK i \in Trains(days, inner, tests) : u = positions[i]
        OBVIOUS
      <4>2. PICK j \in tests : v = positions[j]
        OBVIOUS
      <4>3. i \in 1..Cardinality(fold.raw) /\ j \in 1..Cardinality(fold.raw) /\ i \in Nat /\ j \in Nat
        BY <3>3, <3>5, <3>6
      <4>4. tests \subseteq Nat /\ tests # {}
        BY <3>3, <3>5
      <4>5. Min(tests) <= j /\ Min(tests) \in Nat
        BY <4>4, MinOfNaturals
      <4>6. i + setting.purge < j
        BY <3>1, <3>6, <4>3, <4>5
      <4>7. positions[i] + (j - i) <= positions[j] /\ positions[i] \in Nat /\ positions[j] \in Nat
        BY <3>1, <3>2, <3>3, <4>3, <4>6
      <4>8. QED
        BY <3>1, <4>1, <4>2, <4>3, <4>6, <4>7
    <3>9. validation # {} => \A u \in train : u + LabelSpan < Min(validation)
      <4>1. validation # {} => Min(validation) \in validation
        BY <3>2, <3>7, MinOfNaturals
      <4>2. QED
        BY <3>8, <4>1
    <3> HIDE DEF train, validation
    <3>10. /\ split'.train = train /\ split'.test = validation
           /\ fold'.raw = fold.raw /\ fold'.train = fold.train /\ fold'.test = fold.test
      <4>1. split'.train = train /\ split'.test = validation
        BY <2>2
      <4>2. fold'.raw = fold.raw /\ fold'.train = fold.train /\ fold'.test = fold.test
        BY <2>2
      <4>3. QED
        BY <4>1, <4>2
    <3>11. FoldIn(frame, setting, fold', split')
      BY <1>3, <3>7, <3>9, <3>10 DEF FoldIn
    <3>12. QED
      BY <1>1, <3>11
  <2>3. QED
    BY <1>2, <2>1, <2>2
<1>7. QED
  BY <1>1, <1>3, <1>4, <1>5, <1>6 DEF StudyInv

\* Every label is over before the rows it helps to predict.
LEMMA FitStep == StudyInv /\ Fit => StudyInv'
<1> SUFFICES ASSUME StudyInv, Fit PROVE StudyInv'
  OBVIOUS
<1> DEFINE labels == IF fold.tuned THEN {t \in fold.raw : TrainOk(t)} ELSE fold.train
           heard(t) == Max({t} \cup {u + LabelSpan : u \in labels})
<1>1. /\ frame' = frame /\ setting' = setting /\ fold' = fold /\ split' = split /\ outer' = outer
      /\ row' = row /\ desired' = desired /\ order' = order /\ held' = held
      /\ phase = "fit" /\ phase' = "outer"
      /\ seen' = [t \in Rows |-> IF t \in fold.test THEN heard(t) ELSE seen[t]]
  BY DEF Fit, Goto
<1>2. frame \in Frames /\ setting \in Settings /\ FoldIn(frame, setting, fold, split)
  BY DEF StudyInv
<1>3. frame' \in Frames /\ setting' \in Settings /\ FoldIn(frame, setting, fold, split)'
  BY <1>1, <1>2
<1>4. WalkIn(frame, setting, phase, outer)'
  BY <1>1 DEF StudyInv, WalkIn
<1>5. ScanIn(seen, phase, row, desired, order, held)'
  <2>1. ScanIn(seen', phase', row, desired, order, held)
    BY <1>1, ScanWaits DEF StudyInv
  <2>2. QED
    BY <1>1, <2>1
<1>6. ASSUME NEW t \in fold.test PROVE heard(t) = t
  <2>1. labels \subseteq fold.raw
    BY <1>2 DEF FoldIn
  <2>2. \A u \in labels : u + LabelSpan \in Nat /\ u + LabelSpan < t /\ t \in Nat
    <3>1. TAKE u \in labels
    <3>2. u \in Nat /\ t \in Nat /\ u + LabelSpan < t /\ LabelSpan \in Nat
      BY <1>2, <2>1, RawRowsAreOver, StudyAssumption DEF LabelSpan
    <3>3. QED
      BY <3>2
  <2>3. t \in Nat
    BY <1>2, Calendar DEF FoldIn
  <2> DEFINE S == {t} \cup {u + LabelSpan : u \in labels}
  <2> HIDE DEF labels
  <2>4. t \in S /\ \A x \in S : x \in Nat /\ x <= t
    BY <2>2, <2>3
  <2> HIDE DEF S
  <2>5. Max(S) \in S /\ \A y \in S : Max(S) >= y
    BY <2>3, <2>4 DEF Max
  <2>6. Max(S) = t
    <3>1. Max(S) \in Nat /\ Max(S) <= t /\ Max(S) >= t
      BY <2>4, <2>5
    <3>2. QED
      BY <2>3, <3>1
  <2>7. QED
    BY <2>6 DEF S
<1> HIDE DEF heard
<1>7. SeenIn(frame, seen)'
  <2>1. DOMAIN seen' = DOMAIN frame.days /\ \A t \in DOMAIN frame.days : seen'[t] \in {0, t}
    BY <1>1, <1>6 DEF StudyInv, SeenIn, Rows
  <2>2. seen' = [t \in DOMAIN frame.days |-> seen'[t]]
    BY <1>1 DEF Rows
  <2>3. QED
    BY <1>1, <2>1, <2>2 DEF SeenIn
<1>8. QED
  BY <1>3, <1>4, <1>5, <1>7 DEF StudyInv

LEMMA ConcludeStep == StudyInv /\ Conclude => StudyInv'
<1> SUFFICES ASSUME StudyInv, Conclude PROVE StudyInv'
  OBVIOUS
<1>1. /\ frame' = frame /\ setting' = setting /\ fold' = NoFold /\ split' = NoSplit /\ outer' = outer
      /\ seen' = seen /\ row' = row /\ desired' = desired /\ order' = order /\ held' = held
      /\ phase = "outer"
  BY DEF Conclude, Goto
<1>2. frame' \in Frames /\ setting' \in Settings /\ SeenIn(frame, seen)'
  BY <1>1 DEF StudyInv
<1>3. WalkIn(frame, setting, phase, outer)'
  BY <1>1 DEF StudyInv, WalkIn
<1>4. FoldIn(frame, setting, fold, split)'
  BY <1>1 DEF FoldIn, NoFold, NoSplit
<1>5. ScanIn(seen, phase, row, desired, order, held)'
  <2>1. ScanIn(seen, phase', row, desired, order, held)
    BY <1>1, ScanWaits DEF StudyInv
  <2>2. QED
    BY <1>1, <2>1
<1>6. QED
  BY <1>2, <1>3, <1>4, <1>5 DEF StudyInv

LEMMA SessionStep == StudyInv /\ ScanSession => StudyInv'
<1> SUFFICES ASSUME StudyInv, ScanSession PROVE StudyInv'
  OBVIOUS
<1>1. PICK forecast \in Forecasts :
        /\ desired' = Scanned(forecast) /\ order' = Order(forecast)
        /\ held' = CASE order'.side = "buy" -> TRUE [] order'.side = "sell" -> FALSE [] OTHER -> held
  BY DEF ScanSession
<1>2. /\ frame' = frame /\ setting' = setting /\ fold' = fold /\ split' = split /\ outer' = outer
      /\ seen' = seen /\ row' = row + 1 /\ phase = "trade" /\ phase' \in {"trade", "end"} /\ row \in Rows
  BY DEF ScanSession, Goto
<1>3. frame' \in Frames /\ setting' \in Settings /\ SeenIn(frame, seen)' /\ FoldIn(frame, setting, fold, split)'
  BY <1>2 DEF StudyInv
<1>4. WalkIn(frame, setting, phase, outer)'
  BY <1>2 DEF StudyInv, WalkIn
<1>5. /\ row \in Nat \ {0} /\ desired.knows \in Nat /\ desired.knows < row
      /\ desired.last \in BOOLEAN /\ desired.before \in BOOLEAN /\ held = desired.before
      /\ desired.last => row > 1 /\ seen[row - 1] # 0
  BY DEF StudyInv, ScanIn
<1>6. seen[row] = 0 \/ seen[row] = row
  BY <1>2 DEF StudyInv, SeenIn, Rows
<1>7. /\ DesiredLong(forecast, desired.last) \in BOOLEAN
      /\ DesiredLong(forecast, desired.last) => seen[row] # 0
  BY <1>1, <1>5 DEF Forecasts, DesiredLong
<1>8. /\ desired'.before = desired.last /\ desired'.last = DesiredLong(forecast, desired.last)
      /\ desired'.knows = Max({desired.knows, seen[row]})
  BY <1>1 DEF Scanned
<1>9. desired'.knows \in Nat /\ desired'.knows < row + 1
  <2> DEFINE S == {desired.knows, seen[row]}
  <2>1. \A x \in S : x \in Nat /\ x <= row
    BY <1>5, <1>6
  <2>2. S \in SUBSET (0..row) /\ S # {}
    BY <1>5, <2>1
  <2>3. Max(S) \in S
    BY <1>5, <2>2, MaxOfBounded
  <2>4. QED
    BY <1>5, <1>8, <2>1, <2>3
<1>10. /\ order'.row = row /\ order'.knows = desired.knows
       /\ order'.side = Transition(desired.before, desired.last)
  BY <1>1 DEF Order
<1>11. held' = desired.last
  <2>1. CASE desired.last = desired.before
    BY <1>1, <1>5, <1>10, <2>1 DEF Transition
  <2>2. CASE desired.last /\ ~desired.before
    BY <1>1, <1>5, <1>10, <2>2 DEF Transition
  <2>3. CASE ~desired.last /\ desired.before
    BY <1>1, <1>5, <1>10, <2>3 DEF Transition
  <2>4. QED
    BY <1>5, <2>1, <2>2, <2>3
<1>12. ScanIn(seen, phase', row', desired', order', held')
  <2>1. row' \in Nat \ {0} /\ desired'.knows \in Nat /\ desired'.knows < row'
    BY <1>2, <1>5, <1>9
  <2>2. desired'.last \in BOOLEAN /\ desired'.before \in BOOLEAN /\ held' = desired'.before
    BY <1>5, <1>7, <1>8, <1>11
  <2>3. desired'.last => row' > 1 /\ seen[row' - 1] # 0
    <3>1. row' > 1 /\ row' - 1 = row
      BY <1>2, <1>5
    <3>2. QED
      BY <1>7, <1>8, <3>1
  <2>4. desired'.before => row' > 2 /\ seen[row' - 2] # 0
    <3>1. desired'.before => row > 1 /\ seen[row - 1] # 0
      BY <1>5, <1>8
    <3>2. row' - 2 = row - 1 /\ (row > 1 => row' > 2)
      BY <1>2, <1>5
    <3>3. QED
      BY <3>1, <3>2
  <2>5. order'.side # "none" => order'.knows < order'.row
    BY <1>5, <1>10
  <2>6. phase' \in {"trade", "end"}
    BY <1>2
  <2>7. QED
    BY <2>1, <2>2, <2>3, <2>4, <2>5, <2>6 DEF ScanIn
<1>13. QED
  BY <1>2, <1>3, <1>4, <1>12 DEF StudyInv

LEMMA StudyStep == StudyInv /\ [StudyNext]_studyVars => StudyInv'
<1> SUFFICES ASSUME StudyInv, [StudyNext]_studyVars PROVE StudyInv'
  OBVIOUS
<1>1. CASE UNCHANGED studyVars
  BY <1>1 DEF studyVars, StudyInv
<1>2. QED
  BY <1>1, BeginStep, OuterFoldStep, InnerFoldStep, FitStep, ConcludeStep, SessionStep DEF StudyNext

-----------------------------------------------------------------------------
(* ---- The theorems ------------------------------------------------------- *)

\* Whatever the calendar, the blank rows, the corporate actions and the window
\* sizes, the walk, the folds, what a prediction has seen and what the scan
\* holds stay as StudyInv describes them.
THEOREM StudyInvariance == StudySpec => []StudyInv
<1>1. StudyInit => StudyInv
  BY StudyBegins
<1>2. StudyInv /\ [StudyNext]_studyVars => StudyInv'
  BY StudyStep
<1>3. QED
  BY <1>1, <1>2, PTL DEF StudySpec

\* A fold trains on every usable row whose label ends before its window, outside
\* the gaps of the windows before it, and on no other; and no label it is fitted
\* or tuned on is still open when the rows it is judged on begin
\* (walk_forward_splits, nested_walk_forward, inner_splits_over).
THEOREM LegalTraining == StudySpec => []TrainsOnTheLegalRows
<1>1. StudyInv => TrainsOnTheLegalRows
  BY LegalRows, NoTestIsKnown DEF StudyInv, TrainsOnTheLegalRows
<1>2. QED
  BY <1>1, StudyInvariance, PTL

\* No order rests on a price after the close before its open, and a position is
\* held through an open only on a forecast made at that close
\* (signal_from_positions, the position scan).
THEOREM HonestOrders == StudySpec => []OrdersRestOnForecasts
<1>1. StudyInv => OrdersRestOnForecasts
  <2> SUFFICES ASSUME StudyInv PROVE OrdersRestOnForecasts
    OBVIOUS
  <2>1. ScanIn(seen, phase, row, desired, order, held)
    BY DEF StudyInv
  <2>2. NoLookAhead
    BY <2>1 DEF ScanIn, NoLookAhead
  <2>3. HeldOnForecast
    BY <2>1 DEF ScanIn, HeldOnForecast
  <2>4. QED
    BY <2>2, <2>3 DEF OrdersRestOnForecasts
<1>2. QED
  BY <1>1, StudyInvariance, PTL

-----------------------------------------------------------------------------
(* ---- The comparison of two feature sets --------------------------------- *)

\* The pair of an entry, as one process alone computes it.
PairFor(data, e) == Reference(data, e)

\* Every result is filed under its own unit, whoever computed it and whenever.
FiledIn(un) == \A u \in DOMAIN un : un[u] = u

\* What the parent holds of an entry is what a serial run would.
PairsIn(data, pa) == DOMAIN pa \subseteq DOMAIN Entries /\ \A e \in DOMAIN pa : pa[e] = PairFor(data, e)

PendingIn(at, pa, te) == at \in {"write", "serial write"} => te = InOrder(pa)

\* The file is whole and right; while its run goes on the parent still holds
\* what is in it.
FileIn(at, pa, cp, n) ==
  /\ n \in Nat /\ cp.run \in Nat /\ cp.run <= n
  /\ cp.whole /\ Serial(cp.data, cp.results)
  /\ (cp.run = n /\ at # "off") =>
       \A i \in DOMAIN cp.results :
         \E e \in DOMAIN pa : cp.results[i] = [entry |-> e, verdict |-> pa[e]]

ReportIn(re) ==
  /\ Serial(re.data, re.results)
  /\ re # NoReport => Len(re.results) = Len(Entries)

ParentIn(p) == DOMAIN p = {"at", "data", "max", "collected", "raised"}

SweepInv ==
  /\ ParentIn(parent)
  /\ FiledIn(units) /\ PairsIn(parent.data, pairs) /\ PendingIn(parent.at, pairs, temporary)
  /\ FileIn(parent.at, pairs, checkpoint, runs) /\ ReportIn(report)

LEMMA FewEntries ==
  ASSUME NEW S, S \subseteq DOMAIN Entries
  PROVE  IsFiniteSet(S) /\ S \subseteq Nat /\ Len(Entries) \in Nat
         /\ (S = DOMAIN Entries => Cardinality(S) = Len(Entries))
<1>1. Len(Entries) \in Nat /\ DOMAIN Entries = 1..Len(Entries)
  BY SweepAssumption
<1>2. IsFiniteSet(1..Len(Entries))
  BY <1>1, FS_Interval
<1>3. Cardinality(1..Len(Entries)) = Len(Entries)
  <2>1. Cardinality(1..Len(Entries)) = IF 1 > Len(Entries) THEN 0 ELSE Len(Entries) - 1 + 1
    BY <1>1, FS_Interval
  <2>2. QED
    BY <1>1, <2>1
<1>4. QED
  BY <1>1, <1>2, <1>3, FS_Subset

\* The pairs so far, in report order: each once, whole, and none left out.
LEMMA InReportOrder ==
  ASSUME NEW data, NEW pa, PairsIn(data, pa)
  PROVE  /\ Serial(data, InOrder(pa))
         /\ \A i \in DOMAIN InOrder(pa) :
              \E e \in DOMAIN pa : InOrder(pa)[i] = [entry |-> e, verdict |-> pa[e]]
         /\ \A e \in DOMAIN pa :
              \E i \in DOMAIN InOrder(pa) : InOrder(pa)[i] = [entry |-> e, verdict |-> pa[e]]
         /\ DOMAIN pa = DOMAIN Entries => Len(InOrder(pa)) = Len(Entries)
<1> DEFINE S == DOMAIN pa
           known == Sorted(S)
           listed == InOrder(pa)
<1>1. IsFiniteSet(S) /\ S \subseteq Nat /\ (S = DOMAIN Entries => Cardinality(S) = Len(Entries))
  BY FewEntries DEF PairsIn
<1>2. listed = [i \in DOMAIN known |-> [entry |-> known[i], verdict |-> pa[known[i]]]]
  BY DEF InOrder
<1>3. /\ DOMAIN known = 1..Cardinality(S) /\ Cardinality(S) \in Nat
      /\ \A k \in 1..Cardinality(S) : known[k] \in S
      /\ \A i, j \in 1..Cardinality(S) : i < j => known[i] + (j - i) <= known[j]
  BY <1>1, SortedRows
<1>4. ASSUME NEW e \in S PROVE \E i \in DOMAIN known : known[i] = e
  BY <1>1, EveryElementSorted
<1> HIDE DEF known, listed, S
<1>5. /\ DOMAIN listed = 1..Cardinality(S)
      /\ \A i \in 1..Cardinality(S) : listed[i] = [entry |-> known[i], verdict |-> pa[known[i]]]
  BY <1>2, <1>3
<1>6. Serial(data, listed)
  <2>1. ASSUME NEW i \in DOMAIN listed PROVE listed[i].verdict = PairFor(data, listed[i].entry)
    BY <1>3, <1>5 DEF PairsIn, S
  <2>2. ASSUME NEW i \in DOMAIN listed, i > 1 PROVE listed[i - 1].entry < listed[i].entry
    <3>1. i \in Nat /\ i - 1 \in 1..Cardinality(S) /\ i \in 1..Cardinality(S) /\ i - 1 < i
      BY <1>3, <1>5, <2>2
    <3>2. known[i - 1] + (i - (i - 1)) <= known[i] /\ known[i - 1] \in Nat /\ known[i] \in Nat
      BY <1>1, <1>3, <3>1
    <3>3. listed[i - 1].entry = known[i - 1] /\ listed[i].entry = known[i]
      BY <1>5, <3>1
    <3>4. QED
      BY <3>1, <3>2, <3>3
  <2>3. QED
    BY <2>1, <2>2 DEF Serial, PairFor
<1>7. \A i \in DOMAIN listed : \E e \in S : listed[i] = [entry |-> e, verdict |-> pa[e]]
  BY <1>3, <1>5
<1>8. \A e \in S : \E i \in DOMAIN listed : listed[i] = [entry |-> e, verdict |-> pa[e]]
  BY <1>3, <1>4, <1>5
<1>9. S = DOMAIN Entries => Len(listed) = Len(Entries)
  <2>1. Len(listed) = Cardinality(S)
    <3>1. listed = [i \in 1..Cardinality(S) |-> [entry |-> known[i], verdict |-> pa[known[i]]]]
      BY <1>2, <1>3
    <3>2. QED
      BY <1>3, <3>1
  <2>2. QED
    BY <1>1, <2>1
<1>10. QED
  BY <1>6, <1>7, <1>8, <1>9 DEF listed, S

LEMMA NothingIsSerial == \A data : Serial(data, <<>>)
BY DEF Serial

LEMMA SweepBegins == SweepInit => SweepInv
<1> SUFFICES ASSUME SweepInit PROVE SweepInv
  OBVIOUS
<1>1. /\ parent = NotRunning /\ units = Nothing /\ pairs = Nothing
      /\ checkpoint = NoFile /\ report = NoReport /\ runs = 0
  BY DEF SweepInit
<1>2. FiledIn(units) /\ PairsIn(parent.data, pairs)
  BY <1>1 DEF FiledIn, PairsIn, Nothing
<1>3. parent.at = "off" /\ ParentIn(parent)
  BY <1>1 DEF NotRunning, ParentIn
<1>4. PendingIn(parent.at, pairs, temporary)
  BY <1>3 DEF PendingIn
<1>5. FileIn(parent.at, pairs, checkpoint, runs)
  <2>1. checkpoint.run = 0 /\ checkpoint.whole /\ checkpoint.results = <<>>
    BY <1>1 DEF NoFile
  <2>2. QED
    BY <1>1, <1>3, <2>1, NothingIsSerial DEF FileIn
<1>6. ReportIn(report)
  <2>1. report.results = <<>>
    BY <1>1 DEF NoReport
  <2>2. QED
    BY <1>1, <2>1, NothingIsSerial DEF ReportIn
<1>7. QED
  BY <1>2, <1>3, <1>4, <1>5, <1>6 DEF SweepInv

-----------------------------------------------------------------------------

\* What a step does to the parent's record.
LEMMA ParentUpdates ==
  ASSUME ParentIn(parent), NEW v, NEW w
  PROVE  /\ parent' = [parent EXCEPT !.at = v] =>
               ParentIn(parent') /\ parent'.at = v /\ parent'.data = parent.data
         /\ parent' = [parent EXCEPT !.at = v, !.raised = w] =>
               ParentIn(parent') /\ parent'.at = v /\ parent'.data = parent.data
         /\ parent' = [parent EXCEPT !.collected = w] =>
               ParentIn(parent') /\ parent'.at = parent.at /\ parent'.data = parent.data
         /\ parent' = [parent EXCEPT !.collected = w, !.at = v] =>
               ParentIn(parent') /\ parent'.at = v /\ parent'.data = parent.data
BY DEF ParentIn

LEMMA Raising ==
  ASSUME ParentIn(parent), Raises
  PROVE  ParentIn(parent') /\ parent'.at \in {"return", "join"} /\ parent'.data = parent.data
<1> DEFINE v == IF parent.at = "serial" THEN "return" ELSE "join"
<1>1. parent' = [parent EXCEPT !.at = v, !.raised = TRUE]
  BY DEF Raises
<1>2. v \in {"return", "join"}
  OBVIOUS
<1> HIDE DEF v
<1>3. QED
  BY <1>1, <1>2, ParentUpdates

\* A step that leaves what the parent has and what is on disk.
Quiet ==
  /\ units' = units /\ pairs' = pairs /\ checkpoint' = checkpoint /\ report' = report
  /\ runs' = runs /\ ParentIn(parent') /\ parent'.data = parent.data
  /\ parent'.at # "off" => parent.at # "off"
  /\ parent'.at \in {"write", "serial write"} => parent'.at = parent.at /\ temporary' = temporary

LEMMA QuietStep == SweepInv /\ Quiet => SweepInv'
<1> SUFFICES ASSUME SweepInv, Quiet PROVE SweepInv'
  OBVIOUS
<1>1. FiledIn(units)' /\ PairsIn(parent.data, pairs)' /\ ReportIn(report)' /\ ParentIn(parent)'
  BY DEF Quiet, SweepInv
<1>2. FileIn(parent.at, pairs, checkpoint, runs)'
  BY DEF Quiet, SweepInv, FileIn
<1>3. PendingIn(parent.at, pairs, temporary)'
  BY DEF Quiet, SweepInv, PendingIn
<1>4. QED
  BY <1>1, <1>2, <1>3 DEF SweepInv

\* One result more, and its pair when it is the second one.
LEMMA RecordResultStep ==
  ASSUME SweepInv, NEW unit, RecordResult(unit), parent.at \in {"serial", "collect"},
         checkpoint' = checkpoint, report' = report, runs' = runs
  PROVE  SweepInv'
<1> DEFINE so == Filed(unit, units)
           completed == {e \in Index : BothIn(e, so) /\ e \notin DOMAIN pairs}
           collected == parent.collected \cup {unit}
<1>1. units' = so
  BY DEF RecordResult
<1>2. \/ parent' = [parent EXCEPT !.collected = collected] /\ pairs' = pairs
      \/ /\ pairs' = [e \in completed \cup DOMAIN pairs |->
                         IF e \in completed THEN PairOf(e, so) ELSE pairs[e]]
         /\ temporary' = InOrder(pairs')
         /\ parent' = [parent EXCEPT !.collected = collected,
                         !.at = IF @ = "serial" THEN "serial write" ELSE "write"]
      \/ Raises /\ pairs' = pairs
  BY DEF RecordResult
<1> HIDE DEF completed, collected
<1>3. FiledIn(units')
  <2>1. FiledIn(units)
    BY DEF SweepInv
  <2>2. QED
    BY <1>1, <2>1 DEF FiledIn, Filed
<1>4. ASSUME NEW e \in completed PROVE PairOf(e, so) = PairFor(parent.data, e)
  <2>1. \A u \in DOMAIN so : so[u] = u
    BY <1>1, <1>3 DEF FiledIn
  <2>2. FeatureSets[1] \in Range(FeatureSets)
        /\ FeatureSets[2] \in Range(FeatureSets)
    BY DEF FeatureSets, Range
  <2>3. BothIn(e, so)
    BY DEF completed
  <2> HIDE DEF so
  <2>4. Unit(e, FeatureSets[1]) \in DOMAIN so /\ Unit(e, FeatureSets[2]) \in DOMAIN so
    BY <2>2, <2>3 DEF BothIn
  <2>5. /\ so[Unit(e, FeatureSets[1])] = Unit(e, FeatureSets[1])
        /\ so[Unit(e, FeatureSets[2])] = Unit(e, FeatureSets[2])
    BY <2>1, <2>4
  <2>6. QED
    BY <2>5 DEF PairOf, PairFor, Reference
<1>5. completed \subseteq DOMAIN Entries
  BY DEF completed, Index
<1> HIDE DEF so
<1>6. /\ ParentIn(parent) /\ PairsIn(parent.data, pairs) /\ FileIn(parent.at, pairs, checkpoint, runs)
      /\ ReportIn(report) /\ parent.at # "off"
  BY DEF SweepInv
<1>7. ReportIn(report')
  BY <1>6
<1>8. CASE parent' = [parent EXCEPT !.collected = collected] /\ pairs' = pairs
  <2>1. ParentIn(parent') /\ parent'.at = parent.at /\ parent'.data = parent.data
    BY <1>6, <1>8, ParentUpdates
  <2>2. PairsIn(parent'.data, pairs') /\ FileIn(parent'.at, pairs', checkpoint', runs')
    BY <1>6, <1>8, <2>1
  <2>3. PendingIn(parent'.at, pairs', temporary')
    BY <2>1 DEF PendingIn
  <2>4. QED
    BY <1>3, <1>7, <2>1, <2>2, <2>3 DEF SweepInv
<1>9. CASE Raises /\ pairs' = pairs
  <2>1. ParentIn(parent') /\ parent'.at \in {"return", "join"} /\ parent'.data = parent.data
    BY <1>6, <1>9, Raising
  <2>2. PairsIn(parent'.data, pairs')
    BY <1>6, <1>9, <2>1
  <2>3. FileIn(parent'.at, pairs', checkpoint', runs')
    BY <1>6, <1>9, <2>1 DEF FileIn
  <2>4. PendingIn(parent'.at, pairs', temporary')
    BY <2>1 DEF PendingIn
  <2>5. QED
    BY <1>3, <1>7, <2>1, <2>2, <2>3, <2>4 DEF SweepInv
<1>10. CASE /\ pairs' = [e \in completed \cup DOMAIN pairs |->
                           IF e \in completed THEN PairOf(e, so) ELSE pairs[e]]
            /\ temporary' = InOrder(pairs')
            /\ parent' = [parent EXCEPT !.collected = collected,
                            !.at = IF @ = "serial" THEN "serial write" ELSE "write"]
  <2>1. ParentIn(parent') /\ parent'.at \in {"serial write", "write"} /\ parent'.data = parent.data
    <3> DEFINE v == IF parent.at = "serial" THEN "serial write" ELSE "write"
    <3>1. parent' = [parent EXCEPT !.collected = collected, !.at = v]
      BY <1>10
    <3>2. v \in {"serial write", "write"}
      OBVIOUS
    <3> HIDE DEF v
    <3>3. QED
      BY <1>6, <3>1, <3>2, ParentUpdates
  <2>2. /\ DOMAIN pairs' = completed \cup DOMAIN pairs
        /\ \A e \in completed : pairs'[e] = PairFor(parent.data, e)
        /\ \A e \in DOMAIN pairs : e \notin completed => pairs'[e] = pairs[e]
    BY <1>4, <1>10
  <2>3. PairsIn(parent'.data, pairs')
    BY <1>5, <1>6, <2>1, <2>2 DEF PairsIn
  <2>4. \A e \in DOMAIN pairs : e \in DOMAIN pairs' /\ pairs'[e] = pairs[e]
    BY <1>6, <2>2 DEF PairsIn
  <2>5. FileIn(parent'.at, pairs', checkpoint', runs')
    BY <1>6, <2>1, <2>4 DEF FileIn
  <2>6. PendingIn(parent'.at, pairs', temporary')
    BY <1>10 DEF PendingIn
  <2>7. QED
    BY <1>3, <1>7, <2>1, <2>3, <2>5, <2>6 DEF SweepInv
<1>11. QED
  BY <1>2, <1>8, <1>9, <1>10

-----------------------------------------------------------------------------
(* ---- Every step of the sweep -------------------------------------------- *)

LEMMA LaunchSweepStep ==
  ASSUME SweepInv, NEW data, NEW asked, LaunchSweep(data, asked)
  PROVE  SweepInv'
<1>1. /\ runs' = runs + 1 /\ units' = Nothing /\ pairs' = Nothing
      /\ checkpoint' = checkpoint /\ report' = report
      /\ parent' = [NotRunning EXCEPT !.at = IF asked = 1 THEN "serial" ELSE "submit",
                           !.data = data, !.max = WorkerCount(asked)]
  BY DEF LaunchSweep
<1>2. ParentIn(parent') /\ parent'.at \in {"serial", "submit"}
  BY <1>1 DEF ParentIn, NotRunning
<1>3. FiledIn(units') /\ PairsIn(parent'.data, pairs')
  BY <1>1 DEF FiledIn, PairsIn, Nothing
<1>4. PendingIn(parent'.at, pairs', temporary')
  BY <1>2 DEF PendingIn
<1>5. FileIn(parent'.at, pairs', checkpoint', runs')
  <2>1. runs \in Nat /\ checkpoint.run \in Nat /\ checkpoint.run <= runs
        /\ checkpoint.whole /\ Serial(checkpoint.data, checkpoint.results)
    BY DEF SweepInv, FileIn
  <2>2. runs' \in Nat /\ checkpoint'.run < runs'
    BY <1>1, <2>1
  <2>3. QED
    BY <1>1, <2>1, <2>2 DEF FileIn
<1>6. ReportIn(report')
  BY <1>1 DEF SweepInv
<1>7. QED
  BY <1>2, <1>3, <1>4, <1>5, <1>6 DEF SweepInv

LEMMA SubmitStep == ASSUME SweepInv, Submit PROVE SweepInv'
<1>1. parent.at = "submit" /\ ParentIn(parent)
  BY DEF Submit, SweepInv
<1>2. parent' = [parent EXCEPT !.at = "collect"] \/ parent' = parent
  BY DEF Submit
<1>3. ParentIn(parent') /\ parent'.data = parent.data /\ parent'.at \in {"collect", "submit"}
  BY <1>1, <1>2, ParentUpdates
<1>4. Quiet
  BY <1>1, <1>3 DEF Submit, Quiet
<1>5. QED
  BY <1>4, QuietStep

LEMMA WorkerStep ==
  ASSUME SweepInv, NEW w,
         Take(w) \/ FinishUnit(w) \/ Fail(w) \/ Die(w)
  PROVE  SweepInv'
<1>1. /\ units' = units /\ pairs' = pairs /\ checkpoint' = checkpoint /\ report' = report
      /\ runs' = runs /\ parent' = parent /\ temporary' = temporary
  BY DEF Take, FinishUnit, Fail, Die, Ends
<1>2. Quiet
  BY <1>1 DEF Quiet, SweepInv
<1>3. QED
  BY <1>2, QuietStep

LEMMA RaisesStep ==
  ASSUME SweepInv, Raises, parent.at # "off",
         units' = units, pairs' = pairs, checkpoint' = checkpoint, report' = report, runs' = runs
  PROVE  SweepInv'
<1>1. ParentIn(parent') /\ parent'.at \in {"return", "join"} /\ parent'.data = parent.data
  BY Raising DEF SweepInv
<1>2. Quiet
  BY <1>1 DEF Quiet
<1>3. QED
  BY <1>2, QuietStep

LEMMA SubmitRefusedStep == ASSUME SweepInv, SubmitRefused PROVE SweepInv'
<1>1. /\ Raises /\ parent.at = "submit" /\ units' = units /\ pairs' = pairs
      /\ checkpoint' = checkpoint /\ report' = report /\ runs' = runs
  BY DEF SubmitRefused
<1>2. QED
  BY <1>1, RaisesStep

LEMMA RunUnitStep ==
  ASSUME SweepInv, RunUnit \/ UnitRaises
  PROVE  SweepInv'
<1>1. CASE RunUnit
  <2>1. /\ RecordResult(Tasks[Cardinality(parent.collected) + 1])
        /\ parent.at = "serial" /\ checkpoint' = checkpoint /\ report' = report /\ runs' = runs
    BY <1>1 DEF RunUnit
  <2>2. QED
    BY <2>1, RecordResultStep
<1>2. CASE UnitRaises
  <2>1. /\ Raises /\ parent.at = "serial" /\ units' = units /\ pairs' = pairs
        /\ checkpoint' = checkpoint /\ report' = report /\ runs' = runs
    BY <1>2 DEF UnitRaises
  <2>2. QED
    BY <2>1, RaisesStep
<1>3. QED
  BY <1>1, <1>2

LEMMA CollectStep ==
  ASSUME SweepInv, NEW unit, Collect(unit)
  PROVE  SweepInv'
<1>1. parent.at = "collect" /\ checkpoint' = checkpoint /\ report' = report /\ runs' = runs
  BY DEF Collect
<1>2. RecordResult(unit) \/ (Raises /\ units' = units /\ pairs' = pairs)
  BY DEF Collect
<1>3. CASE RecordResult(unit)
  BY <1>1, <1>3, RecordResultStep
<1>4. CASE Raises /\ units' = units /\ pairs' = pairs
  BY <1>1, <1>4, RaisesStep
<1>5. QED
  BY <1>2, <1>3, <1>4

LEMMA ReplaceStep ==
  ASSUME SweepInv, Replace
  PROVE  SweepInv'
<1> DEFINE next == IF parent.at = "write" THEN "collect" ELSE "serial"
<1>1. /\ parent.at \in {"write", "serial write"}
      /\ checkpoint' = File(temporary) /\ temporary' = <<>>
      /\ parent' = [parent EXCEPT !.at = next]
      /\ units' = units /\ pairs' = pairs /\ report' = report /\ runs' = runs
  BY DEF Replace, Replaced, Return
<1>2. next \in {"collect", "serial"}
  OBVIOUS
<1> HIDE DEF next
<1>3. ParentIn(parent') /\ parent'.at \in {"collect", "serial"} /\ parent'.data = parent.data
  BY <1>1, <1>2, ParentUpdates DEF SweepInv
<1>4. FiledIn(units') /\ PairsIn(parent'.data, pairs') /\ ReportIn(report')
  BY <1>1, <1>3 DEF SweepInv
<1>5. PendingIn(parent'.at, pairs', temporary')
  BY <1>3 DEF PendingIn
<1>6. /\ checkpoint'.run = runs /\ checkpoint'.whole /\ checkpoint'.data = parent.data
      /\ checkpoint'.results = InOrder(pairs) /\ runs \in Nat
  BY <1>1 DEF SweepInv, PendingIn, FileIn, File
<1>7. PairsIn(parent.data, pairs)
  BY DEF SweepInv
<1>8. FileIn(parent'.at, pairs', checkpoint', runs')
  <2> DEFINE listed == InOrder(pairs)
  <2>1. /\ Serial(parent.data, listed)
        /\ \A i \in DOMAIN listed : \E e \in DOMAIN pairs : listed[i] = [entry |-> e, verdict |-> pairs[e]]
    BY <1>7, InReportOrder
  <2> HIDE DEF listed
  <2>2. checkpoint'.results = listed
    BY <1>6 DEF listed
  <2>3. runs \in Nat /\ checkpoint'.run = runs /\ checkpoint'.whole
        /\ Serial(checkpoint'.data, checkpoint'.results)
    BY <1>6, <2>1, <2>2
  <2>4. FileIn(parent'.at, pairs, checkpoint', runs)
    BY <2>1, <2>2, <2>3 DEF FileIn
  <2>5. QED
    BY <1>1, <2>4
<1>9. QED
  BY <1>3, <1>4, <1>5, <1>8 DEF SweepInv

LEMMA WriteFailsStep == ASSUME SweepInv, WriteFails PROVE SweepInv'
<1> DEFINE next == IF parent.at = "write" THEN "join" ELSE "return"
<1>1. /\ parent.at \in {"write", "serial write"} /\ ParentIn(parent)
      /\ parent' = [parent EXCEPT !.at = next, !.raised = TRUE]
      /\ units' = units /\ pairs' = pairs /\ report' = report /\ runs' = runs
      /\ checkpoint' = checkpoint
  BY DEF WriteFails, SweepInv
<1>2. next \in {"join", "return"}
  OBVIOUS
<1> HIDE DEF next
<1>3. ParentIn(parent') /\ parent'.at \in {"join", "return"} /\ parent'.data = parent.data
  BY <1>1, <1>2, ParentUpdates
<1>4. Quiet
  BY <1>1, <1>3 DEF Quiet
<1>5. QED
  BY <1>4, QuietStep

LEMMA LeaveStep == ASSUME SweepInv, Exhausted \/ Join PROVE SweepInv'
<1>1. /\ parent.at \in {"collect", "join"} /\ ParentIn(parent)
      /\ units' = units /\ pairs' = pairs /\ report' = report /\ runs' = runs
      /\ checkpoint' = checkpoint
      /\ \E v \in {"join", "return"} : parent' = [parent EXCEPT !.at = v]
  BY DEF Exhausted, Join, Return, SweepInv
<1>2. ParentIn(parent') /\ parent'.at \in {"join", "return"} /\ parent'.data = parent.data
  BY <1>1, ParentUpdates
<1>3. Quiet
  BY <1>1, <1>2 DEF Quiet
<1>4. QED
  BY <1>3, QuietStep

\* The program is gone: the file and the report are what is left of it.
LEMMA Leaving ==
  ASSUME SweepInv, parent' = NotRunning, units' = Nothing, pairs' = Nothing,
         checkpoint' = checkpoint, runs' = runs, ReportIn(report')
  PROVE  SweepInv'
<1>1. ParentIn(parent') /\ parent'.at = "off"
  BY DEF ParentIn, NotRunning
<1>2. FiledIn(units') /\ PairsIn(parent'.data, pairs')
  BY DEF FiledIn, PairsIn, Nothing
<1>3. PendingIn(parent'.at, pairs', temporary')
  BY <1>1 DEF PendingIn
<1>4. FileIn(parent'.at, pairs', checkpoint', runs')
  BY <1>1 DEF SweepInv, FileIn
<1>5. QED
  BY <1>1, <1>2, <1>3, <1>4 DEF SweepInv

LEMMA FinishedStep ==
  ASSUME SweepInv, Finished
  PROVE  SweepInv'
<1>1. /\ parent' = NotRunning /\ units' = Nothing /\ pairs' = Nothing
      /\ checkpoint' = checkpoint /\ runs' = runs
      /\ \/ report' = report
         \/ /\ DOMAIN pairs = Index
            /\ report' = [data |-> parent.data, results |-> InOrder(pairs),
                           met |-> {e \in Index : Passes(pairs[e])}]
  BY DEF Finished
<1>2. ReportIn(report) /\ PairsIn(parent.data, pairs)
  BY DEF SweepInv
<1>3. ReportIn(report')
  <2>1. CASE report' = report
    BY <1>2, <2>1
  <2>2. CASE /\ DOMAIN pairs = Index
             /\ report' = [data |-> parent.data, results |-> InOrder(pairs),
                            met |-> {e \in Index : Passes(pairs[e])}]
    <3>1. report'.data = parent.data /\ report'.results = InOrder(pairs)
      BY <2>2
    <3>2. Serial(parent.data, InOrder(pairs)) /\ Len(InOrder(pairs)) = Len(Entries)
      BY <1>2, <2>2, InReportOrder DEF Index
    <3>3. QED
      BY <3>1, <3>2 DEF ReportIn
  <2>3. QED
    BY <1>1, <2>1, <2>2
<1>4. QED
  BY <1>1, <1>3, Leaving

LEMMA CrashStep == ASSUME SweepInv, Crash PROVE SweepInv'
<1>1. /\ parent' = NotRunning /\ units' = Nothing /\ pairs' = Nothing
      /\ checkpoint' = checkpoint /\ runs' = runs /\ report' = report
  BY DEF Crash
<1>2. ReportIn(report')
  BY <1>1 DEF SweepInv
<1>3. QED
  BY <1>1, <1>2, Leaving

LEMMA SweepStep ==
  ASSUME SweepInv, [SweepNext]_sweepVars
  PROVE  SweepInv'
<1>1. CASE UNCHANGED sweepVars
  <2>1. /\ units' = units /\ pairs' = pairs /\ checkpoint' = checkpoint /\ report' = report
        /\ runs' = runs /\ parent' = parent /\ temporary' = temporary
    BY <1>1 DEF sweepVars
  <2>2. Quiet
    BY <2>1 DEF Quiet, SweepInv
  <2>3. QED
    BY <2>2, QuietStep
<1>2. CASE \E data \in DOMAIN Datasets, asked \in {None, 1, 3} : LaunchSweep(data, asked)
  BY <1>2, LaunchSweepStep
<1>3. CASE Parent
  BY <1>3, SubmitStep, SubmitRefusedStep, RunUnitStep, CollectStep, ReplaceStep, LeaveStep, FinishedStep DEF Parent
<1>4. CASE Worker \/ \E w \in DOMAIN workers : Fail(w) \/ Die(w)
  BY <1>4, WorkerStep DEF Worker
<1>5. CASE UnitRaises \/ WriteFails \/ Crash
  BY <1>5, RunUnitStep, WriteFailsStep, CrashStep
<1>6. QED
  BY <1>1, <1>2, <1>3, <1>4, <1>5 DEF SweepNext

\* No step takes back a pair the run at work had saved.
LEMMA SavedPairsStay ==
  ASSUME SweepInv, [SweepNext]_sweepVars
  PROVE  /\ checkpoint'.whole
         /\ checkpoint'.run = checkpoint.run =>
              Range(checkpoint.results) \subseteq Range(checkpoint'.results)
<1>1. checkpoint'.whole
  <2>1. SweepInv'
    BY SweepStep
  <2>2. QED
    BY <2>1 DEF SweepInv, FileIn
<1>2. checkpoint' = checkpoint \/ Replace
  BY DEF SweepNext, sweepVars, LaunchSweep, Parent, Worker, Submit, SubmitRefused, RunUnit,
     Collect, Exhausted, Join, Finished, Take, FinishUnit, Fail,
     Die, Ends, UnitRaises, WriteFails, Crash
<1>3. ASSUME Replace, checkpoint'.run = checkpoint.run
      PROVE  Range(checkpoint.results) \subseteq Range(checkpoint'.results)
  <2>1. parent.at \in {"write", "serial write"} /\ checkpoint' = File(temporary)
    BY <1>3 DEF Replace, Replaced
  <2>2. checkpoint'.run = runs /\ checkpoint'.results = InOrder(pairs)
    BY <2>1 DEF SweepInv, PendingIn, File
  <2>3. \A i \in DOMAIN checkpoint.results :
          \E e \in DOMAIN pairs : checkpoint.results[i] = [entry |-> e, verdict |-> pairs[e]]
    BY <1>3, <2>1, <2>2 DEF SweepInv, FileIn
  <2>4. \A e \in DOMAIN pairs : \E i \in DOMAIN InOrder(pairs) :
          InOrder(pairs)[i] = [entry |-> e, verdict |-> pairs[e]]
    BY InReportOrder DEF SweepInv
  <2>5. \A i \in DOMAIN checkpoint.results : \E j \in DOMAIN InOrder(pairs) :
          InOrder(pairs)[j] = checkpoint.results[i]
    BY <2>3, <2>4
  <2>6. QED
    BY <2>2, <2>5 DEF Range
<1>4. QED
  BY <1>1, <1>2, <1>3

-----------------------------------------------------------------------------

LEMMA SweepInvariance == SweepSpec => []SweepInv
<1>1. SweepInv /\ [SweepNext]_sweepVars => SweepInv'
  BY SweepStep
<1>2. QED
  BY <1>1, SweepBegins, PTL DEF SweepSpec

\* What is reported and checkpointed is what a serial run computes, in report
\* order, for any number of entries, workers, runs and faults, and any order in
\* which units finish, fail, or their worker dies (compare_all_entries_parallel).
THEOREM ResultsAreSerial == SweepSpec => []ResultsAreTheSerialOnes
<1>1. SweepInv => ResultsAreTheSerialOnes
  BY DEF SweepInv, FileIn, ReportIn, ResultsAreTheSerialOnes
<1>2. QED
  BY <1>1, SweepInvariance, PTL

\* A crash, a failed write or a failing worker leaves a whole checkpoint, and no
\* step of a run takes back a pair it had saved (_checkpoint).
THEOREM SavedPairsSurvive == SweepSpec => PairsSurvive
<1>1. SweepInv /\ [SweepNext]_sweepVars =>
        [/\ checkpoint'.whole
         /\ checkpoint'.run = checkpoint.run =>
              Range(checkpoint.results) \subseteq Range(checkpoint'.results)]_sweepVars
  BY SavedPairsStay
<1>2. QED
  BY <1>1, SweepInvariance, PTL DEF SweepSpec, PairsSurvive

-----------------------------------------------------------------------------
(* ---- The preregistered programs ----------------------------------------- *)

IsList(s) == s \in Seq({s[i] : i \in DOMAIN s})

StartsIn(ev, f) == {i \in DOMAIN ev : ev[i].type = "started" /\ ev[i].family = f}
EndedIn(ev, t, types) == \E i \in DOMAIN ev : ev[i].trial = t /\ ev[i].type \in types
CompletedIn(ev, f, key) ==
  {i \in StartsIn(ev, f) : ev[i].key = key /\ EndedIn(ev, i, {"completed"})}
DanglingIn(ev, f) == {i \in StartsIn(ev, f) : ~EndedIn(ev, i, Terminals)}

Resumables == {f \in DOMAIN Families : Families[f].resumable}
First(f) == Configs(f)[1]
CandidateOf(key) == Key(key.of, "", 0)
Begun(ev, f, key) == {i \in StartsIn(ev, f) : ev[i].key = key}
TwiceBegun(ev, f) == \E i, j \in Begun(ev, f, First(f)) : i # j

\* An event is of a trial that was started by then.
EventsIn(ev) ==
  /\ IsList(ev)
  /\ \A i \in DOMAIN ev : ev[i].trial \in 1..i /\ (ev[i].type = "started" => ev[i].trial = i)

\* A baseline of 058 follows its candidate, and the first configuration of all.
BaselinesFollow(ev) ==
  \A f \in Resumables : \A i \in StartsIn(ev, f) : IsRandom(ev[i].key) =>
    /\ \E j \in CompletedIn(ev, f, CandidateOf(ev[i].key)) : j < i /\ ev[j].check = ev[i].check
    /\ \E j \in Begun(ev, f, First(f)) : j < i

\* Unless the family was begun anew, no baseline is completed twice.
CompletedOnce(ev) ==
  \A f \in Resumables : ~TwiceBegun(ev, f) =>
    \A i, j \in StartsIn(ev, f) :
      (/\ IsRandom(ev[i].key) /\ ev[i].key = ev[j].key
       /\ EndedIn(ev, i, {"completed"}) /\ EndedIn(ev, j, {"completed"})) => i = j

LedgerIn(ev) == EventsIn(ev) /\ BaselinesFollow(ev) /\ CompletedOnce(ev)

RunFields == {"at", "family", "check", "resumes", "todo", "open", "kept", "closing", "raised"}

\* What a program has started and not closed.
TrialsIn(ev, r) ==
  /\ \A n \in DOMAIN r.open : r.open[n] \in StartsIn(ev, r.family) /\ ev[r.open[n]].check = r.check
  /\ \A n \in DOMAIN r.kept :
       r.kept[n].trial \in StartsIn(ev, r.family) /\ ev[r.kept[n].trial].check = r.check
  /\ \A n \in DOMAIN r.closing : r.closing[n] \in StartsIn(ev, r.family)

ShapeIn(r) ==
  /\ DOMAIN r = RunFields
  /\ r.at \in {"off", "close", "start", "evaluate", "record", "done", "unwind"}
  /\ IsList(r.todo) /\ IsList(r.open) /\ IsList(r.kept) /\ IsList(r.closing)
  /\ r.at # "off" => /\ r.family \in DOMAIN Families /\ r.check \in Built
                     /\ r.resumes \in BOOLEAN /\ (r.resumes => r.family \in Resumables)

StageIn(r) ==
  LET family == Families[r.family] IN
    /\ r.at = "close" => r.open = <<>> /\ r.kept = <<>> /\ r.resumes
    /\ r.at \in {"start", "evaluate", "record", "done"} => r.closing = <<>>
    /\ r.at = "start" =>
         /\ r.open = <<>> \/ (family.together /\ r.todo # <<>>)
         /\ family.heldBack => r.todo # <<>>
    /\ r.at = "evaluate" => r.open # <<>> /\ (~family.together => Len(r.open) = 1)
    /\ r.at = "record" => r.todo = <<>> /\ r.open = <<>> /\ family.heldBack
    /\ r.at = "done" => r.todo = <<>> /\ r.open = <<>> /\ r.kept = <<>>
    /\ r.at \in {"start", "evaluate", "done"} /\ ~family.heldBack => r.kept = <<>>
    /\ r.at = "unwind" => r.raised \in {"errored", "abandoned"}

Active(r) == r.at \in {"close", "start", "evaluate", "record", "done"}

OpenKey(ev, r, key) ==
  \/ \E n \in DOMAIN r.open : ev[r.open[n]].key = key
  \/ \E n \in DOMAIN r.kept : ev[r.kept[n].trial].key = key
InTodo(r, key) == \E n \in DOMAIN r.todo : r.todo[n] = key
DoneOn(ev, r, key) == \E i \in CompletedIn(ev, r.family, key) : ev[i].check = r.check

\* A series of the family is to be started, at work, or completed on this panel.
CoveredIn(ev, r) ==
  \A key \in Range(Series(r.family)) : InTodo(r, key) \/ OpenKey(ev, r, key) \/ DoneOn(ev, r, key)

\* A baseline to be started has its candidate before it.
OrderIn(ev, r) ==
  \A n \in DOMAIN r.todo : IsRandom(r.todo[n]) =>
    /\ \/ \E m \in DOMAIN r.todo : m < n /\ r.todo[m] = CandidateOf(r.todo[n])
       \/ OpenKey(ev, r, CandidateOf(r.todo[n]))
       \/ DoneOn(ev, r, CandidateOf(r.todo[n]))
    /\ (\E m \in DOMAIN r.todo : m < n /\ r.todo[m] = First(r.family))
         \/ Begun(ev, r.family, First(r.family)) # {}

\* Only a family begun anew completes a baseline again.
FreshIn(ev, r) ==
  /\ \A m, n \in DOMAIN r.todo : r.todo[m] = r.todo[n] => m = n
  /\ \A n \in DOMAIN r.todo : ~OpenKey(ev, r, r.todo[n])
  /\ \A n \in DOMAIN r.todo : r.todo[n] = First(r.family) =>
       n = 1 /\ r.open = <<>> /\ r.kept = <<>>
  /\ \A key :
       (/\ InTodo(r, key) \/ OpenKey(ev, r, key)
        /\ IsRandom(key) /\ CompletedIn(ev, r.family, key) # {}) =>
       ~r.resumes /\ (TwiceBegun(ev, r.family) \/ InTodo(r, First(r.family)))

\* What a resumed program found and does.
ResumedIn(ev, r) ==
  /\ \A key \in Range(Configs(r.family)) :
       \E i \in CompletedIn(ev, r.family, key) : Begun(ev, r.family, key) = {i}
  /\ \A n \in DOMAIN r.todo : IsRandom(r.todo[n])
  /\ DanglingIn(ev, r.family) \subseteq Range(r.closing) \cup Range(r.open)

RunIn(ev, r) ==
  /\ ShapeIn(r)
  /\ r.at # "off" => TrialsIn(ev, r) /\ StageIn(r)
  /\ Active(r) => CoveredIn(ev, r)
  /\ (Active(r) /\ r.family \in Resumables) => OrderIn(ev, r) /\ FreshIn(ev, r)
  /\ (Active(r) /\ r.resumes) => ResumedIn(ev, r)

FamilyInv == LedgerIn(events) /\ RunIn(events, run)

-----------------------------------------------------------------------------
(* ---- Sequences and the ledger ------------------------------------------- *)

LEMMA SeqFacts ==
  ASSUME NEW s, IsList(s)
  PROVE  /\ Len(s) \in Nat /\ DOMAIN s = 1..Len(s)
         /\ s # <<>> <=> Len(s) # 0
         /\ \A i \in 1..Len(s) : i \in Nat
<1>1. s \in Seq({s[i] : i \in DOMAIN s})
  BY DEF IsList
<1>2. QED
  BY <1>1

LEMMA EmptyList == IsList(<<>>) /\ Len(<<>>) = 0 /\ DOMAIN <<>> = {}
BY DEF IsList

LEMMA MadeASeq ==
  ASSUME NEW n \in Nat, NEW s, s = [i \in 1..n |-> s[i]]
  PROVE  IsList(s) /\ Len(s) = n /\ DOMAIN s = 1..n
<1> DEFINE S == {s[i] : i \in 1..n}
<1>1. DOMAIN s = 1..n
  OBVIOUS
<1>2. s \in [1..n -> S]
  OBVIOUS
<1>3. s \in Seq(S)
  BY <1>2
<1>4. QED
  BY <1>1, <1>3 DEF IsList

LEMMA ListOf ==
  ASSUME NEW s, IsList(s), NEW S, \A i \in DOMAIN s : s[i] \in S
  PROVE  s \in Seq(S)
<1>1. Len(s) \in Nat /\ DOMAIN s = 1..Len(s)
  BY SeqFacts
<1>2. s \in Seq({s[i] : i \in DOMAIN s})
  BY DEF IsList
<1>3. s \in [1..Len(s) -> {s[i] : i \in DOMAIN s}]
  BY <1>2, LenProperties
<1>4. s \in [1..Len(s) -> S]
  BY <1>1, <1>3
<1>5. QED
  BY <1>1, <1>4

LEMMA EmptyFunction ==
  ASSUME NEW s, s = <<>>
  PROVE  [i \in DOMAIN s |-> s[i].trial] = <<>>
OBVIOUS

LEMMA Appended ==
  ASSUME NEW s, IsList(s), NEW x
  PROVE  /\ IsList(Append(s, x)) /\ Len(Append(s, x)) = Len(s) + 1
         /\ DOMAIN Append(s, x) = DOMAIN s \cup {Len(s) + 1}
         /\ DOMAIN Append(s, x) = 1..(Len(s) + 1) /\ Len(s) + 1 \notin DOMAIN s
         /\ Append(s, x) # <<>>
         /\ Append(s, x)[Len(s) + 1] = x /\ \A i \in DOMAIN s : Append(s, x)[i] = s[i]
<1> DEFINE S == {s[i] : i \in DOMAIN s} \cup {x}
           a == Append(s, x)
<1>1. s \in Seq(S) /\ x \in S
  BY DEF IsList
<1>2. /\ a \in Seq(S) /\ Len(a) = Len(s) + 1 /\ a[Len(s) + 1] = x
      /\ \A i \in 1..Len(s) : a[i] = s[i]
  BY <1>1
<1> HIDE DEF a
<1>3. Len(s) \in Nat /\ DOMAIN s = 1..Len(s) /\ DOMAIN a = 1..(Len(s) + 1)
  BY <1>1, <1>2
<1>4. DOMAIN a = DOMAIN s \cup {Len(s) + 1} /\ Len(s) + 1 \notin DOMAIN s
  BY <1>3
<1>5. a = [i \in 1..(Len(s) + 1) |-> a[i]]
  <2>1. a \in [1..Len(a) -> S]
    BY <1>2, LenProperties
  <2>2. QED
    BY <1>2, <2>1
<1>6. IsList(a)
  BY <1>3, <1>5, MadeASeq
<1>7. a # <<>>
  BY <1>3
<1>8. QED
  BY <1>2, <1>3, <1>4, <1>6, <1>7 DEF a

LEMMA Tailed ==
  ASSUME NEW s, IsList(s), s # <<>>
  PROVE  /\ IsList(Tail(s)) /\ Len(Tail(s)) = Len(s) - 1 /\ 1 \in DOMAIN s /\ Head(s) = s[1]
         /\ \A i \in DOMAIN Tail(s) : i + 1 \in DOMAIN s /\ Tail(s)[i] = s[i + 1] /\ i + 1 # 1
         /\ \A i \in DOMAIN s : i = 1 \/ (i - 1 \in DOMAIN Tail(s) /\ Tail(s)[i - 1] = s[i])
<1> DEFINE S == {s[i] : i \in DOMAIN s}
           t == Tail(s)
<1>1. s \in Seq(S)
  BY DEF IsList
<1>2. Len(s) \in Nat /\ Len(s) # 0 /\ DOMAIN s = 1..Len(s)
  BY SeqFacts
<1>3. /\ t \in Seq(S) /\ Len(t) = Len(s) - 1 /\ \A i \in 1..(Len(s) - 1) : t[i] = s[i + 1]
      /\ Head(s) = s[1]
  BY <1>1, <1>2
<1> HIDE DEF t
<1>4. DOMAIN t = 1..(Len(s) - 1) /\ Len(s) - 1 \in Nat
  BY <1>2, <1>3
<1>5. t = [i \in 1..(Len(s) - 1) |-> t[i]]
  <2>1. t \in [1..Len(t) -> S]
    BY <1>3, LenProperties
  <2>2. QED
    BY <1>3, <2>1
<1>6. IsList(t)
  BY <1>4, <1>5, MadeASeq
<1>7. QED
  BY <1>2, <1>3, <1>4, <1>6 DEF t

LEMMA Fronted ==
  ASSUME NEW s, IsList(s), s # <<>>
  PROVE  /\ IsList(Front(s)) /\ Len(s) \in DOMAIN s /\ Last(s) = s[Len(s)]
         /\ \A i \in DOMAIN Front(s) : i \in DOMAIN s /\ Front(s)[i] = s[i]
<1> DEFINE S == {s[i] : i \in DOMAIN s}
           t == Front(s)
<1>1. s \in Seq(S)
  BY DEF IsList
<1>2. Len(s) \in Nat /\ Len(s) # 0 /\ DOMAIN s = 1..Len(s)
  BY SeqFacts
<1>3. t = [i \in 1..(Len(s) - 1) |-> s[i]]
  BY <1>1, <1>2 DEF Front
<1> HIDE DEF t
<1>4. Len(s) - 1 \in Nat
  BY <1>2
<1>5. t = [i \in 1..(Len(s) - 1) |-> t[i]]
  BY <1>3
<1>6. IsList(t) /\ DOMAIN t = 1..(Len(s) - 1)
  BY <1>4, <1>5, MadeASeq
<1>7. QED
  BY <1>2, <1>3, <1>6 DEF Last, t

\* A start changes no other trial and completes none.
LEMMA Started ==
  ASSUME NEW ev, EventsIn(ev), NEW e,
         e.type = "started", e.trial = Len(ev) + 1
  PROVE  /\ EventsIn(Append(ev, e)) /\ Len(ev) + 1 \notin DOMAIN ev /\ Append(ev, e)[Len(ev) + 1] = e
         /\ \A i \in DOMAIN ev : Append(ev, e)[i] = ev[i] /\ i < Len(ev) + 1
         /\ \A f : StartsIn(Append(ev, e), f) = StartsIn(ev, f) \cup (IF e.family = f THEN {Len(ev) + 1} ELSE {})
         /\ \A f, key : CompletedIn(Append(ev, e), f, key) = CompletedIn(ev, f, key)
         /\ \A i \in DOMAIN ev : \A types : "started" \notin types =>
              (EndedIn(Append(ev, e), i, types) <=> EndedIn(ev, i, types))
         /\ ~EndedIn(Append(ev, e), Len(ev) + 1, Terminals) /\ ~EndedIn(Append(ev, e), Len(ev) + 1, {"completed"})
<1> DEFINE n == Len(ev) + 1
           new == Append(ev, e)
<1>1. /\ IsList(new) /\ DOMAIN new = DOMAIN ev \cup {n} /\ n \notin DOMAIN ev /\ new[n] = e
      /\ \A i \in DOMAIN ev : new[i] = ev[i]
  <2>1. IsList(ev)
    BY DEF EventsIn
  <2>2. /\ IsList(new) /\ DOMAIN new = DOMAIN ev \cup {Len(ev) + 1} /\ Len(ev) + 1 \notin DOMAIN ev
        /\ new[Len(ev) + 1] = e /\ \A i \in DOMAIN ev : new[i] = ev[i]
    BY <2>1, Appended
  <2>3. QED
    BY <2>2
<1> HIDE DEF new
<1>2. Len(ev) \in Nat /\ DOMAIN ev = 1..Len(ev)
  BY SeqFacts DEF EventsIn
<1>3. n \in Nat /\ \A i \in DOMAIN ev : i \in Nat /\ i < n
  BY <1>2
<1>4. \A i \in DOMAIN ev : ev[i].trial \in 1..i /\ (ev[i].type = "started" => ev[i].trial = i)
  BY DEF EventsIn
<1>5. \A i \in DOMAIN ev : ev[i].trial # n
  BY <1>3, <1>4
<1>6. EventsIn(new)
  <2>1. e.trial \in 1..n
    BY <1>2
  <2>2. QED
    BY <1>1, <1>4, <2>1 DEF EventsIn
<1>7. n = Len(ev) + 1
  OBVIOUS
<1> HIDE DEF n
<1>8. \A i \in DOMAIN ev : \A types : "started" \notin types => (EndedIn(new, i, types) <=> EndedIn(ev, i, types))
  BY <1>1 DEF EndedIn
<1>9. \A types : "started" \notin types => ~EndedIn(new, n, types)
  BY <1>1, <1>5 DEF EndedIn
<1>10. \A f : StartsIn(new, f) = StartsIn(ev, f) \cup (IF e.family = f THEN {n} ELSE {})
  BY <1>1 DEF StartsIn
<1>11. "started" \notin {"completed"} /\ "started" \notin Terminals
  <2>1. "started" # "completed" /\ "started" # "errored" /\ "started" # "abandoned"
    OBVIOUS
  <2>2. QED
    BY <2>1 DEF Terminals
<1>12. ASSUME NEW f, NEW key PROVE CompletedIn(new, f, key) = CompletedIn(ev, f, key)
  <2>1. \A i \in StartsIn(new, f) : i \in DOMAIN ev \/ i = n
    BY <1>10 DEF StartsIn
  <2>2. \A i \in DOMAIN ev : i \in StartsIn(new, f) <=> i \in StartsIn(ev, f)
    BY <1>1 DEF StartsIn
  <2>3. \A i \in StartsIn(ev, f) : i \in DOMAIN ev
    BY DEF StartsIn
  <2>4. ASSUME NEW i
        PROVE  i \in CompletedIn(new, f, key) <=> i \in CompletedIn(ev, f, key)
    <3>1. CASE i \in DOMAIN ev
      <4>1. EndedIn(new, i, {"completed"}) <=> EndedIn(ev, i, {"completed"})
        BY <1>8, <1>11, <3>1
      <4>2. QED
        BY <1>1, <2>2, <3>1, <4>1 DEF CompletedIn
    <3>2. CASE i = n
      <4>1. ~EndedIn(new, i, {"completed"}) /\ i \notin StartsIn(ev, f)
        BY <1>1, <1>9, <1>11, <2>3, <3>2
      <4>2. QED
        BY <4>1 DEF CompletedIn
    <3>3. CASE i \notin DOMAIN ev /\ i # n
      BY <2>1, <2>3, <3>3 DEF CompletedIn
    <3>4. QED
      BY <3>1, <3>2, <3>3
  <2>5. QED
    BY <2>4
<1>13. QED
  BY <1>1, <1>3, <1>6, <1>7, <1>8, <1>9, <1>10, <1>11, <1>12 DEF new

\* A receipt closes its trial and no other.
LEMMA Closed ==
  ASSUME NEW ev, EventsIn(ev), NEW e,
         e.type \in Terminals, e.trial \in DOMAIN ev
  PROVE  /\ EventsIn(Append(ev, e))
         /\ \A i \in DOMAIN ev : i \in DOMAIN Append(ev, e) /\ Append(ev, e)[i] = ev[i]
         /\ \A f : StartsIn(Append(ev, e), f) = StartsIn(ev, f) /\ StartsIn(ev, f) \subseteq DOMAIN ev
         /\ \A i, types : EndedIn(Append(ev, e), i, types) <=> (EndedIn(ev, i, types) \/ (i = e.trial /\ e.type \in types))
         /\ \A f, key : \A i : i \in CompletedIn(Append(ev, e), f, key) <=>
              \/ i \in CompletedIn(ev, f, key)
              \/ e.type = "completed" /\ i = e.trial /\ i \in StartsIn(ev, f) /\ ev[i].key = key
<1> DEFINE n == Len(ev) + 1
           new == Append(ev, e)
<1>1. /\ IsList(new) /\ DOMAIN new = DOMAIN ev \cup {n} /\ n \notin DOMAIN ev /\ new[n] = e
      /\ \A i \in DOMAIN ev : new[i] = ev[i]
  <2>1. IsList(ev)
    BY DEF EventsIn
  <2>2. /\ IsList(new) /\ DOMAIN new = DOMAIN ev \cup {Len(ev) + 1} /\ Len(ev) + 1 \notin DOMAIN ev
        /\ new[Len(ev) + 1] = e /\ \A i \in DOMAIN ev : new[i] = ev[i]
    BY <2>1, Appended
  <2>3. QED
    BY <2>2
<1> HIDE DEF new
<1>2. Len(ev) \in Nat /\ DOMAIN ev = 1..Len(ev)
  BY SeqFacts DEF EventsIn
<1>3. \A i \in DOMAIN ev : ev[i].trial \in 1..i /\ (ev[i].type = "started" => ev[i].trial = i)
  BY DEF EventsIn
<1>4. e.type # "started"
  BY DEF Terminals
<1>5. EventsIn(new)
  <2>1. e.trial \in 1..n
    BY <1>2
  <2>2. QED
    BY <1>1, <1>3, <1>4, <2>1 DEF EventsIn
<1> HIDE DEF n
<1>6. \A f : StartsIn(new, f) = StartsIn(ev, f) /\ StartsIn(ev, f) \subseteq DOMAIN ev
  BY <1>1, <1>4 DEF StartsIn
<1>7. \A i, types : EndedIn(new, i, types) <=> (EndedIn(ev, i, types) \/ (i = e.trial /\ e.type \in types))
  BY <1>1 DEF EndedIn
<1>8. \A f, key : \A i : i \in CompletedIn(new, f, key) <=>
              \/ i \in CompletedIn(ev, f, key)
              \/ e.type = "completed" /\ i = e.trial /\ i \in StartsIn(ev, f) /\ ev[i].key = key
  BY <1>1, <1>6, <1>7 DEF CompletedIn
<1>9. QED
  BY <1>1, <1>5, <1>6, <1>7, <1>8 DEF new

\* What a receipt must not do: complete a baseline that was completed already.
Completes(ev, e) ==
  e.type = "completed" =>
    \A f \in Resumables :
      (/\ e.trial \in StartsIn(ev, f) /\ IsRandom(ev[e.trial].key) /\ ~TwiceBegun(ev, f)) =>
      CompletedIn(ev, f, ev[e.trial].key) \subseteq {e.trial}

LEMMA ReceiptKeepsLedger ==
  ASSUME NEW ev, LedgerIn(ev), NEW e, e.type \in Terminals, e.trial \in DOMAIN ev, Completes(ev, e)
  PROVE  /\ LedgerIn(Append(ev, e))
         /\ \A f, key : Begun(Append(ev, e), f, key) = Begun(ev, f, key)
         /\ \A f : TwiceBegun(Append(ev, e), f) <=> TwiceBegun(ev, f)
<1> DEFINE new == Append(ev, e)
<1>0. EventsIn(ev) /\ BaselinesFollow(ev) /\ CompletedOnce(ev)
  BY DEF LedgerIn
<1>1. /\ EventsIn(new)
      /\ \A i \in DOMAIN ev : i \in DOMAIN new /\ new[i] = ev[i]
      /\ \A f : StartsIn(new, f) = StartsIn(ev, f) /\ StartsIn(ev, f) \subseteq DOMAIN ev
      /\ \A i, types : EndedIn(new, i, types) <=> (EndedIn(ev, i, types) \/ (i = e.trial /\ e.type \in types))
      /\ \A f, key : \A i : i \in CompletedIn(new, f, key) <=>
           \/ i \in CompletedIn(ev, f, key)
           \/ e.type = "completed" /\ i = e.trial /\ i \in StartsIn(ev, f) /\ ev[i].key = key
  BY <1>0, Closed
<1> HIDE DEF new
<1>2. \A f, key : Begun(new, f, key) = Begun(ev, f, key)
  BY <1>1 DEF Begun
<1>3. \A f : TwiceBegun(new, f) <=> TwiceBegun(ev, f)
  BY <1>2 DEF TwiceBegun
<1>4. BaselinesFollow(new)
  <2> SUFFICES ASSUME NEW f \in Resumables, NEW i \in StartsIn(new, f), IsRandom(new[i].key)
               PROVE  /\ \E j \in CompletedIn(new, f, CandidateOf(new[i].key)) : j < i /\ new[j].check = new[i].check
                      /\ \E j \in Begun(new, f, First(f)) : j < i
    BY DEF BaselinesFollow
  <2>1. i \in StartsIn(ev, f) /\ new[i] = ev[i]
    BY <1>1
  <2>2. PICK j \in CompletedIn(ev, f, CandidateOf(ev[i].key)) : j < i /\ ev[j].check = ev[i].check
    BY <1>0, <2>1 DEF BaselinesFollow
  <2>3. j \in CompletedIn(new, f, CandidateOf(ev[i].key)) /\ j \in StartsIn(ev, f)
    BY <1>1, <2>2 DEF CompletedIn
  <2>4. new[j] = ev[j]
    BY <1>1, <2>3
  <2>5. \E k \in Begun(new, f, First(f)) : k < i
    BY <1>0, <1>2, <2>1 DEF BaselinesFollow
  <2>6. QED
    BY <2>1, <2>2, <2>3, <2>4, <2>5
<1>5. CompletedOnce(new)
  <2> SUFFICES ASSUME NEW f \in Resumables, ~TwiceBegun(new, f),
                      NEW i \in StartsIn(new, f), NEW j \in StartsIn(new, f),
                      IsRandom(new[i].key), new[i].key = new[j].key,
                      EndedIn(new, i, {"completed"}), EndedIn(new, j, {"completed"})
               PROVE  i = j
    BY DEF CompletedOnce
  <2>1. i \in StartsIn(ev, f) /\ j \in StartsIn(ev, f) /\ new[i] = ev[i] /\ new[j] = ev[j]
    BY <1>1
  <2>2. ~TwiceBegun(ev, f)
    BY <1>3
  <2>3. (EndedIn(ev, i, {"completed"}) /\ EndedIn(ev, j, {"completed"})) => i = j
    BY <1>0, <2>1, <2>2 DEF CompletedOnce
  <2>4. ASSUME NEW t \in StartsIn(ev, f), t = e.trial, e.type = "completed",
               NEW u \in StartsIn(ev, f), IsRandom(ev[t].key), ev[u].key = ev[t].key,
               EndedIn(ev, u, {"completed"})
        PROVE  u = t
    <3>1. CompletedIn(ev, f, ev[t].key) \subseteq {t}
      BY <2>2, <2>4 DEF Completes
    <3>2. u \in CompletedIn(ev, f, ev[t].key)
      BY <2>4 DEF CompletedIn
    <3>3. QED
      BY <3>1, <3>2
  <2>5. \A k : EndedIn(new, k, {"completed"}) =>
          EndedIn(ev, k, {"completed"}) \/ (k = e.trial /\ e.type = "completed")
    BY <1>1
  <2>6. QED
    BY <2>1, <2>3, <2>4, <2>5
<1>6. QED
  BY <1>1, <1>2, <1>3, <1>4, <1>5 DEF LedgerIn, new

\* What a start must find: a baseline its candidate, completed on the same panel.
Follows(ev, e) ==
  (e.family \in Resumables /\ IsRandom(e.key)) =>
    /\ \E j \in CompletedIn(ev, e.family, CandidateOf(e.key)) : ev[j].check = e.check
    /\ Begun(ev, e.family, First(e.family)) # {}

LEMMA StartKeepsLedger ==
  ASSUME NEW ev, LedgerIn(ev), NEW e, e.type = "started", e.trial = Len(ev) + 1, Follows(ev, e)
  PROVE  LedgerIn(Append(ev, e))
<1> DEFINE new == Append(ev, e)
           n == Len(ev) + 1
<1>0. EventsIn(ev) /\ BaselinesFollow(ev) /\ CompletedOnce(ev)
  BY DEF LedgerIn
<1>1. /\ EventsIn(new) /\ n \notin DOMAIN ev /\ new[n] = e
      /\ \A i \in DOMAIN ev : new[i] = ev[i] /\ i < n
      /\ \A f : StartsIn(new, f) = StartsIn(ev, f) \cup (IF e.family = f THEN {n} ELSE {})
      /\ \A f, key : CompletedIn(new, f, key) = CompletedIn(ev, f, key)
      /\ \A i \in DOMAIN ev : \A types : "started" \notin types =>
           (EndedIn(new, i, types) <=> EndedIn(ev, i, types))
      /\ ~EndedIn(new, n, {"completed"})
  BY <1>0, Started
<1> HIDE DEF new, n
<1>2. \A f : StartsIn(ev, f) \subseteq DOMAIN ev
  BY DEF StartsIn
<1>3. \A f, key : Begun(ev, f, key) \subseteq Begun(new, f, key) /\ Begun(ev, f, key) \subseteq DOMAIN ev
  BY <1>1, <1>2 DEF Begun
<1>4. \A f, key : CompletedIn(ev, f, key) \subseteq DOMAIN ev
  BY <1>2 DEF CompletedIn
<1>5. BaselinesFollow(new)
  <2> SUFFICES ASSUME NEW f \in Resumables, NEW i \in StartsIn(new, f), IsRandom(new[i].key)
               PROVE  /\ \E j \in CompletedIn(new, f, CandidateOf(new[i].key)) : j < i /\ new[j].check = new[i].check
                      /\ \E j \in Begun(new, f, First(f)) : j < i
    BY DEF BaselinesFollow
  <2>1. CASE i \in StartsIn(ev, f)
    <3>1. new[i] = ev[i]
      BY <1>1, <1>2, <2>1
    <3>2. PICK j \in CompletedIn(ev, f, CandidateOf(ev[i].key)) : j < i /\ ev[j].check = ev[i].check
      BY <1>0, <2>1, <3>1 DEF BaselinesFollow
    <3>3. j \in CompletedIn(new, f, CandidateOf(ev[i].key)) /\ new[j] = ev[j]
      BY <1>1, <1>4, <3>2
    <3>4. \E k \in Begun(ev, f, First(f)) : k < i
      BY <1>0, <2>1, <3>1 DEF BaselinesFollow
    <3>5. QED
      BY <1>3, <3>1, <3>2, <3>3, <3>4
  <2>2. CASE i = n /\ e.family = f
    <3>1. new[i] = e
      BY <1>1, <2>2
    <3>2. PICK j \in CompletedIn(ev, f, CandidateOf(e.key)) : ev[j].check = e.check
      BY <2>2, <3>1 DEF Follows
    <3>3. j \in CompletedIn(new, f, CandidateOf(e.key)) /\ new[j] = ev[j] /\ j < i
      BY <1>1, <1>4, <2>2, <3>2
    <3>4. PICK k \in Begun(ev, f, First(f)) : TRUE
      BY <2>2, <3>1 DEF Follows
    <3>5. k \in Begun(new, f, First(f)) /\ k < i
      BY <1>1, <1>3, <2>2, <3>4
    <3>6. QED
      BY <3>1, <3>2, <3>3, <3>5
  <2>3. QED
    BY <1>1, <2>1, <2>2
<1>6. CompletedOnce(new)
  <2> SUFFICES ASSUME NEW f \in Resumables, ~TwiceBegun(new, f),
                      NEW i \in StartsIn(new, f), NEW j \in StartsIn(new, f),
                      IsRandom(new[i].key), new[i].key = new[j].key,
                      EndedIn(new, i, {"completed"}), EndedIn(new, j, {"completed"})
               PROVE  i = j
    BY DEF CompletedOnce
  <2>1. i \in StartsIn(ev, f) /\ j \in StartsIn(ev, f)
    BY <1>1
  <2>2. new[i] = ev[i] /\ new[j] = ev[j] /\ i \in DOMAIN ev /\ j \in DOMAIN ev
    BY <1>1, <1>2, <2>1
  <2>3. "started" \notin {"completed"}
    OBVIOUS
  <2>4. EndedIn(ev, i, {"completed"}) /\ EndedIn(ev, j, {"completed"})
    BY <1>1, <2>2, <2>3
  <2>5. ~TwiceBegun(ev, f)
    BY <1>3 DEF TwiceBegun
  <2>6. QED
    BY <1>0, <2>1, <2>2, <2>4, <2>5 DEF CompletedOnce
<1>7. QED
  BY <1>1, <1>5, <1>6 DEF LedgerIn, new

-----------------------------------------------------------------------------
(* ---- The series of a family --------------------------------------------- *)

LEMMA Division ==
  ASSUME NEW m \in Nat, NEW n \in Nat \ {0}
  PROVE  /\ m \div n \in Nat /\ m % n \in 0..(n - 1)
         /\ m = n * (m \div n) + (m % n)
OBVIOUS

LEMMA FewerThan ==
  ASSUME NEW q \in Nat, NEW c \in Nat, NEW n \in Nat \ {0}, n * q < c * n
  PROVE  q < c
<1>1. SUFFICES ASSUME c <= q PROVE FALSE
  OBVIOUS
<1>2. n * c <= n * q
  BY <1>1
<1>3. n * c = c * n
  OBVIOUS
<1>4. n * c \in Nat /\ n * q \in Nat
  OBVIOUS
<1>5. QED
  BY <1>2, <1>3, <1>4

LEMMA KeyFields ==
  ASSUME NEW a, NEW b, NEW c
  PROVE  Key(a, b, c).name = a /\ Key(a, b, c).of = b
BY DEF Key

LEMMA ConfigList ==
  ASSUME NEW f \in DOMAIN Families
  PROVE  /\ IsList(Configs(f)) /\ Len(Configs(f)) = Len(Families[f].candidates) + 1
         /\ Len(Families[f].candidates) \in Nat
         /\ \A i \in DOMAIN Configs(f) : ~IsRandom(Configs(f)[i])
         /\ \A i, j \in DOMAIN Configs(f) : Configs(f)[i] = Configs(f)[j] => i = j
         /\ \A i \in 1..Len(Families[f].candidates) :
              i \in DOMAIN Configs(f) /\ Configs(f)[i] = Key(Families[f].candidates[i], "", 0)
<1> DEFINE names == Families[f].candidates
           all == Append(names, Hold)
           n == Len(names) + 1
           none == ""
<1>1. names \in Seq(DOMAIN Rules \ {Hold, Random}) /\ IsInjective(names)
  BY FamilyAssumption
<1>2. Len(names) \in Nat /\ DOMAIN names = 1..Len(names)
      /\ \A i \in 1..Len(names) : names[i] \in DOMAIN Rules \ {Hold, Random}
  BY <1>1
<1>3. \A i, j \in 1..Len(names) : names[i] = names[j] => i = j
  BY <1>1, <1>2 DEF IsInjective
<1>4. all[n] = Hold /\ \A i \in 1..Len(names) : all[i] = names[i]
  BY <1>1, <1>2
<1>5. Hold # Random
  BY DEF Hold, Random
<1>6. Configs(f) = [i \in 1..n |-> Key(all[i], none, 0)]
  BY DEF Configs
<1> HIDE DEF all, names, none
<1>7. n \in Nat /\ \A i \in 1..n : i = n \/ i \in 1..Len(names)
  BY <1>2
<1>8. Configs(f) = [i \in 1..n |-> Configs(f)[i]]
  BY <1>6
<1>9. IsList(Configs(f)) /\ Len(Configs(f)) = n /\ DOMAIN Configs(f) = 1..n
  BY <1>7, <1>8, MadeASeq
<1>10. \A i \in 1..n : Configs(f)[i] = Key(all[i], none, 0)
  BY <1>6
<1>11. \A i \in 1..n : all[i] # Random
  BY <1>2, <1>4, <1>5, <1>7
<1>12. \A i, j \in 1..n : all[i] = all[j] => i = j
  BY <1>2, <1>3, <1>4, <1>7
<1>13. \A i \in DOMAIN Configs(f) : ~IsRandom(Configs(f)[i])
  <2>1. ASSUME NEW i \in 1..n PROVE ~IsRandom(Configs(f)[i])
    <3>1. Configs(f)[i].name = all[i]
      <4>1. Configs(f)[i] = Key(all[i], none, 0)
        BY <1>10
      <4>2. QED
        BY <4>1, KeyFields
    <3>2. QED
      BY <1>11, <3>1 DEF IsRandom
  <2>2. QED
    BY <1>9, <2>1
<1>14. \A i, j \in DOMAIN Configs(f) : Configs(f)[i] = Configs(f)[j] => i = j
  <2>1. ASSUME NEW i \in 1..n PROVE Configs(f)[i].name = all[i]
    <3>1. Configs(f)[i] = Key(all[i], none, 0)
      BY <1>10
    <3>2. QED
      BY <3>1, KeyFields
  <2>2. QED
    BY <1>9, <1>12, <2>1
<1>15. ASSUME NEW i \in 1..Len(names)
       PROVE  i \in 1..n /\ Configs(f)[i] = Key(names[i], none, 0)
  <2>1. i \in 1..n /\ all[i] = names[i]
    BY <1>2, <1>4
  <2>2. QED
    BY <1>10, <2>1
<1>16. QED
  BY <1>2, <1>9, <1>13, <1>14, <1>15 DEF names, none

LEMMA PairList ==
  ASSUME NEW f \in DOMAIN Families
  PROVE  /\ IsList(Pairs(f)) /\ DOMAIN Pairs(f) \subseteq Nat
         /\ \A n \in DOMAIN Pairs(f) :
              /\ IsRandom(Pairs(f)[n])
              /\ \E i \in 1..Len(Families[f].candidates) : Pairs(f)[n].of = Families[f].candidates[i]
         /\ \A m, n \in DOMAIN Pairs(f) : Pairs(f)[m] = Pairs(f)[n] => m = n
<1> DEFINE names == Families[f].candidates
           draws == Len(Seeds)
           c == Len(names)
           At(n) == ((n - 1) \div draws) + 1
           Draw(n) == ((n - 1) % draws) + 1
<1>1. names \in Seq(DOMAIN Rules \ {Hold, Random}) /\ IsInjective(names)
      /\ Seeds \in Seq(Nat) /\ IsInjective(Seeds)
  BY FamilyAssumption
<1>2. c \in Nat /\ DOMAIN names = 1..c /\ draws \in Nat /\ DOMAIN Seeds = 1..draws
  BY <1>1
<1>3. \A i, j \in 1..c : names[i] = names[j] => i = j
  BY <1>1, <1>2 DEF IsInjective
<1>4. \A i, j \in 1..draws : Seeds[i] = Seeds[j] => i = j
  BY <1>1, <1>2 DEF IsInjective
<1>5. c * draws \in Nat
  BY <1>2
<1>6. Pairs(f) = [n \in 1..(c * draws) |-> Key(Random, names[At(n)], Seeds[Draw(n)])]
  BY DEF Pairs
<1> HIDE DEF names, draws
<1>7. ASSUME NEW n \in 1..(c * draws)
      PROVE  /\ n \in Nat /\ At(n) \in 1..c /\ Draw(n) \in 1..draws
             /\ n = draws * (At(n) - 1) + Draw(n)
  <2>1. n \in Nat /\ n - 1 \in Nat /\ n - 1 < c * draws
    BY <1>5
  <2>2. draws # 0
    <3>1. c * 0 = 0
      BY <1>2
    <3>2. QED
      BY <1>2, <2>1, <3>1
  <2> DEFINE q == (n - 1) \div draws
             r == (n - 1) % draws
  <2>3. q \in Nat /\ r \in 0..(draws - 1) /\ n - 1 = draws * q + r
    BY <1>2, <2>1, <2>2, Division
  <2>a. At(n) = q + 1 /\ Draw(n) = r + 1
    OBVIOUS
  <2> HIDE DEF q, r, At, Draw
  <2>4. draws * q \in Nat /\ r \in Nat
    BY <1>2, <2>3
  <2>5. draws * q < c * draws
    BY <1>5, <2>1, <2>3, <2>4
  <2>6. q < c
    BY <1>2, <2>2, <2>3, <2>5, FewerThan
  <2>7. At(n) - 1 = q
    BY <2>3, <2>a
  <2>8. n = draws * q + (r + 1)
    BY <2>1, <2>3, <2>4
  <2>9. At(n) \in 1..c /\ Draw(n) \in 1..draws
    BY <1>2, <2>3, <2>6, <2>a
  <2>10. QED
    BY <2>1, <2>7, <2>8, <2>9, <2>a
<1> HIDE DEF c, At, Draw
<1>8. DOMAIN Pairs(f) = 1..(c * draws)
  BY <1>6
<1>9. \A n \in DOMAIN Pairs(f) : Pairs(f)[n] = Key(Random, names[At(n)], Seeds[Draw(n)])
  BY <1>6, <1>8
<1>10. \A n \in DOMAIN Pairs(f) : IsRandom(Pairs(f)[n]) /\ Pairs(f)[n].of = names[At(n)]
  BY <1>9 DEF IsRandom, Key
<1>11. ASSUME NEW m \in DOMAIN Pairs(f), NEW n \in DOMAIN Pairs(f), Pairs(f)[m] = Pairs(f)[n]
       PROVE  m = n
  <2>1. names[At(m)] = names[At(n)] /\ Seeds[Draw(m)] = Seeds[Draw(n)]
    BY <1>9, <1>11 DEF Key
  <2>2. At(m) = At(n) /\ Draw(m) = Draw(n)
    BY <1>3, <1>4, <1>7, <1>8, <2>1
  <2>3. m = draws * (At(m) - 1) + Draw(m) /\ n = draws * (At(n) - 1) + Draw(n)
    BY <1>7, <1>8
  <2>4. QED
    BY <2>2, <2>3
<1>12. IsList(Pairs(f))
  <2>1. Pairs(f) = [n \in 1..(c * draws) |-> Pairs(f)[n]]
    BY <1>6
  <2>2. QED
    BY <1>5, <2>1, MadeASeq
<1>13. QED
  BY <1>7, <1>8, <1>10, <1>11, <1>12 DEF names, c

LEMMA SeriesList ==
  ASSUME NEW f \in DOMAIN Families
  PROVE  /\ IsList(Series(f)) /\ Series(f) # <<>>
         /\ First(f) = Series(f)[1] /\ 1 \in DOMAIN Series(f)
         /\ First(f) \in Range(Configs(f))
         /\ \A m, n \in DOMAIN Series(f) : Series(f)[m] = Series(f)[n] => m = n
         /\ \A n \in DOMAIN Series(f) : IsRandom(Series(f)[n]) =>
              /\ 1 < n /\ Series(f)[n] \in Range(Pairs(f))
              /\ \E m \in DOMAIN Series(f) : m < n /\ Series(f)[m] = CandidateOf(Series(f)[n])
         /\ \A key : key \in Range(Series(f)) <=> key \in Range(Configs(f)) \/ key \in Range(Pairs(f))
<1> DEFINE C == Configs(f)
           P == Pairs(f)
           a == Len(C)
           b == Len(P)
           S == {C[i] : i \in DOMAIN C} \cup {P[i] : i \in DOMAIN P}
           all == Series(f)
<1>1. IsList(C) /\ IsList(P) /\ a \in Nat \ {0} /\ b \in Nat /\ DOMAIN C = 1..a /\ DOMAIN P = 1..b
  <2>1. IsList(C) /\ IsList(P) /\ Len(C) = Len(Families[f].candidates) + 1
        /\ Len(Families[f].candidates) \in Nat
    BY ConfigList, PairList
  <2>2. Len(C) \in Nat /\ Len(P) \in Nat /\ DOMAIN C = 1..Len(C) /\ DOMAIN P = 1..Len(P)
    BY <2>1, SeqFacts
  <2>3. QED
    BY <2>1, <2>2
<1>2. C \in Seq(S) /\ P \in Seq(S)
  BY <1>1 DEF IsList
<1>3. all = C \o P
  BY DEF Series
<1>4. /\ all \in Seq(S) /\ Len(all) = a + b
      /\ \A i \in 1..(a + b) : all[i] = IF i <= a THEN C[i] ELSE P[i - a]
  BY <1>2, <1>3, ConcatProperties
<1>5. \A i \in 1..a : ~IsRandom(C[i])
  BY <1>1, ConfigList
<1>6. \A i \in 1..b : IsRandom(P[i])
  BY <1>1, PairList
<1>c. /\ \A i, j \in 1..a : C[i] = C[j] => i = j
      /\ \A i, j \in 1..b : P[i] = P[j] => i = j
  <2>1. \A i, j \in DOMAIN C : C[i] = C[j] => i = j
    BY ConfigList
  <2>2. \A i, j \in DOMAIN P : P[i] = P[j] => i = j
    BY PairList
  <2>3. QED
    BY <1>1, <2>1, <2>2
<1>d. ASSUME NEW n \in 1..b PROVE \E m \in 1..a : C[m] = CandidateOf(P[n])
  <2>1. PICK i \in 1..Len(Families[f].candidates) : P[n].of = Families[f].candidates[i]
    BY <1>1, PairList
  <2>2. i \in DOMAIN C /\ C[i] = Key(Families[f].candidates[i], "", 0)
    BY ConfigList
  <2>3. QED
    BY <1>1, <2>1, <2>2 DEF CandidateOf
<1> HIDE DEF C, P, a, b, S, all
<1>7. DOMAIN all = 1..(a + b)
  BY <1>4, LenProperties
<1>8. \A i \in 1..(a + b) : i \in Nat
  BY <1>1
<1>9. \A i \in 1..a : i \in DOMAIN all /\ all[i] = C[i]
  BY <1>1, <1>4, <1>7
<1>10. \A i \in DOMAIN all : (i \in 1..a /\ all[i] = C[i]) \/ (i - a \in 1..b /\ i > a /\ all[i] = P[i - a])
  BY <1>1, <1>4, <1>7
<1>11. \A i \in 1..b : a + i \in DOMAIN all /\ all[a + i] = P[i]
  BY <1>1, <1>4, <1>7
<1>12. IsList(all)
  <2>1. all = [i \in 1..(a + b) |-> all[i]]
    BY <1>4, LenProperties
  <2>2. QED
    BY <1>1, <2>1, MadeASeq
<1>13. all # <<>> /\ 1 \in DOMAIN all /\ all[1] = C[1] /\ 1 \in DOMAIN C
  BY <1>1, <1>7, <1>9
<1>14. ASSUME NEW m \in DOMAIN all, NEW n \in DOMAIN all, all[m] = all[n] PROVE m = n
  <2>1. CASE m \in 1..a /\ n \in 1..a
    BY <1>1, <1>7, <1>8, <1>10, <1>14, <1>c, <2>1
  <2>2. CASE ~(m \in 1..a) /\ ~(n \in 1..a)
    <3>1. m - a = n - a
      BY <1>10, <1>14, <1>c, <2>2
    <3>2. QED
      BY <1>1, <1>7, <1>8, <3>1
  <2>3. CASE (m \in 1..a) # (n \in 1..a)
    <3>1. m \in 1..a => ~IsRandom(all[m]) /\ ~(n \in 1..a) /\ IsRandom(all[n])
      BY <1>1, <1>5, <1>6, <1>8, <1>7, <1>10, <2>3, <1>9
    <3>2. n \in 1..a => ~IsRandom(all[n]) /\ ~(m \in 1..a) /\ IsRandom(all[m])
      BY <1>1, <1>5, <1>6, <1>8, <1>7, <1>10, <2>3, <1>9
    <3>3. QED
      BY <1>14, <2>3, <3>1, <3>2
  <2>4. QED
    BY <2>1, <2>2, <2>3
<1>15. ASSUME NEW n \in DOMAIN all, IsRandom(all[n])
       PROVE  1 < n /\ all[n] \in Range(P) /\ \E m \in DOMAIN all : m < n /\ all[m] = CandidateOf(all[n])
  <2>1. ~(n \in 1..a)
    BY <1>5, <1>9, <1>15
  <2>2. n - a \in 1..b /\ n > a /\ all[n] = P[n - a]
    BY <1>10, <2>1
  <2>3. PICK m \in 1..a : C[m] = CandidateOf(P[n - a])
    BY <1>d, <2>2
  <2>4. m \in DOMAIN all /\ all[m] = C[m] /\ m < n /\ 1 < n
    BY <1>1, <1>7, <1>8, <1>9, <2>2, <2>3
  <2>5. all[n] \in Range(P)
    BY <1>1, <2>2 DEF Range
  <2>6. QED
    BY <2>2, <2>3, <2>4, <2>5
<1>16. ASSUME NEW key PROVE key \in Range(all) <=> key \in Range(C) \/ key \in Range(P)
  BY <1>1, <1>9, <1>10, <1>11 DEF Range
<1>17. C[1] \in Range(C)
  BY <1>13 DEF Range
<1>18. QED
  BY <1>12, <1>13, <1>14, <1>15, <1>16, <1>17 DEF all, C, P, First

\* A baseline's candidate is one of the configurations.
LEMMA CandidateListed ==
  ASSUME NEW f \in DOMAIN Families, NEW key \in Range(Pairs(f))
  PROVE  CandidateOf(key) \in Range(Configs(f))
<1> DEFINE none == ""
<1>1. PICK n \in DOMAIN Pairs(f) : Pairs(f)[n] = key
  BY DEF Range
<1>2. PICK i \in 1..Len(Families[f].candidates) : key.of = Families[f].candidates[i]
  BY <1>1, PairList
<1>3. i \in DOMAIN Configs(f) /\ Configs(f)[i] = Key(Families[f].candidates[i], none, 0)
  BY ConfigList
<1>4. CandidateOf(key) = Key(key.of, none, 0)
  BY DEF CandidateOf
<1> HIDE DEF none
<1>5. QED
  BY <1>2, <1>3, <1>4 DEF Range

LEMMA SortedList ==
  ASSUME NEW S, IsFiniteSet(S), S \subseteq Nat
  PROVE  /\ IsList(Sorted(S))
         /\ \A k \in DOMAIN Sorted(S) : Sorted(S)[k] \in S
         /\ \A i, j \in DOMAIN Sorted(S) : Sorted(S)[i] = Sorted(S)[j] => i = j
         /\ \A x \in S : \E k \in DOMAIN Sorted(S) : Sorted(S)[k] = x
<1> DEFINE known == Sorted(S)
<1>1. /\ DOMAIN known = 1..Cardinality(S) /\ Cardinality(S) \in Nat
      /\ \A k \in 1..Cardinality(S) : known[k] \in S
      /\ \A i, j \in 1..Cardinality(S) : i < j => known[i] + (j - i) <= known[j]
  BY SortedRows
<1>2. \A x \in S : \E k \in DOMAIN known : known[k] = x
  BY EveryElementSorted
<1>3. known = [k \in 1..Cardinality(S) |-> known[k]]
  <2> DEFINE At(k) == CHOOSE x \in S : Cardinality({y \in S : y < x}) = k - 1
  <2>1. known = [k \in 1..Cardinality(S) |-> At(k)]
    BY DEF Sorted
  <2> HIDE DEF known, At
  <2>2. QED
    BY <2>1
<1> HIDE DEF known
<1>4. IsList(known)
  BY <1>1, <1>3, MadeASeq
<1>5. ASSUME NEW i \in DOMAIN known, NEW j \in DOMAIN known, known[i] = known[j] PROVE i = j
  <2>1. i \in Nat /\ j \in Nat /\ known[i] \in Nat /\ known[j] \in Nat
    <3>1. i \in 1..Cardinality(S) /\ j \in 1..Cardinality(S)
      BY <1>1, <1>5
    <3>2. known[i] \in S /\ known[j] \in S
      BY <1>1, <3>1
    <3>3. known[i] \in Nat /\ known[j] \in Nat
      BY <3>2
    <3>4. i \in Nat /\ j \in Nat
      BY <1>1, <3>1
    <3>5. QED
      BY <3>3, <3>4
  <2>2. ASSUME i < j PROVE FALSE
    <3>1. known[i] + (j - i) <= known[j]
      BY <1>1, <2>2
    <3>2. QED
      BY <1>5, <2>1, <2>2, <3>1
  <2>3. ASSUME j < i PROVE FALSE
    <3>1. known[j] + (i - j) <= known[i]
      BY <1>1, <2>3
    <3>2. QED
      BY <1>5, <2>1, <2>3, <3>1
  <2>4. QED
    BY <2>1, <2>2, <2>3
<1>6. QED
  BY <1>1, <1>2, <1>4, <1>5 DEF known

LEMMA RemainingList ==
  ASSUME NEW f \in DOMAIN Families
  PROVE  /\ IsList(Remaining(f))
         /\ \A n \in DOMAIN Remaining(f) :
              /\ IsRandom(Remaining(f)[n]) /\ Remaining(f)[n] \in Range(Pairs(f))
              /\ CompletedIn(events, f, Remaining(f)[n]) = {}
         /\ \A m, n \in DOMAIN Remaining(f) : Remaining(f)[m] = Remaining(f)[n] => m = n
         /\ \A key \in Range(Pairs(f)) : CompletedIn(events, f, key) = {} =>
              \E n \in DOMAIN Remaining(f) : Remaining(f)[n] = key
<1> DEFINE S == {n \in DOMAIN Pairs(f) : Completed(f, Pairs(f)[n]) = {}}
           left == Sorted(S)
           todo == Remaining(f)
<1>1. \A key : Completed(f, key) = CompletedIn(events, f, key)
  BY DEF Completed, CompletedIn, Starts, StartsIn, Ended, EndedIn
<1>2. /\ IsList(Pairs(f)) /\ DOMAIN Pairs(f) \subseteq Nat
      /\ \A n \in DOMAIN Pairs(f) : IsRandom(Pairs(f)[n])
      /\ \A m, n \in DOMAIN Pairs(f) : Pairs(f)[m] = Pairs(f)[n] => m = n
  BY PairList
<1>3. IsFiniteSet(S) /\ S \subseteq Nat
  <2>1. Len(Pairs(f)) \in Nat /\ DOMAIN Pairs(f) = 1..Len(Pairs(f))
    BY <1>2, SeqFacts
  <2>2. IsFiniteSet(1..Len(Pairs(f)))
    BY <2>1, FS_Interval
  <2>3. S \subseteq DOMAIN Pairs(f)
    OBVIOUS
  <2>4. QED
    BY <1>2, <2>1, <2>2, <2>3, FS_Subset
<1>4. todo = [k \in DOMAIN left |-> Pairs(f)[left[k]]]
  BY DEF Remaining
<1>5. \A n : n \in S <=> n \in DOMAIN Pairs(f) /\ CompletedIn(events, f, Pairs(f)[n]) = {}
  BY <1>1
<1> HIDE DEF S, todo
<1>6. /\ IsList(left)
      /\ \A k \in DOMAIN left : left[k] \in S
      /\ \A i, j \in DOMAIN left : left[i] = left[j] => i = j
      /\ \A x \in S : \E k \in DOMAIN left : left[k] = x
  BY <1>3, SortedList
<1> HIDE DEF left
<1>7. DOMAIN todo = DOMAIN left /\ \A k \in DOMAIN left : todo[k] = Pairs(f)[left[k]]
  BY <1>4
<1>8. IsList(todo)
  <2>1. Len(left) \in Nat /\ DOMAIN left = 1..Len(left)
    BY <1>6, SeqFacts
  <2>2. todo = [k \in 1..Len(left) |-> todo[k]]
    BY <1>4, <2>1
  <2>3. QED
    BY <2>1, <2>2, MadeASeq
<1>9. ASSUME NEW n \in DOMAIN todo
      PROVE  IsRandom(todo[n]) /\ todo[n] \in Range(Pairs(f)) /\ CompletedIn(events, f, todo[n]) = {}
  <2>1. left[n] \in S /\ todo[n] = Pairs(f)[left[n]]
    BY <1>6, <1>7
  <2>2. left[n] \in DOMAIN Pairs(f) /\ CompletedIn(events, f, todo[n]) = {}
    BY <1>5, <2>1
  <2>3. QED
    BY <1>2, <2>1, <2>2 DEF Range
<1>10. ASSUME NEW m \in DOMAIN todo, NEW n \in DOMAIN todo, todo[m] = todo[n] PROVE m = n
  BY <1>2, <1>5, <1>6, <1>7, <1>10
<1>11. ASSUME NEW key \in Range(Pairs(f)), CompletedIn(events, f, key) = {}
       PROVE  \E n \in DOMAIN todo : todo[n] = key
  <2>1. PICK n \in DOMAIN Pairs(f) : Pairs(f)[n] = key
    BY DEF Range
  <2>2. n \in S
    BY <1>5, <1>11, <2>1
  <2>3. QED
    BY <1>6, <1>7, <2>1, <2>2
<1>12. QED
  BY <1>8, <1>9, <1>10, <1>11 DEF todo

\* The trials left open are listed once, in the order they were started.
LEMMA DanglingList ==
  ASSUME EventsIn(events), NEW f
  PROVE  IsList(Sorted(Dangling(f))) /\ Range(Sorted(Dangling(f))) = DanglingIn(events, f)
         /\ DanglingIn(events, f) \subseteq StartsIn(events, f)
<1>1. Dangling(f) = DanglingIn(events, f)
  BY DEF Dangling, DanglingIn, Starts, StartsIn, Ended, EndedIn
<1>2. Dangling(f) \subseteq DOMAIN events
  BY DEF Dangling, Starts
<1>3. Len(events) \in Nat /\ DOMAIN events = 1..Len(events)
  BY SeqFacts DEF EventsIn
<1>4. IsFiniteSet(Dangling(f)) /\ Dangling(f) \subseteq Nat
  <2>1. IsFiniteSet(1..Len(events))
    BY <1>3, FS_Interval
  <2>2. QED
    BY <1>2, <1>3, <2>1, FS_Subset
<1>5. QED
  BY <1>1, <1>4, SortedList DEF Range, DanglingIn

-----------------------------------------------------------------------------
(* ---- The steps of a program --------------------------------------------- *)

LEMMA OffIn ==
  /\ DOMAIN Off = RunFields /\ Off.at = "off" /\ Off.resumes = FALSE
  /\ Off.todo = <<>> /\ Off.open = <<>> /\ Off.kept = <<>> /\ Off.closing = <<>>
  /\ \A ev : RunIn(ev, Off)
<1> DEFINE none == ""
<1>1. Off = [at |-> "off", family |-> none, check |-> none, resumes |-> FALSE, todo |-> <<>>,
             open |-> <<>>, kept |-> <<>>, closing |-> <<>>, raised |-> none]
  BY DEF Off
<1> HIDE DEF none
<1>2. /\ DOMAIN Off = RunFields /\ Off.at = "off" /\ Off.resumes = FALSE
      /\ Off.todo = <<>> /\ Off.open = <<>> /\ Off.kept = <<>> /\ Off.closing = <<>>
  BY <1>1 DEF RunFields
<1>3. IsList(<<>>)
  BY EmptyList
<1>4. ShapeIn(Off)
  BY <1>2, <1>3 DEF ShapeIn
<1>5. ~Active(Off)
  BY <1>2 DEF Active
<1>6. QED
  BY <1>2, <1>4, <1>5 DEF RunIn

LEMMA Resumed ==
  ASSUME NEW f \in Resumables
  PROVE  f \in DOMAIN Families /\ ~Families[f].together /\ ~Families[f].heldBack
BY FamilyAssumption DEF Resumables

LEMMA NothingListed == \A x : x \notin DOMAIN <<>>
BY EmptyList

\* A program begins with every series of its family to be started.
LEMMA FamilyLaunchStep ==
  ASSUME FamilyInv, NEW f \in DOMAIN Families, NEW c, NEW reason, Launch(f, c, reason)
  PROVE  FamilyInv'
<1>1. /\ DOMAIN run' = RunFields
      /\ run'.at = "start" /\ run'.family = f /\ run'.check = c /\ run'.resumes = FALSE
      /\ run'.todo = Series(f) /\ run'.open = <<>> /\ run'.kept = <<>> /\ run'.closing = <<>>
  <2>1. run' = [Off EXCEPT !.at = "start", !.family = f, !.check = c, !.todo = Series(f)]
    BY DEF Launch
  <2>2. QED
    BY <2>1, OffIn DEF RunFields
<1>2. c \in Built /\ events' = events
  BY DEF Launch
<1>3. /\ IsList(Series(f)) /\ Series(f) # <<>>
      /\ First(f) = Series(f)[1] /\ 1 \in DOMAIN Series(f)
      /\ \A m, n \in DOMAIN Series(f) : Series(f)[m] = Series(f)[n] => m = n
      /\ \A n \in DOMAIN Series(f) : IsRandom(Series(f)[n]) =>
           /\ 1 < n
           /\ \E m \in DOMAIN Series(f) : m < n /\ Series(f)[m] = CandidateOf(Series(f)[n])
  BY SeriesList
<1>4. ShapeIn(run')
  BY <1>1, <1>2, <1>3, EmptyList DEF ShapeIn
<1>5. TrialsIn(events, run') /\ StageIn(run')
  <2>1. TrialsIn(events, run')
    BY <1>1, NothingListed DEF TrialsIn
  <2>2. StageIn(run')
    BY <1>1, <1>3 DEF StageIn
  <2>3. QED
    BY <2>1, <2>2
<1>6. \A key : InTodo(run', key) <=> key \in Range(Series(f))
  BY <1>1 DEF InTodo, Range
<1>7. CoveredIn(events, run')
  BY <1>1, <1>6 DEF CoveredIn
<1>8. OrderIn(events, run')
  BY <1>1, <1>3 DEF OrderIn
<1>9. FreshIn(events, run')
  <2>1. \A key : ~OpenKey(events, run', key)
    BY <1>1, NothingListed DEF OpenKey
  <2>2. InTodo(run', First(f))
    BY <1>1, <1>3 DEF InTodo
  <2>3. QED
    BY <1>1, <1>3, <2>1, <2>2 DEF FreshIn
<1>10. QED
  BY <1>1, <1>2, <1>4, <1>5, <1>7, <1>8, <1>9 DEF FamilyInv, RunIn

\* A resumed program has the baselines to start that were not completed.
LEMMA ResumeStep ==
  ASSUME FamilyInv, NEW f \in DOMAIN Families, NEW c, Resume(f, c)
  PROVE  FamilyInv'
<1>1. /\ DOMAIN run' = RunFields
      /\ run'.at = "close" /\ run'.family = f /\ run'.check = c /\ run'.resumes = TRUE
      /\ run'.todo = Remaining(f) /\ run'.closing = Sorted(Dangling(f))
      /\ run'.open = <<>> /\ run'.kept = <<>>
  <2>1. run' = [Off EXCEPT !.at = "close", !.family = f, !.check = c, !.resumes = TRUE,
                           !.todo = Remaining(f), !.closing = Sorted(Dangling(f))]
    BY DEF Resume
  <2>2. QED
    BY <2>1, OffIn DEF RunFields
<1>2. c \in Built /\ events' = events /\ f \in Resumables /\ EventsIn(events)
  BY DEF Resume, Resumables, FamilyInv, LedgerIn
<1>3. /\ IsList(Remaining(f))
      /\ \A n \in DOMAIN Remaining(f) :
           /\ IsRandom(Remaining(f)[n]) /\ Remaining(f)[n] \in Range(Pairs(f))
           /\ CompletedIn(events, f, Remaining(f)[n]) = {}
      /\ \A m, n \in DOMAIN Remaining(f) : Remaining(f)[m] = Remaining(f)[n] => m = n
      /\ \A key \in Range(Pairs(f)) : CompletedIn(events, f, key) = {} =>
           \E n \in DOMAIN Remaining(f) : Remaining(f)[n] = key
  BY RemainingList
<1>4. /\ IsList(Sorted(Dangling(f))) /\ Range(Sorted(Dangling(f))) = DanglingIn(events, f)
      /\ DanglingIn(events, f) \subseteq StartsIn(events, f)
  BY <1>2, DanglingList
<1>5. \A key : CompletedIn(events, f, key) \subseteq Begun(events, f, key)
  BY DEF CompletedIn, Begun
<1>6. \A key : \A i \in CompletedIn(events, f, key) : events[i].check = c
  <2>1. {events[i].check : i \in StartsIn(events, f)} = {c}
    BY DEF Resume, OnePanel, Starts, StartsIn
  <2>2. \A key : CompletedIn(events, f, key) \subseteq StartsIn(events, f)
    BY DEF CompletedIn
  <2>3. QED
    BY <2>1, <2>2
<1>7. ASSUME NEW key \in Range(Configs(f))
      PROVE  \E i \in CompletedIn(events, f, key) : Begun(events, f, key) = {i}
  <2>1. /\ Cardinality({i \in Starts(f) : events[i].key = key}) = 1
        /\ Completed(f, key) # {}
    BY DEF Resume, ConfigsCompleteOnce
  <2>2. Completed(f, key) = CompletedIn(events, f, key)
    BY DEF Completed, CompletedIn, Starts, StartsIn, Ended, EndedIn
  <2>3. {i \in Starts(f) : events[i].key = key} = Begun(events, f, key)
    BY DEF Starts, StartsIn, Begun
  <2>4. IsFiniteSet(Begun(events, f, key))
    <3>1. Len(events) \in Nat /\ DOMAIN events = 1..Len(events)
      BY <1>2, SeqFacts DEF EventsIn
    <3>2. IsFiniteSet(1..Len(events))
      BY <3>1, FS_Interval
    <3>3. Begun(events, f, key) \subseteq DOMAIN events
      BY DEF Begun, StartsIn
    <3>4. QED
      BY <3>1, <3>2, <3>3, FS_Subset
  <2>5. PICK j : Begun(events, f, key) = {j}
    <3>1. Cardinality(Begun(events, f, key)) = 1
      BY <2>1, <2>3
    <3>2. QED
      BY <2>4, <3>1, FS_Singleton
  <2>6. QED
    BY <1>5, <2>1, <2>2, <2>5
<1>8. ShapeIn(run')
  BY <1>1, <1>2, <1>3, <1>4, EmptyList DEF ShapeIn
<1>9. TrialsIn(events, run')
  <2>1. \A n \in DOMAIN run'.closing : run'.closing[n] \in StartsIn(events, f)
    BY <1>1, <1>4 DEF Range
  <2>2. QED
    BY <1>1, <2>1, NothingListed DEF TrialsIn
<1>10. StageIn(run')
  BY <1>1 DEF StageIn
<1>11. \A key : ~OpenKey(events, run', key)
  BY <1>1, NothingListed DEF OpenKey
<1>12. \A key \in Range(Configs(f)) : DoneOn(events, run', key)
  BY <1>1, <1>6, <1>7 DEF DoneOn
<1>13. CoveredIn(events, run')
  <2> SUFFICES ASSUME NEW key \in Range(Series(f))
               PROVE  InTodo(run', key) \/ DoneOn(events, run', key)
    BY <1>1 DEF CoveredIn
  <2>1. key \in Range(Configs(f)) \/ key \in Range(Pairs(f))
    BY SeriesList
  <2>2. CASE key \in Range(Pairs(f)) /\ CompletedIn(events, f, key) = {}
    BY <1>1, <1>3, <2>2 DEF InTodo
  <2>3. CASE CompletedIn(events, f, key) # {}
    BY <1>1, <1>6, <2>3 DEF DoneOn
  <2>4. QED
    BY <1>12, <2>1, <2>2, <2>3
<1>14. First(f) \in Range(Configs(f)) /\ ~IsRandom(First(f))
  <2>1. First(f) \in Range(Configs(f))
    BY SeriesList
  <2>2. QED
    BY <2>1, ConfigList DEF Range
<1>15. OrderIn(events, run')
  <2> SUFFICES ASSUME NEW n \in DOMAIN Remaining(f)
               PROVE  /\ DoneOn(events, run', CandidateOf(Remaining(f)[n]))
                      /\ Begun(events, f, First(f)) # {}
    BY <1>1 DEF OrderIn
  <2>1. CandidateOf(Remaining(f)[n]) \in Range(Configs(f))
    BY <1>3, CandidateListed
  <2>2. QED
    BY <1>7, <1>12, <1>14, <2>1
<1>16. FreshIn(events, run')
  <2>1. \A n \in DOMAIN run'.todo : run'.todo[n] # First(f)
    BY <1>1, <1>3, <1>14
  <2>2. \A key : InTodo(run', key) => CompletedIn(events, f, key) = {}
    BY <1>1, <1>3 DEF InTodo
  <2>3. QED
    BY <1>1, <1>3, <1>11, <2>1, <2>2 DEF FreshIn
<1>17. ResumedIn(events, run')
  BY <1>1, <1>3, <1>4, <1>7 DEF ResumedIn
<1>18. QED
  BY <1>1, <1>2, <1>8, <1>9, <1>10, <1>13, <1>15, <1>16, <1>17 DEF FamilyInv, RunIn

LEMMA Known ==
  ASSUME FamilyInv
  PROVE  /\ LedgerIn(events) /\ EventsIn(events) /\ ShapeIn(run) /\ DOMAIN run = RunFields
         /\ IsList(run.todo) /\ IsList(run.open) /\ IsList(run.kept) /\ IsList(run.closing)
         /\ run.at # "off" => TrialsIn(events, run) /\ StageIn(run) /\ run.family \in DOMAIN Families
         /\ Active(run) => CoveredIn(events, run)
         /\ (Active(run) /\ run.family \in Resumables) => OrderIn(events, run) /\ FreshIn(events, run)
         /\ (Active(run) /\ run.resumes) => run.family \in Resumables /\ ResumedIn(events, run)
<1>1. LedgerIn(events) /\ RunIn(events, run)
  BY DEF FamilyInv
<1>2. EventsIn(events)
  BY <1>1 DEF LedgerIn
<1>3. ShapeIn(run) /\ (Active(run) => run.at # "off")
  BY <1>1 DEF RunIn, Active
<1>4. QED
  BY <1>1, <1>2, <1>3 DEF RunIn, ShapeIn

\* A receipt leaves what is at work and what is done as it was.
LEMMA ReceiptKeepsRun ==
  ASSUME NEW ev, LedgerIn(ev), NEW r, TrialsIn(ev, r),
         NEW e, e.type \in Terminals, e.trial \in DOMAIN ev, Completes(ev, e)
  PROVE  /\ LedgerIn(Append(ev, e))
         /\ \A f, key : Begun(Append(ev, e), f, key) = Begun(ev, f, key)
         /\ \A f : TwiceBegun(Append(ev, e), f) <=> TwiceBegun(ev, f)
         /\ TrialsIn(Append(ev, e), r)
         /\ \A key : OpenKey(Append(ev, e), r, key) <=> OpenKey(ev, r, key)
         /\ \A key : DoneOn(ev, r, key) => DoneOn(Append(ev, e), r, key)
         /\ \A f, key : \A i : i \in CompletedIn(Append(ev, e), f, key) <=>
              \/ i \in CompletedIn(ev, f, key)
              \/ e.type = "completed" /\ i = e.trial /\ i \in StartsIn(ev, f) /\ ev[i].key = key
         /\ \A f : DanglingIn(Append(ev, e), f) = DanglingIn(ev, f) \ {e.trial}
         /\ \A f : StartsIn(Append(ev, e), f) = StartsIn(ev, f)
         /\ \A i \in DOMAIN ev : Append(ev, e)[i] = ev[i]
<1> DEFINE new == Append(ev, e)
<1>1. /\ LedgerIn(new)
      /\ \A f, key : Begun(new, f, key) = Begun(ev, f, key)
      /\ \A f : TwiceBegun(new, f) <=> TwiceBegun(ev, f)
  BY ReceiptKeepsLedger
<1>2. EventsIn(ev)
  BY DEF LedgerIn
<1>3. /\ \A i \in DOMAIN ev : i \in DOMAIN new /\ new[i] = ev[i]
      /\ \A f : StartsIn(new, f) = StartsIn(ev, f) /\ StartsIn(ev, f) \subseteq DOMAIN ev
      /\ \A i, types : EndedIn(new, i, types) <=> (EndedIn(ev, i, types) \/ (i = e.trial /\ e.type \in types))
      /\ \A f, key : \A i : i \in CompletedIn(new, f, key) <=>
           \/ i \in CompletedIn(ev, f, key)
           \/ e.type = "completed" /\ i = e.trial /\ i \in StartsIn(ev, f) /\ ev[i].key = key
  BY <1>2, Closed
<1> HIDE DEF new
<1>4. /\ \A n \in DOMAIN r.open : r.open[n] \in StartsIn(ev, r.family)
      /\ \A n \in DOMAIN r.kept : r.kept[n].trial \in StartsIn(ev, r.family)
      /\ \A n \in DOMAIN r.closing : r.closing[n] \in StartsIn(ev, r.family)
  BY DEF TrialsIn
<1>5. /\ \A n \in DOMAIN r.open : new[r.open[n]] = ev[r.open[n]]
      /\ \A n \in DOMAIN r.kept : new[r.kept[n].trial] = ev[r.kept[n].trial]
  BY <1>3, <1>4
<1>6. TrialsIn(new, r)
  BY <1>3, <1>5 DEF TrialsIn
<1>7. \A key : OpenKey(new, r, key) <=> OpenKey(ev, r, key)
  BY <1>5 DEF OpenKey
<1>8. ASSUME NEW key, DoneOn(ev, r, key) PROVE DoneOn(new, r, key)
  <2>1. PICK i \in CompletedIn(ev, r.family, key) : ev[i].check = r.check
    BY <1>8 DEF DoneOn
  <2>2. i \in CompletedIn(new, r.family, key) /\ i \in StartsIn(ev, r.family)
    BY <1>3, <2>1 DEF CompletedIn
  <2>3. new[i] = ev[i]
    BY <1>3, <2>2
  <2>4. QED
    BY <2>1, <2>2, <2>3 DEF DoneOn
<1>9. ASSUME NEW f PROVE DanglingIn(new, f) = DanglingIn(ev, f) \ {e.trial}
  <2>1. \A i : EndedIn(new, i, Terminals) <=> EndedIn(ev, i, Terminals) \/ i = e.trial
    BY <1>3
  <2>2. QED
    BY <1>3, <2>1 DEF DanglingIn
<1>10. QED
  BY <1>1, <1>3, <1>6, <1>7, <1>8, <1>9 DEF new

LEMMA AllDoneStep ==
  ASSUME FamilyInv, AllDone
  PROVE  FamilyInv'
<1>1. /\ LedgerIn(events) /\ ShapeIn(run) /\ DOMAIN run = RunFields
      /\ TrialsIn(events, run) /\ StageIn(run) /\ run.family \in DOMAIN Families
      /\ CoveredIn(events, run)
      /\ run.family \in Resumables => OrderIn(events, run) /\ FreshIn(events, run)
      /\ run.resumes => ResumedIn(events, run)
      /\ run.at = "start" /\ run.todo = <<>>
  BY Known DEF AllDone, Active
<1>2. run' = [run EXCEPT !.at = "done"] /\ events' = events
  BY DEF AllDone
<1>3. /\ DOMAIN run' = RunFields /\ run'.at = "done"
      /\ run'.family = run.family /\ run'.check = run.check /\ run'.resumes = run.resumes
      /\ run'.todo = run.todo /\ run'.open = run.open /\ run'.kept = run.kept
      /\ run'.closing = run.closing
  BY <1>1, <1>2 DEF RunFields
<1>4. ShapeIn(run') /\ TrialsIn(events, run')
  BY <1>1, <1>3 DEF ShapeIn, TrialsIn
<1>5. StageIn(run')
  BY <1>1, <1>3 DEF StageIn
<1>6. \A key : /\ InTodo(run', key) <=> InTodo(run, key)
               /\ OpenKey(events, run', key) <=> OpenKey(events, run, key)
               /\ DoneOn(events, run', key) <=> DoneOn(events, run, key)
  BY <1>3 DEF InTodo, OpenKey, DoneOn
<1>7. CoveredIn(events, run')
  BY <1>1, <1>3, <1>6 DEF CoveredIn
<1>8. run.family \in Resumables => OrderIn(events, run') /\ FreshIn(events, run')
  BY <1>1, <1>3, <1>6 DEF OrderIn, FreshIn
<1>9. run.resumes => ResumedIn(events, run')
  BY <1>1, <1>3 DEF ResumedIn
<1>10. QED
  BY <1>1, <1>2, <1>3, <1>4, <1>5, <1>7, <1>8, <1>9 DEF FamilyInv, RunIn

LEMMA RaiseStep ==
  ASSUME FamilyInv, NEW type \in {"errored", "abandoned"}, Raise(type)
  PROVE  FamilyInv'
<1>1. /\ LedgerIn(events) /\ ShapeIn(run) /\ DOMAIN run = RunFields
      /\ TrialsIn(events, run) /\ run.at # "off"
  BY Known DEF Raise
<1>2. run' = [run EXCEPT !.at = "unwind", !.raised = type] /\ events' = events
  BY DEF Raise, Unwinding
<1>3. /\ DOMAIN run' = RunFields /\ run'.at = "unwind" /\ run'.raised = type
      /\ run'.family = run.family /\ run'.check = run.check /\ run'.resumes = run.resumes
      /\ run'.todo = run.todo /\ run'.open = run.open /\ run'.kept = run.kept
      /\ run'.closing = run.closing
  BY <1>1, <1>2 DEF RunFields
<1>4. ShapeIn(run') /\ TrialsIn(events, run')
  BY <1>1, <1>3 DEF ShapeIn, TrialsIn
<1>5. StageIn(run') /\ ~Active(run')
  BY <1>3 DEF StageIn, Active
<1>6. QED
  BY <1>1, <1>2, <1>4, <1>5 DEF FamilyInv, RunIn

\* The last attempt entered is closed first; none is completed by it.
LEMMA UnwindStep ==
  ASSUME FamilyInv, Unwind
  PROVE  FamilyInv'
<1>1. /\ LedgerIn(events) /\ ShapeIn(run) /\ DOMAIN run = RunFields
      /\ TrialsIn(events, run) /\ StageIn(run) /\ run.at = "unwind"
      /\ IsList(run.open) /\ IsList(run.kept)
  BY Known DEF Unwind
<1>2. run.raised \in {"errored", "abandoned"}
  BY <1>1 DEF StageIn
<1> DEFINE left == [i \in DOMAIN run.kept |-> run.kept[i].trial] \o run.open
           e == Event(run.raised, Last(left), events[Last(left)].key, <<>>)
<1>3. CASE run' = Off /\ events' = events
  BY <1>1, <1>3, OffIn DEF FamilyInv
<1>4. CASE /\ left # <<>> /\ events' = Append(events, e)
           /\ run' = IF run.open # <<>> THEN [run EXCEPT !.open = Front(@)]
                     ELSE [run EXCEPT !.kept = Front(@)]
  <2>1. Last(left) \in DOMAIN events
    <3> DEFINE trials == [i \in DOMAIN run.kept |-> run.kept[i].trial]
    <3>1. \A f : StartsIn(events, f) \subseteq DOMAIN events
      BY DEF StartsIn
    <3>2. /\ \A n \in DOMAIN run.open : run.open[n] \in DOMAIN events
          /\ \A n \in DOMAIN run.kept : run.kept[n].trial \in DOMAIN events
      BY <1>1, <3>1 DEF TrialsIn
    <3>3. run.open \in Seq(DOMAIN events)
      BY <1>1, <3>2, ListOf
    <3>4. trials \in Seq(DOMAIN events)
      <4>1. Len(run.kept) \in Nat /\ DOMAIN run.kept = 1..Len(run.kept)
        BY <1>1, SeqFacts
      <4>2. trials = [i \in 1..Len(run.kept) |-> trials[i]]
        BY <4>1
      <4>3. IsList(trials) /\ DOMAIN trials = DOMAIN run.kept
        BY <4>1, <4>2, MadeASeq
      <4>4. \A n \in DOMAIN trials : trials[n] \in DOMAIN events
        BY <3>2
      <4> HIDE DEF trials
      <4>5. QED
        BY <4>3, <4>4, ListOf
    <3>5. left \in Seq(DOMAIN events)
      BY <3>3, <3>4
    <3> HIDE DEF left
    <3>6. QED
      BY <1>4, <3>5 DEF Last
  <2> HIDE DEF left
  <2>2. e.type = run.raised /\ e.trial = Last(left)
    BY DEF Event
  <2> HIDE DEF e
  <2>3. e.type \in Terminals /\ e.type # "completed" /\ Completes(events, e)
    BY <1>2, <2>2 DEF Terminals, Completes
  <2>4. LedgerIn(events') /\ TrialsIn(events', run)
    BY <1>1, <1>4, <2>1, <2>2, <2>3, ReceiptKeepsRun
  <2>5. CASE run.open # <<>>
    <3>1. run' = [run EXCEPT !.open = Front(run.open)]
      BY <1>4, <2>5
    <3>2. /\ DOMAIN run' = RunFields /\ run'.at = "unwind" /\ run'.raised = run.raised
          /\ run'.family = run.family /\ run'.check = run.check /\ run'.resumes = run.resumes
          /\ run'.todo = run.todo /\ run'.open = Front(run.open) /\ run'.kept = run.kept
          /\ run'.closing = run.closing
      BY <1>1, <3>1 DEF RunFields
    <3>3. /\ IsList(Front(run.open))
          /\ \A i \in DOMAIN Front(run.open) : i \in DOMAIN run.open /\ Front(run.open)[i] = run.open[i]
      BY <1>1, <2>5, Fronted
    <3>4. ShapeIn(run') /\ TrialsIn(events', run')
      BY <1>1, <2>4, <3>2, <3>3 DEF ShapeIn, TrialsIn
    <3>5. StageIn(run') /\ ~Active(run')
      BY <1>2, <3>2 DEF StageIn, Active
    <3>6. QED
      BY <2>4, <3>4, <3>5 DEF FamilyInv, RunIn
  <2>6. CASE run.open = <<>>
    <3>1. run' = [run EXCEPT !.kept = Front(run.kept)]
      BY <1>4, <2>6
    <3>2. /\ DOMAIN run' = RunFields /\ run'.at = "unwind" /\ run'.raised = run.raised
          /\ run'.family = run.family /\ run'.check = run.check /\ run'.resumes = run.resumes
          /\ run'.todo = run.todo /\ run'.open = run.open /\ run'.kept = Front(run.kept)
          /\ run'.closing = run.closing
      BY <1>1, <3>1 DEF RunFields
    <3>3. run.kept # <<>>
      <4>1. SUFFICES ASSUME run.kept = <<>> PROVE left = <<>>
        BY <1>4
      <4>2. [i \in DOMAIN run.kept |-> run.kept[i].trial] = <<>>
        BY <4>1, EmptyFunction
      <4>3. QED
        BY <2>6, <4>2 DEF left
    <3>4. /\ IsList(Front(run.kept))
          /\ \A i \in DOMAIN Front(run.kept) : i \in DOMAIN run.kept /\ Front(run.kept)[i] = run.kept[i]
      BY <1>1, <3>3, Fronted
    <3>5. ShapeIn(run') /\ TrialsIn(events', run')
      BY <1>1, <2>4, <3>2, <3>4 DEF ShapeIn, TrialsIn
    <3>6. StageIn(run') /\ ~Active(run')
      BY <1>2, <3>2 DEF StageIn, Active
    <3>7. QED
      BY <2>4, <3>5, <3>6 DEF FamilyInv, RunIn
  <2>7. QED
    BY <2>5, <2>6
<1>5. QED
  BY <1>3, <1>4 DEF Unwind, Finish

LEMMA KillStep ==
  ASSUME FamilyInv, Kill
  PROVE  FamilyInv'
BY OffIn DEF Kill, FamilyInv

\* A dangling trial is closed, or none is left to close.
LEMMA CloseStep ==
  ASSUME FamilyInv, CloseDangling
  PROVE  FamilyInv'
<1>1. /\ LedgerIn(events) /\ ShapeIn(run) /\ DOMAIN run = RunFields
      /\ TrialsIn(events, run) /\ StageIn(run) /\ run.family \in DOMAIN Families
      /\ CoveredIn(events, run)
      /\ run.family \in Resumables => OrderIn(events, run) /\ FreshIn(events, run)
      /\ run.resumes => run.family \in Resumables /\ ResumedIn(events, run)
      /\ run.at = "close" /\ IsList(run.closing)
  BY Known DEF CloseDangling, Active
<1>2. /\ run.open = <<>> /\ run.kept = <<>> /\ run.resumes
      /\ run.family \in Resumables /\ ~Families[run.family].heldBack
  <2>1. run.open = <<>> /\ run.kept = <<>> /\ run.resumes
    BY <1>1 DEF StageIn
  <2>2. QED
    BY <1>1, <2>1, Resumed
<1>3. CASE run.closing = <<>>
  <2>1. run' = [run EXCEPT !.at = "start"] /\ events' = events
    BY <1>3 DEF CloseDangling
  <2>2. /\ DOMAIN run' = RunFields /\ run'.at = "start"
        /\ run'.family = run.family /\ run'.check = run.check /\ run'.resumes = run.resumes
        /\ run'.todo = run.todo /\ run'.open = run.open /\ run'.kept = run.kept
        /\ run'.closing = run.closing
    BY <1>1, <2>1 DEF RunFields
  <2>3. ShapeIn(run') /\ TrialsIn(events, run')
    BY <1>1, <2>2 DEF ShapeIn, TrialsIn
  <2>4. StageIn(run')
    BY <1>2, <1>3, <2>2 DEF StageIn
  <2>5. \A key : /\ InTodo(run', key) <=> InTodo(run, key)
                 /\ OpenKey(events, run', key) <=> OpenKey(events, run, key)
                 /\ DoneOn(events, run', key) <=> DoneOn(events, run, key)
    BY <2>2 DEF InTodo, OpenKey, DoneOn
  <2>6. CoveredIn(events, run')
    BY <1>1, <2>2, <2>5 DEF CoveredIn
  <2>7. OrderIn(events, run') /\ FreshIn(events, run')
    BY <1>1, <1>2, <2>2, <2>5 DEF OrderIn, FreshIn
  <2>8. ResumedIn(events, run')
    BY <1>1, <1>2, <2>2 DEF ResumedIn
  <2>9. QED
    BY <1>1, <2>1, <2>3, <2>4, <2>6, <2>7, <2>8 DEF FamilyInv, RunIn
<1>4. CASE run.closing # <<>>
  <2> DEFINE head == Head(run.closing)
             e == Event("abandoned", head, events[head].key, <<>>)
  <2>1. run' = [run EXCEPT !.closing = Tail(run.closing)] /\ events' = Append(events, e)
    BY <1>4 DEF CloseDangling, Finish
  <2>2. /\ DOMAIN run' = RunFields /\ run'.at = run.at
        /\ run'.family = run.family /\ run'.check = run.check /\ run'.resumes = run.resumes
        /\ run'.todo = run.todo /\ run'.open = run.open /\ run'.kept = run.kept
        /\ run'.closing = Tail(run.closing)
    BY <1>1, <2>1 DEF RunFields
  <2>3. /\ IsList(Tail(run.closing)) /\ 1 \in DOMAIN run.closing /\ head = run.closing[1]
        /\ \A i \in DOMAIN Tail(run.closing) :
             i + 1 \in DOMAIN run.closing /\ Tail(run.closing)[i] = run.closing[i + 1]
        /\ \A i \in DOMAIN run.closing :
             i = 1 \/ (i - 1 \in DOMAIN Tail(run.closing) /\ Tail(run.closing)[i - 1] = run.closing[i])
    BY <1>1, <1>4, Tailed
  <2>4. head \in StartsIn(events, run.family) /\ head \in DOMAIN events
    BY <1>1, <2>3 DEF TrialsIn, StartsIn
  <2>5. e.type = "abandoned" /\ e.trial = head
    BY DEF Event
  <2> HIDE DEF e
  <2>6. e.type \in Terminals /\ e.type # "completed" /\ Completes(events, e)
    BY <2>5 DEF Terminals, Completes
  <2>7. /\ LedgerIn(events')
        /\ \A f, key : Begun(events', f, key) = Begun(events, f, key)
        /\ \A f : TwiceBegun(events', f) <=> TwiceBegun(events, f)
        /\ TrialsIn(events', run)
        /\ \A key : OpenKey(events', run, key) <=> OpenKey(events, run, key)
        /\ \A key : DoneOn(events, run, key) => DoneOn(events', run, key)
        /\ \A f, key : \A i : i \in CompletedIn(events', f, key) <=> i \in CompletedIn(events, f, key)
        /\ \A f : DanglingIn(events', f) = DanglingIn(events, f) \ {head}
    BY <1>1, <2>1, <2>4, <2>5, <2>6, ReceiptKeepsRun
  <2>8. ASSUME NEW f, NEW key PROVE CompletedIn(events', f, key) = CompletedIn(events, f, key)
    <3>1. \A i : i \in CompletedIn(events', f, key) <=> i \in CompletedIn(events, f, key)
      BY <2>7
    <3>2. QED
      BY Zenon, <3>1
  <2>9. ShapeIn(run')
    BY <1>1, <2>2, <2>3 DEF ShapeIn
  <2>10. TrialsIn(events', run')
    BY <2>2, <2>3, <2>7 DEF TrialsIn
  <2>11. StageIn(run')
    BY <1>1, <1>2, <2>2 DEF StageIn
  <2>12. \A key : /\ InTodo(run', key) <=> InTodo(run, key)
                  /\ OpenKey(events', run', key) <=> OpenKey(events, run, key)
                  /\ DoneOn(events, run, key) => DoneOn(events', run', key)
    <3>1. \A key : OpenKey(events', run', key) <=> OpenKey(events', run, key)
      BY <2>2 DEF OpenKey
    <3>2. \A key : DoneOn(events', run', key) <=> DoneOn(events', run, key)
      BY <2>2 DEF DoneOn
    <3>3. QED
      BY <2>2, <2>7, <3>1, <3>2 DEF InTodo
  <2>13. CoveredIn(events', run')
    BY <1>1, <2>2, <2>12 DEF CoveredIn
  <2>14. OrderIn(events', run')
    BY <1>1, <1>2, <2>2, <2>7, <2>12 DEF OrderIn
  <2>15. FreshIn(events', run')
    BY <1>1, <1>2, <2>2, <2>7, <2>8, <2>12 DEF FreshIn
  <2>16. ResumedIn(events', run')
    <3>1. DanglingIn(events, run.family) \subseteq Range(run.closing) \cup Range(run.open)
      BY <1>1, <1>2 DEF ResumedIn
    <3>2. Range(run.closing) \subseteq Range(run'.closing) \cup {head}
      <4>1. ASSUME NEW i \in DOMAIN run.closing, i # 1
            PROVE  run.closing[i] \in Range(Tail(run.closing))
        <5>1. i - 1 \in DOMAIN Tail(run.closing) /\ Tail(run.closing)[i - 1] = run.closing[i]
          BY <2>3, <4>1
        <5>2. QED
          BY <5>1 DEF Range
      <4>2. \A i \in DOMAIN run.closing : run.closing[i] \in Range(Tail(run.closing)) \cup {head}
        BY <2>3, <4>1
      <4>3. QED
        BY <2>2, <4>2 DEF Range
    <3>3. DanglingIn(events', run'.family) \subseteq Range(run'.closing) \cup Range(run'.open)
      BY <2>2, <2>7, <3>1, <3>2
    <3>4. QED
      BY <1>1, <1>2, <2>2, <2>7, <2>8, <3>3 DEF ResumedIn
  <2>17. QED
    BY <2>7, <2>9, <2>10, <2>11, <2>13, <2>14, <2>15, <2>16 DEF FamilyInv, RunIn
<1>5. QED
  BY <1>3, <1>4

\* What was kept is recorded, series by series.
LEMMA FamilyRecordStep ==
  ASSUME FamilyInv, Record
  PROVE  FamilyInv'
<1>1. /\ LedgerIn(events) /\ ShapeIn(run) /\ DOMAIN run = RunFields
      /\ TrialsIn(events, run) /\ StageIn(run) /\ run.family \in DOMAIN Families
      /\ CoveredIn(events, run) /\ (run.resumes => run.family \in Resumables)
      /\ run.at = "record" /\ IsList(run.kept)
  BY Known DEF Record, Active
<1>2. /\ run.closing = <<>> /\ run.todo = <<>> /\ run.open = <<>> /\ Families[run.family].heldBack
      /\ run.family \notin Resumables /\ ~run.resumes
  <2>1. run.closing = <<>> /\ run.todo = <<>> /\ run.open = <<>> /\ Families[run.family].heldBack
    BY <1>1 DEF StageIn
  <2>2. QED
    BY <1>1, <2>1, Resumed
<1>3. CASE run.kept = <<>>
  <2>1. run' = [run EXCEPT !.at = "done"] /\ events' = events
    BY <1>3 DEF Record
  <2>2. /\ DOMAIN run' = RunFields /\ run'.at = "done"
        /\ run'.family = run.family /\ run'.check = run.check /\ run'.resumes = run.resumes
        /\ run'.todo = run.todo /\ run'.open = run.open /\ run'.kept = run.kept
        /\ run'.closing = run.closing
    BY <1>1, <2>1 DEF RunFields
  <2>3. ShapeIn(run') /\ TrialsIn(events, run')
    BY <1>1, <2>2 DEF ShapeIn, TrialsIn
  <2>4. StageIn(run')
    BY <1>2, <1>3, <2>2 DEF StageIn
  <2>5. \A key : /\ InTodo(run', key) <=> InTodo(run, key)
                 /\ OpenKey(events, run', key) <=> OpenKey(events, run, key)
                 /\ DoneOn(events, run', key) <=> DoneOn(events, run, key)
    BY <2>2 DEF InTodo, OpenKey, DoneOn
  <2>6. CoveredIn(events, run')
    BY <1>1, <2>2, <2>5 DEF CoveredIn
  <2>7. QED
    BY <1>1, <1>2, <2>1, <2>2, <2>3, <2>4, <2>6 DEF FamilyInv, RunIn
<1>4. CASE run.kept # <<>>
  <2> DEFINE head == Head(run.kept).trial
             e == Event("completed", head, events[head].key, Head(run.kept).result)
  <2>1. run' = [run EXCEPT !.kept = Tail(run.kept)] /\ events' = Append(events, e)
    BY <1>4 DEF Record, Finish
  <2>2. /\ DOMAIN run' = RunFields /\ run'.at = run.at
        /\ run'.family = run.family /\ run'.check = run.check /\ run'.resumes = run.resumes
        /\ run'.todo = run.todo /\ run'.open = run.open /\ run'.kept = Tail(run.kept)
        /\ run'.closing = run.closing
    BY <1>1, <2>1 DEF RunFields
  <2>3. /\ IsList(Tail(run.kept)) /\ 1 \in DOMAIN run.kept /\ head = run.kept[1].trial
        /\ \A i \in DOMAIN Tail(run.kept) :
             i + 1 \in DOMAIN run.kept /\ Tail(run.kept)[i] = run.kept[i + 1]
        /\ \A i \in DOMAIN run.kept :
             i = 1 \/ (i - 1 \in DOMAIN Tail(run.kept) /\ Tail(run.kept)[i - 1] = run.kept[i])
    BY <1>1, <1>4, Tailed
  <2>4. /\ head \in StartsIn(events, run.family) /\ head \in DOMAIN events
        /\ events[head].family = run.family /\ events[head].check = run.check
    BY <1>1, <2>3 DEF TrialsIn, StartsIn
  <2>5. e.type = "completed" /\ e.trial = head
    BY DEF Event
  <2> HIDE DEF e
  <2>6. e.type \in Terminals /\ Completes(events, e)
    BY <1>2, <2>4, <2>5 DEF Terminals, Completes, StartsIn
  <2>7. /\ LedgerIn(events')
        /\ TrialsIn(events', run)
        /\ \A key : OpenKey(events', run, key) <=> OpenKey(events, run, key)
        /\ \A key : DoneOn(events, run, key) => DoneOn(events', run, key)
        /\ head \in CompletedIn(events', run.family, events[head].key)
        /\ \A i \in DOMAIN events : events'[i] = events[i]
    BY <1>1, <2>1, <2>4, <2>5, <2>6, ReceiptKeepsRun
  <2>8. ShapeIn(run')
    BY <1>1, <2>2, <2>3 DEF ShapeIn
  <2>9. TrialsIn(events', run')
    BY <2>2, <2>3, <2>7 DEF TrialsIn
  <2>10. StageIn(run')
    BY <1>1, <1>2, <2>2 DEF StageIn
  <2>11. ASSUME NEW key
         PROVE  /\ InTodo(run, key) => InTodo(run', key)
                /\ DoneOn(events, run, key) => DoneOn(events', run', key)
                /\ OpenKey(events, run, key) => OpenKey(events', run', key) \/ DoneOn(events', run', key)
    <3>1. InTodo(run, key) => InTodo(run', key)
      BY <2>2 DEF InTodo
    <3>2. DoneOn(events', run', key) <=> DoneOn(events', run, key)
      BY <2>2 DEF DoneOn
    <3>3. ASSUME OpenKey(events, run, key)
          PROVE  OpenKey(events', run', key) \/ DoneOn(events', run', key)
      <4>1. OpenKey(events', run, key)
        BY <2>7, <3>3
      <4>2. PICK n \in DOMAIN run.kept : events'[run.kept[n].trial].key = key
        BY <1>2, <4>1, NothingListed DEF OpenKey
      <4>3. CASE n = 1
        <5>1. events[head].key = key /\ events'[head].check = run.check
          BY <2>3, <2>4, <2>7, <4>2, <4>3
        <5>2. QED
          BY <2>2, <2>7, <5>1 DEF DoneOn
      <4>4. CASE n # 1
        <5>1. n - 1 \in DOMAIN run'.kept /\ run'.kept[n - 1] = run.kept[n]
          BY <2>2, <2>3, <4>4
        <5>2. events'[run'.kept[n - 1].trial].key = key
          BY <4>2, <5>1
        <5>3. QED
          BY <5>1, <5>2 DEF OpenKey
      <4>5. QED
        BY <4>3, <4>4
    <3>4. QED
      BY <2>7, <3>1, <3>2, <3>3
  <2>12. CoveredIn(events', run')
    BY <1>1, <2>2, <2>11 DEF CoveredIn
  <2>13. QED
    BY <1>1, <1>2, <2>2, <2>7, <2>8, <2>9, <2>10, <2>12 DEF FamilyInv, RunIn
<1>5. QED
  BY <1>3, <1>4

\* The first series to be started is on the ledger before it is evaluated.
LEMMA StartStep ==
  ASSUME FamilyInv, StartTrial
  PROVE  FamilyInv'
<1>1. /\ LedgerIn(events) /\ ShapeIn(run) /\ DOMAIN run = RunFields
      /\ TrialsIn(events, run) /\ StageIn(run) /\ run.family \in DOMAIN Families
      /\ CoveredIn(events, run)
      /\ run.family \in Resumables => OrderIn(events, run) /\ FreshIn(events, run)
      /\ run.resumes => run.family \in Resumables /\ ResumedIn(events, run)
      /\ run.at = "start" /\ run.todo # <<>> /\ IsList(run.todo) /\ IsList(run.open)
      /\ EventsIn(events)
  BY Known DEF StartTrial, Active
<1> DEFINE key1 == Head(run.todo)
           trial == Len(events) + 1
           e == Event("started", trial, key1, <<>>)
           stage == IF Families[run.family].together /\ Len(run.todo) > 1 THEN "start" ELSE "evaluate"
<1>2. /\ events' = Append(events, e)
      /\ run' = [run EXCEPT !.todo = Tail(run.todo), !.open = Append(run.open, trial), !.at = stage]
  BY DEF StartTrial
<1>3. /\ DOMAIN run' = RunFields /\ run'.at = stage
      /\ run'.family = run.family /\ run'.check = run.check /\ run'.resumes = run.resumes
      /\ run'.todo = Tail(run.todo) /\ run'.open = Append(run.open, trial) /\ run'.kept = run.kept
      /\ run'.closing = run.closing
  BY <1>1, <1>2 DEF RunFields
<1>4. /\ e.type = "started" /\ e.trial = trial /\ e.key = key1
      /\ e.family = run.family /\ e.check = run.check
  BY DEF Event
<1>5. /\ IsList(Tail(run.todo)) /\ Len(Tail(run.todo)) = Len(run.todo) - 1
      /\ 1 \in DOMAIN run.todo /\ key1 = run.todo[1]
      /\ \A i \in DOMAIN Tail(run.todo) :
           i + 1 \in DOMAIN run.todo /\ Tail(run.todo)[i] = run.todo[i + 1] /\ i + 1 # 1
      /\ \A i \in DOMAIN run.todo :
           i = 1 \/ (i - 1 \in DOMAIN Tail(run.todo) /\ Tail(run.todo)[i - 1] = run.todo[i])
  BY <1>1, Tailed
<1>6. /\ IsList(Append(run.open, trial)) /\ Len(Append(run.open, trial)) = Len(run.open) + 1
      /\ DOMAIN Append(run.open, trial) = DOMAIN run.open \cup {Len(run.open) + 1}
      /\ Append(run.open, trial) # <<>>
      /\ Append(run.open, trial)[Len(run.open) + 1] = trial
      /\ \A i \in DOMAIN run.open : Append(run.open, trial)[i] = run.open[i]
  BY <1>1, Appended
<1>7. /\ Len(run.todo) \in Nat /\ DOMAIN run.todo = 1..Len(run.todo) /\ Len(run.open) \in Nat
      /\ \A i \in DOMAIN Tail(run.todo) : i \in Nat
  <2>1. Len(run.todo) \in Nat /\ DOMAIN run.todo = 1..Len(run.todo) /\ Len(run.open) \in Nat
    BY <1>1, SeqFacts
  <2>2. Len(Tail(run.todo)) \in Nat /\ DOMAIN Tail(run.todo) = 1..Len(Tail(run.todo))
    BY <1>5, SeqFacts
  <2>3. QED
    BY <2>1, <2>2
<1>8. /\ trial \notin DOMAIN events /\ events'[trial] = e
      /\ \A i \in DOMAIN events : events'[i] = events[i]
      /\ \A f : StartsIn(events', f) = StartsIn(events, f) \cup (IF e.family = f THEN {trial} ELSE {})
      /\ \A f, key : CompletedIn(events', f, key) = CompletedIn(events, f, key)
      /\ \A i \in DOMAIN events : \A types : "started" \notin types =>
           (EndedIn(events', i, types) <=> EndedIn(events, i, types))
  <2>1. e.type = "started" /\ e.trial = Len(events) + 1
    BY <1>4
  <2>2. /\ Len(events) + 1 \notin DOMAIN events /\ Append(events, e)[Len(events) + 1] = e
        /\ \A i \in DOMAIN events : Append(events, e)[i] = events[i] /\ i < Len(events) + 1
        /\ \A f : StartsIn(Append(events, e), f) = StartsIn(events, f) \cup (IF e.family = f THEN {Len(events) + 1} ELSE {})
        /\ \A f, key : CompletedIn(Append(events, e), f, key) = CompletedIn(events, f, key)
        /\ \A i \in DOMAIN events : \A types : "started" \notin types =>
             (EndedIn(Append(events, e), i, types) <=> EndedIn(events, i, types))
    BY <1>1, <2>1, Started
  <2> HIDE DEF e
  <2>3. QED
    BY <1>2, <2>2
<1> HIDE DEF e, key1, trial
<1>9. /\ trial \in StartsIn(events', run.family)
      /\ \A f : StartsIn(events, f) \subseteq StartsIn(events', f)
      /\ \A f : StartsIn(events, f) \subseteq DOMAIN events
      /\ \A f : \A i \in StartsIn(events, f) : events'[i] = events[i]
  BY <1>4, <1>8 DEF StartsIn
<1>10. \A f, key : Begun(events, f, key) \subseteq Begun(events', f, key)
  BY <1>9 DEF Begun
<1>11. trial \in Begun(events', run.family, key1)
  BY <1>4, <1>8, <1>9 DEF Begun
<1>12. TrialsIn(events', run')
  <2>1. \A n \in DOMAIN run'.open :
          run'.open[n] \in StartsIn(events', run.family) /\ events'[run'.open[n]].check = run.check
    <3>1. \A n \in DOMAIN run.open :
            run.open[n] \in StartsIn(events, run.family) /\ events[run.open[n]].check = run.check
      BY <1>1 DEF TrialsIn
    <3>2. \A n \in DOMAIN run'.open : n \in DOMAIN run.open \/ run'.open[n] = trial
      BY <1>3, <1>6
    <3>3. events'[trial].check = run.check
      BY <1>4, <1>8
    <3>4. \A n \in DOMAIN run.open : run'.open[n] = run.open[n]
      BY <1>3, <1>6
    <3>5. QED
      BY <1>9, <3>1, <3>2, <3>3, <3>4
  <2>2. \A n \in DOMAIN run.kept :
          /\ run.kept[n].trial \in StartsIn(events', run.family)
          /\ events'[run.kept[n].trial].check = run.check
    BY <1>1, <1>9 DEF TrialsIn
  <2>3. \A n \in DOMAIN run.closing : run.closing[n] \in StartsIn(events', run.family)
    BY <1>1, <1>9 DEF TrialsIn
  <2>4. QED
    BY <1>3, <2>1, <2>2, <2>3 DEF TrialsIn
<1>13. stage \in {"start", "evaluate"}
  OBVIOUS
<1>14. ShapeIn(run')
  BY <1>1, <1>3, <1>5, <1>6, <1>13 DEF ShapeIn
<1>15. StageIn(run')
  <2>1. stage = "start" => Families[run.family].together /\ Tail(run.todo) # <<>>
    <3>1. stage = "start" => Families[run.family].together /\ Len(run.todo) > 1
      OBVIOUS
    <3>2. Len(run.todo) > 1 => Tail(run.todo) # <<>>
      <4> DEFINE tail == Tail(run.todo)
      <4>1. IsList(tail) /\ Len(tail) = Len(run.todo) - 1
        BY <1>5
      <4> HIDE DEF tail
      <4>2. tail # <<>> <=> Len(tail) # 0
        BY <4>1, SeqFacts
      <4>3. Len(run.todo) > 1 => Len(tail) # 0
        <5>1. Len(run.todo) \in Nat
          BY <1>7
        <5>2. \A n \in Nat : n > 1 => ~(n - 1 = 0)
          OBVIOUS
        <5>3. Len(run.todo) > 1 => ~(Len(run.todo) - 1 = 0)
          BY <5>1, <5>2
        <5>4. QED
          BY <4>1, <5>3
      <4>4. QED
        BY <4>2, <4>3 DEF tail
    <3>3. QED
      BY <3>1, <3>2
  <2>2. ~Families[run.family].together => Len(Append(run.open, trial)) = 1
    <3>1. ~Families[run.family].together => run.open = <<>>
      BY <1>1 DEF StageIn
    <3>2. QED
      BY <1>6, <1>7, <3>1, EmptyList
  <2>3. run.closing = <<>> /\ (~Families[run.family].heldBack => run.kept = <<>>)
    BY <1>1 DEF StageIn
  <2> HIDE DEF stage
  <2>4. QED
    BY <1>3, <1>6, <1>13, <2>1, <2>2, <2>3 DEF StageIn
<1> HIDE DEF stage
<1>16. \A key : /\ DoneOn(events', run', key) <=> DoneOn(events, run, key)
                /\ InTodo(run', key) => InTodo(run, key)
                /\ InTodo(run, key) => InTodo(run', key) \/ key = key1
                /\ OpenKey(events', run', key) <=> OpenKey(events, run, key) \/ key = key1
  <2>1. ASSUME NEW key PROVE DoneOn(events', run', key) <=> DoneOn(events, run, key)
    <3>1. \A i \in CompletedIn(events, run.family, key) : events'[i] = events[i]
      BY <1>9 DEF CompletedIn
    <3>2. QED
      BY <1>3, <1>8, <3>1 DEF DoneOn
  <2>2. ASSUME NEW key, InTodo(run', key) PROVE InTodo(run, key)
    BY <1>3, <1>5, <2>2 DEF InTodo
  <2>3. ASSUME NEW key, InTodo(run, key), key # key1 PROVE InTodo(run', key)
    <3>1. PICK n \in DOMAIN run.todo : run.todo[n] = key
      BY <2>3 DEF InTodo
    <3>2. n - 1 \in DOMAIN run'.todo /\ run'.todo[n - 1] = key
      BY <1>3, <1>5, <2>3, <3>1
    <3>3. QED
      BY <3>2 DEF InTodo
  <2>4. ASSUME NEW key
        PROVE  OpenKey(events', run', key) <=> OpenKey(events, run, key) \/ key = key1
    <3>1. \A n \in DOMAIN run.open : events'[run.open[n]] = events[run.open[n]]
      BY <1>1, <1>9 DEF TrialsIn
    <3>2. \A n \in DOMAIN run.kept : events'[run.kept[n].trial] = events[run.kept[n].trial]
      BY <1>1, <1>9 DEF TrialsIn
    <3>3. events'[trial].key = key1
      BY <1>4, <1>8
    <3>4. (\E n \in DOMAIN run'.kept : events'[run'.kept[n].trial].key = key)
            <=> \E n \in DOMAIN run.kept : events[run.kept[n].trial].key = key
      BY <1>3, <3>2
    <3>5. (\E n \in DOMAIN run'.open : events'[run'.open[n]].key = key)
            <=> (\E n \in DOMAIN run.open : events[run.open[n]].key = key) \/ key = key1
      BY <1>3, <1>6, <3>1, <3>3
    <3>6. QED
      BY <3>4, <3>5 DEF OpenKey
  <2>5. QED
    BY <2>1, <2>2, <2>3, <2>4
<1>17. CoveredIn(events', run')
  BY <1>1, <1>3, <1>16 DEF CoveredIn
<1>18. ASSUME run.family \in Resumables PROVE run.open = <<>> /\ run.kept = <<>>
  <2>1. ~Families[run.family].together /\ ~Families[run.family].heldBack
    BY <1>18, Resumed
  <2>2. QED
    BY <1>1, <2>1 DEF StageIn
<1>19. ASSUME run.family \in Resumables PROVE OrderIn(events', run')
  <2> DEFINE first == First(run.family)
  <2>1. SUFFICES ASSUME NEW n \in DOMAIN run'.todo, IsRandom(run'.todo[n])
                 PROVE  /\ \/ \E m \in DOMAIN run'.todo : m < n /\ run'.todo[m] = CandidateOf(run'.todo[n])
                           \/ OpenKey(events', run', CandidateOf(run'.todo[n]))
                           \/ DoneOn(events', run', CandidateOf(run'.todo[n]))
                        /\ (\E m \in DOMAIN run'.todo : m < n /\ run'.todo[m] = first)
                             \/ Begun(events', run.family, first) # {}
    BY <1>3 DEF OrderIn
  <2>2. n + 1 \in DOMAIN run.todo /\ run'.todo[n] = run.todo[n + 1] /\ n \in Nat
    BY <1>3, <1>5, <1>7
  <2> DEFINE wanted == CandidateOf(run.todo[n + 1])
  <2>3. /\ \/ \E m \in DOMAIN run.todo : m < n + 1 /\ run.todo[m] = wanted
           \/ OpenKey(events, run, wanted)
           \/ DoneOn(events, run, wanted)
        /\ (\E m \in DOMAIN run.todo : m < n + 1 /\ run.todo[m] = first)
             \/ Begun(events, run.family, first) # {}
    BY <1>1, <1>19, <2>1, <2>2 DEF OrderIn
  <2>4. wanted = CandidateOf(run'.todo[n])
    BY <2>2
  <2> HIDE DEF wanted, first
  <2>5. ASSUME NEW key, NEW m \in DOMAIN run.todo, m < n + 1, run.todo[m] = key, key # key1
        PROVE  \E l \in DOMAIN run'.todo : l < n /\ run'.todo[l] = key
    <3>1. m - 1 \in DOMAIN run'.todo /\ run'.todo[m - 1] = key
      BY <1>3, <1>5, <2>5
    <3>2. m \in Nat /\ m - 1 < n
      BY <1>7, <2>2, <2>5
    <3>3. QED
      BY <3>1, <3>2
  <2>6. \/ \E m \in DOMAIN run'.todo : m < n /\ run'.todo[m] = wanted
        \/ OpenKey(events', run', wanted)
        \/ DoneOn(events', run', wanted)
    BY <1>16, <2>3, <2>5
  <2>7. (\E m \in DOMAIN run'.todo : m < n /\ run'.todo[m] = first)
          \/ Begun(events', run.family, first) # {}
    <3>1. CASE first = key1
      BY <1>11, <3>1
    <3>2. CASE first # key1
      BY <1>10, <2>3, <2>5, <3>2
    <3>3. QED
      BY <3>1, <3>2
  <2>8. QED
    BY <2>4, <2>6, <2>7
<1>20. ASSUME run.family \in Resumables PROVE FreshIn(events', run')
  <2> DEFINE f == run.family
             first == First(f)
  <2>1. /\ \A m, n \in DOMAIN run.todo : run.todo[m] = run.todo[n] => m = n
        /\ \A n \in DOMAIN run.todo : ~OpenKey(events, run, run.todo[n])
        /\ \A n \in DOMAIN run.todo : run.todo[n] = first => n = 1 /\ run.open = <<>> /\ run.kept = <<>>
        /\ \A key :
             (/\ InTodo(run, key) \/ OpenKey(events, run, key)
              /\ IsRandom(key) /\ CompletedIn(events, f, key) # {}) =>
             ~run.resumes /\ (TwiceBegun(events, f) \/ InTodo(run, first))
    BY <1>1, <1>20 DEF FreshIn
  <2> HIDE DEF first
  <2>2. \A n \in DOMAIN run'.todo : run'.todo[n] # key1 /\ run'.todo[n] # first
    BY <1>3, <1>5, <2>1
  <2>3. ASSUME NEW m \in DOMAIN run'.todo, NEW n \in DOMAIN run'.todo, run'.todo[m] = run'.todo[n]
        PROVE  m = n
    <3>1. m + 1 = n + 1
      BY <1>3, <1>5, <2>1, <2>3
    <3>2. QED
      BY <1>3, <1>7, <3>1
  <2>4. \A n \in DOMAIN run'.todo : ~OpenKey(events', run', run'.todo[n])
    BY <1>3, <1>5, <1>16, <2>1, <2>2
  <2>5. ASSUME NEW key, InTodo(run', key) \/ OpenKey(events', run', key),
               IsRandom(key), CompletedIn(events', f, key) # {}
        PROVE  ~run.resumes /\ (TwiceBegun(events', f) \/ InTodo(run', first))
    <3>1. InTodo(run, key1)
      BY <1>5 DEF InTodo
    <3>2. InTodo(run, key) \/ OpenKey(events, run, key)
      BY <1>16, <2>5, <3>1
    <3>3. CompletedIn(events, f, key) # {}
      BY <1>8, <2>5
    <3>4. ~run.resumes /\ (TwiceBegun(events, f) \/ InTodo(run, first))
      BY <2>1, <2>5, <3>2, <3>3
    <3>5. CASE TwiceBegun(events, f)
      BY <1>10, <3>4, <3>5 DEF TwiceBegun
    <3>6. CASE first = key1
      <4>1. PICK i \in CompletedIn(events, f, key) : TRUE
        BY <3>3
      <4>2. i \in StartsIn(events, f) /\ events[i].key = key
        BY <4>1 DEF CompletedIn
      <4>3. PICK j \in Begun(events, f, First(f)) : TRUE
        BY <1>1, <1>20, <2>5, <4>2 DEF LedgerIn, BaselinesFollow
      <4>4. j \in Begun(events', f, First(f)) /\ trial \in Begun(events', f, First(f))
        BY <1>10, <1>11, <3>6, <4>3 DEF first
      <4>5. j # trial
        BY <1>8, <1>9, <4>3 DEF Begun
      <4>6. QED
        BY <3>4, <4>4, <4>5 DEF TwiceBegun
    <3>7. CASE first # key1 /\ InTodo(run, first)
      BY <1>16, <3>4, <3>7
    <3>8. QED
      BY <3>4, <3>5, <3>6, <3>7
  <2>6. QED
    BY <1>3, <2>2, <2>3, <2>4, <2>5 DEF FreshIn, first
<1>21. ASSUME run.resumes PROVE ResumedIn(events', run')
  <2>1. /\ \A key \in Range(Configs(run.family)) :
             \E i \in CompletedIn(events, run.family, key) : Begun(events, run.family, key) = {i}
        /\ \A n \in DOMAIN run.todo : IsRandom(run.todo[n])
        /\ DanglingIn(events, run.family) \subseteq Range(run.closing) \cup Range(run.open)
    BY <1>1, <1>21 DEF ResumedIn
  <2>2. \A key \in Range(Configs(run.family)) : key # key1
    <3>1. \A i \in DOMAIN Configs(run.family) : ~IsRandom(Configs(run.family)[i])
      BY <1>1, ConfigList
    <3>2. IsRandom(key1)
      BY <1>5, <2>1
    <3>3. QED
      BY <3>1, <3>2 DEF Range
  <2>3. ASSUME NEW key, key # key1
        PROVE  Begun(events', run.family, key) = Begun(events, run.family, key)
    <3>1. \A i \in StartsIn(events', run.family) : i \in StartsIn(events, run.family) \/ i = trial
      BY <1>8
    <3>2. trial \notin Begun(events', run.family, key)
      BY <1>4, <1>8, <2>3 DEF Begun
    <3>3. Begun(events', run.family, key) \subseteq Begun(events, run.family, key)
      BY <1>9, <3>1, <3>2 DEF Begun
    <3>4. QED
      BY <1>10, <3>3
  <2>4. \A n \in DOMAIN run'.todo : IsRandom(run'.todo[n])
    BY <1>3, <1>5, <2>1
  <2>5. DanglingIn(events', run.family) \subseteq DanglingIn(events, run.family) \cup {trial}
    <3>1. "started" \notin Terminals
      <4>1. "started" # "completed" /\ "started" # "errored" /\ "started" # "abandoned"
        OBVIOUS
      <4>2. QED
        BY <4>1 DEF Terminals
    <3>2. \A i \in DOMAIN events : EndedIn(events', i, Terminals) <=> EndedIn(events, i, Terminals)
      BY <1>8, <3>1
    <3>3. \A i \in StartsIn(events', run.family) : i \in StartsIn(events, run.family) \/ i = trial
      BY <1>8
    <3>4. QED
      BY <1>9, <3>2, <3>3 DEF DanglingIn
  <2>6. Range(run'.open) = Range(run.open) \cup {trial}
    BY <1>3, <1>6 DEF Range
  <2>7. DanglingIn(events', run.family) \subseteq Range(run'.closing) \cup Range(run'.open)
    BY <1>3, <2>1, <2>5, <2>6
  <2>8. \A key \in Range(Configs(run.family)) :
          \E i \in CompletedIn(events', run.family, key) : Begun(events', run.family, key) = {i}
    BY <1>8, <2>1, <2>2, <2>3
  <2>9. QED
    BY <1>3, <2>4, <2>7, <2>8 DEF ResumedIn
<1>22. LedgerIn(events')
  <2>1. Follows(events, e)
    <3>1. SUFFICES ASSUME run.family \in Resumables, IsRandom(key1)
                   PROVE  /\ DoneOn(events, run, CandidateOf(key1))
                          /\ Begun(events, run.family, First(run.family)) # {}
      BY <1>4 DEF Follows, DoneOn
    <3>2. \A m \in DOMAIN run.todo : ~(m < 1)
      BY <1>7
    <3>3. ~OpenKey(events, run, CandidateOf(key1))
      BY <1>18, <3>1, NothingListed DEF OpenKey
    <3>4. QED
      BY <1>1, <1>5, <3>1, <3>2, <3>3 DEF OrderIn
  <2>2. e.trial = Len(events) + 1
    BY <1>4 DEF trial
  <2>3. QED
    BY <1>1, <1>2, <1>4, <2>1, <2>2, StartKeepsLedger
<1>23. QED
  BY <1>3, <1>12, <1>14, <1>15, <1>17, <1>19, <1>20, <1>21, <1>22 DEF FamilyInv, RunIn

\* A series is completed with its returns, or kept until all are evaluated.
LEMMA CompleteStep ==
  ASSUME FamilyInv, Complete
  PROVE  FamilyInv'
<1>1. /\ LedgerIn(events) /\ ShapeIn(run) /\ DOMAIN run = RunFields
      /\ TrialsIn(events, run) /\ StageIn(run) /\ run.family \in DOMAIN Families
      /\ CoveredIn(events, run)
      /\ run.family \in Resumables => OrderIn(events, run) /\ FreshIn(events, run)
      /\ run.resumes => run.family \in Resumables /\ ResumedIn(events, run)
      /\ run.at = "evaluate" /\ IsList(run.open) /\ IsList(run.kept)
  BY Known DEF Complete, Active
<1>2. /\ run.closing = <<>> /\ run.open # <<>>
      /\ ~Families[run.family].heldBack => run.kept = <<>>
      /\ ~Families[run.family].together => Len(run.open) = 1
  BY <1>1 DEF StageIn
<1> DEFINE trial == Head(run.open)
           result == Returns(events[trial].key)
           next == After(Tail(run.open))
           kept1 == [trial |-> trial, result |-> result]
           e == Event("completed", trial, events[trial].key, result)
<1>3. /\ IsList(Tail(run.open)) /\ Len(Tail(run.open)) = Len(run.open) - 1
      /\ 1 \in DOMAIN run.open /\ trial = run.open[1]
      /\ \A i \in DOMAIN Tail(run.open) :
           i + 1 \in DOMAIN run.open /\ Tail(run.open)[i] = run.open[i + 1]
      /\ \A i \in DOMAIN run.open :
           i = 1 \/ (i - 1 \in DOMAIN Tail(run.open) /\ Tail(run.open)[i - 1] = run.open[i])
  BY <1>1, <1>2, Tailed
<1>4. /\ trial \in StartsIn(events, run.family) /\ trial \in DOMAIN events
      /\ events[trial].family = run.family /\ events[trial].check = run.check
  BY <1>1, <1>3 DEF TrialsIn, StartsIn
<1>5. ~Families[run.family].together => Tail(run.open) = <<>>
  <2> DEFINE tail == Tail(run.open)
  <2>1. IsList(tail) /\ Len(tail) = Len(run.open) - 1
    BY <1>3
  <2> HIDE DEF tail
  <2>2. tail # <<>> <=> Len(tail) # 0
    BY <2>1, SeqFacts
  <2>3. Len(run.open) = 1 => Len(tail) = 0
    BY <2>1
  <2>4. QED
    BY <1>2, <2>2, <2>3 DEF tail
<1>6. /\ next = "record" => Tail(run.open) = <<>> /\ run.todo = <<>> /\ Families[run.family].heldBack
      /\ next = "start" => Tail(run.open) = <<>> /\ (Families[run.family].heldBack => run.todo # <<>>)
      /\ next = "evaluate" => Tail(run.open) # <<>>
      /\ next \in {"record", "start", "evaluate"}
  BY DEF After
<1>7. CASE Families[run.family].heldBack
  <2>1. run.family \notin Resumables /\ ~run.resumes
    BY <1>1, <1>7, Resumed
  <2>2. /\ run' = [run EXCEPT !.open = Tail(run.open), !.at = next, !.kept = Append(run.kept, kept1)]
        /\ events' = events
    BY <1>7 DEF Complete
  <2>3. kept1.trial = trial
    OBVIOUS
  <2> HIDE DEF next, kept1
  <2>4. /\ DOMAIN run' = RunFields /\ run'.at = next
        /\ run'.family = run.family /\ run'.check = run.check /\ run'.resumes = run.resumes
        /\ run'.todo = run.todo /\ run'.open = Tail(run.open) /\ run'.kept = Append(run.kept, kept1)
        /\ run'.closing = run.closing
    BY <1>1, <2>2 DEF RunFields
  <2>5. /\ IsList(Append(run.kept, kept1))
        /\ DOMAIN Append(run.kept, kept1) = DOMAIN run.kept \cup {Len(run.kept) + 1}
        /\ Append(run.kept, kept1)[Len(run.kept) + 1] = kept1
        /\ \A i \in DOMAIN run.kept : Append(run.kept, kept1)[i] = run.kept[i]
    BY <1>1, Appended
  <2>6. ShapeIn(run')
    BY <1>1, <1>3, <1>6, <2>4, <2>5 DEF ShapeIn
  <2>7. TrialsIn(events, run')
    <3>1. \A n \in DOMAIN run'.kept :
            /\ run'.kept[n].trial \in StartsIn(events, run.family)
            /\ events[run'.kept[n].trial].check = run.check
      <4>1. \A n \in DOMAIN run'.kept : n \in DOMAIN run.kept \/ run'.kept[n].trial = trial
        BY <2>3, <2>4, <2>5
      <4>2. \A n \in DOMAIN run.kept : run'.kept[n] = run.kept[n]
        BY <2>4, <2>5
      <4>3. \A n \in DOMAIN run.kept :
              run.kept[n].trial \in StartsIn(events, run.family) /\ events[run.kept[n].trial].check = run.check
        BY <1>1 DEF TrialsIn
      <4>4. QED
        BY <1>4, <4>1, <4>2, <4>3
    <3>2. \A n \in DOMAIN run'.open :
            run'.open[n] \in StartsIn(events, run.family) /\ events[run'.open[n]].check = run.check
      BY <1>1, <1>3, <2>4 DEF TrialsIn
    <3>3. \A n \in DOMAIN run.closing : run.closing[n] \in StartsIn(events, run.family)
      BY <1>1 DEF TrialsIn
    <3>4. QED
      BY <2>4, <3>1, <3>2, <3>3 DEF TrialsIn
  <2>8. StageIn(run')
    BY <1>2, <1>5, <1>6, <1>7, <2>4 DEF StageIn
  <2>9. ASSUME NEW key
        PROVE  /\ InTodo(run, key) => InTodo(run', key)
               /\ DoneOn(events, run, key) => DoneOn(events, run', key)
               /\ OpenKey(events, run, key) => OpenKey(events, run', key)
    <3>1. InTodo(run, key) => InTodo(run', key)
      BY <2>4 DEF InTodo
    <3>2. DoneOn(events, run, key) => DoneOn(events, run', key)
      BY <2>4 DEF DoneOn
    <3>3. ASSUME NEW n \in DOMAIN run.open, events[run.open[n]].key = key
          PROVE  OpenKey(events, run', key)
      <4>1. CASE n = 1
        <5>1. Len(run.kept) + 1 \in DOMAIN run'.kept /\ run'.kept[Len(run.kept) + 1].trial = trial
          BY <2>3, <2>4, <2>5
        <5>2. events[run'.kept[Len(run.kept) + 1].trial].key = key
          BY <1>3, <3>3, <4>1, <5>1
        <5>3. QED
          BY <5>1, <5>2 DEF OpenKey
      <4>2. CASE n # 1
        <5>1. n - 1 \in DOMAIN run'.open /\ run'.open[n - 1] = run.open[n]
          BY <1>3, <2>4, <4>2
        <5>2. QED
          BY <3>3, <5>1 DEF OpenKey
      <4>3. QED
        BY <4>1, <4>2
    <3>4. ASSUME NEW n \in DOMAIN run.kept, events[run.kept[n].trial].key = key
          PROVE  OpenKey(events, run', key)
      <4>1. n \in DOMAIN run'.kept /\ run'.kept[n] = run.kept[n]
        BY <2>4, <2>5
      <4>2. QED
        BY <3>4, <4>1 DEF OpenKey
    <3>5. QED
      BY <3>1, <3>2, <3>3, <3>4 DEF OpenKey
  <2>10. CoveredIn(events, run')
    BY <1>1, <2>4, <2>9 DEF CoveredIn
  <2>11. QED
    BY <1>1, <2>1, <2>2, <2>4, <2>6, <2>7, <2>8, <2>10 DEF FamilyInv, RunIn
<1>8. CASE ~Families[run.family].heldBack
  <2>1. /\ run' = [run EXCEPT !.open = Tail(run.open), !.at = next]
        /\ events' = Append(events, e)
    BY <1>8 DEF Complete, Finish
  <2>2. e.type = "completed" /\ e.trial = trial
    BY DEF Event
  <2>3. run.kept = <<>> /\ next # "record"
    BY <1>2, <1>6, <1>8
  <2> HIDE DEF next, e
  <2>4. /\ DOMAIN run' = RunFields /\ run'.at = next
        /\ run'.family = run.family /\ run'.check = run.check /\ run'.resumes = run.resumes
        /\ run'.todo = run.todo /\ run'.open = Tail(run.open) /\ run'.kept = run.kept
        /\ run'.closing = run.closing
    BY <1>1, <2>1 DEF RunFields
  <2> DEFINE f == run.family
             k == events[trial].key
  <2>5. OpenKey(events, run, k)
    BY <1>3 DEF OpenKey
  <2>6. ASSUME f \in Resumables
        PROVE  /\ \A n \in DOMAIN run.todo : run.todo[n] # First(f) /\ run.todo[n] # k
               /\ \A key : (/\ InTodo(run, key) \/ OpenKey(events, run, key)
                            /\ IsRandom(key) /\ CompletedIn(events, f, key) # {}) =>
                    ~run.resumes /\ TwiceBegun(events, f)
    <3>1. /\ \A n \in DOMAIN run.todo : ~OpenKey(events, run, run.todo[n])
          /\ \A n \in DOMAIN run.todo : run.todo[n] = First(f) => run.open = <<>>
          /\ \A key : (/\ InTodo(run, key) \/ OpenKey(events, run, key)
                       /\ IsRandom(key) /\ CompletedIn(events, f, key) # {}) =>
               ~run.resumes /\ (TwiceBegun(events, f) \/ InTodo(run, First(f)))
      BY <1>1, <2>6 DEF FreshIn
    <3>2. ~InTodo(run, First(f))
      BY <1>2, <3>1 DEF InTodo
    <3>3. \A n \in DOMAIN run.todo : run.todo[n] # First(f) /\ run.todo[n] # k
      BY <1>2, <2>5, <3>1
    <3>4. QED
      BY <3>1, <3>2, <3>3
  <2>7. Completes(events, e)
    <3> SUFFICES ASSUME NEW g \in Resumables, trial \in StartsIn(events, g),
                        IsRandom(k), ~TwiceBegun(events, g)
                 PROVE  CompletedIn(events, g, k) \subseteq {trial}
      BY <2>2 DEF Completes
    <3>1. g = f
      BY <1>4 DEF StartsIn
    <3>2. CompletedIn(events, f, k) = {}
      BY <2>5, <2>6, <3>1
    <3>3. QED
      BY <3>1, <3>2
  <2>8. e.type \in Terminals
    BY <2>2 DEF Terminals
  <2>9. /\ LedgerIn(events')
        /\ \A g, key : Begun(events', g, key) = Begun(events, g, key)
        /\ \A g : TwiceBegun(events', g) <=> TwiceBegun(events, g)
        /\ TrialsIn(events', run)
        /\ \A key : OpenKey(events', run, key) <=> OpenKey(events, run, key)
        /\ \A key : DoneOn(events, run, key) => DoneOn(events', run, key)
        /\ \A g, key : \A i : i \in CompletedIn(events', g, key) <=>
             \/ i \in CompletedIn(events, g, key)
             \/ i = trial /\ i \in StartsIn(events, g) /\ events[i].key = key
        /\ \A g : DanglingIn(events', g) = DanglingIn(events, g) \ {trial}
        /\ \A i \in DOMAIN events : events'[i] = events[i]
    BY <1>1, <1>4, <2>1, <2>2, <2>7, <2>8, ReceiptKeepsRun
  <2> HIDE DEF k, trial
  <2>10. ShapeIn(run')
    BY <1>1, <1>3, <1>6, <2>4 DEF ShapeIn
  <2>11. TrialsIn(events', run')
    BY <1>3, <2>4, <2>9 DEF TrialsIn
  <2>12. StageIn(run')
    BY <1>2, <1>5, <1>6, <1>8, <2>3, <2>4 DEF StageIn
  <2>13. ASSUME NEW key
         PROVE  /\ InTodo(run', key) <=> InTodo(run, key)
                /\ DoneOn(events, run, key) => DoneOn(events', run', key)
                /\ OpenKey(events, run, key) => OpenKey(events', run', key) \/ DoneOn(events', run', key)
                /\ OpenKey(events', run', key) => OpenKey(events, run, key)
    <3>1. InTodo(run', key) <=> InTodo(run, key)
      BY <2>4 DEF InTodo
    <3>2. DoneOn(events', run', key) <=> DoneOn(events', run, key)
      BY <2>4 DEF DoneOn
    <3>3. ASSUME OpenKey(events, run, key)
          PROVE  OpenKey(events', run', key) \/ DoneOn(events', run', key)
      <4>1. OpenKey(events', run, key)
        BY <2>9, <3>3
      <4>2. PICK n \in DOMAIN run.open : events'[run.open[n]].key = key
        BY <2>3, <4>1, NothingListed DEF OpenKey
      <4>3. CASE n = 1
        <5>1. events[trial].key = key /\ events'[trial].check = run.check
          BY <1>3, <1>4, <2>9, <4>2, <4>3
        <5>2. trial \in CompletedIn(events', run.family, key)
          BY <1>4, <2>9, <5>1
        <5>3. QED
          BY <2>4, <5>1, <5>2 DEF DoneOn
      <4>4. CASE n # 1
        <5>1. n - 1 \in DOMAIN run'.open /\ run'.open[n - 1] = run.open[n]
          BY <1>3, <2>4, <4>4
        <5>2. events'[run'.open[n - 1]].key = key
          BY <4>2, <5>1
        <5>3. QED
          BY <5>1, <5>2 DEF OpenKey
      <4>5. QED
        BY <4>3, <4>4
    <3>4. ASSUME OpenKey(events', run', key) PROVE OpenKey(events, run, key)
      <4>1. PICK n \in DOMAIN run'.open : events'[run'.open[n]].key = key
        BY <2>3, <2>4, <3>4, NothingListed DEF OpenKey
      <4>2. n + 1 \in DOMAIN run.open /\ run.open[n + 1] = run'.open[n]
        BY <1>3, <2>4
      <4>3. events'[run.open[n + 1]].key = key
        BY <4>1, <4>2
      <4>4. OpenKey(events', run, key)
        BY <4>2, <4>3 DEF OpenKey
      <4>5. QED
        BY <2>9, <4>4
    <3>5. QED
      BY <2>9, <3>1, <3>2, <3>3, <3>4
  <2>14. CoveredIn(events', run')
    BY <1>1, <2>4, <2>13 DEF CoveredIn
  <2>15. ASSUME f \in Resumables PROVE OrderIn(events', run')
    <3>1. \A key : OpenKey(events, run, key) \/ DoneOn(events, run, key) =>
            OpenKey(events', run', key) \/ DoneOn(events', run', key)
      BY <2>13
    <3>2. OrderIn(events, run)
      BY <1>1, <2>15
    <3>3. QED
      BY <2>4, <2>9, <3>1, <3>2 DEF OrderIn
  <2>16. ASSUME f \in Resumables PROVE FreshIn(events', run')
    <3>1. FreshIn(events, run)
      BY <1>1, <2>16
    <3>2. /\ \A m, n \in DOMAIN run.todo : run.todo[m] = run.todo[n] => m = n
          /\ \A n \in DOMAIN run.todo : ~OpenKey(events, run, run.todo[n])
      BY <3>1 DEF FreshIn
    <3>3. \A n \in DOMAIN run.todo : run.todo[n] # First(f) /\ run.todo[n] # k
      BY <2>6, <2>16
    <3>4. \A key : ~OpenKey(events', run', key)
      <4>1. Tail(run.open) = <<>>
        BY <1>5, <2>16, Resumed
      <4>2. QED
        BY <2>3, <2>4, <4>1, NothingListed DEF OpenKey
    <3>5. ASSUME NEW key, InTodo(run', key), IsRandom(key), CompletedIn(events', f, key) # {}
          PROVE  ~run.resumes /\ TwiceBegun(events', f)
      <4>1. InTodo(run, key)
        BY <2>13, <3>5
      <4>2. key # k
        BY <3>3, <4>1 DEF InTodo
      <4>3. CompletedIn(events, f, key) # {}
        <5>1. PICK i : i \in CompletedIn(events', f, key)
          BY <3>5
        <5>2. ~(i = trial /\ events[i].key = key)
          BY <4>2 DEF k
        <5>3. i \in CompletedIn(events, f, key)
          BY <2>9, <5>1, <5>2
        <5>4. QED
          BY <5>3
      <4>4. QED
        BY <2>6, <2>9, <2>16, <3>5, <4>1, <4>3
    <3>6. QED
      BY <2>4, <3>2, <3>3, <3>4, <3>5 DEF FreshIn
  <2>17. ASSUME run.resumes PROVE ResumedIn(events', run')
    <3>1. /\ \A key \in Range(Configs(f)) :
               \E i \in CompletedIn(events, f, key) : Begun(events, f, key) = {i}
          /\ \A n \in DOMAIN run.todo : IsRandom(run.todo[n])
          /\ DanglingIn(events, f) \subseteq Range(run.closing) \cup Range(run.open)
      BY <1>1, <2>17 DEF ResumedIn
    <3>2. Range(run.open) \subseteq Range(run'.open) \cup {trial}
      <4>1. ASSUME NEW i \in DOMAIN run.open, i # 1
            PROVE  run.open[i] \in Range(Tail(run.open))
        <5>1. i - 1 \in DOMAIN Tail(run.open) /\ Tail(run.open)[i - 1] = run.open[i]
          BY <1>3, <4>1
        <5>2. QED
          BY <5>1 DEF Range
      <4>2. \A i \in DOMAIN run.open : run.open[i] \in Range(Tail(run.open)) \cup {trial}
        BY <1>3, <4>1
      <4>3. QED
        BY <2>4, <4>2 DEF Range
    <3>3. DanglingIn(events', f) \subseteq Range(run'.closing) \cup Range(run'.open)
      BY <2>4, <2>9, <3>1, <3>2
    <3>4. \A key \in Range(Configs(f)) :
            \E i \in CompletedIn(events', f, key) : Begun(events', f, key) = {i}
      BY <2>9, <3>1
    <3>5. QED
      BY <2>4, <3>1, <3>3, <3>4 DEF ResumedIn
  <2>18. QED
    BY <2>4, <2>9, <2>10, <2>11, <2>12, <2>14, <2>15, <2>16, <2>17 DEF FamilyInv, RunIn
<1>9. QED
  BY <1>7, <1>8

LEMMA FamilyInvStep == FamilyInv /\ [Next]_vars => FamilyInv'
<1> SUFFICES ASSUME FamilyInv, [Next]_vars PROVE FamilyInv'
  OBVIOUS
<1>1. ASSUME UNCHANGED <<events, run>> PROVE FamilyInv'
  BY <1>1 DEF FamilyInv
<1>2. CASE UNCHANGED vars
  BY <1>1, <1>2 DEF vars, familyVars
<1>3. CASE Operator
  BY <1>3, FamilyLaunchStep, ResumeStep DEF Operator
<1>4. CASE CloseDangling
  BY <1>4, CloseStep
<1>5. CASE AllDone
  BY <1>5, AllDoneStep
<1>6. CASE StartTrial
  BY <1>6, StartStep
<1>7. CASE Evaluate
  BY <1>1, <1>7 DEF Evaluate
<1>8. CASE Complete
  BY <1>8, CompleteStep
<1>9. CASE Record
  BY <1>9, FamilyRecordStep
<1>10. CASE \E type \in {"errored", "abandoned"} : Raise(type)
  BY <1>10, RaiseStep
<1>11. CASE Unwind
  BY <1>11, UnwindStep
<1>12. CASE Kill
  BY <1>12, KillStep
<1>13. QED
  BY <1>2, <1>3, <1>4, <1>5, <1>6, <1>7, <1>8, <1>9, <1>10, <1>11, <1>12 DEF Next

LEMMA FamilyInvStart == Init => FamilyInv
<1> SUFFICES ASSUME Init PROVE FamilyInv
  OBVIOUS
<1>1. events = <<>> /\ run = Off
  BY DEF Init
<1>2. IsList(events) /\ DOMAIN events = {}
  BY <1>1, EmptyList
<1>3. LedgerIn(events)
  BY <1>2 DEF LedgerIn, EventsIn, BaselinesFollow, CompletedOnce, StartsIn
<1>4. QED
  BY <1>1, <1>3, OffIn DEF FamilyInv

LEMMA InvMakesWhole == FamilyInv => FamilyIsWhole
<1> SUFFICES ASSUME FamilyInv PROVE FamilyIsWhole
  OBVIOUS
<1>1. ASSUME NEW f, NEW key PROVE Completed(f, key) = CompletedIn(events, f, key)
  BY DEF Completed, CompletedIn, Starts, StartsIn, Ended, EndedIn
<1>2. ASSUME run.at = "done"
      PROVE  /\ \A key \in Range(Series(run.family)) : DoneOn(events, run, key)
             /\ run.family \in DOMAIN Families /\ run.closing = <<>> /\ run.open = <<>>
             /\ run.resumes => run.family \in Resumables /\ ResumedIn(events, run)
  <2>1. /\ StageIn(run) /\ CoveredIn(events, run) /\ run.family \in DOMAIN Families
        /\ run.resumes => run.family \in Resumables /\ ResumedIn(events, run)
    BY <1>2, Known DEF Active
  <2>2. run.todo = <<>> /\ run.open = <<>> /\ run.kept = <<>> /\ run.closing = <<>>
    BY <1>2, <2>1 DEF StageIn
  <2>3. \A key : ~InTodo(run, key) /\ ~OpenKey(events, run, key)
    BY <2>2, NothingListed DEF InTodo, OpenKey
  <2>4. QED
    BY <2>1, <2>2, <2>3 DEF CoveredIn
<1>3. ASSUME run.at = "done", NEW key \in Range(Series(run.family))
      PROVE  \E i \in Completed(run.family, key) : events[i].check = run.check
  BY <1>1, <1>2, <1>3 DEF DoneOn
<1>4. ASSUME run.at = "done", run.resumes PROVE Dangling(run.family) = {}
  <2>1. DanglingIn(events, run.family) \subseteq Range(run.closing) \cup Range(run.open)
    BY <1>2, <1>4 DEF ResumedIn
  <2>2. Range(run.closing) = {} /\ Range(run.open) = {}
    BY <1>2, <1>4, NothingListed DEF Range
  <2>3. Dangling(run.family) = DanglingIn(events, run.family)
    BY DEF Dangling, DanglingIn, Starts, StartsIn, Ended, EndedIn
  <2>4. QED
    BY <2>1, <2>2, <2>3
<1>5. ASSUME run.at = "done", run.resumes, NEW key \in Range(Series(run.family))
      PROVE  Cardinality(Completed(run.family, key)) = 1
  <2> DEFINE f == run.family
  <2>1. /\ f \in Resumables
        /\ \A k \in Range(Configs(f)) : \E i \in CompletedIn(events, f, k) : Begun(events, f, k) = {i}
    BY <1>2, <1>5 DEF ResumedIn
  <2>2. f \in DOMAIN Families /\ (key \in Range(Configs(f)) \/ key \in Range(Pairs(f)))
    BY <1>2, <1>5, SeriesList
  <2>3. PICK i \in CompletedIn(events, f, key) : TRUE
    BY <1>1, <1>3, <1>5
  <2>4. CompletedIn(events, f, key) = {i}
    <3>1. CASE key \in Range(Configs(f))
      <4>1. CompletedIn(events, f, key) \subseteq Begun(events, f, key)
        BY DEF CompletedIn, Begun
      <4>2. QED
        BY <2>1, <2>3, <3>1, <4>1
    <3>2. CASE key \in Range(Pairs(f))
      <4>1. IsRandom(key)
        BY <2>2, <3>2, PairList DEF Range
      <4>2. ~TwiceBegun(events, f)
        <5>1. First(f) \in Range(Configs(f))
          BY <2>2, SeriesList
        <5>2. QED
          BY <2>1, <5>1 DEF TwiceBegun
      <4>3. \A j \in CompletedIn(events, f, key) :
              j \in StartsIn(events, f) /\ events[j].key = key /\ EndedIn(events, j, {"completed"})
        BY DEF CompletedIn
      <4>4. CompletedOnce(events)
        BY Known DEF LedgerIn
      <4>5. \A j \in CompletedIn(events, f, key) : j = i
        BY <2>1, <2>3, <4>1, <4>2, <4>3, <4>4 DEF CompletedOnce
      <4>6. QED
        BY <2>3, <4>5
    <3>3. QED
      BY <2>2, <3>1, <3>2
  <2>5. QED
    BY <1>1, <2>4, FS_Singleton
<1>6. ASSUME NEW f \in DOMAIN Families, NEW key \in Range(Pairs(f)), NEW i \in Completed(f, key),
             Families[f].resumable
      PROVE  \E j \in Completed(f, CandidateOf(key)) : j < i /\ events[j].check = events[i].check
  <2>1. f \in Resumables /\ IsRandom(key)
    BY <1>6, PairList DEF Resumables, Range
  <2>2. i \in StartsIn(events, f) /\ events[i].key = key
    BY <1>1 DEF CompletedIn
  <2>3. BaselinesFollow(events)
    BY Known DEF LedgerIn
  <2>4. QED
    BY <1>1, <2>1, <2>2, <2>3 DEF BaselinesFollow
<1>7. ASSUME NEW f \in DOMAIN Families, NEW key \in Range(Pairs(f)), NEW i \in Completed(f, key)
      PROVE  Families[f].resumable =>
               \E j \in Completed(f, Key(key.of, "", 0)) : j < i /\ events[j].check = events[i].check
  BY <1>6, <1>7, Zenon DEF CandidateOf
<1>8. QED
  BY <1>3, <1>4, <1>5, <1>7, Zenon DEF FamilyIsWhole

\* The programs of a family: however often they are launched, resumed, killed or
\* fail, in whatever order, one that ends has every series completed on its panel.
THEOREM FamiliesAreWhole == Spec => []FamilyIsWhole
<1>1. Init => FamilyInv
  BY FamilyInvStart
<1>2. FamilyInv /\ [Next]_vars => FamilyInv'
  BY FamilyInvStep
<1>3. FamilyInv => FamilyIsWhole
  BY InvMakesWhole
<1>4. QED
  BY <1>1, <1>2, <1>3, PTL DEF Spec

-----------------------------------------------------------------------------
(* ---- Panels --------------------------------------------------------- *)

LEMMA TickersAreFinite == IsFiniteSet(Tickers)
<1>1. Len(Columns) \in Nat /\ DOMAIN Columns = 1..Len(Columns)
  BY PanelAssumption
<1>2. IsFiniteSet(DOMAIN Columns)
  BY <1>1, FS_Interval
<1> DEFINE f == [i \in DOMAIN Columns |-> Columns[i]]
<1>3. f \in Surjection(DOMAIN Columns, Tickers)
  BY DEF Tickers, Surjection
<1>4. QED
  BY <1>2, <1>3, FS_Surjection

Row == [on : Nat \ {0}, open : Nat \ {0}, close : Nat \ {0}, dividend : Int, split : Int]

LEMMA RowsAreTyped ==
  ASSUME NEW c \in DOMAIN DataChecks, NEW x \in Tickers
  PROVE  \E n \in Nat : RowsOf(c, x) = [i \in 1..n |-> RowsOf(c, x)[i]]
                        /\ \A i \in 1..n : RowsOf(c, x)[i] \in Row
<1> DEFINE rows == DataChecks[c].rows[x]
           left == {i \in DOMAIN rows : rows[i].on <= ResearchEnd}
<1>1. rows \in Seq(Row)
  BY PanelAssumption DEF Row
<1>2. Len(rows) \in Nat /\ DOMAIN rows = 1..Len(rows) /\ \A i \in 1..Len(rows) : rows[i] \in Row
  BY <1>1
<1>3. IsFiniteSet(left) /\ left \subseteq Nat
  <2>1. IsFiniteSet(1..Len(rows))
    <3>1. PICK n \in Nat : n = Len(rows)
      BY <1>2
    <3>2. IsFiniteSet(1..n)
      BY FS_Interval
    <3>3. QED
      BY <3>1, <3>2
  <2>2. left \subseteq 1..Len(rows)
    BY <1>2
  <2>3. QED
    BY <2>1, <2>2, FS_Subset
<1>4. RowsOf(c, x) = [k \in DOMAIN Sorted(left) |-> rows[Sorted(left)[k]]]
  BY DEF RowsOf, Research
<1>5. left \subseteq 1..Len(rows)
  BY <1>2
<1> HIDE DEF left, rows
<1>6. /\ DOMAIN Sorted(left) = 1..Cardinality(left) /\ Cardinality(left) \in Nat
      /\ \A k \in 1..Cardinality(left) : Sorted(left)[k] \in left
  BY <1>3, SortedRows
<1>7. QED
  BY <1>2, <1>4, <1>5, <1>6

\* Fractions above zero.
Fractions == (Nat \ {0}) \X (Nat \ {0})

LEMMA PairIsAFraction ==
  ASSUME NEW p \in Nat \ {0}, NEW q \in Nat \ {0}
  PROVE  <<p, q>> \in Fractions
BY DEF Fractions

LEMMA TimesIsAFraction ==
  ASSUME NEW p \in Fractions, NEW q \in Fractions
  PROVE  Times(p, q) \in Fractions
<1>1. /\ p[1] \in Nat /\ p[1] > 0 /\ p[2] \in Nat /\ p[2] > 0
      /\ q[1] \in Nat /\ q[1] > 0 /\ q[2] \in Nat /\ q[2] > 0
  BY DEF Fractions
<1>2. p[1] * q[1] \in Nat /\ p[1] * q[1] > 0 /\ p[2] * q[2] \in Nat /\ p[2] * q[2] > 0
  BY <1>1, Products
<1> HIDE DEF Fractions
<1>3. Times(p, q) = <<p[1] * q[1], p[2] * q[2]>>
  BY DEF Times
<1>4. p[1] * q[1] \in Nat \ {0} /\ p[2] * q[2] \in Nat \ {0}
  BY <1>2
<1>5. QED
  BY <1>3, <1>4, PairIsAFraction

LEMMA OneIsAFraction == One \in Fractions
BY DEF One, Fractions

LEMMA FactorIsAFraction ==
  ASSUME NEW c \in Built, NEW x \in Tickers, NEW e \in DOMAIN RowsOf(c, x)
  PROVE  Factor(c, x, e) \in Fractions
<1>1. c \in DOMAIN DataChecks /\ Buildable(c)
  BY DEF Built
<1>2. PICK n \in Nat : /\ DOMAIN RowsOf(c, x) = 1..n
                       /\ \A i \in 1..n : RowsOf(c, x)[i] \in Row
  BY <1>1, RowsAreTyped
<1>3. CASE ~Applied(c, x, e)
  BY <1>3, OneIsAFraction DEF Factor
<1>4. CASE Applied(c, x, e)
  <2> DEFINE now == RowsOf(c, x)[e]
             last == RowsOf(c, x)[e - 1]
  <2>1. e \in Nat /\ e > 1 /\ e - 1 \in 1..n /\ e \in 1..n
    BY <1>2, <1>4 DEF Applied
  <2>2. /\ now.split > 0 /\ 0 <= now.dividend * now.split
        /\ now.dividend * now.split < last.close
    BY <1>1, <1>4 DEF Buildable
  <2>3. now \in Row /\ last \in Row
    BY <1>2, <2>1
  <2>4. now.split \in Int /\ now.dividend \in Int /\ last.close \in Nat /\ last.close > 0
    BY <2>3 DEF Row
  <2>5. Factor(c, x, e) = <<last.close - now.dividend * now.split, last.close * now.split>>
    BY <1>4 DEF Factor
  <2> DEFINE paid == now.dividend * now.split
             into == now.split
             close == last.close
  <2>6. paid \in Int /\ into \in Nat /\ into > 0 /\ close \in Nat /\ close > 0 /\ 0 <= paid /\ paid < close
    BY <2>2, <2>4
  <2>7. Factor(c, x, e) = <<close - paid, close * into>>
    BY <2>5
  <2> HIDE DEF paid, into, close
  <2>8. close - paid \in Nat \ {0}
    BY <2>6
  <2>9. close * into \in Nat /\ close * into > 0
    BY <2>6, Products
  <2>10. close * into \in Nat \ {0}
    BY <2>9
  <2>11. QED
    BY <2>7, <2>8, <2>10, PairIsAFraction
<1>5. QED
  BY <1>3, <1>4

\* The actions between two rows, as Step multiplies them.
Goes(t, c, x, a, later) ==
  t = [e \in a..later |-> IF e = a THEN One ELSE Times(t[e - 1], Factor(c, x, e))]
Through(c, x, a, later) == CHOOSE t : Goes(t, c, x, a, later)

LEMMA StepUnfolds ==
  ASSUME NEW c, NEW x, NEW a, NEW later, ~Disputed(c, x, a, later)
  PROVE  Step(c, x, a, later) = Through(c, x, a, later)[later]
BY DEF Step, Through, Goes

LEMMA ThroughExists ==
  ASSUME NEW c, NEW x, NEW a \in Nat, NEW later \in Nat, a <= later
  PROVE  Goes(Through(c, x, a, later), c, x, a, later)
<1> DEFINE Onward(g) == [e \in a..later |-> IF e = a THEN One ELSE Times(g[e - 1], Factor(c, x, e))]
           Up(g, n) == \A e \in a..later : e <= a + n =>
                         g[e] = IF e = a THEN One ELSE Times(g[e - 1], Factor(c, x, e))
           Holds(n) == \E g : g = [e \in a..later |-> g[e]] /\ Up(g, n)
           Bad == {n \in Nat : ~Holds(n)}
<1>1. Holds(0)
  <2>1. Up([e \in a..later |-> One], 0)
    OBVIOUS
  <2>2. QED
    BY <2>1
<1>2. ASSUME NEW n \in Nat, Holds(n)
      PROVE  Holds(n + 1)
  <2>1. PICK g : Up(g, n)
    BY <1>2
  <2>2. ASSUME NEW e \in a..later, e <= a + (n + 1), e # a
        PROVE  g[e - 1] = Onward(g)[e - 1]
    <3>1. e - 1 \in a..later /\ e - 1 <= a + n
      BY <2>2
    <3>2. QED
      BY <2>1, <3>1
  <2>3. Up(Onward(g), n + 1)
    BY <2>2
  <2>4. QED
    BY <2>3
<1>3. Bad = {}
  <2>1. SUFFICES ASSUME Bad # {} PROVE FALSE
    OBVIOUS
  <2>2. PICK n \in Bad : \A m \in Bad : n <= m
    BY <2>1, LeastNatural
  <2>3. n # 0
    BY <1>1
  <2> HIDE DEF Holds
  <2>4. n \in Nat /\ n - 1 \in Nat /\ (n - 1) + 1 = n
    BY <2>3
  <2>5. Holds(n - 1)
    BY <2>2, <2>4
  <2>6. Holds((n - 1) + 1)
    BY <1>2, <2>4, <2>5
  <2>7. QED
    BY <2>4, <2>6
<1>4. PICK g : g = [e \in a..later |-> g[e]] /\ Up(g, later - a)
  <2>1. later - a \in Nat
    OBVIOUS
  <2>2. Holds(later - a)
    BY <1>3, <2>1
  <2>3. QED
    BY <2>2
<1>5. \A e \in a..later : e <= a + (later - a)
  OBVIOUS
<1>6. Goes(g, c, x, a, later)
  BY <1>4, <1>5 DEF Goes
<1>7. QED
  BY <1>6 DEF Through

LEMMA ThroughIsAFraction ==
  ASSUME NEW c \in Built, NEW x \in Tickers, NEW a \in DOMAIN RowsOf(c, x),
         NEW later \in DOMAIN RowsOf(c, x), a <= later
  PROVE  Through(c, x, a, later)[later] \in Fractions
<1>1. c \in DOMAIN DataChecks
  BY DEF Built
<1>2. PICK n \in Nat : DOMAIN RowsOf(c, x) = 1..n
  BY <1>1, RowsAreTyped
<1>3. a \in Nat /\ later \in Nat /\ a >= 1 /\ later <= n
  BY <1>2
<1> DEFINE t == Through(c, x, a, later)
           Bad == {e \in a..later : t[e] \notin Fractions}
<1>4. \A e \in a..later : t[e] = IF e = a THEN One ELSE Times(t[e - 1], Factor(c, x, e))
  <2>1. Goes(t, c, x, a, later)
    BY <1>3, ThroughExists
  <2> HIDE DEF t
  <2>2. QED
    BY <2>1 DEF Goes
<1>5. Bad = {}
  <2>1. SUFFICES ASSUME Bad # {} PROVE FALSE
    OBVIOUS
  <2>2. Bad \subseteq Nat
    BY <1>3
  <2>3. PICK e \in Bad : \A m \in Bad : e <= m
    BY <2>1, <2>2, LeastNatural
  <2>4. e \in a..later /\ e \in Nat /\ e \in DOMAIN RowsOf(c, x)
    BY <1>2, <1>3
  <2>5. e # a
    BY <1>4, <2>4, OneIsAFraction
  <2>6. e - 1 \in a..later /\ e - 1 \notin Bad
    BY <1>3, <2>3, <2>4, <2>5
  <2>7. t[e - 1] \in Fractions /\ Factor(c, x, e) \in Fractions
    BY <2>4, <2>6, FactorIsAFraction
  <2>8. t[e] = Times(t[e - 1], Factor(c, x, e))
    BY <1>4, <2>4, <2>5
  <2>9. QED
    BY <2>7, <2>8, TimesIsAFraction
<1>6. QED
  BY <1>3, <1>5

LEMMA StepIsAFraction ==
  ASSUME NEW c \in Built, NEW x \in Tickers, NEW a \in DOMAIN RowsOf(c, x),
         NEW later \in DOMAIN RowsOf(c, x), a <= later
  PROVE  Step(c, x, a, later) \in Fractions
<1>1. CASE ~Disputed(c, x, a, later)
  BY <1>1, StepUnfolds, ThroughIsAFraction
<1>2. CASE Disputed(c, x, a, later)
  <2>1. Step(c, x, a, later) = <<RowsOf(c, x)[later].close, RowsOf(c, x)[a].close>>
    BY <1>2 DEF Step
  <2>2. c \in DOMAIN DataChecks
    BY DEF Built
  <2>3. RowsOf(c, x)[later] \in Row /\ RowsOf(c, x)[a] \in Row
    BY <2>2, RowsAreTyped
  <2>4. RowsOf(c, x)[later].close \in Nat \ {0} /\ RowsOf(c, x)[a].close \in Nat \ {0}
    BY <2>3 DEF Row
  <2>5. QED
    BY <2>1, <2>4, PairIsAFraction
<1>3. QED
  BY <1>1, <1>2

LEMMA NextRow ==
  ASSUME NEW kept, kept \subseteq Nat, IsFiniteSet(kept), NEW a \in kept, a # Max(kept)
  PROVE  NextOf(kept, a) \in kept /\ NextOf(kept, a) > a /\ Max(kept) \in kept /\ a < Max(kept)
<1>1. kept \subseteq Int /\ kept # {}
  OBVIOUS
<1>2. Max(kept) \in kept /\ a <= Max(kept)
  BY <1>1, MaxOfFinite
<1>3. Max(kept) \in {b \in kept : b > a} /\ a < Max(kept)
  <2>1. PICK b \in kept : b = Max(kept)
    BY <1>2
  <2>2. b \in Nat /\ a \in Nat /\ a <= b /\ a # b
    BY <1>2, <2>1
  <2>3. QED
    BY <2>1, <2>2
<1>4. Min({b \in kept : b > a}) \in {b \in kept : b > a}
  <2>1. {b \in kept : b > a} \subseteq Nat /\ {b \in kept : b > a} # {}
    BY <1>3
  <2>2. QED
    BY <2>1, MinOfNaturals
<1>5. QED
  BY <1>2, <1>3, <1>4 DEF NextOf

\* The multipliers, from the last included row backwards.
Backs(m, c, x, kept) ==
  m = [a \in kept |->
         IF a = Max(kept) THEN One ELSE Times(m[NextOf(kept, a)], Step(c, x, a, NextOf(kept, a)))]

LEMMA MultiplierUnfolds ==
  ASSUME NEW c, NEW x, NEW kept
  PROVE  Multiplier(c, x, kept) = CHOOSE m : Backs(m, c, x, kept)
BY DEF Multiplier, Backs

LEMMA MultiplierExists ==
  ASSUME NEW c, NEW x, NEW kept, kept \subseteq Nat, IsFiniteSet(kept), kept # {}
  PROVE  Backs(Multiplier(c, x, kept), c, x, kept)
<1> DEFINE top == Max(kept)
           Term(g, a) == IF a = top THEN One ELSE Times(g[NextOf(kept, a)], Step(c, x, a, NextOf(kept, a)))
           Onward(g) == [a \in kept |-> Term(g, a)]
           Up(g, n) == \A a \in kept : top <= a + n => g[a] = Term(g, a)
           Holds(n) == \E g : g = [a \in kept |-> g[a]] /\ Up(g, n)
           Bad == {n \in Nat : ~Holds(n)}
<1>0. top \in kept /\ top \in Nat /\ \A a \in kept : a \in Nat /\ a <= top
  <2>1. kept \subseteq Int
    OBVIOUS
  <2>2. QED
    BY <2>1, MaxOfFinite
<1>a. ASSUME NEW a \in kept, a # top PROVE NextOf(kept, a) \in kept /\ NextOf(kept, a) > a
  BY <1>a, NextRow
<1> HIDE DEF top
<1>1. Holds(0)
  <2>1. Up([a \in kept |-> One], 0)
    BY <1>0
  <2>2. QED
    BY <2>1
<1>2. ASSUME NEW n \in Nat, Holds(n)
      PROVE  Holds(n + 1)
  <2>1. PICK g : Up(g, n)
    BY <1>2
  <2>2. ASSUME NEW a \in kept, top <= a + (n + 1), a # top
        PROVE  g[NextOf(kept, a)] = Onward(g)[NextOf(kept, a)]
    <3> DEFINE b == NextOf(kept, a)
    <3>1. b \in kept /\ top <= b + n
      <4>1. b \in kept /\ b > a
        BY <1>a, <2>2
      <4>2. a \in Nat /\ b \in Nat
        BY <1>0, <4>1
      <4> HIDE DEF b
      <4>3. QED
        BY <1>0, <2>2, <4>1, <4>2
    <3> HIDE DEF b, Term
    <3>2. QED
      BY <2>1, <3>1 DEF b
  <2>3. Up(Onward(g), n + 1)
    <3>1. ASSUME NEW a \in kept, top <= a + (n + 1)
          PROVE  Onward(g)[a] = Term(Onward(g), a)
      BY <2>2, <3>1
    <3>2. QED
      BY <3>1
  <2>4. QED
    BY <2>3
<1>3. Bad = {}
  <2>1. SUFFICES ASSUME Bad # {} PROVE FALSE
    OBVIOUS
  <2>2. PICK n \in Bad : \A m \in Bad : n <= m
    BY <2>1, LeastNatural
  <2>3. n # 0
    BY <1>1
  <2> HIDE DEF Holds
  <2>4. n \in Nat /\ n - 1 \in Nat /\ (n - 1) + 1 = n
    BY <2>3
  <2>5. Holds(n - 1)
    BY <2>2, <2>4
  <2>6. Holds((n - 1) + 1)
    BY <1>2, <2>4, <2>5
  <2>7. QED
    BY <2>4, <2>6
<1>4. PICK g : g = [a \in kept |-> g[a]] /\ Up(g, top)
  BY <1>0, <1>3
<1>5. \A a \in kept : top <= a + top
  BY <1>0
<1>6. Backs(g, c, x, kept)
  BY <1>4, <1>5 DEF Backs, top
<1>7. QED
  BY <1>6, MultiplierUnfolds

LEMMA MultiplierIsAFraction ==
  ASSUME NEW c \in Built, NEW x \in Tickers, NEW i \in Included(c, x)
  PROVE  Multiplier(c, x, Included(c, x))[i] \in Fractions
<1> DEFINE kept == Included(c, x)
           m == Multiplier(c, x, kept)
           Bad == {a \in kept : m[a] \notin Fractions}
<1>1. c \in DOMAIN DataChecks
  BY DEF Built
<1>2. PICK n \in Nat : DOMAIN RowsOf(c, x) = 1..n
  BY <1>1, RowsAreTyped
<1>3. kept \subseteq DOMAIN RowsOf(c, x)
  BY DEF Included
<1>4. kept \subseteq Nat /\ IsFiniteSet(kept) /\ kept # {} /\ kept \subseteq Int
  <2>1. IsFiniteSet(1..n)
    BY FS_Interval
  <2>2. QED
    BY <1>2, <1>3, <2>1, FS_Subset
<1> HIDE DEF kept
<1>5. \A a \in kept : m[a] = IF a = Max(kept) THEN One
                             ELSE Times(m[NextOf(kept, a)], Step(c, x, a, NextOf(kept, a)))
  <2>1. Backs(m, c, x, kept)
    BY <1>4, MultiplierExists
  <2> HIDE DEF m
  <2>2. QED
    BY <2>1 DEF Backs
<1> HIDE DEF m
<1>6. Bad = {}
  <2>1. SUFFICES ASSUME Bad # {} PROVE FALSE
    OBVIOUS
  <2>2. IsFiniteSet(Bad) /\ Bad \subseteq Int
    BY <1>4, FS_Subset
  <2>3. Max(Bad) \in Bad /\ \A b \in Bad : b <= Max(Bad)
    BY <2>1, <2>2, MaxOfFinite
  <2>4. PICK a \in Bad : \A b \in Bad : b <= a
    BY <2>3
  <2>5. a # Max(kept)
    BY <1>5, OneIsAFraction
  <2>6. NextOf(kept, a) \in kept /\ NextOf(kept, a) > a
    BY <1>4, <2>5, NextRow
  <2>7. a \in Nat /\ NextOf(kept, a) \in Nat
    BY <1>4, <2>6
  <2>8. NextOf(kept, a) \notin Bad
    BY <2>4, <2>6, <2>7
  <2>9. m[NextOf(kept, a)] \in Fractions
    BY <2>6, <2>8
  <2>10. Step(c, x, a, NextOf(kept, a)) \in Fractions
    BY <1>3, <2>6, <2>7, StepIsAFraction
  <2>11. m[a] = Times(m[NextOf(kept, a)], Step(c, x, a, NextOf(kept, a)))
    BY <1>5, <2>5
  <2>12. QED
    BY <2>9, <2>10, <2>11, TimesIsAFraction
<1>7. QED
  BY <1>6 DEF kept, m

Prices == [Tickers -> [Sessions -> Nat]]

LEMMA AdjustedIsTyped ==
  ASSUME NEW c \in Built, NEW x \in Tickers, NEW price \in {"open", "close"}
  PROVE  Adjusted(c, x, price) \in [Sessions -> Nat]
<1> DEFINE rows == RowsOf(c, x)
           kept == Included(c, x)
           m == Multiplier(c, x, kept)
           On(s) == {i \in kept : rows[i].on = s}
<1>1. c \in DOMAIN DataChecks
  BY DEF Built
<1>2. PICK n \in Nat : DOMAIN rows = 1..n /\ \A i \in 1..n : rows[i] \in Row
  BY <1>1, RowsAreTyped
<1>3. kept \subseteq 1..n
  BY <1>2 DEF Included
<1>4. \A i \in kept : m[i] \in Fractions
  BY MultiplierIsAFraction
<1>5. Adjusted(c, x, price) =
        [s \in Sessions |-> IF On(s) = {} THEN 0
                            ELSE (rows[Max(On(s))][price] * m[Max(On(s))][1]) \div m[Max(On(s))][2]]
  BY DEF Adjusted, Frame
<1> HIDE DEF rows, kept, m
<1>6. ASSUME NEW s \in Sessions, On(s) # {}
      PROVE  (rows[Max(On(s))][price] * m[Max(On(s))][1]) \div m[Max(On(s))][2] \in Nat
  <2>1. IsFiniteSet(On(s)) /\ On(s) \subseteq Int
    <3>1. IsFiniteSet(1..n)
      BY FS_Interval
    <3>2. On(s) \subseteq 1..n
      BY <1>3
    <3>3. QED
      BY <3>1, <3>2, FS_Subset
  <2>2. Max(On(s)) \in On(s)
    BY <1>6, <2>1, MaxOfFinite
  <2>3. PICK i \in kept : i = Max(On(s))
    BY <2>2
  <2>4. rows[i] \in Row /\ m[i] \in Fractions
    BY <1>2, <1>3, <1>4
  <2>5. rows[i][price] \in Nat
    BY <2>4 DEF Row
  <2>6. m[i][1] \in Nat /\ m[i][2] \in Nat /\ m[i][2] > 0
    BY <2>4 DEF Fractions
  <2>7. rows[i][price] * m[i][1] \in Nat
    BY <2>5, <2>6, Products
  <2>8. \A p, q \in Nat : q > 0 => p \div q \in Nat
    OBVIOUS
  <2>9. (rows[i][price] * m[i][1]) \div m[i][2] \in Nat
    BY <2>6, <2>7, <2>8
  <2>10. QED
    BY <2>3, <2>9
<1>7. QED
  BY <1>5, <1>6

\* The prices of a panel that was built are natural numbers.
LEMMA PanelsAreTyped ==
  ASSUME NEW c \in Built
  PROVE  Panels[c].open \in Prices /\ Panels[c].close \in Prices
<1>1. Panels[c] = Panel(c)
  BY DEF Panels
<1>2. /\ Panels[c].open = [x \in Tickers |-> Adjusted(c, x, "open")]
      /\ Panels[c].close = [x \in Tickers |-> Adjusted(c, x, "close")]
  BY <1>1 DEF Panel
<1>3. QED
  BY <1>2, AdjustedIsTyped DEF Prices

-----------------------------------------------------------------------------
(* ---- Books ---------------------------------------------------------- *)

LEMMA TickersFinite ==
  ASSUME NEW S, S \subseteq Tickers
  PROVE  IsFiniteSet(S) /\ Cardinality(S) \in Nat /\ (S # {} => Cardinality(S) > 0)
<1>1. IsFiniteSet(S)
  BY TickersAreFinite, FS_Subset
<1>2. QED
  BY <1>1, FS_CardinalityType, FS_EmptySet

LEMMA Quotient ==
  ASSUME NEW p \in Nat, NEW q \in Nat, q > 0
  PROVE  p \div q \in Nat
OBVIOUS

\* The rules select names of the panel.
LEMMA SelectsTickers ==
  ASSUME NEW config, Rules[config].rule \in Selecting, NEW close, NEW t
  PROVE  Selection(config, close, t) \subseteq Tickers
<1> DEFINE r == Rules[config]
<1>1. ASSUME NEW eligible, eligible \subseteq Tickers, NEW k, NEW better
      PROVE  TopK(eligible, k, better) \subseteq Tickers
  BY <1>1 DEF TopK
<1>2. CASE r.rule = "momentum"
  BY <1>2 DEF Selection, Momentum
<1>3. CASE r.rule = "trend"
  BY <1>3 DEF Selection, Trend
<1>4. CASE r.rule = "cross_momentum"
  BY <1>1, <1>4 DEF Selection, CrossMomentum
<1>5. CASE r.rule = "risk_parity"
  BY <1>5 DEF Selection, RiskParity
<1>6. CASE r.rule = "dual_momentum"
  <2> DEFINE lag == Month * r.n
             safe == Columns[Len(Columns)]
             eligible == {x \in Tickers : Observed(close, x, t, lag + 1)}
             winner == TopK(eligible \ {safe}, 1, Ranked(close, eligible, t, lag, 0))
  <2>1. Selection(config, close, t) =
          IF safe \notin eligible THEN {}
          ELSE IF \E x \in winner : Beats(close, x, safe, t, lag, 0) THEN winner ELSE {safe}
    BY <1>6 DEF Selection, DualMomentum
  <2>2. winner \subseteq Tickers
    BY <1>1
  <2> HIDE DEF winner
  <2>3. QED
    BY <2>1, <2>2
<1>7. CASE r.rule = "reversal"
  BY <1>1, <1>7 DEF Selection, Reversal
<1>8. CASE r.rule = "low_volatility"
  BY <1>1, <1>8 DEF Selection, LowVolatility
<1>9. CASE r.rule = "allocation"
  BY <1>9 DEF Selection, Seasoned, Listed
<1>10. CASE r.rule = "listed"
  BY <1>10 DEF Selection, Listed
<1>11. QED
  BY <1>2, <1>3, <1>4, <1>5, <1>6, <1>7, <1>8, <1>9, <1>10 DEF Selecting

LEMMA VolatilityIsTyped ==
  ASSUME NEW close, NEW x, NEW t \in Nat
  PROVE  /\ Volatility(close, x, t) \in Int
         /\ Cardinality(ReturnsUntil(close, x, t)) >= Span => Volatility(close, x, t) \in Nat
<1> DEFINE returns == ReturnsUntil(close, x, t)
           latest == {s \in returns : Cardinality({u \in returns : u > s}) < Span}
           moved == {s \in latest : close[x][s] # close[x][s - 1]}
<1>1. IsFiniteSet(2..t)
  BY FS_Interval
<1>2. returns \subseteq 2..t
  BY DEF ReturnsUntil
<1>3. moved \subseteq 2..t
  BY <1>2
<1>4. Volatility(close, x, t) = IF Cardinality(returns) < Span THEN -1 ELSE Cardinality(moved)
  BY DEF Volatility, Unknown
<1>5. IsFiniteSet(returns) /\ IsFiniteSet(moved)
  BY <1>1, <1>2, <1>3, FS_Subset
<1> HIDE DEF moved, returns
<1>6. Cardinality(moved) \in Nat /\ Cardinality(returns) \in Nat /\ Span \in Nat
  BY <1>5, FS_CardinalityType, BookAssumption
<1>7. QED
  BY <1>4, <1>6 DEF returns

Amounts == [Tickers -> Nat]

LEMMA FlatIsABook == Flat \in Amounts
BY DEF Flat, Amounts

LEMMA CappedIsABook ==
  ASSUME NEW weights \in Amounts, NEW cap \in Nat
  PROVE  GrossCap(weights, cap) \in Amounts
<1> DEFINE gross == Gross(weights)
<1>1. DOMAIN weights = Tickers /\ \A x \in Tickers : weights[x] \in Nat
  BY DEF Amounts
<1>2. gross = SumFunctionOnSet(weights, Tickers)
  BY <1>1 DEF Gross, SumFunction
<1>3. gross \in Nat
  BY <1>1, <1>2, TickersAreFinite, SumNatural
<1> HIDE DEF gross
<1>4. CASE gross > cap
  <2>1. GrossCap(weights, cap) = [x \in Tickers |-> (weights[x] * cap) \div gross]
    BY <1>4 DEF GrossCap, gross
  <2>2. ASSUME NEW x \in Tickers PROVE (weights[x] * cap) \div gross \in Nat
    <3>1. weights[x] * cap \in Nat
      BY <1>1, Products
    <3>2. gross > 0
      BY <1>3, <1>4
    <3>3. QED
      BY <1>3, <3>1, <3>2, Quotient
  <2>3. QED
    BY <2>1, <2>2 DEF Amounts
<1>5. CASE ~(gross > cap)
  BY <1>5 DEF GrossCap, gross
<1>6. QED
  BY <1>4, <1>5

LEMMA VolatilityTargetIsABook ==
  ASSUME NEW selection, selection \subseteq Tickers, NEW close, NEW t \in Nat
  PROVE  VolatilityTarget(selection, close, t) \in Amounts
<1> DEFINE legs == {x \in selection : Volatility(close, x, t) > 0}
           k == Cardinality(legs)
           Leg(x) == (Whole * Target) \div (k * Volatility(close, x, t))
           book == [x \in Tickers |-> IF x \in legs THEN Leg(x) ELSE 0]
<1>1. VolatilityTarget(selection, close, t) =
        IF legs = {} \/ ~CovarianceKnown(close, legs, t) THEN Flat ELSE GrossCap(book, Whole)
  BY DEF VolatilityTarget
<1>2. Whole \in Nat /\ Target \in Nat
  BY BookAssumption
<1>3. ASSUME legs # {} PROVE book \in Amounts
  <2>1. legs \subseteq Tickers
    OBVIOUS
  <2>2. k \in Nat /\ k > 0
    BY <1>3, <2>1, TickersFinite
  <2>3. ASSUME NEW x \in legs PROVE Leg(x) \in Nat
    <3>1. Volatility(close, x, t) \in Int /\ Volatility(close, x, t) > 0
      BY VolatilityIsTyped
    <3>2. PICK v \in Nat : v = Volatility(close, x, t) /\ v > 0
      BY <3>1
    <3> HIDE DEF k, legs
    <3>3. k * v \in Nat /\ k * v > 0 /\ Whole * Target \in Nat
      BY <1>2, <2>2, <3>2, Products
    <3>4. (Whole * Target) \div (k * v) \in Nat
      BY <3>3, Quotient
    <3>5. QED
      BY <3>2, <3>4
  <2> HIDE DEF Leg, legs
  <2>4. QED
    BY <2>3 DEF Amounts
<1> HIDE DEF book, legs
<1>4. QED
  BY <1>1, <1>2, <1>3, FlatIsABook, CappedIsABook

LEMMA EqualLegsIsABook ==
  ASSUME NEW selection, selection \subseteq Tickers, NEW close, NEW t \in Nat
  PROVE  EqualLegs(selection, close, t) \in Amounts
<1> DEFINE k == Cardinality(selection)
           volatility == [x \in selection |-> Volatility(close, x, t)]
           risk == SumFunction(volatility)
           leg == Min({Whole \div k, (Whole * Target) \div risk})
           book == [x \in Tickers |-> IF x \in selection THEN leg ELSE 0]
<1>1. EqualLegs(selection, close, t) =
        IF selection = {} THEN Flat
        ELSE IF ~CovarianceKnown(close, selection, t) THEN Flat
        ELSE IF risk = 0 THEN Flat
        ELSE GrossCap(book, Whole)
  BY DEF EqualLegs
<1>2. Whole \in Nat /\ Target \in Nat
  BY BookAssumption
<1>3. ASSUME selection # {}, CovarianceKnown(close, selection, t), risk # 0 PROVE book \in Amounts
  <2>1. k \in Nat /\ k > 0 /\ IsFiniteSet(selection)
    BY <1>3, TickersFinite
  <2>2. \A x \in selection : volatility[x] \in Nat
    <3>1. TAKE x \in selection
    <3>2. ReturnsUntil(close, x, t) \cap ReturnsUntil(close, x, t) = ReturnsUntil(close, x, t)
      OBVIOUS
    <3>3. Cardinality(ReturnsUntil(close, x, t)) >= Span
      BY <1>3, <3>2 DEF CovarianceKnown
    <3>4. Volatility(close, x, t) \in Nat
      BY <3>3, VolatilityIsTyped
    <3>5. QED
      BY <3>4
  <2>3. risk = SumFunctionOnSet(volatility, selection)
    BY DEF SumFunction
  <2> HIDE DEF volatility
  <2>4. risk \in Nat
    BY <2>1, <2>2, <2>3, SumNatural
  <2> HIDE DEF risk, k
  <2>5. PICK a \in Nat : a = Whole \div k
    BY <1>2, <2>1, Quotient
  <2>6. PICK b \in Nat : b = (Whole * Target) \div risk
    <3>1. Whole * Target \in Nat /\ risk > 0
      BY <1>2, <1>3, <2>4, Products
    <3>2. QED
      BY <2>4, <3>1, Quotient
  <2>7. Min({a, b}) \in {a, b}
    BY MinOfNaturals
  <2>8. leg \in Nat
    BY <2>5, <2>6, <2>7
  <2> HIDE DEF leg
  <2>9. QED
    BY <2>8 DEF Amounts
<1> HIDE DEF book, risk
<1>4. QED
  BY <1>1, <1>2, <1>3, FlatIsABook, CappedIsABook

LEMMA EqualWeightIsABook ==
  ASSUME NEW selection, selection \subseteq Tickers, NEW cap \in Nat
  PROVE  EqualWeight(selection, cap) \in Amounts
<1>1. ASSUME NEW x \in selection PROVE cap \div Cardinality(selection) \in Nat
  <2>1. Cardinality(selection) \in Nat /\ Cardinality(selection) > 0
    BY <1>1, TickersFinite
  <2>2. QED
    BY <2>1, Quotient
<1>2. QED
  BY <1>1 DEF EqualWeight, Amounts

LEMMA SizedIsABook ==
  ASSUME NEW sizing \in Sizings, NEW selection, selection \subseteq Tickers, NEW close, NEW t \in Nat
  PROVE  Sized(sizing, selection, close, t) \in Amounts
<1>1. Whole \in Nat /\ (93 * Whole) \div 100 \in Nat
  <2>1. Whole \in Nat
    BY BookAssumption
  <2>2. 93 * Whole \in Nat
    BY <2>1
  <2>3. QED
    BY <2>1, <2>2, Quotient
<1>2. CASE sizing = "inverse_vol"
  BY <1>2, VolatilityTargetIsABook DEF Sized
<1>3. CASE sizing = "equal_legs"
  BY <1>3, EqualLegsIsABook DEF Sized
<1>4. CASE sizing = "equal"
  BY <1>1, <1>4, EqualWeightIsABook DEF Sized
<1>5. CASE sizing = "buffered"
  <2>1. Sized(sizing, selection, close, t) = EqualWeight(selection, (93 * Whole) \div 100)
    BY <1>5 DEF Sized
  <2>2. PICK cap \in Nat : cap = (93 * Whole) \div 100
    BY <1>1
  <2>3. QED
    BY <2>1, <2>2, EqualWeightIsABook
<1>6. QED
  BY <1>2, <1>3, <1>4, <1>5 DEF Sizings

LEMMA BlendIsABook ==
  ASSUME NEW n \in Nat, n > 0, NEW books, books = [i \in 1..n |-> books[i]],
         \A i \in 1..n : books[i] \in Amounts
  PROVE  Blend(books) \in Amounts
<1>1. Len(books) = n /\ DOMAIN books = 1..n
  BY MadeASeq
<1>2. ASSUME NEW x \in Tickers
      PROVE  SumFunction([i \in DOMAIN books |-> books[i][x]]) \div Len(books) \in Nat
  <2> DEFINE column == [i \in 1..n |-> books[i][x]]
  <2>1. \A i \in 1..n : column[i] \in Nat
    BY DEF Amounts
  <2>2. DOMAIN column = 1..n /\ IsFiniteSet(1..n)
    BY FS_Interval
  <2>3. [i \in DOMAIN books |-> books[i][x]] = column
    BY <1>1
  <2> HIDE DEF column
  <2>4. SumFunctionOnSet(column, 1..n) \in Nat
    BY <2>1, <2>2, SumNatural
  <2>5. SumFunction(column) = SumFunctionOnSet(column, 1..n)
    BY <2>2 DEF SumFunction
  <2>6. SumFunction(column) \div n \in Nat
    BY <2>4, <2>5, Quotient
  <2>7. QED
    BY <1>1, <2>3, <2>6
<1>3. QED
  BY <1>2 DEF Blend, Amounts

\* Whatever the configuration and the panel, the weights are natural parts.
LEMMA WeightsAreABook ==
  ASSUME NEW config \in DOMAIN Rules, NEW close, NEW t \in Nat
  PROVE  Weights(config, close, t) \in Amounts
<1> DEFINE r == Rules[config]
<1>1. /\ r.rule \in Selecting \cup {"fixed", "blend"} /\ r.sizing \in Sizings
      /\ r.rule = "fixed" => r.mix \in [Tickers -> Nat]
      /\ r.rule = "blend" =>
           /\ Len(r.parts) \in Nat \ {0} /\ DOMAIN r.parts = 1..Len(r.parts)
           /\ \A i \in DOMAIN r.parts : Rules[r.parts[i]].rule \in Selecting
  BY BookAssumption
<1>2. CASE r.rule = "fixed"
  <2>1. Weights(config, close, t) = FixedAllocation(close, t, r.mix)
    BY <1>2 DEF Weights
  <2>2. FixedAllocation(close, t, r.mix) \in {r.mix, Flat}
    BY DEF FixedAllocation
  <2>3. QED
    BY <1>1, <1>2, <2>1, <2>2, FlatIsABook DEF Amounts
<1>3. CASE r.rule = "blend"
  <2> DEFINE books == [i \in DOMAIN r.parts |->
                         Sized("inverse_vol", Selection(r.parts[i], close, t), close, t)]
  <2>1. Weights(config, close, t) = Blend(books)
    BY <1>3 DEF Weights
  <2>2. PICK n \in Nat : n > 0 /\ DOMAIN r.parts = 1..n
    BY <1>1, <1>3
  <2>3. \A i \in 1..n : books[i] \in Amounts
    <3>1. TAKE i \in 1..n
    <3>2. Selection(r.parts[i], close, t) \subseteq Tickers
      BY <1>1, <1>3, <2>2, SelectsTickers
    <3>3. Sized("inverse_vol", Selection(r.parts[i], close, t), close, t) \in Amounts
      BY <3>2, SizedIsABook DEF Sizings
    <3>4. QED
      BY <2>2, <3>3
  <2>4. books = [i \in 1..n |-> books[i]]
    BY <2>2
  <2> HIDE DEF books
  <2>5. QED
    BY <2>1, <2>2, <2>3, <2>4, BlendIsABook
<1>4. CASE r.rule \in Selecting
  <2>1. r.rule # "fixed" /\ r.rule # "blend"
    BY <1>4 DEF Selecting
  <2>2. Weights(config, close, t) = Sized(r.sizing, Selection(config, close, t), close, t)
    BY <2>1 DEF Weights
  <2>3. Selection(config, close, t) \subseteq Tickers
    BY <1>4, SelectsTickers
  <2>4. QED
    BY <1>1, <2>2, <2>3, SizedIsABook
<1>5. QED
  BY <1>1, <1>2, <1>3, <1>4

-----------------------------------------------------------------------------
(* ---- The account ---------------------------------------------------- *)

LEMMA MarkIsTyped ==
  ASSUME NEW close \in Prices, NEW x \in Tickers, NEW s \in 0..ResearchEnd
  PROVE  Mark(close, x, s) \in Nat
<1> DEFINE closes == {u \in 1..s : close[x][u] > 0}
<1>1. ResearchEnd \in Nat
  BY PanelAssumption
<1>2. \A u \in 1..s : u \in Sessions
  BY <1>1 DEF Sessions
<1>3. \A u \in Sessions : close[x][u] \in Nat
  BY DEF Prices
<1>4. ASSUME closes # {} PROVE Max(closes) \in Sessions
  <2>1. IsFiniteSet(1..s)
    BY <1>1, FS_Interval
  <2>2. closes \subseteq 1..s /\ closes \subseteq Int
    OBVIOUS
  <2>3. IsFiniteSet(closes)
    BY <2>1, <2>2, FS_Subset
  <2> HIDE DEF closes
  <2>4. Max(closes) \in closes
    BY <1>4, <2>2, <2>3, MaxOfFinite
  <2>5. QED
    BY <1>2, <2>2, <2>4
<1>5. Mark(close, x, s) = IF closes = {} THEN 0 ELSE close[x][Max(closes)]
  BY DEF Mark
<1> HIDE DEF closes
<1>6. CASE closes = {}
  BY <1>5, <1>6
<1>7. CASE closes # {}
  <2>1. PICK u \in Sessions : u = Max(closes)
    BY <1>4, <1>7
  <2>2. Mark(close, x, s) = close[x][u]
    BY <1>5, <1>7, <2>1
  <2>3. QED
    BY <1>3, <2>2
<1>8. QED
  BY <1>6, <1>7

(* ---- The fills of an open ------------------------------------------------ *)

LEMMA QuotesAreTyped ==
  ASSUME NEW quote \in Nat
  PROVE  Paid(quote) \in Nat /\ Paid(quote) >= quote /\ Got(quote) \in Nat
<1>1. CostParts \in Nat /\ CostParts > 0
  BY LedgerAssumption
<1>2. \A q, c \in Nat : c > 0 => q \div c \in Nat /\ q \div c <= q
  OBVIOUS
<1>3. quote \div CostParts \in Nat /\ quote \div CostParts <= quote
  BY <1>1, <1>2
<1>4. QED
  BY <1>3 DEF Paid, Got

LEMMA Divided ==
  ASSUME NEW a \in Nat, NEW n \in Nat, n > 0
  PROVE  /\ a \div n \in Nat /\ (a \div n) * n <= a
OBVIOUS

LEMMA Monotone ==
  ASSUME NEW a \in Int, NEW b \in Int, NEW c \in Nat
  PROVE  /\ a <= b => a * c <= b * c
         /\ (c > 0 /\ a < b) => a * c < b * c
         /\ (c > 0 /\ a * c <= b * c) => a <= b
OBVIOUS

LEMMA LargerThanNothing ==
  ASSUME NEW a \in Int
  PROVE  Max({a, 0}) \in Nat /\ (Max({a, 0}) # 0 => Max({a, 0}) = a)
<1>1. IsFiniteSet({a, 0})
  <2>1. IsFiniteSet({a})
    BY FS_Singleton
  <2>2. {a, 0} = {a} \cup {0}
    OBVIOUS
  <2>3. QED
    BY <2>1, <2>2, FS_AddElement
<1>2. Max({a, 0}) \in {a, 0} /\ \A x \in {a, 0} : x <= Max({a, 0})
  BY <1>1, MaxOfFinite
<1>3. QED
  BY <1>2

\* A scaled order buys no more than was ordered, and less when the funds fall short.
LEMMA ScaledOrder ==
  ASSUME NEW d \in Nat, d > 0, NEW notional \in Nat, notional > 0, NEW funds \in Nat
  PROVE  /\ Scaled(d, notional, funds) \in Nat /\ Scaled(d, notional, funds) <= d
         /\ Scaled(d, notional, funds) = d <=> notional <= funds
         /\ notional > funds => Scaled(d, notional, funds) * notional <= d * funds
<1>1. CASE notional <= funds
  BY <1>1 DEF Scaled
<1>2. CASE notional > funds
  <2> DEFINE k == (d * funds) \div notional
  <2>1. Scaled(d, notional, funds) = k
    BY <1>2 DEF Scaled
  <2>2. d * funds \in Nat
    BY Products
  <2>3. k \in Nat /\ k * notional <= d * funds
    BY <2>2, Divided
  <2> HIDE DEF k
  <2>4. k < d
    <3>1. SUFFICES ASSUME d <= k PROVE FALSE
      BY <2>3
    <3>2. d * notional <= k * notional
      BY <2>3, <3>1, Monotone
    <3>3. funds * d < notional * d
      BY <1>2, Monotone
    <3>4. funds * d = d * funds /\ notional * d = d * notional /\ d * notional \in Nat
          /\ k * notional \in Nat
      BY <2>3
    <3>5. QED
      BY <2>2, <2>3, <3>2, <3>3, <3>4
  <2>5. QED
    BY <1>2, <2>1, <2>3, <2>4
<1>3. QED
  BY <1>1, <1>2

\* What T, q and p say of the fills of the orders delta.
Fair(T, q, p, delta) ==
  /\ T \subseteq Tickers /\ q \in [Tickers -> Int] /\ p \in [Tickers -> Nat]
  /\ \A x \in T : /\ delta[x] # 0
                  /\ delta[x] < 0 => q[x] = delta[x]
                  /\ delta[x] > 0 => 0 <= q[x] /\ q[x] <= delta[x]
  /\ \A x, y \in T : delta[x] > 0 /\ delta[y] > 0 /\ q[x] = delta[x] => q[y] = delta[y]

Spent(q, p) == [x \in Tickers |-> q[x] * p[x] + Commission]

FillsIn(T, q, p) == {Fill(x, q[x], p[x]) : x \in T}

LEMMA TradedFairly ==
  ASSUME cash \in Int, NEW delta \in [Tickers -> Int], NEW priced, priced \subseteq Tickers,
         NEW quotes \in [Tickers -> Nat]
  PROVE  \E T, q, p :
           /\ Traded(delta, priced, quotes) = FillsIn(T, q, p) /\ Fair(T, q, p, delta)
           /\ (\E x \in T : delta[x] > 0) => SumFunctionOnSet(Spent(q, p), T) <= cash
<1> DEFINE orders == {x \in priced : delta[x] # 0 /\ quotes[x] > 0}
           sells == {x \in orders : delta[x] < 0}
           buys == orders \ sells
           sold == [x \in sells |-> Got(quotes[x]) * (-delta[x]) - Commission]
           cost == [x \in buys |-> Paid(quotes[x]) * delta[x]]
           afterSells == cash + SumFunction(sold)
           notional == SumFunction(cost)
           funds == Affordable(afterSells, Cardinality(buys))
           q == [x \in Tickers |-> IF x \in sells THEN delta[x]
                                   ELSE IF x \in buys THEN Scaled(delta[x], notional, funds) ELSE 0]
           p == [x \in Tickers |-> IF x \in sells THEN Got(quotes[x]) ELSE Paid(quotes[x])]
           T == IF funds = 0 THEN sells ELSE orders
<1>1. Traded(delta, priced, quotes) =
        {Fill(x, delta[x], Got(quotes[x])) : x \in sells}
          \cup IF funds = 0 THEN {}
               ELSE {Fill(x, Scaled(delta[x], notional, funds), Paid(quotes[x])) : x \in buys}
  BY DEF Traded, FillsOf
<1>2. /\ sells \subseteq Tickers /\ buys \subseteq Tickers /\ orders = sells \cup buys
      /\ sells \cap buys = {}
  OBVIOUS
<1>3. /\ \A x \in Tickers : delta[x] \in Int /\ quotes[x] \in Nat
      /\ \A x \in sells : delta[x] < 0
      /\ \A x \in buys : delta[x] \in Nat /\ delta[x] > 0 /\ quotes[x] > 0
  OBVIOUS
<1>4. \A x \in Tickers : Paid(quotes[x]) \in Nat /\ Paid(quotes[x]) >= quotes[x] /\ Got(quotes[x]) \in Nat
  BY <1>3, QuotesAreTyped
<1>5. /\ IsFiniteSet(sells) /\ IsFiniteSet(buys)
      /\ Cardinality(buys) \in Nat /\ (buys # {} => Cardinality(buys) > 0)
  BY <1>2, TickersFinite
<1>6. Commission \in Nat
  BY LedgerAssumption
<1>7. \A x \in sells : sold[x] = Got(quotes[x]) * (-delta[x]) - Commission
  OBVIOUS
<1>8. \A x \in buys : cost[x] = Paid(quotes[x]) * delta[x]
  OBVIOUS
<1>9. SumFunction(sold) = SumFunctionOnSet(sold, sells) /\ notional = SumFunctionOnSet(cost, buys)
  BY DEF SumFunction
<1> DEFINE worth == SumFunctionOnSet(sold, sells)
<1>10. afterSells = cash + worth
  BY <1>9
<1>11. \A x \in Tickers :
         /\ x \in sells => q[x] = delta[x] /\ p[x] = Got(quotes[x])
         /\ x \in buys => q[x] = Scaled(delta[x], notional, funds) /\ p[x] = Paid(quotes[x])
         /\ x \notin sells \cup buys => q[x] = 0 /\ p[x] = Paid(quotes[x])
  BY <1>2
<1>a. q = [x \in Tickers |-> q[x]] /\ p = [x \in Tickers |-> p[x]]
  OBVIOUS
<1>b. T = IF funds = 0 THEN sells ELSE sells \cup buys
  OBVIOUS
<1> HIDE DEF orders, sells, buys, sold, cost, q, p, T
<1>12. worth \in Int
  <2>1. \A x \in sells : sold[x] \in Int
    BY <1>2, <1>3, <1>4, <1>6, <1>7
  <2>2. QED
    BY <1>5, <2>1, SumType
<1>13. \A x \in buys : cost[x] \in Nat /\ cost[x] > 0
  <2>1. TAKE x \in buys
  <2>2. Paid(quotes[x]) \in Nat /\ Paid(quotes[x]) > 0 /\ delta[x] \in Nat /\ delta[x] > 0
    BY <1>2, <1>3, <1>4
  <2>3. QED
    BY <1>8, <2>2, Products
<1>14. notional \in Nat /\ (buys # {} => notional > 0)
  <2>1. SumFunctionOnSet(cost, buys) \in Nat
    BY <1>5, <1>13, SumNatural
  <2>2. ASSUME NEW x \in buys PROVE SumFunctionOnSet(cost, buys) > 0
    <3>1. SumFunctionOnSet(cost, buys) = cost[x] + SumFunctionOnSet(cost, buys \ {x})
      <4>1. \A y \in buys : cost[y] \in Int
        BY <1>13
      <4>2. QED
        BY <1>5, <4>1, SumElement
    <3>2. SumFunctionOnSet(cost, buys \ {x}) \in Nat
      <4>1. IsFiniteSet(buys \ {x})
        BY <1>5, FS_RemoveElement
      <4>2. QED
        BY <1>13, <4>1, SumNatural
    <3>3. cost[x] \in Nat /\ cost[x] > 0
      BY <1>13
    <3>4. QED
      BY <3>1, <3>2, <3>3
  <2>3. QED
    BY <1>9, <2>1, <2>2
<1>15. funds \in Nat /\ (funds # 0 => funds = cash + worth - Commission * Cardinality(buys))
  <2>1. Commission * Cardinality(buys) \in Nat
    BY <1>5, <1>6, Products
  <2>2. afterSells - Commission * Cardinality(buys) \in Int
    BY <1>10, <1>12, <2>1
  <2>3. funds = Max({afterSells - Commission * Cardinality(buys), 0})
    BY DEF Affordable
  <2> HIDE DEF funds, afterSells, worth
  <2>4. PICK fee \in Nat : fee = Commission * Cardinality(buys)
    BY <2>1
  <2>5. PICK a \in Int : a = cash + worth - fee
    BY <1>12
  <2>6. funds = Max({a, 0})
    <3>1. funds = Max({afterSells - fee, 0})
      BY <2>3, <2>4
    <3>2. afterSells - fee = a
      BY <1>10, <1>12, <2>5
    <3>3. QED
      BY <3>1, <3>2
  <2>7. Max({a, 0}) \in Nat /\ (Max({a, 0}) # 0 => Max({a, 0}) = a)
    BY LargerThanNothing
  <2>8. funds \in Nat /\ (funds # 0 => funds = a)
    BY <2>6, <2>7
  <2>9. QED
    BY <2>4, <2>5, <2>8
<1> HIDE DEF notional, afterSells, funds, worth
<1>16. \A x \in buys :
         /\ q[x] \in Nat /\ q[x] <= delta[x]
         /\ q[x] = delta[x] <=> notional <= funds
         /\ notional > funds => q[x] * notional <= delta[x] * funds
  <2>1. TAKE x \in buys
  <2>2. delta[x] \in Nat /\ delta[x] > 0 /\ notional > 0 /\ q[x] = Scaled(delta[x], notional, funds)
    BY <1>2, <1>3, <1>11, <1>14
  <2>3. PICK d \in Nat : d = delta[x] /\ d > 0
    BY <2>2
  <2>4. PICK m \in Nat : m = notional /\ m > 0
    BY <1>14, <2>2
  <2>5. PICK u \in Nat : u = funds
    BY <1>15
  <2>6. /\ Scaled(d, m, u) \in Nat /\ Scaled(d, m, u) <= d
        /\ Scaled(d, m, u) = d <=> m <= u
        /\ m > u => Scaled(d, m, u) * m <= d * u
    BY <2>3, <2>4, ScaledOrder
  <2>7. QED
    BY <2>2, <2>3, <2>4, <2>5, <2>6
<1>17. q \in [Tickers -> Int] /\ p \in [Tickers -> Nat]
  <2>1. ASSUME NEW x \in Tickers PROVE q[x] \in Int /\ p[x] \in Nat
    BY <1>3, <1>4, <1>11, <1>16
  <2>2. QED
    BY <1>a, <2>1
<1>18. Fair(T, q, p, delta)
  <2>1. T \subseteq sells \cup buys /\ T \subseteq Tickers
    BY <1>2, <1>b
  <2>2. ASSUME NEW x \in T
        PROVE  /\ delta[x] # 0
               /\ delta[x] < 0 => q[x] = delta[x]
               /\ delta[x] > 0 => 0 <= q[x] /\ q[x] <= delta[x]
    <3>1. CASE x \in sells
      BY <1>2, <1>3, <1>11, <3>1
    <3>2. CASE x \in buys
      BY <1>2, <1>3, <1>16, <3>2
    <3>3. QED
      BY <2>1, <3>1, <3>2
  <2>3. ASSUME NEW x \in T, NEW y \in T, delta[x] > 0, delta[y] > 0, q[x] = delta[x]
        PROVE  q[y] = delta[y]
    <3>1. x \in buys /\ y \in buys
      BY <1>2, <1>3, <2>1, <2>3
    <3>2. QED
      BY <1>16, <2>3, <3>1
  <2>4. QED
    BY <1>17, <2>1, <2>2, <2>3 DEF Fair
<1>19. Traded(delta, priced, quotes) = FillsIn(T, q, p)
  <2>1. {Fill(x, delta[x], Got(quotes[x])) : x \in sells} = {Fill(x, q[x], p[x]) : x \in sells}
    BY <1>2, <1>11
  <2>2. {Fill(x, Scaled(delta[x], notional, funds), Paid(quotes[x])) : x \in buys}
          = {Fill(x, q[x], p[x]) : x \in buys}
    BY <1>2, <1>11
  <2>3. FillsIn(sells \cup buys, q, p)
          = {Fill(x, q[x], p[x]) : x \in sells} \cup {Fill(x, q[x], p[x]) : x \in buys}
    <3>1. ASSUME NEW f
          PROVE  f \in FillsIn(sells \cup buys, q, p)
                   <=> \/ f \in {Fill(x, q[x], p[x]) : x \in sells}
                       \/ f \in {Fill(x, q[x], p[x]) : x \in buys}
      BY Zenon DEF FillsIn
    <3>2. QED
      BY <3>1
  <2>4. FillsIn(sells, q, p) = {Fill(x, q[x], p[x]) : x \in sells}
    BY DEF FillsIn
  <2>5. QED
    BY <1>1, <1>b, <2>1, <2>2, <2>3, <2>4
<1>20. ASSUME NEW b \in T, delta[b] > 0
       PROVE  SumFunctionOnSet(Spent(q, p), T) <= cash
  <2> DEFINE spent == Spent(q, p)
             price == [x \in buys |-> q[x] * p[x]]
             fees == [x \in buys |-> Commission]
             n == Cardinality(buys)
  <2>1. funds # 0 /\ T = sells \cup buys /\ buys # {}
    BY <1>2, <1>3, <1>20, <1>b
  <2>2. \A x \in Tickers : spent[x] = q[x] * p[x] + Commission /\ spent[x] \in Int /\ q[x] * p[x] \in Int
    BY <1>6, <1>17 DEF Spent
  <2>3. \A x \in buys : price[x] = q[x] * p[x] /\ fees[x] = Commission
    OBVIOUS
  <2> HIDE DEF spent, price, fees
  <2>4. SumFunctionOnSet(spent, T) = SumFunctionOnSet(spent, sells) + SumFunctionOnSet(spent, buys)
    <3>1. \A x \in sells \cup buys : spent[x] \in Int
      BY <1>2, <2>2
    <3>2. QED
      BY <1>2, <1>5, <2>1, <3>1, SumUnion
  <2>5. SumFunctionOnSet(spent, sells) = -worth
    <3>1. \A x \in sells : sold[x] \in Int /\ spent[x] = (-1) * sold[x]
      <4>1. TAKE x \in sells
      <4>2. Got(quotes[x]) \in Nat /\ delta[x] \in Int /\ q[x] = delta[x] /\ p[x] = Got(quotes[x])
        BY <1>2, <1>3, <1>4, <1>11
      <4>3. \A g \in Nat, d, c \in Int : g * (-d) - c \in Int /\ d * g + c = (-1) * (g * (-d) - c)
        OBVIOUS
      <4>4. QED
        BY <1>2, <1>6, <1>7, <2>2, <4>2, <4>3
    <3>2. SumFunctionOnSet(spent, sells) = (-1) * SumFunctionOnSet(sold, sells)
      BY <1>5, <3>1, SumScale
    <3>3. QED
      BY <1>12, <3>2 DEF worth
  <2>6. SumFunctionOnSet(spent, buys) = SumFunctionOnSet(price, buys) + SumFunctionOnSet(fees, buys)
    <3>1. \A x \in buys : price[x] \in Int /\ fees[x] \in Int /\ spent[x] = price[x] + fees[x]
      BY <1>2, <1>6, <2>2, <2>3
    <3>2. QED
      BY <1>5, <3>1, SumAdd
  <2>7. SumFunctionOnSet(fees, buys) = Commission * n
    BY <1>5, <1>6, <2>3, SumConstant
  <2>8. \A x \in buys : price[x] \in Nat
    <3>1. TAKE x \in buys
    <3>2. q[x] \in Nat /\ p[x] \in Nat
      BY <1>2, <1>16, <1>17
    <3>3. QED
      BY <2>3, <3>2, Products
  <2>9. SumFunctionOnSet(price, buys) \in Nat
    BY <1>5, <2>8, SumNatural
  <2>10. SumFunctionOnSet(price, buys) <= funds
    <3>1. CASE notional <= funds
      <4>1. \A x \in buys : price[x] = cost[x]
        <5>1. TAKE x \in buys
        <5>2. q[x] = delta[x] /\ p[x] = Paid(quotes[x]) /\ delta[x] \in Nat /\ Paid(quotes[x]) \in Nat
          BY <1>2, <1>3, <1>4, <1>11, <1>16, <3>1
        <5>3. \A d, g \in Nat : d * g = g * d
          OBVIOUS
        <5>4. QED
          BY <1>8, <2>3, <5>2, <5>3
      <4>2. SumFunctionOnSet(price, buys) = SumFunctionOnSet(cost, buys)
        BY <1>5, <4>1, SumSame
      <4>3. QED
        BY <1>9, <3>1, <4>2 DEF notional
    <3>2. CASE notional > funds
      <4> DEFINE scaledPrice == [x \in buys |-> notional * price[x]]
                 scaledCost == [x \in buys |-> funds * cost[x]]
      <4>1. \A x \in buys : scaledPrice[x] = notional * price[x] /\ scaledCost[x] = funds * cost[x]
        OBVIOUS
      <4> HIDE DEF scaledPrice, scaledCost
      <4>2. \A x \in buys : scaledPrice[x] \in Int /\ scaledCost[x] \in Int /\ scaledPrice[x] <= scaledCost[x]
        <5>1. TAKE x \in buys
        <5>2. /\ q[x] \in Nat /\ delta[x] \in Nat /\ p[x] \in Nat
              /\ p[x] = Paid(quotes[x]) /\ q[x] * notional <= delta[x] * funds
          <6>1. x \in Tickers /\ delta[x] \in Nat
            BY <1>2, <1>3
          <6>2. p[x] \in Nat /\ p[x] = Paid(quotes[x])
            BY <1>11, <1>17, <6>1
          <6>3. q[x] \in Nat /\ q[x] * notional <= delta[x] * funds
            BY <1>16, <3>2
          <6>4. QED
            BY <6>1, <6>2, <6>3
        <5>3. (q[x] * notional) * p[x] <= (delta[x] * funds) * p[x]
          <6>1. q[x] * notional \in Int /\ delta[x] * funds \in Int
            BY <1>14, <1>15, <5>2
          <6>2. QED
            BY <5>2, <6>1, Monotone
        <5>4. \A i, j, k \in Nat : (i * j) * k = j * (i * k) /\ (i * j) * k = j * (k * i)
          OBVIOUS
        <5>5. /\ (q[x] * notional) * p[x] = notional * (q[x] * p[x])
              /\ (delta[x] * funds) * p[x] = funds * (p[x] * delta[x])
          <6>1. PICK i \in Nat : i = q[x]
            BY <5>2
          <6>2. PICK d \in Nat : d = delta[x]
            BY <5>2
          <6>3. PICK k \in Nat : k = p[x]
            BY <5>2
          <6>4. PICK m \in Nat : m = notional
            BY <1>14
          <6>5. PICK u \in Nat : u = funds
            BY <1>15
          <6>6. (i * m) * k = m * (i * k) /\ (d * u) * k = u * (k * d)
            BY ONLY <5>4
          <6>7. QED
            BY ONLY <6>1, <6>2, <6>3, <6>4, <6>5, <6>6
        <5>6. cost[x] = p[x] * delta[x] /\ price[x] = q[x] * p[x]
          BY <1>8, <2>3, <5>2
        <5>7. notional * price[x] \in Int /\ funds * cost[x] \in Int
          BY <1>13, <1>14, <1>15, <2>8
        <5>8. QED
          BY <4>1, <5>3, <5>5, <5>6, <5>7
      <4>3. SumFunctionOnSet(scaledPrice, buys) <= SumFunctionOnSet(scaledCost, buys)
        BY <1>5, <4>2, SumOrder
      <4>4. SumFunctionOnSet(scaledPrice, buys) = notional * SumFunctionOnSet(price, buys)
        <5>1. notional \in Int /\ \A x \in buys : price[x] \in Int /\ scaledPrice[x] = notional * price[x]
          BY <1>14, <2>8, <4>1
        <5>2. QED
          BY <1>5, <5>1, SumScale
      <4>5. SumFunctionOnSet(scaledCost, buys) = funds * SumFunctionOnSet(cost, buys)
        <5>1. funds \in Int /\ \A x \in buys : cost[x] \in Int /\ scaledCost[x] = funds * cost[x]
          BY <1>13, <1>15, <4>1
        <5>2. QED
          BY <1>5, <5>1, SumScale
      <4>6. SumFunctionOnSet(cost, buys) = notional
        BY <1>9 DEF notional
      <4>7. PICK c \in Nat : c = SumFunctionOnSet(price, buys)
        BY <2>9
      <4>8. notional * c <= funds * notional /\ notional > 0
        BY <1>14, <2>1, <4>3, <4>4, <4>5, <4>6, <4>7
      <4>9. c * notional <= funds * notional
        BY <1>14, <4>8
      <4>10. c <= funds
        BY <1>14, <1>15, <4>8, <4>9, Monotone
      <4>11. QED
        BY <4>7, <4>10
    <3>3. QED
      BY <1>14, <1>15, <3>1, <3>2
  <2>11. PICK c \in Nat : c = SumFunctionOnSet(price, buys)
    BY <2>9
  <2>12. PICK fee \in Nat : fee = Commission * n
    BY <1>5, <1>6, Products
  <2>13. SumFunctionOnSet(spent, T) = (-worth) + (c + fee)
    BY <2>4, <2>5, <2>6, <2>7, <2>11, <2>12
  <2>14. funds = cash + worth - fee /\ c <= funds
    BY <1>15, <2>1, <2>10, <2>11, <2>12
  <2>15. (-worth) + (c + fee) <= cash
    BY <1>12, <1>15, <2>14
  <2>16. QED
    BY <2>13, <2>15 DEF spent
<1>21. QED
  BY <1>18, <1>19, <1>20

(* ---- What the fills of an open come to ---------------------------------- *)

LEMMA SumOfFills ==
  ASSUME NEW T, T \subseteq Tickers, NEW q, NEW p, NEW h, DOMAIN h = FillsIn(T, q, p),
         NEW f, \A x \in T : f[x] \in Int /\ h[Fill(x, q[x], p[x])] = f[x]
  PROVE  /\ SumFunction(h) = SumFunctionOnSet(f, T)
         /\ IsFiniteSet(DOMAIN h) /\ Cardinality(DOMAIN h) = Cardinality(T)
<1> DEFINE g == [x \in T |-> Fill(x, q[x], p[x])]
<1>1. \A x, y \in T : g[x] = g[y] => x = y
  BY DEF Fill
<1>2. \A x \in T : g[x] = Fill(x, q[x], p[x])
  OBVIOUS
<1> HIDE DEF g
<1>3. IsFiniteSet(T)
  BY TickersFinite
<1>4. \A x \in T : f[x] \in Int /\ h[g[x]] = f[x]
  BY <1>2
<1>5. g \in Bijection(T, DOMAIN h)
  BY <1>1 DEF g, FillsIn, Bijection, Injection, Surjection, IsInjective
<1>6. /\ SumFunctionOnSet(h, DOMAIN h) = SumFunctionOnSet(f, T)
      /\ IsFiniteSet(DOMAIN h) /\ Cardinality(DOMAIN h) = Cardinality(T)
  BY <1>3, <1>4, <1>5, SumImage
<1>7. QED
  BY <1>6 DEF SumFunction

LEMMA FillsAreNamed ==
  ASSUME NEW T, NEW q, NEW p, NEW f \in FillsIn(T, q, p)
  PROVE  \E x \in T : f.ticker = x /\ f.quantity = q[x] /\ f.price = p[x]
BY DEF FillsIn, Fill

LEMMA FillsMove ==
  ASSUME NEW T, T \subseteq Tickers, NEW q \in [Tickers -> Int], NEW p, NEW x \in Tickers
  PROVE  SumFunction([f \in {g \in FillsIn(T, q, p) : g.ticker = x} |-> f.quantity])
           = IF x \in T THEN q[x] ELSE 0
<1> DEFINE mine == {g \in FillsIn(T, q, p) : g.ticker = x}
           h == [f \in mine |-> f.quantity]
           U == T \cap {x}
<1>1. mine = FillsIn(U, q, p)
  <2>1. ASSUME NEW f PROVE f \in mine <=> f \in FillsIn(U, q, p)
    BY DEF FillsIn, Fill
  <2>2. QED
    BY <2>1
<1>2. DOMAIN h = FillsIn(U, q, p)
  BY <1>1
<1>3. \A y \in U : q[y] \in Int /\ h[Fill(y, q[y], p[y])] = q[y]
  <2>1. TAKE y \in U
  <2>2. Fill(y, q[y], p[y]) \in mine
    BY <1>1 DEF FillsIn
  <2>3. QED
    BY <2>2 DEF Fill
<1>4. U \subseteq Tickers
  OBVIOUS
<1> HIDE DEF h, U
<1>5. SumFunction(h) = SumFunctionOnSet(q, U)
  BY SMTT(60), <1>2, <1>3, <1>4, SumOfFills
<1>6. CASE x \in T
  <2>1. U = {x} /\ IsFiniteSet({x}) /\ \A y \in {x} : q[y] \in Int
    BY <1>6, FS_Singleton DEF U
  <2>2. SumFunctionOnSet(q, {x}) = q[x] + SumFunctionOnSet(q, {x} \ {x})
    BY <2>1, SumElement
  <2>3. {x} \ {x} = {}
    OBVIOUS
  <2>4. SumFunctionOnSet(q, {x} \ {x}) = 0
    BY <2>3, SumEmpty
  <2>5. QED
    BY <1>5, <1>6, <2>1, <2>2, <2>4 DEF h
<1>7. CASE x \notin T
  <2>1. U = {}
    BY <1>7 DEF U
  <2>2. QED
    BY <1>5, <1>7, <2>1, SumEmpty DEF h
<1>8. QED
  BY <1>6, <1>7

(* ---- The books balance --------------------------------------------------- *)

Held(sh, T, q) == [x \in Tickers |-> sh[x] + (IF x \in T THEN q[x] ELSE 0)]
WorthAt(sh, mark) == [x \in Tickers |-> sh[x] * mark[x]]
Moves(sh, old, new) == [x \in Tickers |-> sh[x] * (new[x] - old[x])]
Gains(q, p, new) == [x \in Tickers |-> q[x] * (new[x] - p[x])]

\* What is owned after the fills, at the new marks, is what was owned at the old
\* ones, what it moved, what the fills gained and what they cost.
LEMMA BooksBalance ==
  ASSUME NEW T, T \subseteq Tickers, NEW q \in [Tickers -> Int], NEW p \in [Tickers -> Nat],
         NEW sh \in [Tickers -> Int], NEW old \in [Tickers -> Int], NEW new \in [Tickers -> Int]
  PROVE  /\ SumFunctionOnSet(WorthAt(Held(sh, T, q), new), Tickers) + Commission * Cardinality(T)
              = SumFunctionOnSet(WorthAt(sh, old), Tickers) + SumFunctionOnSet(Moves(sh, old, new), Tickers)
                  + SumFunctionOnSet(Gains(q, p, new), T) + SumFunctionOnSet(Spent(q, p), T)
         /\ SumFunctionOnSet(WorthAt(Held(sh, T, q), new), Tickers) \in Int
         /\ SumFunctionOnSet(WorthAt(sh, old), Tickers) \in Int
         /\ SumFunctionOnSet(Moves(sh, old, new), Tickers) \in Int
         /\ SumFunctionOnSet(Gains(q, p, new), T) \in Int
         /\ SumFunctionOnSet(Spent(q, p), T) \in Int
         /\ Commission * Cardinality(T) \in Int
<1> DEFINE D == WorthAt(Held(sh, T, q), new)
           A == WorthAt(sh, old)
           B == Moves(sh, old, new)
           E == Gains(q, p, new)
           F == Spent(q, p)
           C == [x \in Tickers |-> Commission]
           E0 == [x \in Tickers |-> IF x \in T THEN E[x] ELSE 0]
           F0 == [x \in Tickers |-> IF x \in T THEN F[x] ELSE 0]
           C0 == [x \in Tickers |-> IF x \in T THEN C[x] ELSE 0]
           DC == [x \in Tickers |-> D[x] + C0[x]]
           AB == [x \in Tickers |-> A[x] + B[x]]
           EF == [x \in Tickers |-> E0[x] + F0[x]]
<1>1. Commission \in Int
  BY LedgerAssumption
<1>2. ASSUME NEW x \in Tickers
      PROVE  /\ A[x] = sh[x] * old[x] /\ B[x] = sh[x] * (new[x] - old[x])
             /\ E[x] = q[x] * (new[x] - p[x]) /\ F[x] = q[x] * p[x] + Commission /\ C[x] = Commission
             /\ x \in T => D[x] = (sh[x] + q[x]) * new[x]
             /\ x \notin T => D[x] = sh[x] * new[x]
             /\ x \in T => E0[x] = E[x] /\ F0[x] = F[x] /\ C0[x] = C[x]
             /\ x \notin T => E0[x] = 0 /\ F0[x] = 0 /\ C0[x] = 0
             /\ DC[x] = D[x] + C0[x] /\ AB[x] = A[x] + B[x] /\ EF[x] = E0[x] + F0[x]
             /\ sh[x] \in Int /\ old[x] \in Int /\ new[x] \in Int /\ q[x] \in Int /\ p[x] \in Int
  <2>1. sh[x] + 0 = sh[x]
    OBVIOUS
  <2>2. QED
    BY <2>1 DEF WorthAt, Held, Moves, Gains, Spent
<1> HIDE DEF D, A, B, E, F, C, E0, F0, C0, DC, AB, EF
<1>3. \A s, o, n, y, z, c \in Int :
         /\ s * o \in Int /\ s * (n - o) \in Int /\ y * (n - z) \in Int /\ y * z + c \in Int
         /\ (s + y) * n \in Int /\ s * n \in Int
         /\ s * n = s * o + s * (n - o)
         /\ (s + y) * n + c = (s * o + s * (n - o)) + (y * (n - z) + (y * z + c))
  OBVIOUS
<1>4. ASSUME NEW x \in Tickers
      PROVE  /\ A[x] \in Int /\ B[x] \in Int /\ E[x] \in Int /\ F[x] \in Int /\ C[x] \in Int /\ D[x] \in Int
             /\ x \in T => D[x] + C[x] = (A[x] + B[x]) + (E[x] + F[x])
             /\ x \notin T => D[x] = A[x] + B[x]
  <2>1. PICK s \in Int : s = sh[x]
    BY <1>2
  <2>2. PICK o \in Int : o = old[x]
    BY <1>2
  <2>3. PICK n \in Int : n = new[x]
    BY <1>2
  <2>4. PICK y \in Int : y = q[x]
    BY <1>2
  <2>5. PICK z \in Int : z = p[x]
    BY <1>2
  <2>6. /\ A[x] = s * o /\ B[x] = s * (n - o) /\ E[x] = y * (n - z) /\ F[x] = y * z + Commission
        /\ C[x] = Commission
        /\ x \in T => D[x] = (s + y) * n
        /\ x \notin T => D[x] = s * n
    BY <1>2, <2>1, <2>2, <2>3, <2>4, <2>5
  <2>7. /\ s * o \in Int /\ s * (n - o) \in Int /\ y * (n - z) \in Int /\ y * z + Commission \in Int
        /\ (s + y) * n \in Int /\ s * n \in Int
        /\ s * n = s * o + s * (n - o)
        /\ (s + y) * n + Commission = (s * o + s * (n - o)) + (y * (n - z) + (y * z + Commission))
    BY <1>1, <1>3
  <2>8. QED
    BY <1>1, <2>6, <2>7
<1>5. ASSUME NEW x \in Tickers
      PROVE  /\ E0[x] \in Int /\ F0[x] \in Int /\ C0[x] \in Int /\ DC[x] \in Int /\ AB[x] \in Int /\ EF[x] \in Int
             /\ DC[x] = D[x] + C0[x] /\ AB[x] = A[x] + B[x] /\ EF[x] = E0[x] + F0[x] /\ DC[x] = AB[x] + EF[x]
  <2>1. CASE x \in T
    BY <1>2, <1>4, <2>1
  <2>2. CASE x \notin T
    BY <1>2, <1>4, <2>2
  <2>3. QED
    BY <2>1, <2>2
<1>6. IsFiniteSet(Tickers) /\ IsFiniteSet(T)
  BY TickersAreFinite, TickersFinite
<1>7. SumFunctionOnSet(DC, Tickers) = SumFunctionOnSet(D, Tickers) + SumFunctionOnSet(C0, Tickers)
  BY <1>4, <1>5, <1>6, SumAdd
<1>8. SumFunctionOnSet(AB, Tickers) = SumFunctionOnSet(A, Tickers) + SumFunctionOnSet(B, Tickers)
  BY <1>4, <1>5, <1>6, SumAdd
<1>9. SumFunctionOnSet(EF, Tickers) = SumFunctionOnSet(E0, Tickers) + SumFunctionOnSet(F0, Tickers)
  BY <1>5, <1>6, SumAdd
<1>10. SumFunctionOnSet(DC, Tickers) = SumFunctionOnSet(AB, Tickers) + SumFunctionOnSet(EF, Tickers)
  BY <1>5, <1>6, SumAdd
<1>11. /\ SumFunctionOnSet(E0, Tickers) = SumFunctionOnSet(E, T)
       /\ SumFunctionOnSet(F0, Tickers) = SumFunctionOnSet(F, T)
       /\ SumFunctionOnSet(C0, Tickers) = SumFunctionOnSet(C, T)
  <2>1. T \in SUBSET Tickers
    OBVIOUS
  <2>2. /\ \A x \in T : E[x] \in Int /\ E0[x] = E[x]
        /\ \A x \in T : F[x] \in Int /\ F0[x] = F[x]
        /\ \A x \in T : C[x] \in Int /\ C0[x] = C[x]
        /\ \A x \in Tickers \ T : E0[x] = 0 /\ F0[x] = 0 /\ C0[x] = 0
    BY <1>2, <1>4
  <2>3. SumFunctionOnSet(E0, Tickers) = SumFunctionOnSet(E, T)
    BY <1>6, <2>1, <2>2, SumPart
  <2>4. SumFunctionOnSet(F0, Tickers) = SumFunctionOnSet(F, T)
    BY <1>6, <2>1, <2>2, SumPart
  <2>5. SumFunctionOnSet(C0, Tickers) = SumFunctionOnSet(C, T)
    BY <1>6, <2>1, <2>2, SumPart
  <2>6. QED
    BY <2>3, <2>4, <2>5
<1>12. SumFunctionOnSet(C, T) = Commission * Cardinality(T)
  BY <1>1, <1>2, <1>6, SumConstant
<1>13. /\ SumFunctionOnSet(D, Tickers) \in Int /\ SumFunctionOnSet(A, Tickers) \in Int
       /\ SumFunctionOnSet(B, Tickers) \in Int /\ SumFunctionOnSet(E, T) \in Int
       /\ SumFunctionOnSet(F, T) \in Int /\ SumFunctionOnSet(C, T) \in Int
  <2>1. \A x \in T : E[x] \in Int /\ F[x] \in Int /\ C[x] \in Int
    BY <1>4
  <2>2. SumFunctionOnSet(E, T) \in Int /\ SumFunctionOnSet(F, T) \in Int /\ SumFunctionOnSet(C, T) \in Int
    BY <1>6, <2>1, SumType
  <2>3. /\ SumFunctionOnSet(D, Tickers) \in Int /\ SumFunctionOnSet(A, Tickers) \in Int
        /\ SumFunctionOnSet(B, Tickers) \in Int
    BY <1>4, <1>6, SumType
  <2>4. QED
    BY <2>2, <2>3
<1> DEFINE d == SumFunctionOnSet(D, Tickers)
           a == SumFunctionOnSet(A, Tickers)
           b == SumFunctionOnSet(B, Tickers)
           e == SumFunctionOnSet(E, T)
           f == SumFunctionOnSet(F, T)
           c == SumFunctionOnSet(C, T)
<1>14. d + c = (a + b) + (e + f)
  BY <1>7, <1>8, <1>9, <1>10, <1>11
<1>15. d \in Int /\ a \in Int /\ b \in Int /\ e \in Int /\ f \in Int /\ c \in Int
  BY <1>13
<1>16. c = Commission * Cardinality(T)
  BY <1>12
<1> HIDE DEF d, a, b, e, f, c
<1>17. d + c = a + b + e + f
  BY <1>14, <1>15
<1>18. QED
  BY <1>15, <1>16, <1>17 DEF d, a, b, e, f, c, D, A, B, E, F

(* ---- The account over a session ------------------------------------------ *)

Before(eq, s) == IF s = 0 THEN Capital ELSE eq[s]
MarksAt(close, s) == [x \in Tickers |-> Mark(close, x, s)]

\* What the close marked is the cash and the shares at their last marks.
AccountIn(close, s, ca, sh, pe, eq) ==
  /\ s \in 0..ResearchEnd /\ ca \in Int /\ sh \in Amounts /\ pe.target \in Amounts
  /\ eq \in Seq(Int) /\ Len(eq) = s
  /\ Before(eq, s) = ca + SumFunctionOnSet(WorthAt(sh, MarksAt(close, s)), Tickers)

LEMMA MarksAreTyped ==
  ASSUME NEW close \in Prices, NEW s \in 0..ResearchEnd
  PROVE  MarksAt(close, s) \in [Tickers -> Int]
<1>1. \A x \in Tickers : Mark(close, x, s) \in Int
  BY MarkIsTyped
<1>2. QED
  BY <1>1 DEF MarksAt

LEMMA NothingMarked ==
  ASSUME NEW close, NEW x
  PROVE  Mark(close, x, 0) = 0
<1>1. {u \in 1..0 : close[x][u] > 0} = {}
  OBVIOUS
<1>2. QED
  BY <1>1 DEF Mark

\* An account before its first session.
LEMMA AccountStarts ==
  ASSUME NEW close
  PROVE  AccountIn(close, 0, Capital, Flat, NoDecision, <<>>)
<1> DEFINE worth == WorthAt(Flat, MarksAt(close, 0))
<1>1. \A x \in Tickers : worth[x] = 0
  BY NothingMarked DEF WorthAt, Flat, MarksAt
<1> HIDE DEF worth
<1>2. SumFunctionOnSet(worth, Tickers) = 0
  BY <1>1, TickersAreFinite, SumZero
<1>3. Capital \in Int /\ ResearchEnd \in Nat
  BY LedgerAssumption, PanelAssumption
<1>4. NoDecision.target \in Amounts
  BY FlatIsABook DEF NoDecision
<1>5. Before(<<>>, 0) = Capital + SumFunctionOnSet(worth, Tickers)
  BY <1>2, <1>3 DEF Before
<1>6. <<>> \in Seq(Int) /\ Len(<<>>) = 0 /\ 0 \in 0..ResearchEnd
  BY <1>3
<1>7. QED
  BY <1>3, <1>4, <1>5, <1>6, FlatIsABook DEF AccountIn, worth

\* A decision orders no short position.
LEMMA TargetsAreLong ==
  ASSUME NEW weights \in Amounts, NEW close \in Prices, NEW s \in Sessions, NEW value \in Int,
         NEW owned \in Amounts
  PROVE  Targets(weights, close, s, value, owned) \in Amounts
<1>1. ASSUME NEW x \in Tickers
      PROVE  (IF weights[x] = 0 THEN 0
              ELSE IF close[x][s] = 0 THEN owned[x]
              ELSE (weights[x] * Max({value, 0})) \div (Whole * close[x][s])) \in Nat
  <2>1. weights[x] \in Nat /\ owned[x] \in Nat /\ close[x][s] \in Nat
    BY DEF Amounts, Prices
  <2>2. Max({value, 0}) \in Nat /\ Whole \in Nat /\ Whole > 0
    BY LargerThanNothing, BookAssumption
  <2>3. CASE close[x][s] = 0
    BY <2>1, <2>3
  <2>4. CASE close[x][s] > 0
    <3>1. weights[x] * Max({value, 0}) \in Nat
      BY <2>1, <2>2, Products
    <3>2. Whole * close[x][s] \in Nat /\ Whole * close[x][s] > 0
      BY <2>1, <2>2, <2>4, Products
    <3>3. (weights[x] * Max({value, 0})) \div (Whole * close[x][s]) \in Nat
      BY <3>1, <3>2, Quotient
    <3>4. QED
      BY <2>1, <3>3
  <2>5. QED
    BY <2>1, <2>3, <2>4
<1>2. QED
  BY <1>1 DEF Targets, Amounts

\* What an open trades, whether a decision waits for it or none does.
LEMMA OpenedFairly ==
  ASSUME cash \in Int, shares \in Amounts, pending.target \in Amounts,
         NEW check \in Built, NEW priced, priced \subseteq Tickers, NEW s \in Sessions
  PROVE  \E T, q, p :
           /\ Opened(Panels[check], priced, s) = FillsIn(T, q, p) /\ Fair(T, q, p, Orders)
           /\ (\E x \in T : Orders[x] > 0) => SumFunctionOnSet(Spent(q, p), T) <= cash
<1> DEFINE quotes == [x \in Tickers |-> Panels[check].open[x][s]]
<1>1. Opened(Panels[check], priced, s)
        = IF pending = NoDecision THEN {} ELSE Traded(Orders, priced, quotes)
  BY DEF Opened
<1>2. Orders \in [Tickers -> Int]
  BY DEF Orders, Amounts
<1>3. quotes \in [Tickers -> Nat]
  <2>1. Panels[check].open \in Prices
    BY PanelsAreTyped
  <2>2. QED
    BY <2>1 DEF Prices
<1> HIDE DEF quotes
<1>4. CASE pending = NoDecision
  <2> DEFINE q == [x \in Tickers |-> 0]
             p == [x \in Tickers |-> 0]
  <2>1. q \in [Tickers -> Int] /\ p \in [Tickers -> Nat]
    OBVIOUS
  <2> HIDE DEF q, p
  <2>2. Opened(Panels[check], priced, s) = FillsIn({}, q, p)
    BY <1>1, <1>4 DEF FillsIn
  <2>3. Fair({}, q, p, Orders)
    BY <2>1 DEF Fair
  <2>4. QED
    BY <2>2, <2>3
<1>5. CASE pending # NoDecision
  <2>1. \E T, q, p :
          /\ Traded(Orders, priced, quotes) = FillsIn(T, q, p) /\ Fair(T, q, p, Orders)
          /\ (\E x \in T : Orders[x] > 0) => SumFunctionOnSet(Spent(q, p), T) <= cash
    BY <1>2, <1>3, TradedFairly
  <2>2. QED
    BY <1>1, <1>5, <2>1
<1>6. QED
  BY <1>4, <1>5

\* What the fills leave.
LEMMA FillsLeave ==
  ASSUME NEW T, NEW q, NEW p, Fair(T, q, p, Orders), shares \in Amounts, pending.target \in Amounts
  PROVE  /\ Held(shares, T, q) \in Amounts
         /\ \A f \in FillsIn(T, q, p) :
              /\ f.ticker \in T /\ f.quantity = q[f.ticker] /\ f.price = p[f.ticker]
              /\ f.quantity > 0 => Orders[f.ticker] > 0
              /\ f.quantity < 0 => pending.target[f.ticker] - shares[f.ticker] - f.quantity = 0
         /\ \A f, g \in FillsIn(T, q, p) :
              (/\ f.quantity > 0 /\ g.quantity > 0
               /\ pending.target[f.ticker] - shares[f.ticker] - f.quantity = 0) =>
              pending.target[g.ticker] - shares[g.ticker] - g.quantity = 0
<1>1. /\ T \subseteq Tickers /\ q \in [Tickers -> Int] /\ p \in [Tickers -> Nat]
      /\ \A x \in T : /\ Orders[x] # 0
                      /\ Orders[x] < 0 => q[x] = Orders[x]
                      /\ Orders[x] > 0 => 0 <= q[x] /\ q[x] <= Orders[x]
      /\ \A x, y \in T : Orders[x] > 0 /\ Orders[y] > 0 /\ q[x] = Orders[x] => q[y] = Orders[y]
  BY DEF Fair
<1>2. \A x \in Tickers :
        /\ Orders[x] = pending.target[x] - shares[x] /\ Orders[x] \in Int
        /\ shares[x] \in Nat /\ pending.target[x] \in Nat /\ q[x] \in Int
  BY <1>1 DEF Orders, Amounts
<1>3. \A x \in Tickers : shares[x] + (IF x \in T THEN q[x] ELSE 0) \in Nat
  <2>1. ASSUME NEW x \in Tickers PROVE shares[x] + (IF x \in T THEN q[x] ELSE 0) \in Nat
    <3>1. CASE x \notin T
      BY <1>2, <3>1
    <3>2. CASE x \in T
      BY <1>1, <1>2, <3>2
    <3>3. QED
      BY <3>1, <3>2
  <2>2. QED
    BY <2>1
<1>4. Held(shares, T, q) \in Amounts
  BY <1>3 DEF Held, Amounts
<1>5. \A f \in FillsIn(T, q, p) : f.ticker \in T /\ f.quantity = q[f.ticker] /\ f.price = p[f.ticker]
  BY FillsAreNamed
<1>6. ASSUME NEW x \in T
      PROVE  /\ q[x] > 0 => Orders[x] > 0
             /\ q[x] < 0 => pending.target[x] - shares[x] - q[x] = 0
             /\ q[x] = Orders[x] <=> pending.target[x] - shares[x] - q[x] = 0
  BY <1>1, <1>2
<1>7. QED
  BY <1>1, <1>4, <1>5, <1>6

\* What the fills of a trade spend, and what they earn by the close.
LEMMA TradeAddsUp ==
  ASSUME NEW T, T \subseteq Tickers, NEW q \in [Tickers -> Int], NEW p \in [Tickers -> Nat],
         NEW close \in Prices, NEW s \in 0..ResearchEnd, NEW trade, trade = FillsIn(T, q, p)
  PROVE  /\ SumFunction([f \in trade |-> f.quantity * f.price + Commission]) = SumFunctionOnSet(Spent(q, p), T)
         /\ SumFunction([f \in trade |-> f.quantity * (Mark(close, f.ticker, s) - f.price)])
              = SumFunctionOnSet(Gains(q, p, MarksAt(close, s)), T)
         /\ Cardinality(trade) = Cardinality(T)
<1> DEFINE cost == [f \in trade |-> f.quantity * f.price + Commission]
           gain == [f \in trade |-> f.quantity * (Mark(close, f.ticker, s) - f.price)]
<1>1. \A x \in T : /\ q[x] \in Int /\ p[x] \in Int /\ MarksAt(close, s)[x] \in Int
                   /\ MarksAt(close, s)[x] = Mark(close, x, s)
  <2>1. MarksAt(close, s) \in [Tickers -> Int]
    BY MarksAreTyped
  <2>2. QED
    BY <2>1 DEF MarksAt
<1>2. \A x \in T :
        /\ Fill(x, q[x], p[x]) \in trade
        /\ Fill(x, q[x], p[x]).ticker = x
        /\ Fill(x, q[x], p[x]).quantity = q[x] /\ Fill(x, q[x], p[x]).price = p[x]
  BY DEF FillsIn, Fill
<1>3. \A x \in T : Spent(q, p)[x] \in Int /\ cost[Fill(x, q[x], p[x])] = Spent(q, p)[x]
  <2>1. \A x \in T : Spent(q, p)[x] = q[x] * p[x] + Commission
    BY DEF Spent
  <2>2. \A x \in T : cost[Fill(x, q[x], p[x])] = q[x] * p[x] + Commission
    BY <1>2
  <2>3. \A a, b, c \in Int : a * b + c \in Int
    OBVIOUS
  <2>4. Commission \in Int
    BY LedgerAssumption
  <2>5. QED
    BY <1>1, <2>1, <2>2, <2>3, <2>4
<1>4. \A x \in T : /\ Gains(q, p, MarksAt(close, s))[x] \in Int
                   /\ gain[Fill(x, q[x], p[x])] = Gains(q, p, MarksAt(close, s))[x]
  <2>1. \A x \in T : Gains(q, p, MarksAt(close, s))[x] = q[x] * (MarksAt(close, s)[x] - p[x])
    BY DEF Gains
  <2>2. \A x \in T : gain[Fill(x, q[x], p[x])] = q[x] * (Mark(close, x, s) - p[x])
    BY <1>2
  <2>3. \A a, b, c \in Int : a * (b - c) \in Int
    OBVIOUS
  <2>4. QED
    BY <1>1, <2>1, <2>2, <2>3
<1>5. DOMAIN cost = FillsIn(T, q, p) /\ DOMAIN gain = FillsIn(T, q, p) /\ DOMAIN cost = trade
  OBVIOUS
<1> HIDE DEF cost, gain
<1>6. SumFunction(cost) = SumFunctionOnSet(Spent(q, p), T) /\ Cardinality(DOMAIN cost) = Cardinality(T)
  BY SMTT(60), <1>3, <1>5, SumOfFills
<1>7. SumFunction(gain) = SumFunctionOnSet(Gains(q, p, MarksAt(close, s)), T)
  BY SMTT(60), <1>4, <1>5, SumOfFills
<1>8. QED
  BY <1>5, <1>6, <1>7 DEF cost, gain

LEMMA SessionKeepsAccount ==
  ASSUME NEW check \in Built, NEW decides, NEW weights \in Amounts,
         AccountIn(Panels[check].close, session, cash, shares, pending, equity),
         Session(check, decides, weights)
  PROVE  /\ AccountIn(Panels[check].close, session', cash', shares', pending', equity')
         /\ equity'[session'] = Before(equity, session) + Earned(Panels[check].close, session')
         /\ {f \in fills' : f.quantity > 0} # {} => cash' >= 0
         /\ \A f \in fills' :
              f.quantity < 0 => pending.target[f.ticker] - shares[f.ticker] - f.quantity = 0
         /\ \A f, g \in fills' :
              (/\ f.quantity > 0 /\ g.quantity > 0
               /\ pending.target[f.ticker] - shares[f.ticker] - f.quantity = 0) =>
              pending.target[g.ticker] - shares[g.ticker] - g.quantity = 0
<1> DEFINE close == Panels[check].close
           s == session + 1
           priced == {x \in Tickers : pending.on \in CostTable[check][x]}
           trade == Opened(Panels[check], priced, s)
           cost == [f \in trade |-> f.quantity * f.price + Commission]
           spent == SumFunction(cost)
           owned == [x \in Tickers |->
                      shares[x] + SumFunction([f \in {g \in trade : g.ticker = x} |-> f.quantity])]
           worth == [x \in Tickers |-> owned[x] * Mark(close, x, s)]
           value == cash - spent + SumFunction(worth)
<1>1. /\ session \in 0..ResearchEnd /\ cash \in Int /\ shares \in Amounts /\ pending.target \in Amounts
      /\ equity \in Seq(Int) /\ Len(equity) = session
      /\ Before(equity, session) = cash + SumFunctionOnSet(WorthAt(shares, MarksAt(close, session)), Tickers)
  BY DEF AccountIn
<1>2. /\ session < ResearchEnd /\ session' = s /\ fills' = trade /\ cash' = cash - spent
      /\ shares' = owned /\ equity' = Append(equity, value)
      /\ pending' = IF decides /\ s < ResearchEnd
                      THEN [on |-> s, target |-> Targets(weights, close, s, value, owned)]
                      ELSE NoDecision
  BY DEF Session, Marked
<1>3. ResearchEnd \in Nat /\ s \in Sessions /\ s \in 0..ResearchEnd /\ s # 0 /\ s \in Nat
  BY <1>1, <1>2, PanelAssumption DEF Sessions
<1>4. close \in Prices
  BY PanelsAreTyped
<1>5. priced \subseteq Tickers
  OBVIOUS
<1>6. worth = [x \in Tickers |-> owned[x] * Mark(close, x, s)]
  OBVIOUS
<1>7. owned = [x \in Tickers |->
                shares[x] + SumFunction([f \in {g \in trade : g.ticker = x} |-> f.quantity])]
  OBVIOUS
<1> HIDE DEF priced, owned, worth
<1>8. PICK T, q, p : /\ trade = FillsIn(T, q, p) /\ Fair(T, q, p, Orders)
                     /\ (\E x \in T : Orders[x] > 0) => SumFunctionOnSet(Spent(q, p), T) <= cash
  BY <1>1, <1>3, <1>5, OpenedFairly
<1> HIDE DEF trade
<1>9. T \subseteq Tickers /\ q \in [Tickers -> Int] /\ p \in [Tickers -> Nat]
  BY <1>8 DEF Fair
<1>10. /\ spent = SumFunctionOnSet(Spent(q, p), T)
       /\ SumFunction([f \in trade |-> f.quantity * (Mark(close, f.ticker, s) - f.price)])
            = SumFunctionOnSet(Gains(q, p, MarksAt(close, s)), T)
       /\ Cardinality(trade) = Cardinality(T)
  BY ZenonT(60), <1>3, <1>4, <1>8, <1>9, TradeAddsUp
<1> HIDE DEF spent, cost
<1>11. owned = Held(shares, T, q)
  <2>1. \A x \in Tickers :
          SumFunction([f \in {g \in trade : g.ticker = x} |-> f.quantity]) = IF x \in T THEN q[x] ELSE 0
    BY <1>8, <1>9, FillsMove
  <2>2. QED
    BY <1>7, <2>1 DEF Held
<1>12. SumFunction(worth) = SumFunctionOnSet(WorthAt(Held(shares, T, q), MarksAt(close, s)), Tickers)
  <2>1. worth = WorthAt(Held(shares, T, q), MarksAt(close, s))
    BY <1>6, <1>11 DEF WorthAt, MarksAt
  <2>2. DOMAIN worth = Tickers
    BY <1>6
  <2>3. QED
    BY <2>1, <2>2 DEF SumFunction
<1> DEFINE old == MarksAt(close, session)
           new == MarksAt(close, s)
           after == SumFunctionOnSet(WorthAt(Held(shares, T, q), new), Tickers)
           before == SumFunctionOnSet(WorthAt(shares, old), Tickers)
           moved == SumFunctionOnSet(Moves(shares, old, new), Tickers)
           gained == SumFunctionOnSet(Gains(q, p, new), T)
           fee == Commission * Cardinality(T)
<1>13. old \in [Tickers -> Int] /\ new \in [Tickers -> Int] /\ shares \in [Tickers -> Int]
  <2>1. old \in [Tickers -> Int] /\ new \in [Tickers -> Int]
    BY <1>1, <1>3, <1>4, MarksAreTyped
  <2>2. QED
    BY <1>1, <2>1 DEF Amounts
<1>14. /\ after + fee = before + moved + gained + SumFunctionOnSet(Spent(q, p), T)
       /\ after \in Int /\ before \in Int /\ moved \in Int /\ gained \in Int
       /\ SumFunctionOnSet(Spent(q, p), T) \in Int /\ fee \in Int
  <2> HIDE DEF old, new
  <2>1. QED
    BY <1>9, <1>13, BooksBalance
<1>15. Earned(close, s) = moved + gained - fee
  <2> DEFINE Moved(x) == Mark(close, x, s) - (IF s = 1 THEN 0 ELSE Mark(close, x, s - 1))
             moves == [x \in Tickers |-> shares[x] * Moved(x)]
  <2>1. \A x \in Tickers : Moved(x) = new[x] - old[x]
    <3>1. TAKE x \in Tickers
    <3>2. new[x] = Mark(close, x, s) /\ old[x] = Mark(close, x, session)
      BY DEF MarksAt
    <3>3. CASE session = 0
      BY <3>2, <3>3, NothingMarked
    <3>4. CASE session # 0
      <4>1. s # 1 /\ s - 1 = session
        BY <1>1, <3>4
      <4>2. QED
        BY <3>2, <4>1
    <3>5. QED
      BY <3>3, <3>4
  <2>2. moves = Moves(shares, old, new) /\ DOMAIN moves = Tickers
    <3> HIDE DEF old, new, Moved
    <3>1. QED
      BY <2>1 DEF Moves
  <2>3. SumFunction(moves) = moved
    BY <2>2 DEF SumFunction
  <2>4. Earned(close, s) = SumFunction(moves)
          + SumFunction([f \in fills' |-> f.quantity * (Mark(close, f.ticker, s) - f.price)])
          - Commission * Cardinality(fills')
    BY DEF Earned
  <2> HIDE DEF moves, moved
  <2>5. SumFunction([f \in fills' |-> f.quantity * (Mark(close, f.ticker, s) - f.price)]) = gained
    BY <1>2, <1>10
  <2>6. Commission * Cardinality(fills') = fee
    BY <1>2, <1>10
  <2>7. QED
    BY <2>3, <2>4, <2>5, <2>6
<1>16. value = cash - spent + after
  BY <1>12
<1>17. spent \in Int /\ after + fee = before + moved + gained + spent
  BY <1>10, <1>14
<1>18. Before(equity, session) = cash + before
  BY <1>1
<1> HIDE DEF value, after, before, moved, gained, fee
<1>19. value \in Int /\ value = Before(equity, session) + (moved + gained - fee)
  <2>1. PICK a \in Int : a = after
    BY <1>14
  <2>2. PICK b \in Int : b = before
    BY <1>14
  <2>3. PICK m \in Int : m = moved
    BY <1>14
  <2>4. PICK g \in Int : g = gained
    BY <1>14
  <2>5. PICK c \in Int : c = fee
    BY <1>14
  <2>6. PICK o \in Int : o = spent
    BY <1>17
  <2>7. a + c = b + m + g + o
    BY <1>17, <2>1, <2>2, <2>3, <2>4, <2>5, <2>6
  <2>8. PICK k \in Int : k = cash
    BY <1>1
  <2>9. value = k - o + a /\ Before(equity, session) = k + b
    BY <1>16, <1>18, <2>1, <2>2, <2>6, <2>8
  <2>10. k - o + a = k + b + (m + g - c)
    BY <2>7
  <2>11. QED
    BY <2>3, <2>4, <2>5, <2>9, <2>10
<1>20. /\ equity' \in Seq(Int) /\ Len(equity') = s /\ equity'[s] = value
  <2>1. equity' = Append(equity, value) /\ s = Len(equity) + 1
    BY <1>1, <1>2
  <2>2. QED
    BY <1>1, <1>19, <2>1
<1>21. /\ owned \in Amounts
       /\ \A f \in trade :
            /\ f.ticker \in T /\ f.quantity = q[f.ticker] /\ f.price = p[f.ticker]
            /\ f.quantity > 0 => Orders[f.ticker] > 0
            /\ f.quantity < 0 => pending.target[f.ticker] - shares[f.ticker] - f.quantity = 0
       /\ \A f, g \in trade :
            (/\ f.quantity > 0 /\ g.quantity > 0
             /\ pending.target[f.ticker] - shares[f.ticker] - f.quantity = 0) =>
            pending.target[g.ticker] - shares[g.ticker] - g.quantity = 0
  BY <1>1, <1>8, <1>11, FillsLeave
<1>22. pending'.target \in Amounts
  <2>1. Targets(weights, close, s, value, owned) \in Amounts
    BY <1>3, <1>4, <1>19, <1>21, TargetsAreLong
  <2>2. CASE decides /\ s < ResearchEnd
    BY <1>2, <2>1, <2>2
  <2>3. CASE ~(decides /\ s < ResearchEnd)
    BY <1>2, <2>3, FlatIsABook DEF NoDecision
  <2>4. QED
    BY <2>2, <2>3
<1>23. cash' \in Int /\ (spent <= cash => cash' >= 0)
  BY <1>1, <1>2, <1>17
<1>24. Before(equity', s) = cash' + SumFunctionOnSet(WorthAt(owned, MarksAt(close, s)), Tickers)
  <2>1. Before(equity', s) = value
    BY <1>3, <1>20 DEF Before
  <2>2. QED
    BY <1>2, <1>11, <1>16, <2>1 DEF after
<1>25. AccountIn(close, session', cash', shares', pending', equity')
  BY <1>2, <1>3, <1>20, <1>21, <1>22, <1>23, <1>24 DEF AccountIn
<1>26. equity'[session'] = Before(equity, session) + Earned(close, session')
  BY <1>2, <1>15, <1>19, <1>20
<1>27. ASSUME NEW f \in trade, f.quantity > 0 PROVE cash' >= 0
  <2>1. spent <= cash
    BY <1>8, <1>10, <1>21, <1>27
  <2>2. QED
    BY <1>23, <2>1
<1>28. QED
  BY <1>2, <1>21, <1>25, <1>26, <1>27

(* ---- The account of every series ------------------------------------------ *)

\* A series names a configuration: its own, or the candidate it is drawn for.
KnownKey(key) == IF IsRandom(key) THEN key.of \in DOMAIN Rules ELSE key.name \in DOMAIN Rules

StartsKnown(ev) == \A i \in DOMAIN ev : ev[i].type = "started" => KnownKey(ev[i].key)
TodoKnown(r) == \A n \in DOMAIN r.todo : KnownKey(r.todo[n])
AccountOpen(r, s, ca, sh, pe, eq) ==
  r.at = "evaluate" => AccountIn(Panels[r.check].close, s, ca, sh, pe, eq)

AccountInv ==
  /\ session \in Nat /\ StartsKnown(events) /\ TodoKnown(run)
  /\ AccountOpen(run, session, cash, shares, pending, equity)

LEMMA CandidatesKnown ==
  ASSUME NEW f \in DOMAIN Families, NEW i \in 1..Len(Families[f].candidates)
  PROVE  Families[f].candidates[i] \in DOMAIN Rules
<1>1. Families[f].candidates \in Seq(DOMAIN Rules \ {Hold, Random})
  BY FamilyAssumption
<1>2. QED
  BY <1>1

LEMMA PairsKnown ==
  ASSUME NEW f \in DOMAIN Families, NEW key \in Range(Pairs(f))
  PROVE  KnownKey(key)
<1>1. PICK n \in DOMAIN Pairs(f) : Pairs(f)[n] = key
  BY DEF Range
<1>2. IsRandom(key) /\ \E i \in 1..Len(Families[f].candidates) : key.of = Families[f].candidates[i]
  BY <1>1, PairList
<1>3. QED
  BY <1>2, CandidatesKnown DEF KnownKey

LEMMA ConfigsKnown ==
  ASSUME NEW f \in DOMAIN Families, NEW key \in Range(Configs(f))
  PROVE  KnownKey(key)
<1> DEFINE names == Families[f].candidates
           none == ""
<1>1. names \in Seq(DOMAIN Rules \ {Hold, Random}) /\ Hold \in DOMAIN Rules
  BY FamilyAssumption
<1>2. /\ Len(names) \in Nat
      /\ \A i \in 1..(Len(names) + 1) : Append(names, Hold)[i] \in DOMAIN Rules
  <2>1. Append(names, Hold) \in Seq(DOMAIN Rules) /\ Len(Append(names, Hold)) = Len(names) + 1
    BY <1>1
  <2>2. QED
    BY <1>1, <2>1
<1>3. Configs(f) = [i \in 1..(Len(names) + 1) |-> Key(Append(names, Hold)[i], none, 0)]
  BY DEF Configs
<1> HIDE DEF names, none
<1>4. PICK i \in 1..(Len(names) + 1) : key = Key(Append(names, Hold)[i], none, 0)
  BY <1>3 DEF Range
<1>5. key.name \in DOMAIN Rules
  BY <1>2, <1>4, KeyFields
<1>6. ~IsRandom(key)
  <2>1. PICK j \in DOMAIN Configs(f) : key = Configs(f)[j]
    BY DEF Range
  <2>2. QED
    BY <2>1, ConfigList
<1>7. QED
  BY <1>5, <1>6 DEF KnownKey

\* The weights of a series after any close.
LEMMA WeightsAtIsABook ==
  ASSUME run.check \in Built, NEW key, KnownKey(key), NEW t \in Nat, NEW drawn
  PROVE  WeightsAt(key, t, drawn) \in Amounts
<1> DEFINE close == Panels[run.check].close
<1>1. WeightsAt(key, t, drawn) =
        IF t \notin DecisionsOf(key) THEN Flat
        ELSE IF IsRandom(key) THEN DrawnBook(key.of, {x \in Tickers : drawn[x]}, close, t)
        ELSE BookTable[run.check][key.name][t]
  BY DEF WeightsAt
<1>2. CASE t \notin DecisionsOf(key)
  BY <1>1, <1>2, FlatIsABook
<1>3. CASE t \in DecisionsOf(key) /\ IsRandom(key)
  <2>1. Rules[key.of].sizing \in Sizings
    BY <1>3, BookAssumption DEF KnownKey
  <2>2. Listed(close, t) \cap {x \in Tickers : drawn[x]} \subseteq Tickers
    OBVIOUS
  <2>3. QED
    BY <1>1, <1>3, <2>1, <2>2, SizedIsABook DEF DrawnBook
<1>4. CASE t \in DecisionsOf(key) /\ ~IsRandom(key)
  <2>1. key.name \in DOMAIN Rules /\ t \in Decisions(key.name)
    BY <1>4 DEF KnownKey, DecisionsOf
  <2>2. BookTable[run.check][key.name] = TargetBook(key.name, close)
    BY <2>1 DEF BookTable
  <2>3. TargetBook(key.name, close)[t] = Weights(key.name, close, t)
    BY <2>1 DEF TargetBook
  <2>4. QED
    BY <1>1, <1>4, <2>1, <2>2, <2>3, WeightsAreABook
<1>5. QED
  BY <1>2, <1>3, <1>4

LEMMA BegunAccount ==
  ASSUME Begin, NEW close
  PROVE  session' = 0 /\ AccountIn(close, session', cash', shares', pending', equity')
BY AccountStarts DEF Begin

\* A receipt starts no trial.
LEMMA ReceiptsKnown ==
  ASSUME NEW ev, IsList(ev), StartsKnown(ev), NEW e, e.type = "started" => KnownKey(e.key)
  PROVE  StartsKnown(Append(ev, e))
<1>1. /\ DOMAIN Append(ev, e) = DOMAIN ev \cup {Len(ev) + 1}
      /\ Append(ev, e)[Len(ev) + 1] = e /\ \A i \in DOMAIN ev : Append(ev, e)[i] = ev[i]
  BY Appended
<1>2. QED
  BY <1>1 DEF StartsKnown

LEMMA FinishKnown ==
  ASSUME FamilyInv, StartsKnown(events), NEW trial, NEW type \in Terminals, NEW result,
         Finish(trial, type, result)
  PROVE  StartsKnown(events')
<1> DEFINE e == Event(type, trial, events[trial].key, result)
<1>1. IsList(events)
  BY Known DEF EventsIn
<1>2. e.type = type /\ type # "started"
  BY DEF Event, Terminals
<1>3. events' = Append(events, e)
  BY DEF Finish
<1> HIDE DEF e
<1>4. QED
  BY <1>1, <1>2, <1>3, ReceiptsKnown

\* A program that does not evaluate has no account to keep.
LEMMA AwayKeepsAccount ==
  ASSUME AccountInv, StartsKnown(events'), TodoKnown(run'), run'.at # "evaluate",
         session' = session \/ session' = 0
  PROVE  AccountInv' /\ session' # session + 1
BY DEF AccountInv, AccountOpen

LEMMA OffKnown == TodoKnown(Off) /\ Off.at # "evaluate"
BY OffIn, NothingListed DEF TodoKnown

LEMMA LaunchKeepsAccount ==
  ASSUME AccountInv, NEW f \in DOMAIN Families, NEW c, NEW reason, Launch(f, c, reason)
  PROVE  AccountInv' /\ session' # session + 1
<1> DEFINE r == [Off EXCEPT !.at = "start", !.family = f, !.check = c, !.todo = Series(f)]
<1>1. run' = r /\ events' = events /\ session' = session
  BY DEF Launch, ledgerVars
<1>2. r.at = "start" /\ r.todo = Series(f)
  BY OffIn DEF RunFields
<1> HIDE DEF r
<1>3. TodoKnown(r)
  <2>1. ASSUME NEW n \in DOMAIN Series(f) PROVE KnownKey(Series(f)[n])
    <3>1. Series(f)[n] \in Range(Series(f))
      BY DEF Range
    <3>2. Series(f)[n] \in Range(Configs(f)) \/ Series(f)[n] \in Range(Pairs(f))
      BY <3>1, SeriesList
    <3>3. QED
      BY <3>2, ConfigsKnown, PairsKnown
  <2>2. QED
    BY <1>2, <2>1 DEF TodoKnown
<1>4. StartsKnown(events')
  BY <1>1 DEF AccountInv
<1>5. QED
  BY <1>1, <1>2, <1>3, <1>4, AwayKeepsAccount

LEMMA ResumeKeepsAccount ==
  ASSUME AccountInv, NEW f \in DOMAIN Families, NEW c, Resume(f, c)
  PROVE  AccountInv' /\ session' # session + 1
<1> DEFINE r == [Off EXCEPT !.at = "close", !.family = f, !.check = c, !.resumes = TRUE,
                            !.todo = Remaining(f), !.closing = Sorted(Dangling(f))]
<1>1. run' = r /\ events' = events /\ session' = session
  BY DEF Resume, ledgerVars
<1>2. r.at = "close" /\ r.todo = Remaining(f)
  BY OffIn DEF RunFields
<1> HIDE DEF r
<1>3. TodoKnown(r)
  BY <1>2, RemainingList, PairsKnown DEF TodoKnown
<1>4. StartsKnown(events')
  BY <1>1 DEF AccountInv
<1>5. QED
  BY <1>1, <1>2, <1>3, <1>4, AwayKeepsAccount

LEMMA CloseKeepsAccount ==
  ASSUME FamilyInv, AccountInv, CloseDangling
  PROVE  AccountInv' /\ session' # session + 1
<1>1. DOMAIN run = RunFields /\ run.at = "close" /\ session' = session
  BY Known DEF CloseDangling, ledgerVars
<1>2. run'.todo = run.todo /\ run'.at # "evaluate"
  <2>1. \/ run' = [run EXCEPT !.at = "start"]
        \/ run' = [run EXCEPT !.closing = Tail(@)]
    BY DEF CloseDangling
  <2>2. QED
    BY <1>1, <2>1 DEF RunFields
<1>3. StartsKnown(events')
  <2>1. events' = events \/ Finish(Head(run.closing), "abandoned", <<>>)
    BY DEF CloseDangling
  <2>2. "abandoned" \in Terminals
    BY DEF Terminals
  <2>3. StartsKnown(events)
    BY DEF AccountInv
  <2>4. CASE events' = events
    BY <2>3, <2>4
  <2>5. CASE Finish(Head(run.closing), "abandoned", <<>>)
    BY <2>2, <2>3, <2>5, FinishKnown
  <2>6. QED
    BY <2>1, <2>4, <2>5
<1>4. TodoKnown(run')
  BY <1>2 DEF AccountInv, TodoKnown
<1>5. QED
  BY <1>1, <1>2, <1>3, <1>4, AwayKeepsAccount

LEMMA AllDoneKeepsAccount ==
  ASSUME FamilyInv, AccountInv, AllDone
  PROVE  AccountInv' /\ session' # session + 1
<1>1. DOMAIN run = RunFields /\ run' = [run EXCEPT !.at = "done"] /\ events' = events /\ session' = session
  BY Known DEF AllDone, ledgerVars
<1>2. run'.todo = run.todo /\ run'.at # "evaluate"
  BY <1>1 DEF RunFields
<1>3. StartsKnown(events') /\ TodoKnown(run')
  BY <1>1, <1>2 DEF AccountInv, TodoKnown
<1>4. QED
  BY <1>1, <1>2, <1>3, AwayKeepsAccount

LEMMA RaiseKeepsAccount ==
  ASSUME FamilyInv, AccountInv, NEW type, Raise(type)
  PROVE  AccountInv' /\ session' # session + 1
<1>1. DOMAIN run = RunFields /\ run' = [run EXCEPT !.at = "unwind", !.raised = type]
      /\ events' = events /\ session' = session
  BY Known DEF Raise, Unwinding, ledgerVars
<1>2. run'.todo = run.todo /\ run'.at # "evaluate"
  BY <1>1 DEF RunFields
<1>3. StartsKnown(events') /\ TodoKnown(run')
  BY <1>1, <1>2 DEF AccountInv, TodoKnown
<1>4. QED
  BY <1>1, <1>2, <1>3, AwayKeepsAccount

LEMMA KillKeepsAccount ==
  ASSUME AccountInv, Kill
  PROVE  AccountInv' /\ session' # session + 1
<1>1. run' = Off /\ events' = events /\ session' = session
  BY DEF Kill, ledgerVars
<1>2. StartsKnown(events')
  BY <1>1 DEF AccountInv
<1>3. QED
  BY <1>1, <1>2, OffKnown, AwayKeepsAccount

LEMMA UnwindKeepsAccount ==
  ASSUME FamilyInv, AccountInv, Unwind
  PROVE  AccountInv' /\ session' # session + 1
<1>1. /\ DOMAIN run = RunFields /\ run.at = "unwind" /\ session' = session
      /\ run.raised \in {"errored", "abandoned"}
  BY Known DEF Unwind, StageIn, ledgerVars
<1> DEFINE trials == [i \in DOMAIN run.kept |-> run.kept[i].trial] \o run.open
<1>2. \/ run' = Off /\ events' = events
      \/ /\ Finish(Last(trials), run.raised, <<>>)
         /\ run' = [run EXCEPT !.open = Front(@)] \/ run' = [run EXCEPT !.kept = Front(@)]
  BY DEF Unwind
<1> HIDE DEF trials
<1>3. StartsKnown(events)
  BY DEF AccountInv
<1>4. CASE run' = Off /\ events' = events
  BY <1>1, <1>3, <1>4, OffKnown, AwayKeepsAccount
<1>5. CASE /\ Finish(Last(trials), run.raised, <<>>)
           /\ run' = [run EXCEPT !.open = Front(@)] \/ run' = [run EXCEPT !.kept = Front(@)]
  <2>1. run'.todo = run.todo /\ run'.at # "evaluate"
    BY <1>1, <1>5 DEF RunFields
  <2>2. run.raised \in Terminals
    BY <1>1 DEF Terminals
  <2>3. StartsKnown(events')
    BY <1>3, <1>5, <2>2, FinishKnown
  <2>4. TodoKnown(run')
    BY <2>1 DEF AccountInv, TodoKnown
  <2>5. QED
    BY <1>1, <2>1, <2>3, <2>4, AwayKeepsAccount
<1>6. QED
  BY <1>2, <1>4, <1>5

LEMMA RecordKeepsAccount ==
  ASSUME FamilyInv, AccountInv, Record
  PROVE  AccountInv' /\ session' # session + 1
<1>1. DOMAIN run = RunFields /\ run.at = "record" /\ session' = session
  BY Known DEF Record, ledgerVars
<1>2. run'.todo = run.todo /\ run'.at # "evaluate"
  <2>1. run' = [run EXCEPT !.at = "done"] \/ run' = [run EXCEPT !.kept = Tail(@)]
    BY DEF Record
  <2>2. QED
    BY <1>1, <2>1 DEF RunFields
<1>3. StartsKnown(events')
  <2>1. events' = events \/ Finish(Head(run.kept).trial, "completed", Head(run.kept).result)
    BY DEF Record
  <2>2. "completed" \in Terminals
    BY DEF Terminals
  <2>3. StartsKnown(events)
    BY DEF AccountInv
  <2>4. CASE events' = events
    BY <2>3, <2>4
  <2>5. CASE Finish(Head(run.kept).trial, "completed", Head(run.kept).result)
    BY <2>2, <2>3, <2>5, FinishKnown
  <2>6. QED
    BY <2>1, <2>4, <2>5
<1>4. TodoKnown(run')
  BY <1>2 DEF AccountInv, TodoKnown
<1>5. QED
  BY <1>1, <1>2, <1>3, <1>4, AwayKeepsAccount

\* Every series begins with the whole capital and nothing held.
LEMMA StartOpensAccount ==
  ASSUME FamilyInv, AccountInv, StartTrial
  PROVE  AccountInv' /\ session' # session + 1
<1> DEFINE key == Head(run.todo)
           trial == Len(events) + 1
           e == Event("started", trial, key, <<>>)
<1>1. DOMAIN run = RunFields /\ IsList(run.todo) /\ run.todo # <<>> /\ IsList(events)
      /\ StartsKnown(events) /\ TodoKnown(run) /\ session \in Nat
  BY Known DEF StartTrial, AccountInv, EventsIn
<1>2. events' = Append(events, e) /\ Begin
  BY DEF StartTrial
<1>3. run'.todo = Tail(run.todo) /\ run'.check = run.check
  <2>1. \E at : run' = [run EXCEPT !.todo = Tail(@), !.open = Append(@, trial), !.at = at]
    BY DEF StartTrial
  <2>2. QED
    BY <1>1, <2>1 DEF RunFields
<1>4. e.key = key
  BY DEF Event
<1>5. key = run.todo[1] /\ 1 \in DOMAIN run.todo
      /\ \A n \in DOMAIN Tail(run.todo) : n + 1 \in DOMAIN run.todo /\ Tail(run.todo)[n] = run.todo[n + 1]
  BY <1>1, Tailed
<1> HIDE DEF key, e
<1>6. KnownKey(key) /\ TodoKnown(run')
  BY <1>1, <1>3, <1>5 DEF TodoKnown
<1>7. StartsKnown(events')
  BY <1>1, <1>2, <1>4, <1>6, ReceiptsKnown
<1>8. session' = 0 /\ AccountIn(Panels[run'.check].close, session', cash', shares', pending', equity')
  BY <1>2, BegunAccount
<1>9. QED
  BY <1>1, <1>6, <1>7, <1>8 DEF AccountInv, AccountOpen

LEMMA CompleteOpensAccount ==
  ASSUME FamilyInv, AccountInv, Complete
  PROVE  AccountInv' /\ session' # session + 1
<1>1. DOMAIN run = RunFields /\ StartsKnown(events) /\ session \in Nat
  BY Known DEF AccountInv
<1> DEFINE trial == Head(run.open)
           result == Returns(events[trial].key)
<1>2. /\ events' = events \/ Finish(trial, "completed", result)
      /\ \E at, kept : run' = [run EXCEPT !.open = Tail(@), !.at = at, !.kept = kept]
      /\ Begin
  <2>1. CASE Families[run.family].heldBack
    BY <2>1 DEF Complete
  <2>2. CASE ~Families[run.family].heldBack
    <3>1. Finish(trial, "completed", result) /\ Begin
          /\ run' = [run EXCEPT !.open = Tail(@), !.at = After(Tail(run.open))]
      BY <2>2 DEF Complete
    <3>2. run' = [run EXCEPT !.open = Tail(@), !.at = After(Tail(run.open)), !.kept = run.kept]
      BY <1>1, <3>1 DEF RunFields
    <3>3. QED
      BY <3>1, <3>2
  <2>3. QED
    BY <2>1, <2>2
<1> HIDE DEF trial, result
<1>3. run'.todo = run.todo /\ run'.check = run.check
  BY <1>1, <1>2 DEF RunFields
<1>4. StartsKnown(events')
  <2>1. "completed" \in Terminals
    BY DEF Terminals
  <2>2. CASE events' = events
    BY <1>1, <2>2
  <2>3. CASE Finish(trial, "completed", result)
    BY <1>1, <2>1, <2>3, FinishKnown
  <2>4. QED
    BY <1>2, <2>2, <2>3
<1>5. TodoKnown(run')
  BY <1>3 DEF AccountInv, TodoKnown
<1>6. session' = 0 /\ AccountIn(Panels[run'.check].close, session', cash', shares', pending', equity')
  BY <1>2, BegunAccount
<1>7. QED
  BY <1>1, <1>4, <1>5, <1>6 DEF AccountInv, AccountOpen

\* A session keeps the account, and what NeverOverdrawn says of it.
LEMMA EvaluateKeepsAccount ==
  ASSUME FamilyInv, AccountInv, Evaluate
  PROVE  AccountInv' /\ NeverOverdrawn
<1>1. /\ TrialsIn(events, run) /\ StageIn(run) /\ ShapeIn(run) /\ IsList(run.open)
      /\ run.at = "evaluate" /\ run.check \in Built
  BY Known DEF Evaluate, ShapeIn
<1> DEFINE trial == Head(run.open)
           key == events[trial].key
           t == session + 1
           decides == t \in DecisionsOf(key)
<1>2. /\ events' = events /\ run' = run
      /\ \E drawn : Session(run.check, decides, WeightsAt(key, t, drawn))
  BY DEF Evaluate
<1>3. trial \in StartsIn(events, run.family)
  <2>1. run.open # <<>>
    BY <1>1 DEF StageIn
  <2>2. 1 \in DOMAIN run.open /\ trial = run.open[1]
    BY <1>1, <2>1, Tailed
  <2>3. QED
    BY <1>1, <2>2 DEF TrialsIn
<1>4. KnownKey(key) /\ t \in Nat
  BY <1>3 DEF StartsIn, AccountInv, StartsKnown
<1>5. PICK drawn : Session(run.check, decides, WeightsAt(key, t, drawn))
  BY <1>2
<1>6. AccountIn(Panels[run.check].close, session, cash, shares, pending, equity)
  BY <1>1 DEF AccountInv, AccountOpen
<1> HIDE DEF decides, key, t
<1> DEFINE weights == WeightsAt(key, t, drawn)
<1>7. weights \in Amounts
  BY <1>1, <1>4, WeightsAtIsABook
<1> HIDE DEF weights
<1>8. Session(run.check, decides, weights)
  BY <1>5 DEF weights
<1>9. /\ AccountIn(Panels[run.check].close, session', cash', shares', pending', equity')
      /\ equity'[session'] = Before(equity, session) + Earned(Panels[run.check].close, session')
      /\ {f \in fills' : f.quantity > 0} # {} => cash' >= 0
      /\ \A f \in fills' :
           f.quantity < 0 => pending.target[f.ticker] - shares[f.ticker] - f.quantity = 0
      /\ \A f, g \in fills' :
           (/\ f.quantity > 0 /\ g.quantity > 0
            /\ pending.target[f.ticker] - shares[f.ticker] - f.quantity = 0) =>
           pending.target[g.ticker] - shares[g.ticker] - g.quantity = 0
  BY <1>1, <1>6, <1>7, <1>8, SessionKeepsAccount
<1>10. AccountInv'
  <2>1. session' \in Nat
    BY <1>8 DEF Session, AccountInv
  <2>2. StartsKnown(events') /\ TodoKnown(run')
    BY <1>2 DEF AccountInv
  <2>3. run'.check = run.check
    BY <1>2
  <2>4. QED
    BY <1>9, <2>1, <2>2, <2>3 DEF AccountInv, AccountOpen
<1>11. \A x \in Tickers : shares'[x] >= 0
  <2>1. shares' \in Amounts
    BY <1>9 DEF AccountIn
  <2>2. QED
    BY <2>1 DEF Amounts
<1>12. NeverOverdrawn
  BY <1>9, <1>11 DEF NeverOverdrawn, Before
<1>13. QED
  BY <1>10, <1>12

LEMMA AccountInvStep == FamilyInv /\ AccountInv /\ [Next]_vars => AccountInv' /\ [NeverOverdrawn]_vars
<1> SUFFICES ASSUME FamilyInv, AccountInv, [Next]_vars PROVE AccountInv' /\ [NeverOverdrawn]_vars
  OBVIOUS
<1>1. ASSUME session' # session + 1 PROVE NeverOverdrawn
  BY <1>1 DEF NeverOverdrawn
<1>2. CASE UNCHANGED vars
  BY <1>2 DEF vars, familyVars, ledgerVars, AccountInv, AccountOpen
<1>3. CASE Operator
  BY <1>1, <1>3, LaunchKeepsAccount, ResumeKeepsAccount DEF Operator
<1>4. CASE CloseDangling
  BY <1>1, <1>4, CloseKeepsAccount
<1>5. CASE AllDone
  BY <1>1, <1>5, AllDoneKeepsAccount
<1>6. CASE StartTrial
  BY <1>1, <1>6, StartOpensAccount
<1>7. CASE Evaluate
  BY <1>7, EvaluateKeepsAccount
<1>8. CASE Complete
  BY <1>1, <1>8, CompleteOpensAccount
<1>9. CASE Record
  BY <1>1, <1>9, RecordKeepsAccount
<1>10. CASE \E type \in {"errored", "abandoned"} : Raise(type)
  BY <1>1, <1>10, RaiseKeepsAccount
<1>11. CASE Unwind
  BY <1>1, <1>11, UnwindKeepsAccount
<1>12. CASE Kill
  BY <1>1, <1>12, KillKeepsAccount
<1>13. QED
  BY <1>2, <1>3, <1>4, <1>5, <1>6, <1>7, <1>8, <1>9, <1>10, <1>11, <1>12 DEF Next

LEMMA AccountInvStart == Init => AccountInv
<1> SUFFICES ASSUME Init PROVE AccountInv
  OBVIOUS
<1>1. events = <<>> /\ run = Off /\ session = 0
  BY DEF Init
<1>2. StartsKnown(events)
  BY <1>1, NothingListed DEF StartsKnown
<1>3. QED
  BY <1>1, <1>2, OffKnown DEF AccountInv, AccountOpen

\* The account of a series: at every session, on any panel a data check builds and
\* for any rules, what the close marks is what the session before marked, what the
\* shares moved and what the fills made less their cost; nothing is sold short, no
\* buy overdraws the cash, sells fill in full and all buys of an open share one cut.
THEOREM AccountsNeverOverdrawn == Spec => NeverOverdraws
<1>1. Init => FamilyInv /\ AccountInv
  BY FamilyInvStart, AccountInvStart
<1>2. FamilyInv /\ AccountInv /\ [Next]_vars => (FamilyInv /\ AccountInv)' /\ [NeverOverdrawn]_vars
  BY FamilyInvStep, AccountInvStep
<1>3. QED
  BY <1>1, <1>2, PTL DEF Spec, NeverOverdraws

=============================================================================
