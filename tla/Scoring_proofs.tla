--------------------------- MODULE Scoring_proofs ---------------------------
(***************************************************************************)
(* Theorems about the two ways the repository turns indicators into a      *)
(* score and a score into a decision: RiskAggregator with the policies, for *)
(* all answers, and Screening with the templates, for all profiles, users, *)
(* rules and thresholds.                                                   *)
(*                                                                         *)
(* Both add up weights over a finite set.  The sum is a recursive function *)
(* on the subsets of that set; that there is such a function, and what it  *)
(* computes, is proved first, by taking a smallest counterexample.         *)
(***************************************************************************)
EXTENDS RiskAggregator, Screening, FiniteSetTheorems, WellFoundedInduction, TLAPS

(* A family of subsets of a finite set has a member that includes no other. *)
LEMMA SmallestMember ==
    ASSUME NEW S, IsFiniteSet(S), NEW F \in SUBSET SUBSET S, F # {}
    PROVE  \E A \in F : \A B \in F : B \subseteq A => B = A
<1> DEFINE R == StrictSubsetOrdering(S)
<1>1. IsWellFoundedOn(R, SUBSET S)
  BY FS_StrictSubsetOrderingWellFounded, FS_FiniteSubsetsOfFinite
<1>2. \E A \in F : \A B \in F : ~ (<<B, A>> \in R)
  <2> HIDE DEF R
  <2>1. F \subseteq SUBSET S
    OBVIOUS
  <2> QED BY <1>1, <2>1, WFMin
<1>3. PICK A \in F : \A B \in F : ~ (<<B, A>> \in R)
  BY <1>2
<1>4. ASSUME NEW B \in F, B \subseteq A, B # A PROVE FALSE
  <2>1. <<B, A>> \in (SUBSET S) \X (SUBSET S)
    OBVIOUS
  <2>2. <<B, A>> \in R
    BY <1>4, <2>1 DEF StrictSubsetOrdering
  <2> QED BY <2>2, <1>3
<1> QED BY <1>4

(* A set of numbers up to n that has 0, and with k < n also k + 1, is full. *)
LEMMA UpToInduction ==
    ASSUME NEW n \in Nat, NEW G, 0 \in G,
           \A k \in 0..n : k < n /\ k \in G => k + 1 \in G
    PROVE  n \in G
<1> DEFINE Full == 0..n
           F == {0..k : k \in Full \ G}
<1>1. SUFFICES ASSUME n \notin G PROVE FALSE
  OBVIOUS
<1>2. IsFiniteSet(Full)
  BY FS_Interval
<1>3. F \in SUBSET SUBSET Full /\ F # {}
  BY <1>1
<1>4. PICK A \in F : \A B \in F : B \subseteq A => B = A
  <2> HIDE DEF F, Full
  <2> QED BY <1>2, <1>3, SmallestMember
<1>5. PICK k \in Full \ G : A = 0..k
  OBVIOUS
<1>6. k # 0 /\ k - 1 \in Full /\ k - 1 \notin G
  BY <1>5
<1>7. 0..(k - 1) \in F /\ 0..(k - 1) \subseteq A
  BY <1>5, <1>6
<1>8. 0..(k - 1) = 0..k
  BY <1>4, <1>5, <1>7
<1>9. k \in 0..k /\ k \notin 0..(k - 1)
  BY <1>5
<1> QED BY <1>8, <1>9

-----------------------------------------------------------------------------
(* g maps each part of the domain of w to the sum of w over that part.     *)
PartialSums(g, w) ==
    g = [T \in SUBSET DOMAIN w |->
            IF T = {} THEN 0
            ELSE w[CHOOSE x \in T : TRUE] + g[T \ {CHOOSE x \in T : TRUE}]]

(* The recursion that defines a sum is well-founded.                       *)
LEMMA PartialSumsExist ==
    ASSUME NEW w, IsFiniteSet(DOMAIN w)
    PROVE  \E g : PartialSums(g, w)
<1> DEFINE S == DOMAIN w
           UpTo(n) == {T \in SUBSET S : Cardinality(T) <= n}
           Step(g, T) == IF T = {} THEN 0
                         ELSE w[CHOOSE x \in T : TRUE] + g[T \ {CHOOSE x \in T : TRUE}]
           Part(g, n) == g = [T \in UpTo(n) |-> Step(g, T)]
           Good == {n \in Nat : \E g : Part(g, n)}
<1>1. 0 \in Good
  <2>1. UpTo(0) = {{}}
    BY FS_EmptySet, FS_Subset, FS_CardinalityType
  <2>2. Part([T \in UpTo(0) |-> 0], 0)
    BY <2>1
  <2> QED BY <2>2
<1>2. ASSUME NEW n \in Nat, n \in Good PROVE n + 1 \in Good
  <2>1. PICK g : Part(g, n)
    BY <1>2
  <2> DEFINE h == [T \in UpTo(n + 1) |-> Step(g, T)]
  <2>2. ASSUME NEW T \in UpTo(n + 1), T # {}
        PROVE  T \ {CHOOSE x \in T : TRUE} \in UpTo(n)
    <3> DEFINE c == CHOOSE x \in T : TRUE
    <3>1. IsFiniteSet(T) /\ Cardinality(T) \in Nat /\ T \in SUBSET S
      BY FS_Subset, FS_CardinalityType
    <3>2. c \in T
      BY <2>2
    <3> HIDE DEF c
    <3>3. Cardinality(T \ {c}) = Cardinality(T) - 1
      BY <3>1, <3>2, FS_RemoveElement
    <3>4. T \ {c} \in UpTo(n)
      BY <3>1, <3>3
    <3> QED BY <3>4 DEF c
  <2>3. ASSUME NEW T \in UpTo(n) PROVE T \in UpTo(n + 1) /\ h[T] = g[T]
    <3>1. Cardinality(T) \in Nat
      BY FS_Subset, FS_CardinalityType
    <3>2. T \in UpTo(n + 1)
      BY <3>1
    <3> QED BY <3>2, <2>1
  <2>4. ASSUME NEW T \in UpTo(n + 1) PROVE h[T] = Step(h, T)
    <3>1. h[T] = Step(g, T)
      OBVIOUS
    <3>2. CASE T = {}
      BY <3>1, <3>2
    <3>3. CASE T # {}
      <4>1. g[T \ {CHOOSE x \in T : TRUE}] = h[T \ {CHOOSE x \in T : TRUE}]
        BY <2>2, <2>3, <3>3
      <4> HIDE DEF h
      <4> QED BY <3>1, <3>3, <4>1
    <3> QED BY <3>2, <3>3
  <2>5. Part(h, n + 1)
    <3>1. h = [T \in UpTo(n + 1) |-> h[T]]
      OBVIOUS
    <3>2. \A T \in UpTo(n + 1) : h[T] = Step(h, T)
      BY <2>4
    <3> HIDE DEF h
    <3> QED BY <3>1, <3>2
  <2> HIDE DEF Part, h
  <2> QED BY <2>5
<1>3. Cardinality(S) \in Nat /\ UpTo(Cardinality(S)) = SUBSET S
  BY FS_CardinalityType, FS_Subset
<1>4. Cardinality(S) \in Good
  <2> DEFINE m == Cardinality(S)
  <2>1. m \in Nat
    BY <1>3
  <2> HIDE DEF Good, m
  <2>2. \A k \in 0..m : k < m /\ k \in Good => k + 1 \in Good
    BY <2>1, <1>2
  <2>3. m \in Good
    BY <1>1, <2>1, <2>2, UpToInduction
  <2> QED BY <2>3 DEF m
<1>5. PICK g : Part(g, Cardinality(S))
  BY <1>4
<1> QED BY <1>3, <1>5 DEF PartialSums

(* SumFunction of the library is such a function at the whole domain.      *)
LEMMA SumIsPartialSum ==
    ASSUME NEW w, IsFiniteSet(DOMAIN w)
    PROVE  \E g : PartialSums(g, w) /\ SumFunction(w) = g[DOMAIN w]
<1> DEFINE iter == CHOOSE g : PartialSums(g, w)
<1>1. PartialSums(iter, w)
  BY PartialSumsExist
<1>2. SumFunction(w) = iter[DOMAIN w]
  BY DEF SumFunction, SumFunctionOnSet, FoldFunctionOnSet, MapThenFoldSet, PartialSums
<1> QED BY <1>1, <1>2

(* What holds of {} and of T, if it holds of T without one member, holds   *)
(* of every subset.                                                        *)
LEMMA SubsetInduction ==
    ASSUME NEW S, IsFiniteSet(S), NEW G, {} \in G,
           \A T \in SUBSET S :
               T # {} /\ T \ {CHOOSE x \in T : TRUE} \in G => T \in G
    PROVE  SUBSET S \subseteq G
<1> DEFINE F == (SUBSET S) \ G
<1>1. SUFFICES ASSUME F # {} PROVE FALSE
  OBVIOUS
<1>2. F \in SUBSET SUBSET S
  OBVIOUS
<1>3. PICK A \in F : \A B \in F : B \subseteq A => B = A
  <2> HIDE DEF F
  <2> QED BY <1>1, <1>2, SmallestMember
<1> DEFINE c == CHOOSE x \in A : TRUE
<1>4. A # {} /\ c \in A
  OBVIOUS
<1>5. A \ {c} \in F
  OBVIOUS
<1> QED BY <1>3, <1>4, <1>5

(* A sum of natural numbers is one.                                        *)
LEMMA SumType ==
    ASSUME NEW S, IsFiniteSet(S), NEW w \in [S -> Nat]
    PROVE  SumFunction(w) \in Nat
<1>1. PICK g : PartialSums(g, w) /\ SumFunction(w) = g[DOMAIN w]
  BY SumIsPartialSum
<1> DEFINE G == {T \in SUBSET S : g[T] \in Nat}
<1>2. {} \in G
  BY <1>1 DEF PartialSums
<1>3. ASSUME NEW T \in SUBSET S, T # {}, T \ {CHOOSE x \in T : TRUE} \in G
      PROVE  T \in G
  <2>1. w[CHOOSE x \in T : TRUE] \in Nat
    BY <1>3
  <2>2. g[T] = w[CHOOSE x \in T : TRUE] + g[T \ {CHOOSE x \in T : TRUE}]
    BY <1>1, <1>3 DEF PartialSums
  <2> QED BY <2>1, <2>2, <1>3
<1>4. SUBSET S \subseteq G
  <2> HIDE DEF G
  <2> QED BY <1>2, <1>3, SubsetInduction
<1> QED BY <1>1, <1>4

(* The sum of nothing is 0.                                                *)
LEMMA SumEmpty ==
    ASSUME NEW w, DOMAIN w = {}
    PROVE  SumFunction(w) = 0
<1>1. PICK g : PartialSums(g, w) /\ SumFunction(w) = g[DOMAIN w]
  BY SumIsPartialSum, FS_EmptySet
<1> QED BY <1>1 DEF PartialSums

(* A sum with a positive term is positive.                                 *)
LEMMA SumPositive ==
    ASSUME NEW S, IsFiniteSet(S), NEW w \in [S -> Nat], \E i \in S : w[i] > 0
    PROVE  SumFunction(w) > 0
<1>1. PICK g : PartialSums(g, w) /\ SumFunction(w) = g[DOMAIN w]
  BY SumIsPartialSum
<1> DEFINE G == {T \in SUBSET S : g[T] \in Nat /\ ((\E i \in T : w[i] > 0) => g[T] > 0)}
<1>2. {} \in G
  BY <1>1 DEF PartialSums
<1>3. ASSUME NEW T \in SUBSET S, T # {}, T \ {CHOOSE x \in T : TRUE} \in G
      PROVE  T \in G
  <2> DEFINE c == CHOOSE x \in T : TRUE
             R == T \ {c}
  <2>1. c \in S /\ (\A i \in T : i = c \/ i \in R)
    BY <1>3
  <2>2. g[T] = w[c] + g[R]
    BY <1>1, <1>3 DEF PartialSums
  <2>3. g[R] \in Nat /\ ((\E i \in R : w[i] > 0) => g[R] > 0)
    BY <1>3
  <2> HIDE DEF c, R
  <2>4. w[c] \in Nat
    BY <2>1
  <2>5. (\E i \in T : w[i] > 0) => g[T] > 0
    BY <2>1, <2>2, <2>3, <2>4
  <2> QED BY <2>2, <2>3, <2>4, <2>5
<1>4. SUBSET S \subseteq G
  <2> HIDE DEF G
  <2> QED BY <1>2, <1>3, SubsetInduction
<1> QED BY <1>1, <1>4

(* If each term of u is at least k times that of w, so is the sum.         *)
LEMMA SumAtLeast ==
    ASSUME NEW S, IsFiniteSet(S), NEW w \in [S -> Nat], NEW u \in [S -> Nat],
           NEW k \in Nat, \A i \in S : u[i] >= k * w[i]
    PROVE  SumFunction(u) >= k * SumFunction(w)
<1>1. PICK g : PartialSums(g, w) /\ SumFunction(w) = g[DOMAIN w]
  BY SumIsPartialSum
<1>2. PICK h : PartialSums(h, u) /\ SumFunction(u) = h[DOMAIN u]
  BY SumIsPartialSum
<1> DEFINE G == {T \in SUBSET S : g[T] \in Nat /\ h[T] \in Nat /\ h[T] >= k * g[T]}
<1>3. {} \in G
  BY <1>1, <1>2 DEF PartialSums
<1>4. ASSUME NEW T \in SUBSET S, T # {}, T \ {CHOOSE x \in T : TRUE} \in G
      PROVE  T \in G
  <2> DEFINE c == CHOOSE x \in T : TRUE
             R == T \ {c}
  <2>1. c \in S
    BY <1>4
  <2>2. g[T] = w[c] + g[R] /\ h[T] = u[c] + h[R]
    BY <1>1, <1>2, <1>4 DEF PartialSums
  <2>3. g[R] \in Nat /\ h[R] \in Nat /\ h[R] >= k * g[R]
    BY <1>4
  <2> HIDE DEF c, R
  <2>4. w[c] \in Nat /\ u[c] \in Nat /\ u[c] >= k * w[c]
    BY <2>1
  <2>5. k * (w[c] + g[R]) = k * w[c] + k * g[R]
    BY <2>3, <2>4
  <2>6. k * w[c] \in Nat /\ k * g[R] \in Nat
    BY <2>3, <2>4
  <2>7. u[c] + h[R] >= k * w[c] + k * g[R]
    BY <2>3, <2>4, <2>6
  <2> QED BY <2>2, <2>3, <2>4, <2>5, <2>7
<1>5. SUBSET S \subseteq G
  <2> HIDE DEF G
  <2> QED BY <1>3, <1>4, SubsetInduction
<1> QED BY <1>1, <1>2, <1>5

(* If each term of u is at most k times that of w, so is the sum.          *)
LEMMA SumAtMost ==
    ASSUME NEW S, IsFiniteSet(S), NEW w \in [S -> Nat], NEW u \in [S -> Nat],
           NEW k \in Nat, \A i \in S : u[i] <= k * w[i]
    PROVE  SumFunction(u) <= k * SumFunction(w)
<1>1. PICK g : PartialSums(g, w) /\ SumFunction(w) = g[DOMAIN w]
  BY SumIsPartialSum
<1>2. PICK h : PartialSums(h, u) /\ SumFunction(u) = h[DOMAIN u]
  BY SumIsPartialSum
<1> DEFINE G == {T \in SUBSET S : g[T] \in Nat /\ h[T] \in Nat /\ h[T] <= k * g[T]}
<1>3. {} \in G
  BY <1>1, <1>2 DEF PartialSums
<1>4. ASSUME NEW T \in SUBSET S, T # {}, T \ {CHOOSE x \in T : TRUE} \in G
      PROVE  T \in G
  <2> DEFINE c == CHOOSE x \in T : TRUE
             R == T \ {c}
  <2>1. c \in S
    BY <1>4
  <2>2. g[T] = w[c] + g[R] /\ h[T] = u[c] + h[R]
    BY <1>1, <1>2, <1>4 DEF PartialSums
  <2>3. g[R] \in Nat /\ h[R] \in Nat /\ h[R] <= k * g[R]
    BY <1>4
  <2> HIDE DEF c, R
  <2>4. w[c] \in Nat /\ u[c] \in Nat /\ u[c] <= k * w[c]
    BY <2>1
  <2>5. k * (w[c] + g[R]) = k * w[c] + k * g[R]
    BY <2>3, <2>4
  <2>6. k * w[c] \in Nat /\ k * g[R] \in Nat
    BY <2>3, <2>4
  <2>7. u[c] + h[R] <= k * w[c] + k * g[R]
    BY <2>3, <2>4, <2>6
  <2> QED BY <2>2, <2>3, <2>4, <2>5, <2>7
<1>5. SUBSET S \subseteq G
  <2> HIDE DEF G
  <2> QED BY <1>3, <1>4, SubsetInduction
<1> QED BY <1>1, <1>2, <1>5

-----------------------------------------------------------------------------
(* A member of a sequence over S is in S.                                  *)
LEMMA SeqMember ==
    ASSUME NEW S, NEW s \in Seq(S), NEW i \in DOMAIN s
    PROVE  s[i] \in S
OBVIOUS

(* The answers are what the providers may answer.                          *)
AnswersOK == trm \in TrmAnswers /\ chainalysis \in ChainalysisAnswers

(* AnswersOK is an invariant of the aggregation.                           *)
LEMMA AnswersInvariant == AggregationSpec => []AnswersOK
<1>1. AggregationInit => AnswersOK
  BY DEF AggregationInit, AnswersOK
<1>2. AnswersOK /\ [AggregationNext]_<<trm, chainalysis>> => AnswersOK'
  BY DEF AnswersOK, AggregationNext
<1> QED BY <1>1, <1>2, PTL DEF AggregationSpec

Sound == {a \in Indicator : a.confidence > 0}
TrmPart == IF trm = NoAnswer THEN <<>> ELSE trm_indicators(trm)
ChainalysisPart ==
    IF chainalysis = NoAnswer THEN <<>> ELSE convert_chainalysis_indicators(chainalysis)
OnTheList == [category |-> "Sanctions", score |-> 100, confidence |-> 100]

(* The indicators of each provider are categories, scores and confidences, *)
(* and a confidence is never 0; those of Chainalysis end with its list.    *)
LEMMA PartsType ==
    ASSUME AnswersOK
    PROVE  /\ TrmPart \in Seq(Sound) /\ ChainalysisPart \in Seq(Sound)
           /\ chainalysis # NoAnswer /\ chainalysis.is_sanctioned
                  => \E s \in Seq(Sound) : ChainalysisPart = s \o <<OnTheList>>
<1> DEFINE t == TrmPart
           c == ChainalysisPart
<1> USE DEF TrmPart, ChainalysisPart
<1>1. t \in Seq(Sound)
  <2>1. CASE trm = NoAnswer
    BY <2>1
  <2>2. CASE trm # NoAnswer
    <3>1. trm \in Seq([category : RiskCategory, severity : Severity])
      BY <2>2, AnswersAssumption DEF AnswersOK
    <3>2. ASSUME NEW s PROVE severity_score(s) \in 0..100
      BY DEF severity_score
    <3>3. ASSUME NEW i \in DOMAIN trm PROVE trm_indicators(trm)[i] \in Sound
      <4>1. trm[i] \in [category : RiskCategory, severity : Severity]
        BY <3>1, SeqMember
      <4>2. severity_score(trm[i].severity) \in 0..100
        BY <3>2
      <4>3. trm_indicators(trm)[i] =
              [category |-> trm[i].category,
               score |-> severity_score(trm[i].severity), confidence |-> 85]
        BY DEF trm_indicators
      <4> QED BY <4>1, <4>2, <4>3 DEF Indicator, Sound
    <3>4. DOMAIN trm = 1..Len(trm) /\ Len(trm) \in Nat
      BY <3>1
    <3>5. trm_indicators(trm) = [i \in 1..Len(trm) |-> trm_indicators(trm)[i]]
      BY <3>4 DEF trm_indicators
    <3> QED BY <2>2, <3>3, <3>4, <3>5
  <2> QED BY <2>1, <2>2
<1>2. /\ c \in Seq(Sound)
      /\ chainalysis # NoAnswer /\ chainalysis.is_sanctioned
             => \E s \in Seq(Sound) : c = s \o <<OnTheList>>
  <2>1. CASE chainalysis = NoAnswer
    BY <2>1
  <2>2. CASE chainalysis # NoAnswer
    <3> DEFINE scores == chainalysis.category_scores
               converted == [i \in DOMAIN scores |->
                   [category |-> chainalysis_category(scores[i].category),
                    score |-> scores[i].score, confidence |-> 90]]
               listed == IF chainalysis.is_sanctioned
                         THEN <<OnTheList>> ELSE <<>>
    <3>1. scores \in Seq([category : STRING, score : 0..100])
      BY <2>2, AnswersAssumption DEF AnswersOK
    <3>2. ASSUME NEW s PROVE chainalysis_category(s) \in RiskCategory
      BY DEF chainalysis_category, RiskCategory
    <3>3. ASSUME NEW i \in DOMAIN scores PROVE converted[i] \in Sound
      <4>1. scores[i] \in [category : STRING, score : 0..100]
        <5> HIDE DEF scores
        <5> QED BY <3>1, SeqMember
      <4>2. chainalysis_category(scores[i].category) \in RiskCategory
        BY <3>2
      <4>3. converted[i] = [category |-> chainalysis_category(scores[i].category),
                            score |-> scores[i].score, confidence |-> 90]
        OBVIOUS
      <4> HIDE DEF converted, scores
      <4> QED BY <4>1, <4>2, <4>3 DEF Indicator, Sound
    <3>4. DOMAIN scores = 1..Len(scores) /\ Len(scores) \in Nat
      BY <3>1
    <3>5. converted \in Seq(Sound)
      <4>1. converted = [i \in 1..Len(scores) |-> converted[i]]
        BY <3>4
      <4> HIDE DEF converted
      <4> QED BY <3>3, <3>4, <4>1
    <3>6. listed \in Seq(Sound)
      <4>1. OnTheList \in Sound
        BY DEF Indicator, RiskCategory, Sound, OnTheList
      <4> QED BY <4>1
    <3>7. c = converted \o listed
      BY <2>2 DEF convert_chainalysis_indicators, OnTheList
    <3>8. chainalysis.is_sanctioned => listed = <<OnTheList>>
      OBVIOUS
    <3> HIDE DEF converted, listed, ChainalysisPart
    <3> QED BY <3>5, <3>6, <3>7, <3>8
  <2> QED BY <2>1, <2>2
<1> QED BY <1>1, <1>2

(* So are all of them.                                                     *)
LEMMA EvidenceType ==
    ASSUME AnswersOK
    PROVE  /\ evidence \in Seq(Indicator)
           /\ \A i \in DOMAIN evidence : evidence[i].confidence > 0
<1>1. evidence = TrmPart \o ChainalysisPart
  BY DEF evidence, indicators, TrmPart, ChainalysisPart
<1>2. evidence \in Seq(Sound)
  BY <1>1, PartsType
<1>3. evidence \in Seq(Indicator)
  BY <1>2 DEF Sound
<1>4. ASSUME NEW i \in DOMAIN evidence PROVE evidence[i].confidence > 0
  <2>1. evidence[i] \in Sound
    BY <1>2, SeqMember
  <2> QED BY <2>1 DEF Sound
<1> QED BY <1>3, <1>4

(* A product grows with its factor.                                        *)
LEMMA TimesInOrder ==
    ASSUME NEW x \in Nat, NEW a \in Nat, NEW b \in Nat, a <= b
    PROVE  a * x <= b * x
<1>1. PICK d \in Nat : b = a + d
  <2>1. b - a \in Nat /\ b = a + (b - a)
    OBVIOUS
  <2> QED BY <2>1
<1>2. b * x = a * x + d * x /\ a * x \in Nat /\ d * x \in Nat
  BY <1>1
<1> QED BY <1>2

(* A quotient is at least b if the dividend is at least b times the        *)
(* divisor, and at most b if it is at most that.                           *)
LEMMA QuotientBounds ==
    ASSUME NEW x \in Nat, NEW y \in Nat, y > 0, NEW b \in Nat
    PROVE  /\ x \div y \in Nat
           /\ x >= b * y => x \div y >= b
           /\ x <= b * y => x \div y <= b
<1> DEFINE q == x \div y
<1>1. q \in Nat /\ y * q <= x /\ x < y * (q + 1)
  OBVIOUS
<1> HIDE DEF q
<1>2. ASSUME x >= b * y, q < b PROVE FALSE
  <2>1. PICK d \in Nat : b = q + 1 + d
    <3>1. b - (q + 1) \in Nat /\ b = q + 1 + (b - (q + 1))
      BY <1>1, <1>2
    <3> QED BY <3>1
  <2>2. b * y = y * (q + 1) + d * y /\ d * y \in Nat /\ y * (q + 1) \in Nat
    BY <1>1, <2>1
  <2> QED BY <1>1, <1>2, <2>2
<1>3. ASSUME x <= b * y, q > b PROVE FALSE
  <2>1. PICK d \in Nat : q = b + 1 + d
    <3>1. q - (b + 1) \in Nat /\ q = b + 1 + (q - (b + 1))
      BY <1>1, <1>3
    <3> QED BY <3>1
  <2>2. y * q = b * y + y + d * y /\ d * y \in Nat /\ b * y \in Nat
    BY <1>1, <2>1
  <2> QED BY <1>1, <1>3, <2>2
<1> QED BY <1>1, <1>2, <1>3 DEF q

(* The scaling maps an average to whole points up to 100, and an average   *)
(* of 87 or more to at least 90.  It takes no point off an average, and    *)
(* adds none to one of up to 60.                                           *)
LEMMA ScalingBounds ==
    ASSUME NEW sum \in Nat, NEW total \in Nat, total > 0
    PROVE  /\ apply_nonlinear_scaling(sum, total) \in 0..100
           /\ sum >= 87 * total => apply_nonlinear_scaling(sum, total) >= 90
           /\ \A b \in 0..100 :
                  sum >= b * total => apply_nonlinear_scaling(sum, total) >= b
           /\ \A b \in 0..60 :
                  sum <= b * total => apply_nonlinear_scaling(sum, total) <= b
<1> DEFINE high == (3 * sum - 80 * total) \div (2 * total)
           mid  == (13 * sum - 180 * total) \div (10 * total)
           low  == sum \div total
<1>1. sum > 80 * total => high \in Nat
  OBVIOUS
<1>2. sum > 60 * total => mid \in Nat
  OBVIOUS
<1>3. low \in Nat
  OBVIOUS
<1>4. sum >= 87 * total => high >= 90
  OBVIOUS
<1>5. ASSUME NEW b \in 0..100, sum >= b * total
      PROVE  /\ sum > 80 * total => high >= b
             /\ sum > 60 * total => mid >= b
             /\ low >= b
  <2> DEFINE m == b * total
  <2>1. m \in Nat /\ b * (2 * total) = 2 * m /\ b * (10 * total) = 10 * m /\ sum >= m
    BY <1>5
  <2>2. low >= b
    BY <1>5, QuotientBounds
  <2> HIDE DEF m
  <2>3. ASSUME sum > 80 * total PROVE high >= b
    <3>1. 3 * sum - 80 * total \in Nat /\ 2 * total \in Nat /\ 2 * total > 0
      BY <2>3
    <3>2. 3 * sum - 80 * total >= b * (2 * total)
      BY <2>1, <2>3
    <3> QED BY <3>1, <3>2, QuotientBounds
  <2>4. ASSUME sum > 60 * total PROVE mid >= b
    <3>1. 13 * sum - 180 * total \in Nat /\ 10 * total \in Nat /\ 10 * total > 0
      BY <2>4
    <3>2. 13 * sum - 180 * total >= b * (10 * total)
      BY <2>1, <2>4
    <3> QED BY <3>1, <3>2, QuotientBounds
  <2> QED BY <2>2, <2>3, <2>4
<1>6. ASSUME NEW b \in 0..60, sum <= b * total
      PROVE  sum <= 60 * total /\ low <= b
  <2>1. b * total <= 60 * total
    <3>1. (60 - b) * total \in Nat /\ 60 * total = b * total + (60 - b) * total
      BY <1>6
    <3> QED BY <3>1
  <2>2. low <= b
    BY <1>6, QuotientBounds
  <2> QED BY <1>6, <2>1, <2>2
<1>7. CASE sum > 80 * total
  <2>1. apply_nonlinear_scaling(sum, total) = IF high > 100 THEN 100 ELSE high
    BY <1>7 DEF apply_nonlinear_scaling
  <2> HIDE DEF high, mid, low
  <2> QED BY <1>1, <1>4, <1>5, <1>6, <1>7, <2>1
<1>8. CASE sum > 60 * total /\ sum <= 80 * total
  <2>1. apply_nonlinear_scaling(sum, total) = IF mid > 100 THEN 100 ELSE mid
    BY <1>8 DEF apply_nonlinear_scaling
  <2> HIDE DEF high, mid, low
  <2> QED BY <1>2, <1>5, <1>6, <1>8, <2>1
<1>9. CASE sum <= 60 * total
  <2>1. apply_nonlinear_scaling(sum, total) = IF low > 100 THEN 100 ELSE low
    BY <1>9 DEF apply_nonlinear_scaling
  <2> HIDE DEF high, mid, low
  <2> QED BY <1>3, <1>5, <1>6, <1>9, <2>1
<1> QED BY <1>7, <1>8, <1>9

(* The score is in whole points up to 100, whatever the providers answer,  *)
(* and at least 90 if every indicator is at 87 or more.  It is 0 without   *)
(* indicators, never below all of them, and not above all of them if they  *)
(* are at 60 or less.                                                      *)
LEMMA ScoreBounds ==
    ASSUME AnswersOK
    PROVE  /\ aggregated.score \in 0..100
           /\ evidence # <<>> /\ (\A i \in DOMAIN evidence : evidence[i].score >= 87)
              => aggregated.score >= 90
           /\ evidence = <<>> => aggregated.score = 0
           /\ \A b \in 0..100 :
                  evidence # <<>> /\ (\A i \in DOMAIN evidence : evidence[i].score >= b)
                      => aggregated.score >= b
           /\ \A b \in 0..60 :
                  (\A i \in DOMAIN evidence : evidence[i].score <= b) => aggregated.score <= b
<1> DEFINE S == DOMAIN evidence
           w == [i \in S |-> weight(evidence[i].category) * evidence[i].confidence]
           u == [i \in S |-> evidence[i].score * w[i]]
<1>1. evidence \in Seq(Indicator) /\ \A i \in S : evidence[i].confidence > 0
  BY EvidenceType
<1>2. IsFiniteSet(S)
  <2>1. S = 1..Len(evidence) /\ Len(evidence) \in Nat
    BY <1>1
  <2> QED BY <2>1, FS_Interval
<1>3. ASSUME NEW i \in S
      PROVE  w[i] \in Nat /\ w[i] > 0 /\ u[i] \in Nat
             /\ \A b \in 0..100 : /\ evidence[i].score >= b => u[i] >= b * w[i]
                                  /\ evidence[i].score <= b => u[i] <= b * w[i]
  <2> DEFINE a == weight(evidence[i].category)
             c == evidence[i].confidence
             d == evidence[i].score
  <2>1. evidence[i] \in Indicator
    BY <1>1, SeqMember
  <2>2. a \in 10..20
    BY <2>1 DEF Indicator, RiskCategory, weight
  <2>3. c \in 1..100 /\ d \in 0..100
    <3> DEFINE e == evidence[i]
    <3>1. e \in Indicator /\ e.confidence > 0
      BY <1>1, <2>1
    <3> HIDE DEF e
    <3>2. e.confidence \in 1..100 /\ e.score \in 0..100
      BY <3>1 DEF Indicator
    <3> QED BY <3>2 DEF e
  <2>4. w[i] = a * c /\ u[i] = d * w[i]
    OBVIOUS
  <2> HIDE DEF a, c, d, w, u
  <2>5. w[i] \in Nat /\ w[i] > 0
    BY <2>2, <2>3, <2>4
  <2>6. d * w[i] \in Nat
    BY <2>3, <2>5
  <2>7. ASSUME NEW b \in 0..100
        PROVE  /\ d >= b => u[i] >= b * w[i]
               /\ d <= b => u[i] <= b * w[i]
    <3>1. ASSUME d >= b PROVE u[i] >= b * w[i]
      BY <2>3, <2>4, <2>5, <3>1, TimesInOrder
    <3>2. ASSUME d <= b PROVE u[i] <= b * w[i]
      BY <2>3, <2>4, <2>5, <3>2, TimesInOrder
    <3> QED BY <3>1, <3>2
  <2> QED BY <2>4, <2>5, <2>6, <2>7 DEF d
<1>4. w \in [S -> Nat] /\ u \in [S -> Nat]
  BY <1>3
<1> DEFINE total == SumFunction(w)
           sum == SumFunction(u)
<1>5. aggregated.score = IF total = 0 THEN 0 ELSE apply_nonlinear_scaling(sum, total)
  BY DEF aggregated, aggregate_wallet_risk, calculate_overall_score, evidence
<1>6. total \in Nat /\ sum \in Nat
  <2> HIDE DEF w, u, S
  <2> QED BY <1>2, <1>4, SumType
<1> DEFINE scaled == apply_nonlinear_scaling(sum, total)
<1>7. ASSUME total > 0
      PROVE  /\ scaled \in 0..100
             /\ sum >= 87 * total => scaled >= 90
             /\ \A b \in 0..100 : sum >= b * total => scaled >= b
             /\ \A b \in 0..60 : sum <= b * total => scaled <= b
  <2> HIDE DEF total, sum
  <2> QED BY <1>6, <1>7, ScalingBounds
<1>8. evidence = <<>> => total = 0
  BY SumEmpty
<1>9. evidence # <<>> => total > 0
  <2> SUFFICES ASSUME evidence # <<>> PROVE total > 0
    OBVIOUS
  <2>1. \E i \in S : w[i] > 0
    <3>1. S # {}
      BY <1>1
    <3> QED BY <3>1, <1>3
  <2> HIDE DEF w, u, S
  <2> QED BY <1>2, <1>4, <2>1, SumPositive
<1>10. ASSUME NEW b \in 0..100
       PROVE  /\ (\A i \in S : evidence[i].score >= b) => sum >= b * total
              /\ (\A i \in S : evidence[i].score <= b) => sum <= b * total
  <2>1. ASSUME \A i \in S : evidence[i].score >= b PROVE sum >= b * total
    <3>1. \A i \in S : u[i] >= b * w[i]
      BY <1>3, <2>1
    <3> HIDE DEF w, u, S
    <3> QED BY <1>2, <1>4, <3>1, SumAtLeast
  <2>2. ASSUME \A i \in S : evidence[i].score <= b PROVE sum <= b * total
    <3>1. \A i \in S : u[i] <= b * w[i]
      BY <1>3, <2>2
    <3> HIDE DEF w, u, S
    <3> QED BY <1>2, <1>4, <3>1, SumAtMost
  <2> QED BY <2>1, <2>2
<1> HIDE DEF total, sum, scaled
<1>11. aggregated.score = IF total = 0 THEN 0 ELSE scaled
  BY <1>5 DEF scaled
<1>12. aggregated.score \in 0..100
  BY <1>6, <1>7, <1>11
<1>13. ASSUME evidence # <<>>, \A i \in S : evidence[i].score >= 87
       PROVE  aggregated.score >= 90
  <2>1. sum >= 87 * total
    BY <1>10, <1>13
  <2> QED BY <1>6, <1>7, <1>9, <1>11, <1>13, <2>1
<1>14. ASSUME NEW b \in 0..100, evidence # <<>>, \A i \in S : evidence[i].score >= b
       PROVE  aggregated.score >= b
  <2>1. sum >= b * total
    BY <1>10, <1>14
  <2>2. total > 0
    BY <1>9, <1>14
  <2>3. scaled >= b
    BY <1>7, <2>1, <2>2
  <2> QED BY <1>6, <1>11, <2>2, <2>3
<1>15. ASSUME NEW b \in 0..60, \A i \in S : evidence[i].score <= b
       PROVE  aggregated.score <= b
  <2>1. b \in 0..100
    OBVIOUS
  <2>2. sum <= b * total
    BY <1>10, <1>15, <2>1
  <2>3. total > 0 => scaled <= b
    BY <1>7, <2>2
  <2>4. b >= 0
    OBVIOUS
  <2> QED BY <1>6, <1>11, <2>3, <2>4
<1> QED BY <1>8, <1>11, <1>12, <1>13, <1>14, <1>15

(* The score follows the indicators, and no provider's indicator is lost:  *)
(* without evidence it is 0, it is never below what every indicator says,  *)
(* and above what every indicator says only if one of them is over 60,     *)
(* where the scaling begins; the category of every TRM indicator and the   *)
(* sanctions list of Chainalysis are in the profile.                       *)
ProfileOfEvidence ==
    /\ aggregated \in Profile
    /\ evidence = <<>> => aggregated.score = 0
    /\ \A b \in 0..100 :
           evidence # <<>> /\ (\A i \in DOMAIN evidence : evidence[i].score >= b)
               => aggregated.score >= b
    /\ \A b \in 0..60 :
           (\A i \in DOMAIN evidence : evidence[i].score <= b) => aggregated.score <= b
    /\ trm # NoAnswer => \A i \in DOMAIN trm : trm[i].category \in aggregated.categories
    /\ chainalysis # NoAnswer /\ chainalysis.is_sanctioned
           => "Sanctions" \in aggregated.categories

(* aggregate_wallet_risk (aggregator.rs) makes of any two answers a        *)
(* profile of the policies' type that agrees with the evidence.            *)
THEOREM AggregatedProfile == AggregationSpec => []ProfileOfEvidence
<1>1. ASSUME AnswersOK PROVE aggregated \in Profile
  <2> DEFINE score == calculate_overall_score(evidence)
             cats  == {evidence[i].category : i \in DOMAIN evidence}
             srcs  == (IF trm = NoAnswer THEN {} ELSE {"TrmLabs"})
                      \cup (IF chainalysis = NoAnswer THEN {} ELSE {"Chainalysis"})
  <2>1. aggregated = [score |-> score, categories |-> cats, sources |-> srcs]
    BY DEF aggregated, aggregate_wallet_risk, evidence
  <2>2. cats \subseteq RiskCategory
    <3>1. evidence \in Seq(Indicator)
      BY <1>1, EvidenceType
    <3>2. ASSUME NEW i \in DOMAIN evidence PROVE evidence[i].category \in RiskCategory
      <4>1. evidence[i] \in Indicator
        BY <3>1, SeqMember
      <4> QED BY <4>1 DEF Indicator
    <3> QED BY <3>2
  <2>3. srcs \subseteq DataSource
    BY DEF DataSource
  <2>4. score \in 0..100
    <3> HIDE DEF score, cats, srcs
    <3> QED BY <1>1, <2>1, ScoreBounds
  <2> HIDE DEF score, cats, srcs
  <2> QED BY <2>1, <2>2, <2>3, <2>4 DEF Profile
<1>2. ASSUME AnswersOK
      PROVE  /\ trm # NoAnswer =>
                    \A i \in DOMAIN trm : trm[i].category \in aggregated.categories
             /\ chainalysis # NoAnswer /\ chainalysis.is_sanctioned
                    => "Sanctions" \in aggregated.categories
  <2>1. TrmPart \in Seq(Sound) /\ ChainalysisPart \in Seq(Sound)
    BY <1>2, PartsType
  <2>2. evidence = TrmPart \o ChainalysisPart
    BY DEF evidence, indicators, TrmPart, ChainalysisPart
  <2>3. aggregated.categories = {evidence[i].category : i \in DOMAIN evidence}
    BY DEF aggregated, aggregate_wallet_risk, evidence
  <2>4. ASSUME trm # NoAnswer, NEW i \in DOMAIN trm
        PROVE  trm[i].category \in aggregated.categories
    <3>1. i \in DOMAIN TrmPart /\ TrmPart[i].category = trm[i].category
      BY <2>4 DEF TrmPart, trm_indicators
    <3>2. i \in DOMAIN evidence /\ evidence[i] = TrmPart[i]
      BY <2>1, <2>2, <3>1
    <3> QED BY <2>3, <3>1, <3>2
  <2>5. ASSUME chainalysis # NoAnswer, chainalysis.is_sanctioned
        PROVE  "Sanctions" \in aggregated.categories
    <3>1. PICK s \in Seq(Sound) : ChainalysisPart = s \o <<OnTheList>>
      BY <1>2, <2>5, PartsType
    <3> DEFINE k == Len(ChainalysisPart)
    <3>2. k = Len(s) + 1 /\ k \in DOMAIN ChainalysisPart /\ ChainalysisPart[k] = OnTheList
      BY <3>1
    <3>3. Len(TrmPart) + k \in DOMAIN evidence /\ evidence[Len(TrmPart) + k] = ChainalysisPart[k]
      BY <2>1, <2>2, <3>2
    <3>4. OnTheList.category = "Sanctions"
      BY DEF OnTheList
    <3> HIDE DEF k
    <3> QED BY <2>3, <3>2, <3>3, <3>4
  <2> QED BY <2>4, <2>5
<1>3. AnswersOK => ProfileOfEvidence
  BY <1>1, <1>2, ScoreBounds DEF ProfileOfEvidence
<1> QED BY <1>3, AnswersInvariant, PTL

(* What the service executes of the default policies, and on what profile. *)
(* The anomaly policy asks for an age, which is never known, and matches   *)
(* nothing.                                                                *)
LEMMA ExecutablePlan ==
    ASSUME NEW p, NEW a \in executable_actions(p)
    PROVE  \/ /\ a \in {Act("RevokeAttestation", 0, FALSE, 0),
                        Act("NotifyComplianceTeam", 5, FALSE, 1)}
              /\ level(p) = "Critical"
              /\ {"TrmLabs", "Chainalysis"} \subseteq p.sources
           \/ /\ a = Act("RequestAdditionalKyc", 60, FALSE, 3)
              /\ level(p) = "High"
           \/ /\ a \in {Act("FlagAttestation", 0, FALSE, 4), Act("NotifyUser", 120, FALSE, 5)}
              /\ level(p) = "Medium"
           \/ a = Act("EscalateToCompliance", 0, FALSE, 6)
<1>1. PICK q \in default_policies : matches_policy(q, p, {}, {}) /\ a \in q.actions
  BY DEF executable_actions, evaluate_policy
<1>2. ~a.approval
  BY DEF executable_actions
<1>3. CASE q = critical_risk
  BY <1>1, <1>3 DEF critical_risk, matches_policy, has_sources
<1>4. CASE q = high_risk
  BY <1>1, <1>2, <1>4 DEF high_risk, matches_policy, Act
<1>5. CASE q = medium_risk
  BY <1>1, <1>5 DEF medium_risk, matches_policy
<1>6. CASE q = sanctions_exposure
  BY <1>1, <1>2, <1>6 DEF sanctions_exposure, Act
<1>7. q # behavioral_anomaly
  <2>1. meets(q.age, {})
    BY <1>1 DEF matches_policy
  <2>2. behavioral_anomaly.age = {30}
    BY DEF behavioral_anomaly
  <2>3. ~meets({30}, {})
    BY DEF meets
  <2> QED BY <2>1, <2>2, <2>3
<1> QED BY <1>1, <1>3, <1>4, <1>5, <1>6, <1>7 DEF default_policies

(* RevocationIsCorroborated (policy/manager.rs): whatever one provider     *)
(* answers, it does not revoke without an answer of the other.             *)
THEOREM RevocationCorroborated == AggregationSpec => []RevocationIsCorroborated
<1>1. RevocationIsCorroborated
  <2>1. SUFFICES ASSUME "RevokeAttestation" \in plan
                 PROVE  NoAnswer \notin {trm, chainalysis}
    BY DEF RevocationIsCorroborated
  <2>2. PICK a \in executable_actions(aggregated) : a.type = "RevokeAttestation"
    BY <2>1 DEF plan
  <2>3. {"TrmLabs", "Chainalysis"} \subseteq aggregated.sources
    BY <2>2, ExecutablePlan DEF Act
  <2>4. aggregated.sources = (IF trm = NoAnswer THEN {} ELSE {"TrmLabs"})
                             \cup (IF chainalysis = NoAnswer THEN {} ELSE {"Chainalysis"})
    BY DEF aggregated, aggregate_wallet_risk
  <2> QED BY <2>3, <2>4
<1> QED BY <1>1, PTL

(* NoFlagAfterRevoke: no profile has a plan with both status entries.      *)
THEOREM FlagAndRevokeExclude == AggregationSpec => []NoFlagAfterRevoke
<1>1. NoFlagAfterRevoke
  <2>1. SUFFICES ASSUME {"FlagAttestation", "RevokeAttestation"} \subseteq plan
                 PROVE  FALSE
    BY DEF NoFlagAfterRevoke
  <2>2. PICK a \in executable_actions(aggregated) : a.type = "FlagAttestation"
    BY <2>1 DEF plan
  <2>3. PICK b \in executable_actions(aggregated) : b.type = "RevokeAttestation"
    BY <2>1 DEF plan
  <2>4. level(aggregated) = "Medium"
    BY <2>2, ExecutablePlan DEF Act
  <2>5. level(aggregated) = "Critical"
    BY <2>3, ExecutablePlan DEF Act
  <2> QED BY <2>4, <2>5
<1> QED BY <1>1, PTL

(* EnforceBeforeSleeping: in every plan, the entry on the chain is sorted  *)
(* before each action that the executor sleeps for.                        *)
THEOREM EnforcedFirst == AggregationSpec => []EnforceBeforeSleeping
<1>1. EnforceBeforeSleeping
  <2>1. SUFFICES ASSUME NEW a \in executable_actions(aggregated),
                        NEW b \in executable_actions(aggregated),
                        a.type \in {"FlagAttestation", "RevokeAttestation"}, b.delay > 0
                 PROVE  Before(a, b)
    BY DEF EnforceBeforeSleeping
  <2>2. \/ a = Act("RevokeAttestation", 0, FALSE, 0) /\ level(aggregated) = "Critical"
        \/ a = Act("FlagAttestation", 0, FALSE, 4) /\ level(aggregated) = "Medium"
    BY <2>1, ExecutablePlan DEF Act
  <2>3. \/ b = Act("NotifyComplianceTeam", 5, FALSE, 1)
        \/ b = Act("RequestAdditionalKyc", 60, FALSE, 3) /\ level(aggregated) = "High"
        \/ b = Act("NotifyUser", 120, FALSE, 5)
    BY <2>1, ExecutablePlan DEF Act
  <2>4. a.type \in {"FlagAttestation", "RevokeAttestation"} /\ action_priority(a.type) \in {2, 4}
    BY <2>2 DEF Act, action_priority
  <2>5. action_priority(b.type) = 1
    BY <2>2, <2>3 DEF Act, action_priority
  <2> QED BY <2>4, <2>5 DEF Before
<1> QED BY <1>1, PTL

(* UnanimousIsRevoked, for every critical threshold up to the 90 that      *)
(* RiskThresholds has by default: two answers whose indicators are all at  *)
(* 87 or more reach the threshold, whatever their weights, confidences and *)
(* number.                                                                 *)
THEOREM UnanimousRevocation ==
    ASSUME Critical <= 90
    PROVE  AggregationSpec => []UnanimousIsRevoked
<1>1. ASSUME AnswersOK PROVE UnanimousIsRevoked
  <2>1. SUFFICES ASSUME NoAnswer \notin {trm, chainalysis},
                        aggregated.categories \cap {"Sanctions", "IllicitActivity"} # {},
                        \A i \in DOMAIN evidence : evidence[i].score >= 87
                 PROVE  "RevokeAttestation" \in plan
    BY DEF UnanimousIsRevoked
  <2>2. evidence # <<>>
    <3>1. aggregated.categories = {evidence[i].category : i \in DOMAIN evidence}
      BY DEF aggregated, aggregate_wallet_risk, evidence
    <3>2. DOMAIN evidence # {}
      BY <2>1, <3>1
    <3> QED BY <3>2
  <2>3. aggregated.score \in 0..100 /\ aggregated.score >= 90
    BY <1>1, <2>1, <2>2, ScoreBounds
  <2>4. level(aggregated) = "Critical" /\ aggregated.score >= Critical
    BY <2>3, ThresholdsAssumption DEF level, risk_level_for_score
  <2>5. aggregated.sources = {"TrmLabs", "Chainalysis"}
    BY <2>1 DEF aggregated, aggregate_wallet_risk
  <2>6. matches_policy(critical_risk, aggregated, {}, {})
    BY <2>1, <2>4, <2>5 DEF matches_policy, critical_risk, meets, has_sources
  <2>7. Act("RevokeAttestation", 0, FALSE, 0) \in executable_actions(aggregated)
    BY <2>6 DEF executable_actions, evaluate_policy, default_policies, critical_risk, Act
  <2> QED BY <2>7 DEF plan, Act
<1> QED BY <1>1, AnswersInvariant, PTL

-----------------------------------------------------------------------------
(* Integer division is determined by its bounds.                           *)
LEMMA DivUnique ==
    ASSUME NEW a \in Int, NEW c \in Nat \ {0}, NEW q \in Int,
           c * q <= a, a < c * q + c
    PROVE  a \div c = q
<1> DEFINE d == a \div c
<1>1. d \in Int /\ c * d <= a /\ a < c * d + c
  OBVIOUS
<1> HIDE DEF d
<1>2. ASSUME d < q PROVE FALSE
  <2>1. c * (d + 1) <= c * q
    BY <1>1, <1>2
  <2>2. c * (d + 1) = c * d + c
    BY <1>1
  <2>3. c * d \in Int /\ c * q \in Int
    BY <1>1
  <2> QED BY <1>1, <2>1, <2>2, <2>3
<1>3. ASSUME q < d PROVE FALSE
  <2>1. c * (q + 1) <= c * d
    BY <1>1, <1>3
  <2>2. c * (q + 1) = c * q + c
    BY <1>1
  <2>3. c * d \in Int /\ c * q \in Int
    BY <1>1
  <2> QED BY <1>1, <2>1, <2>2, <2>3
<1> QED BY <1>1, <1>2, <1>3 DEF d

(* Division by a positive number is monotone.                              *)
LEMMA DivMonotone ==
    ASSUME NEW a \in Int, NEW b \in Int, NEW c \in Nat \ {0}, a <= b
    PROVE  a \div c <= b \div c
<1> DEFINE p == a \div c
           q == b \div c
<1>1. p \in Int /\ c * p <= a
  OBVIOUS
<1>2. q \in Int /\ b < c * q + c
  OBVIOUS
<1> HIDE DEF p, q
<1>3. ASSUME q < p PROVE FALSE
  <2>1. c * (q + 1) <= c * p
    BY <1>1, <1>2, <1>3
  <2>2. c * (q + 1) = c * q + c
    BY <1>2
  <2>3. c * p \in Int /\ c * q \in Int
    BY <1>1, <1>2
  <2> QED BY <1>1, <1>2, <2>1, <2>2, <2>3
<1> QED BY <1>1, <1>2, <1>3 DEF p, q

(* The day of the year counts the days before its month and in it.         *)
DayOfYear(d) == Days * Month(d) + Date(d)

(* A day is its year, which is not cut short by the calendar, and its day  *)
(* of the year; the months and dates of two days in one order are the      *)
(* order of their days of the year.                                        *)
LEMMA CalendarDay ==
    ASSUME NEW d \in Int
    PROVE  /\ Year(d) \in Int /\ Month(d) \in 0..(Months - 1) /\ Date(d) \in 0..(Days - 1)
           /\ DayOfYear(d) \in 0..(Months * Days - 1)
           /\ d = (Months * Days) * Year(d) + DayOfYear(d)
<1> DEFINE q == d \div Days
           y == q \div Months
<1>1. Months \in Nat \ {0} /\ Days \in Nat \ {0}
  BY CalendarAssumption
<1>2. q \in Int /\ Date(d) \in 0..(Days - 1) /\ d = Days * q + Date(d)
  BY <1>1 DEF Date
<1>3. y \in Int /\ Month(d) \in 0..(Months - 1) /\ q = Months * y + Month(d)
  <2> HIDE DEF q
  <2>1. q \in Int
    BY <1>2
  <2>2. y \in Int /\ q % Months \in 0..(Months - 1) /\ q = Months * y + (q % Months)
    BY <1>1, <2>1
  <2>3. Month(d) = q % Months
    BY DEF Month, q
  <2> QED BY <2>2, <2>3
<1> HIDE DEF q, y
<1>4. Days * Month(d) <= Days * (Months - 1)
  BY <1>1, <1>3
<1>5. Days * (Months - 1) = Months * Days - Days
  BY <1>1
<1>6. Days * Month(d) \in Nat /\ Months * Days \in Nat
  BY <1>1, <1>3
<1>7. DayOfYear(d) \in 0..(Months * Days - 1)
  BY <1>1, <1>2, <1>4, <1>5, <1>6 DEF DayOfYear
<1>8. Days * q = (Months * Days) * y + Days * Month(d)
  <2>1. Days * (Months * y + Month(d)) = Days * (Months * y) + Days * Month(d)
    BY <1>1, <1>3
  <2>2. Days * (Months * y) = (Months * Days) * y
    BY <1>1, <1>3
  <2> QED BY <1>3, <2>1, <2>2
<1>9. d = (Months * Days) * y + DayOfYear(d)
  <2>1. (Months * Days) * y \in Int /\ Days * Month(d) \in Int /\ Days * q \in Int
    BY <1>1, <1>2, <1>3
  <2> QED BY <1>2, <1>8, <2>1 DEF DayOfYear
<1>10. Year(d) = y
  <2> DEFINE c == Months * Days
  <2>1. c \in Nat \ {0}
    BY <1>1
  <2>2. c * y \in Int
    BY <1>3, <2>1
  <2>3. c * y <= d /\ d < c * y + c
    BY <1>7, <1>9, <2>1, <2>2
  <2>4. d \div c = y
    <3> HIDE DEF c
    <3> QED BY <1>3, <2>1, <2>3, DivUnique
  <2> QED BY <2>4 DEF Year
<1> QED BY <1>2, <1>3, <1>7, <1>9, <1>10

(* calculateAge counts the completed years, between any two days of any    *)
(* calendar.                                                               *)
LEMMA CompletedYears ==
    ASSUME NEW birth \in Int, NEW now \in Int
    PROVE  calculateAge(birth, now) = (now - ParseDate(birth)) \div (Months * Days)
<1> DEFINE b == ParseDate(birth)
           c == Months * Days
<1>1. b \in Int
  BY DEF ParseDate
<1>2. c \in Nat \ {0} /\ Days \in Nat \ {0}
  BY CalendarAssumption
<1> HIDE DEF b
<1>3. /\ Year(b) \in Int /\ Month(b) \in Nat /\ Date(b) \in 0..(Days - 1)
      /\ DayOfYear(b) \in 0..(c - 1) /\ b = c * Year(b) + DayOfYear(b)
  BY <1>1, CalendarDay
<1>4. /\ Year(now) \in Int /\ Month(now) \in Nat /\ Date(now) \in 0..(Days - 1)
      /\ DayOfYear(now) \in 0..(c - 1) /\ now = c * Year(now) + DayOfYear(now)
  BY CalendarDay
<1> HIDE DEF c
<1> DEFINE notYet == \/ Month(now) - Month(b) < 0
                     \/ Month(now) - Month(b) = 0 /\ Date(now) < Date(b)
<1>5. notYet <=> DayOfYear(now) < DayOfYear(b)
  <2>1. CASE Month(now) < Month(b)
    <3>1. Days * (Month(now) + 1) <= Days * Month(b)
      BY <1>2, <1>3, <1>4, <2>1
    <3>2. Days * (Month(now) + 1) = Days * Month(now) + Days
      BY <1>2, <1>4
    <3>3. Days * Month(now) \in Int /\ Days * Month(b) \in Int
      BY <1>2, <1>3, <1>4
    <3> QED BY <1>2, <1>3, <1>4, <2>1, <3>1, <3>2, <3>3 DEF DayOfYear
  <2>2. CASE Month(now) = Month(b)
    <3>1. Days * Month(b) \in Int
      BY <1>2, <1>3
    <3> QED BY <1>2, <1>3, <1>4, <2>2, <3>1 DEF DayOfYear
  <2>3. CASE Month(now) > Month(b)
    <3>1. Days * (Month(b) + 1) <= Days * Month(now)
      BY <1>2, <1>3, <1>4, <2>3
    <3>2. Days * (Month(b) + 1) = Days * Month(b) + Days
      BY <1>2, <1>3
    <3>3. Days * Month(now) \in Int /\ Days * Month(b) \in Int
      BY <1>2, <1>3, <1>4
    <3> QED BY <1>2, <1>3, <1>4, <2>3, <3>1, <3>2, <3>3 DEF DayOfYear
  <2> QED BY <1>3, <1>4, <2>1, <2>2, <2>3
<1> DEFINE age == Year(now) - Year(b) - (IF notYet THEN 1 ELSE 0)
<1>6. calculateAge(birth, now) = age
  BY DEF calculateAge, b
<1>7. age \in Int /\ c * age <= now - b /\ now - b < c * age + c
  <2>1. c * Year(now) \in Int /\ c * Year(b) \in Int
    BY <1>2, <1>3, <1>4
  <2>2. now - b = (c * Year(now) - c * Year(b)) + (DayOfYear(now) - DayOfYear(b))
    BY <1>3, <1>4, <2>1
  <2>3. CASE notYet
    <3>1. age = Year(now) - Year(b) - 1
      BY <2>3
    <3>2. c * (Year(now) - Year(b) - 1) = c * Year(now) - c * Year(b) - c
      BY <1>2, <1>3, <1>4
    <3>3. DayOfYear(now) < DayOfYear(b)
      BY <1>5, <2>3
    <3> HIDE DEF age, notYet
    <3> QED BY <1>1, <1>2, <1>3, <1>4, <2>1, <2>2, <3>1, <3>2, <3>3
  <2>4. CASE ~notYet
    <3>1. age = Year(now) - Year(b)
      BY <1>3, <1>4, <2>4
    <3>2. c * (Year(now) - Year(b)) = c * Year(now) - c * Year(b)
      BY <1>2, <1>3, <1>4
    <3>3. DayOfYear(now) >= DayOfYear(b)
      BY <1>3, <1>4, <1>5, <2>4
    <3> HIDE DEF age, notYet
    <3> QED BY <1>1, <1>2, <1>3, <1>4, <2>1, <2>2, <3>1, <3>2, <3>3
  <2> QED BY <2>3, <2>4
<1>8. (now - b) \div c = age
  <2> HIDE DEF age
  <2> QED BY <1>1, <1>2, <1>7, DivUnique
<1> QED BY <1>6, <1>8 DEF b, c

-----------------------------------------------------------------------------
(* RiskEngine's sums are the library's.                                    *)
LEMMA EngineSum ==
    ASSUME NEW w
    PROVE  Engine!SumFunction(w) = SumFunction(w)
BY DEF Engine!SumFunction, SumFunction, Engine!SumFunctionOnSet, SumFunctionOnSet,
       Engine!FoldFunctionOnSet, FoldFunctionOnSet, Engine!MapThenFoldSet, MapThenFoldSet

(* So are its cardinalities.                                               *)
LEMMA EngineCardinality ==
    ASSUME NEW S
    PROVE  Engine!Cardinality(S) = Cardinality(S)
BY DEF Engine!Cardinality, Cardinality, Engine!IsFiniteSet, IsFiniteSet

(* A factor has a weight and a contribution that are natural numbers.      *)
FactorOK(f) == f.riskContribution \in Nat /\ f.weight \in Nat

(* The five factors of every profile.                                      *)
FiveFactors(p) ==
    <<Engine!evaluateWalletAge(p.walletAge),
      Engine!evaluateTransactionVolume(p.totalVolume),
      Engine!evaluateTransactionCount(p.transactionCount),
      Engine!evaluateHighRiskInteractions(p.highRiskInteractions),
      Engine!evaluateAverageTransactionSize(p.averageTransactionSize)>>

Factors(p) == Engine!calculateRiskFactors(p)

(* There are five factors, and a sixth for a profile with patterns.        *)
LEMMA FactorsOf ==
    ASSUME NEW p
    PROVE  /\ DOMAIN Factors(p) = 1..(IF p.behavioralPatterns = None THEN 5 ELSE 6)
           /\ Factors(p)[1] = Engine!evaluateWalletAge(p.walletAge)
           /\ Factors(p)[2] = Engine!evaluateTransactionVolume(p.totalVolume)
           /\ Factors(p)[3] = Engine!evaluateTransactionCount(p.transactionCount)
           /\ Factors(p)[4] = Engine!evaluateHighRiskInteractions(p.highRiskInteractions)
           /\ Factors(p)[5] = Engine!evaluateAverageTransactionSize(p.averageTransactionSize)
           /\ p.behavioralPatterns # None =>
                  Factors(p)[6] = Engine!evaluateBehavioralPatterns(p.behavioralPatterns)
<1> DEFINE five == FiveFactors(p)
           last == Engine!evaluateBehavioralPatterns(p.behavioralPatterns)
<1>1. Len(five) = 5
  BY DEF FiveFactors
<1>2. Factors(p) = five \o (IF p.behavioralPatterns = None THEN <<>> ELSE <<last>>)
  BY DEF Factors, FiveFactors, Engine!calculateRiskFactors
<1> QED BY <1>1, <1>2 DEF FiveFactors

(* The brackets of each indicator leave no gap.                            *)
LEMMA Brackets ==
    ASSUME NEW x \in Nat
    PROVE  /\ Engine!evaluateWalletAge(x).riskContribution =
                  IF x < 30 THEN 80 ELSE IF x < 90 THEN 50
                  ELSE IF x < 180 THEN 30 ELSE IF x < 365 THEN 15 ELSE 5
           /\ Engine!evaluateTransactionVolume(x).riskContribution =
                  IF x > 100000 THEN 90 ELSE IF x > 50000 THEN 70
                  ELSE IF x > 10000 THEN 50 ELSE IF x > 1000 THEN 30 ELSE 10
           /\ Engine!evaluateTransactionCount(x).riskContribution =
                  IF x > 10000 THEN 80 ELSE IF x > 5000 THEN 60
                  ELSE IF x > 1000 THEN 40 ELSE IF x > 100 THEN 20 ELSE 10
           /\ Engine!evaluateHighRiskInteractions(x).riskContribution =
                  IF x > 50 THEN 100 ELSE IF x > 20 THEN 80
                  ELSE IF x > 10 THEN 60 ELSE IF x > 5 THEN 40 ELSE IF x > 0 THEN 20 ELSE 0
           /\ Engine!evaluateAverageTransactionSize(x).riskContribution =
                  IF x > 10000 THEN 90 ELSE IF x > 5000 THEN 70
                  ELSE IF x > 1000 THEN 50 ELSE IF x > 100 THEN 30 ELSE 10
<1>1. Engine!evaluateWalletAge(x).riskContribution =
          IF x < 30 THEN 80 ELSE IF x < 90 THEN 50
          ELSE IF x < 180 THEN 30 ELSE IF x < 365 THEN 15 ELSE 5
  BY DEF Engine!evaluateWalletAge
<1>2. Engine!evaluateTransactionVolume(x).riskContribution =
          IF x > 100000 THEN 90 ELSE IF x > 50000 THEN 70
          ELSE IF x > 10000 THEN 50 ELSE IF x > 1000 THEN 30 ELSE 10
  BY DEF Engine!evaluateTransactionVolume
<1>3. Engine!evaluateTransactionCount(x).riskContribution =
          IF x > 10000 THEN 80 ELSE IF x > 5000 THEN 60
          ELSE IF x > 1000 THEN 40 ELSE IF x > 100 THEN 20 ELSE 10
  BY DEF Engine!evaluateTransactionCount
<1>4. Engine!evaluateHighRiskInteractions(x).riskContribution =
          IF x > 50 THEN 100 ELSE IF x > 20 THEN 80
          ELSE IF x > 10 THEN 60 ELSE IF x > 5 THEN 40 ELSE IF x > 0 THEN 20 ELSE 0
  BY DEF Engine!evaluateHighRiskInteractions
<1>5. Engine!evaluateAverageTransactionSize(x).riskContribution =
          IF x > 10000 THEN 90 ELSE IF x > 5000 THEN 70
          ELSE IF x > 1000 THEN 50 ELSE IF x > 100 THEN 30 ELSE 10
  BY DEF Engine!evaluateAverageTransactionSize
<1> QED BY <1>1, <1>2, <1>3, <1>4, <1>5

(* The brackets are in order: an indicator that is worse contributes more, *)
(* at the same weight.                                                     *)
LEMMA BracketsInOrder ==
    ASSUME NEW x \in Nat, NEW y \in Nat, x <= y
    PROVE  /\ Engine!evaluateWalletAge(x).riskContribution
                  >= Engine!evaluateWalletAge(y).riskContribution
           /\ Engine!evaluateTransactionVolume(y).riskContribution
                  >= Engine!evaluateTransactionVolume(x).riskContribution
           /\ Engine!evaluateTransactionCount(y).riskContribution
                  >= Engine!evaluateTransactionCount(x).riskContribution
           /\ Engine!evaluateHighRiskInteractions(y).riskContribution
                  >= Engine!evaluateHighRiskInteractions(x).riskContribution
           /\ Engine!evaluateAverageTransactionSize(y).riskContribution
                  >= Engine!evaluateAverageTransactionSize(x).riskContribution
BY Brackets

(* A set of patterns that includes another contributes as much or more.    *)
LEMMA PatternsInOrder ==
    ASSUME NEW x \in SUBSET Engine!Pattern, NEW y \in SUBSET Engine!Pattern, x \subseteq y
    PROVE  /\ Engine!evaluateBehavioralPatterns(x).riskContribution \in Nat
           /\ Engine!evaluateBehavioralPatterns(y).riskContribution
                  >= Engine!evaluateBehavioralPatterns(x).riskContribution
<1>1. IsFiniteSet(Engine!Pattern)
  <2>1. IsFiniteSet({}) 
    BY FS_EmptySet
  <2>2. Engine!Pattern = ((((({} \cup {"regular-transactions"}) \cup {"defi-interactions"})
                            \cup {"nft-trading"}) \cup {"token-swaps"}) \cup {"staking"})
    BY DEF Engine!Pattern
  <2>3. IsFiniteSet((({} \cup {"regular-transactions"}) \cup {"defi-interactions"})
                     \cup {"nft-trading"})
    BY <2>1, FS_AddElement
  <2> QED BY <2>2, <2>3, FS_AddElement
<1>2. ASSUME NEW h
      PROVE  /\ Cardinality(x \cap h) \in Nat /\ Cardinality(y \cap h) \in Nat
             /\ Cardinality(x \cap h) <= Cardinality(y \cap h)
  <2>1. IsFiniteSet(y \cap h) /\ IsFiniteSet(x \cap h)
    BY <1>1, FS_Subset
  <2>2. x \cap h \in SUBSET (y \cap h)
    OBVIOUS
  <2> QED BY <2>1, <2>2, FS_Subset, FS_CardinalityType
<1> DEFINE a(p) == Cardinality(p \cap Engine!highRiskPatterns)
           b(p) == Cardinality(p \cap Engine!mediumRiskPatterns)
           c(p) == Cardinality(p \cap Engine!lowRiskPatterns)
           sum(p) == 40 * a(p) + 20 * b(p) + 5 * c(p)
<1>3. ASSUME NEW p PROVE Engine!evaluateBehavioralPatterns(p).riskContribution
                             = IF sum(p) < 100 THEN sum(p) ELSE 100
  <2>1. Engine!evaluateBehavioralPatterns(p) =
          [id |-> "behavioral_patterns", weight |-> 10,
           riskContribution |-> IF sum(p) < 100 THEN sum(p) ELSE 100]
    BY EngineCardinality DEF Engine!evaluateBehavioralPatterns
  <2> HIDE DEF sum
  <2> QED BY <2>1
<1>4. sum(x) \in Nat /\ sum(y) \in Nat /\ sum(x) <= sum(y)
  <2>1. a(x) \in Nat /\ a(y) \in Nat /\ a(x) <= a(y)
    BY <1>2
  <2>2. b(x) \in Nat /\ b(y) \in Nat /\ b(x) <= b(y)
    BY <1>2
  <2>3. c(x) \in Nat /\ c(y) \in Nat /\ c(x) <= c(y)
    BY <1>2
  <2> HIDE DEF a, b, c
  <2> QED BY <2>1, <2>2, <2>3
<1> HIDE DEF sum
<1> QED BY <1>3, <1>4

(* A factor of a wallet that is no better contributes as much or more, at  *)
(* the same weight, and the wallet has as many factors.                    *)
LEMMA FactorsInOrder ==
    ASSUME NEW p \in Profiles, NEW q \in Profiles, NoBetter(p, q)
    PROVE  /\ DOMAIN Factors(q) = DOMAIN Factors(p)
           /\ IsFiniteSet(DOMAIN Factors(p))
           /\ \A i \in DOMAIN Factors(p) :
                  /\ FactorOK(Factors(p)[i])
                  /\ Factors(q)[i].weight = Factors(p)[i].weight
                  /\ Factors(q)[i].riskContribution >= Factors(p)[i].riskContribution
                  /\ Factors(q)[i].riskContribution \in Nat
<1>1. /\ p.walletAge \in Nat /\ q.walletAge \in Nat
      /\ p.transactionCount \in Nat /\ q.transactionCount \in Nat
      /\ p.totalVolume \in Nat /\ q.totalVolume \in Nat
      /\ p.averageTransactionSize \in Nat /\ q.averageTransactionSize \in Nat
      /\ p.highRiskInteractions \in Nat /\ q.highRiskInteractions \in Nat
  BY UsersAssumption DEF Profiles
<1>2. /\ p.behavioralPatterns # None => p.behavioralPatterns \in SUBSET Engine!Pattern
      /\ q.behavioralPatterns # None => q.behavioralPatterns \in SUBSET Engine!Pattern
  BY UsersAssumption DEF Profiles
<1> DEFINE Ordered(f, g) == /\ FactorOK(f) /\ g.weight = f.weight
                            /\ g.riskContribution >= f.riskContribution
                            /\ g.riskContribution \in Nat
<1>3. Ordered(Engine!evaluateWalletAge(p.walletAge), Engine!evaluateWalletAge(q.walletAge))
  <2>1. Engine!evaluateWalletAge(p.walletAge).weight = 15
        /\ Engine!evaluateWalletAge(q.walletAge).weight = 15
    BY DEF Engine!evaluateWalletAge
  <2> QED BY <1>1, <2>1, Brackets, BracketsInOrder DEF NoBetter, FactorOK
<1>4. Ordered(Engine!evaluateTransactionVolume(p.totalVolume),
              Engine!evaluateTransactionVolume(q.totalVolume))
  <2>1. Engine!evaluateTransactionVolume(p.totalVolume).weight = 20
        /\ Engine!evaluateTransactionVolume(q.totalVolume).weight = 20
    BY DEF Engine!evaluateTransactionVolume
  <2> QED BY <1>1, <2>1, Brackets, BracketsInOrder DEF NoBetter, FactorOK
<1>5. Ordered(Engine!evaluateTransactionCount(p.transactionCount),
              Engine!evaluateTransactionCount(q.transactionCount))
  <2>1. Engine!evaluateTransactionCount(p.transactionCount).weight = 15
        /\ Engine!evaluateTransactionCount(q.transactionCount).weight = 15
    BY DEF Engine!evaluateTransactionCount
  <2> QED BY <1>1, <2>1, Brackets, BracketsInOrder DEF NoBetter, FactorOK
<1>6. Ordered(Engine!evaluateHighRiskInteractions(p.highRiskInteractions),
              Engine!evaluateHighRiskInteractions(q.highRiskInteractions))
  <2>1. Engine!evaluateHighRiskInteractions(p.highRiskInteractions).weight = 25
        /\ Engine!evaluateHighRiskInteractions(q.highRiskInteractions).weight = 25
    BY DEF Engine!evaluateHighRiskInteractions
  <2> QED BY <1>1, <2>1, Brackets, BracketsInOrder DEF NoBetter, FactorOK
<1>7. Ordered(Engine!evaluateAverageTransactionSize(p.averageTransactionSize),
              Engine!evaluateAverageTransactionSize(q.averageTransactionSize))
  <2>1. Engine!evaluateAverageTransactionSize(p.averageTransactionSize).weight = 15
        /\ Engine!evaluateAverageTransactionSize(q.averageTransactionSize).weight = 15
    BY DEF Engine!evaluateAverageTransactionSize
  <2> QED BY <1>1, <2>1, Brackets, BracketsInOrder DEF NoBetter, FactorOK
<1>8. p.behavioralPatterns # None =>
        Ordered(Engine!evaluateBehavioralPatterns(p.behavioralPatterns),
                Engine!evaluateBehavioralPatterns(q.behavioralPatterns))
  <2>1. Engine!evaluateBehavioralPatterns(p.behavioralPatterns).weight = 10
        /\ Engine!evaluateBehavioralPatterns(q.behavioralPatterns).weight = 10
    BY DEF Engine!evaluateBehavioralPatterns
  <2> QED BY <1>2, <2>1, PatternsInOrder DEF NoBetter, FactorOK
<1> HIDE DEF Ordered
<1>9. DOMAIN Factors(p) = 1..(IF p.behavioralPatterns = None THEN 5 ELSE 6)
      /\ DOMAIN Factors(q) = DOMAIN Factors(p)
  BY FactorsOf DEF NoBetter
<1>10. ASSUME NEW i \in DOMAIN Factors(p)
       PROVE  Ordered(Factors(p)[i], Factors(q)[i])
  <2>1. i \in 1..5 \/ (i = 6 /\ p.behavioralPatterns # None)
    BY <1>9
  <2>2. p.behavioralPatterns # None => q.behavioralPatterns # None
    BY DEF NoBetter
  <2> QED BY <1>3, <1>4, <1>5, <1>6, <1>7, <1>8, <2>1, <2>2, FactorsOf
<1>11. IsFiniteSet(DOMAIN Factors(p))
  BY <1>9, FS_Interval
<1> QED BY <1>9, <1>10, <1>11 DEF Ordered

Score(p) == Engine!calculateRiskScore(Factors(p))

(* A wallet that is no better has no lower score: the rounding and the     *)
(* division by the weights do not undo the order of the factors.           *)
LEMMA ScoresInOrder ==
    ASSUME NEW p \in Profiles, NEW q \in Profiles, NoBetter(p, q)
    PROVE  Score(p) \in Nat /\ Score(q) \in Nat /\ Score(q) >= Score(p)
<1> DEFINE D == DOMAIN Factors(p)
           w == [i \in D |-> Factors(p)[i].weight]
           u == [i \in D |-> Factors(p)[i].riskContribution * Factors(p)[i].weight]
           v == [i \in D |-> Factors(q)[i].riskContribution * Factors(q)[i].weight]
           W == SumFunction(w)
           U == SumFunction(u)
           V == SumFunction(v)
<1>1. /\ DOMAIN Factors(q) = D /\ IsFiniteSet(D)
      /\ \A i \in D : /\ Factors(p)[i].weight \in Nat
                      /\ Factors(p)[i].riskContribution \in Nat
                      /\ Factors(q)[i].weight = Factors(p)[i].weight
                      /\ Factors(q)[i].riskContribution >= Factors(p)[i].riskContribution
                      /\ Factors(q)[i].riskContribution \in Nat
  BY FactorsInOrder DEF FactorOK
<1>2. Score(p) = IF W = 0 THEN 0 ELSE (2 * U + W) \div (2 * W)
  BY EngineSum DEF Score, Engine!calculateRiskScore
<1>3. Score(q) = IF W = 0 THEN 0 ELSE (2 * V + W) \div (2 * W)
  <2>1. w = [i \in DOMAIN Factors(q) |-> Factors(q)[i].weight]
    BY <1>1
  <2>2. v = [i \in DOMAIN Factors(q) |-> Factors(q)[i].riskContribution * Factors(q)[i].weight]
    BY <1>1
  <2> HIDE DEF w, v
  <2> QED BY <2>1, <2>2, EngineSum DEF Score, Engine!calculateRiskScore
<1>4. w \in [D -> Nat] /\ u \in [D -> Nat] /\ v \in [D -> Nat]
  BY <1>1
<1>5. ASSUME NEW i \in D PROVE v[i] >= 1 * u[i]
  <2> DEFINE a == Factors(p)[i].riskContribution
             b == Factors(q)[i].riskContribution
             c == Factors(p)[i].weight
  <2>1. a \in Nat /\ b \in Nat /\ c \in Nat /\ b >= a
    BY <1>1
  <2>2. u[i] = a * c /\ v[i] = b * c
    BY <1>1
  <2> HIDE DEF a, b, c
  <2>3. b * c >= a * c /\ a * c \in Nat
    BY <2>1
  <2> QED BY <2>2, <2>3
<1>6. W \in Nat /\ U \in Nat /\ V \in Nat /\ V >= 1 * U
  <2> HIDE DEF w, u, v, D
  <2> QED BY <1>1, <1>4, <1>5, SumType, SumAtLeast
<1> HIDE DEF W, U, V
<1>7. CASE W = 0
  BY <1>2, <1>3, <1>7
<1>8. CASE W # 0
  <2>1. (2 * U + W) \in Nat /\ (2 * V + W) \in Nat /\ (2 * W) \in Nat \ {0}
        /\ 2 * U + W <= 2 * V + W
    BY <1>6, <1>8
  <2> DEFINE a == 2 * U + W
             b == 2 * V + W
             c == 2 * W
  <2>2. a \in Nat /\ b \in Nat /\ c \in Nat \ {0} /\ a <= b
    BY <2>1
  <2>3. Score(p) = a \div c /\ Score(q) = b \div c
    BY <1>2, <1>3, <1>8
  <2> HIDE DEF a, b, c
  <2>4. a \div c \in Nat /\ b \div c \in Nat
    BY <2>2
  <2> QED BY <2>2, <2>3, <2>4, DivMonotone
<1> QED BY <1>7, <1>8

-----------------------------------------------------------------------------
(* A list of rules: it is finite, and the risk thresholds in it are numbers. *)
RuleList(rules) ==
    /\ IsFiniteSet(DOMAIN rules)
    /\ \A i \in DOMAIN rules : rules[i].config.maxRiskScore \in Nat

(* The assessment is of the profile as it is, whatever the thresholds were *)
(* when it was made, and every template is a list of rules.                *)
ScreeningIInv ==
    /\ user \in Users
    /\ profile \in Profiles
    /\ assessment.riskScore = Score(profile)
    /\ today \in Nat
    /\ DOMAIN templates = TemplateId
    /\ \A id \in TemplateId : templates[id] = None \/ RuleList(templates[id].rules)

(* The fields of a rule that the constructors of the default templates     *)
(* make: it is enabled, and has the one setting it was given.              *)
LEMMA RuleFields ==
    /\ \A id, n : /\ Age(id, n).type = "AGE_VERIFICATION" /\ Age(id, n).enabled
                  /\ Age(id, n).config.minimumAge = n /\ Age(id, n).config.maxRiskScore = 0
    /\ \A id, cs : /\ Countries(id, cs).type = "COUNTRY_RESTRICTION"
                   /\ Countries(id, cs).enabled
                   /\ Countries(id, cs).config.restrictedCountries = cs
                   /\ Countries(id, cs).config.requiredCountries = {}
                   /\ Countries(id, cs).config.maxRiskScore = 0
    /\ \A id, ds : /\ Documents(id, ds).type = "DOCUMENT_VERIFICATION"
                   /\ Documents(id, ds).enabled
                   /\ Documents(id, ds).config.requiredDocuments = ds
                   /\ Documents(id, ds).config.maxRiskScore = 0
    /\ \A id : /\ AML(id).type = "AML_SCREENING" /\ AML(id).enabled
               /\ AML(id).config.requireAMLScreening /\ AML(id).config.maxRiskScore = 0
    /\ \A id, n : /\ Risk(id, n).type = "RISK_THRESHOLD" /\ Risk(id, n).enabled
                  /\ Risk(id, n).config.maxRiskScore = n
    /\ \A id : Accredited(id).config.maxRiskScore = 0
<1>1. \A id, n : /\ Age(id, n).type = "AGE_VERIFICATION" /\ Age(id, n).enabled
                 /\ Age(id, n).config.minimumAge = n /\ Age(id, n).config.maxRiskScore = 0
  BY DEF Age, Rule, NoConfig
<1>2. \A id, cs : /\ Countries(id, cs).type = "COUNTRY_RESTRICTION"
                  /\ Countries(id, cs).enabled
                  /\ Countries(id, cs).config.restrictedCountries = cs
                  /\ Countries(id, cs).config.requiredCountries = {}
                  /\ Countries(id, cs).config.maxRiskScore = 0
  BY DEF Countries, Rule, NoConfig
<1>3. \A id, ds : /\ Documents(id, ds).type = "DOCUMENT_VERIFICATION"
                  /\ Documents(id, ds).enabled
                  /\ Documents(id, ds).config.requiredDocuments = ds
                  /\ Documents(id, ds).config.maxRiskScore = 0
  BY DEF Documents, Rule, NoConfig
<1>4. \A id : /\ AML(id).type = "AML_SCREENING" /\ AML(id).enabled
              /\ AML(id).config.requireAMLScreening /\ AML(id).config.maxRiskScore = 0
  BY DEF AML, Rule, NoConfig
<1>5. \A id, n : /\ Risk(id, n).type = "RISK_THRESHOLD" /\ Risk(id, n).enabled
                 /\ Risk(id, n).config.maxRiskScore = n
  BY DEF Risk, Rule, NoConfig
<1>6. \A id : Accredited(id).config.maxRiskScore = 0
  BY DEF Accredited, Rule, NoConfig
<1> QED BY <1>1, <1>2, <1>3, <1>4, <1>5, <1>6

(* The rules of the default templates, one by one.                         *)
LEMMA DefaultRules ==
    /\ DOMAIN US_ACCREDITED.rules = 1..3
    /\ US_ACCREDITED.rules[1] = Age("age_21", 21)
    /\ US_ACCREDITED.rules[2] = Accredited("accreditation")
    /\ US_ACCREDITED.rules[3] = AML("aml_screening")
    /\ DOMAIN GLOBAL_BASIC.rules = 1..3
    /\ GLOBAL_BASIC.rules[1] = Age("age_18", 18)
    /\ GLOBAL_BASIC.rules[2] = Countries("country_check", {"KP", "IR", "SY"})
    /\ GLOBAL_BASIC.rules[3] = Documents("document_verification", {"PASSPORT", "DRIVERS_LICENSE"})
    /\ DOMAIN DEFI_STANDARD.rules = 1..4
    /\ DEFI_STANDARD.rules[1] = Age("age_18_defi", 18)
    /\ DEFI_STANDARD.rules[2] = Countries("country_defi", {"KP", "IR", "SY", "CU", "VN"})
    /\ DEFI_STANDARD.rules[3] = Risk("risk_threshold_defi", 50)
    /\ DEFI_STANDARD.rules[4] = AML("aml_defi")
    /\ DOMAIN NFT_MARKETPLACE.rules = 1..2
    /\ NFT_MARKETPLACE.rules[1] = Age("age_13", 13)
    /\ NFT_MARKETPLACE.rules[2] = Documents("document_nft", {"PASSPORT"})
    /\ DOMAIN EXCHANGE_STANDARD.rules = 1..5
    /\ EXCHANGE_STANDARD.rules[1] = Age("age_18_exchange", 18)
    /\ EXCHANGE_STANDARD.rules[2] = Countries("country_exchange", {"KP", "IR", "SY", "CU"})
    /\ EXCHANGE_STANDARD.rules[3] = Documents("document_exchange",
                                              {"PASSPORT", "DRIVERS_LICENSE", "ADDRESS_PROOF"})
    /\ EXCHANGE_STANDARD.rules[4] = AML("aml_exchange")
    /\ EXCHANGE_STANDARD.rules[5] = Risk("risk_exchange", 40)
BY DEF US_ACCREDITED, GLOBAL_BASIC, DEFI_STANDARD, NFT_MARKETPLACE,
       EXCHANGE_STANDARD

(* The five default templates are lists of rules.                          *)
LEMMA DefaultTemplates ==
    /\ RuleList(US_ACCREDITED.rules) /\ RuleList(GLOBAL_BASIC.rules)
    /\ RuleList(DEFI_STANDARD.rules) /\ RuleList(NFT_MARKETPLACE.rules)
    /\ RuleList(EXCHANGE_STANDARD.rules)
<1>1. \A n \in Nat : IsFiniteSet(1..n)
  BY FS_Interval
<1>2. RuleList(US_ACCREDITED.rules)
  <2>1. \A i \in 1..3 : US_ACCREDITED.rules[i].config.maxRiskScore \in Nat
    BY RuleFields, DefaultRules
  <2> QED BY <1>1, <2>1, DefaultRules DEF RuleList
<1>3. RuleList(GLOBAL_BASIC.rules)
  <2>1. \A i \in 1..3 : GLOBAL_BASIC.rules[i].config.maxRiskScore \in Nat
    BY RuleFields, DefaultRules
  <2> QED BY <1>1, <2>1, DefaultRules DEF RuleList
<1>4. RuleList(DEFI_STANDARD.rules)
  <2>1. \A i \in 1..4 : DEFI_STANDARD.rules[i].config.maxRiskScore \in Nat
    BY RuleFields, DefaultRules
  <2> QED BY <1>1, <2>1, DefaultRules DEF RuleList
<1>5. RuleList(NFT_MARKETPLACE.rules)
  <2>1. \A i \in 1..2 : NFT_MARKETPLACE.rules[i].config.maxRiskScore \in Nat
    BY RuleFields, DefaultRules
  <2> QED BY <1>1, <2>1, DefaultRules DEF RuleList
<1>6. RuleList(EXCHANGE_STANDARD.rules)
  <2>1. \A i \in 1..5 : EXCHANGE_STANDARD.rules[i].config.maxRiskScore \in Nat
    BY RuleFields, DefaultRules
  <2> QED BY <1>1, <2>1, DefaultRules DEF RuleList
<1> QED BY <1>2, <1>3, <1>4, <1>5, <1>6

(* So are the custom ones.                                                 *)
LEMMA CustomTemplates ==
    ASSUME NEW rules \in CustomRules
    PROVE  RuleList(rules)
<1>1. rules \in Seq(ComplianceRule)
  BY RulesAssumption
<1>2. IsFiniteSet(DOMAIN rules)
  BY <1>1, FS_Interval
<1>3. ASSUME NEW i \in DOMAIN rules PROVE rules[i].config.maxRiskScore \in Nat
  <2>1. rules[i] \in ComplianceRule
    BY <1>1, SeqMember
  <2> QED BY <2>1 DEF ComplianceRule, RuleConfig
<1> QED BY <1>2, <1>3 DEF RuleList

(* What a wallet's history can become is no better than what it was.       *)
LEMMA WorsenedIsNoBetter ==
    ASSUME Worsened(profile)
    PROVE  profile' \in Profiles /\ NoBetter(profile, profile')
BY DEF Worsened

(* An assessment carries the score of the profile it was given.            *)
LEMMA AssessmentScore ==
    ASSUME NEW t, NEW p
    PROVE  Engine!assessRisk(t, p).riskScore = Score(p)
BY DEF Engine!assessRisk, Score, Factors

(* ScreeningIInv is an invariant of the screening.                         *)
LEMMA ScreeningInvariant == ScreeningSpec => []ScreeningIInv
<1>1. ScreeningInit => ScreeningIInv
  <2> SUFFICES ASSUME ScreeningInit PROVE ScreeningIInv
    OBVIOUS
  <2>1. assessment.riskScore = Score(profile)
    BY AssessmentScore DEF ScreeningInit
  <2>2. today \in Nat
    BY CalendarAssumption DEF ScreeningInit, Init
  <2>3. \A id \in DOMAIN DefaultTemplate : RuleList(DefaultTemplate[id].rules)
    BY DefaultTemplates DEF DefaultTemplate
  <2>4. /\ DOMAIN templates = TemplateId
        /\ \A id \in TemplateId : templates[id] = None \/ RuleList(templates[id].rules)
    <3> HIDE DEF DefaultTemplate
    <3> QED BY <2>3 DEF ScreeningInit, Init
  <2> QED BY <2>1, <2>2, <2>4 DEF ScreeningInit, ScreeningIInv
<1>2. ScreeningIInv /\ [ScreeningNext]_allVars => ScreeningIInv'
  <2> SUFFICES ASSUME ScreeningIInv, [ScreeningNext]_allVars PROVE ScreeningIInv'
    OBVIOUS
  <2> USE DEF ScreeningIInv
  <2>1. ASSUME NEW id \in TemplateId, NEW rules \in CustomRules,
               createCustomTemplate(id, rules),
               UNCHANGED <<user, profile, riskThresholds, assessment>>
        PROVE  ScreeningIInv'
    <3> DEFINE t == [rules |-> rules, defaultLevel |-> "BASIC"]
    <3>1. RuleList(t.rules)
      BY CustomTemplates
    <3>2. templates' = [templates EXCEPT ![id] = t] /\ today' = today
      BY <2>1 DEF createCustomTemplate, registerTemplate
    <3> HIDE DEF t
    <3>3. \A x \in TemplateId : templates'[x] = None \/ RuleList(templates'[x].rules)
      BY <3>1, <3>2
    <3>4. assessment'.riskScore = Score(profile')
      BY <2>1
    <3> QED BY <2>1, <3>2, <3>3, <3>4
  <2>2. ASSUME NEW id \in TemplateId, removeTemplate(id),
               UNCHANGED <<user, profile, riskThresholds, assessment>>
        PROVE  ScreeningIInv'
    <3>1. assessment'.riskScore = Score(profile')
      BY <2>2
    <3>2. \A x \in TemplateId : templates'[x] = None \/ RuleList(templates'[x].rules)
      BY <2>2 DEF removeTemplate
    <3> QED BY <2>2, <3>1, <3>2 DEF removeTemplate
  <2>3. CASE NextDay /\ UNCHANGED <<user, profile, riskThresholds, assessment>>
    <3>1. assessment'.riskScore = Score(profile')
      BY <2>3
    <3> QED BY <2>3, <3>1 DEF NextDay
  <2>4. ASSUME NEW t \in Thresholds, setThresholds(t) PROVE ScreeningIInv'
    <3>1. assessment'.riskScore = Score(profile')
      BY <2>4 DEF setThresholds
    <3> QED BY <2>4, <3>1 DEF setThresholds
  <2>5. CASE assessRisk
    <3>1. assessment'.riskScore = Score(profile')
      BY <2>5, AssessmentScore DEF assessRisk
    <3>2. profile' \in Profiles
      BY <2>5, WorsenedIsNoBetter DEF assessRisk
    <3> QED BY <2>5, <3>1, <3>2 DEF assessRisk
  <2>6. CASE UNCHANGED allVars
    <3>1. assessment'.riskScore = Score(profile')
      BY <2>6 DEF allVars
    <3> QED BY <2>6, <3>1 DEF allVars
  <2> QED BY <2>1, <2>2, <2>3, <2>4, <2>5, <2>6 DEF ScreeningNext, Registry, Next
<1> QED BY <1>1, <1>2, PTL DEF ScreeningSpec

(* A wallet whose indicators get worse, whatever brackets they are in and  *)
(* whatever the thresholds, is never scored lower (engine.ts 189-383).     *)
THEOREM WorseNeverLowersScore == ScreeningSpec => WorseNeverLowers
<1>1. ScreeningIInv /\ ScreeningIInv' /\ [ScreeningNext]_allVars
          => [assessment'.riskScore >= assessment.riskScore]_allVars
  <2> SUFFICES ASSUME ScreeningIInv, ScreeningIInv', ScreeningNext
               PROVE  assessment'.riskScore >= assessment.riskScore
    BY DEF allVars
  <2>1. assessment.riskScore \in Nat
    <3>1. Score(profile) \in Nat
      BY ScoresInOrder, UsersAssumption DEF NoBetter, Profiles, ScreeningIInv
    <3> QED BY <3>1 DEF ScreeningIInv
  <2>2. CASE Registry \/ \E t \in Thresholds : setThresholds(t)
    BY <2>1, <2>2 DEF Registry, setThresholds
  <2>3. CASE assessRisk
    <3>1. profile' \in Profiles /\ NoBetter(profile, profile')
      BY <2>3, WorsenedIsNoBetter DEF assessRisk, ScreeningIInv
    <3>2. Score(profile') >= Score(profile)
      BY <3>1, ScoresInOrder DEF ScreeningIInv
    <3> QED BY <3>2 DEF ScreeningIInv
  <2> QED BY <2>2, <2>3 DEF ScreeningNext
<1> QED BY <1>1, ScreeningInvariant, PTL DEF ScreeningSpec, WorseNeverLowers

(* The age of a user is the number of whole years since the date of birth  *)
(* as the host reads it, in every calendar and on every day (registry.ts   *)
(* calculateAge).                                                          *)
THEOREM AgesAreCompletedYears == ScreeningSpec => []AgeIsCompletedYears
<1>1. ScreeningIInv => AgeIsCompletedYears
  BY CompletedYears, UsersAssumption DEF ScreeningIInv, AgeIsCompletedYears
<1> QED BY <1>1, ScreeningInvariant, PTL

-----------------------------------------------------------------------------
(* No rule fails for free.                                                 *)
LEMMA FailureCosts ==
    ASSUME NEW rule, rule.config.maxRiskScore \in Nat, NEW u, u.riskScore \in Nat, NEW now,
           ~evaluateRule(rule, u, now).passed
    PROVE  evaluateRule(rule, u, now).penalty \in Nat \ {0}
<1> DEFINE Costly(r) == ~r.passed => r.penalty \in Nat \ {0}
<1>1. Costly(Passed) /\ (\A n \in Nat \ {0} : Costly(Failed(n)))
  BY DEF Passed, Failed
<1> HIDE DEF Costly
<1> DEFINE c == rule.config
<1>2. Costly(evaluateAgeRule(c, u, now))
  BY <1>1 DEF evaluateAgeRule
<1>3. Costly(evaluateCountryRule(c, u))
  BY <1>1 DEF evaluateCountryRule
<1>4. Costly(evaluateDocumentRule(c, u)) /\ Costly(evaluateAccreditationRule(c, u))
  BY <1>1 DEF evaluateDocumentRule, evaluateAccreditationRule
<1>5. Costly(evaluateAMLClearance(c, u))
  BY <1>1 DEF evaluateAMLClearance
<1>6. Costly(evaluateRiskThreshold(c, u))
  <2>1. riskScoreOf(u) \in Nat
    BY DEF riskScoreOf
  <2>2. CASE c.maxRiskScore # 0 /\ riskScoreOf(u) > c.maxRiskScore
    <3> DEFINE n == IF riskScoreOf(u) < 100 THEN riskScoreOf(u) ELSE 100
    <3>1. n \in Nat \ {0}
      BY <2>1, <2>2
    <3>2. evaluateRiskThreshold(c, u) = Failed(n)
      BY <2>2 DEF evaluateRiskThreshold
    <3> HIDE DEF n
    <3> QED BY <1>1, <3>1, <3>2
  <2>3. CASE ~(c.maxRiskScore # 0 /\ riskScoreOf(u) > c.maxRiskScore)
    BY <1>1, <2>3 DEF evaluateRiskThreshold
  <2> QED BY <2>2, <2>3
<1>7. Costly(evaluateWhitelist(c, u)) /\ Costly(evaluateBlacklist(c, u))
  BY <1>1 DEF evaluateWhitelist, evaluateBlacklist
<1>8. Costly(evaluateRule(rule, u, now))
  BY <1>1, <1>2, <1>3, <1>4, <1>5, <1>6, <1>7 DEF evaluateRule
<1> QED BY <1>8 DEF Costly

(* The scores that the registry sees are numbers.                          *)
LEMMA ScoreOfUser ==
    ASSUME ScreeningIInv
    PROVE  templateData.riskScore \in Nat
<1>1. Score(profile) \in Nat
  BY ScoresInOrder, UsersAssumption DEF NoBetter, Profiles, ScreeningIInv
<1>2. DOMAIN user = {"walletAddress", "dateOfBirth", "countryOfResidence",
                     "documentsVerified", "isAccreditedInvestor", "amlCleared", "riskScore"}
  BY UsersAssumption DEF ScreeningIInv
<1> QED BY <1>1, <1>2 DEF templateData, ScreeningIInv

(* A user passes a template exactly with the full score, for every list of *)
(* rules: the penalties of the rules that fail add up to more than 0       *)
(* (registry.ts evaluate, 103-120).                                        *)
THEOREM PassedHasFullScore == ScreeningSpec => []PassedIsFullScore
<1>1. ScreeningIInv => PassedIsFullScore
  <2> SUFFICES ASSUME ScreeningIInv, NEW id \in TemplateId, templates[id] # None
               PROVE  evaluateTemplate(id, templateData).passed
                          <=> evaluateTemplate(id, templateData).score = 100
    BY DEF PassedIsFullScore
  <2> DEFINE rules  == templates[id].rules
             failed == FailedAt(rules, templateData, today)
             w      == [i \in failed |-> Outcome(rules, i, templateData, today).penalty]
             score  == 100 - SumFunction(w)
  <2>1. RuleList(rules)
    BY DEF ScreeningIInv
  <2>2. IsFiniteSet(failed)
    BY <2>1, FS_Subset DEF RuleList, FailedAt
  <2>3. \A i \in failed : w[i] \in Nat \ {0}
    BY <2>1, FailureCosts, ScoreOfUser DEF RuleList, FailedAt, Outcome
  <2>4. /\ evaluateTemplate(id, templateData).passed <=> failed = {}
        /\ evaluateTemplate(id, templateData).score = IF score > 0 THEN score ELSE 0
    BY DEF evaluateTemplate, evaluate
  <2>5. w \in [failed -> Nat] /\ DOMAIN w = failed
    BY <2>3
  <2> HIDE DEF failed, w
  <2>6. CASE failed = {}
    <3>1. SumFunction(w) = 0
      BY <2>5, <2>6, SumEmpty
    <3> QED BY <2>4, <2>6, <3>1
  <2>7. CASE failed # {}
    <3>1. SumFunction(w) \in Nat /\ SumFunction(w) > 0
      BY <2>2, <2>3, <2>5, <2>7, SumType, SumPositive
    <3> QED BY <2>4, <2>7, <3>1
  <2> QED BY <2>6, <2>7
<1> QED BY <1>1, ScreeningInvariant, PTL

(* A user passes a template exactly when each rule that is enabled passes. *)
LEMMA PassedRules ==
    ASSUME NEW template, NEW u, NEW now
    PROVE  evaluate(template, u, now).passed <=>
               \A i \in DOMAIN template.rules :
                   template.rules[i].enabled =>
                       evaluateRule(template.rules[i], u, now).passed
BY DEF evaluate, FailedAt, Outcome

(* When the rules of the default templates pass.                           *)
LEMMA RuleOutcomes ==
    ASSUME NEW u, NEW now
    PROVE  /\ \A id, n : evaluateRule(Age(id, n), u, now).passed <=>
                  ~(/\ n # 0 /\ u.dateOfBirth \notin {None, Unparsable}
                    /\ calculateAge(u.dateOfBirth, now) < n)
           /\ \A id, cs : evaluateRule(Countries(id, cs), u, now).passed <=>
                  u.countryOfResidence # None /\ u.countryOfResidence \notin cs
           /\ \A id, ds : evaluateRule(Documents(id, ds), u, now).passed <=>
                  (ds = {} \/ u.documentsVerified)
           /\ \A id : evaluateRule(AML(id), u, now).passed <=> u.amlCleared
           /\ \A id, n : evaluateRule(Risk(id, n), u, now).passed <=>
                  ~(n # 0 /\ riskScoreOf(u) > n)
<1>1. Passed.passed /\ (\A n : ~Failed(n).passed)
  BY DEF Passed, Failed
<1>2. ASSUME NEW id, NEW n
      PROVE  evaluateRule(Age(id, n), u, now).passed <=>
                 ~(/\ n # 0 /\ u.dateOfBirth \notin {None, Unparsable}
                   /\ calculateAge(u.dateOfBirth, now) < n)
  <2>1. evaluateRule(Age(id, n), u, now) = evaluateAgeRule(Age(id, n).config, u, now)
    BY RuleFields DEF evaluateRule
  <2> QED BY <1>1, <2>1, RuleFields DEF evaluateAgeRule
<1>3. ASSUME NEW id, NEW cs
      PROVE  evaluateRule(Countries(id, cs), u, now).passed <=>
                 u.countryOfResidence # None /\ u.countryOfResidence \notin cs
  <2>1. evaluateRule(Countries(id, cs), u, now)
            = evaluateCountryRule(Countries(id, cs).config, u)
    BY RuleFields DEF evaluateRule
  <2> QED BY <1>1, <2>1, RuleFields DEF evaluateCountryRule
<1>4. ASSUME NEW id, NEW ds
      PROVE  evaluateRule(Documents(id, ds), u, now).passed <=>
                 (ds = {} \/ u.documentsVerified)
  <2>1. evaluateRule(Documents(id, ds), u, now)
            = evaluateDocumentRule(Documents(id, ds).config, u)
    BY RuleFields DEF evaluateRule
  <2> QED BY <1>1, <2>1, RuleFields DEF evaluateDocumentRule
<1>5. ASSUME NEW id
      PROVE  evaluateRule(AML(id), u, now).passed <=> u.amlCleared
  <2>1. evaluateRule(AML(id), u, now) = evaluateAMLClearance(AML(id).config, u)
    BY RuleFields DEF evaluateRule
  <2> QED BY <1>1, <2>1, RuleFields DEF evaluateAMLClearance
<1>6. ASSUME NEW id, NEW n
      PROVE  evaluateRule(Risk(id, n), u, now).passed <=> ~(n # 0 /\ riskScoreOf(u) > n)
  <2>1. evaluateRule(Risk(id, n), u, now) = evaluateRiskThreshold(Risk(id, n).config, u)
    BY RuleFields DEF evaluateRule
  <2> QED BY <1>1, <2>1, RuleFields DEF evaluateRiskThreshold
<1> QED BY <1>2, <1>3, <1>4, <1>5, <1>6

(* The exchange template is the strictest of the lists, for every user,    *)
(* score and day (registry.ts 453-675).                                    *)
THEOREM ExchangeAdmitsFewest == ScreeningSpec => []ExchangeIsStrictest
<1>1. ScreeningIInv => ExchangeIsStrictest
  <2> DEFINE u == templateData
  <2> SUFFICES ASSUME ScreeningIInv, Verdict(EXCHANGE_STANDARD).passed
               PROVE  /\ Verdict(GLOBAL_BASIC).passed
                      /\ Verdict(NFT_MARKETPLACE).passed
                      /\ Verdict(DEFI_STANDARD).failedRules \subseteq {"country_defi"}
    BY DEF ExchangeIsStrictest
  <2>1. \A i \in 1..5 : evaluateRule(EXCHANGE_STANDARD.rules[i], u, today).passed
    BY PassedRules, DefaultRules, RuleFields DEF Verdict
  <2>2. /\ u.countryOfResidence # None
        /\ u.countryOfResidence \notin {"KP", "IR", "SY", "CU"}
        /\ u.documentsVerified /\ u.amlCleared
        /\ ~(riskScoreOf(u) > 40)
        /\ u.dateOfBirth \notin {None, Unparsable} => ~(calculateAge(u.dateOfBirth, today) < 18)
    <3>1. /\ evaluateRule(EXCHANGE_STANDARD.rules[1], u, today).passed
          /\ evaluateRule(EXCHANGE_STANDARD.rules[2], u, today).passed
          /\ evaluateRule(EXCHANGE_STANDARD.rules[3], u, today).passed
          /\ evaluateRule(EXCHANGE_STANDARD.rules[4], u, today).passed
          /\ evaluateRule(EXCHANGE_STANDARD.rules[5], u, today).passed
      BY <2>1
    <3> HIDE DEF u
    <3> QED BY <3>1, DefaultRules, RuleOutcomes
  <2>3. u.dateOfBirth \notin {None, Unparsable} =>
            calculateAge(u.dateOfBirth, today) \in Int
    <3>1. u.dateOfBirth = user.dateOfBirth
      BY UsersAssumption DEF templateData, ScreeningIInv
    <3>2. user.dateOfBirth \notin {None, Unparsable} => user.dateOfBirth \in Int
      BY UsersAssumption DEF ScreeningIInv
    <3>3. \A d \in Int : Year(d) \in Int
      BY CalendarAssumption DEF Year
    <3>4. \A d \in Int : calculateAge(d, today) \in Int
      BY <3>3 DEF calculateAge, ParseDate, ScreeningIInv
    <3> HIDE DEF u
    <3> QED BY <3>1, <3>2, <3>4
  <2>4. riskScoreOf(u) \in Nat
    BY ScoreOfUser DEF riskScoreOf
  <2> HIDE DEF u
  <2>5. Verdict(GLOBAL_BASIC).passed
    <3>1. \A i \in 1..3 : evaluateRule(GLOBAL_BASIC.rules[i], u, today).passed
      BY <2>2, DefaultRules, RuleOutcomes
    <3> QED BY <3>1, PassedRules, DefaultRules DEF Verdict, u
  <2>6. Verdict(NFT_MARKETPLACE).passed
    <3>1. evaluateRule(NFT_MARKETPLACE.rules[1], u, today).passed
      <4>1. u.dateOfBirth \notin {None, Unparsable} => ~(calculateAge(u.dateOfBirth, today) < 13)
        BY <2>2, <2>3
      <4> QED BY <4>1, DefaultRules, RuleOutcomes
    <3>2. evaluateRule(NFT_MARKETPLACE.rules[2], u, today).passed
      BY <2>2, DefaultRules, RuleOutcomes
    <3> QED BY <3>1, <3>2, PassedRules, DefaultRules DEF Verdict, u
  <2>7. Verdict(DEFI_STANDARD).failedRules \subseteq {"country_defi"}
    <3>1. \A i \in {1, 3, 4} : evaluateRule(DEFI_STANDARD.rules[i], u, today).passed
      BY <2>2, <2>4, DefaultRules, RuleOutcomes
    <3>2. DEFI_STANDARD.rules[2].id = "country_defi"
      BY DefaultRules DEF Countries, Rule
    <3>3. FailedAt(DEFI_STANDARD.rules, u, today) \subseteq {2}
      BY <3>1, DefaultRules DEF FailedAt, Outcome
    <3> QED BY <3>2, <3>3 DEF Verdict, evaluate, u
  <2> QED BY <2>5, <2>6, <2>7
<1> QED BY <1>1, ScreeningInvariant, PTL

=============================================================================
