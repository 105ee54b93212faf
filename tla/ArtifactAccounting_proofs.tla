----------------------- MODULE ArtifactAccounting_proofs -----------------------
(***************************************************************************)
(* Proofs about ArtifactAccounting, for bundles of any size and any        *)
(* approval.  A measure grows with its guess and by at most 16 bytes in    *)
(* all, within which the reported size gains at most one digit: the third  *)
(* guess is its own measure, and no guess passes a size that fits.         *)
(***************************************************************************)
EXTENDS ArtifactAccounting, FiniteSetTheorems, TLAPS

\* The numbers up to n that are longer than their predecessor.
UpTo(n) == {p \in Powers : p <= n}

\* Powers are numbers of two digits at least.
LEMMA PowersType == \A p \in Powers : p \in Nat /\ p >= 10
<1>1. Powers \subseteq Nat \ (0 .. 9)
  BY PowersAssumption
<1>2. QED
  BY <1>1

\* UpTo is monotone.
LEMMA UpToGrows ==
    ASSUME NEW m \in Nat, NEW n \in Nat, m <= n
    PROVE  UpTo(m) \in SUBSET UpTo(n)
<1>1. \A p \in Powers : p <= m => p <= n
  BY PowersType
<1>2. QED
  BY <1>1 DEF UpTo

\* UpTo is a finite set of at most eight numbers.
LEMMA UpToFinite ==
    ASSUME NEW n
    PROVE  IsFiniteSet(UpTo(n)) /\ Cardinality(UpTo(n)) \in 0 .. 8
<1>1. UpTo(n) \in SUBSET Powers /\ IsFiniteSet(Powers) /\ Cardinality(Powers) <= 8
  BY PowersAssumption DEF UpTo
<1>2. IsFiniteSet(UpTo(n)) /\ Cardinality(UpTo(n)) <= Cardinality(Powers)
  BY <1>1, FS_Subset
<1>3. Cardinality(UpTo(n)) \in Nat /\ Cardinality(Powers) \in Nat
  BY <1>1, <1>2, FS_CardinalityType
<1>4. QED
  BY <1>1, <1>2, <1>3

\* A number has one to nine digits.
LEMMA DigitsRange ==
    ASSUME NEW n
    PROVE  Digits(n) \in 1 .. 9
<1>1. Digits(n) = 1 + Cardinality(UpTo(n))
  BY DEF Digits, UpTo
<1>2. QED
  BY <1>1, UpToFinite

\* A greater number is not shorter.
LEMMA DigitsGrow ==
    ASSUME NEW m \in Nat, NEW n \in Nat, m <= n
    PROVE  Digits(m) <= Digits(n)
<1>1. UpTo(m) \in SUBSET UpTo(n)
  BY UpToGrows
<1>2. Cardinality(UpTo(m)) <= Cardinality(UpTo(n))
  BY <1>1, UpToFinite, FS_Subset
<1>3. Digits(m) = 1 + Cardinality(UpTo(m)) /\ Digits(n) = 1 + Cardinality(UpTo(n))
  BY DEF Digits, UpTo
<1>4. QED
  BY <1>2, <1>3, UpToFinite

\* Within twenty numbers a digit is added at most once.
LEMMA DigitsNearby ==
    ASSUME NEW m \in Nat, NEW n \in Nat, m <= n, n <= m + 20
    PROVE  Digits(n) <= Digits(m) + 1
<1>1. \A p, q \in UpTo(n) \ UpTo(m) : p = q
  <2>1. SUFFICES ASSUME NEW p \in UpTo(n) \ UpTo(m), NEW q \in UpTo(n) \ UpTo(m), p < q
                 PROVE  FALSE
    BY PowersType DEF UpTo
  <2>2. p \in Nat /\ q \in Nat /\ p >= 10 /\ q >= 10 * p
    BY <2>1, PowersType, PowersAssumption DEF UpTo
  <2>3. m < p /\ q <= n
    BY <2>1, <2>2 DEF UpTo
  <2>4. QED
    BY <2>2, <2>3
<1>2. UpTo(m) \in SUBSET UpTo(n)
  BY UpToGrows
<1>3. Cardinality(UpTo(n)) <= Cardinality(UpTo(m)) + 1
  <2>1. CASE UpTo(n) = UpTo(m)
    BY <2>1, UpToFinite
  <2>2. CASE UpTo(n) # UpTo(m)
    <3>1. PICK p \in UpTo(n) : p \notin UpTo(m)
      BY <2>2, <1>2
    <3>2. UpTo(n) = UpTo(m) \cup {p}
      BY <3>1, <1>1, <1>2
    <3>3. QED
      BY <3>1, <3>2, UpToFinite, FS_AddElement
  <2>3. QED
    BY <2>1, <2>2
<1>4. Digits(m) = 1 + Cardinality(UpTo(m)) /\ Digits(n) = 1 + Cardinality(UpTo(n))
  BY DEF Digits, UpTo
<1>5. QED
  BY <1>3, <1>4, UpToFinite

\* Sizes and approvals are numbers.
LEMMA SizeType ==
    ASSUME size \in Sizes
    PROVE  size.overhead \in Nat /\ size.core \in Nat /\ size.approval \in Nat
BY SizesAssumption

\* What a bundle measures when it reports n bytes is a number, and depends on n by
\* the number of its digits only.
LEMMA BundleType ==
    ASSUME size \in Sizes, NEW n
    PROVE  /\ BundleBytes(n) \in Nat
           /\ BundleBytes(n) =
                 size.overhead + size.core + Digits(n) + Digits(size.core + Digits(n))
BY SizeType, DigitsRange DEF BundleBytes, ExecutionBytes

\* A greater report does not make a smaller bundle.
LEMMA BundleGrows ==
    ASSUME size \in Sizes, NEW m \in Nat, NEW n \in Nat, m <= n
    PROVE  BundleBytes(m) <= BundleBytes(n)
<1>1. Digits(m) \in Nat /\ Digits(n) \in Nat /\ Digits(m) <= Digits(n)
  BY DigitsRange, DigitsGrow
<1>2. Digits(size.core + Digits(m)) <= Digits(size.core + Digits(n))
  BY <1>1, SizeType, DigitsGrow
<1>3. Digits(size.core + Digits(m)) \in Nat /\ Digits(size.core + Digits(n)) \in Nat
  BY DigitsRange
<1>4. QED
  BY <1>1, <1>2, <1>3, SizeType, BundleType

\* All reports make bundles of nearly the same size.
LEMMA BundleSpread ==
    ASSUME size \in Sizes, NEW m, NEW n
    PROVE  BundleBytes(n) <= BundleBytes(m) + 16
<1>1. /\ Digits(m) \in 1 .. 9 /\ Digits(size.core + Digits(m)) \in 1 .. 9
      /\ Digits(n) \in 1 .. 9 /\ Digits(size.core + Digits(n)) \in 1 .. 9
  BY DigitsRange
<1>2. QED
  BY <1>1, SizeType, BundleType

\* The third measure is a fixed point: between the first and the third at most one
\* digit is added, before or after the second.
LEMMA ThirdIsFixed ==
    ASSUME size \in Sizes
    PROVE  BundleBytes(ThirdMeasure) = ThirdMeasure
<1>1. FirstMeasure \in Nat /\ SecondMeasure \in Nat /\ ThirdMeasure \in Nat
  BY BundleType DEF FirstMeasure, SecondMeasure, ThirdMeasure
<1>2. FirstMeasure <= SecondMeasure
  BY <1>1, BundleGrows DEF FirstMeasure, SecondMeasure
<1>3. SecondMeasure <= ThirdMeasure
  BY <1>1, <1>2, BundleGrows DEF SecondMeasure, ThirdMeasure
<1>4. ThirdMeasure <= FirstMeasure + 16
  BY BundleSpread DEF FirstMeasure, ThirdMeasure
<1>5. /\ Digits(FirstMeasure) <= Digits(SecondMeasure)
      /\ Digits(SecondMeasure) <= Digits(ThirdMeasure)
  BY <1>1, <1>2, <1>3, DigitsGrow
<1>6. Digits(ThirdMeasure) <= Digits(FirstMeasure) + 1
  <2>1. FirstMeasure <= ThirdMeasure /\ ThirdMeasure <= FirstMeasure + 20
    BY <1>1, <1>2, <1>3, <1>4
  <2>2. QED
    BY <1>1, <2>1, DigitsNearby
<1>7. CASE Digits(SecondMeasure) = Digits(FirstMeasure)
  <2>1. BundleBytes(SecondMeasure) = BundleBytes(FirstMeasure)
    BY <1>7, BundleType
  <2>2. QED
    BY <2>1 DEF SecondMeasure, ThirdMeasure
<1>8. CASE Digits(SecondMeasure) # Digits(FirstMeasure)
  <2>1. Digits(ThirdMeasure) = Digits(SecondMeasure)
    BY <1>5, <1>6, <1>8, DigitsRange
  <2>2. BundleBytes(ThirdMeasure) = BundleBytes(SecondMeasure)
    BY <2>1, BundleType
  <2>3. QED
    BY <2>2 DEF ThirdMeasure
<1>9. QED
  BY <1>7, <1>8

----------------------------------------------------------------------------
\* The accounting begins as its invariant says.
LEMMA AccountingBegins == AccountingInit => AccountingInv
<1> SUFFICES ASSUME AccountingInit PROVE AccountingInv
  OBVIOUS
<1>1. AccountingTypeOK /\ StageTold /\ AccountingConverges
  BY RoundsAssumption DEF AccountingInit, AccountingTypeOK, StageTold, AccountingConverges
<1>2. GuessesInTurn
  BY DEF AccountingInit, GuessesInTurn
<1>3. NoOvershoot
  BY SizeType DEF AccountingInit, NoOvershoot
<1>4. QED
  BY <1>1, <1>2, <1>3 DEF AccountingInv

\* A run's sizes stay as they are, and with them every measure.
LEMMA MeasuresStay ==
    ASSUME UNCHANGED size
    PROVE  /\ \A n : BundleBytes(n)' = BundleBytes(n)
           /\ FirstMeasure' = FirstMeasure
           /\ SecondMeasure' = SecondMeasure
           /\ ThirdMeasure' = ThirdMeasure
BY DEF BundleBytes, ExecutionBytes, FirstMeasure, SecondMeasure, ThirdMeasure

\* Another guess is the next of the sequence; there is no fifth.
LEMMA GuessKeeps ==
    ASSUME AccountingInv, GuessAgain
    PROVE  AccountingInv'
<1> USE DEF AccountingInv
<1>1. size \in Sizes /\ size' = size /\ guess \in Nat /\ round \in 0 .. Rounds
  BY DEF AccountingTypeOK, GuessAgain
<1>2. /\ guess' = BundleBytes(guess) /\ BundleBytes(guess) # guess
      /\ guess <= size.approval /\ round' = round + 1
  BY DEF GuessAgain
<1>3. round \in 0 .. 2 /\ GuessesInTurn'
  <2>1. round # 3
    BY <1>1, <1>2, ThirdIsFixed, RoundsAssumption DEF GuessesInTurn
  <2>2. CASE round = 0
    BY <2>2, <1>1, <1>2, MeasuresStay DEF GuessesInTurn, FirstMeasure
  <2>3. CASE round = 1
    BY <2>3, <1>1, <1>2, MeasuresStay DEF GuessesInTurn, SecondMeasure
  <2>4. CASE round = 2
    BY <2>4, <1>1, <1>2, MeasuresStay DEF GuessesInTurn, ThirdMeasure
  <2>5. QED
    BY <2>1, <2>2, <2>3, <2>4 DEF GuessesInTurn
<1>4. stage' = "measure"
  BY <1>3, RoundsAssumption DEF GuessAgain
<1>5. AccountingTypeOK'
  BY <1>1, <1>2, <1>3, <1>4, BundleType, RoundsAssumption DEF AccountingTypeOK
<1>6. NoOvershoot'
  <2>1. SUFFICES ASSUME NEW n \in 0 .. size.approval, BundleBytes(n) = n
                 PROVE  BundleBytes(guess) <= n
    BY <1>1, <1>2, MeasuresStay DEF NoOvershoot
  <2>2. n \in Nat /\ guess <= n
    BY <1>1, <2>1, SizeType DEF NoOvershoot
  <2>3. QED
    BY <1>1, <2>1, <2>2, BundleGrows
<1>7. StageTold' /\ AccountingConverges'
  BY <1>4 DEF StageTold, AccountingConverges
<1>8. QED
  BY <1>3, <1>5, <1>6, <1>7

\* The other steps keep sizes, round and guess.
LEMMA EndKeeps ==
    ASSUME AccountingInv, Exhaust \/ Converge \/ Write \/ UNCHANGED accounting
    PROVE  AccountingInv'
<1> USE DEF AccountingInv
<1>1. UNCHANGED <<size, round, guess>>
  BY DEF Exhaust, Converge, Write, accounting
<1>2. size \in Sizes /\ guess \in Nat /\ round \in 0 .. Rounds
  BY DEF AccountingTypeOK
<1>3. GuessesInTurn' /\ NoOvershoot'
  BY <1>1, MeasuresStay DEF GuessesInTurn, NoOvershoot
<1>4. BundleBytes(guess)' = BundleBytes(guess)
  BY <1>1 DEF BundleBytes, ExecutionBytes
<1>5. CASE Exhaust
  BY <1>1, <1>2, <1>3, <1>5 DEF Exhaust, StageTold, AccountingConverges, AccountingTypeOK
<1>6. CASE Converge
  BY <1>1, <1>2, <1>3, <1>4, <1>6 DEF Converge, StageTold, AccountingConverges, AccountingTypeOK
<1>7. CASE Write
  <2>1. stage = "create" /\ BundleBytes(guess) = guess /\ guess <= size.approval
    BY <1>7 DEF Write, StageTold
  <2>2. stage' = "written"
    BY <1>2, <1>7, <2>1, SizeType DEF Write
  <2>3. QED
    BY <1>1, <1>2, <1>3, <1>4, <2>1, <2>2 DEF StageTold, AccountingConverges, AccountingTypeOK
<1>8. CASE UNCHANGED accounting
  BY <1>1, <1>2, <1>3, <1>4, <1>8
     DEF accounting, StageTold, AccountingConverges, AccountingTypeOK
<1>9. QED
  BY <1>5, <1>6, <1>7, <1>8

\* The invariant of the accounting holds in every state.
THEOREM AccountingCorrect == AccountingSpec => []AccountingInv
<1>1. AccountingInv /\ [AccountingNext]_accounting => AccountingInv'
  BY GuessKeeps, EndKeeps DEF AccountingNext
<1>2. QED
  BY <1>1, AccountingBegins, PTL DEF AccountingSpec

\* `_prepare_budgeted_evidence` never gives up after its eight rounds, and what it
\* accounted for is never too large to be written.
LEMMA ConvergenceCorrect == AccountingSpec => []AccountingConverges
<1>1. AccountingInv => AccountingConverges
  BY DEF AccountingInv
<1>2. QED
  BY <1>1, AccountingCorrect, PTL

\* A run is refused for its size only if no size within its approval reports itself.
LEMMA ExhaustionCorrect == AccountingSpec => []ExhaustedIsReal
<1>1. AccountingInv => ExhaustedIsReal
  <2>1. SUFFICES ASSUME AccountingInv, stage = "exhausted", NEW n \in 0 .. size.approval,
                        BundleBytes(n) = n
                 PROVE  FALSE
    BY DEF ExhaustedIsReal
  <2>2. guess <= n /\ guess > size.approval /\ guess \in Nat /\ size \in Sizes
    BY <2>1 DEF AccountingInv, NoOvershoot, StageTold, AccountingTypeOK
  <2>3. QED
    BY <2>1, <2>2, SizeType
<1>2. QED
  BY <1>1, AccountingCorrect, PTL

\* For a bundle of any size, the accounting finds the least size that reports
\* itself, or refuses the run because no size within its approval does.
THEOREM SizeCorrect == AccountingSpec => []SizeIsFound
BY ConvergenceCorrect, ExhaustionCorrect, PTL DEF SizeIsFound
=============================================================================
