------------------------- MODULE ArtifactAccounting -------------------------
(***************************************************************************)
(* The evidence of a run reports its own size.  execution.json holds the   *)
(* size of the bundle, in decimal, and the inventory holds the size of     *)
(* execution.json: `_prepare_budgeted_evidence` builds the evidence with a *)
(* guess, measures it, and guesses again until the measure is the guess.   *)
(*                                                                         *)
(* Source: src/src/risi/runner.py and src/src/risi/artifacts.py.           *)
(***************************************************************************)
EXTENDS Integers, FiniteSets

CONSTANTS
    Powers,    \* the numbers whose decimal form is longer than their predecessor's
    Sizes,     \* what a run brings along: [overhead, core, approval]
    Rounds     \* rounds of the loop: 8

ASSUME PowersAssumption ==
    /\ Powers \subseteq Nat \ (0 .. 9) /\ IsFiniteSet(Powers) /\ Cardinality(Powers) <= 8
    /\ \A p, q \in Powers : p < q => q >= 10 * p
ASSUME SizesAssumption == Sizes \subseteq [overhead : Nat, core : Nat, approval : Nat \ {0}]
ASSUME RoundsAssumption == Rounds = 8

VARIABLES
    size,      \* the run's sizes: the bundle without the digits that change (overhead),
               \* execution.json without them (core), the approved bytes (approval)
    stage,     \* "measure", "create", "written", "exhausted", "failed" or "tooLarge"
    round,     \* rounds made so far
    guess      \* `artifact_bytes`

accounting == <<size, stage, round, guess>>

\* The length of a decimal number.
Digits(n) == 1 + Cardinality({p \in Powers : p <= n})

\* The size of execution.json when it reports n bytes, and of the whole bundle.
ExecutionBytes(n) == size.core + Digits(n)
BundleBytes(n)    == size.overhead + ExecutionBytes(n) + Digits(ExecutionBytes(n))

AccountingInit ==
    /\ size \in Sizes
    /\ stage = "measure"
    /\ round = 0
    /\ guess = 0

\* Mutant: the last byte of the approval cannot be used.
Exhaust_AtLimit ==
    /\ stage = "measure"
    /\ guess >= size.approval
    /\ stage' = "exhausted"
    /\ UNCHANGED <<size, round, guess>>

\* The guess cannot be charged: the budget is exhausted.
Exhaust ==
    /\ stage = "measure"
    /\ guess > size.approval
    /\ stage' = "exhausted"
    /\ UNCHANGED <<size, round, guess>>

Converge ==
    /\ stage = "measure"
    /\ guess <= size.approval
    /\ BundleBytes(guess) = guess
    /\ stage' = "create"
    /\ UNCHANGED <<size, round, guess>>

\* Mutant: the next guess leaves room for another digit.
GuessAgain_Generous ==
    /\ stage = "measure"
    /\ guess <= size.approval
    /\ BundleBytes(guess) # guess
    /\ round' = round + 1
    /\ stage' = IF round + 1 < Rounds THEN "measure" ELSE "failed"
    /\ guess' = BundleBytes(guess) + 1
    /\ UNCHANGED size

\* Mutant: the loop has no bound, and each guess leaves room for another digit.
GuessAgain_Unbounded ==
    /\ stage = "measure"
    /\ guess <= size.approval
    /\ BundleBytes(guess) # guess
    /\ round' = round + 1
    /\ guess' = BundleBytes(guess) + 1
    /\ UNCHANGED <<size, stage>>

GuessAgain ==
    /\ stage = "measure"
    /\ guess <= size.approval
    /\ BundleBytes(guess) # guess
    /\ round' = round + 1
    /\ stage' = IF round + 1 < Rounds THEN "measure" ELSE "failed"
    /\ guess' = BundleBytes(guess)
    /\ UNCHANGED size

\* `create_evidence_bundle` looks at the size again.
Write ==
    /\ stage = "create"
    /\ stage' = IF BundleBytes(guess) > size.approval THEN "tooLarge" ELSE "written"
    /\ UNCHANGED <<size, round, guess>>

AccountingNext == Exhaust \/ Converge \/ GuessAgain \/ Write

AccountingSpec == AccountingInit /\ [][AccountingNext]_accounting

----------------------------------------------------------------------------
\* Properties.

\* Every variable keeps its type.
AccountingTypeOK ==
    /\ size \in Sizes
    /\ stage \in {"measure", "create", "written", "exhausted", "failed", "tooLarge"}
    /\ round \in 0 .. Rounds
    /\ guess \in Nat

\* Eight rounds are enough for every bundle, and no bundle that passed the
\* accounting is refused for its size when it is written.
AccountingConverges == stage \notin {"failed", "tooLarge"}

\* A run is refused for its size only if no bundle of it fits: nothing within the
\* approval would report its own size.
ExhaustedIsReal ==
    stage = "exhausted" => \A n \in 0 .. size.approval : BundleBytes(n) # n

\* The accounting finds the size of the bundle: always where there is one to find,
\* and it refuses only where there is none.
SizeIsFound == AccountingConverges /\ ExhaustedIsReal

----------------------------------------------------------------------------
\* The inductive strengthening of the two.

\* The guesses after 0.  The third is its own measure, so four rounds suffice.
FirstMeasure  == BundleBytes(0)
SecondMeasure == BundleBytes(FirstMeasure)
ThirdMeasure  == BundleBytes(SecondMeasure)

GuessesInTurn ==
    \/ round = 0 /\ guess = 0
    \/ round = 1 /\ guess = FirstMeasure
    \/ round = 2 /\ guess = SecondMeasure
    \/ round = 3 /\ guess = ThirdMeasure

\* A guess never passes a size that would report itself.
NoOvershoot == \A n \in 0 .. size.approval : BundleBytes(n) = n => guess <= n

\* What the end of the accounting says of the guess.
StageTold ==
    /\ stage \in {"create", "written"} => BundleBytes(guess) = guess /\ guess <= size.approval
    /\ stage = "exhausted" => guess > size.approval

AccountingInv ==
    /\ AccountingTypeOK
    /\ GuessesInTurn
    /\ NoOvershoot
    /\ StageTold
    /\ AccountingConverges
=============================================================================
