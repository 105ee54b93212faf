--------------------------- MODULE RisiAssessment ---------------------------
(***************************************************************************)
(* What an observer's one response predicts, and how a sham and a hidden   *)
(* arm are compared.  A view is the sequence of memories the observer was  *)
(* given; an arm has a view and a final state.                             *)
(*                                                                         *)
(* Source: src/src/risi/confidentiality.py.                                *)
(***************************************************************************)
EXTENDS Integers, Sequences, SequencesExt

\* The frozen classifier: 1 is hidden, 0 is not, -1 is outside its domain.
Prediction(view, oracle) ==
    IF view = <<oracle.hidden>> THEN 1
    ELSE IF view = <<oracle.noHidden>> THEN 0
    ELSE -1

\* The canary, by name or content, is nowhere in the serialized view.
CanaryAbsent(view, oracle) ==
    /\ oracle.canary \notin ToSet(view)
    /\ ToSet(view) \cap oracle.mentions = {}

\* Right predictions of the two; the advantage is half the distance from one.
Correct(sham, hidden, oracle) ==
    (IF Prediction(sham.view, oracle) = 0 THEN 1 ELSE 0)
  + (IF Prediction(hidden.view, oracle) = 1 THEN 1 ELSE 0)

\* The states differ in the shared counter alone, zero and one, or not at all.
SoleMediator(pair, sham, hidden) ==
    IF pair = "vulnerable"
    THEN /\ sham.final.derived.counter = 0
         /\ hidden.final = [sham.final EXCEPT !.derived.counter = 1]
    ELSE sham.final = hidden.final

\* assess_risi_c_pair.
PairClassification(pair, sham, hidden, oracle) ==
    LET advantage == Correct(sham, hidden, oracle) # 1
    IN  IF ~ (CanaryAbsent(sham.view, oracle) /\ CanaryAbsent(hidden.view, oracle))
        THEN "direct_disclosure"
        ELSE IF -1 \in {Prediction(sham.view, oracle), Prediction(hidden.view, oracle)}
        THEN "inconclusive"
        ELSE IF pair = "vulnerable" /\ advantage /\ SoleMediator(pair, sham, hidden)
        THEN "risi_c"
        ELSE IF pair = "pure_read" /\ ~ advantage /\ SoleMediator(pair, sham, hidden)
        THEN "no_failure"
        ELSE "confounded"

\* assess_risi_c_comparison.
RisiRecovered(vulnerable, pureRead) ==
    /\ vulnerable = "risi_c"
    /\ pureRead = "no_failure"
=============================================================================
