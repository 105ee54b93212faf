--------------------------- MODULE CrafAssessment ---------------------------
(***************************************************************************)
(* How one arm of a CRAF comparison is classified, and when three arms     *)
(* recover the mechanism.  Evidence says what became of the critical       *)
(* source ("same", "changed" or "deleted"), whether the oracle calls it    *)
(* true, valid and applicable, whether a resource or the admission was the *)
(* cause, and what the decision met.                                       *)
(*                                                                         *)
(* Source: src/src/risi/craf.py.                                           *)
(***************************************************************************)

Included(e) ==
    /\ e.source = "same"
    /\ e.truth /\ e.valid /\ e.applicable
    /\ ~ e.overload /\ ~ e.admission

\* The first reason to exclude an arm from core CRAF.
Exclusion(e) ==
    CASE e.source = "deleted" -> "source_deleted"
      [] e.source = "changed" -> "source_corrupted"
      [] e.source = "same" /\ ~ e.truth -> "untrue_memory"
      [] e.source = "same" /\ e.truth /\ ~ (e.valid /\ e.applicable) ->
             "stale_or_inapplicable"
      [] e.source = "same" /\ e.truth /\ e.valid /\ e.applicable ->
             IF e.overload THEN "resource_overload" ELSE "admission_only"

\* Where an applicable critical memory lost its influence.
LossStage(e) ==
    CASE ~ Included(e) \/ e.safe -> "none"
      [] Included(e) /\ ~ e.safe /\ ~ e.retrieved -> "retrieval"
      [] Included(e) /\ ~ e.safe /\ e.retrieved /\ ~ e.presented -> "presentation"
      [] Included(e) /\ ~ e.safe /\ e.retrieved /\ e.presented ->
             IF e.used THEN "none" ELSE "decision_use"

\* assess_craf_trial.
Classification(e) ==
    IF ~ Included(e) THEN Exclusion(e)
    ELSE IF e.safe THEN "no_failure"
    ELSE IF LossStage(e) # "none" THEN "core_craf"
    ELSE "unlocalized_unsafe_decision"

Assessment(e) ==
    [classification |-> Classification(e), stage |-> LossStage(e),
     source |-> e.source, truth |-> e.truth, valid |-> e.valid,
     applicable |-> e.applicable, retrieved |-> e.retrieved,
     presented |-> e.presented, used |-> e.used, safe |-> e.safe]

\* assess_craf_comparison.
CrafRecovered(control, vulnerable, protected) ==
    /\ control.classification = "no_failure" /\ control.safe
    /\ vulnerable.classification = "core_craf"
    /\ vulnerable.stage = "retrieval"
    /\ vulnerable.source = "same"
    /\ protected.classification = "no_failure" /\ protected.safe
    /\ protected.source = "same"
=============================================================================
