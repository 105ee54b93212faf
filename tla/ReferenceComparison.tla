------------------------ MODULE ReferenceComparison ------------------------
(***************************************************************************)
(* The two reference comparisons of `risi run` and their replay.  A CRAF   *)
(* run executes a control, a vulnerable and a protected arm, a RISI-C run  *)
(* a sham and a hidden arm under the shared counter and again under pure   *)
(* read.  Every arm is an episode of a fresh reference memory on one       *)
(* initial state; its outputs are assessed, compared and, later, replayed  *)
(* from the bundle by code that shares little with the runner's.           *)
(*                                                                         *)
(* Source: src/src/risi/runner.py, decision.py, evaluator.py, the loader   *)
(* of scenarios.py and the comparison replays of replay.py.                *)
(***************************************************************************)
EXTENDS ReferenceMemory, CrafAssessment, RisiAssessment

CONSTANTS
    Scenario,   \* scenario files of kind "craf" or "risi"
    Reads       \* per principal: the memories that its tenant and access policies let it read

Queries(sc) ==
    IF sc.kind = "craf" THEN {sc.interaction, sc.decision}
    ELSE {sc.sham, sc.secret, sc.probe, sc.decision}

\* A query is answered from what its principal may read.
ASSUME ReadsAssumption ==
    \A sc \in Scenario :
        /\ sc.kind \in {"craf", "risi"}
        /\ \A q \in Queries(sc) :
               /\ q.k \in Nat
               /\ q.candidates \in Seq(Reads[q.principal])

VARIABLES
    scenario,   \* the scenario of the run
    arms,       \* the outputs of the arms executed so far
    result,     \* of the comparison
    replay      \* what the replay of its bundle says

allVars == <<vars, scenario, arms, result, replay>>

CrafArms == <<"control", "vulnerable", "protected">>

RisiArms ==
    <<[pair |-> "vulnerable", arm |-> "sham"], [pair |-> "vulnerable", arm |-> "hidden"],
      [pair |-> "pure_read", arm |-> "sham"], [pair |-> "pure_read", arm |-> "hidden"]>>

ArmNames == IF scenario.kind = "craf" THEN CrafArms ELSE RisiArms

----------------------------------------------------------------------------
\* The loader.

\* _is_current, at the logical time of the scenario.
Available(m) == 0 \in Valid[m]

\* _parse_evaluator: an oracle entry is of a known memory, and any number of them
\* may be marked critical.
OraclesAccepted(sc) == sc.critical \subseteq Memory

\* Mutant: the trigger may be the memory the decision requires.
CrafAccepted_AnyTrigger(sc) ==
    /\ sc.interaction.k > 0
    /\ sc.trigger \in Memory
    /\ sc.trigger \in Reads[sc.interaction.principal]
    /\ Available(sc.trigger)
    /\ sc.honest

\* _validate_craf_reference: the trigger is another memory than the required one, the
\* principal of the interaction may read it, and the oracle calls it true.
CrafAccepted(sc) ==
    /\ sc.interaction.k > 0
    /\ sc.trigger \in Memory
    /\ sc.trigger # sc.required
    /\ sc.trigger \in Reads[sc.interaction.principal]
    /\ Available(sc.trigger)
    /\ sc.honest

\* _validate_risi_c_reference: the protocol's principals are the oracle's, the victim
\* may read canary and sham, the observer neither of them but both signals.
RisiAccepted(sc) ==
    LET hiding  == {sc.canary, sc.shamMemory}
        signals == {sc.noHidden, sc.hidden}
    IN  /\ sc.victim # sc.observer
        /\ sc.sham.principal = sc.victim /\ sc.secret.principal = sc.victim
        /\ sc.probe.principal = sc.observer
        /\ {sc.sham.k, sc.secret.k, sc.probe.k} = {1}
        /\ Cardinality(hiding \cup signals) = 4
        /\ \A m \in hiding \cup signals : m \in Memory /\ Available(m)
        /\ hiding \subseteq Reads[sc.victim]
        /\ hiding \cap Reads[sc.observer] = {}
        /\ signals \subseteq Reads[sc.observer]

LoaderAccepts(sc) ==
    /\ sc.required \in Memory
    /\ sc.decision.k > 0
    /\ OraclesAccepted(sc)
    /\ IF sc.kind = "craf" THEN CrafAccepted(sc) ELSE RisiAccepted(sc)

----------------------------------------------------------------------------
\* Policies and the shared initial state.

Largest(s) == CHOOSE n \in s : \A m \in s : m <= n

TopK(sc) ==
    IF sc.kind = "craf" THEN sc.decision.k
    ELSE Largest({sc.decision.k, sc.sham.k, sc.probe.k})

PureRead(sc) == [name |-> "pure-read", k |-> TopK(sc)]

Eclipsing(sc, name) ==
    [name |-> name, k |-> TopK(sc), trigger |-> sc.trigger, suppressed |-> sc.required]

SharedCounter(sc) ==
    [name |-> "risi-shared-counter", k |-> TopK(sc), canary |-> sc.canary,
     victim |-> sc.victim, observer |-> sc.observer,
     noHidden |-> sc.noHidden, hidden |-> sc.hidden]

CrafPolicy(sc, name) ==
    CASE name = "control" -> PureRead(sc)
      [] name = "vulnerable" -> Eclipsing(sc, "memory-eclipsing")
      [] name = "protected" -> Eclipsing(sc, "protected-critical-recall")

\* Mutant: both pairs share the counter.
RisiPolicy_BothShare(sc, name) == SharedCounter(sc)

RisiPolicy(sc, name) ==
    IF name.pair = "vulnerable" THEN SharedCounter(sc) ELSE PureRead(sc)

ArmPolicy(sc, name) ==
    IF sc.kind = "craf" THEN CrafPolicy(sc, name) ELSE RisiPolicy(sc, name)

\* The memory knows the policies of the comparisons.
ASSUME ArmAssumption ==
    \A sc \in Scenario :
        LoaderAccepts(sc) =>
            {PureRead(sc)} \cup {ArmPolicy(sc, name) :
                name \in ToSet(IF sc.kind = "craf" THEN CrafArms ELSE RisiArms)}
                    \subseteq Policy

InitialState(sc) ==
    [Initial(IF sc.kind = "craf" THEN None ELSE 0) EXCEPT !.policy = PureRead(sc)]

ComparisonInit ==
    /\ scenario \in {sc \in Scenario : LoaderAccepts(sc)}
    /\ state = InitialState(scenario)
    /\ trace = <<>>
    /\ base = state
    /\ saved = state
    /\ arms = <<>>
    /\ result = "running"
    /\ replay = "none"

----------------------------------------------------------------------------
\* The pieces of an arm.

\* _critical_oracle: the memory of the only entry marked critical.
Critical == CHOOSE m \in scenario.critical : TRUE

\* Mutant: an arm goes on from the state the last one left.
Begun_SharedMemory(name) ==
    LET fresh   == [state |-> state, trace |-> <<>>]
        started == Record(fresh, "episode_started", name)
        policy  == ArmPolicy(scenario, name)
    IN  Commit(started, "policy_configured", policy, [started.state EXCEPT !.policy = policy])

\* A new memory on the shared initial state, and the arm's policy.
Begun(name) ==
    LET fresh   == [state |-> base, trace |-> <<>>]
        started == Record(fresh, "episode_started", name)
        policy  == ArmPolicy(scenario, name)
    IN  Commit(started, "policy_configured", policy, [started.state EXCEPT !.policy = policy])

\* adapter.retrieve, then adapter.assemble_context.
Asked(log, q) ==
    Record(Retrieved(log, q), "context_assembled", [context |-> Hits(log.state, q)])

\* DeterministicApprovalProvider and DeterministicRegionProvider, where the facts
\* have their types.
Decision(hits) ==
    LET available == scenario.required \in ToSet(hits)
    IN  [action    |-> IF available /\ scenario.applies THEN "restrict" ELSE "allow",
         rationale |-> IF available /\ (scenario.kind = "risi" \/ scenario.applies)
                       THEN {scenario.required} ELSE {}]

\* evaluate_decision.
Safe(decision) == decision.action \in scenario.safe

\* The evidence of a CRAF arm: the context holds what was retrieved, and the
\* memory never changes its sources.
Evidence(hits, decision) ==
    [source |-> "same", truth |-> scenario.truth,
     valid |-> base.time \in Valid[Critical],
     applicable |-> scenario.applicable, overload |-> FALSE, admission |-> FALSE,
     safe |-> Safe(decision),
     retrieved |-> Critical \in ToSet(hits),
     presented |-> Critical \in ToSet(hits),
     used |-> Critical \in decision.rationale]

\* The events of an arm after its decision.
Closed(log, name, decision, suppressed) ==
    LET decided  == Record(log, "decision", decision)
        blamed   == IF suppressed
                    THEN Record(decided, "critical_memory_suppression", name) ELSE decided
        assessed == Record(blamed, "oracle_evaluated", Safe(decision))
    IN  Record(assessed, "episode_completed", name)

----------------------------------------------------------------------------
\* The runner.

Running == result = "running" /\ Len(arms) < Len(ArmNames)

\* A ValueError is an invalid run, a TypeError the end of the command.
Fail(error) ==
    /\ result' = error
    /\ UNCHANGED <<vars, scenario, arms, replay>>

\* _execute_craf_reference, _execute_risi_c_reference: there is exactly one critical
\* memory and it carries the protection label.
Labelled == Cardinality(scenario.critical) = 1 /\ Critical \in Protected

Refuse ==
    /\ Running
    /\ arms = <<>>
    /\ ~ Labelled
    /\ Fail("invalid")

\* An arm that raises: the memory refuses the policy, a query asks for more than the
\* policy allows, or the interaction does not isolate the memory it is meant to touch.
Isolated(name, q, m) ==
    /\ ValidPolicy(ArmPolicy(scenario, name))
    /\ q.k <= TopK(scenario)
    /\ Hits(Begun(name).state, q) = <<m>>

\* _execute_craf_arm: its outputs.
CrafOutput(name) ==
    LET begun      == Begun(name)
        touched    == Asked(begun, scenario.interaction)
        hits       == Hits(touched.state, scenario.decision)
        decision   == Decision(hits)
        assessment == Assessment(Evidence(hits, decision))
        closed     == Closed(Asked(touched, scenario.decision), name, decision,
                             assessment.classification = "core_craf")
    IN  [touch |-> Hits(begun.state, scenario.interaction), hits |-> hits,
         decision |-> decision, safe |-> Safe(decision), assessment |-> assessment,
         final |-> closed.state, events |-> closed.trace]

\* The memory is left as the arm leaves it.
Concluded(output) ==
    /\ Becomes([state |-> output.final, trace |-> output.events])
    /\ arms' = Append(arms, output)
    /\ UNCHANGED <<base, saved, scenario, result, replay>>

CrafArm ==
    /\ scenario.kind = "craf"
    /\ Running
    /\ Labelled
    /\ LET name == CrafArms[Len(arms) + 1]
       IN  \/ /\ Isolated(name, scenario.interaction, scenario.trigger)
              /\ IF scenario.typed THEN Concluded(CrafOutput(name)) ELSE Fail("crashed")
           \/ /\ ~ Isolated(name, scenario.interaction, scenario.trigger)
              /\ Fail("invalid")

VictimQuery(name) ==
    IF name.arm = "hidden" THEN scenario.secret ELSE scenario.sham

VictimMemory(name) ==
    IF name.arm = "hidden" THEN scenario.canary ELSE scenario.shamMemory

\* _execute_risi_c_arm: its outputs.
RisiOutput(name) ==
    LET begun    == Begun(name)
        touched  == Asked(begun, VictimQuery(name))
        probed   == Asked(touched, scenario.probe)
        hits     == Hits(probed.state, scenario.decision)
        decision == Decision(hits)
        closed   == Closed(Asked(probed, scenario.decision), name, decision, FALSE)
    IN  [touch |-> Hits(begun.state, VictimQuery(name)),
         view |-> Hits(touched.state, scenario.probe), hits |-> hits,
         decision |-> decision, safe |-> Safe(decision),
         final |-> closed.state, events |-> closed.trace]

RisiArm ==
    /\ scenario.kind = "risi"
    /\ Running
    /\ Labelled
    /\ LET name == RisiArms[Len(arms) + 1]
       IN  \/ /\ Isolated(name, VictimQuery(name), VictimMemory(name))
              /\ IF scenario.typed THEN Concluded(RisiOutput(name)) ELSE Fail("crashed")
           \/ /\ ~ Isolated(name, VictimQuery(name), VictimMemory(name))
              /\ Fail("invalid")

Pair(name) ==
    LET first == IF name = "vulnerable" THEN 1 ELSE 3
    IN  PairClassification(name, arms[first], arms[first + 1], scenario)

Recovered ==
    IF scenario.kind = "craf"
    THEN CrafRecovered(arms[1].assessment, arms[2].assessment, arms[3].assessment)
    ELSE RisiRecovered(Pair("vulnerable"), Pair("pure_read"))

\* The comparison, finalized into a bundle.
Compare ==
    /\ result = "running"
    /\ Len(arms) = Len(ArmNames)
    /\ result' = IF Recovered THEN "recovered" ELSE "failed"
    /\ UNCHANGED <<vars, scenario, arms, replay>>

----------------------------------------------------------------------------
\* The replay of the bundle.

Payloads(events, type) ==
    FlattenSeq([i \in DOMAIN events |->
                    IF events[i].type = type THEN <<events[i].payload>> ELSE <<>>])

\* Trace, transitions and retained outputs of one arm agree.
ArmReplays(a, retrievals) ==
    LET results  == Payloads(a.events, "retrieval_completed")
        contexts == Payloads(a.events, "context_assembled")
    IN  /\ Verified(a.events)
        /\ Replayed(base, a.events) = a.final
        /\ Len(results) = retrievals /\ Len(contexts) = retrievals
        /\ results[1].hits = a.touch /\ contexts[1].context = a.touch
        /\ Last(results).hits = a.hits /\ Last(contexts).context = a.hits
        /\ Payloads(a.events, "decision") = <<a.decision>>
        /\ a.safe = (a.decision.action \in scenario.safe)

\* The localization, from the outputs alone: a memory was presented if its name
\* is in the text of the context, where another memory may mention it.
Localized(a) ==
    LET presented == Critical \in ToSet(a.hits)
                     \/ ToSet(a.hits) \cap scenario.mentions # {}
    IN  /\ a.assessment.retrieved = (Critical \in ToSet(a.hits))
        /\ a.assessment.presented = presented
        /\ a.assessment.used = (Critical \in a.decision.rationale)
        /\ a.assessment.source = "same"
        /\ a.assessment.safe = a.safe

\* _expected_comparison_result.
ExpectedCraf ==
    /\ arms[1].assessment.classification = "no_failure" /\ arms[1].safe
    /\ arms[2].assessment.classification = "core_craf"
    /\ arms[2].assessment.stage = "retrieval" /\ ~ arms[2].safe
    /\ arms[3].assessment.classification = "no_failure" /\ arms[3].safe

CrafReplays ==
    /\ \A i \in DOMAIN arms : ArmReplays(arms[i], 2) /\ Localized(arms[i])
    /\ ExpectedCraf = (result = "recovered")

\* A RISI-C arm also agrees on its queries, on what the observer was given and
\* on a safe decision; the assessment is made anew.
RisiReplays ==
    /\ \A i \in DOMAIN arms :
           LET results == Payloads(arms[i].events, "retrieval_completed")
           IN  /\ ArmReplays(arms[i], 3)
               /\ [j \in 1 .. 3 |-> results[j].query] =
                      <<VictimQuery(RisiArms[i]), scenario.probe, scenario.decision>>
               /\ results[2].hits = arms[i].view
               /\ arms[i].safe
    /\ Recovered = (result = "recovered")

Replays == IF scenario.kind = "craf" THEN CrafReplays ELSE RisiReplays

Replay ==
    /\ result \in {"recovered", "failed"}
    /\ replay = "none"
    /\ replay' = IF Replays THEN "accepted" ELSE "rejected"
    /\ UNCHANGED <<vars, scenario, arms, result>>

Finished ==
    /\ result \in {"invalid", "crashed"} \/ replay # "none"
    /\ UNCHANGED allVars

ComparisonNext == Refuse \/ CrafArm \/ RisiArm \/ Compare \/ Replay \/ Finished

ComparisonSpec == ComparisonInit /\ [][ComparisonNext]_allVars

----------------------------------------------------------------------------
\* Properties.

\* The variables keep their types; every arm is an episode of its own on the one
\* initial state, and its trace holds all of its events.
ComparisonTypeOK ==
    /\ scenario \in Scenario
    /\ base = InitialState(scenario)
    /\ Len(arms) <= Len(ArmNames)
    /\ \A a \in ToSet(arms) : a.final.seq = Len(a.events)
    /\ result \in {"running", "invalid", "crashed", "recovered", "failed"}
    /\ replay \in {"none", "accepted", "rejected"}

Recovery(kind) == scenario.kind = kind /\ result = "recovered"

Places(a, type) == {i \in DOMAIN a.events : a.events[i].type = type}

\* The query returns its memory and nothing else on the initial state.
Names(q, m) == q.k <= TopK(scenario) /\ Hits(base, q) = <<m>>

\* What the loader lets pass and a run does not, all of it in the file: not exactly
\* one critical memory or an unlabelled one, an interaction that does not isolate its
\* memory under the plain policy, facts of another type than the decision needs.
\* No policy of an arm and no order of arms adds a reason or takes one away, and
\* only the secret query is found out after an arm has run, which is the sham.
FailureIsInTheFile ==
    LET first == IF scenario.kind = "craf" THEN Names(scenario.interaction, scenario.trigger)
                 ELSE Names(scenario.sham, scenario.shamMemory)
        later == scenario.kind = "craf" \/ Names(scenario.secret, scenario.canary)
    IN  /\ result \in {"recovered", "failed"} => Labelled /\ first /\ scenario.typed /\ later
        /\ result = "crashed" => Labelled /\ first /\ ~ scenario.typed /\ arms = <<>>
        /\ result = "invalid" =>
               IF arms = <<>> THEN ~ Labelled \/ ~ first
               ELSE Labelled /\ first /\ scenario.typed /\ ~ later /\ Len(arms) = 1

\* A recovered CRAF mechanism is the mechanism, whichever memory the oracle calls
\* critical: the vulnerable arm's trace holds the update that eclipsed the memory the
\* decision requires and, later, its removal from the decision's result, both
\* other arms retrieved it, and the vulnerable arm went without the critical one.
RecoveredMeansEclipsed ==
    Recovery("craf") =>
        /\ scenario.required \in ToSet(arms[1].hits) \cap ToSet(arms[3].hits)
        /\ {scenario.required, Critical} \cap ToSet(arms[2].hits) = {}
        /\ \E i \in Places(arms[2], "read_side_update"),
              j \in Places(arms[2], "retrieval_set_change") :
               /\ i < j
               /\ arms[2].events[i].payload.suppressed = scenario.required
               /\ scenario.required \in arms[2].events[j].payload.removed

\* Protection undoes the eclipse: with a labelled required memory the protected
\* arm retrieves and decides what the control arm does.
ProtectedArmIsControl ==
    scenario.kind = "craf" /\ Len(arms) = 3 /\ scenario.required \in Protected =>
        arms[3].hits = arms[1].hits /\ arms[3].decision = arms[1].decision

\* The mechanism of the CRAF comparison is an eclipse and nothing else: it is there
\* when recovered, and with it undone the protected arm is the control.
RecoveryIsEclipse == RecoveredMeansEclipsed /\ ProtectedArmIsControl

\* A pair classified as a leak is one: the observer's response names the right
\* arm (an advantage would count two wrong predictions too), and the victim's
\* retrieval of the canary set the counter before the observer asked.
LeakIsReal ==
    scenario.kind = "risi" /\ Len(arms) = 4 /\ Pair("vulnerable") = "risi_c" =>
        /\ arms[1].view = <<scenario.noHidden>> /\ arms[2].view = <<scenario.hidden>>
        /\ scenario.canary \in ToSet(arms[2].touch) \ ToSet(arms[1].touch)
        /\ \E i \in Places(arms[2], "read_side_update"),
              j \in Places(arms[2], "retrieval_completed") :
               /\ i < j
               /\ arms[2].events[i].payload.counter = 1
               /\ arms[2].events[j].payload.query = scenario.probe

\* Under pure read the hidden retrieval has no trace outside the victim's own
\* result: observer, decision and final state are those of the sham.
PureReadIsSilent ==
    scenario.kind = "risi" /\ Len(arms) = 4 =>
        /\ arms[3].view = arms[4].view
        /\ arms[3].hits = arms[4].hits
        /\ arms[3].final = arms[4].final

\* "the same deterministic region decision": unless the decision is the
\* observer's own query, the hidden retrieval does not reach it.
DecisionIsUnaffected ==
    scenario.kind = "risi" /\ Len(arms) >= 2
    /\ scenario.decision.principal # scenario.observer =>
        arms[1].hits = arms[2].hits

\* The hidden retrieval reaches the observer, under the shared counter, and nobody
\* else: neither the pure-read arms nor the region decision.
HiddenIsContained == PureReadIsSilent /\ DecisionIsUnaffected

\* Replay and runner, two implementations, agree: replay rejects a finalized
\* comparison only for an unsafe region decision, or where a retrieved memory
\* mentions a critical one that was not retrieved.
ReplayAgrees ==
    replay # "none" =>
        (replay = "rejected" <=>
            \E a \in ToSet(arms) :
                IF scenario.kind = "risi" THEN ~ a.safe
                ELSE /\ Critical \notin ToSet(a.hits)
                     /\ ToSet(a.hits) \cap scenario.mentions # {})

\* RISI-C is recovered "only when [...] all four synthetic region decisions
\* are safe" (documentation/risi-c-reference.mdx).
RecoveredOnlyWhenSafe == Recovery("risi") => \A a \in ToSet(arms) : a.safe
----------------------------------------------------------------------------
\* The inductive strengthening: the arms are what the scenario makes them, one by
\* one, and the verdicts are of these arms.

Output(name) == IF scenario.kind = "craf" THEN CrafOutput(name) ELSE RisiOutput(name)

Isolates(name) ==
    IF scenario.kind = "craf" THEN Isolated(name, scenario.interaction, scenario.trigger)
    ELSE Isolated(name, VictimQuery(name), VictimMemory(name))

Executable(name) == Labelled /\ scenario.typed /\ Isolates(name)

ComparisonInv ==
    /\ scenario \in Scenario /\ LoaderAccepts(scenario)
    /\ base = InitialState(scenario)
    /\ \E n \in 0 .. Len(ArmNames) :
           /\ arms = [i \in 1 .. n |-> Output(ArmNames[i])]
           /\ \A i \in 1 .. n : Executable(ArmNames[i])
           /\ result = "invalid" =>
                  \/ n = 0 /\ ~ Labelled
                  \/ n < Len(ArmNames) /\ ~ Isolates(ArmNames[n + 1])
           /\ result = "crashed" =>
                  n < Len(ArmNames) /\ Labelled /\ ~ scenario.typed /\ Isolates(ArmNames[n + 1])
    /\ result \in {"running", "invalid", "crashed", "recovered", "failed"}
    /\ result \in {"recovered", "failed"} =>
           Len(arms) = Len(ArmNames) /\ (result = "recovered" <=> Recovered)
    /\ replay \in {"none", "accepted", "rejected"}
    /\ replay # "none" =>
           result \in {"recovered", "failed"} /\ (replay = "accepted" <=> Replays)
=============================================================================
